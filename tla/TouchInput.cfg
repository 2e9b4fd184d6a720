SPECIFICATION TouchSpec
CONSTANTS
    Pointers = {p1, p2}
    Sticks = {L, R}
    Buttons = {T}
    Analog = {T}
    Pause = Pause
    Places = {{}, {L}, {L, R, T}, {T, Pause}}
    Off = Off
    Nobody = Nobody
INVARIANTS ViewExact UntouchedIsReleased
PROPERTIES StickKeepsFinger
CHECK_DEADLOCK FALSE
