----------------------------- MODULE TouchInput -----------------------------
(***************************************************************************)
(* The on-screen controller (TouchControllerView.onTouchEvent), the game   *)
(* pad's events (MainActivity.dispatchKeyEvent, onGenericMotionEvent) and  *)
(* the controller state the emulated USB pad reads (android_buttons and    *)
(* android_axis in xemu-android-stubs.c), with the pauses, stops and       *)
(* launches that come between a press and its release.                     *)
(*                                                                         *)
(* The handlers run on the UI thread, one at a time; only the reset that   *)
(* nativeStop makes runs on the stop thread.  Positions are abstracted to  *)
(* the set of controls whose area holds them (the layout editor may make   *)
(* areas overlap), the four D-pad directions and the two triggers are      *)
(* buttons, and a stick's value to "at rest or not".                       *)
(***************************************************************************)
EXTENDS FiniteSets, Functions

CONSTANTS
    Pointers,     \* pointer ids of a touch gesture
    Sticks,       \* leftStick and rightStick
    Buttons,      \* buttons, triggers, D-pad directions, without Pause
    Analog,       \* the buttons a motion event writes: triggers and D-pad
    Pause,        \* the Pause button, the last entry of the buttons array
    Places,       \* where a finger can be: the controls that contain the place
    Off,          \* a pointer that is not down
    Nobody        \* MotionEvent.INVALID_POINTER_ID

ASSUME TouchAssumption ==
    /\ Analog \subseteq Buttons
    /\ Pause \notin Buttons \cup Sticks
    /\ Places \subseteq SUBSET (Buttons \cup Sticks \cup {Pause})
    /\ Off \notin Places
    /\ Nobody \notin Pointers

Controls == Buttons \cup Sticks

VARIABLES
    fingers,      \* where each pointer of the gesture is
    stick,        \* activePointerId of each stick
    pressed,      \* Btn.pressed and the directions of Dpad
    padKeys,      \* buttons held down on the game pad
    padAxes,      \* axes of the game pad off their rest position
    emulationPaused,
    running,      \* g_xemu_running
    stop,         \* stopCoreAsync: "no", "asked", or "reset" by nativeStop
    held,         \* android_buttons and android_axis: what the core sees held
    carried       \* history: controls the core saw held when events were cut off

view == <<fingers, stick, pressed>>
pad == <<padKeys, padAxes>>
core == <<running, stop>>
touchVars == <<view, pad, core, emulationPaused, held, carried>>

NoFingers == [p \in Pointers |-> Off]
NoSticks == [s \in Sticks |-> Nobody]

TouchInit ==
    /\ fingers = NoFingers /\ stick = NoSticks /\ pressed = {}
    /\ padKeys = {} /\ padAxes = {}
    /\ emulationPaused = FALSE /\ running = FALSE /\ stop = "no"
    /\ held = {} /\ carried = {}

Engaged(st) == {s \in Sticks : st[s] # Nobody}

(***************************************************************************)
(* The buttons under a finger that no stick owns.                          *)
(***************************************************************************)
Down(fs, st) ==
    {b \in Buttons \cup {Pause} :
        \E p \in Pointers : fs[p] # Off /\ p \notin Range(st) /\ b \in fs[p]}

(***************************************************************************)
(* nativeSetButton and nativeSetAxis: the controls of on are written held, *)
(* those of off released.                                                  *)
(***************************************************************************)
Write(on, off) ==
    /\ held' = (held \ off) \cup on
    /\ carried' = carried \ (on \cup off)

\* Mutant: releaseStick forgets to send the rest position.
Deliver_NoRest(fs, st) ==
    LET now == Down(fs, st)
        on == (now \ pressed) \ {Pause}
        off == (pressed \ now) \ {Pause}
        sentOn == Engaged(st) \cup on
        nowHeld == (held \ off) \cup sentOn
        pauses == Pause \in now \ pressed /\ running
    IN  /\ fingers' = fs /\ stick' = st /\ pressed' = now
        /\ IF emulationPaused
           THEN UNCHANGED <<held, carried, emulationPaused>>
           ELSE /\ held' = nowHeld
                /\ carried' = (carried \ (sentOn \cup off))
                                  \cup (IF pauses THEN nowHeld ELSE {})
                /\ emulationPaused' = pauses
        /\ UNCHANGED <<pad, core>>

(***************************************************************************)
(* The common part of every touch event.  The gesture is now fs and the    *)
(* sticks belong to st: every owned stick is sent its position, a stick    *)
(* that lost its finger is sent its rest position, and every button that   *)
(* changed is sent its state.  onTouchButton and onTouchAxis drop all of   *)
(* it while emulationPaused.  Pause comes last, so what changed with it    *)
(* has been sent.                                                          *)
(***************************************************************************)
Deliver(fs, st) ==
    LET now == Down(fs, st)
        on == (now \ pressed) \ {Pause}
        off == (pressed \ now) \ {Pause}
        sentOn == Engaged(st) \cup on
        sentOff == (Engaged(stick) \ Engaged(st)) \cup off
        nowHeld == (held \ sentOff) \cup sentOn
        pauses == Pause \in now \ pressed /\ running
    IN  /\ fingers' = fs /\ stick' = st /\ pressed' = now
        /\ IF emulationPaused
           THEN UNCHANGED <<held, carried, emulationPaused>>
           ELSE /\ held' = nowHeld
                /\ carried' = (carried \ (sentOn \cup sentOff))
                                  \cup (IF pauses THEN nowHeld ELSE {})
                /\ emulationPaused' = pauses
        /\ UNCHANGED <<pad, core>>

\* Mutant: tryEngageStick without its early return.
PointerDown_Recaptures(p, q) ==
    /\ fingers[p] = Off
    /\ Deliver([fingers EXCEPT ![p] = q],
               [s \in Sticks |-> IF s \in q THEN p ELSE stick[s]])

PointerDown(p, q) ==
    /\ fingers[p] = Off
    /\ Deliver([fingers EXCEPT ![p] = q],
               [s \in Sticks |->
                   IF stick[s] = Nobody /\ s \in q THEN p ELSE stick[s]])

PointerMove(fs) ==
    /\ \A p \in Pointers : fs[p] = Off <=> fingers[p] = Off
    /\ Deliver(fs, stick)

\* Mutant: the pointer that goes up does not release its stick.
PointerUp_KeepsStick(p) ==
    /\ fingers[p] # Off
    /\ Deliver([fingers EXCEPT ![p] = Off], stick)

PointerUp(p) ==
    /\ fingers[p] # Off
    /\ Deliver([fingers EXCEPT ![p] = Off],
               [s \in Sticks |-> IF stick[s] = p THEN Nobody ELSE stick[s]])

Cancel ==
    /\ fingers # NoFingers
    /\ Deliver(NoFingers, NoSticks)

(***************************************************************************)
(* dispatchKeyEvent: a key of the game pad goes down or up.                *)
(***************************************************************************)
PadKey(b) ==
    /\ padKeys' = IF b \in padKeys THEN padKeys \ {b} ELSE padKeys \cup {b}
    /\ IF emulationPaused
       THEN UNCHANGED <<held, carried>>
       ELSE Write({b} \cap padKeys', {b} \ padKeys')
    /\ UNCHANGED <<view, padAxes, emulationPaused, core>>

(***************************************************************************)
(* onGenericMotionEvent: every axis, and the D-pad from the hat, is        *)
(* written on each event.                                                  *)
(***************************************************************************)
PadMotion(axes) ==
    /\ axes # padAxes
    /\ padAxes' = axes
    /\ IF emulationPaused
       THEN UNCHANGED <<held, carried>>
       ELSE Write(axes, (Sticks \cup Analog) \ axes)
    /\ UNCHANGED <<view, padKeys, emulationPaused, core>>

(***************************************************************************)
(* requestPause from idleAutoPauseRunnable or from the activity's onPause: *)
(* the game is paused whatever the player holds.                           *)
(***************************************************************************)
PausedByApp ==
    /\ running /\ ~emulationPaused
    /\ emulationPaused' = TRUE
    /\ carried' = carried \cup held
    /\ UNCHANGED <<view, pad, core, held>>

(***************************************************************************)
(* requestResume, from the pause menu.                                     *)
(***************************************************************************)
Resume ==
    /\ emulationPaused
    /\ emulationPaused' = FALSE
    /\ UNCHANGED <<view, pad, core, held, carried>>

(***************************************************************************)
(* launchEmulator: nativeLaunch resets the controller, unless the core is  *)
(* already running; both answers clear emulationPaused.                    *)
(***************************************************************************)
Launch ==
    /\ running' = TRUE
    /\ emulationPaused' = FALSE
    /\ IF running THEN UNCHANGED <<held, carried>>
                  ELSE held' = {} /\ carried' = {}
    /\ UNCHANGED <<view, pad, stop>>

(***************************************************************************)
(* stopEmulator and quitGameToHome start the stop thread.  nativeStop, on  *)
(* that thread, waits for the core to end or for its timeout, and then     *)
(* resets the controller under the player's fingers; the answer comes back *)
(* to the UI thread.  One stop runs at a time.                             *)
(***************************************************************************)
StopAsked ==
    /\ running /\ stop = "no"
    /\ stop' = "asked"
    /\ UNCHANGED <<view, pad, running, emulationPaused, held, carried>>

StopResets ==
    /\ stop = "asked"
    /\ stop' = "reset"
    /\ held' = {} /\ carried' = {}
    /\ UNCHANGED <<view, pad, running, emulationPaused>>

StopAnswers ==
    /\ stop = "reset"
    /\ stop' = "no"
    /\ emulationPaused' = FALSE
    /\ UNCHANGED <<view, pad, running, held, carried>>

CoreEnds ==
    /\ running
    /\ running' = FALSE
    /\ UNCHANGED <<view, pad, stop, emulationPaused, held, carried>>

(***************************************************************************)
(* The activity is destroyed and created anew while the core goes on: a    *)
(* new view without fingers, and emulationPaused is FALSE again.           *)
(***************************************************************************)
Recreate ==
    /\ fingers' = NoFingers /\ stick' = NoSticks /\ pressed' = {}
    /\ emulationPaused' = FALSE
    /\ carried' = carried \cup held
    /\ UNCHANGED <<pad, core, held>>

TouchNext ==
    \/ \E p \in Pointers : (\E q \in Places : PointerDown(p, q)) \/ PointerUp(p)
    \/ \E fs \in [Pointers -> Places \cup {Off}] : PointerMove(fs)
    \/ Cancel
    \/ \E b \in Buttons : PadKey(b)
    \/ \E axes \in SUBSET (Sticks \cup Analog) : PadMotion(axes)
    \/ PausedByApp \/ Resume
    \/ Launch \/ StopAsked \/ StopResets \/ StopAnswers \/ CoreEnds
    \/ Recreate

TouchSpec == TouchInit /\ [][TouchNext]_touchVars

-----------------------------------------------------------------------------
(* Properties.                                                             *)

(***************************************************************************)
(* onTouchEvent keeps what the view shows equal to where the fingers are:  *)
(* a stick belongs to a finger that is still down, and the buttons pressed *)
(* are the ones under a finger that no stick owns, after any mix of        *)
(* pointers going down, moving and going up.                               *)
(***************************************************************************)
ViewExact ==
    /\ fingers \in [Pointers -> Places \cup {Off}]
    /\ stick \in [Sticks -> Pointers \cup {Nobody}]
    /\ \A s \in Engaged(stick) : fingers[stick[s]] # Off
    /\ pressed = Down(fingers, stick)
    /\ held \subseteq Controls
    /\ padKeys \subseteq Buttons
    /\ padAxes \subseteq Sticks \cup Analog

(***************************************************************************)
(* The core never sees a control held that neither a finger nor the game   *)
(* pad holds, except one that was held when a pause, or a new activity,    *)
(* cut its release off (onTouchButton and onTouchAxis return early while   *)
(* emulationPaused), until that control is used again or the controller    *)
(* is reset.                                                               *)
(***************************************************************************)
Touched == pressed \cup Engaged(stick) \cup padKeys \cup padAxes

UntouchedIsReleased == held \subseteq Touched \cup carried

(***************************************************************************)
(* "Each stick tracks its own pointer id across the gesture so a second    *)
(* finger on a button never disturbs it": a touch event leaves a stick     *)
(* with its finger as long as that finger is down, and unless the game is  *)
(* paused the core is sent the stick's position with that event.           *)
(***************************************************************************)
StickKeepsFinger ==
    [][\A s \in Sticks :
          (stick[s] # Nobody /\ fingers' # fingers /\ fingers'[stick[s]] # Off)
              => /\ stick'[s] = stick[s]
                 /\ ~emulationPaused => s \in held']_touchVars
=============================================================================
