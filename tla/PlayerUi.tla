------------------------------ MODULE PlayerUi ------------------------------
(***************************************************************************)
(* The activity that plays a game (MainActivity.java): what it believes    *)
(* about the emulator, the pause overlay, the idle timer and the frame     *)
(* watchdog, against what the core really does.                            *)
(*                                                                         *)
(* Everything the activity does runs on the UI thread, one callback per    *)
(* step; the "xbox-core-stop" threads, the core and the clock run beside   *)
(* it.  Time is counted in polls of the frame counter (every 500 ms).      *)
(***************************************************************************)
EXTENDS Naturals

CONSTANTS Stall,       \* STALL_WATCHDOG_MS
          Relog,       \* STALL_WATCHDOG_RELOG_MS
          IdleDelay,   \* PREF_AUTO_PAUSE_MS, 0 for off
          MaxTime,     \* bound on the clock
          MaxStops     \* bound on stop threads and their callbacks

ASSUME UiAssumption ==
    /\ Stall \in Nat \ {0} /\ Relog \in Nat \ {0}
    /\ IdleDelay \in Nat /\ MaxTime \in Nat /\ MaxStops \in Nat

VARIABLES
    now, pollDue,          \* SystemClock.uptimeMillis, fpsUpdateRunnable is due
    running,               \* nativeIsRunning
    vmPaused,              \* the machine is stopped
    stops, callbacks,      \* stop threads inside nativeStop, their posted results
    activity,              \* "resumed" or "paused"
    emulationPaused,
    overlay,               \* the pause overlay is visible
    lifecyclePausedCore,
    idleAt,                \* when idleAutoPauseRunnable is due, 0 if not posted
    newFrames,             \* the produced counter differs from watchdogLastProduced
    lastChange, lastLog,   \* watchdogLastChangeUptimeMs, watchdogLastLogUptimeMs
    playingSince,          \* history: when emulation last (re)started, for the UI
    lastFrame, lastInput   \* history: the last frame, the last game input or (re)start

core == <<running, vmPaused, stops, callbacks>>
ui == <<activity, emulationPaused, overlay, lifecyclePausedCore>>
watchdog == <<newFrames, lastChange, lastLog>>
history == <<playingSince, lastFrame, lastInput>>
vars == <<now, pollDue, core, ui, idleAt, watchdog, history>>

Init ==
    /\ now = 1 /\ pollDue = TRUE
    /\ running = FALSE /\ vmPaused = FALSE /\ stops = 0 /\ callbacks = 0
    /\ activity = "resumed"
    /\ emulationPaused = FALSE /\ overlay = FALSE /\ lifecyclePausedCore = FALSE
    /\ idleAt = 0
    /\ newFrames = TRUE /\ lastChange = 0 /\ lastLog = 0
    /\ playingSince = 1 /\ lastFrame = 1 /\ lastInput = 1

-----------------------------------------------------------------------------
(* The idle timer                                                          *)

ScheduleIdleAutoPause(alive, paused) ==
    idleAt' = IF IdleDelay > 0 /\ alive /\ ~paused THEN now + IdleDelay ELSE 0

CancelIdleAutoPause == idleAt' = 0

-----------------------------------------------------------------------------
(* Pausing and resuming                                                    *)

(* The machine is stopped only if the UI does not think it already is.     *)
RequestPause(showOverlay) ==
    IF ~running
    THEN UNCHANGED <<vmPaused, emulationPaused, overlay, idleAt>>
    ELSE /\ CancelIdleAutoPause
         /\ vmPaused' = (vmPaused \/ ~emulationPaused)
         /\ emulationPaused' = TRUE
         /\ overlay' = (overlay \/ showOverlay)

(* Mutant: a second press does not bring the overlay back.                 *)
TouchPause_NoOverlay ==
    /\ activity = "resumed"
    /\ lastInput' = IF emulationPaused THEN lastInput ELSE now
    /\ IF running /\ ~emulationPaused
       THEN RequestPause(TRUE)
       ELSE ScheduleIdleAutoPause(running, emulationPaused) /\ UNCHANGED <<vmPaused, emulationPaused, overlay>>
    /\ UNCHANGED <<now, pollDue, running, stops, callbacks, activity, lifecyclePausedCore, watchdog, playingSince, lastFrame>>

(* onTouchPause: the input is noted, then the pause button is handled.     *)
TouchPause ==
    /\ activity = "resumed"
    /\ lastInput' = IF emulationPaused THEN lastInput ELSE now
    /\ IF running /\ ~emulationPaused
       THEN RequestPause(TRUE)
       ELSE /\ ScheduleIdleAutoPause(running, emulationPaused)
            /\ overlay' = (overlay \/ running)
            /\ UNCHANGED <<vmPaused, emulationPaused>>
    /\ UNCHANGED <<now, pollDue, running, stops, callbacks, activity, lifecyclePausedCore, watchdog, playingSince, lastFrame>>

(* requestResume: the machine is resumed only if the UI thinks it paused.  *)
ResumeYes ==
    /\ activity = "resumed" /\ overlay
    /\ overlay' = FALSE /\ emulationPaused' = FALSE
    /\ UNCHANGED running
    /\ IF running
       THEN /\ vmPaused' = (vmPaused /\ ~emulationPaused)
            /\ ScheduleIdleAutoPause(running, FALSE) /\ lastInput' = now
       ELSE UNCHANGED <<vmPaused, idleAt, lastInput>>
    /\ playingSince' = IF emulationPaused THEN now ELSE playingSince
    /\ UNCHANGED <<now, pollDue, stops, callbacks, activity, lifecyclePausedCore, watchdog, lastFrame>>

ResumeNo ==
    /\ activity = "resumed" /\ overlay
    /\ overlay' = FALSE
    /\ UNCHANGED <<now, pollDue, core, activity, emulationPaused, lifecyclePausedCore, idleAt, watchdog, history>>

(* A game button, stick or trigger, from the touch screen or a controller. *)
GameInput ==
    /\ activity = "resumed"
    /\ UNCHANGED running
    /\ IF emulationPaused
       THEN overlay' = TRUE /\ UNCHANGED <<idleAt, lastInput>>
       ELSE ScheduleIdleAutoPause(running, FALSE) /\ lastInput' = now /\ UNCHANGED overlay
    /\ UNCHANGED <<now, pollDue, vmPaused, stops, callbacks, activity, emulationPaused, lifecyclePausedCore, watchdog, playingSince, lastFrame>>

(* idleAutoPauseRunnable                                                   *)
IdleFires ==
    /\ idleAt # 0 /\ now >= idleAt
    /\ IF running /\ ~emulationPaused
       THEN RequestPause(TRUE)
       ELSE CancelIdleAutoPause /\ UNCHANGED <<vmPaused, emulationPaused, overlay>>
    /\ UNCHANGED <<now, pollDue, running, stops, callbacks, activity, lifecyclePausedCore, watchdog, history>>

-----------------------------------------------------------------------------
(* Launching and stopping                                                  *)

(* Mutant: the pause of the previous game is remembered.                   *)
Launch_KeepsPaused ==
    /\ activity = "resumed"
    /\ running' = TRUE
    /\ vmPaused' = (running /\ vmPaused)
    /\ overlay' = FALSE
    /\ ScheduleIdleAutoPause(TRUE, emulationPaused)
    /\ playingSince' = IF running /\ ~emulationPaused THEN playingSince ELSE now
    /\ lastInput' = now
    /\ UNCHANGED <<now, pollDue, stops, callbacks, activity, emulationPaused, lifecyclePausedCore, watchdog, lastFrame>>

(* launchEmulator with everything configured.  When the core is already    *)
(* running the UI takes the game for unpaused and leaves the machine alone.*)
Launch ==
    /\ activity = "resumed"
    /\ running' = TRUE
    /\ vmPaused' = (running /\ vmPaused)
    /\ emulationPaused' = FALSE /\ overlay' = FALSE
    /\ ScheduleIdleAutoPause(TRUE, FALSE)
    /\ playingSince' = IF running /\ ~emulationPaused THEN playingSince ELSE now
    /\ lastInput' = now
    /\ UNCHANGED <<now, pollDue, stops, callbacks, activity, lifecyclePausedCore, watchdog, lastFrame>>

(* stopEmulator; quitGameToHome also hides the overlay.                    *)
Stop ==
    /\ activity = "resumed" /\ stops + callbacks < MaxStops
    /\ stops' = stops + 1
    /\ overlay' \in {overlay, FALSE}
    /\ UNCHANGED <<now, pollDue, running, vmPaused, callbacks, activity, emulationPaused, lifecyclePausedCore, idleAt, watchdog, history>>

(* nativeStop returns, with the core stopped or after its time-out.        *)
StopReturns ==
    /\ stops > 0
    /\ stops' = stops - 1 /\ callbacks' = callbacks + 1
    /\ running' \in {running, FALSE}
    /\ UNCHANGED <<now, pollDue, vmPaused, ui, idleAt, watchdog, history>>

StopCallback ==
    /\ callbacks > 0
    /\ callbacks' = callbacks - 1
    /\ CancelIdleAutoPause
    /\ emulationPaused' = FALSE /\ overlay' = FALSE
    /\ playingSince' = IF emulationPaused THEN now ELSE playingSince
    /\ UNCHANGED <<now, pollDue, running, vmPaused, stops, activity, lifecyclePausedCore, watchdog, lastFrame, lastInput>>

(* The core ends by itself, or late after a stop that timed out.           *)
CoreEnds ==
    /\ running
    /\ running' = FALSE
    /\ UNCHANGED <<now, pollDue, vmPaused, stops, callbacks, ui, idleAt, watchdog, history>>

-----------------------------------------------------------------------------
(* The activity's lifecycle                                                *)

OnPause ==
    /\ activity = "resumed"
    /\ activity' = "paused"
    /\ lifecyclePausedCore' = (lifecyclePausedCore \/ running)
    /\ RequestPause(FALSE)
    /\ UNCHANGED <<now, pollDue, running, stops, callbacks, watchdog, history>>

OnResume ==
    /\ activity = "paused"
    /\ activity' = "resumed"
    /\ overlay' = (overlay \/ (lifecyclePausedCore /\ running))
    /\ lifecyclePausedCore' = FALSE
    /\ UNCHANGED <<now, pollDue, core, emulationPaused, idleAt, watchdog, history>>

(* The system destroys the activity without finishing it and creates it    *)
(* again; the core goes on in the same process.                            *)
Recreate ==
    /\ activity = "paused"
    /\ activity' = "resumed"
    /\ emulationPaused' = FALSE /\ overlay' = FALSE /\ lifecyclePausedCore' = FALSE
    /\ CancelIdleAutoPause
    /\ newFrames' = TRUE /\ lastChange' = 0 /\ lastLog' = 0
    /\ playingSince' = now
    /\ UNCHANGED <<now, pollDue, core, lastFrame, lastInput>>

-----------------------------------------------------------------------------
(* The clock, the guest's frames and the watchdog                          *)

Tick ==
    /\ now < MaxTime /\ ~pollDue
    /\ idleAt = 0 \/ now < idleAt
    /\ now' = now + 1 /\ pollDue' = TRUE
    /\ UNCHANGED <<core, ui, idleAt, watchdog, history>>

Frame ==
    /\ running /\ ~vmPaused
    /\ newFrames' = TRUE /\ lastFrame' = now
    /\ UNCHANGED <<now, pollDue, core, ui, idleAt, lastChange, lastLog, playingSince, lastInput>>

(* Mutant: a new frame does not end the logging of the previous stall.     *)
CheckFrameWatchdog_KeepsLog ==
    IF newFrames
    THEN newFrames' = FALSE /\ lastChange' = now /\ UNCHANGED lastLog
    ELSE /\ lastLog' = IF /\ lastChange # 0 /\ ~emulationPaused
                          /\ now - lastChange >= Stall
                          /\ lastLog = 0 \/ now - lastLog >= Relog
                       THEN now ELSE lastLog
         /\ UNCHANGED <<newFrames, lastChange>>

CheckFrameWatchdog ==
    IF newFrames
    THEN newFrames' = FALSE /\ lastChange' = now /\ lastLog' = 0
    ELSE /\ lastLog' = IF /\ lastChange # 0 /\ ~emulationPaused
                          /\ now - lastChange >= Stall
                          /\ lastLog = 0 \/ now - lastLog >= Relog
                       THEN now ELSE lastLog
         /\ UNCHANGED <<newFrames, lastChange>>

(* updateFpsCounter: without a core the next sample counts as new.         *)
UpdateFpsCounter ==
    /\ pollDue
    /\ pollDue' = FALSE
    /\ IF running
       THEN CheckFrameWatchdog
       ELSE newFrames' = TRUE /\ UNCHANGED <<lastChange, lastLog>>
    /\ UNCHANGED <<now, core, ui, idleAt, history>>

Next ==
    \/ TouchPause \/ ResumeYes \/ ResumeNo \/ GameInput \/ IdleFires
    \/ Launch \/ Stop \/ StopReturns \/ StopCallback \/ CoreEnds
    \/ OnPause \/ OnResume \/ Recreate
    \/ Tick \/ Frame \/ UpdateFpsCounter

Spec == Init /\ [][Next]_vars

(* A user who wants to play on comes back to the app, presses pause and    *)
(* confirms the resume, however often the overlay has been dismissed.      *)
FairSpec ==
    /\ Spec
    /\ WF_vars(OnResume \/ Recreate) /\ WF_vars(TouchPause) /\ SF_vars(ResumeYes)
    /\ WF_vars(StopReturns) /\ WF_vars(StopCallback)

Leaves == activity = "resumed" /\ activity' = "paused"
AsksToStop == stops' > stops

-----------------------------------------------------------------------------
(* Types: the timer and the watchdog's stamps are times that have come, or *)
(* come within the idle delay.                                             *)
TypeOK ==
    /\ now \in 1..(MaxTime + 1)
    /\ {pollDue, running, vmPaused, emulationPaused, overlay, lifecyclePausedCore, newFrames} \subseteq BOOLEAN
    /\ stops + callbacks <= MaxStops
    /\ activity \in {"resumed", "paused"}
    /\ idleAt \in 0..(now + IdleDelay)
    /\ lastChange \in 0..now /\ lastLog \in 0..now

(* The UI never takes a game for paused that plays on: it would then drop  *)
(* every input (requestPause, requestResume, launchEmulator).              *)
PausedIsTrue == running /\ emulationPaused => vmPaused

(* A game is paused for inactivity only after a whole idle delay without   *)
(* an input or a (re)start (scheduleIdleAutoPause, cancelIdleAutoPause).   *)
IdlePauseIsDue ==
    idleAt # 0 => idleAt = lastInput + IdleDelay

(* What the UI believes and schedules is sound in every state it can get   *)
(* into (requestPause, launchEmulator, stopCoreAsync, onPause, onDestroy). *)
UiInv == TypeOK /\ PausedIsTrue /\ IdlePauseIsDue

(* While the UI takes the game for playing, a guest without a new frame    *)
(* for the stall time is logged, and logged again in every relog interval  *)
(* (checkFrameWatchdog).                                                   *)
StallIsLogged ==
    (/\ running /\ ~emulationPaused /\ ~pollDue /\ ~newFrames /\ lastChange # 0
     /\ now > lastFrame + Stall /\ now > playingSince + Stall)
        => lastLog > lastFrame /\ now - lastLog < Relog

(* However the UI and the machine have come apart (a launch while paused,  *)
(* a stop that timed out, a recreated activity), a user who has stopped    *)
(* leaving the app and asking it to stop gets a paused game going again    *)
(* (handlePauseButton, requestPause, requestResume).                       *)
PlayGoesOn ==
    <>[][~Leaves /\ ~AsksToStop]_vars
        => ((running /\ vmPaused) ~> (~vmPaused \/ ~running))

=============================================================================
