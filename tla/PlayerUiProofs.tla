--------------------------- MODULE PlayerUiProofs ---------------------------
(***************************************************************************)
(* What the activity believes is sound and a stalled guest is logged, for  *)
(* every stall time, relog interval and idle delay.                        *)
(***************************************************************************)
EXTENDS PlayerUi, TLAPS

(* Counters and stamps are numbers, and no stamp lies in the future.       *)
StampsPast ==
    /\ stops \in Nat /\ callbacks \in Nat
    /\ lastFrame \in 1..now /\ lastInput \in 1..now /\ playingSince \in 1..now

(* A running core's new frames are fresh: the poll of each tick takes them *)
(* in, and what is new without a frame is new since the game (re)started.  *)
FreshFrames ==
    running /\ newFrames =>
        \/ lastFrame = now \/ playingSince = now
        \/ pollDue /\ (lastFrame + 1 = now \/ playingSince + 1 = now)

(* The watchdog notes a change at most one poll late, and never before the *)
(* frame that it notes.                                                    *)
ChangeIsLate ==
    /\ lastChange <= lastFrame + 1 \/ lastChange <= playingSince + 1
    /\ ~newFrames => lastFrame <= lastChange

(* A logged stall is younger than the last frame, until one arrives.       *)
LogIsAfterFrame == lastLog # 0 /\ ~newFrames => lastLog > lastFrame

(* The two halves of TypeOK.                                               *)
Flags ==
    /\ pollDue \in BOOLEAN /\ running \in BOOLEAN /\ vmPaused \in BOOLEAN
    /\ emulationPaused \in BOOLEAN /\ overlay \in BOOLEAN
    /\ lifecyclePausedCore \in BOOLEAN /\ newFrames \in BOOLEAN

Numbers ==
    /\ now \in 1..(MaxTime + 1)
    /\ stops + callbacks <= MaxStops
    /\ activity \in {"resumed", "paused"}
    /\ idleAt \in 0..(now + IdleDelay)
    /\ lastChange \in 0..now /\ lastLog \in 0..now

IInv ==
    /\ UiInv /\ StampsPast /\ FreshFrames /\ ChangeIsLate /\ LogIsAfterFrame
    /\ StallIsLogged

(***************************************************************************)
(* The type invariant is the two together.                                 *)
(***************************************************************************)
LEMMA TypeSplit ==
    /\ TypeOK <=> Flags /\ Numbers
    /\ TypeOK' <=> Flags' /\ Numbers'
  BY DEF TypeOK, Flags, Numbers

(***************************************************************************)
(* onCreate establishes it.                                                *)
(***************************************************************************)
LEMMA InitIInv == Init => IInv
  <1> SUFFICES ASSUME Init PROVE IInv
    OBVIOUS
  <1> USE UiAssumption DEF Init
  <1>1. Flags
    BY ZenonT(30) DEF Flags
  <1>2. Numbers /\ StampsPast
    BY DEF Numbers, StampsPast
  <1>3. PausedIsTrue /\ IdlePauseIsDue
    BY DEF PausedIsTrue, IdlePauseIsDue
  <1>4. FreshFrames /\ ChangeIsLate /\ LogIsAfterFrame /\ StallIsLogged
    BY DEF FreshFrames, ChangeIsLate, LogIsAfterFrame, StallIsLogged
  <1> QED
    BY <1>1, <1>2, <1>3, <1>4, TypeSplit DEF IInv, UiInv

(***************************************************************************)
(* Every callback leaves the flags Boolean.                                *)
(***************************************************************************)
LEMMA FlagsKept ==
    ASSUME Flags,
           [Next]_vars
    PROVE  Flags'
  <1> USE UiAssumption DEF core, ui, watchdog, history
  <1> USE DEF Flags
  <1>1. CASE TouchPause
    BY <1>1, ZenonT(30) DEF TouchPause, RequestPause, ScheduleIdleAutoPause, CancelIdleAutoPause
  <1>2. CASE ResumeYes
    BY <1>2, ZenonT(30) DEF ResumeYes, ScheduleIdleAutoPause
  <1>3. CASE ResumeNo
    BY <1>3, ZenonT(30) DEF ResumeNo
  <1>4. CASE GameInput
    BY <1>4, ZenonT(30) DEF GameInput, ScheduleIdleAutoPause
  <1>5. CASE IdleFires
    BY <1>5, ZenonT(30) DEF IdleFires, RequestPause, CancelIdleAutoPause
  <1>6. CASE Launch
    BY <1>6, ZenonT(30) DEF Launch, ScheduleIdleAutoPause
  <1>7. CASE Stop
    BY <1>7, ZenonT(30) DEF Stop
  <1>8. CASE StopReturns
    BY <1>8, ZenonT(30) DEF StopReturns
  <1>9. CASE StopCallback
    BY <1>9, ZenonT(30) DEF StopCallback, CancelIdleAutoPause
  <1>10. CASE CoreEnds
    BY <1>10, ZenonT(30) DEF CoreEnds
  <1>11. CASE OnPause
    BY <1>11, ZenonT(30) DEF OnPause, RequestPause, CancelIdleAutoPause
  <1>12. CASE OnResume
    BY <1>12, ZenonT(30) DEF OnResume
  <1>13. CASE Recreate
    BY <1>13, ZenonT(30) DEF Recreate, CancelIdleAutoPause
  <1>14. CASE Tick
    BY <1>14 DEF Tick
  <1>15. CASE Frame
    BY <1>15 DEF Frame
  <1>16. CASE UpdateFpsCounter
    BY <1>16, ZenonT(30) DEF UpdateFpsCounter, CheckFrameWatchdog
  <1>17. CASE UNCHANGED vars
    BY <1>17 DEF vars
  <1> HIDE DEF Flags
  <1> QED
    BY <1>1, <1>2, <1>3, <1>4, <1>5, <1>6, <1>7, <1>8, <1>9,
       <1>10, <1>11, <1>12, <1>13, <1>14, <1>15, <1>16, <1>17 DEF Next

(***************************************************************************)
(* The idle timer is set within its delay and a stop thread becomes one    *)
(* callback (scheduleIdleAutoPause, stopCoreAsync).                        *)
(***************************************************************************)
LEMMA NumbersKept ==
    ASSUME Numbers /\ StampsPast,
           [Next]_vars
    PROVE  Numbers'
  <1> USE UiAssumption DEF core, ui, watchdog, history
  <1> USE DEF Numbers, StampsPast
  <1>1. CASE TouchPause
    BY <1>1 DEF TouchPause, RequestPause, ScheduleIdleAutoPause, CancelIdleAutoPause
  <1>2. CASE ResumeYes
    BY <1>2 DEF ResumeYes, ScheduleIdleAutoPause
  <1>3. CASE ResumeNo
    BY <1>3 DEF ResumeNo
  <1>4. CASE GameInput
    BY <1>4 DEF GameInput, ScheduleIdleAutoPause
  <1>5. CASE IdleFires
    BY <1>5 DEF IdleFires, RequestPause, CancelIdleAutoPause
  <1>6. CASE Launch
    BY <1>6 DEF Launch, ScheduleIdleAutoPause
  <1>7. CASE Stop
    BY <1>7 DEF Stop
  <1>8. CASE StopReturns
    BY <1>8 DEF StopReturns
  <1>9. CASE StopCallback
    BY <1>9 DEF StopCallback, CancelIdleAutoPause
  <1>10. CASE CoreEnds
    BY <1>10 DEF CoreEnds
  <1>11. CASE OnPause
    BY <1>11 DEF OnPause, RequestPause, CancelIdleAutoPause
  <1>12. CASE OnResume
    BY <1>12 DEF OnResume
  <1>13. CASE Recreate
    BY <1>13 DEF Recreate, CancelIdleAutoPause
  <1>14. CASE Tick
    BY <1>14 DEF Tick
  <1>15. CASE Frame
    BY <1>15 DEF Frame
  <1>16. CASE UpdateFpsCounter
    BY <1>16 DEF UpdateFpsCounter, CheckFrameWatchdog
  <1>17. CASE UNCHANGED vars
    BY <1>17 DEF vars
  <1> HIDE DEF Numbers, StampsPast
  <1> QED
    BY <1>1, <1>2, <1>3, <1>4, <1>5, <1>6, <1>7, <1>8, <1>9,
       <1>10, <1>11, <1>12, <1>13, <1>14, <1>15, <1>16, <1>17 DEF Next

(***************************************************************************)
(* No callback stamps the future.                                          *)
(***************************************************************************)
LEMMA StampsKept ==
    ASSUME TypeOK /\ StampsPast,
           [Next]_vars
    PROVE  StampsPast'
  <1> USE UiAssumption DEF core, ui, watchdog, history
  <1> USE DEF StampsPast, TypeOK
  <1>1. CASE TouchPause
    BY <1>1 DEF TouchPause, RequestPause, ScheduleIdleAutoPause, CancelIdleAutoPause
  <1>2. CASE ResumeYes
    BY <1>2 DEF ResumeYes, ScheduleIdleAutoPause
  <1>3. CASE ResumeNo
    BY <1>3 DEF ResumeNo
  <1>4. CASE GameInput
    BY <1>4 DEF GameInput, ScheduleIdleAutoPause
  <1>5. CASE IdleFires
    BY <1>5 DEF IdleFires, RequestPause, CancelIdleAutoPause
  <1>6. CASE Launch
    BY <1>6 DEF Launch, ScheduleIdleAutoPause
  <1>7. CASE Stop
    BY <1>7 DEF Stop
  <1>8. CASE StopReturns
    BY <1>8 DEF StopReturns
  <1>9. CASE StopCallback
    BY <1>9 DEF StopCallback, CancelIdleAutoPause
  <1>10. CASE CoreEnds
    BY <1>10 DEF CoreEnds
  <1>11. CASE OnPause
    BY <1>11 DEF OnPause, RequestPause, CancelIdleAutoPause
  <1>12. CASE OnResume
    BY <1>12 DEF OnResume
  <1>13. CASE Recreate
    BY <1>13 DEF Recreate, CancelIdleAutoPause
  <1>14. CASE Tick
    BY <1>14 DEF Tick
  <1>15. CASE Frame
    BY <1>15 DEF Frame
  <1>16. CASE UpdateFpsCounter
    BY <1>16 DEF UpdateFpsCounter, CheckFrameWatchdog
  <1>17. CASE UNCHANGED vars
    BY <1>17 DEF vars
  <1> HIDE DEF StampsPast, TypeOK
  <1> QED
    BY <1>1, <1>2, <1>3, <1>4, <1>5, <1>6, <1>7, <1>8, <1>9,
       <1>10, <1>11, <1>12, <1>13, <1>14, <1>15, <1>16, <1>17 DEF Next

(***************************************************************************)
(* What sets emulationPaused has stopped the machine (requestPause).       *)
(***************************************************************************)
LEMMA PausedKept ==
    ASSUME TypeOK /\ PausedIsTrue,
           [Next]_vars
    PROVE  PausedIsTrue'
  <1> USE UiAssumption DEF core, ui, watchdog, history
  <1> USE DEF PausedIsTrue
  <1>1. CASE TouchPause
    BY <1>1, ZenonT(30) DEF TouchPause, RequestPause, ScheduleIdleAutoPause, CancelIdleAutoPause
  <1>2. CASE ResumeYes
    BY <1>2 DEF ResumeYes, ScheduleIdleAutoPause
  <1>3. CASE ResumeNo
    BY <1>3 DEF ResumeNo
  <1>4. CASE GameInput
    BY <1>4 DEF GameInput, ScheduleIdleAutoPause
  <1>5. CASE IdleFires
    BY <1>5, ZenonT(30) DEF IdleFires, RequestPause, CancelIdleAutoPause
  <1>6. CASE Launch
    BY <1>6 DEF Launch, ScheduleIdleAutoPause
  <1>7. CASE Stop
    BY <1>7 DEF Stop
  <1>8. CASE StopReturns
    BY <1>8, ZenonT(30) DEF StopReturns
  <1>9. CASE StopCallback
    BY <1>9 DEF StopCallback, CancelIdleAutoPause
  <1>10. CASE CoreEnds
    BY <1>10 DEF CoreEnds
  <1>11. CASE OnPause
    BY <1>11, ZenonT(30) DEF OnPause, RequestPause, CancelIdleAutoPause
  <1>12. CASE OnResume
    BY <1>12 DEF OnResume
  <1>13. CASE Recreate
    BY <1>13 DEF Recreate, CancelIdleAutoPause
  <1>14. CASE Tick
    BY <1>14 DEF Tick
  <1>15. CASE Frame
    BY <1>15 DEF Frame
  <1>16. CASE UpdateFpsCounter
    BY <1>16 DEF UpdateFpsCounter, CheckFrameWatchdog
  <1>17. CASE UNCHANGED vars
    BY <1>17 DEF vars
  <1> HIDE DEF PausedIsTrue
  <1> QED
    BY <1>1, <1>2, <1>3, <1>4, <1>5, <1>6, <1>7, <1>8, <1>9,
       <1>10, <1>11, <1>12, <1>13, <1>14, <1>15, <1>16, <1>17 DEF Next

(***************************************************************************)
(* Whatever notes an input or a (re)start re-arms or cancels the timer.    *)
(***************************************************************************)
LEMMA IdleKept ==
    ASSUME TypeOK /\ StampsPast /\ IdlePauseIsDue,
           [Next]_vars
    PROVE  IdlePauseIsDue'
  <1> USE UiAssumption DEF core, ui, watchdog, history
  <1> USE DEF IdlePauseIsDue, TypeOK, StampsPast
  <1>1. CASE TouchPause
    BY <1>1 DEF TouchPause, RequestPause, ScheduleIdleAutoPause, CancelIdleAutoPause
  <1>2. CASE ResumeYes
    BY <1>2 DEF ResumeYes, ScheduleIdleAutoPause
  <1>3. CASE ResumeNo
    BY <1>3 DEF ResumeNo
  <1>4. CASE GameInput
    BY <1>4 DEF GameInput, ScheduleIdleAutoPause
  <1>5. CASE IdleFires
    BY <1>5 DEF IdleFires, RequestPause, CancelIdleAutoPause
  <1>6. CASE Launch
    BY <1>6 DEF Launch, ScheduleIdleAutoPause
  <1>7. CASE Stop
    BY <1>7 DEF Stop
  <1>8. CASE StopReturns
    BY <1>8 DEF StopReturns
  <1>9. CASE StopCallback
    BY <1>9 DEF StopCallback, CancelIdleAutoPause
  <1>10. CASE CoreEnds
    BY <1>10 DEF CoreEnds
  <1>11. CASE OnPause
    BY <1>11 DEF OnPause, RequestPause, CancelIdleAutoPause
  <1>12. CASE OnResume
    BY <1>12 DEF OnResume
  <1>13. CASE Recreate
    BY <1>13 DEF Recreate, CancelIdleAutoPause
  <1>14. CASE Tick
    BY <1>14 DEF Tick
  <1>15. CASE Frame
    BY <1>15 DEF Frame
  <1>16. CASE UpdateFpsCounter
    BY <1>16 DEF UpdateFpsCounter, CheckFrameWatchdog
  <1>17. CASE UNCHANGED vars
    BY <1>17 DEF vars
  <1> HIDE DEF IdlePauseIsDue, TypeOK, StampsPast
  <1> QED
    BY <1>1, <1>2, <1>3, <1>4, <1>5, <1>6, <1>7, <1>8, <1>9,
       <1>10, <1>11, <1>12, <1>13, <1>14, <1>15, <1>16, <1>17 DEF Next

(***************************************************************************)
(* A tick is taken only once the poll has taken the frames in.             *)
(***************************************************************************)
LEMMA FreshKept ==
    ASSUME TypeOK /\ StampsPast /\ FreshFrames,
           [Next]_vars
    PROVE  FreshFrames'
  <1> USE UiAssumption DEF core, ui, watchdog, history
  <1> USE DEF FreshFrames, TypeOK, StampsPast
  <1>1. CASE TouchPause
    BY <1>1 DEF TouchPause, RequestPause, ScheduleIdleAutoPause, CancelIdleAutoPause
  <1>2. CASE ResumeYes
    BY <1>2 DEF ResumeYes, ScheduleIdleAutoPause
  <1>3. CASE ResumeNo
    BY <1>3 DEF ResumeNo
  <1>4. CASE GameInput
    BY <1>4 DEF GameInput, ScheduleIdleAutoPause
  <1>5. CASE IdleFires
    BY <1>5 DEF IdleFires, RequestPause, CancelIdleAutoPause
  <1>6. CASE Launch
    BY <1>6 DEF Launch, ScheduleIdleAutoPause
  <1>7. CASE Stop
    BY <1>7 DEF Stop
  <1>8. CASE StopReturns
    BY <1>8, ZenonT(30) DEF StopReturns
  <1>9. CASE StopCallback
    BY <1>9 DEF StopCallback, CancelIdleAutoPause
  <1>10. CASE CoreEnds
    BY <1>10 DEF CoreEnds
  <1>11. CASE OnPause
    BY <1>11 DEF OnPause, RequestPause, CancelIdleAutoPause
  <1>12. CASE OnResume
    BY <1>12 DEF OnResume
  <1>13. CASE Recreate
    BY <1>13 DEF Recreate, CancelIdleAutoPause
  <1>14. CASE Tick
    BY <1>14 DEF Tick
  <1>15. CASE Frame
    BY <1>15 DEF Frame
  <1>16. CASE UpdateFpsCounter
    BY <1>16, ZenonT(30) DEF UpdateFpsCounter, CheckFrameWatchdog
  <1>17. CASE UNCHANGED vars
    BY <1>17 DEF vars
  <1> HIDE DEF FreshFrames, TypeOK, StampsPast
  <1> QED
    BY <1>1, <1>2, <1>3, <1>4, <1>5, <1>6, <1>7, <1>8, <1>9,
       <1>10, <1>11, <1>12, <1>13, <1>14, <1>15, <1>16, <1>17 DEF Next

(***************************************************************************)
(* The poll stamps a change when the frames it finds are fresh.            *)
(***************************************************************************)
LEMMA ChangeKept ==
    ASSUME TypeOK /\ StampsPast /\ FreshFrames /\ ChangeIsLate,
           [Next]_vars
    PROVE  ChangeIsLate'
  <1> USE UiAssumption DEF core, ui, watchdog, history
  <1> USE DEF ChangeIsLate, FreshFrames, TypeOK, StampsPast
  <1>1. CASE TouchPause
    BY <1>1 DEF TouchPause, RequestPause, ScheduleIdleAutoPause, CancelIdleAutoPause
  <1>2. CASE ResumeYes
    BY <1>2 DEF ResumeYes, ScheduleIdleAutoPause
  <1>3. CASE ResumeNo
    BY <1>3 DEF ResumeNo
  <1>4. CASE GameInput
    BY <1>4 DEF GameInput, ScheduleIdleAutoPause
  <1>5. CASE IdleFires
    BY <1>5 DEF IdleFires, RequestPause, CancelIdleAutoPause
  <1>6. CASE Launch
    BY <1>6 DEF Launch, ScheduleIdleAutoPause
  <1>7. CASE Stop
    BY <1>7 DEF Stop
  <1>8. CASE StopReturns
    BY <1>8 DEF StopReturns
  <1>9. CASE StopCallback
    BY <1>9 DEF StopCallback, CancelIdleAutoPause
  <1>10. CASE CoreEnds
    BY <1>10 DEF CoreEnds
  <1>11. CASE OnPause
    BY <1>11 DEF OnPause, RequestPause, CancelIdleAutoPause
  <1>12. CASE OnResume
    BY <1>12 DEF OnResume
  <1>13. CASE Recreate
    BY <1>13 DEF Recreate, CancelIdleAutoPause
  <1>14. CASE Tick
    BY <1>14 DEF Tick
  <1>15. CASE Frame
    BY <1>15 DEF Frame
  <1>16. CASE UpdateFpsCounter
    BY <1>16 DEF UpdateFpsCounter, CheckFrameWatchdog
  <1>17. CASE UNCHANGED vars
    BY <1>17 DEF vars
  <1> HIDE DEF ChangeIsLate, FreshFrames, TypeOK, StampsPast
  <1> QED
    BY <1>1, <1>2, <1>3, <1>4, <1>5, <1>6, <1>7, <1>8, <1>9,
       <1>10, <1>11, <1>12, <1>13, <1>14, <1>15, <1>16, <1>17 DEF Next

(***************************************************************************)
(* A stall is logged a stall time after a change that covers the last      *)
(* frame; a new frame clears the log.                                      *)
(***************************************************************************)
LEMMA LogKept ==
    ASSUME TypeOK /\ StampsPast /\ ChangeIsLate /\ LogIsAfterFrame,
           [Next]_vars
    PROVE  LogIsAfterFrame'
  <1> USE UiAssumption DEF core, ui, watchdog, history
  <1> USE DEF LogIsAfterFrame, ChangeIsLate, TypeOK, StampsPast
  <1>1. CASE TouchPause
    BY <1>1 DEF TouchPause, RequestPause, ScheduleIdleAutoPause, CancelIdleAutoPause
  <1>2. CASE ResumeYes
    BY <1>2 DEF ResumeYes, ScheduleIdleAutoPause
  <1>3. CASE ResumeNo
    BY <1>3 DEF ResumeNo
  <1>4. CASE GameInput
    BY <1>4 DEF GameInput, ScheduleIdleAutoPause
  <1>5. CASE IdleFires
    BY <1>5 DEF IdleFires, RequestPause, CancelIdleAutoPause
  <1>6. CASE Launch
    BY <1>6 DEF Launch, ScheduleIdleAutoPause
  <1>7. CASE Stop
    BY <1>7 DEF Stop
  <1>8. CASE StopReturns
    BY <1>8 DEF StopReturns
  <1>9. CASE StopCallback
    BY <1>9 DEF StopCallback, CancelIdleAutoPause
  <1>10. CASE CoreEnds
    BY <1>10 DEF CoreEnds
  <1>11. CASE OnPause
    BY <1>11 DEF OnPause, RequestPause, CancelIdleAutoPause
  <1>12. CASE OnResume
    BY <1>12 DEF OnResume
  <1>13. CASE Recreate
    BY <1>13 DEF Recreate, CancelIdleAutoPause
  <1>14. CASE Tick
    BY <1>14 DEF Tick
  <1>15. CASE Frame
    BY <1>15 DEF Frame
  <1>16. CASE UpdateFpsCounter
    BY <1>16 DEF UpdateFpsCounter, CheckFrameWatchdog
  <1>17. CASE UNCHANGED vars
    BY <1>17 DEF vars
  <1> HIDE DEF LogIsAfterFrame, ChangeIsLate, TypeOK, StampsPast
  <1> QED
    BY <1>1, <1>2, <1>3, <1>4, <1>5, <1>6, <1>7, <1>8, <1>9,
       <1>10, <1>11, <1>12, <1>13, <1>14, <1>15, <1>16, <1>17 DEF Next

(***************************************************************************)
(* Only a poll ends the grace of a tick, and it logs what is due; a game   *)
(* the UI takes for playing again has a new playingSince.                  *)
(***************************************************************************)
LEMMA StallKept ==
    ASSUME TypeOK /\ StampsPast /\ FreshFrames /\ ChangeIsLate
           /\ LogIsAfterFrame /\ StallIsLogged,
           [Next]_vars
    PROVE  StallIsLogged'
  <1> USE UiAssumption DEF core, ui, watchdog, history
  <1> USE DEF StallIsLogged, FreshFrames, ChangeIsLate, LogIsAfterFrame, TypeOK, StampsPast
  <1>1. CASE TouchPause
    BY <1>1 DEF TouchPause, RequestPause, ScheduleIdleAutoPause, CancelIdleAutoPause
  <1>2. CASE ResumeYes
    BY <1>2 DEF ResumeYes, ScheduleIdleAutoPause
  <1>3. CASE ResumeNo
    BY <1>3 DEF ResumeNo
  <1>4. CASE GameInput
    BY <1>4 DEF GameInput, ScheduleIdleAutoPause
  <1>5. CASE IdleFires
    BY <1>5 DEF IdleFires, RequestPause, CancelIdleAutoPause
  <1>6. CASE Launch
    BY <1>6 DEF Launch, ScheduleIdleAutoPause
  <1>7. CASE Stop
    BY <1>7 DEF Stop
  <1>8. CASE StopReturns
    BY <1>8, ZenonT(30) DEF StopReturns
  <1>9. CASE StopCallback
    BY <1>9 DEF StopCallback, CancelIdleAutoPause
  <1>10. CASE CoreEnds
    BY <1>10 DEF CoreEnds
  <1>11. CASE OnPause
    BY <1>11 DEF OnPause, RequestPause, CancelIdleAutoPause
  <1>12. CASE OnResume
    BY <1>12 DEF OnResume
  <1>13. CASE Recreate
    BY <1>13 DEF Recreate, CancelIdleAutoPause
  <1>14. CASE Tick
    BY <1>14 DEF Tick
  <1>15. CASE Frame
    BY <1>15 DEF Frame
  <1>16. CASE UpdateFpsCounter
    BY <1>16 DEF UpdateFpsCounter, CheckFrameWatchdog
  <1>17. CASE UNCHANGED vars
    BY <1>17 DEF vars
  <1> HIDE DEF StallIsLogged, FreshFrames, ChangeIsLate, LogIsAfterFrame, TypeOK, StampsPast
  <1> QED
    BY <1>1, <1>2, <1>3, <1>4, <1>5, <1>6, <1>7, <1>8, <1>9,
       <1>10, <1>11, <1>12, <1>13, <1>14, <1>15, <1>16, <1>17 DEF Next

(***************************************************************************)
(* Every callback, stop thread and tick preserves the whole invariant.     *)
(***************************************************************************)
LEMMA NextIInv == IInv /\ [Next]_vars => IInv'
  BY TypeSplit, FlagsKept, NumbersKept, StampsKept, PausedKept, IdleKept,
     FreshKept, ChangeKept, LogKept, StallKept DEF IInv, UiInv

(***************************************************************************)
(* The invariant holds in every state the activity can get into.           *)
(***************************************************************************)
LEMMA Invariant == Spec => []IInv
  BY InitIInv, NextIInv, PTL DEF Spec

(***************************************************************************)
(* For every idle delay: the UI takes no playing game for paused, and the  *)
(* idle timer is due exactly one delay after the last input or (re)start   *)
(* (requestPause, requestResume, launchEmulator, scheduleIdleAutoPause).   *)
(***************************************************************************)
THEOREM BeliefsAreSound == Spec => []UiInv
  <1>1. IInv => UiInv
    BY DEF IInv
  <1> QED
    BY <1>1, Invariant, PTL

(***************************************************************************)
(* For every stall time and relog interval: a guest that stops producing   *)
(* frames while the UI takes it for playing is logged, again and again     *)
(* (checkFrameWatchdog).                                                   *)
(***************************************************************************)
THEOREM StallsAreLogged == Spec => []StallIsLogged
  <1>1. IInv => StallIsLogged
    BY DEF IInv
  <1> QED
    BY <1>1, Invariant, PTL
=============================================================================
