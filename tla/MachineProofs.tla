------------------------- MODULE MachineProofs -------------------------
(***************************************************************************)
(* Proofs about the APU frame thread and its callbacks, alone with a VM    *)
(* that is started and stopped (ApuLifecycle) and inside the whole control *)
(* of the virtual machine (VmControl), for every set of threads.           *)
(*                                                                         *)
(* Handshake is inductive whoever starts the VM: type correctness, no lost *)
(* wakeup, and what is_idle means.  It is shown once for the steps of      *)
(* ApuQuiesce and used for both.  In ApuLifecycle, Stillness is inductive  *)
(* on top of it when only the main loop starts the VM: with a second       *)
(* starter it is false: the second one may clear pause_requested while a   *)
(* stop waits.  In VmControl, where the UI thread starts the VM, the same  *)
(* is true again of a user who waits for each request to take effect.      *)
(***************************************************************************)
EXTENDS ApuLifecycle, VmControl, TLAPS

(* is_idle is set exactly while the frame thread is parked or on its way   *)
(* out of qemu_cond_wait, and only the main loop runs blocking callbacks.  *)
IdleMeansParked ==
    /\ is_idle <=> apuPc \in {"parked", "unpark"}
    /\ \A c \in Callers : callPc[c] # "out" => c = MainLoop

Handshake == ApuTypeOK /\ NoLostWakeup /\ IdleMeansParked

-----------------------------------------------------------------------------
(* The handshake of the frame thread with the callbacks                    *)

(* What most steps of the frame thread share: they neither park it nor     *)
(* wake it, and leave the callbacks alone.                                 *)
LEMMA AwayFromPark ==
  ASSUME Handshake,
         apuPc \notin {"parked", "unpark"},
         apuPc' \in (Locked \cup Waiting \cup {"exited"}) \ {"parked", "unpark"},
         UNCHANGED <<pause_requested, is_idle, exiting, calls, quiesced>>,
         set_irq' \in BOOLEAN, seOn' \in BOOLEAN, dspDirty' \in BOOLEAN
  PROVE  Handshake'
<1>1. ApuTypeOK'
  BY DEF Handshake, ApuTypeOK, calls
<1>2. ~is_idle
  BY DEF Handshake, IdleMeansParked
<1>3. NoLostWakeup' /\ IdleMeansParked'
  BY <1>2 DEF Handshake, NoLostWakeup, IdleMeansParked, calls
<1> QED
  BY <1>1, <1>3 DEF Handshake

(* A step that does not touch the APU.                                     *)
LEMMA HandshakeKept ==
  ASSUME Handshake, UNCHANGED <<apuPc, device, calls, quiesced>>
  PROVE  Handshake'
  BY DEF Handshake, ApuTypeOK, NoLostWakeup, IdleMeansParked, device, calls

(* The frame thread (mcpx_apu_frame_thread).                               *)
LEMMA HandshakeThread ==
  ASSUME Handshake, ApuThread
  PROVE  Handshake'
<1> USE DEF Handshake, ApuTypeOK, NoLostWakeup, IdleMeansParked, Locked, Waiting
<1>1. CASE Park
  <2>1. ApuTypeOK' /\ IdleMeansParked'
    BY <1>1 DEF Park
  <2>2. NoLostWakeup'
    <3>1. ASSUME NEW c \in Callers, callPc'[c] = "wait" PROVE FALSE
      BY <1>1, <3>1 DEF Park
    <3> QED  BY <1>1, <3>1 DEF Park
  <2> QED  BY <2>1, <2>2
<1>2a. CASE SpuriousWake
  BY <1>2a DEF SpuriousWake, device, calls
<1>2b. CASE Unpark
  BY <1>2b, ZenonT(30) DEF Unpark, calls
<1>3. CASE ThreadExit \/ PassHead \/ RaiseIrq \/ Relock \/ OffTimeout
  <2>1. apuPc \notin {"parked", "unpark"} /\ set_irq' \in BOOLEAN
    BY <1>3, ZenonT(30) DEF ThreadExit, PassHead, RaiseIrq, Relock, OffTimeout, device
  <2>2. apuPc' \in {"exited", "pace", "irq", "relock", "off", "head"}
    BY <1>3 DEF ThreadExit, PassHead, RaiseIrq, Relock, OffTimeout
  <2>3. UNCHANGED <<bql, pause_requested, is_idle, exiting, seOn, dspDirty, calls, quiesced>>
    BY <1>3 DEF ThreadExit, PassHead, RaiseIrq, Relock, OffTimeout, device
  <2> QED  BY <2>1, <2>2, <2>3, AwayFromPark
<1>4. CASE ThrottleWait \/ ThrottleTimeout \/ FrameBegin \/ VoicesLocked \/ VoicesTimeout
  <2>1. apuPc \notin {"parked", "unpark"} /\ apuPc' \in {"throttle", "pace", "frame", "voices"}
    BY <1>4 DEF ThrottleWait, ThrottleTimeout, FrameBegin, VoicesLocked, VoicesTimeout
  <2>2. UNCHANGED <<bql, device, calls, quiesced>>
    BY <1>4 DEF ThrottleWait, ThrottleTimeout, FrameBegin, VoicesLocked, VoicesTimeout
  <2> QED  BY <2>1, <2>2, AwayFromPark DEF device
<1>5. CASE FrameEnd
  <2>1. set_irq' \in BOOLEAN /\ seOn' \in BOOLEAN /\ dspDirty' \in BOOLEAN
    BY <1>5, Zenon DEF FrameEnd
  <2>2. apuPc = "frame" /\ apuPc' = "head"
        /\ UNCHANGED <<bql, pause_requested, is_idle, exiting, calls, quiesced>>
    BY <1>5 DEF FrameEnd
  <2> QED  BY <2>1, <2>2, AwayFromPark
<1> QED
  BY <1>1, <1>2a, <1>2b, <1>3, <1>4, <1>5 DEF ApuThread

(* The guest's register writes (mcpx_apu_write).                           *)
LEMMA HandshakeWrite ==
  ASSUME Handshake, RegWrite
  PROVE  Handshake'
<1> USE DEF Handshake, ApuTypeOK, NoLostWakeup, IdleMeansParked, Locked, Waiting
<1> QED
  BY ZenonT(60) DEF RegWrite, Signalled, calls

(* A callback begins: stop, reset or exit (mcpx_apu_vm_state_change,       *)
(* mcpx_apu_reset_hold, mcpx_apu_exitfn).                                  *)
LEMMA HandshakeBegin ==
  ASSUME Handshake, NEW op \in Ops, CallBegin(MainLoop, op)
  PROVE  Handshake'
  BY DEF Handshake, ApuTypeOK, NoLostWakeup, IdleMeansParked, CallBegin, device, Callers

(* The start callback, on whatever thread calls vm_start.                  *)
LEMMA HandshakeRun ==
  ASSUME Handshake, NEW c \in Callers, RunHandler(c)
  PROVE  Handshake'
  BY ZenonT(30) DEF Handshake, ApuTypeOK, NoLostWakeup, IdleMeansParked, Locked, Waiting, RunHandler, Signalled,
     LockFree, calls

(* A callback inside mcpx_apu_wait_for_idle, and on its way out.           *)
LEMMA HandshakeCall ==
  ASSUME Handshake, NEW c \in Callers, CallStep(c)
  PROVE  Handshake'
<1> USE DEF Handshake, ApuTypeOK, NoLostWakeup, IdleMeansParked, Locked, Waiting
<1>1. CASE CallLock(c)
  <2>1. CASE is_idle
    BY <1>1, <2>1 DEF CallLock, Idle, Signalled, LockFree
  <2>2. CASE ~is_idle
    BY <1>1, <2>2 DEF CallLock, Signalled, LockFree
  <2> QED  BY <2>1, <2>2
<1>2. CASE CallRecheck(c)
  <2>1. CASE is_idle /\ callOp[c] = "stop"
    BY <1>2, <2>1 DEF CallRecheck, Idle, LockFree
  <2>2. CASE is_idle /\ callOp[c] # "stop"
    BY <1>2, <2>2 DEF CallRecheck, Idle, Signalled, LockFree
  <2>3. CASE ~is_idle
    BY <1>2, <2>3 DEF CallRecheck, LockFree
  <2> QED  BY <2>1, <2>2, <2>3
<1>3. CASE CallEnd(c)
  BY <1>3 DEF CallEnd, device
<1> QED
  BY <1>1, <1>2, <1>3 DEF CallStep

(* The locks and callbacks as the frame thread leaves them: it neither     *)
(* takes the BQL across steps nor begins or ends a callback.               *)
LEMMA ThreadFrame ==
  ASSUME Handshake, ApuThread
  PROVE  /\ bql' = bql /\ callOp' = callOp
         /\ callPc'[MainLoop] = "out" <=> callPc[MainLoop] = "out"
<1>1. CASE Park
  BY <1>1 DEF Park, Handshake, ApuTypeOK, Callers
<1>2. CASE SpuriousWake \/ Unpark \/ ThreadExit \/ PassHead \/ RaiseIrq \/ Relock \/ OffTimeout
  BY <1>2 DEF SpuriousWake, Unpark, ThreadExit, PassHead, RaiseIrq, Relock, OffTimeout, calls
<1>3. CASE ThrottleWait \/ ThrottleTimeout \/ FrameBegin \/ VoicesLocked \/ VoicesTimeout \/ FrameEnd
  BY <1>3 DEF ThrottleWait, ThrottleTimeout, FrameBegin, VoicesLocked, VoicesTimeout, FrameEnd, calls
<1> QED
  BY <1>1, <1>2, <1>3 DEF ApuThread

-----------------------------------------------------------------------------
(* ApuLifecycle                                                            *)

(* A callback that waits for the thread keeps the pause requested.         *)
WaitingPauses == callPc[MainLoop] \in {"wait", "recheck"} => pause_requested

(* The stop callback has not yet copied the DSPs.                          *)
Stopping == callOp[MainLoop] = "stop" /\ callPc[MainLoop] \in {"lock", "wait", "recheck"}

(* A VM that is stopped and has copied its DSPs is quiesced, or was reset  *)
(* since and has its engine off.                                           *)
StoppedIsStill ==
    ~vmRunning /\ ~Stopping =>
        /\ ~dspDirty
        /\ quiesced \/ (~seOn /\ apuPc \notin {"pace", "throttle", "frame", "voices"})

Stillness == WaitingPauses /\ QuiescedIsStill /\ SavedStateCurrent /\ StoppedIsStill

(* A freshly realized device meets the handshake (mcpx_apu_realize).       *)
LEMMA HandshakeInit == Init => Handshake /\ TypeOK
  BY ThreadsAssumption, ZenonT(30) DEF Init, ApuInit, Handshake, TypeOK, ApuTypeOK, NoLostWakeup, IdleMeansParked,
     Callers, NoOwner, Locked, Waiting, Ops

(* Every step of the frame thread, of a callback and of the guest preserves *)
(* the handshake, whatever thread starts the VM.                           *)
LEMMA HandshakeNext == Handshake /\ TypeOK /\ [Next]_vars => (Handshake /\ TypeOK)'
<1> SUFFICES ASSUME Handshake, TypeOK, [Next]_vars PROVE Handshake' /\ bql' \in Callers \cup {NoOwner}
  BY DEF Handshake, TypeOK
<1>0. bql \in Callers \cup {NoOwner}
  BY DEF TypeOK
<1>1. CASE ApuThread
  BY <1>0, <1>1, HandshakeThread, ThreadFrame
<1>2. CASE Guest
  BY <1>0, <1>2, HandshakeWrite, ZenonT(30) DEF Guest, RegWrite
<1>3. CASE VmStop \/ VmReset \/ VmExit
  <2>1. PICK op \in Ops : CallBegin(MainLoop, op)
    BY <1>3 DEF VmStop, VmReset, VmExit, Ops
  <2> QED
    BY <2>1, HandshakeBegin, ZenonT(30) DEF CallBegin
<1>4. ASSUME NEW c \in Callers, TakeBql(c) \/ ReleaseBql(c)
      PROVE  Handshake' /\ bql' \in Callers \cup {NoOwner}
  BY <1>4, HandshakeKept DEF TakeBql, ReleaseBql
<1>5. ASSUME NEW c \in Callers, VmStart(c)
      PROVE  Handshake' /\ bql' \in Callers \cup {NoOwner}
  BY <1>0, <1>5, HandshakeRun, ZenonT(30) DEF VmStart, RunHandler
<1>6. ASSUME NEW c \in Callers, CallStep(c)
      PROVE  Handshake' /\ bql' \in Callers \cup {NoOwner}
  BY <1>0, <1>6, HandshakeCall, ZenonT(30) DEF CallStep, CallLock, CallRecheck, CallEnd
<1>7. CASE UNCHANGED vars
  BY <1>0, <1>7, HandshakeKept DEF vars, apuVars
<1> QED
  BY <1>1, <1>2, <1>3, <1>4, <1>5, <1>6, <1>7 DEF Next

(* Type correctness of the APU and its callbacks under any starters.       *)
THEOREM TypeCorrect == Spec => []TypeOK
  BY HandshakeInit, HandshakeNext, PTL DEF Spec

(* No wakeup is lost, whichever threads call vm_start: the condvar         *)
(* protocol of mcpx_apu_wait_for_idle, mcpx_apu_resume and the frame       *)
(* thread's park never leaves both sides asleep.                           *)
THEOREM WakeupsKept == Spec => []NoLostWakeup
<1>1. Handshake => NoLostWakeup
  BY DEF Handshake
<1> QED
  BY <1>1, HandshakeInit, HandshakeNext, PTL DEF Spec
-----------------------------------------------------------------------------
(* From here on only the main loop starts the VM.                          *)

(* A realized device is parked and has nothing to copy.                    *)
LEMMA StillnessInit == Init => Stillness
  BY DEF Init, ApuInit, Stillness, WaitingPauses, QuiescedIsStill, SavedStateCurrent, StoppedIsStill,
     Stopping, Callers

(* With start and stop on one thread, no step moves a quiesced APU or makes *)
(* its saved DSP state stale (mcpx_apu_vm_state_change).                   *)
LEMMA StillnessNext ==
  ASSUME Starters = {}, Handshake, Stillness, [Next]_vars
  PROVE  Stillness'
<1> USE DEF Stillness, WaitingPauses, QuiescedIsStill, SavedStateCurrent, StoppedIsStill, Stopping
<1>0. /\ Callers = {MainLoop}
      /\ callPc \in [{MainLoop} -> {"out", "lock", "wait", "recheck", "bql"}]
      /\ callOp \in [{MainLoop} -> Ops]
      /\ is_idle <=> apuPc \in {"parked", "unpark"}
  BY DEF Handshake, ApuTypeOK, IdleMeansParked, Callers
<1>1. CASE Park /\ UNCHANGED vmRunning
  <2>1. callPc'[MainLoop] \in {"wait", "recheck"} <=> callPc[MainLoop] \in {"wait", "recheck"}
    BY <1>0, <1>1 DEF Park
  <2>2. Stopping' <=> Stopping
    BY <1>0, <1>1 DEF Park
  <2>3. QuiescedIsStill' /\ SavedStateCurrent' /\ WaitingPauses'
    BY <1>1, <2>1 DEF Park
  <2>4. StoppedIsStill'
    <3> USE DEF StoppedIsStill
    <3> HIDE DEF Stopping
    <3> QED  BY <1>1, <2>2 DEF Park
  <2> QED  BY <2>3, <2>4
<1>2. CASE (SpuriousWake \/ Unpark \/ ThreadExit) /\ UNCHANGED vmRunning
  BY <1>2 DEF SpuriousWake, Unpark, ThreadExit, device, calls
<1>3. CASE (PassHead \/ RaiseIrq \/ Relock \/ OffTimeout) /\ UNCHANGED vmRunning
  BY <1>3 DEF PassHead, RaiseIrq, Relock, OffTimeout, device, calls
<1>4. CASE (ThrottleWait \/ ThrottleTimeout \/ FrameBegin \/ VoicesLocked \/ VoicesTimeout) /\ UNCHANGED vmRunning
  BY <1>4 DEF ThrottleWait, ThrottleTimeout, FrameBegin, VoicesLocked, VoicesTimeout, device, calls
<1>5. CASE FrameEnd /\ UNCHANGED vmRunning
  BY <1>5 DEF FrameEnd, calls
<1>6. CASE Guest
  BY <1>6 DEF Guest, RegWrite, Signalled, calls
<1>7. CASE VmStop \/ VmReset \/ VmExit
  BY <1>0, <1>7 DEF VmStop, VmReset, VmExit, CallBegin, device
<1>8. CASE TakeBql(MainLoop) \/ ReleaseBql(MainLoop)
  BY <1>8 DEF TakeBql, ReleaseBql, device, calls
<1>9. CASE VmStart(MainLoop)
  BY <1>9 DEF VmStart, RunHandler, Signalled, LockFree, calls
<1>10. CASE CallLock(MainLoop) /\ UNCHANGED vmRunning
  BY <1>0, <1>10, ZenonT(30) DEF CallLock, Idle, Signalled, LockFree, Ops
<1>11. CASE CallRecheck(MainLoop) /\ UNCHANGED vmRunning
  BY <1>0, <1>11, ZenonT(30) DEF CallRecheck, Idle, Signalled, LockFree, Ops
<1>12. CASE CallEnd(MainLoop) /\ UNCHANGED vmRunning
  BY <1>0, <1>12 DEF CallEnd, device
<1>13. CASE UNCHANGED vars
  BY <1>13 DEF vars, apuVars, device, calls
<1>14. CASE \E c \in Callers : \/ TakeBql(c) \/ ReleaseBql(c) \/ VmStart(c)
                               \/ CallStep(c) /\ UNCHANGED vmRunning
  BY <1>0, <1>8, <1>9, <1>10, <1>11, <1>12, <1>14 DEF CallStep
<1> QED
  BY <1>1, <1>2, <1>3, <1>4, <1>5, <1>6, <1>7, <1>13, <1>14, ZenonT(30) DEF Next, ApuThread

(* The handshake and the stillness together are an invariant.              *)
LEMMA StillnessAlways ==
  ASSUME Starters = {}
  PROVE  Spec => [](Handshake /\ TypeOK /\ Stillness)
<1>1. Handshake /\ TypeOK /\ Stillness /\ [Next]_vars => (Handshake /\ TypeOK /\ Stillness)'
  BY HandshakeNext, StillnessNext
<1> QED
  BY <1>1, HandshakeInit, StillnessInit, PTL DEF Spec

(* When one thread starts and stops the VM, the frame thread is nowhere    *)
(* near a frame from the return of the stop callback until the APU is      *)
(* released.                                                               *)
THEOREM Quiesced ==
  ASSUME Starters = {}
  PROVE  Spec => []QuiescedIsStill
<1>1. Handshake /\ Stillness => QuiescedIsStill
  BY DEF Stillness
<1> QED
  BY <1>1, StillnessAlways, PTL

(* Under the same assumption the DSP state that would be saved is current. *)
THEOREM SavedCurrent ==
  ASSUME Starters = {}
  PROVE  Spec => []SavedStateCurrent
<1>1. Handshake /\ Stillness => SavedStateCurrent
  BY DEF Stillness
<1> QED
  BY <1>1, StillnessAlways, PTL

(* Under the same assumption the start callback never rolls the DSPs back, *)
(* not even after a reset of a stopped VM, which releases the APU.         *)
THEOREM NoRollback ==
  ASSUME Starters = {}
  PROVE  Spec => NoDspRollback
<1>1. Handshake /\ Stillness /\ [Next]_vars => [(\E c \in Callers : VmStart(c)) => ~dspDirty]_vars
  <2> SUFFICES ASSUME Handshake, Stillness, NEW c \in Callers, VmStart(c)
               PROVE  ~dspDirty
    OBVIOUS
  <2>1. c = MainLoop /\ callPc[MainLoop] = "out" /\ ~vmRunning
    BY DEF VmStart, RunHandler, Callers
  <2> QED  BY <2>1 DEF Stillness, StoppedIsStill, Stopping
<1> QED
  BY <1>1, StillnessAlways, PTL DEF Spec, NoDspRollback

-----------------------------------------------------------------------------
(* VmControl                                                               *)

(* A transition that waits for the vCPU or for the replay lock is a pause, *)
(* a reset or the end of the core (pause_all_vcpus).                       *)
OpInv == mPc \in {"vcpus", "replay"} => mOp # "none"

(* The main loop is in an APU callback only at the end of a stop or of a   *)
(* reset, without the BQL, and in nv2a_lock_fifo only where it locks the   *)
(* FIFO.                                                                   *)
CallInv ==
    /\ callPc[MainLoop] # "out" => mPc \in {"stopped", "rstEnd"} /\ bql # MainLoop
    /\ callPc[MainLoop] # "out" /\ mPc = "stopped" => callOp[MainLoop] = "stop"
    /\ fifoPc[MainLoop] # "out" => mPc \in {"rstFifo1", "rstFifo2", "quitFifo"}

(* What holds of the virtual machine whatever the user and the guest do.   *)
MachineInv == Handshake /\ VmInv /\ OpInv /\ CallInv

(* The threads are distinct, and none of them is nobody.                   *)
LEMMA Threads ==
  ASSUME UI \in Starters
  PROVE  /\ MainLoop \in Callers /\ UI \in Callers /\ UI # MainLoop
         /\ MainLoop # NoOwner /\ UI # NoOwner
         /\ NoOwner \notin Callers
         /\ VCpu # MainLoop /\ VCpu # UI
  BY ThreadsAssumption, UserAssumption DEF Callers, NoOwner

(* The frame thread and the callbacks keep their handshake inside the      *)
(* machine, where the UI thread runs the start callback.                   *)
LEMMA MachineHandshake ==
  ASSUME UI \in Starters, Handshake, [VmNext]_vmVars
  PROVE  Handshake'
<1>1. CASE MainCallsApu
  <2>1. "stop" \in Ops /\ "reset" \in Ops
    BY DEF Ops
  <2> QED  BY <1>1, <2>1, HandshakeBegin DEF MainCallsApu
<1>2. CASE MainInApu
  BY <1>2, Threads, HandshakeCall DEF MainInApu
<1>3. CASE ResumeApu
  BY <1>3, Threads, HandshakeRun DEF ResumeApu
<1>4. CASE GuestApuWrite
  BY <1>4, HandshakeWrite DEF GuestApuWrite
<1>5. CASE Apu
  BY <1>5, HandshakeThread DEF Apu
<1>6. CASE MainWakes \/ CheckShutdown \/ CheckReset \/ CheckVmstop \/ VcpusPaused \/ ReplayLocked \/ MainFifoLock
  BY <1>6, HandshakeKept DEF MainWakes, CheckShutdown, CheckReset, CheckVmstop, VcpusPaused, ReplayLocked, MainFifoLock, apuVars, apuOnly
<1>7. CASE MainFifoUnlock \/ FlushWaited \/ StopEnds \/ ResetEnds \/ CoreEnds \/ PostVmstop \/ ResumeBegin
  BY <1>7, HandshakeKept DEF MainFifoUnlock, FlushWaited, StopEnds, ResetEnds, CoreEnds, PostVmstop, ResumeBegin, apuVars, apuOnly
<1>8. CASE ResumeFifoLock \/ ResumeFifoUnlock \/ ResumeCpus \/ RequestPause \/ RequestResume \/ Watchdog \/ RequestShutdown
  BY <1>8, HandshakeKept DEF ResumeFifoLock, ResumeFifoUnlock, ResumeCpus, RequestPause, RequestResume, Watchdog, RequestShutdown, apuVars, apuOnly
<1>9. CASE GuestReset \/ GuestFifoWrite \/ VCpuStops \/ PfifoIrqBegin \/ PfifoIrqRaise \/ PfifoIdle
  BY <1>9, HandshakeKept DEF GuestReset, GuestFifoWrite, VCpuStops, PfifoIrqBegin, PfifoIrqRaise, PfifoIdle, apuVars, apuOnly
<1>10. CASE \E t \in Callers : FifoStep(t)
  BY <1>10, HandshakeKept DEF FifoStep, apuOnly
<1>11. CASE UNCHANGED vmVars
  BY <1>11, HandshakeKept DEF vmVars, apuVars
<1> QED
  BY <1>1, <1>2, <1>3, <1>4, <1>5, <1>6, <1>7, <1>8, <1>9, <1>10, <1>11 DEF VmNext, Main, UiThread, User, GuestStep

(* Types of the machine: its flags, and the rest.                          *)
FlagsOK ==
    /\ shutdownRequested \in BOOLEAN /\ resetRequested \in BOOLEAN
    /\ cpuStop \in BOOLEAN /\ cpuStopped \in BOOLEAN
    /\ flush_pending \in BOOLEAN /\ emulationPaused \in BOOLEAN

PlacesOK ==
    /\ bql \in Callers \cup {NoOwner, VCpu}
    /\ runstate \in RunStates
    /\ vmstop \in {"none", "PAUSED"}
    /\ mPc \in {"poll", "shutdown", "reset", "vmstop", "vcpus", "replay", "rstFifo1", "rstFlush",
                "rstFifo2", "rstApu", "rstEnd", "quitFifo", "quitWait", "apuStop", "stopped", "done"}
    /\ mOp \in {"none", "pause", "reset", "quit"}
    /\ pfLock \in Callers \cup {NoOwner}
    /\ pfPc \in {"asleep", "awake", "irq"}
    /\ fifoPc \in [Callers -> {"out", "idle", "woken", "bql", "both"}]
    /\ uPc \in {"idle", "pause", "resume", "apu", "fifo", "cpus"}
    /\ pauses \in 0..MaxPauses

(* They make up VmTypeOK with the types of the APU.                        *)
LEMMA TypeParts ==
  /\ VmTypeOK <=> ApuTypeOK /\ FlagsOK /\ PlacesOK
  /\ VmTypeOK' <=> ApuTypeOK' /\ FlagsOK' /\ PlacesOK'
  BY ZenonT(30) DEF VmTypeOK, FlagsOK, PlacesOK

(* The flags stay flags (vmstop and reset requests, cpu->stop).            *)
LEMMA MachineFlags ==
  ASSUME FlagsOK, [VmNext]_vmVars
  PROVE  FlagsOK'
<1> USE DEF FlagsOK
<1>1. CASE CheckShutdown \/ CheckReset
  BY <1>1, ZenonT(30) DEF CheckShutdown, CheckReset, DoVmStop, PauseVcpus, vm, fifo, user
<1>2. CASE CheckVmstop \/ ResetEnds \/ MainFifoUnlock
  BY <1>2, ZenonT(30) DEF CheckVmstop, ResetEnds, MainFifoUnlock, DoVmStop, PauseVcpus, vm, fifo, user
<1>3. CASE ResumeBegin \/ ResumeCpus \/ PostVmstop
  BY <1>3, ZenonT(30) DEF ResumeBegin, ResumeCpus, PostVmstop, LogWatchdogSnapshot, vm, fifo, user
<1>4. CASE RequestPause \/ RequestResume \/ Watchdog \/ RequestShutdown
  BY <1>4, ZenonT(30) DEF RequestPause, RequestResume, Watchdog, RequestShutdown, LogWatchdogSnapshot, vm, fifo, user
<1>5. CASE GuestReset \/ VCpuStops \/ PfifoIrqBegin \/ PfifoIdle
  BY <1>5, ZenonT(30) DEF GuestReset, VCpuStops, PfifoIrqBegin, PfifoIdle, vm, fifo, user
<1>6. CASE MainWakes \/ VcpusPaused \/ ReplayLocked \/ MainFifoLock \/ FlushWaited \/ MainCallsApu \/ MainInApu \/ StopEnds \/ CoreEnds
  BY <1>6, ZenonT(30) DEF MainWakes, VcpusPaused, ReplayLocked, MainFifoLock, FlushWaited, MainCallsApu, MainInApu, StopEnds, CoreEnds, FifoLock, vm, fifo, user
<1>7. CASE ResumeApu \/ ResumeFifoLock \/ ResumeFifoUnlock \/ GuestApuWrite \/ GuestFifoWrite \/ PfifoIrqRaise
  BY <1>7, ZenonT(30) DEF ResumeApu, ResumeFifoLock, ResumeFifoUnlock, GuestApuWrite, GuestFifoWrite, PfifoIrqRaise, FifoLock, vm, fifo, user
<1>8. CASE Apu \/ (\E t \in Callers : FifoStep(t)) \/ UNCHANGED vmVars
  BY <1>8, ZenonT(30) DEF Apu, FifoStep, FifoWoken, FifoBql, vmVars, vm, fifo, user
<1> QED
  BY <1>1, <1>2, <1>3, <1>4, <1>5, <1>6, <1>7, <1>8 DEF VmNext, Main, UiThread, User, GuestStep

(* Every thread stays at a place of its program.                           *)
LEMMA MachinePlaces ==
  ASSUME UI \in Starters, Handshake, PlacesOK, OpInv, [VmNext]_vmVars
  PROVE  PlacesOK'
<1> USE DEF PlacesOK, RunStates, OpInv
<1>0. MainLoop \in Callers /\ UI \in Callers /\ MaxPauses \in Nat
  BY Threads, UserAssumption
<1>1. CASE MainWakes
  BY <1>1, <1>0 DEF MainWakes, vm, fifo, user
<1>2. CASE CheckShutdown
  BY <1>2, <1>0 DEF CheckShutdown, DoVmStop, PauseVcpus, fifo, user
<1>3. CASE CheckReset
  BY <1>3, <1>0 DEF CheckReset, PauseVcpus, fifo, user
<1>4. CASE CheckVmstop
  BY <1>4, <1>0 DEF CheckVmstop, DoVmStop, PauseVcpus, fifo, user
<1>5. CASE VcpusPaused
  BY <1>5, <1>0 DEF VcpusPaused, apuVars, vm, fifo, user
<1>6. CASE ReplayLocked
  BY <1>6, <1>0 DEF ReplayLocked, vm, fifo, user
<1>7. CASE MainFifoLock
  BY <1>7, <1>0 DEF MainFifoLock, FifoLock, vm, main, user
<1>8. CASE MainFifoUnlock
  BY <1>8, <1>0 DEF MainFifoUnlock, FifoUnlock, vm, user
<1>9. CASE FlushWaited
  BY <1>9, <1>0 DEF FlushWaited, vm, fifo, user
<1>10. CASE MainCallsApu
  BY <1>10, <1>0 DEF MainCallsApu, CallBegin, vm, fifo, user
<1>11. CASE MainInApu
  BY <1>11, <1>0 DEF MainInApu, CallStep, CallLock, CallRecheck, CallEnd, Idle, vm, main, fifo, user
<1>12. CASE StopEnds
  BY <1>12, <1>0 DEF StopEnds, vm, fifo, user
<1>13. CASE ResetEnds
  BY <1>13, <1>0 DEF ResetEnds, fifo, user
<1>14. CASE CoreEnds
  BY <1>14, <1>0 DEF CoreEnds, vm, main, fifo, user
<1>15. CASE PostVmstop
  BY <1>15, <1>0 DEF PostVmstop, apuVars, main, fifo
<1>16. CASE ResumeBegin
  BY <1>16, <1>0 DEF ResumeBegin, main, fifo
<1>17. CASE ResumeApu
  BY <1>17, <1>0 DEF ResumeApu, RunHandler, vm, main, fifo
<1>18. CASE ResumeFifoLock
  BY <1>18, <1>0 DEF ResumeFifoLock, FifoLock, vm, main, user
<1>19. CASE ResumeFifoUnlock
  BY <1>19, <1>0 DEF ResumeFifoUnlock, FifoUnlock, vm, main
<1>20. CASE ResumeCpus
  BY <1>20, <1>0 DEF ResumeCpus, LogWatchdogSnapshot, main, fifo
<1>21. CASE RequestPause
  BY <1>21, <1>0 DEF RequestPause, LogWatchdogSnapshot, MayAct, Settled, apuVars, main, fifo
<1>22. CASE RequestResume
  BY <1>22, <1>0 DEF RequestResume, MayAct, Settled, apuVars, vm, main, fifo
<1>23. CASE Watchdog
  BY <1>23, <1>0 DEF Watchdog, LogWatchdogSnapshot, apuVars, main, fifo, user
<1>24. CASE RequestShutdown
  BY <1>24, <1>0 DEF RequestShutdown, Settled, apuVars, main, fifo, user
<1>25. CASE GuestReset
  BY <1>25, <1>0 DEF GuestReset, apuVars, main, fifo, user
<1>26. CASE GuestApuWrite
  BY <1>26, <1>0 DEF GuestApuWrite, RegWrite, vm, main, fifo, user
<1>27. CASE GuestFifoWrite
  BY <1>27, <1>0 DEF GuestFifoWrite, vm, main, user
<1>28. CASE VCpuStops
  BY <1>28, <1>0 DEF VCpuStops, apuVars, main, fifo, user
<1>29. CASE PfifoIrqBegin
  BY <1>29, <1>0 DEF PfifoIrqBegin, apuVars, vm, main, user
<1>30. CASE PfifoIrqRaise
  BY <1>30, <1>0 DEF PfifoIrqRaise, apuVars, vm, main, user
<1>31. CASE PfifoIdle
  BY <1>31, <1>0 DEF PfifoIdle, apuVars, vm, main, user
<1>32. CASE Apu
  BY <1>32, ThreadFrame DEF Apu, vm, main, fifo, user
<1>33. ASSUME NEW t \in Callers, FifoStep(t) PROVE PlacesOK'
  BY <1>33 DEF FifoStep, FifoWoken, FifoBql, apuOnly, vm, main, user
<1>34. CASE UNCHANGED vmVars
  BY <1>34 DEF vmVars, apuVars, vm, main, fifo, user
<1> QED
  BY <1>1, <1>2, <1>3, <1>4, <1>5, <1>6, <1>7, <1>8, <1>9, <1>10, <1>11, <1>12,
     <1>13, <1>14, <1>15, <1>16, <1>17, <1>18, <1>19, <1>20, <1>21, <1>22, <1>23, <1>24,
     <1>25, <1>26, <1>27, <1>28, <1>29, <1>30, <1>31, <1>32, <1>33, <1>34, ZenonT(30) DEF VmNext, Main, UiThread, User, GuestStep

(* The state in which the boot's vm_start leaves the machine.              *)
LEMMA MachineInit ==
  ASSUME UI \in Starters
  PROVE  VmInit => MachineInv
<1> SUFFICES ASSUME VmInit PROVE MachineInv
  OBVIOUS
<1>0. MaxPauses \in Nat /\ MainLoop \in Callers /\ UI \in Callers
  BY UserAssumption, Threads
<1>1. ApuTypeOK
  BY ZenonT(30) DEF VmInit, ApuTypeOK, Locked, Waiting, Ops
<1>2. NoLostWakeup /\ IdleMeansParked
  BY DEF VmInit, NoLostWakeup, IdleMeansParked
<1>3. VmTypeOK
  <2>1. FlagsOK
    BY ZenonT(30) DEF VmInit, FlagsOK
  <2>2. PlacesOK
    BY <1>0 DEF VmInit, PlacesOK, RunStates
  <2> QED  BY <1>1, <2>1, <2>2, TypeParts
<1>4. GuestRunsInRunning /\ BqlHeld /\ OpInv /\ CallInv
  BY <1>0 DEF VmInit, GuestRunsInRunning, BqlHeld, MainHoldsBql, UiHoldsBql, OpInv, CallInv
<1> QED
  BY <1>1, <1>2, <1>3, <1>4 DEF MachineInv, Handshake, VmInv

(* The vCPU is let out of its stop only in a running VM, and every wait    *)
(* for it has its reason (resume_all_vcpus, do_vm_stop, ResetEnds).        *)
LEMMA MachineGuest ==
  ASSUME VmTypeOK, OpInv, GuestRunsInRunning, [VmNext]_vmVars
  PROVE  OpInv' /\ GuestRunsInRunning'
<1> USE DEF OpInv, GuestRunsInRunning
<1>0. mOp \in {"none", "pause", "reset", "quit"} /\ cpuStopped \in BOOLEAN
  BY DEF VmTypeOK
<1>1. CASE MainWakes
  BY <1>1, <1>0 DEF MainWakes, vm
<1>2. CASE CheckShutdown
  BY <1>2, <1>0 DEF CheckShutdown, DoVmStop, PauseVcpus
<1>3. CASE CheckReset
  BY <1>3, <1>0 DEF CheckReset, PauseVcpus
<1>4. CASE CheckVmstop
  BY <1>4, <1>0 DEF CheckVmstop, DoVmStop, PauseVcpus
<1>5. CASE VcpusPaused
  BY <1>5, <1>0 DEF VcpusPaused, vm
<1>6. CASE ReplayLocked
  BY <1>6, <1>0 DEF ReplayLocked, vm
<1>7. CASE MainFifoLock
  BY <1>7, <1>0 DEF MainFifoLock, vm, main
<1>8. CASE MainFifoUnlock
  BY <1>8, <1>0 DEF MainFifoUnlock, vm
<1>9. CASE FlushWaited
  BY <1>9, <1>0 DEF FlushWaited, vm
<1>10. CASE MainCallsApu
  BY <1>10, <1>0 DEF MainCallsApu, vm
<1>11. CASE MainInApu
  BY <1>11, <1>0 DEF MainInApu, vm, main
<1>12. CASE StopEnds
  BY <1>12, <1>0 DEF StopEnds, vm
<1>13. CASE ResetEnds
  BY <1>13, <1>0 DEF ResetEnds
<1>14. CASE CoreEnds
  BY <1>14, <1>0 DEF CoreEnds, vm, main
<1>15. CASE PostVmstop
  BY <1>15, <1>0 DEF PostVmstop, main
<1>16. CASE ResumeBegin
  BY <1>16, <1>0 DEF ResumeBegin, main
<1>17. CASE ResumeApu
  BY <1>17, <1>0 DEF ResumeApu, vm, main
<1>18. CASE ResumeFifoLock
  BY <1>18, <1>0 DEF ResumeFifoLock, vm, main
<1>19. CASE ResumeFifoUnlock
  BY <1>19, <1>0 DEF ResumeFifoUnlock, vm, main
<1>20. CASE ResumeCpus
  BY <1>20, <1>0 DEF ResumeCpus, main
<1>21. CASE RequestPause
  BY <1>21, <1>0 DEF RequestPause, main
<1>22. CASE RequestResume
  BY <1>22, <1>0 DEF RequestResume, vm, main
<1>23. CASE Watchdog
  BY <1>23, <1>0 DEF Watchdog, main
<1>24. CASE RequestShutdown
  BY <1>24, <1>0 DEF RequestShutdown, main
<1>25. CASE GuestReset
  BY <1>25, <1>0 DEF GuestReset, main
<1>26. CASE GuestApuWrite
  BY <1>26, <1>0 DEF GuestApuWrite, vm, main
<1>27. CASE GuestFifoWrite
  BY <1>27, <1>0 DEF GuestFifoWrite, vm, main
<1>28. CASE VCpuStops
  BY <1>28, <1>0 DEF VCpuStops, main
<1>29. CASE PfifoIrqBegin
  BY <1>29, <1>0 DEF PfifoIrqBegin, vm, main
<1>30. CASE PfifoIrqRaise
  BY <1>30, <1>0 DEF PfifoIrqRaise, vm, main
<1>31. CASE PfifoIdle
  BY <1>31, <1>0 DEF PfifoIdle, vm, main
<1>32. CASE Apu
  BY <1>32 DEF Apu, vm, main
<1>33. ASSUME NEW t \in Callers, FifoStep(t) PROVE OpInv' /\ GuestRunsInRunning'
  BY <1>33 DEF FifoStep, vm, main
<1>34. CASE UNCHANGED vmVars
  BY <1>34, ZenonT(30) DEF vmVars, vm, main
<1> QED
  BY <1>1, <1>2, <1>3, <1>4, <1>5, <1>6, <1>7, <1>8, <1>9, <1>10, <1>11, <1>12,
     <1>13, <1>14, <1>15, <1>16, <1>17, <1>18, <1>19, <1>20, <1>21, <1>22, <1>23, <1>24,
     <1>25, <1>26, <1>27, <1>28, <1>29, <1>30, <1>31, <1>32, <1>33, <1>34, ZenonT(30) DEF VmNext, Main, UiThread, User, GuestStep

(* The BQL is taken only from nobody and given away only by its owner      *)
(* (bql_lock and bql_unlock around nv2a_lock_fifo and the APU callbacks).  *)
LEMMA MachineLocks ==
  ASSUME UI \in Starters, Handshake, VmTypeOK, OpInv, CallInv, BqlHeld, [VmNext]_vmVars
  PROVE  CallInv' /\ BqlHeld'
<1> USE DEF CallInv, BqlHeld, MainHoldsBql, UiHoldsBql
<1>0. /\ MainLoop \in Callers /\ UI \in Callers /\ UI # MainLoop /\ MainLoop # NoOwner /\ UI # NoOwner
      /\ VCpu # MainLoop /\ VCpu # UI
      /\ fifoPc \in [Callers -> {"out", "idle", "woken", "bql", "both"}]
      /\ callPc \in [Callers -> {"out", "lock", "wait", "recheck", "bql"}]
      /\ callOp \in [Callers -> Ops]
      /\ mOp \in {"none", "pause", "reset", "quit"}
      /\ mPc \in {"vcpus", "replay"} => mOp # "none"
  BY Threads DEF VmTypeOK, ApuTypeOK, OpInv
<1>1. CASE MainWakes
  BY <1>1, <1>0 DEF MainWakes, apuOnly, calls, fifo, user
<1>2. CASE CheckShutdown
  BY <1>2, <1>0 DEF CheckShutdown, DoVmStop, PauseVcpus, apuOnly, calls, fifo, user
<1>3. CASE CheckReset
  BY <1>3, <1>0 DEF CheckReset, PauseVcpus, apuOnly, calls, fifo, user
<1>4. CASE CheckVmstop
  BY <1>4, <1>0 DEF CheckVmstop, DoVmStop, PauseVcpus, apuOnly, calls, fifo, user
<1>5. CASE VcpusPaused
  BY <1>5, <1>0 DEF VcpusPaused, apuVars, calls, fifo, user
<1>6. CASE ReplayLocked
  BY <1>6, <1>0 DEF ReplayLocked, apuOnly, calls, fifo, user
<1>7. CASE MainFifoLock
  BY <1>7, <1>0 DEF MainFifoLock, FifoLock, apuOnly, calls, main, user
<1>8. CASE MainFifoUnlock
  BY <1>8, <1>0 DEF MainFifoUnlock, FifoUnlock, apuOnly, calls, user
<1>9. CASE FlushWaited
  BY <1>9, <1>0 DEF FlushWaited, apuOnly, calls, fifo, user
<1>10. CASE MainCallsApu
  BY <1>10, <1>0, SMTT(30) DEF MainCallsApu, CallBegin, fifo, user
<1>11. CASE MainInApu
  BY <1>11, <1>0 DEF MainInApu, CallStep, CallLock, CallRecheck, CallEnd, Idle, main, fifo, user
<1>12. CASE StopEnds
  BY <1>12, <1>0 DEF StopEnds, apuOnly, calls, fifo, user
<1>13. CASE ResetEnds
  BY <1>13, <1>0 DEF ResetEnds, apuOnly, calls, fifo, user
<1>14. CASE CoreEnds
  BY <1>14, <1>0 DEF CoreEnds, apuOnly, calls, main, fifo, user
<1>15. CASE PostVmstop
  BY <1>15, <1>0 DEF PostVmstop, apuVars, calls, main, fifo
<1>16. CASE ResumeBegin
  BY <1>16, <1>0 DEF ResumeBegin, apuOnly, calls, main, fifo
<1>17. CASE ResumeApu
  BY <1>17, <1>0 DEF ResumeApu, RunHandler, calls, main, fifo
<1>18. CASE ResumeFifoLock
  BY <1>18, <1>0 DEF ResumeFifoLock, FifoLock, apuOnly, calls, main, user
<1>19. CASE ResumeFifoUnlock
  BY <1>19, <1>0 DEF ResumeFifoUnlock, FifoUnlock, apuOnly, calls, main
<1>20. CASE ResumeCpus
  BY <1>20, <1>0 DEF ResumeCpus, apuOnly, calls, main, fifo
<1>21. CASE RequestPause
  BY <1>21, <1>0 DEF RequestPause, apuVars, calls, main, fifo
<1>22. CASE RequestResume
  BY <1>22, <1>0 DEF RequestResume, MayAct, Settled, apuVars, calls, main, fifo
<1>23. CASE Watchdog
  BY <1>23, <1>0 DEF Watchdog, apuVars, calls, main, fifo, user
<1>24. CASE RequestShutdown
  BY <1>24, <1>0 DEF RequestShutdown, apuVars, calls, main, fifo, user
<1>25. CASE GuestReset
  BY <1>25, <1>0 DEF GuestReset, apuVars, calls, main, fifo, user
<1>26. CASE GuestApuWrite
  BY <1>26, <1>0 DEF GuestApuWrite, RegWrite, calls, main, fifo, user
<1>27. CASE GuestFifoWrite
  BY <1>27, <1>0 DEF GuestFifoWrite, apuOnly, calls, main, user
<1>28. CASE VCpuStops
  BY <1>28, <1>0 DEF VCpuStops, apuVars, calls, main, fifo, user
<1>29. CASE PfifoIrqBegin
  BY <1>29, <1>0 DEF PfifoIrqBegin, apuVars, calls, main, user
<1>30. CASE PfifoIrqRaise
  BY <1>30, <1>0 DEF PfifoIrqRaise, apuVars, calls, main, user
<1>31. CASE PfifoIdle
  BY <1>31, <1>0 DEF PfifoIdle, apuVars, calls, main, user
<1>32. CASE Apu
  BY <1>0, <1>32, ThreadFrame DEF Apu, vm, main, fifo, user
<1>33. ASSUME NEW t \in Callers, FifoStep(t) PROVE CallInv' /\ BqlHeld'
  BY <1>0, <1>33, SMTT(30) DEF FifoStep, FifoWoken, FifoBql, apuOnly, calls, vm, main, user
<1>34. CASE UNCHANGED vmVars
  BY <1>0, <1>34 DEF vmVars, apuVars, calls, vm, main, fifo, user
<1> QED
  BY <1>1, <1>2, <1>3, <1>4, <1>5, <1>6, <1>7, <1>8, <1>9, <1>10, <1>11, <1>12,
     <1>13, <1>14, <1>15, <1>16, <1>17, <1>18, <1>19, <1>20, <1>21, <1>22, <1>23, <1>24,
     <1>25, <1>26, <1>27, <1>28, <1>29, <1>30, <1>31, <1>32, <1>33, <1>34, ZenonT(30) DEF VmNext, Main, UiThread, User, GuestStep

(* Every step keeps the machine's invariant.                               *)
LEMMA MachineStep ==
  ASSUME UI \in Starters
  PROVE  MachineInv /\ [VmNext]_vmVars => MachineInv'
<1> SUFFICES ASSUME MachineInv, [VmNext]_vmVars PROVE MachineInv'
  OBVIOUS
<1> USE DEF MachineInv, VmInv
<1>1. Handshake'
  BY MachineHandshake
<1>2. VmTypeOK'
  <2>1. FlagsOK /\ PlacesOK
    BY TypeParts
  <2>2. FlagsOK'
    BY <2>1, MachineFlags
  <2>3. PlacesOK'
    BY <2>1, MachinePlaces
  <2> QED  BY <1>1, <2>2, <2>3, TypeParts DEF Handshake
<1>3. OpInv' /\ GuestRunsInRunning'
  BY MachineGuest
<1>4. CallInv' /\ BqlHeld'
  BY MachineLocks
<1> QED
  BY <1>1, <1>2, <1>3, <1>4

(* So it always holds.                                                     *)
LEMMA MachineAlways ==
  ASSUME UI \in Starters
  PROVE  VmSpec => []MachineInv
  BY MachineInit, MachineStep, PTL DEF VmSpec

(* Whatever the user and the guest do, and however the threads interleave: *)
(* the guest runs only in a running VM or while the main loop still waits  *)
(* for the vCPU, and the main loop and the UI thread hold the BQL wherever *)
(* their code relies on it (do_vm_stop, pause_all_vcpus,                   *)
(* resume_all_vcpus, nv2a_lock_fifo, mcpx_apu_wait_for_idle).              *)
THEOREM MachineSafe ==
  ASSUME UI \in Starters
  PROVE  VmSpec => []VmInv
<1>1. MachineInv => VmInv
  BY DEF MachineInv
<1> QED
  BY <1>1, MachineAlways, PTL

(* In the machine too no wakeup of the frame thread or of a callback is    *)
(* lost, although the UI thread may run the start callback while the main  *)
(* loop waits in the stop callback (mcpx_apu_vm_state_change).             *)
THEOREM MachineWakeups ==
  ASSUME UI \in Starters
  PROVE  VmSpec => []NoLostWakeup
<1>1. MachineInv => NoLostWakeup
  BY DEF MachineInv, Handshake
<1> QED
  BY <1>1, MachineAlways, PTL

(* runstate_set never aborts: a pause, resume, reset or shutdown that      *)
(* interleaves with another takes only transitions of                      *)
(* runstate_transitions_def.                                               *)
THEOREM TransitionsValid ==
  ASSUME UI \in Starters
  PROVE  VmSpec => NoInvalidTransition
<1>1. MachineInv /\ [VmNext]_vmVars
        => [runstate' # runstate => <<runstate, runstate'>> \in ValidTransitions]_vmVars
  <2> SUFFICES ASSUME MachineInv, VmNext, runstate' # runstate
               PROVE  <<runstate, runstate'>> \in ValidTransitions
    OBVIOUS
  <2>0. runstate \in RunStates /\ vmstop \in {"none", "PAUSED"}
    BY DEF MachineInv, VmInv, VmTypeOK
  <2>1. CheckShutdown \/ CheckVmstop \/ ResetEnds \/ ResumeBegin
    BY ZenonT(30) DEF VmNext, Main, UiThread, User, GuestStep, Apu, FifoStep, MainWakes, CheckReset, VcpusPaused, ReplayLocked,
       MainFifoLock, MainFifoUnlock, FlushWaited, MainCallsApu, MainInApu, StopEnds, CoreEnds, PostVmstop, ResumeApu,
       ResumeFifoLock, ResumeFifoUnlock, ResumeCpus, RequestPause, RequestResume, Watchdog, RequestShutdown,
       GuestReset, GuestApuWrite, GuestFifoWrite, VCpuStops, PfifoIrqBegin, PfifoIrqRaise, PfifoIdle, vm
  <2>2. CASE CheckShutdown
    BY <2>0, <2>2 DEF CheckShutdown, DoVmStop, RunStates, ValidTransitions
  <2>3. CASE CheckVmstop
    BY <2>0, <2>3 DEF CheckVmstop, DoVmStop, RunStates, ValidTransitions
  <2>4. CASE ResetEnds
    BY <2>0, <2>4 DEF ResetEnds, RunStates, ValidTransitions
  <2>5. CASE ResumeBegin
    BY <2>0, <2>5, SMTT(30) DEF ResumeBegin, RunStates, ValidTransitions
  <2> QED  BY <2>1, <2>2, <2>3, <2>4, <2>5
<1> QED
  BY <1>1, MachineAlways, PTL DEF VmSpec, NoInvalidTransition

-----------------------------------------------------------------------------
(* A user who waits for each request, and a guest that does not reset.     *)

(* One request at a time: while the UI thread is inside one the main loop  *)
(* has nothing to do, and the other way round; what the activity believes  *)
(* is what the run state says or is about to say.                          *)
OneAtATime ==
    /\ uPc # "idle" => mPc = "poll" /\ vmstop = "none" /\ ~shutdownRequested
    /\ uPc = "pause" => emulationPaused /\ runstate = "RUNNING"
    /\ uPc = "resume" => ~emulationPaused /\ runstate = "PAUSED"
    /\ uPc \in {"apu", "fifo", "cpus"} => ~emulationPaused /\ runstate = "RUNNING"
    /\ vmstop # "none" => /\ emulationPaused /\ runstate = "RUNNING" /\ ~shutdownRequested
                          /\ mPc \in {"poll", "shutdown", "reset", "vmstop"}
    /\ mPc \in {"poll", "shutdown", "reset", "vmstop"} /\ vmstop = "none" /\ uPc = "idle" =>
          /\ runstate \in {"RUNNING", "PAUSED"}
          /\ emulationPaused <=> runstate = "PAUSED"
    /\ mPc \in {"vcpus", "replay", "apuStop", "stopped"} =>
          \/ mOp = "pause" /\ runstate = "PAUSED" /\ emulationPaused
          \/ mOp = "quit" /\ runstate = "SHUTDOWN"
    /\ mPc \in {"quitFifo", "quitWait"} => mOp = "quit" /\ runstate = "SHUTDOWN"
    /\ ~resetRequested /\ mPc \notin {"rstFifo1", "rstFlush", "rstFifo2", "rstApu", "rstEnd"}

(* From the return of the stop callback on, a paused VM has a quiesced APU *)
(* whose saved DSP state is the live one.                                  *)
PausedQuiesced ==
    runstate = "PAUSED" /\ mPc \notin {"vcpus", "replay", "apuStop"} /\ ~Stopping => quiesced /\ ~dspDirty

ApuStill == WaitingPauses /\ QuiescedIsStill /\ PausedQuiesced

(* The frame thread never moves a quiesced APU, and leaves a waiting       *)
(* callback's request alone.                                               *)
LEMMA ThreadStill ==
  ASSUME Handshake, WaitingPauses, QuiescedIsStill, ApuThread
  PROVE  /\ WaitingPauses' /\ QuiescedIsStill'
         /\ Stopping' <=> Stopping
         /\ quiesced' = quiesced
         /\ quiesced => dspDirty' = dspDirty
<1> USE DEF WaitingPauses, QuiescedIsStill, Stopping
<1>0. MainLoop \in Callers /\ callPc \in [Callers -> {"out", "lock", "wait", "recheck", "bql"}]
  BY SMTT(30) DEF Handshake, ApuTypeOK, Callers
<1>1. CASE Park
  <2>1. callPc'[MainLoop] \in {"wait", "recheck"} <=> callPc[MainLoop] \in {"wait", "recheck"}
    BY <1>0, <1>1 DEF Park
  <2>2. callPc'[MainLoop] = "lock" <=> callPc[MainLoop] = "lock"
    BY <1>0, <1>1 DEF Park
  <2> QED  BY <1>1, <2>1, <2>2 DEF Park
<1>2. CASE SpuriousWake \/ Unpark \/ ThreadExit \/ PassHead \/ RaiseIrq \/ Relock \/ OffTimeout
  <2>1. UNCHANGED <<pause_requested, dspDirty, callPc, callOp, quiesced>>
    BY <1>2 DEF SpuriousWake, Unpark, ThreadExit, PassHead, RaiseIrq, Relock, OffTimeout, device, calls
  <2>2. QuiescedIsStill'
    BY <1>2, <2>1 DEF SpuriousWake, Unpark, ThreadExit, PassHead, RaiseIrq, Relock, OffTimeout
  <2> QED  BY <2>1, <2>2
<1>3. CASE ThrottleWait \/ ThrottleTimeout \/ FrameBegin \/ VoicesLocked \/ VoicesTimeout
  <2>1. UNCHANGED <<pause_requested, dspDirty, callPc, callOp, quiesced>>
    BY <1>3 DEF ThrottleWait, ThrottleTimeout, FrameBegin, VoicesLocked, VoicesTimeout, device, calls
  <2>2. QuiescedIsStill'
    BY <1>3, <2>1 DEF ThrottleWait, ThrottleTimeout, FrameBegin, VoicesLocked, VoicesTimeout
  <2> QED  BY <2>1, <2>2
<1>4. CASE FrameEnd
  BY <1>4, ZenonT(30) DEF FrameEnd, calls
<1> QED
  BY <1>1, <1>2, <1>3, <1>4 DEF ApuThread

(* The stop callback waits with the pause requested, and returns with the  *)
(* APU quiesced and its DSPs copied (mcpx_apu_vm_state_change).            *)
LEMMA StopStill ==
  ASSUME Handshake, WaitingPauses, QuiescedIsStill, callOp[MainLoop] = "stop", CallStep(MainLoop)
  PROVE  /\ WaitingPauses' /\ QuiescedIsStill'
         /\ callOp' = callOp
         /\ Stopping' \/ (quiesced' /\ ~dspDirty')
                      \/ (~Stopping /\ quiesced' = quiesced /\ dspDirty' = dspDirty)
<1> USE DEF WaitingPauses, QuiescedIsStill, Stopping
<1>0. /\ MainLoop \in Callers /\ callPc \in [Callers -> {"out", "lock", "wait", "recheck", "bql"}]
      /\ is_idle <=> apuPc \in {"parked", "unpark"}
  BY SMTT(30) DEF Handshake, ApuTypeOK, IdleMeansParked, Callers
<1>1. CASE CallLock(MainLoop)
  <2>1. CASE is_idle
    BY <1>0, <1>1, <2>1, ZenonT(30) DEF CallLock, Idle, Signalled, LockFree
  <2>2. CASE ~is_idle
    BY <1>0, <1>1, <2>2 DEF CallLock, Signalled, LockFree
  <2> QED  BY <2>1, <2>2
<1>2. CASE CallRecheck(MainLoop)
  <2>1. CASE is_idle
    BY <1>0, <1>2, <2>1, ZenonT(30) DEF CallRecheck, Idle, LockFree
  <2>2. CASE ~is_idle
    BY <1>0, <1>2, <2>2 DEF CallRecheck, LockFree
  <2> QED  BY <2>1, <2>2
<1>3. CASE CallEnd(MainLoop)
  BY <1>0, <1>3 DEF CallEnd, device
<1> QED
  BY <1>1, <1>2, <1>3 DEF CallStep

(* A settled user's requests come one at a time.                           *)
LEMMA SettledRequests ==
  ASSUME UI \in Starters, SettledUser, ~GuestResets, MachineInv, OneAtATime, [VmNext]_vmVars
  PROVE  OneAtATime'
<1> USE DEF OneAtATime
<1>0. /\ bql = NoOwner => ~MainHoldsBql /\ ~UiHoldsBql
      /\ callPc[MainLoop] = "out" \/ mPc \in {"stopped", "rstEnd"}
      /\ vmstop \in {"none", "PAUSED"} /\ runstate \in RunStates
  BY Threads DEF MachineInv, VmInv, VmTypeOK, BqlHeld, CallInv
<1>1. CASE MainWakes
  BY <1>1, <1>0 DEF MainWakes, vm, user
<1>2. CASE CheckShutdown
  BY <1>2, <1>0 DEF CheckShutdown, DoVmStop, PauseVcpus, user
<1>3. CASE CheckReset
  BY <1>3, <1>0 DEF CheckReset, PauseVcpus, user
<1>4. CASE CheckVmstop
  BY <1>4, <1>0 DEF CheckVmstop, DoVmStop, PauseVcpus, user
<1>5. CASE VcpusPaused
  BY <1>5, <1>0 DEF VcpusPaused, vm, user
<1>6. CASE ReplayLocked
  BY <1>6, <1>0 DEF ReplayLocked, vm, user
<1>7. CASE MainFifoLock
  BY <1>7, <1>0 DEF MainFifoLock, vm, main, user
<1>8. CASE MainFifoUnlock
  BY <1>8, <1>0 DEF MainFifoUnlock, vm, user
<1>9. CASE FlushWaited
  BY <1>9, <1>0 DEF FlushWaited, vm, user
<1>10. CASE MainCallsApu
  BY <1>10, <1>0 DEF MainCallsApu, vm, user
<1>11. CASE MainInApu
  BY <1>11, <1>0 DEF MainInApu, vm, main, user
<1>12. CASE StopEnds
  BY <1>12, <1>0 DEF StopEnds, vm, user
<1>13. CASE ResetEnds
  BY <1>13, <1>0 DEF ResetEnds, user
<1>14. CASE CoreEnds
  BY <1>14, <1>0 DEF CoreEnds, vm, main, user
<1>15. CASE PostVmstop
  BY <1>15, <1>0 DEF PostVmstop, main
<1>16. CASE ResumeBegin
  BY <1>16, <1>0 DEF ResumeBegin, main
<1>17. CASE ResumeApu
  BY <1>17, <1>0 DEF ResumeApu, vm, main
<1>18. CASE ResumeFifoLock
  BY <1>18, <1>0, SMTT(30) DEF ResumeFifoLock, vm, main, user
<1>19. CASE ResumeFifoUnlock
  BY <1>19, <1>0 DEF ResumeFifoUnlock, vm, main
<1>20. CASE ResumeCpus
  BY <1>20, <1>0 DEF ResumeCpus, LogWatchdogSnapshot, main
<1>21. CASE RequestPause
  BY <1>21, <1>0 DEF RequestPause, LogWatchdogSnapshot, MayAct, Settled, main
<1>22. CASE RequestResume
  BY <1>22, <1>0 DEF RequestResume, MayAct, Settled, vm, main
<1>23. CASE Watchdog
  BY <1>23, <1>0 DEF Watchdog, LogWatchdogSnapshot, main, user
<1>24. CASE RequestShutdown
  BY <1>24, <1>0 DEF RequestShutdown, Settled, main, user
<1>25. CASE GuestReset
  BY <1>25, <1>0 DEF GuestReset, main, user
<1>26. CASE GuestApuWrite
  BY <1>26, <1>0, SMTT(30) DEF GuestApuWrite, vm, main, user
<1>27. CASE GuestFifoWrite
  BY <1>27, <1>0 DEF GuestFifoWrite, vm, main, user
<1>28. CASE VCpuStops
  BY <1>28, <1>0 DEF VCpuStops, main, user
<1>29. CASE PfifoIrqBegin
  BY <1>29, <1>0 DEF PfifoIrqBegin, vm, main, user
<1>30. CASE PfifoIrqRaise
  BY <1>30, <1>0, SMTT(30) DEF PfifoIrqRaise, vm, main, user
<1>31. CASE PfifoIdle
  BY <1>31, <1>0 DEF PfifoIdle, vm, main, user
<1>32. CASE Apu
  BY <1>32 DEF Apu, vm, main, user
<1>33. ASSUME NEW t \in Callers, FifoStep(t) PROVE OneAtATime'
  BY <1>33 DEF FifoStep, vm, main, user
<1>34. CASE UNCHANGED vmVars
  BY <1>34, SMTT(30) DEF vmVars, vm, main, user
<1> QED
  BY <1>1, <1>2, <1>3, <1>4, <1>5, <1>6, <1>7, <1>8, <1>9, <1>10, <1>11, <1>12,
     <1>13, <1>14, <1>15, <1>16, <1>17, <1>18, <1>19, <1>20, <1>21, <1>22, <1>23, <1>24,
     <1>25, <1>26, <1>27, <1>28, <1>29, <1>30, <1>31, <1>32, <1>33, <1>34, ZenonT(30) DEF VmNext, Main, UiThread, User, GuestStep

(* A step that leaves the APU alone and does not make the VM PAUSED keeps  *)
(* a paused APU still.                                                     *)
LEMMA StillKept ==
  ASSUME ApuStill, UNCHANGED <<apuPc, device, calls, quiesced>>,
         /\ runstate' = "PAUSED"
         /\ mPc' \notin {"vcpus", "replay", "apuStop"}
         => \/ Stopping
            \/ runstate = "PAUSED" /\ mPc \notin {"vcpus", "replay", "apuStop"}
  PROVE  ApuStill'
  BY DEF ApuStill, WaitingPauses, QuiescedIsStill, PausedQuiesced, Stopping, device, calls

(* With one request at a time nothing releases the APU of a paused VM.     *)
LEMMA SettledApu ==
  ASSUME UI \in Starters, SettledUser, ~GuestResets, MachineInv, OneAtATime, ApuStill, [VmNext]_vmVars
  PROVE  ApuStill'
<1>0. /\ MainLoop \in Callers /\ UI \in Callers /\ UI # MainLoop /\ UI # NoOwner
      /\ callPc[MainLoop] # "out" => mPc \in {"stopped", "rstEnd"}
      /\ callPc[MainLoop] # "out" /\ mPc = "stopped" => callOp[MainLoop] = "stop"
      /\ callPc \in [Callers -> {"out", "lock", "wait", "recheck", "bql"}]
      /\ callOp \in [Callers -> Ops]
      /\ runstate \in RunStates
  BY Threads DEF MachineInv, VmInv, VmTypeOK, ApuTypeOK, CallInv
<1>1. CASE MainCallsApu
  <2>1. mPc = "apuStop" /\ mPc' = "stopped" /\ CallBegin(MainLoop, "stop") /\ UNCHANGED runstate
    BY <1>1 DEF MainCallsApu, OneAtATime, vm
  <2>2. Stopping'
    BY <1>0, <2>1 DEF CallBegin, Stopping
  <2> QED
    BY <1>0, <2>1, <2>2 DEF CallBegin, ApuStill, WaitingPauses, QuiescedIsStill, PausedQuiesced, device
<1>2. CASE MainInApu
  <2>1. CallStep(MainLoop) /\ UNCHANGED <<runstate, mPc>>
    BY <1>2, SMTT(30) DEF MainInApu, vm, main
  <2>2. callPc[MainLoop] # "out"
    BY <2>1 DEF CallStep, CallLock, CallRecheck, CallEnd
  <2>3. mPc = "stopped" /\ callOp[MainLoop] = "stop"
    BY <1>0, <2>2 DEF OneAtATime
  <2> QED
    BY <2>1, <2>3, StopStill DEF ApuStill, PausedQuiesced, MachineInv
<1>3. CASE ResumeApu
  <2>1. callPc[MainLoop] = "out" /\ runstate = "RUNNING"
    BY <1>0, <1>3 DEF ResumeApu, OneAtATime
  <2> QED
    BY <1>3, <2>1 DEF ResumeApu, RunHandler, ApuStill, WaitingPauses, QuiescedIsStill, PausedQuiesced, vm, calls
<1>4. CASE GuestApuWrite
  BY <1>4, ZenonT(30) DEF GuestApuWrite, RegWrite, Signalled, ApuStill, WaitingPauses, QuiescedIsStill, PausedQuiesced, Stopping,
     vm, main, calls
<1>5. CASE Apu
  <2>1. ApuThread /\ UNCHANGED <<runstate, mPc>>
    BY <1>5 DEF Apu, vm, main
  <2> QED
    BY <2>1, ThreadStill DEF ApuStill, PausedQuiesced, MachineInv
<1>6. CASE StopEnds
  <2>1. UNCHANGED <<apuPc, device, calls, quiesced>> /\ runstate' = runstate /\ mPc = "stopped"
    BY <1>6 DEF StopEnds, apuOnly, vm
  <2> QED  BY <2>1, StillKept
<1>7. CASE CheckShutdown \/ CheckVmstop
  <2>1. UNCHANGED <<apuPc, device, calls, quiesced>> /\ mPc \in {"shutdown", "vmstop"}
    BY <1>7 DEF CheckShutdown, CheckVmstop, apuOnly
  <2>2. runstate' = runstate \/ runstate' = "SHUTDOWN" \/ mPc' \in {"vcpus", "replay"}
    BY <1>7 DEF CheckShutdown, CheckVmstop, DoVmStop, PauseVcpus
  <2> QED  BY <2>1, <2>2, StillKept
<1>8. CASE VcpusPaused \/ ReplayLocked \/ FlushWaited \/ MainFifoUnlock
  <2>1. UNCHANGED <<apuPc, device, calls, quiesced>> /\ runstate' = runstate
    BY <1>8 DEF VcpusPaused, ReplayLocked, FlushWaited, MainFifoUnlock, apuVars, apuOnly, vm
  <2>2. runstate = "PAUSED" => mPc' \in {"replay", "apuStop"}
    BY <1>8 DEF VcpusPaused, ReplayLocked, FlushWaited, MainFifoUnlock, OneAtATime
  <2> QED  BY <2>1, <2>2, StillKept
<1>9. CASE ResumeBegin
  <2>1. UNCHANGED <<apuPc, device, calls, quiesced>> /\ mPc' = mPc
    BY <1>9 DEF ResumeBegin, apuOnly, main
  <2>2. runstate' = runstate \/ runstate' = "RUNNING"
    BY <1>9 DEF ResumeBegin
  <2> QED  BY <2>1, <2>2, StillKept
<1>10. CASE MainWakes \/ CheckReset \/ ResetEnds
  <2>1. UNCHANGED <<apuPc, device, calls, quiesced>> /\ runstate' = runstate /\ mPc \in {"poll", "reset"}
    BY <1>10 DEF MainWakes, CheckReset, ResetEnds, OneAtATime, apuOnly, vm
  <2> QED  BY <2>1, StillKept, SMTT(30)
<1>11. CASE MainFifoLock \/ CoreEnds \/ PostVmstop \/ ResumeFifoLock \/ ResumeFifoUnlock \/ ResumeCpus
             \/ RequestPause \/ RequestResume \/ Watchdog \/ RequestShutdown \/ GuestReset \/ GuestFifoWrite \/ VCpuStops \/ PfifoIrqBegin \/ PfifoIrqRaise \/ PfifoIdle
  <2>1. UNCHANGED <<apuPc, device, calls, quiesced>> /\ UNCHANGED <<runstate, mPc>>
    BY <1>11, ZenonT(30) DEF MainFifoLock, CoreEnds, PostVmstop, ResumeFifoLock, ResumeFifoUnlock, ResumeCpus, RequestPause, RequestResume,
       Watchdog, RequestShutdown, GuestReset, GuestFifoWrite, VCpuStops, PfifoIrqBegin, PfifoIrqRaise, PfifoIdle,
       apuVars, apuOnly, vm, main
  <2> QED  BY <2>1, StillKept
<1>12. CASE (\E t \in Callers : FifoStep(t)) \/ UNCHANGED vmVars
  <2>1. UNCHANGED <<apuPc, device, calls, quiesced>> /\ UNCHANGED <<runstate, mPc>>
    BY <1>12 DEF FifoStep, vmVars, apuVars, apuOnly, vm, main
  <2> QED  BY <2>1, StillKept
<1> QED
  BY <1>1, <1>2, <1>3, <1>4, <1>5, <1>6, <1>7, <1>8, <1>9, <1>10, <1>11, <1>12 DEF VmNext, Main, UiThread, User, GuestStep

(* One request at a time and a still APU are an invariant.                 *)
LEMMA SettledAlways ==
  ASSUME UI \in Starters, SettledUser, ~GuestResets
  PROVE  VmSpec => [](MachineInv /\ OneAtATime /\ ApuStill)
<1>1. VmInit => OneAtATime /\ ApuStill
  BY Threads DEF VmInit, OneAtATime, ApuStill, WaitingPauses, QuiescedIsStill, PausedQuiesced
<1>2. MachineInv /\ OneAtATime /\ ApuStill /\ [VmNext]_vmVars => (MachineInv /\ OneAtATime /\ ApuStill)'
  BY MachineStep, SettledRequests, SettledApu
<1> QED
  BY <1>1, <1>2, MachineInit, PTL DEF VmSpec

(* For a user who waits for each request and a guest that does not reset:  *)
(* a settled paused VM is completely still, with the vCPU out, the APU     *)
(* quiesced and its saved DSP state the live one, and the activity shows   *)
(* what the VM does (xemu_android_request_pause,                           *)
(* xemu_android_request_resume).                                           *)
THEOREM SettledSafe ==
  ASSUME UI \in Starters, SettledUser, ~GuestResets
  PROVE  VmSpec => []SettledInv
<1>1. MachineInv /\ OneAtATime /\ ApuStill => SettledInv
  <2> SUFFICES ASSUME MachineInv, OneAtATime, ApuStill PROVE SettledInv
    OBVIOUS
  <2>1. ASSUME Settled, uPc = "idle", runstate = "PAUSED" PROVE cpuStopped /\ quiesced /\ ~dspDirty
    <3>1. cpuStopped
      BY <2>1 DEF MachineInv, VmInv, GuestRunsInRunning, Settled
    <3>2. ~Stopping
      BY <2>1 DEF MachineInv, CallInv, Settled, Stopping
    <3> QED  BY <2>1, <3>1, <3>2 DEF ApuStill, PausedQuiesced, Settled
  <2>2. ASSUME Settled, uPc = "idle", mPc = "poll" PROVE emulationPaused <=> runstate = "PAUSED"
    BY <2>2 DEF OneAtATime, Settled
  <2> QED  BY <2>1, <2>2 DEF SettledInv, PausedIsStill, UiAgrees
<1> QED
  BY <1>1, SettledAlways, PTL
=====
