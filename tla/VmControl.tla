----------------------------- MODULE VmControl -----------------------------
(***************************************************************************)
(* Pausing, resuming, resetting and ending the virtual machine of the      *)
(* Android port: the JNI entry points of ui/xemu-android-native.c, the     *)
(* main loop (system/runstate.c, system/cpus.c), the NV2A and APU state    *)
(* callbacks, one vCPU, and the frame thread of ApuQuiesce.                *)
(*                                                                         *)
(* The UI thread posts a pause (a vmstop request the main loop picks up)   *)
(* but runs vm_start itself, under the BQL.  Every place where the code    *)
(* drops the BQL in the middle of a transition is a step boundary here:    *)
(* the wait for the vCPUs, nv2a_lock_fifo, and the APU callbacks.          *)
(***************************************************************************)
EXTENDS ApuQuiesce

CONSTANTS UI,            \* the Android UI thread
          MaxPauses,     \* bound on the pauses the user asks for
          SettledUser,   \* the user waits for each request to take effect
          GuestResets,   \* the guest may ask for a reset
          UserQuits      \* the user may stop the core

VCpu == "vcpu"

ASSUME UserAssumption ==
    /\ VCpu \notin Callers
    /\ MaxPauses \in Nat
    /\ SettledUser \in BOOLEAN /\ GuestResets \in BOOLEAN /\ UserQuits \in BOOLEAN

VARIABLES
    runstate,          \* current_run_state
    vmstop,            \* vmstop_requested: "none" stands for RUN_STATE__MAX
    shutdownRequested, resetRequested,
    cpuStop, cpuStopped,
    mPc, mOp,          \* the main loop: where it is, and in which transition
    pfLock,            \* owner of pfifo.lock while a thread waits for the BQL with it
    pfPc,              \* the PFIFO thread: asleep, awake, or at an interrupt
    flush_pending,     \* nv2a_reset waits for the next pass of the PFIFO thread
    fifoPc,            \* where a thread is in nv2a_lock_fifo
    uPc,               \* the UI thread
    emulationPaused,   \* what the activity believes
    pauses             \* pauses asked for so far

vm == <<runstate, vmstop, shutdownRequested, resetRequested, cpuStop, cpuStopped>>
main == <<mPc, mOp>>
fifo == <<pfLock, pfPc, flush_pending, fifoPc>>
user == <<uPc, emulationPaused, pauses>>
apuOnly == <<apuPc, device, calls, quiesced>>
vmVars == <<apuVars, vm, main, fifo, user>>

RunStates == {"RUNNING", "PAUSED", "PRELAUNCH", "SHUTDOWN"}

(* Types.                                                                  *)
VmTypeOK ==
    /\ ApuTypeOK
    /\ bql \in Callers \cup {NoOwner, VCpu}
    /\ runstate \in RunStates
    /\ vmstop \in {"none", "PAUSED"}
    /\ shutdownRequested \in BOOLEAN /\ resetRequested \in BOOLEAN
    /\ cpuStop \in BOOLEAN /\ cpuStopped \in BOOLEAN
    /\ flush_pending \in BOOLEAN /\ emulationPaused \in BOOLEAN
    /\ mPc \in {"poll", "shutdown", "reset", "vmstop", "vcpus", "replay", "rstFifo1", "rstFlush",
                "rstFifo2", "rstApu", "rstEnd", "quitFifo", "quitWait", "apuStop", "stopped", "done"}
    /\ mOp \in {"none", "pause", "reset", "quit"}
    /\ pfLock \in Callers \cup {NoOwner}
    /\ pfPc \in {"asleep", "awake", "irq"}
    /\ fifoPc \in [Callers -> {"out", "idle", "woken", "bql", "both"}]
    /\ uPc \in {"idle", "pause", "resume", "apu", "fifo", "cpus"}
    /\ pauses \in 0..MaxPauses

(* A game is running: the boot's vm_start has just returned.               *)
VmInit ==
    /\ bql = NoOwner
    /\ apuPc = "unpark" /\ is_idle = TRUE
    /\ pause_requested = FALSE /\ set_irq = FALSE /\ exiting = FALSE
    /\ seOn = FALSE /\ dspDirty = FALSE /\ quiesced = FALSE
    /\ callPc = [c \in Callers |-> "out"] /\ callOp = [c \in Callers |-> "none"]
    /\ runstate = "RUNNING" /\ vmstop = "none"
    /\ shutdownRequested = FALSE /\ resetRequested = FALSE
    /\ cpuStop = FALSE /\ cpuStopped = FALSE
    /\ mPc = "poll" /\ mOp = "none"
    /\ pfLock = NoOwner /\ pfPc = "asleep" /\ flush_pending = FALSE /\ fifoPc = [c \in Callers |-> "out"]
    /\ uPc = "idle" /\ emulationPaused = FALSE /\ pauses = 0

(* runstate_transitions_def, restricted to RunStates.                      *)
ValidTransitions ==
    {<<"PAUSED", "RUNNING">>, <<"PAUSED", "PRELAUNCH">>, <<"PRELAUNCH", "RUNNING">>,
     <<"RUNNING", "PAUSED">>, <<"RUNNING", "SHUTDOWN">>, <<"SHUTDOWN", "PAUSED">>,
     <<"SHUTDOWN", "PRELAUNCH">>, <<"SHUTDOWN", "RUNNING">>}

-----------------------------------------------------------------------------
(* nv2a_lock_fifo and nv2a_unlock_fifo, called by t with the BQL held.     *)

(* Take pfifo.lock, wake the PFIFO thread, drop the BQL and wait on        *)
(* fifo_idle_cond, which releases pfifo.lock.                              *)
FifoLock(t) ==
    /\ bql = t /\ fifoPc[t] = "out"
    /\ pfLock = NoOwner
    /\ pfPc' = IF pfPc = "asleep" THEN "awake" ELSE pfPc
    /\ bql' = NoOwner
    /\ fifoPc' = [fifoPc EXCEPT ![t] = "idle"]
    /\ UNCHANGED <<pfLock, flush_pending>>

(* The wait returns with pfifo.lock; the BQL is taken on top of it.        *)
FifoWoken(t) ==
    /\ fifoPc[t] = "woken" /\ pfLock = NoOwner
    /\ pfLock' = t
    /\ fifoPc' = [fifoPc EXCEPT ![t] = "bql"]
    /\ UNCHANGED <<bql, pfPc, flush_pending>>

FifoBql(t) ==
    /\ fifoPc[t] = "bql" /\ bql = NoOwner
    /\ bql' = t
    /\ fifoPc' = [fifoPc EXCEPT ![t] = "both"]
    /\ UNCHANGED <<pfLock, pfPc, flush_pending>>

FifoUnlock(t) ==
    /\ fifoPc[t] = "both"
    /\ pfLock' = NoOwner
    /\ pfPc' = IF pfPc = "asleep" THEN "awake" ELSE pfPc
    /\ fifoPc' = [fifoPc EXCEPT ![t] = "out"]

FifoStep(t) ==
    /\ FifoWoken(t) \/ FifoBql(t)
    /\ UNCHANGED <<apuOnly, vm, main, user>>

(* pfifo_thread: a pass over the pending work needs pfifo.lock.  It raises *)
(* an interrupt under the BQL with that lock dropped, or runs out of work, *)
(* broadcasts fifo_idle_cond and sleeps.                                   *)
PfifoIrqBegin ==
    /\ pfPc = "awake" /\ pfLock = NoOwner
    /\ pfPc' = "irq"
    /\ flush_pending' = FALSE
    /\ UNCHANGED <<apuVars, vm, main, pfLock, fifoPc, user>>

PfifoIrqRaise ==
    /\ pfPc = "irq" /\ bql = NoOwner
    /\ pfPc' = "awake"
    /\ UNCHANGED <<apuVars, vm, main, pfLock, flush_pending, fifoPc, user>>

PfifoIdle ==
    /\ pfPc = "awake" /\ pfLock = NoOwner
    /\ pfPc' = "asleep"
    /\ flush_pending' = FALSE
    /\ fifoPc' = [t \in Callers |-> IF fifoPc[t] = "idle" THEN "woken" ELSE fifoPc[t]]
    /\ UNCHANGED <<apuVars, vm, main, pfLock, user>>

-----------------------------------------------------------------------------
(* The vCPU thread.  It executes guest code until it notices cpuStop.      *)

VCpuStops ==
    /\ bql = NoOwner /\ cpuStop
    /\ cpuStop' = FALSE /\ cpuStopped' = TRUE
    /\ UNCHANGED <<apuVars, runstate, vmstop, shutdownRequested, resetRequested, main, fifo, user>>

GuestReset ==
    /\ GuestResets
    /\ bql = NoOwner /\ ~cpuStopped /\ ~resetRequested
    /\ resetRequested' = TRUE /\ cpuStop' = TRUE
    /\ UNCHANGED <<apuVars, runstate, vmstop, shutdownRequested, cpuStopped, main, fifo, user>>

(* An APU register write, and an NV2A one, which takes pfifo.lock.  A      *)
(* thread seen holding that lock is on its way to the BQL                  *)
(* (nv2a_lock_fifo), so a vCPU that waits for it with the BQL held waits   *)
(* for ever.                                                               *)
GuestApuWrite ==
    /\ ~cpuStopped
    /\ RegWrite
    /\ UNCHANGED <<vm, main, fifo, user>>

GuestFifoWrite ==
    /\ ~cpuStopped /\ bql = NoOwner
    /\ IF pfLock = NoOwner
       THEN pfPc' = (IF pfPc = "asleep" THEN "awake" ELSE pfPc) /\ UNCHANGED bql
       ELSE bql' = VCpu /\ UNCHANGED pfPc
    /\ UNCHANGED <<apuOnly, vm, main, pfLock, flush_pending, fifoPc, user>>

-----------------------------------------------------------------------------
(* The main loop.                                                          *)

(* main_loop_wait returns; without a request the pass would do nothing.    *)
MainWakes ==
    /\ mPc = "poll" /\ bql = NoOwner
    /\ shutdownRequested \/ resetRequested \/ vmstop # "none"
    /\ bql' = MainLoop /\ mPc' = "shutdown"
    /\ UNCHANGED <<apuOnly, vm, mOp, fifo, user>>

(* pause_all_vcpus: cpu_pause, then a wait that gives the BQL away, if the *)
(* vCPU has not stopped yet, and once more for the replay lock.            *)
PauseVcpus(op) ==
    /\ mPc' = IF cpuStopped THEN "replay" ELSE "vcpus"
    /\ mOp' = op
    /\ bql' = NoOwner
    /\ cpuStop' = TRUE

(* do_vm_stop up to that wait; nothing to do unless the VM is live.        *)
DoVmStop(op, state, skip) ==
    IF runstate = "RUNNING"
    THEN runstate' = state /\ PauseVcpus(op)
    ELSE /\ mPc' = skip
         /\ UNCHANGED <<bql, runstate, cpuStop, mOp>>

(* main_loop_should_exit, one request after the other.                     *)
CheckShutdown ==
    /\ mPc = "shutdown"
    /\ IF shutdownRequested
       THEN /\ shutdownRequested' = FALSE
            /\ DoVmStop("quit", "SHUTDOWN", "done")
       ELSE /\ mPc' = "reset"
            /\ UNCHANGED <<bql, runstate, cpuStop, mOp, shutdownRequested>>
    /\ UNCHANGED <<apuOnly, vmstop, resetRequested, cpuStopped, fifo, user>>

CheckReset ==
    /\ mPc = "reset"
    /\ IF resetRequested
       THEN resetRequested' = FALSE /\ PauseVcpus("reset")
       ELSE mPc' = "vmstop" /\ UNCHANGED <<bql, cpuStop, mOp, resetRequested>>
    /\ UNCHANGED <<apuOnly, runstate, vmstop, shutdownRequested, cpuStopped, fifo, user>>

CheckVmstop ==
    /\ mPc = "vmstop"
    /\ IF vmstop # "none"
       THEN vmstop' = "none" /\ DoVmStop("pause", vmstop, "stopped")
       ELSE /\ mPc' = "poll" /\ bql' = NoOwner
            /\ UNCHANGED <<runstate, vmstop, cpuStop, mOp>>
    /\ UNCHANGED <<apuOnly, shutdownRequested, resetRequested, cpuStopped, fifo, user>>

VcpusPaused ==
    /\ mPc = "vcpus" /\ bql = NoOwner /\ cpuStopped
    /\ mPc' = "replay"
    /\ UNCHANGED <<apuVars, vm, mOp, fifo, user>>

ReplayLocked ==
    /\ mPc = "replay" /\ bql = NoOwner
    /\ bql' = MainLoop
    /\ mPc' = CASE mOp = "pause" -> "apuStop"
                [] mOp = "reset" -> "rstFifo1"
                [] mOp = "quit"  -> "quitFifo"
    /\ UNCHANGED <<apuOnly, vm, mOp, fifo, user>>

(* nv2a_reset: the FIFO locked, the flush waited for without the BQL, the  *)
(* FIFO locked again.                                                      *)
MainFifoLock ==
    /\ mPc \in {"rstFifo1", "rstFifo2", "quitFifo"}
    /\ FifoLock(MainLoop)
    /\ UNCHANGED <<apuOnly, vm, main, user>>

MainFifoUnlock ==
    /\ mPc \in {"rstFifo1", "rstFifo2", "quitFifo"}
    /\ FifoUnlock(MainLoop)
    /\ mPc' = CASE mPc = "rstFifo1" -> "rstFlush"
                [] mPc = "rstFifo2" -> "rstApu"
                [] mPc = "quitFifo" -> "quitWait"
    /\ bql' = IF mPc = "rstFifo2" THEN bql ELSE NoOwner
    /\ flush_pending' = (flush_pending \/ mPc = "rstFifo1")
    /\ UNCHANGED <<apuOnly, vm, mOp, user>>

(* flush_complete; the renderer has nothing to wait for at shutdown.       *)
FlushWaited ==
    /\ mPc \in {"rstFlush", "quitWait"}
    /\ mPc = "rstFlush" => ~flush_pending
    /\ bql = NoOwner
    /\ bql' = MainLoop
    /\ mPc' = IF mPc = "rstFlush" THEN "rstFifo2" ELSE "apuStop"
    /\ UNCHANGED <<apuOnly, vm, mOp, fifo, user>>

(* The APU's callback, then the end of the transition.                     *)
MainCallsApu ==
    /\ \/ mPc = "apuStop" /\ mPc' = "stopped" /\ CallBegin(MainLoop, "stop")
       \/ mPc = "rstApu" /\ mPc' = "rstEnd" /\ CallBegin(MainLoop, "reset")
    /\ UNCHANGED <<vm, mOp, fifo, user>>

MainInApu ==
    /\ CallStep(MainLoop)
    /\ UNCHANGED <<vm, main, fifo, user>>

(* The end of vm_stop: the block layer is drained and the loop goes on, or *)
(* qemu_cleanup ends the core.                                             *)
StopEnds ==
    /\ mPc = "stopped" /\ bql = MainLoop
    /\ mPc' = IF mOp = "quit" THEN "done" ELSE "poll"
    /\ mOp' = "none"
    /\ bql' = NoOwner
    /\ UNCHANGED <<apuOnly, vm, fifo, user>>

(* Mutant: the run state is not looked at after the reset.                 *)
ResetEnds_NoCheck ==
    /\ mPc = "rstEnd" /\ bql = MainLoop
    /\ cpuStop' = FALSE /\ cpuStopped' = FALSE
    /\ runstate' = "PRELAUNCH"
    /\ mPc' = "vmstop" /\ mOp' = "none"
    /\ UNCHANGED <<bql, apuOnly, vmstop, shutdownRequested, resetRequested, fifo, user>>

(* resume_all_vcpus if the VM still runs, PRELAUNCH if it does not.        *)
ResetEnds ==
    /\ mPc = "rstEnd" /\ bql = MainLoop
    /\ IF runstate = "RUNNING"
       THEN cpuStop' = FALSE /\ cpuStopped' = FALSE /\ UNCHANGED runstate
       ELSE runstate' = "PRELAUNCH" /\ UNCHANGED <<cpuStop, cpuStopped>>
    /\ mPc' = "vmstop" /\ mOp' = "none"
    /\ UNCHANGED <<bql, apuOnly, vmstop, shutdownRequested, resetRequested, fifo, user>>

CoreEnds ==
    /\ mPc = "done" /\ bql = MainLoop
    /\ bql' = NoOwner
    /\ UNCHANGED <<apuOnly, vm, main, fifo, user>>

Main ==
    \/ MainWakes \/ CheckShutdown \/ CheckReset \/ CheckVmstop
    \/ VcpusPaused \/ ReplayLocked \/ MainFifoLock \/ MainFifoUnlock \/ FlushWaited
    \/ MainCallsApu \/ MainInApu \/ StopEnds \/ ResetEnds \/ CoreEnds

-----------------------------------------------------------------------------
(* The activity and the JNI bridge, on the UI thread.                      *)

Settled ==
    /\ mPc \in {"poll", "done"} /\ bql = NoOwner
    /\ vmstop = "none" /\ ~resetRequested /\ ~shutdownRequested

MayAct == uPc = "idle" /\ mPc # "done" /\ (SettledUser => Settled)

(* xemu_android_log_watchdog_snapshot: qemu_vmstop_requested also clears.  *)
LogWatchdogSnapshot == vmstop' = "none"

(* requestPause: the snapshot is logged before the BQL is asked for.       *)
RequestPause ==
    /\ MayAct /\ ~emulationPaused /\ pauses < MaxPauses
    /\ emulationPaused' = TRUE
    /\ pauses' = pauses + 1
    /\ LogWatchdogSnapshot
    /\ uPc' = "pause"
    /\ UNCHANGED <<apuVars, runstate, shutdownRequested, resetRequested, cpuStop, cpuStopped, main, fifo>>

(* Mutant: the snapshot is logged after the request.                       *)
PostVmstop_SnapshotLast ==
    /\ uPc = "pause" /\ bql = NoOwner
    /\ LogWatchdogSnapshot
    /\ uPc' = "idle"
    /\ UNCHANGED <<apuVars, runstate, shutdownRequested, resetRequested, cpuStop, cpuStopped, main, fifo, emulationPaused, pauses>>

PostVmstop ==
    /\ uPc = "pause" /\ bql = NoOwner
    /\ vmstop' = "PAUSED"
    /\ uPc' = "idle"
    /\ UNCHANGED <<apuVars, runstate, shutdownRequested, resetRequested, cpuStop, cpuStopped, main, fifo, emulationPaused, pauses>>

(* requestResume: only a VM whose run state is PAUSED is started.          *)
RequestResume ==
    /\ MayAct /\ emulationPaused
    /\ emulationPaused' = FALSE
    /\ uPc' = "resume"
    /\ UNCHANGED <<apuVars, vm, main, fifo, pauses>>

(* vm_prepare_start on the UI thread: the run state first, then the        *)
(* callbacks in registration order, the APU's before the NV2A's.           *)
ResumeBegin ==
    /\ uPc = "resume" /\ bql = NoOwner
    /\ IF runstate = "PAUSED"
       THEN /\ bql' = UI
            /\ vmstop' = "none" /\ runstate' = "RUNNING"
            /\ uPc' = "apu"
       ELSE /\ uPc' = "idle"
            /\ UNCHANGED <<bql, vmstop, runstate>>
    /\ UNCHANGED <<apuOnly, shutdownRequested, resetRequested, cpuStop, cpuStopped, main, fifo, emulationPaused, pauses>>

ResumeApu ==
    /\ uPc = "apu"
    /\ RunHandler(UI)
    /\ uPc' = "fifo"
    /\ UNCHANGED <<vm, main, fifo, emulationPaused, pauses>>

ResumeFifoLock ==
    /\ uPc = "fifo"
    /\ FifoLock(UI)
    /\ UNCHANGED <<apuOnly, vm, main, user>>

ResumeFifoUnlock ==
    /\ uPc = "fifo"
    /\ FifoUnlock(UI)
    /\ uPc' = "cpus"
    /\ UNCHANGED <<bql, flush_pending, apuOnly, vm, main, emulationPaused, pauses>>

(* Mutant: resume_all_vcpus without its check of the run state.            *)
ResumeCpus_NoCheck ==
    /\ uPc = "cpus"
    /\ cpuStop' = FALSE /\ cpuStopped' = FALSE
    /\ LogWatchdogSnapshot
    /\ bql' = NoOwner
    /\ uPc' = "idle"
    /\ UNCHANGED <<apuOnly, runstate, shutdownRequested, resetRequested, main, fifo, emulationPaused, pauses>>

(* resume_all_vcpus if the VM is still running, the snapshot, and out.     *)
ResumeCpus ==
    /\ uPc = "cpus"
    /\ IF runstate = "RUNNING"
       THEN cpuStop' = FALSE /\ cpuStopped' = FALSE
       ELSE UNCHANGED <<cpuStop, cpuStopped>>
    /\ LogWatchdogSnapshot
    /\ bql' = NoOwner
    /\ uPc' = "idle"
    /\ UNCHANGED <<apuOnly, runstate, shutdownRequested, resetRequested, main, fifo, emulationPaused, pauses>>

(* checkFrameWatchdog: no frame for a while, and the activity does not     *)
(* think it is paused.                                                     *)
Watchdog ==
    /\ uPc = "idle" /\ ~emulationPaused /\ mPc # "done"
    /\ LogWatchdogSnapshot
    /\ UNCHANGED <<apuVars, runstate, shutdownRequested, resetRequested, cpuStop, cpuStopped, main, fifo, user>>

(* nativeStop on its own thread: xemu_android_request_shutdown.            *)
RequestShutdown ==
    /\ UserQuits /\ mPc # "done" /\ ~shutdownRequested
    /\ SettledUser => (Settled /\ uPc = "idle")
    /\ bql = NoOwner
    /\ shutdownRequested' = TRUE
    /\ UNCHANGED <<apuVars, runstate, vmstop, resetRequested, cpuStop, cpuStopped, main, fifo, user>>

UiThread == PostVmstop \/ ResumeBegin \/ ResumeApu \/ ResumeFifoLock \/ ResumeFifoUnlock \/ ResumeCpus
User == RequestPause \/ RequestResume \/ Watchdog \/ RequestShutdown
GuestStep == GuestReset \/ GuestApuWrite \/ GuestFifoWrite
Apu == ApuThread /\ UNCHANGED <<vm, main, fifo, user>>

VmNext ==
    \/ Main \/ UiThread \/ User \/ GuestStep \/ VCpuStops
    \/ PfifoIrqBegin \/ PfifoIrqRaise \/ PfifoIdle \/ Apu
    \/ \E t \in Callers : FifoStep(t)

VmSpec == VmInit /\ [][VmNext]_vmVars

(* Every thread is scheduled, and d->lock and pfifo.lock are handed over:  *)
(* a thread that can go on infinitely often does.  As in ApuLifecycle, the *)
(* frame thread neither falls behind real time for ever nor waits for      *)
(* ever.  Nothing is assumed of the user or of what the guest does.        *)
Alone(A) == A /\ UNCHANGED <<vm, main, fifo, user>>

VmFairness ==
    /\ SF_vmVars(Main) /\ SF_vmVars(UiThread) /\ \A t \in Callers : WF_vmVars(FifoStep(t))
    /\ WF_vmVars(VCpuStops)
    /\ WF_vmVars(PfifoIrqRaise) /\ SF_vmVars(PfifoIdle)
    /\ WF_vmVars(Alone(\/ Park \/ Unpark \/ PassHead \/ RaiseIrq \/ Relock \/ OffTimeout
                     \/ ThrottleTimeout \/ VoicesTimeout))
    /\ SF_vmVars(Alone(ThrottleWait)) /\ SF_vmVars(Alone(FrameBegin)) /\ SF_vmVars(Alone(FrameEnd))

VmFairSpec == VmSpec /\ VmFairness

-----------------------------------------------------------------------------
(* runstate_set aborts the process on a transition outside its table.      *)
NoInvalidTransition ==
    [][runstate' # runstate => <<runstate, runstate'>> \in ValidTransitions]_vmVars

(* The guest executes only in a running VM, or while the main loop that    *)
(* took it out of RUNNING still waits for the vCPU to stop.                *)
GuestRunsInRunning ==
    ~cpuStopped => runstate = "RUNNING" \/ mPc = "vcpus"

(* The main loop and the UI thread hold the BQL wherever their code relies *)
(* on it, so they are never both inside a transition at such a place,      *)
(* although each gives it away in nv2a_lock_fifo and in the APU callbacks. *)
MainHoldsBql ==
    \/ mPc \in {"shutdown", "reset", "vmstop", "apuStop", "rstApu"}
    \/ mPc \in {"rstFifo1", "rstFifo2", "quitFifo"} /\ fifoPc[MainLoop] \in {"out", "both"}
    \/ mPc \in {"stopped", "rstEnd"} /\ callPc[MainLoop] = "out"

UiHoldsBql ==
    \/ uPc \in {"apu", "cpus"}
    \/ uPc = "fifo" /\ fifoPc[UI] \in {"out", "both"}

BqlHeld == (MainHoldsBql => bql = MainLoop) /\ (UiHoldsBql => bql = UI)

(* Between any two steps of the UI thread, the main loop and the vCPU      *)
(* (do_vm_stop, pause_all_vcpus, resume_all_vcpus, nv2a_lock_fifo).        *)
VmInv == VmTypeOK /\ GuestRunsInRunning /\ BqlHeld

(* A settled paused VM is completely still: the vCPU is out, the APU is    *)
(* quiesced and its saved DSP state is the live one.                       *)
PausedIsStill ==
    Settled /\ uPc = "idle" /\ runstate = "PAUSED" => cpuStopped /\ quiesced /\ ~dspDirty

(* What the activity shows is what the VM does.                            *)
UiAgrees ==
    Settled /\ uPc = "idle" /\ mPc = "poll" => (emulationPaused <=> runstate = "PAUSED")

(* Once a request has taken effect the whole machine is where the user     *)
(* sent it (xemu_android_request_pause, xemu_android_request_resume).      *)
SettledInv == PausedIsStill /\ UiAgrees

(* The main loop comes back to its poll: no pause, reset or resume leaves  *)
(* it waiting for ever.                                                    *)
MainLoopServes == []<>(mPc \in {"poll", "done"})

(* A pause the user asked for is reached: the vCPU is out and the APU      *)
(* quiesced (xemu_android_request_pause, do_vm_stop).                      *)
PauseTakesEffect ==
    (uPc = "pause") ~> (mPc = "done" \/ (runstate = "PAUSED" /\ cpuStopped /\ quiesced))

(* A resume brings the vCPU and the APU back, or the core has ended        *)
(* (xemu_android_request_resume, vm_prepare_start, resume_all_vcpus).      *)
ResumeTakesEffect ==
    (uPc = "resume") ~> (mPc = "done" \/ (runstate = "RUNNING" /\ ~cpuStopped /\ ~pause_requested))

(* A request made when the last one has taken effect takes effect          *)
(* (xemu_android_request_pause, xemu_android_request_resume).              *)
RequestsTakeEffect == PauseTakesEffect /\ ResumeTakesEffect
=============================================================================
