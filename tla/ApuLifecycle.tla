---------------------------- MODULE ApuLifecycle ----------------------------
(***************************************************************************)
(* The APU of ApuQuiesce with the VM around it reduced to what drives its  *)
(* callbacks: a VM that is stopped and started, reset in either state, and *)
(* finally torn down.  Starters = {} is a VM that only its main loop       *)
(* starts; Starters # {} is the Android port, where the UI thread calls    *)
(* vm_start as soon as it gets the BQL.                                    *)
(***************************************************************************)
EXTENDS ApuQuiesce

VARIABLE vmRunning   \* runstate_is_running()

vars == <<apuVars, vmRunning>>

Init == ApuInit /\ vmRunning = FALSE

TakeBql(c) ==
    /\ bql = NoOwner /\ callPc[c] = "out"
    /\ bql' = c
    /\ UNCHANGED <<apuPc, device, calls, quiesced, vmRunning>>

ReleaseBql(c) ==
    /\ bql = c
    /\ bql' = NoOwner
    /\ UNCHANGED <<apuPc, device, calls, quiesced, vmRunning>>

(* do_vm_stop: the run state changes before the callbacks run.             *)
VmStop ==
    /\ vmRunning /\ ~exiting
    /\ vmRunning' = FALSE
    /\ CallBegin(MainLoop, "stop")

(* The reset callback, of a running or of a stopped VM.                    *)
VmReset ==
    /\ ~exiting
    /\ CallBegin(MainLoop, "reset")
    /\ UNCHANGED vmRunning

VmExit ==
    /\ ~vmRunning /\ ~exiting
    /\ CallBegin(MainLoop, "exit")
    /\ UNCHANGED vmRunning

VmStart(c) ==
    /\ ~vmRunning /\ ~exiting
    /\ vmRunning' = TRUE
    /\ RunHandler(c)

Guest == vmRunning /\ RegWrite /\ UNCHANGED vmRunning

Next ==
    \/ ApuThread /\ UNCHANGED vmRunning
    \/ Guest
    \/ VmStop \/ VmReset \/ VmExit
    \/ \E c \in Callers :
          \/ TakeBql(c) \/ ReleaseBql(c) \/ VmStart(c)
          \/ CallStep(c) /\ UNCHANGED vmRunning

Spec == Init /\ [][Next]_vars

(* The frame thread and a thread inside a callback are scheduled.  The     *)
(* mutexes hand over: a thread that can take one infinitely often does.    *)
(* The frame thread is not behind real time for ever: it waits in throttle *)
(* again and again, which is where d->lock is released in steady state;    *)
(* nor is it throttled for ever, since the audio queue drains.             *)
Quietly(A) == A /\ UNCHANGED vmRunning

Fairness ==
    /\ WF_vars(Quietly(Park)) /\ WF_vars(Quietly(Unpark)) /\ WF_vars(Quietly(ThreadExit))
    /\ WF_vars(Quietly(PassHead)) /\ SF_vars(Quietly(RaiseIrq)) /\ WF_vars(Quietly(Relock))
    /\ WF_vars(Quietly(OffTimeout))
    /\ SF_vars(Quietly(ThrottleWait)) /\ WF_vars(Quietly(ThrottleTimeout))
    /\ SF_vars(Quietly(FrameBegin)) /\ WF_vars(Quietly(VoicesTimeout)) /\ SF_vars(Quietly(FrameEnd))
    /\ \A c \in Callers :
          /\ SF_vars(Quietly(CallLock(c))) /\ SF_vars(Quietly(CallRecheck(c)))
          /\ SF_vars(Quietly(CallEnd(c))) /\ WF_vars(ReleaseBql(c))

FairSpec == Spec /\ Fairness

-----------------------------------------------------------------------------
(* "We want to quiesce the APU before any VM state is saved": from the     *)
(* moment the stop callback returns until something releases the APU, the  *)
(* frame thread is nowhere near a frame, even though it may be woken by    *)
(* register writes, may still be on its way back from an earlier resume,   *)
(* and is_idle may be stale.                                               *)
QuiescedIsStill ==
    quiesced => /\ pause_requested
                /\ apuPc \in {"parked", "unpark", "head", "exited"}

(* While the APU is quiesced the DSP state the VM would save is the live   *)
(* one.                                                                    *)
SavedStateCurrent == quiesced => ~dspDirty

(* No wakeup is lost: a thread parked on d->cond has a pause to wait for,  *)
(* and a callback asleep on idle_cond waits for a thread that is not idle. *)
NoLostWakeup ==
    /\ apuPc = "parked" => pause_requested
    /\ \A c \in Callers : callPc[c] = "wait" => ~is_idle

(* The start callback never overwrites live DSP state that is newer than   *)
(* the VM's copy (dsp_sync_from_vm would roll the DSPs back).              *)
NoDspRollback ==
    [][(\E c \in Callers : VmStart(c)) => ~dspDirty]_vars

(* A callback that stops, resets or tears down the APU returns.            *)
CallReturns == (callPc[MainLoop] # "out") ~> (callPc[MainLoop] = "out")

(* A started VM gets its sound back: with the engine on, frames are run    *)
(* again unless the VM is stopped, reset or the guest turns it off.        *)
FramesResume == (vmRunning /\ seOn) ~> (apuPc = "frame" \/ ~vmRunning \/ ~seOn \/ pause_requested)

(* The parking protocol of mcpx_apu_frame_thread lets both sides get on:   *)
(* callbacks return and, with the VM started again, frames are run.        *)
ApuGoesOn == CallReturns /\ FramesResume
=============================================================================
