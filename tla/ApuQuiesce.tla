----------------------------- MODULE ApuQuiesce -----------------------------
(***************************************************************************)
(* How the APU frame thread is quiesced and released                       *)
(* (hw/xbox/mcpx/apu/apu.c).                                               *)
(*                                                                         *)
(* The frame thread owns d->lock except where it waits.  A device callback *)
(* (VM stop, reset, device exit) runs on the main-loop thread: it drops    *)
(* the big QEMU lock (BQL), takes d->lock, asks for a pause and waits on   *)
(* idle_cond until the thread is parked.  The VM start callback runs under *)
(* the BQL on the thread that calls vm_start: the main loop at boot, the   *)
(* Android UI thread when a paused game is resumed.                        *)
(*                                                                         *)
(* The state of the two DSPs exists twice: live, changed by every frame,   *)
(* and the copy the VM saves.  The stop callback copies live to VM, the    *)
(* start callback VM to live.  dspDirty says that the live state is ahead. *)
(*                                                                         *)
(* d->lock is held by the frame thread at the program points of Locked; a  *)
(* callback's critical sections have no wait in them but the one on        *)
(* idle_cond, so each is one step taken while the thread does not hold it. *)
(***************************************************************************)
EXTENDS Naturals

CONSTANTS MainLoop,    \* the thread that stops and resets devices
          Starters     \* other threads that may call vm_start

ASSUME ThreadsAssumption == MainLoop \notin Starters /\ "none" \notin Starters \cup {MainLoop}

Callers == {MainLoop} \cup Starters
NoOwner == "none"

VARIABLES
    bql,             \* owner of the BQL; the vCPU and the frame thread hold it within a step
    apuPc,           \* where the frame thread is
    pause_requested, is_idle, set_irq, exiting,
    seOn,            \* the setup engine runs: XCNTMODE on, methods not trapped or halted
    dspDirty,        \* the live DSP state is ahead of the VM's copy
    callPc,          \* where each caller is in an APU callback
    callOp,          \* which callback it runs
    quiesced         \* a stop callback has finished and nothing released the APU since

device == <<pause_requested, is_idle, set_irq, exiting, seOn, dspDirty>>
calls == <<callPc, callOp>>
apuVars == <<bql, apuPc, device, calls, quiesced>>

Locked == {"head", "pace", "frame"}
Waiting == {"parked", "unpark", "irq", "relock", "off", "throttle", "voices"}
Ops == {"none", "stop", "reset", "exit"}

(* Types of the frame thread, the device flags and the callbacks.          *)
ApuTypeOK ==
    /\ apuPc \in Locked \cup Waiting \cup {"exited"}
    /\ pause_requested \in BOOLEAN /\ is_idle \in BOOLEAN
    /\ set_irq \in BOOLEAN /\ exiting \in BOOLEAN
    /\ seOn \in BOOLEAN /\ dspDirty \in BOOLEAN
    /\ callPc \in [Callers -> {"out", "lock", "wait", "recheck", "bql"}]
    /\ callOp \in [Callers -> Ops]
    /\ quiesced \in BOOLEAN

TypeOK == ApuTypeOK /\ bql \in Callers \cup {NoOwner}

(* After mcpx_apu_realize: the thread is parked until the first vm_start.  *)
ApuInit ==
    /\ bql = NoOwner
    /\ apuPc = "parked"
    /\ pause_requested = TRUE /\ is_idle = TRUE
    /\ set_irq = FALSE /\ exiting = FALSE
    /\ seOn = FALSE /\ dspDirty = FALSE
    /\ callPc = [c \in Callers |-> "out"]
    /\ callOp = [c \in Callers |-> "none"]
    /\ quiesced = TRUE

LockFree == apuPc \notin Locked

(* qemu_cond_signal(&d->cond): only a parked thread depends on it, the     *)
(* other waits time out.                                                   *)
Signalled == IF apuPc = "parked" THEN "unpark" ELSE apuPc

-----------------------------------------------------------------------------
(* mcpx_apu_frame_thread.                                                  *)

(* Mutant: the waiter is not woken.                                        *)
Park_NoSignal ==
    /\ apuPc = "head" /\ ~exiting /\ pause_requested
    /\ is_idle' = TRUE
    /\ apuPc' = "parked"
    /\ UNCHANGED <<bql, pause_requested, set_irq, exiting, seOn, dspDirty, calls, quiesced>>

(* pause_requested at the loop's head: park and wake one waiter.           *)
Park ==
    /\ apuPc = "head" /\ ~exiting /\ pause_requested
    /\ is_idle' = TRUE
    /\ apuPc' = "parked"
    /\ LET waiters == {c \in Callers : callPc[c] = "wait"}
       IN  IF waiters = {} THEN UNCHANGED callPc
           ELSE \E c \in waiters : callPc' = [callPc EXCEPT ![c] = "recheck"]
    /\ UNCHANGED <<bql, pause_requested, set_irq, exiting, seOn, dspDirty, callOp, quiesced>>

(* qemu_cond_wait may also return without a signal.                        *)
SpuriousWake ==
    /\ apuPc = "parked"
    /\ apuPc' = "unpark"
    /\ UNCHANGED <<bql, device, calls, quiesced>>

(* Mutant: on through the loop without looking at pause_requested again.   *)
Unpark_NoRecheck ==
    /\ apuPc = "unpark"
    /\ is_idle' = FALSE
    /\ apuPc' = IF seOn THEN "pace" ELSE "head"
    /\ UNCHANGED <<bql, pause_requested, set_irq, exiting, seOn, dspDirty, calls, quiesced>>

Unpark ==
    /\ apuPc = "unpark"
    /\ is_idle' = FALSE
    /\ apuPc' = "head"
    /\ UNCHANGED <<bql, pause_requested, set_irq, exiting, seOn, dspDirty, calls, quiesced>>

ThreadExit ==
    /\ apuPc = "head" /\ exiting
    /\ apuPc' = "exited"
    /\ UNCHANGED <<bql, device, calls, quiesced>>

(* Nothing to report: on to the frame.  Otherwise drop d->lock to raise    *)
(* the interrupt under the BQL.                                            *)
PassHead ==
    /\ apuPc = "head" /\ ~exiting /\ ~pause_requested
    /\ IF seOn /\ ~set_irq
       THEN apuPc' = "pace" /\ UNCHANGED set_irq
       ELSE apuPc' = "irq" /\ set_irq' = TRUE
    /\ UNCHANGED <<bql, pause_requested, is_idle, exiting, seOn, dspDirty, calls, quiesced>>

RaiseIrq ==
    /\ apuPc = "irq"
    /\ bql = NoOwner
    /\ apuPc' = "relock"
    /\ UNCHANGED <<bql, device, calls, quiesced>>

(* d->lock again; the engine's state is read a second time, but not        *)
(* pause_requested.                                                        *)
Relock ==
    /\ apuPc = "relock"
    /\ set_irq' = FALSE
    /\ apuPc' = IF seOn THEN "pace" ELSE "off"
    /\ UNCHANGED <<bql, pause_requested, is_idle, exiting, seOn, dspDirty, calls, quiesced>>

OffTimeout ==
    /\ apuPc = "off"
    /\ apuPc' = "head"
    /\ UNCHANGED <<bql, device, calls, quiesced>>

(* throttle: wait for the audio queue or the frame's time, unless a pause  *)
(* is requested or the thread is behind.                                   *)
ThrottleWait ==
    /\ apuPc = "pace" /\ ~pause_requested
    /\ apuPc' = "throttle"
    /\ UNCHANGED <<bql, device, calls, quiesced>>

ThrottleTimeout ==
    /\ apuPc = "throttle"
    /\ apuPc' = "pace"
    /\ UNCHANGED <<bql, device, calls, quiesced>>

FrameBegin ==
    /\ apuPc = "pace"
    /\ apuPc' = "frame"
    /\ UNCHANGED <<bql, device, calls, quiesced>>

(* voice_work_dispatch: wait while the guest has a queued voice locked.    *)
VoicesLocked ==
    /\ apuPc = "frame" /\ ~pause_requested
    /\ apuPc' = "voices"
    /\ UNCHANGED <<bql, device, calls, quiesced>>

VoicesTimeout ==
    /\ apuPc = "voices"
    /\ apuPc' = "frame"
    /\ UNCHANGED <<bql, device, calls, quiesced>>

(* The end of se_frame: the DSPs have run; a voice may have raised an      *)
(* interrupt or trapped the front end.                                     *)
FrameEnd ==
    /\ apuPc = "frame"
    /\ dspDirty' = TRUE
    /\ \E irq \in BOOLEAN, trap \in BOOLEAN :
          /\ set_irq' = (set_irq \/ irq \/ trap)
          /\ seOn' = (seOn /\ ~trap)
    /\ apuPc' = "head"
    /\ UNCHANGED <<bql, pause_requested, is_idle, exiting, calls, quiesced>>

ApuThread ==
    \/ Park \/ SpuriousWake \/ Unpark \/ ThreadExit
    \/ PassHead \/ RaiseIrq \/ Relock \/ OffTimeout
    \/ ThrottleWait \/ ThrottleTimeout
    \/ FrameBegin \/ VoicesLocked \/ VoicesTimeout \/ FrameEnd

-----------------------------------------------------------------------------
(* mcpx_apu_write and vp_write on a vCPU, under the BQL: registers that    *)
(* start, stop or trap the engine, and voice_off, which sets set_irq       *)
(* without d->lock.                                                        *)
RegWrite ==
    /\ bql = NoOwner
    /\ seOn' \in BOOLEAN
    /\ set_irq' \in {set_irq, TRUE}
    /\ apuPc' = Signalled
    /\ UNCHANGED <<bql, pause_requested, is_idle, exiting, dspDirty, calls, quiesced>>

-----------------------------------------------------------------------------
(* The callbacks.  c holds the BQL when it calls one.                      *)

(* stop, reset and exit begin by dropping the BQL.                         *)
CallBegin(c, op) ==
    /\ bql = c /\ callPc[c] = "out"
    /\ bql' = NoOwner
    /\ callPc' = [callPc EXCEPT ![c] = "lock"]
    /\ callOp' = [callOp EXCEPT ![c] = op]
    /\ UNCHANGED <<apuPc, device, quiesced>>

(* Mutant: the DSPs are not copied.                                        *)
Idle_NoSync(c) ==
    /\ callPc' = [callPc EXCEPT ![c] = "bql"]
    /\ seOn' = (seOn /\ callOp[c] # "reset")
    /\ set_irq' = (set_irq /\ callOp[c] # "reset")
    /\ exiting' = (exiting \/ callOp[c] = "exit")
    /\ quiesced' = (callOp[c] = "stop" \/ (quiesced /\ callOp[c] # "reset"))
    /\ UNCHANGED dspDirty

(* What follows mcpx_apu_wait_for_idle in each callback, d->lock still     *)
(* held: stop copies the DSPs, reset clears the registers and resumes,     *)
(* exit tells the thread to leave its loop.  pause_requested is up to the  *)
(* caller.                                                                 *)
Idle(c) ==
    /\ callPc' = [callPc EXCEPT ![c] = "bql"]
    /\ seOn' = (seOn /\ callOp[c] # "reset")
    /\ set_irq' = (set_irq /\ callOp[c] # "reset")
    /\ exiting' = (exiting \/ callOp[c] = "exit")
    /\ quiesced' = (callOp[c] = "stop" \/ (quiesced /\ callOp[c] # "reset"))
    /\ dspDirty' = (dspDirty /\ callOp[c] # "stop")

(* mcpx_apu_wait_for_idle on entry; is_idle may still be set from before a *)
(* resume the thread has not noticed yet.                                  *)
CallLock(c) ==
    /\ callPc[c] = "lock"
    /\ LockFree
    /\ apuPc' = Signalled
    /\ IF is_idle
       THEN /\ Idle(c)
            /\ pause_requested' = (callOp[c] # "reset")
       ELSE /\ pause_requested' = TRUE
            /\ callPc' = [callPc EXCEPT ![c] = "wait"]
            /\ UNCHANGED <<set_irq, exiting, seOn, dspDirty, quiesced>>
    /\ UNCHANGED <<bql, is_idle, callOp>>

(* The wait on idle_cond returns.  pause_requested is not looked at again: *)
(* another thread may have cleared it since.                               *)
CallRecheck(c) ==
    /\ callPc[c] = "recheck"
    /\ LockFree
    /\ IF is_idle
       THEN /\ Idle(c)
            /\ pause_requested' = (pause_requested /\ callOp[c] # "reset")
            /\ apuPc' = IF callOp[c] = "stop" THEN apuPc ELSE Signalled
       ELSE /\ callPc' = [callPc EXCEPT ![c] = "wait"]
            /\ UNCHANGED <<pause_requested, apuPc, set_irq, exiting, seOn, dspDirty, quiesced>>
    /\ UNCHANGED <<bql, is_idle, callOp>>

CallEnd(c) ==
    /\ callPc[c] = "bql"
    /\ bql = NoOwner
    /\ bql' = c
    /\ callPc' = [callPc EXCEPT ![c] = "out"]
    /\ UNCHANGED <<apuPc, device, callOp, quiesced>>

(* Mutant: the frame thread is not woken.                                  *)
RunHandler_NoSignal(c) ==
    /\ bql = c /\ callPc[c] = "out"
    /\ LockFree
    /\ dspDirty' = FALSE
    /\ pause_requested' = FALSE
    /\ quiesced' = FALSE
    /\ UNCHANGED <<bql, apuPc, is_idle, set_irq, exiting, seOn, calls>>

(* mcpx_apu_vm_state_change with running set: the BQL stays held.          *)
RunHandler(c) ==
    /\ bql = c /\ callPc[c] = "out"
    /\ LockFree
    /\ dspDirty' = FALSE
    /\ pause_requested' = FALSE
    /\ apuPc' = Signalled
    /\ quiesced' = FALSE
    /\ UNCHANGED <<bql, is_idle, set_irq, exiting, seOn, calls>>

CallStep(c) == CallLock(c) \/ CallRecheck(c) \/ CallEnd(c)
=============================================================================
