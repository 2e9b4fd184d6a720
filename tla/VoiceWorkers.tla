---------------------------- MODULE VoiceWorkers ----------------------------
(***************************************************************************)
(* The APU's voice processor (hw/xbox/mcpx/apu/vp/vp.c): every frame the   *)
(* APU thread hands the queued voices to a pool of workers, waits for them *)
(* and sums what they mixed.  The guest locks voices it is editing, and    *)
(* the machine may be paused at any time.                                  *)
(*                                                                         *)
(* A pass of a thread that holds vwd->lock from one wait to the next is    *)
(* one step.  The APU thread holds d->lock for the whole frame except      *)
(* while it waits for a locked voice, so the steps that need d->lock are   *)
(* possible exactly where DLockFree holds.                                 *)
(***************************************************************************)
EXTENDS Naturals, Sequences, FiniteSets

CONSTANTS NumWorkers,        \* vwd->num_workers
          Plain, Sub, Mp,    \* voices: ordinary, mixing into the multipass bin, reading it
          MaxQueue           \* bound on the voices of one frame

ASSUME VoiceAssumption ==
    /\ NumWorkers \in Nat \ {0} /\ MaxQueue \in Nat
    /\ Plain \cap Sub = {} /\ Plain \cap Mp = {} /\ Sub \cap Mp = {}

Workers == 0..(NumWorkers - 1)
Voices == Plain \cup Sub \cup Mp

VARIABLES
    pc,               \* the dispatching thread
    queue,            \* vwd->queue
    share,            \* the positions of queue given to each worker
    workers_pending,
    worker,           \* each worker thread: where it is
    id,               \* the worker slot each thread took
    exit,             \* vwd->workers_should_exit
    mixed,            \* positions of queue whose contribution has been added
    voice_locked,
    pause_requested

vars == <<pc, queue, share, workers_pending, worker, id, exit, mixed, voice_locked, pause_requested>>

NoId == NumWorkers

(* Types.                                                                  *)
TypeOK ==
    /\ pc \in {"initWait", "initWoken", "out", "gate", "gateWait", "waiting", "woken", "join", "done"}
    /\ queue \in Seq(Voices) /\ Len(queue) <= MaxQueue
    /\ share \in [Workers -> SUBSET (1..MaxQueue)]
    /\ workers_pending \subseteq Workers
    /\ worker \in [Workers -> {"created", "woken", "busy", "waiting", "exited"}]
    /\ id \in [Workers -> Workers \cup {NoId}]
    /\ exit \in BOOLEAN /\ pause_requested \in BOOLEAN
    /\ mixed \subseteq 1..MaxQueue
    /\ voice_locked \subseteq Voices

(* voice_work_init has created the threads and waits for them.             *)
Init ==
    /\ pc = "initWait"
    /\ queue = <<>> /\ mixed = {}
    /\ share = [w \in Workers |-> {}]
    /\ workers_pending = Workers
    /\ worker = [t \in Workers |-> "created"]
    /\ id = [t \in Workers |-> NoId]
    /\ exit = FALSE
    /\ voice_locked = {} /\ pause_requested = FALSE

DLockFree == pc \in {"out", "gateWait"}

-----------------------------------------------------------------------------
(* voice_worker_thread                                                     *)

(* Clear the worker's bit; the last one signals work_finished; wait.       *)
Finish(t, w) ==
    /\ workers_pending' = workers_pending \ {w}
    /\ pc' = IF workers_pending' # {} THEN pc
             ELSE IF pc = "initWait" THEN "initWoken"
             ELSE IF pc = "waiting" THEN "woken" ELSE pc
    /\ worker' = [worker EXCEPT ![t] = "waiting"]

(* The first pass: the slot is the lowest bit of workers_pending.          *)
WorkerStart(t) ==
    /\ worker[t] = "created"
    /\ LET w == CHOOSE w \in workers_pending : \A v \in workers_pending : w <= v
       IN  id' = [id EXCEPT ![t] = w] /\ Finish(t, w)
    /\ UNCHANGED <<queue, share, exit, mixed, voice_locked, pause_requested>>

WorkerExit(t) ==
    /\ worker[t] = "woken" /\ exit
    /\ worker' = [worker EXCEPT ![t] = "exited"]
    /\ UNCHANGED <<pc, queue, share, workers_pending, id, exit, mixed, voice_locked, pause_requested>>

(* Mutant: the bit is cleared when the work is taken up.                   *)
WorkerTake_ClearsBit(t) ==
    /\ worker[t] = "woken" /\ ~exit
    /\ share[id[t]] # {}
    /\ Finish(t, id[t])
    /\ UNCHANGED <<queue, share, id, exit, mixed, voice_locked, pause_requested>>

(* A pass that finds work drops vwd->lock to process it.                   *)
WorkerTake(t) ==
    /\ worker[t] = "woken" /\ ~exit
    /\ share[id[t]] # {}
    /\ worker' = [worker EXCEPT ![t] = "busy"]
    /\ UNCHANGED <<pc, queue, share, workers_pending, id, exit, mixed, voice_locked, pause_requested>>

WorkerMix(t) ==
    /\ worker[t] = "busy"
    /\ mixed' = mixed \cup share[id[t]]
    /\ share' = [share EXCEPT ![id[t]] = {}]
    /\ Finish(t, id[t])
    /\ UNCHANGED <<queue, id, exit, voice_locked, pause_requested>>

(* A pass that finds no work, after a broadcast meant for others.          *)
WorkerIdle(t) ==
    /\ worker[t] = "woken" /\ ~exit
    /\ share[id[t]] = {}
    /\ Finish(t, id[t])
    /\ UNCHANGED <<queue, share, id, exit, mixed, voice_locked, pause_requested>>

WorkerStep(t) == WorkerStart(t) \/ WorkerExit(t) \/ WorkerTake(t) \/ WorkerMix(t) \/ WorkerIdle(t)

Broadcast == [t \in Workers |-> IF worker[t] = "waiting" THEN "woken" ELSE worker[t]]

-----------------------------------------------------------------------------
(* voice_work_schedule: where each position of q goes.  Voices that mix    *)
(* into the multipass bin stay on one worker with the voice that reads it. *)

(* Mutant: the group is not kept together.                                 *)
Advance_NoGroup(p, v) ==
    [next |-> (p.next + 1) % NumWorkers, group |-> FALSE, dirty |-> FALSE]

(* The scheduler's variables after voice v.                                *)
Advance(p, v) ==
    LET opened == p.group \/ (v \in Sub /\ ~p.dirty)
        group == opened /\ v \notin Mp
    IN  [next |-> IF group THEN p.next ELSE (p.next + 1) % NumWorkers,
         group |-> group,
         dirty |-> (p.dirty /\ v \notin Mp) \/ v \in Sub]

FirstCursor == [next |-> 0, group |-> FALSE, dirty |-> FALSE]

(* The scheduler's variables after each number of voices.                  *)
Cursor(q) ==
    LET c[i \in 0..Len(q)] == IF i = 0 THEN FirstCursor ELSE Advance(c[i-1], q[i])
    IN  c

WorkerOf(q, i) == Cursor(q)[i - 1].next

(* What the scheduler's assertions allow: no ordinary voice between the    *)
(* first voice that mixes into the multipass bin and the one that reads.   *)
Schedulable(q) == \A i \in 1..Len(q) : q[i] \in Plain => ~Cursor(q)[i - 1].dirty

-----------------------------------------------------------------------------
(* The dispatching thread: voice_work_init, then the APU thread's frames,  *)
(* then voice_work_finalize.                                               *)

InitEnd ==
    /\ pc = "initWoken"
    /\ pc' = "out"
    /\ UNCHANGED <<queue, share, workers_pending, worker, id, exit, mixed, voice_locked, pause_requested>>

(* The voice lists are walked and the active voices queued.                *)
FrameBegin ==
    /\ pc = "out" /\ ~pause_requested
    /\ \E n \in 0..MaxQueue : \E q \in [1..n -> Voices] :
          /\ \A i, j \in 1..n : q[i] = q[j] => i = j
          /\ Schedulable(q)
          /\ queue' = q
    /\ pc' = "gate"
    /\ UNCHANGED <<share, workers_pending, worker, id, exit, mixed, voice_locked, pause_requested>>

QueuedVoiceLocked == \E i \in 1..Len(queue) : queue[i] \in voice_locked

(* A pause drops the frame's voices.                                       *)
GatePaused ==
    /\ pc = "gate" /\ pause_requested
    /\ queue' = <<>>
    /\ pc' = "out"
    /\ UNCHANGED <<share, workers_pending, worker, id, exit, mixed, voice_locked, pause_requested>>

GateWait ==
    /\ pc = "gate" /\ ~pause_requested
    /\ QueuedVoiceLocked
    /\ pc' = "gateWait"
    /\ UNCHANGED <<queue, share, workers_pending, worker, id, exit, mixed, voice_locked, pause_requested>>

(* d->cond is signalled, or a millisecond has passed.                      *)
GateWake ==
    /\ pc = "gateWait"
    /\ pc' = "gate"
    /\ UNCHANGED <<queue, share, workers_pending, worker, id, exit, mixed, voice_locked, pause_requested>>

GateEmpty ==
    /\ pc = "gate" /\ ~pause_requested
    /\ queue = <<>>
    /\ pc' = "out"
    /\ UNCHANGED <<queue, share, workers_pending, worker, id, exit, mixed, voice_locked, pause_requested>>

Dispatch ==
    /\ pc = "gate" /\ ~pause_requested
    /\ queue # <<>> /\ ~QueuedVoiceLocked
    /\ share' = [w \in Workers |-> share[w] \cup {i \in 1..Len(queue) : WorkerOf(queue, i) = w}]
    /\ workers_pending' = workers_pending \cup {WorkerOf(queue, i) : i \in 1..Len(queue)}
    /\ worker' = Broadcast
    /\ pc' = "waiting"
    /\ UNCHANGED <<queue, id, exit, mixed, voice_locked, pause_requested>>

DispatchEnd ==
    /\ pc = "woken"
    /\ queue' = <<>> /\ mixed' = {}
    /\ pc' = "out"
    /\ UNCHANGED <<share, workers_pending, worker, id, exit, voice_locked, pause_requested>>

(* Mutant: the flag is set and nobody told.                                *)
Finalize_NoBroadcast ==
    /\ pc = "out"
    /\ exit' = TRUE
    /\ pc' = "join"
    /\ UNCHANGED <<queue, share, workers_pending, worker, id, mixed, voice_locked, pause_requested>>

(* The APU thread has been joined; the workers are told to exit.           *)
Finalize ==
    /\ pc = "out"
    /\ exit' = TRUE
    /\ worker' = Broadcast
    /\ pc' = "join"
    /\ UNCHANGED <<queue, share, workers_pending, id, mixed, voice_locked, pause_requested>>

FinalizeEnd ==
    /\ pc = "join" /\ \A t \in Workers : worker[t] = "exited"
    /\ pc' = "done"
    /\ UNCHANGED <<queue, share, workers_pending, worker, id, exit, mixed, voice_locked, pause_requested>>

DispatchStep ==
    \/ InitEnd \/ GatePaused \/ GateWait \/ GateWake \/ GateEmpty \/ Dispatch \/ DispatchEnd \/ FinalizeEnd

-----------------------------------------------------------------------------
(* The guest and the machine around the voice processor.                   *)

(* Mutant: the bitmap is written without d->lock.                          *)
VoiceLock_NoLock(v) ==
    /\ pc \notin {"initWait", "initWoken", "join", "done"} /\ ~pause_requested
    /\ voice_locked' = voice_locked \cup {v}
    /\ UNCHANGED <<pc, queue, share, workers_pending, worker, id, exit, mixed, pause_requested>>

(* voice_lock from the vCPU, which does not run while the VM is paused.    *)
VoiceLock(v) ==
    /\ DLockFree /\ ~pause_requested
    /\ voice_locked' = voice_locked \cup {v}
    /\ UNCHANGED <<pc, queue, share, workers_pending, worker, id, exit, mixed, pause_requested>>

VoiceUnlock(v) ==
    /\ DLockFree /\ ~pause_requested /\ v \in voice_locked
    /\ voice_locked' = voice_locked \ {v}
    /\ UNCHANGED <<pc, queue, share, workers_pending, worker, id, exit, mixed, pause_requested>>

Pause ==
    /\ DLockFree /\ ~pause_requested
    /\ pause_requested' = TRUE
    /\ UNCHANGED <<pc, queue, share, workers_pending, worker, id, exit, mixed, voice_locked>>

(* The frame thread is parked; a reset also clears the lock bitmap.        *)
Resume ==
    /\ pc = "out" /\ pause_requested
    /\ pause_requested' = FALSE
    /\ voice_locked' \in {voice_locked, {}}
    /\ UNCHANGED <<pc, queue, share, workers_pending, worker, id, exit, mixed>>

(* A worker's wait may return without a signal.  The dispatching thread's  *)
(* waits are assumed not to: no predicate guards them.                     *)
Spurious(t) ==
    /\ worker[t] = "waiting"
    /\ worker' = [worker EXCEPT ![t] = "woken"]
    /\ UNCHANGED <<pc, queue, share, workers_pending, id, exit, mixed, voice_locked, pause_requested>>

Next ==
    \/ \E t \in Workers : WorkerStep(t) \/ Spurious(t)
    \/ DispatchStep \/ FrameBegin \/ Finalize
    \/ \E v \in Voices : VoiceLock(v) \/ VoiceUnlock(v)
    \/ Pause \/ Resume

Spec == Init /\ [][Next]_vars

FairSpec == Spec /\ WF_vars(DispatchStep) /\ \A t \in Workers : WF_vars(WorkerStep(t))

-----------------------------------------------------------------------------
(* When the dispatching thread comes back from its wait no worker has work *)
(* left: the assertions of voice_work_dispatch and voice_work_init, whose  *)
(* waits test no predicate.                                                *)
NothingPending ==
    pc \in {"woken", "initWoken"} => workers_pending = {} /\ \A w \in Workers : share[w] = {}

(* The frame that is summed holds every queued voice.                      *)
EveryVoiceMixed == pc = "woken" => mixed = 1..Len(queue)

(* A frame is summed only when it is complete (voice_work_dispatch).       *)
FrameComplete == NothingPending /\ EveryVoiceMixed

(* A voice the guest has locked is not being processed, and is not handed  *)
(* out, until it is unlocked.                                              *)
LockedVoiceStill ==
    \A w \in Workers, i \in 1..Len(queue) : i \in share[w] => queue[i] \notin voice_locked

(* Two worker threads never take the same slot, so none shares a queue.    *)
SlotsDistinct ==
    \A t, u \in Workers : id[t] = id[u] /\ id[t] # NoId => t = u

(* The pool's slots and the voices handed out stay consistent with the     *)
(* guest's locks between any two steps (voice_worker_thread, voice_lock).  *)
VoiceInv == TypeOK /\ SlotsDistinct /\ LockedVoiceStill

(* A voice that reads the multipass bin is processed by the worker that    *)
(* processed, before it, the voices that mixed into that bin for it.       *)
MultipassTogether ==
    \A j \in 1..Len(queue), i \in 1..Len(queue) :
        /\ i < j /\ queue[j] \in Mp /\ queue[i] \in Sub
        /\ \A k \in i..(j - 1) : queue[k] \notin Mp
        => WorkerOf(queue, i) = WorkerOf(queue, j)

(* A pause gets the frame thread out of the voice processor even while the *)
(* stopped guest holds a voice locked.                                     *)
PauseEndsFrame == pause_requested ~> pc \in {"out", "join", "done"}

(* voice_work_finalize returns: no worker misses the request to exit.      *)
WorkersExit == pc = "join" ~> pc = "done"

(* Whoever waits for the voice processor gets out of it: the VM that       *)
(* pauses, and the exit that joins the pool.                               *)
PoolLetsGo == PauseEndsFrame /\ WorkersExit
====
