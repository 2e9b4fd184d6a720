------------------------- MODULE VoiceWorkersProofs -------------------------
(***************************************************************************)
(* For any number of workers and voices: a frame is summed only when every *)
(* queued voice has been mixed, locked voices stay untouched, worker slots *)
(* are distinct, and the voices of a multipass group go to one worker.     *)
(*                                                                         *)
(* Facts about the scheduler's recursion are proved by taking the least    *)
(* position at which they fail.  The inductive invariant says what each    *)
(* phase of the dispatching thread may rely on: positions handed out and   *)
(* bits pending exist only while it waits, and while the pool starts there *)
(* are as many free slots as threads that have not taken one.              *)
(***************************************************************************)
EXTENDS VoiceWorkers, FiniteSetTheorems, SequenceTheorems, WellFoundedInduction, TLAPS

-----------------------------------------------------------------------------
(* voice_work_schedule                                                     *)

(* A set of natural numbers has a least element.                           *)
LEMMA LeastNatural ==
    ASSUME NEW S \in SUBSET Nat, S # {}
    PROVE  \E m \in S : \A x \in S : m <= x
  <1> DEFINE R == {ss \in Nat \X Nat : ss[1] < ss[2]}
  <1>1. IsWellFoundedOn(R, Nat)
    BY NatLessThanWellFounded DEF OpToRel
  <1>2. \E m \in S : \A x \in S : <<x, m>> \notin R
    <2> HIDE DEF R
    <2> QED
      BY <1>1, WFMin, ZenonT(30)
  <1>3. PICK m \in S : \A x \in S : <<x, m>> \notin R
    BY <1>2
  <1>4. ASSUME NEW x \in S PROVE m <= x
    <2>1. <<x, m>> \in Nat \X Nat
      OBVIOUS
    <2>2. ~(x < m)
      BY <1>3, <2>1
    <2> QED
      BY <2>2
  <1> QED
    BY <1>4

(* The recursion of voice_work_schedule has a solution for every queue.    *)
LEMMA CursorExists ==
    ASSUME NEW q
    PROVE  \A n \in Nat : \E f : f = [i \in 0..n |->
               IF i = 0 THEN FirstCursor ELSE Advance(f[i-1], q[i])]
  <1> DEFINE Sol(f, n) == f = [i \in 0..n |->
                 IF i = 0 THEN FirstCursor ELSE Advance(f[i-1], q[i])]
  <1> DEFINE Bad == {n \in Nat : ~ \E f : Sol(f, n)}
  <1>1. SUFFICES ASSUME Bad # {} PROVE FALSE
    OBVIOUS
  <1>2. PICK m \in Bad : \A x \in Bad : m <= x
    <2>1. Bad \in SUBSET Nat
      OBVIOUS
    <2> HIDE DEF Bad
    <2> QED
      BY <1>1, <2>1, LeastNatural
  <1>3. m \in Nat /\ ~ \E f : Sol(f, m)
    OBVIOUS
  <1>4. CASE m = 0
    <2> DEFINE f == [i \in 0..0 |-> FirstCursor]
    <2>1. Sol(f, 0)
      OBVIOUS
    <2> QED
      BY <1>3, <1>4, <2>1, ZenonT(30)
  <1>5. CASE m # 0
    <2>1. m - 1 \in Nat /\ ~(m <= m - 1)
      BY <1>3, <1>5
    <2>2. m - 1 \notin Bad
      BY <1>2, <2>1, ZenonT(30)
    <2>3. PICK f : Sol(f, m - 1)
      BY <2>1, <2>2
    <2> DEFINE g == [i \in 0..m |->
                        IF i = m THEN Advance(f[m-1], q[m]) ELSE f[i]]
    <2>4. ASSUME NEW i \in 0..m
          PROVE  g[i] = IF i = 0 THEN FirstCursor ELSE Advance(g[i-1], q[i])
      <3>1. CASE i = m
        <4>1. m - 1 \in 0..m /\ m - 1 # m
          BY <1>3, <1>5
        <4>2. g[m-1] = f[m-1]
          BY <4>1
        <4> QED
          BY <1>5, <3>1, <4>2
      <3>2. CASE i # m
        <4>1. i \in 0..(m-1)
          BY <1>3, <3>2
        <4>2. f[i] = IF i = 0 THEN FirstCursor ELSE Advance(f[i-1], q[i])
          BY <2>3, <4>1
        <4>3. i # 0 => i - 1 \in 0..m /\ i - 1 # m
          BY <1>3, <4>1
        <4>4. i # 0 => g[i-1] = f[i-1]
          BY <4>3
        <4>5. g[i] = f[i]
          BY <3>2
        <4> QED
          BY <4>2, <4>4, <4>5
      <3> QED
        BY <3>1, <3>2
    <2>5. g = [i \in 0..m |-> g[i]]
      OBVIOUS
    <2>6. Sol(g, m)
      <3> HIDE DEF g
      <3> QED
        BY <2>4, <2>5
    <2> QED
      BY <1>3, <2>6, ZenonT(30)
  <1> QED
    BY <1>4, <1>5

(* One pass of the scheduler's loop.                                       *)
LEMMA CursorDef ==
    ASSUME NEW q \in Seq(Voices)
    PROVE  /\ Cursor(q)[0] = FirstCursor
           /\ \A i \in 1..Len(q) : Cursor(q)[i] = Advance(Cursor(q)[i-1], q[i])
  <1>1. Len(q) \in Nat
    OBVIOUS
  <1>2. \E f : f = [i \in 0..Len(q) |->
                       IF i = 0 THEN FirstCursor ELSE Advance(f[i-1], q[i])]
    BY <1>1, CursorExists
  <1>3. Cursor(q) = [i \in 0..Len(q) |->
                       IF i = 0 THEN FirstCursor ELSE Advance(Cursor(q)[i-1], q[i])]
    BY <1>2 DEF Cursor
  <1> HIDE DEF Cursor
  <1>4. ASSUME NEW i \in 0..Len(q)
        PROVE  Cursor(q)[i] = IF i = 0 THEN FirstCursor ELSE Advance(Cursor(q)[i-1], q[i])
    <2> DEFINE c == Cursor(q)
    <2>1. c = [j \in 0..Len(q) |-> IF j = 0 THEN FirstCursor ELSE Advance(c[j-1], q[j])]
      BY <1>3
    <2> HIDE DEF c
    <2>2. c[i] = IF i = 0 THEN FirstCursor ELSE Advance(c[i-1], q[i])
      BY <2>1
    <2> QED
      BY <2>2 DEF c
  <1>5. 0 \in 0..Len(q)
    BY <1>1
  <1>6. Cursor(q)[0] = FirstCursor
    BY <1>4, <1>5
  <1>7. ASSUME NEW i \in 1..Len(q)
        PROVE  Cursor(q)[i] = Advance(Cursor(q)[i-1], q[i])
    <2>1. i \in 0..Len(q) /\ i # 0
      BY <1>1
    <2> QED
      BY <1>4, <2>1
  <1> QED
    BY <1>6, <1>7

CursorOK == {c \in [next : Workers, group : BOOLEAN, dirty : BOOLEAN] : c.dirty => c.group}

(* A pass keeps the next worker in range, and a dirty multipass bin means  *)
(* that a group is open.                                                   *)
LEMMA AdvanceOK ==
    ASSUME NEW c \in CursorOK, NEW v \in Voices
    PROVE  Advance(c, v) \in CursorOK
  <1> DEFINE group == (c.group \/ (v \in Sub /\ ~c.dirty)) /\ v \notin Mp
  <1> DEFINE dirty == (c.dirty /\ v \notin Mp) \/ v \in Sub
  <1> DEFINE next == IF group THEN c.next ELSE (c.next + 1) % NumWorkers
  <1>1. Advance(c, v) = [next |-> next, group |-> group, dirty |-> dirty]
    BY DEF Advance
  <1>2. c.next \in Workers /\ c.group \in BOOLEAN /\ c.dirty \in BOOLEAN /\ (c.dirty => c.group)
    BY DEF CursorOK
  <1>3. (c.next + 1) % NumWorkers \in Workers
    BY <1>2, VoiceAssumption DEF Workers
  <1>4. next \in Workers
    BY <1>2, <1>3
  <1>5. group \in BOOLEAN /\ dirty \in BOOLEAN
    OBVIOUS
  <1>6. dirty => group
    BY <1>2, VoiceAssumption
  <1> HIDE DEF group, dirty, next
  <1> QED
    BY <1>1, <1>4, <1>5, <1>6 DEF CursorOK

(* The scheduler's variables stay in range for every queue.                *)
LEMMA CursorType ==
    ASSUME NEW q \in Seq(Voices)
    PROVE  \A i \in 0..Len(q) : Cursor(q)[i] \in CursorOK
  <1> DEFINE Bad == {i \in 0..Len(q) : Cursor(q)[i] \notin CursorOK}
  <1>1. SUFFICES ASSUME Bad # {} PROVE FALSE
    OBVIOUS
  <1>2. PICK m \in Bad : \A x \in Bad : m <= x
    <2>1. Bad \in SUBSET Nat
      OBVIOUS
    <2> HIDE DEF Bad
    <2> QED
      BY <1>1, <2>1, LeastNatural
  <1>3. m \in 0..Len(q) /\ Cursor(q)[m] \notin CursorOK /\ Len(q) \in Nat
    OBVIOUS
  <1>4. FirstCursor \in CursorOK
    BY VoiceAssumption DEF FirstCursor, CursorOK, Workers
  <1>5. m # 0
    BY <1>3, <1>4, CursorDef
  <1>6. m - 1 \in 0..Len(q) /\ ~(m <= m - 1) /\ m \in 1..Len(q)
    BY <1>3, <1>5
  <1>7. Cursor(q)[m-1] \in CursorOK
    BY <1>2, <1>6
  <1>8. q[m] \in Voices
    BY <1>6
  <1>9. Cursor(q)[m] = Advance(Cursor(q)[m-1], q[m])
    BY <1>6, CursorDef
  <1> QED
    BY <1>3, <1>7, <1>8, <1>9, AdvanceOK

(* Every queued voice is given to a worker of the pool.                    *)
LEMMA WorkerOfType ==
    ASSUME NEW q \in Seq(Voices), NEW i \in 1..Len(q)
    PROVE  WorkerOf(q, i) \in Workers
  <1>1. i - 1 \in 0..Len(q)
    OBVIOUS
  <1>2. Cursor(q)[i-1] \in CursorOK
    BY <1>1, CursorType
  <1> HIDE DEF Cursor
  <1> QED
    BY <1>2 DEF WorkerOf, CursorOK

(* From the first voice that mixes into the multipass bin to the one that  *)
(* reads it the scheduler stays on one worker.                             *)
LEMMA GroupOnOneWorker ==
    ASSUME NEW q \in Seq(Voices), NEW i \in 1..Len(q), NEW j \in 1..Len(q),
           i < j, q[i] \in Sub, \A k \in i..(j-1) : q[k] \notin Mp
    PROVE  WorkerOf(q, i) = WorkerOf(q, j)
  <1> DEFINE c(k) == Cursor(q)[k]
  <1> DEFINE Bad == {k \in i..(j-1) : ~(c(k).group /\ c(k).next = c(i-1).next)}
  <1>0. /\ Len(q) \in Nat /\ i \in Nat /\ j \in Nat /\ i - 1 \in 0..Len(q) /\ i \in i..(j-1)
        /\ j - 1 \in i..(j-1)
    OBVIOUS
  <1>a. ASSUME NEW p \in CursorOK, NEW v \in Voices, v \notin Mp, p.group \/ v \in Sub
        PROVE  Advance(p, v).group /\ Advance(p, v).next = p.next
    <2>1. p.dirty \in BOOLEAN /\ p.group \in BOOLEAN /\ (p.dirty => p.group)
      BY DEF CursorOK
    <2>2. p.group \/ (v \in Sub /\ ~p.dirty)
      BY <1>a, <2>1
    <2> QED
      BY <1>a, <2>2, ZenonT(30) DEF Advance
  <1>1. Bad = {}
    <2>1. SUFFICES ASSUME Bad # {} PROVE FALSE
      OBVIOUS
    <2>2. PICK m \in Bad : \A x \in Bad : m <= x
      <3>1. Bad \in SUBSET Nat
        BY <1>0
      <3> HIDE DEF Bad
      <3> QED
        BY <2>1, <3>1, LeastNatural
    <2>3. /\ m \in i..(j-1) /\ m \in Nat /\ m \in 1..Len(q) /\ m - 1 \in 0..Len(q)
          /\ ~(c(m).group /\ c(m).next = c(i-1).next)
      BY <1>0
    <2>4. c(m) = Advance(c(m-1), q[m])
      BY <2>3, CursorDef
    <2>5. c(m-1) \in CursorOK /\ q[m] \in Voices /\ q[m] \notin Mp
      BY <2>3, CursorType
    <2>6. CASE m = i
      <3>1. Advance(c(m-1), q[m]).group /\ Advance(c(m-1), q[m]).next = c(m-1).next
        <4> HIDE DEF c
        <4> QED
          BY <1>a, <2>5, <2>6
      <3> HIDE DEF c
      <3> QED
        BY <2>3, <2>4, <2>6, <3>1
    <2>7. CASE m # i
      <3>1. m - 1 \in i..(j-1) /\ ~(m <= m - 1)
        BY <1>0, <2>3, <2>7
      <3>2. m - 1 \notin Bad
        BY <2>2, <3>1
      <3>3. c(m-1).group /\ c(m-1).next = c(i-1).next
        BY <3>1, <3>2
      <3> HIDE DEF c
      <3>4. Advance(c(m-1), q[m]).group /\ Advance(c(m-1), q[m]).next = c(m-1).next
        BY <1>a, <2>5, <3>3
      <3> QED
        BY <2>3, <2>4, <3>3, <3>4
    <2> QED
      BY <2>6, <2>7
  <1>2. c(j-1).next = c(i-1).next
    BY <1>0, <1>1
  <1> QED
    BY <1>2 DEF WorkerOf

-----------------------------------------------------------------------------
(* The inductive invariant                                                 *)

Created == {t \in Workers : worker[t] = "created"}

(* voice_worker_thread's first pass: a slot is free exactly as long as a   *)
(* thread is left to take it.                                              *)
StartInv ==
    /\ \A t \in Workers : worker[t] = "created" <=> id[t] = NoId
    /\ pc = "initWait" => /\ Cardinality(Created) = Cardinality(workers_pending)
                          /\ \A t \in Workers : id[t] \notin workers_pending
    /\ pc # "initWait" => Created = {}

(* Work is handed out, and bits are pending for it, only while the         *)
(* dispatching thread waits; a busy worker has work.                       *)
WorkInv ==
    /\ pc # "waiting" => \A w \in Workers : share[w] = {}
    /\ pc \notin {"waiting", "initWait"} => workers_pending = {}
    /\ \A w \in Workers : share[w] # {} => w \in workers_pending
    /\ \A t \in Workers : worker[t] = "busy" => share[id[t]] # {}

(* Every queued position is with a worker or has been mixed.               *)
MixInv ==
    /\ pc \notin {"waiting", "woken"} => mixed = {}
    /\ pc = "waiting" => mixed \cup UNION {share[w] : w \in Workers} = 1..Len(queue)
    /\ pc = "woken" => mixed = 1..Len(queue)

IInv == TypeOK /\ StartInv /\ SlotsDistinct /\ WorkInv /\ MixInv /\ LockedVoiceStill

(* The slot a starting thread takes is the lowest pending bit, and there   *)
(* is one.                                                                 *)
LEMMA FreeSlot ==
    ASSUME IInv, NEW t \in Workers, WorkerStart(t)
    PROVE  /\ pc = "initWait"
           /\ \E w \in workers_pending : id' = [id EXCEPT ![t] = w] /\ Finish(t, w)
  <1>1. t \in Created /\ pc = "initWait"
    BY DEF WorkerStart, IInv, StartInv, Created
  <1>2. IsFiniteSet(Workers)
    BY VoiceAssumption, FS_Interval DEF Workers
  <1>3. IsFiniteSet(Created) /\ IsFiniteSet(workers_pending)
    BY <1>2, FS_Subset DEF Created, IInv, TypeOK
  <1>4. Cardinality(Created) # 0
    BY <1>1, <1>3, FS_EmptySet
  <1>5. workers_pending # {}
    BY <1>1, <1>4, FS_EmptySet DEF IInv, StartInv
  <1>6. workers_pending \in SUBSET Nat
    BY VoiceAssumption DEF IInv, TypeOK, Workers
  <1>7. \E w \in workers_pending : \A v \in workers_pending : w <= v
    BY <1>5, <1>6, LeastNatural
  <1> QED
    BY <1>1, <1>7, ZenonT(30) DEF WorkerStart

(* Workers is finite, and NoId is none of them.                            *)
LEMMA PoolFinite == IsFiniteSet(Workers) /\ NoId \notin Workers
  BY VoiceAssumption, FS_Interval DEF Workers, NoId

(* Types: what is handed out are positions of the queue, given to workers  *)
(* of the pool.                                                            *)
LEMMA TypesKept ==
  ASSUME IInv, [Next]_vars
  PROVE  TypeOK'
<1> USE DEF IInv, TypeOK
<1>1. ASSUME NEW t \in Workers, WorkerStart(t) PROVE TypeOK'
  <2>1. PICK w \in workers_pending : id' = [id EXCEPT ![t] = w] /\ Finish(t, w)
    BY <1>1, FreeSlot
  <2>2. pc = "initWait"
    BY <1>1, FreeSlot
  <2>3. /\ queue' = queue /\ share' = share /\ exit' = exit /\ mixed' = mixed
        /\ voice_locked' = voice_locked /\ pause_requested' = pause_requested
    BY <1>1 DEF WorkerStart
  <2>4. /\ workers_pending' = workers_pending \ {w}
        /\ pc' = IF workers_pending' # {} THEN pc ELSE "initWoken"
        /\ worker' = [worker EXCEPT ![t] = "waiting"]
    BY <2>1, <2>2 DEF Finish
  <2> QED
    BY <2>1, <2>2, <2>3, <2>4
<1>2. ASSUME NEW t \in Workers, WorkerExit(t) PROVE TypeOK'
  BY <1>2 DEF WorkerExit
<1>3. ASSUME NEW t \in Workers, WorkerTake(t) PROVE TypeOK'
  BY <1>3 DEF WorkerTake
<1>4. ASSUME NEW t \in Workers, WorkerMix(t) PROVE TypeOK'
  <2>1. id[t] \in Workers
    BY <1>4, PoolFinite DEF WorkerMix, StartInv
  <2>2. mixed' \subseteq 1..MaxQueue /\ share' \in [Workers -> SUBSET (1..MaxQueue)]
    BY <1>4, <2>1, ZenonT(30) DEF WorkerMix
  <2>3. workers_pending' \subseteq Workers /\ worker' \in [Workers -> {"created", "woken", "busy", "waiting", "exited"}]
    BY <1>4 DEF WorkerMix, Finish
  <2>4. pc' \in {"initWait", "initWoken", "out", "gate", "gateWait", "waiting", "woken", "join", "done"}
    BY <1>4 DEF WorkerMix, Finish
  <2> QED
    BY <1>4, <2>2, <2>3, <2>4 DEF WorkerMix
<1>5. ASSUME NEW t \in Workers, WorkerIdle(t) PROVE TypeOK'
  BY <1>5 DEF WorkerIdle, Finish
<1>6. ASSUME NEW t \in Workers, Spurious(t) PROVE TypeOK'
  BY <1>6 DEF Spurious
<1>7. CASE InitEnd
  BY <1>7 DEF InitEnd
<1>8. CASE FrameBegin
  BY <1>8 DEF FrameBegin
<1>9. CASE GatePaused
  <2>1. queue' \in Seq(Voices) /\ Len(queue') = 0
    BY <1>9 DEF GatePaused
  <2> QED
    BY <1>9, <2>1, VoiceAssumption DEF GatePaused
<1>10. CASE GateWait
  BY <1>10 DEF GateWait
<1>11. CASE GateWake
  BY <1>11 DEF GateWake
<1>12. CASE GateEmpty
  BY <1>12 DEF GateEmpty
<1>13. CASE Dispatch
  <2>1. \A i \in 1..Len(queue) : WorkerOf(queue, i) \in Workers
    BY WorkerOfType
  <2>2. 1..Len(queue) \subseteq 1..MaxQueue
    BY VoiceAssumption
  <2>3. share' \in [Workers -> SUBSET (1..MaxQueue)]
    BY <1>13, <2>2 DEF Dispatch
  <2>4. workers_pending' \subseteq Workers
    BY <1>13, <2>1 DEF Dispatch
  <2>5. worker' \in [Workers -> {"created", "woken", "busy", "waiting", "exited"}]
    BY <1>13 DEF Dispatch, Broadcast
  <2> QED
    BY <1>13, <2>3, <2>4, <2>5 DEF Dispatch
<1>14. CASE DispatchEnd
  <2>1. queue' \in Seq(Voices) /\ Len(queue') = 0
    BY <1>14 DEF DispatchEnd
  <2> QED
    BY <1>14, <2>1, VoiceAssumption DEF DispatchEnd
<1>15. CASE Finalize
  BY <1>15 DEF Finalize, Broadcast
<1>16. CASE FinalizeEnd
  BY <1>16 DEF FinalizeEnd
<1>17. CASE Pause
  BY <1>17 DEF Pause, DLockFree
<1>18. CASE Resume
  BY <1>18, ZenonT(30) DEF Resume
<1>19. ASSUME NEW v \in Voices, VoiceLock(v) PROVE TypeOK'
  BY <1>19 DEF VoiceLock, DLockFree
<1>20. ASSUME NEW v \in Voices, VoiceUnlock(v) PROVE TypeOK'
  BY <1>20 DEF VoiceUnlock, DLockFree
<1>21. CASE UNCHANGED vars
  BY <1>21 DEF vars
<1> HIDE DEF IInv, TypeOK
<1>22. QED
  BY <1>1, <1>2, <1>3, <1>4, <1>5, <1>6, <1>7, <1>8, <1>9, <1>10, <1>11,
     <1>12, <1>13, <1>14, <1>15, <1>16, <1>17, <1>18, <1>19, <1>20, <1>21
  DEF Next, WorkerStep, DispatchStep

(* The start-up of the pool: a slot and a thread without one go together.  *)
LEMMA StartKept ==
  ASSUME IInv, [Next]_vars
  PROVE  StartInv'
<1> USE DEF IInv, TypeOK, StartInv, Created
<1>1. ASSUME NEW t \in Workers, WorkerStart(t) PROVE StartInv'
  <2>1. PICK w \in workers_pending : id' = [id EXCEPT ![t] = w] /\ Finish(t, w)
    BY <1>1, FreeSlot
  <2>2. pc = "initWait"
    BY <1>1, FreeSlot
  <2>3. /\ queue' = queue /\ share' = share /\ exit' = exit /\ mixed' = mixed
        /\ voice_locked' = voice_locked /\ pause_requested' = pause_requested
    BY <1>1 DEF WorkerStart
  <2>4. /\ workers_pending' = workers_pending \ {w}
        /\ pc' = IF workers_pending' # {} THEN pc ELSE "initWoken"
        /\ worker' = [worker EXCEPT ![t] = "waiting"]
    BY <2>1, <2>2 DEF Finish
  <2>5. id[t] = NoId /\ w \in Workers /\ w # NoId /\ t \in Created
    BY <1>1, PoolFinite DEF WorkerStart
  <2>6. Created' = Created \ {t}
    BY <2>4
  <2>7. IsFiniteSet(Created) /\ IsFiniteSet(workers_pending)
    BY PoolFinite, FS_Subset
  <2>8. /\ IsFiniteSet(Created') /\ IsFiniteSet(workers_pending')
        /\ Cardinality(Created') = Cardinality(workers_pending')
    <3> DEFINE S == Created
    <3> DEFINE P == workers_pending
    <3>1. Cardinality(S) = Cardinality(P)
      BY <2>2
    <3>2. t \in S /\ w \in P /\ IsFiniteSet(S) /\ IsFiniteSet(P)
      BY <2>1, <2>5, <2>7
    <3> HIDE DEF S, P
    <3>3. IsFiniteSet(S \ {t}) /\ Cardinality(S \ {t}) = Cardinality(S) - 1
      BY <3>2, FS_RemoveElement
    <3>4. IsFiniteSet(P \ {w}) /\ Cardinality(P \ {w}) = Cardinality(P) - 1
      BY <3>2, FS_RemoveElement
    <3>5. Created' = S \ {t} /\ workers_pending' = P \ {w}
      BY <2>4, <2>6 DEF S, P
    <3> QED
      BY <3>1, <3>3, <3>4, <3>5, ZenonT(30)
  <2>9. \A u \in Workers : id'[u] \notin workers_pending'
    BY <2>1, <2>2, <2>4, <2>5
  <2>10. \A u \in Workers : worker'[u] = "created" <=> id'[u] = NoId
    BY <2>1, <2>4, <2>5
  <2>11. pc' # "initWait" => Created' = {}
    <3>1. CASE workers_pending' # {}
      BY <2>2, <2>4, <3>1
    <3>2. CASE workers_pending' = {}
      <4>1. IsFiniteSet(Created') /\ Cardinality(Created') = 0
        BY <2>8, <3>2, FS_EmptySet
      <4> QED
        BY <4>1, FS_EmptySet, ZenonT(30)
    <3> QED
      BY <3>1, <3>2
  <2> QED
    BY <2>8, <2>9, <2>10, <2>11
<1>2. ASSUME NEW t \in Workers, WorkerExit(t) PROVE StartInv'
  <2>1. pc' = pc /\ id' = id /\ workers_pending' = workers_pending
    BY <1>2 DEF WorkerExit
  <2>2. \A u \in Workers : worker'[u] = "created" <=> worker[u] = "created"
    BY <1>2 DEF WorkerExit
  <2>3. Created' = Created
    BY <2>2
  <2> QED
    BY <2>1, <2>2, <2>3, ZenonT(30)
<1>3. ASSUME NEW t \in Workers, WorkerTake(t) PROVE StartInv'
  BY <1>3, ZenonT(30) DEF WorkerTake
<1>4. ASSUME NEW t \in Workers, WorkerMix(t) PROVE StartInv'
  <2>1. id' = id /\ workers_pending' = workers_pending \ {id[t]} /\ pc' \in {pc, "initWoken", "woken"}
    BY <1>4 DEF WorkerMix, Finish
  <2>2. \A u \in Workers : worker'[u] = "created" <=> worker[u] = "created"
    BY <1>4 DEF WorkerMix, Finish
  <2>3. Created' = Created
    BY <2>2
  <2>4. CASE pc = "initWait"
    <3>1. workers_pending' = workers_pending
      BY <2>1, <2>4
    <3>2. IsFiniteSet(Created) /\ IsFiniteSet(workers_pending)
      BY PoolFinite, FS_Subset
    <3>3. workers_pending' = {} => Created = {}
      BY <2>4, <3>1, <3>2, FS_EmptySet
    <3>4. pc' # "initWait" => workers_pending' = {}
      BY <1>4, <2>4 DEF WorkerMix, Finish
    <3> QED
      BY <2>1, <2>2, <2>3, <2>4, <3>1, <3>3, <3>4, ZenonT(30)
  <2>5. CASE pc # "initWait"
    BY <2>1, <2>2, <2>3, <2>5
  <2> QED
    BY <2>4, <2>5
<1>5. ASSUME NEW t \in Workers, WorkerIdle(t) PROVE StartInv'
  <2>1. id' = id /\ workers_pending' = workers_pending \ {id[t]} /\ pc' \in {pc, "initWoken", "woken"}
    BY <1>5 DEF WorkerIdle, Finish
  <2>2. \A u \in Workers : worker'[u] = "created" <=> worker[u] = "created"
    BY <1>5 DEF WorkerIdle, Finish
  <2>3. Created' = Created
    BY <2>2
  <2>4. CASE pc = "initWait"
    <3>1. workers_pending' = workers_pending
      BY <2>1, <2>4
    <3>2. IsFiniteSet(Created) /\ IsFiniteSet(workers_pending)
      BY PoolFinite, FS_Subset
    <3>3. workers_pending' = {} => Created = {}
      BY <2>4, <3>1, <3>2, FS_EmptySet
    <3>4. pc' # "initWait" => workers_pending' = {}
      BY <1>5, <2>4 DEF WorkerIdle, Finish
    <3> QED
      BY <2>1, <2>2, <2>3, <2>4, <3>1, <3>3, <3>4, ZenonT(30)
  <2>5. CASE pc # "initWait"
    BY <2>1, <2>2, <2>3, <2>5
  <2> QED
    BY <2>4, <2>5
<1>6. ASSUME NEW t \in Workers, Spurious(t) PROVE StartInv'
  BY <1>6, ZenonT(30) DEF Spurious
<1>7. CASE InitEnd
  BY <1>7 DEF InitEnd
<1>8. CASE FrameBegin
  BY <1>8 DEF FrameBegin
<1>9. CASE GatePaused
  BY <1>9 DEF GatePaused
<1>10. CASE GateWait
  BY <1>10 DEF GateWait
<1>11. CASE GateWake
  BY <1>11 DEF GateWake
<1>12. CASE GateEmpty
  BY <1>12 DEF GateEmpty
<1>13. CASE Dispatch
  <2>1. pc # "initWait" /\ pc' # "initWait" /\ id' = id
    BY <1>13 DEF Dispatch
  <2>2. \A u \in Workers : worker'[u] = "created" <=> worker[u] = "created"
    BY <1>13 DEF Dispatch, Broadcast
  <2> QED
    BY <2>1, <2>2
<1>14. CASE DispatchEnd
  BY <1>14 DEF DispatchEnd
<1>15. CASE Finalize
  BY <1>15 DEF Finalize, Broadcast
<1>16. CASE FinalizeEnd
  BY <1>16 DEF FinalizeEnd
<1>17. CASE Pause
  BY <1>17 DEF Pause, DLockFree
<1>18. CASE Resume
  BY <1>18 DEF Resume
<1>19. ASSUME NEW v \in Voices, VoiceLock(v) PROVE StartInv'
  BY <1>19 DEF VoiceLock, DLockFree
<1>20. ASSUME NEW v \in Voices, VoiceUnlock(v) PROVE StartInv'
  BY <1>20 DEF VoiceUnlock, DLockFree
<1>21. CASE UNCHANGED vars
  BY <1>21 DEF vars
<1> HIDE DEF IInv, TypeOK, StartInv, Created
<1>22. QED
  BY <1>1, <1>2, <1>3, <1>4, <1>5, <1>6, <1>7, <1>8, <1>9, <1>10, <1>11,
     <1>12, <1>13, <1>14, <1>15, <1>16, <1>17, <1>18, <1>19, <1>20, <1>21
  DEF Next, WorkerStep, DispatchStep

(* The slot a starting thread takes is nobody else's.                      *)
LEMMA SlotsKept ==
  ASSUME IInv, [Next]_vars
  PROVE  SlotsDistinct'
<1> USE DEF IInv, TypeOK, StartInv, SlotsDistinct, Created
<1>1. ASSUME NEW t \in Workers, WorkerStart(t) PROVE SlotsDistinct'
  <2>1. PICK w \in workers_pending : id' = [id EXCEPT ![t] = w] /\ Finish(t, w)
    BY <1>1, FreeSlot
  <2>2. pc = "initWait"
    BY <1>1, FreeSlot
  <2>3. /\ queue' = queue /\ share' = share /\ exit' = exit /\ mixed' = mixed
        /\ voice_locked' = voice_locked /\ pause_requested' = pause_requested
    BY <1>1 DEF WorkerStart
  <2>4. /\ workers_pending' = workers_pending \ {w}
        /\ pc' = IF workers_pending' # {} THEN pc ELSE "initWoken"
        /\ worker' = [worker EXCEPT ![t] = "waiting"]
    BY <2>1, <2>2 DEF Finish
  <2>5. \A u \in Workers : id[u] # w
    BY <2>1, <2>2
  <2> QED
    BY <2>1, <2>5
<1>2. ASSUME NEW t \in Workers, WorkerExit(t) PROVE SlotsDistinct'
  BY <1>2 DEF WorkerExit
<1>3. ASSUME NEW t \in Workers, WorkerTake(t) PROVE SlotsDistinct'
  BY <1>3 DEF WorkerTake
<1>4. ASSUME NEW t \in Workers, WorkerMix(t) PROVE SlotsDistinct'
  BY <1>4 DEF WorkerMix, Finish
<1>5. ASSUME NEW t \in Workers, WorkerIdle(t) PROVE SlotsDistinct'
  BY <1>5 DEF WorkerIdle, Finish
<1>6. ASSUME NEW t \in Workers, Spurious(t) PROVE SlotsDistinct'
  BY <1>6 DEF Spurious
<1>7. CASE InitEnd
  BY <1>7 DEF InitEnd
<1>8. CASE FrameBegin
  BY <1>8 DEF FrameBegin
<1>9. CASE GatePaused
  BY <1>9 DEF GatePaused
<1>10. CASE GateWait
  BY <1>10 DEF GateWait
<1>11. CASE GateWake
  BY <1>11 DEF GateWake
<1>12. CASE GateEmpty
  BY <1>12 DEF GateEmpty
<1>13. CASE Dispatch
  BY <1>13 DEF Dispatch
<1>14. CASE DispatchEnd
  BY <1>14 DEF DispatchEnd
<1>15. CASE Finalize
  BY <1>15 DEF Finalize, Broadcast
<1>16. CASE FinalizeEnd
  BY <1>16 DEF FinalizeEnd
<1>17. CASE Pause
  BY <1>17 DEF Pause, DLockFree
<1>18. CASE Resume
  BY <1>18 DEF Resume
<1>19. ASSUME NEW v \in Voices, VoiceLock(v) PROVE SlotsDistinct'
  BY <1>19 DEF VoiceLock, DLockFree
<1>20. ASSUME NEW v \in Voices, VoiceUnlock(v) PROVE SlotsDistinct'
  BY <1>20 DEF VoiceUnlock, DLockFree
<1>21. CASE UNCHANGED vars
  BY <1>21 DEF vars
<1> HIDE DEF IInv, TypeOK, StartInv, SlotsDistinct, Created
<1>22. QED
  BY <1>1, <1>2, <1>3, <1>4, <1>5, <1>6, <1>7, <1>8, <1>9, <1>10, <1>11,
     <1>12, <1>13, <1>14, <1>15, <1>16, <1>17, <1>18, <1>19, <1>20, <1>21
  DEF Next, WorkerStep, DispatchStep

(* Work and pending bits.                                                  *)
LEMMA WorkKept ==
  ASSUME IInv, [Next]_vars
  PROVE  WorkInv'
<1> USE DEF IInv, TypeOK, StartInv, SlotsDistinct, WorkInv, Created
<1>1. ASSUME NEW t \in Workers, WorkerStart(t) PROVE WorkInv'
  <2>1. PICK w \in workers_pending : id' = [id EXCEPT ![t] = w] /\ Finish(t, w)
    BY <1>1, FreeSlot
  <2>2. pc = "initWait"
    BY <1>1, FreeSlot
  <2>3. /\ queue' = queue /\ share' = share /\ exit' = exit /\ mixed' = mixed
        /\ voice_locked' = voice_locked /\ pause_requested' = pause_requested
    BY <1>1 DEF WorkerStart
  <2>4. /\ workers_pending' = workers_pending \ {w}
        /\ pc' = IF workers_pending' # {} THEN pc ELSE "initWoken"
        /\ worker' = [worker EXCEPT ![t] = "waiting"]
    BY <2>1, <2>2 DEF Finish
  <2>5. \A u \in Workers : share'[u] = {}
    BY <2>2, <2>3
  <2>6. \A u \in Workers : worker'[u] = "busy" => share'[id'[u]] # {}
    BY <1>1, <2>1, <2>2, <2>4 DEF WorkerStart
  <2> QED
    BY <2>2, <2>4, <2>5, <2>6
<1>2. ASSUME NEW t \in Workers, WorkerExit(t) PROVE WorkInv'
  BY <1>2 DEF WorkerExit
<1>3. ASSUME NEW t \in Workers, WorkerTake(t) PROVE WorkInv'
  BY <1>3 DEF WorkerTake
<1>4. ASSUME NEW t \in Workers, WorkerMix(t) PROVE WorkInv'
  BY <1>4 DEF WorkerMix, Finish
<1>5. ASSUME NEW t \in Workers, WorkerIdle(t) PROVE WorkInv'
  BY <1>5 DEF WorkerIdle, Finish
<1>6. ASSUME NEW t \in Workers, Spurious(t) PROVE WorkInv'
  BY <1>6 DEF Spurious
<1>7. CASE InitEnd
  BY <1>7 DEF InitEnd
<1>8. CASE FrameBegin
  BY <1>8 DEF FrameBegin
<1>9. CASE GatePaused
  BY <1>9 DEF GatePaused
<1>10. CASE GateWait
  BY <1>10 DEF GateWait
<1>11. CASE GateWake
  BY <1>11 DEF GateWake
<1>12. CASE GateEmpty
  BY <1>12 DEF GateEmpty
<1>13. CASE Dispatch
  <2>1. pc = "gate" /\ pc' = "waiting" /\ id' = id
    BY <1>13 DEF Dispatch
  <2>2. \A w \in Workers : share'[w] # {} => w \in workers_pending'
    BY <1>13, <2>1 DEF Dispatch
  <2>3. \A u \in Workers : worker'[u] # "busy"
    BY <1>13, <2>1, PoolFinite DEF Dispatch, Broadcast
  <2> QED
    BY <2>1, <2>2, <2>3
<1>14. CASE DispatchEnd
  BY <1>14 DEF DispatchEnd
<1>15. CASE Finalize
  BY <1>15 DEF Finalize, Broadcast
<1>16. CASE FinalizeEnd
  BY <1>16 DEF FinalizeEnd
<1>17. CASE Pause
  BY <1>17 DEF Pause, DLockFree
<1>18. CASE Resume
  BY <1>18 DEF Resume
<1>19. ASSUME NEW v \in Voices, VoiceLock(v) PROVE WorkInv'
  BY <1>19 DEF VoiceLock, DLockFree
<1>20. ASSUME NEW v \in Voices, VoiceUnlock(v) PROVE WorkInv'
  BY <1>20 DEF VoiceUnlock, DLockFree
<1>21. CASE UNCHANGED vars
  BY <1>21 DEF vars
<1> HIDE DEF IInv, TypeOK, StartInv, SlotsDistinct, WorkInv, Created
<1>22. QED
  BY <1>1, <1>2, <1>3, <1>4, <1>5, <1>6, <1>7, <1>8, <1>9, <1>10, <1>11,
     <1>12, <1>13, <1>14, <1>15, <1>16, <1>17, <1>18, <1>19, <1>20, <1>21
  DEF Next, WorkerStep, DispatchStep

(* No position of the queue is lost between the hand-out and the sum.      *)
LEMMA MixKept ==
  ASSUME IInv, [Next]_vars
  PROVE  MixInv'
<1> USE DEF IInv, TypeOK, WorkInv, MixInv
<1>1. ASSUME NEW t \in Workers, WorkerStart(t) PROVE MixInv'
  <2>1. PICK w \in workers_pending : id' = [id EXCEPT ![t] = w] /\ Finish(t, w)
    BY <1>1, FreeSlot
  <2>2. pc = "initWait"
    BY <1>1, FreeSlot
  <2>3. /\ queue' = queue /\ share' = share /\ exit' = exit /\ mixed' = mixed
        /\ voice_locked' = voice_locked /\ pause_requested' = pause_requested
    BY <1>1 DEF WorkerStart
  <2>4. /\ workers_pending' = workers_pending \ {w}
        /\ pc' = IF workers_pending' # {} THEN pc ELSE "initWoken"
        /\ worker' = [worker EXCEPT ![t] = "waiting"]
    BY <2>1, <2>2 DEF Finish
  <2> QED
    BY <2>2, <2>3, <2>4
<1>2. ASSUME NEW t \in Workers, WorkerExit(t) PROVE MixInv'
  BY <1>2 DEF WorkerExit
<1>3. ASSUME NEW t \in Workers, WorkerTake(t) PROVE MixInv'
  BY <1>3 DEF WorkerTake
<1>4. ASSUME NEW t \in Workers, WorkerMix(t) PROVE MixInv'
  <2>1. id[t] \in Workers /\ pc = "waiting"
    BY <1>4, PoolFinite DEF WorkerMix, StartInv
  <2>2. /\ mixed' = mixed \cup share[id[t]] /\ queue' = queue
        /\ share' = [share EXCEPT ![id[t]] = {}]
        /\ pc' = IF workers_pending' # {} THEN "waiting" ELSE "woken"
    BY <1>4, <2>1 DEF WorkerMix, Finish
  <2>3. mixed' \cup UNION {share'[w] : w \in Workers} = mixed \cup UNION {share[w] : w \in Workers}
    BY <2>1, <2>2
  <2>4. workers_pending' = {} => \A w \in Workers : share'[w] = {}
    <3>1. WorkInv'
      BY <1>4, WorkKept DEF Next, WorkerStep
    <3> QED
      BY <3>1
  <2>5. mixed' \cup UNION {share'[w] : w \in Workers} = 1..Len(queue')
    BY <2>1, <2>2, <2>3
  <2>6. workers_pending' = {} => mixed' = 1..Len(queue')
    <3> SUFFICES ASSUME workers_pending' = {} PROVE mixed' = 1..Len(queue')
      OBVIOUS
    <3>1. UNION {share'[w] : w \in Workers} = {}
      BY <2>4
    <3> HIDE DEF IInv, TypeOK, WorkInv, MixInv
    <3> QED
      BY <2>5, <3>1, ZenonT(30)
  <2> QED
    BY <2>2, <2>5, <2>6
<1>5. ASSUME NEW t \in Workers, WorkerIdle(t) PROVE MixInv'
  <2>1. mixed' = mixed /\ share' = share /\ queue' = queue
    BY <1>5 DEF WorkerIdle
  <2>2. pc' = pc \/ (pc = "initWait" /\ pc' = "initWoken") \/ (pc = "waiting" /\ pc' = "woken" /\ workers_pending' = {})
    BY <1>5 DEF WorkerIdle, Finish
  <2>3. workers_pending' = {} => \A w \in Workers : share'[w] = {}
    <3>1. WorkInv'
      BY <1>5, WorkKept DEF Next, WorkerStep
    <3> QED
      BY <3>1
  <2>4. CASE pc' = "woken" /\ pc = "waiting" /\ workers_pending' = {}
    <3>1. mixed \cup UNION {share[w] : w \in Workers} = 1..Len(queue)
      BY <2>4
    <3>2. UNION {share[w] : w \in Workers} = {}
      BY <2>1, <2>3, <2>4
    <3> QED
      BY <2>1, <2>4, <3>1, <3>2, ZenonT(30)
  <2>5. CASE pc' = pc \/ (pc = "initWait" /\ pc' = "initWoken")
    BY <2>1, <2>5
  <2> QED
    BY <2>2, <2>4, <2>5
<1>6. ASSUME NEW t \in Workers, Spurious(t) PROVE MixInv'
  BY <1>6 DEF Spurious
<1>7. CASE InitEnd
  BY <1>7 DEF InitEnd
<1>8. CASE FrameBegin
  BY <1>8 DEF FrameBegin
<1>9. CASE GatePaused
  BY <1>9 DEF GatePaused
<1>10. CASE GateWait
  BY <1>10 DEF GateWait
<1>11. CASE GateWake
  BY <1>11 DEF GateWake
<1>12. CASE GateEmpty
  BY <1>12 DEF GateEmpty
<1>13. CASE Dispatch
  <2>1. pc = "gate" /\ pc' = "waiting" /\ queue' = queue /\ mixed' = {}
    BY <1>13 DEF Dispatch
  <2>2. \A w \in Workers : share'[w] = {i \in 1..Len(queue) : WorkerOf(queue, i) = w}
    BY <1>13, <2>1 DEF Dispatch
  <2>3. \A i \in 1..Len(queue) : WorkerOf(queue, i) \in Workers
    BY WorkerOfType
  <2>4. UNION {share'[w] : w \in Workers} = 1..Len(queue)
    <3> HIDE DEF IInv, TypeOK, WorkInv, MixInv
    <3>1. \A i \in 1..Len(queue) : i \in share'[WorkerOf(queue, i)]
      BY <2>2, <2>3
    <3>2. \A w \in Workers : share'[w] \subseteq 1..Len(queue)
      BY <2>2
    <3>3. \A i \in 1..Len(queue) : i \in UNION {share'[w] : w \in Workers}
      BY <2>3, <3>1
    <3>4. UNION {share'[w] : w \in Workers} \subseteq 1..Len(queue)
      BY <3>2
    <3> QED
      BY <3>3, <3>4
  <2> QED
    BY <2>1, <2>4
<1>14. CASE DispatchEnd
  BY <1>14 DEF DispatchEnd
<1>15. CASE Finalize
  BY <1>15 DEF Finalize, Broadcast
<1>16. CASE FinalizeEnd
  BY <1>16 DEF FinalizeEnd
<1>17. CASE Pause
  BY <1>17 DEF Pause, DLockFree
<1>18. CASE Resume
  BY <1>18 DEF Resume
<1>19. ASSUME NEW v \in Voices, VoiceLock(v) PROVE MixInv'
  BY <1>19 DEF VoiceLock, DLockFree
<1>20. ASSUME NEW v \in Voices, VoiceUnlock(v) PROVE MixInv'
  BY <1>20 DEF VoiceUnlock, DLockFree
<1>21. CASE UNCHANGED vars
  BY <1>21 DEF vars
<1> HIDE DEF IInv, TypeOK, WorkInv, MixInv
<1>22. QED
  BY <1>1, <1>2, <1>3, <1>4, <1>5, <1>6, <1>7, <1>8, <1>9, <1>10, <1>11,
     <1>12, <1>13, <1>14, <1>15, <1>16, <1>17, <1>18, <1>19, <1>20, <1>21
  DEF Next, WorkerStep, DispatchStep

(* A voice is locked only while no work is handed out, and no locked       *)
(* voice is handed out.                                                    *)
LEMMA LocksKept ==
  ASSUME IInv, [Next]_vars
  PROVE  LockedVoiceStill'
<1> USE DEF IInv, TypeOK, WorkInv, LockedVoiceStill
<1>1. ASSUME NEW t \in Workers, WorkerStart(t) PROVE LockedVoiceStill'
  BY <1>1 DEF WorkerStart
<1>2. ASSUME NEW t \in Workers, WorkerExit(t) PROVE LockedVoiceStill'
  BY <1>2 DEF WorkerExit
<1>3. ASSUME NEW t \in Workers, WorkerTake(t) PROVE LockedVoiceStill'
  BY <1>3 DEF WorkerTake
<1>4. ASSUME NEW t \in Workers, WorkerMix(t) PROVE LockedVoiceStill'
  BY <1>4 DEF WorkerMix, Finish
<1>5. ASSUME NEW t \in Workers, WorkerIdle(t) PROVE LockedVoiceStill'
  BY <1>5 DEF WorkerIdle, Finish
<1>6. ASSUME NEW t \in Workers, Spurious(t) PROVE LockedVoiceStill'
  BY <1>6 DEF Spurious
<1>7. CASE InitEnd
  BY <1>7 DEF InitEnd
<1>8. CASE FrameBegin
  BY <1>8 DEF FrameBegin
<1>9. CASE GatePaused
  BY <1>9 DEF GatePaused
<1>10. CASE GateWait
  BY <1>10 DEF GateWait
<1>11. CASE GateWake
  BY <1>11 DEF GateWake
<1>12. CASE GateEmpty
  BY <1>12 DEF GateEmpty
<1>13. CASE Dispatch
  <2>1. pc = "gate" /\ queue' = queue /\ voice_locked' = voice_locked /\ ~QueuedVoiceLocked
    BY <1>13 DEF Dispatch
  <2> QED
    BY <2>1 DEF QueuedVoiceLocked
<1>14. CASE DispatchEnd
  BY <1>14 DEF DispatchEnd
<1>15. CASE Finalize
  BY <1>15 DEF Finalize, Broadcast
<1>16. CASE FinalizeEnd
  BY <1>16 DEF FinalizeEnd
<1>17. CASE Pause
  BY <1>17 DEF Pause, DLockFree
<1>18. CASE Resume
  BY <1>18 DEF Resume
<1>19. ASSUME NEW v \in Voices, VoiceLock(v) PROVE LockedVoiceStill'
  BY <1>19 DEF VoiceLock, DLockFree
<1>20. ASSUME NEW v \in Voices, VoiceUnlock(v) PROVE LockedVoiceStill'
  BY <1>20 DEF VoiceUnlock, DLockFree
<1>21. CASE UNCHANGED vars
  BY <1>21 DEF vars
<1> HIDE DEF IInv, TypeOK, WorkInv, LockedVoiceStill
<1>22. QED
  BY <1>1, <1>2, <1>3, <1>4, <1>5, <1>6, <1>7, <1>8, <1>9, <1>10, <1>11,
     <1>12, <1>13, <1>14, <1>15, <1>16, <1>17, <1>18, <1>19, <1>20, <1>21
  DEF Next, WorkerStep, DispatchStep

(* The threads have been created and nothing is queued.                    *)
LEMMA InitIInv == Init => IInv
<1> SUFFICES ASSUME Init PROVE IInv
  OBVIOUS
<1>1. queue \in Seq(Voices) /\ Len(queue) = 0
  BY DEF Init
<1>2. worker \in [Workers -> {"created"}] /\ id \in [Workers -> {NoId}] /\ share \in [Workers -> {{}}]
  BY DEF Init
<1>3. TypeOK
  <2>1. worker \in [Workers -> {"created", "woken", "busy", "waiting", "exited"}]
    BY <1>2
  <2>2. id \in [Workers -> Workers \cup {NoId}] /\ share \in [Workers -> SUBSET (1..MaxQueue)]
    BY <1>2
  <2>3. Len(queue) <= MaxQueue
    BY <1>1, VoiceAssumption
  <2>4. pc = "initWait" /\ mixed = {} /\ workers_pending = Workers /\ voice_locked = {}
    BY DEF Init
  <2>5. exit \in BOOLEAN /\ pause_requested \in BOOLEAN
    BY ZenonT(30) DEF Init
  <2> QED
    BY <1>1, <2>1, <2>2, <2>3, <2>4, <2>5 DEF TypeOK
<1>4. StartInv /\ SlotsDistinct
  <2>1. Created = Workers
    BY <1>2 DEF Created
  <2> QED
    BY <1>2, <2>1, PoolFinite DEF Init, StartInv, SlotsDistinct
<1>5. WorkInv
  BY <1>2 DEF Init, WorkInv
<1>6. MixInv /\ LockedVoiceStill
  BY <1>1, <1>2 DEF Init, MixInv, LockedVoiceStill
<1> QED
  BY <1>3, <1>4, <1>5, <1>6 DEF IInv

(* Every step preserves it.                                                *)
LEMMA NextIInv == IInv /\ [Next]_vars => IInv'
BY TypesKept, StartKept, SlotsKept, WorkKept, MixKept, LocksKept DEF IInv

(* The invariant holds in every state the worker pool can get into.        *)
LEMMA Invariant == Spec => []IInv
BY InitIInv, NextIInv, PTL DEF Spec

-----------------------------------------------------------------------------
(* voice_worker_thread, voice_lock: for any number of workers and voices   *)
(* no two threads share a slot, and a locked voice is not handed out.      *)
THEOREM VoicesConsistent == Spec => []VoiceInv
<1>1. IInv => VoiceInv
  BY DEF IInv, VoiceInv
<1> QED
  BY <1>1, Invariant, PTL

(* voice_work_dispatch, voice_work_init: when their waits return, no       *)
(* worker has work left and every queued voice has been mixed, although    *)
(* the waits test no predicate.                                            *)
THEOREM FramesComplete == Spec => []FrameComplete
<1>1. IInv => FrameComplete
  BY DEF IInv, WorkInv, MixInv, FrameComplete, NothingPending, EveryVoiceMixed
<1> QED
  BY <1>1, Invariant, PTL

(* voice_work_schedule: whatever is queued, the voices of a multipass      *)
(* group are processed by the worker of the voice that reads the bin.      *)
THEOREM GroupsTogether == Spec => []MultipassTogether
<1>1. IInv => MultipassTogether
  <2> SUFFICES ASSUME IInv, NEW j \in 1..Len(queue), NEW i \in 1..Len(queue),
                      i < j, queue[i] \in Sub, \A k \in i..(j-1) : queue[k] \notin Mp
               PROVE  WorkerOf(queue, i) = WorkerOf(queue, j)
    BY DEF MultipassTogether
  <2>1. queue \in Seq(Voices)
    BY DEF IInv, TypeOK
  <2> QED
    BY <2>1, GroupOnOneWorker
<1> QED
  BY <1>1, Invariant, PTL
=============================================================================
