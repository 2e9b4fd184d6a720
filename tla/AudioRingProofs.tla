-------------------------- MODULE AudioRingProofs --------------------------
(***************************************************************************)
(* Proofs about AudioRing, for every ring size, cursor width, chunk and    *)
(* watermark: the safety of the lock-free ring does not depend on the      *)
(* numbers the runs use, and the ring implements AudioFifo.                *)
(***************************************************************************)
EXTENDS AudioRing, Integers, TLAPS

(* The stream is published between the two transitions that say so, the    *)
(* callback is alive only on a started stream, and the producer copies     *)
(* only into a stream that is up.                                          *)
LifeInv ==
    /\ audio_stream <=> lc \in {"starting", "up"}
    /\ live => lc \in {"up", "reset", "closing"}
    /\ apu # "none" => lc \in {"up", "failed"} /\ (monitor <=> lc = "up")
    /\ apu = "copy" => lc = "up"
    /\ cb = "copy" => live
    /\ lc \in {"opening", "starting"} => audio_read_pos = 0 /\ audio_write_pos = 0 /\ forced = 0

(* Each side's private cursor lies where the other side expects it: the    *)
(* producer's between the write cursor and the end of the free room, the   *)
(* callback's between the read cursor and the end of the filled frames.    *)
RingInv ==
    /\ audio_stream => Fill <= RingFrames
    /\ apu = "copy" => /\ Dist(pw, audio_write_pos) + Fill = Dist(pw, audio_read_pos)
                       /\ Dist(pw, audio_read_pos) + pn <= RingFrames
    /\ cb = "copy" /\ audio_stream => Dist(cr, audio_read_pos) + ca <= Fill

(* What k chunks add.                                                      *)
Allowance(k) == Chunk * k

(* How full the ring can be after forced throttles in a row were cut short.*)
DropInv ==
    /\ audio_stream /\ apu = "queue" => Fill <= (HighFrames - 1) + Allowance(forced)
    /\ audio_stream /\ apu \in {"none", "throttle"} => Fill <= (HighFrames - 1) + Allowance(forced + 1)
    /\ apu = "copy" => Dist(pw, audio_read_pos) + pn <= (HighFrames - 1) + Allowance(forced + 1)
    /\ apu = "copy" /\ dropped => (HighFrames - 1) + Allowance(forced + 1) > RingFrames

IInv == TypeOK /\ LifeInv /\ RingInv /\ DropInv

-----------------------------------------------------------------------------
(* Each throttle that is cut short lets one more chunk through.            *)
LEMMA AllowanceGrows ==
  ASSUME NEW k \in Nat
  PROVE  /\ Allowance(k) \in Nat
         /\ Allowance(k + 1) = Allowance(k) + Chunk
         /\ Allowance(0) = 0
  BY RingAssumption DEF Allowance

(* A cursor distance is a number below the wrap.                           *)
LEMMA DistType ==
  ASSUME NEW a \in Cursor, NEW b \in Cursor
  PROVE  Dist(a, b) \in Nat /\ Dist(a, b) < CursorMod /\ Dist(a, a) = 0
  BY RingAssumption DEF Cursor, Dist

(* Advancing the first cursor lengthens the distance by one.               *)
LEMMA IncDist ==
  ASSUME NEW a \in Cursor, NEW b \in Cursor, Dist(a, b) < CursorMod - 1
  PROVE  Inc(a) \in Cursor /\ Dist(Inc(a), b) = Dist(a, b) + 1
  BY RingAssumption DEF Cursor, Dist, Inc

(* Distances add up as long as the sum stays below the wrap.               *)
LEMMA DistAdd ==
  ASSUME NEW a \in Cursor, NEW b \in Cursor, NEW c \in Cursor, Dist(a, b) + Dist(b, c) < CursorMod
  PROVE  Dist(a, c) = Dist(a, b) + Dist(b, c)
  BY RingAssumption DEF Cursor, Dist

(* The distance between two cursors from their distances to a third.       *)
LEMMA DistSub ==
  ASSUME NEW a \in Cursor, NEW b \in Cursor, NEW c \in Cursor, Dist(b, c) <= Dist(a, c)
  PROVE  Dist(a, b) = Dist(a, c) - Dist(b, c)
  BY RingAssumption DEF Cursor, Dist

(* The masked cursor is an index of the ring (ANDROID_AUDIO_RING_MASK).    *)
LEMMA SlotInRing ==
  ASSUME NEW a \in Cursor
  PROVE  Slot(a) \in 0..(RingFrames - 1)
  BY RingAssumption DEF Cursor, Slot

-----------------------------------------------------------------------------
(* The zeroed globals have their types.                                    *)
LEMMA TypeInit == Init => TypeOK
<1> SUFFICES ASSUME Init PROVE TypeOK
  OBVIOUS
<1>1. 0 \in Cursor /\ 0 \in Frames
  BY RingAssumption DEF Cursor, Frames
<1>2. audio_ring \in [0..(RingFrames - 1) -> Frames]
  BY <1>1 DEF Init
<1>3. cout \in Seq(Frames) /\ played \in Seq(Frames)
  BY DEF Init
<1> QED
  BY <1>1, <1>2, <1>3, RingAssumption, SMTT(30) DEF Init, TypeOK

(* Every step keeps the types; the cursors wrap and never leave their range. *)
LEMMA TypeNext == TypeOK /\ RingInv /\ LifeInv /\ [Next]_vars => TypeOK'
<1> SUFFICES ASSUME TypeOK, RingInv, LifeInv, [Next]_vars PROVE TypeOK'
  OBVIOUS
<1> USE RingAssumption DEF TypeOK
<1>1. 0 \in Cursor /\ \A p \in Cursor : Inc(p) \in Cursor
  BY DEF Cursor, Inc
<1>0. <<>> \in Seq(Frames)
  OBVIOUS
<1>2. CASE AudioInit
  <2>1. played' \in Seq(Frames) /\ forced' \in 0..MaxForced
    BY <1>0, <1>2 DEF AudioInit
  <2>2. audio_read_pos' \in Cursor /\ audio_write_pos' \in Cursor /\ lc' = "opening" /\ dropped' \in BOOLEAN
    BY <1>1, <1>2, ZenonT(30) DEF AudioInit
  <2> QED  BY <1>2, <2>1, <2>2 DEF AudioInit
<1>2a. CASE AudioInitAgain \/ CoreEnds \/ OpenFails
  BY <1>2a, ZenonT(60) DEF AudioInitAgain, CoreEnds, OpenFails, StartApu, lifecycle, cursors, callback
<1>2b. CASE Publish \/ RequestStart \/ StartFails
  BY <1>1, <1>2b, ZenonT(60) DEF Publish, RequestStart, StartFails, StartApu, cursors, producer, callback
<1>2c. CASE ExitJoin
  BY <1>1, <1>2c DEF ExitJoin, callback
<1>2d. CASE ResetWritePos \/ CloseStream
  BY <1>1, <1>2d, ZenonT(60) DEF ResetWritePos, CloseStream, cursors, producer, callback
<1>3. CASE ThrottlePass \/ ThrottlePaused
  BY <1>3, SMTT(30) DEF ThrottlePass, ThrottlePaused, lifecycle, cursors, callback
<1>4. CASE QueueBegin
  <2>1. pn' \in Nat
    <3>1. audio_stream => FreeFrames(audio_write_pos, audio_read_pos) \in Nat
      <4>1. Dist(audio_write_pos, audio_read_pos) \in Nat
        BY DistType
      <4>2. audio_stream => Dist(audio_write_pos, audio_read_pos) <= RingFrames
        BY DEF RingInv, Fill
      <4> HIDE DEF TypeOK
      <4> QED  BY <4>1, <4>2 DEF FreeFrames
    <3> QED  BY <1>4, <3>1 DEF QueueBegin, MinOf
  <2>2. dropped' \in BOOLEAN /\ pw' \in Cursor /\ apu' \in {"throttle", "copy"}
    BY <1>4 DEF QueueBegin
  <2> QED  BY <1>4, <2>1, <2>2 DEF QueueBegin, lifecycle, cursors, callback
<1>5. CASE QueueCopy
  <2>1. next' \in Frames
    BY <1>5 DEF QueueCopy, Frames
  <2>2. audio_ring' \in [0..(RingFrames - 1) -> Frames]
    BY <1>5 DEF QueueCopy
  <2>3. pw' \in Cursor /\ pn' \in Nat
    BY <1>1, <1>5 DEF QueueCopy
  <2> QED  BY <1>5, <2>1, <2>2, <2>3 DEF QueueCopy, lifecycle, cursors, callback
<1>6. CASE QueuePublish
  BY <1>6 DEF QueuePublish, lifecycle, callback
<1>7. ASSUME NEW n \in 1..MaxBurst, CallbackBegin(n) PROVE TypeOK'
  BY <1>0, <1>7, DistType DEF CallbackBegin, lifecycle, cursors, producer
<1>8. CASE CallbackCopy
  <2>1. audio_ring[Slot(cr)] \in Frames
    BY SlotInRing
  <2>2. cout' \in Seq(Frames) /\ cr' \in Cursor /\ ca' \in Nat /\ cn' \in 0..MaxBurst
    BY <1>1, <1>8, <2>1 DEF CallbackCopy
  <2> QED  BY <1>8, <2>2 DEF CallbackCopy, lifecycle, cursors, producer
<1>9. CASE CallbackEnd
  BY <1>0, <1>9 DEF CallbackEnd, lifecycle, producer
<1>10. CASE UNCHANGED vars
  BY <1>10 DEF vars, lifecycle, cursors, producer, callback
<1> QED
  BY <1>2, <1>2a, <1>2b, <1>2c, <1>2d, <1>3, <1>4, <1>5, <1>6, <1>7, <1>8, <1>9, <1>10
     DEF Next, CoreStep, ApuStep, CallbackStep

(* Every step keeps the stream, the producer and the callback in the order *)
(* audio_init and audio_shutdown give them.                                *)
LEMMA LifeNext == TypeOK /\ LifeInv /\ [Next]_vars => LifeInv'
<1> SUFFICES ASSUME TypeOK, LifeInv, [Next]_vars PROVE LifeInv'
  OBVIOUS
<1> USE DEF LifeInv
<1>1. CASE AudioInit \/ AudioInitAgain \/ CoreEnds \/ OpenFails
  BY <1>1 DEF AudioInit, AudioInitAgain, CoreEnds, OpenFails, StartApu, lifecycle, cursors, callback
<1>2. CASE Publish \/ RequestStart \/ StartFails
  BY <1>2 DEF Publish, RequestStart, StartFails, StartApu, cursors, producer, callback
<1>3. CASE ExitJoin
  BY <1>3 DEF ExitJoin, callback
<1>4. CASE ResetWritePos \/ CloseStream
  BY <1>4 DEF ResetWritePos, CloseStream, cursors, producer, callback
<1>5. CASE ThrottlePass \/ ThrottlePaused
  BY <1>5 DEF ThrottlePass, ThrottlePaused, lifecycle, cursors, callback
<1>6. CASE QueueBegin
  BY <1>6 DEF QueueBegin, lifecycle, cursors, callback
<1>7. CASE QueueCopy \/ QueuePublish
  BY <1>7 DEF QueueCopy, QueuePublish, lifecycle, cursors, callback
<1>8. ASSUME NEW n \in 1..MaxBurst, CallbackBegin(n) PROVE LifeInv'
  BY <1>8 DEF CallbackBegin, lifecycle, cursors, producer
<1>9. CASE CallbackCopy \/ CallbackEnd
  BY <1>9 DEF CallbackCopy, CallbackEnd, lifecycle, cursors, producer
<1>10. CASE UNCHANGED vars
  BY <1>10 DEF vars, lifecycle, cursors, producer, callback
<1> QED
  BY <1>1, <1>2, <1>3, <1>4, <1>5, <1>6, <1>7, <1>8, <1>9, <1>10
     DEF Next, CoreStep, ApuStep, CallbackStep

(* No store of either cursor breaks the bounds the other side copies within. *)
LEMMA RingNext == TypeOK /\ LifeInv /\ RingInv /\ [Next]_vars => RingInv'
<1> SUFFICES ASSUME TypeOK, LifeInv, RingInv, [Next]_vars PROVE RingInv'
  OBVIOUS
<1>0. /\ audio_read_pos \in Cursor /\ audio_write_pos \in Cursor /\ pw \in Cursor /\ cr \in Cursor
      /\ pn \in Nat /\ ca \in Nat /\ RingFrames \in Nat /\ CursorMod \in Nat /\ RingFrames < CursorMod
      /\ Dist(0, 0) = 0
  BY RingAssumption DEF TypeOK, Dist
<1> USE DEF RingInv, Fill
<1>1. CASE AudioInit \/ AudioInitAgain \/ CoreEnds \/ OpenFails
  BY <1>0, <1>1 DEF LifeInv, AudioInit, AudioInitAgain, CoreEnds, OpenFails, StartApu, lifecycle, cursors, callback
<1>2. CASE Publish \/ RequestStart \/ StartFails
  BY <1>0, <1>2 DEF LifeInv, Publish, RequestStart, StartFails, StartApu, cursors, producer, callback
<1>3. CASE ExitJoin \/ ResetWritePos \/ CloseStream
  BY <1>3 DEF LifeInv, ExitJoin, ResetWritePos, CloseStream, cursors, producer, callback
<1>4. CASE ThrottlePass \/ ThrottlePaused
  BY <1>4 DEF ThrottlePass, ThrottlePaused, lifecycle, cursors, callback
<1>5. CASE QueueBegin
  <2>1. apu' = "copy" => (pw' = audio_write_pos /\ pn' <= RingFrames - Fill)
    BY <1>0, <1>5, DistType DEF QueueBegin, FreeFrames, MinOf
  <2>2. UNCHANGED <<audio_stream, audio_read_pos, audio_write_pos, cb, cr, ca>>
    BY <1>5 DEF QueueBegin, lifecycle, cursors, callback
  <2>3. pn' \in Nat
    BY TypeNext DEF TypeOK
  <2> QED  BY <1>0, <2>1, <2>2, <2>3, DistType
<1>6. CASE QueueCopy
  <2>1. pw' = Inc(pw) /\ pn' = pn - 1 /\ pn > 0 /\ apu = "copy" /\ apu' = "copy"
        /\ UNCHANGED <<audio_stream, audio_read_pos, audio_write_pos, cb, cr, ca>>
    BY <1>6 DEF QueueCopy, lifecycle, cursors, callback
  <2>2. Dist(pw, audio_read_pos) < CursorMod - 1 /\ Dist(pw, audio_write_pos) < CursorMod - 1
    BY <1>0, <2>1, DistType
  <2>3. Dist(pw', audio_read_pos) = Dist(pw, audio_read_pos) + 1
        /\ Dist(pw', audio_write_pos) = Dist(pw, audio_write_pos) + 1
    BY <1>0, <2>1, <2>2, IncDist
  <2> QED  BY <1>0, <2>1, <2>3, DistType
<1>7. CASE QueuePublish
  <2>1. audio_write_pos' = pw /\ pn = 0 /\ apu = "copy" /\ apu' = "throttle"
        /\ UNCHANGED <<audio_stream, audio_read_pos, cb, cr, ca>>
    BY <1>7 DEF QueuePublish, lifecycle, callback
  <2> QED  BY <1>0, <2>1, DistType
<1>8. ASSUME NEW n \in 1..MaxBurst, CallbackBegin(n) PROVE RingInv'
  BY <1>0, <1>8, DistType, SMTT(30) DEF CallbackBegin, lifecycle, cursors, producer
<1>9. CASE CallbackCopy
  <2>1. cr' = Inc(cr) /\ ca' = ca - 1 /\ ca > 0 /\ cb = "copy"
        /\ UNCHANGED <<audio_stream, audio_read_pos, audio_write_pos, apu, pw, pn>>
    BY <1>9 DEF CallbackCopy, lifecycle, cursors, producer
  <2>2. audio_stream => Dist(cr', audio_read_pos) = Dist(cr, audio_read_pos) + 1
    BY <1>0, <2>1, DistType, IncDist
  <2> QED  BY <1>0, <2>1, <2>2, DistType
<1>10. CASE CallbackEnd
  <2>1. audio_read_pos' = cr /\ cb = "copy" /\ cb' = "idle"
        /\ UNCHANGED <<audio_stream, audio_write_pos, apu, pw, pn>>
    BY <1>10 DEF CallbackEnd, lifecycle, producer
  <2>2. audio_stream => Dist(audio_write_pos, cr) = Fill - Dist(cr, audio_read_pos)
    BY <1>0, <2>1, DistType, DistSub
  <2>3. apu = "copy" => audio_stream
    BY DEF LifeInv
  <2>4. apu = "copy" => Dist(pw, cr) = Dist(pw, audio_read_pos) - Dist(cr, audio_read_pos)
    BY <1>0, <2>1, <2>3, DistType, DistSub
  <2> QED  BY <1>0, <2>1, <2>2, <2>3, <2>4, DistType
<1>11. CASE UNCHANGED vars
  BY <1>11 DEF vars, lifecycle, cursors, producer, callback
<1> QED
  BY <1>1, <1>2, <1>3, <1>4, <1>5, <1>6, <1>7, <1>8, <1>9, <1>10, <1>11
     DEF Next, CoreStep, ApuStep, CallbackStep

(* Only a throttle cut short by a pause raises the fill the ring may reach. *)
LEMMA DropNext == TypeOK /\ LifeInv /\ RingInv /\ DropInv /\ [Next]_vars => DropInv'
<1> SUFFICES ASSUME TypeOK, LifeInv, RingInv, DropInv, [Next]_vars PROVE DropInv'
  OBVIOUS
<1>0. /\ audio_read_pos \in Cursor /\ audio_write_pos \in Cursor /\ pw \in Cursor /\ cr \in Cursor
      /\ pn \in Nat /\ ca \in Nat /\ forced \in Nat
      /\ RingFrames \in Nat /\ HighFrames \in Nat \ {0} /\ Chunk \in Nat
      /\ Dist(0, 0) = 0 /\ Fill \in Nat
  BY RingAssumption, DistType DEF TypeOK, Dist, Fill
<1>a. /\ Allowance(0) = 0 /\ Allowance(0 + 1) = Chunk
      /\ Allowance(forced) \in Nat /\ Allowance(forced + 1) = Allowance(forced) + Chunk
  <2>1. 0 \in Nat
    OBVIOUS
  <2> QED  BY <1>0, <2>1, AllowanceGrows
<1> USE DEF DropInv
<1>1. CASE AudioInit \/ AudioInitAgain \/ CoreEnds \/ OpenFails
  <2>1. CASE AudioInit
    <3>1. ~audio_stream' /\ apu' # "copy"
      BY <2>1 DEF LifeInv, AudioInit
    <3> QED  BY <3>1
  <2>2. CASE AudioInitAgain \/ CoreEnds \/ OpenFails
    <3>1. /\ UNCHANGED <<audio_stream, audio_read_pos, audio_write_pos, forced>>
          /\ apu' \in {"none", "throttle"} /\ (audio_stream => apu \in {"none", "throttle", "queue"})
      BY <2>2 DEF LifeInv, AudioInitAgain, CoreEnds, OpenFails, StartApu, lifecycle, cursors
    <3>2. Fill' = Fill
      BY <3>1 DEF Fill
    <3> QED  BY <1>0, <1>a, <3>1, <3>2
  <2> QED  BY <1>1, <2>1, <2>2
<1>2. CASE Publish \/ RequestStart \/ StartFails
  BY <1>0, <1>2, <1>a, SMTT(30) DEF Fill, LifeInv, Publish, RequestStart, StartFails, StartApu, cursors, producer, callback
<1>3. CASE ExitJoin \/ ResetWritePos \/ CloseStream
  BY <1>3 DEF Fill, LifeInv, ExitJoin, ResetWritePos, CloseStream, cursors, producer, callback
<1>4. CASE ThrottlePass
  <2>1. forced' = 0 /\ apu' = "queue" /\ apu = "throttle"
        /\ UNCHANGED <<audio_stream, audio_read_pos, audio_write_pos>>
    BY <1>4 DEF ThrottlePass, lifecycle, cursors
  <2>2. audio_stream => Fill < HighFrames
    BY <1>4, <2>1 DEF ThrottlePass, BelowHigh, LifeInv, Fill
  <2> QED  BY <1>0, <1>a, <2>1, <2>2 DEF Fill
<1>5. CASE ThrottlePaused
  BY <1>0, <1>5, <1>a DEF Fill, ThrottlePaused, lifecycle, cursors
<1>6. CASE QueueBegin
  <2>1. UNCHANGED <<audio_stream, audio_read_pos, audio_write_pos, forced>> /\ apu = "queue"
    BY <1>6 DEF QueueBegin, lifecycle, cursors
  <2>2. CASE ~(monitor /\ audio_stream)
    <3>1. apu' = "throttle" /\ ~audio_stream
      BY <1>6, <2>1, <2>2 DEF QueueBegin, LifeInv
    <3> QED  BY <2>1, <3>1
  <2>3. CASE monitor /\ audio_stream
    <3>1. apu' = "copy" /\ pw' = audio_write_pos /\ pn' = MinOf(Chunk, RingFrames - Fill)
          /\ dropped' = (Chunk > RingFrames - Fill)
      BY <1>6, <2>3 DEF QueueBegin, FreeFrames, Fill
    <3>2. pn' <= Chunk /\ pn' \in Int /\ Fill <= (HighFrames - 1) + Allowance(forced)
      BY <1>0, <2>1, <2>3, <3>1 DEF MinOf
    <3>3. Fill + pn' <= (HighFrames - 1) + Allowance(forced + 1)
      BY <1>0, <1>a, <3>2
    <3>4. dropped' => (HighFrames - 1) + Allowance(forced + 1) > RingFrames
      <4>1. dropped' => Chunk > RingFrames - Fill
        BY <3>1, Zenon
      <4>2. Chunk > RingFrames - Fill => (HighFrames - 1) + Allowance(forced + 1) > RingFrames
        BY <1>0, <1>a, <3>2
      <4> QED  BY <4>1, <4>2
    <3> QED  BY <2>1, <3>1, <3>3, <3>4 DEF Fill
  <2> QED  BY <2>2, <2>3
<1>7. CASE QueueCopy
  <2>1. pw' = Inc(pw) /\ pn' = pn - 1 /\ pn > 0 /\ apu = "copy" /\ apu' = "copy"
        /\ UNCHANGED <<audio_stream, audio_read_pos, audio_write_pos, forced, dropped>>
    BY <1>7 DEF QueueCopy, lifecycle, cursors
  <2>2. Dist(pw', audio_read_pos) = Dist(pw, audio_read_pos) + 1
    BY <1>0, <2>1, IncDist, DistType, RingAssumption DEF RingInv
  <2> QED  BY <1>0, <1>a, <2>1, <2>2, DistType
<1>8. CASE QueuePublish
  <2>1. audio_write_pos' = pw /\ pn = 0 /\ apu = "copy" /\ apu' = "throttle"
        /\ UNCHANGED <<audio_stream, audio_read_pos, forced>>
    BY <1>8 DEF QueuePublish, lifecycle
  <2> QED  BY <1>0, <1>a, <2>1, DistType DEF Fill
<1>9. ASSUME NEW n \in 1..MaxBurst, CallbackBegin(n) PROVE DropInv'
  BY <1>9 DEF CallbackBegin, lifecycle, cursors, producer, Fill
<1>10. CASE CallbackCopy
  BY <1>10 DEF CallbackCopy, lifecycle, cursors, producer, Fill
<1>11. CASE CallbackEnd
  <2>1. audio_read_pos' = cr /\ cb = "copy"
        /\ UNCHANGED <<audio_stream, audio_write_pos, apu, pw, pn, forced, dropped>>
    BY <1>11 DEF CallbackEnd, lifecycle, producer
  <2>2. audio_stream => Fill' <= Fill
    BY <1>0, <2>1, DistType, DistSub DEF RingInv, Fill
  <2>3. Fill' \in Nat
    BY <1>0, <2>1, DistType DEF Fill
  <2>4. apu = "copy" => Dist(pw, cr) <= Dist(pw, audio_read_pos)
    <3>1. apu = "copy" => audio_stream
      BY DEF LifeInv
    <3>2. apu = "copy" => Dist(cr, audio_read_pos) <= Dist(pw, audio_read_pos)
      BY <1>0, <2>1, <3>1, DistType DEF RingInv, Fill
    <3> QED  BY <1>0, <3>2, DistType, DistSub
  <2> QED  BY <1>0, <1>a, <2>1, <2>2, <2>3, <2>4, DistType
<1>12. CASE UNCHANGED vars
  BY <1>12 DEF vars, lifecycle, cursors, producer, callback, Fill
<1> QED
  BY <1>1, <1>2, <1>3, <1>4, <1>5, <1>6, <1>7, <1>8, <1>9, <1>10, <1>11, <1>12
     DEF Next, CoreStep, ApuStep, CallbackStep

(* The inductive invariant holds in every reachable state.                 *)
LEMMA IInvAlways == Spec => []IInv
<1>1. Init => IInv
  <2>1. Init => LifeInv /\ RingInv /\ DropInv
    BY RingAssumption DEF Init, LifeInv, RingInv, DropInv, Fill, Dist
  <2> QED  BY <2>1, TypeInit DEF IInv
<1>2. IInv /\ [Next]_vars => IInv'
  BY TypeNext, LifeNext, RingNext, DropNext DEF IInv
<1> QED
  BY <1>1, <1>2, PTL DEF Spec

-----------------------------------------------------------------------------
(* Type correctness, the wrap of the unsigned cursors included.            *)
THEOREM RingTypeCorrect == Spec => []TypeOK
<1>1. IInv => TypeOK
  BY DEF IInv
<1> QED
  BY <1>1, IInvAlways, PTL

(* wpos - rpos is a fill level whenever a stream is published, although    *)
(* neither audio_queue nor the callback takes a lock.                      *)
THEOREM FillIsInRing == Spec => []FillInRing
<1>1. IInv => FillInRing
  BY DEF IInv, RingInv, FillInRing
<1> QED
  BY <1>1, IInvAlways, PTL

(* The copy loops of audio_queue and of the data callback never meet in a  *)
(* slot of the ring.                                                       *)
THEOREM FramesNotTorn == Spec => []NoTornFrame
<1>1. IInv => NoTornFrame
  <2> SUFFICES ASSUME IInv, audio_stream, apu = "copy", pn > 0, cb = "copy", ca > 0
               PROVE  Dist(pw, cr) < RingFrames /\ ca <= Dist(pw, cr)
    BY DEF NoTornFrame
  <2>0. /\ audio_read_pos \in Cursor /\ audio_write_pos \in Cursor /\ pw \in Cursor /\ cr \in Cursor
        /\ pn \in Nat /\ ca \in Nat /\ RingFrames \in Nat
    BY RingAssumption DEF IInv, TypeOK
  <2>1. /\ Dist(cr, audio_read_pos) + ca <= Dist(pw, audio_read_pos)
        /\ Dist(pw, audio_read_pos) + pn <= RingFrames
    BY <2>0, DistType DEF IInv, RingInv, Fill
  <2>2. Dist(pw, cr) = Dist(pw, audio_read_pos) - Dist(cr, audio_read_pos)
    BY <2>0, <2>1, DistType, DistSub
  <2> QED  BY <2>0, <2>1, <2>2, DistType
<1> QED
  BY <1>1, IInvAlways, PTL

(* Producer and callback keep out of each other's frames, for every ring   *)
(* size and cursor width.                                                  *)
THEOREM RingIsSafe == Spec => []RingSafe
<1>1. FillInRing /\ NoTornFrame => RingSafe
  BY DEF RingSafe
<1> QED
  BY <1>1, FillIsInRing, FramesNotTorn, PTL

(* The comment in audio_queue: the ring is full only after throttles in a  *)
(* row were cut short by pauses.                                           *)
THEOREM DropsNeedPauses == Spec => []DropNeedsPauses
<1>1. IInv => DropNeedsPauses
  BY DEF IInv, DropInv, DropNeedsPauses, Allowance
<1> QED
  BY <1>1, IInvAlways, PTL

-----------------------------------------------------------------------------
(* Quotient and remainder.                                                 *)
LEMMA DivMod ==
  ASSUME NEW a \in Nat
  PROVE  \E k \in Int : a = RingFrames * k + (a % RingFrames)
<1>1. RingFrames \in Nat /\ RingFrames > 0
  BY RingAssumption
<1>2. a = RingFrames * (a \div RingFrames) + (a % RingFrames)
  BY <1>1
<1>3. a \div RingFrames \in Int
  BY <1>1
<1> QED
  BY <1>2, <1>3

(* The remainder is the only one.                                          *)
LEMMA ModUnique ==
  ASSUME NEW a \in Nat, NEW k \in Int, NEW r \in 0..(RingFrames - 1), a = RingFrames * k + r
  PROVE  a % RingFrames = r
  BY RingAssumption

(* Masking a counter that wrapped picks the slot it would have without the *)
(* wrap.                                                                   *)
LEMMA ModWrap ==
  ASSUME NEW a \in Nat
  PROVE  (a + CursorMod) % RingFrames = a % RingFrames
<1>1. PICK c \in Int : CursorMod = RingFrames * c
  <2>1. PICK c \in Int : CursorMod = RingFrames * c + (CursorMod % RingFrames)
    BY RingAssumption, DivMod, ZenonT(30)
  <2> QED  BY <2>1, MaskAssumption, RingAssumption
<1>2. PICK k \in Int : a = RingFrames * k + (a % RingFrames)
  BY DivMod
<1>3. RingFrames * (k + c) = RingFrames * k + RingFrames * c
  BY RingAssumption
<1>4. a % RingFrames \in 0..(RingFrames - 1)
  BY RingAssumption
<1>5. a + CursorMod = RingFrames * (k + c) + (a % RingFrames)
  BY <1>1, <1>2, <1>3, <1>4, RingAssumption
<1>6. a + CursorMod \in Nat /\ k + c \in Int
  BY RingAssumption
<1> QED
  BY <1>4, <1>5, <1>6, ModUnique

(* Two positions less than a ring apart have different slots.              *)
LEMMA ModApart ==
  ASSUME NEW a \in Nat, NEW b \in Nat, a < b, b < a + RingFrames
  PROVE  a % RingFrames # b % RingFrames
<1> SUFFICES ASSUME a % RingFrames = b % RingFrames PROVE FALSE
  OBVIOUS
<1>1. PICK k \in Int : a = RingFrames * k + (a % RingFrames)
  BY DivMod
<1>2. PICK m \in Int : b = RingFrames * m + (b % RingFrames)
  BY DivMod
<1>3. RingFrames * (m - k) = RingFrames * m - RingFrames * k
  BY RingAssumption
<1>4. a % RingFrames \in Int /\ RingFrames * m \in Int /\ RingFrames * k \in Int
  BY RingAssumption
<1>5. RingFrames * (m - k) = b - a
  BY <1>1, <1>2, <1>3, <1>4
<1>6. m - k >= 1 => RingFrames * (m - k) >= RingFrames
  BY RingAssumption
<1>7. m - k <= 0 => RingFrames * (m - k) <= 0
  BY RingAssumption
<1> QED
  BY <1>5, <1>6, <1>7, RingAssumption

(* Counting on from one cursor or, from further back, from another picks   *)
(* the same slots, across the wrap.                                        *)
LEMMA SameSlot ==
  ASSUME NEW a \in Cursor, NEW b \in Cursor, NEW i \in Nat
  PROVE  (a + i) % RingFrames = (b + (Dist(a, b) + i)) % RingFrames
<1>0. a \in Nat /\ b \in Nat /\ CursorMod \in Nat /\ a + i \in Nat
  BY RingAssumption DEF Cursor
<1>1. CASE a >= b
  BY <1>0, <1>1 DEF Dist
<1>2. CASE ~(a >= b)
  <2>1. b + (Dist(a, b) + i) = (a + i) + CursorMod
    BY <1>0, <1>2 DEF Dist
  <2> QED  BY <1>0, <2>1, ModWrap
<1> QED
  BY <1>1, <1>2

-----------------------------------------------------------------------------
(* The queue and the played frames the refinement shows to AudioFifo.      *)
Queue == IF audio_stream THEN [i \in 1..Fill |-> audio_ring[(audio_read_pos + (i - 1)) % RingFrames]]
         ELSE <<>>
Heard == IF audio_stream THEN played ELSE <<>>

(* What a callback has copied is the front of the queue, and a stream      *)
(* starts with nothing played.                                             *)
OutInv ==
    /\ lc = "opening" => played = <<>>
    /\ cb = "copy" /\ audio_stream =>
        /\ Len(cout) = Dist(cr, audio_read_pos)
        /\ \A i \in 1..Len(cout) : cout[i] = audio_ring[(audio_read_pos + (i - 1)) % RingFrames]

(* The copy loop of audio_queue writes no frame that is queued.            *)
LEMMA CopyMissesQueue ==
  ASSUME TypeOK, LifeInv, RingInv, QueueCopy
  PROVE  \A i \in 1..Fill : audio_ring'[(audio_read_pos + (i - 1)) % RingFrames]
                              = audio_ring[(audio_read_pos + (i - 1)) % RingFrames]
<1>0. /\ audio_read_pos \in Cursor /\ audio_write_pos \in Cursor /\ pw \in Cursor
      /\ pn \in Nat /\ RingFrames \in Nat /\ CursorMod \in Nat
      /\ audio_read_pos \in Nat /\ pw \in Nat
  BY RingAssumption DEF TypeOK, Cursor
<1>1. /\ pn > 0 /\ audio_ring' = [audio_ring EXCEPT ![Slot(pw)] = next]
      /\ Dist(pw, audio_write_pos) + Fill = Dist(pw, audio_read_pos)
      /\ Dist(pw, audio_read_pos) + pn <= RingFrames
  BY DEF QueueCopy, RingInv
<1>2. /\ Dist(pw, audio_read_pos) \in Nat /\ Dist(pw, audio_write_pos) \in Nat /\ Fill \in Nat
  BY <1>0, DistType DEF Fill
<1>3. Slot(pw) = (audio_read_pos + Dist(pw, audio_read_pos)) % RingFrames
  <2>1. (pw + 0) % RingFrames = (audio_read_pos + (Dist(pw, audio_read_pos) + 0)) % RingFrames
    BY <1>0, SameSlot
  <2>2. pw + 0 = pw /\ Dist(pw, audio_read_pos) + 0 = Dist(pw, audio_read_pos)
    BY <1>0, <1>2
  <2> QED  BY <2>1, <2>2 DEF Slot
<1> SUFFICES ASSUME NEW i \in 1..Fill
             PROVE  audio_ring'[(audio_read_pos + (i - 1)) % RingFrames]
                      = audio_ring[(audio_read_pos + (i - 1)) % RingFrames]
  OBVIOUS
<1> DEFINE a == audio_read_pos + (i - 1)
           b == audio_read_pos + Dist(pw, audio_read_pos)
<1>4. a \in Nat /\ b \in Nat /\ a < b /\ b < a + RingFrames
  BY <1>0, <1>1, <1>2
<1>5. a % RingFrames # b % RingFrames
  <2> HIDE DEF a, b
  <2> QED  BY <1>4, ModApart
<1>6. audio_ring \in [0..(RingFrames - 1) -> Frames] /\ a % RingFrames \in 0..(RingFrames - 1)
  <2>1. a % RingFrames \in 0..(RingFrames - 1)
    <3> HIDE DEF a
    <3> QED  BY <1>4, RingAssumption
  <2> QED  BY <2>1 DEF TypeOK
<1>7. Slot(pw) # a % RingFrames
  BY <1>3, <1>5
<1>8. ASSUME NEW j \in 0..(RingFrames - 1), Slot(pw) # j
      PROVE  audio_ring'[j] = audio_ring[j]
  BY <1>1, <1>6, <1>8
<1> QED
  BY <1>6, <1>7, <1>8

(* The slot of the callback's cursor is the next one of the queue.         *)
LEMMA CallbackSlot ==
  ASSUME TypeOK
  PROVE  Slot(cr) = (audio_read_pos + Dist(cr, audio_read_pos)) % RingFrames
<1>a. cr \in Cursor /\ audio_read_pos \in Cursor /\ cr \in Nat
  BY RingAssumption DEF TypeOK, Cursor
<1>0. cr \in Cursor /\ audio_read_pos \in Cursor /\ cr \in Nat /\ Dist(cr, audio_read_pos) \in Nat
  BY <1>a, DistType
<1>1. (cr + 0) % RingFrames = (audio_read_pos + (Dist(cr, audio_read_pos) + 0)) % RingFrames
  BY <1>0, SameSlot
<1>2. cr + 0 = cr /\ Dist(cr, audio_read_pos) + 0 = Dist(cr, audio_read_pos)
  BY <1>0
<1> QED
  BY <1>1, <1>2 DEF Slot

(* Neither side disturbs what a running callback has copied.               *)
LEMMA OutNext == TypeOK /\ LifeInv /\ RingInv /\ OutInv /\ [Next]_vars => OutInv'
<1> SUFFICES ASSUME TypeOK, LifeInv, RingInv, OutInv, [Next]_vars PROVE OutInv'
  OBVIOUS
<1>0. /\ audio_read_pos \in Cursor /\ audio_write_pos \in Cursor /\ cr \in Cursor /\ ca \in Nat
      /\ cout \in Seq(Frames) /\ RingFrames \in Nat /\ CursorMod \in Nat /\ RingFrames < CursorMod
  BY RingAssumption DEF TypeOK
<1> USE DEF OutInv
<1>1. CASE AudioInit \/ AudioInitAgain \/ CoreEnds \/ OpenFails
  BY <1>1 DEF LifeInv, AudioInit, AudioInitAgain, CoreEnds, OpenFails, StartApu, lifecycle, cursors, callback
<1>2. CASE Publish \/ RequestStart \/ StartFails
  BY <1>2 DEF LifeInv, Publish, RequestStart, StartFails, StartApu, cursors, producer, callback
<1>3. CASE ExitJoin \/ ResetWritePos \/ CloseStream
  <2>1. UNCHANGED <<audio_ring, cb, cr, cout, played>> /\ lc' # "opening"
    BY <1>3 DEF ExitJoin, ResetWritePos, CloseStream, LifeInv, producer, callback
  <2>2. ~audio_stream' \/ UNCHANGED <<audio_stream, audio_read_pos>>
    BY <1>3 DEF ExitJoin, ResetWritePos, CloseStream, cursors
  <2> QED  BY <2>1, <2>2
<1>4. CASE ThrottlePass \/ ThrottlePaused \/ QueueBegin
  <2>1. UNCHANGED <<lc, audio_stream, audio_read_pos, audio_ring, cb, cr, cout, played>>
    BY <1>4 DEF ThrottlePass, ThrottlePaused, QueueBegin, lifecycle, cursors, callback
  <2> QED  BY <2>1
<1>5. CASE QueueCopy
  <2>1. UNCHANGED <<lc, audio_stream, audio_read_pos, audio_write_pos, cb, cr, ca, cout, played>>
    BY <1>5 DEF QueueCopy, lifecycle, cursors, callback
  <2>2. cb = "copy" /\ audio_stream => Len(cout) <= Fill /\ Fill \in Nat
    <3>1. Fill \in Nat /\ Dist(cr, audio_read_pos) \in Nat
      BY <1>0, DistType DEF Fill
    <3>2. cb = "copy" /\ audio_stream => Dist(cr, audio_read_pos) + ca <= Fill
      BY DEF RingInv
    <3>3. cb = "copy" /\ audio_stream => Len(cout) = Dist(cr, audio_read_pos)
      OBVIOUS
    <3> HIDE DEF OutInv
    <3> QED  BY <1>0, <3>1, <3>2, <3>3
  <2>3. cb = "copy" /\ audio_stream => \A i \in 1..Len(cout) : i \in 1..Fill
    <3>1. Len(cout) \in Nat
      BY <1>0
    <3> HIDE DEF OutInv
    <3> QED  BY <2>2, <3>1
  <2>4. \A i \in 1..Fill : audio_ring'[(audio_read_pos + (i - 1)) % RingFrames]
                             = audio_ring[(audio_read_pos + (i - 1)) % RingFrames]
    BY <1>5, CopyMissesQueue
  <2> QED  BY <2>1, <2>3, <2>4
<1>6. CASE QueuePublish
  BY <1>6 DEF QueuePublish, lifecycle, callback
<1>7. ASSUME NEW n \in 1..MaxBurst, CallbackBegin(n) PROVE OutInv'
  <2>1. cout' = <<>> /\ cr' = audio_read_pos /\ UNCHANGED <<lc, audio_stream, audio_read_pos, audio_ring, played>>
    BY <1>7 DEF CallbackBegin, lifecycle, cursors
  <2>2. Len(cout') = 0 /\ Dist(cr', audio_read_pos') = 0
    BY <1>0, <2>1, DistType
  <2> QED  BY <2>1, <2>2
<1>8. CASE CallbackCopy
  <2>1. /\ cout' = Append(cout, audio_ring[Slot(cr)]) /\ cr' = Inc(cr) /\ cb = "copy" /\ ca > 0
        /\ UNCHANGED <<lc, audio_stream, audio_read_pos, audio_write_pos, audio_ring, cb, played>>
    BY <1>8 DEF CallbackCopy, lifecycle, cursors
  <2> SUFFICES ASSUME audio_stream
               PROVE  /\ Len(cout') = Dist(cr', audio_read_pos)
                      /\ \A i \in 1..Len(cout') : cout'[i] = audio_ring[(audio_read_pos + (i - 1)) % RingFrames]
    BY <2>1
  <2>2. Dist(cr', audio_read_pos) = Dist(cr, audio_read_pos) + 1
    BY <1>0, <2>1, DistType, IncDist, SMTT(30) DEF RingInv, Fill
  <2>3. audio_ring[Slot(cr)] = audio_ring[(audio_read_pos + Len(cout)) % RingFrames]
    BY <2>1, CallbackSlot
  <2>a. audio_ring[Slot(cr)] \in Frames
    BY <1>0, SlotInRing DEF TypeOK
  <2>4. Len(cout) \in Nat /\ Len(cout') = Len(cout) + 1
    <3> HIDE DEF OutInv
    <3> QED  BY <1>0, <2>1, <2>a
  <2>5. \A i \in 1..Len(cout) : cout'[i] = cout[i]
    <3> HIDE DEF OutInv
    <3> QED  BY <1>0, <2>1, <2>a
  <2>6. cout'[Len(cout) + 1] = audio_ring[(audio_read_pos + ((Len(cout) + 1) - 1)) % RingFrames]
    <3>1. cout'[Len(cout) + 1] = audio_ring[Slot(cr)]
      BY <1>0, <2>1
    <3>2. (Len(cout) + 1) - 1 = Len(cout)
      BY <2>4
    <3> QED  BY <2>3, <3>1, <3>2
  <2>7. \A i \in 1..Len(cout') : i \in 1..Len(cout) \/ i = Len(cout) + 1
    BY <2>4
  <2> QED  BY <2>1, <2>2, <2>4, <2>5, <2>6, <2>7
<1>9. CASE CallbackEnd
  BY <1>9 DEF LifeInv, CallbackEnd, lifecycle
<1>10. CASE UNCHANGED vars
  BY <1>10 DEF vars, lifecycle, cursors, producer, callback
<1> QED
  BY <1>1, <1>2, <1>3, <1>4, <1>5, <1>6, <1>7, <1>8, <1>9, <1>10
     DEF Next, CoreStep, ApuStep, CallbackStep

(* The queue of the refinement is a sequence of frames.                    *)
LEMMA QueueSeq ==
  ASSUME TypeOK
  PROVE  /\ Queue \in Seq(Frames)
         /\ audio_stream => /\ Fill \in Nat /\ Len(Queue) = Fill
                            /\ \A i \in 1..Fill : Queue[i] = audio_ring[(audio_read_pos + (i - 1)) % RingFrames]
<1>0. audio_read_pos \in Cursor /\ audio_write_pos \in Cursor /\ audio_read_pos \in Nat
  BY RingAssumption DEF TypeOK, Cursor
<1>1. Fill \in Nat
  BY <1>0, DistType DEF Fill
<1>2. \A i \in 1..Fill : audio_ring[(audio_read_pos + (i - 1)) % RingFrames] \in Frames
  <2> SUFFICES ASSUME NEW i \in 1..Fill PROVE audio_ring[(audio_read_pos + (i - 1)) % RingFrames] \in Frames
    OBVIOUS
  <2> DEFINE a == audio_read_pos + (i - 1)
  <2>1. a \in Nat
    BY <1>0, <1>1
  <2>2. a % RingFrames \in 0..(RingFrames - 1)
    <3> HIDE DEF a
    <3> QED  BY <2>1, RingAssumption
  <2>3. audio_ring \in [0..(RingFrames - 1) -> Frames]
    BY DEF TypeOK
  <2> QED  BY <2>2, <2>3
<1>3. CASE audio_stream
  <2>1. Queue = [i \in 1..Fill |-> audio_ring[(audio_read_pos + (i - 1)) % RingFrames]]
    BY <1>3 DEF Queue
  <2>2. Queue \in [1..Fill -> Frames]
    BY <1>2, <2>1
  <2>3. Queue \in Seq(Frames) /\ Len(Queue) = Fill
    BY <1>1, <2>2
  <2> QED  BY <1>1, <2>1, <2>3
<1>4. CASE ~audio_stream
  BY <1>4 DEF Queue
<1> QED
  BY <1>3, <1>4

(* The steps that leave the queue and the played frames alone.             *)
LEMMA QueueStutters ==
  ASSUME UNCHANGED <<audio_stream, audio_read_pos, audio_write_pos, audio_ring, played>>
  PROVE  UNCHANGED <<audio_stream, Queue, Heard>>
  BY DEF Queue, Heard, Fill

(* Publishing the write cursor appends the frames of the copy loop.        *)
LEMMA PublishPuts ==
  ASSUME TypeOK, TypeOK', LifeInv, RingInv, RingInv', QueuePublish
  PROVE  \E s \in Fifo!Batches :
           /\ audio_stream /\ Len(Queue) + Len(s) <= RingFrames
           /\ Queue' = Queue \o s
           /\ UNCHANGED <<audio_stream, Heard>>
<1>0. /\ audio_read_pos \in Cursor /\ audio_write_pos \in Cursor /\ pw \in Cursor
      /\ audio_read_pos \in Nat /\ audio_write_pos \in Nat /\ RingFrames \in Nat
  BY RingAssumption, SMTT(30) DEF TypeOK, Cursor
<1>1. /\ apu = "copy" /\ audio_write_pos' = pw /\ pn = 0
      /\ UNCHANGED <<lc, audio_stream, audio_read_pos, audio_ring, played>>
  BY DEF QueuePublish, lifecycle, callback
<1>2. audio_stream
  BY <1>1 DEF LifeInv
<1> DEFINE d == Dist(pw, audio_write_pos)
           s == [i \in 1..d |-> audio_ring[(audio_write_pos + (i - 1)) % RingFrames]]
<1>3. /\ d \in Nat /\ Fill \in Nat /\ Fill' = d + Fill /\ Fill' <= RingFrames
  <2>1. Fill' = Dist(pw, audio_read_pos)
    BY <1>1 DEF Fill
  <2>2. d + Fill = Dist(pw, audio_read_pos)
    BY <1>1 DEF RingInv
  <2>3. d \in Nat /\ Fill \in Nat
    BY <1>0, DistType DEF Fill
  <2> QED  BY <1>1, <1>2, <2>1, <2>2, <2>3 DEF RingInv
<1>4. s \in [1..d -> Frames]
  <2> SUFFICES ASSUME NEW i \in 1..d PROVE audio_ring[(audio_write_pos + (i - 1)) % RingFrames] \in Frames
    OBVIOUS
  <2> DEFINE a == audio_write_pos + (i - 1)
  <2>1. a \in Nat
    BY <1>0, <1>3
  <2>2. a % RingFrames \in 0..(RingFrames - 1)
    <3> HIDE DEF a
    <3> QED  BY <2>1, RingAssumption
  <2>3. audio_ring \in [0..(RingFrames - 1) -> Frames]
    BY DEF TypeOK
  <2> QED  BY <2>2, <2>3
<1>5. s \in Fifo!Batches
  <2>1. d \in 0..RingFrames
    BY <1>0, <1>3
  <2> HIDE DEF d, s
  <2> QED  BY <1>4, <2>1 DEF Fifo!Batches
<1>6. s \in Seq(Frames) /\ Len(s) = d
  <2> HIDE DEF d, s
  <2> QED  BY <1>3, <1>4
<1>7. /\ Queue \in Seq(Frames) /\ Len(Queue) = Fill
      /\ \A i \in 1..Fill : Queue[i] = audio_ring[(audio_read_pos + (i - 1)) % RingFrames]
  BY <1>2, QueueSeq
<1>8. Queue' = [i \in 1..(d + Fill) |-> audio_ring[(audio_read_pos + (i - 1)) % RingFrames]]
  BY <1>1, <1>2, <1>3 DEF Queue
<1>9. \A i \in 1..(d + Fill) : Queue'[i] = (Queue \o s)[i]
  <2> SUFFICES ASSUME NEW i \in 1..(d + Fill) PROVE Queue'[i] = (Queue \o s)[i]
    BY ZenonT(30)
  <2>1. Queue'[i] = audio_ring[(audio_read_pos + (i - 1)) % RingFrames]
    BY <1>8
  <2>2. CASE i <= Fill
    <3>1. i \in 1..Fill
      BY <1>3, <2>2
    <3>2. (Queue \o s)[i] = Queue[i]
      <4> HIDE DEF d, s
      <4> QED  BY <1>6, <1>7, <3>1
    <3> QED  BY <1>7, <2>1, <3>1, <3>2
  <2>3. CASE ~(i <= Fill)
    <3> DEFINE j == i - Fill
    <3>1. j \in 1..d /\ i = Fill + j /\ i \in Int
      BY <1>3, <2>3
    <3>2. (Queue \o s)[i] = s[j]
      <4> HIDE DEF d, s, j
      <4> QED  BY <1>3, <1>6, <1>7, <3>1
    <3>3. s[j] = audio_ring[(audio_write_pos + (j - 1)) % RingFrames]
      BY <3>1
    <3>4. j - 1 \in Nat /\ Dist(audio_write_pos, audio_read_pos) + (j - 1) = i - 1
      BY <1>3, <3>1 DEF Fill
    <3>5. (audio_write_pos + (j - 1)) % RingFrames = (audio_read_pos + (i - 1)) % RingFrames
      <4> HIDE DEF j
      <4> QED  BY <1>0, <3>4, SameSlot
    <3> QED  BY <2>1, <3>2, <3>3, <3>5, ZenonT(30)
  <2> QED  BY <2>2, <2>3, ZenonT(30)
<1>10. Queue' = Queue \o s
  <2>1. Queue \o s \in [1..(d + Fill) -> Frames]
    <3> HIDE DEF d, s
    <3>1. Queue \o s \in Seq(Frames)
      BY <1>6, <1>7
    <3>2. Len(Queue \o s) = d + Fill
      BY <1>3, <1>6, <1>7
    <3>3. \A f \in Seq(Frames) : f \in [1..Len(f) -> Frames]
      OBVIOUS
    <3> QED  BY <3>1, <3>2, <3>3, Zenon
  <2> HIDE DEF d, s
  <2> QED  BY <1>8, <1>9, <2>1, ZenonT(30)
<1>11. Len(Queue) + Len(s) <= RingFrames
  <2> HIDE DEF d, s
  <2> QED  BY <1>0, <1>3, <1>6, <1>7
<1>12. UNCHANGED <<audio_stream, Heard>>
  BY <1>1 DEF Heard
<1> HIDE DEF d, s
<1> QED
  BY <1>2, <1>5, <1>10, <1>11, <1>12

(* Storing the read cursor takes the frames of the callback off the front. *)
LEMMA CallbackGets ==
  ASSUME TypeOK, TypeOK', LifeInv, RingInv, OutInv, CallbackEnd, audio_stream
  PROVE  \E n \in 0..Len(Queue) :
           /\ Heard' = SubSeq(Queue, 1, n)
           /\ Queue' = SubSeq(Queue, n + 1, Len(Queue))
           /\ UNCHANGED audio_stream
<1>0. /\ audio_read_pos \in Cursor /\ audio_write_pos \in Cursor /\ cr \in Cursor
      /\ audio_read_pos \in Nat /\ cr \in Nat /\ ca \in Nat /\ cout \in Seq(Frames)
  BY RingAssumption DEF TypeOK, Cursor
<1>1. /\ cb = "copy" /\ audio_read_pos' = cr /\ played' = cout
      /\ UNCHANGED <<audio_stream, audio_write_pos, audio_ring>>
  BY DEF CallbackEnd, lifecycle
<1> DEFINE n == Dist(cr, audio_read_pos)
<1>2. /\ n \in Nat /\ Fill \in Nat /\ n <= Fill /\ Len(cout) = n
      /\ \A i \in 1..n : cout[i] = audio_ring[(audio_read_pos + (i - 1)) % RingFrames]
  <2>1. n \in Nat /\ Fill \in Nat
    BY <1>0, DistType DEF Fill
  <2>2. n + ca <= Fill
    BY <1>1 DEF RingInv
  <2>3. Len(cout) = n /\ \A i \in 1..Len(cout) : cout[i] = audio_ring[(audio_read_pos + (i - 1)) % RingFrames]
    BY <1>1 DEF OutInv
  <2> QED  BY <1>0, <2>1, <2>2, <2>3
<1>3. Fill' = Fill - n
  BY <1>0, <1>1, <1>2, DistSub DEF Fill
<1>4. /\ Queue \in Seq(Frames) /\ Len(Queue) = Fill
      /\ \A i \in 1..Fill : Queue[i] = audio_ring[(audio_read_pos + (i - 1)) % RingFrames]
  BY QueueSeq
<1>5. Queue' = [i \in 1..(Fill - n) |-> audio_ring[(cr + (i - 1)) % RingFrames]]
  BY <1>1, <1>3 DEF Queue
<1>6. SubSeq(Queue, 1, n) = cout
  <2> HIDE DEF n
  <2>1. /\ SubSeq(Queue, 1, n) \in Seq(Frames) /\ Len(SubSeq(Queue, 1, n)) = n
        /\ \A i \in 1..n : SubSeq(Queue, 1, n)[i] = Queue[i]
    BY <1>2, <1>4
  <2>2. \A i \in 1..n : Queue[i] = cout[i]
    BY <1>2, <1>4
  <2> QED  BY <1>0, <1>2, <2>1, <2>2
<1>7. SubSeq(Queue, n + 1, Len(Queue)) = Queue'
  <2>1. /\ SubSeq(Queue, n + 1, Fill) \in [1..(Fill - n) -> Frames]
        /\ \A i \in 1..(Fill - n) : SubSeq(Queue, n + 1, Fill)[i] = Queue[n + i]
    <3> HIDE DEF n
    <3>1. SubSeq(Queue, n + 1, Fill) = [i \in 1..(Fill - n) |-> Queue[n + i]]
      BY <1>2, <1>4
    <3>2. \A i \in 1..(Fill - n) : n + i \in 1..Fill
      BY <1>2
    <3>3. \A i \in 1..(Fill - n) : Queue[n + i] \in Frames
      BY <1>2, <1>4, <3>2
    <3> QED  BY <3>1, <3>3, ZenonT(30)
  <2>2. ASSUME NEW i \in 1..(Fill - n) PROVE Queue[n + i] = Queue'[i]
    <3>1. Queue[n + i] = audio_ring[(audio_read_pos + ((n + i) - 1)) % RingFrames]
      <4>1. n + i \in 1..Fill
        BY <1>2
      <4> HIDE DEF n
      <4> QED  BY <1>4, <4>1
    <3>2. i - 1 \in Nat /\ Dist(cr, audio_read_pos) + (i - 1) = (n + i) - 1
      BY <1>2
    <3>3. (cr + (i - 1)) % RingFrames = (audio_read_pos + ((n + i) - 1)) % RingFrames
      <4> HIDE DEF n
      <4> QED  BY <1>0, <3>2, SameSlot
    <3> QED  BY <1>5, <3>1, <3>3
  <2> HIDE DEF n
  <2> QED  BY <1>4, <1>5, <2>1, <2>2, ZenonT(30)
<1>8. Heard' = cout
  BY <1>1 DEF Heard
<1>9. n \in 0..Len(Queue)
  BY <1>2, <1>4
<1> HIDE DEF n
<1> QED
  BY <1>1, <1>6, <1>7, <1>8, <1>9

(* Every step of the ring is a step of the FIFO or changes nothing of it.  *)
LEMMA StepRefines == IInv /\ IInv' /\ OutInv /\ [Next]_vars => [Fifo!Next]_Fifo!vars
<1> SUFFICES ASSUME IInv, IInv', OutInv, [Next]_vars PROVE [Fifo!Next]_Fifo!vars
  OBVIOUS
<1>0. TypeOK /\ TypeOK' /\ LifeInv /\ RingInv /\ RingInv'
  BY DEF IInv
<1>b. UNCHANGED <<audio_stream, Queue, Heard>> => UNCHANGED Fifo!vars
  BY DEF Fifo!vars, Queue, Heard
<1>1. CASE AudioInit \/ ResetWritePos
  <2>1. audio_stream = FALSE /\ audio_stream' = FALSE
    BY <1>0, <1>1 DEF TypeOK, LifeInv, AudioInit, ResetWritePos
  <2> QED  BY <1>b, <2>1, ZenonT(30) DEF Queue, Heard
<1>2. CASE Publish
  <2>1. /\ ~audio_stream /\ audio_stream' = TRUE /\ lc = "opening"
        /\ UNCHANGED <<audio_read_pos, audio_write_pos, played>>
    BY <1>0, <1>2 DEF LifeInv, Publish, cursors, callback
  <2>2. played = <<>> /\ audio_read_pos = 0 /\ audio_write_pos = 0
    BY <1>0, <2>1 DEF LifeInv, OutInv
  <2>3. Fill' = 0
    BY <2>1, <2>2 DEF Fill, Dist
  <2>4. Queue' = <<>>
    <3>1. Queue' = [i \in 1..0 |-> audio_ring'[(audio_read_pos' + (i - 1)) % RingFrames]]
      BY <2>1, <2>3 DEF Queue
    <3>2. Queue' \in [1..0 -> Frames]
      BY <3>1
    <3>3. Queue' \in Seq(Frames) /\ Len(Queue') = 0
      BY <3>2
    <3> QED  BY <3>3
  <2>5. Heard' = <<>>
    BY <2>1, <2>2 DEF Heard
  <2>6. Fifo!Open
    BY <2>1, <2>4, <2>5 DEF Fifo!Open, Queue, Heard
  <2> QED  BY <2>6 DEF Fifo!Next
<1>3. CASE StartFails
  <2>1. audio_stream /\ audio_stream' = FALSE
    BY <1>0, <1>3 DEF LifeInv, StartFails
  <2>2. Fifo!Close
    BY <2>1 DEF Fifo!Close
  <2> QED  BY <2>2 DEF Fifo!Next
<1>4. CASE ExitJoin
  <2>1. CASE monitor
    <3>1. audio_stream /\ audio_stream' = FALSE
      BY <1>0, <1>4, <2>1 DEF LifeInv, ExitJoin
    <3>2. Fifo!Close
      BY <3>1 DEF Fifo!Close
    <3> QED  BY <3>2 DEF Fifo!Next
  <2>2. CASE ~monitor
    <3>1. UNCHANGED <<audio_stream, audio_read_pos, audio_write_pos, audio_ring, played>>
      BY <1>4, <2>2 DEF ExitJoin, callback
    <3> QED  BY <1>b, <3>1, QueueStutters
  <2> QED  BY <2>1, <2>2
<1>5. CASE \/ AudioInitAgain \/ CoreEnds \/ OpenFails \/ RequestStart \/ CloseStream
           \/ ThrottlePass \/ ThrottlePaused \/ QueueBegin \/ CallbackCopy \/ UNCHANGED vars
           \/ \E n \in 1..MaxBurst : CallbackBegin(n)
  <2>1. UNCHANGED <<audio_stream, audio_read_pos, audio_write_pos, audio_ring, played>>
    BY <1>5, ZenonT(30) DEF AudioInitAgain, CoreEnds, OpenFails, RequestStart, CloseStream, ThrottlePass, ThrottlePaused,
                QueueBegin, CallbackCopy, CallbackBegin, vars, lifecycle, cursors, callback
  <2> QED  BY <1>b, <2>1, QueueStutters
<1>6. CASE QueueCopy
  <2>1. UNCHANGED <<audio_stream, audio_read_pos, audio_write_pos, played>>
    BY <1>6 DEF QueueCopy, lifecycle, cursors, callback
  <2>2. \A i \in 1..Fill : audio_ring'[(audio_read_pos + (i - 1)) % RingFrames]
                             = audio_ring[(audio_read_pos + (i - 1)) % RingFrames]
    BY <1>0, <1>6, CopyMissesQueue
  <2>3. Fill' = Fill
    BY <2>1 DEF Fill
  <2>4. UNCHANGED <<audio_stream, Queue, Heard>>
    BY <2>1, <2>2, <2>3, ZenonT(30) DEF Queue, Heard
  <2> QED  BY <1>b, <2>4
<1>7. CASE QueuePublish
  <2>1. PICK s \in Fifo!Batches : /\ audio_stream /\ Len(Queue) + Len(s) <= RingFrames
                                  /\ Queue' = Queue \o s /\ UNCHANGED <<audio_stream, Heard>>
    BY <1>0, <1>7, PublishPuts
  <2>2. Fifo!Put(s)
    BY <2>1, ZenonT(30) DEF Fifo!Put, Queue, Heard
  <2> QED  BY <2>2 DEF Fifo!Next
<1>8. CASE CallbackEnd
  <2>1. CASE audio_stream
    <3>1. PICK n \in 0..Len(Queue) : /\ Heard' = SubSeq(Queue, 1, n)
                                     /\ Queue' = SubSeq(Queue, n + 1, Len(Queue))
                                     /\ UNCHANGED audio_stream
      BY <1>0, <1>8, <2>1, CallbackGets, ZenonT(30)
    <3>2. Fifo!Get(n)
      BY <2>1, <3>1, ZenonT(30) DEF Fifo!Get, Queue, Heard
    <3> QED  BY <3>1, <3>2, ZenonT(30) DEF Fifo!Next, Queue
  <2>2. CASE ~audio_stream
    <3>1. audio_stream = FALSE /\ audio_stream' = FALSE
      BY <1>0, <1>8, <2>2 DEF TypeOK, CallbackEnd, lifecycle
    <3> QED  BY <1>b, <3>1, ZenonT(30) DEF Queue, Heard
  <2> QED  BY <2>1, <2>2
<1> QED
  BY <1>1, <1>2, <1>3, <1>4, <1>5, <1>6, <1>7, <1>8 DEF Next, CoreStep, ApuStep, CallbackStep

(* The lock-free ring implements the FIFO AudioFifo promises the APU, for  *)
(* every ring size, chunk and cursor width that the mask divides: frames   *)
(* come out in order, none twice, none lost once audio_queue stored the    *)
(* write cursor.                                                           *)
THEOREM RingImplementsFifo == Spec => ImplementsFifo
<1>1. Init => OutInv /\ Fifo!Init
  BY DEF Init, OutInv, Fifo!Init
<1>2. IInv /\ OutInv /\ [Next]_vars => OutInv'
  BY OutNext DEF IInv
<1> QED
  BY <1>1, <1>2, StepRefines, IInvAlways, PTL DEF Spec, ImplementsFifo, Fifo!Spec
=============================================================================
