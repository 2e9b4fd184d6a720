----------------------------- MODULE AudioFifo -----------------------------
(***************************************************************************)
(* What the Android audio path promises the APU: a bounded FIFO of PCM     *)
(* frames between the emulated sound chip and the device.  Frames come out *)
(* in the order they went in, none twice, none lost once it is in.         *)
(***************************************************************************)
EXTENDS Naturals, Sequences

CONSTANTS Capacity,   \* frames the FIFO can hold
          Frame       \* the PCM frames

VARIABLES open,       \* an output stream is published
          q,          \* the frames queued and not yet played
          played      \* the frames the last callback took

vars == <<open, q, played>>

Init == open = FALSE /\ q = <<>> /\ played = <<>>

Open == ~open /\ open' = TRUE /\ q' = <<>> /\ played' = <<>>

Close == open /\ open' = FALSE /\ q' = <<>> /\ played' = <<>>

(* A producer call appends at most as many frames as there is room for.    *)
Put(s) ==
    /\ open
    /\ Len(q) + Len(s) <= Capacity
    /\ q' = q \o s
    /\ UNCHANGED <<open, played>>

(* A callback takes a prefix of the queue.                                 *)
Get(n) ==
    /\ open
    /\ played' = SubSeq(q, 1, n)
    /\ q' = SubSeq(q, n + 1, Len(q))
    /\ UNCHANGED open

Batches == UNION {[1..n -> Frame] : n \in 0..Capacity}

Next ==
    \/ Open
    \/ Close
    \/ \E s \in Batches : Put(s)
    \/ \E n \in 0..Len(q) : Get(n)

Spec == Init /\ [][Next]_vars
=============================================================================
