----------------------------- MODULE PushBuffer -----------------------------
(***************************************************************************)
(* A push buffer and what it means: the reading of its words one after the *)
(* other, by a reader that is never stalled, refused or interrupted.  The  *)
(* pusher of pfifo.c is compared with this reading.                        *)
(*                                                                         *)
(* A position of the reader is the state of the DMA registers with the     *)
(* number of methods met so far.  Walk is the sequence of positions, from  *)
(* the start of the channel to the last word the guest ever kicks off, and *)
(* Stops the positions at which the guest puts DMA_PUT.                    *)
(***************************************************************************)
EXTENDS Integers, Sequences

CONSTANTS Program,      \* the push buffer: address -> word
          Start,        \* DMA_GET when the channel starts
          Puts,         \* the values the guest gives DMA_PUT, in order
          Stream,       \* the <<method, parameter>> pairs the guest means
          Walk,         \* the positions of the reader
          Stops         \* the position of the reader at each DMA_PUT

Addresses == DOMAIN Program
NoSub == -1                \* DMA_SUBROUTINE_STATE is 0
Methods == 2048            \* 2^11: the METHOD field of DMA_STATE
Words == 1073741824        \* 2^30: the 32-bit DMA registers, counted in words

Positions ==
    [get : Addresses, inc : BOOLEAN, method : Nat, count : Nat,
     subroutine : Addresses \cup {NoSub}, done : 0..Len(Stream)]

First == [get |-> Start, inc |-> TRUE, method |-> 0, count |-> 0, subroutine |-> NoSub, done |-> 0]

(* From position s to t over the command word w.                           *)
ReadsCommand(s, w, t) ==
    /\ t.done = s.done
    /\ \/ /\ w.op = "jump"
          /\ t.get = w.to
          /\ t.inc = s.inc /\ t.method = s.method /\ t.count = s.count /\ t.subroutine = s.subroutine
       \/ /\ w.op = "call" /\ s.subroutine = NoSub
          /\ t.subroutine = s.get + 1 /\ t.get = w.to
          /\ t.inc = s.inc /\ t.method = s.method /\ t.count = s.count
       \/ /\ w.op = "return" /\ s.subroutine # NoSub
          /\ t.get = s.subroutine /\ t.subroutine = NoSub
          /\ t.inc = s.inc /\ t.method = s.method /\ t.count = s.count
       \/ /\ w.op \in {"inc", "nonInc"}
          /\ t.inc = (w.op = "inc") /\ t.method = w.method /\ t.count = w.count
          /\ t.get = s.get + 1 /\ t.subroutine = s.subroutine

(* From position s to t over the data word w: the next method of Stream.   *)
ReadsData(s, w, t) ==
    /\ s.done < Len(Stream)
    /\ Stream[s.done + 1] = <<s.method, w.value>>
    /\ t.get = s.get + 1 /\ t.count = s.count - 1 /\ t.done = s.done + 1
    /\ t.method = IF s.inc THEN s.method + 1 ELSE s.method
    /\ t.inc = s.inc /\ t.subroutine = s.subroutine

Reads(s, t) ==
    IF s.count = 0 THEN ReadsCommand(s, Program[s.get], t) ELSE ReadsData(s, Program[s.get], t)

(* A well-formed push buffer: its words fit the DMA registers, the reading *)
(* of it is Walk and meets the methods of Stream, and the guest kicks off  *)
(* more and more of it.                                                    *)
ASSUME WalkAssumption ==
    /\ Addresses \subseteq 0..(Words - 1)
    /\ Stream \in Seq(Nat \X Nat)
    /\ Walk \in Seq(Positions) /\ Walk # <<>> /\ Walk[1] = First
    /\ \A k \in 1..(Len(Walk) - 1) : Reads(Walk[k], Walk[k + 1])

(* An increasing command keeps within the methods there are, so that the   *)
(* METHOD field of DMA_STATE never wraps before a parameter is handed on.  *)
ASSUME FieldAssumption == \A k \in 1..Len(Walk) : Walk[k].count > 0 => Walk[k].method < Methods

ASSUME PutsAssumption ==
    /\ Puts \in Seq(Addresses)
    /\ Stops \in [1..Len(Puts) -> 1..Len(Walk)]
    /\ \A j \in 1..Len(Puts) : Walk[Stops[j]].get = Puts[j]
    /\ \A i, j \in 1..Len(Puts) : i <= j => Stops[i] <= Stops[j]

(* How far the reader gets after n writes of DMA_PUT.                      *)
Stop(n) == IF n = 0 THEN 1 ELSE Stops[n]
=============================================================================
