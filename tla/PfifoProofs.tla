---------------------------- MODULE PfifoProofs ----------------------------
(***************************************************************************)
(* Proofs about Pfifo: for any push buffer that the reader of PushBuffer   *)
(* can read, any sequence of values of DMA_PUT along its walk, and any     *)
(* number of buffers to flip.                                              *)
(*                                                                         *)
(* The pusher's registers are always those of one position of the reader,  *)
(* and what is executed is what the reader has met there, the words the    *)
(* engine has run and the pusher not yet passed included.  Three facts     *)
(* about the reader carry the steps: within a command it moves from word   *)
(* to word (Linear), the words are the next methods of the stream          *)
(* (LinearMethods), and it never meets fewer methods (DoneMonotone).       *)
(***************************************************************************)
EXTENDS Pfifo, SequenceTheorems, WellFoundedInduction, TLAPS

(* The program points at which a data word is with the puller.             *)
Pulling == {"method", "switch", "switched"}

(* The words the engine has executed and the pusher not yet passed.        *)
Ahead == IF pfPc \in {"trap", "relock"} THEN num_proc ELSE 0

(* The pusher's registers are those of the reader's k-th position.         *)
At(k) ==
    /\ get = Walk[k].get /\ inc = Walk[k].inc /\ method = Walk[k].method
    /\ count = Walk[k].count /\ subroutine = Walk[k].subroutine

(* The engine has executed what the reader has met up to there and Ahead,  *)
(* and nothing past DMA_PUT is executed or within the puller's reach.      *)
OnWalk(k) ==
    /\ At(k)
    /\ Ahead <= count /\ k + Ahead <= Stop(puts)
    /\ executed = SubSeq(Stream, 1, Walk[k + Ahead].done)
    /\ pfPc \in Pulling => k + Least(count, avail) <= Stop(puts)

WalkInv == \E k \in 1..Len(Walk) : OnWalk(k)

PutInv == puts \in 0..Len(Puts) /\ put = Walk[Stop(puts)].get

(* A method under way belongs to a command with words left.                *)
PullInv ==
    /\ pfPc \in Pulling => count > 0 /\ avail > 0
    /\ pfPc \in {"trap", "relock"} => count > 0

-----------------------------------------------------------------------------
(* The reader                                                              *)

(* A set of natural numbers has a least element.                           *)
LEMMA LeastNatural ==
    ASSUME NEW S \in SUBSET Nat, S # {}
    PROVE  \E m \in S : \A x \in S : m <= x
  <1> DEFINE R == {ss \in Nat \X Nat : ss[1] < ss[2]}
  <1>1. IsWellFoundedOn(R, Nat)
    BY NatLessThanWellFounded DEF OpToRel
  <1>2. \E m \in S : \A x \in S : <<x, m>> \notin R
    <2> HIDE DEF R
    <2> QED
      BY <1>1, WFMin, ZenonT(30)
  <1>3. PICK m \in S : \A x \in S : <<x, m>> \notin R
    BY <1>2
  <1>4. ASSUME NEW x \in S PROVE m <= x
    <2>1. <<x, m>> \in Nat \X Nat
      OBVIOUS
    <2>2. ~(x < m)
      BY <1>3, <2>1
    <2> QED
      BY <2>2
  <1> QED
    BY <1>4

(* A position is a state of the registers.                                 *)
LEMMA PositionType ==
    ASSUME NEW k \in 1..Len(Walk)
    PROVE  /\ Walk[k] \in Positions
           /\ Walk[k].get \in 0..(Words - 1) /\ Walk[k].get \in Addresses
           /\ Walk[k].inc \in BOOLEAN /\ Walk[k].method \in Nat /\ Walk[k].count \in Nat
           /\ Walk[k].subroutine \in Addresses \cup {NoSub}
           /\ Walk[k].done \in 0..Len(Stream) /\ Walk[k].done \in Nat
  <1>1. Walk \in Seq(Positions) /\ Addresses \subseteq 0..(Words - 1) /\ Stream \in Seq(Nat \X Nat)
    BY WalkAssumption
  <1>2. Walk[k] \in Positions
    BY <1>1, ElementOfSeq
  <1>3. Len(Stream) \in Nat
    BY <1>1, LenProperties
  <1>4. /\ Walk[k].get \in Addresses /\ Walk[k].inc \in BOOLEAN /\ Walk[k].method \in Nat
        /\ Walk[k].count \in Nat /\ Walk[k].subroutine \in Addresses \cup {NoSub}
        /\ Walk[k].done \in 0..Len(Stream)
    BY <1>2 DEF Positions
  <1>5. Walk[k].get \in 0..(Words - 1)
    BY <1>1, <1>4
  <1>6. Walk[k].done \in Nat
    BY <1>3, <1>4
  <1> QED
    BY <1>2, <1>4, <1>5, <1>6

(* The reader has a first position.                                        *)
LEMMA WalkLength == Len(Walk) \in Nat /\ Len(Walk) >= 1 /\ Len(Puts) \in Nat /\ Len(Stream) \in Nat
  <1>1. Walk \in Seq(Positions) /\ Walk # <<>> /\ Puts \in Seq(Addresses) /\ Stream \in Seq(Nat \X Nat)
    BY WalkAssumption, PutsAssumption
  <1> QED
    BY <1>1, LenProperties, EmptySeq

(* Within a command the reader moves from word to word.                    *)
Along(k, i) ==
    /\ Walk[k + i].get = Walk[k].get + i
    /\ Walk[k + i].inc = Walk[k].inc
    /\ Walk[k + i].method = IF Walk[k].inc THEN Walk[k].method + i ELSE Walk[k].method
    /\ Walk[k + i].count = Walk[k].count - i
    /\ Walk[k + i].subroutine = Walk[k].subroutine
    /\ Walk[k + i].done = Walk[k].done + i

(* Over one data word it meets the next method of the stream.              *)
LEMMA OneWord ==
    ASSUME NEW k \in 1..(Len(Walk) - 1), Walk[k].count # 0
    PROVE  /\ Along(k, 1)
           /\ Stream[Walk[k].done + 1] = <<Walk[k].method, Program[Walk[k].get].value>>
  <1>0. k \in 1..Len(Walk) /\ k + 1 \in 1..Len(Walk)
    BY WalkLength
  <1>1. ReadsData(Walk[k], Program[Walk[k].get], Walk[k + 1])
    BY WalkAssumption, ZenonT(30) DEF Reads
  <1>2. Walk[k] \in Positions
    BY <1>0, PositionType
  <1>4. Along(k, 1)
    BY <1>1, <1>2 DEF ReadsData, Along, Positions
  <1> QED
    BY <1>1, <1>4 DEF ReadsData

(* So it does over any number of them, up to the count of the command      *)
(* (pfifo_run_pusher advances by num_words_processed at once).             *)
LEMMA Linear ==
    ASSUME NEW k \in 1..Len(Walk), NEW i \in Nat, i <= Walk[k].count, k + i <= Len(Walk)
    PROVE  Along(k, i)
  <1> DEFINE Bad == {j \in Nat : j <= Walk[k].count /\ k + j <= Len(Walk) /\ ~Along(k, j)}
  <1>0. Walk[k].count \in Nat /\ Walk[k].method \in Nat /\ Walk[k].get \in Nat /\ Walk[k].done \in Nat
    BY PositionType
  <1>1. SUFFICES ASSUME Bad # {} PROVE FALSE
    OBVIOUS
  <1>2. PICK m \in Bad : \A x \in Bad : m <= x
    <2>1. Bad \in SUBSET Nat
      OBVIOUS
    <2> HIDE DEF Bad
    <2> QED
      BY <1>1, <2>1, LeastNatural
  <1>3. m \in Nat /\ m <= Walk[k].count /\ k + m <= Len(Walk) /\ ~Along(k, m)
    OBVIOUS
  <1>4. m # 0
    <2>1. Along(k, 0)
      BY <1>0 DEF Along
    <2> QED
      BY <1>3, <2>1
  <1>5. m - 1 \in Nat /\ m - 1 <= Walk[k].count /\ k + (m - 1) <= Len(Walk) /\ ~(m <= m - 1)
    BY <1>0, <1>3, <1>4, WalkLength
  <1>6. Along(k, m - 1)
    <2>1. m - 1 \notin Bad
      <3> HIDE DEF Bad
      <3> QED  BY <1>2, <1>5
    <2> QED
      BY <1>5, <2>1
  <1> DEFINE p == k + (m - 1)
  <1>7. p \in 1..(Len(Walk) - 1) /\ Walk[p].count # 0
    <2>1. Walk[p].count = Walk[k].count - (m - 1)
      BY <1>6 DEF Along
    <2>2. p \in 1..(Len(Walk) - 1)
      BY <1>3, <1>4, WalkLength
    <2> HIDE DEF p, Bad
    <2>3. Walk[p].count # 0
      BY <1>0, <1>3, <1>4, <2>1
    <2> QED
      BY <2>2, <2>3
  <1>8. Along(p, 1)
    <2> HIDE DEF p
    <2> QED  BY <1>7, OneWord
  <1>9. p + 1 = k + m
    BY <1>3
  <1>10. Walk[k + m].get = Walk[p].get + 1 /\ Walk[k + m].inc = Walk[p].inc
         /\ Walk[k + m].method = (IF Walk[p].inc THEN Walk[p].method + 1 ELSE Walk[p].method)
         /\ Walk[k + m].count = Walk[p].count - 1 /\ Walk[k + m].subroutine = Walk[p].subroutine
         /\ Walk[k + m].done = Walk[p].done + 1
    <2> HIDE DEF p
    <2> QED  BY <1>8, <1>9 DEF Along
  <1>11. Along(k, m)
    <2>1. /\ Walk[p].get = Walk[k].get + (m - 1) /\ Walk[p].inc = Walk[k].inc
          /\ Walk[p].method = (IF Walk[k].inc THEN Walk[k].method + (m - 1) ELSE Walk[k].method)
          /\ Walk[p].count = Walk[k].count - (m - 1) /\ Walk[p].subroutine = Walk[k].subroutine
          /\ Walk[p].done = Walk[k].done + (m - 1)
      BY <1>6 DEF Along
    <2> HIDE DEF p, Bad
    <2>a. m \in Int /\ \A x \in Nat : x + (m - 1) + 1 = x + m /\ x - (m - 1) - 1 = x - m
      BY <1>3
    <2>2. /\ Walk[k + m].get = Walk[k].get + m /\ Walk[k + m].count = Walk[k].count - m
          /\ Walk[k + m].done = Walk[k].done + m
      BY <1>0, <1>10, <2>1, <2>a, ZenonT(30)
    <2>3. Walk[k + m].method = IF Walk[k].inc THEN Walk[k].method + m ELSE Walk[k].method
      BY <1>0, <1>10, <2>1, <2>a, ZenonT(30)
    <2> QED
      BY <1>10, <2>1, <2>2, <2>3 DEF Along
  <1> QED
    BY <1>3, <1>11

(* The words of a command are the next methods of the stream.              *)
LEMMA LinearMethods ==
    ASSUME NEW k \in 1..Len(Walk), NEW n \in Nat, n <= Walk[k].count, k + n <= Len(Walk),
           NEW i \in 1..n
    PROVE  Stream[Walk[k].done + i] =
              <<IF Walk[k].inc THEN Walk[k].method + i - 1 ELSE Walk[k].method,
                Program[Walk[k].get + i - 1].value>>
  <1> DEFINE p == k + (i - 1)
  <1>0. Walk[k].count \in Nat /\ Walk[k].method \in Nat /\ Walk[k].get \in Nat /\ Walk[k].done \in Nat
    BY PositionType
  <1>1. i - 1 \in Nat /\ i - 1 <= Walk[k].count /\ k + (i - 1) <= Len(Walk)
    BY <1>0, WalkLength
  <1>2. Along(k, i - 1)
    BY <1>1, Linear
  <1>3. p \in 1..(Len(Walk) - 1) /\ Walk[p].count # 0
    <2>1. Walk[p].count = Walk[k].count - (i - 1)
      BY <1>2 DEF Along
    <2> HIDE DEF p
    <2>2. Walk[p].count # 0
      BY <1>0, <2>1
    <2>3. p \in 1..(Len(Walk) - 1)
      BY <1>1, WalkLength DEF p
    <2> QED
      BY <2>2, <2>3
  <1>4. Stream[Walk[p].done + 1] = <<Walk[p].method, Program[Walk[p].get].value>>
    <2> HIDE DEF p
    <2> QED  BY <1>3, OneWord, ZenonT(30)
  <1>5. /\ Walk[p].done + 1 = Walk[k].done + i
        /\ Walk[p].get = Walk[k].get + i - 1
        /\ Walk[p].method = IF Walk[k].inc THEN Walk[k].method + i - 1 ELSE Walk[k].method
    <2>1. /\ Walk[p].get = Walk[k].get + (i - 1) /\ Walk[p].done = Walk[k].done + (i - 1)
          /\ Walk[p].method = IF Walk[k].inc THEN Walk[k].method + (i - 1) ELSE Walk[k].method
      BY <1>2 DEF Along
    <2> HIDE DEF p
    <2> QED
      BY <1>0, <2>1
  <1> QED
    <2> HIDE DEF p
    <2> QED  BY <1>4, <1>5

(* The first d methods of the stream.                                      *)
LEMMA Prefix ==
    ASSUME NEW d \in 0..Len(Stream)
    PROVE  /\ SubSeq(Stream, 1, d) \in Seq(Nat \X Nat)
           /\ Len(SubSeq(Stream, 1, d)) = d
           /\ \A i \in 1..d : SubSeq(Stream, 1, d)[i] = Stream[i]
  <1>1. Stream \in Seq(Nat \X Nat) /\ Len(Stream) \in Nat
    BY WalkAssumption, LenProperties
  <1>2. \A i \in 1..d : Stream[i] \in Nat \X Nat
    BY <1>1, ElementOfSeq
  <1>3. d \in Int /\ 1 \in Int /\ d - 1 + 1 = d
    BY <1>1
  <1> DEFINE s == SubSeq(Stream, 1, d)
  <1>4. /\ s \in Seq(Nat \X Nat)
        /\ Len(s) = (IF 1 <= d THEN d - 1 + 1 ELSE 0)
        /\ \A i \in 1..(d - 1 + 1) : s[i] = Stream[1 + i - 1]
    BY <1>2, <1>3, SubSeqProperties, SMTT(30)
  <1> HIDE DEF s
  <1>5. Len(s) = d
    BY <1>1, <1>4
  <1>6. \A i \in 1..d : s[i] = Stream[i]
    <2>1. \A i \in 1..d : 1 + i - 1 = i
      BY <1>1
    <2> QED
      BY <1>3, <1>4, <2>1, ZenonT(30)
  <1> QED
    BY <1>4, <1>5, <1>6, ZenonT(30) DEF s

(* A prefix of the stream and the next n methods are a longer prefix.      *)
LEMMA PrefixGrows ==
    ASSUME NEW d \in Nat, NEW n \in Nat, d + n <= Len(Stream), NEW f,
           f = [i \in 1..n |-> Stream[d + i]]
    PROVE  SubSeq(Stream, 1, d) \o f = SubSeq(Stream, 1, d + n)
  <1>0. Stream \in Seq(Nat \X Nat) /\ Len(Stream) \in Nat
    BY WalkAssumption, LenProperties
  <1>1. f \in Seq(Nat \X Nat) /\ Len(f) = n
    <2>1. \A i \in 1..n : Stream[d + i] \in Nat \X Nat
      BY <1>0, ElementOfSeq
    <2>2. f \in Seq(Nat \X Nat)
      BY <2>1, IsASeq
    <2> QED
      BY <2>2, LenProperties
  <1> DEFINE a == SubSeq(Stream, 1, d)
             b == SubSeq(Stream, 1, d + n)
  <1>2. a \in Seq(Nat \X Nat) /\ Len(a) = d /\ \A i \in 1..d : a[i] = Stream[i]
    <2>1. d \in 0..Len(Stream)
      BY <1>0
    <2> QED
      BY <2>1, Prefix, ZenonT(30)
  <1>3. b \in Seq(Nat \X Nat) /\ Len(b) = d + n /\ \A i \in 1..(d + n) : b[i] = Stream[i]
    <2>1. d + n \in 0..Len(Stream)
      BY <1>0
    <2> QED
      BY <2>1, Prefix, ZenonT(30)
  <1> HIDE DEF a, b
  <1>4. /\ a \o f \in Seq(Nat \X Nat) /\ Len(a \o f) = d + n
        /\ \A i \in 1..(d + n) : (a \o f)[i] = IF i <= d THEN a[i] ELSE f[i - d]
    <2>1. /\ a \o f \in Seq(Nat \X Nat) /\ Len(a \o f) = Len(a) + Len(f)
          /\ \A i \in 1..(Len(a) + Len(f)) : (a \o f)[i] = IF i <= Len(a) THEN a[i] ELSE f[i - Len(a)]
      <3>1. a \in Seq(Nat \X Nat) /\ f \in Seq(Nat \X Nat)
        BY <1>1, <1>2
      <3> QED
        BY <3>1, ConcatProperties, ZenonT(30)
    <2>2. Len(a) = d /\ Len(f) = n
      BY <1>1, <1>2
    <2> QED
      BY <2>1, <2>2, ZenonT(30)
  <1>5. ASSUME NEW i \in 1..(d + n) PROVE (a \o f)[i] = b[i]
    <2>1. CASE i <= d
      <3>1. i \in 1..d
        BY <2>1
      <3> QED
        BY <1>2, <1>3, <1>4, <2>1, <3>1, ZenonT(30)
    <2>2. CASE ~(i <= d)
      <3>1. i - d \in 1..n /\ d + (i - d) = i
        BY <2>2
      <3> QED
        BY <1>3, <1>4, <2>2, <3>1, ZenonT(30)
    <2> QED
      BY <2>1, <2>2, ZenonT(30)
  <1>6. a \o f = b
    BY <1>3, <1>4, <1>5, SeqEqual, ZenonT(30)
  <1> QED
    BY <1>6 DEF a, b


(* The reader only ever meets more methods.                                *)
LEMMA DoneMonotone ==
    ASSUME NEW a \in 1..Len(Walk), NEW b \in 1..Len(Walk), a <= b
    PROVE  Walk[a].done <= Walk[b].done
  <1> DEFINE Bad == {j \in Nat : a + j <= Len(Walk) /\ ~(Walk[a].done <= Walk[a + j].done)}
  <1>1. ASSUME Bad # {} PROVE FALSE
    <2>1. PICK m \in Bad : \A x \in Bad : m <= x
      <3>1. Bad \in SUBSET Nat
        OBVIOUS
      <3> HIDE DEF Bad
      <3> QED
        BY <1>1, <3>1, LeastNatural
    <2>2. m \in Nat /\ a + m <= Len(Walk) /\ ~(Walk[a].done <= Walk[a + m].done)
      OBVIOUS
    <2>3. m # 0
      <3>1. Walk[a].done \in Nat /\ a + 0 = a
        BY PositionType
      <3> QED
        BY <2>2, <3>1
    <2>4. m - 1 \in Nat /\ a + (m - 1) <= Len(Walk) /\ ~(m <= m - 1)
      BY <2>2, <2>3, WalkLength
    <2>5. Walk[a].done <= Walk[a + (m - 1)].done
      <3>1. m - 1 \notin Bad
        <4> HIDE DEF Bad
        <4> QED  BY <2>1, <2>4
      <3> QED
        BY <2>4, <3>1
    <2> DEFINE p == a + (m - 1)
    <2>6. p \in 1..(Len(Walk) - 1) /\ p \in 1..Len(Walk) /\ p + 1 = a + m /\ a + m \in 1..Len(Walk)
      BY <2>2, <2>3, <2>4, WalkLength
    <2>a. Walk[a].done <= Walk[p].done
      BY <2>5
    <2> HIDE DEF p, Bad
    <2>7. Walk[p].done \in Nat /\ Walk[a + m].done \in Nat /\ Walk[a].done \in Nat
      BY <2>6, PositionType
    <2>8. Walk[p].done <= Walk[a + m].done
      <3>1. CASE Walk[p].count = 0
        <4>1. ReadsCommand(Walk[p], Program[Walk[p].get], Walk[p + 1])
          BY <2>6, <3>1, WalkAssumption, ZenonT(30) DEF Reads
        <4> QED
          BY <2>6, <2>7, <4>1, SMTT(30) DEF ReadsCommand
      <3>2. CASE Walk[p].count # 0
        <4>1. Walk[p + 1].done = Walk[p].done + 1
          BY <2>6, <3>2, OneWord DEF Along
        <4> QED
          BY <2>6, <2>7, <4>1
      <3> QED
        BY <3>1, <3>2
    <2> QED
      BY <2>2, <2>7, <2>8, <2>a
  <1>2. b - a \in Nat /\ a + (b - a) = b
    OBVIOUS
  <1>3. b - a \notin Bad
    BY <1>1, ZenonT(30)
  <1> QED
    BY <1>2, <1>3

-----------------------------------------------------------------------------
(* The pusher follows the reader                                           *)

(* DMA_PUT is at one of the reader's positions.                            *)
LEMMA StopType ==
    ASSUME NEW n \in 0..Len(Puts)
    PROVE  Stop(n) \in 1..Len(Walk)
  BY WalkLength, PutsAssumption DEF Stop

(* The distance from DMA_GET to DMA_PUT on registers that wrap around.     *)
LEMMA Distance ==
    ASSUME NEW W \in Nat, W > 0, NEW a \in 0..(W - 1), NEW b \in 0..(W - 1), a # b
    PROVE  /\ (b - a) % W \in 1..(W - 1)
           /\ a <= b => (b - a) % W = b - a
  <1>1. (b - a) % W \in 0..(W - 1)
    OBVIOUS
  <1>2. (b - a) % W # 0
    OBVIOUS
  <1>3. ASSUME a <= b PROVE (b - a) % W = b - a
    <2>1. b - a \in 0..(W - 1)
      BY <1>3
    <2>2. \A x \in 0..(W - 1) : x % W = x
      OBVIOUS
    <2> QED
      BY <2>1, <2>2
  <1> QED
    BY <1>1, <1>2, <1>3

(* The modulus of the DMA registers is positive.                           *)
LEMMA WordsType == Words \in Nat /\ Words > 0
  BY SMT DEF Words

(* A position of the walk gives the types of the pusher's registers.       *)
LEMMA WalkTypes ==
    ASSUME WalkInv
    PROVE  /\ get \in Addresses /\ get \in 0..(Words - 1) /\ inc \in BOOLEAN
           /\ method \in Nat /\ count \in Nat /\ subroutine \in Addresses \cup {NoSub}
  <1>1. PICK k \in 1..Len(Walk) : OnWalk(k)
    BY DEF WalkInv
  <1> QED
    BY <1>1, PositionType, ZenonT(30) DEF OnWalk, At

(* What the rest of the step proof relies on.                              *)
FollowInv == PutInv /\ PullInv /\ WalkInv /\ num_proc \in Nat /\ avail \in 0..(Words - 1)

(* A step that leaves the pusher and what is executed alone, and starts no *)
(* method, keeps the place.                                                *)
LEMMA WalkFrame ==
    ASSUME FollowInv, UNCHANGED <<pusher, executed, put, puts, avail>>, num_proc' \in Nat,
           Ahead' = Ahead,
           pfPc' \in Pulling => pfPc \in Pulling,
           pfPc' \in {"trap", "relock"} => pfPc \in Pulling \cup {"trap", "relock"}
    PROVE  FollowInv'
  <1>1. /\ UNCHANGED <<get, inc, method, count, subroutine>>
        /\ UNCHANGED <<executed, put, puts, avail>>
    BY DEF pusher
  <1>2. PutInv' /\ num_proc' \in Nat /\ avail' \in 0..(Words - 1)
    BY <1>1 DEF FollowInv, PutInv
  <1>3. PullInv'
    <2>1. PullInv
      BY DEF FollowInv
    <2> QED
      BY <1>1, <2>1, ZenonT(30) DEF PullInv
  <1>4. WalkInv'
    <2>1. PICK k \in 1..Len(Walk) : OnWalk(k)
      BY DEF FollowInv, WalkInv
    <2>2. At(k)'
      BY <1>1, <2>1 DEF OnWalk, At
    <2>3. /\ (Ahead <= count /\ k + Ahead <= Stop(puts))'
          /\ (executed = SubSeq(Stream, 1, Walk[k + Ahead].done))'
      BY <1>1, <2>1, ZenonT(30) DEF OnWalk
    <2>4. (pfPc \in Pulling => k + Least(count, avail) <= Stop(puts))'
      <3>1. pfPc \in Pulling => k + Least(count, avail) <= Stop(puts)
        BY <2>1 DEF OnWalk
      <3> QED
        BY <1>1, <3>1, ZenonT(30)
    <2>5. OnWalk(k)'
      BY <2>2, <2>3, <2>4 DEF OnWalk
    <2> QED
      BY <2>5 DEF WalkInv
  <1> QED
    BY <1>2, <1>3, <1>4 DEF FollowInv

(* The engine runs the next n methods of the stream.                       *)
LEMMA WalkExecutes ==
    ASSUME FollowInv, pfPc \in Pulling, NEW n \in Nat, 0 < n, n <= count, n <= avail,
           Executes(n), pfPc' \in {"trap", "relock"}, UNCHANGED <<pusher, put, puts, avail>>
    PROVE  FollowInv'
  <1>1. UNCHANGED <<get, inc, method, count, subroutine>> /\ UNCHANGED <<put, puts, avail>>
    BY DEF pusher
  <1>2. num_proc' = n /\ avail' \in 0..(Words - 1) /\ Ahead' = n /\ Ahead = 0
    BY <1>1 DEF FollowInv, Executes, Ahead, Pulling
  <1>3. PutInv'
    BY <1>1 DEF FollowInv, PutInv
  <1>4. PullInv'
    <2>1. count > 0
      BY DEF FollowInv, PullInv
    <2> QED
      BY <1>1, <2>1 DEF PullInv, Pulling
  <1>5. PICK k \in 1..Len(Walk) : OnWalk(k)
    BY DEF FollowInv, WalkInv
  <1>6. /\ Walk[k].get \in Nat /\ Walk[k].inc \in BOOLEAN /\ Walk[k].method \in Nat
        /\ Walk[k].count \in Nat /\ Walk[k].done \in Nat
    BY PositionType
  <1>7. /\ get = Walk[k].get /\ inc = Walk[k].inc /\ method = Walk[k].method
        /\ count = Walk[k].count /\ subroutine = Walk[k].subroutine
    BY <1>5 DEF OnWalk, At
  <1>8. k + n <= Stop(puts) /\ Stop(puts) \in 1..Len(Walk)
    <2>1. k + Least(count, avail) <= Stop(puts)
      BY <1>5 DEF OnWalk
    <2>2. Stop(puts) \in 1..Len(Walk)
      BY StopType DEF FollowInv, PutInv
    <2>3. n <= Least(count, avail) /\ Least(count, avail) \in Nat
      BY <1>6, <1>7 DEF Least, FollowInv
    <2> QED
      BY <2>1, <2>2, <2>3, WalkLength
  <1>9. n <= Walk[k].count /\ k + n <= Len(Walk) /\ k + n \in 1..Len(Walk)
    BY <1>6, <1>7, <1>8, WalkLength
  <1>10. Walk[k + n].done = Walk[k].done + n
    BY <1>9, Linear DEF Along
  <1>11. Walk[k].done + n <= Len(Stream)
    <2>1. Walk[k + n].done \in 0..Len(Stream)
      BY <1>9, PositionType
    <2> QED
      BY <1>10, <2>1, WalkLength
  <1> DEFINE f == [i \in 1..n |-> Stream[Walk[k].done + i]]
             g == [i \in 1..n |-> <<IF inc THEN method + i - 1 ELSE method, Parameter(i)>>]
  <1>12. ASSUME NEW i \in 1..n
         PROVE  Stream[Walk[k].done + i] = <<IF inc THEN method + i - 1 ELSE method, Parameter(i)>>
    <2>1. Stream[Walk[k].done + i] =
              <<IF Walk[k].inc THEN Walk[k].method + i - 1 ELSE Walk[k].method,
                Program[Walk[k].get + i - 1].value>>
      BY <1>9, LinearMethods, ZenonT(30)
    <2> QED
      BY <1>7, <2>1, ZenonT(30) DEF Parameter
  <1>13. f = g
    BY <1>12, ZenonT(30)
  <1>14. SubSeq(Stream, 1, Walk[k].done) \o f = SubSeq(Stream, 1, Walk[k].done + n)
    <2> HIDE DEF f
    <2>1. f = [i \in 1..n |-> Stream[Walk[k].done + i]]
      BY DEF f
    <2> QED
      BY <1>6, <1>11, <2>1, PrefixGrows, ZenonT(30)
  <1>15. executed = SubSeq(Stream, 1, Walk[k].done)
    <2>1. k + Ahead = k
      BY <1>2
    <2> QED
      BY <1>5, <2>1, ZenonT(30) DEF OnWalk
  <1>16. executed' = SubSeq(Stream, 1, Walk[k + n].done)
    <2>1. executed' = executed \o g
      BY DEF Executes
    <2> HIDE DEF f, g
    <2> QED
      BY <1>10, <1>13, <1>14, <1>15, <2>1, ZenonT(30)
  <1>17. OnWalk(k)'
    <2>1. At(k)'
      BY <1>1, <1>7 DEF At
    <2>2. (Ahead <= count /\ k + Ahead <= Stop(puts))'
      BY <1>1, <1>2, <1>8
    <2>3. (executed = SubSeq(Stream, 1, Walk[k + Ahead].done))'
      BY <1>2, <1>16, ZenonT(30)
    <2>4. pfPc' \notin Pulling
      BY DEF Pulling
    <2> QED
      BY <2>1, <2>2, <2>3, <2>4, ZenonT(30) DEF OnWalk
  <1> QED
    BY <1>2, <1>3, <1>4, <1>17 DEF FollowInv, WalkInv

(* A command word: DMA_GET is not yet at DMA_PUT, so the reader has a next *)
(* position, and the pusher decodes the word as the reader does.           *)
LEMMA WalkCommand ==
    ASSUME FollowInv, PushCommand
    PROVE  FollowInv'
  <1>1. /\ pfPc = "push" /\ get # put /\ count = 0 /\ Decode(Program[get])
        /\ UNCHANGED <<executed, put, puts, pfPc, avail, num_proc>>
    BY DEF PushCommand, CanFetch, engine, guest
  <1>2. Ahead = 0 /\ Ahead' = 0 /\ pfPc \notin Pulling /\ pfPc \notin {"trap", "relock"}
    BY <1>1 DEF Ahead, Pulling
  <1>3. PutInv' /\ PullInv' /\ num_proc' \in Nat /\ avail' \in 0..(Words - 1)
    BY <1>1, <1>2 DEF FollowInv, PutInv, PullInv
  <1>4. PICK k \in 1..Len(Walk) : OnWalk(k)
    BY DEF FollowInv, WalkInv
  <1>5. /\ get = Walk[k].get /\ inc = Walk[k].inc /\ method = Walk[k].method
        /\ count = Walk[k].count /\ subroutine = Walk[k].subroutine
    BY <1>4 DEF OnWalk, At
  <1>6. k + Ahead = k /\ k + 1 + Ahead' = k + 1
    BY <1>2
  <1>7. k <= Stop(puts) /\ executed = SubSeq(Stream, 1, Walk[k].done)
    BY <1>4, <1>6, ZenonT(30) DEF OnWalk
  <1>8. Stop(puts) \in 1..Len(Walk) /\ put = Walk[Stop(puts)].get
    BY StopType DEF FollowInv, PutInv
  <1>9. k \in 1..(Len(Walk) - 1) /\ k + 1 <= Stop(puts) /\ k + 1 \in 1..Len(Walk)
    <2>1. k # Stop(puts)
      BY <1>1, <1>5, <1>8
    <2> QED
      BY <1>7, <1>8, <2>1, WalkLength
  <1>10. ReadsCommand(Walk[k], Program[get], Walk[k + 1])
    BY <1>1, <1>5, <1>9, WalkAssumption DEF Reads
  <1>11. Walk[k + 1].done = Walk[k].done
    BY <1>10, SMTT(30) DEF ReadsCommand
  <1>12. At(k + 1)'
    <2>1. CASE Program[get].op = "jump"
      BY <1>1, <1>5, <1>10, <2>1, SMTT(30) DEF Decode, ReadsCommand, At
    <2>2. CASE Program[get].op = "call"
      BY <1>1, <1>5, <1>10, <2>2, SMTT(30) DEF Decode, ReadsCommand, At
    <2>3. CASE Program[get].op = "return"
      BY <1>1, <1>5, <1>10, <2>3, SMTT(30) DEF Decode, ReadsCommand, At
    <2>4. CASE Program[get].op \in {"inc", "nonInc"}
      BY <1>1, <1>5, <1>10, <2>4, SMTT(30) DEF Decode, ReadsCommand, At
    <2> QED
      BY <1>10, <2>1, <2>2, <2>3, <2>4, SMTT(30) DEF ReadsCommand
  <1>13. Walk[k + 1].count \in Nat
    BY <1>9, PositionType
  <1>14. OnWalk(k + 1)'
    <2>1. count' = Walk[k + 1].count
      BY <1>12 DEF At
    <2>2. (Ahead <= count /\ k + 1 + Ahead <= Stop(puts))'
      BY <1>1, <1>2, <1>9, <1>13, <2>1
    <2>3. (executed = SubSeq(Stream, 1, Walk[k + 1 + Ahead].done))'
      BY <1>1, <1>6, <1>7, <1>11, ZenonT(30)
    <2>4. pfPc' \notin Pulling
      BY <1>1, <1>2
    <2> QED
      BY <1>12, <2>2, <2>3, <2>4, ZenonT(30) DEF OnWalk
  <1> QED
    BY <1>3, <1>9, <1>14 DEF FollowInv, WalkInv

(* A data word: the word count handed to the puller never reaches past the *)
(* position of DMA_PUT, for there the distance would be smaller.           *)
LEMMA WalkData ==
    ASSUME FollowInv, PushData
    PROVE  FollowInv'
  <1>1. /\ pfPc = "push" /\ get # put /\ count > 0 /\ avail' = (put - get) % Words
        /\ UNCHANGED <<get, inc, method, count, subroutine>> /\ UNCHANGED <<executed, put, puts, num_proc>>
        /\ pfPc' \in {"end", "method"}
    BY DEF PushData, CanFetch, pusher, guest
  <1>2. Ahead = 0 /\ Ahead' = 0
    BY <1>1 DEF Ahead
  <1>3. PICK k \in 1..Len(Walk) : OnWalk(k)
    BY DEF FollowInv, WalkInv
  <1>4. At(k) /\ get = Walk[k].get /\ count = Walk[k].count
    BY <1>3 DEF OnWalk, At
  <1>5. k + Ahead = k /\ k + Ahead' = k
    BY <1>2
  <1>6. k <= Stop(puts) /\ executed = SubSeq(Stream, 1, Walk[k].done)
    BY <1>3, <1>5, ZenonT(30) DEF OnWalk
  <1>7. Stop(puts) \in 1..Len(Walk) /\ put = Walk[Stop(puts)].get
    BY StopType DEF FollowInv, PutInv
  <1>8. count \in Nat /\ get \in 0..(Words - 1) /\ put \in 0..(Words - 1)
    BY <1>4, <1>7, PositionType
  <1>9. avail' \in 1..(Words - 1) /\ (get <= put => avail' = put - get)
    BY <1>1, <1>8, WordsType, Distance
  <1>10. avail' \in 0..(Words - 1) /\ avail' > 0 /\ avail' \in Nat
    BY <1>9, WordsType
  <1>11. k + Least(count, avail') <= Stop(puts)
    <2>1. SUFFICES ASSUME Stop(puts) < k + Least(count, avail') PROVE FALSE
      BY <1>7, <1>8, <1>10 DEF Least
    <2> DEFINE i == Stop(puts) - k
    <2>2. i \in Nat /\ i < count /\ i < avail' /\ k + i = Stop(puts)
      <3>1. Stop(puts) \in Int /\ k \in Int
        BY <1>7, WalkLength
      <3>2. Least(count, avail') <= count /\ Least(count, avail') <= avail' /\ Least(count, avail') \in Nat
        BY <1>8, <1>10 DEF Least
      <3>3. i \in Nat /\ k + i = Stop(puts)
        BY <1>6, <3>1
      <3>4. i < Least(count, avail')
        BY <2>1, <3>1, <3>2
      <3> HIDE DEF i
      <3> QED
        BY <1>8, <1>10, <3>2, <3>3, <3>4
    <2>3. Walk[k + i].get = Walk[k].get + i
      <3> HIDE DEF i
      <3>1. i <= Walk[k].count /\ k + i <= Len(Walk)
        BY <1>4, <1>7, <1>8, <2>2, WalkLength
      <3> QED
        BY <2>2, <3>1, Linear DEF Along
    <2> HIDE DEF i
    <2>4. put = get + i
      BY <1>4, <1>7, <2>2, <2>3
    <2> QED
      BY <1>8, <1>9, <2>2, <2>4, WordsType
  <1>12. OnWalk(k)'
    <2>1. At(k)'
      BY <1>1, <1>4 DEF At
    <2>2. (Ahead <= count /\ k + Ahead <= Stop(puts))'
      BY <1>1, <1>2, <1>6, <1>8
    <2>3. (executed = SubSeq(Stream, 1, Walk[k + Ahead].done))'
      BY <1>1, <1>5, <1>6, ZenonT(30)
    <2>4. (k + Least(count, avail) <= Stop(puts))'
      BY <1>1, <1>11, ZenonT(30)
    <2> QED
      BY <2>1, <2>2, <2>3, <2>4, ZenonT(30) DEF OnWalk
  <1>13. PutInv' /\ PullInv'
    BY <1>1, <1>10 DEF FollowInv, PutInv, PullInv, Pulling
  <1> QED
    BY <1>1, <1>10, <1>12, <1>13 DEF FollowInv, WalkInv

(* The lock is taken again: the pusher passes what was executed.           *)
LEMMA WalkReturns ==
    ASSUME FollowInv, PullerReturns
    PROVE  FollowInv'
  <1>1. /\ pfPc = "relock" /\ UNCHANGED <<inc, subroutine, executed, put, puts, avail, num_proc>>
    BY DEF PullerReturns, engine, guest
  <1>2. CASE num_proc = 0
    <2>1. pfPc' = "end" /\ UNCHANGED pusher
      BY <1>1, <1>2 DEF PullerReturns, pusher
    <2>2. Ahead' = Ahead
      BY <1>1, <1>2, <2>1 DEF Ahead
    <2>3. pfPc' \notin Pulling /\ pfPc' \notin {"trap", "relock"} /\ num_proc' \in Nat
      BY <1>1, <2>1 DEF Pulling, FollowInv
    <2>4. UNCHANGED <<pusher, executed, put, puts, avail>>
      BY <1>1, <2>1
    <2> QED
      BY <2>2, <2>3, <2>4, WalkFrame
  <1>3. CASE num_proc # 0
    <2>1. PICK k \in 1..Len(Walk) : OnWalk(k)
      BY DEF FollowInv, WalkInv
    <2>2. At(k) /\ get = Walk[k].get /\ inc = Walk[k].inc /\ method = Walk[k].method
          /\ count = Walk[k].count /\ subroutine = Walk[k].subroutine
      BY <2>1 DEF OnWalk, At
    <2>3. Ahead = num_proc /\ num_proc \in Nat
      BY <1>1 DEF Ahead, FollowInv
    <2>4. num_proc <= count /\ k + num_proc <= Stop(puts) /\ executed = SubSeq(Stream, 1, Walk[k + num_proc].done)
      BY <2>1, <2>3, ZenonT(30) DEF OnWalk
    <2>5. Stop(puts) \in 1..Len(Walk)
      BY StopType DEF FollowInv, PutInv
    <2>6. /\ Walk[k].get \in Nat /\ Walk[k].inc \in BOOLEAN /\ Walk[k].method \in Nat /\ Walk[k].count \in Nat
      BY PositionType
    <2>7. k + num_proc \in 1..Len(Walk) /\ num_proc <= Walk[k].count /\ k + num_proc <= Len(Walk)
      BY <2>2, <2>3, <2>4, <2>5, WalkLength
    <2>8. Along(k, num_proc)
      BY <2>3, <2>7, Linear
    <2>9. /\ get' = get + num_proc /\ count' = count - Least(count, num_proc) /\ pfPc' = "push"
          /\ method' = IF inc THEN method + num_proc ELSE method
      BY <1>3 DEF PullerReturns
    <2>10. count' = count - num_proc /\ count' \in Nat
      BY <2>2, <2>3, <2>4, <2>6, <2>9 DEF Least
    <2>11. At(k + num_proc)'
      BY <1>1, <2>2, <2>8, <2>9, <2>10, ZenonT(30) DEF At, Along
    <2>12. Ahead' = 0 /\ k + num_proc + Ahead' = k + num_proc
      BY <2>3, <2>9 DEF Ahead
    <2>13. OnWalk(k + num_proc)'
      <3>1. (Ahead <= count)'
        BY <2>10, <2>12
      <3>2. k + num_proc + Ahead' <= Stop(puts)'
        BY <1>1, <2>4, <2>12
      <3>3. executed' = SubSeq(Stream, 1, Walk[k + num_proc + Ahead'].done)
        BY <1>1, <2>4, <2>12, ZenonT(30)
      <3>4. pfPc' \notin Pulling
        BY <2>9 DEF Pulling
      <3>5. num_proc' = num_proc
        BY <1>1
      <3> QED
        BY <2>11, <3>1, <3>2, <3>3, <3>4, <3>5, ZenonT(30) DEF OnWalk
    <2>14. PutInv' /\ PullInv' /\ num_proc' \in Nat /\ avail' \in 0..(Words - 1)
      BY <1>1, <2>9 DEF FollowInv, PutInv, PullInv, Pulling
    <2>15. WalkInv'
      <3>1. num_proc' = num_proc
        BY <1>1
      <3> QED
        BY <2>7, <2>13, <3>1 DEF WalkInv
    <2> QED
      BY <2>14, <2>15 DEF FollowInv
  <1> QED
    BY <1>2, <1>3

(* The guest moves DMA_PUT to a later position.                            *)
LEMMA WalkPut ==
    ASSUME FollowInv, UserPut
    PROVE  FollowInv'
  <1>1. /\ UNCHANGED <<get, inc, method, count, subroutine>> /\ UNCHANGED <<executed, avail, num_proc>>
        /\ puts < Len(Puts) /\ puts' = puts + 1 /\ put' = Puts[puts + 1]
    BY DEF UserPut, pusher, engine
  <1>2. pfPc' = pfPc \/ (pfPc = "asleep" /\ pfPc' = "woken")
    BY DEF UserPut, Kick
  <1>3. puts \in 0..Len(Puts) /\ puts' \in 1..Len(Puts) /\ puts' \in 0..Len(Puts)
    BY <1>1, WalkLength DEF FollowInv, PutInv
  <1>4. put' = Walk[Stop(puts')].get
    BY <1>1, <1>3, PutsAssumption, WalkLength DEF Stop
  <1>5. Stop(puts) <= Stop(puts') /\ Stop(puts) \in Int /\ Stop(puts') \in Int
    <2>1. Stop(puts) \in 1..Len(Walk) /\ Stop(puts') \in 1..Len(Walk)
      BY <1>3, StopType
    <2>2. CASE puts = 0
      BY <2>1, <2>2, WalkLength DEF Stop
    <2>3. CASE puts # 0
      <3>1. puts \in 1..Len(Puts) /\ puts <= puts'
        BY <1>1, <1>3, <2>3, WalkLength
      <3>2. Stops[puts] <= Stops[puts']
        BY <1>3, <3>1, PutsAssumption
      <3> QED
        BY <1>3, <2>1, <2>3, <3>2, WalkLength DEF Stop
    <2> QED
      BY <2>2, <2>3
  <1>6. Ahead' = Ahead /\ (pfPc' \in Pulling => pfPc \in Pulling)
        /\ (pfPc' \in {"trap", "relock"} => pfPc \in {"trap", "relock"})
    BY <1>1, <1>2 DEF Ahead, Pulling
  <1>7. PutInv'
    BY <1>3, <1>4 DEF PutInv
  <1>8. PullInv'
    BY <1>1, <1>6 DEF FollowInv, PullInv
  <1>9. PICK k \in 1..Len(Walk) : OnWalk(k)
    BY DEF FollowInv, WalkInv
  <1>10. Ahead \in Nat /\ count \in Nat
    BY WalkTypes DEF FollowInv, Ahead
  <1>11. OnWalk(k)'
    <2>1. At(k)'
      BY <1>1, <1>9 DEF OnWalk, At
    <2>2. Ahead' <= count'
      BY <1>1, <1>6, <1>9 DEF OnWalk
    <2>3. k + Ahead' <= Stop(puts')
      <3>1. k + Ahead <= Stop(puts)
        BY <1>9 DEF OnWalk
      <3> QED
        BY <1>5, <1>6, <1>10, <3>1
    <2>4. executed' = SubSeq(Stream, 1, Walk[k + Ahead'].done)
      BY <1>1, <1>6, <1>9, ZenonT(30) DEF OnWalk
    <2>5. pfPc' \in Pulling => k + Least(count', avail') <= Stop(puts')
      <3>1. pfPc \in Pulling => k + Least(count, avail) <= Stop(puts)
        BY <1>9 DEF OnWalk
      <3>2. Least(count, avail) \in Nat
        BY <1>10 DEF Least, FollowInv
      <3>3. Least(count', avail') = Least(count, avail)
        BY <1>1
      <3> QED
        BY <1>5, <1>6, <3>1, <3>2, <3>3
    <2> QED
      BY <2>1, <2>2, <2>3, <2>4, <2>5, ZenonT(30) DEF OnWalk
  <1> QED
    BY <1>1, <1>7, <1>8, <1>11 DEF FollowInv, WalkInv

(* The guest's other accesses kick or do nothing.                          *)
LEMMA KickFrame ==
    ASSUME FollowInv, UNCHANGED <<pusher, executed, put, puts, avail, num_proc>>, UNCHANGED pfPc \/ Kick
    PROVE  FollowInv'
  <1>1. pfPc' = pfPc \/ (pfPc = "asleep" /\ pfPc' = "woken")
    BY DEF Kick
  <1>2. Ahead' = Ahead /\ (pfPc' \in Pulling => pfPc \in Pulling)
        /\ (pfPc' \in {"trap", "relock"} => pfPc \in Pulling \cup {"trap", "relock"})
    BY <1>1 DEF Ahead, Pulling
  <1>3. num_proc' \in Nat
    BY DEF FollowInv
  <1> QED
    BY <1>2, <1>3, WalkFrame

(* Every step keeps the pusher on the reader's walk.                       *)
LEMMA WalkStep ==
    ASSUME FollowInv, [PfifoNext]_pfifoVars
    PROVE  FollowInv'
  <1>0. num_proc \in Nat
    BY DEF FollowInv
  <1>1. CASE PassBegin \/ ProcessedPending \/ PusherEnter \/ PassEnd \/ PusherDone \/ WokenForNothing
    <2>1. /\ UNCHANGED <<pusher, executed, put, puts, avail>> /\ num_proc' = num_proc
          /\ pfPc \notin {"trap", "relock"} /\ pfPc' \notin Pulling /\ pfPc' \notin {"trap", "relock"}
      BY <1>1 DEF PassBegin, ProcessedPending, PusherEnter, PassEnd, PusherDone, WokenForNothing, engine, guest, Pulling
    <2>2. Ahead' = Ahead
      BY <2>1 DEF Ahead
    <2> QED
      BY <1>0, <2>1, <2>2, WalkFrame
  <1>2. CASE MethodRefused
    <2>1. /\ UNCHANGED <<pusher, executed, put, puts, avail>> /\ num_proc' = 0
          /\ pfPc = "method" /\ pfPc' = "relock"
      BY <1>2 DEF MethodRefused, engine, guest
    <2>2. Ahead' = Ahead /\ pfPc \in Pulling /\ pfPc' \notin Pulling
      BY <2>1 DEF Ahead, Pulling
    <2> QED
      BY <2>1, <2>2, WalkFrame
  <1>3. CASE SwitchBegin \/ SwitchIrq
    <2>1. /\ UNCHANGED <<pusher, executed, put, puts, avail>> /\ num_proc' = num_proc
          /\ pfPc \in Pulling /\ pfPc \notin {"trap", "relock"} /\ pfPc' \notin {"trap", "relock"}
      BY <1>3 DEF SwitchBegin, SwitchIrq, guest, Pulling
    <2>2. Ahead' = Ahead
      BY <2>1 DEF Ahead
    <2> QED
      BY <1>0, <2>1, <2>2, WalkFrame
  <1>4. CASE TrapIrq
    <2>1. /\ UNCHANGED <<pusher, executed, put, puts, avail>> /\ num_proc' = num_proc
          /\ pfPc = "trap" /\ pfPc' = "relock"
      BY <1>4 DEF TrapIrq, guest
    <2>2. Ahead' = Ahead /\ pfPc' \notin Pulling
      BY <2>1 DEF Ahead, Pulling
    <2> QED
      BY <1>0, <2>1, <2>2, WalkFrame
  <1>5. CASE Bind \/ Trap
    <2>1. /\ UNCHANGED <<pusher, put, puts, avail>> /\ Executes(1)
          /\ pfPc \in Pulling /\ pfPc' \in {"trap", "relock"}
      BY <1>5 DEF Bind, Trap, guest, Pulling
    <2>2. 1 <= count /\ 1 <= avail
      BY <2>1, WalkTypes DEF FollowInv, PullInv
    <2> QED
      BY <2>1, <2>2, WalkExecutes
  <1>6. CASE SwitchEnd
    <2>1. /\ UNCHANGED <<pusher, put, puts, avail>> /\ pfPc = "switched" /\ pfPc' = "relock"
          /\ (num_proc' = 0 /\ executed' = executed) \/ Executes(1)
      BY <1>6 DEF SwitchEnd, guest
    <2>2. Ahead = 0 /\ pfPc \in Pulling /\ pfPc' \notin Pulling
      BY <2>1 DEF Ahead, Pulling
    <2>3. CASE num_proc' = 0 /\ executed' = executed
      <3>1. Ahead' = Ahead
        BY <2>2, <2>3 DEF Ahead
      <3> QED
        BY <2>1, <2>2, <2>3, <3>1, WalkFrame
    <2>4. CASE Executes(1)
      <3>1. 1 <= count /\ 1 <= avail
        BY <2>2, WalkTypes DEF FollowInv, PullInv
      <3> QED
        BY <2>1, <2>2, <2>4, <3>1, WalkExecutes
    <2> QED
      BY <2>1, <2>3, <2>4
  <1>7. CASE Run
    <2>1. /\ UNCHANGED <<pusher, put, puts, avail>> /\ pfPc \in Pulling /\ pfPc' = "relock"
      BY <1>7 DEF Run, guest, Pulling
    <2>2. PICK n \in 1..(IF inc THEN 1 ELSE Least(count, avail)) : Executes(n)
      BY <1>7 DEF Run
    <2>3. count \in Nat /\ avail \in Nat /\ count > 0 /\ avail > 0 /\ inc \in BOOLEAN
      BY <2>1, WalkTypes, WordsType DEF FollowInv, PullInv
    <2>4. n \in Nat /\ 0 < n /\ n <= count /\ n <= avail
      BY <2>3 DEF Least
    <2> QED
      BY <2>1, <2>2, <2>4, WalkExecutes
  <1>8. CASE PushCommand
    BY <1>8, WalkCommand
  <1>9. CASE PushData
    BY <1>9, WalkData
  <1>10. CASE PullerReturns
    BY <1>10, WalkReturns
  <1>11. CASE UserPut
    BY <1>11, WalkPut
  <1>12. CASE VBlank \/ Isr
    <2>1. UNCHANGED <<pusher, executed, put, puts, avail, num_proc>> /\ (UNCHANGED pfPc \/ Kick)
      BY <1>12 DEF VBlank, Isr, IsrRead, IsrSwitch, IsrClear, engine, guest
    <2> QED
      BY <2>1, KickFrame
  <1>13. CASE IncrementRead \/ \E on \in BOOLEAN : SetAccess(on) \/ SetPush0(on) \/ SetIntrEn(on)
    <2>1. UNCHANGED <<pusher, executed, put, puts, avail, num_proc>> /\ (UNCHANGED pfPc \/ Kick)
      BY <1>13 DEF IncrementRead, SetAccess, SetPush0, SetIntrEn, engine
    <2> QED
      BY <2>1, KickFrame
  <1>14. CASE UNCHANGED pfifoVars
    <2>1. UNCHANGED <<pusher, executed, put, puts, avail, num_proc>> /\ UNCHANGED pfPc
      BY <1>14 DEF pfifoVars, engine, guest
    <2> QED
      BY <2>1, KickFrame
  <1> QED
    BY <1>1, <1>2, <1>3, <1>4, <1>5, <1>6, <1>7, <1>8, <1>9, <1>10, <1>11, <1>12, <1>13, <1>14,
       ZenonT(30) DEF PfifoNext, Thread

(* What follows from the walk: nothing past DMA_PUT is executed.           *)
LEMMA WalkInOrder ==
    ASSUME FollowInv
    PROVE  InOrder
  <1>1. PICK k \in 1..Len(Walk) : OnWalk(k)
    BY DEF FollowInv, WalkInv
  <1>2. Ahead \in Nat /\ count \in Nat /\ Stop(puts) \in 1..Len(Walk)
    BY WalkTypes, StopType DEF FollowInv, Ahead, PutInv
  <1> DEFINE p == k + Ahead
  <1>3. p \in 1..Len(Walk) /\ p <= Stop(puts) /\ executed = SubSeq(Stream, 1, Walk[p].done)
    <2>1. k + Ahead <= Stop(puts) /\ executed = SubSeq(Stream, 1, Walk[p].done)
      BY <1>1, ZenonT(30) DEF OnWalk
    <2> QED
      BY <1>2, <2>1, WalkLength
  <1> HIDE DEF p
  <1>4. Walk[p].done \in 0..Len(Stream) /\ Walk[Stop(puts)].done \in 0..Len(Stream)
    BY <1>2, <1>3, PositionType
  <1>5. Walk[p].done <= Walk[Stop(puts)].done
    BY <1>2, <1>3, DoneMonotone
  <1>6. Len(executed) = Walk[p].done
    BY <1>3, <1>4, Prefix
  <1> QED
    BY <1>3, <1>5, <1>6, ZenonT(30) DEF InOrder

-----------------------------------------------------------------------------
(* Types                                                                   *)

(* The variables that are not the pusher's.                                *)
RestTypes ==
    /\ push0 \in BOOLEAN /\ access \in BOOLEAN /\ enabled \in BOOLEAN /\ irq \in BOOLEAN
    /\ fifo_kick \in BOOLEAN
    /\ waiting_for_nop \in BOOLEAN /\ waiting_for_context_switch \in BOOLEAN /\ waiting_for_flip \in BOOLEAN
    /\ pending \subseteq {ERROR, CONTEXT_SWITCH} /\ seen \subseteq pending
    /\ read \in 0..(Modulo - 1) /\ write \in 0..(Modulo - 1)
    /\ toggles \in 0..MaxToggles

(* The rest of the types is kept by every step: the flip counters stay     *)
(* below the modulo, and the handler saw only what is pending.             *)
LEMMA RestTypesStep ==
    ASSUME RestTypes, [PfifoNext]_pfifoVars
    PROVE  RestTypes'
  <1>1. CASE PassBegin
    BY <1>1, PfifoAssumption, ZenonT(30) DEF RestTypes, PassBegin, pusher, engine, guest
  <1>2. CASE ProcessedPending
    BY <1>2, PfifoAssumption, SMTT(30) DEF RestTypes, ProcessedPending, pusher, engine, guest
  <1>3. CASE PusherEnter
    BY <1>3, PfifoAssumption, SMTT(30) DEF RestTypes, PusherEnter, pusher, engine, guest
  <1>4. CASE PassEnd
    BY <1>4, PfifoAssumption, SMTT(30) DEF RestTypes, PassEnd, pusher, engine, guest
  <1>5. CASE PusherDone
    BY <1>5, PfifoAssumption, SMTT(30) DEF RestTypes, PusherDone, pusher, engine, guest
  <1>6. CASE WokenForNothing
    BY <1>6, PfifoAssumption, SMTT(30) DEF RestTypes, WokenForNothing, pusher, engine, guest
  <1>7. CASE PushCommand
    BY <1>7, PfifoAssumption, SMTT(30) DEF RestTypes, PushCommand, CanFetch, pusher, engine, guest
  <1>8. CASE PushData
    BY <1>8, PfifoAssumption, SMTT(30) DEF RestTypes, PushData, CanFetch, StallForFlip, FlipStallComplete, pusher, engine, guest
  <1>9. CASE PullerReturns
    BY <1>9, PfifoAssumption, SMTT(30) DEF RestTypes, PullerReturns, pusher, engine, guest
  <1>10. CASE MethodRefused
    BY <1>10, PfifoAssumption, SMTT(30) DEF RestTypes, MethodRefused, pusher, engine, guest
  <1>11. CASE Bind
    BY <1>11, PfifoAssumption, SMTT(30) DEF RestTypes, Bind, Executes, pusher, engine, guest
  <1>12. CASE SwitchBegin
    BY <1>12, PfifoAssumption, SMTT(30) DEF RestTypes, SwitchBegin, pusher, engine, guest
  <1>13. CASE SwitchIrq
    BY <1>13, PfifoAssumption, SMTT(30) DEF RestTypes, SwitchIrq, UpdateIrq, pusher, engine, guest
  <1>14. CASE SwitchEnd
    BY <1>14, PfifoAssumption, SMTT(30) DEF RestTypes, SwitchEnd, Executes, pusher, engine, guest
  <1>15. CASE Run
    BY <1>15, PfifoAssumption, SMTT(30) DEF RestTypes, Run, Executes, pusher, engine, guest
  <1>16. CASE Trap
    BY <1>16, PfifoAssumption, SMTT(30) DEF RestTypes, Trap, Executes, pusher, engine, guest
  <1>17. CASE TrapIrq
    BY <1>17, PfifoAssumption, SMTT(30) DEF RestTypes, TrapIrq, UpdateIrq, pusher, engine, guest
  <1>18. CASE UserPut
    BY <1>18, PfifoAssumption, SMTT(30) DEF RestTypes, UserPut, Kick, pusher, engine, guest
  <1>19. CASE IncrementRead
    BY <1>19, PfifoAssumption, SMTT(30) DEF RestTypes, IncrementRead, Kick, pusher, engine, guest
  <1>20. CASE VBlank
    BY <1>20, PfifoAssumption, SMTT(30) DEF RestTypes, VBlank, UpdateIrq, pusher, engine, guest
  <1>21. CASE IsrRead
    BY <1>21, PfifoAssumption, SMTT(30) DEF RestTypes, IsrRead, pusher, engine, guest
  <1>22. CASE IsrSwitch
    BY <1>22, PfifoAssumption, SMTT(30) DEF RestTypes, IsrSwitch, pusher, engine, guest
  <1>23. CASE IsrClear
    BY <1>23, PfifoAssumption, SMTT(30) DEF RestTypes, IsrClear, Kick, pusher, engine, guest
  <1>24. ASSUME NEW on \in BOOLEAN, SetAccess(on) PROVE RestTypes'
    BY <1>24, PfifoAssumption, SMTT(30) DEF RestTypes, SetAccess, Kick, pusher, engine, guest
  <1>25. ASSUME NEW on \in BOOLEAN, SetPush0(on) PROVE RestTypes'
    BY <1>25, PfifoAssumption, SMTT(30) DEF RestTypes, SetPush0, Kick, pusher, engine, guest
  <1>26. ASSUME NEW on \in BOOLEAN, SetIntrEn(on) PROVE RestTypes'
    BY <1>26, PfifoAssumption, SMTT(30) DEF RestTypes, SetIntrEn, pusher, engine, guest
  <1>27. CASE UNCHANGED pfifoVars
    BY <1>27, PfifoAssumption, SMTT(30) DEF RestTypes, pfifoVars, pusher, engine, guest
  <1> QED
    BY <1>1, <1>2, <1>3, <1>4, <1>5, <1>6, <1>7, <1>8, <1>9, <1>10, <1>11, <1>12, <1>13, <1>14,
       <1>15, <1>16, <1>17, <1>18, <1>19, <1>20, <1>21, <1>22, <1>23, <1>24, <1>25, <1>26, <1>27,
       ZenonT(30) DEF PfifoNext, Thread, Isr

-----------------------------------------------------------------------------
(* The engine's waits                                                      *)

(* A switch under way was requested for the parameter, with nothing        *)
(* pending when it began; once the wait is over the guest has switched.    *)
SwitchInv ==
    /\ pfPc \in {"switch", "switched"} => method = SET_OBJECT /\ trapped = Parameter(1)
    /\ pfPc = "switch" => pending = {}
    /\ pfPc = "switched" /\ ~waiting_for_context_switch => channel = trapped

WaitInv == RestTypes /\ InterruptsMatch /\ SwitchInv

(* A wait and its interrupt begin and end together (pgraph_write,          *)
(* pgraph_context_switch, NV097_NO_OPERATION).                             *)
LEMMA WaitStep ==
    ASSUME WaitInv, [PfifoNext]_pfifoVars
    PROVE  (InterruptsMatch /\ SwitchInv)'
  <1>1. CASE PassBegin
    BY <1>1, SMTT(30) DEF WaitInv, InterruptsMatch, SwitchInv, RestTypes, Parameter, ERROR, CONTEXT_SWITCH, PassBegin, pusher, engine, guest
  <1>2. CASE ProcessedPending
    BY <1>2, SMTT(30) DEF WaitInv, InterruptsMatch, SwitchInv, RestTypes, Parameter, ERROR, CONTEXT_SWITCH, ProcessedPending, pusher, engine, guest
  <1>3. CASE PusherEnter
    BY <1>3, SMTT(30) DEF WaitInv, InterruptsMatch, SwitchInv, RestTypes, Parameter, ERROR, CONTEXT_SWITCH, PusherEnter, pusher, engine, guest
  <1>4. CASE PassEnd
    BY <1>4, SMTT(30) DEF WaitInv, InterruptsMatch, SwitchInv, RestTypes, Parameter, ERROR, CONTEXT_SWITCH, PassEnd, pusher, engine, guest
  <1>5. CASE PusherDone
    BY <1>5, SMTT(30) DEF WaitInv, InterruptsMatch, SwitchInv, RestTypes, Parameter, ERROR, CONTEXT_SWITCH, PusherDone, pusher, engine, guest
  <1>6. CASE WokenForNothing
    BY <1>6, SMTT(30) DEF WaitInv, InterruptsMatch, SwitchInv, RestTypes, Parameter, ERROR, CONTEXT_SWITCH, WokenForNothing, pusher, engine, guest
  <1>7. CASE PushCommand
    BY <1>7, SMTT(30) DEF WaitInv, InterruptsMatch, SwitchInv, RestTypes, Parameter, ERROR, CONTEXT_SWITCH, PushCommand, CanFetch, pusher, engine, guest
  <1>8. CASE PushData
    BY <1>8, SMTT(30) DEF WaitInv, InterruptsMatch, SwitchInv, RestTypes, Parameter, ERROR, CONTEXT_SWITCH, PushData, CanFetch, PullerShouldStall, pusher, engine, guest
  <1>9. CASE PullerReturns
    BY <1>9, SMTT(30) DEF WaitInv, InterruptsMatch, SwitchInv, RestTypes, Parameter, ERROR, CONTEXT_SWITCH, PullerReturns, pusher, engine, guest
  <1>10. CASE MethodRefused
    BY <1>10, SMTT(30) DEF WaitInv, InterruptsMatch, SwitchInv, RestTypes, Parameter, ERROR, CONTEXT_SWITCH, MethodRefused, pusher, engine, guest
  <1>11. CASE Bind
    BY <1>11, SMTT(30) DEF WaitInv, InterruptsMatch, SwitchInv, RestTypes, Parameter, ERROR, CONTEXT_SWITCH, Bind, Executes, pusher, engine, guest
  <1>12. CASE SwitchBegin
    BY <1>12, SMTT(30) DEF WaitInv, InterruptsMatch, SwitchInv, RestTypes, Parameter, ERROR, CONTEXT_SWITCH, SwitchBegin, pusher, engine, guest
  <1>13. CASE SwitchIrq
    BY <1>13, SMTT(30) DEF WaitInv, InterruptsMatch, SwitchInv, RestTypes, Parameter, ERROR, CONTEXT_SWITCH, SwitchIrq, UpdateIrq, pusher, engine, guest
  <1>14. CASE SwitchEnd
    BY <1>14, SMTT(30) DEF WaitInv, InterruptsMatch, SwitchInv, RestTypes, Parameter, ERROR, CONTEXT_SWITCH, SwitchEnd, Executes, pusher, engine, guest
  <1>15. CASE Run
    BY <1>15, SMTT(30) DEF WaitInv, InterruptsMatch, SwitchInv, RestTypes, Parameter, ERROR, CONTEXT_SWITCH, Run, Executes, pusher, engine, guest
  <1>16. CASE Trap
    BY <1>16, SMTT(30) DEF WaitInv, InterruptsMatch, SwitchInv, RestTypes, Parameter, ERROR, CONTEXT_SWITCH, Trap, Executes, pusher, engine, guest
  <1>17. CASE TrapIrq
    BY <1>17, SMTT(30) DEF WaitInv, InterruptsMatch, SwitchInv, RestTypes, Parameter, ERROR, CONTEXT_SWITCH, TrapIrq, UpdateIrq, pusher, engine, guest
  <1>18. CASE UserPut
    BY <1>18, SMTT(30) DEF WaitInv, InterruptsMatch, SwitchInv, RestTypes, Parameter, ERROR, CONTEXT_SWITCH, UserPut, Kick, pusher, engine, guest
  <1>19. CASE IncrementRead
    BY <1>19, SMTT(30) DEF WaitInv, InterruptsMatch, SwitchInv, RestTypes, Parameter, ERROR, CONTEXT_SWITCH, IncrementRead, Kick, pusher, engine, guest
  <1>20. CASE VBlank
    BY <1>20, SMTT(30) DEF WaitInv, InterruptsMatch, SwitchInv, RestTypes, Parameter, ERROR, CONTEXT_SWITCH, VBlank, UpdateIrq, pusher, engine, guest
  <1>21. CASE IsrRead
    BY <1>21, SMTT(30) DEF WaitInv, InterruptsMatch, SwitchInv, RestTypes, Parameter, ERROR, CONTEXT_SWITCH, IsrRead, pusher, engine, guest
  <1>22. CASE IsrSwitch
    BY <1>22, SMTT(30) DEF WaitInv, InterruptsMatch, SwitchInv, RestTypes, Parameter, ERROR, CONTEXT_SWITCH, IsrSwitch, pusher, engine, guest
  <1>23. CASE IsrClear
    BY <1>23, ZenonT(30) DEF WaitInv, InterruptsMatch, SwitchInv, RestTypes, Parameter, ERROR, CONTEXT_SWITCH, IsrClear, Kick, pusher, engine, guest
  <1>24. ASSUME NEW on \in BOOLEAN, SetAccess(on) PROVE (InterruptsMatch /\ SwitchInv)'
    BY <1>24, SMTT(30) DEF WaitInv, InterruptsMatch, SwitchInv, RestTypes, Parameter, ERROR, CONTEXT_SWITCH, SetAccess, Kick, pusher, engine, guest
  <1>25. ASSUME NEW on \in BOOLEAN, SetPush0(on) PROVE (InterruptsMatch /\ SwitchInv)'
    BY <1>25, SMTT(30) DEF WaitInv, InterruptsMatch, SwitchInv, RestTypes, Parameter, ERROR, CONTEXT_SWITCH, SetPush0, Kick, pusher, engine, guest
  <1>26. ASSUME NEW on \in BOOLEAN, SetIntrEn(on) PROVE (InterruptsMatch /\ SwitchInv)'
    BY <1>26, SMTT(30) DEF WaitInv, InterruptsMatch, SwitchInv, RestTypes, Parameter, ERROR, CONTEXT_SWITCH, SetIntrEn, pusher, engine, guest
  <1>27. CASE UNCHANGED pfifoVars
    BY <1>27, SMTT(30) DEF WaitInv, InterruptsMatch, SwitchInv, RestTypes, Parameter, ERROR, CONTEXT_SWITCH, pfifoVars, pusher, engine, guest
  <1> QED
    BY <1>1, <1>2, <1>3, <1>4, <1>5, <1>6, <1>7, <1>8, <1>9, <1>10, <1>11, <1>12, <1>13, <1>14,
       <1>15, <1>16, <1>17, <1>18, <1>19, <1>20, <1>21, <1>22, <1>23, <1>24, <1>25, <1>26, <1>27,
       ZenonT(30) DEF PfifoNext, Thread, Isr

-----------------------------------------------------------------------------
(* The thread's sleep                                                      *)

(* The thread is on its way to sleep only while it is blocked or kicked.   *)
SleepInv ==
    /\ pfPc = "end" /\ ~fifo_kick => Blocked
    /\ pfPc = "relock" /\ num_proc = 0 /\ ~fifo_kick => Blocked
    /\ pfPc = "trap" => num_proc # 0

(* The thread goes to sleep only with a reason, and whatever ends the      *)
(* reason kicks it (pfifo_thread, pfifo_kick).                             *)
LEMMA SleepStep ==
    ASSUME SleepInv, NoLostKick, PullInv, [PfifoNext]_pfifoVars
    PROVE  (SleepInv /\ NoLostKick)'
  <1>1. CASE PassBegin
    BY <1>1, SMTT(30) DEF SleepInv, NoLostKick, PullInv, Pulling, Blocked, PusherShouldStall, StallForFlip, FlipStallComplete, PfifoLockFree, PassBegin, pusher, engine, guest
  <1>2. CASE ProcessedPending
    BY <1>2, SMTT(30) DEF SleepInv, NoLostKick, PullInv, Pulling, Blocked, PusherShouldStall, StallForFlip, FlipStallComplete, PfifoLockFree, ProcessedPending, pusher, engine, guest
  <1>3. CASE PusherEnter
    BY <1>3, SMTT(30) DEF SleepInv, NoLostKick, PullInv, Pulling, Blocked, PusherShouldStall, StallForFlip, FlipStallComplete, PfifoLockFree, PusherEnter, pusher, engine, guest
  <1>4. CASE PassEnd
    BY <1>4, SMTT(30) DEF SleepInv, NoLostKick, PullInv, Pulling, Blocked, PusherShouldStall, StallForFlip, FlipStallComplete, PfifoLockFree, PassEnd, pusher, engine, guest
  <1>5. CASE PusherDone
    BY <1>5, SMTT(30) DEF SleepInv, NoLostKick, PullInv, Pulling, Blocked, PusherShouldStall, StallForFlip, FlipStallComplete, PfifoLockFree, PusherDone, pusher, engine, guest
  <1>6. CASE WokenForNothing
    BY <1>6, SMTT(30) DEF SleepInv, NoLostKick, PullInv, Pulling, Blocked, PusherShouldStall, StallForFlip, FlipStallComplete, PfifoLockFree, WokenForNothing, pusher, engine, guest
  <1>7. CASE PushCommand
    BY <1>7, SMTT(30) DEF SleepInv, NoLostKick, PullInv, Pulling, Blocked, PusherShouldStall, StallForFlip, FlipStallComplete, PfifoLockFree, PushCommand, CanFetch, pusher, engine, guest
  <1>8. CASE PushData
    BY <1>8, ZenonT(30) DEF SleepInv, NoLostKick, PullInv, Pulling, Blocked, PusherShouldStall, StallForFlip, FlipStallComplete, PfifoLockFree, PushData, CanFetch, PullerShouldStall, pusher, engine, guest
  <1>9. CASE PullerReturns
    BY <1>9, SMTT(30) DEF SleepInv, NoLostKick, PullInv, Pulling, Blocked, PusherShouldStall, StallForFlip, FlipStallComplete, PfifoLockFree, PullerReturns, pusher, engine, guest
  <1>10. CASE MethodRefused
    BY <1>10, SMTT(30) DEF SleepInv, NoLostKick, PullInv, Pulling, Blocked, PusherShouldStall, StallForFlip, FlipStallComplete, PfifoLockFree, MethodRefused, pusher, engine, guest
  <1>11. CASE Bind
    BY <1>11, SMTT(30) DEF SleepInv, NoLostKick, PullInv, Pulling, Blocked, PusherShouldStall, StallForFlip, FlipStallComplete, PfifoLockFree, Bind, Executes, pusher, engine, guest
  <1>12. CASE SwitchBegin
    BY <1>12, SMTT(30) DEF SleepInv, NoLostKick, PullInv, Pulling, Blocked, PusherShouldStall, StallForFlip, FlipStallComplete, PfifoLockFree, SwitchBegin, pusher, engine, guest
  <1>13. CASE SwitchIrq
    BY <1>13, SMTT(30) DEF SleepInv, NoLostKick, PullInv, Pulling, Blocked, PusherShouldStall, StallForFlip, FlipStallComplete, PfifoLockFree, SwitchIrq, UpdateIrq, pusher, engine, guest
  <1>14. CASE SwitchEnd
    BY <1>14, SMTT(30) DEF SleepInv, NoLostKick, PullInv, Pulling, Blocked, PusherShouldStall, StallForFlip, FlipStallComplete, PfifoLockFree, SwitchEnd, Executes, pusher, engine, guest
  <1>15. CASE Run
    BY <1>15, SMTT(30) DEF SleepInv, NoLostKick, PullInv, Pulling, Blocked, PusherShouldStall, StallForFlip, FlipStallComplete, PfifoLockFree, Run, Executes, pusher, engine, guest
  <1>16. CASE Trap
    BY <1>16, SMTT(30) DEF SleepInv, NoLostKick, PullInv, Pulling, Blocked, PusherShouldStall, StallForFlip, FlipStallComplete, PfifoLockFree, Trap, Executes, pusher, engine, guest
  <1>17. CASE TrapIrq
    BY <1>17, SMTT(30) DEF SleepInv, NoLostKick, PullInv, Pulling, Blocked, PusherShouldStall, StallForFlip, FlipStallComplete, PfifoLockFree, TrapIrq, UpdateIrq, pusher, engine, guest
  <1>18. CASE UserPut
    BY <1>18, SMTT(30) DEF SleepInv, NoLostKick, PullInv, Pulling, Blocked, PusherShouldStall, StallForFlip, FlipStallComplete, PfifoLockFree, UserPut, Kick, pusher, engine, guest
  <1>19. CASE IncrementRead
    BY <1>19, SMTT(30) DEF SleepInv, NoLostKick, PullInv, Pulling, Blocked, PusherShouldStall, StallForFlip, FlipStallComplete, PfifoLockFree, IncrementRead, Kick, pusher, engine, guest
  <1>20. CASE VBlank
    BY <1>20, SMTT(30) DEF SleepInv, NoLostKick, PullInv, Pulling, Blocked, PusherShouldStall, StallForFlip, FlipStallComplete, PfifoLockFree, VBlank, UpdateIrq, pusher, engine, guest
  <1>21. CASE IsrRead
    BY <1>21, SMTT(30) DEF SleepInv, NoLostKick, PullInv, Pulling, Blocked, PusherShouldStall, StallForFlip, FlipStallComplete, PfifoLockFree, IsrRead, pusher, engine, guest
  <1>22. CASE IsrSwitch
    BY <1>22, SMTT(30) DEF SleepInv, NoLostKick, PullInv, Pulling, Blocked, PusherShouldStall, StallForFlip, FlipStallComplete, PfifoLockFree, IsrSwitch, pusher, engine, guest
  <1>23. CASE IsrClear
    BY <1>23, SMTT(30) DEF SleepInv, NoLostKick, PullInv, Pulling, Blocked, PusherShouldStall, StallForFlip, FlipStallComplete, PfifoLockFree, IsrClear, Kick, pusher, engine, guest
  <1>24. ASSUME NEW on \in BOOLEAN, SetAccess(on) PROVE (SleepInv /\ NoLostKick)'
    BY <1>24, SMTT(30) DEF SleepInv, NoLostKick, PullInv, Pulling, Blocked, PusherShouldStall, StallForFlip, FlipStallComplete, PfifoLockFree, SetAccess, Kick, pusher, engine, guest
  <1>25. ASSUME NEW on \in BOOLEAN, SetPush0(on) PROVE (SleepInv /\ NoLostKick)'
    BY <1>25, SMTT(30) DEF SleepInv, NoLostKick, PullInv, Pulling, Blocked, PusherShouldStall, StallForFlip, FlipStallComplete, PfifoLockFree, SetPush0, Kick, pusher, engine, guest
  <1>26. ASSUME NEW on \in BOOLEAN, SetIntrEn(on) PROVE (SleepInv /\ NoLostKick)'
    BY <1>26, SMTT(30) DEF SleepInv, NoLostKick, PullInv, Pulling, Blocked, PusherShouldStall, StallForFlip, FlipStallComplete, PfifoLockFree, SetIntrEn, pusher, engine, guest
  <1>27. CASE UNCHANGED pfifoVars
    BY <1>27, SMTT(30) DEF SleepInv, NoLostKick, PullInv, Pulling, Blocked, PusherShouldStall, StallForFlip, FlipStallComplete, PfifoLockFree, pfifoVars, pusher, engine, guest
  <1> QED
    BY <1>1, <1>2, <1>3, <1>4, <1>5, <1>6, <1>7, <1>8, <1>9, <1>10, <1>11, <1>12, <1>13, <1>14,
       <1>15, <1>16, <1>17, <1>18, <1>19, <1>20, <1>21, <1>22, <1>23, <1>24, <1>25, <1>26, <1>27,
       ZenonT(30) DEF PfifoNext, Thread, Isr

-----------------------------------------------------------------------------
(* The command processor                                                   *)

(* The inductive invariant of the command processor.                       *)
PfifoIInv == FollowInv /\ WaitInv /\ SleepInv /\ NoLostKick

(* After nv2a_reset the pusher is at the first position of the reader.     *)
LEMMA PfifoInitially ==
    ASSUME PfifoInit
    PROVE  PfifoIInv
  <1>1. 1 \in 1..Len(Walk) /\ Len(Puts) \in Nat
    BY WalkLength
  <1>2. Walk[1] = First
    BY WalkAssumption
  <1>3. /\ Walk[1].get = Start /\ Walk[1].inc = TRUE /\ Walk[1].method = 0 /\ Walk[1].count = 0
        /\ Walk[1].subroutine = NoSub /\ Walk[1].done = 0
    <2>1. /\ First.get = Start /\ First.inc = TRUE /\ First.method = 0 /\ First.count = 0
          /\ First.subroutine = NoSub /\ First.done = 0
      BY SMTT(30) DEF First
    <2> QED
      BY <1>2, <2>1, ZenonT(30)
  <1>4. Ahead = 0 /\ Stop(0) = 1 /\ 1 + Ahead = 1
    BY DEF PfifoInit, Ahead, Stop
  <1>5. executed = SubSeq(Stream, 1, Walk[1 + Ahead].done)
    <2>1. SubSeq(Stream, 1, 0) = <<>>
      BY SubSeqEmpty
    <2> QED
      BY <1>3, <1>4, <2>1, ZenonT(30) DEF PfifoInit
  <1>6. pfPc \notin Pulling /\ pfPc \notin {"trap", "relock"} /\ puts = 0
    BY DEF PfifoInit, Pulling
  <1>7. At(1)
    BY <1>3, ZenonT(30) DEF At, PfifoInit
  <1>8. OnWalk(1)
    <2>1. Ahead <= count /\ 1 + Ahead <= Stop(puts)
      BY <1>4, <1>6 DEF PfifoInit
    <2> QED
      BY <1>5, <1>6, <1>7, <2>1, ZenonT(30) DEF OnWalk
  <1>9. PutInv
    BY <1>1, <1>3, <1>4 DEF PutInv, PfifoInit
  <1>10. FollowInv
    <2>1. num_proc \in Nat /\ avail \in 0..(Words - 1)
      BY WordsType DEF PfifoInit
    <2> QED
      BY <1>1, <1>6, <1>8, <1>9, <2>1 DEF FollowInv, WalkInv, PullInv
  <1>11. RestTypes
    <2>1. read \in 0..(Modulo - 1) /\ write \in 0..(Modulo - 1) /\ toggles \in 0..MaxToggles
      BY PfifoAssumption DEF PfifoInit
    <2>2. pending = {} /\ seen = {}
      BY DEF PfifoInit
    <2> QED
      BY <2>1, <2>2, ZenonT(30) DEF RestTypes, PfifoInit
  <1>12. WaitInv
    BY <1>11 DEF WaitInv, InterruptsMatch, SwitchInv, PfifoInit
  <1>13. SleepInv /\ NoLostKick
    BY DEF SleepInv, NoLostKick, PfifoInit
  <1> QED
    BY <1>10, <1>12, <1>13 DEF PfifoIInv

(* Every step of the thread and of the guest keeps the invariant.          *)
LEMMA PfifoStep ==
    ASSUME PfifoIInv, [PfifoNext]_pfifoVars
    PROVE  PfifoIInv'
  <1>1. FollowInv'
    BY WalkStep DEF PfifoIInv
  <1>2. WaitInv'
    BY RestTypesStep, WaitStep DEF PfifoIInv, WaitInv
  <1>3. (SleepInv /\ NoLostKick)'
    BY SleepStep DEF PfifoIInv, FollowInv
  <1> QED
    BY <1>1, <1>2, <1>3 DEF PfifoIInv

(* So it always holds.                                                     *)
LEMMA PfifoInductive == PfifoSpec => []PfifoIInv
  BY PfifoInitially, PfifoStep, PTL DEF PfifoSpec

(* The engine executes exactly the guest's methods, in order, none that is *)
(* not kicked off, for every well-formed push buffer with its jumps, calls *)
(* and wrap-arounds, every way of kicking it off and every interleaving of *)
(* the PFIFO thread with the guest (pfifo_run_pusher, pfifo_run_puller).   *)
THEOREM MethodsInOrder == PfifoSpec => []InOrder
  <1>1. PfifoIInv => InOrder
    BY WalkInOrder DEF PfifoIInv
  <1> QED
    BY <1>1, PfifoInductive, PTL

(* The registers stay within the push buffer, the PFIFO thread never       *)
(* sleeps with work it could do and no kick, and the engine waits exactly  *)
(* for the interrupts that are pending (pfifo_thread, pfifo_kick,          *)
(* pgraph_write, pgraph_context_switch).                                   *)
THEOREM FifoSafety == PfifoSpec => []FifoInv
  <1>1. ASSUME PfifoIInv PROVE FifoInv
    <2>1. put \in Addresses /\ puts \in 0..Len(Puts)
      <3>1. puts \in 0..Len(Puts) /\ put = Walk[Stop(puts)].get
        BY <1>1 DEF PfifoIInv, FollowInv, PutInv
      <3> QED
        BY <3>1, StopType, PositionType
    <2>2. /\ get \in Addresses /\ inc \in BOOLEAN /\ method \in Nat /\ count \in Nat
          /\ subroutine \in Addresses \cup {NoSub}
      BY <1>1, WalkTypes DEF PfifoIInv, FollowInv
    <2>3. num_proc \in Nat /\ avail \in 0..(Words - 1)
      BY <1>1 DEF PfifoIInv, FollowInv
    <2>4. RestTypes /\ NoLostKick /\ InterruptsMatch
      BY <1>1 DEF PfifoIInv, WaitInv
    <2>5. PfifoTypeOK
      BY <2>1, <2>2, <2>3, <2>4 DEF PfifoTypeOK, RestTypes
    <2> QED
      BY <2>4, <2>5 DEF FifoInv
  <1> QED
    BY <1>1, PfifoInductive, PTL

(* An object is bound only in the context of the channel it names, however *)
(* the guest's interrupt handler runs against the switch that is under way *)
(* (pfifo_run_puller, pgraph_context_switch).                              *)
THEOREM ObjectsBoundInContext == PfifoSpec => BoundInContext
  <1>1. ASSUME PfifoIInv, [PfifoNext]_pfifoVars
        PROVE  [(executed' # executed /\ method = SET_OBJECT) => channel = Parameter(1)]_pfifoVars
    <2>1. SUFFICES ASSUME executed' # executed, method = SET_OBJECT PROVE channel = Parameter(1)
      OBVIOUS
    <2>2. Bind \/ SwitchEnd \/ Run \/ Trap
      BY <1>1, <2>1, ZenonT(30) DEF PfifoNext, Thread, Isr, PassBegin, ProcessedPending, PusherEnter, PassEnd, PusherDone,
         WokenForNothing, PushCommand, PushData, PullerReturns, MethodRefused, SwitchBegin, SwitchIrq, TrapIrq,
         UserPut, IncrementRead, VBlank, IsrRead, IsrSwitch, IsrClear, SetAccess, SetPush0, SetIntrEn,
         engine, guest, pfifoVars
    <2>3. CASE Bind
      BY <2>3 DEF Bind
    <2>4. CASE SwitchEnd
      <3>1. pfPc = "switched" /\ ~waiting_for_context_switch
        BY <2>1, <2>4 DEF SwitchEnd
      <3> QED
        BY <1>1, <3>1 DEF PfifoIInv, WaitInv, SwitchInv
    <2>5. CASE Run
      BY <2>1, <2>5 DEF Run
    <2>6. CASE Trap
      BY <2>1, <2>6 DEF Trap, SET_OBJECT, NO_OPERATION
    <2> QED
      BY <2>2, <2>3, <2>4, <2>5, <2>6
  <1> QED
    BY <1>1, PfifoInductive, PTL DEF PfifoSpec, BoundInContext
=============================================================================
