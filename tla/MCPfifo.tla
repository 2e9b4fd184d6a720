------------------------------ MODULE MCPfifo ------------------------------
(***************************************************************************)
(* A push buffer with every kind of command: it starts at address 6, calls *)
(* the subroutine at 14, kicks off in the middle of a command and jumps    *)
(* back below its start, so that DMA_PUT is smaller than DMA_GET.          *)
(***************************************************************************)
EXTENDS Pfifo, TLC

Command(o, m, c) == [op |-> o, method |-> m, count |-> c]
Branch(o, a) == [op |-> o, to |-> a]
Data(v) == [op |-> "data", value |-> v]

DRAW == 512

MCProgram ==
    (0 :> Command("inc", FLIP_INCREMENT_WRITE, 2)) @@ (1 :> Data(0)) @@ (2 :> Data(0)) @@
    (3 :> Command("nonInc", DRAW, 1)) @@ (4 :> Data(9)) @@
    (5 :> Data(0)) @@
    (6 :> Command("inc", SET_OBJECT, 1)) @@ (7 :> Data(1)) @@
    (8 :> Branch("call", 14)) @@
    (9 :> Command("nonInc", DRAW, 3)) @@ (10 :> Data(1)) @@ (11 :> Data(2)) @@ (12 :> Data(3)) @@
    (13 :> Branch("jump", 0)) @@
    (14 :> Command("inc", NO_OPERATION, 1)) @@ (15 :> Data(1)) @@ (16 :> Branch("return", 0))

MCStart == 6
MCPuts == <<8, 11, 5>>
MCStream ==
    << <<SET_OBJECT, 1>>, <<NO_OPERATION, 1>>, <<DRAW, 1>>, <<DRAW, 2>>, <<DRAW, 3>>,
       <<FLIP_INCREMENT_WRITE, 0>>, <<FLIP_STALL, 0>>, <<DRAW, 9>> >>
MCStops == <<3, 9, 17>>

(* The reader's positions, each from the one before.                       *)
After(s) ==
    LET w == Program[s.get]
    IN  CASE s.count > 0 ->
               [s EXCEPT !.get = @ + 1, !.method = IF s.inc THEN @ + 1 ELSE @, !.count = @ - 1, !.done = @ + 1]
          [] s.count = 0 /\ w.op = "jump" -> [s EXCEPT !.get = w.to]
          [] s.count = 0 /\ w.op = "call" -> [s EXCEPT !.get = w.to, !.subroutine = s.get + 1]
          [] s.count = 0 /\ w.op = "return" -> [s EXCEPT !.get = s.subroutine, !.subroutine = NoSub]
          [] OTHER -> [s EXCEPT !.get = @ + 1, !.inc = (w.op = "inc"), !.method = w.method, !.count = w.count]

MCReading[n \in 1..17] == IF n = 1 THEN First ELSE After(MCReading[n - 1])
MCWalk == [k \in 1..17 |-> MCReading[k]]
=============================================================================
