------------------------------- MODULE Pfifo -------------------------------
(***************************************************************************)
(* The command processor of the emulated GPU (hw/xbox/nv2a/pfifo.c): the   *)
(* PFIFO thread fetches words between DMA_GET and DMA_PUT (the pusher) and *)
(* hands methods to the graphics engine (the puller), while the guest's    *)
(* CPU moves DMA_PUT, switches access on and off, counts flips and answers *)
(* interrupts.                                                             *)
(*                                                                         *)
(* The thread holds pfifo.lock except while a method runs, while pending   *)
(* downloads are served and while it sleeps; it is split into steps        *)
(* exactly there, and at the points where the engine drops pgraph.lock to  *)
(* raise an interrupt.  A guest register access is one step under the BQL. *)
(* The push buffer is the one of PushBuffer; a data word is its parameter. *)
(***************************************************************************)
EXTENDS PushBuffer

CONSTANTS Modulo,       \* SURFACE_MODULO_3D
          MaxToggles    \* bound on the guest's switching things off

SET_OBJECT == 0
NO_OPERATION == 64
FLIP_INCREMENT_WRITE == 75
FLIP_STALL == 76

ERROR == "error"
CONTEXT_SWITCH == "contextSwitch"

ASSUME PfifoAssumption == Modulo \in Nat \ {0} /\ MaxToggles \in Nat

VARIABLES
    get, put,             \* DMA_GET, DMA_PUT
    inc, method, count,   \* DMA_STATE
    subroutine,           \* DMA_SUBROUTINE
    push0,                \* PUSH0_ACCESS
    fifo_kick,
    pfPc,                 \* the PFIFO thread
    avail,                \* its local num_words_available
    num_proc,             \* its local num_proc; 0 stands for -1
    access,               \* NV_PGRAPH_FIFO_ACCESS
    waiting_for_nop, waiting_for_context_switch, waiting_for_flip,
    pending,              \* pgraph.pending_interrupts
    enabled,              \* pgraph.enabled_interrupts
    irq,                  \* NV_PMC_INTR_0_PGRAPH
    channel,              \* the context loaded in CTX_USER
    trapped,              \* TRAPPED_ADDR_CHID
    read, write,          \* SURFACE_READ_3D, SURFACE_WRITE_3D
    executed,             \* the methods the engine has run
    puts, toggles, seen   \* the guest: writes made, and INTR as its handler read it

pusher == <<get, inc, method, count, subroutine>>
engine == <<waiting_for_nop, waiting_for_context_switch, waiting_for_flip, pending, irq, trapped, write, executed>>
guest == <<put, push0, access, enabled, channel, read, puts, toggles, seen>>
pfifoVars == <<pusher, engine, guest, fifo_kick, pfPc, avail, num_proc>>

PfifoInit ==
    /\ get = Start /\ put = Start /\ subroutine = NoSub
    /\ inc = TRUE /\ method = 0 /\ count = 0
    /\ push0 = TRUE /\ access = TRUE /\ enabled = TRUE
    /\ fifo_kick = FALSE /\ pfPc = "top" /\ avail = 0 /\ num_proc = 0
    /\ waiting_for_nop = FALSE /\ waiting_for_context_switch = FALSE /\ waiting_for_flip = FALSE
    /\ pending = {} /\ irq = FALSE /\ channel = 0 /\ trapped = 0
    /\ read = 0 /\ write = Modulo - 1
    /\ executed = <<>>
    /\ puts = 0 /\ toggles = 0 /\ seen = {}

-----------------------------------------------------------------------------
(* The thread's pass                                                       *)

PfifoLockFree == pfPc \in {"unlocked", "method", "switch", "switched", "trap", "relock", "asleep", "woken"}

Kick ==
    /\ fifo_kick' = TRUE
    /\ pfPc' = IF pfPc = "asleep" THEN "woken" ELSE pfPc

(* A new pass; the lock is dropped if the renderer has pending work.       *)
PassBegin ==
    /\ pfPc \in {"top", "woken"}
    /\ fifo_kick' = FALSE
    /\ pfPc' \in {"enter", "unlocked"}
    /\ UNCHANGED <<pusher, engine, guest, avail, num_proc>>

ProcessedPending ==
    /\ pfPc = "unlocked"
    /\ pfPc' = "enter"
    /\ UNCHANGED <<pusher, engine, guest, fifo_kick, avail, num_proc>>

PusherEnter ==
    /\ pfPc = "enter"
    /\ pfPc' = IF push0 THEN "push" ELSE "end"
    /\ UNCHANGED <<pusher, engine, guest, fifo_kick, avail, num_proc>>

(* Mutant: the thread sleeps without looking at the flag.                  *)
PassEnd_IgnoresKick ==
    /\ pfPc = "end"
    /\ pfPc' = "asleep"
    /\ UNCHANGED <<pusher, engine, guest, fifo_kick, avail, num_proc>>

PassEnd ==
    /\ pfPc = "end"
    /\ pfPc' = IF fifo_kick THEN "top" ELSE "asleep"
    /\ UNCHANGED <<pusher, engine, guest, fifo_kick, avail, num_proc>>

(* fifo_cond is broadcast without a kick, or the wait returns by itself.   *)
WokenForNothing ==
    /\ pfPc = "asleep"
    /\ pfPc' = "woken"
    /\ UNCHANGED <<pusher, engine, guest, fifo_kick, avail, num_proc>>

-----------------------------------------------------------------------------
(* The pusher                                                              *)

PusherShouldStall == ~access \/ waiting_for_nop

PusherDone ==
    /\ pfPc = "push"
    /\ PusherShouldStall \/ get = put
    /\ pfPc' = "end"
    /\ UNCHANGED <<pusher, engine, guest, fifo_kick, avail, num_proc>>

CanFetch == pfPc = "push" /\ ~PusherShouldStall /\ get # put

(* The first word of a command.  A call inside a subroutine, a return      *)
(* outside one and a reserved word end in an assertion: no step.           *)
Decode(w) ==
    \/ /\ w.op = "jump"
       /\ get' = w.to
       /\ UNCHANGED <<inc, method, count, subroutine>>
    \/ /\ w.op = "call" /\ subroutine = NoSub
       /\ subroutine' = get + 1 /\ get' = w.to
       /\ UNCHANGED <<inc, method, count>>
    \/ /\ w.op = "return" /\ subroutine # NoSub
       /\ get' = subroutine /\ subroutine' = NoSub
       /\ UNCHANGED <<inc, method, count>>
    \/ /\ w.op \in {"inc", "nonInc"}
       /\ inc' = (w.op = "inc") /\ method' = w.method /\ count' = w.count
       /\ get' = get + 1
       /\ UNCHANGED subroutine

PushCommand ==
    /\ CanFetch /\ count = 0
    /\ Decode(Program[get])
    /\ UNCHANGED <<engine, guest, fifo_kick, pfPc, avail, num_proc>>

FlipStallComplete == read # write
StallForFlip == waiting_for_flip /\ ~FlipStallComplete
PullerShouldStall == StallForFlip \/ waiting_for_nop \/ waiting_for_context_switch \/ ~access

(* A data word: the puller is entered, with the lock dropped unless it     *)
(* stalls.  A completed flip is noted whether or not it stalls.            *)
PushData ==
    /\ CanFetch /\ count > 0
    /\ waiting_for_flip' = StallForFlip
    /\ avail' = (put - get) % Words
    /\ pfPc' = IF PullerShouldStall THEN "end" ELSE "method"
    /\ UNCHANGED <<pusher, waiting_for_nop, waiting_for_context_switch, pending, irq, trapped, write, executed>>
    /\ UNCHANGED <<guest, fifo_kick, num_proc>>

Least(a, b) == IF a <= b THEN a ELSE b

(* Mutant: a word the puller would not take is passed over.                *)
PullerReturns_Skips ==
    /\ pfPc = "relock"
    /\ LET n == IF num_proc = 0 THEN 1 ELSE num_proc
       IN  /\ get' = get + n
           /\ method' = IF inc THEN method + n ELSE method
           /\ count' = count - Least(count, n)
    /\ pfPc' = "push"
    /\ UNCHANGED <<inc, subroutine, engine, guest, fifo_kick, avail, num_proc>>

(* pfifo.lock is taken again; a word that was not taken ends the pass.     *)
PullerReturns ==
    /\ pfPc = "relock"
    /\ IF num_proc = 0
       THEN pfPc' = "end" /\ UNCHANGED <<get, method, count>>
       ELSE /\ get' = get + num_proc
            /\ method' = IF inc THEN method + num_proc ELSE method
            /\ count' = count - Least(count, num_proc)
            /\ pfPc' = "push"
    /\ UNCHANGED <<inc, subroutine, engine, guest, fifo_kick, avail, num_proc>>

-----------------------------------------------------------------------------
(* The puller and the graphics engine, under pgraph.lock                   *)

Parameter(i) == Program[get + i - 1].value

(* n words of the current command have been executed.                      *)
Executes(n) ==
    /\ executed' = executed \o [i \in 1..n |-> <<IF inc THEN method + i - 1 ELSE method, Parameter(i)>>]
    /\ num_proc' = n

UpdateIrq == irq' = (pending' # {} /\ enabled)

(* Access went away while no lock was held: the word is not taken.         *)
MethodRefused ==
    /\ pfPc = "method" /\ ~access
    /\ num_proc' = 0 /\ pfPc' = "relock"
    /\ UNCHANGED <<pusher, engine, guest, fifo_kick, avail>>

Bind ==
    /\ pfPc = "method" /\ access /\ method = SET_OBJECT
    /\ channel = Parameter(1)
    /\ Executes(1) /\ pfPc' = "relock"
    /\ UNCHANGED <<waiting_for_nop, waiting_for_context_switch, waiting_for_flip, pending, irq, trapped, write>>
    /\ UNCHANGED <<pusher, guest, fifo_kick, avail>>

(* pgraph_context_switch: wait first, interrupt after dropping the lock.   *)
SwitchBegin ==
    /\ pfPc = "method" /\ access /\ method = SET_OBJECT
    /\ channel # Parameter(1)
    /\ trapped' = Parameter(1)
    /\ waiting_for_context_switch' = TRUE
    /\ pfPc' = "switch"
    /\ UNCHANGED <<waiting_for_nop, waiting_for_flip, pending, irq, write, executed>>
    /\ UNCHANGED <<pusher, guest, fifo_kick, avail, num_proc>>

SwitchIrq ==
    /\ pfPc = "switch"
    /\ pending' = pending \cup {CONTEXT_SWITCH} /\ UpdateIrq
    /\ pfPc' = "switched"
    /\ UNCHANGED <<waiting_for_nop, waiting_for_context_switch, waiting_for_flip, trapped, write, executed>>
    /\ UNCHANGED <<pusher, guest, fifo_kick, avail, num_proc>>

(* Mutant: the method runs whether or not the guest has switched.          *)
SwitchEnd_NoWait ==
    /\ pfPc = "switched"
    /\ Executes(1) /\ pfPc' = "relock"
    /\ UNCHANGED <<waiting_for_nop, waiting_for_context_switch, waiting_for_flip, pending, irq, trapped, write>>
    /\ UNCHANGED <<pusher, guest, fifo_kick, avail>>

SwitchEnd ==
    /\ pfPc = "switched"
    /\ IF waiting_for_context_switch THEN num_proc' = 0 /\ UNCHANGED executed ELSE Executes(1)
    /\ pfPc' = "relock"
    /\ UNCHANGED <<waiting_for_nop, waiting_for_context_switch, waiting_for_flip, pending, irq, trapped, write>>
    /\ UNCHANGED <<pusher, guest, fifo_kick, avail>>

(* Any other method; one that takes an array may take several words.       *)
Run ==
    /\ pfPc = "method" /\ access /\ method # SET_OBJECT
    /\ ~(method = NO_OPERATION /\ Parameter(1) # 0)
    /\ \E n \in 1..(IF inc THEN 1 ELSE Least(count, avail)) : Executes(n)
    /\ write' = IF method = FLIP_INCREMENT_WRITE THEN (write + 1) % Modulo ELSE write
    /\ waiting_for_flip' = (waiting_for_flip \/ method = FLIP_STALL)
    /\ pfPc' = "relock"
    /\ UNCHANGED <<waiting_for_nop, waiting_for_context_switch, pending, irq, trapped>>
    /\ UNCHANGED <<pusher, guest, fifo_kick, avail>>

(* NO_OPERATION with a parameter traps to the guest.                       *)
Trap ==
    /\ pfPc = "method" /\ access
    /\ method = NO_OPERATION /\ Parameter(1) # 0
    /\ ERROR \notin pending
    /\ pending' = pending \cup {ERROR} /\ waiting_for_nop' = TRUE
    /\ Executes(1) /\ pfPc' = "trap"
    /\ UNCHANGED <<waiting_for_context_switch, waiting_for_flip, irq, trapped, write>>
    /\ UNCHANGED <<pusher, guest, fifo_kick, avail>>

TrapIrq ==
    /\ pfPc = "trap"
    /\ UNCHANGED pending /\ UpdateIrq
    /\ pfPc' = "relock"
    /\ UNCHANGED <<waiting_for_nop, waiting_for_context_switch, waiting_for_flip, trapped, write, executed>>
    /\ UNCHANGED <<pusher, guest, fifo_kick, avail, num_proc>>

Thread ==
    \/ PassBegin \/ ProcessedPending \/ PusherEnter \/ PassEnd
    \/ PusherDone \/ PushCommand \/ PushData \/ PullerReturns
    \/ MethodRefused \/ Bind \/ SwitchBegin \/ SwitchIrq \/ SwitchEnd \/ Run \/ Trap \/ TrapIrq

-----------------------------------------------------------------------------
(* The guest's register accesses                                           *)

UserPut ==
    /\ PfifoLockFree /\ puts < Len(Puts)
    /\ puts' = puts + 1 /\ put' = Puts[puts + 1]
    /\ Kick
    /\ UNCHANGED <<pusher, engine, push0, access, enabled, channel, read, toggles, seen, avail, num_proc>>

SetAccess(on) ==
    /\ PfifoLockFree
    /\ access' = on /\ access # on
    /\ on \/ toggles < MaxToggles
    /\ toggles' = IF on THEN toggles ELSE toggles + 1
    /\ Kick
    /\ UNCHANGED <<pusher, engine, put, push0, enabled, channel, read, puts, seen, avail, num_proc>>

SetPush0(on) ==
    /\ PfifoLockFree
    /\ push0' = on /\ push0 # on
    /\ on \/ toggles < MaxToggles
    /\ toggles' = IF on THEN toggles ELSE toggles + 1
    /\ Kick
    /\ UNCHANGED <<pusher, engine, put, access, enabled, channel, read, puts, seen, avail, num_proc>>

(* NV_PGRAPH_INTR_EN: neither a kick nor an interrupt update.              *)
SetIntrEn(on) ==
    /\ PfifoLockFree
    /\ enabled' = on /\ enabled # on
    /\ on \/ toggles < MaxToggles
    /\ toggles' = IF on THEN toggles ELSE toggles + 1
    /\ UNCHANGED <<pusher, engine, put, push0, access, channel, read, puts, seen, fifo_kick, pfPc, avail, num_proc>>

(* Mutant: the count moves but the thread is not told.                     *)
IncrementRead_NoKick ==
    /\ PfifoLockFree
    /\ read' = (read + 1) % Modulo
    /\ UNCHANGED <<pusher, engine, put, push0, access, enabled, channel, puts, toggles, seen, fifo_kick, pfPc, avail, num_proc>>

(* NV_PGRAPH_INCREMENT, from the guest's vertical blank handler.           *)
IncrementRead ==
    /\ PfifoLockFree
    /\ read' = (read + 1) % Modulo
    /\ Kick
    /\ UNCHANGED <<pusher, engine, put, push0, access, enabled, channel, puts, toggles, seen, avail, num_proc>>

(* The display refresh raises the vertical blank and updates every line.   *)
VBlank ==
    /\ UNCHANGED pending /\ UpdateIrq
    /\ UNCHANGED <<waiting_for_nop, waiting_for_context_switch, waiting_for_flip, trapped, write, executed>>
    /\ UNCHANGED <<pusher, guest, fifo_kick, pfPc, avail, num_proc>>

(* The guest's interrupt handler: read INTR, load the trapped channel's    *)
(* context, write back what was read.                                      *)
IsrRead ==
    /\ irq /\ seen = {} /\ pending # {}
    /\ seen' = pending
    /\ UNCHANGED <<pusher, engine, put, push0, access, enabled, channel, read, puts, toggles, fifo_kick, pfPc, avail, num_proc>>

IsrSwitch ==
    /\ PfifoLockFree
    /\ CONTEXT_SWITCH \in seen /\ channel # trapped
    /\ channel' = trapped
    /\ UNCHANGED <<pusher, engine, put, push0, access, enabled, read, puts, toggles, seen, fifo_kick, pfPc, avail, num_proc>>

(* NV_PGRAPH_INTR: a wait ends when its interrupt is no longer pending.    *)
IsrClear ==
    /\ PfifoLockFree
    /\ seen # {} /\ (CONTEXT_SWITCH \in seen => channel = trapped)
    /\ pending' = pending \ seen
    /\ waiting_for_nop' = (waiting_for_nop /\ ERROR \in pending')
    /\ waiting_for_context_switch' = (waiting_for_context_switch /\ CONTEXT_SWITCH \in pending')
    /\ seen' = {} /\ Kick
    /\ UNCHANGED <<waiting_for_flip, irq, trapped, write, executed>>
    /\ UNCHANGED <<pusher, put, push0, access, enabled, channel, read, puts, toggles, avail, num_proc>>

Isr == IsrRead \/ IsrSwitch \/ IsrClear

PfifoNext ==
    \/ Thread \/ WokenForNothing
    \/ UserPut \/ IncrementRead \/ VBlank \/ Isr
    \/ \E on \in BOOLEAN : SetAccess(on) \/ SetPush0(on) \/ SetIntrEn(on)

PfifoSpec == PfifoInit /\ [][PfifoNext]_pfifoVars

SwitchOn == SetAccess(TRUE) \/ SetPush0(TRUE) \/ SetIntrEn(TRUE)

(* The thread runs and the display refreshes; the guest kicks off what it  *)
(* wrote, switches back on what it switched off, answers interrupts and    *)
(* vertical blanks.  Its accesses queue for a lock the thread keeps        *)
(* releasing, hence strong fairness.                                       *)
PfifoFairSpec ==
    /\ PfifoSpec
    /\ WF_pfifoVars(Thread) /\ WF_pfifoVars(VBlank)
    /\ SF_pfifoVars(Isr) /\ SF_pfifoVars(UserPut \/ SwitchOn) /\ SF_pfifoVars(IncrementRead)

-----------------------------------------------------------------------------
(* Types: the registers stay within the push buffer, the flip counters     *)
(* below the modulo (pgraph_write, NV097_FLIP_INCREMENT_WRITE).            *)
PfifoTypeOK ==
    /\ get \in Addresses /\ put \in Addresses
    /\ subroutine \in Addresses \cup {NoSub}
    /\ method \in Nat /\ count \in Nat /\ avail \in 0..(Words - 1) /\ num_proc \in Nat
    /\ push0 \in BOOLEAN /\ access \in BOOLEAN /\ enabled \in BOOLEAN /\ irq \in BOOLEAN
    /\ fifo_kick \in BOOLEAN /\ inc \in BOOLEAN
    /\ waiting_for_nop \in BOOLEAN /\ waiting_for_context_switch \in BOOLEAN /\ waiting_for_flip \in BOOLEAN
    /\ pending \subseteq {ERROR, CONTEXT_SWITCH} /\ seen \subseteq pending
    /\ read \in 0..(Modulo - 1) /\ write \in 0..(Modulo - 1)
    /\ puts \in 0..Len(Puts) /\ toggles \in 0..MaxToggles

(* Whatever stalls, refusals, partial kick-offs, subroutine calls and      *)
(* wrap-arounds happen, the engine runs exactly the guest's methods, each  *)
(* once and in order, and none that is not kicked off, although the puller *)
(* goes by a word count taken before pfifo.lock was dropped                *)
(* (pfifo_run_pusher, pfifo_run_puller).                                   *)
InOrder ==
    /\ Len(executed) <= Walk[Stop(puts)].done
    /\ executed = SubSeq(Stream, 1, Len(executed))

Blocked ==
    \/ get = put \/ ~push0 \/ PusherShouldStall
    \/ count > 0 /\ (StallForFlip \/ waiting_for_context_switch)

(* No lost wake-up: the thread sleeps on fifo_cond only while nothing can  *)
(* move, so every register write that unblocks it must kick it             *)
(* (pfifo_thread, pfifo_kick).                                             *)
NoLostKick == pfPc = "asleep" => Blocked

(* The engine waits exactly for interrupts that are raised or about to be, *)
(* so the assertion of NV097_NO_OPERATION that no error is pending holds   *)
(* whenever a method starts (pgraph_write, pgraph_context_switch).         *)
InterruptsMatch ==
    /\ waiting_for_nop <=> ERROR \in pending
    /\ waiting_for_context_switch <=> (CONTEXT_SWITCH \in pending \/ pfPc = "switch")
    /\ pfPc = "method" => ~waiting_for_nop /\ ~waiting_for_context_switch

(* The registers are in range, the thread sleeps only with reason, and     *)
(* what the engine waits for is pending (pfifo_thread, pgraph_write).      *)
FifoInv == PfifoTypeOK /\ NoLostKick /\ InterruptsMatch

(* An object is bound only in the context of its own channel, although     *)
(* pgraph.lock is dropped while the switch is requested                    *)
(* (pfifo_run_puller, pgraph_context_switch).                              *)
BoundInContext ==
    [][(executed' # executed /\ method = SET_OBJECT) => channel = Parameter(1)]_pfifoVars

(* A trapped method does not stop the channel for ever: its interrupt      *)
(* reaches the guest, also when it was masked at the time, and the answer  *)
(* restarts the thread (NV097_NO_OPERATION, nv2a_update_irq).              *)
TrapServed == waiting_for_nop ~> ~waiting_for_nop

(* Everything kicked off is executed in the end, unless vertical blanks    *)
(* keep coming faster than the thread runs: flips are counted modulo the   *)
(* number of buffers, so two of them while it is awake can look like none  *)
(* (is_flip_stall_complete, NV_PGRAPH_INCREMENT).                          *)
StreamDone ==
    <>[][read' # read => pfPc = "asleep"]_pfifoVars => <>(executed = Stream)

(* The channel always gets on: a trap ends and the stream is executed      *)
(* (pfifo_thread, pfifo_run_pusher, pfifo_run_puller).                     *)
ChannelGoesOn == TrapServed /\ StreamDone
=============================================================================
