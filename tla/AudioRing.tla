----------------------------- MODULE AudioRing -----------------------------
(***************************************************************************)
(* The lock-free audio ring of the Android port                            *)
(* (ui/xemu-android-native.c), with the producer's throttle                *)
(* (hw/xbox/mcpx/apu/apu.c, monitor.c) and the stream's life cycle.        *)
(*                                                                         *)
(* Three threads.  The core thread opens and closes the AAudio stream.     *)
(* The APU thread throttles on the fill level and queues a chunk of        *)
(* frames.  The AAudio real-time thread runs the data callback.  The       *)
(* producer and the callback share only the ring and its two cursors,      *)
(* unsigned counters that wrap at CursorMod (2^32 in the code); every      *)
(* load, store and frame copy of theirs that the other can see is a step   *)
(* of its own.                                                             *)
(***************************************************************************)
EXTENDS Naturals, Sequences

CONSTANTS RingFrames,   \* ANDROID_AUDIO_RING_FRAMES
          CursorMod,    \* the cursors count modulo this
          Chunk,        \* frames the APU queues at a time (256)
          HighFrames,   \* queued_bytes_high in frames (90 ms)
          MaxBurst,     \* largest num_frames of a callback
          FrameMod,     \* frames are numbered modulo this
          MaxForced     \* bound on throttles in a row cut short by a pause

ASSUME RingAssumption ==
    /\ RingFrames \in Nat \ {0}
    /\ CursorMod \in Nat
    /\ CursorMod > RingFrames
    /\ Chunk \in Nat \ {0}
    /\ HighFrames \in Nat \ {0}
    /\ MaxBurst \in Nat \ {0}
    /\ FrameMod \in Nat \ {0}
    /\ MaxForced \in Nat

(* RingMask indexing agrees with counting modulo the ring across the wrap. *)
ASSUME MaskAssumption == CursorMod % RingFrames = 0

VARIABLES
    lc,           \* where the core thread is in audio_init / audio_shutdown
    audio_stream, \* the published stream: TRUE iff not NULL
    live,         \* AAudio may call the data callback
    audio_read_pos, audio_write_pos, audio_ring,
    apu,          \* the APU thread: "none", "throttle", "queue" or "copy"
    monitor,      \* d->monitor.stream
    pw, pn,       \* wpos and frames left of the copy loop of audio_queue
    next,         \* number of the next frame the APU produces
    forced,       \* chunks in a row whose throttle a pause cut short
    dropped,      \* the last chunk did not fit
    cb,           \* the callback: "idle" or "copy"
    cr, ca, cn,   \* its rpos, available and frames still to fill
    cout,         \* the ring frames it has copied to its output
    played        \* those of the last callback that returned

lifecycle == <<lc, audio_stream, live>>
cursors == <<audio_read_pos, audio_write_pos>>
producer == <<apu, monitor, pw, pn, next, forced, dropped>>
callback == <<cb, cr, ca, cn, cout, played>>
vars == <<lifecycle, cursors, audio_ring, producer, callback>>

Cursor == 0..(CursorMod - 1)
Frames == 0..(FrameMod - 1)

(* Unsigned arithmetic on the cursors, and the mask that picks a slot.     *)
Inc(p) == IF p + 1 = CursorMod THEN 0 ELSE p + 1
Dist(w, r) == IF w >= r THEN w - r ELSE (w + CursorMod) - r
(* Mutant: a mask one short.                                               *)
Slot_BadMask(p) == p % (RingFrames - 1)
Slot(p) == p % RingFrames
FreeFrames(w, r) == RingFrames - Dist(w, r)
MinOf(a, b) == IF a <= b THEN a ELSE b

(* Types: cursors are machine words, the ring holds frames.                *)
TypeOK ==
    /\ lc \in {"off", "opening", "starting", "up", "failed", "reset", "closing"}
    /\ audio_stream \in BOOLEAN
    /\ live \in BOOLEAN
    /\ audio_read_pos \in Cursor
    /\ audio_write_pos \in Cursor
    /\ audio_ring \in [0..(RingFrames - 1) -> Frames]
    /\ apu \in {"none", "throttle", "queue", "copy"}
    /\ monitor \in BOOLEAN
    /\ pw \in Cursor
    /\ pn \in Nat
    /\ next \in Frames
    /\ forced \in 0..MaxForced
    /\ dropped \in BOOLEAN
    /\ cb \in {"idle", "copy"}
    /\ cr \in Cursor
    /\ ca \in Nat
    /\ cn \in 0..MaxBurst
    /\ cout \in Seq(Frames)
    /\ played \in Seq(Frames)

Init ==
    /\ lc = "off" /\ audio_stream = FALSE /\ live = FALSE
    /\ audio_read_pos = 0 /\ audio_write_pos = 0
    /\ audio_ring = [i \in 0..(RingFrames - 1) |-> 0]
    /\ apu = "none" /\ monitor = FALSE
    /\ pw = 0 /\ pn = 0 /\ next = 0 /\ forced = 0 /\ dropped = FALSE
    /\ cb = "idle" /\ cr = 0 /\ ca = 0 /\ cn = 0 /\ cout = <<>> /\ played = <<>>

-----------------------------------------------------------------------------
(* The core thread: mcpx_apu_realize opens the stream and then starts the  *)
(* APU thread; mcpx_apu_exitfn joins the APU thread and then closes it.    *)

(* audio_init up to the release of audio_lock, when there is no stream.    *)
AudioInit ==
    /\ lc = "off"
    /\ audio_read_pos' = 0 /\ audio_write_pos' = 0
    /\ forced' = 0 /\ dropped' = FALSE /\ played' = <<>>
    /\ lc' = "opening"
    /\ UNCHANGED <<audio_stream, live, audio_ring, apu, monitor, pw, pn, next, cb, cr, ca, cn, cout>>

StartApu(ok) ==
    /\ apu' = "throttle"
    /\ monitor' = ok
    /\ UNCHANGED <<pw, pn, next, forced, dropped>>

(* audio_init when the stream of an earlier core is still published: it    *)
(* returns true and leaves the cursors as they are.                        *)
AudioInitAgain ==
    /\ lc = "up"
    /\ apu = "none"
    /\ StartApu(TRUE)
    /\ UNCHANGED <<lifecycle, cursors, audio_ring, callback>>

(* The builder or openStream fails: audio_init returns false.              *)
OpenFails ==
    /\ lc = "opening"
    /\ lc' = "failed"
    /\ StartApu(FALSE)
    /\ UNCHANGED <<audio_stream, live, cursors, audio_ring, callback>>

Publish ==
    /\ lc = "opening"
    /\ audio_stream' = TRUE
    /\ lc' = "starting"
    /\ UNCHANGED <<live, cursors, audio_ring, producer, callback>>

RequestStart ==
    /\ lc = "starting"
    /\ live' = TRUE
    /\ lc' = "up"
    /\ StartApu(TRUE)
    /\ UNCHANGED <<audio_stream, cursors, audio_ring, callback>>

(* requestStart fails: audio_init calls audio_shutdown on a stream whose   *)
(* callback never ran.                                                     *)
StartFails ==
    /\ lc = "starting"
    /\ audio_stream' = FALSE
    /\ audio_read_pos' = 0 /\ audio_write_pos' = 0
    /\ lc' = "failed"
    /\ StartApu(FALSE)
    /\ UNCHANGED <<live, audio_ring, callback>>

(* The core ends without unrealizing the device: its APU thread stays      *)
(* parked between two frames for good and the stream stays open.           *)
CoreEnds ==
    /\ apu \in {"throttle", "queue"}
    /\ apu' = "none"
    /\ monitor' = FALSE
    /\ lc' = IF lc = "failed" THEN "off" ELSE lc
    /\ UNCHANGED <<audio_stream, live, cursors, audio_ring, pw, pn, next, forced, dropped, callback>>

(* mcpx_apu_exitfn joins the APU thread between two of its frames; without *)
(* a monitor stream there is nothing to close.                             *)
ExitJoin ==
    /\ apu \in {"throttle", "queue"}
    /\ apu' = "none"
    /\ monitor' = FALSE
    /\ IF monitor
       THEN /\ lc' = "reset"
            /\ audio_stream' = FALSE
            /\ audio_read_pos' = 0
       ELSE /\ lc' = "off"
            /\ UNCHANGED <<audio_stream, audio_read_pos>>
    /\ UNCHANGED <<live, audio_write_pos, audio_ring, pw, pn, next, forced, dropped, callback>>

(* The second store of reset_audio_ring_locked; the callback still runs.   *)
ResetWritePos ==
    /\ lc = "reset"
    /\ audio_write_pos' = 0
    /\ lc' = "closing"
    /\ UNCHANGED <<audio_stream, live, audio_read_pos, audio_ring, producer, callback>>

(* AAudioStream_requestStop and _close: no callback runs once it returns.  *)
CloseStream ==
    /\ lc = "closing"
    /\ cb = "idle"
    /\ live' = FALSE
    /\ lc' = "off"
    /\ UNCHANGED <<audio_stream, cursors, audio_ring, producer, callback>>

-----------------------------------------------------------------------------
(* The APU thread.                                                         *)

(* Mutant: the watermark in samples instead of frames.                     *)
BelowHigh_Samples ==
    ~monitor \/ ~audio_stream \/ Dist(audio_write_pos, audio_read_pos) < 2 * HighFrames

(* The test of throttle on audio_queued_bytes, which is -1 without a       *)
(* stream; the level is counted in frames here.                            *)
BelowHigh ==
    \/ ~monitor
    \/ ~audio_stream
    \/ Dist(audio_write_pos, audio_read_pos) < HighFrames

(* throttle: go on when the fill level is below the high watermark ...     *)
ThrottlePass ==
    /\ apu = "throttle"
    /\ BelowHigh
    /\ forced' = 0
    /\ apu' = "queue"
    /\ UNCHANGED <<lifecycle, cursors, audio_ring, monitor, pw, pn, next, dropped, callback>>

(* ... or when pause_requested cuts the wait short: the frame is still run *)
(* before the thread parks.                                                *)
ThrottlePaused ==
    /\ apu = "throttle"
    /\ ~BelowHigh
    /\ forced < MaxForced
    /\ forced' = forced + 1
    /\ apu' = "queue"
    /\ UNCHANGED <<lifecycle, cursors, audio_ring, monitor, pw, pn, next, dropped, callback>>

(* audio_queue up to the copy loop: without a stream nothing is queued,    *)
(* otherwise the room decides how many of the frames are kept.             *)
QueueBegin ==
    /\ apu = "queue"
    /\ LET free == FreeFrames(audio_write_pos, audio_read_pos)
       IN  IF monitor /\ audio_stream
           THEN /\ pw' = audio_write_pos
                /\ pn' = MinOf(Chunk, free)
                /\ dropped' = (Chunk > free)
                /\ apu' = "copy"
           ELSE /\ apu' = "throttle"
                /\ UNCHANGED <<pw, pn, dropped>>
    /\ UNCHANGED <<lifecycle, cursors, audio_ring, monitor, next, forced, callback>>

QueueCopy ==
    /\ apu = "copy"
    /\ pn > 0
    /\ audio_ring' = [audio_ring EXCEPT ![Slot(pw)] = next]
    /\ next' = IF next + 1 = FrameMod THEN 0 ELSE next + 1
    /\ pw' = Inc(pw)
    /\ pn' = pn - 1
    /\ UNCHANGED <<lifecycle, cursors, apu, monitor, forced, dropped, callback>>

QueuePublish ==
    /\ apu = "copy"
    /\ pn = 0
    /\ audio_write_pos' = pw
    /\ apu' = "throttle"
    /\ UNCHANGED <<lifecycle, audio_read_pos, audio_ring, monitor, pw, pn, next, forced, dropped, callback>>

-----------------------------------------------------------------------------
(* The AAudio real-time thread: xemu_android_audio_data_callback.          *)

(* Mutant: the cursor is released before the frames are copied.            *)
CallbackBegin_EarlyStore(n) ==
    /\ live
    /\ cb = "idle"
    /\ cb' = "copy"
    /\ cr' = audio_read_pos
    /\ ca' = Dist(audio_write_pos, audio_read_pos)
    /\ cn' = n
    /\ cout' = <<>>
    /\ audio_read_pos' = audio_write_pos
    /\ UNCHANGED <<lifecycle, audio_write_pos, audio_ring, producer, played>>

CallbackBegin(n) ==
    /\ live
    /\ cb = "idle"
    /\ cb' = "copy"
    /\ cr' = audio_read_pos
    /\ ca' = Dist(audio_write_pos, audio_read_pos)
    /\ cn' = n
    /\ cout' = <<>>
    /\ UNCHANGED <<lifecycle, cursors, audio_ring, producer, played>>

CallbackCopy ==
    /\ cb = "copy"
    /\ cn > 0 /\ ca > 0
    /\ cout' = Append(cout, audio_ring[Slot(cr)])
    /\ cr' = Inc(cr)
    /\ ca' = ca - 1
    /\ cn' = cn - 1
    /\ UNCHANGED <<lifecycle, cursors, audio_ring, producer, cb, played>>

(* Mutant: the store of the read cursor is forgotten.                      *)
CallbackEnd_NoStore ==
    /\ cb = "copy"
    /\ cn = 0 \/ ca = 0
    /\ played' = cout /\ cout' = <<>> /\ ca' = 0 /\ cn' = 0 /\ cb' = "idle"
    /\ UNCHANGED <<lifecycle, cursors, audio_ring, producer, cr>>

(* The rest of the buffer is silence; the cursor is published.             *)
CallbackEnd ==
    /\ cb = "copy"
    /\ cn = 0 \/ ca = 0
    /\ audio_read_pos' = cr
    /\ played' = cout
    /\ cout' = <<>>
    /\ ca' = 0 /\ cn' = 0
    /\ cb' = "idle"
    /\ UNCHANGED <<lifecycle, audio_write_pos, audio_ring, producer, cr>>

-----------------------------------------------------------------------------
CoreStep == AudioInit \/ AudioInitAgain \/ CoreEnds \/ OpenFails \/ Publish \/ RequestStart \/ StartFails
            \/ ExitJoin \/ ResetWritePos \/ CloseStream
ApuStep == ThrottlePass \/ ThrottlePaused \/ QueueBegin \/ QueueCopy \/ QueuePublish
CallbackStep == (\E n \in 1..MaxBurst : CallbackBegin(n)) \/ CallbackCopy \/ CallbackEnd

Next == CoreStep \/ ApuStep \/ CallbackStep

(* The APU thread runs; AAudio keeps calling back while the stream is      *)
(* started.  Nothing obliges the core thread to open or close the stream.  *)
Fairness ==
    /\ WF_vars(ThrottlePass) /\ WF_vars(QueueBegin)
    /\ WF_vars(QueueCopy) /\ WF_vars(QueuePublish)
    /\ WF_vars(CallbackStep)

Spec == Init /\ [][Next]_vars
FairSpec == Spec /\ Fairness

-----------------------------------------------------------------------------
Fill == Dist(audio_write_pos, audio_read_pos)

(* The cursors never drift apart by more than the ring while a stream is   *)
(* published, whatever the two threads are in the middle of, across the    *)
(* wrap of the counters and a core that is started again on a stream that  *)
(* was left open: wpos - rpos is a fill level for audio_queue,             *)
(* audio_queued_bytes and the callback alike.                              *)
FillInRing == audio_stream => Fill <= RingFrames

(* The frames a callback still has to copy are never in the slot the       *)
(* producer is writing: "free_frames" and "available" keep the two copy    *)
(* loops apart although neither side takes a lock.                         *)
NoTornFrame ==
    (audio_stream /\ apu = "copy" /\ pn > 0 /\ cb = "copy" /\ ca > 0) =>
        Dist(pw, cr) < RingFrames /\ ca <= Dist(pw, cr)

(* Neither side reads or writes a frame that belongs to the other, at any  *)
(* point of audio_queue and of the data callback.                          *)
RingSafe == FillInRing /\ NoTornFrame

(* "Ring full (should be rare: apu.c throttles on the high watermark well  *)
(* before this)": a chunk loses frames only after so many pauses in a row  *)
(* cut the throttle short that the chunks they let through fill the room   *)
(* between the high watermark and the ring's size.                         *)
DropNeedsPauses ==
    (apu = "copy" /\ dropped) => (HighFrames - 1) + Chunk * (forced + 1) > RingFrames

(* The ring implements the FIFO: the queue is what lies between the        *)
(* cursors, and it is empty while no stream is published.                  *)
Fifo == INSTANCE AudioFifo WITH
    Capacity <- RingFrames,
    Frame <- Frames,
    open <- audio_stream,
    q <- IF audio_stream THEN [i \in 1..Fill |-> audio_ring[(audio_read_pos + (i - 1)) % RingFrames]]
         ELSE <<>>,
    played <- IF audio_stream THEN played ELSE <<>>

ImplementsFifo == Fifo!Spec

(* A throttled APU thread gets on: whenever the ring is at the high        *)
(* watermark the callbacks drain it and the thread passes the throttle, or *)
(* the core is torn down.                                                  *)
ThrottleEnds == (apu = "throttle") ~> (apu # "throttle")
=============================================================================
