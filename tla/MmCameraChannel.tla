-------------------------- MODULE MmCameraChannel --------------------------
(***************************************************************************)
(* The matching queue of a channel of libmmcamera_interface                *)
(* (mm_camera_channel.c): the frames that the streams of a channel deliver *)
(* are put together, frame number by frame number, into super-buffers,     *)
(* which the HAL gets when it asks for them (burst) or as they come        *)
(* (continuous).                                                           *)
(*                                                                         *)
(* One thread, CAM_SuperBufCB, runs mm_channel_process_stream_buf for every *)
(* frame and every command in the order they were queued, so a step of     *)
(* this module is one run of that function.  What is hard is not in the    *)
(* interleaving of its steps but in that of its inputs: the streams        *)
(* deliver at their own pace and lose frames, the metadata of a frame moves *)
(* the next frame the queue waits for, and the HAL asks, cancels and       *)
(* flushes at any time.                                                    *)
(***************************************************************************)
EXTENDS Integers, FiniteSets, Sequences, SequencesExt

CONSTANTS
    Meta,        \* the metadata stream
    Attrs,       \* the channels the HAL makes, and what happens to them: see attr
    Future,      \* MM_CAMERA_MAX_FUTURE_FRAME_WAIT
    DivertMod    \* 2^8: diverted_frame_id is a uint8_t

ASSUME NumbersAssumption == Future \in Nat /\ DivertMod \in Nat \ {0}
(* The only channel with LOW priority is that of the live snapshot
   (addSnapshotChannel): one stream besides the metadata. *)
ASSUME AttrsAssumption == \A a \in Attrs :
    /\ a.mode \in {"BURST", "CONTINUOUS"} /\ a.priority \in {"NORMAL", "LOW"}
    /\ {a.lookBack, a.water, a.unmatched, a.frameSkip, a.frames, a.pictures} \subseteq Nat
    /\ a.preps \subseteq {"future", "done"} /\ a.goods \subseteq [min : Nat, max : Nat, skip : Nat]
    /\ a.priority = "LOW" => \E s \in a.streams : a.streams \ {Meta} = {s}

VARIABLES
    attr,        \* the attributes of the channel and its environment
    last,        \* the last frame each stream delivered
    hal,         \* what the HAL is doing with the channel
    ch           \* the channel: mm_channel_t, its queue, and what it did

vars == <<attr, last, hal, ch>>

Frames == 1 .. attr.frames

(* A metadata buffer, as far as the channel reads it; "none" and frame 0
   stand for an entry the buffer does not have. *)
NoGood == [min |-> 0, max |-> 0, skip |-> 0]
NoMetadata == [prep |-> "none", good |-> NoGood, divert |-> 0, crop |-> FALSE]

NoFrames == [s \in attr.streams |-> 0]
Low == attr.priority = "LOW"

(* The frames in a node, and in a queue, as <<stream, frame>>. *)
Bufs(n) == {<<s, n.bufs[s]>> : s \in {s \in DOMAIN n.bufs : n.bufs[s] # 0}}
Queued(q) == UNION {Bufs(q[i]) : i \in DOMAIN q}

Init ==
    /\ attr \in Attrs
    /\ last = [s \in attr.streams |-> 0]
    /\ hal = [at |-> "idle", requests |-> 0, commands |-> 0]
    /\ ch = [q |-> <<>>, match_cnt |-> 0, expected |-> 0, good |-> 0,
             pending |-> 0, retro |-> 0, wait |-> FALSE,
             led |-> FALSE, started |-> FALSE, stop |-> FALSE, manual |-> FALSE,
             burst |-> 0, bracketing |-> "OFF", zoom |-> FALSE, diverted |-> 0,
             ledOff |-> 0, skip |-> 0, once |-> FALSE, unlock |-> FALSE,
             \* the frames outside the driver, those the HAL has, the frame of
             \* the last one it got, and whether the daemon takes a snapshot
             out |-> {}, sent |-> {}, shown |-> 0, zsl |-> FALSE]

-----------------------------------------------------------------------------
(* The queue. *)

(* mm_channel_qbuf of a set of frames: back to the driver. *)
Qbuf(c, bufs) == [c EXCEPT !.out = @ \ bufs]

(* mm_channel_superbuf_dequeue_internal: the head leaves the queue. *)
Dequeue(c) ==
    [c EXCEPT !.q = Tail(@), !.match_cnt = IF Head(c.q).matched THEN @ - 1 ELSE @]

HeadMatched(c) == c.q # <<>> /\ Head(c.q).matched
Drop(c) == Dequeue(Qbuf(c, Bufs(Head(c.q))))

(* A loop over the queue: at most once for each node it has. *)
Loop(Step(_), c) ==
    LET after[n \in 0 .. Len(c.q)] == IF n = 0 THEN c ELSE Step(after[n - 1])
    IN after[Len(c.q)]

(* Drop matched super-buffers until n are left.  The loop of the code would
   not end if the head were not matched. *)
KeepMatched(c, n) ==
    LET Step(d) == IF d.match_cnt > n /\ HeadMatched(d) THEN Drop(d) ELSE d
    IN IF attr.mode = "CONTINUOUS" THEN c ELSE Loop(Step, c)

(* mm_channel_superbuf_bufdone_overflow, mm_channel_superbuf_skip *)
Overflow(c) == KeepMatched(c, attr.water)
Skip(c) == KeepMatched(c, attr.lookBack)

(* mm_channel_superbuf_flush for all stream types, and
   mm_channel_superbuf_flush_matched. *)
Flush(c) == Loop(Drop, c)
FlushMatched(c) == Loop(LAMBDA d : IF HeadMatched(d) THEN Drop(d) ELSE d, c)

-----------------------------------------------------------------------------
(* mm_channel_handle_metadata: frame f of the metadata stream says m. *)

Divert(c, f, m) ==
    IF m.divert = 0 THEN c
    ELSE [c EXCEPT !.diverted = IF m.divert >= f THEN m.divert % DivertMod ELSE 0]

Zoom(c, f, m) ==
    IF m.crop THEN [c EXCEPT !.zoom = FALSE, !.expected = f + 1]
    ELSE FlushMatched([c EXCEPT !.expected = @ + Future])

(* Is the scene dark?  Then only a frame to come will do. *)
PrepDone(c, m) ==
    CASE m.prep = "none" -> c
      [] m.prep = "future" ->
            Flush([c EXCEPT !.wait = FALSE, !.expected = @ + Future, !.led = TRUE])
      [] OTHER -> [c EXCEPT !.wait = FALSE, !.led = FALSE]

GoodFrames(c, m) ==
    IF m.good # NoGood
    THEN LET d == [c EXCEPT !.expected = m.good.min, !.good = m.good.min,
                            !.bracketing = "ACTIVE"]
         IN IF c.led /\ c.burst > 1
            THEN [d EXCEPT !.ledOff = m.good.max, !.once = FALSE, !.skip = m.good.skip]
            ELSE d
    ELSE IF c.bracketing = "WAIT" /\ m.prep = "none"
    THEN [FlushMatched(c) EXCEPT !.expected = @ + Future]
    ELSE c

(* A burst whose remaining pictures are taken without the flash. *)
LedOff(c, f) ==
    IF c.burst > 1 /\ c.led /\ c.bracketing = "OFF" /\ f >= c.ledOff /\ ~c.once
    THEN [c EXCEPT !.expected = c.ledOff + c.skip, !.once = TRUE, !.stop = TRUE, !.led = FALSE]
    ELSE c

HandleMetadata(c, f, m) ==
    LET d == Divert(c, f, m)
    IN IF d.zoom THEN Zoom(d, f, m) ELSE LedOff(GoodFrames(PrepDone(d, m), m), f)

-----------------------------------------------------------------------------
(* mm_channel_superbuf_comp_and_enqueue: frame f of stream s. *)

(* mm_channel_validate_super_buf: an old frame that a node still waits for. *)
Awaited(c, f) == \E i \in DOMAIN c.q : c.q[i].expected /\ c.q[i].frame = f

(* A mutant of Fits: the closest metadata will do for every channel. *)
Fits_Closest(n, s, f) ==
    /\ ~n.matched
    /\ \/ n.frame = f
       \/ n.bufs[s] = 0 /\ s = Meta /\ n.frame < f

(* May frame f of stream s go into node n?  A live snapshot takes the
   metadata that is closest. *)
Fits(n, s, f) ==
    /\ ~n.matched
    /\ \/ n.frame = f
       \/ Low /\ n.bufs[s] = 0 /\ s = Meta /\ n.frame < f
       \/ Low /\ n.bufs[s] = 0 /\ s # Meta /\ n.meta > f

Least(S) == CHOOSE i \in S : \A j \in S : i <= j
First(S) == IF S = {} THEN 0 ELSE Least(S)

(* The unmatched nodes the search passes; the first of them that is older
   than f, and the first that is newer (0 for none). *)
Passed(c, pos) == {i \in DOMAIN c.q : i < pos /\ ~c.q[i].matched}
Older(c, pos, f) == First({i \in Passed(c, pos) : c.q[i].frame < f})
Newer(c, pos, f) == First({i \in Passed(c, pos) : c.q[i].frame > f})

(* The place of a node in the queue when the nodes in S have left it. *)
Place(c, S, i) == Cardinality({j \in DOMAIN c.q \ S : j <= i})

(* The nodes in S leave the queue. *)
Without(c, S) ==
    LET keep == DOMAIN c.q \ S
        kept(k) == CHOOSE i \in keep : Place(c, S, i) = k
    IN Qbuf([c EXCEPT !.q = [k \in 1 .. Cardinality(keep) |-> c.q[kept(k)]]],
            UNION {Bufs(c.q[i]) : i \in S})

(* Mutants of Complete: the older nodes stay; their frames do not go back. *)
Complete_KeepsOlder(c, pos, f) ==
    [c EXCEPT !.q[pos].matched = TRUE, !.q[pos].expected = FALSE,
              !.expected = f + attr.frameSkip, !.match_cnt = @ + 1]
Complete_Leaks(c, pos, f) ==
    LET d == Complete_KeepsOlder(c, pos, f)
        older == Older(c, pos, f)
    IN IF older = 0 THEN d ELSE [Without(d, older .. pos - 1) EXCEPT !.out = c.out]

(* A frame completes node pos, and the older nodes before it are given up;
   or it does not. *)
Complete(c, pos, f) ==
    LET older == Older(c, pos, f)
        d == [c EXCEPT !.q[pos].matched = TRUE, !.q[pos].expected = FALSE,
                       !.expected = f + attr.frameSkip, !.match_cnt = @ + 1]
    IN IF older = 0 THEN d ELSE Without(d, older .. pos - 1)

Incomplete(c, pos, f) ==
    IF c.diverted = f THEN [c EXCEPT !.q[pos].expected = TRUE, !.diverted = 0] ELSE c

Fill(c, pos, s, f) ==
    LET n == c.q[pos]
        d == IF n.meta > 0 THEN [c EXCEPT !.q[pos].meta = 0, !.q[pos].frame = f] ELSE c
        e == [d EXCEPT !.q[pos].bufs[s] = f]
    IN IF n.bufs[s] # 0 THEN Qbuf(d, {<<s, f>>})
       ELSE IF \A t \in attr.streams : e.q[pos].bufs[t] # 0 THEN Complete(e, pos, f)
       ELSE Incomplete(e, pos, f)

(* The first n of a set of nodes. *)
Earliest(S, n) == {i \in S : Cardinality({j \in S : j < i}) < n}

(* Too many nodes wait for a frame: which of them make room?  From the first
   older one on, those nobody waits for; failing that, that one itself. *)
MakeRoom(c, f, excess) ==
    LET older == Older(c, Len(c.q) + 1, f)
        idle == {i \in older .. Len(c.q) : ~c.q[i].expected /\ i # Newer(c, Len(c.q) + 1, f)}
    IN IF excess <= 0 THEN {}
       ELSE IF excess <= Cardinality(idle) THEN Earliest(idle, excess)
       ELSE idle \cup {older}

(* A mutant of Victims: a node too many may wait. *)
Victims_OneMore(c, f) ==
    MakeRoom(c, f, Cardinality(Passed(c, Len(c.q) + 1)) - attr.unmatched - 1)

Victims(c, f) == MakeRoom(c, f, Cardinality(Passed(c, Len(c.q) + 1)) - attr.unmatched)

(* A node for a frame that fits no other, before the first newer one. *)
AddNode(c, s, f) ==
    LET newer == Newer(c, Len(c.q) + 1, f)
        victims == Victims(c, f)
        d == Without(c, victims)
        at == IF newer = 0 THEN Len(d.q) + 1
              ELSE newer - Cardinality({i \in victims : i < newer})
        expected == c.diverted = f \/ c.good = f
        alone == attr.streams = {s}
        node == [frame |-> f, bufs |-> [NoFrames EXCEPT ![s] = f], matched |-> alone,
                 expected |-> expected /\ ~alone,
                 meta |-> IF Low /\ s = Meta THEN f ELSE 0]
    IN [d EXCEPT !.q = InsertAt(@, at, node),
                 !.diverted = IF expected THEN 0 ELSE @,
                 !.expected = IF alone THEN f + attr.frameSkip ELSE @,
                 !.match_cnt = IF alone THEN @ + 1 ELSE @]

Enqueue(c, s, f) ==
    LET fits == {i \in DOMAIN c.q : Fits(c.q[i], s, f)}
        waiting == Passed(c, Len(c.q) + 1)
    IN IF f < c.expected /\ ~Awaited(c, f) THEN Qbuf(c, {<<s, f>>})
       ELSE IF fits # {} THEN Fill(c, Least(fits), s, f)
       ELSE IF attr.unmatched < Cardinality(waiting) /\ Older(c, Len(c.q) + 1, f) = 0
       THEN Qbuf(c, {<<s, f>>})
       ELSE AddNode(c, s, f)

-----------------------------------------------------------------------------
(* mm_channel_process_stream_buf: what it does after any input. *)

StopZsl(c) ==
    [c EXCEPT !.zsl = FALSE, !.started = FALSE, !.led = FALSE, !.burst = 0,
              !.stop = FALSE, !.unlock = TRUE, !.bracketing = "OFF"]

(* A mutant of ZslOver: whoever started the snapshot. *)
ZslOver_Manual(c) == (c.pending = 0 \/ c.stop) /\ c.started

(* Tell the daemon to take a snapshot, or that it is over. *)
ZslOver(c) == (c.pending = 0 \/ c.stop) /\ ~c.manual /\ c.started

ZslControl(c) ==
    IF c.pending > 0 /\ (c.led \/ c.bracketing # "OFF") /\ ~c.manual /\ ~c.started
    THEN [c EXCEPT !.zsl = TRUE, !.started = TRUE, !.burst = c.pending, !.wait = FALSE]
    ELSE IF ZslOver(c) THEN [StopZsl(c) EXCEPT !.wait = FALSE]
    ELSE c

(* A request is counted down by the super-buffers it gets; after the last
   one of the past the HAL prepares the snapshot, and the rest must wait. *)
CountDown(c) ==
    IF attr.mode # "BURST" THEN c
    ELSE LET d == [c EXCEPT !.pending = @ - 1,
                            !.wait = IF c.retro = 1 THEN TRUE ELSE @,
                            !.retro = IF @ > 0 THEN @ - 1 ELSE @]
         IN IF ZslOver(d) THEN StopZsl(d) ELSE d

(* mm_channel_send_super_buf *)
Send(c, n) ==
    [c EXCEPT !.sent = @ \cup {[bufs |-> n.bufs, ready |-> c.wait, unlock |-> c.unlock]},
              !.shown = n.frame, !.unlock = FALSE]

Wanted(c) == (c.pending > 0 \/ attr.mode = "CONTINUOUS") /\ ~c.wait
Deliver(c) ==
    IF Wanted(c) /\ HeadMatched(c) THEN Send(CountDown(Dequeue(c)), Head(c.q)) ELSE c

(* A mutant of Process: one super-buffer at a time. *)
Process_One(c) == Deliver(Overflow(ZslControl(c)))

Process(c) == Loop(Deliver, Overflow(ZslControl(c)))

-----------------------------------------------------------------------------
(* A stream delivers a frame, which takes one of its buffers from the driver. *)
Data(s, f, m) ==
    LET taken == [ch EXCEPT !.out = @ \cup {<<s, f>>}]
    IN /\ Cardinality({b \in ch.out : b[1] = s}) < attr.bufNum
       /\ f > last[s]
       /\ last' = [last EXCEPT ![s] = f]
       /\ ch' = Process(Enqueue(IF s = Meta THEN HandleMetadata(taken, f, m) ELSE taken, s, f))
       /\ UNCHANGED <<attr, hal>>

(* The entries of the metadata of frame f: good frames are yet to come, a
   diverted one is not older than its metadata. *)
MetadataOf(f) ==
    {NoMetadata}
    \cup {[NoMetadata EXCEPT !.prep = p] : p \in attr.preps}
    \cup {[NoMetadata EXCEPT !.good = g] : g \in {g \in attr.goods : g.min >= f}}
    \cup {[NoMetadata EXCEPT !.divert = d] : d \in IF attr.diverts THEN Frames ELSE {}}
    \cup {[NoMetadata EXCEPT !.crop = TRUE] : x \in IF ch.zoom THEN {1} ELSE {}}

StreamFrame ==
    \E s \in attr.streams, f \in Frames :
        \E m \in IF s = Meta THEN MetadataOf(f) ELSE {NoMetadata} : Data(s, f, m)

(* A mutant of Req: more pictures of the past than pictures. *)
Req_Unclamped(c, n, r) ==
    Skip([c EXCEPT !.pending = n, !.retro = r, !.wait = FALSE, !.stop = FALSE,
                   !.unlock = FALSE, !.led = IF r > 0 THEN FALSE ELSE @])

(* takePicture: mm_channel_request_super_buf for n pictures, r of the past. *)
Req(c, n, r) ==
    LET retro == IF n = 0 \/ r > n THEN n ELSE r
    IN Skip([c EXCEPT !.pending = n, !.retro = retro, !.wait = FALSE, !.stop = FALSE,
                      !.unlock = FALSE, !.led = IF retro > 0 THEN FALSE ELSE @])

Request(n, r) ==
    /\ hal.at \in {"idle", "started", "picture"}
    /\ hal.requests < attr.requests
    /\ hal' = [hal EXCEPT !.at = "picture", !.requests = @ + 1]
    /\ ch' = Process(Req(ch, n, r))
    /\ UNCHANGED <<attr, last>>

(* cancelPicture: mm_channel_cancel_super_buf_request.  When a long shot is
   switched off the snapshot is to be stopped next; when the application
   cancels it, it is not. *)
Cancel ==
    /\ hal.at = "picture"
    /\ \E at \in {"idle"} \cup IF ch.manual THEN {"stopping"} ELSE {} : hal' = [hal EXCEPT !.at = at]
    /\ ch' = Process(Req(ch, 0, 0))
    /\ UNCHANGED <<attr, last>>

Command == hal.commands < attr.commands

(* A long shot starts the snapshot itself before it asks for pictures. *)
StartZslSnapshot ==
    /\ Command /\ attr.longshot /\ hal.at \in {"idle", "picture"}
    /\ hal' = [hal EXCEPT !.at = "started", !.commands = @ + 1]
    /\ ch' = Process([ch EXCEPT !.manual = TRUE, !.zsl = TRUE])
    /\ UNCHANGED <<attr, last>>

StopZslSnapshot ==
    /\ hal.at = "stopping"
    /\ hal' = [hal EXCEPT !.at = "idle"]
    /\ ch' = Process([ch EXCEPT !.manual = FALSE, !.zsl = FALSE])
    /\ UNCHANGED <<attr, last>>

(* flushSuperbuffer, when the lens is in focus: frames before f are not
   wanted.  This command leaves mm_channel_process_stream_buf at once. *)
FlushQueue(f) ==
    /\ Command /\ attr.flushes
    /\ hal' = [hal EXCEPT !.commands = @ + 1]
    /\ ch' = Flush([ch EXCEPT !.expected = f])
    /\ UNCHANGED <<attr, last>>

(* process_advanced_capture: exposure or focus bracketing, or zoom 1x, on or off. *)
Advanced(field, value) ==
    /\ Command /\ attr.advanced
    /\ hal' = [hal EXCEPT !.commands = @ + 1]
    /\ ch' = Process([Flush(ch) EXCEPT ![field] = value])
    /\ UNCHANGED <<attr, last>>

(* The HAL is done with a super-buffer: mm_camera_qbuf of its frames. *)
Return(b) ==
    /\ ch' = [Qbuf(ch, {<<s, b.bufs[s]>> : s \in attr.streams}) EXCEPT !.sent = @ \ {b}]
    /\ UNCHANGED <<attr, last, hal>>

Next ==
    \/ StreamFrame
    \/ \E n \in 1 .. attr.pictures, r \in 0 .. attr.pictures : Request(n, r)
    \/ Cancel
    \/ StartZslSnapshot
    \/ StopZslSnapshot
    \/ \E f \in Frames : FlushQueue(f)
    \/ \E s \in {"WAIT", "OFF"} : Advanced("bracketing", s)
    \/ \E z \in BOOLEAN : Advanced("zoom", z)
    \/ \E b \in ch.sent : Return(b)

Spec == Init /\ [][Next]_vars

-----------------------------------------------------------------------------
Node == [frame : Frames, bufs : [attr.streams -> 0 .. attr.frames], matched : BOOLEAN,
         expected : BOOLEAN, meta : 0 .. attr.frames]

(* Type invariant: every node has a frame, pending_cnt never wraps, and the
   past pictures a request waits for are among the pictures it waits for
   (pending_retro_cnt <= pending_cnt). *)
TypeOK ==
    /\ attr \in Attrs
    /\ last \in [attr.streams -> 0 .. attr.frames]
    /\ hal.at \in {"idle", "started", "picture", "stopping"}
    /\ ch.q \in Seq(Node)
    /\ \A i \in DOMAIN ch.q : Bufs(ch.q[i]) # {}
    /\ ch.pending \in 0 .. attr.pictures /\ ch.retro \in 0 .. ch.pending
    /\ ch.match_cnt \in Nat /\ ch.expected \in Nat /\ ch.good \in Nat
    /\ ch.bracketing \in {"OFF", "WAIT", "ACTIVE"}
    /\ ch.diverted \in 0 .. DivertMod - 1

(* A frame that left the driver is in the queue or with the HAL, and in one
   place only: whatever path a node takes out of the queue, its frames go
   back (mm_channel_qbuf), and none goes back while somebody has it. *)
NoBufferLost ==
    LET places == [i \in DOMAIN ch.q |-> Bufs(ch.q[i])]
        held == {{<<s, b.bufs[s]>> : s \in attr.streams} : b \in ch.sent}
    IN /\ ch.out = Queued(ch.q) \cup UNION held
       /\ \A i, j \in DOMAIN ch.q : i # j => places[i] \cap places[j] = {}
       /\ Queued(ch.q) \cap UNION held = {}

(* The matched nodes are the first of the queue, and match_cnt counts them.
   mm_channel_superbuf_bufdone_overflow relies on it: with match_cnt over the
   mark and an unmatched head its loop would spin for ever. *)
MatchedFirst ==
    /\ \A i, j \in DOMAIN ch.q : ch.q[j].matched /\ i < j => ch.q[i].matched
    /\ ch.match_cnt = Cardinality({i \in DOMAIN ch.q : ch.q[i].matched})

(* The queue keeps a stream's buffers within the number the HAL allots
   (getBufNumRequired): between two inputs at most the water mark of matched
   nodes and one more than max_unmatched_frames of the others, so the driver
   is never starved by the queue alone. *)
QueueBound ==
    /\ Cardinality({i \in DOMAIN ch.q : ch.q[i].matched}) <= attr.water
    /\ Cardinality({i \in DOMAIN ch.q : ~ch.q[i].matched}) <= attr.unmatched + 1
    /\ \A s \in attr.streams : Cardinality({b \in Queued(ch.q) : b[1] = s}) < attr.bufNum

(* A request is not kept waiting by a queue that has what it asks for. *)
NothingWithheld == Wanted(ch) => \A i \in DOMAIN ch.q : ~ch.q[i].matched

(* The daemon is in snapshot mode exactly while the channel or the HAL wants
   it: no start without its stop, in whatever order requests, cancellations,
   long shots and metadata come; and not for a request that is over. *)
ZslPaired ==
    /\ ch.zsl = (ch.manual \/ ch.started)
    /\ ch.started => ch.manual \/ (ch.pending > 0 /\ ~ch.stop)

(* What the HAL gets: a frame of every stream, all of one number (but for the
   metadata of a live snapshot), and no super-buffer after a newer one. *)
InOrder ==
    [][\A b \in ch'.sent \ ch.sent :
          /\ \A s, t \in attr.streams \ (IF Low THEN {Meta} ELSE {}) : b.bufs[s] = b.bufs[t]
          /\ \A s \in attr.streams : b.bufs[s] # 0
          /\ \E s \in attr.streams : b.bufs[s] > ch.shown /\ b.bufs[s] <= ch'.shown]_vars
=============================================================================
