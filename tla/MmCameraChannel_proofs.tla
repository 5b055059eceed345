----------------------- MODULE MmCameraChannel_proofs ----------------------
(***************************************************************************)
(* What is proved of the matching queue of libmmcamera_interface for every *)
(* set of streams, every size of the queue, any number of frames, pictures *)
(* and commands, and every order in which they come.                       *)
(*                                                                         *)
(* The invariant is Kept, of the queue, with Paired, of the snapshot mode. *)
(* Kept has six parts: the types; Made, what the frames of a node have to  *)
(* do with its number; Lined, the matched nodes first; Sorted, newer nodes *)
(* after older ones, and all after what the HAL has; Seen, no frame is     *)
(* newer than the last of its stream; and Held, each frame outside the     *)
(* driver is in one node, in one super-buffer, or in hand: in the course   *)
(* of a step one frame is neither queued nor given back yet.               *)
(*                                                                         *)
(* A step is a composition of operations, each of which keeps Kept: the    *)
(* metadata (MetadataGoes), the frame into its node (EnqueueKeeps), the    *)
(* requests (ReqGoes) and what follows every input (ProcessKeeps).         *)
(***************************************************************************)
EXTENDS MmCameraChannel, TLAPS, FiniteSetTheorems, SequenceTheorems,
        WellFoundedInduction

\* What a stream may lack in a node of a number: with LOW priority the
\* metadata may be of a later frame.
Loose == IF Low THEN {Meta} ELSE {}

\* The channel.
Super == [bufs : [attr.streams -> Frames], ready : BOOLEAN, unlock : BOOLEAN]

\* The sets of which the fields of the channel are elements.
Queues == Seq(Node)
Outs == SUBSET (attr.streams \X Frames)
Sents == SUBSET Super

\* mm_channel_t: the queue, the state of the snapshot, and what was sent.
Channel ==
    [q : Queues, match_cnt : Int, expected : Nat, good : Nat,
     pending : 0 .. attr.pictures, retro : 0 .. attr.pictures, wait : BOOLEAN,
     led : BOOLEAN, started : BOOLEAN, stop : BOOLEAN, manual : BOOLEAN,
     burst : Nat, bracketing : {"OFF", "WAIT", "ACTIVE"}, zoom : BOOLEAN,
     diverted : 0 .. DivertMod - 1, ledOff : Nat, skip : Nat, once : BOOLEAN,
     unlock : BOOLEAN, out : Outs, sent : Sents,
     shown : 0 .. attr.frames, zsl : BOOLEAN]

\* A channel whose retroactive pictures are among those it waits for.
Typed(c) ==
    /\ c \in Channel
    /\ c.retro <= c.pending
    /\ c.wait => attr.mode = "BURST"

\* The frames of a node.
Made(n) ==
    /\ \E s \in attr.streams : n.bufs[s] = n.frame
    /\ n.meta = 0 => \E s \in attr.streams \ Loose : n.bufs[s] = n.frame
    /\ n.matched => \A s \in attr.streams : n.bufs[s] # 0
    /\ \A s \in attr.streams \ Loose : n.bufs[s] \in {0, n.frame}
          \/ n.meta > 0
    /\ \A s \in Loose \cap attr.streams : n.bufs[s] = 0 \/ n.bufs[s] >= n.frame
    /\ n.meta > 0 => /\ Low /\ Meta \in attr.streams /\ n.meta = n.frame
                          /\ ~n.matched
                     /\ \A s \in attr.streams : n.bufs[s] = IF s = Meta
                          THEN n.frame ELSE 0

\* The matched nodes are the first of the queue; few others follow them.
Lined(c) ==
    /\ c.match_cnt \in 0 .. Len(c.q)
    /\ \A i \in 1 .. Len(c.q) : c.q[i].matched <=> i <= c.match_cnt
    /\ Len(c.q) <= c.match_cnt + attr.unmatched + 1
    /\ \A s \in attr.streams : attr.streams = {s} => c.match_cnt = Len(c.q)

\* The queue is in order, and nothing in it is older than what the HAL got.
Sorted(c) ==
    /\ \A i, j \in 1 .. Len(c.q) : i < j => c.q[i].frame < c.q[j].frame
    /\ \A i \in 1 .. Len(c.q) : c.shown < c.q[i].frame

\* No frame is newer than the last of its stream.
Seen(c, l) ==
    /\ \A i \in 1 .. Len(c.q), s \in attr.streams : c.q[i].bufs[s] <= l[s]
    /\ \A s \in attr.streams : c.shown <= l[s]
    /\ \A s \in attr.streams, f \in Frames : <<s, f>> \in c.out => f <= l[s]

\* x is in hand: a frame that is neither queued nor given back.
Held(c, x) ==
    /\ \A s \in attr.streams, f \in Frames :
          <<s, f>> \in c.out <=> \/ \E i \in 1 .. Len(c.q) : c.q[i].bufs[s] = f
                                 \/ \E b \in c.sent : b.bufs[s] = f
                                 \/ <<s, f>> \in x
    /\ \A i, j \in 1 .. Len(c.q), s \in attr.streams :
          c.q[i].bufs[s] = c.q[j].bufs[s] /\ c.q[i].bufs[s] # 0 => i = j
    /\ \A a, b \in c.sent, s \in attr.streams : a.bufs[s] = b.bufs[s] => a = b
    /\ \A i \in 1 .. Len(c.q), b \in c.sent, s \in attr.streams :
         c.q[i].bufs[s] # b.bufs[s]
    /\ \A s \in attr.streams, f \in Frames : <<s, f>> \in x =>
          /\ \A i \in 1 .. Len(c.q) : c.q[i].bufs[s] # f
          /\ \A b \in c.sent : b.bufs[s] # f
          /\ c.shown < f

\* What every operation on the channel keeps.
Kept(c, l, x) ==
    /\ Typed(c)
    /\ \A i \in 1 .. Len(c.q) : Made(c.q[i])
    /\ Lined(c) /\ Sorted(c) /\ Seen(c, l) /\ Held(c, x)

\* The daemon is in snapshot mode for the channel or for the HAL.
Shooting(c) ==
    /\ c.zsl = (c.manual \/ c.started)
    /\ c.burst > 0 \/ c.stop => c.started

\* And the channel is in it only while a request needs it.
Paired(c) == Shooting(c)
  /\ (c.started => c.manual \/ (c.pending > 0 /\ ~c.stop))

\* What the HAL is doing.
Hals == [at : {"idle", "started", "picture", "stopping"}, requests : Nat,
  commands : Nat]

\* What a whole step keeps.
Holds(l, h, c) ==
    /\ attr \in Attrs
    /\ l \in [attr.streams -> 0 .. attr.frames]
    /\ h \in Hals
    /\ h.at = "stopping" => c.pending = 0
    /\ Kept(c, l, {})
    /\ c.match_cnt <= attr.water
    /\ Wanted(c) => c.match_cnt = 0
    /\ Paired(c)

\* The inductive invariant.
IInv == Holds(last, hal, ch)

\* One round of each of the loops over the queue.
StepOf(loop, n, c) ==
    CASE loop = "flush" -> Drop(c)
      [] loop = "keep" -> IF c.match_cnt > n /\ HeadMatched(c) THEN Drop(c)
        ELSE c
      [] loop = "matched" -> IF HeadMatched(c) THEN Drop(c) ELSE c
      [] loop = "deliver" -> Deliver(c)

\* r are the states of the channel in the course of a loop.
Rounds(loop, n, c, r) ==
    /\ DOMAIN r = 0 .. Len(c.q)
    /\ r[0] = c
    /\ \A k \in 1 .. Len(c.q) : r[k] = StepOf(loop, n, r[k - 1])

\* The same, as a recursive function.
Loops(loop, m, c, N, r) ==
    r = [n \in 0 .. N |-> IF n = 0 THEN c ELSE StepOf(loop, m, r[n - 1])]

\* A set of numbers has a least one.
LEMMA LeastNatural ==
    ASSUME NEW S, S \subseteq Nat, S # {}
    PROVE  \E n \in S : \A m \in S : n <= m
<1>1. PICK n \in S : \A m \in S : ~ (<<m, n>> \in OpToRel(<, Nat))
  BY NatLessThanWellFounded, WFMin
<1>2. \A m \in S : ~ (m < n)
  BY <1>1 DEF OpToRel
<1> QED  BY <1>2

\* Every loop has its rounds.
LEMMA RoundsExist ==
    ASSUME NEW loop, NEW m, NEW c, NEW N \in Nat
    PROVE  \E r : Loops(loop, m, c, N, r)
<1> DEFINE P(n) == \E r : Loops(loop, m, c, n, r)
           Bad == {n \in Nat : ~P(n)}
<1>0. SUFFICES ASSUME Bad # {} PROVE FALSE
  OBVIOUS
<1>1. PICK n \in Bad : \A k \in Bad : n <= k
  <2> HIDE DEF P
  <2> QED  BY <1>0, LeastNatural
<1>2. CASE n = 0
  <2> DEFINE r == [k \in 0 .. 0 |-> c]
  <2>1. r = [k \in 0 .. 0 |-> IF k = 0 THEN c ELSE StepOf(loop, m, r[k - 1])]
    OBVIOUS
  <2> QED  BY <2>1, <1>2 DEF Loops
<1>3. CASE n # 0
  <2>1. P(n - 1)
    <3> HIDE DEF P
    <3> QED  BY <1>1, <1>3
  <2>2. PICK r : r = [k \in 0 .. n - 1 |-> IF k = 0 THEN c
          ELSE StepOf(loop, m, r[k - 1])]
    BY <2>1 DEF Loops
  <2> DEFINE s == [k \in 0 .. n |-> IF k = n THEN StepOf(loop, m, r[n - 1])
               ELSE r[k]]
  <2>3. s = [k \in 0 .. n |-> IF k = 0 THEN c ELSE StepOf(loop, m, s[k - 1])]
    <3> HIDE DEF s
    <3>1. ASSUME NEW k \in 0 .. n
          PROVE  s[k] = IF k = 0 THEN c ELSE StepOf(loop, m, s[k - 1])
      BY <2>2, <1>3 DEF s
    <3> QED  BY <3>1 DEF s
  <2> QED  BY <2>3 DEF Loops
<1> QED  BY <1>2, <1>3

\* The rounds of the four loops.
LEMMA RoundsOf ==
    ASSUME NEW d, NEW n
    PROVE  /\ StepOf("flush", n, d) = Drop(d)
           /\ StepOf("keep", n, d) = IF d.match_cnt > n /\ HeadMatched(d)
                THEN Drop(d) ELSE d
           /\ StepOf("matched", n, d) = IF HeadMatched(d) THEN Drop(d) ELSE d
           /\ StepOf("deliver", n, d) = Deliver(d)
BY DEF StepOf

\* mm_channel_superbuf_flush is a loop.
LEMMA FlushRounds ==
    ASSUME NEW c, Len(c.q) \in Nat
    PROVE  \E r : Rounds("flush", 0, c, r) /\ Flush(c) = r[Len(c.q)]
<1> DEFINE after == CHOOSE r : r = [n \in 0 .. Len(c.q) |-> IF n = 0 THEN c
             ELSE Drop(r[n - 1])]
<1>1. after = [n \in 0 .. Len(c.q) |-> IF n = 0 THEN c ELSE Drop(after[n - 1])]
  <2> HIDE DEF after
  <2>1. PICK r : Loops("flush", 0, c, Len(c.q), r)
    BY RoundsExist
  <2>2. r = [n \in 0 .. Len(c.q) |-> IF n = 0 THEN c ELSE Drop(r[n - 1])]
    <3>1. ASSUME NEW n \in 0 .. Len(c.q)
          PROVE  StepOf("flush", 0, r[n - 1]) = (Drop(r[n - 1]))
      BY RoundsOf
    <3> QED  BY <2>1, <3>1 DEF Loops
  <2> QED  BY <2>2 DEF after
<1>2. Flush(c) = after[Len(c.q)]
  BY DEF Flush, Loop
<1> HIDE DEF after
<1>3. DOMAIN after = 0 .. Len(c.q) /\ after[0] = c
  BY <1>1
<1>4. ASSUME NEW k \in 1 .. Len(c.q) PROVE after[k]
               = StepOf("flush", 0, after[k - 1])
  BY <1>1, RoundsOf
<1> QED  BY <1>2, <1>3, <1>4 DEF Rounds

\* mm_channel_superbuf_flush_matched is a loop.
LEMMA FlushMatchedRounds ==
    ASSUME NEW c, Len(c.q) \in Nat
    PROVE  \E r : Rounds("matched", 0, c, r) /\ FlushMatched(c) = r[Len(c.q)]
<1> DEFINE after ==
      CHOOSE r : r = [n \in 0 .. Len(c.q) |->
                        IF n = 0 THEN c
                        ELSE IF HeadMatched(r[n - 1]) THEN Drop(r[n - 1])
                          ELSE r[n - 1]]
<1>1. after = [n \in 0 .. Len(c.q) |->
                 IF n = 0 THEN c
                 ELSE IF HeadMatched(after[n - 1]) THEN Drop(after[n - 1])
                   ELSE after[n - 1]]
  <2> HIDE DEF after
  <2>1. PICK r : Loops("matched", 0, c, Len(c.q), r)
    BY RoundsExist
  <2>2. r = [n \in 0 .. Len(c.q) |-> IF n = 0 THEN c
          ELSE IF HeadMatched(r[n - 1]) THEN Drop(r[n - 1]) ELSE r[n - 1]]
    <3>1. ASSUME NEW n \in 0 .. Len(c.q)
          PROVE  StepOf("matched", 0, r[n - 1])
                   = (IF HeadMatched(r[n - 1]) THEN Drop(r[n - 1])
                     ELSE r[n - 1])
      BY RoundsOf
    <3> QED  BY <2>1, <3>1 DEF Loops
  <2> QED  BY <2>2 DEF after
<1>2. FlushMatched(c) = after[Len(c.q)]
  BY DEF FlushMatched, Loop
<1> HIDE DEF after
<1>3. DOMAIN after = 0 .. Len(c.q) /\ after[0] = c
  BY <1>1
<1>4. ASSUME NEW k \in 1 .. Len(c.q) PROVE after[k]
               = StepOf("matched", 0, after[k - 1])
  BY <1>1, RoundsOf
<1> QED  BY <1>2, <1>3, <1>4 DEF Rounds

\* So are mm_channel_superbuf_bufdone_overflow and mm_channel_superbuf_skip.
LEMMA KeepRounds ==
    ASSUME NEW c, Len(c.q) \in Nat, NEW m, attr.mode # "CONTINUOUS"
    PROVE  \E r : Rounds("keep", m, c, r) /\ KeepMatched(c, m) = r[Len(c.q)]
<1> DEFINE after ==
      CHOOSE r : r = [n \in 0 .. Len(c.q) |->
                        IF n = 0 THEN c
                        ELSE IF r[n - 1].match_cnt > m /\ HeadMatched(r[n - 1])
                             THEN Drop(r[n - 1]) ELSE r[n - 1]]
<1>1. after = [n \in 0 .. Len(c.q) |->
                 IF n = 0 THEN c
                 ELSE IF after[n - 1].match_cnt > m
                   /\ HeadMatched(after[n - 1])
                      THEN Drop(after[n - 1]) ELSE after[n - 1]]
  <2> HIDE DEF after
  <2>1. PICK r : Loops("keep", m, c, Len(c.q), r)
    BY RoundsExist
  <2>2. r = [n \in 0 .. Len(c.q) |-> IF n = 0 THEN c
          ELSE IF r[n - 1].match_cnt > m /\ HeadMatched(r[n - 1])
                             THEN Drop(r[n - 1]) ELSE r[n - 1]]
    <3>1. ASSUME NEW n \in 0 .. Len(c.q)
          PROVE  StepOf("keep", m, r[n - 1])
                   = (IF r[n - 1].match_cnt > m /\ HeadMatched(r[n - 1])
                             THEN Drop(r[n - 1]) ELSE r[n - 1])
      BY RoundsOf
    <3> QED  BY <2>1, <3>1 DEF Loops
  <2> QED  BY <2>2 DEF after
<1>2. KeepMatched(c, m) = after[Len(c.q)]
  BY DEF KeepMatched, Loop
<1> HIDE DEF after
<1>3. DOMAIN after = 0 .. Len(c.q) /\ after[0] = c
  BY <1>1
<1>4. ASSUME NEW k \in 1 .. Len(c.q) PROVE after[k]
               = StepOf("keep", m, after[k - 1])
  BY <1>1, RoundsOf
<1> QED  BY <1>2, <1>3, <1>4 DEF Rounds

\* So is the delivery at the end of mm_channel_process_stream_buf.
LEMMA DeliverRounds ==
    ASSUME NEW c, NEW d, d = Overflow(ZslControl(c)), Len(d.q) \in Nat
    PROVE  \E r : Rounds("deliver", 0, d, r) /\ Process(c) = r[Len(d.q)]
<1> DEFINE after == CHOOSE r : r = [n \in 0 .. Len(d.q) |-> IF n = 0 THEN d
             ELSE Deliver(r[n - 1])]
<1>1. after = [n \in 0 .. Len(d.q) |-> IF n = 0 THEN d
        ELSE Deliver(after[n - 1])]
  <2> HIDE DEF after
  <2>1. PICK r : Loops("deliver", 0, d, Len(d.q), r)
    BY RoundsExist
  <2>2. r = [n \in 0 .. Len(d.q) |-> IF n = 0 THEN d ELSE Deliver(r[n - 1])]
    <3>1. ASSUME NEW n \in 0 .. Len(d.q)
          PROVE  StepOf("deliver", 0, r[n - 1]) = (Deliver(r[n - 1]))
      BY RoundsOf
    <3> QED  BY <2>1, <3>1 DEF Loops
  <2> QED  BY <2>2 DEF after
<1>2. Process(c) = after[Len(d.q)]
  BY DEF Process, Loop
<1> HIDE DEF after
<1>3. DOMAIN after = 0 .. Len(d.q) /\ after[0] = d
  BY <1>1
<1>4. ASSUME NEW k \in 1 .. Len(d.q) PROVE after[k]
               = StepOf("deliver", 0, after[k - 1])
  BY <1>1, RoundsOf
<1> QED  BY <1>2, <1>3, <1>4 DEF Rounds

---------------------------------------------------------------------------
(* The records of the channel                                              *)

\* The constants of the channel.
\* The attributes of a channel.
LEMMA AttrIs ==
    ASSUME attr \in Attrs
    PROVE  /\ attr.mode \in {"BURST", "CONTINUOUS"}
                /\ attr.priority \in {"NORMAL", "LOW"}
           /\ attr.lookBack \in Nat /\ attr.water \in Nat
                /\ attr.unmatched \in Nat
           /\ attr.frameSkip \in Nat /\ attr.frames \in Nat
                /\ attr.pictures \in Nat
           /\ attr.preps \subseteq {"future", "done"}
           /\ attr.goods \subseteq [min : Nat, max : Nat, skip : Nat]
           /\ Low => \E s : attr.streams \ {Meta} = {s}
BY AttrsAssumption DEF Low

\* The frames of a node.
LEMMA BufsAre ==
    ASSUME NEW n \in Node, NEW s, NEW f
    PROVE  <<s, f>> \in Bufs(n) <=> s \in attr.streams /\ f = n.bufs[s]
             /\ f # 0
BY DEF Bufs, Node

\* The nodes of the queue.
LEMMA NodeIs ==
    ASSUME NEW c, Typed(c), NEW i \in 1 .. Len(c.q)
    PROVE  /\ c.q[i] \in Node
           /\ c.q[i].frame \in Frames
           /\ c.q[i].bufs \in [attr.streams -> 0 .. attr.frames]
<1>1. c.q \in Seq(Node)
  BY DEF Typed, Channel, Queues
<1>2. c.q[i] \in Node
  BY <1>1
<1> QED  BY <1>2 DEF Node

---------------------------------------------------------------------------
(* Taking the head out of the queue                                        *)

\* d is c with other nodes, counters of them and frames outside the driver.
Trimmed(c, d) == d = [c EXCEPT !.q = d.q, !.match_cnt = d.match_cnt, !.out
  = d.out]

\* The head leaves the queue and its frames go back.
LEMMA DropIs ==
    ASSUME NEW c, Typed(c), c.q # <<>>
    PROVE  /\ Trimmed(c, Drop(c))
           /\ Drop(c).q = Tail(c.q)
           /\ Drop(c).match_cnt = IF c.q[1].matched THEN c.match_cnt - 1
                ELSE c.match_cnt
           /\ Drop(c).out = c.out \ Bufs(c.q[1])
           /\ Drop(c) \in Channel
<1>1. c \in Channel /\ c.q \in Seq(Node) /\ Len(c.q) \in Nat \ {0}
        /\ Head(c.q) = c.q[1]
  BY DEF Typed, Channel, Queues
<1> DEFINE m == IF c.q[1].matched THEN c.match_cnt - 1 ELSE c.match_cnt
           q == Tail(c.q)
           o == c.out \ Bufs(c.q[1])
<1>2. Drop(c) = [c EXCEPT !.q = q, !.match_cnt = m, !.out = o]
  BY <1>1 DEF Drop, Dequeue, Qbuf, Channel
<1>3. q \in Queues
  BY <1>1 DEF Queues
<1>4. m \in Int /\ o \in Outs
  BY <1>1 DEF Channel, Outs
<1>5. Drop(c) \in Channel /\ Drop(c).q = q /\ Drop(c).match_cnt = m
        /\ Drop(c).out = o
  <2>1. c \in Channel
    BY <1>1
  <2> DEFINE d == Drop(c)
  <2>2. d = [c EXCEPT !.q = q, !.match_cnt = m, !.out = o]
    BY <1>2
  <2> HIDE DEF m, q, o, d
  <2>3. d \in Channel
    BY <2>1, <2>2, <1>3, <1>4 DEF Channel
  <2>4. d.q = q /\ d.match_cnt = m /\ d.out = o
    BY <2>1, <2>2 DEF Channel
  <2> QED  BY <2>3, <2>4 DEF d
<1>6. Trimmed(c, Drop(c))
  <2> HIDE DEF m, q, o
  <2> QED  BY <1>2, <1>5 DEF Trimmed
<1> QED  BY <1>5, <1>6

\* The rest of a sequence.
LEMMA TailIs ==
    ASSUME NEW T, NEW q \in Seq(T), q # <<>>
    PROVE  /\ Tail(q) \in Seq(T) /\ Len(Tail(q)) = Len(q) - 1
                /\ Len(q) \in Nat \ {0}
           /\ \A i \in 1 .. Len(q) - 1 : Tail(q)[i] = q[i + 1]
OBVIOUS

\* Which keeps the channel.
LEMMA DropKeeps ==
    ASSUME attr \in Attrs, NEW c, NEW l, NEW x, Kept(c, l, x), c.q # <<>>
    PROVE  /\ Kept(Drop(c), l, x) /\ Len(Drop(c).q) = Len(c.q) - 1
           /\ Drop(c).match_cnt = IF c.q[1].matched THEN c.match_cnt - 1
                ELSE c.match_cnt
           /\ Trimmed(c, Drop(c))
<1> DEFINE d == Drop(c)
<1>0. Typed(c) /\ c \in Channel /\ c.q \in Seq(Node)
  BY DEF Kept, Typed, Channel, Queues
<1>1. /\ Trimmed(c, d) /\ d.q = Tail(c.q) /\ d \in Channel
      /\ d.match_cnt = IF c.q[1].matched THEN c.match_cnt - 1 ELSE c.match_cnt
      /\ d.out = c.out \ Bufs(c.q[1])
  BY <1>0, DropIs
<1> HIDE DEF d
<1>2. /\ Len(d.q) = Len(c.q) - 1 /\ Len(c.q) \in Nat \ {0}
      /\ \A i \in 1 .. Len(d.q) : d.q[i] = c.q[i + 1]
           /\ i + 1 \in 1 .. Len(c.q)
  BY <1>0, <1>1, TailIs
<1>3. d.sent = c.sent /\ d.shown = c.shown /\ d.wait = c.wait /\ d.retro
        = c.retro /\ d.pending = c.pending
  BY <1>0, <1>1 DEF Trimmed, Channel
<1>4. Typed(d)
  BY <1>0, <1>1, <1>3 DEF Typed
<1>5. \A i \in 1 .. Len(d.q) : Made(d.q[i])
  BY <1>2 DEF Kept
<1>6. Lined(d)
  <2>1. c.match_cnt \in 0 .. Len(c.q) /\ (c.q[1].matched <=> 1 <= c.match_cnt)
    BY <1>2 DEF Kept, Lined
  <2>2. d.match_cnt \in 0 .. Len(d.q)
    BY <1>1, <1>2, <2>1
  <2>3. \A i \in 1 .. Len(d.q) : d.q[i].matched <=> i <= d.match_cnt
    BY <1>1, <1>2, <2>1 DEF Kept, Lined
  <2>4. Len(d.q) <= d.match_cnt + attr.unmatched + 1
    BY <1>1, <1>2, <2>1, AttrIs DEF Kept, Lined
  <2>5. ASSUME NEW s \in attr.streams, attr.streams = {s} PROVE d.match_cnt
                 = Len(d.q)
    <3>1. c.match_cnt = Len(c.q)
      BY <2>5 DEF Kept, Lined
    <3> QED  BY <1>1, <1>2, <2>1, <3>1
  <2> QED  BY <2>2, <2>3, <2>4, <2>5 DEF Lined
<1>7. Sorted(d)
  <2>1. Sorted(c)
    BY DEF Kept
  <2>2. ASSUME NEW i \in 1 .. Len(d.q)
        PROVE  /\ d.shown < d.q[i].frame
               /\ \A j \in 1 .. Len(d.q) : i < j => d.q[i].frame < d.q[j].frame
    <3>1. i + 1 \in 1 .. Len(c.q) /\ d.q[i] = c.q[i + 1]
      BY <1>2
    <3>2. ASSUME NEW j \in 1 .. Len(d.q), i < j
                   PROVE d.q[i].frame < d.q[j].frame
      <4>1. j + 1 \in 1 .. Len(c.q) /\ d.q[j] = c.q[j + 1] /\ i + 1 < j + 1
        BY <1>2, <3>2
      <4> QED  BY <2>1, <3>1, <4>1 DEF Sorted
    <3> QED  BY <1>3, <2>1, <3>1, <3>2 DEF Sorted
  <2> QED  BY <2>2 DEF Sorted
<1>8. Seen(d, l)
  <2>1. Seen(c, l)
    BY DEF Kept
  <2>2. \A i \in 1 .. Len(d.q), s \in attr.streams : d.q[i].bufs[s] <= l[s]
    BY <1>2, <2>1 DEF Seen
  <2>3. \A s \in attr.streams, f \in Frames : <<s, f>> \in d.out => f <= l[s]
    BY <1>1, <2>1 DEF Seen
  <2> QED  BY <1>3, <2>1, <2>2, <2>3 DEF Seen
<1>9. Held(d, x)
  <2>1. \A s, f : <<s, f>> \in Bufs(c.q[1]) <=> s \in attr.streams /\ f
          = c.q[1].bufs[s] /\ f # 0
    <3>1. 1 \in 1 .. Len(c.q)
      BY <1>2
    <3> QED  BY <1>0, <3>1, NodeIs, BufsAre
  <2>2. Held(c, x)
    BY DEF Kept
  <2>3. ASSUME NEW s \in attr.streams, NEW f \in Frames
        PROVE  <<s, f>> \in d.out <=> \/ \E i \in 1 .. Len(d.q) :
                                           d.q[i].bufs[s] = f
                                      \/ \E b \in d.sent : b.bufs[s] = f
                                      \/ <<s, f>> \in x
    <3>0. f # 0
      BY AttrIs DEF Frames
    <3>1. CASE f = c.q[1].bufs[s]
      <4>1. <<s, f>> \notin d.out
        BY <1>1, <2>1, <3>0, <3>1
      <4>2. \A i \in 1 .. Len(d.q) : d.q[i].bufs[s] # f
        BY <1>2, <2>2, <3>0, <3>1 DEF Held
      <4>3. 1 \in 1 .. Len(c.q)
        BY <1>2
      <4>4. \A b \in d.sent : b.bufs[s] # f
        BY <1>3, <2>2, <3>1, <4>3 DEF Held
      <4>5. <<s, f>> \notin x
        BY <2>2, <3>1, <4>3 DEF Held
      <4> QED  BY <4>1, <4>2, <4>4, <4>5
    <3>2. CASE f # c.q[1].bufs[s]
      <4>1. <<s, f>> \in d.out <=> <<s, f>> \in c.out
        BY <1>1, <2>1, <3>2
      <4>2. (\E i \in 1 .. Len(d.q) : d.q[i].bufs[s] = f)
              <=> (\E i \in 1 .. Len(c.q) : c.q[i].bufs[s] = f)
        <5>1. ASSUME NEW i \in 1 .. Len(c.q), c.q[i].bufs[s] = f
              PROVE  i - 1 \in 1 .. Len(d.q) /\ d.q[i - 1] = c.q[i]
          <6>1. i # 1
            BY <3>2, <5>1
          <6>2. i - 1 \in 1 .. Len(d.q) /\ (i - 1) + 1 = i
            BY <1>2, <6>1
          <6> QED  BY <1>2, <6>2
        <5> QED  BY <1>2, <5>1
      <4> QED  BY <1>3, <2>2, <4>1, <4>2 DEF Held
    <3> QED  BY <3>1, <3>2
  <2>4. ASSUME NEW i \in 1 .. Len(d.q), NEW j \in 1 .. Len(d.q),
                 NEW s \in attr.streams,
               d.q[i].bufs[s] = d.q[j].bufs[s], d.q[i].bufs[s] # 0
        PROVE  i = j
    <3>1. i + 1 \in 1 .. Len(c.q) /\ j + 1 \in 1 .. Len(c.q) /\ d.q[i]
            = c.q[i + 1] /\ d.q[j] = c.q[j + 1]
      BY <1>2
    <3>2. i + 1 = j + 1
      BY <2>2, <2>4, <3>1 DEF Held
    <3> QED  BY <3>2
  <2>5. \A a, b \in d.sent, s \in attr.streams : a.bufs[s] = b.bufs[s] => a = b
    BY <1>3, <2>2 DEF Held
  <2>6. ASSUME NEW i \in 1 .. Len(d.q)
        PROVE  /\ \A b \in d.sent, s \in attr.streams :
                    d.q[i].bufs[s] # b.bufs[s]
               /\ \A s \in attr.streams, f \in Frames : <<s, f>> \in x
                    => d.q[i].bufs[s] # f
    <3>1. i + 1 \in 1 .. Len(c.q) /\ d.q[i] = c.q[i + 1]
      BY <1>2
    <3> QED  BY <1>3, <2>2, <3>1 DEF Held
  <2>7. \A s \in attr.streams, f \in Frames : <<s, f>> \in x => d.shown < f
          /\ \A b \in d.sent : b.bufs[s] # f
    BY <1>3, <2>2 DEF Held
  <2> QED  BY <2>3, <2>4, <2>5, <2>6, <2>7 DEF Held
<1> QED  BY <1>1, <1>2, <1>4, <1>5, <1>6, <1>7, <1>8, <1>9 DEF Kept, d

---------------------------------------------------------------------------
(* The loops over the queue                                                *)

\* The head of the queue is matched if any node is.
LEMMA HeadIs ==
    ASSUME NEW c, NEW l, NEW x, Kept(c, l, x)
    PROVE  /\ Len(c.q) \in Nat /\ c.match_cnt \in 0 .. Len(c.q)
           /\ c.q = <<>> <=> Len(c.q) = 0
           /\ c.q # <<>> => Head(c.q) = c.q[1] /\ 1 \in 1 .. Len(c.q)
           /\ HeadMatched(c) <=> c.match_cnt > 0
<1>1. c.q \in Seq(Node)
  BY DEF Kept, Typed, Channel, Queues
<1>2. /\ Len(c.q) \in Nat /\ c.match_cnt \in 0 .. Len(c.q)
      /\ c.q = <<>> <=> Len(c.q) = 0
  BY <1>1 DEF Kept, Lined
<1>3. c.q # <<>> => Head(c.q) = c.q[1] /\ 1 \in 1 .. Len(c.q)
  BY <1>1, <1>2
<1>4. c.q # <<>> => (c.q[1].matched <=> 1 <= c.match_cnt)
  BY <1>3 DEF Kept, Lined
<1>5. HeadMatched(c) <=> c.match_cnt > 0
  BY <1>2, <1>3, <1>4 DEF HeadMatched
<1> QED  BY <1>2, <1>3, <1>5

\* What trimming the queue leaves alone.
LEMMA TrimmedIs ==
    ASSUME NEW c \in Channel, NEW d, Trimmed(c, d)
    PROVE  /\ d.expected = c.expected /\ d.good = c.good /\ d.pending
                = c.pending
           /\ d.retro = c.retro /\ d.wait = c.wait /\ d.led = c.led
                /\ d.started = c.started
           /\ d.stop = c.stop /\ d.manual = c.manual /\ d.burst = c.burst
           /\ d.bracketing = c.bracketing /\ d.zoom = c.zoom /\ d.diverted
                = c.diverted
           /\ d.ledOff = c.ledOff /\ d.skip = c.skip /\ d.once = c.once
                /\ d.unlock = c.unlock
           /\ d.sent = c.sent /\ d.shown = c.shown /\ d.zsl = c.zsl
           /\ DOMAIN d = DOMAIN c
BY DEF Trimmed, Channel

\* Trimming is transitive.
LEMMA TrimmedTwice ==
    ASSUME NEW c \in Channel, NEW d, NEW e, Trimmed(c, d), Trimmed(d, e)
    PROVE  Trimmed(c, e)
<1>1. DOMAIN d = DOMAIN c
  BY TrimmedIs
<1>2. d = [c EXCEPT !.q = d.q, !.match_cnt = d.match_cnt, !.out = d.out]
  BY DEF Trimmed
<1>3. e = [d EXCEPT !.q = e.q, !.match_cnt = e.match_cnt, !.out = e.out]
  BY DEF Trimmed
<1>4. e = [c EXCEPT !.q = e.q, !.match_cnt = e.match_cnt, !.out = e.out]
  BY <1>1, <1>2, <1>3 DEF Channel
<1> QED  BY <1>4 DEF Trimmed

\* And reflexive.
LEMMA TrimmedSelf == ASSUME NEW c \in Channel PROVE Trimmed(c, c)
BY DEF Trimmed, Channel

\* The rounds of a loop that drops nodes.
LEMMA RoundsTrim ==
    ASSUME attr \in Attrs, NEW c, NEW l, NEW x, Kept(c, l, x), NEW n \in Nat,
           NEW loop \in {"flush", "keep", "matched"}, NEW r,
             Rounds(loop, n, c, r),
           NEW k \in 0 .. Len(c.q)
    PROVE  /\ Kept(r[k], l, x) /\ Trimmed(c, r[k])
           /\ \/ Len(r[k].q) = Len(c.q) - k
              \/ loop = "keep" /\ r[k].match_cnt <= n
              \/ loop = "matched" /\ r[k].match_cnt = 0
<1>0. Len(c.q) \in Nat /\ c \in Channel
  BY HeadIs DEF Kept, Typed
<1> DEFINE P(i) == /\ Kept(r[i], l, x) /\ Trimmed(c, r[i])
                   /\ \/ Len(r[i].q) = Len(c.q) - i
                      \/ loop = "keep" /\ r[i].match_cnt <= n
                      \/ loop = "matched" /\ r[i].match_cnt = 0
           Bad == {i \in 0 .. Len(c.q) : ~P(i)}
<1>1. P(0)
  BY <1>0, TrimmedSelf DEF Rounds
<1>2. ASSUME NEW i \in 1 .. Len(c.q), P(i - 1) PROVE P(i)
  <2> DEFINE d == r[i - 1]
             e == r[i]
  <2>1. Kept(d, l, x) /\ Trimmed(c, d) /\ e = StepOf(loop, n, d)
    BY <1>2 DEF Rounds
  <2>2. \/ Len(d.q) = Len(c.q) - (i - 1)
        \/ loop = "keep" /\ d.match_cnt <= n
        \/ loop = "matched" /\ d.match_cnt = 0
    BY <1>2
  <2> HIDE DEF d, e
  <2>3. /\ Len(d.q) \in Nat /\ d.match_cnt \in 0 .. Len(d.q)
        /\ d.q = <<>> <=> Len(d.q) = 0
        /\ HeadMatched(d) <=> d.match_cnt > 0
    BY <2>1, HeadIs
  <2>4. CASE e = d
    <3>1. \/ Len(d.q) = Len(c.q) - i
          \/ loop = "keep" /\ d.match_cnt <= n
          \/ loop = "matched" /\ d.match_cnt = 0
      <4>1. CASE loop = "flush"
        <5>1. d.q # <<>>
          BY <1>0, <2>2, <2>3, <4>1
        <5>2. Drop(d) = d
          BY <2>1, <2>4, <4>1, RoundsOf
        <5> QED  BY <2>1, <2>3, <5>1, <5>2, DropKeeps
      <4>2. CASE loop = "keep"
        <5>1. d.match_cnt > n => d.match_cnt > 0 /\ d.q # <<>> /\ e = Drop(d)
          BY <2>1, <2>3, <4>2, RoundsOf
        <5>2. ~(d.match_cnt > n)
          BY <2>1, <2>3, <2>4, <5>1, DropKeeps
        <5> QED  BY <2>3, <4>2, <5>2
      <4>3. CASE loop = "matched"
        <5>1. d.match_cnt > 0 => d.q # <<>> /\ e = Drop(d)
          BY <2>1, <2>3, <4>3, RoundsOf
        <5>2. ~(d.match_cnt > 0)
          BY <2>1, <2>3, <2>4, <5>1, DropKeeps
        <5> QED  BY <2>3, <4>3, <5>2
      <4> QED  BY <4>1, <4>2, <4>3
    <3> QED  BY <2>1, <2>4, <3>1 DEF e
  <2>5. CASE e # d
    <3>1. e = Drop(d) /\ (loop = "keep" => d.match_cnt > n)
            /\ (loop = "matched" => d.match_cnt > 0)
      <4>1. CASE loop = "flush"
        BY <2>1, <4>1, RoundsOf
      <4>2. CASE loop = "keep"
        BY <2>1, <2>5, <4>2, RoundsOf
      <4>3. CASE loop = "matched"
        BY <2>1, <2>3, <2>5, <4>3, RoundsOf
      <4> QED  BY <4>1, <4>2, <4>3
    <3>2. Len(d.q) = Len(c.q) - (i - 1) /\ d.q # <<>>
      BY <1>0, <2>2, <2>3, <3>1
    <3>3. Kept(e, l, x) /\ Len(e.q) = Len(d.q) - 1 /\ Trimmed(d, e)
      BY <2>1, <3>1, <3>2, DropKeeps
    <3>4. Trimmed(c, e)
      BY <1>0, <2>1, <3>3, TrimmedTwice
    <3>5. Len(e.q) = Len(c.q) - i
      BY <1>0, <3>2, <3>3
    <3> QED  BY <3>3, <3>4, <3>5 DEF e
  <2> QED  BY <2>4, <2>5
<1>3. Bad = {}
  <2> SUFFICES ASSUME Bad # {} PROVE FALSE
    OBVIOUS
  <2> HIDE DEF P
  <2>0. Bad \subseteq Nat
    BY <1>0
  <2>1. PICK i \in Bad : \A j \in Bad : i <= j
    <3> HIDE DEF Bad
    <3> QED  BY <2>0, LeastNatural
  <2>2. i # 0 /\ i \in 1 .. Len(c.q) /\ i - 1 \in 0 .. Len(c.q)
          /\ i - 1 \notin Bad
    BY <1>0, <1>1, <2>1
  <2> QED  BY <1>2, <2>1, <2>2
<1> QED  BY <1>3

\* A flush empties the queue.
LEMMA FlushKeeps ==
    ASSUME attr \in Attrs, NEW c, NEW l, NEW x, Kept(c, l, x)
    PROVE  Kept(Flush(c), l, x) /\ Trimmed(c, Flush(c)) /\ Len(Flush(c).q) = 0
<1>1. Len(c.q) \in Nat
  BY HeadIs
<1>2. PICK r : Rounds("flush", 0, c, r) /\ Flush(c) = r[Len(c.q)]
  BY <1>1, FlushRounds
<1>3. Kept(r[Len(c.q)], l, x) /\ Trimmed(c, r[Len(c.q)]) /\ Len(r[Len(c.q)].q)
        = Len(c.q) - Len(c.q)
  BY <1>1, <1>2, RoundsTrim
<1> QED  BY <1>1, <1>2, <1>3

\* A flush of the matched nodes.
LEMMA FlushMatchedKeeps ==
    ASSUME attr \in Attrs, NEW c, NEW l, NEW x, Kept(c, l, x)
    PROVE  Kept(FlushMatched(c), l, x) /\ Trimmed(c, FlushMatched(c))
<1>1. Len(c.q) \in Nat
  BY HeadIs
<1>2. PICK r : Rounds("matched", 0, c, r) /\ FlushMatched(c) = r[Len(c.q)]
  BY <1>1, FlushMatchedRounds
<1>3. Kept(r[Len(c.q)], l, x) /\ Trimmed(c, r[Len(c.q)])
  BY <1>1, <1>2, RoundsTrim
<1> QED  BY <1>2, <1>3

\* The overflow leaves no more matched nodes than it should.
LEMMA KeepMatchedKeeps ==
    ASSUME attr \in Attrs, NEW c, NEW l, NEW x, Kept(c, l, x), NEW n \in Nat
    PROVE  /\ Kept(KeepMatched(c, n), l, x) /\ Trimmed(c, KeepMatched(c, n))
           /\ attr.mode = "BURST" => KeepMatched(c, n).match_cnt <= n
<1>1. Len(c.q) \in Nat /\ c \in Channel
  BY HeadIs DEF Kept, Typed
<1>2. CASE attr.mode = "CONTINUOUS"
  BY <1>1, <1>2, TrimmedSelf DEF KeepMatched
<1>3. CASE attr.mode # "CONTINUOUS"
  <2>2. PICK r : Rounds("keep", n, c, r) /\ KeepMatched(c, n) = r[Len(c.q)]
    BY <1>1, <1>3, KeepRounds
  <2> DEFINE d == r[Len(c.q)]
  <2>3. /\ Kept(d, l, x) /\ Trimmed(c, d)
        /\ Len(d.q) = Len(c.q) - Len(c.q) \/ d.match_cnt <= n
    BY <1>1, <2>2, RoundsTrim
  <2>4. d.match_cnt \in 0 .. Len(d.q)
    BY <2>3, HeadIs
  <2>5. d.match_cnt <= n
    BY <1>1, <2>3, <2>4
  <2> QED  BY <2>2, <2>3, <2>5
<1> QED  BY <1>2, <1>3

\* What metadata can say.
Metadata == [prep : {"none", "future", "done"}, good :
  [min : Nat, max : Nat, skip : Nat],
             divert : Nat, crop : BOOLEAN]

\* The channel in the course of a step.
Going(c, l, x) == Kept(c, l, x) /\ Shooting(c)

\* A channel with the queue of another.
LEMMA SameQueue ==
    ASSUME NEW c, NEW l, NEW x, Kept(c, l, x), NEW d, Typed(d), d.q = c.q,
           d.match_cnt = c.match_cnt, d.out = c.out, d.sent = c.sent, d.shown
             = c.shown
    PROVE  Kept(d, l, x)
<1>1. Lined(d) /\ Sorted(d) /\ (\A i \in 1 .. Len(d.q) : Made(d.q[i]))
  BY DEF Kept, Lined, Sorted
<1>2. Seen(d, l)
  BY DEF Kept, Seen
<1>3. Held(d, x)
  BY DEF Kept, Held
<1> QED  BY <1>1, <1>2, <1>3 DEF Kept

\* d has the requests and the super-buffers of c.
Quiet(c, d) == d.pending = c.pending /\ d.sent = c.sent /\ d.shown = c.shown

\* Trimming the queue changes no request.
LEMMA TrimmedGoes ==
    ASSUME NEW c, NEW d, NEW l, NEW x, Going(c, l, x), Kept(d, l, x),
             Trimmed(c, d)
    PROVE  Going(d, l, x) /\ Quiet(c, d)
BY TrimmedIs DEF Going, Kept, Typed, Shooting, Quiet

---------------------------------------------------------------------------
(* The metadata                                                            *)

\* The diverted frame.
LEMMA DivertGoes ==
    ASSUME attr \in Attrs, NEW c, NEW l, NEW x, Going(c, l, x),
           NEW f \in Frames, NEW m \in Metadata
    PROVE  Going(Divert(c, f, m), l, x) /\ Quiet(c, Divert(c, f, m))
<1>1. CASE m.divert = 0
  BY <1>1 DEF Divert, Quiet
<1>2. CASE m.divert # 0
  <2> DEFINE v == IF m.divert >= f THEN m.divert % DivertMod ELSE 0
             d == Divert(c, f, m)
  <2>1. v \in 0 .. DivertMod - 1
    BY NumbersAssumption DEF Metadata
  <2>2. d = [c EXCEPT !.diverted = v]
    BY <1>2 DEF Divert
  <2>3. c \in Channel
    BY DEF Going, Kept, Typed
  <2> HIDE DEF v, d
  <2>4. d \in Channel
    BY <2>1, <2>2, <2>3 DEF Channel
  <2>5. /\ d.q = c.q /\ d.match_cnt = c.match_cnt /\ d.out = c.out /\ d.sent
             = c.sent
        /\ d.shown = c.shown /\ d.pending = c.pending /\ d.retro = c.retro
             /\ d.wait = c.wait
        /\ d.zsl = c.zsl /\ d.manual = c.manual /\ d.started = c.started
        /\ d.burst = c.burst /\ d.stop = c.stop
    BY <2>2, <2>3 DEF Channel
  <2>6. Kept(d, l, x)
    BY <2>4, <2>5, SameQueue DEF Going, Kept, Typed
  <2> QED  BY <2>5, <2>6 DEF Going, Shooting, d, Quiet
<1> QED  BY <1>1, <1>2

\* Metadata leaves the queue and the requests alone.
Same(c, d) ==
    /\ d.q = c.q /\ d.match_cnt = c.match_cnt /\ d.out = c.out /\ d.sent
         = c.sent
    /\ d.shown = c.shown /\ d.pending = c.pending /\ d.retro = c.retro
    /\ d.zsl = c.zsl /\ d.manual = c.manual /\ d.started = c.started
         /\ d.burst = c.burst

\* What metadata changes.
LEMMA SameGoes ==
    ASSUME NEW c, NEW l, NEW x, Going(c, l, x), NEW d \in Channel, Same(c, d),
           d.wait \in {c.wait, FALSE}, d.stop => c.started
    PROVE  Going(d, l, x) /\ Quiet(c, d)
<1>1. Typed(d)
  BY DEF Going, Kept, Typed, Same
<1>2. Kept(d, l, x)
  BY <1>1, SameQueue DEF Going, Same
<1> QED  BY <1>2 DEF Going, Shooting, Same, Quiet

\* The fields of the channel.
LEMMA ChannelIs ==
    ASSUME NEW c \in Channel
    PROVE  /\ c.expected \in Nat /\ c.good \in Nat
                /\ c.bracketing \in {"OFF", "WAIT", "ACTIVE"}
           /\ c.wait \in BOOLEAN /\ c.zoom \in BOOLEAN /\ c.led \in BOOLEAN
                /\ c.ledOff \in Nat
           /\ c.once \in BOOLEAN /\ c.skip \in Nat /\ c.stop \in BOOLEAN
                /\ c.started \in BOOLEAN
           /\ c.manual \in BOOLEAN /\ c.zsl \in BOOLEAN /\ c.burst \in Nat
           /\ c.pending \in 0 .. attr.pictures
                /\ c.retro \in 0 .. attr.pictures
           /\ c.match_cnt \in Int /\ c.q \in Seq(Node) /\ c.unlock \in BOOLEAN
           /\ c.out \subseteq attr.streams \X Frames /\ c.sent \subseteq Super
           /\ c.shown \in 0 .. attr.frames /\ c.diverted \in 0 .. DivertMod - 1
BY DEF Channel, Queues, Outs, Sents

\* The crop of zoom 1x.
LEMMA ZoomGoes ==
    ASSUME attr \in Attrs, NEW c, NEW l, NEW x, Going(c, l, x),
           NEW f \in Frames, NEW m \in Metadata
    PROVE  Going(Zoom(c, f, m), l, x) /\ Quiet(c, Zoom(c, f, m))
<1>0. c \in Channel /\ (c.stop => c.started) /\ f \in Nat
  BY AttrIs DEF Going, Kept, Typed, Shooting, Frames
<1>1. CASE m.crop
  <2> DEFINE e == f + 1
             d == Zoom(c, f, m)
  <2>1. e \in Nat
    BY <1>0
  <2>2. d = [c EXCEPT !.zoom = FALSE, !.expected = e]
    BY <1>1 DEF Zoom
  <2> HIDE DEF e, d
  <2>3. d \in Channel
    BY <2>1, <1>0, <2>2 DEF Channel
  <2>3a. Same(c, d) /\ d.wait \in {c.wait, FALSE} /\ (d.stop => c.started)
    BY <1>0, <2>2 DEF Channel, Same
  <2>4. Going(d, l, x) /\ Quiet(c, d)
    BY <2>3, <2>3a, SameGoes
  <2> QED  BY <2>4 DEF d
<1>2. CASE ~m.crop
  <2> DEFINE e == c.expected + Future
             d == [c EXCEPT !.expected = e]
  <2>1. e \in Nat
    BY <1>0, ChannelIs, NumbersAssumption
  <2>2. Zoom(c, f, m) = FlushMatched(d)
    BY <1>0, <1>2 DEF Zoom, Channel
  <2> HIDE DEF e
  <2>3. d \in Channel
    BY <2>1, <1>0 DEF Channel
  <2>3a. Same(c, d) /\ d.wait \in {c.wait, FALSE} /\ (d.stop => c.started)
    BY <1>0 DEF Channel, Same
  <2> HIDE DEF d
  <2>4. Going(d, l, x) /\ Quiet(c, d)
    BY <2>3, <2>3a, SameGoes
  <2>5. Kept(FlushMatched(d), l, x) /\ Trimmed(d, FlushMatched(d))
    BY <2>4, FlushMatchedKeeps DEF Going
  <2>6. Going(FlushMatched(d), l, x) /\ Quiet(d, FlushMatched(d))
    BY <2>4, <2>5, TrimmedGoes
  <2> QED  BY <2>2, <2>4, <2>6 DEF Quiet
<1> QED  BY <1>1, <1>2

\* The prepare snapshot.
LEMMA PrepGoes ==
    ASSUME attr \in Attrs, NEW c, NEW l, NEW x, Going(c, l, x),
             NEW m \in Metadata
    PROVE  Going(PrepDone(c, m), l, x) /\ Quiet(c, PrepDone(c, m))
<1>0. c \in Channel /\ (c.stop => c.started)
        /\ m.prep \in {"none", "future", "done"}
  BY DEF Going, Kept, Typed, Shooting, Metadata
<1>1. CASE m.prep = "none"
  BY <1>1 DEF PrepDone, Quiet
<1>2. CASE m.prep = "future"
  <2> DEFINE e == c.expected + Future
             d == [c EXCEPT !.wait = FALSE, !.expected = e, !.led = TRUE]
  <2>1. e \in Nat
    BY <1>0, ChannelIs, NumbersAssumption
  <2>2. PrepDone(c, m) = Flush(d)
    BY <1>0, <1>2 DEF PrepDone, Channel
  <2> HIDE DEF e
  <2>3. d \in Channel
    BY <2>1, <1>0 DEF Channel
  <2>3a. Same(c, d) /\ d.wait \in {c.wait, FALSE} /\ (d.stop => c.started)
    BY <1>0 DEF Channel, Same
  <2> HIDE DEF d
  <2>4. Going(d, l, x) /\ Quiet(c, d)
    BY <2>3, <2>3a, SameGoes
  <2>5. Kept(Flush(d), l, x) /\ Trimmed(d, Flush(d))
    BY <2>4, FlushKeeps DEF Going
  <2>6. Going(Flush(d), l, x) /\ Quiet(d, Flush(d))
    BY <2>4, <2>5, TrimmedGoes
  <2> QED  BY <2>2, <2>4, <2>6 DEF Quiet
<1>3. CASE m.prep = "done"
  <2> DEFINE d == PrepDone(c, m)
  <2>1. d = [c EXCEPT !.wait = FALSE, !.led = FALSE]
    BY <1>3 DEF PrepDone
  <2> HIDE DEF d
  <2>2. d \in Channel
    BY <1>0, <2>1 DEF Channel
  <2>2a. Same(c, d) /\ d.wait \in {c.wait, FALSE} /\ (d.stop => c.started)
    BY <1>0, <2>1 DEF Channel, Same
  <2>3. Going(d, l, x) /\ Quiet(c, d)
    BY <2>2, <2>2a, SameGoes
  <2> QED  BY <2>3 DEF d
<1> QED  BY <1>0, <1>1, <1>2, <1>3

\* The good frames of the flash.
LEMMA GoodGoes ==
    ASSUME attr \in Attrs, NEW c, NEW l, NEW x, Going(c, l, x),
             NEW m \in Metadata
    PROVE  Going(GoodFrames(c, m), l, x) /\ Quiet(c, GoodFrames(c, m))
<1>0. c \in Channel /\ (c.stop => c.started)
  BY DEF Going, Kept, Typed, Shooting
<1>1. m.good.min \in Nat /\ m.good.max \in Nat /\ m.good.skip \in Nat
  BY DEF Metadata
<1>2. CASE m.good # NoGood
  <2> DEFINE d == GoodFrames(c, m)
             g == m.good.min
             o == m.good.max
             k == m.good.skip
  <2>1. CASE c.led /\ c.burst > 1
    <3>1. d = [[c EXCEPT !.expected = g, !.good = g, !.bracketing = "ACTIVE"]
                 EXCEPT !.ledOff = o, !.once = FALSE, !.skip = k]
      BY <1>2, <2>1 DEF GoodFrames
    <3>2. g \in Nat /\ o \in Nat /\ k \in Nat
      BY <1>1
    <3> HIDE DEF d, g, o, k
    <3>3. d \in Channel
      BY <3>2, <1>0, <3>1 DEF Channel
    <3>3a. Same(c, d) /\ d.wait \in {c.wait, FALSE} /\ (d.stop => c.started)
      BY <1>0, <3>1 DEF Channel, Same
    <3>4. Going(d, l, x) /\ Quiet(c, d)
      BY <3>3, <3>3a, SameGoes
    <3> QED  BY <3>4 DEF d
  <2>2. CASE ~(c.led /\ c.burst > 1)
    <3>1. d = [c EXCEPT !.expected = g, !.good = g, !.bracketing = "ACTIVE"]
      BY <1>2, <2>2 DEF GoodFrames
    <3>2. g \in Nat
      BY <1>1
    <3> HIDE DEF d, g
    <3>3. d \in Channel
      BY <3>2, <1>0, <3>1 DEF Channel
    <3>3a. Same(c, d) /\ d.wait \in {c.wait, FALSE} /\ (d.stop => c.started)
      BY <1>0, <3>1 DEF Channel, Same
    <3>4. Going(d, l, x) /\ Quiet(c, d)
      BY <3>3, <3>3a, SameGoes
    <3> QED  BY <3>4 DEF d
  <2> QED  BY <2>1, <2>2
<1>3. CASE m.good = NoGood /\ c.bracketing = "WAIT" /\ m.prep = "none"
  <2> DEFINE b == FlushMatched(c)
             e == b.expected + Future
             d == GoodFrames(c, m)
  <2>1. d = [b EXCEPT !.expected = e]
    BY <1>3 DEF GoodFrames
  <2>2. Kept(b, l, x) /\ Trimmed(c, b)
    BY FlushMatchedKeeps DEF Going
  <2>3. Going(b, l, x) /\ Quiet(c, b)
    BY <2>2, TrimmedGoes
  <2>4. b \in Channel /\ (b.stop => b.started)
    BY <2>3 DEF Going, Kept, Typed, Shooting
  <2> HIDE DEF b, d
  <2>5. e \in Nat
    BY <2>4, ChannelIs, NumbersAssumption
  <2> HIDE DEF e
  <2>6. d \in Channel
    BY <2>5, <2>1, <2>4 DEF Channel
  <2>6a. Same(b, d) /\ d.wait \in {b.wait, FALSE} /\ (d.stop => b.started)
    BY <2>1, <2>4 DEF Channel, Same
  <2>7. Going(d, l, x) /\ Quiet(b, d)
    BY <2>3, <2>6, <2>6a, SameGoes
  <2> QED  BY <2>3, <2>7 DEF d, Quiet
<1>4. CASE m.good = NoGood /\ ~(c.bracketing = "WAIT" /\ m.prep = "none")
  BY <1>4 DEF GoodFrames, Quiet
<1> QED  BY <1>2, <1>3, <1>4

\* The end of the flash.
LEMMA LedGoes ==
    ASSUME attr \in Attrs, NEW c, NEW l, NEW x, Going(c, l, x), NEW f
    PROVE  Going(LedOff(c, f), l, x) /\ Quiet(c, LedOff(c, f))
<1>0. c \in Channel /\ (c.burst > 0 \/ c.stop => c.started)
  BY DEF Going, Kept, Typed, Shooting
<1>1. CASE c.burst > 1 /\ c.led /\ c.bracketing = "OFF" /\ f >= c.ledOff
        /\ ~c.once
  <2> DEFINE e == c.ledOff + c.skip
             d == LedOff(c, f)
  <2>1. e \in Nat /\ c.started /\ TRUE \in BOOLEAN
    BY <1>0, <1>1, ChannelIs
  <2>2. d = [c EXCEPT !.expected = e, !.once = TRUE, !.stop = TRUE, !.led
          = FALSE]
    BY <1>1 DEF LedOff
  <2> HIDE DEF e, d
  <2>3. d \in Channel
    BY <2>1, <1>0, <2>2 DEF Channel
  <2>3a. Same(c, d) /\ d.wait \in {c.wait, FALSE} /\ (d.stop => c.started)
    BY <2>1, <1>0, <2>2 DEF Channel, Same
  <2>4. Going(d, l, x) /\ Quiet(c, d)
    BY <2>3, <2>3a, SameGoes
  <2> QED  BY <2>4 DEF d
<1>2. CASE ~(c.burst > 1 /\ c.led /\ c.bracketing = "OFF" /\ f >= c.ledOff
        /\ ~c.once)
  BY <1>2 DEF LedOff, Quiet
<1> QED  BY <1>1, <1>2

\* mm_channel_handle_metadata changes no request and no super-buffer.
LEMMA MetadataGoes ==
    ASSUME attr \in Attrs, NEW c, NEW l, NEW x, Going(c, l, x),
           NEW f \in Frames, NEW m \in Metadata
    PROVE  Going(HandleMetadata(c, f, m), l, x)
             /\ Quiet(c, HandleMetadata(c, f, m))
<1> DEFINE d == Divert(c, f, m)
<1>1. Going(d, l, x) /\ Quiet(c, d)
  BY DivertGoes
<1> HIDE DEF d
<1>2. CASE d.zoom
  <2>1. HandleMetadata(c, f, m) = Zoom(d, f, m)
    BY <1>2 DEF HandleMetadata, d
  <2>2. Going(Zoom(d, f, m), l, x) /\ Quiet(d, Zoom(d, f, m))
    BY <1>1, ZoomGoes
  <2> QED  BY <1>1, <2>1, <2>2 DEF Quiet
<1>3. CASE ~d.zoom
  <2> DEFINE p == PrepDone(d, m)
             g == GoodFrames(p, m)
  <2>1. HandleMetadata(c, f, m) = LedOff(g, f)
    BY <1>3 DEF HandleMetadata, d
  <2>2. Going(p, l, x) /\ Quiet(d, p)
    BY <1>1, PrepGoes
  <2> HIDE DEF p
  <2>3. Going(g, l, x) /\ Quiet(p, g)
    BY <2>2, GoodGoes
  <2> HIDE DEF g
  <2>4. Going(LedOff(g, f), l, x) /\ Quiet(g, LedOff(g, f))
    BY <2>3, LedGoes
  <2> QED  BY <1>1, <2>1, <2>2, <2>3, <2>4 DEF Quiet
<1> QED  BY <1>2, <1>3

---------------------------------------------------------------------------
(* The snapshot mode of the daemon                                         *)

---------------------------------------------------------------------------
(* The snapshot of the daemon                                              *)

\* Or the HAL has just stopped it.
Stopping(c) == ~c.manual /\ ~c.zsl /\ c.pending = 0
  /\ (c.burst > 0 \/ c.stop => c.started)

\* d has the queue of c.
Alike(c, d) ==
    /\ d.q = c.q /\ d.match_cnt = c.match_cnt /\ d.out = c.out /\ d.sent
         = c.sent
    /\ d.shown = c.shown

\* The snapshot mode is left.
LEMMA StopZslIs ==
    ASSUME NEW c \in Channel, ~c.manual
    PROVE  /\ StopZsl(c) \in Channel /\ Alike(c, StopZsl(c))
                /\ Paired(StopZsl(c))
           /\ StopZsl(c).pending = c.pending /\ StopZsl(c).retro = c.retro
           /\ StopZsl(c).wait = c.wait
<1> DEFINE d == StopZsl(c)
<1>1. d = [c EXCEPT !.zsl = FALSE, !.started = FALSE, !.led = FALSE, !.burst
        = 0,
              !.stop = FALSE, !.unlock = TRUE, !.bracketing = "OFF"]
  BY DEF StopZsl
<1> HIDE DEF d
<1>2. d \in Channel
  BY <1>1 DEF Channel
<1>3. /\ Alike(c, d) /\ d.pending = c.pending /\ d.retro = c.retro /\ d.wait
           = c.wait
      /\ d.zsl = FALSE /\ d.started = FALSE /\ d.burst = 0 /\ d.stop = FALSE
           /\ d.manual = c.manual
  BY <1>1 DEF Channel, Alike
<1>4. Paired(d)
  <2>1. ~d.manual /\ ~d.started /\ ~d.stop /\ ~(d.burst > 0) /\ ~d.zsl
    BY <1>3
  <2>2. d.zsl \in BOOLEAN
    BY <1>2, ChannelIs
  <2> QED  BY <2>1, <2>2 DEF Paired, Shooting
<1>5. /\ d \in Channel /\ Alike(c, d) /\ Paired(d)
      /\ d.pending = c.pending /\ d.retro = c.retro /\ d.wait = c.wait
  BY <1>2, <1>3, <1>4
<1> QED  BY <1>5 DEF d

\* It is entered and left as the requests want it.
LEMMA ZslControlIs ==
    ASSUME NEW c, NEW l, NEW x, Kept(c, l, x), Shooting(c) \/ Stopping(c)
    PROVE  /\ Kept(ZslControl(c), l, x) /\ Paired(ZslControl(c))
                /\ Alike(c, ZslControl(c))
           /\ ZslControl(c).pending = c.pending
<1> DEFINE d == ZslControl(c)
<1>0. Typed(c) /\ c \in Channel
  BY DEF Kept, Typed
<1>1. /\ d \in Channel /\ Alike(c, d) /\ Paired(d) /\ d.pending = c.pending
           /\ d.retro = c.retro
      /\ d.wait \in {c.wait, FALSE}
  <2>1. CASE c.pending > 0 /\ (c.led \/ c.bracketing # "OFF") /\ ~c.manual
          /\ ~c.started
    <3> DEFINE p == c.pending
    <3>1. d = [c EXCEPT !.zsl = TRUE, !.started = TRUE, !.burst = p, !.wait
            = FALSE]
      BY <2>1 DEF ZslControl
    <3>2. p \in Nat
      BY <1>0, ChannelIs
    <3>3. c.stop = FALSE /\ p > 0
      BY <1>0, <2>1, ChannelIs DEF Shooting, Stopping
    <3> HIDE DEF d
    <3>4. /\ Alike(c, d) /\ d.pending = p /\ d.retro = c.retro /\ d.wait
               = FALSE
          /\ d.zsl = TRUE /\ d.started = TRUE /\ d.stop = c.stop /\ d.manual
               = c.manual
      BY <1>0, <3>1 DEF Channel, Alike
    <3>5. Paired(d)
      BY <2>1, <3>3, <3>4 DEF Paired, Shooting
    <3> HIDE DEF p
    <3>6. d \in Channel
      BY <1>0, <3>1, <3>2 DEF Channel
    <3> QED  BY <3>4, <3>5, <3>6 DEF p
  <2>2. CASE ~(c.pending > 0 /\ (c.led \/ c.bracketing # "OFF") /\ ~c.manual
          /\ ~c.started) /\ ZslOver(c)
    <3> DEFINE g == StopZsl(c)
    <3>1. d = [g EXCEPT !.wait = FALSE]
      BY <2>2 DEF ZslControl
    <3>2. /\ g \in Channel /\ Alike(c, g) /\ Paired(g)
          /\ g.pending = c.pending /\ g.retro = c.retro
      BY <1>0, <2>2, StopZslIs DEF ZslOver
    <3> HIDE DEF d, g
    <3>3. d \in Channel
      BY <3>1, <3>2 DEF Channel
    <3>4. /\ Alike(g, d) /\ d.pending = g.pending /\ d.retro = g.retro
               /\ d.wait = FALSE
          /\ d.zsl = g.zsl /\ d.started = g.started /\ d.stop = g.stop
               /\ d.manual = g.manual
          /\ d.burst = g.burst
      BY <3>1, <3>2 DEF Channel, Alike
    <3>5. Paired(d) /\ Alike(c, d)
      BY <3>2, <3>4 DEF Paired, Shooting, Alike
    <3> QED  BY <3>2, <3>3, <3>4, <3>5
  <2>3. CASE ~(c.pending > 0 /\ (c.led \/ c.bracketing # "OFF") /\ ~c.manual
          /\ ~c.started) /\ ~ZslOver(c)
    <3>1. d = c
      BY <2>3 DEF ZslControl
    <3>2. Paired(c)
      <4>1. CASE Shooting(c)
        BY <1>0, <2>3, <4>1, ChannelIs DEF ZslOver, Paired
      <4>2. CASE Stopping(c)
        BY <1>0, <2>3, <4>2, ChannelIs DEF ZslOver, Paired, Stopping, Shooting
      <4> QED  BY <4>1, <4>2
    <3> QED  BY <1>0, <3>1, <3>2 DEF Alike
  <2> QED  BY <2>1, <2>2, <2>3
<1> HIDE DEF d
<1>2. Typed(d)
  BY <1>0, <1>1 DEF Typed
<1>3. Kept(d, l, x)
  BY <1>1, <1>2, SameQueue DEF Alike
<1> QED  BY <1>1, <1>3 DEF d

---------------------------------------------------------------------------
(* Super-buffers for the HAL                                               *)

\* A request counted down, and the mode left after the last.
LEMMA CountDownIs ==
    ASSUME attr \in Attrs, NEW c, Typed(c), Paired(c), Wanted(c)
    PROVE  /\ Typed(CountDown(c)) /\ Alike(c, CountDown(c))
                /\ Paired(CountDown(c))
           /\ CountDown(c).pending <= c.pending
<1>0. c \in Channel /\ c.pending \in 0 .. attr.pictures
        /\ c.retro \in 0 .. c.pending /\ c.wait \in BOOLEAN
  BY ChannelIs, AttrIs DEF Typed
<1>1. CASE attr.mode # "BURST"
  BY <1>0, <1>1, AttrIs DEF CountDown, Alike
<1>2. CASE attr.mode = "BURST"
  <2> DEFINE p == c.pending - 1
             w == IF c.retro = 1 THEN TRUE ELSE c.wait
             t == IF c.retro > 0 THEN c.retro - 1 ELSE c.retro
             d == [c EXCEPT !.pending = p, !.wait = w, !.retro = t]
  <2>1. CountDown(c) = IF ZslOver(d) THEN StopZsl(d) ELSE d
    BY <1>0, <1>2 DEF CountDown, Channel
  <2>2. /\ p \in 0 .. attr.pictures /\ t \in 0 .. attr.pictures /\ t <= p
        /\ w \in BOOLEAN /\ p <= c.pending
    <3>1. c.pending > 0
      BY <1>2 DEF Wanted
    <3>2. attr.pictures \in Nat
      BY AttrIs
    <3>3. t \in 0 .. attr.pictures /\ t <= p /\ p \in 0 .. attr.pictures
            /\ p <= c.pending
      BY <1>0, <3>1, <3>2
    <3> QED  BY <1>0, <3>3
  <2> HIDE DEF p, w, t
  <2>3. d \in Channel
    BY <1>0, <2>2 DEF Channel
  <2>4. /\ Alike(c, d) /\ d.pending = p /\ d.retro = t /\ d.wait = w
        /\ d.zsl = c.zsl /\ d.started = c.started /\ d.stop = c.stop
             /\ d.manual = c.manual
        /\ d.burst = c.burst
    BY <1>0 DEF Channel, Alike
  <2> HIDE DEF d
  <2>5. CASE ZslOver(d)
    <3>1. /\ StopZsl(d) \in Channel /\ Alike(d, StopZsl(d))
               /\ Paired(StopZsl(d))
          /\ StopZsl(d).pending = d.pending /\ StopZsl(d).retro = d.retro
          /\ StopZsl(d).wait = d.wait
      BY <2>3, <2>5, StopZslIs DEF ZslOver
    <3>2. Alike(c, StopZsl(d))
      BY <2>4, <3>1 DEF Alike
    <3>3. Typed(StopZsl(d))
      BY <1>2, <2>2, <2>4, <3>1 DEF Typed
    <3> QED  BY <2>1, <2>2, <2>4, <2>5, <3>1, <3>2, <3>3
  <2>6. CASE ~ZslOver(d)
    <3>1. Typed(d)
      BY <1>2, <2>2, <2>3, <2>4 DEF Typed
    <3>2. Paired(d)
      BY <2>2, <2>3, <2>4, <2>6 DEF Paired, Shooting, ZslOver
    <3> QED  BY <2>1, <2>2, <2>4, <2>6, <3>1, <3>2
  <2> QED  BY <2>5, <2>6
<1> QED  BY <1>1, <1>2

---------------------------------------------------------------------------
(* Super-buffers for the HAL                                               *)

\* What InOrder says of a super-buffer.
Whole(b) ==
    /\ \A s, t \in attr.streams \ Loose : b.bufs[s] = b.bufs[t]
    /\ \A s \in attr.streams : b.bufs[s] # 0

\* The HAL has got super-buffers between c and d, newer and newer.
Delivered(c, d) ==
    /\ c.sent \subseteq d.sent /\ c.shown <= d.shown
    /\ \A b \in d.sent \ c.sent :
          /\ Whole(b)
          /\ \E s \in attr.streams : c.shown < b.bufs[s]
               /\ b.bufs[s] <= d.shown

\* Deliveries follow one another.
LEMMA DeliveredTwice ==
    ASSUME NEW c \in Channel, NEW d \in Channel, NEW e \in Channel,
           Delivered(c, d), Delivered(d, e), attr \in Attrs
    PROVE  Delivered(c, e)
<1>1. c.shown \in Nat /\ d.shown \in Nat /\ e.shown \in Nat
        /\ e.sent \subseteq Super
  BY ChannelIs, AttrIs
<1>2. c.sent \subseteq e.sent /\ c.shown <= e.shown
  BY <1>1 DEF Delivered
<1>3. ASSUME NEW b \in e.sent \ c.sent
      PROVE  /\ Whole(b)
             /\ \E s \in attr.streams : c.shown < b.bufs[s]
                  /\ b.bufs[s] <= e.shown
  <2>1. \A s \in attr.streams : b.bufs[s] \in Nat
    BY <1>1, AttrIs DEF Super, Frames
  <2>2. CASE b \in d.sent
    <3>1. Whole(b)
      BY <2>2 DEF Delivered
    <3>2. PICK s \in attr.streams : c.shown < b.bufs[s] /\ b.bufs[s] <= d.shown
      BY <2>2 DEF Delivered
    <3>3. b.bufs[s] <= e.shown
      BY <1>1, <2>1, <3>2 DEF Delivered
    <3> QED  BY <3>1, <3>2, <3>3
  <2>3. CASE b \notin d.sent
    <3>1. Whole(b)
      BY <2>3 DEF Delivered
    <3>2. PICK s \in attr.streams : d.shown < b.bufs[s] /\ b.bufs[s] <= e.shown
      BY <2>3 DEF Delivered
    <3>3. c.shown < b.bufs[s]
      BY <1>1, <2>1, <3>2 DEF Delivered
    <3> QED  BY <3>1, <3>2, <3>3
  <2> QED  BY <2>2, <2>3
<1> QED  BY <1>2, <1>3 DEF Delivered

\* A matched node is a whole super-buffer.
LEMMA MatchedIsWhole ==
    ASSUME attr \in Attrs, NEW n \in Node, Made(n), n.matched
    PROVE  /\ n.bufs \in [attr.streams -> Frames]
           /\ \A s \in attr.streams : n.bufs[s] # 0 /\ n.bufs[s] >= n.frame
           /\ \A s \in attr.streams \ Loose : n.bufs[s] = n.frame
           /\ \E s \in attr.streams : n.bufs[s] = n.frame
           /\ n.frame \in Nat \ {0}
<1>1. n.bufs \in [attr.streams -> 0 .. attr.frames] /\ n.frame \in Frames
        /\ n.meta \in 0 .. attr.frames
  BY DEF Node
<1>2. \A s \in attr.streams : n.bufs[s] # 0
  BY DEF Made
<1>3. ~(n.meta > 0)
  BY DEF Made
<1>4. \A s \in attr.streams \ Loose : n.bufs[s] = n.frame
  BY <1>2, <1>3 DEF Made
<1>5. n.frame \in Nat \ {0} /\ attr.frames \in Nat
  BY <1>1, AttrIs DEF Frames
<1>6. \A s \in attr.streams : n.bufs[s] >= n.frame
  BY <1>1, <1>2, <1>4, <1>5 DEF Made
<1>7. n.bufs \in [attr.streams -> Frames]
  BY <1>1, <1>2, <1>5 DEF Frames
<1>8. \E s \in attr.streams : n.bufs[s] = n.frame
  BY DEF Made
<1> QED  BY <1>2, <1>4, <1>5, <1>6, <1>7, <1>8

\* The fields of the channel after Deliver.
LEMMA DeliverIs ==
    ASSUME attr \in Attrs, NEW c, NEW l, Kept(c, l, {}), Paired(c), Wanted(c),
             HeadMatched(c)
    PROVE  \E b \in Super :
              /\ b.bufs = c.q[1].bufs
              /\ Typed(Deliver(c)) /\ Paired(Deliver(c))
                   /\ Deliver(c).pending <= c.pending
              /\ Deliver(c).q = Tail(c.q) /\ Deliver(c).match_cnt
                   = c.match_cnt - 1
              /\ Deliver(c).out = c.out /\ Deliver(c).sent = c.sent \cup {b}
              /\ Deliver(c).shown = c.q[1].frame
<1>0. /\ Typed(c) /\ c \in Channel /\ c.q \in Seq(Node) /\ c.q # <<>>
           /\ Head(c.q) = c.q[1]
      /\ 1 \in 1 .. Len(c.q)
  BY HeadIs, ChannelIs DEF Kept, Typed, HeadMatched
<1> DEFINE n == c.q[1]
           q == Tail(c.q)
           m == c.match_cnt - 1
           d == Dequeue(c)
           e == CountDown(d)
<1>1. n \in Node /\ n.matched /\ Made(n)
  BY <1>0, NodeIs DEF HeadMatched, Kept
<1>2. d = [c EXCEPT !.q = q, !.match_cnt = m]
  BY <1>0, <1>1 DEF Dequeue, Channel
<1>3. q \in Queues /\ m \in Int
  BY <1>0, ChannelIs DEF Queues
<1> HIDE DEF q, m, d
<1>4. d \in Channel
  BY <1>0, <1>2, <1>3 DEF Channel
<1>5. /\ d.q = q /\ d.match_cnt = m /\ d.out = c.out /\ d.sent = c.sent
           /\ d.shown = c.shown
      /\ d.pending = c.pending /\ d.retro = c.retro /\ d.wait = c.wait
      /\ d.zsl = c.zsl /\ d.started = c.started /\ d.stop = c.stop /\ d.manual
           = c.manual
      /\ d.burst = c.burst
  BY <1>0, <1>2 DEF Channel
<1>6. Typed(d) /\ Paired(d) /\ Wanted(d)
  BY <1>0, <1>4, <1>5 DEF Typed, Paired, Shooting, Wanted
<1>7. Typed(e) /\ Alike(d, e) /\ Paired(e) /\ e.pending <= d.pending
  BY <1>6, CountDownIs
<1> HIDE DEF e
<1>8. e \in Channel
  BY <1>7 DEF Typed
<1> DEFINE b == [bufs |-> n.bufs, ready |-> e.wait, unlock |-> e.unlock]
           s == e.sent \cup {b}
           f == n.frame
           g == Deliver(c)
<1>9. b \in Super
  BY <1>1, <1>8, MatchedIsWhole, ChannelIs DEF Super
<1>10. g = [e EXCEPT !.sent = s, !.shown = f, !.unlock = FALSE]
  BY <1>0, <1>8 DEF Deliver, Send, d, e, Channel
<1>11. s \in Sents /\ f \in 0 .. attr.frames
  BY <1>1, <1>8, <1>9, ChannelIs, AttrIs DEF Sents, Node, Frames
<1> HIDE DEF b, s, f, g
<1>12. g \in Channel
  BY <1>8, <1>10, <1>11 DEF Channel
<1>13. /\ g.q = e.q /\ g.match_cnt = e.match_cnt /\ g.out = e.out /\ g.sent
            = s /\ g.shown = f
       /\ g.pending = e.pending /\ g.retro = e.retro /\ g.wait = e.wait
       /\ g.zsl = e.zsl /\ g.started = e.started /\ g.stop = e.stop
            /\ g.manual = e.manual
       /\ g.burst = e.burst
  BY <1>8, <1>10 DEF Channel
<1>14. Typed(g) /\ Paired(g)
  BY <1>7, <1>12, <1>13 DEF Typed, Paired, Shooting
<1>15. /\ b.bufs = n.bufs /\ g.q = q /\ g.match_cnt = m /\ g.out = c.out
       /\ g.sent = c.sent \cup {b} /\ g.shown = n.frame
       /\ g.pending <= c.pending
  BY <1>5, <1>7, <1>13 DEF Alike, s, f, b
<1> QED  BY <1>9, <1>14, <1>15 DEF g, q, m

\* A delivery keeps the channel.
LEMMA DeliverKeeps ==
    ASSUME attr \in Attrs, NEW c,
             NEW l \in [attr.streams -> 0 .. attr.frames], Kept(c, l, {}),
               Paired(c), Wanted(c), HeadMatched(c)
    PROVE  /\ Kept(Deliver(c), l, {}) /\ Paired(Deliver(c))
                /\ Deliver(c).pending <= c.pending
           /\ Len(Deliver(c).q) = Len(c.q) - 1 /\ Deliver(c).match_cnt
                = c.match_cnt - 1
           /\ Delivered(c, Deliver(c))
<1> DEFINE n == c.q[1]
           d == Drop(c)
           g == Deliver(c)
<1>0. /\ Typed(c) /\ c \in Channel /\ c.q \in Seq(Node) /\ c.q # <<>>
           /\ Head(c.q) = c.q[1]
      /\ 1 \in 1 .. Len(c.q)
  BY HeadIs, ChannelIs DEF Kept, Typed, HeadMatched
<1>1. n \in Node /\ n.matched /\ Made(n)
  BY <1>0, NodeIs DEF HeadMatched, Kept
<1>2. /\ n.bufs \in [attr.streams -> Frames]
      /\ \A s \in attr.streams : n.bufs[s] # 0 /\ n.bufs[s] >= n.frame
      /\ \A s \in attr.streams \ Loose : n.bufs[s] = n.frame
      /\ \E s \in attr.streams : n.bufs[s] = n.frame
      /\ n.frame \in Nat \ {0}
  BY <1>1, MatchedIsWhole
<1>3. PICK b \in Super :
         /\ b.bufs = n.bufs
         /\ Typed(g) /\ Paired(g) /\ g.pending <= c.pending
         /\ g.q = Tail(c.q) /\ g.match_cnt = c.match_cnt - 1
         /\ g.out = c.out /\ g.sent = c.sent \cup {b}
         /\ g.shown = n.frame
  BY DeliverIs
<1>4. /\ Kept(d, l, {}) /\ Len(d.q) = Len(c.q) - 1 /\ d.match_cnt
           = c.match_cnt - 1
      /\ d.q = Tail(c.q) /\ d.out = c.out \ Bufs(n) /\ d.sent = c.sent
  BY <1>0, <1>1, DropKeeps, DropIs, TrimmedIs
<1> HIDE DEF d, g
<1>5. Lined(g)
  BY <1>3, <1>4 DEF Kept, Lined
<1>6. \A i \in 1 .. Len(g.q) : Made(g.q[i])
  BY <1>3, <1>4 DEF Kept
<1>7. \A i \in 1 .. Len(g.q) : g.q[i] = c.q[i + 1] /\ i + 1 \in 1 .. Len(c.q)
  BY <1>0, <1>3, TailIs
<1>8. Sorted(g)
  <2>1. \A i, j \in 1 .. Len(g.q) : i < j => g.q[i].frame < g.q[j].frame
    BY <1>3, <1>4 DEF Kept, Sorted
  <2>2. ASSUME NEW i \in 1 .. Len(g.q) PROVE g.shown < g.q[i].frame
    <3>1. 1 < i + 1 /\ g.q[i] = c.q[i + 1] /\ i + 1 \in 1 .. Len(c.q)
      BY <1>7
    <3> QED  BY <1>0, <1>3, <3>1 DEF Kept, Sorted
  <2> QED  BY <2>1, <2>2 DEF Sorted
<1>9. Seen(g, l)
  <2>1. \A i \in 1 .. Len(g.q), s \in attr.streams : g.q[i].bufs[s] <= l[s]
    BY <1>3, <1>4 DEF Kept, Seen
  <2>2. \A s \in attr.streams, f \in Frames : <<s, f>> \in g.out => f <= l[s]
    BY <1>3 DEF Kept, Seen
  <2>3. ASSUME NEW s \in attr.streams PROVE g.shown <= l[s]
    <3>1. n.bufs[s] <= l[s] /\ n.bufs[s] >= n.frame /\ n.bufs[s] \in Frames
      BY <1>0, <1>2 DEF Kept, Seen
    <3>2. <<s, n.bufs[s]>> \in c.out
      BY <1>0, <3>1 DEF Kept, Held
    <3>3. l[s] \in Nat /\ n.bufs[s] \in Nat /\ n.frame \in Nat
      BY <1>2, <3>1, AttrIs DEF Frames
    <3> QED  BY <1>3, <3>1, <3>3
  <2> QED  BY <2>1, <2>2, <2>3 DEF Seen
<1>10. Held(g, {})
  <2>1. Held(c, {}) /\ Held(d, {})
    BY <1>4 DEF Kept
  <2>2. ASSUME NEW s \in attr.streams, NEW f \in Frames
        PROVE  <<s, f>> \in g.out <=> \/ \E i \in 1 .. Len(g.q) :
                                           g.q[i].bufs[s] = f
                                      \/ \E a \in g.sent : a.bufs[s] = f
                                      \/ <<s, f>> \in {}
    <3>1. <<s, f>> \in Bufs(n) <=> f = n.bufs[s]
      BY <1>1, BufsAre, AttrIs DEF Frames
    <3>2. <<s, f>> \in c.out <=> <<s, f>> \in d.out \/ f = n.bufs[s]
      <4>1. f = n.bufs[s] => <<s, f>> \in c.out
        BY <1>0, <2>1 DEF Held
      <4> QED  BY <1>4, <3>1, <4>1
    <3>3. <<s, f>> \in d.out <=> \/ \E i \in 1 .. Len(g.q) : g.q[i].bufs[s] = f
                                 \/ \E a \in c.sent : a.bufs[s] = f
      BY <1>3, <1>4, <2>1 DEF Held
    <3> QED  BY <1>3, <3>2, <3>3
  <2>3. \A i, j \in 1 .. Len(g.q), s \in attr.streams :
          g.q[i].bufs[s] = g.q[j].bufs[s] /\ g.q[i].bufs[s] # 0 => i = j
    BY <1>3, <1>4, <2>1 DEF Held
  <2>4. \A a \in c.sent, s \in attr.streams : a.bufs[s] # b.bufs[s]
    BY <1>0, <1>3, <2>1 DEF Held
  <2>5. \A a, e \in g.sent, s \in attr.streams : a.bufs[s] = e.bufs[s] => a = e
    BY <1>3, <2>1, <2>4 DEF Held
  <2>6. ASSUME NEW i \in 1 .. Len(g.q), NEW a \in g.sent,
                 NEW s \in attr.streams
        PROVE  g.q[i].bufs[s] # a.bufs[s]
    <3>1. g.q[i] = c.q[i + 1] /\ i + 1 \in 1 .. Len(c.q) /\ i + 1 # 1
      BY <1>7
    <3>2. CASE a \in c.sent
      BY <2>1, <3>1, <3>2 DEF Held
    <3>3. CASE a = b
      BY <1>0, <1>2, <1>3, <2>1, <3>1, <3>3 DEF Held
    <3> QED  BY <1>3, <3>2, <3>3
  <2> QED  BY <2>2, <2>3, <2>5, <2>6 DEF Held
<1>11. Delivered(c, g)
  <2>0. c.shown \in Nat
    BY <1>0, ChannelIs, AttrIs
  <2>1. c.shown < n.frame
    BY <1>0 DEF Kept, Sorted
  <2>2. Whole(b)
    BY <1>2, <1>3 DEF Whole
  <2>3. c.sent \subseteq g.sent /\ c.shown <= g.shown
    BY <1>2, <1>3, <2>0, <2>1
  <2>4. \E s \in attr.streams : c.shown < b.bufs[s] /\ b.bufs[s] <= g.shown
    BY <1>2, <1>3, <2>1
  <2> QED  BY <1>3, <2>2, <2>3, <2>4 DEF Delivered
<1>12. Kept(g, l, {})
  BY <1>3, <1>5, <1>6, <1>8, <1>9, <1>10 DEF Kept
<1> QED  BY <1>3, <1>4, <1>11, <1>12 DEF g

\* The rounds of the loop that delivers super-buffers.
LEMMA RoundsDeliver ==
    ASSUME attr \in Attrs, NEW c, NEW l \in [attr.streams -> 0 .. attr.frames],
           Kept(c, l, {}), Paired(c),
           NEW r, Rounds("deliver", 0, c, r), NEW k \in 0 .. Len(c.q)
    PROVE  /\ Kept(r[k], l, {}) /\ Paired(r[k]) /\ Delivered(c, r[k])
           /\ r[k].pending <= c.pending /\ r[k].match_cnt <= c.match_cnt
           /\ \/ Len(r[k].q) = Len(c.q) - k
              \/ ~Wanted(r[k]) \/ r[k].match_cnt = 0
<1>0. Len(c.q) \in Nat /\ c \in Channel /\ c.match_cnt \in Nat
        /\ c.pending \in Nat
  BY HeadIs, ChannelIs, AttrIs DEF Kept, Typed
<1> DEFINE P(i) == /\ Kept(r[i], l, {}) /\ Paired(r[i]) /\ Delivered(c, r[i])
                   /\ r[i].pending <= c.pending
                        /\ r[i].match_cnt <= c.match_cnt
                   /\ \/ Len(r[i].q) = Len(c.q) - i
                      \/ ~Wanted(r[i]) \/ r[i].match_cnt = 0
           Bad == {i \in 0 .. Len(c.q) : ~P(i)}
<1>1. P(0)
  <2>1. r[0] = c
    BY DEF Rounds
  <2>2. c.shown \in Nat
    BY <1>0, ChannelIs, AttrIs
  <2>3. Delivered(c, c)
    BY <2>2 DEF Delivered
  <2> QED  BY <1>0, <2>1, <2>3
<1>2. ASSUME NEW i \in 1 .. Len(c.q), P(i - 1) PROVE P(i)
  <2> DEFINE d == r[i - 1]
             e == r[i]
  <2>1. /\ Kept(d, l, {}) /\ Paired(d) /\ Delivered(c, d)
             /\ d.pending <= c.pending
        /\ d.match_cnt <= c.match_cnt /\ e = StepOf("deliver", 0, d)
        /\ \/ Len(d.q) = Len(c.q) - (i - 1)
           \/ ~Wanted(d) \/ d.match_cnt = 0
    BY <1>2 DEF Rounds
  <2>1a. e = Deliver(d)
    BY <2>1, RoundsOf
  <2> HIDE DEF d, e
  <2>2. /\ Len(d.q) \in Nat /\ d.match_cnt \in 0 .. Len(d.q)
        /\ HeadMatched(d) <=> d.match_cnt > 0
        /\ d \in Channel /\ d.pending \in Nat
    BY <2>1, HeadIs, ChannelIs, AttrIs DEF Kept, Typed
  <2>3. CASE ~(Wanted(d) /\ HeadMatched(d))
    <3>1. e = d
      BY <2>1a, <2>3 DEF Deliver
    <3>2. ~Wanted(d) \/ d.match_cnt = 0
      BY <2>2, <2>3
    <3> QED  BY <2>1, <3>1, <3>2 DEF e
  <2>4. CASE Wanted(d) /\ HeadMatched(d)
    <3>1. /\ Kept(e, l, {}) /\ Paired(e) /\ e.pending <= d.pending
          /\ Len(e.q) = Len(d.q) - 1 /\ e.match_cnt = d.match_cnt - 1
          /\ Delivered(d, e)
      BY <2>1, <2>1a, <2>4, DeliverKeeps
    <3>2. e \in Channel /\ e.pending \in Nat
      BY <3>1, ChannelIs, AttrIs DEF Kept, Typed
    <3>3. Delivered(c, e)
      BY <1>0, <2>1, <2>2, <3>1, <3>2, DeliveredTwice
    <3>4. Len(d.q) = Len(c.q) - (i - 1)
      BY <2>1, <2>2, <2>4
    <3>5. /\ Len(e.q) = Len(c.q) - i
      BY <1>0, <2>2, <3>1, <3>4
    <3>6. e.pending <= c.pending /\ e.match_cnt <= c.match_cnt
      BY <1>0, <2>1, <2>2, <3>1, <3>2
    <3> QED  BY <3>1, <3>3, <3>5, <3>6 DEF e
  <2> QED  BY <2>3, <2>4
<1>3. Bad = {}
  <2> SUFFICES ASSUME Bad # {} PROVE FALSE
    OBVIOUS
  <2> HIDE DEF P
  <2>0. Bad \subseteq Nat
    BY <1>0
  <2>1. PICK i \in Bad : \A j \in Bad : i <= j
    <3> HIDE DEF Bad
    <3> QED  BY <2>0, LeastNatural
  <2>2. i # 0 /\ i \in 1 .. Len(c.q) /\ i - 1 \in 0 .. Len(c.q)
          /\ i - 1 \notin Bad
    BY <1>0, <1>1, <2>1
  <2> QED  BY <1>2, <2>1, <2>2
<1> QED  BY <1>3

\* What every command and every frame ends with.
\* The end of mm_channel_process_stream_buf: the queue is within the mark,
\* and no request waits for what is in it.
LEMMA ProcessKeeps ==
    ASSUME attr \in Attrs, NEW c, NEW l \in [attr.streams -> 0 .. attr.frames],
           Kept(c, l, {}), Shooting(c) \/ Stopping(c)
    PROVE  /\ Kept(Process(c), l, {}) /\ Paired(Process(c))
           /\ Process(c).match_cnt <= attr.water
           /\ Wanted(Process(c)) => Process(c).match_cnt = 0
           /\ Process(c).pending <= c.pending
           /\ Delivered(c, Process(c))
<1> DEFINE z == ZslControl(c)
           d == Overflow(z)
           p == Process(c)
<1>0. c \in Channel
  BY DEF Kept, Typed
<1>1. /\ Kept(z, l, {}) /\ Paired(z) /\ Alike(c, z) /\ z.pending = c.pending
  BY ZslControlIs
<1>2. attr.water \in Nat
  BY AttrIs
<1>3. /\ d = KeepMatched(z, attr.water)
  BY DEF Overflow
<1> HIDE DEF z
<1>4. /\ Kept(d, l, {}) /\ Trimmed(z, d)
      /\ attr.mode = "BURST" => d.match_cnt <= attr.water
  BY <1>1, <1>2, <1>3, KeepMatchedKeeps
<1> HIDE DEF d
<1>5. z \in Channel /\ d \in Channel
  BY <1>1, <1>4 DEF Kept, Typed
<1>6. Paired(d) /\ d.pending = z.pending /\ d.shown = z.shown /\ d.sent
        = z.sent
  BY <1>1, <1>4, <1>5, TrimmedIs DEF Paired, Shooting
<1>7. Len(d.q) \in Nat
  BY <1>4, HeadIs
<1>8. PICK r : Rounds("deliver", 0, d, r) /\ p = r[Len(d.q)]
  BY <1>7, DeliverRounds DEF d, z
<1> HIDE DEF p
<1>9. /\ Kept(p, l, {}) /\ Paired(p) /\ Delivered(d, p)
      /\ p.pending <= d.pending /\ p.match_cnt <= d.match_cnt
      /\ \/ Len(p.q) = Len(d.q) - Len(d.q)
         \/ ~Wanted(p) \/ p.match_cnt = 0
  BY <1>4, <1>6, <1>7, <1>8, RoundsDeliver
<1>10. /\ p.match_cnt \in 0 .. Len(p.q) /\ p \in Channel
            /\ d.match_cnt \in 0 .. Len(d.q)
       /\ Len(p.q) \in Nat
  BY <1>4, <1>9, HeadIs DEF Kept, Typed
<1>11. Wanted(p) => p.match_cnt = 0
  BY <1>7, <1>9, <1>10
<1>12. p.match_cnt <= attr.water
  <2>1. CASE attr.mode = "BURST"
    BY <1>2, <1>4, <1>7, <1>9, <1>10, <2>1
  <2>2. CASE attr.mode = "CONTINUOUS"
    <3>1. Wanted(p)
      BY <1>9, <2>2 DEF Wanted, Kept, Typed
    <3> QED  BY <1>2, <1>11, <3>1
  <2> QED  BY <2>1, <2>2, AttrIs
<1>13. Delivered(c, p) /\ p.pending <= c.pending
  BY <1>1, <1>6, <1>9 DEF Delivered, Alike
<1> QED  BY <1>9, <1>11, <1>12, <1>13 DEF p

\* A request.
LEMMA ReqGoes ==
    ASSUME attr \in Attrs, NEW c, NEW l, NEW x, Kept(c, l, x), Shooting(c),
           NEW n \in 0 .. attr.pictures, NEW k \in 0 .. attr.pictures
    PROVE  /\ Kept(Req(c, n, k), l, x) /\ Shooting(Req(c, n, k))
                /\ Req(c, n, k).pending = n
           /\ Req(c, n, k).sent = c.sent /\ Req(c, n, k).shown = c.shown
<1> DEFINE t == IF n = 0 \/ k > n THEN n ELSE k
           b == IF t > 0 THEN FALSE ELSE c.led
           d == [c EXCEPT !.pending = n, !.retro = t, !.wait = FALSE, !.stop
             = FALSE,
                          !.unlock = FALSE, !.led = b]
<1>0. c \in Channel /\ c.led \in BOOLEAN /\ attr.pictures \in Nat
  BY ChannelIs, AttrIs DEF Kept, Typed
<1>1. Req(c, n, k) = Skip(d)
  BY <1>0 DEF Req, Channel
<1>2. t \in 0 .. attr.pictures /\ t <= n
  BY <1>0
<1>3. b \in BOOLEAN /\ n \in 0 .. attr.pictures
  BY <1>0
<1> HIDE DEF t, b
<1>4. d \in Channel
  BY <1>0, <1>2, <1>3 DEF Channel
<1>5. /\ d.q = c.q /\ d.match_cnt = c.match_cnt /\ d.out = c.out /\ d.sent
           = c.sent
      /\ d.shown = c.shown /\ d.pending = n /\ d.retro = t /\ d.wait = FALSE
      /\ d.zsl = c.zsl /\ d.manual = c.manual /\ d.started = c.started
      /\ d.burst = c.burst /\ d.stop = FALSE
  BY <1>0 DEF Channel
<1> HIDE DEF d
<1>6. Typed(d)
  BY <1>2, <1>4, <1>5 DEF Typed
<1>7. Kept(d, l, x) /\ Shooting(d)
  BY <1>5, <1>6, SameQueue DEF Shooting
<1>8. attr.lookBack \in Nat
  BY AttrIs
<1>9. Kept(Skip(d), l, x) /\ Trimmed(d, Skip(d))
  BY <1>7, <1>8, KeepMatchedKeeps DEF Skip
<1> QED  BY <1>1, <1>4, <1>5, <1>7, <1>9, TrimmedIs DEF Shooting

---------------------------------------------------------------------------
(* Nodes leave the queue                                                   *)

---------------------------------------------------------------------------
(* Nodes that leave the queue                                              *)

\* Kept, but for the order of the matched nodes.
Orderly(c, l, x) ==
    /\ Typed(c)
    /\ \A i \in 1 .. Len(c.q) : Made(c.q[i])
    /\ Sorted(c) /\ Seen(c, l) /\ Held(c, x)

\* The nodes that stay.
Rest(c, S) == (1 .. Len(c.q)) \ S

\* The places of the nodes that stay are in order.
LEMMA PlaceIs ==
    ASSUME NEW c, Typed(c), NEW S
    PROVE  /\ IsFiniteSet(Rest(c, S)) /\ Cardinality(Rest(c, S)) \in Nat
           /\ DOMAIN c.q \ S = Rest(c, S)
           /\ \A i \in Rest(c, S) :
                Place(c, S, i) \in 1 .. Cardinality(Rest(c, S))
           /\ \A i, j \in Rest(c, S) : i < j => Place(c, S, i) < Place(c, S, j)
<1> DEFINE keep == Rest(c, S)
           upto(i) == {j \in keep : j <= i}
<1>1. Len(c.q) \in Nat /\ DOMAIN c.q = 1 .. Len(c.q)
  BY DEF Typed, Channel, Queues
<1>2. IsFiniteSet(1 .. Len(c.q))
  BY <1>1, FS_Interval
<1>3. IsFiniteSet(keep) /\ Cardinality(keep) \in Nat
  BY <1>2, FS_Subset, FS_CardinalityType DEF Rest
<1>4. DOMAIN c.q \ S = keep /\ keep \subseteq Nat
  BY <1>1 DEF Rest
<1>5. \A i : Place(c, S, i) = Cardinality(upto(i))
  BY <1>4 DEF Place
<1> HIDE DEF keep
<1>6. \A i \in keep : /\ IsFiniteSet(upto(i))
                           /\ Cardinality(upto(i)) <= Cardinality(keep)
                      /\ Cardinality(upto(i)) \in Nat
  BY <1>3, FS_Subset, FS_CardinalityType
<1>7. ASSUME NEW i \in keep
               PROVE Cardinality(upto(i)) \in 1 .. Cardinality(keep)
  <2>1. i \in upto(i)
    BY <1>4
  <2>2. Cardinality(upto(i)) # 0
    BY <1>6, <2>1, FS_EmptySet
  <2> QED  BY <1>3, <1>6, <2>2
<1>8. ASSUME NEW i \in keep, NEW j \in keep, i < j
      PROVE  Cardinality(upto(i)) < Cardinality(upto(j))
  <2>1. upto(i) \subseteq upto(j) /\ j \in upto(j) /\ j \notin upto(i)
    <3>1. i \in Nat /\ j \in Nat /\ i < j
      BY <1>4, <1>8
    <3>2. ASSUME NEW k \in keep, k <= i PROVE k <= j
      BY <1>4, <3>1, <3>2
    <3>3. ~(j <= i) /\ j <= j
      BY <3>1
    <3> QED  BY <3>2, <3>3
  <2>2. IsFiniteSet(upto(j)) /\ Cardinality(upto(i)) \in Nat
          /\ Cardinality(upto(j)) \in Nat
    BY <1>6
  <2>2a. upto(i) \in SUBSET upto(j) /\ upto(i) # upto(j)
    BY <2>1
  <2> HIDE DEF upto
  <2>3. Cardinality(upto(i)) <= Cardinality(upto(j))
          /\ Cardinality(upto(j)) # Cardinality(upto(i))
    BY <2>2, <2>2a, FS_Subset
  <2> QED  BY <2>2, <2>3
<1> QED  BY <1>3, <1>4, <1>5, <1>7, <1>8 DEF keep

\* There is no gap between them.
LEMMA PlaceOnto ==
    ASSUME NEW c, Typed(c), NEW S
    PROVE  \A k \in 1 .. Cardinality(Rest(c, S)) : \E i \in Rest(c, S) :
             Place(c, S, i) = k
<1> DEFINE keep == Rest(c, S)
           n == Cardinality(keep)
           p == [i \in keep |-> Place(c, S, i)]
<1>1. /\ IsFiniteSet(keep) /\ n \in Nat
      /\ \A i \in keep : Place(c, S, i) \in 1 .. n
      /\ \A i, j \in keep : i < j => Place(c, S, i) < Place(c, S, j)
  BY PlaceIs
<1>2. keep \subseteq Nat
  BY DEF Rest, Typed, Channel, Queues
<1> HIDE DEF keep
<1>3. p \in [keep -> 1 .. n]
  BY <1>1
<1>4. \A i, j \in keep : p[i] = p[j] => i = j
  <2>1. SUFFICES ASSUME NEW i \in keep, NEW j \in keep, p[i] = p[j], i # j
                          PROVE FALSE
    OBVIOUS
  <2>2. i < j \/ j < i
    BY <1>2, <2>1
  <2> QED  BY <1>1, <2>1, <2>2
<1>5. IsFiniteSet(1 .. n) /\ Cardinality(1 .. n) = n
  BY <1>1, FS_Interval
<1> HIDE DEF p
<1>6. p \in Injection(keep, 1 .. n)
  BY <1>3, <1>4 DEF Injection, IsInjective
<1>7. p \in Surjection(keep, 1 .. n)
  <2> HIDE DEF n
  <2>1. Cardinality(keep) = n
    BY DEF n
  <2> QED  BY <1>5, <1>6, <2>1, FS_Injection
<1>8. \A k \in 1 .. n : \E i \in keep : p[i] = k
  BY <1>7 DEF Surjection
<1> QED  BY <1>8 DEF p, keep

\* The queue without some nodes.
LEMMA WithoutIs ==
    ASSUME attr \in Attrs, NEW c, Typed(c), NEW S, S \subseteq 1 .. Len(c.q)
    PROVE  /\ Without(c, S) \in Channel /\ Trimmed(c, Without(c, S))
           /\ Without(c, S).match_cnt = c.match_cnt
           /\ Len(Without(c, S).q) = Cardinality(Rest(c, S))
           /\ \A i \in Rest(c, S) : Without(c, S).q[Place(c, S, i)] = c.q[i]
           /\ Without(c, S).out = c.out \ UNION {Bufs(c.q[i]) : i \in S}
<1> DEFINE keep == DOMAIN c.q \ S
           kept(k) == CHOOSE i \in keep : Place(c, S, i) = k
           n == Cardinality(keep)
           q == [k \in 1 .. n |-> c.q[kept(k)]]
           o == c.out \ UNION {Bufs(c.q[i]) : i \in S}
           d == Without(c, S)
<1>1. /\ n \in Nat /\ keep = Rest(c, S)
      /\ \A i \in keep : Place(c, S, i) \in 1 .. n
      /\ \A i, j \in keep : i < j => Place(c, S, i) < Place(c, S, j)
  BY PlaceIs
<1>2. c \in Channel /\ c.q \in Seq(Node) /\ keep \subseteq 1 .. Len(c.q)
        /\ Len(c.q) \in Nat
  BY <1>1 DEF Typed, Channel, Queues, Rest
<1>3. d = [c EXCEPT !.q = q, !.out = o]
  <2>1. d = Qbuf([c EXCEPT !.q = q], UNION {Bufs(c.q[i]) : i \in S})
    BY DEF Without
  <2> HIDE DEF q, d
  <2> QED  BY <1>2, <2>1 DEF Qbuf, Channel
<1>4. \A k \in 1 .. n : kept(k) \in keep /\ Place(c, S, kept(k)) = k
  <2>1. \A k \in 1 .. n : \E i \in keep : Place(c, S, i) = k
    <3>1. \A k \in 1 .. Cardinality(Rest(c, S)) : \E i \in Rest(c, S) :
            Place(c, S, i) = k
      BY PlaceOnto
    <3> HIDE DEF keep
    <3> QED  BY <1>1, <3>1 DEF n
  <2> HIDE DEF keep, n
  <2> QED  BY <2>1
<1>5. \A i \in keep : kept(Place(c, S, i)) = i
  <2> SUFFICES ASSUME NEW i \in keep PROVE kept(Place(c, S, i)) = i
    OBVIOUS
  <2> DEFINE j == kept(Place(c, S, i))
  <2>1. j \in keep /\ Place(c, S, j) = Place(c, S, i)
    BY <1>1, <1>4
  <2>2. i \in Nat /\ j \in Nat
    BY <1>2, <2>1
  <2>3. Place(c, S, i) \in Nat
    BY <1>1
  <2> HIDE DEF j
  <2>4. ~(i < j) /\ ~(j < i)
    BY <1>1, <2>1, <2>3
  <2> QED  BY <2>2, <2>4 DEF j
<1> HIDE DEF kept, n
<1>6. q \in Queues /\ Len(q) = n /\ \A i \in keep : q[Place(c, S, i)] = c.q[i]
  <2>1. \A k \in 1 .. n : c.q[kept(k)] \in Node
    BY <1>2, <1>4
  <2>2. q \in Seq(Node)
    <3> HIDE DEF keep
    <3> QED  BY <1>1, <2>1
  <2>3. Len(q) = n
    BY <1>1
  <2> QED  BY <1>1, <1>5, <2>2, <2>3 DEF Queues
<1>7. o \in Outs
  BY <1>2 DEF Channel, Outs
<1> HIDE DEF q, o, d, keep
<1>8. d \in Channel
  BY <1>2, <1>3, <1>6, <1>7 DEF Channel
<1>9. d.q = q /\ d.out = o /\ d.match_cnt = c.match_cnt
  BY <1>2, <1>3 DEF Channel
<1>10. Trimmed(c, d)
  BY <1>2, <1>3, <1>9 DEF Trimmed, Channel
<1> QED  BY <1>1, <1>6, <1>8, <1>9, <1>10 DEF q, o, d, n

\* Any nodes may leave the queue: the others keep their order, and the frames
\* of those that leave go back.
LEMMA WithoutKeeps ==
    ASSUME attr \in Attrs, NEW c, NEW l, NEW x, Orderly(c, l, x),
           NEW S, S \subseteq 1 .. Len(c.q)
    PROVE  Orderly(Without(c, S), l, x)
<1> DEFINE d == Without(c, S)
           at(i) == Place(c, S, i)
           n == Cardinality(Rest(c, S))
<1>0. Typed(c) /\ c \in Channel
  BY DEF Orderly, Typed
<1>1. /\ d \in Channel /\ Trimmed(c, d) /\ Len(d.q) = n
      /\ \A i \in Rest(c, S) : d.q[at(i)] = c.q[i]
      /\ d.out = c.out \ UNION {Bufs(c.q[i]) : i \in S}
  BY <1>0, WithoutIs
<1>2. /\ n \in Nat /\ \A i \in Rest(c, S) : at(i) \in 1 .. n
      /\ \A i, j \in Rest(c, S) : i < j => at(i) < at(j)
  BY <1>0, PlaceIs
<1>3. \A k \in 1 .. n : \E i \in Rest(c, S) : at(i) = k
  BY <1>0, PlaceOnto
<1>4. d.sent = c.sent /\ d.shown = c.shown /\ Typed(d)
  <2> HIDE DEF d
  <2>1. /\ d.sent = c.sent /\ d.shown = c.shown /\ d.retro = c.retro
             /\ d.pending = c.pending
        /\ d.wait = c.wait
    BY <1>0, <1>1, TrimmedIs
  <2> QED  BY <1>0, <1>1, <2>1 DEF Typed
<1>5. Rest(c, S) \subseteq 1 .. Len(c.q) /\ Len(c.q) \in Nat
  BY <1>0, ChannelIs DEF Rest
<1> HIDE DEF d, at, n
<1>6. ASSUME NEW k \in 1 .. Len(d.q)
      PROVE  \E i \in Rest(c, S) : i \in 1 .. Len(c.q) /\ at(i) = k /\ d.q[k]
               = c.q[i]
  BY <1>1, <1>3, <1>5
<1>7. \A i \in 1 .. Len(d.q) : Made(d.q[i])
  BY <1>6 DEF Orderly
<1>8. Sorted(d)
  <2>1. ASSUME NEW k \in 1 .. Len(d.q), NEW m \in 1 .. Len(d.q), k < m
        PROVE  d.q[k].frame < d.q[m].frame
    <3>1. PICK i \in Rest(c, S) : i \in 1 .. Len(c.q) /\ at(i) = k /\ d.q[k]
            = c.q[i]
      BY <1>6
    <3>2. PICK j \in Rest(c, S) : j \in 1 .. Len(c.q) /\ at(j) = m /\ d.q[m]
            = c.q[j]
      BY <1>6
    <3>3. i \in Nat /\ j \in Nat /\ at(i) \in Nat /\ at(j) \in Nat
      BY <1>1, <1>2, <3>1, <3>2
    <3>4. ~(j < i) /\ i # j
      BY <1>2, <2>1, <3>1, <3>2, <3>3
    <3>5. i < j
      BY <3>3, <3>4
    <3> QED  BY <3>1, <3>2, <3>5 DEF Orderly, Sorted
  <2>2. ASSUME NEW k \in 1 .. Len(d.q) PROVE d.shown < d.q[k].frame
    BY <1>4, <1>6 DEF Orderly, Sorted
  <2> QED  BY <2>1, <2>2 DEF Sorted
<1>9. Seen(d, l)
  <2>1. \A i \in 1 .. Len(d.q), s \in attr.streams : d.q[i].bufs[s] <= l[s]
    BY <1>6 DEF Orderly, Seen
  <2>2. d.out \subseteq c.out
    BY <1>1
  <2> QED  BY <1>4, <2>1, <2>2 DEF Orderly, Seen
<1>10. Held(d, x)
  <2>0. Held(c, x)
    BY DEF Orderly
  <2>1. ASSUME NEW s \in attr.streams, NEW f \in Frames
        PROVE  <<s, f>> \in d.out <=> \/ \E i \in 1 .. Len(d.q) :
                                           d.q[i].bufs[s] = f
                                      \/ \E b \in d.sent : b.bufs[s] = f
                                      \/ <<s, f>> \in x
    <3>0. f # 0
      BY AttrIs DEF Frames
    <3>1. \A i \in 1 .. Len(c.q) : <<s, f>> \in Bufs(c.q[i])
            <=> c.q[i].bufs[s] = f
      BY <1>0, <3>0, NodeIs, BufsAre
    <3>2. <<s, f>> \in d.out <=> <<s, f>> \in c.out
            /\ ~\E i \in S : c.q[i].bufs[s] = f
      BY <1>1, <3>1
    <3>3. ASSUME <<s, f>> \in d.out
          PROVE  \/ \E i \in 1 .. Len(d.q) : d.q[i].bufs[s] = f
                 \/ \E b \in d.sent : b.bufs[s] = f
                 \/ <<s, f>> \in x
      <4>1. CASE \E i \in 1 .. Len(c.q) : c.q[i].bufs[s] = f
        <5>1. PICK i \in 1 .. Len(c.q) : c.q[i].bufs[s] = f
          BY <4>1
        <5>2. i \in Rest(c, S)
          BY <3>2, <3>3, <5>1 DEF Rest
        <5>3. at(i) \in 1 .. Len(d.q) /\ d.q[at(i)] = c.q[i]
          BY <1>1, <1>2, <5>2
        <5> QED  BY <5>1, <5>3
      <4>2. CASE ~\E i \in 1 .. Len(c.q) : c.q[i].bufs[s] = f
        BY <1>4, <2>0, <3>2, <3>3, <4>2 DEF Held
      <4> QED  BY <4>1, <4>2
    <3>4. ASSUME NEW k \in 1 .. Len(d.q), d.q[k].bufs[s] = f
                   PROVE <<s, f>> \in d.out
      <4>1. PICK i \in Rest(c, S) : i \in 1 .. Len(c.q) /\ at(i) = k /\ d.q[k]
              = c.q[i]
        BY <1>6
      <4>2. <<s, f>> \in c.out
        BY <2>0, <3>4, <4>1 DEF Held
      <4>3. ASSUME NEW j \in S, c.q[j].bufs[s] = f PROVE FALSE
        <5>1. j \in 1 .. Len(c.q) /\ j # i
          BY <4>1 DEF Rest
        <5> QED  BY <2>0, <3>0, <3>4, <4>1, <4>3, <5>1 DEF Held
      <4> QED  BY <3>2, <4>2, <4>3
    <3>5. ASSUME (\E b \in d.sent : b.bufs[s] = f) \/ <<s, f>> \in x
                   PROVE <<s, f>> \in d.out
      <4>1. <<s, f>> \in c.out
        BY <1>4, <2>0, <3>5 DEF Held
      <4>2. \A j \in S : c.q[j].bufs[s] # f
        BY <1>4, <2>0, <3>5 DEF Held
      <4> QED  BY <3>2, <4>1, <4>2
    <3> QED  BY <3>3, <3>4, <3>5
  <2>2. ASSUME NEW k \in 1 .. Len(d.q), NEW m \in 1 .. Len(d.q),
                 NEW s \in attr.streams,
               d.q[k].bufs[s] = d.q[m].bufs[s], d.q[k].bufs[s] # 0
        PROVE  k = m
    <3>1. PICK i \in Rest(c, S) : i \in 1 .. Len(c.q) /\ at(i) = k /\ d.q[k]
            = c.q[i]
      BY <1>6
    <3>2. PICK j \in Rest(c, S) : j \in 1 .. Len(c.q) /\ at(j) = m /\ d.q[m]
            = c.q[j]
      BY <1>6
    <3>3. i = j
      BY <2>0, <2>2, <3>1, <3>2 DEF Held
    <3> QED  BY <3>1, <3>2, <3>3
  <2>3. \A a, b \in d.sent, s \in attr.streams : a.bufs[s] = b.bufs[s] => a = b
    BY <1>4, <2>0 DEF Held
  <2>4. ASSUME NEW k \in 1 .. Len(d.q)
        PROVE  /\ \A b \in d.sent, s \in attr.streams :
                    d.q[k].bufs[s] # b.bufs[s]
               /\ \A s \in attr.streams, f \in Frames : <<s, f>> \in x
                    => d.q[k].bufs[s] # f
    <3>1. PICK i \in Rest(c, S) : i \in 1 .. Len(c.q) /\ at(i) = k /\ d.q[k]
            = c.q[i]
      BY <1>6
    <3> QED  BY <1>4, <2>0, <3>1 DEF Held
  <2>5. \A s \in attr.streams, f \in Frames : <<s, f>> \in x => d.shown < f
          /\ \A b \in d.sent : b.bufs[s] # f
    BY <1>4, <2>0 DEF Held
  <2> QED  BY <2>1, <2>2, <2>3, <2>4, <2>5 DEF Held
<1> QED  BY <1>4, <1>7, <1>8, <1>9, <1>10 DEF Orderly, d

\* The nodes before the first that leaves stay where they are.
LEMMA PlaceBefore ==
    ASSUME NEW c, Typed(c), NEW S, NEW m \in 0 .. Len(c.q), \A i \in S : i > m,
           S \subseteq 1 .. Len(c.q)
    PROVE  /\ \A i \in 1 .. m : i \in Rest(c, S) /\ Place(c, S, i) = i
           /\ \A i \in Rest(c, S) : i > m => Place(c, S, i) > m
<1>1. Len(c.q) \in Nat /\ DOMAIN c.q \ S = Rest(c, S) /\ m \in Nat
  BY PlaceIs DEF Typed, Channel, Queues
<1>2. ASSUME NEW i \in 1 .. m PROVE i \in Rest(c, S) /\ Place(c, S, i) = i
  <2>1. i \in Rest(c, S)
    BY <1>1 DEF Rest
  <2>2. {j \in Rest(c, S) : j <= i} = 1 .. i
    <3>1. ASSUME NEW j \in 1 .. i PROVE j \in Rest(c, S) /\ j <= i
      BY <1>1 DEF Rest
    <3>2. ASSUME NEW j \in Rest(c, S), j <= i PROVE j \in 1 .. i
      BY <1>1, <3>2 DEF Rest
    <3> QED  BY <3>1, <3>2
  <2>3. Cardinality(1 .. i) = i
    BY <1>1, FS_Interval
  <2> QED  BY <1>1, <2>1, <2>2, <2>3 DEF Place
<1>3. ASSUME NEW i \in Rest(c, S), i > m PROVE Place(c, S, i) > m
  <2>0. i \in Nat /\ Place(c, S, i) \in Nat \ {0}
    <3>1. Place(c, S, i) \in 1 .. Cardinality(Rest(c, S))
            /\ Cardinality(Rest(c, S)) \in Nat
      BY PlaceIs
    <3> QED  BY <1>1, <3>1 DEF Rest
  <2>1. CASE m = 0
    BY <2>0, <2>1, PlaceIs
  <2>2. CASE m > 0
    <3>1. m \in 1 .. m
      BY <1>1, <2>2
    <3>2. m \in Rest(c, S) /\ Place(c, S, m) = m
      BY <1>2, <3>1
    <3>3. Place(c, S, m) < Place(c, S, i)
      BY <1>3, <3>2, PlaceIs
    <3> QED  BY <1>1, <2>0, <3>2, <3>3
  <2> QED  BY <1>1, <2>1, <2>2
<1> QED  BY <1>2, <1>3

---------------------------------------------------------------------------
(* A frame and the node it goes to                                         *)

---------------------------------------------------------------------------
(* A frame that a node waits for                                           *)

\* The first of a set of numbers.
LEMMA LeastIs ==
    ASSUME NEW S, S \subseteq Nat, S # {}
    PROVE  Least(S) \in S /\ \A j \in S : Least(S) <= j
<1>1. PICK i \in S : \A j \in S : i <= j
  BY LeastNatural
<1> QED  BY <1>1 DEF Least

\* Frame f of stream s, the last it delivered, is in hand.
Arrived(c, l, s, f) ==
    /\ Kept(c, l, {<<s, f>>})
    /\ l \in [attr.streams -> 0 .. attr.frames]
    /\ s \in attr.streams /\ f \in Frames /\ l[s] = f

\* The queue may differ, the rest does not.
SameRequests(c, d) ==
    /\ d.sent = c.sent /\ d.shown = c.shown /\ d.pending = c.pending
         /\ d.retro = c.retro
    /\ d.wait = c.wait /\ d.zsl = c.zsl /\ d.manual = c.manual /\ d.started
         = c.started
    /\ d.burst = c.burst /\ d.stop = c.stop

\* SameRequests is transitive.
LEMMA SameRequestsTwice ==
    ASSUME NEW c, NEW d, NEW e, SameRequests(c, d), SameRequests(d, e)
    PROVE  SameRequests(c, e)
BY DEF SameRequests

\* A queue that is trimmed.
LEMMA TrimmedRequests ==
    ASSUME NEW c \in Channel, NEW d, Trimmed(c, d)
    PROVE  SameRequests(c, d)
BY TrimmedIs DEF SameRequests

\* A frame that arrives is newer than what the stream has in the queue.
LEMMA ArrivedIs ==
    ASSUME attr \in Attrs, NEW c, NEW l, NEW s, NEW f, Arrived(c, l, s, f)
    PROVE  /\ f \in Nat \ {0} /\ c.shown < f
           /\ \A i \in 1 .. Len(c.q) : c.q[i].bufs[s] \in Nat
                /\ c.q[i].bufs[s] < f
           /\ \A i \in 1 .. Len(c.q) : c.q[i].matched => c.q[i].frame < f
<1>0. f \in Nat \ {0} /\ attr.frames \in Nat /\ Typed(c)
  BY AttrIs DEF Arrived, Frames, Kept
<1>1. c.shown < f
  BY DEF Arrived, Kept, Held
<1>2. ASSUME NEW i \in 1 .. Len(c.q) PROVE c.q[i].bufs[s] \in Nat
               /\ c.q[i].bufs[s] < f
  <2>1. c.q[i].bufs[s] \in Nat
    BY <1>0, NodeIs DEF Arrived
  <2>2. c.q[i].bufs[s] <= f /\ c.q[i].bufs[s] # f
    BY DEF Arrived, Kept, Seen, Held
  <2> QED  BY <1>0, <2>1, <2>2
<1>3. ASSUME NEW i \in 1 .. Len(c.q), c.q[i].matched PROVE c.q[i].frame < f
  <2>1. c.q[i] \in Node /\ Made(c.q[i])
    BY <1>0, NodeIs DEF Arrived, Kept
  <2>2. c.q[i].bufs[s] >= c.q[i].frame /\ c.q[i].frame \in Nat
    BY <1>3, <2>1, MatchedIsWhole DEF Arrived
  <2> QED  BY <1>0, <1>2, <2>2
<1> QED  BY <1>0, <1>1, <1>2, <1>3

\* A node with frame f of stream s.
Filled(n, s, f) ==
    [n EXCEPT !.bufs = [n.bufs EXCEPT ![s] = f], !.meta = 0,
              !.frame = IF n.meta > 0 THEN f ELSE n.frame]

\* A node that gets a frame is a node.
LEMMA FilledIs ==
    ASSUME attr \in Attrs, NEW n \in Node, Made(n), NEW s \in attr.streams,
             NEW f \in Frames,
           n.bufs[s] < f, Fits(n, s, f)
    PROVE  /\ n.bufs[s] = 0
           /\ Filled(n, s, f) \in Node /\ Made(Filled(n, s, f))
           /\ Filled(n, s, f).bufs = [n.bufs EXCEPT ![s] = f]
           /\ Filled(n, s, f).matched = n.matched /\ Filled(n, s, f).meta = 0
           /\ Filled(n, s, f).frame <= f /\ Filled(n, s, f).frame <= n.frame
           /\ \/ Filled(n, s, f).frame = n.frame
              \/ Low /\ s # Meta /\ Filled(n, s, f).frame = f /\ n.meta > f
<1> DEFINE b == [n.bufs EXCEPT ![s] = f]
           g == IF n.meta > 0 THEN f ELSE n.frame
           N == Filled(n, s, f)
<1>0. /\ n.bufs \in [attr.streams -> 0 .. attr.frames] /\ n.frame \in Frames
      /\ n.meta \in 0 .. attr.frames /\ n.matched \in BOOLEAN /\ ~n.matched
      /\ attr.frames \in Nat /\ f \in Nat \ {0} /\ n.frame \in Nat \ {0}
           /\ n.meta \in Nat
  BY AttrIs DEF Node, Fits, Frames
<1>1. N = [n EXCEPT !.bufs = b, !.meta = 0, !.frame = g]
  BY DEF Filled
<1>2. b \in [attr.streams -> 0 .. attr.frames] /\ g \in Frames
        /\ 0 \in 0 .. attr.frames
  BY <1>0 DEF Frames
<1>3. /\ \A t \in attr.streams : b[t] = IF t = s THEN f ELSE n.bufs[t]
      /\ g = IF n.meta > 0 THEN f ELSE n.frame
  BY <1>0
<1>4. n.bufs[s] = 0
  <2>1. CASE n.meta > 0
    <3>1. n.bufs[s] = (IF s = Meta THEN n.frame ELSE 0) /\ n.meta = n.frame
      BY <2>1 DEF Made
    <3> QED  BY <1>0, <3>1 DEF Fits
  <2>2. CASE ~(n.meta > 0)
    <3>1. CASE n.frame = f
      <4>1. CASE s \in Loose
        BY <1>0, <2>2, <3>1, <4>1 DEF Made
      <4>2. CASE s \notin Loose
        BY <1>0, <2>2, <3>1, <4>2 DEF Made
      <4> QED  BY <4>1, <4>2
    <3>2. CASE n.frame # f
      BY <1>0, <3>2 DEF Fits
    <3> QED  BY <3>1, <3>2
  <2> QED  BY <2>1, <2>2
<1>5. g <= f /\ g <= n.frame
        /\ (g = n.frame \/ (Low /\ s # Meta /\ g = f /\ n.meta > f))
  <2>1. CASE n.meta > 0
    <3>1. n.bufs[s] = (IF s = Meta THEN n.frame ELSE 0) /\ n.meta = n.frame
      BY <2>1 DEF Made
    <3>2. s # Meta
      BY <1>0, <1>4, <3>1
    <3>3. n.frame = f \/ (Low /\ n.meta > f)
      BY <3>2 DEF Fits
    <3> QED  BY <1>0, <2>1, <3>1, <3>2, <3>3
  <2>2. CASE ~(n.meta > 0)
    <3>1. n.frame = f \/ n.frame < f
      BY <1>0, <2>2 DEF Fits
    <3> QED  BY <1>0, <2>2, <3>1
  <2> QED  BY <2>1, <2>2
<1> HIDE DEF b, g, N
<1>6. N \in Node
  BY <1>1, <1>2 DEF Node
<1>7. /\ N.bufs = b /\ N.meta = 0 /\ N.frame = g /\ N.matched = n.matched
      /\ N.expected = n.expected
  BY <1>1 DEF Node
<1>8. Made(N)
  <2>1. \E t \in attr.streams \ Loose : b[t] = g
    <3>1. CASE n.meta > 0
      <4>1. s \notin Loose /\ b[s] = f /\ g = f
        <5>1. s # Meta
          BY <1>0, <1>4, <3>1 DEF Made
        <5> QED  BY <1>3, <3>1, <5>1 DEF Loose
      <4> QED  BY <4>1
    <3>2. CASE ~(n.meta > 0)
      <4>1. n.meta = 0
        BY <1>0, <3>2
      <4>2. PICK t \in attr.streams \ Loose : n.bufs[t] = n.frame
        BY <4>1 DEF Made
      <4>3. t # s
        BY <1>0, <1>4, <4>2
      <4> QED  BY <1>3, <3>2, <4>2, <4>3
    <3> QED  BY <3>1, <3>2
  <2>2. \A t \in attr.streams \ Loose : b[t] \in {0, g}
    <3> SUFFICES ASSUME NEW t \in attr.streams \ Loose PROVE b[t] \in {0, g}
      OBVIOUS
    <3>1. CASE n.meta > 0
      <4>1. t # Meta
        BY <3>1 DEF Made, Loose
      <4>2. n.bufs[t] = 0
        BY <3>1, <4>1 DEF Made
      <4> QED  BY <1>3, <3>1, <4>2
    <3>2. CASE ~(n.meta > 0)
      <4>1. n.bufs[t] \in {0, n.frame}
        BY <3>2 DEF Made
      <4>2. CASE t = s
        <5>1. n.frame = f
          BY <1>0, <3>2, <4>2 DEF Fits, Loose
        <5> QED  BY <1>3, <3>2, <4>2, <5>1
      <4> QED  BY <1>3, <3>2, <4>1, <4>2
    <3> QED  BY <3>1, <3>2
  <2>3. \A t \in Loose \cap attr.streams : b[t] = 0 \/ b[t] >= g
    <3> SUFFICES ASSUME NEW t \in Loose \cap attr.streams PROVE b[t] = 0
                          \/ b[t] >= g
      OBVIOUS
    <3>1. n.bufs[t] = 0 \/ n.bufs[t] >= n.frame
      BY DEF Made
    <3>2. n.bufs[t] \in Nat /\ g \in Nat
      BY <1>0, <1>3
    <3>3. CASE t = s
      BY <1>0, <1>3, <1>5, <3>2, <3>3
    <3>4. CASE t # s
      BY <1>0, <1>3, <1>5, <3>1, <3>2, <3>4
    <3> QED  BY <3>3, <3>4
  <2> QED  BY <1>0, <1>7, <2>1, <2>2, <2>3 DEF Made
<1> QED  BY <1>4, <1>5, <1>6, <1>7, <1>8 DEF b, g, N

\* Of a live snapshot: a node that cannot take a frame of the snapshot stream
\* is older.
LEMMA UnfitIsOlder ==
    ASSUME attr \in Attrs, NEW n \in Node, Made(n), NEW s \in attr.streams,
             NEW f \in Frames,
           n.bufs[s] < f, ~Fits(n, s, f), Low, s # Meta
    PROVE  n.frame < f
<1>0. /\ n.bufs \in [attr.streams -> 0 .. attr.frames] /\ n.meta \in Nat
      /\ attr.frames \in Nat /\ f \in Nat \ {0} /\ n.frame \in Nat \ {0}
           /\ n.bufs[s] \in Nat
  BY AttrIs DEF Node, Frames
<1>1. CASE n.matched
  BY <1>0, <1>1, MatchedIsWhole
<1>2. CASE ~n.matched
  <2>1. n.frame # f
    BY <1>2 DEF Fits
  <2>2. SUFFICES ASSUME n.frame > f PROVE FALSE
    BY <1>0, <2>1
  <2>3. CASE n.meta > 0
    <3>1. n.meta = n.frame /\ n.bufs[s] = 0
      BY <2>3 DEF Made
    <3> QED  BY <1>2, <2>2, <3>1 DEF Fits
  <2>4. CASE n.meta = 0
    <3>1. PICK t \in attr.streams \ Loose : n.bufs[t] = n.frame
      BY <2>4 DEF Made
    <3>2. t = s
      BY AttrIs DEF Loose
    <3> QED  BY <1>0, <2>2, <3>1, <3>2
  <2> QED  BY <1>0, <2>3, <2>4
<1> QED  BY <1>1, <1>2

\* d is c with another node at pos.
Replaced(c, pos, n, d) == d = [c EXCEPT !.q = [c.q EXCEPT ![pos] = n]]

\* The rest of the queue stays.
LEMMA ReplacedIs ==
    ASSUME NEW c \in Channel, NEW pos \in 1 .. Len(c.q), NEW n \in Node, NEW d,
           Replaced(c, pos, n, d)
    PROVE  /\ d \in Channel /\ SameRequests(c, d) /\ Len(d.q) = Len(c.q)
           /\ \A i \in 1 .. Len(c.q) : d.q[i] = IF i = pos THEN n ELSE c.q[i]
           /\ d.match_cnt = c.match_cnt /\ d.out = c.out /\ d.expected
                = c.expected
           /\ d.diverted = c.diverted /\ d.good = c.good
<1> DEFINE q == [c.q EXCEPT ![pos] = n]
<1>0. c.q \in Seq(Node)
  BY ChannelIs
<1>1. q \in Seq(Node) /\ Len(q) = Len(c.q)
      /\ \A i \in 1 .. Len(c.q) : q[i] = IF i = pos THEN n ELSE c.q[i]
  BY <1>0, ExceptSeq
<1>2. d = [c EXCEPT !.q = q] /\ q \in Queues
  BY <1>1 DEF Replaced, Queues
<1> HIDE DEF q
<1>3. d \in Channel
  BY <1>2 DEF Channel
<1>4. /\ d.q = q /\ SameRequests(c, d) /\ d.match_cnt = c.match_cnt /\ d.out
           = c.out
      /\ d.expected = c.expected /\ d.diverted = c.diverted /\ d.good = c.good
  BY <1>2 DEF Channel, SameRequests
<1> QED  BY <1>1, <1>3, <1>4

\* A frame in the first node that it fits keeps the queue in order.
LEMMA FilledKeeps ==
    ASSUME attr \in Attrs, NEW c, NEW l, NEW s, NEW f, Arrived(c, l, s, f),
           NEW pos \in 1 .. Len(c.q), Fits(c.q[pos], s, f),
           \A j \in 1 .. pos - 1 : ~Fits(c.q[j], s, f),
           NEW e, Replaced(c, pos, Filled(c.q[pos], s, f), e)
    PROVE  Kept(e, l, {}) /\ SameRequests(c, e)
<1> DEFINE n == c.q[pos]
           N == Filled(n, s, f)
<1>0. /\ Typed(c) /\ c \in Channel /\ Len(c.q) \in Nat /\ s \in attr.streams
           /\ f \in Frames
      /\ n \in Node /\ Made(n)
  BY NodeIs, HeadIs DEF Arrived, Kept, Typed
<1>1. /\ f \in Nat \ {0} /\ c.shown < f
      /\ \A i \in 1 .. Len(c.q) : c.q[i].bufs[s] \in Nat /\ c.q[i].bufs[s] < f
      /\ \A i \in 1 .. Len(c.q) : c.q[i].matched => c.q[i].frame < f
  BY ArrivedIs
<1>2. /\ n.bufs[s] = 0 /\ N \in Node /\ Made(N)
      /\ N.bufs = [n.bufs EXCEPT ![s] = f]
      /\ N.matched = n.matched /\ N.meta = 0
      /\ N.frame <= f /\ N.frame <= n.frame
      /\ N.frame = n.frame \/ (Low /\ s # Meta /\ N.frame = f /\ n.meta > f)
  BY <1>0, <1>1, FilledIs
<1>2a. \A t \in attr.streams : N.bufs[t] = IF t = s THEN f ELSE n.bufs[t]
  BY <1>0, <1>2 DEF Node
<1> HIDE DEF N
<1>3. /\ e \in Channel /\ SameRequests(c, e) /\ Len(e.q) = Len(c.q)
      /\ \A i \in 1 .. Len(c.q) : e.q[i] = IF i = pos THEN N ELSE c.q[i]
      /\ e.match_cnt = c.match_cnt /\ e.out = c.out
  BY <1>0, <1>2, ReplacedIs DEF N
<1>4. Typed(e)
  BY <1>0, <1>3 DEF Typed, SameRequests
<1>5. \A i \in 1 .. Len(e.q) : Made(e.q[i])
  BY <1>2, <1>3 DEF Arrived, Kept
<1>6. Lined(e)
  BY <1>2, <1>3 DEF Arrived, Kept, Lined
<1>7. Sorted(e)
  <2>0. Sorted(c) /\ \A i \in 1 .. Len(c.q) : c.q[i].frame \in Nat
          /\ Made(c.q[i]) /\ c.q[i] \in Node
    BY <1>0, NodeIs, AttrIs DEF Arrived, Kept, Frames
  <2>0a. N.frame \in Nat /\ n.frame \in Nat
    BY <1>2, <2>0, AttrIs DEF Node, Frames
  <2>1. ASSUME NEW j \in 1 .. Len(c.q), j < pos PROVE c.q[j].frame < N.frame
    <3>1. c.q[j].frame < n.frame
      BY <2>0, <2>1 DEF Sorted
    <3>2. CASE N.frame = n.frame
      BY <3>1, <3>2
    <3>3. CASE Low /\ s # Meta /\ N.frame = f
      <4>1. ~Fits(c.q[j], s, f)
        BY <2>1
      <4> QED  BY <1>0, <1>1, <2>0, <3>3, <4>1, UnfitIsOlder
    <3> QED  BY <1>2, <3>2, <3>3
  <2>2. ASSUME NEW j \in 1 .. Len(c.q), pos < j PROVE N.frame < c.q[j].frame
    <3>1. n.frame < c.q[j].frame
      BY <2>0, <2>2 DEF Sorted
    <3> QED  BY <1>2, <2>0, <2>0a, <3>1
  <2>3. c.shown < N.frame
    <3>1. c.shown < n.frame
      BY <2>0 DEF Sorted
    <3> QED  BY <1>1, <1>2, <3>1
  <2>4. ASSUME NEW i \in 1 .. Len(e.q), NEW j \in 1 .. Len(e.q), i < j
        PROVE  e.q[i].frame < e.q[j].frame
    <3>1. CASE i = pos
      BY <1>3, <2>2, <2>4, <3>1
    <3>2. CASE j = pos
      BY <1>3, <2>1, <2>4, <3>2
    <3>3. CASE i # pos /\ j # pos
      BY <1>3, <2>0, <2>4, <3>3 DEF Sorted
    <3> QED  BY <3>1, <3>2, <3>3
  <2>5. ASSUME NEW i \in 1 .. Len(e.q) PROVE e.shown < e.q[i].frame
    BY <1>3, <2>0, <2>3 DEF Sorted, SameRequests
  <2> QED  BY <2>4, <2>5 DEF Sorted
<1>8. Seen(e, l)
  <2>1. ASSUME NEW i \in 1 .. Len(e.q), NEW t \in attr.streams
                 PROVE e.q[i].bufs[t] <= l[t]
    <3>1. c.q[i].bufs[t] <= l[t]
      BY <1>3 DEF Arrived, Kept, Seen
    <3>2. f <= f
      BY <1>1
    <3> QED  BY <1>2a, <1>3, <3>1, <3>2 DEF Arrived
  <2> QED  BY <1>3, <2>1 DEF Arrived, Kept, Seen, SameRequests
<1>9. Held(e, {})
  <2>0. Held(c, {<<s, f>>}) /\ e.sent = c.sent
    BY <1>3 DEF Arrived, Kept, SameRequests
  <2>1. ASSUME NEW t \in attr.streams, NEW g \in Frames
        PROVE  <<t, g>> \in e.out <=> \/ \E i \in 1 .. Len(e.q) :
                                           e.q[i].bufs[t] = g
                                      \/ \E b \in e.sent : b.bufs[t] = g
                                      \/ <<t, g>> \in {}
    <3>0. g # 0
      BY AttrIs DEF Frames
    <3>1. (\E i \in 1 .. Len(e.q) : e.q[i].bufs[t] = g)
            <=> (\E i \in 1 .. Len(c.q) : c.q[i].bufs[t] = g)
              \/ (t = s /\ g = f)
      <4>1. ASSUME NEW i \in 1 .. Len(e.q), e.q[i].bufs[t] = g
            PROVE  (\E k \in 1 .. Len(c.q) : c.q[k].bufs[t] = g)
                     \/ (t = s /\ g = f)
        BY <1>2a, <1>3, <4>1
      <4>2. ASSUME NEW i \in 1 .. Len(c.q), c.q[i].bufs[t] = g
            PROVE  e.q[i].bufs[t] = g /\ i \in 1 .. Len(e.q)
        BY <1>2, <1>2a, <1>3, <3>0, <4>2
      <4>3. t = s /\ g = f => e.q[pos].bufs[t] = g /\ pos \in 1 .. Len(e.q)
        BY <1>2a, <1>3
      <4> QED  BY <4>1, <4>2, <4>3
    <3>2. <<t, g>> \in {<<s, f>>} <=> t = s /\ g = f
      OBVIOUS
    <3>3. <<t, g>> \in c.out <=> \/ \E i \in 1 .. Len(c.q) : c.q[i].bufs[t] = g
                                 \/ \E b \in c.sent : b.bufs[t] = g
                                 \/ <<t, g>> \in {<<s, f>>}
      BY <2>0 DEF Held
    <3> QED  BY <1>3, <2>0, <3>1, <3>2, <3>3
  <2>2. ASSUME NEW i \in 1 .. Len(e.q), NEW j \in 1 .. Len(e.q),
                 NEW t \in attr.streams,
               e.q[i].bufs[t] = e.q[j].bufs[t], e.q[i].bufs[t] # 0
        PROVE  i = j
    <3>1. CASE t = s
      <4>1. /\ c.q[i].bufs[s] # f /\ c.q[j].bufs[s] # f
            /\ e.q[i].bufs[s] = IF i = pos THEN f ELSE c.q[i].bufs[s]
            /\ e.q[j].bufs[s] = IF j = pos THEN f ELSE c.q[j].bufs[s]
        BY <1>1, <1>2a, <1>3, <3>1
      <4>2. CASE i = pos \/ j = pos
        BY <2>2, <3>1, <4>1, <4>2
      <4>3. CASE i # pos /\ j # pos
        <5>1. c.q[i].bufs[t] = c.q[j].bufs[t] /\ c.q[i].bufs[t] # 0
          BY <2>2, <3>1, <4>1, <4>3
        <5> QED  BY <1>3, <2>0, <5>1 DEF Held
      <4> QED  BY <4>2, <4>3
    <3>2. CASE t # s
      <4>1. i \in 1 .. Len(c.q) /\ j \in 1 .. Len(c.q)
        BY <1>3
      <4>2. c.q[i].bufs[t] = e.q[i].bufs[t] /\ c.q[j].bufs[t] = e.q[j].bufs[t]
        BY <1>2a, <1>3, <3>2, <4>1
      <4> QED  BY <2>0, <2>2, <4>1, <4>2 DEF Held
    <3> QED  BY <3>1, <3>2
  <2>3. \A a, b \in e.sent, t \in attr.streams : a.bufs[t] = b.bufs[t] => a = b
    BY <2>0 DEF Held
  <2>4. ASSUME NEW i \in 1 .. Len(e.q), NEW b \in e.sent,
                 NEW t \in attr.streams
        PROVE  e.q[i].bufs[t] # b.bufs[t]
    <3>1. c.q[i].bufs[t] # b.bufs[t]
      BY <1>3, <2>0 DEF Held
    <3>2. t = s => b.bufs[t] # f
      BY <1>0, <2>0 DEF Held
    <3> QED  BY <1>2a, <1>3, <3>1, <3>2
  <2> QED  BY <2>1, <2>2, <2>3, <2>4 DEF Held
<1> QED  BY <1>3, <1>4, <1>5, <1>6, <1>7, <1>8, <1>9 DEF Kept

---------------------------------------------------------------------------
(* A node is complete                                                      *)

\* The first numbers.
LEMMA CountTo ==
    ASSUME NEW n \in Nat
    PROVE  IsFiniteSet(1 .. n) /\ Cardinality(1 .. n) = n
BY FS_Interval

\* The parts of Kept.
LEMMA OrderlyIs ==
    ASSUME NEW c, NEW l, NEW x
    PROVE  Kept(c, l, x) <=> Orderly(c, l, x) /\ Lined(c)
BY DEF Kept, Orderly

\* d is c with other marks on its nodes.
LEMMA MarkedKeeps ==
    ASSUME NEW c, NEW l, NEW x, Orderly(c, l, x), NEW d \in Channel,
             SameRequests(c, d),
           Len(d.q) = Len(c.q), d.out = c.out,
           \A i \in 1 .. Len(c.q) : /\ d.q[i].bufs = c.q[i].bufs
                                         /\ d.q[i].frame = c.q[i].frame
                                    /\ Made(d.q[i])
    PROVE  Orderly(d, l, x)
<1>1. Typed(d)
  BY DEF Orderly, Typed, SameRequests
<1>2. Sorted(d) /\ Seen(d, l)
  BY DEF Orderly, Sorted, Seen, SameRequests
<1>3. Held(d, x)
  <2>0. Held(c, x) /\ d.sent = c.sent /\ d.shown = c.shown
    BY DEF Orderly, SameRequests
  <2>1. ASSUME NEW t \in attr.streams, NEW g \in Frames
        PROVE  <<t, g>> \in d.out <=> \/ \E i \in 1 .. Len(d.q) :
                                           d.q[i].bufs[t] = g
                                      \/ \E b \in d.sent : b.bufs[t] = g
                                      \/ <<t, g>> \in x
    <3>1. (\E i \in 1 .. Len(d.q) : d.q[i].bufs[t] = g)
            <=> \E i \in 1 .. Len(c.q) : c.q[i].bufs[t] = g
      OBVIOUS
    <3>2. <<t, g>> \in c.out <=> \/ \E i \in 1 .. Len(c.q) : c.q[i].bufs[t] = g
                                 \/ \E b \in c.sent : b.bufs[t] = g
                                 \/ <<t, g>> \in x
      BY <2>0 DEF Held
    <3> QED  BY <2>0, <3>1, <3>2
  <2>2. \A i, j \in 1 .. Len(d.q), t \in attr.streams :
          d.q[i].bufs[t] = d.q[j].bufs[t] /\ d.q[i].bufs[t] # 0 => i = j
    BY <2>0 DEF Held
  <2>3. \A a, b \in d.sent, t \in attr.streams : a.bufs[t] = b.bufs[t] => a = b
    BY <2>0 DEF Held
  <2>4. \A i \in 1 .. Len(d.q), b \in d.sent, t \in attr.streams :
          d.q[i].bufs[t] # b.bufs[t]
    BY <2>0 DEF Held
  <2>5. ASSUME NEW t \in attr.streams, NEW g \in Frames, <<t, g>> \in x
        PROVE  /\ \A i \in 1 .. Len(d.q) : d.q[i].bufs[t] # g
               /\ \A b \in d.sent : b.bufs[t] # g
               /\ d.shown < g
    BY <2>0, <2>5 DEF Held
  <2> QED  BY <2>1, <2>2, <2>3, <2>4, <2>5 DEF Held
<1> QED  BY <1>1, <1>2, <1>3 DEF Orderly

\* A node is complete: the unmatched ones before it are those between it and
\* the matched ones, and they are older.
LEMMA OlderIs ==
    ASSUME attr \in Attrs, NEW c, NEW l, NEW x, Kept(c, l, x),
             NEW pos \in 1 .. Len(c.q),
           ~c.q[pos].matched, NEW f \in Nat, c.q[pos].frame <= f
    PROVE  Older(c, pos, f) = IF pos = c.match_cnt + 1 THEN 0
             ELSE c.match_cnt + 1
<1>0. /\ Typed(c) /\ Len(c.q) \in Nat /\ c.match_cnt \in 0 .. Len(c.q)
      /\ DOMAIN c.q = 1 .. Len(c.q)
  BY HeadIs DEF Kept, Typed, Channel, Queues
<1>1. /\ \A i \in 1 .. Len(c.q) : c.q[i].matched <=> i <= c.match_cnt
      /\ \A i, j \in 1 .. Len(c.q) : i < j => c.q[i].frame < c.q[j].frame
  BY DEF Kept, Lined, Sorted
<1>2. \A i \in 1 .. Len(c.q) : c.q[i].frame \in Nat
  BY <1>0, NodeIs, AttrIs DEF Frames
<1>3. pos > c.match_cnt
  BY <1>0, <1>1
<1> DEFINE P == {i \in Passed(c, pos) : c.q[i].frame < f}
           m == c.match_cnt
<1>4. P = (m + 1) .. (pos - 1)
  <2>1. ASSUME NEW i \in P PROVE i \in (m + 1) .. (pos - 1)
    <3>1. i \in 1 .. Len(c.q) /\ i < pos /\ ~c.q[i].matched
      BY <1>0 DEF Passed
    <3> QED  BY <1>0, <1>1, <3>1
  <2>2. ASSUME NEW i \in (m + 1) .. (pos - 1) PROVE i \in P
    <3>1. i \in 1 .. Len(c.q) /\ i < pos /\ ~c.q[i].matched
      BY <1>0, <1>1
    <3>2. c.q[i].frame < f
      <4>1. c.q[i].frame < c.q[pos].frame
        BY <1>1, <3>1
      <4> QED  BY <1>2, <3>1, <4>1
    <3> QED  BY <1>0, <3>1, <3>2 DEF Passed
  <2> QED  BY <2>1, <2>2
<1>5. Older(c, pos, f) = First(P)
  BY DEF Older
<1> HIDE DEF P
<1>6. CASE pos = m + 1
  <2>1. P = {}
    BY <1>0, <1>4, <1>6
  <2> QED  BY <1>5, <1>6, <2>1 DEF First
<1>7. CASE pos # m + 1
  <2>1. m + 1 \in P /\ P # {} /\ P \subseteq Nat /\ \A i \in P : m + 1 <= i
    BY <1>0, <1>3, <1>4, <1>7
  <2>2. Least(P) \in P /\ \A i \in P : Least(P) <= i
    BY <2>1, LeastIs
  <2>3. Least(P) = m + 1
    <3>1. Least(P) <= m + 1 /\ m + 1 <= Least(P)
      BY <2>1, <2>2
    <3>2. Least(P) \in Nat /\ m + 1 \in Nat
      BY <2>1, <2>2
    <3> QED  BY <3>1, <3>2
  <2> QED  BY <1>5, <1>7, <2>1, <2>3 DEF First
<1> QED  BY <1>6, <1>7

\* The complete node becomes the last of the matched ones.
LEMMA PlaceAfter ==
    ASSUME NEW c, Typed(c), NEW m \in Nat, NEW pos \in 1 .. Len(c.q), m < pos
    PROVE  /\ pos \in Rest(c, (m + 1) .. (pos - 1))
           /\ Place(c, (m + 1) .. (pos - 1), pos) = m + 1
<1> DEFINE S == (m + 1) .. (pos - 1)
<1>1. Len(c.q) \in Nat /\ DOMAIN c.q \ S = Rest(c, S)
  <2>1. Len(c.q) \in Nat
    BY DEF Typed, Channel, Queues
  <2> HIDE DEF S
  <2> QED  BY <2>1, PlaceIs
<1>2. pos \in Rest(c, S)
  BY <1>1 DEF Rest
<1>3. {j \in Rest(c, S) : j <= pos} = (1 .. m) \cup {pos}
  <2>1. ASSUME NEW j \in Rest(c, S), j <= pos PROVE j \in (1 .. m) \cup {pos}
    BY <1>1, <2>1 DEF Rest
  <2>2. ASSUME NEW j \in (1 .. m) \cup {pos} PROVE j \in Rest(c, S) /\ j <= pos
    BY <1>1 DEF Rest
  <2> QED  BY <2>1, <2>2
<1>4. IsFiniteSet(1 .. m) /\ Cardinality(1 .. m) = m
  BY FS_Interval
<1>5. pos \notin 1 .. m
  OBVIOUS
<1>6. Cardinality((1 .. m) \cup {pos}) = m + 1
  BY <1>4, <1>5, FS_AddElement
<1> QED  BY <1>1, <1>2, <1>3, <1>6 DEF Place

\* A complete node is matched, and the older ones before it are given up.
LEMMA CompleteKeeps ==
    ASSUME attr \in Attrs, NEW c, NEW l, Kept(c, l, {}),
             NEW pos \in 1 .. Len(c.q),
           ~c.q[pos].matched, c.q[pos].meta = 0, \A t \in attr.streams :
             c.q[pos].bufs[t] # 0,
           NEW f \in Nat, c.q[pos].frame <= f
    PROVE  Kept(Complete(c, pos, f), l, {})
             /\ SameRequests(c, Complete(c, pos, f))
<1> DEFINE n == c.q[pos]
           N == [n EXCEPT !.matched = TRUE, !.expected = FALSE]
           g == f + attr.frameSkip
           m == c.match_cnt + 1
           q == [c.q EXCEPT ![pos] = N]
           d == [c EXCEPT !.q = q, !.expected = g, !.match_cnt = m]
           S == (c.match_cnt + 1) .. (pos - 1)
<1>0. /\ Typed(c) /\ c \in Channel /\ Len(c.q) \in Nat
           /\ c.match_cnt \in 0 .. Len(c.q)
      /\ n \in Node /\ Made(n) /\ c.q \in Seq(Node)
  BY NodeIs, HeadIs, ChannelIs DEF Kept, Typed
<1>1. Complete(c, pos, f) = IF pos = c.match_cnt + 1 THEN d ELSE Without(d, S)
  <2>1. Older(c, pos, f) = IF pos = c.match_cnt + 1 THEN 0 ELSE c.match_cnt + 1
    BY OlderIs
  <2>2. d = [c EXCEPT !.q[pos].matched = TRUE, !.q[pos].expected = FALSE,
                      !.expected = f + attr.frameSkip, !.match_cnt = @ + 1]
    <3>1. DOMAIN c.q = 1 .. Len(c.q) /\ pos \in DOMAIN c.q
      BY <1>0
    <3>2. DOMAIN n = {"frame", "bufs", "matched", "expected", "meta"}
      BY <1>0 DEF Node
    <3> DEFINE e == [c EXCEPT !.q[pos].matched = TRUE]
               o == [c.q EXCEPT ![pos] = [n EXCEPT !.matched = TRUE]]
    <3>3. e = [c EXCEPT !.q = o]
      BY <1>0 DEF Channel
    <3>4. e.q = o
      BY <1>0, <3>3 DEF Channel
    <3>5. o[pos] = [n EXCEPT !.matched = TRUE] /\ DOMAIN o = DOMAIN c.q
      BY <3>1
    <3>6. N = [o[pos] EXCEPT !.expected = FALSE]
      BY <3>2, <3>5
    <3>7. q = [o EXCEPT ![pos] = N]
      BY <3>1, <3>5
    <3> HIDE DEF e, o, N
    <3>8. [c EXCEPT !.q = q] = [e EXCEPT !.q[pos].expected = FALSE]
      BY <1>0, <3>3, <3>4, <3>6, <3>7 DEF Channel
    <3> QED  BY <1>0, <3>8 DEF Channel, e
  <2>3. c.match_cnt + 1 # 0
    BY <1>0
  <2> HIDE DEF d
  <2> QED  BY <2>1, <2>2, <2>3 DEF Complete
<1>2. N \in Node /\ N.bufs = n.bufs /\ N.frame = n.frame /\ N.matched = TRUE
        /\ N.meta = n.meta
  BY <1>0 DEF Node
<1>3. Made(N)
  BY <1>0, <1>2 DEF Made
<1> HIDE DEF N
<1>4. q \in Seq(Node) /\ Len(q) = Len(c.q)
      /\ \A i \in 1 .. Len(c.q) : q[i] = IF i = pos THEN N ELSE c.q[i]
  BY <1>0, <1>2, ExceptSeq
<1>5. q \in Queues /\ g \in Nat /\ m \in Int
  BY <1>0, <1>4, AttrIs DEF Queues
<1> HIDE DEF q, g, m
<1>6. d \in Channel
  BY <1>0, <1>5 DEF Channel
<1>7. d.q = q /\ d.match_cnt = m /\ d.out = c.out /\ SameRequests(c, d)
  BY <1>0 DEF Channel, SameRequests
<1> HIDE DEF d
<1>8. Orderly(d, l, {})
  <2>1. \A i \in 1 .. Len(c.q) : /\ d.q[i].bufs = c.q[i].bufs /\ d.q[i].frame
                                      = c.q[i].frame
                                 /\ Made(d.q[i])
    BY <1>2, <1>3, <1>4, <1>7 DEF Kept
  <2>2. Orderly(c, l, {})
    BY OrderlyIs
  <2> QED  BY <1>4, <1>6, <1>7, <2>1, <2>2, MarkedKeeps
<1>9. /\ m = c.match_cnt + 1 /\ c.match_cnt < pos
      /\ \A i \in 1 .. Len(c.q) : d.q[i].matched <=> i <= c.match_cnt \/ i
           = pos
      /\ Len(c.q) <= c.match_cnt + attr.unmatched + 1 /\ attr.unmatched \in Nat
      /\ \A s \in attr.streams : attr.streams # {s}
  <2>1. \A i \in 1 .. Len(c.q) : c.q[i].matched <=> i <= c.match_cnt
    BY DEF Kept, Lined
  <2>2. c.match_cnt < pos
    BY <1>0, <2>1
  <2>3. \A s \in attr.streams : attr.streams # {s}
    BY <1>0, <2>2 DEF Kept, Lined
  <2>4. Len(c.q) <= c.match_cnt + attr.unmatched + 1 /\ attr.unmatched \in Nat
    BY AttrIs DEF Kept, Lined
  <2> QED  BY <1>2, <1>4, <1>7, <2>1, <2>2, <2>3, <2>4 DEF m
<1>10. CASE pos = c.match_cnt + 1
  <2>0. Len(d.q) = Len(c.q) /\ d.match_cnt = c.match_cnt + 1 /\ pos \in Nat
    BY <1>4, <1>7, <1>9
  <2>0a. \A i \in 1 .. Len(d.q) : d.q[i].matched <=> i <= d.match_cnt
    <3> SUFFICES ASSUME NEW i \in 1 .. Len(d.q) PROVE d.q[i].matched
                          <=> i <= d.match_cnt
      OBVIOUS
    <3>1. (i <= c.match_cnt \/ i = pos) <=> i <= d.match_cnt
      BY <1>0, <1>10, <2>0
    <3>2. d.q[i].matched <=> i <= c.match_cnt \/ i = pos
      BY <1>9, <2>0
    <3> QED  BY <3>1, <3>2
  <2>0b. d.match_cnt \in 0 .. Len(d.q)
           /\ Len(d.q) <= d.match_cnt + attr.unmatched + 1
    BY <1>0, <1>9, <1>10, <2>0
  <2>1. Lined(d)
    BY <1>9, <2>0a, <2>0b DEF Lined
  <2> QED  BY <1>1, <1>7, <1>8, <1>10, <2>1, OrderlyIs
<1>11. CASE pos # c.match_cnt + 1
  <2> DEFINE r == Without(d, S)
             at(i) == Place(d, S, i)
             k == Cardinality(Rest(d, S))
  <2>0. Typed(d) /\ S \subseteq 1 .. Len(d.q) /\ Len(d.q) = Len(c.q)
          /\ pos \in 1 .. Len(d.q)
    BY <1>0, <1>4, <1>7, <1>8 DEF Orderly
  <2>0a. S = (c.match_cnt + 1) .. (pos - 1)
    OBVIOUS
  <2> HIDE DEF S
  <2>1. Orderly(r, l, {})
    BY <1>8, <2>0, WithoutKeeps
  <2>2. /\ Trimmed(d, r) /\ Len(r.q) = k /\ r.match_cnt = m
        /\ \A i \in Rest(d, S) : r.q[at(i)] = d.q[i]
    <3>1. /\ Trimmed(d, Without(d, S)) /\ Len(Without(d, S).q)
               = Cardinality(Rest(d, S))
          /\ Without(d, S).match_cnt = d.match_cnt
          /\ \A i \in Rest(d, S) : Without(d, S).q[Place(d, S, i)] = d.q[i]
      BY <2>0, WithoutIs
    <3> QED  BY <1>7, <3>1
  <2>3. SameRequests(c, r)
    BY <1>6, <1>7, <2>2, TrimmedRequests, SameRequestsTwice
  <2>4. /\ k \in Nat /\ \A i \in Rest(d, S) : at(i) \in 1 .. k
        /\ \A i, j \in Rest(d, S) : i < j => at(i) < at(j)
    BY <2>0, PlaceIs
  <2>5. k <= Len(c.q)
    <3>1. IsFiniteSet(1 .. Len(c.q)) /\ Cardinality(1 .. Len(c.q)) = Len(c.q)
      BY <1>0, CountTo
    <3>2. Rest(d, S) \in SUBSET (1 .. Len(c.q))
      BY <2>0 DEF Rest
    <3> QED  BY <3>1, <3>2, FS_Subset
  <2>6. pos \in Rest(d, S) /\ at(pos) = m
    BY <1>0, <1>9, <2>0, <2>0a, PlaceAfter
  <2>7. \A i \in 1 .. c.match_cnt : at(i) = i
    <3>1. c.match_cnt \in 0 .. Len(d.q) /\ \A i \in S : i > c.match_cnt
      BY <1>0, <2>0, <2>0a
    <3> QED  BY <2>0, <3>1, PlaceBefore
  <2>8. \A j \in 1 .. k : \E i \in Rest(d, S) : at(i) = j
    BY <2>0, PlaceOnto
  <2>9. Rest(d, S) = (1 .. Len(c.q)) \ S
    BY <2>0 DEF Rest
  <2> HIDE DEF r, at, k
  <2>10. ASSUME NEW j \in 1 .. Len(r.q) PROVE r.q[j].matched <=> j <= m
    <3>1. PICK i \in Rest(d, S) : at(i) = j /\ r.q[j] = d.q[i]
      BY <2>2, <2>8
    <3>2. i \in 1 .. Len(c.q) /\ ~(i > c.match_cnt /\ i < pos)
      BY <1>0, <2>0a, <2>9
    <3>3. CASE i <= c.match_cnt
      <4>1. i \in 1 .. c.match_cnt
        BY <1>0, <3>2, <3>3
      <4>2. j = i
        BY <2>7, <3>1, <4>1
      <4> QED  BY <1>0, <1>9, <3>1, <3>2, <3>3, <4>2
    <3>4. CASE i = pos
      BY <1>0, <1>9, <2>6, <3>1, <3>2, <3>4
    <3>5. CASE i > pos
      <4>0. pos < i /\ i \in Nat
        BY <3>2, <3>5
      <4>1. at(pos) < at(i) /\ at(i) \in Nat
        <5>1. at(i) \in 1 .. k
          BY <2>4
        <5>2. at(pos) < at(i)
          BY <2>4, <2>6, <4>0
        <5> QED  BY <2>4, <5>1, <5>2
      <4>2. ~(j <= m)
        BY <1>0, <1>9, <2>6, <3>1, <4>1
      <4> QED  BY <1>0, <1>9, <3>1, <3>2, <3>5, <4>2
    <3> QED  BY <1>0, <3>2, <3>3, <3>4, <3>5
  <2>11. m \in 1 .. k
    BY <2>4, <2>6
  <2>12. Lined(r)
    <3>1. r.match_cnt = m /\ Len(r.q) = k
      BY <2>2
    <3>2. r.match_cnt \in 0 .. Len(r.q)
            /\ Len(r.q) <= r.match_cnt + attr.unmatched + 1
      BY <1>0, <1>9, <2>4, <2>5, <2>11, <3>1
    <3> QED  BY <1>9, <2>10, <3>1, <3>2 DEF Lined
  <2> QED  BY <1>1, <1>11, <2>1, <2>3, <2>12, OrderlyIs DEF r, S
<1> QED  BY <1>10, <1>11

\* A node that is not complete may be the diverted one.
LEMMA IncompleteKeeps ==
    ASSUME NEW c, NEW l, Kept(c, l, {}), NEW pos \in 1 .. Len(c.q),
             ~c.q[pos].matched, NEW f
    PROVE  Kept(Incomplete(c, pos, f), l, {})
             /\ SameRequests(c, Incomplete(c, pos, f))
<1>1. CASE c.diverted # f
  BY <1>1 DEF Incomplete, SameRequests
<1>2. CASE c.diverted = f
  <2> DEFINE n == c.q[pos]
             N == [n EXCEPT !.expected = TRUE]
             q == [c.q EXCEPT ![pos] = N]
             d == [c EXCEPT !.q = q, !.diverted = 0]
  <2>0. /\ c \in Channel /\ c.q \in Seq(Node) /\ n \in Node /\ Made(n)
             /\ Len(c.q) \in Nat
    BY NodeIs, ChannelIs DEF Kept, Typed
  <2>1. Incomplete(c, pos, f) = d
    <3>1. Incomplete(c, pos, f)
            = [c EXCEPT !.q[pos].expected = TRUE, !.diverted = 0]
      BY <1>2 DEF Incomplete
    <3> QED  BY <2>0, <3>1 DEF Channel
  <2>2. N \in Node /\ N.bufs = n.bufs /\ N.frame = n.frame /\ N.matched
          = n.matched /\ N.meta = n.meta
    BY <2>0 DEF Node
  <2>3. Made(N)
    BY <2>0, <2>2 DEF Made
  <2> HIDE DEF N
  <2>4. q \in Seq(Node) /\ Len(q) = Len(c.q)
        /\ \A i \in 1 .. Len(c.q) : q[i] = IF i = pos THEN N ELSE c.q[i]
    BY <2>0, <2>2, ExceptSeq
  <2>5. q \in Queues /\ 0 \in 0 .. DivertMod - 1
    BY <2>4, NumbersAssumption DEF Queues
  <2> HIDE DEF q
  <2>6. d \in Channel
    BY <2>0, <2>5 DEF Channel
  <2>7. d.q = q /\ d.match_cnt = c.match_cnt /\ d.out = c.out
          /\ SameRequests(c, d)
    BY <2>0 DEF Channel, SameRequests
  <2> HIDE DEF d
  <2>8. Orderly(d, l, {})
    <3>1. \A i \in 1 .. Len(c.q) : /\ d.q[i].bufs = c.q[i].bufs
                                        /\ d.q[i].frame = c.q[i].frame
                                   /\ Made(d.q[i])
      BY <2>2, <2>3, <2>4, <2>7 DEF Kept
    <3>2. Orderly(c, l, {})
      BY OrderlyIs
    <3> QED  BY <2>4, <2>6, <2>7, <3>1, <3>2, MarkedKeeps
  <2>9. Lined(d)
    <3>1. \A i \in 1 .. Len(c.q) : d.q[i].matched = c.q[i].matched
      BY <2>2, <2>4, <2>7
    <3> QED  BY <2>4, <2>7, <3>1 DEF Kept, Lined
  <2> QED  BY <2>1, <2>7, <2>8, <2>9, OrderlyIs
<1> QED  BY <1>1, <1>2

\* What mm_channel_superbuf_comp_and_enqueue does with the node.
LEMMA FillIs ==
    ASSUME NEW c \in Channel, NEW pos \in 1 .. Len(c.q),
             NEW s \in attr.streams, NEW f,
           c.q[pos].bufs[s]
             = 0, NEW e, Replaced(c, pos, Filled(c.q[pos], s, f), e)
    PROVE  Fill(c, pos, s, f) = IF \A t \in attr.streams : e.q[pos].bufs[t] # 0
                                THEN Complete(e, pos, f)
                                  ELSE Incomplete(e, pos, f)
<1> DEFINE n == c.q[pos]
           N == Filled(n, s, f)
           q == [c.q EXCEPT ![pos] = N]
           d == IF n.meta > 0 THEN [c EXCEPT !.q[pos].meta = 0, !.q[pos].frame
             = f] ELSE c
           b == [n.bufs EXCEPT ![s] = f]
<1>0. /\ n \in Node /\ DOMAIN c.q = 1 .. Len(c.q) /\ pos \in DOMAIN c.q
  BY ChannelIs
<1>1. DOMAIN n = {"frame", "bufs", "matched", "expected", "meta"}
        /\ n.meta \in Nat
  <2>1. n.meta \in 0 .. attr.frames
    BY <1>0 DEF Node
  <2> QED  BY <1>0, <2>1 DEF Node
<1>2. e = [c EXCEPT !.q = q]
  BY DEF Replaced
<1>3. e = [d EXCEPT !.q[pos].bufs[s] = f]
  <2>1. CASE n.meta > 0
    <3> DEFINE c1 == [c EXCEPT !.q[pos].meta = 0]
               q1 == [c.q EXCEPT ![pos] = [n EXCEPT !.meta = 0]]
               n2 == [n EXCEPT !.meta = 0, !.frame = f]
               q2 == [c.q EXCEPT ![pos] = n2]
    <3>1. c1 = [c EXCEPT !.q = q1]
      BY DEF Channel
    <3>2. c1.q = q1
      BY <3>1 DEF Channel
    <3>3. q1[pos] = [n EXCEPT !.meta = 0] /\ DOMAIN q1 = DOMAIN c.q
      BY <1>0
    <3>4. n2 = [q1[pos] EXCEPT !.frame = f] /\ q2 = [q1 EXCEPT ![pos] = n2]
      BY <1>0, <1>1, <3>3
    <3> HIDE DEF c1, q1, n2, q2
    <3>5. d = [c EXCEPT !.q = q2]
      <4>1. d = [c1 EXCEPT !.q[pos].frame = f]
        BY <2>1 DEF c1
      <4> HIDE DEF d
      <4> QED  BY <3>1, <3>2, <3>4, <4>1 DEF Channel
    <3> HIDE DEF d
    <3>6. d.q = q2 /\ DOMAIN q2 = DOMAIN c.q /\ q2[pos] = n2
      BY <1>0, <3>5 DEF Channel, q2
    <3>7. n2.bufs = n.bufs
      BY <1>1 DEF n2
    <3>8. N = [n2 EXCEPT !.bufs = b]
      <4>1. N = [n EXCEPT !.bufs = b, !.meta = 0, !.frame = f]
        BY <2>1 DEF Filled
      <4> HIDE DEF N, b
      <4> QED  BY <1>1, <4>1 DEF n2
    <3>9. q = [q2 EXCEPT ![pos] = N]
      BY <1>0, <3>6 DEF q2
    <3> HIDE DEF N, q
    <3>10. [d EXCEPT !.q[pos].bufs[s] = f] = [d EXCEPT !.q = q]
      BY <1>1, <3>5, <3>6, <3>7, <3>8, <3>9 DEF Channel
    <3> QED  BY <1>2, <3>5, <3>10 DEF Channel
  <2>2. CASE ~(n.meta > 0)
    <3>1. N = [n EXCEPT !.bufs = b]
      <4>1. n.meta = 0
        BY <1>1, <2>2
      <4>2. N = [n EXCEPT !.bufs = b, !.meta = 0, !.frame = n.frame]
        BY <2>2 DEF Filled
      <4> HIDE DEF N, b
      <4> QED  BY <1>0, <4>1, <4>2 DEF Node
    <3>2. d = c
      BY <2>2
    <3> HIDE DEF N, d
    <3> QED  BY <1>2, <3>1, <3>2 DEF Channel
  <2> QED  BY <2>1, <2>2
<1> HIDE DEF N, q, b
<1>4. Fill(c, pos, s, f) = LET g == [d EXCEPT !.q[pos].bufs[s] = f]
                           IN IF \A t \in attr.streams : g.q[pos].bufs[t] # 0
                              THEN Complete(g, pos, f)
                                ELSE Incomplete(g, pos, f)
  BY DEF Fill
<1> HIDE DEF d
<1> QED  BY <1>3, <1>4

\* A frame goes into its node.
LEMMA FillKeeps ==
    ASSUME attr \in Attrs, NEW c, NEW l, NEW s, NEW f, Arrived(c, l, s, f),
           NEW pos \in 1 .. Len(c.q), Fits(c.q[pos], s, f),
           \A j \in 1 .. pos - 1 : ~Fits(c.q[j], s, f)
    PROVE  Kept(Fill(c, pos, s, f), l, {})
             /\ SameRequests(c, Fill(c, pos, s, f))
<1> DEFINE n == c.q[pos]
           N == Filled(n, s, f)
           e == [c EXCEPT !.q = [c.q EXCEPT ![pos] = N]]
<1>0. /\ c \in Channel /\ n \in Node /\ Made(n) /\ s \in attr.streams
           /\ f \in Frames
      /\ ~n.matched
  BY NodeIs DEF Arrived, Kept, Typed, Fits
<1>1. n.bufs[s] < f /\ f \in Nat
  <2>1. f \in Nat \ {0} /\ \A i \in 1 .. Len(c.q) : c.q[i].bufs[s] < f
    BY ArrivedIs
  <2> QED  BY <2>1
<1>2. /\ n.bufs[s] = 0 /\ N \in Node /\ Made(N)
      /\ N.bufs = [n.bufs EXCEPT ![s] = f]
      /\ N.matched = n.matched /\ N.meta = 0
      /\ N.frame <= f /\ N.frame <= n.frame
      /\ N.frame = n.frame \/ (Low /\ s # Meta /\ N.frame = f /\ n.meta > f)
  BY <1>0, <1>1, FilledIs
<1>3. Replaced(c, pos, N, e)
  BY DEF Replaced
<1> HIDE DEF N, e
<1>4. Len(e.q) = Len(c.q) /\ e.q[pos] = N
  BY <1>0, <1>2, <1>3, ReplacedIs
<1>5. Kept(e, l, {}) /\ SameRequests(c, e)
  BY <1>3, FilledKeeps DEF N
<1>6. Fill(c, pos, s, f) = IF \A t \in attr.streams : e.q[pos].bufs[t] # 0
                           THEN Complete(e, pos, f) ELSE Incomplete(e, pos, f)
  BY <1>0, <1>2, <1>3, FillIs DEF N
<1>7. pos \in 1 .. Len(e.q) /\ ~e.q[pos].matched /\ e.q[pos].meta = 0
        /\ e.q[pos].frame <= f
  BY <1>0, <1>2, <1>4
<1>8. CASE \A t \in attr.streams : e.q[pos].bufs[t] # 0
  <2>1. Kept(Complete(e, pos, f), l, {})
          /\ SameRequests(e, Complete(e, pos, f))
    BY <1>1, <1>5, <1>7, <1>8, CompleteKeeps
  <2> QED  BY <1>5, <1>6, <1>8, <2>1, SameRequestsTwice
<1>9. CASE ~\A t \in attr.streams : e.q[pos].bufs[t] # 0
  <2>1. Kept(Incomplete(e, pos, f), l, {})
          /\ SameRequests(e, Incomplete(e, pos, f))
    BY <1>5, <1>7, IncompleteKeeps
  <2> QED  BY <1>5, <1>6, <1>9, <2>1, SameRequestsTwice
<1> QED  BY <1>8, <1>9

---------------------------------------------------------------------------
(* A frame that no node waits for                                          *)

\* It goes back to the driver.
LEMMA RejectKeeps ==
    ASSUME attr \in Attrs, NEW c, NEW l, NEW s, NEW f, Arrived(c, l, s, f)
    PROVE  Kept(Qbuf(c, {<<s, f>>}), l, {})
             /\ SameRequests(c, Qbuf(c, {<<s, f>>}))
<1> DEFINE o == c.out \ {<<s, f>>}
           d == Qbuf(c, {<<s, f>>})
<1>0. /\ c \in Channel /\ Typed(c) /\ Lined(c) /\ Sorted(c) /\ Seen(c, l)
           /\ Held(c, {<<s, f>>})
      /\ \A i \in 1 .. Len(c.q) : Made(c.q[i])
  BY DEF Arrived, Kept, Typed
<1>1. d = [c EXCEPT !.out = o]
  BY DEF Qbuf
<1>2. o \in Outs
  BY <1>0, ChannelIs DEF Outs
<1> HIDE DEF o, d
<1>3. d \in Channel
  BY <1>0, <1>1, <1>2 DEF Channel
<1>4. d.q = c.q /\ d.match_cnt = c.match_cnt /\ d.out = o /\ SameRequests(c, d)
  BY <1>0, <1>1 DEF Channel, SameRequests
<1>5. Typed(d)
  BY <1>0, <1>3, <1>4 DEF Typed, SameRequests
<1>6. Lined(d) /\ Sorted(d) /\ (\A i \in 1 .. Len(d.q) : Made(d.q[i]))
  BY <1>0, <1>4 DEF Lined, Sorted, SameRequests
<1>7. Seen(d, l)
  BY <1>0, <1>4 DEF Seen, SameRequests, o
<1>8. Held(d, {})
  <2>0. d.sent = c.sent /\ d.shown = c.shown
    BY <1>4 DEF SameRequests
  <2>1. ASSUME NEW t \in attr.streams, NEW g \in Frames
        PROVE  <<t, g>> \in d.out <=> \/ \E i \in 1 .. Len(d.q) :
                                           d.q[i].bufs[t] = g
                                      \/ \E b \in d.sent : b.bufs[t] = g
                                      \/ <<t, g>> \in {}
    <3>1. <<t, g>> \in c.out <=> \/ \E i \in 1 .. Len(c.q) : c.q[i].bufs[t] = g
                                 \/ \E b \in c.sent : b.bufs[t] = g
                                 \/ <<t, g>> \in {<<s, f>>}
      BY <1>0 DEF Held
    <3>2. <<t, g>> \in {<<s, f>>} => /\ \A i \in 1 .. Len(c.q) :
                                          c.q[i].bufs[t] # g
                                     /\ \A b \in c.sent : b.bufs[t] # g
      BY <1>0 DEF Held
    <3>3. <<t, g>> \in d.out <=> <<t, g>> \in c.out
            /\ <<t, g>> \notin {<<s, f>>}
      BY <1>4 DEF o
    <3> QED  BY <1>4, <2>0, <3>1, <3>2, <3>3
  <2>2. /\ \A i, j \in 1 .. Len(d.q), t \in attr.streams :
             d.q[i].bufs[t] = d.q[j].bufs[t] /\ d.q[i].bufs[t] # 0 => i = j
        /\ \A a, b \in d.sent, t \in attr.streams : a.bufs[t] = b.bufs[t] => a
             = b
        /\ \A i \in 1 .. Len(d.q), b \in d.sent, t \in attr.streams :
             d.q[i].bufs[t] # b.bufs[t]
    BY <1>0, <1>4, <2>0 DEF Held
  <2> QED  BY <2>1, <2>2 DEF Held
<1> QED  BY <1>4, <1>5, <1>6, <1>7, <1>8 DEF Kept, d

\* r is q with e at its place at.
Inserted(q, at, e, r) ==
    /\ Len(r) = Len(q) + 1
    /\ \A k \in 1 .. Len(q) + 1 :
          r[k] = IF k < at THEN q[k] ELSE IF k = at THEN e ELSE q[k - 1]

\* One more element in a sequence.
LEMMA InsertIs ==
    ASSUME NEW T, NEW q \in Seq(T), NEW at \in 1 .. Len(q) + 1, NEW e \in T
    PROVE  InsertAt(q, at, e) \in Seq(T)
             /\ Inserted(q, at, e, InsertAt(q, at, e))
<1> DEFINE a == SubSeq(q, 1, at - 1)
           b == SubSeq(q, at, Len(q))
           ae == a \o <<e>>
<1>0. Len(q) \in Nat /\ at \in Nat /\ \A i \in 1 .. Len(q) : q[i] \in T
  OBVIOUS
<1>1. a \in Seq(T) /\ Len(a) = at - 1 /\ \A i \in 1 .. at - 1 : a[i] = q[i]
  <2>1. \A i \in 1 .. at - 1 : q[i] \in T
    BY <1>0
  <2>2. 1 \in Int /\ at - 1 \in Int
    BY <1>0
  <2>3. /\ a \in Seq(T) /\ Len(a) = IF 1 <= at - 1 THEN at - 1 - 1 + 1 ELSE 0
        /\ \A i \in 1 .. at - 1 - 1 + 1 : a[i] = q[1 + i - 1]
    BY <2>1, <2>2, SubSeqProperties
  <2> HIDE DEF a
  <2>4. Len(a) = at - 1 /\ 1 .. at - 1 - 1 + 1 = 1 .. at - 1
    BY <1>0, <2>3
  <2> QED  BY <1>0, <2>3, <2>4
<1>2. b \in Seq(T) /\ Len(b) = Len(q) - at + 1
        /\ \A i \in 1 .. Len(q) - at + 1 : b[i] = q[at + i - 1]
  <2>1. \A i \in at .. Len(q) : q[i] \in T
    BY <1>0
  <2>2. at \in Int /\ Len(q) \in Int
    BY <1>0
  <2>3. /\ b \in Seq(T) /\ Len(b) = IF at <= Len(q) THEN Len(q) - at + 1 ELSE 0
        /\ \A i \in 1 .. Len(q) - at + 1 : b[i] = q[at + i - 1]
    BY <2>1, <2>2, SubSeqProperties
  <2> HIDE DEF b
  <2> QED  BY <1>0, <2>3
<1>3. <<e>> \in Seq(T) /\ Len(<<e>>) = 1 /\ <<e>>[1] = e
  OBVIOUS
<1> HIDE DEF a, b
<1>4. /\ ae \in Seq(T) /\ Len(ae) = at
      /\ \A i \in 1 .. at : ae[i] = IF i <= at - 1 THEN a[i]
           ELSE <<e>>[i - (at - 1)]
  <2>1. /\ ae \in Seq(T) /\ Len(ae) = Len(a) + Len(<<e>>)
        /\ \A i \in 1 .. Len(a) + Len(<<e>>) : ae[i] = IF i <= Len(a)
             THEN a[i] ELSE <<e>>[i - Len(a)]
    BY <1>1, <1>3, ConcatProperties
  <2> HIDE DEF ae
  <2>2. Len(a) + Len(<<e>>) = at
    BY <1>0, <1>1, <1>3
  <2> QED  BY <1>1, <2>1, <2>2
<1>5. \A i \in 1 .. at : ae[i] = IF i < at THEN q[i] ELSE e
  <2> SUFFICES ASSUME NEW i \in 1 .. at PROVE ae[i] = IF i < at THEN q[i]
                        ELSE e
    OBVIOUS
  <2> HIDE DEF ae
  <2>1. CASE i < at
    <3>1. i \in 1 .. at - 1 /\ i <= at - 1
      BY <1>0, <2>1
    <3> QED  BY <1>1, <1>4, <2>1, <3>1
  <2>2. CASE ~(i < at)
    <3>1. i = at /\ ~(i <= at - 1) /\ i - (at - 1) = 1
      BY <1>0, <2>2
    <3> QED  BY <1>3, <1>4, <2>2, <3>1
  <2> QED  BY <2>1, <2>2
<1> HIDE DEF ae
<1>6. /\ ae \o b \in Seq(T) /\ Len(ae \o b) = Len(ae) + Len(b)
      /\ \A i \in 1 .. Len(ae) + Len(b) : (ae \o b)[i] = IF i <= Len(ae)
           THEN ae[i] ELSE b[i - Len(ae)]
  BY <1>2, <1>4, ConcatProperties
<1>7. InsertAt(q, at, e) = ae \o b
  BY DEF InsertAt, ae, a, b
<1>8. Len(ae) + Len(b) = Len(q) + 1 /\ Len(ae) = at
  BY <1>0, <1>2, <1>4
<1>9. ASSUME NEW k \in 1 .. Len(q) + 1
      PROVE  (ae \o b)[k] = IF k < at THEN q[k] ELSE IF k = at THEN e
               ELSE q[k - 1]
  <2>1. (ae \o b)[k] = IF k <= at THEN ae[k] ELSE b[k - at]
    BY <1>6, <1>8
  <2>2. CASE k <= at
    <3>1. k \in 1 .. at
      BY <1>0, <2>2
    <3> QED  BY <1>0, <1>5, <2>1, <2>2, <3>1
  <2>3. CASE ~(k <= at)
    <3>1. k - at \in 1 .. Len(q) - at + 1 /\ at + (k - at) - 1 = k - 1
            /\ ~(k < at) /\ k # at
      BY <1>0, <2>3
    <3> QED  BY <1>2, <2>1, <2>3, <3>1
  <2> QED  BY <2>2, <2>3
<1> QED  BY <1>6, <1>7, <1>8, <1>9 DEF Inserted

---------------------------------------------------------------------------
(* A node of its own for a frame                                           *)

\* The nodes that wait for a frame.
LEMMA WaitingIs ==
    ASSUME NEW c, NEW l, NEW x, Kept(c, l, x)
    PROVE  /\ Passed(c, Len(c.q) + 1) = (c.match_cnt + 1) .. Len(c.q)
           /\ Cardinality((c.match_cnt + 1) .. Len(c.q))
                = Len(c.q) - c.match_cnt
<1>0. /\ Len(c.q) \in Nat /\ c.match_cnt \in 0 .. Len(c.q) /\ DOMAIN c.q
           = 1 .. Len(c.q)
  BY HeadIs DEF Kept, Typed, Channel, Queues
<1>1. \A i \in 1 .. Len(c.q) : c.q[i].matched <=> i <= c.match_cnt
  BY DEF Kept, Lined
<1>2. ASSUME NEW i \in Passed(c, Len(c.q) + 1)
               PROVE i \in (c.match_cnt + 1) .. Len(c.q)
  BY <1>0, <1>1 DEF Passed
<1>3. ASSUME NEW i \in (c.match_cnt + 1) .. Len(c.q)
               PROVE i \in Passed(c, Len(c.q) + 1)
  BY <1>0, <1>1 DEF Passed
<1>4. Cardinality((c.match_cnt + 1) .. Len(c.q)) = Len(c.q) - c.match_cnt
  <2> DEFINE a == c.match_cnt + 1
             b == Len(c.q)
  <2>1. a \in Int /\ b \in Int /\ b - a + 1 = b - c.match_cnt
          /\ (a > b => b - c.match_cnt = 0)
    BY <1>0
  <2> HIDE DEF a, b
  <2>2. Cardinality(a .. b) = IF a > b THEN 0 ELSE b - a + 1
    BY <2>1, FS_Interval
  <2>3. Cardinality(a .. b) = b - c.match_cnt
    BY <2>1, <2>2
  <2> QED  BY <2>3 DEF a, b
<1> QED  BY <1>2, <1>3, <1>4

\* The first of a set of places, if it has any.
LEMMA FirstIs ==
    ASSUME NEW S, S \subseteq Nat \ {0}
    PROVE  \/ First(S) = 0 /\ S = {}
           \/ First(S) # 0 /\ First(S) \in S /\ \A i \in S : First(S) <= i
<1>1. CASE S = {}
  BY <1>1 DEF First
<1>2. CASE S # {}
  BY <1>2, LeastIs DEF First
<1> QED  BY <1>1, <1>2

\* No node waits for the frame.
Unwanted(c, s, f) == \A i \in 1 .. Len(c.q) : ~Fits(c.q[i], s, f)

\* The place of the new node: the nodes before it are older, the others newer.
LEMMA NewerIs ==
    ASSUME attr \in Attrs, NEW c, NEW l, NEW s, NEW f, Arrived(c, l, s, f),
             Unwanted(c, s, f),
           NEW n, n = Newer(c, Len(c.q) + 1, f)
    PROVE  \/ n = 0 /\ \A i \in 1 .. Len(c.q) : c.q[i].frame < f
           \/ /\ n \in (c.match_cnt + 1) .. Len(c.q)
              /\ \A i \in 1 .. Len(c.q) : IF i < n THEN c.q[i].frame < f
                   ELSE f < c.q[i].frame
<1>0. /\ Typed(c) /\ Len(c.q) \in Nat /\ c.match_cnt \in 0 .. Len(c.q)
      /\ Passed(c, Len(c.q) + 1) = (c.match_cnt + 1) .. Len(c.q)
      /\ Kept(c, l, {<<s, f>>})
  BY HeadIs, WaitingIs DEF Arrived, Kept
<1>1. /\ f \in Nat /\ \A i \in 1 .. Len(c.q) : c.q[i].matched
           => c.q[i].frame < f
  <2>1. /\ f \in Nat \ {0}
        /\ \A i \in 1 .. Len(c.q) : c.q[i].matched => c.q[i].frame < f
    BY ArrivedIs
  <2> QED  BY <2>1
<1>2. \A i \in 1 .. Len(c.q) : c.q[i].frame \in Nat
  BY <1>0, NodeIs, AttrIs DEF Frames
<1>3. /\ \A i \in 1 .. Len(c.q) : c.q[i].matched <=> i <= c.match_cnt
      /\ \A i, j \in 1 .. Len(c.q) : i < j => c.q[i].frame < c.q[j].frame
  BY <1>0 DEF Kept, Lined, Sorted
<1>4. \A i \in 1 .. Len(c.q) : c.q[i].matched \/ c.q[i].frame # f
  BY DEF Unwanted, Fits
<1> DEFINE P == {i \in Passed(c, Len(c.q) + 1) : c.q[i].frame > f}
<1>5. n = First(P)
  BY DEF Newer
<1>6. P \subseteq Nat \ {0} /\ P \subseteq (c.match_cnt + 1) .. Len(c.q)
  BY <1>0
<1>7. \/ First(P) = 0 /\ P = {}
      \/ First(P) # 0 /\ First(P) \in P /\ \A i \in P : First(P) <= i
  <2> HIDE DEF P
  <2> QED  BY <1>6, FirstIs
<1>8. ASSUME NEW i \in 1 .. Len(c.q), i \notin P PROVE c.q[i].frame < f
  <2>1. CASE c.q[i].matched
    BY <1>1, <2>1
  <2>2. CASE ~c.q[i].matched
    <3>1. i \in Passed(c, Len(c.q) + 1)
      BY <1>0, <1>3, <2>2
    <3>2. ~(c.q[i].frame > f) /\ c.q[i].frame # f
      BY <1>4, <1>8, <2>2, <3>1
    <3> QED  BY <1>1, <1>2, <3>2
  <2> QED  BY <2>1, <2>2
<1>9. CASE n = 0
  <2>1. P = {}
    BY <1>5, <1>7, <1>9
  <2> QED  BY <1>8, <1>9, <2>1
<1>10. CASE n # 0
  <2>1. n \in P /\ \A i \in P : n <= i
    BY <1>5, <1>7, <1>10
  <2>2. n \in (c.match_cnt + 1) .. Len(c.q) /\ f < c.q[n].frame
    BY <1>6, <2>1
  <2>2a. n \in 1 .. Len(c.q)
    BY <1>0, <2>2
  <2>3. ASSUME NEW i \in 1 .. Len(c.q), i < n PROVE c.q[i].frame < f
    <3>1. i \notin P
      <4>1. ~(n <= i)
        BY <2>2a, <2>3
      <4> QED  BY <2>1, <4>1
    <3> QED  BY <1>8, <3>1
  <2>4. ASSUME NEW i \in 1 .. Len(c.q), ~(i < n) PROVE f < c.q[i].frame
    <3>1. i = n \/ n < i
      BY <2>2a, <2>4
    <3>2. CASE i = n
      BY <2>2, <3>2
    <3>3. CASE n < i
      <4>1. c.q[n].frame < c.q[i].frame
        BY <1>3, <2>2a, <3>3
      <4>2. c.q[n].frame \in Nat /\ c.q[i].frame \in Nat
        BY <1>2, <2>2a
      <4> QED  BY <1>1, <2>2, <4>1, <4>2
    <3> QED  BY <3>1, <3>2, <3>3
  <2> QED  BY <2>2, <2>3, <2>4
<1> QED  BY <1>9, <1>10

\* The first of some nodes.
LEMMA EarliestIs ==
    ASSUME NEW S, S \subseteq Nat, S # {}
    PROVE  Earliest(S, 1) \subseteq S /\ Earliest(S, 1) # {}
<1>1. Least(S) \in S /\ \A j \in S : Least(S) <= j
  BY LeastIs
<1>2. {j \in S : j < Least(S)} = {}
  <2>1. \A j \in S : j \in Nat /\ Least(S) \in Nat
    BY <1>1
  <2>2. ASSUME NEW j \in S, j < Least(S) PROVE FALSE
    <3> DEFINE m == Least(S)
    <3>1. j \in Nat /\ m \in Nat /\ m <= j /\ j < m
      BY <1>1, <2>1, <2>2
    <3> HIDE DEF m
    <3> QED  BY <3>1
  <2> QED  BY <2>2
<1>3. Cardinality({j \in S : j < Least(S)}) < 1
  BY <1>2, FS_EmptySet
<1> QED  BY <1>1, <1>3 DEF Earliest

\* The nodes that make room are unmatched ones, at least one if there are too
\* many, and not the one before which the new node goes.
LEMMA VictimsAre ==
    ASSUME attr \in Attrs, NEW c, NEW l, NEW s, NEW f, Arrived(c, l, s, f),
           ~(attr.unmatched < Cardinality(Passed(c, Len(c.q) + 1))
             /\ Older(c, Len(c.q) + 1, f) = 0),
           NEW v, v = Victims(c, f)
    PROVE  /\ v \subseteq (c.match_cnt + 1) .. Len(c.q)
           /\ Newer(c, Len(c.q) + 1, f) \notin v
           /\ v = {} => Len(c.q) <= c.match_cnt + attr.unmatched
<1> DEFINE W == (c.match_cnt + 1) .. Len(c.q)
           older == Older(c, Len(c.q) + 1, f)
           newer == Newer(c, Len(c.q) + 1, f)
           excess == Cardinality(Passed(c, Len(c.q) + 1)) - attr.unmatched
           idle == {i \in older .. Len(c.q) : ~c.q[i].expected /\ i # newer}
<1>0. /\ Typed(c) /\ Len(c.q) \in Nat /\ c.match_cnt \in 0 .. Len(c.q)
      /\ Passed(c, Len(c.q) + 1) = W /\ Cardinality(W) = Len(c.q) - c.match_cnt
      /\ attr.unmatched \in Nat /\ Len(c.q) <= c.match_cnt + attr.unmatched + 1
  BY HeadIs, WaitingIs, AttrIs DEF Arrived, Kept, Lined
<1>1. excess = Len(c.q) - c.match_cnt - attr.unmatched
  BY <1>0
<1>2. v = IF excess <= 0 THEN {}
          ELSE IF excess <= Cardinality(idle) THEN Earliest(idle, excess)
            ELSE idle \cup {older}
  BY DEF Victims, MakeRoom
<1>3. CASE excess <= 0
  <2>1. v = {}
    BY <1>2, <1>3
  <2> QED  BY <1>0, <1>1, <1>3, <2>1
<1>4. CASE ~(excess <= 0)
  <2>1. excess = 1
    BY <1>0, <1>1, <1>4
  <2>2. older # 0
    BY <1>0, <1>1, <1>4
  <2> DEFINE P == {i \in Passed(c, Len(c.q) + 1) : c.q[i].frame < f}
             Q == {i \in Passed(c, Len(c.q) + 1) : c.q[i].frame > f}
  <2>3. older = First(P) /\ newer = First(Q)
    BY DEF Older, Newer
  <2>4. P \subseteq Nat \ {0} /\ Q \subseteq Nat \ {0} /\ P \subseteq W
    BY <1>0
  <2>5. \A i \in P : c.q[i].frame < f
    OBVIOUS
  <2>6. \A i \in Q : c.q[i].frame > f
    OBVIOUS
  <2>7. older \in P /\ (newer = 0 \/ newer \in Q)
    <3> HIDE DEF P, Q, older, newer
    <3> QED  BY <2>2, <2>3, <2>4, FirstIs
  <2>8. older \in W /\ older # newer
    <3>1. older \in 1 .. Len(c.q)
      BY <1>0, <2>4, <2>7
    <3>2. c.q[older].frame \in Nat /\ f \in Nat
      <4>1. \A i \in 1 .. Len(c.q) : c.q[i].frame \in Frames
        BY <1>0, NodeIs
      <4>2. f \in Frames /\ Frames \subseteq Nat
        BY AttrIs DEF Arrived, Frames
      <4> HIDE DEF older
      <4> QED  BY <3>1, <4>1, <4>2
    <3> HIDE DEF P, Q, older, newer
    <3> QED  BY <2>2, <2>4, <2>5, <2>6, <2>7, <3>2
  <2>9. idle \subseteq W /\ newer \notin idle
    <3> HIDE DEF older, newer
    <3> QED  BY <1>0, <2>8
  <2>10. IsFiniteSet(idle) /\ idle \subseteq Nat
    <3>1. IsFiniteSet(W)
      <4>1. c.match_cnt + 1 \in Int /\ Len(c.q) \in Int
        BY <1>0
      <4> QED  BY <4>1, FS_Interval
    <3>2. W \subseteq Nat
      BY <1>0
    <3> HIDE DEF W, idle
    <3> QED  BY <2>9, <3>1, <3>2, FS_Subset
  <2> HIDE DEF idle, older, newer, W, excess
  <2>11. CASE 1 <= Cardinality(idle)
    <3>1. idle # {}
      BY <2>11, FS_EmptySet
    <3>2. Earliest(idle, 1) \subseteq idle /\ Earliest(idle, 1) # {}
      BY <2>10, <3>1, EarliestIs
    <3>3. v = Earliest(idle, 1)
      BY <1>2, <2>1, <2>11
    <3> QED  BY <2>9, <3>2, <3>3 DEF W, newer
  <2>12. CASE ~(1 <= Cardinality(idle))
    <3>1. v = idle \cup {older}
      BY <1>2, <2>1, <2>12
    <3> QED  BY <2>8, <2>9, <3>1 DEF W, newer
  <2> QED  BY <2>11, <2>12
<1> QED  BY <1>3, <1>4

\* Node n has frame f of stream s and no other.
Single(n, s, f) == \A t \in attr.streams : n.bufs[t] = IF t = s THEN f ELSE 0

\* The nodes of q before at are older than f, the others newer.
Parted(q, at, f) == \A i \in 1 .. Len(q) : IF i < at THEN q[i].frame < f
  ELSE f < q[i].frame

\* A new node between the older ones and the newer ones.
LEMMA InsertKeeps ==
    ASSUME attr \in Attrs, NEW c, NEW l \in [attr.streams -> 0 .. attr.frames],
           NEW s \in attr.streams, NEW f \in Frames, l[s]
             = f, Orderly(c, l, {<<s, f>>}),
           NEW at \in 1 .. Len(c.q) + 1,
           Parted(c.q, at, f),
           NEW N \in Node, Made(N), N.frame = f,
           Single(N, s, f),
           NEW d \in Channel, SameRequests(c, d), d.q = InsertAt(c.q, at, N),
             d.out = c.out
    PROVE  Orderly(d, l, {}) /\ Len(d.q) = Len(c.q) + 1
<1>0. /\ Typed(c) /\ c.q \in Seq(Node) /\ Len(c.q) \in Nat /\ Sorted(c)
           /\ Seen(c, l)
      /\ Held(c, {<<s, f>>}) /\ (\A i \in 1 .. Len(c.q) : Made(c.q[i]))
      /\ d.sent = c.sent /\ d.shown = c.shown /\ at \in Nat
  BY DEF Orderly, Typed, Channel, Queues, SameRequests
<1>0a. \A i \in 1 .. Len(c.q) : IF i < at THEN c.q[i].frame < f
         ELSE f < c.q[i].frame
  BY DEF Parted
<1>0b. \A t \in attr.streams : N.bufs[t] = IF t = s THEN f ELSE 0
  BY DEF Single
<1>1. /\ Len(d.q) = Len(c.q) + 1
      /\ \A k \in 1 .. Len(c.q) + 1 : d.q[k] = IF k < at THEN c.q[k] ELSE IF k
           = at THEN N ELSE c.q[k - 1]
  <2>1. /\ Len(InsertAt(c.q, at, N)) = Len(c.q) + 1
        /\ \A k \in 1 .. Len(c.q) + 1 :
              InsertAt(c.q, at, N)[k] = IF k < at THEN c.q[k] ELSE IF k = at
                THEN N ELSE c.q[k - 1]
    <3> DEFINE Q == c.q
    <3>1. Q \in Seq(Node) /\ at \in 1 .. Len(Q) + 1
      BY <1>0
    <3> HIDE DEF Q
    <3>2. InsertAt(Q, at, N) \in Seq(Node)
            /\ Inserted(Q, at, N, InsertAt(Q, at, N))
      BY <3>1, InsertIs
    <3> QED  BY <3>2 DEF Q, Inserted
  <2> QED  BY <2>1
<1>2. ASSUME NEW k \in 1 .. Len(d.q), k # at
      PROVE  \E i \in 1 .. Len(c.q) : d.q[k] = c.q[i] /\ IF k < at THEN i = k
               /\ i < at ELSE i = k - 1 /\ ~(i < at)
  <2>1. CASE k < at
    <3>1. k \in 1 .. Len(c.q) /\ d.q[k] = c.q[k]
      BY <1>0, <1>1, <2>1
    <3> QED  BY <2>1, <3>1
  <2>2. CASE ~(k < at)
    <3>1. k - 1 \in 1 .. Len(c.q) /\ d.q[k] = c.q[k - 1] /\ ~(k - 1 < at)
      BY <1>0, <1>1, <1>2, <2>2
    <3> QED  BY <2>2, <3>1
  <2> QED  BY <2>1, <2>2
<1>3. at \in 1 .. Len(d.q) /\ d.q[at] = N
  BY <1>0, <1>1
<1>4. ASSUME NEW i \in 1 .. Len(c.q) PROVE \E k \in 1 .. Len(d.q) : d.q[k]
               = c.q[i]
  <2>1. CASE i < at
    <3>1. i \in 1 .. Len(d.q) /\ d.q[i] = c.q[i]
      BY <1>0, <1>1, <2>1
    <3> QED  BY <3>1
  <2>2. CASE ~(i < at)
    <3>1. i + 1 \in 1 .. Len(d.q) /\ ~(i + 1 < at) /\ i + 1 # at
            /\ (i + 1) - 1 = i
      BY <1>0, <1>1, <2>2
    <3>2. d.q[i + 1] = c.q[i]
      BY <1>1, <3>1
    <3> QED  BY <3>1, <3>2
  <2> QED  BY <2>1, <2>2
<1>5. Typed(d)
  BY <1>0 DEF Typed, SameRequests
<1>6. \A k \in 1 .. Len(d.q) : Made(d.q[k])
  BY <1>0, <1>2, <1>3
<1>7. Sorted(d)
  <2>0. \A i \in 1 .. Len(c.q) : c.q[i].frame \in Nat
    BY <1>0, NodeIs, AttrIs DEF Frames
  <2>1. ASSUME NEW j \in 1 .. Len(d.q), NEW k \in 1 .. Len(d.q), j < k
        PROVE  d.q[j].frame < d.q[k].frame
    <3>1. CASE j = at
      <4>1. k # at /\ ~(k < at)
        BY <1>0, <2>1, <3>1
      <4>2. PICK i \in 1 .. Len(c.q) : d.q[k] = c.q[i] /\ ~(i < at)
        BY <1>2, <4>1
      <4> QED  BY <1>0a, <1>3, <3>1, <4>2
    <3>2. CASE k = at
      <4>1. j # at /\ j < at
        BY <1>0, <2>1, <3>2
      <4>2. PICK i \in 1 .. Len(c.q) : d.q[j] = c.q[i] /\ i < at
        BY <1>2, <4>1
      <4> QED  BY <1>0a, <1>3, <3>2, <4>2
    <3>3. CASE j # at /\ k # at
      <4>1. PICK i \in 1 .. Len(c.q) : d.q[j] = c.q[i] /\ IF j < at THEN i = j
              /\ i < at ELSE i = j - 1 /\ ~(i < at)
        BY <1>2, <3>3
      <4>2. PICK h \in 1 .. Len(c.q) : d.q[k] = c.q[h] /\ IF k < at THEN h = k
              /\ h < at ELSE h = k - 1 /\ ~(h < at)
        BY <1>2, <3>3
      <4>3. i < h
        BY <1>0, <2>1, <3>3, <4>1, <4>2
      <4> QED  BY <1>0, <4>1, <4>2, <4>3 DEF Sorted
    <3> QED  BY <3>1, <3>2, <3>3
  <2>2. c.shown < f
    BY <1>0 DEF Held
  <2>3. ASSUME NEW k \in 1 .. Len(d.q) PROVE d.shown < d.q[k].frame
    <3>1. CASE k = at
      BY <1>0, <1>3, <2>2, <3>1
    <3>2. CASE k # at
      BY <1>0, <1>2, <3>2 DEF Sorted
    <3> QED  BY <3>1, <3>2
  <2> QED  BY <2>1, <2>3 DEF Sorted
<1>8. Seen(d, l)
  <2>1. ASSUME NEW k \in 1 .. Len(d.q), NEW t \in attr.streams
                 PROVE d.q[k].bufs[t] <= l[t]
    <3>1. CASE k = at
      <4>1. l[t] \in Nat /\ f \in Nat /\ 0 <= l[t] /\ f <= f
        BY AttrIs DEF Frames
      <4> QED  BY <1>0b, <1>3, <3>1, <4>1
    <3>2. CASE k # at
      BY <1>0, <1>2, <3>2 DEF Seen
    <3> QED  BY <3>1, <3>2
  <2> QED  BY <1>0, <2>1 DEF Seen
<1>9. Held(d, {})
  <2>1. ASSUME NEW t \in attr.streams, NEW g \in Frames
        PROVE  <<t, g>> \in d.out <=> \/ \E i \in 1 .. Len(d.q) :
                                           d.q[i].bufs[t] = g
                                      \/ \E b \in d.sent : b.bufs[t] = g
                                      \/ <<t, g>> \in {}
    <3>0. g # 0
      BY AttrIs DEF Frames
    <3>1. (\E i \in 1 .. Len(d.q) : d.q[i].bufs[t] = g)
            <=> (\E i \in 1 .. Len(c.q) : c.q[i].bufs[t] = g)
              \/ (t = s /\ g = f)
      <4>1. ASSUME NEW k \in 1 .. Len(d.q), d.q[k].bufs[t] = g
            PROVE  (\E i \in 1 .. Len(c.q) : c.q[i].bufs[t] = g)
                     \/ (t = s /\ g = f)
        <5>1. CASE k = at
          BY <1>0b, <1>3, <3>0, <4>1, <5>1
        <5>2. CASE k # at
          BY <1>2, <4>1, <5>2
        <5> QED  BY <5>1, <5>2
      <4>2. ASSUME NEW i \in 1 .. Len(c.q), c.q[i].bufs[t] = g
            PROVE  \E k \in 1 .. Len(d.q) : d.q[k].bufs[t] = g
        BY <1>4, <4>2
      <4>3. t = s /\ g = f => \E k \in 1 .. Len(d.q) : d.q[k].bufs[t] = g
        BY <1>0b, <1>3
      <4> QED  BY <4>1, <4>2, <4>3
    <3>2. <<t, g>> \in {<<s, f>>} <=> t = s /\ g = f
      OBVIOUS
    <3>3. <<t, g>> \in c.out <=> \/ \E i \in 1 .. Len(c.q) : c.q[i].bufs[t] = g
                                 \/ \E b \in c.sent : b.bufs[t] = g
                                 \/ <<t, g>> \in {<<s, f>>}
      BY <1>0 DEF Held
    <3> QED  BY <1>0, <3>1, <3>2, <3>3
  <2>1a. \A i \in 1 .. Len(c.q) : c.q[i].bufs[s] # f
    BY <1>0 DEF Held
  <2>2. ASSUME NEW j \in 1 .. Len(d.q), NEW k \in 1 .. Len(d.q),
                 NEW t \in attr.streams,
               d.q[j].bufs[t] = d.q[k].bufs[t], d.q[j].bufs[t] # 0
        PROVE  j = k
    <3>1. CASE j = at /\ k # at
      <4>1. PICK i \in 1 .. Len(c.q) : d.q[k] = c.q[i]
        BY <1>2, <3>1
      <4>2. t = s /\ c.q[i].bufs[s] = f
        BY <1>0b, <1>3, <2>2, <3>1, <4>1
      <4> QED  BY <2>1a, <4>2
    <3>2. CASE k = at /\ j # at
      <4>1. PICK i \in 1 .. Len(c.q) : d.q[j] = c.q[i]
        BY <1>2, <3>2
      <4>2. t = s /\ c.q[i].bufs[s] = f
        BY <1>0b, <1>3, <2>2, <3>2, <4>1
      <4> QED  BY <2>1a, <4>2
    <3>3. CASE j # at /\ k # at
      <4>1. PICK i \in 1 .. Len(c.q) : d.q[j] = c.q[i] /\ IF j < at THEN i = j
              /\ i < at ELSE i = j - 1 /\ ~(i < at)
        BY <1>2, <3>3
      <4>2. PICK h \in 1 .. Len(c.q) : d.q[k] = c.q[h] /\ IF k < at THEN h = k
              /\ h < at ELSE h = k - 1 /\ ~(h < at)
        BY <1>2, <3>3
      <4>3. i = h
        BY <1>0, <2>2, <4>1, <4>2 DEF Held
      <4> QED  BY <1>0, <4>1, <4>2, <4>3
    <3> QED  BY <3>1, <3>2, <3>3
  <2>3. \A a, b \in d.sent, t \in attr.streams : a.bufs[t] = b.bufs[t] => a = b
    BY <1>0 DEF Held
  <2>4. ASSUME NEW k \in 1 .. Len(d.q), NEW b \in d.sent,
                 NEW t \in attr.streams
        PROVE  d.q[k].bufs[t] # b.bufs[t]
    <3>1. CASE k # at
      BY <1>0, <1>2, <3>1 DEF Held
    <3>2. CASE k = at
      <4>1. b \in Super
        BY <1>0, ChannelIs DEF Typed
      <4>2. b.bufs[t] # 0
        BY <4>1, AttrIs DEF Super, Frames
      <4>3. t = s => b.bufs[t] # f
        BY <1>0 DEF Held
      <4> QED  BY <1>0b, <1>3, <3>2, <4>2, <4>3
    <3> QED  BY <3>1, <3>2
  <2> QED  BY <2>1, <2>2, <2>3, <2>4 DEF Held
<1> QED  BY <1>1, <1>5, <1>6, <1>7, <1>8, <1>9 DEF Orderly

\* Where the new node goes once the others have made room.
LEMMA ShiftIs ==
    ASSUME NEW c, Typed(c), NEW v, v \subseteq 1 .. Len(c.q),
             NEW n \in 1 .. Len(c.q), n \notin v
    PROVE  n \in Rest(c, v) /\ n - Cardinality({i \in v : i < n})
             = Place(c, v, n)
<1> DEFINE A == {j \in Rest(c, v) : j <= n}
           B == {i \in v : i < n}
<1>1. Len(c.q) \in Nat /\ DOMAIN c.q \ v = Rest(c, v) /\ n \in Nat
  BY PlaceIs DEF Typed, Channel, Queues
<1>2. n \in Rest(c, v) /\ Place(c, v, n) = Cardinality(A)
  BY <1>1 DEF Rest, Place
<1>3. A \cup B = 1 .. n /\ A \cap B = {}
  <2>1. ASSUME NEW i \in 1 .. n PROVE i \in A \cup B
    BY <1>1 DEF Rest
  <2>2. ASSUME NEW i \in A \cup B PROVE i \in 1 .. n
    BY <1>1 DEF Rest
  <2>3. A \cap B = {}
    BY DEF Rest
  <2> QED  BY <2>1, <2>2, <2>3
<1>4. IsFiniteSet(1 .. n) /\ Cardinality(1 .. n) = n
  BY <1>1, CountTo
<1> HIDE DEF A, B
<1>5. /\ IsFiniteSet(A) /\ Cardinality(A) \in Nat /\ IsFiniteSet(B)
           /\ Cardinality(B) \in Nat
  BY <1>3, <1>4, FS_Subset, FS_CardinalityType
<1>6. Cardinality(A \cup B)
        = Cardinality(A) + Cardinality(B) - Cardinality(A \cap B)
  BY <1>5, FS_Union
<1>7. Cardinality(A \cap B) = 0
  BY <1>3, FS_EmptySet
<1> DEFINE a == Cardinality(A)
           b == Cardinality(B)
           p == Place(c, v, n)
<1>8. a \in Nat /\ b \in Nat /\ n = a + b - 0 /\ p = a
  BY <1>2, <1>3, <1>4, <1>5, <1>6, <1>7
<1>9. n - b = p
  <2> HIDE DEF a, b, p
  <2> QED  BY <1>1, <1>8
<1> QED  BY <1>2, <1>9 DEF B

\* Where a new node goes in the queue d of c without the nodes in v.
Spot(c, v, d, f) ==
    LET newer == Newer(c, Len(c.q) + 1, f)
    IN IF newer = 0 THEN Len(d.q) + 1
      ELSE newer - Cardinality({i \in v : i < newer})

\* In the queue d, made out of that of c, a node of frame f can go to at.
Room(c, d, l, s, f, at) ==
    /\ Orderly(d, l, {<<s, f>>}) /\ SameRequests(c, d) /\ d.match_cnt
         = c.match_cnt
    /\ \A k \in 1 .. Len(d.q) : d.q[k].matched <=> k <= c.match_cnt
    /\ c.match_cnt <= Len(d.q) /\ Len(d.q) <= c.match_cnt + attr.unmatched
    /\ at \in 1 .. Len(d.q) + 1 /\ c.match_cnt < at /\ Parted(d.q, at, f)
    /\ \A t \in attr.streams : attr.streams = {t} => Len(d.q) = c.match_cnt

\* The queue has room for the new node.
LEMMA RoomIs ==
    ASSUME attr \in Attrs, NEW c, NEW l, NEW s, NEW f, Arrived(c, l, s, f),
             Unwanted(c, s, f),
           ~(attr.unmatched < Cardinality(Passed(c, Len(c.q) + 1))
             /\ Older(c, Len(c.q) + 1, f) = 0),
           NEW v, v = Victims(c, f), NEW d, d = Without(c, v), NEW at, at
             = Spot(c, v, d, f)
    PROVE  Room(c, d, l, s, f, at)
<1> DEFINE m == c.match_cnt
           newer == Newer(c, Len(c.q) + 1, f)
           pl(i) == Place(c, v, i)
           n == Cardinality(Rest(c, v))
<1>0. /\ Typed(c) /\ c \in Channel /\ Len(c.q) \in Nat /\ m \in 0 .. Len(c.q)
           /\ attr.unmatched \in Nat
      /\ Orderly(c, l, {<<s, f>>}) /\ Lined(c)
  BY HeadIs, AttrIs, OrderlyIs DEF Arrived, Kept, Typed
<1>1. /\ v \subseteq (m + 1) .. Len(c.q) /\ newer \notin v
      /\ v = {} => Len(c.q) <= m + attr.unmatched
  BY VictimsAre
<1>2. \/ newer = 0 /\ \A i \in 1 .. Len(c.q) : c.q[i].frame < f
      \/ /\ newer \in (m + 1) .. Len(c.q)
         /\ \A i \in 1 .. Len(c.q) : IF i < newer THEN c.q[i].frame < f
              ELSE f < c.q[i].frame
  BY NewerIs
<1>3. v \subseteq 1 .. Len(c.q) /\ \A i \in v : i > m
  BY <1>0, <1>1
<1>4. Orderly(d, l, {<<s, f>>})
  BY <1>0, <1>3, WithoutKeeps
<1>5. /\ Trimmed(c, d) /\ d.match_cnt = m /\ Len(d.q) = n
      /\ \A i \in Rest(c, v) : d.q[pl(i)] = c.q[i]
  <2>1. /\ Without(c, v) \in Channel /\ Trimmed(c, Without(c, v))
        /\ Without(c, v).match_cnt = c.match_cnt
        /\ Len(Without(c, v).q) = Cardinality(Rest(c, v))
        /\ \A i \in Rest(c, v) : Without(c, v).q[Place(c, v, i)] = c.q[i]
        /\ Without(c, v).out = c.out \ UNION {Bufs(c.q[i]) : i \in v}
    BY <1>0, <1>3, WithoutIs
  <2> QED  BY <2>1
<1>6. SameRequests(c, d)
  BY <1>0, <1>5, TrimmedRequests
<1>7. /\ n \in Nat /\ IsFiniteSet(Rest(c, v)) /\ \A i \in Rest(c, v) :
           pl(i) \in 1 .. n
      /\ \A i, j \in Rest(c, v) : i < j => pl(i) < pl(j)
  BY <1>0, PlaceIs
<1>8. \A k \in 1 .. n : \E i \in Rest(c, v) : pl(i) = k
  BY <1>0, PlaceOnto
<1>9. /\ \A i \in 1 .. m : i \in Rest(c, v) /\ pl(i) = i
      /\ \A i \in Rest(c, v) : i > m => pl(i) > m
  BY <1>0, <1>3, PlaceBefore
<1>10. Rest(c, v) \subseteq 1 .. Len(c.q) /\ Rest(c, v) = (1 .. Len(c.q)) \ v
  BY DEF Rest
<1>11. newer # 0 => newer \in 1 .. Len(c.q) /\ newer \in Rest(c, v) /\ at
         = pl(newer)
  <2>1. SUFFICES ASSUME newer # 0 PROVE newer \in 1 .. Len(c.q)
                          /\ newer \in Rest(c, v) /\ at = pl(newer)
    OBVIOUS
  <2>2. newer \in 1 .. Len(c.q)
    BY <1>0, <1>2, <2>1
  <2>3. at = newer - Cardinality({i \in v : i < newer})
    BY <2>1 DEF Spot
  <2> HIDE DEF newer
  <2>4. newer \in Rest(c, v) /\ newer - Cardinality({i \in v : i < newer})
          = Place(c, v, newer)
    BY <1>0, <1>1, <1>3, <2>2, ShiftIs
  <2> QED  BY <2>2, <2>3, <2>4
<1>12. newer = 0 => at = Len(d.q) + 1
  BY DEF Spot
<1>13. \A i \in 1 .. Len(c.q) : c.q[i].matched <=> i <= m
  BY <1>0 DEF Lined
<1> HIDE DEF newer, pl, n, m
<1>14. m <= n
  <2>1. CASE m = 0
    BY <1>7, <2>1
  <2>2. CASE m # 0
    <3>1. m \in 1 .. m
      BY <1>0, <2>2
    <3>2. m \in 1 .. n
      BY <1>7, <1>9, <3>1
    <3> QED  BY <1>7, <3>2
  <2> QED  BY <2>1, <2>2
<1>15. ASSUME NEW k \in 1 .. Len(d.q)
       PROVE  \E i \in Rest(c, v) : i \in 1 .. Len(c.q) /\ pl(i) = k /\ d.q[k]
                = c.q[i]
  BY <1>5, <1>8, <1>10
<1>16. \A k \in 1 .. Len(d.q) : d.q[k].matched <=> k <= m
  <2> SUFFICES ASSUME NEW k \in 1 .. Len(d.q) PROVE d.q[k].matched <=> k <= m
    OBVIOUS
  <2>1. PICK i \in Rest(c, v) : i \in 1 .. Len(c.q) /\ pl(i) = k /\ d.q[k]
          = c.q[i]
    BY <1>15
  <2>2. CASE i <= m
    <3>1. i \in 1 .. m
      BY <1>0, <2>1, <2>2
    <3>2. k = i
      BY <1>9, <2>1, <3>1
    <3> QED  BY <1>13, <2>1, <2>2, <3>2
  <2>3. CASE ~(i <= m)
    <3>1. i > m
      BY <1>0, <2>1, <2>3
    <3>2. ~(k <= m)
      <4>1. k > m
        BY <1>9, <2>1, <3>1
      <4> QED  BY <1>0, <1>5, <1>7, <4>1
    <3> QED  BY <1>13, <2>1, <2>3, <3>2
  <2> QED  BY <2>2, <2>3
<1>17. n <= m + attr.unmatched
  <2>1. CASE v = {}
    <3>1. Rest(c, v) = 1 .. Len(c.q)
      BY <1>10, <2>1
    <3>2. n = Len(c.q)
      BY <1>0, <3>1, CountTo DEF n
    <3> QED  BY <1>1, <2>1, <3>2
  <2>2. CASE v # {}
    <3>1. PICK x \in v : x \in 1 .. Len(c.q)
      BY <1>3, <2>2
    <3> DEFINE S == 1 .. Len(c.q)
    <3>2. IsFiniteSet(S) /\ Cardinality(S) = Len(c.q)
      BY <1>0, CountTo
    <3>3. IsFiniteSet(S \ {x}) /\ Cardinality(S \ {x}) = Len(c.q) - 1
      <4>0. x \in S
        BY <3>1
      <4> HIDE DEF S
      <4> QED  BY <3>2, <4>0, FS_RemoveElement
    <3>4. Rest(c, v) \in SUBSET (S \ {x})
      BY <1>10
    <3>5. n <= Len(c.q) - 1
      <4> HIDE DEF S
      <4>1. Cardinality(Rest(c, v)) <= Cardinality(S \ {x})
        BY <3>3, <3>4, FS_Subset
      <4> QED  BY <3>3, <4>1 DEF n
    <3>6. Len(c.q) <= m + attr.unmatched + 1
      BY <1>0 DEF Lined, m
    <3> QED  BY <1>0, <1>7, <3>5, <3>6
  <2> QED  BY <2>1, <2>2
<1>18. at \in 1 .. n + 1 /\ m < at
  <2>1. CASE newer = 0
    BY <1>0, <1>5, <1>7, <1>12, <1>14, <2>1
  <2>2. CASE newer # 0
    <3>1. newer > m
      BY <1>0, <1>2, <2>2 DEF m
    <3>2. pl(newer) \in 1 .. n /\ pl(newer) > m
      BY <1>7, <1>9, <1>11, <2>2, <3>1
    <3> QED  BY <1>0, <1>7, <1>11, <2>2, <3>2
  <2> QED  BY <2>1, <2>2
<1>19. \A k \in 1 .. Len(d.q) : IF k < at THEN d.q[k].frame < f
         ELSE f < d.q[k].frame
  <2> SUFFICES ASSUME NEW k \in 1 .. Len(d.q)
               PROVE  IF k < at THEN d.q[k].frame < f ELSE f < d.q[k].frame
    OBVIOUS
  <2>1. PICK i \in Rest(c, v) : i \in 1 .. Len(c.q) /\ pl(i) = k /\ d.q[k]
          = c.q[i]
    BY <1>15
  <2>2. CASE newer = 0
    <3>1. k < at
      BY <1>5, <1>7, <1>12, <2>2
    <3>2. c.q[i].frame < f
      BY <1>0, <1>2, <2>1, <2>2
    <3> QED  BY <2>1, <3>1, <3>2
  <2>3. CASE newer # 0
    <3>1. newer \in Rest(c, v) /\ at = pl(newer) /\ newer \in Nat /\ i \in Nat
      BY <1>11, <2>1, <2>3
    <3>2. pl(i) \in Nat /\ pl(newer) \in Nat
      BY <1>7, <2>1, <3>1
    <3>3. i < newer <=> k < at
      <4>1. CASE i < newer
        <5>1. pl(i) < pl(newer)
          BY <1>7, <2>1, <3>1, <4>1
        <5> QED  BY <2>1, <3>1, <4>1, <5>1
      <4>2. CASE newer < i
        <5>1. pl(newer) < pl(i)
          BY <1>7, <2>1, <3>1, <4>2
        <5> QED  BY <2>1, <3>1, <3>2, <4>2, <5>1
      <4>3. CASE newer = i
        BY <2>1, <3>1, <3>2, <4>3
      <4> QED  BY <3>1, <4>1, <4>2, <4>3
    <3>4. IF i < newer THEN c.q[i].frame < f ELSE f < c.q[i].frame
      <4>1. newer \in (m + 1) .. Len(c.q)
        BY <1>2, <2>3 DEF m
      <4> QED  BY <1>2, <2>1, <2>3
    <3> QED  BY <2>1, <3>3, <3>4
  <2> QED  BY <2>2, <2>3
<1>20. ASSUME NEW t \in attr.streams, attr.streams = {t} PROVE Len(d.q) = m
  <2>1. m = Len(c.q)
    BY <1>0, <1>20 DEF Lined, m
  <2>2. v = {}
    BY <1>0, <1>1, <2>1 DEF m
  <2>3. Rest(c, v) = 1 .. Len(c.q)
    BY <1>10, <2>2
  <2> QED  BY <1>0, <1>5, <2>1, <2>3, CountTo DEF n
<1> QED  BY <1>4, <1>5, <1>6, <1>14, <1>16, <1>17, <1>18, <1>19, <1>20 DEF m,
   n, Room, Parted

\* A node with one frame.
Fresh(s, f, x) ==
    [frame |-> f, bufs |-> [NoFrames EXCEPT ![s] = f],
      matched |-> attr.streams = {s},
     expected |-> x /\ ~(attr.streams = {s}),
     meta |-> IF Low /\ s = Meta THEN f ELSE 0]

\* It is a node.
LEMMA FreshIs ==
    ASSUME attr \in Attrs, NEW s \in attr.streams, NEW f \in Frames,
             NEW x \in BOOLEAN
    PROVE  /\ Fresh(s, f, x) \in Node /\ Made(Fresh(s, f, x))
                /\ Fresh(s, f, x).frame = f
           /\ Single(Fresh(s, f, x), s, f)
           /\ Fresh(s, f, x).matched <=> attr.streams = {s}
<1> DEFINE b == [NoFrames EXCEPT ![s] = f]
           a == attr.streams = {s}
           e == x /\ ~a
           m == IF Low /\ s = Meta THEN f ELSE 0
           N == Fresh(s, f, x)
<1>0. f \in Nat \ {0} /\ f \in 0 .. attr.frames /\ 0 \in 0 .. attr.frames
  BY AttrIs DEF Frames
<1>1. /\ b \in [attr.streams -> 0 .. attr.frames]
      /\ \A t \in attr.streams : b[t] = IF t = s THEN f ELSE 0
  BY <1>0 DEF NoFrames
<1>2. a \in BOOLEAN /\ e \in BOOLEAN /\ m \in 0 .. attr.frames
  BY <1>0
<1>3. N = [frame |-> f, bufs |-> b, matched |-> a, expected |-> e, meta |-> m]
  BY DEF Fresh
<1>4. a => ~(Low /\ s = Meta)
  <2>1. SUFFICES ASSUME a, Low, s = Meta PROVE FALSE
    OBVIOUS
  <2>2. PICK t : attr.streams \ {Meta} = {t}
    BY <2>1, AttrIs
  <2> QED  BY <2>1, <2>2
<1>5. a => \A t \in attr.streams : t = s
  OBVIOUS
<1>6. m = 0 <=> ~(Low /\ s = Meta)
  BY <1>0
<1>7. m > 0 <=> Low /\ s = Meta
  BY <1>0
<1>7a. m > 0 => m = f
  BY <1>7
<1> HIDE DEF b, a, e, m, N
<1>8. N \in Node /\ N.frame = f /\ N.bufs = b /\ (N.matched <=> a) /\ N.meta
        = m
  BY <1>1, <1>2, <1>3 DEF Node
<1>9. Made(N)
  <2>1. \E t \in attr.streams : N.bufs[t] = N.frame
    BY <1>1, <1>8
  <2>2. N.meta = 0 => \E t \in attr.streams \ Loose : N.bufs[t] = N.frame
    BY <1>1, <1>6, <1>8 DEF Loose
  <2>3. N.matched => \A t \in attr.streams : N.bufs[t] # 0
    BY <1>0, <1>1, <1>5, <1>8
  <2>4. \A t \in attr.streams \ Loose : N.bufs[t] \in {0, N.frame}
          \/ N.meta > 0
    BY <1>1, <1>8
  <2>5. \A t \in Loose \cap attr.streams : N.bufs[t] = 0
          \/ N.bufs[t] >= N.frame
    BY <1>0, <1>1, <1>8
  <2>6. N.meta > 0 => /\ Low /\ Meta \in attr.streams /\ N.meta = N.frame
                           /\ ~N.matched
                      /\ \A t \in attr.streams : N.bufs[t] = IF t = Meta
                           THEN N.frame ELSE 0
    BY <1>1, <1>4, <1>7, <1>7a, <1>8
  <2>7. (\A t \in attr.streams \ Loose : N.bufs[t] \in {0, N.frame})
          \/ N.meta > 0
    BY <1>1, <1>8
  <2> QED  BY <2>1, <2>2, <2>3, <2>4, <2>5, <2>6, <2>7 DEF Made
<1> QED  BY <1>1, <1>8, <1>9 DEF N, a, Single

\* A node of its own for the frame.
LEMMA AddKeeps ==
    ASSUME attr \in Attrs, NEW c, NEW l, NEW s, NEW f, Arrived(c, l, s, f),
             Unwanted(c, s, f),
           ~(attr.unmatched < Cardinality(Passed(c, Len(c.q) + 1))
             /\ Older(c, Len(c.q) + 1, f) = 0)
    PROVE  Kept(AddNode(c, s, f), l, {}) /\ SameRequests(c, AddNode(c, s, f))
<1> DEFINE v == Victims(c, f)
           d == Without(c, v)
           at == Spot(c, v, d, f)
           x == c.diverted = f \/ c.good = f
           a == attr.streams = {s}
           N == Fresh(s, f, x)
           q == InsertAt(d.q, at, N)
           v1 == IF x THEN 0 ELSE d.diverted
           v2 == IF a THEN f + attr.frameSkip ELSE d.expected
           v3 == IF a THEN d.match_cnt + 1 ELSE d.match_cnt
           e == [d EXCEPT !.q = q, !.diverted = v1, !.expected
             = v2, !.match_cnt = v3]
<1>0. /\ s \in attr.streams /\ f \in Frames
           /\ l \in [attr.streams -> 0 .. attr.frames]
      /\ l[s] = f /\ x \in BOOLEAN /\ c \in Channel /\ a \in BOOLEAN
  BY DEF Arrived, Kept, Typed
<1>1. Room(c, d, l, s, f, at)
  <2>1. v = Victims(c, f) /\ d = Without(c, v) /\ at = Spot(c, v, d, f)
    OBVIOUS
  <2> HIDE DEF v, d, at
  <2> QED  BY <2>1, RoomIs
<1>1a. /\ Orderly(d, l, {<<s, f>>}) /\ SameRequests(c, d) /\ d.match_cnt
            = c.match_cnt
       /\ \A k \in 1 .. Len(d.q) : d.q[k].matched <=> k <= c.match_cnt
       /\ c.match_cnt <= Len(d.q) /\ Len(d.q) <= c.match_cnt + attr.unmatched
       /\ at \in 1 .. Len(d.q) + 1 /\ c.match_cnt < at /\ Parted(d.q, at, f)
       /\ \A t \in attr.streams : attr.streams = {t} => Len(d.q) = c.match_cnt
  <2> HIDE DEF v, d, at
  <2> QED  BY <1>1 DEF Room
<1>2. AddNode(c, s, f) = e
  BY DEF AddNode, Spot, Fresh
<1>3. /\ N \in Node /\ Made(N) /\ N.frame = f
      /\ Single(N, s, f) /\ (N.matched <=> a)
  <2> HIDE DEF x
  <2> QED  BY <1>0, FreshIs
<1>4. d \in Channel /\ d.q \in Seq(Node) /\ Len(d.q) \in Nat
        /\ c.match_cnt \in Nat
      /\ attr.unmatched \in Nat /\ attr.frameSkip \in Nat /\ f \in Nat
  <2>1. d \in Channel
    BY <1>1a DEF Orderly, Typed
  <2>2. c.match_cnt \in Nat
    BY HeadIs DEF Arrived
  <2>3. d.q \in Seq(Node)
    <3> HIDE DEF d
    <3> QED  BY <2>1, ChannelIs
  <2> HIDE DEF d
  <2> QED  BY <1>0, <2>1, <2>2, <2>3, AttrIs DEF Frames
<1> HIDE DEF d, v, at, N, x, a
<1>5. /\ q \in Seq(Node) /\ Len(q) = Len(d.q) + 1
      /\ \A k \in 1 .. Len(d.q) + 1 : q[k] = IF k < at THEN d.q[k] ELSE IF k
           = at THEN N ELSE d.q[k - 1]
  <2> DEFINE Q == d.q
  <2>1. Q \in Seq(Node) /\ at \in 1 .. Len(Q) + 1
    BY <1>1a, <1>4
  <2> HIDE DEF Q
  <2>2. InsertAt(Q, at, N) \in Seq(Node)
          /\ Inserted(Q, at, N, InsertAt(Q, at, N))
    BY <1>3, <2>1, InsertIs
  <2> QED  BY <2>2 DEF Q, Inserted
<1>6. /\ v1 \in 0 .. DivertMod - 1 /\ v2 \in Nat /\ v3 \in Int
  <2>1. d.diverted \in 0 .. DivertMod - 1 /\ d.expected \in Nat
          /\ d.match_cnt \in Int
    BY <1>4, ChannelIs
  <2>2. v1 \in 0 .. DivertMod - 1
    BY <2>1, NumbersAssumption
  <2>3. v2 \in Nat /\ v3 \in Int
    BY <1>4, <2>1
  <2> QED  BY <2>2, <2>3
<1>7. v3 = IF a THEN c.match_cnt + 1 ELSE c.match_cnt
  BY <1>1a
<1> HIDE DEF q, v1, v2, v3, e
<1>8. q \in Queues
  BY <1>5 DEF Queues
<1>9. e \in Channel
  BY <1>4, <1>6, <1>8 DEF Channel, e
<1>10. e.q = q /\ e.match_cnt = v3 /\ e.out = d.out /\ SameRequests(d, e)
  BY <1>4 DEF Channel, e, SameRequests
<1>11. Orderly(e, l, {}) /\ Len(e.q) = Len(d.q) + 1
  <2>1. e.q = InsertAt(d.q, at, N)
    BY <1>10 DEF q
  <2>2. Parted(d.q, at, f) /\ Single(N, s, f)
    BY <1>1a, <1>3
  <2>3. Orderly(d, l, {<<s, f>>}) /\ at \in 1 .. Len(d.q) + 1
          /\ SameRequests(d, e) /\ e.out = d.out
    BY <1>1a, <1>10
  <2> QED  BY <1>0, <1>3, <1>9, <2>1, <2>2, <2>3, InsertKeeps
<1>12. Lined(e)
  <2>1. CASE a
    <3>1. Len(d.q) = c.match_cnt
      BY <1>0, <1>1a, <2>1 DEF a
    <3>2. at = c.match_cnt + 1 /\ v3 = c.match_cnt + 1 /\ Len(q)
            = c.match_cnt + 1 /\ at \in Nat
      BY <1>1a, <1>4, <1>5, <1>7, <2>1, <3>1
    <3>3. ASSUME NEW k \in 1 .. Len(q) PROVE q[k].matched
      <4>1. CASE k < at
        <5>1. k \in 1 .. Len(d.q) /\ k <= c.match_cnt /\ q[k] = d.q[k]
          BY <1>4, <1>5, <3>1, <3>2, <4>1
        <5> QED  BY <1>1a, <5>1
      <4>2. CASE ~(k < at)
        <5>1. k = at /\ q[k] = N
          BY <1>4, <1>5, <3>2, <4>2
        <5> QED  BY <1>3, <2>1, <5>1
      <4> QED  BY <4>1, <4>2
    <3>4. e.match_cnt \in 0 .. Len(e.q) /\ Len(e.q) = e.match_cnt
      BY <1>4, <1>10, <3>2
    <3>5. \A i \in 1 .. Len(e.q) : i <= e.match_cnt
      BY <3>4
    <3>6. Len(e.q) <= e.match_cnt + attr.unmatched + 1
      BY <1>4, <3>4
    <3>7. \A i \in 1 .. Len(e.q) : e.q[i].matched <=> i <= e.match_cnt
      BY <1>10, <3>3, <3>5
    <3> QED  BY <3>4, <3>6, <3>7 DEF Lined
  <2>2. CASE ~a
    <3>1. v3 = c.match_cnt /\ Len(q) = Len(d.q) + 1 /\ at \in Nat
      BY <1>1a, <1>4, <1>5, <1>7, <2>2
    <3>2. ASSUME NEW k \in 1 .. Len(q) PROVE q[k].matched <=> k <= c.match_cnt
      <4>1. CASE k < at
        <5>1. k \in 1 .. Len(d.q) /\ q[k] = d.q[k]
          BY <1>1a, <1>4, <1>5, <4>1
        <5> QED  BY <1>1a, <5>1
      <4>2. CASE k = at
        <5>1. q[k] = N /\ ~(k <= c.match_cnt)
          BY <1>1a, <1>4, <1>5, <4>2, <3>1
        <5> QED  BY <1>3, <2>2, <5>1
      <4>3. CASE k > at
        <5> DEFINE m == c.match_cnt
                   n == Len(d.q)
        <5>1. m \in Nat /\ n \in Nat /\ at \in Nat /\ m < at /\ at <= n + 1
                /\ 1 <= at
              /\ k \in 1 .. n + 1 /\ k > at
          BY <1>1a, <1>4, <3>1, <4>3
        <5>2. q[k] = d.q[k - 1]
          <6>1. k \in 1 .. n + 1 /\ ~(k < at) /\ k # at
            <7> HIDE DEF n, m
            <7> QED  BY <5>1
          <6> QED  BY <1>5, <6>1
        <5>3. k - 1 \in 1 .. n /\ ~(k - 1 <= m) /\ ~(k <= m)
          <6> HIDE DEF n, m
          <6> QED  BY <5>1
        <5> QED  BY <1>1a, <5>2, <5>3
      <4> QED  BY <3>1, <4>1, <4>2, <4>3
    <3>3. e.match_cnt \in 0 .. Len(e.q)
            /\ Len(e.q) <= e.match_cnt + attr.unmatched + 1
      BY <1>1a, <1>4, <1>10, <3>1
    <3>4. ASSUME NEW t \in attr.streams, attr.streams = {t} PROVE FALSE
      BY <1>0, <2>2, <3>4 DEF a
    <3> QED  BY <1>10, <3>1, <3>2, <3>3, <3>4 DEF Lined
  <2> QED  BY <2>1, <2>2
<1>13. Kept(e, l, {})
  BY <1>11, <1>12, OrderlyIs
<1>14. SameRequests(c, e)
  BY <1>1a, <1>10, SameRequestsTwice
<1> QED  BY <1>2, <1>13, <1>14

\* mm_channel_superbuf_comp_and_enqueue: wherever the frame goes, the queue
\* stays in order and no frame is lost.
LEMMA EnqueueKeeps ==
    ASSUME attr \in Attrs, NEW c, NEW l, NEW s, NEW f, Arrived(c, l, s, f)
    PROVE  Kept(Enqueue(c, s, f), l, {}) /\ SameRequests(c, Enqueue(c, s, f))
<1> DEFINE fits == {i \in DOMAIN c.q : Fits(c.q[i], s, f)}
           early == f < c.expected /\ ~Awaited(c, f)
           full == attr.unmatched < Cardinality(Passed(c, Len(c.q) + 1))
             /\ Older(c, Len(c.q) + 1, f) = 0
<1>0. DOMAIN c.q = 1 .. Len(c.q) /\ Len(c.q) \in Nat
  BY DEF Arrived, Kept, Typed, Channel, Queues
<1>1. Enqueue(c, s, f) = IF early THEN Qbuf(c, {<<s, f>>})
                         ELSE IF fits # {} THEN Fill(c, Least(fits), s, f)
                         ELSE IF full THEN Qbuf(c, {<<s, f>>})
                           ELSE AddNode(c, s, f)
  BY DEF Enqueue
<1>2. CASE early \/ (fits = {} /\ full)
  BY <1>1, <1>2, RejectKeeps
<1>3. CASE ~early /\ fits # {}
  <2> DEFINE pos == Least(fits)
  <2>1. fits \subseteq Nat /\ fits \subseteq 1 .. Len(c.q)
    BY <1>0
  <2>2. pos \in fits /\ \A j \in fits : pos <= j
    <3> HIDE DEF fits
    <3> QED  BY <1>3, <2>1, LeastIs
  <2>3. Enqueue(c, s, f) = Fill(c, pos, s, f)
    BY <1>1, <1>3
  <2> HIDE DEF pos
  <2>4. pos \in 1 .. Len(c.q) /\ Fits(c.q[pos], s, f)
    BY <1>0, <2>2
  <2>5. ASSUME NEW j \in 1 .. pos - 1 PROVE ~Fits(c.q[j], s, f)
    <3>1. j \in 1 .. Len(c.q) /\ ~(pos <= j)
      BY <1>0, <2>4
    <3>2. j \notin fits
      BY <2>2, <3>1
    <3> QED  BY <1>0, <3>1, <3>2
  <2> QED  BY <2>3, <2>4, <2>5, FillKeeps
<1>4. CASE ~early /\ fits = {} /\ ~full
  <2>1. Unwanted(c, s, f)
    BY <1>0, <1>4 DEF Unwanted
  <2>2. Enqueue(c, s, f) = AddNode(c, s, f)
    BY <1>1, <1>4
  <2> QED  BY <1>4, <2>1, <2>2, AddKeeps
<1> QED  BY <1>2, <1>3, <1>4

---------------------------------------------------------------------------
(* The inductive invariant                                                 *)

\* The attributes do not change, so neither do the sets made of them.
LEMMA FramesStay ==
    ASSUME attr' = attr
    PROVE  /\ Frames' = Frames /\ Node' = Node /\ Super' = Super /\ Low' = Low
           /\ Queues' = Queues /\ Outs' = Outs /\ Sents' = Sents /\ Loose'
                = Loose
<1>1. Frames' = Frames /\ Low' = Low
  BY DEF Frames, Low
<1>2. Loose' = Loose
  BY <1>1 DEF Loose
<1>3. Node' = Node /\ Super' = Super
  BY <1>1 DEF Node, Super
<1> QED  BY <1>1, <1>2, <1>3 DEF Queues, Outs, Sents

\* What a step must show.
LEMMA HoldsStays ==
    ASSUME attr' = attr, Holds(last', hal', ch')
    PROVE  IInv'
<1>0. /\ Frames' = Frames /\ Node' = Node /\ Super' = Super /\ Low' = Low
      /\ Queues' = Queues /\ Outs' = Outs /\ Sents' = Sents /\ Loose' = Loose
  BY FramesStay
<1>1. Channel' = Channel
  BY <1>0 DEF Channel
<1>2. Typed(ch')
  BY DEF Holds, Kept
<1>3. Typed(ch)'
  BY <1>1, <1>2 DEF Typed
<1>4. (\A i \in 1 .. Len(ch.q) : Made(ch.q[i]))'
  <2>1. \A i \in 1 .. Len(ch'.q) : Made(ch'.q[i])
    BY DEF Holds, Kept
  <2> QED  BY <1>0, <2>1 DEF Made
<1>5. Lined(ch)'
  <2>1. Lined(ch')
    BY DEF Holds, Kept
  <2> QED  BY <2>1 DEF Lined
<1>6. Sorted(ch)'
  <2>1. Sorted(ch')
    BY DEF Holds, Kept
  <2> QED  BY <2>1 DEF Sorted
<1>7. Seen(ch, last)'
  <2>1. Seen(ch', last')
    BY DEF Holds, Kept
  <2> QED  BY <1>0, <2>1 DEF Seen
<1>8. Held(ch, {})'
  <2>1. Held(ch', {})
    BY DEF Holds, Kept
  <2> QED  BY <1>0, <2>1 DEF Held
<1>9. Kept(ch, last, {})'
  BY <1>3, <1>4, <1>5, <1>6, <1>7, <1>8 DEF Kept
<1>10. Paired(ch)'
  BY DEF Holds, Paired, Shooting
<1>11. /\ attr' \in Attrs /\ last' \in [attr'.streams -> 0 .. attr'.frames]
            /\ hal' \in Hals
       /\ (hal'.at = "stopping" => ch'.pending = 0)
       /\ ch'.match_cnt <= attr'.water
  BY DEF Holds
<1>12. (Wanted(ch) => ch.match_cnt = 0)'
  BY DEF Holds, Wanted
<1> QED  BY <1>9, <1>10, <1>11, <1>12 DEF IInv, Holds, Hals

\* A new channel.
LEMMA InitHolds == Init => IInv
<1> SUFFICES ASSUME Init PROVE IInv
  OBVIOUS
<1>0. attr \in Attrs /\ attr.frames \in Nat /\ attr.pictures \in Nat
        /\ attr.water \in Nat
      /\ attr.unmatched \in Nat /\ DivertMod \in Nat \ {0}
  BY AttrIs, NumbersAssumption DEF Init
<1>1. 0 \in 0 .. attr.frames /\ 0 \in 0 .. attr.pictures
        /\ 0 \in 0 .. DivertMod - 1
  BY <1>0
<1>2. <<>> \in Queues /\ {} \in Outs /\ {} \in Sents /\ Len(<<>>) = 0
  BY DEF Queues, Outs, Sents
<1>3. ch \in Channel
  BY <1>1, <1>2 DEF Init, Channel
<1>4. /\ ch.q = <<>> /\ ch.match_cnt = 0 /\ ch.pending = 0 /\ ch.retro = 0
           /\ ch.wait = FALSE
      /\ ch.out = {} /\ ch.sent = {} /\ ch.shown = 0 /\ ch.started = FALSE
           /\ ch.stop = FALSE
      /\ ch.manual = FALSE /\ ch.burst = 0 /\ ch.zsl = FALSE
  BY DEF Init
<1>5. last \in [attr.streams -> 0 .. attr.frames] /\ \A s \in attr.streams :
        last[s] = 0
  BY <1>1 DEF Init
<1>6. hal \in Hals /\ hal.at = "idle"
  BY DEF Init, Hals
<1>7. Typed(ch)
  BY <1>3, <1>4 DEF Typed
<1>8. 1 .. Len(ch.q) = {}
  BY <1>2, <1>4
<1>9. Lined(ch) /\ Sorted(ch) /\ Seen(ch, last)
        /\ (\A i \in 1 .. Len(ch.q) : Made(ch.q[i]))
  <2>1. Len(ch.q) = 0
    BY <1>2, <1>4
  <2>2. Lined(ch)
    BY <1>0, <1>4, <1>8, <2>1 DEF Lined
  <2> QED  BY <1>4, <1>5, <1>8, <2>2 DEF Sorted, Seen
<1>10. Held(ch, {})
  BY <1>4, <1>8 DEF Held
<1>11. Paired(ch)
  <2>1. ~(ch.burst > 0) /\ ~ch.stop /\ ~ch.started
    BY <1>4
  <2>2. ch.zsl = (ch.manual \/ ch.started)
    <3>1. (ch.manual \/ ch.started) = FALSE
      BY <1>4
    <3> QED  BY <1>4, <3>1
  <2> QED  BY <2>1, <2>2 DEF Paired, Shooting
<1> QED  BY <1>0, <1>4, <1>5, <1>6, <1>7, <1>9, <1>10, <1>11 DEF IInv, Holds,
   Kept

\* What most actions come to.
LEMMA ProcessHolds ==
    ASSUME attr \in Attrs, NEW c,
             NEW l \in [attr.streams -> 0 .. attr.frames], NEW h \in Hals,
           Kept(c, l, {}), Shooting(c) \/ Stopping(c), h.at = "stopping"
             => c.pending = 0
    PROVE  Holds(l, h, Process(c)) /\ Delivered(c, Process(c))
<1>1. /\ Kept(Process(c), l, {}) /\ Paired(Process(c))
      /\ Process(c).match_cnt <= attr.water
      /\ (Wanted(Process(c)) => Process(c).match_cnt = 0)
      /\ Process(c).pending <= c.pending
      /\ Delivered(c, Process(c))
  BY ProcessKeeps
<1>2. c.pending = 0 => Process(c).pending = 0
  <2>1. Process(c) \in Channel
    BY <1>1 DEF Kept, Typed
  <2> DEFINE d == Process(c)
  <2> HIDE DEF d
  <2>2. d \in Channel /\ d.pending <= c.pending
    BY <1>1, <2>1 DEF d
  <2>3. d.pending \in Nat
    BY <2>2, ChannelIs, AttrIs
  <2>4. c.pending = 0 => d.pending = 0
    BY <2>2, <2>3
  <2> QED  BY <2>4 DEF d
<1> QED  BY <1>1, <1>2 DEF Holds

\* A frame leaves the driver.
LEMMA TakenArrives ==
    ASSUME attr \in Attrs, NEW c,
             NEW l \in [attr.streams -> 0 .. attr.frames], Kept(c, l, {}),
           NEW s \in attr.streams, NEW f \in Frames, f > l[s],
           NEW d, d = [c EXCEPT !.out = c.out \cup {<<s, f>>}],
           NEW k, k = [l EXCEPT ![s] = f]
    PROVE  Arrived(d, k, s, f) /\ SameRequests(c, d)
<1> DEFINE o == c.out \cup {<<s, f>>}
<1>0. /\ c \in Channel /\ Typed(c) /\ Lined(c) /\ Sorted(c) /\ Seen(c, l)
           /\ Held(c, {})
      /\ \A i \in 1 .. Len(c.q) : Made(c.q[i])
  BY DEF Kept, Typed
<1>1. o \in Outs
  BY <1>0, ChannelIs DEF Outs
<1>2. d = [c EXCEPT !.out = o]
  OBVIOUS
<1>3. f \in Nat /\ f \in 0 .. attr.frames
        /\ (\A t \in attr.streams : l[t] \in Nat) /\ c.shown \in Nat
  BY <1>0, AttrIs, ChannelIs DEF Frames
<1>4. /\ k \in [attr.streams -> 0 .. attr.frames] /\ k[s] = f
      /\ \A t \in attr.streams : k[t] = (IF t = s THEN f ELSE l[t])
           /\ l[t] <= k[t]
      /\ \A t \in attr.streams : k[t] \in Nat
  <2>1. \A t \in attr.streams : k[t] = (IF t = s THEN f ELSE l[t])
    OBVIOUS
  <2>2. \A t \in attr.streams : l[t] <= k[t] /\ k[t] \in Nat
    BY <1>3, <2>1
  <2>3. k \in [attr.streams -> 0 .. attr.frames]
    BY <1>3
  <2> QED  BY <2>1, <2>2, <2>3
<1> HIDE DEF o
<1>5. d \in Channel
  BY <1>0, <1>1, <1>2 DEF Channel
<1>6. d.q = c.q /\ d.match_cnt = c.match_cnt /\ d.out = o /\ SameRequests(c, d)
  BY <1>0, <1>2 DEF Channel, SameRequests
<1>7. d.sent = c.sent /\ d.shown = c.shown
  BY <1>6 DEF SameRequests
<1>8. Typed(d)
  BY <1>0, <1>5, <1>6 DEF Typed, SameRequests
<1>9. Lined(d) /\ Sorted(d) /\ (\A i \in 1 .. Len(d.q) : Made(d.q[i]))
  BY <1>0, <1>6, <1>7 DEF Lined, Sorted
<1>10. Seen(d, k)
  <2>1. ASSUME NEW i \in 1 .. Len(c.q), NEW t \in attr.streams
                 PROVE c.q[i].bufs[t] <= k[t]
    <3>1. c.q[i].bufs[t] \in Nat
      BY <1>0, NodeIs, AttrIs
    <3>2. c.q[i].bufs[t] <= l[t]
      BY <1>0 DEF Seen
    <3> QED  BY <1>3, <1>4, <3>1, <3>2
  <2>2. \A t \in attr.streams : c.shown <= k[t]
    BY <1>0, <1>3, <1>4 DEF Seen
  <2>3. ASSUME NEW t \in attr.streams, NEW g \in Frames, <<t, g>> \in o
                 PROVE g <= k[t]
    <3>1. CASE <<t, g>> \in c.out
      <4>1. g <= l[t] /\ g \in Nat
        BY <1>0, <3>1, AttrIs DEF Seen, Frames
      <4> QED  BY <1>3, <1>4, <4>1
    <3>2. CASE <<t, g>> \notin c.out
      BY <1>3, <1>4, <2>3, <3>2 DEF o
    <3> QED  BY <3>1, <3>2
  <2> QED  BY <1>6, <1>7, <2>1, <2>2, <2>3 DEF Seen
<1>11. Held(d, {<<s, f>>})
  <2>1. \A i \in 1 .. Len(c.q) : c.q[i].bufs[s] # f
    <3>1. ASSUME NEW i \in 1 .. Len(c.q) PROVE c.q[i].bufs[s] # f
      <4>1. c.q[i].bufs[s] \in Nat /\ c.q[i].bufs[s] <= l[s]
        BY <1>0, NodeIs, AttrIs DEF Seen
      <4> QED  BY <1>3, <4>1
    <3> QED  BY <3>1
  <2>2. ASSUME NEW b \in c.sent PROVE b.bufs[s] # f
    <3>1. b \in Super
      BY <1>0, ChannelIs
    <3>2. b.bufs[s] \in Frames
      BY <3>1 DEF Super
    <3>3. <<s, b.bufs[s]>> \in c.out
      BY <1>0, <3>2 DEF Held
    <3>4. b.bufs[s] <= l[s] /\ b.bufs[s] \in Nat
      BY <1>0, <3>2, <3>3, AttrIs DEF Seen, Frames
    <3> QED  BY <1>3, <3>4
  <2>3. c.shown < f
    BY <1>0, <1>3 DEF Seen
  <2>4. ASSUME NEW t \in attr.streams, NEW g \in Frames
        PROVE  <<t, g>> \in o <=> \/ \E i \in 1 .. Len(c.q) : c.q[i].bufs[t]
                                       = g
                                  \/ \E b \in c.sent : b.bufs[t] = g
                                  \/ <<t, g>> \in {<<s, f>>}
    <3>1. <<t, g>> \in c.out <=> \/ \E i \in 1 .. Len(c.q) : c.q[i].bufs[t] = g
                                 \/ \E b \in c.sent : b.bufs[t] = g
                                 \/ <<t, g>> \in {}
      BY <1>0 DEF Held
    <3>2. <<t, g>> \in o <=> <<t, g>> \in c.out \/ <<t, g>> \in {<<s, f>>}
      BY DEF o
    <3> QED  BY <3>1, <3>2
  <2>5. ASSUME NEW t \in attr.streams, NEW g \in Frames,
                 <<t, g>> \in {<<s, f>>}
        PROVE  /\ \A i \in 1 .. Len(c.q) : c.q[i].bufs[t] # g
               /\ \A b \in c.sent : b.bufs[t] # g
               /\ c.shown < g
    <3>1. t = s /\ g = f
      BY <2>5
    <3> QED  BY <2>1, <2>2, <2>3, <3>1
  <2>6. /\ \A i, j \in 1 .. Len(c.q), t \in attr.streams :
             c.q[i].bufs[t] = c.q[j].bufs[t] /\ c.q[i].bufs[t] # 0 => i = j
        /\ \A a, b \in c.sent, t \in attr.streams : a.bufs[t] = b.bufs[t] => a
             = b
        /\ \A i \in 1 .. Len(c.q), b \in c.sent, t \in attr.streams :
             c.q[i].bufs[t] # b.bufs[t]
    BY <1>0 DEF Held
  <2> QED  BY <1>6, <1>7, <2>4, <2>5, <2>6 DEF Held
<1> QED  BY <1>4, <1>6, <1>8, <1>9, <1>10, <1>11 DEF Arrived, Kept

---------------------------------------------------------------------------
(* The actions                                                             *)

\* What every action keeps.
Stays == attr' = attr /\ Holds(last', hal', ch')
  /\ (Delivered(ch, ch') \/ ch'.sent \subseteq ch.sent)

\* The parts of the invariant.
LEMMA HoldsIs ==
    ASSUME IInv
    PROVE  /\ attr \in Attrs /\ last \in [attr.streams -> 0 .. attr.frames]
                /\ hal \in Hals
           /\ (hal.at = "stopping" => ch.pending = 0)
           /\ Kept(ch, last, {}) /\ Paired(ch) /\ Shooting(ch)
                /\ ch \in Channel /\ Typed(ch)
           /\ Going(ch, last, {})
BY DEF IInv, Holds, Kept, Typed, Paired, Going

\* A delivery after steps that deliver nothing.
LEMMA SinceIs ==
    ASSUME NEW c, NEW d, NEW e, Delivered(d, e), d.sent = c.sent, d.shown
             = c.shown
    PROVE  Delivered(c, e)
BY DEF Delivered

\* The metadata of a frame.
LEMMA MetadataIs ==
    ASSUME attr \in Attrs, NEW f \in Frames, NEW m \in MetadataOf(f)
    PROVE  m \in Metadata
<1> DEFINE G == [min : Nat, max : Nat, skip : Nat]
<1>1. NoMetadata \in Metadata
  BY DEF NoMetadata, NoGood, Metadata
<1>2. attr.preps \subseteq {"none", "future", "done"}
        /\ attr.goods \subseteq G /\ Frames \subseteq Nat
  BY AttrIs DEF Frames
<1>3. \/ m = NoMetadata
      \/ \E p \in attr.preps : m = [NoMetadata EXCEPT !.prep = p]
      \/ \E g \in attr.goods : m = [NoMetadata EXCEPT !.good = g]
      \/ \E d \in Frames : m = [NoMetadata EXCEPT !.divert = d]
      \/ m = [NoMetadata EXCEPT !.crop = TRUE]
  BY DEF MetadataOf
<1> HIDE DEF G
<1>4. Metadata = [prep : {"none", "future", "done"}, good : G, divert : Nat,
        crop : BOOLEAN]
  BY DEF Metadata, G
<1>5. ASSUME NEW p \in attr.preps, m = [NoMetadata EXCEPT !.prep = p]
               PROVE m \in Metadata
  BY <1>1, <1>2, <1>4, <1>5
<1>6. ASSUME NEW g \in attr.goods, m = [NoMetadata EXCEPT !.good = g]
               PROVE m \in Metadata
  BY <1>1, <1>2, <1>4, <1>6
<1>7. ASSUME NEW d \in Frames, m = [NoMetadata EXCEPT !.divert = d]
               PROVE m \in Metadata
  BY <1>1, <1>2, <1>4, <1>7
<1>8. ASSUME m = [NoMetadata EXCEPT !.crop = TRUE] PROVE m \in Metadata
  BY <1>1, <1>4, <1>8
<1> QED  BY <1>1, <1>3, <1>5, <1>6, <1>7, <1>8

\* A frame of a stream.
LEMMA StreamFrameStays ==
    ASSUME IInv, StreamFrame
    PROVE  Stays
<1>1. PICK s \in attr.streams, f \in Frames :
        \E m \in IF s = Meta THEN MetadataOf(f)
          ELSE {NoMetadata} : Data(s, f, m)
  BY DEF StreamFrame
<1>2. PICK m \in IF s = Meta THEN MetadataOf(f)
        ELSE {NoMetadata} : Data(s, f, m)
  BY <1>1
<1>3. /\ attr \in Attrs /\ last \in [attr.streams -> 0 .. attr.frames]
           /\ hal \in Hals
      /\ (hal.at = "stopping" => ch.pending = 0)
      /\ Kept(ch, last, {}) /\ Shooting(ch) /\ ch \in Channel
  BY HoldsIs
<1> DEFINE d == [ch EXCEPT !.out = ch.out \cup {<<s, f>>}]
           k == [last EXCEPT ![s] = f]
           e == IF s = Meta THEN HandleMetadata(d, f, m) ELSE d
           g == Enqueue(e, s, f)
<1>4. f > last[s] /\ last' = k /\ ch' = Process(g) /\ attr' = attr /\ hal'
        = hal
  BY <1>2 DEF Data
<1>5. Arrived(d, k, s, f) /\ SameRequests(ch, d)
  <2>1. d = [ch EXCEPT !.out = ch.out \cup {<<s, f>>}] /\ k
          = [last EXCEPT ![s] = f]
    OBVIOUS
  <2> HIDE DEF d, k
  <2> QED  BY <1>3, <1>4, <2>1, TakenArrives
<1> HIDE DEF d, k
<1>6. Going(d, k, {<<s, f>>}) /\ Quiet(ch, d)
  BY <1>3, <1>5 DEF Going, Arrived, Shooting, SameRequests, Quiet
<1>7. Going(e, k, {<<s, f>>}) /\ Quiet(d, e)
  <2>1. CASE s = Meta
    <3>1. m \in Metadata
      BY <1>2, <1>3, <2>1, MetadataIs
    <3>2. Going(HandleMetadata(d, f, m), k, {<<s, f>>})
            /\ Quiet(d, HandleMetadata(d, f, m))
      BY <1>3, <1>6, <3>1, MetadataGoes
    <3> QED  BY <2>1, <3>2
  <2>2. CASE s # Meta
    BY <1>6, <2>2 DEF Quiet
  <2> QED  BY <2>1, <2>2
<1> HIDE DEF e
<1>8. Arrived(e, k, s, f)
  BY <1>5, <1>7 DEF Arrived, Going
<1>9. Kept(g, k, {}) /\ SameRequests(e, g)
  BY <1>3, <1>8, EnqueueKeeps
<1> HIDE DEF g
<1>10. Shooting(g)
  BY <1>7, <1>9 DEF Going, Shooting, SameRequests
<1>11. Quiet(ch, g)
  BY <1>6, <1>7, <1>9 DEF Quiet, SameRequests
<1>12. k \in [attr.streams -> 0 .. attr.frames]
  BY <1>5 DEF Arrived
<1>13. hal.at = "stopping" => g.pending = 0
  BY <1>3, <1>11 DEF Quiet
<1>14. Holds(k, hal, Process(g)) /\ Delivered(g, Process(g))
  BY <1>3, <1>9, <1>10, <1>12, <1>13, ProcessHolds
<1>15. Delivered(ch, Process(g))
  BY <1>11, <1>14, SinceIs DEF Quiet
<1> QED  BY <1>4, <1>14, <1>15 DEF Stays

\* A request or its cancellation.
LEMMA ReqStays ==
    ASSUME IInv, NEW n \in 0 .. attr.pictures, NEW r \in 0 .. attr.pictures,
             NEW h \in Hals,
           h.at = "stopping" => n = 0
    PROVE  Holds(last, h, Process(Req(ch, n, r)))
             /\ Delivered(ch, Process(Req(ch, n, r)))
<1>1. /\ attr \in Attrs /\ last \in [attr.streams -> 0 .. attr.frames]
      /\ Kept(ch, last, {}) /\ Shooting(ch)
  BY HoldsIs
<1>2. /\ Kept(Req(ch, n, r), last, {}) /\ Shooting(Req(ch, n, r))
           /\ Req(ch, n, r).pending = n
      /\ Req(ch, n, r).sent = ch.sent /\ Req(ch, n, r).shown = ch.shown
  BY <1>1, ReqGoes
<1>3. Holds(last, h, Process(Req(ch, n, r)))
        /\ Delivered(Req(ch, n, r), Process(Req(ch, n, r)))
  BY <1>1, <1>2, ProcessHolds
<1> QED  BY <1>2, <1>3, SinceIs

\* takePicture.
LEMMA RequestStays ==
    ASSUME IInv, NEW n \in 1 .. attr.pictures, NEW r \in 0 .. attr.pictures,
             Request(n, r)
    PROVE  Stays
<1>1. attr \in Attrs /\ hal \in Hals
  BY HoldsIs
<1>2. hal' = [hal EXCEPT !.at = "picture", !.requests = @ + 1] /\ ch'
        = Process(Req(ch, n, r))
      /\ attr' = attr /\ last' = last
  BY DEF Request
<1>3. hal' \in Hals /\ hal'.at = "picture"
  <2> DEFINE n1 == hal.requests + 1
  <2>1. n1 \in Nat
    BY <1>1 DEF Hals
  <2>2. hal' = [hal EXCEPT !.at = "picture", !.requests = n1]
    BY <1>2
  <2> HIDE DEF n1
  <2> QED  BY <1>1, <2>1, <2>2 DEF Hals
<1>4. n \in 0 .. attr.pictures
  BY <1>1, AttrIs
<1> QED  BY <1>2, <1>3, <1>4, ReqStays DEF Stays

\* cancelPicture.
LEMMA CancelStays ==
    ASSUME IInv, Cancel
    PROVE  Stays
<1>1. attr \in Attrs /\ hal \in Hals
  BY HoldsIs
<1>2. PICK at \in {"idle", "stopping"} : hal' = [hal EXCEPT !.at = at]
  BY DEF Cancel
<1>3. ch' = Process(Req(ch, 0, 0)) /\ attr' = attr /\ last' = last
  BY DEF Cancel
<1>4. hal' \in Hals
  BY <1>1, <1>2 DEF Hals
<1>5. 0 \in 0 .. attr.pictures
  BY <1>1, AttrIs
<1> QED  BY <1>3, <1>4, <1>5, ReqStays DEF Stays

\* A long shot starts.
LEMMA StartZslSnapshotStays ==
    ASSUME IInv, StartZslSnapshot
    PROVE  Stays
<1> DEFINE c == [ch EXCEPT !.manual = TRUE, !.zsl = TRUE]
<1>1. /\ attr \in Attrs /\ last \in [attr.streams -> 0 .. attr.frames]
           /\ hal \in Hals
      /\ Kept(ch, last, {}) /\ Shooting(ch) /\ ch \in Channel /\ Typed(ch)
  BY HoldsIs
<1>2. hal' = [hal EXCEPT !.at = "started", !.commands = @ + 1] /\ ch'
        = Process(c)
      /\ attr' = attr /\ last' = last
  BY DEF StartZslSnapshot
<1>3. hal' \in Hals /\ hal'.at = "started"
  <2> DEFINE n1 == hal.commands + 1
  <2>1. n1 \in Nat
    BY <1>1 DEF Hals
  <2>2. hal' = [hal EXCEPT !.at = "started", !.commands = n1]
    BY <1>2
  <2> HIDE DEF n1
  <2> QED  BY <1>1, <2>1, <2>2 DEF Hals
<1>4. c \in Channel
  BY <1>1 DEF Channel
<1>5. /\ Alike(ch, c) /\ c.pending = ch.pending /\ c.retro = ch.retro
           /\ c.wait = ch.wait
      /\ c.manual = TRUE /\ c.zsl = TRUE /\ c.started = ch.started /\ c.burst
           = ch.burst
      /\ c.stop = ch.stop
  BY <1>1 DEF Channel, Alike
<1> HIDE DEF c
<1>6. Typed(c)
  BY <1>1, <1>4, <1>5 DEF Typed
<1>7. Kept(c, last, {})
  BY <1>1, <1>5, <1>6, SameQueue DEF Alike
<1>8. Shooting(c)
  BY <1>1, <1>5 DEF Shooting
<1>9. Holds(last, hal', Process(c)) /\ Delivered(c, Process(c))
  BY <1>1, <1>3, <1>7, <1>8, ProcessHolds
<1>10. Delivered(ch, Process(c))
  BY <1>5, <1>9, SinceIs DEF Alike
<1> QED  BY <1>2, <1>9, <1>10 DEF Stays

\* A long shot ends: the request was cancelled before.
LEMMA StopZslSnapshotStays ==
    ASSUME IInv, StopZslSnapshot
    PROVE  Stays
<1> DEFINE c == [ch EXCEPT !.manual = FALSE, !.zsl = FALSE]
<1>1. /\ attr \in Attrs /\ last \in [attr.streams -> 0 .. attr.frames]
           /\ hal \in Hals
      /\ Kept(ch, last, {}) /\ Shooting(ch) /\ ch \in Channel /\ Typed(ch)
      /\ (hal.at = "stopping" => ch.pending = 0)
  BY HoldsIs
<1>2. hal' = [hal EXCEPT !.at = "idle"] /\ ch' = Process(c) /\ attr' = attr
        /\ last' = last
      /\ hal.at = "stopping"
  BY DEF StopZslSnapshot
<1>3. hal' \in Hals /\ hal'.at = "idle"
  BY <1>1, <1>2 DEF Hals
<1>4. c \in Channel
  BY <1>1 DEF Channel
<1>5. /\ Alike(ch, c) /\ c.pending = ch.pending /\ c.retro = ch.retro
           /\ c.wait = ch.wait
      /\ c.manual = FALSE /\ c.zsl = FALSE /\ c.started = ch.started
           /\ c.burst = ch.burst
      /\ c.stop = ch.stop
  BY <1>1 DEF Channel, Alike
<1> HIDE DEF c
<1>6. Typed(c)
  BY <1>1, <1>4, <1>5 DEF Typed
<1>7. Kept(c, last, {})
  BY <1>1, <1>5, <1>6, SameQueue DEF Alike
<1>8. Stopping(c)
  BY <1>1, <1>2, <1>5 DEF Shooting, Stopping
<1>9. Holds(last, hal', Process(c)) /\ Delivered(c, Process(c))
  BY <1>1, <1>3, <1>7, <1>8, ProcessHolds
<1>10. Delivered(ch, Process(c))
  BY <1>5, <1>9, SinceIs DEF Alike
<1> QED  BY <1>2, <1>9, <1>10 DEF Stays

\* flushSuperbuffer.
LEMMA FlushQueueStays ==
    ASSUME IInv, NEW f \in Frames, FlushQueue(f)
    PROVE  Stays
<1> DEFINE c == [ch EXCEPT !.expected = f]
           d == Flush(c)
<1>1. /\ attr \in Attrs /\ last \in [attr.streams -> 0 .. attr.frames]
           /\ hal \in Hals
      /\ Kept(ch, last, {}) /\ Paired(ch) /\ ch \in Channel /\ Typed(ch)
      /\ (hal.at = "stopping" => ch.pending = 0)
  BY HoldsIs
<1>2. hal' = [hal EXCEPT !.commands = @ + 1] /\ ch' = d /\ attr' = attr
        /\ last' = last
  BY DEF FlushQueue
<1>3. hal' \in Hals /\ hal'.at = hal.at
  BY <1>1, <1>2 DEF Hals
<1>4. f \in Nat
  BY <1>1, AttrIs DEF Frames
<1>5. c \in Channel
  BY <1>1, <1>4 DEF Channel
<1>6. /\ Alike(ch, c) /\ c.pending = ch.pending /\ c.retro = ch.retro
           /\ c.wait = ch.wait
      /\ c.manual = ch.manual /\ c.zsl = ch.zsl /\ c.started = ch.started
           /\ c.burst = ch.burst
      /\ c.stop = ch.stop
  BY <1>1 DEF Channel, Alike
<1> HIDE DEF c
<1>7. Typed(c)
  BY <1>1, <1>5, <1>6 DEF Typed
<1>8. Kept(c, last, {})
  BY <1>1, <1>6, <1>7, SameQueue DEF Alike
<1>9. Kept(d, last, {}) /\ Trimmed(c, d) /\ Len(d.q) = 0
  BY <1>1, <1>8, FlushKeeps
<1> HIDE DEF d
<1>10. d.match_cnt = 0
  BY <1>9, HeadIs
<1>11. /\ d.pending = c.pending /\ d.started = c.started /\ d.stop = c.stop
       /\ d.manual = c.manual /\ d.burst = c.burst /\ d.sent = c.sent /\ d.zsl
            = c.zsl
  BY <1>5, <1>9, TrimmedIs
<1>12. Paired(d)
  BY <1>1, <1>6, <1>11 DEF Paired, Shooting
<1>13. d.match_cnt <= attr.water
  BY <1>1, <1>10, AttrIs
<1>14. Holds(last, hal', d)
  BY <1>1, <1>3, <1>6, <1>9, <1>10, <1>11, <1>12, <1>13 DEF Holds
<1>15. d.sent \subseteq ch.sent
  BY <1>6, <1>11 DEF Alike
<1> QED  BY <1>2, <1>14, <1>15 DEF Stays

\* process_advanced_capture.
LEMMA AdvancedStays ==
    ASSUME IInv, NEW c, c = Flush(ch), NEW d \in Channel, Same(c, d), d.wait
             = c.wait,
           d.stop = c.stop, ch' = Process(d), attr' = attr, last' = last,
           hal' = [hal EXCEPT !.commands = @ + 1]
    PROVE  Stays
<1>1. /\ attr \in Attrs /\ last \in [attr.streams -> 0 .. attr.frames]
           /\ hal \in Hals
      /\ Kept(ch, last, {}) /\ ch \in Channel
           /\ (hal.at = "stopping" => ch.pending = 0)
      /\ Going(ch, last, {})
  BY HoldsIs
<1>2. hal' \in Hals /\ hal'.at = hal.at
  BY <1>1 DEF Hals
<1>3. Kept(c, last, {}) /\ Trimmed(ch, c)
  BY <1>1, FlushKeeps
<1>4. Going(c, last, {}) /\ Quiet(ch, c)
  BY <1>1, <1>3, TrimmedGoes
<1>5. Going(d, last, {}) /\ Quiet(c, d)
  BY <1>4, SameGoes DEF Going, Shooting
<1>6. hal'.at = "stopping" => d.pending = 0
  BY <1>1, <1>2, <1>4, <1>5 DEF Quiet
<1>7. Holds(last, hal', Process(d)) /\ Delivered(d, Process(d))
  BY <1>1, <1>2, <1>5, <1>6, ProcessHolds DEF Going
<1>8. Delivered(ch, Process(d))
  BY <1>4, <1>5, <1>7, SinceIs DEF Quiet
<1> QED  BY <1>7, <1>8 DEF Stays

\* A flushed channel is a channel.
LEMMA FlushIs ==
    ASSUME IInv
    PROVE  Flush(ch) \in Channel
BY HoldsIs, FlushKeeps DEF Kept, Typed

\* Bracketing on or off.
LEMMA BracketingStays ==
    ASSUME IInv, NEW s \in {"WAIT", "OFF"}, Advanced("bracketing", s)
    PROVE  Stays
<1> DEFINE c == Flush(ch)
           d == [c EXCEPT !.bracketing = s]
<1>1. c \in Channel
  BY FlushIs
<1>2. c = Flush(ch) /\ ch' = Process(d) /\ attr' = attr /\ last' = last
        /\ hal' = [hal EXCEPT !.commands = @ + 1]
  BY DEF Advanced
<1> HIDE DEF c
<1>3. d \in Channel /\ Same(c, d) /\ d.wait = c.wait /\ d.stop = c.stop
  BY <1>1 DEF Channel, Same
<1> HIDE DEF d
<1> QED  BY <1>2, <1>3, AdvancedStays

\* Zoom 1x on or off.
LEMMA ZoomStays ==
    ASSUME IInv, NEW z \in BOOLEAN, Advanced("zoom", z)
    PROVE  Stays
<1> DEFINE c == Flush(ch)
           d == [c EXCEPT !.zoom = z]
<1>1. c \in Channel
  BY FlushIs
<1>2. c = Flush(ch) /\ ch' = Process(d) /\ attr' = attr /\ last' = last
        /\ hal' = [hal EXCEPT !.commands = @ + 1]
  BY DEF Advanced
<1> HIDE DEF c
<1>3. d \in Channel /\ Same(c, d) /\ d.wait = c.wait /\ d.stop = c.stop
  BY <1>1 DEF Channel, Same
<1> HIDE DEF d
<1> QED  BY <1>2, <1>3, AdvancedStays

\* The HAL gives a super-buffer back.
LEMMA ReturnStays ==
    ASSUME IInv, NEW b \in ch.sent, Return(b)
    PROVE  Stays
<1> DEFINE x == {<<s, b.bufs[s]>> : s \in attr.streams}
           o == ch.out \ x
           r == ch.sent \ {b}
           d == [ch EXCEPT !.out = o, !.sent = r]
<1>1. /\ attr \in Attrs /\ last \in [attr.streams -> 0 .. attr.frames]
           /\ hal \in Hals
      /\ (hal.at = "stopping" => ch.pending = 0) /\ ch.match_cnt <= attr.water
      /\ (Wanted(ch) => ch.match_cnt = 0) /\ Paired(ch)
      /\ Kept(ch, last, {}) /\ ch \in Channel /\ Typed(ch)
  BY DEF IInv, Holds, Kept, Typed
<1>1a. Lined(ch) /\ Sorted(ch) /\ Seen(ch, last) /\ Held(ch, {})
       /\ \A i \in 1 .. Len(ch.q) : Made(ch.q[i])
  BY <1>1 DEF Kept
<1>2. attr' = attr /\ last' = last /\ hal' = hal
  BY DEF Return
<1>3. o \in Outs /\ r \in Sents
  BY <1>1, ChannelIs DEF Outs, Sents
<1>4. ch' = d
  <2>1. ch' = [Qbuf(ch, x) EXCEPT !.sent = Qbuf(ch, x).sent \ {b}]
    BY DEF Return
  <2>2. Qbuf(ch, x) = [ch EXCEPT !.out = o]
    BY DEF Qbuf
  <2> HIDE DEF x, o
  <2>3. Qbuf(ch, x).sent = ch.sent
    BY <1>1, <2>2 DEF Channel
  <2>4. ch' = [[ch EXCEPT !.out = o] EXCEPT !.sent = r]
    BY <2>1, <2>2, <2>3
  <2> HIDE DEF r
  <2> QED  BY <1>1, <2>4 DEF Channel
<1> HIDE DEF o, r
<1>5. d \in Channel
  BY <1>1, <1>3 DEF Channel
<1>6. /\ d.q = ch.q /\ d.match_cnt = ch.match_cnt /\ d.out = o /\ d.sent = r
      /\ d.shown = ch.shown /\ d.pending = ch.pending /\ d.retro = ch.retro
           /\ d.wait = ch.wait
      /\ d.zsl = ch.zsl /\ d.manual = ch.manual /\ d.started = ch.started
      /\ d.burst = ch.burst /\ d.stop = ch.stop
  BY <1>1 DEF Channel
<1> HIDE DEF d, x
<1>7. Typed(d)
  BY <1>1, <1>5, <1>6 DEF Typed
<1>8. Lined(d) /\ Sorted(d) /\ (\A i \in 1 .. Len(d.q) : Made(d.q[i]))
  BY <1>1a, <1>6 DEF Lined, Sorted
<1>9. Seen(d, last)
  BY <1>1a, <1>6 DEF Seen, o
<1>10. Held(d, {})
  <2>1. ASSUME NEW s \in attr.streams, NEW f \in Frames
        PROVE  <<s, f>> \in o <=> \/ \E i \in 1 .. Len(ch.q) : ch.q[i].bufs[s]
                                       = f
                                  \/ \E a \in r : a.bufs[s] = f
                                  \/ <<s, f>> \in {}
    <3>1. <<s, f>> \in ch.out <=> \/ \E i \in 1 .. Len(ch.q) : ch.q[i].bufs[s]
                                       = f
                                  \/ \E a \in ch.sent : a.bufs[s] = f
                                  \/ <<s, f>> \in {}
      BY <1>1a DEF Held
    <3>2. <<s, f>> \in x <=> b.bufs[s] = f
      BY DEF x
    <3>3. ASSUME b.bufs[s] = f
          PROVE  /\ \A i \in 1 .. Len(ch.q) : ch.q[i].bufs[s] # f
                 /\ \A a \in r : a.bufs[s] # f
      BY <1>1a, <3>3 DEF Held, r
    <3>4. (\E a \in ch.sent : a.bufs[s] = f) <=> b.bufs[s] = f
            \/ \E a \in r : a.bufs[s] = f
      BY DEF r
    <3>5. <<s, f>> \in o <=> <<s, f>> \in ch.out /\ <<s, f>> \notin x
      BY DEF o
    <3> QED  BY <3>1, <3>2, <3>3, <3>4, <3>5
  <2>2. /\ \A i, j \in 1 .. Len(ch.q), s \in attr.streams :
             ch.q[i].bufs[s] = ch.q[j].bufs[s] /\ ch.q[i].bufs[s] # 0 => i = j
        /\ \A a, e \in r, s \in attr.streams : a.bufs[s] = e.bufs[s] => a = e
        /\ \A i \in 1 .. Len(ch.q), a \in r, s \in attr.streams :
             ch.q[i].bufs[s] # a.bufs[s]
    BY <1>1a DEF Held, r
  <2> QED  BY <1>6, <2>1, <2>2 DEF Held
<1>11. Kept(d, last, {})
  BY <1>7, <1>8, <1>9, <1>10 DEF Kept
<1>12. Paired(d) /\ (Wanted(d) => d.match_cnt = 0)
  BY <1>1, <1>6 DEF Paired, Shooting, Wanted
<1>13. Holds(last, hal, d)
  BY <1>1, <1>6, <1>11, <1>12 DEF Holds
<1>14. d.sent \subseteq ch.sent
  BY <1>6 DEF r
<1> QED  BY <1>2, <1>4, <1>13, <1>14 DEF Stays

\* Every step keeps the channel.
LEMMA NextStays ==
    ASSUME IInv, Next
    PROVE  Stays
<1>1. CASE StreamFrame
  BY <1>1, StreamFrameStays
<1>2. CASE \E n \in 1 .. attr.pictures, r \in 0 .. attr.pictures :
        Request(n, r)
  BY <1>2, RequestStays
<1>3. CASE Cancel
  BY <1>3, CancelStays
<1>4. CASE StartZslSnapshot
  BY <1>4, StartZslSnapshotStays
<1>5. CASE StopZslSnapshot
  BY <1>5, StopZslSnapshotStays
<1>6. CASE \E f \in Frames : FlushQueue(f)
  BY <1>6, FlushQueueStays
<1>7. CASE \E s \in {"WAIT", "OFF"} : Advanced("bracketing", s)
  BY <1>7, BracketingStays
<1>8. CASE \E z \in BOOLEAN : Advanced("zoom", z)
  BY <1>8, ZoomStays
<1>9. CASE \E b \in ch.sent : Return(b)
  BY <1>9, ReturnStays
<1> QED  BY <1>1, <1>2, <1>3, <1>4, <1>5, <1>6, <1>7, <1>8, <1>9 DEF Next

(* The inductive invariant: whatever the streams deliver and lose,         *)
(* whatever the metadata says and the HAL asks, cancels and flushes, the   *)
(* channel is kept.                                                        *)
THEOREM ChannelKept == Spec => []IInv
<1>1. Init => IInv
  BY InitHolds
<1>2. IInv /\ [Next]_vars => IInv'
  <2>1. ASSUME IInv, Next PROVE IInv'
    BY <2>1, NextStays, HoldsStays DEF Stays
  <2>2. ASSUME IInv, UNCHANGED vars PROVE IInv'
    <3>1. attr' = attr /\ last' = last /\ hal' = hal /\ ch' = ch
      BY <2>2 DEF vars
    <3>2. Holds(last', hal', ch')
      BY <2>2, <3>1 DEF IInv
    <3> QED  BY <3>1, <3>2, HoldsStays
  <2> QED  BY <2>1, <2>2
<1> QED  BY <1>1, <1>2, PTL DEF Spec

---------------------------------------------------------------------------
(* What it gives                                                           *)

(* Type correctness: every node has a frame, pending_cnt never wraps, and  *)
(* the retroactive pictures are among the pending ones.                    *)
THEOREM ChannelTypeCorrect == Spec => []TypeOK
<1>1. IInv => TypeOK
  <2> SUFFICES ASSUME IInv PROVE TypeOK
    OBVIOUS
  <2>1. /\ attr \in Attrs /\ last \in [attr.streams -> 0 .. attr.frames]
             /\ hal \in Hals
        /\ Kept(ch, last, {}) /\ ch \in Channel /\ Typed(ch)
    BY HoldsIs
  <2>2. /\ ch.q \in Seq(Node) /\ ch.pending \in 0 .. attr.pictures
             /\ ch.retro \in 0 .. attr.pictures
        /\ ch.expected \in Nat /\ ch.good \in Nat
             /\ ch.bracketing \in {"OFF", "WAIT", "ACTIVE"}
        /\ ch.diverted \in 0 .. DivertMod - 1
    BY <2>1, ChannelIs
  <2>3. ch.match_cnt \in Nat /\ DOMAIN ch.q = 1 .. Len(ch.q)
    BY <2>1, <2>2, HeadIs
  <2>4. ch.retro \in 0 .. ch.pending
    BY <2>1, <2>2, AttrIs DEF Typed
  <2>5. ASSUME NEW i \in DOMAIN ch.q PROVE Bufs(ch.q[i]) # {}
    <3>1. i \in 1 .. Len(ch.q) /\ Made(ch.q[i])
      BY <2>1, <2>3 DEF Kept
    <3>2. ch.q[i] \in Node /\ ch.q[i].frame \in Frames
      BY <2>1, <3>1, NodeIs
    <3>3. PICK s \in attr.streams : ch.q[i].bufs[s] = ch.q[i].frame
      BY <3>1 DEF Made
    <3>4. ch.q[i].frame # 0
      BY <2>1, <3>2, AttrIs DEF Frames
    <3>5. <<s, ch.q[i].frame>> \in Bufs(ch.q[i])
      BY <3>2, <3>3, <3>4, BufsAre
    <3> QED  BY <3>5
  <2>6. hal.at \in {"idle", "started", "picture", "stopping"}
    BY <2>1 DEF Hals
  <2> QED  BY <2>1, <2>2, <2>3, <2>4, <2>5, <2>6 DEF TypeOK
<1> QED  BY <1>1, ChannelKept, PTL

\* Frame by frame, then as sets.
LEMMA HeldIsKept ==
    ASSUME IInv
    PROVE  NoBufferLost
<1> DEFINE places == [i \in DOMAIN ch.q |-> Bufs(ch.q[i])]
           B(b) == {<<s, b.bufs[s]>> : s \in attr.streams}
           held == {B(b) : b \in ch.sent}
<1>1. /\ attr \in Attrs /\ Kept(ch, last, {}) /\ ch \in Channel /\ Typed(ch)
           /\ Held(ch, {})
  BY HoldsIs DEF Kept
<1>2. /\ DOMAIN ch.q = 1 .. Len(ch.q)
           /\ ch.out \subseteq attr.streams \X Frames
      /\ ch.sent \subseteq Super
  BY <1>1, ChannelIs
<1>3. ASSUME NEW i \in DOMAIN ch.q, NEW s, NEW f
      PROVE  <<s, f>> \in Bufs(ch.q[i]) <=> s \in attr.streams /\ f
               = ch.q[i].bufs[s] /\ f # 0
  BY <1>1, <1>2, NodeIs, BufsAre
<1>4. ASSUME NEW i \in DOMAIN ch.q, NEW s \in attr.streams, ch.q[i].bufs[s] # 0
      PROVE  ch.q[i].bufs[s] \in Frames
  <2>1. ch.q[i].bufs[s] \in 0 .. attr.frames /\ attr.frames \in Nat
    BY <1>1, <1>2, NodeIs, AttrIs
  <2> QED  BY <1>4, <2>1 DEF Frames
<1>5. ASSUME NEW b \in ch.sent, NEW s \in attr.streams
               PROVE b.bufs[s] \in Frames
  BY <1>2 DEF Super
<1>6. ASSUME NEW s \in attr.streams, NEW f \in Frames
      PROVE  <<s, f>> \in ch.out <=> \/ \E i \in 1 .. Len(ch.q) :
                                          ch.q[i].bufs[s] = f
                                     \/ \E b \in ch.sent : b.bufs[s] = f
  BY <1>1 DEF Held
<1>6a. \A f \in Frames : f # 0
  BY <1>1, AttrIs DEF Frames
<1>7. \A p \in Queued(ch.q) : \E i \in DOMAIN ch.q, s \in attr.streams :
         p = <<s, ch.q[i].bufs[s]>> /\ ch.q[i].bufs[s] # 0
  <2>1. ASSUME NEW i \in DOMAIN ch.q, NEW p \in Bufs(ch.q[i])
        PROVE  \E s \in attr.streams : p = <<s, ch.q[i].bufs[s]>>
                 /\ ch.q[i].bufs[s] # 0
    <3>1. PICK s \in DOMAIN ch.q[i].bufs : p = <<s, ch.q[i].bufs[s]>>
            /\ ch.q[i].bufs[s] # 0
      BY DEF Bufs
    <3>2. DOMAIN ch.q[i].bufs = attr.streams
      BY <1>1, <1>2, NodeIs
    <3> QED  BY <3>1, <3>2
  <2> QED  BY <2>1 DEF Queued
<1>8. \A i \in DOMAIN ch.q : Bufs(ch.q[i]) \subseteq Queued(ch.q)
  BY DEF Queued
<1>9. ch.out = Queued(ch.q) \cup UNION held
  <2>1. ASSUME NEW p \in ch.out PROVE p \in Queued(ch.q) \cup UNION held
    <3>1. PICK s \in attr.streams, f \in Frames : p = <<s, f>>
      BY <1>2
    <3>2. CASE \E i \in 1 .. Len(ch.q) : ch.q[i].bufs[s] = f
      <4>1. PICK i \in DOMAIN ch.q : ch.q[i].bufs[s] = f
        BY <1>2, <3>2
      <4>2. p \in Bufs(ch.q[i])
        BY <1>3, <1>6a, <3>1, <4>1
      <4> QED  BY <1>8, <4>1, <4>2
    <3>3. CASE \E b \in ch.sent : b.bufs[s] = f
      <4>1. PICK b \in ch.sent : b.bufs[s] = f
        BY <3>3
      <4>2. p \in B(b) /\ B(b) \in held
        BY <3>1, <4>1
      <4> QED  BY <4>2
    <3> QED  BY <1>6, <3>1, <3>2, <3>3
  <2>2. ASSUME NEW p \in Queued(ch.q) PROVE p \in ch.out
    <3>1. PICK i \in DOMAIN ch.q, s \in attr.streams : p
            = <<s, ch.q[i].bufs[s]>> /\ ch.q[i].bufs[s] # 0
      BY <1>7
    <3> QED  BY <1>2, <1>4, <1>6, <3>1
  <2>3. ASSUME NEW b \in ch.sent, NEW p \in B(b) PROVE p \in ch.out
    <3>1. PICK s \in attr.streams : p = <<s, b.bufs[s]>>
      OBVIOUS
    <3> QED  BY <1>5, <1>6, <3>1
  <2> QED  BY <2>1, <2>2, <2>3
<1>10. ASSUME NEW i \in DOMAIN ch.q, NEW j \in DOMAIN ch.q, i # j
       PROVE  places[i] \cap places[j] = {}
  <2>1. ASSUME NEW p, p \in Bufs(ch.q[i]), p \in Bufs(ch.q[j]) PROVE FALSE
    <3>1. PICK s \in attr.streams : p = <<s, ch.q[i].bufs[s]>>
            /\ ch.q[i].bufs[s] # 0
      <4>1. PICK s \in DOMAIN ch.q[i].bufs : p = <<s, ch.q[i].bufs[s]>>
              /\ ch.q[i].bufs[s] # 0
        BY <2>1 DEF Bufs
      <4>2. DOMAIN ch.q[i].bufs = attr.streams
        BY <1>1, <1>2, NodeIs
      <4> QED  BY <4>1, <4>2
    <3>2. ch.q[j].bufs[s] = ch.q[i].bufs[s]
      BY <1>3, <2>1, <3>1
    <3> QED  BY <1>1, <1>2, <1>10, <3>1, <3>2 DEF Held
  <2> QED  BY <2>1
<1>11. Queued(ch.q) \cap UNION held = {}
  <2>1. ASSUME NEW p \in Queued(ch.q), NEW b \in ch.sent, p \in B(b)
                 PROVE FALSE
    <3>1. PICK i \in DOMAIN ch.q, s \in attr.streams : p
            = <<s, ch.q[i].bufs[s]>> /\ ch.q[i].bufs[s] # 0
      BY <1>7
    <3>2. b.bufs[s] = ch.q[i].bufs[s]
      BY <2>1, <3>1
    <3> QED  BY <1>1, <1>2, <3>2 DEF Held
  <2> QED  BY <2>1
<1> QED  BY <1>9, <1>10, <1>11 DEF NoBufferLost

(* No frame is lost or in two places: what left the driver is in one node  *)
(* of the queue or in one super-buffer of the HAL.                         *)
THEOREM BuffersAreKept == Spec => []NoBufferLost
<1>1. IInv => NoBufferLost
  BY HeldIsKept
<1> QED  BY <1>1, ChannelKept, PTL

\* How many nodes are matched.
LEMMA LinedIs ==
    ASSUME IInv
    PROVE  /\ {i \in DOMAIN ch.q : ch.q[i].matched} = 1 .. ch.match_cnt
           /\ Cardinality(1 .. ch.match_cnt) = ch.match_cnt
           /\ {i \in DOMAIN ch.q : ~ch.q[i].matched}
                = (ch.match_cnt + 1) .. Len(ch.q)
           /\ Cardinality((ch.match_cnt + 1) .. Len(ch.q))
                = Len(ch.q) - ch.match_cnt
           /\ DOMAIN ch.q = 1 .. Len(ch.q) /\ Len(ch.q) \in Nat
                /\ ch.match_cnt \in 0 .. Len(ch.q)
<1>1. Kept(ch, last, {}) /\ ch \in Channel /\ Lined(ch)
  BY HoldsIs DEF Kept
<1>2. DOMAIN ch.q = 1 .. Len(ch.q) /\ Len(ch.q) \in Nat
        /\ ch.match_cnt \in 0 .. Len(ch.q)
  BY <1>1, ChannelIs, HeadIs
<1>3. \A i \in 1 .. Len(ch.q) : ch.q[i].matched <=> i <= ch.match_cnt
  BY <1>1 DEF Lined
<1>4. {i \in DOMAIN ch.q : ch.q[i].matched} = 1 .. ch.match_cnt
  BY <1>2, <1>3
<1>5. {i \in DOMAIN ch.q : ~ch.q[i].matched} = (ch.match_cnt + 1) .. Len(ch.q)
  BY <1>2, <1>3
<1>6. Cardinality(1 .. ch.match_cnt) = ch.match_cnt
  BY <1>2, CountTo
<1>7. Cardinality((ch.match_cnt + 1) .. Len(ch.q)) = Len(ch.q) - ch.match_cnt
  BY <1>1, WaitingIs
<1> QED  BY <1>2, <1>4, <1>5, <1>6, <1>7

(* match_cnt counts the matched nodes, which are the first of the queue:   *)
(* the loop of mm_channel_superbuf_bufdone_overflow ends.                  *)
THEOREM MatchedComeFirst == Spec => []MatchedFirst
<1>1. ASSUME IInv PROVE MatchedFirst
  <2>1. /\ {i \in DOMAIN ch.q : ch.q[i].matched} = 1 .. ch.match_cnt
        /\ Cardinality(1 .. ch.match_cnt) = ch.match_cnt
        /\ DOMAIN ch.q = 1 .. Len(ch.q) /\ Len(ch.q) \in Nat
             /\ ch.match_cnt \in 0 .. Len(ch.q)
    BY <1>1, LinedIs
  <2>2. ASSUME NEW i \in DOMAIN ch.q, NEW j \in DOMAIN ch.q, ch.q[j].matched,
                 i < j
        PROVE  ch.q[i].matched
    <3>1. j \in 1 .. ch.match_cnt
      BY <2>1, <2>2
    <3>2. i \in 1 .. ch.match_cnt
      BY <2>1, <2>2, <3>1
    <3> QED  BY <2>1, <3>2
  <2>3. ch.match_cnt = Cardinality({i \in DOMAIN ch.q : ch.q[i].matched})
    BY <2>1
  <2> QED  BY <2>2, <2>3 DEF MatchedFirst
<1> QED  BY <1>1, ChannelKept, PTL

(* No request waits for a super-buffer that the queue has.                 *)
THEOREM RequestsAreServed == Spec => []NothingWithheld
<1>1. ASSUME IInv PROVE NothingWithheld
  <2>1. Wanted(ch) => ch.match_cnt = 0
    BY <1>1 DEF IInv, Holds
  <2>2. ch.match_cnt = 0 => 1 .. ch.match_cnt = {}
    OBVIOUS
  <2>3. {i \in DOMAIN ch.q : ch.q[i].matched} = 1 .. ch.match_cnt
    BY <1>1, LinedIs
  <2> QED  BY <2>1, <2>2, <2>3 DEF NothingWithheld
<1> QED  BY <1>1, ChannelKept, PTL

(* The daemon is in snapshot mode exactly while the channel or the HAL     *)
(* wants it, and not for a request that is over.                           *)
THEOREM SnapshotModePaired == Spec => []ZslPaired
<1>1. IInv => ZslPaired
  BY HoldsIs DEF Paired, Shooting, ZslPaired
<1> QED  BY <1>1, ChannelKept, PTL

\* The HAL allots more buffers than the queue holds: see getBufNumRequired.  A
\* channel of one stream matches every frame at once.
Allotted == \A a \in Attrs :
    /\ a.bufNum \in Nat
    /\ \/ a.water + a.unmatched + 1 < a.bufNum
       \/ a.water < a.bufNum /\ \E s \in a.streams : a.streams = {s}

\* The nodes have at most one frame of a stream each.
LEMMA BoundIs ==
    ASSUME IInv, Allotted
    PROVE  QueueBound
<1> DEFINE n == Len(ch.q)
           m == ch.match_cnt
<1>1. /\ {i \in DOMAIN ch.q : ch.q[i].matched} = 1 .. m /\ Cardinality(1 .. m)
           = m
      /\ {i \in DOMAIN ch.q : ~ch.q[i].matched} = (m + 1) .. n
      /\ Cardinality((m + 1) .. n) = n - m
      /\ DOMAIN ch.q = 1 .. n /\ n \in Nat /\ m \in 0 .. n
  BY LinedIs
<1>2. /\ attr \in Attrs /\ Lined(ch) /\ Typed(ch) /\ m <= attr.water
  BY DEF IInv, Holds, Kept
<1>3. attr.water \in Nat /\ attr.unmatched \in Nat /\ attr.bufNum \in Nat
      /\ \/ attr.water + attr.unmatched + 1 < attr.bufNum
         \/ attr.water < attr.bufNum /\ \E s \in attr.streams : attr.streams
              = {s}
  BY <1>2, AttrIs DEF Allotted
<1>4. n <= m + attr.unmatched + 1 /\ \A s \in attr.streams : attr.streams
        = {s} => m = n
  BY <1>2 DEF Lined
<1>5. n < attr.bufNum
  <2> HIDE DEF n, m
  <2> QED  BY <1>1, <1>2, <1>3, <1>4
<1>6. n - m <= attr.unmatched + 1
  <2> HIDE DEF n, m
  <2> QED  BY <1>1, <1>3, <1>4
<1>7. ASSUME NEW s \in attr.streams
      PROVE  Cardinality({b \in Queued(ch.q) : b[1] = s}) < attr.bufNum
  <2> DEFINE S == {b \in Queued(ch.q) : b[1] = s}
             g(i) == <<s, ch.q[i].bufs[s]>>
             J == {g(i) : i \in 1 .. n}
  <2>1. S \subseteq J
    <3>1. ASSUME NEW b \in Queued(ch.q), b[1] = s PROVE b \in J
      <4>1. PICK i \in DOMAIN ch.q : b \in Bufs(ch.q[i])
        BY DEF Queued
      <4>2. PICK t \in DOMAIN ch.q[i].bufs : b = <<t, ch.q[i].bufs[t]>>
        BY <4>1 DEF Bufs
      <4>3. t = s
        BY <3>1, <4>2
      <4> QED  BY <1>1, <4>1, <4>2, <4>3
    <3> QED  BY <3>1
  <2>2. IsFiniteSet(1 .. n) /\ Cardinality(1 .. n) = n
    BY <1>1, CountTo
  <2>3. IsFiniteSet(J) /\ Cardinality(J) <= n
    <3> DEFINE h == [i \in 1 .. n |-> g(i)]
    <3>1. h \in Surjection(1 .. n, J)
      <4> HIDE DEF n
      <4>1. h \in [1 .. n -> J] /\ \A t \in J : \E i \in 1 .. n : h[i] = t
        OBVIOUS
      <4> QED  BY <4>1 DEF Surjection
    <3> HIDE DEF n, h, J
    <3> QED  BY <2>2, <3>1, FS_Surjection
  <2> HIDE DEF S, J, n
  <2>4. IsFiniteSet(S) /\ Cardinality(S) <= Cardinality(J)
    BY <2>1, <2>3, FS_Subset
  <2>5. Cardinality(S) \in Nat /\ Cardinality(J) \in Nat
    BY <2>3, <2>4, FS_CardinalityType
  <2>6. Cardinality(S) < attr.bufNum
    <3> DEFINE a == Cardinality(S)
               j == Cardinality(J)
    <3>1. a \in Nat /\ j \in Nat /\ a <= j /\ j <= n
      BY <2>3, <2>4, <2>5
    <3> HIDE DEF a, j
    <3>2. a < attr.bufNum
      BY <1>1, <1>3, <1>5, <3>1
    <3> QED  BY <3>2 DEF a
  <2> QED  BY <2>6 DEF S
<1> HIDE DEF n, m
<1> QED  BY <1>1, <1>2, <1>6, <1>7 DEF QueueBound

(* The queue stays within the water mark and the unmatched frames it may   *)
(* keep; with the buffers the HAL allots, the driver keeps one of each     *)
(* stream.                                                                 *)
THEOREM QueueIsBounded == Allotted => (Spec => []QueueBound)
<1> SUFFICES ASSUME Allotted PROVE Spec => []QueueBound
  OBVIOUS
<1>1. IInv => QueueBound
  BY BoundIs
<1> QED  BY <1>1, ChannelKept, PTL

(* The HAL gets whole super-buffers, each newer than those before.         *)
THEOREM SuperBuffersInOrder == Spec => InOrder
<1> DEFINE Step ==
      \A b \in ch'.sent \ ch.sent :
          /\ \A s, t \in attr.streams \ (IF Low THEN {Meta} ELSE {}) :
               b.bufs[s] = b.bufs[t]
          /\ \A s \in attr.streams : b.bufs[s] # 0
          /\ \E s \in attr.streams : b.bufs[s] > ch.shown
               /\ b.bufs[s] <= ch'.shown
<1>1. IInv /\ [Next]_vars => Step
  <2>1. ASSUME IInv, Next PROVE Step
    <3>1. Stays
      BY <2>1, NextStays
    <3>2. CASE ch'.sent \subseteq ch.sent
      BY <3>2
    <3>3. CASE Delivered(ch, ch')
      <4>1. ASSUME NEW b \in ch'.sent \ ch.sent
            PROVE  /\ \A s, t \in attr.streams \ (IF Low THEN {Meta}
                        ELSE {}) : b.bufs[s] = b.bufs[t]
                   /\ \A s \in attr.streams : b.bufs[s] # 0
                   /\ \E s \in attr.streams : b.bufs[s] > ch.shown
                        /\ b.bufs[s] <= ch'.shown
        <5>1. Whole(b) /\ \E s \in attr.streams : ch.shown < b.bufs[s]
                /\ b.bufs[s] <= ch'.shown
          BY <3>3 DEF Delivered
        <5> QED  BY <5>1 DEF Whole, Loose
      <4> QED  BY <4>1
    <3> QED  BY <3>1, <3>2, <3>3 DEF Stays
  <2>2. ASSUME UNCHANGED vars PROVE Step
    BY <2>2 DEF vars
  <2> QED  BY <2>1, <2>2
<1>2. IInv /\ [Next]_vars => [Step]_vars
  BY <1>1
<1> QED  BY <1>2, ChannelKept, PTL DEF Spec, InOrder, Step
=============================================================================
