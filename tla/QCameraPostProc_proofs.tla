----------------------- MODULE QCameraPostProc_proofs -----------------------
(***************************************************************************)
(* TypeOK and FramesAccounted of QCameraPostProc, for all captures, all    *)
(* numbers of buffers and encoder sessions, and every order of the         *)
(* threads.                                                                *)
(*                                                                         *)
(* The inductive invariant is IInv.  What the parts are for: where the     *)
(* buffers are (Held) depends on no job being lost between two queues,     *)
(* which depends on when the data thread may run (Phases), which depends   *)
(* on START and STOP being answered before the next one (Shake).  That the *)
(* encoder's frame is not returned needs the ids of its jobs (Ids): an     *)
(* event is about a job that is neither waiting nor encoded, so that       *)
(* processJpegEvt releases another one.  And that the daemon's frames are  *)
(* those of m_ongoingPPQ, in order (Reprocessed), gives each reprocessed   *)
(* frame its own job.                                                      *)
(***************************************************************************)
EXTENDS QCameraPostProc, TLAPS, FiniteSetTheorems, SequenceTheorems, WellFoundedInduction

-----------------------------------------------------------------------------
(* The inductive invariant                                                 *)

(* The types: the queues, the commands, the events. *)
Names == {"inPP", "onPP", "inJpeg", "onJpeg"}
Commands == {"START_DATA_PROC", "STOP_DATA_PROC", DO_NEXT_JOB}
Orders == [id : Nat, frame : Frames]
Events == {SNAPSHOT_DONE} \cup [evt : {"JPEG_EVT_NOTIFY"}, id : Nat, status : {"DONE", "ERROR"}]
Stopping == {"cancel", "release", "flush_onPP", "flush_inJpeg", "flush_inPP"}

(* MmJpeg.  The manager goes on only when the encoder has a session left. *)
Slots == [id : Nat, frame : Frames \cup {Idle}]
Sessions == [active : BOOLEAN, abort : {"NONE", "INIT", "DONE"}, encoding : BOOLEAN,
             free : BOOLEAN, job : Slots]
TypedJpeg ==
    /\ todo \in Seq(Orders) /\ ongoing \in Seq(Orders)
    /\ tokens \in Nat /\ mgr \in {"asleep", "goes_on"}
    /\ session \in Sessions
    /\ omx \in {"idle", "encoding", "reported", "removed"}
    /\ client \in {"out", "abort", "destroy"} /\ jobHist \in Nat
    /\ evt_queue \in Seq(Events)
    /\ Len(ongoing) <= Concurrent
    /\ mgr = "goes_on" => Len(ongoing) < Concurrent

(* The data thread with its queues: what it does, and the steps of a stop. *)
Working == {"idle", "encode", "store", "reprocess"}
DataStates == [cmds : Seq(Commands), pc : Stopping \cup Working, active : BOOLEAN,
               job : Frames \cup {Idle}, newSess : BOOLEAN, synced : BOOLEAN]
Queues == [inPP : Seq(Jobs), onPP : Seq(Jobs), inJpeg : Seq(Jobs), onJpeg : Seq(Jobs)]
Opened == [inPP : BOOLEAN, onPP : BOOLEAN, inJpeg : BOOLEAN]
TypedData ==
    /\ q \in Queues /\ Len(q.onPP) <= PPBufs
    /\ open \in Opened
    /\ data \in DataStates

(* The channels with their callback threads, the state machine, the notifier
   and the application; a buffer comes back at most once. *)
SrcStates == [on : BOOLEAN, due : 0..sc.n, seen : 0..sc.n * sc.captures,
              pc : {"idle", "process", "send"}, frame : Frames \cup {Idle}]
RepStates == [owed : Seq(Frames), pc : {"idle", "process", "enqueue", "send"},
              frame : Frames \cup {Idle}]
Requests == {"TAKE_PICTURE", "CANCEL_PICTURE", "STOP_CAPTURE_CHANNEL"}
SmStates == [state : {"PREVIEWING", "PIC_TAKING"}, pc : {"idle", "wait", "channel", "notify"},
             for : {"none", "CANCEL_PICTURE", "SNAPSHOT_DONE"}, api_queue : Seq(Requests)]
Answers == {"jpeg", "error"}
NtfStates == [cmds : Seq(Commands), data : Seq(Answers), active : BOOLEAN,
              expected : 0..sc.n, received : Nat, pc : {"idle", "wait", "deliver"}]
AppStates == [busy : BOOLEAN, taken : 0..sc.captures, got : 0..sc.n - 1,
              cancels : 0..sc.cancels, error : BOOLEAN]
TypedRest ==
    /\ src \in SrcStates /\ rep \in RepStates
    /\ def \in {"idle", "start", "wait", "jpeg_session"}
    /\ sm \in SmStates /\ ntf \in NtfStates /\ app \in AppStates
    /\ back \in [Buffers -> 0..1] /\ kept \in SUBSET Buffers

Typed == sc \in Scenarios /\ TypedJpeg /\ TypedData /\ TypedRest

(* No more frames are asked for than the pictures taken have. *)
Takes(s) == {i \in DOMAIN s : s[i] = "TAKE_PICTURE"}
Asked ==
    /\ src.seen + src.due + sc.n * Cardinality(Takes(sm.api_queue)) <= sc.n * app.taken
    /\ sm.state = "PREVIEWING" => src.due = 0

(* START and STOP for the data thread: at most one of the two is on its way
   or being handled, the one who sent it waits, and nobody else does. *)
Ending == sm.pc \in {"wait", "channel"}
Turn(cmd) == cmd \in {"START_DATA_PROC", "STOP_DATA_PROC"}
Single(cmds) == \A i, j \in DOMAIN cmds : Turn(cmds[i]) /\ Turn(cmds[j]) => i = j
Calm(cmds) == \A i \in DOMAIN cmds : ~Turn(cmds[i])
Shake ==
    /\ Single(data.cmds)
    /\ \A i \in DOMAIN data.cmds :
         /\ data.cmds[i] = "START_DATA_PROC" => def = "wait" /\ ~data.synced
         /\ data.cmds[i] = "STOP_DATA_PROC" =>
              sm.pc = "wait" /\ ~data.synced /\ data.pc \notin Stopping
    /\ data.pc \in Stopping => sm.pc = "wait" /\ ~data.synced
    /\ data.synced => def = "wait" \/ sm.pc = "wait"
    /\ Ending => def = "idle"
    /\ def # "idle" \/ sm.pc # "idle" => sm.state = "PIC_TAKING"

(* The phases of a capture.  Until the data thread has handled START, and
   once it has handled STOP, it is at rest and there is nothing in its queues;
   the daemon has no frame while no capture goes on; the queues are closed
   after a STOP, and open while the thread is active. *)
Resting ==
    \/ sm.state = "PREVIEWING" \/ sm.pc = "channel" \/ (sm.pc = "wait" /\ data.synced)
    \/ def = "start" \/ (def = "wait" /\ ~data.synced)
Empty == q.inPP = <<>> /\ q.onPP = <<>> /\ q.inJpeg = <<>> /\ q.onJpeg = <<>>
AllOpen == open.inPP /\ open.onPP /\ open.inJpeg
AllClosed == ~open.inPP /\ ~open.onPP /\ ~open.inJpeg
AtRest ==
    Resting => /\ Empty /\ todo = <<>> /\ ~session.active /\ client = "out"
               /\ data.pc = "idle" /\ ~data.active /\ data.newSess
Waiting == def = "wait" => Empty /\ data.pc \in {"idle", "reprocess"}
NoReprocess ==
    sm.state = "PREVIEWING" \/ sm.pc = "channel" \/ def \in {"start", "wait"} =>
         rep.pc = "idle" /\ rep.owed = <<>>
Shut ==
    sm.state = "PREVIEWING" \/ (Ending /\ data.synced) \/ sm.pc = "channel" =>
         \/ AllClosed
         \/ src.seen = 0 /\ src.due = 0 /\ src.pc = "idle" /\ sm.state = "PREVIEWING"
Going ==
    /\ data.active => AllOpen /\ data.pc \notin Stopping
    /\ data.pc \in {"encode", "store", "reprocess"} => data.active
ClosedEmpty ==
    /\ ~open.inPP => q.inPP = <<>>
    /\ ~open.onPP => q.onPP = <<>>
    /\ ~open.inJpeg => q.inJpeg = <<>>
(* A stop goes through its steps in order. *)
Flushing ==
    /\ data.pc \in {"flush_onPP", "flush_inJpeg", "flush_inPP"} => q.onJpeg = <<>> /\ todo = <<>>
    /\ data.pc \in {"flush_inJpeg", "flush_inPP"} => ~open.onPP /\ client = "out" /\ ~session.active
    /\ data.pc = "flush_inPP" => ~open.inJpeg
Phases == AtRest /\ Waiting /\ NoReprocess /\ Shut /\ Going /\ ClosedEmpty /\ Flushing

(* A job of the encoder is known: it is in m_ongoingJpegQ with its id, or it
   is the last one there and its id is about to be stored. *)
Knows(s, pc, n, j) ==
    \E i \in DOMAIN s :
        /\ s[i].frame = j.frame
        /\ s[i].id = j.id \/ (pc = "store" /\ i = Len(s) /\ j.id = n)
Known(j) == Knows(q.onJpeg, data.pc, jobHist, j)
(* The session: encoding and aborted in step with the encoder and the call
   that waits for it, and gone when the data thread thinks it is. *)
Encoding ==
    /\ ~session.active => ~session.free /\ omx = "idle" /\ todo = <<>>
    /\ session.free => omx = "idle"
    /\ omx = "encoding" => session.encoding
    /\ session.encoding /\ session.abort = "NONE" => omx # "idle"
    /\ omx = "removed" => ~session.encoding
    /\ session.abort = "INIT" => omx = "encoding" /\ client # "out"
    /\ session.abort = "DONE" => omx = "idle"
    /\ client = "abort" => data.pc = "release"
    /\ client = "destroy" => data.pc = "flush_onPP" /\ omx # "encoding"
    /\ data.pc = "flush_onPP" => client = "destroy" \/ ~session.active
    /\ data.newSess => ~session.active
    /\ ~data.newSess /\ data.pc \notin {"flush_onPP", "flush_inJpeg", "flush_inPP"} => session.active
    /\ data.pc \in {"encode", "store"} =>
         q["onJpeg"] # <<>> /\ q["onJpeg"][Len(q["onJpeg"])].id = 0
    /\ \A i \in DOMAIN q["inJpeg"] : q["inJpeg"][i].id = 0
(* Ids grow along the todo queue, the encoder's job is older than those, and
   an event is about a job that is neither: who handles it releases buffers
   that nobody reads any more. *)
Ids ==
    /\ \A i \in DOMAIN todo : todo[i].id \in 1..jobHist /\ Known(todo[i])
    /\ \A i, j \in DOMAIN todo : i < j => todo[i].id < todo[j].id
    /\ omx = "encoding" =>
         /\ session.job.id \in 1..jobHist
         /\ \A i \in DOMAIN todo : session.job.id < todo[i].id
         /\ client = "out" => session.job \in Range(ongoing)
         /\ \/ Known(session.job)
            \/ client = "abort" /\ data.job = session.job.frame
    /\ \A i \in DOMAIN evt_queue : evt_queue[i].evt = "JPEG_EVT_NOTIFY" =>
         /\ evt_queue[i].id \in 1..jobHist
         /\ \A j \in DOMAIN todo : todo[j].id # evt_queue[i].id
         /\ omx = "encoding" => session.job.id # evt_queue[i].id

(* Who holds a frame between its callback and its release: a queue, or a
   thread that is between two of them. *)
Holders == Names \cup {"src", "rep", "data"}
Has(h) ==
    IF h = "src" THEN IF src.pc = "process" THEN {src.frame} ELSE {}
    ELSE IF h = "rep" THEN IF rep.pc = "enqueue" THEN {rep.frame} ELSE {}
    ELSE IF h = "data" THEN IF data.pc = "release" THEN {data.job} ELSE {}
    ELSE FramesOf(q[h])
(* The frames whose source (output) was returned or kept. *)
Gone(k) == {f \in Frames : back[<<f, k>>] = 1 \/ <<f, k>> \in kept}
HeldBy == [h \in Holders |-> Has(h)]

(* Every frame that came is with exactly one holder or gone, and an output is
   gone only with its source. *)
Distinct(s) == \A i, j \in DOMAIN s : s[i].frame = s[j].frame => i = j
Apart(H, G, O, n) ==
    /\ \A h, k \in Holders : h # k => H[h] \cap H[k] = {}
    /\ \A h \in Holders : H[h] \cap G = {} /\ H[h] \subseteq 1..n
    /\ \A f \in 1..n : f \in G \/ \E h \in Holders : f \in H[h]
    /\ G \subseteq 1..n
    /\ O \subseteq G
Once == \A b \in Buffers : back[b] = 1 => b \notin kept
Held ==
    /\ Apart(HeldBy, Gone("source"), Gone("output"), src.seen)
    /\ \A k \in Names : Distinct(q[k])
    /\ Once

(* The frames the daemon has and the one whose callback has begun; they are
   the jobs of m_ongoingPPQ, in order, as long as that is open. *)
Lent == Range(rep.owed) \cup (IF rep.pc = "process" THEN {rep.frame} ELSE {})
Due == IF rep.pc = "process" THEN 1 ELSE 0
Reprocessed ==
    /\ Lent \cap Gone("output") = {}
    /\ Lent \subseteq Gone("source") \cup Has("onPP")
    /\ \A i, j \in DOMAIN rep.owed : rep.owed[i] = rep.owed[j] => i = j
    /\ rep.pc = "process" => rep.frame \notin Range(rep.owed)
    /\ open["onPP"] =>
         /\ Len(q["onPP"]) = Len(rep.owed) + Due
         /\ \A i \in DOMAIN rep.owed : q["onPP"][i + Due].frame = rep.owed[i]
         /\ rep.pc = "process" => q["onPP"][1].frame = rep.frame
    /\ ~open["onPP"] => sm.pc = "wait" \/ (rep.owed = <<>> /\ rep.pc # "process")

(* The event that is being processed is still in the queue. *)
Telling == sm.pc = "notify" => evt_queue # <<>>

(* What the notifier knows: callbacks come after START and STOP, so when the
   capture is over a JPEG that is still queued will meet a STOP first; and
   when all JPEGs were counted the notifier waits, or will start or stop. *)
Over == sm.state = "PREVIEWING" \/ Ending
Told(n, over) ==
    /\ n.received <= n.expected
    /\ n.active => n.expected > 0
    /\ \A i, j \in DOMAIN n.cmds : i < j /\ n.cmds[i] = DO_NEXT_JOB => n.cmds[j] = DO_NEXT_JOB
    /\ over => (\E i \in DOMAIN n.cmds : n.cmds[i] = "STOP_DATA_PROC")
                \/ (\A i \in DOMAIN n.data : n.data[i] # "jpeg")
    /\ n.active /\ n.received = n.expected =>
         \/ \E i \in DOMAIN n.cmds : Turn(n.cmds[i])
         \/ n.pc = "wait" /\ ~over
Notified == Told(ntf, Over)

IInv == Typed /\ Asked /\ Shake /\ Phases /\ Encoding /\ Ids /\ Held /\ Reprocessed /\ Notified
        /\ Telling
-----------------------------------------------------------------------------
(* Sequences                                                               *)

\* t is a part of s, in the order of s.
Picks(h, t, s) ==
    /\ h \in [DOMAIN t -> DOMAIN s]
    /\ \A i, j \in DOMAIN t : i < j => h[i] < h[j]
    /\ \A i \in DOMAIN t : t[i] = s[h[i]]

\* The domain of a sequence.
LEMMA SeqIs ==
    ASSUME NEW S, NEW s \in Seq(S)
    PROVE  /\ DOMAIN s = 1 .. Len(s) /\ Len(s) \in Nat
           /\ \A i \in 1 .. Len(s) : s[i] \in S
           /\ s = <<>> <=> Len(s) = 0
OBVIOUS

\* What is left of a sequence without its head.
LEMMA TailIs ==
    ASSUME NEW S, NEW s \in Seq(S), s # <<>>
    PROVE  /\ Tail(s) \in Seq(S) /\ Len(Tail(s)) = Len(s) - 1
           /\ Len(s) \in Nat \ {0} /\ Head(s) = s[1] /\ Head(s) \in S
           /\ \A i \in 1 .. Len(s) - 1 : Tail(s)[i] = s[i + 1]
OBVIOUS

\* Or without its last element.
LEMMA FrontIs ==
    ASSUME NEW S, NEW s \in Seq(S), s # <<>>
    PROVE  /\ Front(s) \in Seq(S) /\ Len(Front(s)) = Len(s) - 1
           /\ Last(s) = s[Len(s)] /\ Last(s) \in S
           /\ \A i \in 1 .. Len(s) - 1 : Front(s)[i] = s[i]
<1>1. Len(s) \in Nat \ {0} /\ \A i \in 1 .. Len(s) : s[i] \in S
  OBVIOUS
<1>2. Front(s) = SubSeq(s, 1, Len(s) - 1)
  BY DEF Front
<1>3. /\ SubSeq(s, 1, Len(s) - 1) \in Seq(S)
      /\ Len(SubSeq(s, 1, Len(s) - 1)) = Len(s) - 1
      /\ \A i \in 1 .. Len(s) - 1 : SubSeq(s, 1, Len(s) - 1)[i] = s[i]
  <2> DEFINE n == Len(s) - 1
             f == SubSeq(s, 1, n)
  <2>1. n \in Nat /\ 1 \in Int /\ n \in Int /\ \A i \in 1 .. n : s[i] \in S
    BY <1>1
  <2> HIDE DEF n
  <2>2. /\ f \in Seq(S) /\ Len(f) = IF 1 <= n THEN n - 1 + 1 ELSE 0
        /\ \A i \in 1 .. n - 1 + 1 : f[i] = s[1 + i - 1]
    BY <2>1, SubSeqProperties
  <2> HIDE DEF f
  <2>3. f \in Seq(S) /\ Len(f) = n /\ \A i \in 1 .. n : f[i] = s[i]
    <3>1. n - 1 + 1 = n /\ \A i \in 1 .. n : 1 + i - 1 = i
      BY <2>1
    <3> QED  BY <2>1, <2>2, <3>1
  <2> QED  BY <2>3 DEF f, n
<1>4. Last(s) = s[Len(s)]
  BY DEF Last
<1> DEFINE f == SubSeq(s, 1, Len(s) - 1)
<1> HIDE DEF f
<1> QED  BY <1>1, <1>2, <1>3, <1>4 DEF f

\* With one more at the end, or at the head.
LEMMA AppendIs ==
    ASSUME NEW S, NEW s \in Seq(S), NEW e \in S
    PROVE  /\ Append(s, e) \in Seq(S) /\ Len(Append(s, e)) = Len(s) + 1
           /\ Len(s) \in Nat
           /\ \A i \in 1 .. Len(s) : Append(s, e)[i] = s[i]
           /\ Append(s, e)[Len(s) + 1] = e
OBVIOUS

\* Something in front of a sequence.
LEMMA PushIs ==
    ASSUME NEW S, NEW s \in Seq(S), NEW e \in S
    PROVE  /\ <<e>> \o s \in Seq(S) /\ Len(<<e>> \o s) = Len(s) + 1
           /\ Len(s) \in Nat
           /\ \A i \in 1 .. Len(s) : (<<e>> \o s)[i + 1] = s[i]
           /\ (<<e>> \o s)[1] = e
OBVIOUS

\* Erasing the element at a position.
LEMMA RemoveIs ==
    ASSUME NEW S, NEW s \in Seq(S), NEW i \in 1 .. Len(s)
    PROVE  /\ RemoveAt(s, i) \in Seq(S) /\ Len(RemoveAt(s, i)) = Len(s) - 1
           /\ \A j \in 1 .. Len(s) - 1 :
                 RemoveAt(s, i)[j] = IF j < i THEN s[j] ELSE s[j + 1]
<1> DEFINE p == SubSeq(s, 1, i - 1)
           t == SubSeq(s, i + 1, Len(s))
<1>1. Len(s) \in Nat /\ i \in 1 .. Len(s)
  OBVIOUS
<1>2. /\ p \in Seq(S) /\ Len(p) = i - 1
      /\ \A j \in 1 .. i - 1 : p[j] = s[j]
  BY <1>1, SubSeqProperties
<1>3. /\ t \in Seq(S) /\ Len(t) = Len(s) - i
      /\ \A j \in 1 .. Len(s) - i : t[j] = s[i + j]
  <2>1. i + 1 \in Int /\ Len(s) \in Int /\ \A k \in i + 1 .. Len(s) : s[k] \in S
    BY <1>1
  <2>2. /\ t \in Seq(S)
        /\ Len(t) = IF i + 1 <= Len(s) THEN Len(s) - (i + 1) + 1 ELSE 0
        /\ \A j \in 1 .. Len(s) - (i + 1) + 1 : t[j] = s[i + 1 + j - 1]
    BY <2>1, SubSeqProperties
  <2> HIDE DEF t
  <2>3. i \in Nat /\ Len(s) \in Nat /\ Len(s) - (i + 1) + 1 = Len(s) - i
    BY <1>1
  <2>4. ASSUME NEW j \in 1 .. Len(s) - i PROVE t[j] = s[i + j]
    <3>1. t[j] = s[i + 1 + j - 1]
      BY <2>2, <2>3
    <3>2. i + 1 + j - 1 = i + j
      BY <2>3
    <3> QED  BY <3>1, <3>2
  <2>5. Len(t) = Len(s) - i
    BY <1>1, <2>2
  <2> QED  BY <2>2, <2>4, <2>5
<1> HIDE DEF p, t
<1>4. /\ p \o t \in Seq(S) /\ Len(p \o t) = Len(s) - 1
      /\ \A j \in 1 .. Len(s) - 1 :
            (p \o t)[j] = IF j <= i - 1 THEN p[j] ELSE t[j - (i - 1)]
  <2> DEFINE u == p \o t
  <2>1. /\ u \in Seq(S) /\ Len(u) = Len(p) + Len(t)
        /\ \A j \in 1 .. Len(p) + Len(t) :
              u[j] = IF j <= Len(p) THEN p[j] ELSE t[j - Len(p)]
    BY <1>2, <1>3, ConcatProperties
  <2> HIDE DEF u
  <2>2. Len(p) + Len(t) = Len(s) - 1
    BY <1>1, <1>2, <1>3
  <2>3. /\ u \in Seq(S) /\ Len(u) = Len(s) - 1
        /\ \A j \in 1 .. Len(s) - 1 :
              u[j] = IF j <= i - 1 THEN p[j] ELSE t[j - (i - 1)]
    BY <2>1, <2>2, <1>2
  <2> QED  BY <2>3 DEF u
<1>5. \A j \in 1 .. Len(s) - 1 : (p \o t)[j] = IF j < i THEN s[j] ELSE s[j + 1]
  <2> SUFFICES ASSUME NEW j \in 1 .. Len(s) - 1
               PROVE  (p \o t)[j] = IF j < i THEN s[j] ELSE s[j + 1]
    OBVIOUS
  <2>1. CASE j < i
    BY <1>1, <1>2, <1>4, <2>1
  <2>2. CASE ~(j < i)
    BY <1>1, <1>3, <1>4, <2>2
  <2> QED  BY <2>1, <2>2
<1>6. RemoveAt(s, i) = p \o t
  BY DEF RemoveAt, p, t
<1> QED  BY <1>4, <1>5, <1>6

\* What stays keeps its order, and nothing else comes.
LEMMA RemovePicks ==
    ASSUME NEW S, NEW s \in Seq(S), NEW i \in 1 .. Len(s),
           NEW t, t = RemoveAt(s, i)
    PROVE  /\ \E h : Picks(h, t, s)
           /\ \A j \in DOMAIN s : j # i => \E k \in DOMAIN t : t[k] = s[j]
           /\ \A k \in DOMAIN t : \E j \in DOMAIN s : j # i /\ t[k] = s[j]
<1>1. /\ t \in Seq(S) /\ Len(t) = Len(s) - 1
      /\ \A j \in 1 .. Len(s) - 1 : t[j] = IF j < i THEN s[j] ELSE s[j + 1]
  BY RemoveIs
<1>2. DOMAIN s = 1 .. Len(s) /\ Len(s) \in Nat /\ DOMAIN t = 1 .. Len(s) - 1
  BY <1>1, SeqIs
<1> DEFINE n == Len(s)
<1>3. /\ DOMAIN s = 1 .. n /\ DOMAIN t = 1 .. n - 1 /\ n \in Nat /\ i \in 1 .. n
      /\ \A j \in 1 .. n - 1 : t[j] = IF j < i THEN s[j] ELSE s[j + 1]
  BY <1>1, <1>2
<1> HIDE DEF n
<1> DEFINE h == [j \in 1 .. n - 1 |-> IF j < i THEN j ELSE j + 1]
<1>4. Picks(h, t, s)
  BY <1>3 DEF Picks
<1>5. ASSUME NEW j \in 1 .. n, j # i PROVE \E k \in 1 .. n - 1 : t[k] = s[j]
  <2>1. CASE j < i
    BY <1>3, <1>5, <2>1
  <2>2. CASE i < j
    <3>1. j - 1 \in 1 .. n - 1 /\ ~(j - 1 < i) /\ j - 1 + 1 = j
      BY <1>3, <2>2
    <3> QED  BY <1>3, <3>1
  <2> QED  BY <1>3, <1>5, <2>1, <2>2
<1>6. ASSUME NEW k \in 1 .. n - 1 PROVE \E j \in 1 .. n : j # i /\ t[k] = s[j]
  <2>1. CASE k < i
    BY <1>3, <2>1
  <2>2. CASE ~(k < i)
    <3>1. k + 1 \in 1 .. n /\ k + 1 # i
      BY <1>3, <2>2
    <3> QED  BY <1>3, <2>2, <3>1
  <2> QED  BY <2>1, <2>2
<1> QED  BY <1>3, <1>4, <1>5, <1>6

\* A set of numbers has a least one.
LEMMA LeastNatural ==
    ASSUME NEW S, S \subseteq Nat, S # {}
    PROVE  \E n \in S : \A m \in S : n <= m
<1>1. PICK n \in S : \A m \in S : ~(<<m, n>> \in OpToRel(<, Nat))
  BY NatLessThanWellFounded, WFMin
<1>2. \A m \in S : ~(m < n)
  BY <1>1 DEF OpToRel
<1> QED  BY <1>2

\* mm_jpeg_queue_remove_job_by_job_id.
LEMMA WithoutIs ==
    ASSUME NEW s \in Seq([id : Nat, frame : Frames]), NEW id
    PROVE  LET t == Without(s, id) IN
           /\ t \in Seq([id : Nat, frame : Frames]) /\ Len(t) <= Len(s)
           /\ \E h : Picks(h, t, s)
           /\ \A j \in DOMAIN s : s[j].id # id => \E k \in DOMAIN t : t[k] = s[j]
           /\ t = s => \A j \in DOMAIN s : s[j].id # id
           /\ (\A i, j \in DOMAIN s : s[i].id = s[j].id => i = j)
                => \A k \in DOMAIN t : t[k].id # id
<1> DEFINE S == [id : Nat, frame : Frames]
           t == Without(s, id)
           same == {i \in DOMAIN s : s[i].id = id}
<1>0. DOMAIN s = 1 .. Len(s) /\ Len(s) \in Nat
  OBVIOUS
<1>1. CASE same = {}
  <2>1. t = s
    BY <1>1 DEF Without
  <2>2. Picks([i \in DOMAIN s |-> i], s, s)
    BY DEF Picks
  <2> QED  BY <1>0, <1>1, <2>1, <2>2
<1>2. CASE same # {}
  <2> DEFINE i == Min(same)
  <2>1. i \in same
    <3>1. \E x \in same : \A y \in same : x =< y
      <4>1. same \subseteq Nat /\ same # {}
        BY <1>0, <1>2
      <4> HIDE DEF same
      <4> QED  BY <4>1, LeastNatural
    <3> HIDE DEF same
    <3> QED  BY <3>1 DEF Min
  <2>2. i \in 1 .. Len(s) /\ s[i].id = id
    BY <1>0, <2>1
  <2>3. t = RemoveAt(s, i)
    BY <1>2 DEF Without
  <2> HIDE DEF i, t, same
  <2>4. t \in Seq(S) /\ Len(t) = Len(s) - 1
    BY <2>2, <2>3, RemoveIs
  <2>5. /\ \E h : Picks(h, t, s)
        /\ \A j \in DOMAIN s : j # i => \E k \in DOMAIN t : t[k] = s[j]
        /\ \A k \in DOMAIN t : \E j \in DOMAIN s : j # i /\ t[k] = s[j]
    <3> HIDE DEF S
    <3> QED  BY <2>2, <2>3, RemovePicks DEF S
  <2> HIDE DEF S
  <2>7. ASSUME NEW j \in DOMAIN s, s[j].id # id
        PROVE  \E k \in DOMAIN t : t[k] = s[j]
    BY <2>2, <2>5, <2>7
  <2>8. t # s
    BY <1>0, <2>4
  <2>9. ASSUME \A a, b \in DOMAIN s : s[a].id = s[b].id => a = b,
               NEW k \in DOMAIN t
        PROVE  t[k].id # id
    BY <1>0, <2>2, <2>5, <2>9
  <2>10. t \in Seq([id : Nat, frame : Frames]) /\ Len(t) <= Len(s)
    BY <1>0, <2>4 DEF S
  <2> QED  BY <1>0, <2>5, <2>7, <2>8, <2>9, <2>10 DEF t
<1> QED  BY <1>1, <1>2

\* The places of the nodes that stay: flushNodes closes the gaps.
Place(stay, i) == Cardinality({j \in stay : j <= i})

\* The places that stay, counted from the first: one for each number up to how many they are.
LEMMA PlacesAre ==
    ASSUME NEW n \in Nat, NEW stay, stay \subseteq 1 .. n
    PROVE  /\ IsFiniteSet(stay) /\ Cardinality(stay) \in Nat
           /\ \A i \in stay : Place(stay, i) \in 1 .. Cardinality(stay)
           /\ \A i, j \in stay : i < j => Place(stay, i) < Place(stay, j)
           /\ \A k \in 1 .. Cardinality(stay) : \E i \in stay : Place(stay, i) = k
<1> DEFINE upto(i) == {j \in stay : j <= i}
           m == Cardinality(stay)
           place(i) == Place(stay, i)
<1>1. IsFiniteSet(stay) /\ m \in Nat /\ stay \subseteq Nat
  <2>1. IsFiniteSet(1 .. n) /\ stay \in SUBSET (1 .. n)
    BY FS_Interval
  <2>2. IsFiniteSet(stay)
    BY <2>1, FS_Subset
  <2>3. Cardinality(stay) \in Nat
    BY <2>2, FS_CardinalityType
  <2> QED  BY <2>2, <2>3
<1>2. \A i : place(i) = Cardinality(upto(i))
  BY DEF Place
<1> HIDE DEF place
<1>3. \A i \in stay : /\ IsFiniteSet(upto(i)) /\ Cardinality(upto(i)) <= m
                      /\ Cardinality(upto(i)) \in Nat
  BY <1>1, FS_Subset, FS_CardinalityType
<1>4. ASSUME NEW i \in stay PROVE Cardinality(upto(i)) \in 1 .. m
  <2>1. i \in upto(i)
    BY <1>1
  <2>2. Cardinality(upto(i)) # 0
    BY <1>3, <2>1, FS_EmptySet
  <2> QED  BY <1>1, <1>3, <2>2
<1>5. ASSUME NEW i \in stay, NEW j \in stay, i < j
      PROVE  Cardinality(upto(i)) < Cardinality(upto(j))
  <2>1. upto(i) \subseteq upto(j) /\ j \in upto(j) /\ j \notin upto(i)
    <3>1. i \in Nat /\ j \in Nat /\ i < j
      BY <1>1, <1>5
    <3>2. ASSUME NEW k \in stay, k <= i PROVE k <= j
      BY <1>1, <3>1, <3>2
    <3>3. ~(j <= i) /\ j <= j
      BY <3>1
    <3> QED  BY <3>2, <3>3
  <2>2. IsFiniteSet(upto(j)) /\ Cardinality(upto(i)) \in Nat
          /\ Cardinality(upto(j)) \in Nat
    BY <1>3
  <2>3. upto(i) \in SUBSET upto(j) /\ upto(i) # upto(j)
    BY <2>1
  <2> HIDE DEF upto
  <2>4. Cardinality(upto(i)) <= Cardinality(upto(j))
          /\ Cardinality(upto(j)) # Cardinality(upto(i))
    BY <2>2, <2>3, FS_Subset
  <2> QED  BY <2>2, <2>4
<1>6. /\ \A i \in stay : place(i) \in 1 .. m
      /\ \A i, j \in stay : i < j => place(i) < place(j)
  BY <1>2, <1>4, <1>5
<1> HIDE DEF upto
<1> DEFINE p == [i \in stay |-> place(i)]
<1>7. p \in [stay -> 1 .. m]
  BY <1>6
<1>8. \A i, j \in stay : p[i] = p[j] => i = j
  <2>1. SUFFICES ASSUME NEW i \in stay, NEW j \in stay, p[i] = p[j], i # j
                 PROVE  FALSE
    OBVIOUS
  <2>2. i < j \/ j < i
    BY <1>1, <2>1
  <2>3. place(i) = place(j) /\ place(i) \in Nat
    BY <1>1, <1>6, <2>1
  <2> QED  BY <1>6, <2>1, <2>2, <2>3
<1>9. IsFiniteSet(1 .. m) /\ Cardinality(1 .. m) = m
  BY <1>1, FS_Interval
<1> HIDE DEF p
<1>10. p \in Injection(stay, 1 .. m)
  BY <1>7, <1>8 DEF Injection, IsInjective
<1>11. p \in Surjection(stay, 1 .. m)
  <2> HIDE DEF m
  <2>1. Cardinality(stay) = m
    BY DEF m
  <2> QED  BY <1>1, <1>9, <1>10, <2>1, FS_Injection
<1>12. \A k \in 1 .. m : \E i \in stay : p[i] = k
  BY <1>11 DEF Surjection
<1> QED  BY <1>1, <1>6, <1>12 DEF p, place

\* QCameraQueue::flushNodes.
LEMMA FlushIs ==
    ASSUME NEW T, NEW s \in Seq(T), NEW S, NEW t, t = flushNodes(s, S)
    PROVE  /\ t \in Seq(T)
           /\ \E h : Picks(h, t, s)
           /\ \A k \in DOMAIN t : \E j \in DOMAIN s \ S : t[k] = s[j]
           /\ \A j \in DOMAIN s \ S : \E k \in DOMAIN t : t[k] = s[j]
           /\ s # <<>> /\ Len(s) \notin S => t # <<>> /\ t[Len(t)] = s[Len(s)]
<1> DEFINE stay == DOMAIN s \ S
           place(i) == Place(stay, i)
           pick(k) == CHOOSE i \in stay : place(i) = k
           m == Cardinality(stay)
           n == Len(s)
<1>1. n \in Nat /\ DOMAIN s = 1 .. n /\ \A i \in 1 .. n : s[i] \in T
  OBVIOUS
<1>2. t = [k \in 1 .. m |-> s[pick(k)]]
  BY DEF flushNodes, Place
<1>3. stay \subseteq 1 .. n
  BY <1>1
<1>5. n > 0 /\ n \notin S => n \in stay
  BY <1>1
<1>6. s # <<>> <=> n > 0
  BY <1>1
<1>7. DOMAIN s \ S = stay
  OBVIOUS
<1> HIDE DEF stay, n
<1>8. /\ m \in Nat /\ \A i \in stay : place(i) \in 1 .. m
      /\ \A i, j \in stay : i < j => place(i) < place(j)
      /\ \A k \in 1 .. m : \E i \in stay : place(i) = k
  BY <1>1, <1>3, PlacesAre
<1> HIDE DEF place, m
<1>20. \A i \in stay : i \in Nat
  BY <1>1, <1>3
<1>21. \A k \in 1 .. m : k \in Nat
  BY <1>8
<1>9. \A k \in 1 .. m : pick(k) \in stay /\ place(pick(k)) = k
  BY <1>8
<1> HIDE DEF pick
<1>10. \A i \in stay : pick(place(i)) = i
  <2> SUFFICES ASSUME NEW i \in stay PROVE pick(place(i)) = i
    OBVIOUS
  <2> DEFINE j == pick(place(i))
  <2>3. place(i) \in 1 .. m
    BY <1>8
  <2>4. j \in stay /\ place(j) = place(i)
    BY <1>9, <2>3
  <2>1. j \in stay /\ place(j) = place(i) /\ i \in Nat /\ j \in Nat
          /\ place(i) \in Nat
    BY <1>20, <1>21, <2>3, <2>4
  <2> HIDE DEF j
  <2>2. ~(i < j) /\ ~(j < i)
    BY <1>8, <2>1
  <2> QED  BY <2>1, <2>2 DEF j
<1>11. ASSUME NEW i \in 1 .. m, NEW j \in 1 .. m, i < j
       PROVE  pick(i) < pick(j)
  <2>1. /\ pick(i) \in stay /\ pick(j) \in stay /\ place(pick(i)) = i
        /\ place(pick(j)) = j
    BY <1>9
  <2>3. pick(i) \in Nat /\ pick(j) \in Nat /\ i \in Nat /\ j \in Nat
    BY <1>20, <1>21, <2>1
  <2>2. ~(pick(j) < pick(i)) /\ pick(i) # pick(j)
    <3>1. pick(i) # pick(j)
      BY <1>11, <2>1, <2>3
    <3>2. ~(j < i)
      BY <1>11, <2>3
    <3> QED  BY <1>8, <2>1, <3>1, <3>2
  <2> QED  BY <2>2, <2>3
<1>12. \A k \in 1 .. m : s[pick(k)] \in T /\ pick(k) \in 1 .. n
  BY <1>1, <1>3, <1>9
<1>13. t \in Seq(T) /\ Len(t) = m /\ DOMAIN t = 1 .. m
  BY <1>2, <1>8, <1>12
<1>14. \A k \in 1 .. m : t[k] = s[pick(k)]
  BY <1>2
<1>15. Picks([k \in 1 .. m |-> pick(k)], t, s)
  BY <1>1, <1>11, <1>12, <1>13, <1>14 DEF Picks
<1>16. \A j \in stay : place(j) \in 1 .. m /\ t[place(j)] = s[j]
  BY <1>8, <1>10, <1>14
<1>17. ASSUME n > 0, n \notin S PROVE t # <<>> /\ t[Len(t)] = s[n]
  <2>1. n \in stay
    BY <1>5, <1>17
  <2>2. place(n) \in 1 .. m /\ t[place(n)] = s[n]
    BY <1>16, <2>1
  <2>3. m \in 1 .. m
    BY <1>8, <2>2
  <2>4. ~(place(n) < m)
    <3>1. SUFFICES ASSUME place(n) < m PROVE FALSE
      OBVIOUS
    <3>2. pick(place(n)) < pick(m)
      BY <1>11, <2>2, <2>3, <3>1
    <3>3. pick(place(n)) = n /\ pick(m) \in 1 .. n
      BY <1>10, <1>12, <2>1, <2>3
    <3> QED  BY <1>1, <3>2, <3>3
  <2>5. place(n) = m
    BY <1>8, <2>2, <2>4
  <2> QED  BY <1>13, <2>2, <2>3, <2>5
<1>18. s # <<>> /\ Len(s) \notin S => t # <<>> /\ t[Len(t)] = s[Len(s)]
  BY <1>6, <1>17 DEF n
<1> QED  BY <1>7, <1>9, <1>13, <1>14, <1>15, <1>16, <1>18

-----------------------------------------------------------------------------
(* Frames of queues                                                        *)

\* The frames of a queue.
LEMMA FramesAre ==
    ASSUME NEW s \in Seq(Jobs)
    PROVE  /\ FramesOf(s) \subseteq Frames
           /\ \A f : f \in FramesOf(s) <=> \E i \in DOMAIN s : f = s[i].frame
           /\ s = <<>> => FramesOf(s) = {}
           /\ s = <<>> => Distinct(s)
<1>1. \A i \in DOMAIN s : s[i] \in Jobs
  OBVIOUS
<1>2. \A j \in Jobs : j.frame \in Frames
  BY DEF Jobs
<1> QED  BY <1>1, <1>2 DEF FramesOf, Distinct

\* The frame of the first job leaves with it.
LEMMA FramesTail ==
    ASSUME NEW s \in Seq(Jobs), s # <<>>, Distinct(s)
    PROVE  /\ Distinct(Tail(s)) /\ Head(s).frame \in FramesOf(s)
           /\ FramesOf(Tail(s)) = FramesOf(s) \ {Head(s).frame}
<1> DEFINE t == Tail(s)
           n == Len(s)
<1>1. /\ t \in Seq(Jobs) /\ Len(t) = n - 1
      /\ n \in Nat \ {0} /\ Head(s) = s[1] /\ Head(s) \in Jobs
      /\ \A i \in 1 .. n - 1 : t[i] = s[i + 1]
  BY TailIs
<1>2. DOMAIN s = 1 .. n /\ DOMAIN t = 1 .. n - 1
  BY <1>1, SeqIs
<1> HIDE DEF t, n
<1>3. Distinct(t)
  <2> SUFFICES ASSUME NEW i \in 1 .. n - 1, NEW j \in 1 .. n - 1, t[i].frame = t[j].frame
               PROVE  i = j
    BY <1>2 DEF Distinct
  <2>1. i + 1 \in 1 .. n /\ j + 1 \in 1 .. n /\ t[i] = s[i + 1] /\ t[j] = s[j + 1]
    BY <1>1
  <2>2. i + 1 = j + 1
    BY <1>2, <2>1 DEF Distinct
  <2> QED  BY <1>1, <2>2
<1>4. 1 \in 1 .. n
  BY <1>1
<1>5. ASSUME NEW i \in 1 .. n - 1
      PROVE  t[i].frame \in FramesOf(s) /\ t[i].frame # s[1].frame
  <2>1. i + 1 \in 1 .. n /\ i + 1 # 1 /\ t[i] = s[i + 1]
    BY <1>1
  <2> QED  BY <1>2, <1>4, <2>1 DEF FramesOf, Distinct
<1>6. ASSUME NEW i \in 1 .. n, i # 1 PROVE s[i].frame \in FramesOf(t)
  <2>1. i - 1 \in 1 .. n - 1 /\ t[i - 1] = s[i]
    <3>1. i - 1 \in 1 .. n - 1 /\ i - 1 + 1 = i
      BY <1>1, <1>6
    <3> QED  BY <1>1, <3>1
  <2> QED  BY <1>2, <2>1 DEF FramesOf
<1>7. FramesOf(t) = FramesOf(s) \ {s[1].frame}
  <2>1. \A f \in FramesOf(t) : f \in FramesOf(s) /\ f # s[1].frame
    BY <1>2, <1>5 DEF FramesOf
  <2>2. \A f \in FramesOf(s) : f # s[1].frame => f \in FramesOf(t)
    <3> SUFFICES ASSUME NEW i \in 1 .. n, s[i].frame # s[1].frame
                 PROVE  s[i].frame \in FramesOf(t)
      BY <1>2 DEF FramesOf
    <3> QED  BY <1>6
  <2> QED  BY <2>1, <2>2
<1> QED  BY <1>1, <1>2, <1>3, <1>4, <1>7 DEF FramesOf, t

\* That of the last one likewise.
LEMMA FramesFront ==
    ASSUME NEW s \in Seq(Jobs), s # <<>>, Distinct(s)
    PROVE  /\ Distinct(Front(s)) /\ Last(s).frame \in FramesOf(s)
           /\ FramesOf(Front(s)) = FramesOf(s) \ {Last(s).frame}
<1> DEFINE t == Front(s)
           n == Len(s)
<1>1. /\ t \in Seq(Jobs) /\ Len(t) = n - 1
      /\ Last(s) = s[n]
      /\ \A i \in 1 .. n - 1 : t[i] = s[i]
  BY FrontIs
<1>2. DOMAIN s = 1 .. n /\ DOMAIN t = 1 .. n - 1 /\ n \in Nat /\ n # 0
  BY <1>1, SeqIs
<1> HIDE DEF t, n
<1>3. Distinct(t)
  BY <1>1, <1>2 DEF Distinct
<1>4. n \in 1 .. n
  BY <1>2
<1>5. ASSUME NEW i \in 1 .. n - 1
      PROVE  t[i].frame \in FramesOf(s) /\ t[i].frame # s[n].frame
  <2>1. i \in 1 .. n /\ i # n /\ t[i] = s[i]
    BY <1>1, <1>2
  <2> QED  BY <1>2, <1>4, <2>1 DEF FramesOf, Distinct
<1>6. ASSUME NEW i \in 1 .. n, i # n PROVE s[i].frame \in FramesOf(t)
  <2>1. i \in 1 .. n - 1 /\ t[i] = s[i]
    BY <1>1, <1>2, <1>6
  <2> QED  BY <1>2, <2>1 DEF FramesOf
<1>7. FramesOf(t) = FramesOf(s) \ {s[n].frame}
  <2>1. \A f \in FramesOf(t) : f \in FramesOf(s) /\ f # s[n].frame
    BY <1>2, <1>5 DEF FramesOf
  <2>2. \A f \in FramesOf(s) : f # s[n].frame => f \in FramesOf(t)
    <3> SUFFICES ASSUME NEW i \in 1 .. n, s[i].frame # s[n].frame
                 PROVE  s[i].frame \in FramesOf(t)
      BY <1>2 DEF FramesOf
    <3> QED  BY <1>6
  <2> QED  BY <2>1, <2>2
<1> QED  BY <1>1, <1>2, <1>3, <1>4, <1>7 DEF FramesOf, t

\* A job is added.
LEMMA FramesAppend ==
    ASSUME NEW s \in Seq(Jobs), NEW j \in Jobs, Distinct(s), j.frame \notin FramesOf(s)
    PROVE  /\ Distinct(Append(s, j))
           /\ FramesOf(Append(s, j)) = FramesOf(s) \cup {j.frame}
<1> DEFINE t == Append(s, j)
           n == Len(s)
<1>1. /\ t \in Seq(Jobs) /\ Len(t) = n + 1 /\ n \in Nat /\ t[n + 1] = j
      /\ \A i \in 1 .. n : t[i] = s[i]
  BY AppendIs
<1>2. DOMAIN s = 1 .. n /\ DOMAIN t = 1 .. n + 1
  BY <1>1, SeqIs
<1> HIDE DEF t, n
<1>3. \A i \in 1 .. n + 1 : i = n + 1 \/ i \in 1 .. n
  BY <1>1
<1>4. \A i \in 1 .. n : i \in 1 .. n + 1
  BY <1>1
<1>5. n + 1 \in 1 .. n + 1
  BY <1>1
<1>6. \A i \in 1 .. n : s[i].frame # j.frame
  BY <1>2 DEF FramesOf
<1>7. Distinct(t)
  <2> SUFFICES ASSUME NEW a \in 1 .. n + 1, NEW b \in 1 .. n + 1, t[a].frame = t[b].frame
               PROVE  a = b
    BY <1>2 DEF Distinct
  <2> QED  BY <1>1, <1>2, <1>3, <1>6 DEF Distinct
<1>8. FramesOf(t) = FramesOf(s) \cup {j.frame}
  BY <1>1, <1>2, <1>3, <1>4, <1>5 DEF FramesOf
<1> QED  BY <1>7, <1>8 DEF t

\* The jobs at some places are taken out.
LEMMA FramesFlush ==
    ASSUME NEW s \in Seq(Jobs), NEW S, S \subseteq DOMAIN s, Distinct(s),
           NEW t, t = flushNodes(s, S)
    PROVE  /\ Distinct(t)
           /\ FramesOf(t) = FramesOf(s) \ {s[i].frame : i \in S}
<1>1. /\ t \in Seq(Jobs)
      /\ \E h : Picks(h, t, s)
      /\ \A k \in DOMAIN t : \E j \in DOMAIN s \ S : t[k] = s[j]
      /\ \A j \in DOMAIN s \ S : \E k \in DOMAIN t : t[k] = s[j]
  BY FlushIs
<1>2. PICK h : Picks(h, t, s)
  BY <1>1
<1>3. DOMAIN t \subseteq Nat
  BY <1>1
<1>4. Distinct(t)
  <2> SUFFICES ASSUME NEW a \in DOMAIN t, NEW b \in DOMAIN t, t[a].frame = t[b].frame, a # b
               PROVE  FALSE
    BY DEF Distinct
  <2>1. h[a] = h[b] /\ h[a] \in DOMAIN s
    BY <1>2 DEF Picks, Distinct
  <2>2. a < b \/ b < a
    BY <1>3
  <2>3. h[a] \in Nat
    BY <2>1
  <2> QED  BY <1>2, <2>1, <2>2, <2>3 DEF Picks
<1>5. FramesOf(t) = FramesOf(s) \ {s[i].frame : i \in S}
  <2>1. \A f \in FramesOf(t) : f \in FramesOf(s) /\ \A i \in S : s[i].frame # f
    BY <1>1 DEF FramesOf, Distinct
  <2>2. ASSUME NEW f \in FramesOf(s), \A i \in S : s[i].frame # f PROVE f \in FramesOf(t)
    BY <1>1, <2>2 DEF FramesOf
  <2> QED  BY <2>1, <2>2
<1> QED  BY <1>4, <1>5

\* A job gets its id.
LEMMA FramesStore ==
    ASSUME NEW s \in Seq(Jobs), NEW n \in Nat, s # <<>>,
           NEW t, t = [s EXCEPT ![Len(s)].id = n]
    PROVE  /\ Distinct(s) => Distinct(t)
           /\ FramesOf(t) = FramesOf(s)
           /\ t \in Seq(Jobs) /\ Len(t) = Len(s)
           /\ \A i \in DOMAIN s : t[i].frame = s[i].frame
           /\ \A i \in DOMAIN s : t[i].id = IF i = Len(s) THEN n ELSE s[i].id
<1>1. DOMAIN t = DOMAIN s /\ DOMAIN s = 1 .. Len(s) /\ Len(s) \in Nat
  OBVIOUS
<1>2. \A i \in DOMAIN s : s[i] \in Jobs
  BY SeqIs
<1>3. ASSUME NEW i \in DOMAIN s
      PROVE  /\ t[i] \in Jobs /\ t[i].frame = s[i].frame
             /\ t[i].id = IF i = Len(s) THEN n ELSE s[i].id
  <2>1. CASE i = Len(s)
    <3>1. t[i] = [s[i] EXCEPT !.id = n]
      BY <2>1
    <3>2. s[i] \in [frame : Frames, id : Nat]
      BY <1>2 DEF Jobs
    <3> QED  BY <2>1, <3>1, <3>2 DEF Jobs
  <2>2. CASE i # Len(s)
    <3>1. t[i] = s[i]
      BY <2>2
    <3> QED  BY <1>2, <2>2, <3>1
  <2> QED  BY <2>1, <2>2
<1>4. t \in Seq(Jobs) /\ Len(t) = Len(s)
  <2>1. t \in [1 .. Len(s) -> Jobs]
    <3>1. t = [i \in DOMAIN s |-> t[i]]
      OBVIOUS
    <3> QED  BY <1>1, <1>3, <3>1
  <2> QED  BY <1>1, <2>1
<1>5. (Distinct(s) => Distinct(t)) /\ FramesOf(t) = FramesOf(s)
  BY <1>1, <1>3 DEF Distinct, FramesOf
<1> QED  BY <1>3, <1>4, <1>5

-----------------------------------------------------------------------------
(* Which step changes what                                                 *)

\* What a scenario is, and that it is never changed.
LEMMA ScenarioIs ==
    ASSUME sc \in Scenarios
    PROVE  /\ sc.n \in Nat \ {0} /\ sc.captures \in Nat \ {0} /\ sc.cancels \in Nat
           /\ sc.reproc \in BOOLEAN /\ sc.zsl \in BOOLEAN
           /\ sc.n * sc.captures \in Nat
           /\ \A f \in Frames : f \in Nat /\ f # Idle
<1>1. sc \in [zsl : BOOLEAN, reproc : BOOLEAN, n : Nat \ {0}, captures : Nat \ {0},
              cancels : Nat, fails : BOOLEAN]
  BY ScenariosAssumption
<1>2. sc.n \in Nat /\ sc.captures \in Nat
  BY <1>1
<1>3. sc.n * sc.captures \in Nat
  BY <1>2
<1>4. \A f \in Frames : f \in Nat /\ f # Idle
  BY <1>3 DEF Frames, Idle
<1> QED  BY <1>1, <1>3, <1>4

\* No step changes the scenario.
LEMMA ScenarioStays == Next => sc' = sc
<1>1. JpegThreads \/ JpegFails => sc' = sc
  BY DEF JpegThreads, JpegFails, NotPP
<1>2. SrcFrame \/ SrcThread \/ RepThread => sc' = sc
  BY DEF SrcFrame, SrcThread, processData, SrcSend, RepThread, RepFrame, FindPPJob,
         EnqueueJpeg, RepSend
<1>3. DataThread => sc' = sc
  <2>1. DataStart \/ DataStop \/ CancelJob \/ ReleaseJob \/ DestroySession => sc' = sc
    BY DEF DataStart, DataStop, CancelJob, ReleaseJob, DestroySession
  <2>2. FlushOngoingPP \/ FlushInputJpeg \/ FlushInputPP => sc' = sc
    BY DEF FlushOngoingPP, FlushInputJpeg, FlushInputPP, Flush
  <2>3. NextJob \/ NoJob_Stopped \/ encodeData \/ StoreJobId => sc' = sc
    BY DEF NextJob, NoJob_Stopped, encodeData, StoreJobId
  <2>4. EncodeRefused \/ doReprocess => sc' = sc
    BY DEF EncodeRefused, doReprocess
  <2> QED  BY <2>1, <2>2, <2>3, <2>4 DEF DataThread
<1>4. DefThread => sc' = sc
  BY DEF DefThread, StartPostproc, StartSnapshots, createJpegSession
<1>5. SmThread => sc' = sc
  <2>1. takePicture \/ CancelPicture \/ SnapshotDone \/ StopReprocess \/ StopChannel => sc' = sc
    BY DEF takePicture, CancelPicture, SnapshotDone, StopPostproc, StopReprocess, StopChannel
  <2>2. NothingToCancel \/ NothingToEnd \/ stopCaptureChannel => sc' = sc
    BY DEF NothingToCancel, NothingToEnd, stopCaptureChannel
  <2>3. processJpegEvt \/ sendDataNotify \/ JpegEvtDropped => sc' = sc
    BY DEF processJpegEvt, sendDataNotify, JpegEvtDropped
  <2> QED  BY <2>1, <2>2, <2>3 DEF SmThread
<1>6. NtfThread => sc' = sc
  BY DEF NtfThread, NtfStart, NtfStop, NtfNothing, NtfError, NtfJpeg, Delivered
<1>7. AppTake \/ AppCancel => sc' = sc
  BY DEF AppTake, AppCancel
<1> QED  BY <1>1, <1>2, <1>3, <1>4, <1>5, <1>6, <1>7 DEF Next

\* What most steps leave alone.
JpegStep ==
    \/ JpegThreads \/ JpegFails \/ CancelJob \/ DestroySession \/ encodeData
    \/ createJpegSession \/ SnapshotDone \/ NothingToEnd \/ sendDataNotify
    \/ JpegEvtDropped \/ NtfJpeg

\* The steps that change the variables of MmJpeg,
LEMMA JpegSteps == Next => JpegStep \/ UNCHANGED jpegVars
<1>1. SrcFrame \/ SrcThread \/ RepThread => UNCHANGED jpegVars
  BY DEF SrcFrame, SrcThread, processData, SrcSend, RepThread, RepFrame, FindPPJob,
         EnqueueJpeg, RepSend
<1>2. DataThread => JpegStep \/ UNCHANGED jpegVars
  BY DEF DataThread, JpegStep, DataStart, DataStop, ReleaseJob, FlushOngoingPP,
         FlushInputJpeg, FlushInputPP, Flush, NextJob, NoJob_Stopped, StoreJobId,
         EncodeRefused, doReprocess
<1>3. DefThread => JpegStep \/ UNCHANGED jpegVars
  BY DEF DefThread, JpegStep, StartPostproc, StartSnapshots
<1>4. SmThread => JpegStep \/ UNCHANGED jpegVars
  BY DEF SmThread, JpegStep, takePicture, CancelPicture, StopReprocess, StopChannel,
         NothingToCancel, stopCaptureChannel, processJpegEvt
<1>5. NtfThread => JpegStep \/ UNCHANGED jpegVars
  BY DEF NtfThread, JpegStep, NtfStart, NtfStop, NtfNothing, NtfError, Delivered
<1>6. AppTake \/ AppCancel => UNCHANGED jpegVars
  BY DEF AppTake, AppCancel
<1> QED  BY <1>1, <1>2, <1>3, <1>4, <1>5, <1>6 DEF Next, JpegStep

QStep ==
    \/ processData \/ FindPPJob \/ EnqueueJpeg \/ CancelJob \/ FlushOngoingPP
    \/ FlushInputJpeg \/ FlushInputPP \/ NextJob \/ StoreJobId \/ EncodeRefused
    \/ doReprocess \/ processJpegEvt

\* the queues,
LEMMA QSteps == Next => QStep \/ UNCHANGED q
<1>1. JpegThreads \/ JpegFails => UNCHANGED q
  BY DEF JpegThreads, JpegFails, NotPP, ppVars
<1>2. SrcFrame \/ SrcThread \/ RepThread => QStep \/ UNCHANGED q
  BY DEF SrcFrame, SrcThread, SrcSend, RepThread, RepFrame, RepSend, ppVars, QStep
<1>3. DataThread => QStep \/ UNCHANGED q
  BY DEF DataThread, QStep, DataStart, DataStop, ReleaseJob, NoJob_Stopped, DestroySession,
         encodeData
<1>4. DefThread => UNCHANGED q
  BY DEF DefThread, StartPostproc, StartSnapshots, createJpegSession
<1>5. SmThread => QStep \/ UNCHANGED q
  BY DEF SmThread, QStep, takePicture, CancelPicture, SnapshotDone, StopPostproc,
         StopReprocess, StopChannel, NothingToCancel, NothingToEnd, stopCaptureChannel,
         sendDataNotify, JpegEvtDropped, ppVars
<1>6. NtfThread => UNCHANGED q
  BY DEF NtfThread, NtfStart, NtfStop, NtfNothing, NtfError, NtfJpeg, Delivered, ppVars
<1>7. AppTake \/ AppCancel => UNCHANGED q
  BY DEF AppTake, AppCancel, ppVars
<1> QED  BY <1>1, <1>2, <1>3, <1>4, <1>5, <1>6, <1>7 DEF Next, QStep

DataStep ==
    \/ SrcSend \/ RepSend \/ DataThread \/ StartPostproc \/ StartSnapshots
    \/ createJpegSession \/ CancelPicture \/ SnapshotDone \/ StopReprocess
    \/ processJpegEvt \/ sendDataNotify

\* the data thread,
LEMMA DataSteps == Next => DataStep \/ UNCHANGED data
<1>1. JpegThreads \/ JpegFails => UNCHANGED data
  BY DEF JpegThreads, JpegFails, NotPP, ppVars
<1>2. SrcFrame \/ SrcThread \/ RepThread => DataStep \/ UNCHANGED data
  BY DEF SrcFrame, SrcThread, processData, RepThread, RepFrame, FindPPJob, EnqueueJpeg,
         ppVars, DataStep
<1>5. SmThread => DataStep \/ UNCHANGED data
  BY DEF SmThread, DataStep, takePicture, StopChannel, NothingToCancel, NothingToEnd,
         stopCaptureChannel, JpegEvtDropped, ppVars
<1>6. NtfThread => UNCHANGED data
  BY DEF NtfThread, NtfStart, NtfStop, NtfNothing, NtfError, NtfJpeg, Delivered, ppVars
<1>7. AppTake \/ AppCancel => UNCHANGED data
  BY DEF AppTake, AppCancel, ppVars
<1> QED  BY <1>1, <1>2, <1>5, <1>6, <1>7 DEF Next, DataStep, DefThread

OpenStep == DataStart \/ FlushOngoingPP \/ FlushInputJpeg \/ FlushInputPP

\* which queues are open,
LEMMA OpenSteps == Next => OpenStep \/ UNCHANGED open
<1>1. JpegThreads \/ JpegFails => UNCHANGED open
  BY DEF JpegThreads, JpegFails, NotPP, ppVars
<1>2. SrcFrame \/ SrcThread \/ RepThread => UNCHANGED open
  BY DEF SrcFrame, SrcThread, processData, SrcSend, RepThread, RepFrame, FindPPJob,
         EnqueueJpeg, RepSend, ppVars
<1>3. DataThread => OpenStep \/ UNCHANGED open
  BY DEF DataThread, OpenStep, DataStop, CancelJob, ReleaseJob, DestroySession, NextJob,
         NoJob_Stopped, encodeData, StoreJobId, EncodeRefused, doReprocess
<1>4. DefThread => UNCHANGED open
  BY DEF DefThread, StartPostproc, StartSnapshots, createJpegSession
<1>5. SmThread => UNCHANGED open
  BY DEF SmThread, takePicture, CancelPicture, SnapshotDone, StopPostproc, StopReprocess,
         StopChannel, NothingToCancel, NothingToEnd, stopCaptureChannel, processJpegEvt,
         sendDataNotify, JpegEvtDropped, ppVars
<1>6. NtfThread => UNCHANGED open
  BY DEF NtfThread, NtfStart, NtfStop, NtfNothing, NtfError, NtfJpeg, Delivered, ppVars
<1>7. AppTake \/ AppCancel => UNCHANGED open
  BY DEF AppTake, AppCancel, ppVars
<1> QED  BY <1>1, <1>2, <1>3, <1>4, <1>5, <1>6, <1>7 DEF Next

SrcStep == SrcFrame \/ processData \/ SrcSend \/ takePicture \/ StopChannel \/ stopCaptureChannel
RepStep == RepThread \/ doReprocess \/ StopReprocess

\* the two channels,
LEMMA SrcRepSteps == Next => (SrcStep \/ UNCHANGED src) /\ (RepStep \/ UNCHANGED rep)
<1>1. JpegThreads \/ JpegFails => UNCHANGED <<src, rep>>
  BY DEF JpegThreads, JpegFails, NotPP
<1>2. SrcFrame \/ SrcThread => SrcStep /\ UNCHANGED rep
  BY DEF SrcFrame, SrcThread, processData, SrcSend, SrcStep
<1>3. RepThread => RepStep /\ UNCHANGED src
  BY DEF RepThread, RepFrame, FindPPJob, EnqueueJpeg, RepSend, RepStep
<1>4. DataThread => (RepStep \/ UNCHANGED rep) /\ UNCHANGED src
  <2>1. DataStart \/ DataStop \/ CancelJob \/ ReleaseJob \/ DestroySession
          => UNCHANGED <<src, rep>>
    BY DEF DataStart, DataStop, CancelJob, ReleaseJob, DestroySession
  <2>2. FlushOngoingPP \/ FlushInputJpeg \/ FlushInputPP => UNCHANGED <<src, rep>>
    BY DEF FlushOngoingPP, FlushInputJpeg, FlushInputPP, Flush
  <2>3. NextJob \/ NoJob_Stopped \/ encodeData \/ StoreJobId => UNCHANGED <<src, rep>>
    BY DEF NextJob, NoJob_Stopped, encodeData, StoreJobId
  <2>4. EncodeRefused => UNCHANGED <<src, rep>>
    BY DEF EncodeRefused
  <2>5. doReprocess => UNCHANGED src
    BY DEF doReprocess
  <2> QED  BY <2>1, <2>2, <2>3, <2>4, <2>5 DEF DataThread, RepStep
<1>5. DefThread => UNCHANGED <<src, rep>>
  BY DEF DefThread, StartPostproc, StartSnapshots, createJpegSession
<1>6. SmThread => (SrcStep \/ UNCHANGED src) /\ (RepStep \/ UNCHANGED rep)
  <2>1. CancelPicture \/ SnapshotDone \/ NothingToCancel \/ NothingToEnd \/ processJpegEvt
          \/ sendDataNotify \/ JpegEvtDropped => UNCHANGED <<src, rep>>
    BY DEF CancelPicture, SnapshotDone, StopPostproc, NothingToCancel, NothingToEnd,
           processJpegEvt, sendDataNotify, JpegEvtDropped
  <2>2. takePicture \/ StopChannel \/ stopCaptureChannel => SrcStep /\ UNCHANGED rep
    BY DEF takePicture, StopChannel, stopCaptureChannel, SrcStep
  <2>3. StopReprocess => RepStep /\ UNCHANGED src
    BY DEF StopReprocess, RepStep
  <2> QED  BY <2>1, <2>2, <2>3 DEF SmThread
<1>7. NtfThread => UNCHANGED <<src, rep>>
  BY DEF NtfThread, NtfStart, NtfStop, NtfNothing, NtfError, NtfJpeg, Delivered
<1>8. AppTake \/ AppCancel => UNCHANGED <<src, rep>>
  BY DEF AppTake, AppCancel
<1> QED  BY <1>1, <1>2, <1>3, <1>4, <1>5, <1>6, <1>7, <1>8 DEF Next

DefStep == StartPostproc \/ StartSnapshots \/ createJpegSession \/ takePicture
SmStep ==
    \/ doReprocess \/ takePicture \/ CancelPicture \/ SnapshotDone \/ StopReprocess
    \/ StopChannel \/ NothingToCancel \/ stopCaptureChannel \/ processJpegEvt
    \/ sendDataNotify \/ AppTake \/ AppCancel

\* the deferred thread and the state machine,
LEMMA DefSmSteps == Next => (DefStep \/ UNCHANGED def) /\ (SmStep \/ UNCHANGED sm)
<1>1. JpegThreads \/ JpegFails => UNCHANGED <<def, sm>>
  BY DEF JpegThreads, JpegFails, NotPP
<1>2. SrcFrame \/ SrcThread \/ RepThread => UNCHANGED <<def, sm>>
  BY DEF SrcFrame, SrcThread, processData, SrcSend, RepThread, RepFrame, FindPPJob,
         EnqueueJpeg, RepSend
<1>3. DataThread => UNCHANGED def /\ (SmStep \/ UNCHANGED sm)
  <2>1. DataStart \/ DataStop \/ CancelJob \/ ReleaseJob \/ DestroySession
          => UNCHANGED <<def, sm>>
    BY DEF DataStart, DataStop, CancelJob, ReleaseJob, DestroySession
  <2>2. FlushOngoingPP \/ FlushInputJpeg \/ FlushInputPP => UNCHANGED <<def, sm>>
    BY DEF FlushOngoingPP, FlushInputJpeg, FlushInputPP, Flush
  <2>3. NextJob \/ NoJob_Stopped \/ encodeData \/ StoreJobId => UNCHANGED <<def, sm>>
    BY DEF NextJob, NoJob_Stopped, encodeData, StoreJobId
  <2>4. EncodeRefused => UNCHANGED <<def, sm>>
    BY DEF EncodeRefused
  <2>5. doReprocess => UNCHANGED def /\ SmStep
    BY DEF doReprocess, SmStep
  <2> QED  BY <2>1, <2>2, <2>3, <2>4, <2>5 DEF DataThread
<1>5. DefThread => DefStep /\ UNCHANGED sm
  BY DEF DefThread, StartPostproc, StartSnapshots, createJpegSession, DefStep
<1>6. SmThread => (DefStep \/ UNCHANGED def) /\ (SmStep \/ UNCHANGED sm)
  <2>1. CancelPicture \/ SnapshotDone \/ NothingToCancel \/ processJpegEvt \/ sendDataNotify
          => UNCHANGED def /\ SmStep
    BY DEF CancelPicture, SnapshotDone, StopPostproc, NothingToCancel, processJpegEvt,
           sendDataNotify, SmStep
  <2>2. takePicture => DefStep /\ SmStep
    BY DEF SmStep, DefStep
  <2>3. StopChannel \/ stopCaptureChannel \/ StopReprocess => UNCHANGED def /\ SmStep
    BY DEF StopChannel, stopCaptureChannel, StopReprocess, SmStep
  <2>4. NothingToEnd \/ JpegEvtDropped => UNCHANGED <<def, sm>>
    BY DEF NothingToEnd, JpegEvtDropped
  <2> QED  BY <2>1, <2>2, <2>3, <2>4 DEF SmThread
<1>7. NtfThread => UNCHANGED <<def, sm>>
  BY DEF NtfThread, NtfStart, NtfStop, NtfNothing, NtfError, NtfJpeg, Delivered
<1>8. AppTake \/ AppCancel => UNCHANGED def /\ SmStep
  BY DEF AppTake, AppCancel, SmStep
<1> QED  BY <1>1, <1>2, <1>3, <1>5, <1>6, <1>7, <1>8 DEF Next

NtfStep ==
    \/ EncodeRefused \/ StartSnapshots \/ CancelPicture \/ SnapshotDone \/ StopChannel
    \/ NothingToCancel \/ NothingToEnd \/ sendDataNotify \/ NtfThread
AppStep ==
    \/ StopChannel \/ NothingToCancel \/ NothingToEnd \/ NtfError \/ Delivered
    \/ AppTake \/ AppCancel

\* the notifier and the application,
LEMMA NtfAppSteps == Next => (NtfStep \/ UNCHANGED ntf) /\ (AppStep \/ UNCHANGED app)
<1>1. JpegThreads \/ JpegFails => UNCHANGED <<ntf, app>>
  BY DEF JpegThreads, JpegFails, NotPP
<1>2. SrcFrame \/ SrcThread \/ RepThread => UNCHANGED <<ntf, app>>
  BY DEF SrcFrame, SrcThread, processData, SrcSend, RepThread, RepFrame, FindPPJob,
         EnqueueJpeg, RepSend
<1>3. DataThread => UNCHANGED app /\ (NtfStep \/ UNCHANGED ntf)
  <2>1. DataStart \/ DataStop \/ CancelJob \/ ReleaseJob \/ DestroySession
          => UNCHANGED <<ntf, app>>
    BY DEF DataStart, DataStop, CancelJob, ReleaseJob, DestroySession
  <2>2. FlushOngoingPP \/ FlushInputJpeg \/ FlushInputPP => UNCHANGED <<ntf, app>>
    BY DEF FlushOngoingPP, FlushInputJpeg, FlushInputPP, Flush
  <2>3. NextJob \/ NoJob_Stopped \/ encodeData \/ StoreJobId \/ doReprocess
          => UNCHANGED <<ntf, app>>
    BY DEF NextJob, NoJob_Stopped, encodeData, StoreJobId, doReprocess
  <2>4. EncodeRefused => UNCHANGED app /\ NtfStep
    BY DEF EncodeRefused, NtfStep
  <2> QED  BY <2>1, <2>2, <2>3, <2>4 DEF DataThread
<1>5. DefThread => UNCHANGED app /\ (NtfStep \/ UNCHANGED ntf)
  BY DEF DefThread, StartPostproc, StartSnapshots, createJpegSession, NtfStep
<1>6. SmThread => (NtfStep \/ UNCHANGED ntf) /\ (AppStep \/ UNCHANGED app)
  <2>1. CancelPicture \/ SnapshotDone \/ sendDataNotify => UNCHANGED app /\ NtfStep
    BY DEF CancelPicture, SnapshotDone, StopPostproc, sendDataNotify, NtfStep
  <2>2. takePicture \/ StopReprocess \/ stopCaptureChannel \/ processJpegEvt \/ JpegEvtDropped
          => UNCHANGED <<ntf, app>>
    BY DEF takePicture, StopReprocess, stopCaptureChannel, processJpegEvt, JpegEvtDropped
  <2> QED  BY <2>1, <2>2 DEF SmThread, NtfStep, AppStep
<1>7. NtfThread => NtfStep /\ (AppStep \/ UNCHANGED app)
  BY DEF NtfThread, NtfStart, NtfStop, NtfNothing, NtfJpeg, NtfStep, AppStep
<1>8. AppTake \/ AppCancel => UNCHANGED ntf /\ AppStep
  BY DEF AppTake, AppCancel, AppStep
<1> QED  BY <1>1, <1>2, <1>3, <1>5, <1>6, <1>7, <1>8 DEF Next

BackStep ==
    \/ processData \/ FindPPJob \/ EnqueueJpeg \/ ReleaseJob \/ FlushOngoingPP
    \/ FlushInputJpeg \/ FlushInputPP \/ EncodeRefused \/ processJpegEvt

\* and the buffers that are back or kept.
LEMMA BackSteps == Next => BackStep \/ UNCHANGED <<back, kept>>
<1>1. JpegThreads \/ JpegFails => UNCHANGED <<back, kept>>
  BY DEF JpegThreads, JpegFails, NotPP
<1>2. SrcFrame \/ SrcThread \/ RepThread => BackStep \/ UNCHANGED <<back, kept>>
  BY DEF SrcFrame, SrcThread, SrcSend, RepThread, RepFrame, RepSend, BackStep
<1>3. DataThread => BackStep \/ UNCHANGED <<back, kept>>
  <2>1. DataStart \/ DataStop \/ CancelJob \/ DestroySession => UNCHANGED <<back, kept>>
    BY DEF DataStart, DataStop, CancelJob, DestroySession
  <2>3. NextJob \/ NoJob_Stopped \/ encodeData \/ StoreJobId \/ doReprocess
          => UNCHANGED <<back, kept>>
    BY DEF NextJob, NoJob_Stopped, encodeData, StoreJobId, doReprocess
  <2> QED  BY <2>1, <2>3 DEF DataThread, BackStep
<1>5. DefThread => UNCHANGED <<back, kept>>
  BY DEF DefThread, StartPostproc, StartSnapshots, createJpegSession
<1>6. SmThread => BackStep \/ UNCHANGED <<back, kept>>
  <2>1. CancelPicture \/ SnapshotDone \/ sendDataNotify \/ JpegEvtDropped
          => UNCHANGED <<back, kept>>
    BY DEF CancelPicture, SnapshotDone, StopPostproc, sendDataNotify, JpegEvtDropped
  <2>2. takePicture \/ StopReprocess \/ stopCaptureChannel => UNCHANGED <<back, kept>>
    BY DEF takePicture, StopReprocess, stopCaptureChannel
  <2>3. StopChannel \/ NothingToCancel \/ NothingToEnd => UNCHANGED <<back, kept>>
    BY DEF StopChannel, NothingToCancel, NothingToEnd
  <2> QED  BY <2>1, <2>2, <2>3 DEF SmThread, BackStep
<1>7. NtfThread => UNCHANGED <<back, kept>>
  BY DEF NtfThread, NtfStart, NtfStop, NtfNothing, NtfError, NtfJpeg, Delivered
<1>8. AppTake \/ AppCancel => UNCHANGED <<back, kept>>
  BY DEF AppTake, AppCancel
<1> QED  BY <1>1, <1>2, <1>3, <1>5, <1>6, <1>7, <1>8 DEF Next

-----------------------------------------------------------------------------
(* Types                                                                   *)

\* The sets that depend on the scenario stay the same.
LEMMA FramesStay == ASSUME sc' = sc PROVE Frames' = Frames /\ Buffers' = Buffers /\ Jobs' = Jobs
BY DEF Frames, Buffers, Jobs

\* The types of MmJpeg's variables.
LEMMA TypedEncoder ==
    ASSUME TypedJpeg, JpegThreads \/ JpegFails
    PROVE  TypedJpeg'
<1>0. sc' = sc
  BY DEF JpegThreads, JpegFails, NotPP
<1>1. Frames' = Frames
  BY <1>0, FramesStay
<1>2. Orders' = Orders
  BY <1>1 DEF Orders
<1>11. Sessions' = Sessions /\ Events' = Events
  BY <1>1 DEF Sessions, Slots, Events
<1>3. Concurrent \in Nat /\ Len(ongoing) \in Nat
  BY ConcurrentAssumption DEF TypedJpeg
<1>4. CASE ManagerWakes
  BY <1>11, <1>2, <1>3, <1>4 DEF TypedJpeg, ManagerWakes
<1>5. CASE ManagerIdle
  BY <1>11, <1>2, <1>3, <1>5 DEF TypedJpeg, ManagerIdle
<1>6. CASE ManagerEncodes \/ EncodeFails
  <2>1. /\ Tail(todo) \in Seq(Orders) /\ Head(todo) \in Orders
        /\ Append(ongoing, Head(todo)) \in Seq(Orders)
        /\ Len(Append(ongoing, Head(todo))) = Len(ongoing) + 1
    BY <1>6 DEF TypedJpeg, ManagerEncodes, EncodeFails
  <2>2. Head(todo) \in Slots /\ Head(todo).id \in Nat
    BY <2>1 DEF Orders, Slots
  <2>3. CASE ManagerEncodes
    <3>1. Len(ongoing) < Concurrent
      BY <2>3 DEF TypedJpeg, ManagerEncodes
    <3>2. Len(ongoing') <= Concurrent /\ ongoing' \in Seq(Orders)
      BY <1>3, <2>1, <2>3, <3>1 DEF ManagerEncodes
    <3>3. session' \in Sessions
      BY <2>2, <2>3 DEF TypedJpeg, ManagerEncodes, Sessions
    <3> QED  BY <1>11, <1>2, <2>1, <2>3, <3>2, <3>3 DEF TypedJpeg, ManagerEncodes
  <2>4. CASE EncodeFails
    <3>1. JpegEvt(Head(todo), "ERROR") \in Events
      BY <2>2 DEF JpegEvt, Events
    <3>2. evt_queue' \in Seq(Events)
      BY <2>4, <3>1 DEF TypedJpeg, EncodeFails
    <3>3. session' \in Sessions
      BY <2>2, <2>4 DEF TypedJpeg, EncodeFails, Sessions
    <3> QED  BY <1>11, <1>2, <1>3, <2>1, <2>4, <3>2, <3>3 DEF TypedJpeg, EncodeFails
  <2> QED  BY <1>6, <2>3, <2>4
<1>7. ASSUME NEW s \in {"DONE", "ERROR"}, Encoded(s) PROVE TypedJpeg'
  <2>1. JpegEvt(session.job, s) \in Events
    BY DEF JpegEvt, Events, TypedJpeg, Sessions, Slots
  <2>2. evt_queue' \in Seq(Events)
    BY <1>7, <2>1 DEF TypedJpeg, Encoded
  <2> QED  BY <1>11, <1>2, <1>7, <2>2 DEF TypedJpeg, Encoded
<1>8. CASE JobRemoved
  <2>1. ongoing' \in Seq(Orders) /\ Len(ongoing') <= Len(ongoing) /\ Len(ongoing') \in Nat
    <3>1. ongoing \in Seq([id : Nat, frame : Frames])
      BY DEF TypedJpeg, Orders
    <3>2. ongoing' = Without(ongoing, session.job.id)
      BY <1>8 DEF JobRemoved
    <3>3. ongoing' \in Seq([id : Nat, frame : Frames]) /\ Len(ongoing') <= Len(ongoing)
      BY <3>1, <3>2, WithoutIs
    <3> QED  BY <3>3 DEF Orders
  <2>2. session' \in Sessions
    BY <1>8 DEF JobRemoved, TypedJpeg, Sessions
  <2> QED  BY <1>11, <1>2, <1>3, <1>8, <2>1, <2>2 DEF TypedJpeg, JobRemoved
<1>9. CASE JobDone \/ EncoderStops \/ session_abort
  <2>2. session' \in Sessions
    BY <1>9 DEF JobDone, EncoderStops, session_abort, TypedJpeg, Sessions
  <2> QED  BY <1>11, <1>2, <1>3, <1>9, <2>2 DEF TypedJpeg, JobDone, EncoderStops, session_abort
<1>10. CASE SessionAborted
  <2>1. NoSession \in Sessions
    BY DEF Sessions, Slots, NoSession, NoJob, Idle
  <2> QED  BY <1>11, <1>2, <1>3, <1>10, <2>1 DEF TypedJpeg, SessionAborted
<1> QED  BY <1>4, <1>5, <1>6, <1>7, <1>8, <1>9, <1>10
         DEF JpegThreads, JpegFails, Manager, Encoder, Abort

\* What the data thread and the deferred thread call.
LEMMA TypedClient ==
    ASSUME Typed, CancelJob \/ DestroySession \/ encodeData \/ createJpegSession,
           data.pc = "encode" => q.onJpeg # <<>>
    PROVE  TypedJpeg'
<1>0. sc' = sc
  BY DEF CancelJob, DestroySession, encodeData, createJpegSession
<1>1. Frames' = Frames
  BY <1>0, FramesStay
<1>2. Orders' = Orders
  BY <1>1 DEF Orders
<1>11. Sessions' = Sessions /\ Events' = Events
  BY <1>1 DEF Sessions, Slots, Events
<1>3. Concurrent \in Nat /\ Len(ongoing) \in Nat /\ TypedJpeg /\ TypedData
  BY ConcurrentAssumption DEF TypedJpeg, Typed
<1>4. CASE CancelJob
  <2>1. abort_job(Head(q.onJpeg).id)
    BY <1>4 DEF CancelJob
  <2>2. /\ todo' \in Seq(Orders)
        /\ ongoing' \in Seq(Orders) /\ Len(ongoing') <= Len(ongoing)
    <3> DEFINE id == Head(q.onJpeg).id
    <3>1. /\ todo \in Seq([id : Nat, frame : Frames])
          /\ ongoing \in Seq([id : Nat, frame : Frames])
      BY <1>3 DEF TypedJpeg, Orders
    <3>2. /\ Without(todo, id) \in Seq([id : Nat, frame : Frames])
          /\ Without(ongoing, id) \in Seq([id : Nat, frame : Frames])
          /\ Len(Without(ongoing, id)) <= Len(ongoing)
      BY <3>1, WithoutIs
    <3>3. todo' = Without(todo, id) /\ ongoing' \in {ongoing, Without(ongoing, id)}
      BY <2>1 DEF abort_job
    <3> QED  BY <1>3, <3>1, <3>2, <3>3 DEF Orders
  <2>3. Len(ongoing') \in Nat
    BY <2>2
  <2> QED  BY <1>11, <1>2, <1>3, <2>1, <2>2, <2>3 DEF abort_job, TypedJpeg
<1>5. CASE DestroySession
  <2>1. CASE destroy_session
    <3>1. todo' \in Seq(Orders) /\ ongoing' \in Seq(Orders) /\ Len(ongoing') = 0
      BY <2>1 DEF destroy_session
    <3> QED  BY <1>11, <1>2, <1>3, <2>1, <3>1, ConcurrentAssumption DEF destroy_session, TypedJpeg
  <2>2. CASE UNCHANGED jpegVars
    BY <1>11, <1>2, <1>3, <2>2 DEF TypedJpeg, jpegVars
  <2> QED  BY <1>5, <2>1, <2>2 DEF DestroySession
<1>6. create_session \in Sessions
  BY DEF Sessions, Slots, create_session, NoSession, NoJob, Idle
<1>7. CASE encodeData
  <2>1. Last(q.onJpeg) \in Jobs
    <3>1. q.onJpeg \in Seq(Jobs)
      BY <1>3 DEF TypedData, Queues
    <3>2. q.onJpeg # <<>>
      BY <1>7 DEF encodeData
    <3> QED  BY <3>1, <3>2, FrontIs
  <2>2. Last(q.onJpeg).frame \in Frames
    BY <2>1 DEF Jobs
  <2>3. start_job(Last(q.onJpeg).frame)
    BY <1>7 DEF encodeData
  <2>4. jobHist + 1 \in Nat /\ [id |-> jobHist + 1, frame |-> Last(q.onJpeg).frame] \in Orders
    BY <1>3, <2>2 DEF Orders, TypedJpeg
  <2>5. todo' \in Seq(Orders) /\ jobHist' \in Nat /\ tokens' \in Nat
    BY <1>3, <2>3, <2>4 DEF start_job, TypedJpeg
  <2>6. session' \in Sessions
    BY <1>3, <1>6, <1>7 DEF TypedJpeg, encodeData
  <2>7. UNCHANGED <<ongoing, mgr, omx, client, evt_queue>>
    BY <1>7 DEF encodeData
  <2> QED  BY <1>11, <1>2, <1>3, <2>5, <2>6, <2>7 DEF TypedJpeg
<1>8. CASE createJpegSession
  <2>6. session' \in Sessions
    BY <1>3, <1>6, <1>8 DEF TypedJpeg, createJpegSession
  <2>7. UNCHANGED <<todo, ongoing, tokens, mgr, omx, client, jobHist, evt_queue>>
    BY <1>8 DEF createJpegSession
  <2> QED  BY <1>11, <1>2, <1>3, <2>6, <2>7 DEF TypedJpeg
<1> QED  BY <1>4, <1>5, <1>7, <1>8

\* The events, which only the state machine takes.
LEMMA TypedEvents ==
    ASSUME Typed, SnapshotDone \/ NothingToEnd \/ sendDataNotify \/ JpegEvtDropped \/ NtfJpeg,
           sm.pc = "notify" => evt_queue # <<>>
    PROVE  TypedJpeg'
<1>0. sc' = sc
  BY DEF SnapshotDone, StopPostproc, NothingToEnd, sendDataNotify, JpegEvtDropped, NtfJpeg
<1>1. Frames' = Frames
  BY <1>0, FramesStay
<1>2. Orders' = Orders
  BY <1>1 DEF Orders
<1>11. Sessions' = Sessions /\ Events' = Events
  BY <1>1 DEF Sessions, Slots, Events
<1>3. TypedJpeg
  BY DEF Typed
<1>4. OnlyEvtQueue
  BY DEF SnapshotDone, NothingToEnd, sendDataNotify, JpegEvtDropped, NtfJpeg
<1>5. evt_queue' \in Seq(Events)
  <2>1. CASE NtfJpeg
    <3>1. SNAPSHOT_DONE \in Events
      BY DEF Events
    <3> QED  BY <1>3, <2>1, <3>1 DEF NtfJpeg, TypedJpeg
  <2>2. CASE SnapshotDone \/ NothingToEnd \/ sendDataNotify \/ JpegEvtDropped
    <3>1. NextEvent /\ evt_queue # <<>>
      BY <2>2 DEF SnapshotDone, NothingToEnd, sendDataNotify, JpegEvtDropped, Event
    <3> QED  BY <1>3, <3>1 DEF NextEvent, TypedJpeg
  <2> QED  BY <2>1, <2>2
<1> QED  BY <1>11, <1>2, <1>3, <1>4, <1>5 DEF OnlyEvtQueue, TypedJpeg

\* Whoever is between two queues has a frame.
Busy ==
    /\ src.pc = "process" => src.frame \in Frames
    /\ rep.pc \in {"process", "enqueue"} => rep.frame \in Frames
    /\ data.pc = "release" => data.job \in Frames
    /\ data.pc \in {"encode", "store"} => q.onJpeg # <<>>
    /\ sm.pc = "notify" => evt_queue # <<>>

\* Each of the queues is a sequence of jobs.
LEMMA QueuesAre ==
    ASSUME q \in Queues
    PROVE  /\ q.inPP \in Seq(Jobs) /\ q.onPP \in Seq(Jobs)
           /\ q.inJpeg \in Seq(Jobs) /\ q.onJpeg \in Seq(Jobs)
BY DEF Queues

\* A job for a frame.
LEMMA JobIs ==
    ASSUME NEW f \in Frames
    PROVE  Job(f) \in Jobs /\ Job(f).frame = f /\ Job(f).id = 0
BY DEF Job, Jobs

\* The queues of the post-processor.
LEMMA TypedQueues ==
    ASSUME Typed, Busy, QStep
    PROVE  q' \in Queues /\ Len(q.onPP)' <= PPBufs
<1>0. /\ q \in Queues /\ Len(q.onPP) <= PPBufs
      /\ q.inPP \in Seq(Jobs) /\ q.onPP \in Seq(Jobs)
      /\ q.inJpeg \in Seq(Jobs) /\ q.onJpeg \in Seq(Jobs)
      /\ PPBufs \in Nat
  BY QueuesAre, PPBufsAssumption DEF Typed, TypedData
<1>1. sc' = sc
  BY DEF QStep, processData, FindPPJob, EnqueueJpeg, CancelJob, FlushOngoingPP, FlushInputJpeg,
         FlushInputPP, Flush, NextJob, StoreJobId, EncodeRefused, doReprocess, processJpegEvt
<1>2. Queues' = Queues
  BY <1>1, FramesStay DEF Queues
<1>3. CASE processData
  <2>1. src.frame \in Frames
    BY <1>3 DEF processData, Busy
  <2>2. Job(src.frame) \in Jobs
    BY <2>1, JobIs
  <2>3. CASE q' = q
    BY <1>0, <1>2, <2>3
  <2>4. CASE q' = [q EXCEPT !.inPP = Append(@, Job(src.frame))]
    <3>1. Append(q.inPP, Job(src.frame)) \in Seq(Jobs)
      BY <1>0, <2>2
    <3> QED  BY <1>0, <1>2, <2>4, <3>1 DEF Queues
  <2>5. CASE q' = [q EXCEPT !.inJpeg = Append(@, Job(src.frame))]
    <3>1. Append(q.inJpeg, Job(src.frame)) \in Seq(Jobs)
      BY <1>0, <2>2
    <3> QED  BY <1>0, <1>2, <2>5, <3>1 DEF Queues
  <2> QED  BY <1>3, <2>3, <2>4, <2>5 DEF processData
<1>4. CASE FindPPJob
  <2>1. CASE q' = q
    BY <1>0, <1>2, <2>1
  <2>2. CASE q.onPP # <<>> /\ q' = [q EXCEPT !.onPP = Tail(@)]
    <3>1. Tail(q.onPP) \in Seq(Jobs) /\ Len(Tail(q.onPP)) = Len(q.onPP) - 1
      BY <1>0, <2>2
    <3>2. Len(Tail(q.onPP)) <= PPBufs
      BY <1>0, <3>1
    <3> QED  BY <1>0, <1>2, <2>2, <3>1, <3>2 DEF Queues
  <2> QED  BY <1>4, <2>1, <2>2 DEF FindPPJob
<1>5. CASE EnqueueJpeg
  <2>1. Append(q.inJpeg, Job(rep.frame)) \in Seq(Jobs)
    <3>1. Job(rep.frame) \in Jobs
      BY <1>5, JobIs DEF EnqueueJpeg, Busy
    <3> QED  BY <1>0, <3>1
  <2>2. q' = q \/ q' = [q EXCEPT !.inJpeg = Append(@, Job(rep.frame))]
    BY <1>5 DEF EnqueueJpeg
  <2> QED  BY <1>0, <1>2, <2>1, <2>2 DEF Queues
<1>6. CASE CancelJob
  <2>1. q.onJpeg # <<>> /\ q' = [q EXCEPT !.onJpeg = Tail(@)]
    BY <1>6 DEF CancelJob
  <2>2. Tail(q.onJpeg) \in Seq(Jobs)
    BY <1>0, <2>1
  <2> QED  BY <1>0, <1>2, <2>1, <2>2 DEF Queues
<1>7. CASE FlushOngoingPP \/ FlushInputJpeg \/ FlushInputPP
  <2>1. <<>> \in Seq(Jobs) /\ Len(<<>>) = 0
    OBVIOUS
  <2>2. \/ q' = [q EXCEPT !.onPP = <<>>] \/ q' = [q EXCEPT !.inJpeg = <<>>]
        \/ q' = [q EXCEPT !.inPP = <<>>]
    BY <1>7 DEF FlushOngoingPP, FlushInputJpeg, FlushInputPP, Flush
  <2>3. CASE q' = [q EXCEPT !.onPP = <<>>]
    <3>1. q'.onPP = <<>> /\ q' \in Queues
      BY <1>0, <1>2, <2>1, <2>3 DEF Queues
    <3> QED  BY <1>0, <1>2, <2>1, <3>1
  <2>4. CASE q' = [q EXCEPT !.inJpeg = <<>>]
    BY <1>0, <1>2, <2>1, <2>4 DEF Queues
  <2>5. CASE q' = [q EXCEPT !.inPP = <<>>]
    BY <1>0, <1>2, <2>1, <2>5 DEF Queues
  <2> QED  BY <2>2, <2>3, <2>4, <2>5
<1>8. CASE NextJob
  <2>1. CASE q' = q
    BY <1>0, <1>2, <2>1
  <2>2. CASE /\ q.inJpeg # <<>>
             /\ q' = [q EXCEPT !.inJpeg = Tail(@), !.onJpeg = Append(@, Head(q.inJpeg))]
    <3>1. /\ Tail(q.inJpeg) \in Seq(Jobs)
          /\ Append(q.onJpeg, Head(q.inJpeg)) \in Seq(Jobs)
      BY <1>0, <2>2
    <3> DEFINE in == Tail(q.inJpeg)
               on == Append(q.onJpeg, Head(q.inJpeg))
    <3>2. q' = [q EXCEPT !.inJpeg = in, !.onJpeg = on]
      BY <1>0, <2>2 DEF Queues
    <3>3. in \in Seq(Jobs) /\ on \in Seq(Jobs)
      BY <3>1
    <3> HIDE DEF in, on
    <3> QED  BY <1>0, <1>2, <3>2, <3>3 DEF Queues
  <2> QED  BY <1>8, <2>1, <2>2 DEF NextJob
<1>9. CASE StoreJobId
  <2> DEFINE s == q.onJpeg
             t == [s EXCEPT ![Len(s)].id = jobHist]
  <2>1. s # <<>> /\ jobHist \in Nat /\ s \in Seq(Jobs)
    BY <1>0, <1>9 DEF StoreJobId, Busy, Typed, TypedJpeg
  <2>3. t \in Seq(Jobs)
    <3> HIDE DEF s
    <3> QED  BY <2>1, FramesStore
  <2>4. q' = [q EXCEPT !.onJpeg = t]
    BY <1>0, <1>9 DEF StoreJobId, Queues
  <2> QED  BY <1>0, <1>2, <2>3, <2>4 DEF Queues
<1>10. CASE EncodeRefused
  <2>1. q.onJpeg # <<>>
    BY <1>10 DEF EncodeRefused, Busy
  <2>2. Front(q.onJpeg) \in Seq(Jobs)
    BY <1>0, <2>1, FrontIs
  <2> QED  BY <1>0, <1>2, <1>10, <2>2 DEF Queues, EncodeRefused
<1>11. CASE doReprocess
  <2>1. CASE q' = q
    BY <1>0, <1>2, <2>1
  <2>2. CASE /\ q.inPP # <<>> /\ Len(q.onPP) < PPBufs
             /\ q' = [q EXCEPT !.inPP = Tail(@), !.onPP = Append(@, Head(q.inPP))]
    <3>1. /\ Tail(q.inPP) \in Seq(Jobs)
          /\ Append(q.onPP, Head(q.inPP)) \in Seq(Jobs)
          /\ Len(Append(q.onPP, Head(q.inPP))) = Len(q.onPP) + 1
          /\ Len(q.onPP) \in Nat
      BY <1>0, <2>2
    <3>2. Len(Append(q.onPP, Head(q.inPP))) <= PPBufs
      BY <1>0, <2>2, <3>1
    <3> QED  BY <1>0, <1>2, <2>2, <3>1, <3>2 DEF Queues
  <2> QED  BY <1>11, <2>1, <2>2 DEF doReprocess, validatePostProcess
<1>12. CASE processJpegEvt
  <2> DEFINE ours == {i \in DOMAIN q.onJpeg : q.onJpeg[i].id = Head(evt_queue).id}
  <2>1. flushNodes(q.onJpeg, ours) \in Seq(Jobs)
    <3> HIDE DEF ours
    <3> QED  BY <1>0, FlushIs
  <2>2. q' = [q EXCEPT !.onJpeg = flushNodes(@, ours)]
    BY <1>12 DEF processJpegEvt
  <2> HIDE DEF ours
  <2> QED  BY <1>0, <1>2, <2>1, <2>2 DEF Queues
<1> QED  BY <1>3, <1>4, <1>5, <1>6, <1>7, <1>8, <1>9, <1>10, <1>11, <1>12 DEF QStep

\* Which queues are open.
LEMMA TypedOpen ==
    ASSUME Typed, OpenStep
    PROVE  open' \in Opened
<1>1. open \in Opened
  BY DEF Typed, TypedData
<1>2. Opened' = Opened
  BY DEF Opened
<1>3. CASE DataStart
  BY <1>2, <1>3 DEF DataStart, Opened
<1>4. CASE ~DataStart
  <2>1. \/ open' = [open EXCEPT !.onPP = FALSE] \/ open' = [open EXCEPT !.inJpeg = FALSE]
        \/ open' = [open EXCEPT !.inPP = FALSE]
    BY <1>4 DEF OpenStep, FlushOngoingPP, FlushInputJpeg, FlushInputPP, Flush
  <2> QED  BY <1>1, <1>2, <2>1 DEF Opened
<1> QED  BY <1>3, <1>4

\* Commands at the end, in front, or taken.
LEMMA CommandsAre ==
    ASSUME NEW s \in Seq(Commands), NEW c \in Commands
    PROVE  /\ Append(s, c) \in Seq(Commands) /\ <<c>> \o s \in Seq(Commands)
           /\ s # <<>> => Tail(s) \in Seq(Commands)
BY AppendIs, PushIs, TailIs

\* A command more for the data thread.
LEMMA SentIs ==
    ASSUME data \in DataStates, NEW c \in Commands
    PROVE  sendCmd(data, c) \in DataStates /\ sendCmdFirst(data, c) \in DataStates
<1>1. data.cmds \in Seq(Commands)
  BY DEF DataStates
<1>2. Append(data.cmds, c) \in Seq(Commands) /\ <<c>> \o data.cmds \in Seq(Commands)
  BY <1>1, CommandsAre
<1> HIDE DEF Commands
<1> QED  BY <1>2 DEF DataStates, sendCmd, sendCmdFirst

\* The data thread.
LEMMA TypedThread ==
    ASSUME Typed, Busy, DataStep
    PROVE  data' \in DataStates
<1>0. data \in DataStates /\ data.cmds \in Seq(Commands) /\ q \in Queues
  BY DEF Typed, TypedData, DataStates
<1>1. sc' = sc
  BY DEF DataStep, SrcSend, RepSend, DataThread, DataStart, DataStop, CancelJob, ReleaseJob,
         DestroySession, FlushOngoingPP, FlushInputJpeg, FlushInputPP, Flush, NextJob,
         NoJob_Stopped, encodeData, StoreJobId, EncodeRefused, doReprocess, StartPostproc,
         StartSnapshots, createJpegSession, CancelPicture, SnapshotDone, StopPostproc,
         StopReprocess, processJpegEvt, sendDataNotify
<1>2. DataStates' = DataStates
  BY <1>1, FramesStay DEF DataStates, Working, Stopping, Commands
<1>3. {"START_DATA_PROC", "STOP_DATA_PROC", DO_NEXT_JOB} \subseteq Commands
  BY DEF Commands
<1>4. ASSUME NEW c \in Commands
      PROVE  sendCmd(data, c) \in DataStates /\ sendCmdFirst(data, c) \in DataStates
  BY <1>0, SentIs
<1>5. CASE SrcSend \/ RepSend \/ StartPostproc \/ processJpegEvt \/ sendDataNotify
  <2>1. data' \in {data, sendCmd(data, DO_NEXT_JOB), sendCmd(data, "START_DATA_PROC")}
    BY <1>5 DEF SrcSend, RepSend, StartPostproc, processJpegEvt, sendDataNotify
  <2> QED  BY <1>0, <1>3, <1>4, <2>1
<1>6. CASE CancelPicture \/ SnapshotDone
  <2>1. data' = sendCmdFirst(data, "STOP_DATA_PROC")
    BY <1>6 DEF CancelPicture, SnapshotDone, StopPostproc
  <2> QED  BY <1>3, <1>4, <2>1
<1>7. CASE StartSnapshots \/ StopReprocess \/ createJpegSession
  <2>1. \/ data' = data \/ data' = [data EXCEPT !.synced = FALSE]
        \/ data' = [data EXCEPT !.newSess = FALSE]
    BY <1>7 DEF StartSnapshots, StopReprocess, createJpegSession
  <2> QED  BY <1>0, <1>2, <2>1 DEF DataStates
<1>8. CASE DataStart \/ DataStop \/ NextJob \/ NoJob_Stopped
  <2>1. data.cmds # <<>>
    BY <1>8 DEF DataStart, DataStop, NextJob, NoJob_Stopped, NextCmd
  <2>2. Tail(data.cmds) \in Seq(Commands)
    BY <1>0, <2>1, TailIs
  <2>3. CASE DataStart \/ DataStop
    BY <1>0, <1>2, <2>2, <2>3 DEF DataStart, DataStop, DataStates, Stopping
  <2>4. CASE NextJob \/ NoJob_Stopped
    <3>1. \/ data' = [data EXCEPT !.cmds = Tail(@), !.pc = "encode"]
          \/ data' = [data EXCEPT !.cmds = Tail(@), !.pc = "reprocess"]
          \/ data' = [data EXCEPT !.cmds = Tail(@)]
      BY <2>4 DEF NextJob, NoJob_Stopped
    <3> QED  BY <1>0, <1>2, <2>2, <3>1 DEF DataStates, Working
  <2> QED  BY <1>8, <2>3, <2>4
<1>9. CASE CancelJob
  <2>1. Head(q.onJpeg).frame \in Frames
    <3>1. q.onJpeg # <<>> /\ q.onJpeg \in Seq(Jobs)
      BY <1>0, <1>9 DEF CancelJob, Queues
    <3>2. Head(q.onJpeg) \in Jobs
      BY <3>1, TailIs
    <3> QED  BY <3>2 DEF Jobs
  <2>2. data' = [data EXCEPT !.pc = "release", !.job = Head(q.onJpeg).frame]
    BY <1>9 DEF CancelJob
  <2> QED  BY <1>0, <1>2, <2>1, <2>2 DEF DataStates, Stopping
<1>10. CASE ReleaseJob \/ DestroySession
  <2>1. \/ data' = [data EXCEPT !.pc = "cancel", !.job = Idle]
        \/ data' = [data EXCEPT !.pc = "flush_onPP"]
    BY <1>10 DEF ReleaseJob, DestroySession
  <2> QED  BY <1>0, <1>2, <2>1 DEF DataStates, Stopping
<1>11. CASE FlushOngoingPP \/ FlushInputJpeg \/ FlushInputPP
  BY <1>0, <1>2, <1>11 DEF FlushOngoingPP, FlushInputJpeg, FlushInputPP, DataStates, Stopping, Working
<1>12. CASE encodeData \/ StoreJobId \/ EncodeRefused \/ doReprocess
  BY <1>0, <1>2, <1>12 DEF encodeData, StoreJobId, EncodeRefused, doReprocess, DataStates, Working
<1> QED  BY <1>5, <1>6, <1>7, <1>8, <1>9, <1>10, <1>11, <1>12 DEF DataStep, DataThread

-----------------------------------------------------------------------------
(* The frames that are asked for                                           *)

\* n frames for each of the captures.
LEMMA TimesIs ==
    ASSUME NEW n \in Nat \ {0}, NEW c \in Nat
    PROVE  /\ n * c \in Nat /\ n * (c + 1) = n * c + n
           /\ \A d \in Nat : c <= d => n * c <= n * d
<1>1. n * c \in Nat /\ n * (c + 1) = n * c + n
  OBVIOUS
<1>2. ASSUME NEW d \in Nat, c <= d PROVE n * c <= n * d
  <2>1. PICK e \in Nat : d = c + e
    <3>1. d - c \in Nat /\ d = c + (d - c)
      BY <1>2
    <3> QED  BY <3>1
  <2>2. n * e \in Nat /\ n * (c + e) = n * c + n * e
    OBVIOUS
  <2> QED  BY <1>1, <2>1, <2>2
<1> QED  BY <1>1, <1>2

\* The captures that are still asked for.
Asks(s) == Cardinality(Takes(s))

\* The requests for a picture in a queue of requests,
LEMMA TakesAre ==
    ASSUME NEW s \in Seq(Requests)
    PROVE  IsFiniteSet(Takes(s)) /\ Asks(s) \in Nat
<1>1. DOMAIN s = 1 .. Len(s) /\ Len(s) \in Nat
  BY SeqIs
<1>2. IsFiniteSet(1 .. Len(s)) /\ Takes(s) \in SUBSET (1 .. Len(s))
  BY <1>1, FS_Interval DEF Takes
<1>3. IsFiniteSet(Takes(s))
  BY <1>2, FS_Subset
<1> QED  BY <1>3, FS_CardinalityType DEF Asks

\* when another one comes in,
LEMMA TakesAppend ==
    ASSUME NEW s \in Seq(Requests), NEW r \in Requests
    PROVE  Asks(Append(s, r)) = IF r = "TAKE_PICTURE" THEN Asks(s) + 1 ELSE Asks(s)
<1> DEFINE t == Append(s, r)
           n == Len(s)
<1>1. /\ t \in Seq(Requests) /\ Len(t) = n + 1 /\ n \in Nat /\ t[n + 1] = r
      /\ \A i \in 1 .. n : t[i] = s[i]
  BY AppendIs
<1>2. DOMAIN s = 1 .. n /\ DOMAIN t = 1 .. n + 1
  BY <1>1, SeqIs
<1> HIDE DEF t, n
<1>3. IsFiniteSet(Takes(s)) /\ n + 1 \notin Takes(s)
  <2>1. n + 1 \notin 1 .. n
    BY <1>1
  <2> QED  BY <1>2, <2>1, TakesAre DEF Takes
<1>4. CASE r = "TAKE_PICTURE"
  <2>1. Takes(t) = Takes(s) \cup {n + 1}
    BY <1>1, <1>2, <1>4 DEF Takes
  <2>2. Cardinality(Takes(s) \cup {n + 1}) = Cardinality(Takes(s)) + 1
    BY <1>3, FS_AddElement
  <2> QED  BY <1>4, <2>1, <2>2 DEF Asks, t
<1>5. CASE r # "TAKE_PICTURE"
  <2>1. Takes(t) = Takes(s)
    BY <1>1, <1>2, <1>5 DEF Takes
  <2> QED  BY <1>5, <2>1 DEF Asks, t
<1> QED  BY <1>4, <1>5

\* and when the first is taken.
LEMMA TakesTail ==
    ASSUME NEW s \in Seq(Requests), s # <<>>
    PROVE  Asks(Tail(s)) = IF Head(s) = "TAKE_PICTURE" THEN Asks(s) - 1 ELSE Asks(s)
<1> DEFINE t == Tail(s)
           n == Len(s)
<1>1. /\ t \in Seq(Requests) /\ Len(t) = n - 1
      /\ n \in Nat \ {0} /\ Head(s) = s[1]
      /\ \A i \in 1 .. n - 1 : t[i] = s[i + 1]
  BY TailIs
<1>2. DOMAIN s = 1 .. n /\ DOMAIN t = 1 .. n - 1
  BY <1>1, SeqIs
<1> HIDE DEF t, n
<1>3. IsFiniteSet(Takes(s)) /\ IsFiniteSet(Takes(t))
  BY <1>1, TakesAre
<1> DEFINE rest == Takes(s) \ {1}
           h == [i \in Takes(t) |-> i + 1]
<1>4. h \in Bijection(Takes(t), rest)
  <2>1. \A i \in Takes(t) : i \in 1 .. n - 1 /\ i + 1 \in rest
    BY <1>1, <1>2 DEF Takes
  <2>2. \A i, j \in Takes(t) : h[i] = h[j] => i = j
    BY <1>1, <2>1
  <2>3. \A j \in rest : \E i \in Takes(t) : h[i] = j
    <3> SUFFICES ASSUME NEW j \in rest PROVE \E i \in Takes(t) : h[i] = j
      OBVIOUS
    <3>1. j \in 1 .. n /\ j # 1 /\ s[j] = "TAKE_PICTURE"
      BY <1>2 DEF Takes
    <3>2. j - 1 \in 1 .. n - 1 /\ j - 1 + 1 = j
      BY <1>1, <3>1
    <3>3. t[j - 1] = s[j]
      BY <1>1, <3>2
    <3>4. j - 1 \in Takes(t)
      BY <1>2, <3>1, <3>2, <3>3 DEF Takes
    <3> QED  BY <3>2, <3>4
  <2>4. h \in [Takes(t) -> rest]
    BY <2>1
  <2> QED  BY <2>2, <2>3, <2>4 DEF Bijection, Injection, Surjection, IsInjective
<1>5. Cardinality(rest) = Cardinality(Takes(t))
  BY <1>3, <1>4, FS_Bijection DEF ExistsBijection
<1>6. Cardinality(rest) = IF 1 \in Takes(s) THEN Cardinality(Takes(s)) - 1 ELSE Cardinality(Takes(s))
  BY <1>3, FS_RemoveElement
<1>7. 1 \in Takes(s) <=> Head(s) = "TAKE_PICTURE"
  BY <1>1, <1>2 DEF Takes
<1> QED  BY <1>5, <1>6, <1>7 DEF Asks, t

\* The books of the captures that were asked for.
LEMMA AskedIs ==
    ASSUME Typed, Asked
    PROVE  /\ sm.api_queue \in Seq(Requests) /\ Asks(sm.api_queue) \in Nat
           /\ src \in SrcStates /\ sm \in SmStates /\ app \in AppStates
           /\ src.seen \in Nat /\ src.due \in Nat /\ app.taken \in Nat
           /\ sc.n \in Nat \ {0} /\ sc.captures \in Nat \ {0} /\ app.taken <= sc.captures
           /\ sc.n * Asks(sm.api_queue) \in Nat /\ sc.n * app.taken \in Nat
           /\ src.seen + src.due + sc.n * Asks(sm.api_queue) <= sc.n * app.taken
           /\ sc.n * app.taken <= sc.n * sc.captures /\ sc.n * sc.captures \in Nat
<1>1. src \in SrcStates /\ sm \in SmStates /\ app \in AppStates
  BY DEF Typed, TypedRest
<1>2. sc.n \in Nat \ {0} /\ sc.captures \in Nat \ {0} /\ sc.n * sc.captures \in Nat
  BY ScenarioIs DEF Typed
<1>3. sm.api_queue \in Seq(Requests) /\ Asks(sm.api_queue) \in Nat
  BY <1>1, TakesAre DEF SmStates
<1>4. src.seen \in Nat /\ src.due \in Nat
  BY <1>1, <1>2 DEF SrcStates
<1>5. app.taken \in Nat /\ app.taken <= sc.captures
  BY <1>1, <1>2 DEF AppStates
<1>6. sc.n * Asks(sm.api_queue) \in Nat /\ sc.n * app.taken \in Nat
  BY <1>2, <1>3, <1>5, TimesIs
<1>7. sc.n * app.taken <= sc.n * sc.captures
  BY <1>2, <1>5, TimesIs
<1> QED  BY <1>1, <1>2, <1>3, <1>4, <1>5, <1>6, <1>7 DEF Asked, Asks

\* What the application asked for bounds the frames that come.
LEMMA AskedKept ==
    ASSUME Typed, Asked, Next
    PROVE  Asked'
<1> DEFINE n == sc.n
           a == Asks(sm.api_queue)
           queue == sm.api_queue
<1>0. sc' = sc
  BY ScenarioStays
<1>1. /\ queue \in Seq(Requests) /\ a \in Nat
      /\ src \in SrcStates /\ sm \in SmStates /\ app \in AppStates
      /\ src.seen \in Nat /\ src.due \in Nat /\ app.taken \in Nat
      /\ n \in Nat \ {0} /\ n * a \in Nat /\ n * app.taken \in Nat
      /\ src.seen + src.due + n * a <= n * app.taken
      /\ sm.state = "PREVIEWING" => src.due = 0
  BY AskedIs DEF Asked
<1>2. SUFFICES /\ src'.seen + src'.due + n * Asks(sm'.api_queue) <= n * app'.taken
               /\ sm'.state = "PREVIEWING" => src'.due = 0
  BY <1>0 DEF Asked, Asks
<1>3. ASSUME queue # <<>>
      PROVE  /\ Asks(Tail(queue)) = IF Head(queue) = "TAKE_PICTURE" THEN a - 1 ELSE a
             /\ Head(queue) = "TAKE_PICTURE" => n * a = n * (a - 1) + n
  <2>1. Asks(Tail(queue)) = IF Head(queue) = "TAKE_PICTURE" THEN a - 1 ELSE a
    BY <1>1, <1>3, TakesTail
  <2>2. Head(queue) = "TAKE_PICTURE" => a - 1 \in Nat
    <3>1. Tail(queue) \in Seq(Requests)
      BY <1>1, <1>3, TailIs
    <3> QED  BY <2>1, <3>1, TakesAre
  <2>3. a - 1 \in Nat => n * (a - 1 + 1) = n * (a - 1) + n
    BY <1>1, TimesIs
  <2>4. a - 1 + 1 = a
    BY <1>1
  <2> QED  BY <2>1, <2>2, <2>3, <2>4
<1> DEFINE Done == /\ src'.seen + src'.due + n * Asks(sm'.api_queue) <= n * app'.taken
                   /\ sm'.state = "PREVIEWING" => src'.due = 0
<1> HIDE DEF n, a, queue
<1>4. CASE UNCHANGED <<src, sm>> /\ app'.taken = app.taken
  BY <1>1, <1>4 DEF a, queue
<1>5. CASE SrcFrame
  BY <1>1, <1>5 DEF SrcFrame, a, queue, SrcStates
<1>6. CASE processData \/ SrcSend
  <2>1. src'.seen = src.seen /\ src'.due = src.due
    BY <1>1, <1>6 DEF processData, SrcSend, SrcStates
  <2>2. UNCHANGED <<sm, app>>
    BY <1>6 DEF processData, SrcSend
  <2> QED  BY <1>1, <2>1, <2>2 DEF a, queue
<1>7. CASE takePicture
  <2>1. queue # <<>> /\ Head(queue) = "TAKE_PICTURE" /\ sm.state = "PREVIEWING"
    BY <1>7 DEF takePicture, Request, queue
  <2>2. sm'.api_queue = Tail(queue) /\ sm'.state = "PIC_TAKING"
    BY <1>1, <1>7 DEF takePicture, Taken, queue, SmStates
  <2>3. src'.seen = src.seen /\ src'.due = n /\ app' = app
    BY <1>1, <1>7 DEF takePicture, SrcStates, n
  <2>4. n * Asks(sm'.api_queue) = n * a - n /\ n \in Nat
    <3>1. Asks(sm'.api_queue) = a - 1 /\ n * a = n * (a - 1) + n
      BY <1>3, <2>1, <2>2
    <3> QED  BY <1>1, <3>1
  <2> QED  BY <1>1, <2>1, <2>2, <2>3, <2>4
<1>8. CASE StopChannel
  <2>1. src'.seen = src.seen /\ src'.due = 0
    BY <1>1, <1>8 DEF StopChannel, SrcStates
  <2>2. sm'.api_queue = queue
    BY <1>1, <1>8 DEF StopChannel, SmStates, queue
  <2>3. app'.taken = app.taken
    BY <1>1, <1>8 DEF StopChannel, Ended, AppStates
  <2> QED  BY <1>1, <2>1, <2>2, <2>3 DEF a, queue
<1>9. CASE stopCaptureChannel \/ NothingToCancel \/ CancelPicture
  <2>1. queue # <<>> /\ Head(queue) # "TAKE_PICTURE"
    BY <1>9 DEF stopCaptureChannel, NothingToCancel, CancelPicture, Request, queue
  <2>2. sm'.api_queue = Tail(queue) /\ sm'.state = sm.state
    BY <1>1, <1>9 DEF stopCaptureChannel, NothingToCancel, CancelPicture, StopPostproc, Taken,
                      queue, SmStates
  <2>3. src'.seen = src.seen /\ src'.due = src.due
    BY <1>1, <1>9 DEF stopCaptureChannel, NothingToCancel, CancelPicture, StopPostproc, SrcStates
  <2>4. app'.taken = app.taken
    BY <1>1, <1>9 DEF stopCaptureChannel, NothingToCancel, CancelPicture, StopPostproc, Ended, AppStates
  <2>5. Asks(sm'.api_queue) = a
    BY <1>3, <2>1, <2>2
  <2> QED  BY <1>1, <2>2, <2>3, <2>4, <2>5
<1>10. CASE SnapshotDone \/ StopReprocess \/ processJpegEvt \/ sendDataNotify
  <2>1. sm'.api_queue = queue /\ sm'.state = sm.state
    BY <1>1, <1>10 DEF SnapshotDone, StopPostproc, StopReprocess, processJpegEvt, sendDataNotify,
                       queue, SmStates
  <2>2. UNCHANGED <<src, app>>
    BY <1>10 DEF SnapshotDone, StopPostproc, StopReprocess, processJpegEvt, sendDataNotify
  <2> QED  BY <1>1, <2>1, <2>2 DEF a, queue
<1>11. CASE doReprocess \/ AppCancel
  <2>1. sm'.state = sm.state /\ src' = src /\ app'.taken = app.taken
    BY <1>1, <1>11 DEF doReprocess, AppCancel, SmStates, AppStates
  <2>2. \/ sm'.api_queue = queue
        \/ sm'.api_queue = Append(queue, "STOP_CAPTURE_CHANNEL")
        \/ sm'.api_queue = Append(queue, "CANCEL_PICTURE")
    BY <1>1, <1>11 DEF doReprocess, AppCancel, SmStates, queue
  <2>3. Asks(sm'.api_queue) = a
    BY <1>1, <2>2, TakesAppend DEF a, queue, Requests
  <2> QED  BY <1>1, <2>1, <2>3
<1>12. CASE AppTake
  <2>1. sm'.state = sm.state /\ src' = src /\ app'.taken = app.taken + 1
    BY <1>1, <1>12 DEF AppTake, SmStates, AppStates
  <2>2. sm'.api_queue = Append(queue, "TAKE_PICTURE")
    BY <1>1, <1>12 DEF AppTake, SmStates, queue
  <2>3. Asks(sm'.api_queue) = a + 1
    BY <1>1, <2>2, TakesAppend DEF a, queue, Requests
  <2>4. n * (a + 1) = n * a + n /\ n * (app.taken + 1) = n * app.taken + n /\ n \in Nat
    BY <1>1, TimesIs
  <2> QED  BY <1>1, <2>1, <2>3, <2>4
<1>13. (SrcStep \/ UNCHANGED src) /\ (SmStep \/ UNCHANGED sm) /\ (AppStep \/ UNCHANGED app)
  BY SrcRepSteps, DefSmSteps, NtfAppSteps
<1>14. CASE NothingToEnd \/ NtfError \/ Delivered
  <2>1. UNCHANGED <<src, sm>>
    BY <1>14 DEF NothingToEnd, NtfError, Delivered
  <2>2. app'.taken = app.taken
    BY <1>1, <1>14 DEF NothingToEnd, NtfError, Delivered, Ended, AppStates
  <2> QED  BY <1>4, <2>1, <2>2
<1> QED  BY <1>4, <1>5, <1>6, <1>7, <1>8, <1>9, <1>10, <1>11, <1>12, <1>13, <1>14
         DEF SrcStep, SmStep, AppStep

\* The source channel: it never delivers more frames than the captures have (Asked).
LEMMA TypedSrc ==
    ASSUME Typed, Asked, SrcStep
    PROVE  src' \in SrcStates
<1>0. sc' = sc
  BY DEF SrcStep, SrcFrame, processData, SrcSend, takePicture, StopChannel, stopCaptureChannel
<1>1. SrcStates' = SrcStates
  BY <1>0, FramesStay DEF SrcStates
<1>2. /\ src \in SrcStates /\ sc.n \in Nat /\ sc.n * sc.captures \in Nat /\ sc.zsl \in BOOLEAN
      /\ src.seen \in Nat /\ src.due \in Nat
      /\ src.seen + src.due <= sc.n * sc.captures
  BY AskedIs, ScenarioIs DEF Typed
<1>3. CASE SrcFrame
  <2> DEFINE m == sc.n * sc.captures
  <2>0. m \in Nat /\ src.seen + src.due <= m /\ src.due > 0
    BY <1>2, <1>3 DEF SrcFrame
  <2>1. src.seen + 1 \in 1 .. m /\ src.seen + 1 \in 0 .. m
    <3> HIDE DEF m
    <3> QED  BY <1>2, <2>0
  <2>2. src.seen + 1 \in Frames
    BY <2>1 DEF Frames
  <2>3. src.due - 1 \in 0 .. sc.n
    <3>1. src.due \in 0 .. sc.n
      BY <1>2 DEF SrcStates
    <3> QED  BY <1>2, <2>0, <3>1
  <2>4. src' = [src EXCEPT !.pc = "process", !.frame = src.seen + 1, !.seen = src.seen + 1,
                           !.due = src.due - 1]
    BY <1>2, <1>3 DEF SrcFrame, SrcStates
  <2> QED  BY <1>1, <1>2, <2>1, <2>2, <2>3, <2>4 DEF SrcStates
<1>4. CASE processData \/ SrcSend
  <2>1. \/ src' = [src EXCEPT !.pc = "send", !.frame = Idle]
        \/ src' = [src EXCEPT !.pc = "idle", !.frame = Idle]
        \/ src' = [src EXCEPT !.pc = "idle"]
    BY <1>4 DEF processData, SrcSend
  <2> QED  BY <1>1, <1>2, <2>1 DEF SrcStates
<1>5. CASE takePicture
  <2>1. sc.n \in 0 .. sc.n
    BY <1>2
  <2>2. src' = [src EXCEPT !.on = TRUE, !.due = sc.n]
    BY <1>5 DEF takePicture
  <2> QED  BY <1>1, <1>2, <2>1, <2>2 DEF SrcStates
<1>6. CASE StopChannel \/ stopCaptureChannel
  <2>1. 0 \in 0 .. sc.n
    BY <1>2
  <2>2. \/ src' = [src EXCEPT !.due = 0, !.on = sc.zsl]
        \/ src' = [src EXCEPT !.on = FALSE] \/ src' = src
    BY <1>6 DEF StopChannel, stopCaptureChannel
  <2> QED  BY <1>1, <1>2, <2>1, <2>2 DEF SrcStates
<1> QED  BY <1>3, <1>4, <1>5, <1>6 DEF SrcStep

\* The reprocess channel.
LEMMA TypedRep ==
    ASSUME Typed, RepStep
    PROVE  rep' \in RepStates
<1>0. sc' = sc
  BY DEF RepStep, RepThread, RepFrame, FindPPJob, EnqueueJpeg, RepSend, doReprocess, StopReprocess
<1>1. RepStates' = RepStates
  BY <1>0, FramesStay DEF RepStates
<1>2. rep \in RepStates /\ rep.owed \in Seq(Frames)
  BY DEF Typed, TypedRest, RepStates
<1>3. CASE RepFrame
  <2>1. Tail(rep.owed) \in Seq(Frames) /\ Head(rep.owed) \in Frames
    BY <1>2, <1>3, TailIs DEF RepFrame
  <2> QED  BY <1>1, <1>3, <2>1 DEF RepFrame, RepStates
<1>4. CASE FindPPJob \/ EnqueueJpeg \/ RepSend
  <2>1. \/ rep' = [rep EXCEPT !.pc = "enqueue"]
        \/ rep' = [rep EXCEPT !.pc = "idle", !.frame = Idle]
        \/ rep' = [rep EXCEPT !.pc = "send", !.frame = Idle]
        \/ rep' = [rep EXCEPT !.pc = "idle"]
    BY <1>4 DEF FindPPJob, EnqueueJpeg, RepSend
  <2> QED  BY <1>1, <1>2, <2>1 DEF RepStates
<1>5. CASE doReprocess
  <2>1. CASE rep' = rep
    BY <1>1, <1>2, <2>1
  <2>2. CASE q.inPP # <<>> /\ rep' = [rep EXCEPT !.owed = Append(@, Head(q.inPP).frame)]
    <3>1. Head(q.inPP).frame \in Frames
      <4>1. q.inPP \in Seq(Jobs)
        BY QueuesAre DEF Typed, TypedData
      <4>2. Head(q.inPP) \in Jobs
        BY <2>2, <4>1, TailIs
      <4> QED  BY <4>2 DEF Jobs
    <3>2. Append(rep.owed, Head(q.inPP).frame) \in Seq(Frames)
      BY <1>2, <3>1
    <3> QED  BY <1>1, <1>2, <2>2, <3>2 DEF RepStates
  <2> QED  BY <1>5, <2>1, <2>2 DEF doReprocess
<1>6. CASE StopReprocess
  <2>1. <<>> \in Seq(Frames)
    OBVIOUS
  <2> QED  BY <1>1, <1>2, <1>6, <2>1 DEF StopReprocess, RepStates
<1> QED  BY <1>3, <1>4, <1>5, <1>6 DEF RepStep, RepThread

\* The state machine.
LEMMA TypedSm ==
    ASSUME Typed, SmStep
    PROVE  sm' \in SmStates
<1>1. sm \in SmStates /\ sm.api_queue \in Seq(Requests)
  BY DEF Typed, TypedRest, SmStates
<1>2. SmStates' = SmStates
  BY DEF SmStates, Requests
<1>3. \A r \in Requests : Append(sm.api_queue, r) \in Seq(Requests)
  BY <1>1, AppendIs
<1>4. sm.api_queue # <<>> => Tail(sm.api_queue) \in Seq(Requests)
  BY <1>1, TailIs
<1>5. \A r : Request(r) => sm.api_queue # <<>>
  BY DEF Request
<1>6. CASE doReprocess \/ AppTake \/ AppCancel
  <2>1. \/ sm' = sm \/ \E r \in Requests : sm' = [sm EXCEPT !.api_queue = Append(@, r)]
    BY <1>6 DEF doReprocess, AppTake, AppCancel, Requests
  <2> QED  BY <1>1, <1>2, <1>3, <2>1 DEF SmStates
<1>7. CASE takePicture \/ CancelPicture \/ NothingToCancel \/ stopCaptureChannel
  <2>1. sm.api_queue # <<>>
    BY <1>5, <1>7 DEF takePicture, CancelPicture, NothingToCancel, stopCaptureChannel
  <2>2. Taken \in SmStates
    BY <1>1, <1>4, <2>1 DEF Taken, SmStates
  <2>3. \/ sm' = [Taken EXCEPT !.state = "PIC_TAKING"] \/ sm' = Taken
        \/ sm' = [Taken EXCEPT !.pc = "wait", !.for = "CANCEL_PICTURE"]
    BY <1>7 DEF takePicture, CancelPicture, StopPostproc, NothingToCancel, stopCaptureChannel
  <2> QED  BY <1>2, <2>2, <2>3 DEF SmStates
<1>8. CASE SnapshotDone \/ StopReprocess \/ StopChannel \/ processJpegEvt \/ sendDataNotify
  <2>1. \/ sm' = [sm EXCEPT !.pc = "wait", !.for = "SNAPSHOT_DONE"]
        \/ sm' = [sm EXCEPT !.pc = "channel"]
        \/ sm' = [sm EXCEPT !.state = "PREVIEWING", !.pc = "idle", !.for = "none"]
        \/ sm' = [sm EXCEPT !.pc = "notify"] \/ sm' = [sm EXCEPT !.pc = "idle"]
    BY <1>8 DEF SnapshotDone, StopPostproc, StopReprocess, StopChannel, processJpegEvt, sendDataNotify
  <2> QED  BY <1>1, <1>2, <2>1 DEF SmStates
<1> QED  BY <1>6, <1>7, <1>8 DEF SmStep

\* The application.
LEMMA TypedApp ==
    ASSUME Typed, AppStep
    PROVE  app' \in AppStates
<1>0. sc' = sc
  BY DEF AppStep, StopChannel, NothingToCancel, NothingToEnd, NtfError, Delivered, AppTake, AppCancel
<1>1. AppStates' = AppStates
  BY <1>0 DEF AppStates
<1>2. /\ app \in AppStates /\ sc.n \in Nat \ {0} /\ sc.captures \in Nat /\ sc.cancels \in Nat
      /\ app.taken \in 0 .. sc.captures /\ app.got \in 0 .. sc.n - 1
      /\ app.cancels \in 0 .. sc.cancels
  BY ScenarioIs DEF Typed, TypedRest, AppStates
<1>3. 0 \in 0 .. sc.n - 1
  BY <1>2
<1>4. CASE StopChannel \/ NothingToCancel \/ NothingToEnd
  <2>1. app' = app \/ app' = [app EXCEPT !.busy = FALSE, !.got = 0]
    BY <1>4 DEF StopChannel, NothingToCancel, NothingToEnd, Ended
  <2> QED  BY <1>1, <1>2, <1>3, <2>1 DEF AppStates
<1>5. CASE NtfError
  BY <1>1, <1>2, <1>5 DEF NtfError, AppStates
<1>6. CASE Delivered
  <2>1. app.got + 1 # sc.n => app.got + 1 \in 0 .. sc.n - 1
    BY <1>2
  <2>2. \/ app' = app \/ app' = [app EXCEPT !.busy = FALSE, !.got = 0]
        \/ app.got + 1 # sc.n /\ app' = [app EXCEPT !.got = @ + 1]
    BY <1>6 DEF Delivered
  <2> QED  BY <1>1, <1>2, <1>3, <2>1, <2>2 DEF AppStates
<1>7. CASE AppTake
  <2>1. app.taken + 1 \in 0 .. sc.captures
    BY <1>2, <1>7 DEF AppTake
  <2> QED  BY <1>1, <1>2, <1>7, <2>1 DEF AppTake, AppStates
<1>8. CASE AppCancel
  <2>1. app.cancels + 1 \in 0 .. sc.cancels
    BY <1>2, <1>8 DEF AppCancel
  <2> QED  BY <1>1, <1>2, <1>8, <2>1 DEF AppCancel, AppStates
<1> QED  BY <1>4, <1>5, <1>6, <1>7, <1>8 DEF AppStep

\* A command or a callback more for the notifier.
LEMMA NotifiedIs ==
    ASSUME ntf \in NtfStates, NEW c \in Commands, NEW what \in Answers
    PROVE  /\ sendCmd(ntf, c) \in NtfStates /\ sendCmdFirst(ntf, c) \in NtfStates
           /\ notifyCallback(what) \in NtfStates
<1>1. ntf.cmds \in Seq(Commands) /\ ntf.data \in Seq(Answers)
  BY DEF NtfStates
<1>2. DO_NEXT_JOB \in Commands
  BY DEF Commands
<1>3. /\ Append(ntf.cmds, c) \in Seq(Commands) /\ <<c>> \o ntf.cmds \in Seq(Commands)
      /\ Append(ntf.cmds, DO_NEXT_JOB) \in Seq(Commands)
      /\ Append(ntf.data, what) \in Seq(Answers)
  BY <1>1, <1>2, CommandsAre, AppendIs
<1>4. sendCmd(ntf, c) \in NtfStates /\ sendCmdFirst(ntf, c) \in NtfStates
  BY <1>3 DEF NtfStates, sendCmd, sendCmdFirst
<1>5. notifyCallback(what) \in NtfStates
  BY <1>3 DEF NtfStates, sendCmd, notifyCallback
<1> QED  BY <1>4, <1>5

\* The notifier.
LEMMA TypedNtf ==
    ASSUME Typed, NtfStep
    PROVE  ntf' \in NtfStates
<1>0. sc' = sc
  BY DEF NtfStep, EncodeRefused, StartSnapshots, CancelPicture, SnapshotDone, StopPostproc,
         StopChannel, NothingToCancel, NothingToEnd, sendDataNotify, NtfThread, NtfStart,
         NtfStop, NtfNothing, NtfError, NtfJpeg, Delivered
<1>1. NtfStates' = NtfStates
  BY <1>0 DEF NtfStates, Commands, Answers
<1>2. /\ ntf \in NtfStates /\ sc.n \in Nat
      /\ ntf.cmds \in Seq(Commands) /\ ntf.data \in Seq(Answers)
  BY ScenarioIs DEF Typed, TypedRest, NtfStates
<1>3. "jpeg" \in Answers /\ "error" \in Answers
  BY DEF Answers
<1>4. /\ "START_DATA_PROC" \in Commands /\ "STOP_DATA_PROC" \in Commands
      /\ DO_NEXT_JOB \in Commands
  BY DEF Commands
<1>5. CASE EncodeRefused \/ StartSnapshots \/ CancelPicture \/ SnapshotDone \/ sendDataNotify
  <2>1. \/ ntf' = notifyCallback("error") \/ ntf' = notifyCallback("jpeg")
        \/ ntf' = sendCmdFirst(ntf, "START_DATA_PROC")
        \/ ntf' = sendCmdFirst(ntf, "STOP_DATA_PROC")
    BY <1>5 DEF EncodeRefused, StartSnapshots, CancelPicture, SnapshotDone, StopPostproc,
                sendDataNotify
  <2> QED  BY <1>1, <1>2, <1>3, <1>4, <2>1, NotifiedIs
<1>6. CASE StopChannel \/ NothingToCancel \/ NothingToEnd \/ Delivered
  <2>1. \/ ntf' = ntf \/ ntf' = [ntf EXCEPT !.pc = "deliver"] \/ ntf' = [ntf EXCEPT !.pc = "idle"]
    BY <1>6 DEF StopChannel, NothingToCancel, NothingToEnd, Ended, Delivered
  <2> QED  BY <1>1, <1>2, <2>1 DEF NtfStates
<1>7. ntf.cmds # <<>> => Tail(ntf.cmds) \in Seq(Commands)
  BY <1>2, TailIs
<1>8. CASE NtfStart
  <2>1. ntf.cmds # <<>> /\ sc.n \in 0 .. sc.n
    BY <1>2, <1>8 DEF NtfStart, NextCmd
  <2> QED  BY <1>1, <1>2, <1>7, <1>8, <2>1 DEF NtfStart, NtfStates
<1>9. CASE NtfStop
  <2> DEFINE left == flushNodes(ntf.data, {i \in DOMAIN ntf.data : ntf.data[i] = "jpeg"})
  <2>1. ntf.cmds # <<>> /\ 0 \in 0 .. sc.n
    BY <1>2, <1>9 DEF NtfStop, NextCmd
  <2>2. left \in Seq(Answers)
    <3> DEFINE S == {i \in DOMAIN ntf.data : ntf.data[i] = "jpeg"}
    <3> HIDE DEF S
    <3>1. flushNodes(ntf.data, S) \in Seq(Answers)
      BY <1>2, FlushIs
    <3> QED  BY <3>1 DEF S
  <2>3. ntf' = [ntf EXCEPT !.cmds = Tail(@), !.active = FALSE, !.expected = 0, !.received = 0,
                           !.data = left]
    BY <1>2, <1>9 DEF NtfStop, NtfStates
  <2> HIDE DEF left
  <2> QED  BY <1>1, <1>2, <1>7, <2>1, <2>2, <2>3 DEF NtfStates
<1>10. CASE NtfNothing \/ NtfError \/ NtfJpeg
  <2>1. ntf.cmds # <<>>
    BY <1>10 DEF NtfNothing, NtfError, NtfJpeg, NextCmd
  <2>2. ntf.data # <<>> => NtfCb \in NtfStates
    <3> SUFFICES ASSUME ntf.data # <<>> PROVE NtfCb \in NtfStates
      OBVIOUS
    <3>1. Tail(ntf.data) \in Seq(Answers)
      BY <1>2, TailIs
    <3> QED  BY <1>2, <1>7, <2>1, <3>1 DEF NtfCb, NtfStates
  <2>3. CASE NtfNothing
    <3>1. ntf' = [ntf EXCEPT !.cmds = Tail(@)] \/ (ntf.data # <<>> /\ ntf' = NtfCb)
      BY <2>3 DEF NtfNothing
    <3>2. [ntf EXCEPT !.cmds = Tail(@)] \in NtfStates
      BY <1>2, <1>7, <2>1 DEF NtfStates
    <3> QED  BY <1>1, <2>2, <3>1, <3>2
  <2>4. CASE NtfError
    BY <1>1, <2>2, <2>4 DEF NtfError
  <2>5. CASE NtfJpeg
    <3>1. NtfCb \in NtfStates
      BY <2>2, <2>5 DEF NtfJpeg
    <3>2. NtfCb.received + 1 \in Nat
      BY <3>1 DEF NtfStates
    <3>3. \/ ntf' = [NtfCb EXCEPT !.received = @ + 1, !.pc = "wait"]
          \/ ntf' = [NtfCb EXCEPT !.received = @ + 1, !.pc = "deliver"]
      BY <2>5 DEF NtfJpeg
    <3> QED  BY <1>1, <3>1, <3>2, <3>3 DEF NtfStates
  <2> QED  BY <1>10, <2>3, <2>4, <2>5
<1> QED  BY <1>5, <1>6, <1>8, <1>9, <1>10 DEF NtfStep, NtfThread

\* The deferred thread.
LEMMA TypedDef ==
    ASSUME Typed, Next
    PROVE  def' \in {"idle", "start", "wait", "jpeg_session"}
<1>1. def \in {"idle", "start", "wait", "jpeg_session"}
  BY DEF Typed, TypedRest
<1> QED  BY <1>1, DefSmSteps DEF DefStep, StartPostproc, StartSnapshots, createJpegSession, takePicture

\* Everything but the buffers.
LEMMA TypedKept ==
    ASSUME Typed, Asked, Busy, Next,
           back' \in [Buffers -> 0..1], kept' \in SUBSET Buffers
    PROVE  Typed'
<1>0. sc' = sc /\ Frames' = Frames /\ Buffers' = Buffers /\ Jobs' = Jobs
  BY ScenarioStays, FramesStay
<1>1. TypedJpeg'
  <2>1. CASE UNCHANGED jpegVars
    BY <1>0, <2>1 DEF Typed, TypedJpeg, jpegVars, Orders, Sessions, Slots, Events
  <2>2. CASE JpegThreads \/ JpegFails
    BY <2>2, TypedEncoder DEF Typed
  <2>3. CASE CancelJob \/ DestroySession \/ encodeData \/ createJpegSession
    BY <2>3, TypedClient DEF Busy
  <2>4. CASE SnapshotDone \/ NothingToEnd \/ sendDataNotify \/ JpegEvtDropped \/ NtfJpeg
    BY <2>4, TypedEvents DEF Busy
  <2> QED  BY <2>1, <2>2, <2>3, <2>4, JpegSteps DEF JpegStep
<1>2. TypedData'
  <2>1. q' \in Queues /\ Len(q'.onPP) <= PPBufs
    <3>1. CASE QStep
      BY <3>1, TypedQueues
    <3>2. CASE q' = q
      BY <3>2 DEF Typed, TypedData
    <3> QED  BY <3>1, <3>2, QSteps
  <2>2. open' \in Opened
    BY TypedOpen, OpenSteps DEF Typed, TypedData
  <2>3. data' \in DataStates
    BY TypedThread, DataSteps DEF Typed, TypedData
  <2>4. Queues' = Queues /\ DataStates' = DataStates /\ Opened' = Opened
    BY <1>0 DEF Queues, DataStates, Opened, Stopping, Working, Commands
  <2> QED  BY <2>1, <2>2, <2>3, <2>4 DEF TypedData
<1>3. TypedRest'
  <2>1. src' \in SrcStates /\ rep' \in RepStates
    BY TypedSrc, TypedRep, SrcRepSteps DEF Typed, TypedRest
  <2>2. sm' \in SmStates
    BY TypedSm, DefSmSteps DEF Typed, TypedRest
  <2>3. ntf' \in NtfStates /\ app' \in AppStates
    BY TypedNtf, TypedApp, NtfAppSteps DEF Typed, TypedRest
  <2>4. def' \in {"idle", "start", "wait", "jpeg_session"}
    BY TypedDef
  <2>5. /\ SrcStates' = SrcStates /\ RepStates' = RepStates /\ SmStates' = SmStates
        /\ NtfStates' = NtfStates /\ AppStates' = AppStates
    BY <1>0 DEF SrcStates, RepStates, SmStates, NtfStates, AppStates, Requests, Commands, Answers
  <2> QED  BY <1>0, <2>1, <2>2, <2>3, <2>4, <2>5 DEF TypedRest
<1>4. sc' \in Scenarios'
  BY <1>0 DEF Typed
<1> QED  BY <1>1, <1>2, <1>3, <1>4 DEF Typed

-----------------------------------------------------------------------------
(* The handshake with the data thread                                      *)

\* A command more, at either end.
LEMMA CommandsSent ==
    ASSUME NEW s \in Seq(Commands), NEW c \in Commands,
           NEW t, t = Append(s, c) \/ t = <<c>> \o s
    PROVE  /\ \A i \in DOMAIN t : t[i] = c \/ \E j \in DOMAIN s : t[i] = s[j]
           /\ Calm(s) => Single(t)
           /\ ~Turn(c) /\ Single(s) => Single(t)
<1> DEFINE n == Len(s)
<1>1. n \in Nat /\ DOMAIN s = 1 .. n
  BY SeqIs
<1>2. CASE t = Append(s, c)
  <2>1. /\ DOMAIN t = 1 .. n + 1 /\ t[n + 1] = c
        /\ \A i \in 1 .. n : t[i] = s[i]
    <3>1. /\ t \in Seq(Commands) /\ Len(t) = n + 1 /\ t[n + 1] = c
          /\ \A i \in 1 .. n : t[i] = s[i]
      BY <1>2, AppendIs
    <3> QED  BY <3>1, SeqIs
  <2>2. \A i \in 1 .. n + 1 : i = n + 1 \/ i \in 1 .. n
    BY <1>1
  <2> HIDE DEF n
  <2> QED  BY <1>1, <2>1, <2>2 DEF Calm, Single
<1>3. CASE t = <<c>> \o s
  <2>1. /\ DOMAIN t = 1 .. n + 1 /\ t[1] = c
        /\ \A i \in 1 .. n : t[i + 1] = s[i]
    <3>1. /\ t \in Seq(Commands) /\ Len(t) = n + 1 /\ t[1] = c
          /\ \A i \in 1 .. n : t[i + 1] = s[i]
      BY <1>3, PushIs
    <3> QED  BY <3>1, SeqIs
  <2> HIDE DEF n
  <2>2. \A i \in 1 .. n + 1 : i = 1 \/ (i - 1 \in 1 .. n /\ t[i] = s[i - 1])
    <3> SUFFICES ASSUME NEW i \in 1 .. n + 1, i # 1 PROVE i - 1 \in 1 .. n /\ t[i] = s[i - 1]
      OBVIOUS
    <3>1. i - 1 \in 1 .. n /\ i - 1 + 1 = i
      BY <1>1
    <3> QED  BY <2>1, <3>1
  <2>3. \A i, j \in 1 .. n + 1 : i - 1 = j - 1 => i = j
    BY <1>1
  <2>4. \A i \in DOMAIN t : t[i] = c \/ \E j \in DOMAIN s : t[i] = s[j]
    BY <1>1, <2>1, <2>2
  <2>5. Calm(s) => Single(t)
    BY <1>1, <2>1, <2>2 DEF Calm, Single
  <2>6. ASSUME ~Turn(c), Single(s) PROVE Single(t)
    <3> SUFFICES ASSUME NEW i \in 1 .. n + 1, NEW j \in 1 .. n + 1, Turn(t[i]), Turn(t[j])
                 PROVE  i = j
      BY <2>1 DEF Single
    <3>1. /\ i - 1 \in 1 .. n /\ t[i] = s[i - 1]
          /\ j - 1 \in 1 .. n /\ t[j] = s[j - 1]
      BY <2>1, <2>2, <2>6
    <3>2. i - 1 = j - 1
      BY <1>1, <2>6, <3>1 DEF Single
    <3> QED  BY <2>3, <3>2
  <2> QED  BY <2>4, <2>5, <2>6
<1> QED  BY <1>2, <1>3

\* The first command is taken.
LEMMA CommandsTaken ==
    ASSUME NEW s \in Seq(Commands), s # <<>>, NEW t, t = Tail(s)
    PROVE  /\ \A i \in DOMAIN t : \E j \in DOMAIN s : t[i] = s[j]
           /\ \E j \in DOMAIN s : s[j] = Head(s)
           /\ Single(s) => Single(t)
           /\ Single(s) /\ Turn(Head(s)) => Calm(t)
<1> DEFINE n == Len(s)
<1>1. /\ t \in Seq(Commands) /\ Len(t) = n - 1
      /\ n \in Nat \ {0} /\ Head(s) = s[1]
      /\ \A i \in 1 .. n - 1 : t[i] = s[i + 1]
  BY TailIs
<1>2. DOMAIN s = 1 .. n /\ DOMAIN t = 1 .. n - 1
  BY <1>1, SeqIs
<1> HIDE DEF n
<1>3. /\ 1 \in 1 .. n
      /\ \A i \in 1 .. n - 1 : i + 1 \in 1 .. n /\ i + 1 # 1
      /\ \A i, j \in 1 .. n - 1 : i + 1 = j + 1 => i = j
  BY <1>1
<1>4. \A i \in DOMAIN t : \E j \in DOMAIN s : t[i] = s[j]
  BY <1>1, <1>2, <1>3
<1>5. ASSUME Single(s), NEW i \in 1 .. n - 1, NEW j \in 1 .. n - 1, Turn(t[i]), Turn(t[j])
      PROVE  i = j
  <2>1. i + 1 \in 1 .. n /\ j + 1 \in 1 .. n /\ t[i] = s[i + 1] /\ t[j] = s[j + 1]
    BY <1>1, <1>3
  <2>2. i + 1 = j + 1
    BY <1>2, <1>5, <2>1 DEF Single
  <2> QED  BY <1>3, <2>2
<1>6. ASSUME Single(s), Turn(s[1]), NEW i \in 1 .. n - 1, Turn(t[i])
      PROVE  FALSE
  <2>1. i + 1 \in 1 .. n /\ i + 1 # 1 /\ t[i] = s[i + 1]
    BY <1>1, <1>3
  <2> QED  BY <1>2, <1>3, <1>6, <2>1 DEF Single
<1> QED  BY <1>1, <1>2, <1>3, <1>4, <1>5, <1>6 DEF Single, Calm

\* The handshake of the three threads, of what it is about alone.
Handshake(cmds, pc, synced, d, s, state) ==
    /\ Single(cmds)
    /\ \A i \in DOMAIN cmds :
         /\ cmds[i] = "START_DATA_PROC" => d = "wait" /\ ~synced
         /\ cmds[i] = "STOP_DATA_PROC" => s = "wait" /\ ~synced /\ pc \notin Stopping
    /\ pc \in Stopping => s = "wait" /\ ~synced
    /\ synced => d = "wait" \/ s = "wait"
    /\ s \in {"wait", "channel"} => d = "idle"
    /\ d # "idle" \/ s # "idle" => state = "PIC_TAKING"

\* Shake as a predicate of the values it depends on, now
LEMMA ShakeIs == Shake <=> Handshake(data.cmds, data.pc, data.synced, def, sm.pc, sm.state)
BY DEF Shake, Handshake, Ending

\* and in the next state.
LEMMA ShakeNext == Shake' <=> Handshake(data'.cmds, data'.pc, data'.synced, def', sm'.pc, sm'.state)
BY DEF Shake, Handshake, Ending

\* The types those values have.
LEMMA ShakeTyped ==
    ASSUME Typed
    PROVE  /\ data \in DataStates /\ data.cmds \in Seq(Commands) /\ sm \in SmStates
           /\ rep \in RepStates /\ src \in SrcStates /\ q \in Queues /\ open \in Opened
           /\ data.synced \in BOOLEAN /\ data.active \in BOOLEAN /\ data.newSess \in BOOLEAN
           /\ data.pc \in Stopping \cup Working
BY DEF Typed, TypedData, TypedRest, DataStates

\* One more job to look for.
LEMMA ShakeSent ==
    ASSUME Typed, Shake, data' = sendCmd(data, DO_NEXT_JOB), def' = def,
           sm'.pc = sm.pc \/ (sm.pc = "idle" /\ sm'.pc = "notify" /\ sm.state = "PIC_TAKING")
                          \/ (sm.pc = "notify" /\ sm'.pc = "idle"),
           sm'.state = sm.state
    PROVE  Shake'
<1>1. DO_NEXT_JOB \in Commands /\ ~Turn(DO_NEXT_JOB)
  BY DEF Commands, Turn, DO_NEXT_JOB
<1>2. data \in DataStates /\ data.cmds \in Seq(Commands)
  BY ShakeTyped
<1>3. /\ data'.cmds = Append(data.cmds, DO_NEXT_JOB)
      /\ data'.pc = data.pc /\ data'.synced = data.synced
  BY <1>2 DEF sendCmd, DataStates
<1>4. /\ \A i \in DOMAIN data'.cmds :
            data'.cmds[i] = DO_NEXT_JOB \/ \E j \in DOMAIN data.cmds : data'.cmds[i] = data.cmds[j]
      /\ Single(data.cmds) => Single(data'.cmds)
  <2> DEFINE c == DO_NEXT_JOB
  <2>1. data.cmds \in Seq(Commands) /\ c \in Commands /\ data'.cmds = Append(data.cmds, c)
        /\ ~Turn(c)
    BY <1>1, <1>2, <1>3
  <2> HIDE DEF c
  <2>2. \A i \in DOMAIN data'.cmds :
            data'.cmds[i] = c \/ \E j \in DOMAIN data.cmds : data'.cmds[i] = data.cmds[j]
    BY <2>1, CommandsSent
  <2>3. Single(data.cmds) => Single(data'.cmds)
    BY <2>1, CommandsSent
  <2> QED  BY <2>2, <2>3 DEF c
<1>5. Handshake(data.cmds, data.pc, data.synced, def, sm.pc, sm.state)
  BY ShakeIs
<1>6. Handshake(data'.cmds, data'.pc, data'.synced, def', sm'.pc, sm'.state)
  BY <1>3, <1>4, <1>5 DEF Handshake, DO_NEXT_JOB
<1> QED  BY <1>6, ShakeNext

\* A command is taken that is not one of the two.
LEMMA ShakeGoes ==
    ASSUME Typed, Shake, def' = def, sm'.pc = sm.pc, sm'.state = sm.state,
           data'.cmds = data.cmds \/ (data.cmds # <<>> /\ data'.cmds = Tail(data.cmds)),
           data'.synced = data.synced,
           data'.pc \in Stopping <=> data.pc \in Stopping
    PROVE  Shake'
<1>2. data.cmds \in Seq(Commands)
  BY ShakeTyped
<1>4. /\ \A i \in DOMAIN data'.cmds : \E j \in DOMAIN data.cmds : data'.cmds[i] = data.cmds[j]
      /\ Single(data.cmds) => Single(data'.cmds)
  <2>1. CASE data'.cmds = data.cmds
    BY <2>1
  <2>2. CASE data.cmds # <<>> /\ data'.cmds = Tail(data.cmds)
    <3>1. \A i \in DOMAIN data'.cmds : \E j \in DOMAIN data.cmds : data'.cmds[i] = data.cmds[j]
      BY <1>2, <2>2, CommandsTaken
    <3>2. Single(data.cmds) => Single(data'.cmds)
      BY <1>2, <2>2, CommandsTaken
    <3> QED  BY <3>1, <3>2
  <2> QED  BY <2>1, <2>2
<1>5. Handshake(data.cmds, data.pc, data.synced, def, sm.pc, sm.state)
  BY ShakeIs
<1>6. Handshake(data'.cmds, data'.pc, data'.synced, def', sm'.pc, sm'.state)
  BY <1>4, <1>5 DEF Handshake
<1> QED  BY <1>6, ShakeNext

\* Every step keeps the handshake of START and STOP.
LEMMA ShakeKept ==
    ASSUME Typed, Shake, Next
    PROVE  Shake'
<1>1. /\ data \in DataStates /\ data.cmds \in Seq(Commands) /\ sm \in SmStates
      /\ data.synced \in BOOLEAN
      /\ Handshake(data.cmds, data.pc, data.synced, def, sm.pc, sm.state)
  BY ShakeTyped, ShakeIs
<1>2. SUFFICES \/ Shake'
               \/ Handshake(data'.cmds, data'.pc, data'.synced, def', sm'.pc, sm'.state)
  BY ShakeNext
<1>3. CASE SrcSend \/ RepSend
  BY <1>3, ShakeSent DEF SrcSend, RepSend
<1>4. CASE processJpegEvt
  <2>1. sm.pc = "idle" /\ sm.state = "PIC_TAKING"
    BY <1>4 DEF processJpegEvt, Event
  <2>2. sm'.pc = "notify" /\ sm'.state = sm.state /\ def' = def
    BY <1>1, <1>4 DEF processJpegEvt, SmStates
  <2>3. CASE data' = sendCmd(data, DO_NEXT_JOB)
    BY <2>1, <2>2, <2>3, ShakeSent
  <2>4. CASE data' = data
    BY <1>1, <2>1, <2>2, <2>4 DEF Handshake
  <2> QED  BY <1>4, <2>3, <2>4 DEF processJpegEvt
<1>5. CASE sendDataNotify
  <2>1. sm.pc = "notify" /\ sm'.pc = "idle" /\ sm'.state = sm.state
    BY <1>1, <1>5 DEF sendDataNotify, SmStates
  <2> QED  BY <1>5, <2>1, ShakeSent DEF sendDataNotify
<1>6. CASE DataStart \/ DataStop
  <2>0. data.cmds # <<>> /\ Turn(Head(data.cmds))
    BY <1>6 DEF DataStart, DataStop, NextCmd, Turn
  <2>1. Calm(Tail(data.cmds)) /\ \E j \in DOMAIN data.cmds : data.cmds[j] = Head(data.cmds)
    BY <1>1, <2>0, CommandsTaken DEF Handshake
  <2>2. data'.cmds = Tail(data.cmds) /\ def' = def /\ sm' = sm
    BY <1>1, <1>6 DEF DataStart, DataStop, DataStates
  <2>3. CASE DataStart
    <3>1. /\ data'.pc = "idle" /\ data'.synced = TRUE /\ data.pc = "idle"
          /\ Head(data.cmds) = "START_DATA_PROC"
      BY <1>1, <2>3 DEF DataStart, DataStates, NextCmd
    <3> QED  BY <1>1, <2>1, <2>2, <3>1 DEF Handshake, Calm, Turn, Single, Stopping
  <2>4. CASE DataStop
    <3>1. /\ data'.pc = "cancel" /\ data'.synced = data.synced
          /\ Head(data.cmds) = "STOP_DATA_PROC"
      BY <1>1, <2>4 DEF DataStop, DataStates, NextCmd
    <3> QED  BY <1>1, <2>1, <2>2, <3>1 DEF Handshake, Calm, Turn, Single, Stopping
  <2> QED  BY <1>6, <2>3, <2>4
<1>7. CASE CancelJob \/ ReleaseJob \/ DestroySession \/ FlushOngoingPP \/ FlushInputJpeg
  <2>1. /\ data'.cmds = data.cmds /\ data'.synced = data.synced
        /\ data'.pc \in Stopping /\ data.pc \in Stopping
    BY <1>1, <1>7 DEF CancelJob, ReleaseJob, DestroySession, FlushOngoingPP, FlushInputJpeg,
                      DataStates, Stopping
  <2>2. def' = def /\ sm' = sm
    BY <1>7 DEF CancelJob, ReleaseJob, DestroySession, FlushOngoingPP, FlushInputJpeg, Flush
  <2> QED  BY <2>1, <2>2, ShakeGoes
<1>8. CASE FlushInputPP
  <2>1. /\ data'.cmds = data.cmds /\ data'.synced = TRUE
        /\ data'.pc = "idle" /\ data.pc = "flush_inPP"
    BY <1>1, <1>8 DEF FlushInputPP, DataStates
  <2>2. def' = def /\ sm' = sm
    BY <1>8 DEF FlushInputPP, Flush
  <2> QED  BY <1>1, <2>1, <2>2 DEF Handshake, Stopping
<1>9. CASE NextJob \/ NoJob_Stopped \/ encodeData \/ StoreJobId \/ EncodeRefused \/ doReprocess
  <2>1. \/ data.cmds # <<>> /\ data'.cmds = Tail(data.cmds)
        \/ data'.cmds = data.cmds
    BY <1>1, <1>9 DEF NextJob, NoJob_Stopped, encodeData, StoreJobId, EncodeRefused, doReprocess,
                      DataStates, NextCmd
  <2>2. data'.synced = data.synced /\ data'.pc \notin Stopping /\ data.pc \notin Stopping
    BY <1>1, <1>9 DEF NextJob, NoJob_Stopped, encodeData, StoreJobId, EncodeRefused, doReprocess,
                      DataStates, Stopping
  <2>3. def' = def /\ sm'.pc = sm.pc /\ sm'.state = sm.state
    BY <1>1, <1>9 DEF NextJob, NoJob_Stopped, encodeData, StoreJobId, EncodeRefused, doReprocess,
                      SmStates
  <2> QED  BY <2>1, <2>2, <2>3, ShakeGoes
<1>10. CASE StartPostproc
  <2>0. data.cmds \in Seq(Commands) /\ Calm(data.cmds) /\ "START_DATA_PROC" \in Commands
    BY <1>1, <1>10 DEF StartPostproc, Calm, Turn, Handshake, Commands
  <2>1. /\ data'.cmds = Append(data.cmds, "START_DATA_PROC")
        /\ data'.synced = data.synced /\ data'.pc = data.pc
    BY <1>1, <1>10 DEF StartPostproc, sendCmd, DataStates
  <2>2. /\ Single(data'.cmds)
        /\ \A i \in DOMAIN data'.cmds : \/ data'.cmds[i] = "START_DATA_PROC"
                                        \/ \E j \in DOMAIN data.cmds : data'.cmds[i] = data.cmds[j]
    <3>1. Single(data'.cmds)
      BY <2>0, <2>1, CommandsSent
    <3>2. \A i \in DOMAIN data'.cmds : \/ data'.cmds[i] = "START_DATA_PROC"
                                        \/ \E j \in DOMAIN data.cmds : data'.cmds[i] = data.cmds[j]
      BY <2>0, <2>1, CommandsSent
    <3> QED  BY <3>1, <3>2
  <2>3. def = "start" /\ def' = "wait" /\ sm' = sm
    BY <1>10 DEF StartPostproc
  <2> QED  BY <1>1, <2>0, <2>1, <2>2, <2>3 DEF Handshake, Calm, Turn
<1>11. CASE StartSnapshots
  <2>1. /\ data'.cmds = data.cmds /\ data'.synced = FALSE /\ data'.pc = data.pc
        /\ data.synced = TRUE
    BY <1>1, <1>11 DEF StartSnapshots, DataStates
  <2>2. def = "wait" /\ def' = "jpeg_session" /\ sm' = sm
    BY <1>11 DEF StartSnapshots
  <2> QED  BY <1>1, <2>1, <2>2 DEF Handshake
<1>12. CASE createJpegSession
  <2>1. data'.cmds = data.cmds /\ data'.synced = data.synced /\ data'.pc = data.pc
    BY <1>1, <1>12 DEF createJpegSession, DataStates
  <2>2. def = "jpeg_session" /\ def' = "idle" /\ sm' = sm
    BY <1>12 DEF createJpegSession
  <2> QED  BY <1>1, <2>1, <2>2 DEF Handshake
<1>13. CASE takePicture
  <2>1. sm.pc = "idle" /\ sm.state = "PREVIEWING" /\ sm'.pc = "idle" /\ sm'.state = "PIC_TAKING"
    BY <1>1, <1>13 DEF takePicture, Request, Taken, SmStates
  <2>2. data' = data
    BY <1>13 DEF takePicture, ppVars
  <2> QED  BY <1>1, <2>1, <2>2 DEF Handshake
<1>14. CASE CancelPicture \/ SnapshotDone
  <2>0. /\ def = "idle" /\ sm.pc = "idle" /\ sm.state = "PIC_TAKING"
        /\ data' = sendCmdFirst(data, "STOP_DATA_PROC") /\ def' = def
    BY <1>14 DEF CancelPicture, SnapshotDone, StopPostproc, Request, Event
  <2>1. sm'.pc = "wait" /\ sm'.state = "PIC_TAKING"
    BY <1>1, <1>14 DEF CancelPicture, SnapshotDone, StopPostproc, Taken, SmStates
  <2>2. data.cmds \in Seq(Commands) /\ Calm(data.cmds) /\ "STOP_DATA_PROC" \in Commands
    BY <1>1, <2>0 DEF Calm, Turn, Handshake, Commands
  <2>3. /\ data'.cmds = <<"STOP_DATA_PROC">> \o data.cmds
        /\ data'.synced = data.synced /\ data'.pc = data.pc
    BY <1>1, <2>0 DEF sendCmdFirst, DataStates
  <2>4. /\ Single(data'.cmds)
        /\ \A i \in DOMAIN data'.cmds : \/ data'.cmds[i] = "STOP_DATA_PROC"
                                        \/ \E j \in DOMAIN data.cmds : data'.cmds[i] = data.cmds[j]
    <3>1. Single(data'.cmds)
      BY <2>2, <2>3, CommandsSent
    <3>2. \A i \in DOMAIN data'.cmds : \/ data'.cmds[i] = "STOP_DATA_PROC"
                                        \/ \E j \in DOMAIN data.cmds : data'.cmds[i] = data.cmds[j]
      BY <2>2, <2>3, CommandsSent
    <3> QED  BY <3>1, <3>2
  <2> QED  BY <1>1, <2>0, <2>1, <2>2, <2>3, <2>4 DEF Handshake, Calm, Turn
<1>15. CASE StopReprocess
  <2>1. /\ data'.cmds = data.cmds /\ data'.synced = FALSE /\ data'.pc = data.pc
        /\ data.synced = TRUE
    BY <1>1, <1>15 DEF StopReprocess, DataStates
  <2>2. def' = def /\ sm.pc = "wait" /\ sm'.pc = "channel" /\ sm'.state = sm.state
    BY <1>1, <1>15 DEF StopReprocess, SmStates
  <2> QED  BY <1>1, <2>1, <2>2 DEF Handshake
<1>16. CASE StopChannel
  <2>1. data' = data /\ def' = def /\ sm.pc = "channel" /\ sm'.pc = "idle" /\ sm'.state = "PREVIEWING"
    BY <1>1, <1>16 DEF StopChannel, SmStates, ppVars
  <2> QED  BY <1>1, <2>1 DEF Handshake
<1>17. CASE NothingToCancel \/ stopCaptureChannel \/ AppTake \/ AppCancel
  <2>1. data' = data /\ def' = def /\ sm'.pc = sm.pc /\ sm'.state = sm.state
    BY <1>1, <1>17 DEF NothingToCancel, stopCaptureChannel, AppTake, AppCancel, Taken, SmStates, ppVars
  <2> QED  BY <1>1, <2>1
<1>18. CASE UNCHANGED <<data, def, sm>>
  BY <1>1, <1>18
<1> QED  BY <1>3, <1>4, <1>5, <1>6, <1>7, <1>8, <1>9, <1>10, <1>11, <1>12, <1>13, <1>14, <1>15,
            <1>16, <1>17, <1>18, DataSteps, DefSmSteps
         DEF DataStep, DataThread, DefStep, SmStep

-----------------------------------------------------------------------------
(* The phases of a capture                                                 *)

\* Flushing an empty queue.
LEMMA FlushEmpty ==
    ASSUME NEW T, NEW S
    PROVE  flushNodes(<<>>, S) = <<>>
<1> DEFINE s == <<>>
           t == flushNodes(s, S)
<1>1. s \in Seq(T) /\ DOMAIN s = {}
  OBVIOUS
<1> HIDE DEF s, t
<1>2. t \in Seq(T)
  BY <1>1, FlushIs DEF t
<1>3. \A k \in DOMAIN t : \E j \in DOMAIN s \ S : t[k] = s[j]
  BY <1>1, FlushIs DEF t
<1>4. DOMAIN t = {}
  BY <1>1, <1>3
<1>5. t = <<>>
  BY <1>2, <1>4
<1> QED  BY <1>5 DEF s, t

\* The threads of mm-jpeg-interface.
LEMMA PhasesEncoder ==
    ASSUME Typed, Phases, Encoding, JpegThreads \/ JpegFails
    PROVE  Phases'
<1>1. UNCHANGED <<q, open, data, src, rep, def, sm>>
  BY DEF JpegThreads, JpegFails, NotPP, ppVars
<1>2. session \in Sessions
  BY DEF Typed, TypedJpeg
<1>3. /\ todo = <<>> => todo' = <<>>
      /\ client = "out" => client' = "out"
      /\ ~session.active => ~session'.active
  <2>1. CASE ManagerWakes \/ ManagerIdle \/ EncodeFails \/ Encoded("DONE") \/ Encoded("ERROR")
    BY <1>2, <2>1 DEF ManagerWakes, ManagerIdle, EncodeFails, Encoded, Sessions
  <2>2. CASE ManagerEncodes
    BY <1>2, <2>2 DEF ManagerEncodes, Sessions
  <2>3. CASE JobRemoved \/ JobDone \/ EncoderStops \/ session_abort
    BY <1>2, <2>3 DEF JobRemoved, JobDone, EncoderStops, session_abort, Sessions
  <2>4. CASE SessionAborted
    BY <1>2, <2>4 DEF SessionAborted, NoSession
  <2> QED  BY <2>1, <2>2, <2>3, <2>4 DEF JpegThreads, JpegFails, Manager, Encoder, Abort
<1> QED  BY <1>1, <1>3 DEF Phases, AtRest, Waiting, NoReprocess, Shut, Going, ClosedEmpty,
            Flushing, Resting, Ending, Empty, AllOpen, AllClosed

\* The source channel.
LEMMA PhasesSource ==
    ASSUME Typed, Phases, Asked, SrcFrame \/ processData \/ SrcSend
    PROVE  Phases'
<1>1. /\ data \in DataStates /\ src \in SrcStates /\ q \in Queues /\ sc.reproc \in BOOLEAN
      /\ src.seen \in Nat
  BY ShakeTyped, ScenarioIs, AskedIs DEF Typed
<1>2. CASE SrcFrame
  BY <1>1, <1>2 DEF SrcFrame, Asked, SrcStates, ppVars, jpegVars,
         Phases, AtRest, Waiting, NoReprocess, Shut, Going, ClosedEmpty,
         Flushing, Resting, Ending, Empty, AllOpen, AllClosed
<1>3. CASE processData
  <2>1. UNCHANGED <<todo, session, client, open, data, rep, def, sm>>
    BY <1>3 DEF processData, jpegVars
  <2>2. src.pc = "process" /\ def \in {"jpeg_session", "idle"} /\ src'.pc # "process"
    BY <1>1, <1>3 DEF processData, SrcStates
  <2>3. ~Resting \/ AllClosed
    BY <2>2 DEF Resting, Phases, Shut, Ending
  <2>4. /\ AllClosed => q' = q
        /\ q'.onPP = q.onPP /\ q'.onJpeg = q.onJpeg
        /\ ~open.inPP => q'.inPP = q.inPP
        /\ ~open.inJpeg => q'.inJpeg = q.inJpeg
    BY <1>1, <1>3 DEF processData, AllClosed, Queues
  <2>5. src'.seen = src.seen /\ src'.due = src.due
    BY <1>1, <1>3 DEF processData, SrcStates
  <2> QED  BY <2>1, <2>2, <2>3, <2>4, <2>5
           DEF Phases, AtRest, Waiting, NoReprocess, Shut, Going, ClosedEmpty,
               Flushing, Resting, Ending, Empty, AllOpen, AllClosed
<1>4. CASE SrcSend
  <2>1. UNCHANGED <<todo, session, client, q, open, rep, def, sm>>
    BY <1>4 DEF SrcSend, jpegVars
  <2>2. /\ data'.pc = data.pc /\ data'.active = data.active /\ data'.newSess = data.newSess
        /\ data'.synced = data.synced
    BY <1>1, <1>4 DEF SrcSend, sendCmd, DataStates
  <2>3. src'.seen = src.seen /\ src'.due = src.due /\ src'.pc = "idle"
    BY <1>1, <1>4 DEF SrcSend, SrcStates
  <2> QED  BY <2>1, <2>2, <2>3
           DEF Phases, AtRest, Waiting, NoReprocess, Shut, Going, ClosedEmpty,
               Flushing, Resting, Ending, Empty, AllOpen, AllClosed
<1> QED  BY <1>2, <1>3, <1>4

\* The reprocess channel.
LEMMA PhasesReprocess ==
    ASSUME Typed, Phases, RepThread
    PROVE  Phases'
<1>1. data \in DataStates /\ rep \in RepStates /\ q \in Queues
  BY ShakeTyped
<1>2. CASE RepFrame
  <2>1. UNCHANGED <<todo, session, client, q, open, data, src, def, sm>>
    BY <1>2 DEF RepFrame, jpegVars, ppVars
  <2>2. rep.owed # <<>> /\ def = "idle"
    BY <1>2 DEF RepFrame
  <2> QED  BY <2>1, <2>2
           DEF Phases, AtRest, Waiting, NoReprocess, Shut, Going, ClosedEmpty,
               Flushing, Resting, Ending, Empty, AllOpen, AllClosed
<1>3. CASE FindPPJob \/ EnqueueJpeg
  <2>1. UNCHANGED <<todo, session, client, open, data, src, def, sm>>
    BY <1>3 DEF FindPPJob, EnqueueJpeg, jpegVars
  <2>2. rep.pc # "idle"
    BY <1>3 DEF FindPPJob, EnqueueJpeg
  <2>3. ~Resting \/ AllClosed
    BY <2>2 DEF Resting, Phases, NoReprocess, Shut, Ending
  <2>4. /\ q.onPP = <<>> => q'.onPP = <<>>
        /\ q'.onJpeg = q.onJpeg /\ q'.inPP = q.inPP
        /\ ~open.inJpeg => q'.inJpeg = q.inJpeg
    BY <1>1, <1>3 DEF FindPPJob, EnqueueJpeg, Queues
  <2> QED  BY <2>1, <2>2, <2>3, <2>4
           DEF Phases, AtRest, Waiting, NoReprocess, Shut, Going, ClosedEmpty,
               Flushing, Resting, Ending, Empty, AllOpen, AllClosed
<1>4. CASE RepSend
  <2>1. UNCHANGED <<todo, session, client, q, open, src, def, sm>>
    BY <1>4 DEF RepSend, jpegVars
  <2>2. /\ data'.pc = data.pc /\ data'.active = data.active /\ data'.newSess = data.newSess
        /\ data'.synced = data.synced
    BY <1>1, <1>4 DEF RepSend, sendCmd, DataStates
  <2>3. rep'.owed = rep.owed /\ rep'.pc = "idle"
    BY <1>1, <1>4 DEF RepSend, RepStates
  <2> QED  BY <2>1, <2>2, <2>3
           DEF Phases, AtRest, Waiting, NoReprocess, Shut, Going, ClosedEmpty,
               Flushing, Resting, Ending, Empty, AllOpen, AllClosed
<1> QED  BY <1>2, <1>3, <1>4 DEF RepThread

\* The data thread: it starts, stops and flushes, ...
LEMMA PhasesStop ==
    ASSUME Typed, Phases, Shake, Encoding,
           \/ DataStart \/ DataStop \/ CancelJob \/ ReleaseJob \/ DestroySession
           \/ FlushOngoingPP \/ FlushInputJpeg \/ FlushInputPP
    PROVE  Phases'
<1>1. /\ data \in DataStates /\ q \in Queues /\ open \in Opened
      /\ data.synced \in BOOLEAN /\ data.active \in BOOLEAN
      /\ Handshake(data.cmds, data.pc, data.synced, def, sm.pc, sm.state)
      /\ session \in Sessions
  BY ShakeTyped, ShakeIs DEF Typed, TypedJpeg
<1>2. UNCHANGED <<src, rep, def, sm>>
  BY DEF DataStart, DataStop, CancelJob, ReleaseJob, DestroySession, FlushOngoingPP,
         FlushInputJpeg, FlushInputPP, Flush
<1>3. CASE DataStart \/ DataStop
  <2>0. data.cmds # <<>> /\ data.cmds \in Seq(Commands) /\ UNCHANGED <<todo, session, client, q>>
    BY <1>1, <1>3 DEF DataStart, DataStop, NextCmd, DataStates, jpegVars
  <2>1. \E j \in DOMAIN data.cmds : data.cmds[j] = Head(data.cmds)
    BY <2>0, CommandsTaken
  <2>2. CASE DataStart
    <3>1. def = "wait" /\ ~data.synced /\ sm.pc \notin {"wait", "channel"} /\ sm.state = "PIC_TAKING"
      BY <1>1, <2>1, <2>2 DEF DataStart, NextCmd, Handshake
    <3>2. /\ data'.pc = "idle" /\ data'.active = TRUE /\ data'.synced = TRUE
          /\ open'.inPP = TRUE /\ open'.onPP = TRUE /\ open'.inJpeg = TRUE
      BY <1>1, <2>2 DEF DataStart, DataStates
    <3> QED  BY <1>2, <2>0, <3>1, <3>2
           DEF Phases, AtRest, Waiting, NoReprocess, Shut, Going, ClosedEmpty,
               Flushing, Resting, Ending, Empty, AllOpen, AllClosed, Stopping
  <2>3. CASE DataStop
    <3>1. sm.pc = "wait" /\ ~data.synced /\ def = "idle" /\ sm.state = "PIC_TAKING"
      BY <1>1, <2>1, <2>3 DEF DataStop, NextCmd, Handshake
    <3>2. /\ data'.pc = "cancel" /\ data'.active = FALSE /\ data'.synced = data.synced
          /\ open' = open
      BY <1>1, <2>3 DEF DataStop, DataStates
    <3> QED  BY <1>2, <2>0, <3>1, <3>2
           DEF Phases, AtRest, Waiting, NoReprocess, Shut, Going, ClosedEmpty,
               Flushing, Resting, Ending, Empty, AllOpen, AllClosed, Stopping
  <2> QED  BY <1>3, <2>2, <2>3
<1>4. CASE ~DataStart /\ ~DataStop
  <2>1. data.pc \in Stopping
    BY <1>4 DEF CancelJob, ReleaseJob, DestroySession, FlushOngoingPP, FlushInputJpeg,
                FlushInputPP, Stopping
  <2>2. sm.pc = "wait" /\ ~data.synced /\ def = "idle" /\ sm.state = "PIC_TAKING" /\ ~data.active
    BY <1>1, <2>1 DEF Handshake, Phases, Going
  <2>3. data'.active = data.active
    BY <1>1, <1>4 DEF CancelJob, ReleaseJob, DestroySession, FlushOngoingPP, FlushInputJpeg,
                      FlushInputPP, DataStates
  <2>4. CASE CancelJob \/ ReleaseJob
    <3>1. data'.pc \in {"cancel", "release"} /\ data'.synced = data.synced /\ open' = open
      BY <1>1, <2>4 DEF CancelJob, ReleaseJob, DataStates
    <3>2. q'.inPP = q.inPP /\ q'.onPP = q.onPP /\ q'.inJpeg = q.inJpeg
      BY <1>1, <2>4 DEF CancelJob, ReleaseJob, Queues
    <3> QED  BY <1>2, <2>2, <2>3, <3>1, <3>2
           DEF Phases, AtRest, Waiting, NoReprocess, Shut, Going, ClosedEmpty,
               Flushing, Resting, Ending, Empty, AllOpen, AllClosed
  <2>5. CASE DestroySession
    <3>1. data'.pc = "flush_onPP" /\ data'.synced = data.synced /\ open' = open /\ q' = q
          /\ q.onJpeg = <<>>
      BY <1>1, <2>5 DEF DestroySession, DataStates
    <3>2. todo' = <<>>
      BY <2>5 DEF DestroySession, destroy_session, Encoding, jpegVars
    <3> QED  BY <1>2, <2>2, <2>3, <3>1, <3>2
           DEF Phases, AtRest, Waiting, NoReprocess, Shut, Going, ClosedEmpty,
               Flushing, Resting, Ending, Empty, AllOpen, AllClosed
  <2>6. CASE FlushOngoingPP
    <3>1. /\ data.pc = "flush_onPP" /\ data'.pc = "flush_inJpeg" /\ data'.synced = data.synced
          /\ client = "out" /\ ~session.active /\ UNCHANGED <<client, session, todo>>
      BY <1>1, <2>6 DEF FlushOngoingPP, Flush, DataStates, Encoding, jpegVars
    <3>2. /\ q'.inPP = q.inPP /\ q'.onPP = <<>> /\ q'.inJpeg = q.inJpeg /\ q'.onJpeg = q.onJpeg
          /\ open'.inPP = open.inPP /\ open'.onPP = FALSE /\ open'.inJpeg = open.inJpeg
      BY <1>1, <2>6 DEF FlushOngoingPP, Flush, Queues, Opened
    <3> QED  BY <1>2, <2>2, <2>3, <3>1, <3>2
           DEF Phases, AtRest, Waiting, NoReprocess, Shut, Going, ClosedEmpty,
               Flushing, Resting, Ending, Empty, AllOpen, AllClosed
  <2>7. CASE FlushInputJpeg
    <3>1. /\ data.pc = "flush_inJpeg" /\ data'.pc = "flush_inPP" /\ data'.synced = data.synced
          /\ UNCHANGED <<client, session, todo>>
      BY <1>1, <2>7 DEF FlushInputJpeg, Flush, DataStates, jpegVars
    <3>2. /\ q'.inPP = q.inPP /\ q'.onPP = q.onPP /\ q'.inJpeg = <<>> /\ q'.onJpeg = q.onJpeg
          /\ open'.inPP = open.inPP /\ open'.onPP = open.onPP /\ open'.inJpeg = FALSE
      BY <1>1, <2>7 DEF FlushInputJpeg, Flush, Queues, Opened
    <3> QED  BY <1>2, <2>2, <2>3, <3>1, <3>2
           DEF Phases, AtRest, Waiting, NoReprocess, Shut, Going, ClosedEmpty,
               Flushing, Resting, Ending, Empty, AllOpen, AllClosed
  <2>8. CASE FlushInputPP
    <3>1. /\ data.pc = "flush_inPP" /\ data'.pc = "idle" /\ data'.synced = TRUE
          /\ data'.newSess = TRUE /\ UNCHANGED <<client, session, todo>>
      BY <1>1, <2>8 DEF FlushInputPP, Flush, DataStates, jpegVars
    <3>2. /\ q'.inPP = <<>> /\ q'.onPP = q.onPP /\ q'.inJpeg = q.inJpeg /\ q'.onJpeg = q.onJpeg
          /\ open'.inPP = FALSE /\ open'.onPP = open.onPP /\ open'.inJpeg = open.inJpeg
      BY <1>1, <2>8 DEF FlushInputPP, Flush, Queues, Opened
    <3> QED  BY <1>2, <2>2, <2>3, <3>1, <3>2
           DEF Phases, AtRest, Waiting, NoReprocess, Shut, Going, ClosedEmpty,
               Flushing, Resting, Ending, Empty, AllOpen, AllClosed, Stopping
  <2> QED  BY <1>4, <2>4, <2>5, <2>6, <2>7, <2>8
<1> QED  BY <1>3, <1>4

\* ... and works.
LEMMA PhasesWork ==
    ASSUME Typed, Phases, Shake,
           NextJob \/ NoJob_Stopped \/ encodeData \/ StoreJobId \/ EncodeRefused \/ doReprocess
    PROVE  Phases'
<1>1. /\ data \in DataStates /\ q \in Queues /\ sm \in SmStates
      /\ data.synced \in BOOLEAN /\ data.active \in BOOLEAN
      /\ Handshake(data.cmds, data.pc, data.synced, def, sm.pc, sm.state)
      /\ session \in Sessions
  BY ShakeTyped, ShakeIs DEF Typed, TypedJpeg
<1>2. UNCHANGED <<src, def, open>>
  BY DEF NextJob, NoJob_Stopped, encodeData, StoreJobId, EncodeRefused, doReprocess
<1>3. /\ data'.synced = data.synced /\ data'.active = data.active
      /\ sm'.pc = sm.pc /\ sm'.state = sm.state
  BY <1>1 DEF NextJob, NoJob_Stopped, encodeData, StoreJobId, EncodeRefused, doReprocess,
              DataStates, SmStates
<1>4. CASE NoJob_Stopped
  <2>1. data'.pc = data.pc /\ data'.newSess = data.newSess /\ UNCHANGED <<q, rep, todo, session, client>>
    BY <1>1, <1>4 DEF NoJob_Stopped, DataStates, jpegVars
  <2> QED  BY <1>2, <1>3, <2>1
           DEF Phases, AtRest, Waiting, NoReprocess, Shut, Going, ClosedEmpty,
               Flushing, Resting, Ending, Empty, AllOpen, AllClosed
<1>5. CASE ~NoJob_Stopped
  <2>1. data.active /\ ~Resting /\ AllOpen /\ data.pc \notin Stopping
    <3>1. data.active
      BY <1>5 DEF NextJob, encodeData, StoreJobId, EncodeRefused, doReprocess, Phases, Going
    <3> QED  BY <3>1 DEF Phases, Going, AtRest
  <2>2. ~Resting' /\ AllOpen'
    BY <1>2, <1>3, <2>1 DEF Resting, AllOpen
  <2>3. CASE NextJob
    <3>1. CASE q.inJpeg # <<>>
      <4>1. def # "wait"
        BY <3>1 DEF Phases, Waiting, Empty
      <4>2. data'.pc = "encode" /\ UNCHANGED rep
        BY <1>1, <2>3, <3>1 DEF NextJob, DataStates
      <4> QED  BY <1>2, <1>3, <2>1, <2>2, <4>1, <4>2
           DEF Phases, AtRest, Waiting, NoReprocess, Shut, Going, ClosedEmpty,
               Flushing, Ending, AllOpen, AllClosed, Stopping
    <3>2. CASE q.inJpeg = <<>>
      <4>1. data'.pc = "reprocess" /\ UNCHANGED <<rep, q>>
        BY <1>1, <2>3, <3>2 DEF NextJob, DataStates
      <4> QED  BY <1>2, <1>3, <2>1, <2>2, <4>1
           DEF Phases, AtRest, Waiting, NoReprocess, Shut, Going, ClosedEmpty,
               Flushing, Ending, AllOpen, AllClosed, Stopping, Empty
    <3> QED  BY <3>1, <3>2
  <2>4. CASE encodeData \/ StoreJobId \/ EncodeRefused
    <3>1. def # "wait"
      BY <2>4 DEF Phases, Waiting, encodeData, StoreJobId, EncodeRefused
    <3>2. data'.pc \in {"store", "reprocess"} /\ UNCHANGED rep
      BY <1>1, <2>4 DEF encodeData, StoreJobId, EncodeRefused, DataStates
    <3> QED  BY <1>2, <1>3, <2>1, <2>2, <3>1, <3>2
           DEF Phases, AtRest, Waiting, NoReprocess, Shut, Going, ClosedEmpty,
               Flushing, Ending, AllOpen, AllClosed, Stopping
  <2>5. CASE doReprocess
    <3>1. data'.pc = "idle"
      BY <1>1, <2>5 DEF doReprocess, DataStates
    <3>2. q.inPP = <<>> => UNCHANGED <<q, rep>>
      BY <2>5 DEF doReprocess
    <3>3. def \in {"start", "wait"} => q.inPP = <<>>
      BY <2>1 DEF Phases, Waiting, Empty, Resting
    <3> QED  BY <1>2, <1>3, <2>1, <2>2, <3>1, <3>2, <3>3
           DEF Phases, AtRest, Waiting, NoReprocess, Shut, Going, ClosedEmpty,
               Flushing, Ending, AllOpen, AllClosed, Stopping, Resting, Empty
  <2> QED  BY <1>5, <2>3, <2>4, <2>5
<1> QED  BY <1>4, <1>5

\* The deferred thread.
LEMMA PhasesDeferred ==
    ASSUME Typed, Phases, Shake, DefThread
    PROVE  Phases'
<1>1. /\ data \in DataStates /\ data.synced \in BOOLEAN /\ session \in Sessions
      /\ Handshake(data.cmds, data.pc, data.synced, def, sm.pc, sm.state)
  BY ShakeTyped, ShakeIs DEF Typed, TypedJpeg
<1>2. UNCHANGED <<q, open, src, rep, sm, todo, client>>
  BY DEF DefThread, StartPostproc, StartSnapshots, createJpegSession, jpegVars
<1>3. data'.pc = data.pc /\ data'.active = data.active
  BY <1>1 DEF DefThread, StartPostproc, StartSnapshots, createJpegSession, sendCmd, DataStates
<1>4. sm.pc \notin {"wait", "channel"} /\ sm.state = "PIC_TAKING"
  BY <1>1 DEF Handshake, DefThread, StartPostproc, StartSnapshots, createJpegSession
<1>5. CASE StartPostproc
  <2>1. /\ def = "start" /\ def' = "wait" /\ session' = session
        /\ data'.synced = data.synced /\ data'.newSess = data.newSess
    BY <1>1, <1>5 DEF StartPostproc, sendCmd, DataStates, jpegVars
  <2> QED  BY <1>2, <1>3, <1>4, <2>1
           DEF Phases, AtRest, Waiting, NoReprocess, Shut, Going, ClosedEmpty,
               Flushing, Ending, AllOpen, AllClosed, Resting, Empty
<1>6. CASE StartSnapshots
  <2>1. def = "wait" /\ data.synced /\ def' = "jpeg_session" /\ session' = session
    BY <1>1, <1>6 DEF StartSnapshots, DataStates, jpegVars
  <2> QED  BY <1>2, <1>3, <1>4, <2>1
           DEF Phases, AtRest, Waiting, NoReprocess, Shut, Going, ClosedEmpty,
               Flushing, Ending, AllOpen, AllClosed, Resting, Empty
<1>7. CASE createJpegSession
  <2>1. def = "jpeg_session" /\ def' = "idle" /\ data'.synced = data.synced
    BY <1>1, <1>7 DEF createJpegSession, DataStates
  <2>2. data.pc \notin Stopping
    BY <1>1, <2>1, <1>4 DEF Handshake
  <2> QED  BY <1>2, <1>3, <1>4, <2>1, <2>2
           DEF Phases, AtRest, Waiting, NoReprocess, Shut, Going, ClosedEmpty,
               Flushing, Ending, AllOpen, AllClosed, Resting, Empty, Stopping
<1> QED  BY <1>5, <1>6, <1>7 DEF DefThread

\* The state machine.
LEMMA PhasesMachine ==
    ASSUME Typed, Phases, Shake, SmThread \/ AppTake \/ AppCancel
    PROVE  Phases'
<1>1. /\ data \in DataStates /\ data.synced \in BOOLEAN /\ sm \in SmStates /\ src \in SrcStates
      /\ rep \in RepStates /\ q \in Queues
      /\ Handshake(data.cmds, data.pc, data.synced, def, sm.pc, sm.state)
  BY ShakeTyped, ShakeIs DEF Typed, TypedJpeg
<1>2. UNCHANGED <<open, todo, session, client>>
  BY DEF SmThread, AppTake, AppCancel, takePicture, CancelPicture, SnapshotDone, StopPostproc,
         StopReprocess, StopChannel, NothingToCancel, NothingToEnd, stopCaptureChannel,
         processJpegEvt, sendDataNotify, JpegEvtDropped, OnlyEvtQueue, jpegVars, ppVars
<1>3. /\ data'.pc = data.pc /\ data'.active = data.active /\ data'.newSess = data.newSess
  <2>1. \/ data' = data \/ data' = sendCmdFirst(data, "STOP_DATA_PROC")
        \/ data' = sendCmd(data, DO_NEXT_JOB) \/ data' = [data EXCEPT !.synced = FALSE]
    BY DEF SmThread, AppTake, AppCancel, takePicture, CancelPicture, SnapshotDone, StopPostproc,
         StopReprocess, StopChannel, NothingToCancel, NothingToEnd, stopCaptureChannel,
         processJpegEvt, sendDataNotify, JpegEvtDropped, ppVars
  <2> QED  BY <1>1, <2>1 DEF sendCmd, sendCmdFirst, DataStates
<1>4. CASE takePicture
  <2>1. /\ sm.state = "PREVIEWING" /\ sm.pc = "idle" /\ sm'.pc = "idle" /\ sm'.state = "PIC_TAKING"
        /\ def' = "start" /\ UNCHANGED <<q, rep, data>>
    BY <1>1, <1>4 DEF takePicture, Request, Taken, SmStates, ppVars
  <2> QED  BY <1>1, <1>2, <1>3, <2>1
           DEF Phases, AtRest, Waiting, NoReprocess, Shut, Going, ClosedEmpty,
               Flushing, Ending, AllOpen, AllClosed, Resting, Empty, Handshake
<1>5. CASE CancelPicture \/ SnapshotDone
  <2>0. /\ def = "idle" /\ sm.pc = "idle" /\ sm.state = "PIC_TAKING"
        /\ data' = sendCmdFirst(data, "STOP_DATA_PROC") /\ UNCHANGED <<q, rep, src, def>>
    BY <1>5 DEF CancelPicture, SnapshotDone, StopPostproc, Request, Event
  <2>1. sm'.pc = "wait" /\ sm'.state = "PIC_TAKING" /\ data'.synced = data.synced
    BY <1>1, <1>5, <2>0 DEF CancelPicture, SnapshotDone, StopPostproc, Taken, SmStates,
                            sendCmdFirst, DataStates
  <2>2. ~data.synced
    BY <1>1, <2>0 DEF Handshake
  <2> QED  BY <1>2, <1>3, <2>0, <2>1, <2>2
           DEF Phases, AtRest, Waiting, NoReprocess, Shut, Going, ClosedEmpty,
               Flushing, Ending, AllOpen, AllClosed, Resting, Empty
<1>6. CASE StopReprocess
  <2>1. /\ data.synced /\ data'.synced = FALSE /\ sm.pc = "wait" /\ sm'.pc = "channel"
        /\ sm'.state = sm.state /\ rep.pc = "idle" /\ rep'.pc = "idle" /\ rep'.owed = <<>>
        /\ UNCHANGED <<q, src, def>>
    BY <1>1, <1>6 DEF StopReprocess, DataStates, SmStates, RepStates
  <2>2. def = "idle" /\ sm.state = "PIC_TAKING"
    BY <1>1, <2>1 DEF Handshake
  <2> QED  BY <1>2, <1>3, <2>1, <2>2
           DEF Phases, AtRest, Waiting, NoReprocess, Shut, Going, ClosedEmpty,
               Flushing, Ending, AllOpen, AllClosed, Resting, Empty
<1>7. CASE StopChannel
  <2>1. /\ sm.pc = "channel" /\ sm'.pc = "idle" /\ sm'.state = "PREVIEWING"
        /\ UNCHANGED <<q, rep, def, data>>
    BY <1>1, <1>7 DEF StopChannel, SmStates, ppVars
  <2>2. AllClosed
    <3>1. sm.state = "PIC_TAKING"
      BY <1>1, <2>1 DEF Handshake
    <3> QED  BY <2>1, <3>1 DEF Phases, Shut
  <2>3. def = "idle"
    BY <1>1, <2>1 DEF Handshake
  <2> QED  BY <1>2, <1>3, <2>1, <2>2, <2>3
           DEF Phases, AtRest, Waiting, NoReprocess, Shut, Going, ClosedEmpty,
               Flushing, Ending, AllOpen, AllClosed, Resting, Empty
<1>8. CASE NothingToCancel \/ NothingToEnd \/ stopCaptureChannel \/ JpegEvtDropped
          \/ AppTake \/ AppCancel
  <2>1. /\ sm'.pc = sm.pc /\ sm'.state = sm.state /\ UNCHANGED <<q, rep, def, data>>
    BY <1>1, <1>8 DEF NothingToCancel, NothingToEnd, stopCaptureChannel, JpegEvtDropped, AppTake,
                      AppCancel, Taken, SmStates, ppVars
  <2>2. src'.seen = src.seen /\ src'.due = src.due /\ src'.pc = src.pc
    BY <1>1, <1>8 DEF NothingToCancel, NothingToEnd, stopCaptureChannel, JpegEvtDropped, AppTake,
                      AppCancel, SrcStates
  <2> QED  BY <1>2, <1>3, <2>1, <2>2
           DEF Phases, AtRest, Waiting, NoReprocess, Shut, Going, ClosedEmpty,
               Flushing, Ending, AllOpen, AllClosed, Resting, Empty
<1>9. CASE processJpegEvt \/ sendDataNotify
  <2>1. /\ data'.synced = data.synced /\ UNCHANGED <<src, rep, def>> /\ sm'.state = sm.state
        /\ sm.pc \in {"idle", "notify"} /\ sm'.pc \in {"idle", "notify"}
    BY <1>1, <1>9 DEF processJpegEvt, sendDataNotify, Event, sendCmd, SmStates, DataStates
  <2>2. /\ q'.inPP = q.inPP /\ q'.onPP = q.onPP /\ q'.inJpeg = q.inJpeg
        /\ q.onJpeg = <<>> => q'.onJpeg = <<>>
    <3>1. CASE sendDataNotify
      BY <3>1 DEF sendDataNotify
    <3>2. CASE processJpegEvt
      <4> DEFINE S == {i \in DOMAIN q.onJpeg : q.onJpeg[i].id = Head(evt_queue).id}
      <4>1. q' = [q EXCEPT !.onJpeg = flushNodes(@, S)]
        BY <3>2 DEF processJpegEvt
      <4> HIDE DEF S
      <4>2. q.onJpeg = <<>> => flushNodes(q.onJpeg, S) = <<>>
        BY FlushEmpty
      <4> QED  BY <1>1, <4>1, <4>2 DEF Queues
    <3> QED  BY <1>9, <3>1, <3>2
  <2> QED  BY <1>1, <1>2, <1>3, <2>1, <2>2
           DEF Phases, AtRest, Waiting, NoReprocess, Shut, Going, ClosedEmpty,
               Flushing, Ending, AllOpen, AllClosed, Resting, Empty, Handshake
<1> QED  BY <1>4, <1>5, <1>6, <1>7, <1>8, <1>9 DEF SmThread

\* Every step keeps the phases of a capture.
LEMMA PhasesKept ==
    ASSUME Typed, Asked, Shake, Phases, Encoding, Next
    PROVE  Phases'
<1>1. CASE NtfThread
  <2>1. UNCHANGED <<q, open, data, src, rep, def, sm, todo, session, client>>
    BY <1>1 DEF NtfThread, NtfStart, NtfStop, NtfNothing, NtfError, NtfJpeg, Delivered, ppVars,
                jpegVars, OnlyEvtQueue
  <2> QED  BY <2>1
           DEF Phases, AtRest, Waiting, NoReprocess, Shut, Going, ClosedEmpty,
               Flushing, Ending, AllOpen, AllClosed, Resting, Empty
<1>2. CASE JpegThreads \/ JpegFails
  BY <1>2, PhasesEncoder
<1>3. CASE SrcFrame \/ SrcThread
  BY <1>3, PhasesSource DEF SrcThread
<1>4. CASE RepThread
  BY <1>4, PhasesReprocess
<1>5. CASE DataThread
  BY <1>5, PhasesStop, PhasesWork DEF DataThread
<1>6. CASE DefThread
  BY <1>6, PhasesDeferred
<1>7. CASE SmThread \/ AppTake \/ AppCancel
  BY <1>7, PhasesMachine
<1> QED  BY <1>1, <1>2, <1>3, <1>4, <1>5, <1>6, <1>7 DEF Next

-----------------------------------------------------------------------------
(* The session and its jobs                                                *)

\* The threads of mm-jpeg-interface.
LEMMA EncodingEncoder ==
    ASSUME Typed, Phases, Encoding, JpegThreads \/ JpegFails
    PROVE  Encoding'
<1>1. /\ UNCHANGED <<q, data>> /\ session \in Sessions
      /\ omx \in {"idle", "encoding", "reported", "removed"}
  BY DEF JpegThreads, JpegFails, NotPP, ppVars, Typed, TypedJpeg
<1>2. CASE ManagerWakes \/ ManagerIdle
  BY <1>1, <1>2 DEF ManagerWakes, ManagerIdle, Encoding
<1>3. CASE ManagerEncodes
  BY <1>1, <1>3 DEF ManagerEncodes, Encoding, Sessions
<1>4. CASE EncodeFails
  BY <1>1, <1>4 DEF EncodeFails, Encoding, Sessions
<1>5. CASE Encoded("DONE") \/ Encoded("ERROR")
  BY <1>1, <1>5 DEF Encoded, Encoding, Sessions
<1>6. CASE JobRemoved
  BY <1>1, <1>6 DEF JobRemoved, Encoding, Sessions
<1>7. CASE JobDone
  BY <1>1, <1>7 DEF JobDone, Encoding, Sessions
<1>8. CASE EncoderStops
  BY <1>1, <1>8 DEF EncoderStops, Encoding, Sessions
<1>9. CASE session_abort
  BY <1>1, <1>9 DEF session_abort, Encoding, Sessions
<1>10. CASE SessionAborted
  <2>1. CASE client = "destroy"
    <3>1. todo = <<>>
      BY <2>1 DEF Encoding, Phases, Flushing
    <3>2. /\ session' = NoSession /\ client' = "out" /\ UNCHANGED <<todo, omx>>
          /\ session.abort = "DONE"
      BY <1>10, <2>1 DEF SessionAborted
    <3> QED  BY <1>1, <2>1, <3>1, <3>2 DEF Encoding, NoSession
  <2>2. CASE client # "destroy"
    BY <1>1, <1>10, <2>2 DEF SessionAborted, Encoding
  <2> QED  BY <2>1, <2>2
<1> QED  BY <1>2, <1>3, <1>4, <1>5, <1>6, <1>7, <1>8, <1>9, <1>10
         DEF JpegThreads, JpegFails, Manager, Encoder, Abort

\* The data thread stops.
LEMMA EncodingStop ==
    ASSUME Typed, Shake, Phases, Encoding, Ids,
           \/ DataStop \/ CancelJob \/ ReleaseJob \/ DestroySession
           \/ FlushOngoingPP \/ FlushInputJpeg \/ FlushInputPP
    PROVE  Encoding'
<1>1. data \in DataStates /\ q \in Queues /\ session \in Sessions
  BY ShakeTyped DEF Typed, TypedJpeg
<1>2. UNCHANGED <<session, omx>>
  BY DEF DataStop, CancelJob, ReleaseJob, DestroySession, FlushOngoingPP,
         FlushInputJpeg, FlushInputPP, Flush, abort_job, destroy_session, jpegVars
<1>3. CASE DataStop
  BY <1>1, <1>2, <1>3 DEF DataStop, DataStates, Encoding, jpegVars
<1>4. CASE CancelJob
  <2>1. client = "out" /\ client' \in {"out", "abort"} /\ todo' = Without(todo, Head(q.onJpeg).id)
    BY <1>4 DEF CancelJob, abort_job
  <2>2. todo = <<>> => todo' = <<>>
    <3> SUFFICES ASSUME todo = <<>> PROVE todo' = <<>>
      OBVIOUS
    <3>1. {i \in DOMAIN todo : todo[i].id = Head(q.onJpeg).id} = {}
      OBVIOUS
    <3> QED  BY <2>1, <3>1 DEF Without
  <2>3. /\ data'.pc = "release" /\ data'.newSess = data.newSess /\ data.pc = "cancel"
        /\ q'.inJpeg = q.inJpeg
    BY <1>1, <1>4 DEF CancelJob, DataStates, Queues
  <2> QED  BY <1>2, <2>1, <2>2, <2>3 DEF Encoding
<1>5. CASE ReleaseJob
  BY <1>1, <1>2, <1>5 DEF ReleaseJob, DataStates, Encoding, jpegVars
<1>6. CASE DestroySession
  <2>1. omx # "encoding" /\ client = "out"
    <3>1. q.onJpeg = <<>> /\ data.pc = "cancel"
      BY <1>6 DEF DestroySession
    <3>2. ~Known(session.job) /\ client # "abort"
      BY <3>1 DEF Known, Knows, Encoding
    <3> QED  BY <3>1, <3>2 DEF Ids, Encoding, Typed, TypedJpeg
  <2>2. /\ data'.pc = "flush_onPP" /\ data'.newSess = data.newSess /\ q' = q
    BY <1>1, <1>6 DEF DestroySession, DataStates
  <2>3. \/ todo' = <<>> /\ client' = "destroy"
        \/ UNCHANGED <<todo, client>> /\ ~session.active
    BY <1>6 DEF DestroySession, destroy_session, jpegVars
  <2> QED  BY <1>2, <2>1, <2>2, <2>3 DEF Encoding
<1>7. CASE FlushOngoingPP \/ FlushInputJpeg \/ FlushInputPP
  <2>1. UNCHANGED <<todo, client>>
    BY <1>7 DEF FlushOngoingPP, FlushInputJpeg, FlushInputPP, Flush, jpegVars
  <2>2. ~session.active /\ client = "out"
    BY <1>7 DEF FlushOngoingPP, FlushInputJpeg, FlushInputPP, Phases, Flushing, Encoding
  <2>3. /\ data'.pc \in {"flush_inJpeg", "flush_inPP", "idle"}
        /\ data'.pc = "idle" => data'.newSess
    BY <1>1, <1>7 DEF FlushOngoingPP, FlushInputJpeg, FlushInputPP, DataStates
  <2>4. q'.inJpeg = q.inJpeg \/ q'.inJpeg = <<>>
    BY <1>1, <1>7 DEF FlushOngoingPP, FlushInputJpeg, FlushInputPP, Flush, Queues
  <2> QED  BY <1>2, <2>1, <2>2, <2>3, <2>4 DEF Encoding
<1> QED  BY <1>3, <1>4, <1>5, <1>6, <1>7

\* The data thread works.
LEMMA EncodingWork ==
    ASSUME Typed, Shake, Phases, Encoding,
           \/ DataStart \/ NextJob \/ NoJob_Stopped \/ encodeData \/ StoreJobId
           \/ EncodeRefused \/ doReprocess
    PROVE  Encoding'
<1>1. /\ data \in DataStates /\ q \in Queues /\ session \in Sessions
      /\ q.inJpeg \in Seq(Jobs) /\ q.onJpeg \in Seq(Jobs) /\ q.inPP \in Seq(Jobs)
  BY ShakeTyped, QueuesAre DEF Typed, TypedJpeg
<1>2. CASE DataStart \/ NoJob_Stopped
  BY <1>1, <1>2 DEF DataStart, NoJob_Stopped, DataStates, Encoding, jpegVars
<1>3. CASE NextJob
  <2>1. UNCHANGED <<todo, session, omx, client>>
    BY <1>3 DEF NextJob, jpegVars
  <2>2. CASE q.inJpeg = <<>>
    BY <1>1, <1>3, <2>1, <2>2 DEF NextJob, DataStates, Encoding
  <2>3. CASE q.inJpeg # <<>>
    <3> DEFINE in == Tail(q.inJpeg)
               on == Append(q.onJpeg, Head(q.inJpeg))
               n == Len(q.inJpeg)
    <3>1. /\ in \in Seq(Jobs) /\ Len(in) = n - 1 /\ n \in Nat \ {0}
          /\ Head(q.inJpeg) = q.inJpeg[1] /\ Head(q.inJpeg) \in Jobs
          /\ \A i \in 1 .. n - 1 : in[i] = q.inJpeg[i + 1]
      BY <1>1, <2>3, TailIs
    <3>2. DOMAIN q.inJpeg = 1 .. n /\ DOMAIN in = 1 .. n - 1
      BY <1>1, <3>1, SeqIs
    <3>3. \A i \in DOMAIN in : in[i].id = 0
      BY <3>1, <3>2 DEF Encoding
    <3>4. Head(q.inJpeg).id = 0
      BY <3>1, <3>2 DEF Encoding
    <3>5. on # <<>> /\ on[Len(on)].id = 0
      <4>1. /\ on \in Seq(Jobs) /\ Len(on) = Len(q.onJpeg) + 1 /\ Len(q.onJpeg) \in Nat
            /\ on[Len(q.onJpeg) + 1] = Head(q.inJpeg)
        BY <1>1, <3>1, AppendIs
      <4> HIDE DEF on
      <4>2. on # <<>>
        BY <4>1, SeqIs
      <4> QED  BY <3>4, <4>1, <4>2
    <3>6. q' = [q EXCEPT !.inJpeg = in, !.onJpeg = on]
      BY <1>1, <1>3, <2>3 DEF NextJob, Queues
    <3> HIDE DEF in, on
    <3>7. q'.inJpeg = in /\ q'.onJpeg = on
      BY <1>1, <3>6 DEF Queues
    <3>8. data'.pc = "encode" /\ data'.newSess = data.newSess /\ data.pc = "idle"
      BY <1>1, <1>3, <2>3 DEF NextJob, DataStates
    <3> QED  BY <2>1, <3>3, <3>5, <3>7, <3>8 DEF Encoding
  <2> QED  BY <2>2, <2>3
<1>4. CASE encodeData
  <2>1. /\ session' = IF data.newSess THEN create_session ELSE session
        /\ UNCHANGED <<omx, client, q>> /\ data.pc = "encode"
    BY <1>4 DEF encodeData
  <2>2. data'.pc = "store" /\ data'.newSess = FALSE
    BY <1>1, <1>4 DEF encodeData, DataStates
  <2>3. CASE data.newSess
    <3>1. session' = create_session /\ ~session.active
      BY <2>1, <2>3 DEF Encoding
    <3> QED  BY <2>1, <2>2, <3>1 DEF Encoding, create_session, NoSession
  <2>4. CASE ~data.newSess
    <3>1. session' = session /\ session.active
      BY <2>1, <2>4 DEF Encoding
    <3> QED  BY <2>1, <2>2, <3>1 DEF Encoding
  <2> QED  BY <2>3, <2>4
<1>5. CASE StoreJobId \/ EncodeRefused \/ doReprocess
  <2>1. UNCHANGED <<todo, session, omx, client>>
    BY <1>5 DEF StoreJobId, EncodeRefused, doReprocess, jpegVars
  <2>2. /\ data'.pc \in {"reprocess", "idle"} /\ data'.newSess = data.newSess
        /\ data.pc \in {"encode", "store", "reprocess"}
    BY <1>1, <1>5 DEF StoreJobId, EncodeRefused, doReprocess, DataStates
  <2>3. q'.inJpeg = q.inJpeg
    BY <1>1, <1>5 DEF StoreJobId, EncodeRefused, doReprocess, Queues
  <2> QED  BY <2>1, <2>2, <2>3 DEF Encoding
<1> QED  BY <1>2, <1>3, <1>4, <1>5

\* The others.
LEMMA EncodingOthers ==
    ASSUME Typed, Shake, Phases, Encoding, Ids, Busy,
           \/ SrcFrame \/ SrcThread \/ RepThread \/ DefThread \/ SmThread \/ NtfThread
           \/ AppTake \/ AppCancel
    PROVE  Encoding'
<1>1. /\ data \in DataStates /\ q \in Queues /\ session \in Sessions
      /\ q.inJpeg \in Seq(Jobs) /\ q.onJpeg \in Seq(Jobs) /\ q.inPP \in Seq(Jobs)
      /\ Handshake(data.cmds, data.pc, data.synced, def, sm.pc, sm.state)
  BY ShakeTyped, QueuesAre, ShakeIs DEF Typed, TypedJpeg
<1>2. CASE createJpegSession
  <2>1. UNCHANGED <<omx, todo, client, q>> /\ def = "jpeg_session" /\ client = "out"
    BY <1>2 DEF createJpegSession
  <2>2. data.pc \notin Stopping
    BY <1>1, <2>1 DEF Handshake
  <2>3. data'.pc = data.pc
    BY <1>1, <1>2 DEF createJpegSession, DataStates
  <2>4. CASE sc.reproc /\ data.newSess
    <3>1. session' = create_session /\ data'.newSess = FALSE /\ ~session.active
      BY <1>1, <1>2, <2>4 DEF createJpegSession, DataStates, Encoding
    <3> QED  BY <2>1, <2>2, <2>3, <3>1 DEF Encoding, create_session, NoSession, Stopping
  <2>5. CASE ~(sc.reproc /\ data.newSess)
    BY <1>2, <2>1, <2>5 DEF createJpegSession, Encoding
  <2> QED  BY <2>4, <2>5
<1>3. CASE ~createJpegSession
  <2>1. UNCHANGED <<session, omx, todo, client>>
    BY <1>3 DEF SrcFrame, SrcThread, processData, SrcSend, RepThread, RepFrame, FindPPJob,
         EnqueueJpeg, RepSend, DefThread, StartPostproc, StartSnapshots,
         SmThread, AppTake, AppCancel, takePicture, CancelPicture, SnapshotDone, StopPostproc,
         StopReprocess, StopChannel, NothingToCancel, NothingToEnd, stopCaptureChannel,
         processJpegEvt, sendDataNotify, JpegEvtDropped, OnlyEvtQueue, jpegVars,
         NtfThread, NtfStart, NtfStop, NtfNothing, NtfError, NtfJpeg, Delivered
  <2>2. data'.pc = data.pc /\ data'.newSess = data.newSess
    <3>1. \/ data' = data \/ data' = sendCmdFirst(data, "STOP_DATA_PROC")
          \/ data' = sendCmd(data, DO_NEXT_JOB) \/ data' = sendCmd(data, "START_DATA_PROC")
          \/ data' = [data EXCEPT !.synced = FALSE]
      BY <1>3 DEF SrcFrame, SrcThread, processData, SrcSend, RepThread, RepFrame, FindPPJob,
         EnqueueJpeg, RepSend, DefThread, StartPostproc, StartSnapshots,
         SmThread, AppTake, AppCancel, takePicture, CancelPicture, SnapshotDone, StopPostproc,
         StopReprocess, StopChannel, NothingToCancel, NothingToEnd, stopCaptureChannel,
         processJpegEvt, sendDataNotify, JpegEvtDropped, ppVars,
         NtfThread, NtfStart, NtfStop, NtfNothing, NtfError, NtfJpeg, Delivered
    <3> QED  BY <1>1, <3>1 DEF sendCmd, sendCmdFirst, DataStates
  <2>3. \A i \in DOMAIN q'.inJpeg : q'.inJpeg[i].id = 0
    <3>1. CASE q'.inJpeg = q.inJpeg
      BY <3>1 DEF Encoding
    <3>2. ASSUME NEW f \in Frames, q'.inJpeg = Append(q.inJpeg, Job(f))
          PROVE  \A i \in DOMAIN q'.inJpeg : q'.inJpeg[i].id = 0
      <4> DEFINE s == q.inJpeg
                 t == Append(s, Job(f))
      <4>1. /\ t \in Seq(Jobs) /\ Len(t) = Len(s) + 1 /\ Len(s) \in Nat
            /\ \A i \in 1 .. Len(s) : t[i] = s[i]
            /\ t[Len(s) + 1] = Job(f)
        BY <1>1, JobIs, AppendIs
      <4>2. DOMAIN t = 1 .. Len(s) + 1 /\ DOMAIN s = 1 .. Len(s)
        BY <1>1, <4>1, SeqIs
      <4>3. \A i \in DOMAIN s : s[i].id = 0
        BY DEF Encoding
      <4>4. Job(f).id = 0
        BY JobIs
      <4>5. q'.inJpeg = t
        BY <3>2
      <4> HIDE DEF s, t
      <4>6. \A i \in 1 .. Len(s) + 1 : i \in 1 .. Len(s) \/ i = Len(s) + 1
        BY <4>1
      <4>7. \A i \in DOMAIN t : t[i].id = 0
        BY <4>1, <4>2, <4>3, <4>4, <4>6
      <4> QED  BY <4>5, <4>7
    <3>3. CASE processData
      BY <1>1, <3>1, <3>2, <3>3 DEF processData, Busy, Queues
    <3>4. CASE EnqueueJpeg
      BY <1>1, <3>1, <3>2, <3>4 DEF EnqueueJpeg, Busy, Queues
    <3>5. CASE ~processData /\ ~EnqueueJpeg
      <4>1. q' = q \/ FindPPJob \/ processJpegEvt
        BY <1>3, <3>5 DEF SrcFrame, SrcThread, SrcSend, RepThread, RepFrame,
         RepSend, DefThread, StartPostproc, StartSnapshots,
         SmThread, AppTake, AppCancel, takePicture, CancelPicture, SnapshotDone, StopPostproc,
         StopReprocess, StopChannel, NothingToCancel, NothingToEnd, stopCaptureChannel,
         sendDataNotify, JpegEvtDropped, ppVars,
         NtfThread, NtfStart, NtfStop, NtfNothing, NtfError, NtfJpeg, Delivered
      <4>2. q'.inJpeg = q.inJpeg
        BY <1>1, <4>1 DEF FindPPJob, processJpegEvt, Queues
      <4> QED  BY <3>1, <4>2
    <3> QED  BY <3>3, <3>4, <3>5
  <2>4. data.pc \in {"encode", "store"} => q'.onJpeg # <<>> /\ q'.onJpeg[Len(q'.onJpeg)].id = 0
    <3>1. CASE ~processJpegEvt
      <4>1. q' = q \/ processData \/ FindPPJob \/ EnqueueJpeg
        BY <1>3, <3>1 DEF SrcFrame, SrcThread, SrcSend, RepThread, RepFrame,
         RepSend, DefThread, StartPostproc, StartSnapshots,
         SmThread, AppTake, AppCancel, takePicture, CancelPicture, SnapshotDone, StopPostproc,
         StopReprocess, StopChannel, NothingToCancel, NothingToEnd, stopCaptureChannel,
         sendDataNotify, JpegEvtDropped, ppVars,
         NtfThread, NtfStart, NtfStop, NtfNothing, NtfError, NtfJpeg, Delivered
      <4>2. q'.onJpeg = q.onJpeg
        BY <1>1, <4>1 DEF processData, FindPPJob, EnqueueJpeg, Queues
      <4> QED  BY <4>2 DEF Encoding
    <3>2. CASE processJpegEvt /\ data.pc \in {"encode", "store"}
      <4> DEFINE s == q.onJpeg
                 S == {i \in DOMAIN s : s[i].id = Head(evt_queue).id}
                 t == flushNodes(s, S)
      <4>1. q' = [q EXCEPT !.onJpeg = t]
        BY <1>1, <3>2 DEF processJpegEvt, Queues
      <4>2. q'.onJpeg = t
        BY <1>1, <4>1 DEF Queues
      <4>3. s # <<>> /\ s[Len(s)].id = 0 /\ s \in Seq(Jobs)
        BY <1>1, <3>2 DEF Encoding
      <4>4. Head(evt_queue).id # 0
        <5>1. /\ evt_queue \in Seq(Events) /\ evt_queue # <<>>
              /\ Head(evt_queue).evt = "JPEG_EVT_NOTIFY"
          BY <3>2 DEF processJpegEvt, Event, Typed, TypedJpeg
        <5>2. Head(evt_queue) = evt_queue[1] /\ 1 \in DOMAIN evt_queue
          BY <5>1
        <5>3. evt_queue[1].id \in 1 .. jobHist
          BY <5>1, <5>2 DEF Ids
        <5> QED  BY <5>2, <5>3 DEF Typed, TypedJpeg
      <4>5. Len(s) \notin S
        BY <4>3, <4>4
      <4> HIDE DEF S, s
      <4>6. t # <<>> /\ t[Len(t)] = s[Len(s)]
        BY <4>3, <4>5, FlushIs
      <4> QED  BY <4>2, <4>3, <4>6
    <3> QED  BY <3>1, <3>2
  <2> QED  BY <2>1, <2>2, <2>3, <2>4 DEF Encoding
<1> QED  BY <1>2, <1>3

\* The encoder and its session.
LEMMA EncodingKept ==
    ASSUME Typed, Shake, Phases, Encoding, Ids, Busy, Next
    PROVE  Encoding'
BY EncodingEncoder, EncodingStop, EncodingWork, EncodingOthers DEF Next, DataThread

\* The types that Ids is about.
LEMMA IdsTyped ==
    ASSUME Typed
    PROVE  /\ todo \in Seq(Orders) /\ ongoing \in Seq(Orders) /\ evt_queue \in Seq(Events)
           /\ session \in Sessions /\ session.job \in Slots /\ jobHist \in Nat
           /\ data \in DataStates /\ q \in Queues /\ q.onJpeg \in Seq(Jobs)
           /\ \A i \in DOMAIN todo : todo[i] \in Slots /\ todo[i].id \in Nat
           /\ session.job.id \in Nat
<1>1. /\ todo \in Seq(Orders) /\ ongoing \in Seq(Orders) /\ evt_queue \in Seq(Events)
      /\ session \in Sessions /\ jobHist \in Nat
      /\ data \in DataStates /\ q \in Queues
  BY DEF Typed, TypedJpeg, TypedData
<1>2. session.job \in Slots
  BY <1>1 DEF Sessions
<1>3. session.job.id \in Nat
  BY <1>2 DEF Slots
<1>4. ASSUME NEW i \in DOMAIN todo PROVE todo[i] \in Slots /\ todo[i].id \in Nat
  <2>1. todo[i] \in Orders
    BY <1>1
  <2> QED  BY <2>1 DEF Orders, Slots
<1> QED  BY <1>1, <1>2, <1>3, <1>4, QueuesAre

\* Where the encoder goes on as before.
LEMMA IdsSame ==
    ASSUME Typed, Ids, UNCHANGED <<todo, jobHist, session, omx, ongoing, client>>,
           client # "out" => data'.job = data.job,
           \A i \in DOMAIN evt_queue' : evt_queue'[i].evt = "JPEG_EVT_NOTIFY" =>
               \E j \in DOMAIN evt_queue : evt_queue'[i] = evt_queue[j],
           \A i \in DOMAIN todo : Known(todo[i])',
           omx = "encoding" /\ Known(session.job) => Known(session.job)'
    PROVE  Ids'
<1>1. \A i \in DOMAIN todo' : todo'[i].id \in 1 .. jobHist' /\ Known(todo[i])'
  BY DEF Ids
<1>2. omx' = "encoding" =>
         /\ session'.job.id \in 1..jobHist'
         /\ \A i \in DOMAIN todo' : session'.job.id < todo'[i].id
         /\ client' = "out" => session'.job \in Range(ongoing')
         /\ \/ Known(session.job)'
            \/ client' = "abort" /\ data'.job = session'.job.frame
  BY DEF Ids
<1>3. \A i \in DOMAIN evt_queue' : evt_queue'[i].evt = "JPEG_EVT_NOTIFY" =>
         /\ evt_queue'[i].id \in 1..jobHist'
         /\ \A j \in DOMAIN todo' : todo'[j].id # evt_queue'[i].id
         /\ omx' = "encoding" => session'.job.id # evt_queue'[i].id
  BY DEF Ids
<1> QED  BY <1>1, <1>2, <1>3 DEF Ids

\* The threads of mm-jpeg-interface: a job is taken from the list, ...
LEMMA IdsEncodes ==
    ASSUME Typed, Encoding, Ids, ManagerEncodes \/ EncodeFails, UNCHANGED <<q, data>>
    PROVE  Ids'
<1> DEFINE t == Tail(todo)
           n == Len(todo)
           e == Head(todo)
<1>1. /\ t \in Seq(Orders) /\ Len(t) = n - 1 /\ n \in Nat \ {0} /\ e = todo[1]
      /\ \A i \in 1 .. n - 1 : t[i] = todo[i + 1]
  BY IdsTyped, TailIs DEF ManagerEncodes, EncodeFails
<1>2. DOMAIN todo = 1 .. n /\ DOMAIN t = 1 .. n - 1
  BY <1>1, IdsTyped, SeqIs
<1>3. /\ todo' = t /\ session'.job = e /\ client = "out" /\ client' = "out" /\ jobHist' = jobHist
      /\ session.free
  BY IdsTyped DEF ManagerEncodes, EncodeFails, Sessions
<1> HIDE DEF t, n, e
<1>4. \A j : Known(j)' <=> Knows(q.onJpeg, data.pc, jobHist, j)'
  BY DEF Known
<1>41. \A j : Known(j) <=> Knows(q'.onJpeg, data'.pc, jobHist', j)
  BY <1>3 DEF Known
<1>5. ASSUME NEW i \in DOMAIN t
      PROVE  /\ t[i].id \in 1 .. jobHist /\ Known(t[i]) /\ e.id < t[i].id
             /\ i + 1 \in DOMAIN todo /\ t[i] = todo[i + 1]
  <2>1. i + 1 \in DOMAIN todo /\ 1 \in DOMAIN todo /\ 1 < i + 1 /\ t[i] = todo[i + 1]
    BY <1>1, <1>2
  <2> QED  BY <1>1, <2>1 DEF Ids
<1>6. e.id \in 1 .. jobHist /\ Known(e) /\ 1 \in DOMAIN todo
  BY <1>1, <1>2 DEF Ids
<1>7. \A i, j \in DOMAIN t : i < j => t[i].id < t[j].id
  <2> SUFFICES ASSUME NEW i \in DOMAIN t, NEW j \in DOMAIN t, i < j PROVE t[i].id < t[j].id
    OBVIOUS
  <2>1. i + 1 < j + 1
    BY <1>1, <1>2
  <2> QED  BY <1>5, <2>1 DEF Ids
<1>8. omx = "idle"
  BY <1>3 DEF Encoding
<1>9. CASE ManagerEncodes
  <2>1. ongoing' = Append(ongoing, e) /\ evt_queue' = evt_queue /\ omx' = "encoding"
    BY <1>9 DEF ManagerEncodes, e
  <2>2. e \in Range(ongoing')
    <3>1. e \in Orders
      BY <1>1, <1>6, IdsTyped
    <3>2. /\ Append(ongoing, e) \in Seq(Orders) /\ Len(Append(ongoing, e)) = Len(ongoing) + 1
          /\ Len(ongoing) \in Nat /\ Append(ongoing, e)[Len(ongoing) + 1] = e
      BY <3>1, IdsTyped, AppendIs
    <3>3. Len(ongoing) + 1 \in DOMAIN Append(ongoing, e)
      BY <3>2, SeqIs
    <3> QED  BY <2>1, <3>2, <3>3 DEF Range
  <2>3. \A i \in DOMAIN evt_queue : evt_queue[i].evt = "JPEG_EVT_NOTIFY" =>
          /\ evt_queue[i].id \in 1..jobHist /\ e.id # evt_queue[i].id
          /\ \A j \in DOMAIN t : t[j].id # evt_queue[i].id
    BY <1>1, <1>5, <1>6 DEF Ids
  <2> QED  BY <1>3, <1>41, <1>5, <1>6, <1>7, <2>1, <2>2, <2>3 DEF Ids, Known
<1>10. CASE EncodeFails
  <2> DEFINE v == JpegEvt(e, "ERROR")
             u == Append(evt_queue, v)
  <2>1. evt_queue' = u /\ omx' = omx
    BY <1>10 DEF EncodeFails, e
  <2>2. \A i \in DOMAIN u : u[i] = v \/ \E j \in DOMAIN evt_queue : u[i] = evt_queue[j]
    BY IdsTyped
  <2>3. v.id = e.id /\ (\A j \in DOMAIN t : t[j].id # e.id)
    BY <1>5, <1>6, <1>1, IdsTyped DEF JpegEvt
  <2> HIDE DEF u, v
  <2>4. \A i \in DOMAIN u : u[i].evt = "JPEG_EVT_NOTIFY" =>
          /\ u[i].id \in 1..jobHist
          /\ \A j \in DOMAIN t : t[j].id # u[i].id
    BY <1>5, <1>6, <2>2, <2>3 DEF Ids
  <2> QED  BY <1>3, <1>41, <1>5, <1>7, <1>8, <2>1, <2>4 DEF Ids, Known
<1> QED  BY <1>9, <1>10

\* ... encoded, or aborted.
LEMMA IdsEncoder ==
    ASSUME Typed, Encoding, Ids, JpegThreads \/ JpegFails
    PROVE  Ids'
<1>1. UNCHANGED <<q, data>>
  BY DEF JpegThreads, JpegFails, NotPP, ppVars
<1>2. CASE ManagerEncodes \/ EncodeFails
  BY <1>1, <1>2, IdsEncodes
<1>3. CASE ManagerWakes \/ ManagerIdle \/ JobDone \/ EncoderStops \/ session_abort \/ JobRemoved
  <2>1. /\ UNCHANGED <<todo, client, jobHist, evt_queue>> /\ session'.job = session.job
        /\ omx' = "encoding" => omx = "encoding" /\ ongoing' = ongoing
    BY <1>3, IdsTyped DEF ManagerWakes, ManagerIdle, JobDone, EncoderStops, session_abort,
                          JobRemoved, Sessions
  <2>2. \A j : Known(j)' <=> Knows(q'.onJpeg, data'.pc, jobHist', j)
    BY DEF Known
  <2>3. \A j : Known(j) <=> Knows(q'.onJpeg, data'.pc, jobHist', j)
    BY <1>1, <2>1 DEF Known
  <2> QED  BY <1>1, <2>1, <2>3 DEF Ids, Known
<1>4. CASE SessionAborted
  <2>1. UNCHANGED <<todo, jobHist, evt_queue, omx>> /\ omx = "idle"
    BY <1>4 DEF SessionAborted, Encoding
  <2>3. \A j : Known(j) <=> Knows(q'.onJpeg, data'.pc, jobHist', j)
    BY <1>1, <2>1 DEF Known
  <2> QED  BY <1>1, <2>1, <2>3 DEF Ids, Known
<1>5. ASSUME NEW s \in {"DONE", "ERROR"}, Encoded(s) PROVE Ids'
  <2> DEFINE v == JpegEvt(session.job, s)
             u == Append(evt_queue, v)
  <2>1. /\ evt_queue' = u /\ UNCHANGED <<todo, jobHist, session>>
        /\ omx = "encoding" /\ omx' = "reported"
    BY <1>5 DEF Encoded
  <2>2. \A i \in DOMAIN u : u[i] = v \/ \E j \in DOMAIN evt_queue : u[i] = evt_queue[j]
    BY IdsTyped
  <2>3. v.id = session.job.id /\ (\A j \in DOMAIN todo : todo[j].id # session.job.id)
    BY <2>1, IdsTyped DEF JpegEvt, Ids
  <2> HIDE DEF u, v
  <2>4. \A i \in DOMAIN u : u[i].evt = "JPEG_EVT_NOTIFY" =>
          /\ u[i].id \in 1..jobHist
          /\ \A j \in DOMAIN todo : todo[j].id # u[i].id
    BY <2>1, <2>2, <2>3 DEF Ids
  <2>5. \A j : Known(j) <=> Knows(q'.onJpeg, data'.pc, jobHist', j)
    BY <1>1, <2>1 DEF Known
  <2> QED  BY <2>1, <2>4, <2>5 DEF Ids, Known
<1> QED  BY <1>2, <1>3, <1>4, <1>5 DEF JpegThreads, JpegFails, Manager, Encoder, Abort

\* A job stays known when another one joins or leaves m_ongoingJpegQ.
LEMMA KnowsMore ==
    ASSUME NEW s \in Seq(Jobs), NEW e \in Jobs, NEW t, t = Append(s, e), NEW pc, NEW n,
           NEW j, Knows(s, pc, n, j), pc # "store", NEW pc2, NEW n2
    PROVE  Knows(t, pc2, n2, j)
<1>1. /\ t \in Seq(Jobs) /\ Len(t) = Len(s) + 1 /\ Len(s) \in Nat
      /\ \A i \in 1 .. Len(s) : t[i] = s[i]
  BY AppendIs
<1>2. DOMAIN s = 1 .. Len(s) /\ DOMAIN t = 1 .. Len(s) + 1
  BY <1>1, SeqIs
<1>3. \A i \in DOMAIN s : i \in DOMAIN t
  BY <1>1, <1>2
<1> QED  BY <1>1, <1>2, <1>3 DEF Knows

\* A job stays known when another one is taken from the front, ...
LEMMA KnowsTail ==
    ASSUME NEW s \in Seq(Jobs), s # <<>>, NEW t, t = Tail(s), NEW pc, NEW n,
           NEW j, Knows(s, pc, n, j), pc # "store", j.id # Head(s).id \/ j.frame # Head(s).frame,
           NEW pc2, NEW n2
    PROVE  Knows(t, pc2, n2, j)
<1>1. /\ t \in Seq(Jobs) /\ Len(t) = Len(s) - 1 /\ Len(s) \in Nat \ {0} /\ Head(s) = s[1]
      /\ \A i \in 1 .. Len(s) - 1 : t[i] = s[i + 1]
  BY TailIs
<1>2. DOMAIN s = 1 .. Len(s) /\ DOMAIN t = 1 .. Len(s) - 1
  BY <1>1, SeqIs
<1>3. PICK i \in DOMAIN s : s[i].frame = j.frame /\ s[i].id = j.id
  BY DEF Knows
<1>4. i # 1
  BY <1>1, <1>3
<1>5. i - 1 \in DOMAIN t /\ i - 1 + 1 = i
  BY <1>1, <1>2, <1>4
<1>6. t[i - 1] = s[i]
  BY <1>1, <1>2, <1>5
<1> QED  BY <1>3, <1>5, <1>6 DEF Knows

\* ... or the last one is given up, ...
LEMMA KnowsFront ==
    ASSUME NEW s \in Seq(Jobs), s # <<>>, NEW t, t = Front(s), NEW pc, NEW n,
           NEW j, Knows(s, pc, n, j), pc # "store", j.id # s[Len(s)].id,
           NEW pc2, NEW n2
    PROVE  Knows(t, pc2, n2, j)
<1>1. /\ t \in Seq(Jobs) /\ Len(t) = Len(s) - 1 /\ Len(s) \in Nat
      /\ \A i \in 1 .. Len(s) - 1 : t[i] = s[i]
  BY FrontIs, SeqIs
<1>2. DOMAIN s = 1 .. Len(s) /\ DOMAIN t = 1 .. Len(s) - 1
  BY <1>1, SeqIs
<1>3. PICK i \in DOMAIN s : s[i].frame = j.frame /\ s[i].id = j.id
  BY DEF Knows
<1>4. i \in DOMAIN t
  BY <1>1, <1>2, <1>3
<1> QED  BY <1>1, <1>2, <1>3, <1>4 DEF Knows

\* ... or those with another id are flushed, ...
LEMMA KnowsFlush ==
    ASSUME NEW s \in Seq(Jobs), s # <<>>, NEW S, NEW t, t = flushNodes(s, S),
           NEW pc, NEW n, NEW j, Knows(s, pc, n, j),
           \A i \in S : s[i].id # j.id, pc = "store" => Len(s) \notin S
    PROVE  Knows(t, pc, n, j)
<1>1. /\ t \in Seq(Jobs)
      /\ \A i \in DOMAIN s \ S : \E k \in DOMAIN t : t[k] = s[i]
      /\ Len(s) \notin S => t # <<>> /\ t[Len(t)] = s[Len(s)]
  BY FlushIs
<1>2. PICK i \in DOMAIN s :
        /\ s[i].frame = j.frame
        /\ s[i].id = j.id \/ (pc = "store" /\ i = Len(s) /\ j.id = n)
  BY DEF Knows
<1>3. CASE s[i].id = j.id
  <2>1. PICK k \in DOMAIN t : t[k] = s[i]
    BY <1>1, <1>3
  <2> QED  BY <1>2, <1>3, <2>1 DEF Knows
<1>4. CASE pc = "store" /\ i = Len(s) /\ j.id = n
  <2>1. t # <<>> /\ t[Len(t)] = s[i]
    BY <1>1, <1>4
  <2>2. Len(t) \in DOMAIN t
    <3>1. DOMAIN t = 1 .. Len(t) /\ Len(t) \in Nat /\ Len(t) # 0
      BY <1>1, <2>1, SeqIs
    <3> QED  BY <3>1
  <2> QED  BY <1>2, <1>4, <2>1, <2>2 DEF Knows
<1> QED  BY <1>2, <1>3, <1>4

\* An aborted job is no longer known to the encoder, or it is awaited.
LEMMA IdsCancel ==
    ASSUME Typed, Encoding, Ids, CancelJob
    PROVE  Ids'
<1> DEFINE s == q.onJpeg
           h == Head(s)
           t == Tail(s)
<1>1. /\ s # <<>> /\ s \in Seq(Jobs) /\ abort_job(h.id) /\ data.pc = "cancel"
      /\ h \in Jobs /\ q'.onJpeg = t
      /\ data'.pc = "release" /\ data'.job = h.frame
  BY IdsTyped, TailIs DEF CancelJob, Queues, DataStates
<1>2. /\ UNCHANGED <<session, omx, jobHist, evt_queue>> /\ client = "out"
      /\ todo' = Without(todo, h.id)
      /\ ongoing' = IF todo' = todo THEN Without(ongoing, h.id) ELSE ongoing
      /\ client' = IF ongoing' # ongoing THEN "abort" ELSE "out"
  BY <1>1 DEF abort_job
<1>3. /\ todo \in Seq([id : Nat, frame : Frames]) /\ ongoing \in Seq([id : Nat, frame : Frames])
  BY IdsTyped DEF Orders
<1> HIDE DEF s, h, t
<1> DEFINE u == Without(todo, h.id)
<1>4. /\ u \in Seq([id : Nat, frame : Frames])
      /\ \E p : Picks(p, u, todo)
      /\ u = todo => \A i \in DOMAIN todo : todo[i].id # h.id
  BY <1>3, WithoutIs
<1>5. \A i, j \in DOMAIN todo : todo[i].id = todo[j].id => i = j
  <2> SUFFICES ASSUME NEW i \in DOMAIN todo, NEW j \in DOMAIN todo, todo[i].id = todo[j].id
               PROVE  i = j
    OBVIOUS
  <2>1. ~(i < j) /\ ~(j < i)
    <3>1. todo[i].id \in Nat
      BY IdsTyped
    <3> QED  BY <3>1 DEF Ids
  <2>2. i \in Nat /\ j \in Nat
    BY IdsTyped
  <2> QED  BY <2>1, <2>2
<1>6. \A k \in DOMAIN u : u[k].id # h.id
  BY <1>3, <1>5, WithoutIs
<1> HIDE DEF u
<1>7. PICK p : Picks(p, u, todo)
  BY <1>4
<1>8. ASSUME NEW i \in DOMAIN u
      PROVE  /\ p[i] \in DOMAIN todo /\ u[i] = todo[p[i]]
             /\ u[i].id \in 1 .. jobHist /\ Knows(t, data'.pc, jobHist', u[i])
  <2>1. p[i] \in DOMAIN todo /\ u[i] = todo[p[i]]
    BY <1>7 DEF Picks
  <2>2. u[i].id \in 1 .. jobHist /\ Known(u[i])
    BY <2>1 DEF Ids
  <2>3. Knows(s, data.pc, jobHist, u[i]) /\ u[i].id # h.id
    BY <2>2, <1>6 DEF Known, s
  <2>4. Knows(t, data'.pc, jobHist', u[i])
    BY <1>1, <2>3, KnowsTail DEF t, h
  <2> QED  BY <2>1, <2>2, <2>4
<1>9. \A i, j \in DOMAIN u : i < j => u[i].id < u[j].id
  BY <1>7, <1>8 DEF Picks, Ids
<1>13. q'.onJpeg = t
  BY <1>1
<1>10. ASSUME omx = "encoding"
       PROVE  /\ \A i \in DOMAIN u : session.job.id < u[i].id
              /\ client' = "out" => session.job \in Range(ongoing')
              /\ \/ Knows(t, data'.pc, jobHist', session.job)
                 \/ client' = "abort" /\ h.frame = session.job.frame
  <2>1. \A i \in DOMAIN u : session.job.id < u[i].id
    BY <1>8, <1>10 DEF Ids
  <2>2. session.job \in Range(ongoing) /\ Knows(s, data.pc, jobHist, session.job)
    BY <1>2, <1>10 DEF Ids, Known, s
  <2>3. client' = "out" => session.job \in Range(ongoing')
    BY <1>2, <2>2
  <2>4. CASE session.job.id # h.id \/ session.job.frame # h.frame
    <3>1. Knows(t, data'.pc, jobHist', session.job)
      BY <1>1, <2>2, <2>4, KnowsTail DEF t, h
    <3> QED  BY <2>1, <2>3, <3>1
  <2>5. CASE session.job.id = h.id /\ session.job.frame = h.frame
    <3>1. \A i \in DOMAIN todo : todo[i].id # h.id
      <4>1. \A i \in DOMAIN todo : session.job.id < todo[i].id /\ todo[i].id \in Nat
        BY <1>10, IdsTyped DEF Ids
      <4> QED  BY <2>5, <4>1, IdsTyped
    <3>2. todo' = todo
      <4>1. {i \in DOMAIN todo : todo[i].id = h.id} = {}
        BY <3>1
      <4> QED  BY <1>2, <4>1 DEF Without
    <3>3. ongoing' # ongoing
      <4> SUFFICES ASSUME ongoing' = ongoing PROVE FALSE
        OBVIOUS
      <4>1. Without(ongoing, h.id) = ongoing
        BY <1>2, <3>2
      <4>2. \A i \in DOMAIN ongoing : ongoing[i].id # h.id
        BY <1>3, <4>1, WithoutIs
      <4> QED  BY <2>2, <2>5, <4>2 DEF Range
    <3> QED  BY <1>2, <2>1, <2>3, <2>5, <3>3
  <2> QED  BY <2>4, <2>5
<1>11. \A i \in DOMAIN evt_queue : evt_queue[i].evt = "JPEG_EVT_NOTIFY" =>
         /\ evt_queue[i].id \in 1..jobHist
         /\ \A j \in DOMAIN u : u[j].id # evt_queue[i].id
         /\ omx = "encoding" => session.job.id # evt_queue[i].id
  BY <1>8 DEF Ids
<1>12. todo' = u
  BY <1>2 DEF u
<1> QED  BY <1>1, <1>2, <1>8, <1>9, <1>10, <1>11, <1>12, <1>13 DEF Ids, Known

\* ... or when only the data thread goes on.
LEMMA KnowsSame ==
    ASSUME NEW s, NEW pc, NEW n, NEW j, Knows(s, pc, n, j), NEW pc2, NEW n2,
           pc2 = pc \/ pc # "store", n2 = n \/ pc # "store"
    PROVE  Knows(s, pc2, n2, j)
BY DEF Knows

\* The data thread gives a job to the encoder, ...
LEMMA IdsEncode ==
    ASSUME Typed, Encoding, Ids, encodeData
    PROVE  Ids'
<1> DEFINE s == q.onJpeg
           n == jobHist + 1
           m == Len(todo)
           e == [id |-> n, frame |-> Last(s).frame]
           t == Append(todo, e)
<1>1. /\ s # <<>> /\ s \in Seq(Jobs) /\ q'.onJpeg = s /\ s[Len(s)].id = 0
      /\ data.pc = "encode" /\ data'.pc = "store" /\ data'.job = data.job
      /\ jobHist' = n /\ todo' = t /\ UNCHANGED <<ongoing, omx, client, evt_queue>>
      /\ jobHist \in Nat /\ n \in Nat /\ client # "abort"
  BY IdsTyped DEF encodeData, start_job, DataStates, Encoding
<1>2. omx = "encoding" => session' = session
  BY DEF encodeData, Encoding
<1>3. /\ Last(s) = s[Len(s)] /\ Last(s) \in Jobs /\ Len(s) \in DOMAIN s
  <2>1. Last(s) = s[Len(s)] /\ Last(s) \in Jobs
    BY <1>1, FrontIs
  <2>2. DOMAIN s = 1 .. Len(s) /\ Len(s) \in Nat /\ Len(s) # 0
    BY <1>1, SeqIs
  <2> QED  BY <2>1, <2>2
<1>4. e \in Orders /\ e.id = n /\ e.frame = s[Len(s)].frame
  BY <1>1, <1>3 DEF Jobs, Orders
<1>5. /\ t \in Seq(Orders) /\ Len(t) = m + 1 /\ m \in Nat /\ t[m + 1] = e
      /\ \A i \in 1 .. m : t[i] = todo[i]
  BY <1>4, IdsTyped, AppendIs
<1>6. DOMAIN t = 1 .. m + 1 /\ DOMAIN todo = 1 .. m
  BY <1>5, IdsTyped, SeqIs
<1> HIDE DEF s, n, m, e, t
<1>7. Knows(s, "store", n, e)
  BY <1>3, <1>4 DEF Knows
<1>8. ASSUME NEW i \in DOMAIN todo
      PROVE  todo[i].id \in 1 .. jobHist /\ todo[i].id \in 1 .. n /\ todo[i].id < n
             /\ Knows(s, "store", n, todo[i])
  <2>1. todo[i].id \in 1 .. jobHist /\ Knows(s, "encode", jobHist, todo[i])
    BY <1>1 DEF Ids, Known, s
  <2>2. Knows(s, "store", n, todo[i])
    BY <2>1, KnowsSame
  <2> QED  BY <1>1, <2>1, <2>2 DEF n
<1>9. \A i \in DOMAIN t : i \in DOMAIN todo \/ i = m + 1
  BY <1>5, <1>6
<1>10. \A i \in DOMAIN t : t[i].id \in 1 .. n /\ Knows(s, "store", n, t[i])
  <2> SUFFICES ASSUME NEW i \in DOMAIN t PROVE t[i].id \in 1 .. n /\ Knows(s, "store", n, t[i])
    OBVIOUS
  <2>1. CASE i \in DOMAIN todo
    <3>1. t[i] = todo[i]
      BY <1>5, <1>6, <2>1
    <3> QED  BY <1>8, <2>1, <3>1
  <2>2. CASE i = m + 1
    <3>1. t[i] = e /\ n \in 1 .. n
      BY <1>1, <1>5, <2>2 DEF n
    <3> QED  BY <1>4, <1>7, <3>1
  <2> QED  BY <1>9, <2>1, <2>2
<1>11. \A i, j \in DOMAIN t : i < j => t[i].id < t[j].id
  <2> SUFFICES ASSUME NEW i \in DOMAIN t, NEW j \in DOMAIN t, i < j PROVE t[i].id < t[j].id
    OBVIOUS
  <2>1. i \in DOMAIN todo /\ t[i] = todo[i]
    BY <1>5, <1>6
  <2>2. CASE j = m + 1
    BY <1>4, <1>5, <1>8, <2>1, <2>2
  <2>3. CASE j \in DOMAIN todo
    <3>1. t[j] = todo[j]
      BY <1>5, <1>6, <2>3
    <3> QED  BY <2>1, <2>3, <3>1 DEF Ids
  <2> QED  BY <1>9, <2>2, <2>3
<1>12. ASSUME omx = "encoding"
       PROVE  /\ session.job.id \in 1 .. n
              /\ \A i \in DOMAIN t : session.job.id < t[i].id
              /\ client = "out" => session.job \in Range(ongoing)
              /\ Knows(s, "store", n, session.job)
  <2>1. /\ session.job.id \in 1 .. jobHist
        /\ \A i \in DOMAIN todo : session.job.id < todo[i].id
        /\ client = "out" => session.job \in Range(ongoing)
        /\ Knows(s, "encode", jobHist, session.job)
    BY <1>1, <1>12 DEF Ids, Known, s
  <2>2. Knows(s, "store", n, session.job)
    BY <2>1, KnowsSame
  <2>3. session.job.id \in 1 .. n /\ session.job.id < n
    BY <1>1, <2>1 DEF n
  <2> QED  BY <1>4, <1>5, <1>6, <1>9, <2>1, <2>2, <2>3
<1>13. \A i \in DOMAIN evt_queue : evt_queue[i].evt = "JPEG_EVT_NOTIFY" =>
         /\ evt_queue[i].id \in 1 .. n
         /\ \A j \in DOMAIN t : t[j].id # evt_queue[i].id
         /\ omx = "encoding" => session.job.id # evt_queue[i].id
  <2> SUFFICES ASSUME NEW i \in DOMAIN evt_queue, evt_queue[i].evt = "JPEG_EVT_NOTIFY"
               PROVE  /\ evt_queue[i].id \in 1 .. n
                      /\ \A j \in DOMAIN t : t[j].id # evt_queue[i].id
                      /\ omx = "encoding" => session.job.id # evt_queue[i].id
    OBVIOUS
  <2>1. /\ evt_queue[i].id \in 1 .. jobHist
        /\ \A j \in DOMAIN todo : todo[j].id # evt_queue[i].id
        /\ omx = "encoding" => session.job.id # evt_queue[i].id
    BY DEF Ids
  <2>2. evt_queue[i].id \in 1 .. n /\ evt_queue[i].id # n
    BY <1>1, <2>1 DEF n
  <2> QED  BY <1>4, <1>5, <1>6, <1>9, <2>1, <2>2
<1> QED  BY <1>1, <1>2, <1>10, <1>11, <1>12, <1>13 DEF Ids, Known

\* ... remembers its id, or gives it up, ...
LEMMA IdsStore ==
    ASSUME Typed, Encoding, Ids, NextJob \/ StoreJobId \/ EncodeRefused
    PROVE  Ids'
<1> DEFINE s == q.onJpeg
<1>1. /\ UNCHANGED <<todo, jobHist, session, omx, ongoing, client, evt_queue>>
      /\ data'.job = data.job /\ s \in Seq(Jobs) /\ jobHist \in Nat
  BY IdsTyped DEF NextJob, StoreJobId, EncodeRefused, DataStates, jpegVars
<1> HIDE DEF s
<1>2. ASSUME NEW j \in Slots, j.id # 0, Knows(s, data.pc, jobHist, j)
      PROVE  Knows(q'.onJpeg, data'.pc, jobHist, j)
  <2>1. CASE NextJob
    <3>1. data.pc = "idle"
      BY <2>1 DEF NextJob
    <3>2. CASE q.inJpeg = <<>>
      <4>1. q'.onJpeg = s
        BY <2>1, <3>2 DEF NextJob, s
      <4> QED  BY <1>2, <3>1, <4>1, KnowsSame
    <3>3. CASE q.inJpeg # <<>>
      <4>1. Head(q.inJpeg) \in Jobs
        <5>1. q.inJpeg \in Seq(Jobs)
          BY IdsTyped, QueuesAre
        <5> QED  BY <3>3, <5>1, TailIs
      <4>2. q'.onJpeg = Append(s, Head(q.inJpeg))
        BY <2>1, <3>3, IdsTyped DEF NextJob, Queues, s
      <4> QED  BY <1>1, <1>2, <3>1, <4>1, <4>2, KnowsMore
    <3> QED  BY <3>2, <3>3
  <2>2. CASE EncodeRefused
    <3>1. /\ q'.onJpeg = Front(s) /\ s # <<>> /\ s[Len(s)].id = 0 /\ data.pc = "encode"
      BY <2>2, IdsTyped DEF EncodeRefused, Queues, Encoding, s
    <3> QED  BY <1>1, <1>2, <3>1, KnowsFront
  <2>3. CASE StoreJobId
    <3> DEFINE t == [s EXCEPT ![Len(s)].id = jobHist]
    <3>1. /\ q'.onJpeg = t /\ s # <<>> /\ s[Len(s)].id = 0 /\ data.pc = "store"
      BY <2>3, IdsTyped DEF StoreJobId, Queues, Encoding, s
    <3>2. /\ t \in Seq(Jobs) /\ Len(t) = Len(s)
          /\ \A i \in DOMAIN s : t[i].frame = s[i].frame
          /\ \A i \in DOMAIN s : t[i].id = IF i = Len(s) THEN jobHist ELSE s[i].id
      BY <1>1, <3>1, FramesStore
    <3> HIDE DEF t
    <3>3. PICK i \in DOMAIN s :
            /\ s[i].frame = j.frame
            /\ s[i].id = j.id \/ (i = Len(s) /\ j.id = jobHist)
      BY <1>2 DEF Knows
    <3>4. i \in DOMAIN t
      BY <1>1, <3>2, SeqIs
    <3>5. t[i].frame = j.frame /\ t[i].id = j.id
      BY <1>2, <3>1, <3>2, <3>3
    <3> QED  BY <3>1, <3>4, <3>5 DEF Knows
  <2> QED  BY <2>1, <2>2, <2>3
<1>3. \A i \in DOMAIN todo : Known(todo[i])'
  <2> SUFFICES ASSUME NEW i \in DOMAIN todo PROVE Knows(q'.onJpeg, data'.pc, jobHist, todo[i])
    BY <1>1 DEF Known
  <2>1. todo[i] \in Slots /\ todo[i].id # 0 /\ Knows(s, data.pc, jobHist, todo[i])
    BY IdsTyped DEF Ids, Known, s
  <2> QED  BY <1>2, <2>1
<1>4. omx = "encoding" /\ Known(session.job) => Known(session.job)'
  <2> SUFFICES ASSUME omx = "encoding", Known(session.job)
               PROVE  Knows(q'.onJpeg, data'.pc, jobHist, session.job)
    BY <1>1 DEF Known
  <2>1. session.job \in Slots /\ session.job.id # 0 /\ Knows(s, data.pc, jobHist, session.job)
    BY IdsTyped DEF Ids, Known, s
  <2> QED  BY <1>2, <2>1
<1> QED  BY <1>1, <1>3, <1>4, IdsSame

\* ... and takes it back with the others.
LEMMA IdsStop ==
    ASSUME Typed, Encoding, Encoding', Ids,
           \/ DataStart \/ DataStop \/ ReleaseJob \/ DestroySession \/ NoJob_Stopped
           \/ FlushOngoingPP \/ FlushInputJpeg \/ FlushInputPP \/ doReprocess
    PROVE  Ids'
<1>1. /\ UNCHANGED <<jobHist, session, omx, evt_queue>>
      /\ q'.onJpeg = q.onJpeg /\ data.pc # "store"
      /\ client # "out" => data'.job = data.job
  BY IdsTyped DEF DataStart, DataStop, ReleaseJob, DestroySession, NoJob_Stopped,
         FlushOngoingPP, FlushInputJpeg, FlushInputPP, Flush, doReprocess, Queues, DataStates,
         jpegVars, destroy_session
<1>2. \A i \in DOMAIN todo : Knows(q'.onJpeg, data'.pc, jobHist', todo[i])
  BY <1>1 DEF Ids, Known, Knows
<1>3. Known(session.job) => Knows(q'.onJpeg, data'.pc, jobHist', session.job)
  BY <1>1 DEF Known, Knows
<1>4. CASE UNCHANGED <<todo, ongoing, client>>
  BY <1>1, <1>2, <1>3, <1>4, IdsSame DEF Known
<1>5. CASE destroy_session
  <2>1. todo' = <<>> /\ client' = "destroy"
    BY <1>5 DEF destroy_session
  <2>2. omx' # "encoding"
    BY <2>1 DEF Encoding
  <2> QED  BY <1>1, <2>1, <2>2 DEF Ids
<1> QED  BY <1>4, <1>5
       DEF DataStart, DataStop, ReleaseJob, DestroySession, NoJob_Stopped,
           FlushOngoingPP, FlushInputJpeg, FlushInputPP, Flush, doReprocess, jpegVars

\* The other steps change none of the jobs.
LEMMA IdsOthers ==
    ASSUME Typed, Encoding, Ids, Busy,
           \/ SrcFrame \/ SrcThread \/ RepThread \/ DefThread \/ SmThread \/ NtfThread
           \/ AppTake \/ AppCancel
    PROVE  Ids'
<1>1. /\ UNCHANGED <<todo, jobHist, omx, ongoing, client>>
  BY DEF SrcFrame, SrcThread, processData, SrcSend, RepThread, RepFrame, FindPPJob,
         EnqueueJpeg, RepSend, DefThread, StartPostproc, StartSnapshots, createJpegSession,
         SmThread, AppTake, AppCancel, takePicture, CancelPicture, SnapshotDone, StopPostproc,
         StopReprocess, StopChannel, NothingToCancel, NothingToEnd, stopCaptureChannel,
         processJpegEvt, sendDataNotify, JpegEvtDropped, OnlyEvtQueue, jpegVars,
         NtfThread, NtfStart, NtfStop, NtfNothing, NtfError, NtfJpeg, Delivered
<1>2. data'.pc = data.pc /\ data'.job = data.job
  <2>1. \/ data' = data \/ data' = sendCmdFirst(data, "STOP_DATA_PROC")
        \/ data' = sendCmd(data, DO_NEXT_JOB) \/ data' = sendCmd(data, "START_DATA_PROC")
        \/ data' = [data EXCEPT !.synced = FALSE] \/ data' = [data EXCEPT !.newSess = FALSE]
    BY DEF SrcFrame, SrcThread, processData, SrcSend, RepThread, RepFrame, FindPPJob,
         EnqueueJpeg, RepSend, DefThread, StartPostproc, StartSnapshots, createJpegSession,
         SmThread, AppTake, AppCancel, takePicture, CancelPicture, SnapshotDone, StopPostproc,
         StopReprocess, StopChannel, NothingToCancel, NothingToEnd, stopCaptureChannel,
         processJpegEvt, sendDataNotify, JpegEvtDropped, ppVars,
         NtfThread, NtfStart, NtfStop, NtfNothing, NtfError, NtfJpeg, Delivered
  <2> QED  BY <2>1, IdsTyped DEF sendCmd, sendCmdFirst, DataStates
<1>3. omx = "encoding" => session' = session
  BY DEF SrcFrame, SrcThread, processData, SrcSend, RepThread, RepFrame, FindPPJob,
         EnqueueJpeg, RepSend, DefThread, StartPostproc, StartSnapshots, createJpegSession,
         SmThread, AppTake, AppCancel, takePicture, CancelPicture, SnapshotDone, StopPostproc,
         StopReprocess, StopChannel, NothingToCancel, NothingToEnd, stopCaptureChannel,
         processJpegEvt, sendDataNotify, JpegEvtDropped, OnlyEvtQueue, jpegVars, Encoding,
         NtfThread, NtfStart, NtfStop, NtfNothing, NtfError, NtfJpeg, Delivered
<1>4. \A i \in DOMAIN evt_queue' : evt_queue'[i].evt = "JPEG_EVT_NOTIFY" =>
               \E j \in DOMAIN evt_queue : evt_queue'[i] = evt_queue[j]
  <2>1. \/ evt_queue' = evt_queue
        \/ evt_queue # <<>> /\ evt_queue' = Tail(evt_queue)
        \/ evt_queue' = Append(evt_queue, SNAPSHOT_DONE)
    BY DEF SrcFrame, SrcThread, processData, SrcSend, RepThread, RepFrame, FindPPJob,
         EnqueueJpeg, RepSend, DefThread, StartPostproc, StartSnapshots, createJpegSession,
         SmThread, AppTake, AppCancel, takePicture, CancelPicture, SnapshotDone, StopPostproc,
         StopReprocess, StopChannel, NothingToCancel, NothingToEnd, stopCaptureChannel,
         processJpegEvt, sendDataNotify, JpegEvtDropped, jpegVars, NextEvent, Event, Busy,
         NtfThread, NtfStart, NtfStop, NtfNothing, NtfError, NtfJpeg, Delivered
  <2>2. evt_queue \in Seq(Events)
    BY IdsTyped
  <2>3. CASE evt_queue # <<>> /\ evt_queue' = Tail(evt_queue)
    <3>1. \A i \in DOMAIN evt_queue' : i + 1 \in DOMAIN evt_queue /\ evt_queue'[i] = evt_queue[i + 1]
      BY <2>2, <2>3
    <3> QED  BY <3>1
  <2>4. CASE evt_queue' = Append(evt_queue, SNAPSHOT_DONE)
    <3>1. \A i \in DOMAIN evt_queue' :
            evt_queue'[i] = SNAPSHOT_DONE \/ (i \in DOMAIN evt_queue /\ evt_queue'[i] = evt_queue[i])
      BY <2>2, <2>4
    <3>2. SNAPSHOT_DONE.evt # "JPEG_EVT_NOTIFY"
      BY DEF SNAPSHOT_DONE
    <3> QED  BY <3>1, <3>2
  <2> QED  BY <2>1, <2>3, <2>4
<1>5. ASSUME NEW j, Known(j), (j = session.job /\ omx = "encoding") \/ \E i \in DOMAIN todo : j = todo[i]
      PROVE  Knows(q'.onJpeg, data'.pc, jobHist', j)
  <2>1. CASE processJpegEvt
    <3> DEFINE s == q.onJpeg
               S == {i \in DOMAIN s : s[i].id = Head(evt_queue).id}
               t == flushNodes(s, S)
    <3>1. q' = [q EXCEPT !.onJpeg = t]
      BY IdsTyped, <2>1 DEF processJpegEvt, Queues
    <3>2. q'.onJpeg = t /\ s \in Seq(Jobs)
      BY IdsTyped, <3>1 DEF Queues
    <3>3. s # <<>> /\ Knows(s, data.pc, jobHist, j)
      BY <1>5 DEF Known, Knows
    <3>4. /\ Head(evt_queue).id \in 1 .. jobHist
          /\ Head(evt_queue).id # j.id
      <4>1. /\ evt_queue \in Seq(Events) /\ evt_queue # <<>>
            /\ Head(evt_queue).evt = "JPEG_EVT_NOTIFY"
        BY <2>1, IdsTyped DEF processJpegEvt, Event
      <4>2. Head(evt_queue) = evt_queue[1] /\ 1 \in DOMAIN evt_queue
        BY <4>1
      <4> QED  BY <1>5, <4>1, <4>2 DEF Ids
    <3>5. data.pc = "store" => Len(s) \notin S
      BY <3>4, IdsTyped DEF Encoding
    <3> HIDE DEF S, s
    <3>6. \A i \in S : s[i].id # j.id
      BY <3>4 DEF S
    <3>7. Knows(t, data.pc, jobHist, j)
      BY <3>2, <3>3, <3>5, <3>6, KnowsFlush
    <3> QED  BY <1>1, <1>2, <3>2, <3>7
  <2>2. CASE ~processJpegEvt
    <3>1. q' = q \/ processData \/ FindPPJob \/ EnqueueJpeg
      BY <2>2 DEF SrcFrame, SrcThread, SrcSend, RepThread, RepFrame,
         RepSend, DefThread, StartPostproc, StartSnapshots, createJpegSession,
         SmThread, AppTake, AppCancel, takePicture, CancelPicture, SnapshotDone, StopPostproc,
         StopReprocess, StopChannel, NothingToCancel, NothingToEnd, stopCaptureChannel,
         sendDataNotify, JpegEvtDropped, ppVars,
         NtfThread, NtfStart, NtfStop, NtfNothing, NtfError, NtfJpeg, Delivered
    <3>2. q'.onJpeg = q.onJpeg
      BY IdsTyped, <3>1 DEF processData, FindPPJob, EnqueueJpeg, Queues
    <3> QED  BY <1>1, <1>2, <1>5, <3>2 DEF Known
  <2> QED  BY <2>1, <2>2
<1>6. CASE omx = "encoding"
  <2>1. session' = session
    BY <1>3, <1>6
  <2>2. \A i \in DOMAIN todo : Knows(q'.onJpeg, data'.pc, jobHist', todo[i])
    BY <1>5, <1>6 DEF Ids
  <2>3. Known(session.job) => Knows(q'.onJpeg, data'.pc, jobHist', session.job)
    BY <1>5, <1>6
  <2> QED  BY <1>1, <1>2, <1>4, <2>1, <2>2, <2>3, IdsSame DEF Known
<1>7. CASE omx # "encoding"
  <2>3. \A i \in DOMAIN todo : Knows(q'.onJpeg, data'.pc, jobHist', todo[i])
    BY <1>5 DEF Ids
  <2> QED  BY <1>1, <1>4, <1>7, <2>3 DEF Ids, Known
<1> QED  BY <1>6, <1>7

-----------------------------------------------------------------------------
(* The buffers                                                             *)

\* Frames go from one place to another, ...
LEMMA Moves ==
    ASSUME NEW H, NEW G, NEW O, NEW n, Apart(H, G, O, n),
           NEW a \in Holders, NEW b \in Holders, a # b, NEW F, F \subseteq H[a],
           NEW H2, H2[a] = H[a] \ F, H2[b] = H[b] \cup F,
           \A h \in Holders : h # a /\ h # b => H2[h] = H[h]
    PROVE  Apart(H2, G, O, n)
<1>1. \A h \in Holders : h = a \/ h = b \/ H2[h] = H[h]
  OBVIOUS
<1> HIDE DEF Holders
<1>2. ASSUME NEW h \in Holders, NEW f, f \in H2[h]
      PROVE  \/ f \in H[h] /\ ~(h = a /\ f \in F)
             \/ h = b /\ f \in F /\ f \in H[a]
  BY <1>1, <1>2
<1>3. \A h, k \in Holders : h # k => H2[h] \cap H2[k] = {}
  <2> SUFFICES ASSUME NEW h \in Holders, NEW k \in Holders, h # k, NEW f, f \in H2[h], f \in H2[k]
               PROVE  FALSE
    OBVIOUS
  <2> QED  BY <1>2 DEF Apart
<1>4. \A h \in Holders : H2[h] \cap G = {} /\ H2[h] \subseteq 1..n
  BY <1>2 DEF Apart
<1>5. \A f \in 1 .. n : f \in G \/ \E h \in Holders : f \in H2[h]
  <2> SUFFICES ASSUME NEW f \in 1 .. n, f \notin G PROVE \E h \in Holders : f \in H2[h]
    OBVIOUS
  <2>1. PICK h \in Holders : f \in H[h]
    BY DEF Apart
  <2>2. f \in H2[h] \/ f \in H2[b]
    BY <1>1, <2>1
  <2> QED  BY <2>2
<1> QED  BY <1>3, <1>4, <1>5 DEF Apart

\* ... are released, ...
LEMMA Gives ==
    ASSUME NEW H, NEW G, NEW O, NEW n, Apart(H, G, O, n),
           NEW a \in Holders, NEW F, F \subseteq H[a],
           NEW H2, H2[a] = H[a] \ F, \A h \in Holders : h # a => H2[h] = H[h],
           NEW O2, O2 \subseteq G \cup F
    PROVE  Apart(H2, G \cup F, O2, n)
<1> HIDE DEF Holders
<1>1. \A h \in Holders : H2[h] \subseteq H[h] /\ (h = a \/ H2[h] = H[h])
  OBVIOUS
<1>2. \A h, k \in Holders : h # k => H2[h] \cap H2[k] = {}
  <2> SUFFICES ASSUME NEW h \in Holders, NEW k \in Holders, h # k, NEW f, f \in H2[h], f \in H2[k]
               PROVE  FALSE
    OBVIOUS
  <2> QED  BY <1>1 DEF Apart
<1>3. \A h \in Holders : H2[h] \cap (G \cup F) = {} /\ H2[h] \subseteq 1..n
  <2> SUFFICES ASSUME NEW h \in Holders, NEW f, f \in H2[h]
               PROVE  f \notin G /\ f \notin F /\ f \in 1 .. n
    OBVIOUS
  <2>1. f \in H[h]
    BY <1>1
  <2>2. f \notin G /\ f \in 1 .. n
    BY <2>1 DEF Apart
  <2>3. f \notin F
    <3>1. CASE h = a
      BY <3>1
    <3>2. CASE h # a
      BY <2>1, <3>2 DEF Apart
    <3> QED  BY <3>1, <3>2
  <2> QED  BY <2>2, <2>3
<1>4. \A f \in 1 .. n : f \in G \cup F \/ \E h \in Holders : f \in H2[h]
  BY <1>1 DEF Apart
<1> QED  BY <1>2, <1>3, <1>4 DEF Apart

\* ... or are new.
LEMMA Comes ==
    ASSUME NEW H, NEW G, NEW O, NEW n \in Nat, Apart(H, G, O, n),
           NEW a \in Holders, H[a] = {},
           NEW H2, H2[a] = {n + 1}, \A h \in Holders : h # a => H2[h] = H[h]
    PROVE  Apart(H2, G, O, n + 1)
<1> HIDE DEF Holders
<1>1. n + 1 \notin 1 .. n /\ n + 1 \in 1 .. n + 1 /\ 1 .. n \subseteq 1 .. n + 1
      /\ \A f \in 1 .. n + 1 : f = n + 1 \/ f \in 1 .. n
  OBVIOUS
<1> DEFINE m == n + 1
           R == 1 .. n
           R2 == 1 .. m
<1>2. m \notin R /\ m \in R2 /\ R \subseteq R2 /\ \A f \in R2 : f = m \/ f \in R
  BY <1>1
<1>3. /\ \A h, k \in Holders : h # k => H[h] \cap H[k] = {}
      /\ \A h \in Holders : H[h] \cap G = {} /\ H[h] \subseteq R
      /\ \A f \in R : f \in G \/ \E h \in Holders : f \in H[h]
      /\ G \subseteq R
      /\ O \subseteq G
  BY DEF Apart
<1>4. H2[a] = {m}
  OBVIOUS
<1> HIDE DEF m, R, R2
<1>5. \A h, k \in Holders : h # k => H2[h] \cap H2[k] = {}
  <2> SUFFICES ASSUME NEW h \in Holders, NEW k \in Holders, h # k, NEW f, f \in H2[h], f \in H2[k]
               PROVE  FALSE
    OBVIOUS
  <2> QED  BY <1>2, <1>3, <1>4
<1>6. \A h \in Holders : H2[h] \cap G = {} /\ H2[h] \subseteq R2
  BY <1>2, <1>3, <1>4
<1>7. \A f \in R2 : f \in G \/ \E h \in Holders : f \in H2[h]
  <2> SUFFICES ASSUME NEW f \in R2, f \notin G PROVE \E h \in Holders : f \in H2[h]
    OBVIOUS
  <2>1. CASE f = m
    BY <1>4, <2>1
  <2>2. CASE f # m
    <3>1. PICK h \in Holders : f \in H[h]
      BY <1>2, <1>3, <2>2
    <3> QED  BY <3>1
  <2> QED  BY <2>1, <2>2
<1> QED  BY <1>2, <1>3, <1>5, <1>6, <1>7 DEF Apart, m, R, R2

\* What every holder has.
LEMMA HasIs ==
    /\ Has("inPP") = FramesOf(q.inPP) /\ Has("onPP") = FramesOf(q.onPP)
    /\ Has("inJpeg") = FramesOf(q.inJpeg) /\ Has("onJpeg") = FramesOf(q.onJpeg)
    /\ Has("src") = IF src.pc = "process" THEN {src.frame} ELSE {}
    /\ Has("rep") = IF rep.pc = "enqueue" THEN {rep.frame} ELSE {}
    /\ Has("data") = IF data.pc = "release" THEN {data.job} ELSE {}
    /\ \A h \in Holders : HeldBy[h] = Has(h)
    /\ Holders = {"inPP", "onPP", "inJpeg", "onJpeg", "src", "rep", "data"}
BY DEF Has, HeldBy, Holders, Names

\* Buffers of frames nobody released yet go back, or are kept.
LEMMA ReleaseIs ==
    ASSUME Typed, Once, Gone("output") \subseteq Gone("source"), sc' = sc,
           NEW F, F \subseteq Frames, F \cap Gone("source") = {},
           NEW r, NEW s, r \cap s = {},
           r \cup s \subseteq {Source(f) : f \in F} \cup {Output(f) : f \in F},
           {Source(f) : f \in F} \subseteq r \cup s,
           Return(r), kept' = kept \cup s
    PROVE  /\ back' \in [Buffers -> 0..1] /\ kept' \in SUBSET Buffers
           /\ Gone("source")' = Gone("source") \cup F
           /\ Gone("output")' \subseteq Gone("output") \cup F
           /\ Once'
<1>1. Frames' = Frames /\ Buffers' = Buffers
  BY FramesStay
<1>2. back \in [Buffers -> 0..1] /\ kept \in SUBSET Buffers
  BY DEF Typed, TypedRest
<1>3. \A f \in Frames : Source(f) \in Buffers /\ Output(f) \in Buffers
  BY DEF Source, Output, Buffers
<1>4. r \cup s \subseteq Buffers
  BY <1>3
<1>5. \A f \in F : /\ back[Source(f)] = 0 /\ Source(f) \notin kept
                   /\ back[Output(f)] = 0 /\ Output(f) \notin kept
  <2> SUFFICES ASSUME NEW f \in F
               PROVE  /\ back[Source(f)] = 0 /\ Source(f) \notin kept
                      /\ back[Output(f)] = 0 /\ Output(f) \notin kept
    OBVIOUS
  <2>1. f \in Frames /\ f \notin Gone("source") /\ f \notin Gone("output")
    OBVIOUS
  <2>2. back[Source(f)] \in 0..1 /\ back[Output(f)] \in 0..1
    BY <1>2, <1>3, <2>1
  <2> QED  BY <2>1, <2>2 DEF Gone, Source, Output
<1>6. \A b \in r \cup s : back[b] = 0 /\ b \notin kept
  BY <1>5
<1>7. \A b \in Buffers : back'[b] = back[b] + (IF b \in r THEN 1 ELSE 0)
  BY DEF Return
<1>8. ASSUME NEW b \in Buffers
      PROVE  /\ back'[b] \in 0..1
             /\ back'[b] = 1 \/ b \in kept' <=> back[b] = 1 \/ b \in kept \/ b \in r \cup s
             /\ back'[b] = 1 => b \notin kept'
  <2>1. back[b] \in 0..1 /\ (back[b] = 1 => b \notin kept)
    BY <1>2 DEF Once
  <2>2. CASE b \in r
    <3>1. back[b] = 0 /\ b \notin kept /\ b \notin s
      BY <1>6, <2>2
    <3> QED  BY <1>7, <2>2, <3>1
  <2>3. CASE b \notin r
    <3>1. back'[b] = back[b]
      BY <1>7, <2>1, <2>3
    <3> QED  BY <1>6, <2>1, <2>3, <3>1
  <2> QED  BY <2>2, <2>3
<1>9. back' \in [Buffers -> 0..1]
  <2>1. back' = [b \in Buffers |-> back[b] + (IF b \in r THEN 1 ELSE 0)]
    BY DEF Return
  <2> QED  BY <1>8, <2>1
<1>10. \A f \in Frames : /\ <<f, "source">> \in r \cup s <=> f \in F
                         /\ <<f, "output">> \in r \cup s => f \in F
  BY DEF Source, Output
<1>11. \A f \in Frames : <<f, "source">> \in Buffers /\ <<f, "output">> \in Buffers
  BY DEF Buffers
<1>12. Gone("source")' = {f \in Frames : back'[<<f, "source">>] = 1 \/ <<f, "source">> \in kept'}
  BY <1>1 DEF Gone
<1>13. Gone("output")' = {f \in Frames : back'[<<f, "output">>] = 1 \/ <<f, "output">> \in kept'}
  BY <1>1 DEF Gone
<1>14. Gone("source")' = Gone("source") \cup F
  <2>1. \A f \in Frames : f \in Gone("source")' <=> f \in Gone("source") \/ f \in F
    BY <1>8, <1>10, <1>11, <1>12 DEF Gone
  <2>2. Gone("source")' \subseteq Frames /\ Gone("source") \subseteq Frames
    BY <1>12 DEF Gone
  <2> QED  BY <2>1, <2>2
<1>15. Gone("output")' \subseteq Gone("output") \cup F
  <2>1. \A f \in Frames : f \in Gone("output")' => f \in Gone("output") \/ f \in F
    BY <1>8, <1>10, <1>11, <1>13 DEF Gone
  <2>2. Gone("output")' \subseteq Frames
    BY <1>13
  <2> QED  BY <2>1, <2>2
<1>16. kept' \in SUBSET Buffers
  BY <1>2, <1>4
<1>17. Once'
  BY <1>1, <1>8 DEF Once
<1> QED  BY <1>9, <1>14, <1>15, <1>16, <1>17

\* Held, spelled out for the frames there are.
LEMMA HeldIs ==
    ASSUME Typed, Held
    PROVE  /\ Apart(HeldBy, Gone("source"), Gone("output"), src.seen) /\ Once
           /\ \A k \in Names : Distinct(q[k])
           /\ \A h \in Holders : HeldBy[h] \subseteq Frames /\ HeldBy[h] \cap Gone("source") = {}
           /\ \A h, k \in Holders : h # k => HeldBy[h] \cap HeldBy[k] = {}
           /\ Gone("output") \subseteq Gone("source")
           /\ src.seen \in Nat
<1>1. src.seen \in 0 .. sc.n * sc.captures /\ sc.n * sc.captures \in Nat
  BY ScenarioIs DEF Typed, TypedRest, SrcStates
<1>2. 1 .. src.seen \subseteq Frames
  BY <1>1 DEF Frames
<1> QED  BY <1>1, <1>2 DEF Held, Apart

\* Frames that a holder gives back.
LEMMA HeldGives ==
    ASSUME Typed, Held, sc' = sc, src'.seen = src.seen,
           NEW a \in Holders, NEW F, F \subseteq HeldBy[a],
           NEW r, NEW s, r \cap s = {},
           r \cup s \subseteq {Source(f) : f \in F} \cup {Output(f) : f \in F},
           {Source(f) : f \in F} \subseteq r \cup s,
           Return(r), kept' = kept \cup s,
           HeldBy'[a] = HeldBy[a] \ F, \A h \in Holders : h # a => HeldBy'[h] = HeldBy[h],
           \A k \in Names : Distinct(q'[k])
    PROVE  Held' /\ back' \in [Buffers -> 0..1] /\ kept' \in SUBSET Buffers
<1>1. /\ Apart(HeldBy, Gone("source"), Gone("output"), src.seen) /\ Once
      /\ Gone("output") \subseteq Gone("source")
      /\ F \subseteq Frames /\ F \cap Gone("source") = {}
  BY HeldIs
<1>2. /\ back' \in [Buffers -> 0..1] /\ kept' \in SUBSET Buffers
      /\ Gone("source")' = Gone("source") \cup F
      /\ Gone("output")' \subseteq Gone("output") \cup F
      /\ Once'
  BY <1>1, ReleaseIs
<1>3. Gone("output")' \subseteq Gone("source") \cup F
  BY <1>1, <1>2
<1>4. Apart(HeldBy', Gone("source") \cup F, Gone("output")', src.seen)
  BY <1>1, <1>3, Gives
<1>5. Apart(HeldBy', Gone("source")', Gone("output")', src'.seen)
  BY <1>2, <1>4
<1> QED  BY <1>2, <1>5 DEF Held, Apart

\* Nothing is released.
LEMMA NothingGone ==
    ASSUME Typed, Held, sc' = sc, UNCHANGED <<back, kept>>
    PROVE  /\ Gone("source")' = Gone("source") /\ Gone("output")' = Gone("output") /\ Once'
           /\ back' \in [Buffers -> 0..1] /\ kept' \in SUBSET Buffers
BY FramesStay DEF Gone, Held, Once, Typed, TypedRest

\* Frames that go from one holder to another.
LEMMA HeldMoves ==
    ASSUME Typed, Held, sc' = sc, UNCHANGED <<back, kept>>, src'.seen = src.seen,
           NEW a \in Holders, NEW b \in Holders, a # b, NEW F, F \subseteq HeldBy[a],
           HeldBy'[a] = HeldBy[a] \ F, HeldBy'[b] = HeldBy[b] \cup F,
           \A h \in Holders : h # a /\ h # b => HeldBy'[h] = HeldBy[h],
           \A k \in Names : Distinct(q'[k])
    PROVE  Held'
<1>1. Apart(HeldBy, Gone("source"), Gone("output"), src.seen)
  BY HeldIs
<1>2. Apart(HeldBy', Gone("source"), Gone("output"), src.seen)
  BY <1>1, Moves
<1>3. Gone("source")' = Gone("source") /\ Gone("output")' = Gone("output") /\ Once'
  BY NothingGone
<1>4. Apart(HeldBy', Gone("source")', Gone("output")', src'.seen)
  BY <1>2, <1>3
<1> QED  BY <1>3, <1>4 DEF Held, Apart

\* All holders have what they had.
LEMMA HeldSame ==
    ASSUME Typed, Held, sc' = sc, UNCHANGED <<back, kept>>, src'.seen = src.seen,
           \A h \in Holders : HeldBy'[h] = HeldBy[h],
           \A k \in Names : Distinct(q'[k])
    PROVE  Held'
<1>1. Apart(HeldBy, Gone("source"), Gone("output"), src.seen)
  BY HeldIs
<1>2. Apart(HeldBy', Gone("source"), Gone("output"), src.seen)
  BY <1>1 DEF Apart
<1>3. Gone("source")' = Gone("source") /\ Gone("output")' = Gone("output") /\ Once'
  BY NothingGone
<1>4. Apart(HeldBy', Gone("source")', Gone("output")', src'.seen)
  BY <1>2, <1>3
<1> QED  BY <1>3, <1>4 DEF Held, Apart

\* What each holder has in the next state,
LEMMA HasNext ==
    /\ HeldBy'["inPP"] = FramesOf(q'.inPP) /\ HeldBy'["onPP"] = FramesOf(q'.onPP)
    /\ HeldBy'["inJpeg"] = FramesOf(q'.inJpeg) /\ HeldBy'["onJpeg"] = FramesOf(q'.onJpeg)
    /\ HeldBy'["src"] = IF src'.pc = "process" THEN {src'.frame} ELSE {}
    /\ HeldBy'["rep"] = IF rep'.pc = "enqueue" THEN {rep'.frame} ELSE {}
    /\ HeldBy'["data"] = IF data'.pc = "release" THEN {data'.job} ELSE {}
BY DEF Has, HeldBy, Holders, Names

\* and in this one.
LEMMA HasNow ==
    /\ HeldBy["inPP"] = FramesOf(q.inPP) /\ HeldBy["onPP"] = FramesOf(q.onPP)
    /\ HeldBy["inJpeg"] = FramesOf(q.inJpeg) /\ HeldBy["onJpeg"] = FramesOf(q.onJpeg)
    /\ HeldBy["src"] = IF src.pc = "process" THEN {src.frame} ELSE {}
    /\ HeldBy["rep"] = IF rep.pc = "enqueue" THEN {rep.frame} ELSE {}
    /\ HeldBy["data"] = IF data.pc = "release" THEN {data.job} ELSE {}
BY DEF Has, HeldBy, Holders, Names

\* Each queue by its name.
LEMMA NamesAre ==
    ASSUME NEW S, \A k \in Names : Distinct(S[k])
    PROVE  Distinct(S.inPP) /\ Distinct(S.onPP) /\ Distinct(S.inJpeg) /\ Distinct(S.onJpeg)
BY DEF Names

\* The buffers that are released with a frame, or with those of a queue.
LEMMA BufsAre ==
    ASSUME NEW F, NEW bs, bs = UNION {jpegBufs(f) : f \in F} \/ bs = UNION {ppBufs(f) : f \in F},
           Release(bs)
    PROVE  \E r, s : /\ r \cap s = {}
                     /\ r \cup s \subseteq {Source(f) : f \in F} \cup {Output(f) : f \in F}
                     /\ {Source(f) : f \in F} \subseteq r \cup s
                     /\ Return(r) /\ kept' = kept \cup s
<1> DEFINE X == reproc_frame_release
           r == bs \ X
           s == bs \cap X
<1>1. Return(r) /\ kept' = kept \cup s /\ r \cup s = bs /\ r \cap s = {}
  BY DEF Release
<1>2. /\ bs \subseteq {Source(f) : f \in F} \cup {Output(f) : f \in F}
      /\ {Source(f) : f \in F} \subseteq bs
  <2>1. CASE bs = UNION {jpegBufs(f) : f \in F}
    BY <2>1 DEF jpegBufs
  <2>2. CASE bs = UNION {ppBufs(f) : f \in F}
    BY <2>2 DEF ppBufs
  <2> QED  BY <2>1, <2>2
<1> HIDE DEF r, s
<1> QED  BY <1>1, <1>2

\* A holder releases the buffers of frames it has.
LEMMA HeldReleases ==
    ASSUME Typed, Held, sc' = sc, src'.seen = src.seen,
           NEW a \in Holders, NEW F, F \subseteq HeldBy[a],
           NEW bs, bs = UNION {jpegBufs(f) : f \in F} \/ bs = UNION {ppBufs(f) : f \in F},
           Release(bs),
           HeldBy'[a] = HeldBy[a] \ F, \A h \in Holders : h # a => HeldBy'[h] = HeldBy[h],
           \A k \in Names : Distinct(q'[k])
    PROVE  Held' /\ back' \in [Buffers -> 0..1] /\ kept' \in SUBSET Buffers
<1>1. PICK r, s : /\ r \cap s = {}
                  /\ r \cup s \subseteq {Source(f) : f \in F} \cup {Output(f) : f \in F}
                  /\ {Source(f) : f \in F} \subseteq r \cup s
                  /\ Return(r) /\ kept' = kept \cup s
  BY BufsAre
<1> QED  BY <1>1, HeldGives

\* The types that Held is about.
LEMMA HeldTyped ==
    ASSUME Typed, Held
    PROVE  /\ q \in Queues /\ data \in DataStates /\ src \in SrcStates /\ rep \in RepStates
           /\ q.inPP \in Seq(Jobs) /\ q.onPP \in Seq(Jobs)
           /\ q.inJpeg \in Seq(Jobs) /\ q.onJpeg \in Seq(Jobs)
           /\ Distinct(q.inPP) /\ Distinct(q.onPP) /\ Distinct(q.inJpeg) /\ Distinct(q.onJpeg)
BY QueuesAre, NamesAre DEF Typed, TypedData, TypedRest, Held

\* The source channel: a frame comes, ...
LEMMA HeldSource ==
    ASSUME Typed, Held, Busy, SrcFrame \/ processData
    PROVE  Held' /\ back' \in [Buffers -> 0..1] /\ kept' \in SUBSET Buffers
<1>1. CASE SrcFrame
  <2>1. /\ sc' = sc /\ UNCHANGED <<back, kept, q, data, rep>>
        /\ src.pc = "idle" /\ src'.pc = "process" /\ src'.frame = src.seen + 1
        /\ src'.seen = src.seen + 1
    BY <1>1, HeldTyped DEF SrcFrame, ppVars, SrcStates
  <2>2. HeldBy["src"] = {} /\ HeldBy'["src"] = {src.seen + 1}
    BY <2>1, HasNow, HasNext
  <2>3. \A h \in Holders : h # "src" => HeldBy'[h] = HeldBy[h]
    BY <2>1, HasNow, HasNext DEF Holders, Names
  <2>4. Apart(HeldBy, Gone("source"), Gone("output"), src.seen) /\ src.seen \in Nat
    BY HeldIs
  <2>5. Apart(HeldBy', Gone("source"), Gone("output"), src.seen + 1)
    BY <2>2, <2>3, <2>4, Comes DEF Holders
  <2>6. /\ Gone("source")' = Gone("source") /\ Gone("output")' = Gone("output") /\ Once'
        /\ back' \in [Buffers -> 0..1] /\ kept' \in SUBSET Buffers
    BY <2>1, NothingGone
  <2>7. Apart(HeldBy', Gone("source")', Gone("output")', src'.seen)
    BY <2>1, <2>5, <2>6
  <2> QED  BY <2>1, <2>6, <2>7 DEF Held, Apart
<1>2. CASE processData
  <2> DEFINE f == src.frame
  <2>1. /\ sc' = sc /\ UNCHANGED <<kept, data, rep>>
        /\ src.pc = "process" /\ src'.pc # "process" /\ src'.seen = src.seen /\ f \in Frames
    BY <1>2, HeldTyped DEF processData, SrcStates, Busy
  <2>2. HeldBy["src"] = {f} /\ HeldBy'["src"] = HeldBy["src"] \ {f} /\ {f} \subseteq HeldBy["src"]
    BY <2>1, HasNow, HasNext
  <2>3. ASSUME NEW s \in Seq(Jobs), Distinct(s), f \notin FramesOf(s)
        PROVE  Distinct(Append(s, Job(f))) /\ FramesOf(Append(s, Job(f))) = FramesOf(s) \cup {f}
    <3>1. Job(f) \in Jobs /\ Job(f).frame = f
      BY <2>1, JobIs
    <3> QED  BY <2>3, <3>1, FramesAppend
  <2>4. f \notin FramesOf(q.inPP) /\ f \notin FramesOf(q.inJpeg)
    BY <2>2, HeldIs, HasNow DEF Holders, Names
  <2>9. "src" \in Holders /\ "inPP" \in Holders /\ "inJpeg" \in Holders
    BY DEF Holders, Names
  <2>5. CASE q' = [q EXCEPT !.inPP = Append(@, Job(f))] /\ UNCHANGED back
    <3>1. /\ q'.inPP = Append(q.inPP, Job(f)) /\ q'.onPP = q.onPP
          /\ q'.inJpeg = q.inJpeg /\ q'.onJpeg = q.onJpeg
      BY <2>5, HeldTyped DEF Queues
    <3>2. HeldBy'["inPP"] = HeldBy["inPP"] \cup {f} /\ \A k \in Names : Distinct(q'[k])
      BY <2>3, <2>4, <3>1, HasNow, HasNext, HeldTyped DEF Names
    <3>3. \A h \in Holders : h # "src" /\ h # "inPP" => HeldBy'[h] = HeldBy[h]
      BY <2>1, <3>1, HasNow, HasNext DEF Holders, Names
    <3>4. Held'
      BY <2>1, <2>2, <2>5, <2>9, <3>2, <3>3, HeldMoves
    <3> QED  BY <2>1, <2>5, <3>4, NothingGone
  <2>6. CASE q' = [q EXCEPT !.inJpeg = Append(@, Job(f))] /\ UNCHANGED back
    <3>1. /\ q'.inJpeg = Append(q.inJpeg, Job(f)) /\ q'.onPP = q.onPP
          /\ q'.inPP = q.inPP /\ q'.onJpeg = q.onJpeg
      BY <2>6, HeldTyped DEF Queues
    <3>2. HeldBy'["inJpeg"] = HeldBy["inJpeg"] \cup {f} /\ \A k \in Names : Distinct(q'[k])
      BY <2>3, <2>4, <3>1, HasNow, HasNext, HeldTyped DEF Names
    <3>3. \A h \in Holders : h # "src" /\ h # "inJpeg" => HeldBy'[h] = HeldBy[h]
      BY <2>1, <3>1, HasNow, HasNext DEF Holders, Names
    <3>4. Held'
      BY <2>1, <2>2, <2>6, <2>9, <3>2, <3>3, HeldMoves
    <3> QED  BY <2>1, <2>6, <3>4, NothingGone
  <2>7. CASE Return({Source(f)}) /\ UNCHANGED q
    <3> DEFINE F == {f}
               r == {Source(f)}
               s == {}
    <3>1. /\ r \cap s = {} /\ r \cup s \subseteq {Source(g) : g \in F} \cup {Output(g) : g \in F}
          /\ {Source(g) : g \in F} \subseteq r \cup s
      OBVIOUS
    <3>2. Return(r) /\ kept' = kept \cup s
      BY <2>1, <2>7
    <3>3. \A h \in Holders : h # "src" => HeldBy'[h] = HeldBy[h]
      BY <2>1, <2>7, HasNow, HasNext DEF Holders, Names
    <3>4. \A k \in Names : Distinct(q'[k])
      BY <2>7, HeldIs
    <3>5. F \subseteq HeldBy["src"] /\ HeldBy'["src"] = HeldBy["src"] \ F /\ "src" \in Holders
      BY <2>2 DEF Holders
    <3> HIDE DEF F, r, s
    <3> QED  BY <2>1, <3>1, <3>2, <3>3, <3>4, <3>5, HeldGives
  <2>8. \/ q' = [q EXCEPT !.inPP = Append(@, Job(f))] /\ UNCHANGED back
        \/ q' = [q EXCEPT !.inJpeg = Append(@, Job(f))] /\ UNCHANGED back
        \/ Return({Source(f)}) /\ UNCHANGED q
    BY <1>2 DEF processData
  <2> QED  BY <2>5, <2>6, <2>7, <2>8
<1> QED  BY <1>1, <1>2

\* The reprocess channel.
LEMMA HeldReprocess ==
    ASSUME Typed, Held, Busy, Reprocessed, Phases, FindPPJob \/ EnqueueJpeg
    PROVE  Held' /\ back' \in [Buffers -> 0..1] /\ kept' \in SUBSET Buffers
<1> DEFINE f == rep.frame
<1>1. /\ sc' = sc /\ UNCHANGED <<data, src>> /\ f \in Frames
  BY DEF FindPPJob, EnqueueJpeg, Busy
<1>2. CASE FindPPJob
  <2>1. rep.pc = "process" /\ back' = back
    BY <1>2 DEF FindPPJob
  <2>2. CASE open.onPP /\ q.onPP # <<>>
    <3>1. q' = [q EXCEPT !.onPP = Tail(@)] /\ rep' = [rep EXCEPT !.pc = "enqueue"] /\ kept' = kept
      BY <1>2, <2>2 DEF FindPPJob
    <3>2. /\ q'.onPP = Tail(q.onPP) /\ q'.inJpeg = q.inJpeg
          /\ q'.inPP = q.inPP /\ q'.onJpeg = q.onJpeg /\ rep'.pc = "enqueue" /\ rep'.frame = f
      BY <3>1, HeldTyped DEF Queues, RepStates
    <3>3. Head(q.onPP).frame = f
      <4>1. Head(q.onPP) = q.onPP[1]
        BY <2>2, HeldTyped, TailIs
      <4> QED  BY <2>1, <2>2, <4>1 DEF Reprocessed
    <3>4. /\ Distinct(Tail(q.onPP)) /\ f \in FramesOf(q.onPP)
          /\ FramesOf(Tail(q.onPP)) = FramesOf(q.onPP) \ {f}
      BY <2>2, <3>3, HeldTyped, FramesTail
    <3>5. /\ {f} \subseteq HeldBy["onPP"] /\ HeldBy'["onPP"] = HeldBy["onPP"] \ {f}
          /\ HeldBy'["rep"] = HeldBy["rep"] \cup {f}
      BY <2>1, <3>2, <3>4, HasNow, HasNext
    <3>6. \A h \in Holders : h # "onPP" /\ h # "rep" => HeldBy'[h] = HeldBy[h]
      BY <1>1, <3>2, HasNow, HasNext DEF Holders, Names
    <3>7. \A k \in Names : Distinct(q'[k])
      BY <3>2, <3>4, HeldTyped DEF Names
    <3>8. "onPP" \in Holders /\ "rep" \in Holders
      BY DEF Holders, Names
    <3>9. Held'
      BY <1>1, <2>1, <3>1, <3>5, <3>6, <3>7, <3>8, HeldMoves
    <3> QED  BY <1>1, <2>1, <3>1, <3>9, NothingGone
  <2>3. CASE ~(open.onPP /\ q.onPP # <<>>)
    <3>1. /\ kept' = kept \cup {Output(f)} /\ UNCHANGED q
          /\ rep' = [rep EXCEPT !.pc = "idle", !.frame = Idle]
      BY <1>2, <2>3 DEF FindPPJob
    <3>2. q.onPP = <<>>
      BY <2>3 DEF Phases, ClosedEmpty
    <3>3. HeldBy["onPP"] = {}
      BY <3>2, HasNow, HeldTyped, FramesAre
    <3>4. f \in Gone("source") /\ f \notin Gone("output")
      <4>1. f \in Lent
        BY <2>1 DEF Lent
      <4>2. Has("onPP") = {}
        BY <3>3, HasIs
      <4> QED  BY <4>1, <4>2 DEF Reprocessed
    <3>5. rep'.pc = "idle"
      BY <3>1, HeldTyped DEF RepStates
    <3>6. \A h \in Holders : HeldBy'[h] = HeldBy[h]
      BY <1>1, <2>1, <3>1, <3>5, HasNow, HasNext DEF Holders, Names
    <3>7. Buffers' = Buffers /\ Frames' = Frames
      BY <1>1, FramesStay
    <3>8. Output(f) \in Buffers
      BY <1>1 DEF Output, Buffers
    <3>9. back \in [Buffers -> 0..1] /\ kept \in SUBSET Buffers
      BY DEF Typed, TypedRest
    <3>10. back[Output(f)] = 0
      <4>1. back[Output(f)] # 1
        BY <1>1, <3>4 DEF Gone, Output
      <4> QED  BY <3>8, <3>9, <4>1
    <3>11. Once'
      BY <2>1, <3>1, <3>7, <3>10, HeldIs DEF Once
    <3>12. Gone("source")' = Gone("source")
      BY <2>1, <3>1, <3>7 DEF Gone, Output
    <3>13. Gone("output")' \subseteq Gone("output") \cup {f}
      BY <2>1, <3>1, <3>7 DEF Gone, Output
    <3>14. Apart(HeldBy', Gone("source")', Gone("output")', src'.seen)
      <4>1. Gone("output")' \subseteq Gone("source")
        BY <3>4, <3>13, HeldIs
      <4> QED  BY <1>1, <3>6, <3>12, <4>1, HeldIs DEF Apart
    <3>15. \A k \in Names : Distinct(q'[k])
      BY <3>1, HeldIs
    <3>16. Held'
      BY <3>11, <3>14, <3>15 DEF Held, Apart
    <3> QED  BY <2>1, <3>1, <3>8, <3>9, <3>16
  <2> QED  BY <2>2, <2>3
<1>3. CASE EnqueueJpeg
  <2>1. rep.pc = "enqueue" /\ rep'.pc \in {"send", "idle"}
    BY <1>3, HeldTyped DEF EnqueueJpeg, RepStates
  <2>2. HeldBy["rep"] = {f} /\ HeldBy'["rep"] = HeldBy["rep"] \ {f} /\ {f} \subseteq HeldBy["rep"]
    BY <2>1, HasNow, HasNext
  <2>3. "inJpeg" \in Holders /\ "rep" \in Holders
    BY DEF Holders, Names
  <2>4. CASE open.inJpeg
    <3>1. /\ q' = [q EXCEPT !.inJpeg = Append(@, Job(f))] /\ UNCHANGED <<back, kept>>
      BY <1>3, <2>4 DEF EnqueueJpeg
    <3>2. /\ q'.inJpeg = Append(q.inJpeg, Job(f)) /\ q'.onPP = q.onPP
          /\ q'.inPP = q.inPP /\ q'.onJpeg = q.onJpeg
      BY <3>1, HeldTyped DEF Queues
    <3>3. f \notin FramesOf(q.inJpeg)
      BY <2>2, <2>3, HeldIs, HasNow
    <3>4. /\ Distinct(Append(q.inJpeg, Job(f)))
          /\ FramesOf(Append(q.inJpeg, Job(f))) = FramesOf(q.inJpeg) \cup {f}
      <4>1. Job(f) \in Jobs /\ Job(f).frame = f
        BY <1>1, JobIs
      <4> QED  BY <3>3, <4>1, HeldTyped, FramesAppend
    <3>5. HeldBy'["inJpeg"] = HeldBy["inJpeg"] \cup {f} /\ \A k \in Names : Distinct(q'[k])
      BY <3>2, <3>4, HasNow, HasNext, HeldTyped DEF Names
    <3>6. \A h \in Holders : h # "rep" /\ h # "inJpeg" => HeldBy'[h] = HeldBy[h]
      BY <1>1, <3>2, HasNow, HasNext DEF Holders, Names
    <3>7. Held'
      BY <1>1, <2>2, <2>3, <3>1, <3>5, <3>6, HeldMoves
    <3> QED  BY <1>1, <3>1, <3>7, NothingGone
  <2>5. CASE ~open.inJpeg
    <3> DEFINE F == {f}
               bs == jpegBufs(f)
    <3>1. Release(bs) /\ UNCHANGED q
      BY <1>3, <2>5 DEF EnqueueJpeg
    <3>2. bs = UNION {jpegBufs(g) : g \in F}
      OBVIOUS
    <3>3. \A h \in Holders : h # "rep" => HeldBy'[h] = HeldBy[h]
      BY <1>1, <3>1, HasNow, HasNext DEF Holders, Names
    <3>4. \A k \in Names : Distinct(q'[k])
      BY <3>1, HeldIs
    <3>5. F \subseteq HeldBy["rep"] /\ HeldBy'["rep"] = HeldBy["rep"] \ F
      BY <2>2
    <3> HIDE DEF F, bs
    <3> QED  BY <1>1, <2>3, <3>1, <3>2, <3>3, <3>4, <3>5, HeldReleases
  <2> QED  BY <2>4, <2>5
<1> QED  BY <1>2, <1>3

\* The holders by name.
LEMMA HoldersHave ==
    /\ "src" \in Holders /\ "rep" \in Holders /\ "data" \in Holders
    /\ "inPP" \in Holders /\ "onPP" \in Holders /\ "inJpeg" \in Holders /\ "onJpeg" \in Holders
BY DEF Holders, Names

\* A job of the encoder is cancelled, and then released.
LEMMA HeldCancel ==
    ASSUME Typed, Held, Busy, CancelJob \/ ReleaseJob
    PROVE  Held' /\ back' \in [Buffers -> 0..1] /\ kept' \in SUBSET Buffers
<1>1. /\ sc' = sc /\ UNCHANGED <<rep, src>>
  BY DEF CancelJob, ReleaseJob
<1>2. CASE CancelJob
  <2> DEFINE f == Head(q.onJpeg).frame
  <2>1. /\ UNCHANGED <<back, kept>> /\ q.onJpeg # <<>> /\ data.pc = "cancel"
        /\ data'.pc = "release" /\ data'.job = f /\ q'.onJpeg = Tail(q.onJpeg)
        /\ q'.inPP = q.inPP /\ q'.onPP = q.onPP /\ q'.inJpeg = q.inJpeg
    BY <1>2, HeldTyped DEF CancelJob, Queues, DataStates
  <2>2. /\ Distinct(Tail(q.onJpeg)) /\ f \in FramesOf(q.onJpeg)
        /\ FramesOf(Tail(q.onJpeg)) = FramesOf(q.onJpeg) \ {f}
    BY <2>1, HeldTyped, FramesTail
  <2>3. /\ {f} \subseteq HeldBy["onJpeg"] /\ HeldBy'["onJpeg"] = HeldBy["onJpeg"] \ {f}
        /\ HeldBy'["data"] = HeldBy["data"] \cup {f}
    BY <2>1, <2>2, HasNow, HasNext
  <2>4. \A h \in Holders : h # "onJpeg" /\ h # "data" => HeldBy'[h] = HeldBy[h]
    BY <1>1, <2>1, HasNow, HasNext DEF Holders, Names
  <2>5. \A k \in Names : Distinct(q'[k])
    BY <2>1, <2>2, HeldTyped DEF Names
  <2> HIDE DEF f
  <2>6. Held'
    BY <1>1, <2>1, <2>3, <2>4, <2>5, HoldersHave, HeldMoves
  <2> QED  BY <1>1, <2>1, <2>6, NothingGone
<1>3. CASE ReleaseJob
  <2> DEFINE F == {data.job}
             bs == jpegBufs(data.job)
  <2>1. Release(bs) /\ UNCHANGED q /\ data.pc = "release" /\ data'.pc = "cancel"
    BY <1>3, HeldTyped DEF ReleaseJob, DataStates
  <2>2. bs = UNION {jpegBufs(g) : g \in F}
    OBVIOUS
  <2>3. \A h \in Holders : h # "data" => HeldBy'[h] = HeldBy[h]
    BY <1>1, <2>1, HasNow, HasNext DEF Holders, Names
  <2>4. \A k \in Names : Distinct(q'[k])
    BY <2>1, HeldIs
  <2>5. F \subseteq HeldBy["data"] /\ HeldBy'["data"] = HeldBy["data"] \ F
    BY <2>1, HasNow, HasNext
  <2> HIDE DEF F, bs
  <2> QED  BY <1>1, HoldersHave, <2>1, <2>2, <2>3, <2>4, <2>5, HeldReleases
<1> QED  BY <1>2, <1>3

\* A queue is flushed.
LEMMA HeldFlush ==
    ASSUME Typed, Held, FlushOngoingPP \/ FlushInputJpeg \/ FlushInputPP
    PROVE  Held' /\ back' \in [Buffers -> 0..1] /\ kept' \in SUBSET Buffers
<1>1. /\ sc' = sc /\ UNCHANGED <<rep, src>>
  BY DEF FlushOngoingPP, FlushInputJpeg, FlushInputPP, Flush
<1>2. data.pc # "release" /\ data'.pc # "release"
  BY HeldTyped DEF FlushOngoingPP, FlushInputJpeg, FlushInputPP, DataStates
<1>3. PICK k \in {"onPP", "inJpeg", "inPP"} :
        Release(BufsOf(k)) /\ q' = [q EXCEPT ![k] = <<>>]
  BY DEF FlushOngoingPP, FlushInputJpeg, FlushInputPP, Flush
<1> DEFINE F == FramesOf(q[k])
           bs == BufsOf(k)
<1>4. bs = UNION {jpegBufs(f) : f \in F} \/ bs = UNION {ppBufs(f) : f \in F}
  BY DEF BufsOf
<1>5. /\ q'[k] = <<>> /\ \A h \in Names : h # k => q'[h] = q[h]
      /\ k \in Names /\ k \in Holders
  BY <1>3, HeldTyped DEF Queues, Names, Holders
<1>6. <<>> \in Seq(Jobs) /\ FramesOf(<<>>) = {} /\ Distinct(<<>>)
  <2> DEFINE s == <<>>
  <2>1. s \in Seq(Jobs) /\ s = <<>>
    OBVIOUS
  <2> HIDE DEF s
  <2>2. FramesOf(s) = {} /\ Distinct(s)
    BY <2>1, FramesAre
  <2> QED  BY <2>1, <2>2
<1>7. F = HeldBy[k] /\ HeldBy'[k] = FramesOf(q'[k])
  BY <1>3, HasNow, HasNext
<1>8. F \subseteq HeldBy[k] /\ HeldBy'[k] = HeldBy[k] \ F
  BY <1>5, <1>6, <1>7
<1>9. \A h \in Holders : h # k => HeldBy'[h] = HeldBy[h]
  <2>1. \A h \in Names : HeldBy'[h] = FramesOf(q'[h]) /\ HeldBy[h] = FramesOf(q[h])
    BY HasNow, HasNext DEF Names
  <2>2. \A h \in {"src", "rep", "data"} : HeldBy'[h] = HeldBy[h]
    BY <1>1, <1>2, HasNow, HasNext
  <2> QED  BY <1>5, <2>1, <2>2 DEF Holders
<1>10. \A h \in Names : Distinct(q'[h])
  <2> SUFFICES ASSUME NEW h \in Names PROVE Distinct(q'[h])
    OBVIOUS
  <2>1. CASE h = k
    BY <1>5, <1>6, <2>1
  <2>2. CASE h # k
    <3>1. q'[h] = q[h] /\ Distinct(q[h])
      BY <1>5, <2>2, HeldIs
    <3> QED  BY <3>1
  <2> QED  BY <2>1, <2>2
<1> HIDE DEF F, bs
<1>11. Release(bs)
  BY <1>3 DEF bs
<1> QED  BY <1>1, <1>4, <1>5, <1>8, <1>9, <1>10, <1>11, HeldReleases

\* From one queue to the next.
LEMMA HeldWork ==
    ASSUME Typed, Held, Busy, NextJob \/ doReprocess \/ StoreJobId
    PROVE  Held' /\ back' \in [Buffers -> 0..1] /\ kept' \in SUBSET Buffers
<1>1. /\ sc' = sc /\ UNCHANGED <<src, back, kept>>
  BY DEF NextJob, doReprocess, StoreJobId
<1>2. data.pc # "release" /\ data'.pc # "release"
  BY HeldTyped DEF NextJob, doReprocess, StoreJobId, DataStates
<1>3. rep'.pc = rep.pc /\ rep'.frame = rep.frame
  BY HeldTyped DEF NextJob, doReprocess, StoreJobId, RepStates
<1>4. CASE UNCHANGED q
  <2>1. \A h \in Holders : HeldBy'[h] = HeldBy[h]
    BY <1>1, <1>2, <1>3, <1>4, HasNow, HasNext DEF Holders, Names
  <2>2. \A k \in Names : Distinct(q'[k])
    BY <1>4, HeldIs
  <2> QED  BY <1>1, <2>1, <2>2, HeldSame, NothingGone
<1>5. CASE NextJob /\ q.inJpeg # <<>>
  <2> DEFINE j == Head(q.inJpeg)
             f == j.frame
             t == Tail(q.inJpeg)
             u == Append(q.onJpeg, j)
  <2>1. q' = [q EXCEPT !.inJpeg = t, !.onJpeg = u]
    BY <1>5, HeldTyped DEF NextJob, Queues
  <2>2. j \in Jobs /\ Distinct(t) /\ f \in FramesOf(q.inJpeg) /\ FramesOf(t) = FramesOf(q.inJpeg) \ {f}
    BY <1>5, HeldTyped, FramesTail, TailIs
  <2>3. f \notin FramesOf(q.onJpeg)
    BY <2>2, HeldIs, HasNow, HoldersHave
  <2>4. Distinct(u) /\ FramesOf(u) = FramesOf(q.onJpeg) \cup {f}
    BY <2>2, <2>3, HeldTyped, FramesAppend
  <2> HIDE DEF f, t, u, j
  <2>5. q'.inJpeg = t /\ q'.onJpeg = u /\ q'.inPP = q.inPP /\ q'.onPP = q.onPP
    BY <2>1, HeldTyped DEF Queues
  <2>6. /\ {f} \subseteq HeldBy["inJpeg"] /\ HeldBy'["inJpeg"] = HeldBy["inJpeg"] \ {f}
        /\ HeldBy'["onJpeg"] = HeldBy["onJpeg"] \cup {f}
    BY <2>2, <2>4, <2>5, HasNow, HasNext
  <2>7. \A h \in Holders : h # "inJpeg" /\ h # "onJpeg" => HeldBy'[h] = HeldBy[h]
    BY <1>1, <1>2, <1>3, <2>5, HasNow, HasNext DEF Holders, Names
  <2>8. \A k \in Names : Distinct(q'[k])
    BY <2>2, <2>4, <2>5, HeldTyped DEF Names
  <2>9. Held'
    BY <1>1, <2>6, <2>7, <2>8, HoldersHave, HeldMoves
  <2> QED  BY <1>1, <2>9, NothingGone
<1>6. CASE doReprocess /\ q.inPP # <<>> /\ validatePostProcess
  <2> DEFINE j == Head(q.inPP)
             f == j.frame
             t == Tail(q.inPP)
             u == Append(q.onPP, j)
  <2>1. q' = [q EXCEPT !.inPP = t, !.onPP = u]
    BY <1>6, HeldTyped DEF doReprocess, Queues
  <2>2. j \in Jobs /\ Distinct(t) /\ f \in FramesOf(q.inPP) /\ FramesOf(t) = FramesOf(q.inPP) \ {f}
    BY <1>6, HeldTyped, FramesTail, TailIs
  <2>3. f \notin FramesOf(q.onPP)
    BY <2>2, HeldIs, HasNow, HoldersHave
  <2>4. Distinct(u) /\ FramesOf(u) = FramesOf(q.onPP) \cup {f}
    BY <2>2, <2>3, HeldTyped, FramesAppend
  <2> HIDE DEF f, t, u, j
  <2>5. q'.inPP = t /\ q'.onPP = u /\ q'.inJpeg = q.inJpeg /\ q'.onJpeg = q.onJpeg
    BY <2>1, HeldTyped DEF Queues
  <2>6. /\ {f} \subseteq HeldBy["inPP"] /\ HeldBy'["inPP"] = HeldBy["inPP"] \ {f}
        /\ HeldBy'["onPP"] = HeldBy["onPP"] \cup {f}
    BY <2>2, <2>4, <2>5, HasNow, HasNext
  <2>7. \A h \in Holders : h # "inPP" /\ h # "onPP" => HeldBy'[h] = HeldBy[h]
    BY <1>1, <1>2, <1>3, <2>5, HasNow, HasNext DEF Holders, Names
  <2>8. \A k \in Names : Distinct(q'[k])
    BY <2>2, <2>4, <2>5, HeldTyped DEF Names
  <2>9. Held'
    BY <1>1, <2>6, <2>7, <2>8, HoldersHave, HeldMoves
  <2> QED  BY <1>1, <2>9, NothingGone
<1>7. CASE StoreJobId
  <2> DEFINE s == q.onJpeg
             t == [s EXCEPT ![Len(s)].id = jobHist]
  <2>1. s # <<>> /\ jobHist \in Nat /\ s \in Seq(Jobs) /\ Distinct(s)
    BY <1>7, HeldTyped DEF StoreJobId, Busy, Typed, TypedJpeg
  <2>2. q' = [q EXCEPT !.onJpeg = t]
    BY <1>7, HeldTyped DEF StoreJobId, Queues
  <2> HIDE DEF s
  <2>3. Distinct(t) /\ FramesOf(t) = FramesOf(s)
    BY <2>1, FramesStore
  <2> HIDE DEF t
  <2>4. q'.onJpeg = t /\ q'.inPP = q.inPP /\ q'.onPP = q.onPP /\ q'.inJpeg = q.inJpeg
    BY <2>2, HeldTyped DEF Queues
  <2>5. \A h \in Holders : HeldBy'[h] = HeldBy[h]
    BY <1>1, <1>2, <1>3, <2>3, <2>4, HasNow, HasNext DEF Holders, Names, s
  <2>6. \A k \in Names : Distinct(q'[k])
    BY <2>3, <2>4, HeldTyped DEF Names
  <2> QED  BY <1>1, <2>5, <2>6, HeldSame, NothingGone
<1> QED  BY <1>4, <1>5, <1>6, <1>7 DEF NextJob, doReprocess

\* A job that is over, or could not begin, is released.
LEMMA HeldEnds ==
    ASSUME Typed, Held, Busy, EncodeRefused \/ processJpegEvt
    PROVE  Held' /\ back' \in [Buffers -> 0..1] /\ kept' \in SUBSET Buffers
<1>1. /\ sc' = sc /\ UNCHANGED <<src, rep>>
  BY DEF EncodeRefused, processJpegEvt
<1>2. /\ data'.job = data.job
      /\ data'.pc = "release" <=> data.pc = "release"
  BY HeldTyped DEF EncodeRefused, processJpegEvt, sendCmd, DataStates
<1> SUFFICES ASSUME NEW F, F \subseteq FramesOf(q.onJpeg),
                    NEW t, q' = [q EXCEPT !.onJpeg = t], Distinct(t),
                    FramesOf(t) = FramesOf(q.onJpeg) \ F,
                    NEW bs, bs = UNION {jpegBufs(f) : f \in F}, Release(bs)
             PROVE  Held' /\ back' \in [Buffers -> 0..1] /\ kept' \in SUBSET Buffers
  <2>1. CASE EncodeRefused
    <3> DEFINE f == Last(q.onJpeg).frame
               F == {f}
               t == Front(q.onJpeg)
               bs == jpegBufs(f)
    <3>1. q.onJpeg # <<>>
      BY <2>1 DEF EncodeRefused, Busy
    <3>2. /\ F \subseteq FramesOf(q.onJpeg) /\ Distinct(t)
          /\ FramesOf(t) = FramesOf(q.onJpeg) \ F
      BY <3>1, HeldTyped, FramesFront
    <3>3. bs = UNION {jpegBufs(g) : g \in F}
      OBVIOUS
    <3>4. Release(bs) /\ q' = [q EXCEPT !.onJpeg = t]
      BY <2>1, HeldTyped DEF EncodeRefused, Queues
    <3> HIDE DEF F, t, bs
    <3> QED  BY <3>2, <3>3, <3>4
  <2>2. CASE processJpegEvt
    <3> DEFINE s == q.onJpeg
               S == {i \in DOMAIN s : s[i].id = Head(evt_queue).id}
               F == {s[i].frame : i \in S}
               t == flushNodes(s, S)
               bs == UNION {jpegBufs(s[i].frame) : i \in S}
    <3>1. S \subseteq DOMAIN s /\ Distinct(s) /\ s \in Seq(Jobs)
      BY HeldTyped
    <3>2. Distinct(t) /\ FramesOf(t) = FramesOf(s) \ F
      <4> HIDE DEF S, s
      <4> QED  BY <3>1, FramesFlush
    <3>3. F \subseteq FramesOf(s)
      BY <3>1 DEF FramesOf
    <3>4. bs = UNION {jpegBufs(f) : f \in F}
      <4> HIDE DEF S, s
      <4> QED  OBVIOUS
    <3>5. Release(bs) /\ q' = [q EXCEPT !.onJpeg = t]
      BY <2>2, HeldTyped DEF processJpegEvt, Queues
    <3> HIDE DEF F, t, bs, S
    <3> QED  BY <3>2, <3>3, <3>4, <3>5
  <2> QED  BY <2>1, <2>2
<1>3. q'.onJpeg = t /\ q'.inPP = q.inPP /\ q'.onPP = q.onPP /\ q'.inJpeg = q.inJpeg
  BY HeldTyped DEF Queues
<1>4. F \subseteq HeldBy["onJpeg"] /\ HeldBy'["onJpeg"] = HeldBy["onJpeg"] \ F
  BY <1>3, HasNow, HasNext
<1>5. \A h \in Holders : h # "onJpeg" => HeldBy'[h] = HeldBy[h]
  BY <1>1, <1>2, <1>3, HasNow, HasNext DEF Holders, Names
<1>6. \A k \in Names : Distinct(q'[k])
  BY <1>3, HeldTyped DEF Names
<1> QED  BY <1>1, <1>4, <1>5, <1>6, HoldersHave, HeldReleases

\* The other steps move no frame.
LEMMA HeldOthers ==
    ASSUME Typed, Held, Next,
           ~SrcFrame, ~processData, ~FindPPJob, ~EnqueueJpeg, ~CancelJob, ~ReleaseJob,
           ~FlushOngoingPP, ~FlushInputJpeg, ~FlushInputPP, ~NextJob, ~StoreJobId,
           ~EncodeRefused, ~doReprocess, ~processJpegEvt
    PROVE  Held' /\ back' \in [Buffers -> 0..1] /\ kept' \in SUBSET Buffers
<1>1. sc' = sc /\ UNCHANGED <<q, back, kept>>
  BY ScenarioStays, QSteps, BackSteps DEF QStep, BackStep
<1>2. /\ src'.pc = "process" <=> src.pc = "process"
      /\ src'.seen = src.seen
      /\ src.pc = "process" => src'.frame = src.frame
  <2>1. SrcSend \/ takePicture \/ StopChannel \/ stopCaptureChannel \/ UNCHANGED src
    BY SrcRepSteps DEF SrcStep
  <2> QED  BY <2>1, HeldTyped DEF SrcSend, takePicture, StopChannel, stopCaptureChannel, SrcStates
<1>3. /\ rep'.pc = "enqueue" <=> rep.pc = "enqueue"
      /\ rep.pc = "enqueue" => rep'.frame = rep.frame
  <2>1. RepFrame \/ RepSend \/ StopReprocess \/ UNCHANGED rep
    BY SrcRepSteps DEF RepStep, RepThread
  <2> QED  BY <2>1, HeldTyped DEF RepFrame, RepSend, StopReprocess, RepStates
<1>4. /\ data'.pc = "release" <=> data.pc = "release"
      /\ data'.job = data.job
  <2>1. \/ data' = data \/ data' = sendCmd(data, DO_NEXT_JOB)
        \/ data' = sendCmd(data, "START_DATA_PROC") \/ data' = sendCmdFirst(data, "STOP_DATA_PROC")
        \/ data' = [data EXCEPT !.synced = FALSE] \/ data' = [data EXCEPT !.newSess = FALSE]
        \/ DataStart \/ DataStop \/ DestroySession \/ NoJob_Stopped \/ encodeData
    BY DataSteps DEF DataStep, DataThread, SrcSend, RepSend, StartPostproc, StartSnapshots,
          createJpegSession, CancelPicture, SnapshotDone, StopPostproc, StopReprocess,
          sendDataNotify
  <2> QED  BY <2>1, HeldTyped DEF sendCmd, sendCmdFirst, DataStart, DataStop, DestroySession,
              NoJob_Stopped, encodeData, DataStates
<1>5. \A h \in Holders : HeldBy'[h] = HeldBy[h]
  BY <1>1, <1>2, <1>3, <1>4, HasNow, HasNext DEF Holders, Names
<1>6. \A k \in Names : Distinct(q'[k])
  BY <1>1, HeldIs
<1> QED  BY <1>1, <1>2, <1>5, <1>6, HeldSame, NothingGone

\* Every frame keeps having one place.
LEMMA HeldKept ==
    ASSUME Typed, Held, Busy, Reprocessed, Phases, Next
    PROVE  Held' /\ back' \in [Buffers -> 0..1] /\ kept' \in SUBSET Buffers
BY HeldSource, HeldReprocess, HeldCancel, HeldFlush, HeldWork, HeldEnds, HeldOthers

\* Whoever is between two queues has a frame.
LEMMA BusyIs ==
    ASSUME Typed, Held, Reprocessed, Encoding, Telling
    PROVE  Busy
<1>1. \A h \in Holders : HeldBy[h] \subseteq Frames
  BY HeldIs
<1>2. /\ src.pc = "process" => src.frame \in Frames
      /\ rep.pc = "enqueue" => rep.frame \in Frames
      /\ data.pc = "release" => data.job \in Frames
  BY <1>1, HasNow, HoldersHave
<1>3. rep.pc = "process" => rep.frame \in Frames
  <2>1. rep.pc = "process" => rep.frame \in Gone("source") \cup HeldBy["onPP"]
    BY HasIs, HoldersHave DEF Lent, Reprocessed
  <2>2. Gone("source") \subseteq Frames
    BY DEF Gone
  <2> QED  BY <1>1, <2>1, <2>2, HoldersHave
<1> QED  BY <1>2, <1>3 DEF Busy, Encoding, Telling

\* Every step keeps the ids of the encoder's jobs.
LEMMA IdsKept ==
    ASSUME Typed, Encoding, Encoding', Ids, Busy, Next
    PROVE  Ids'
BY IdsEncoder, IdsCancel, IdsEncode, IdsStore, IdsStop, IdsOthers DEF Next, DataThread

\* Only the state machine takes events, and it takes the one it processes.
LEMMA TellingKept ==
    ASSUME Typed, Telling, Next
    PROVE  Telling'
<1>1. sm \in SmStates /\ evt_queue \in Seq(Events)
  BY DEF Typed, TypedRest, TypedJpeg
<1>2. CASE processJpegEvt
  <2>1. evt_queue # <<>> /\ evt_queue' = evt_queue
    BY <1>2 DEF processJpegEvt, Event, jpegVars
  <2> QED  BY <2>1 DEF Telling
<1>3. CASE SnapshotDone \/ NothingToEnd \/ sendDataNotify \/ JpegEvtDropped
  <2>1. sm'.pc # "notify"
    BY <1>1, <1>3 DEF SnapshotDone, StopPostproc, NothingToEnd, sendDataNotify, JpegEvtDropped,
                      Event, SmStates
  <2> QED  BY <2>1 DEF Telling
<1>4. CASE ~(processJpegEvt \/ SnapshotDone \/ NothingToEnd \/ sendDataNotify \/ JpegEvtDropped)
  <2>1. sm'.pc = "notify" => sm.pc = "notify"
    <3>1. \/ UNCHANGED sm \/ doReprocess \/ takePicture \/ CancelPicture \/ StopReprocess
          \/ StopChannel \/ NothingToCancel \/ stopCaptureChannel \/ AppTake \/ AppCancel
      BY <1>4, DefSmSteps DEF SmStep
    <3> QED  BY <1>1, <3>1 DEF doReprocess, takePicture, CancelPicture, StopPostproc, StopReprocess,
           StopChannel, NothingToCancel, stopCaptureChannel, AppTake, AppCancel, Request, Taken,
           SmStates
  <2>2. evt_queue # <<>> => evt_queue' # <<>>
    <3>1. \/ evt_queue' = evt_queue
          \/ \E e : evt_queue' = Append(evt_queue, e)
      <4>1. UNCHANGED jpegVars \/ JpegThreads \/ JpegFails \/ CancelJob \/ DestroySession
            \/ encodeData \/ createJpegSession \/ NtfJpeg
        BY <1>4, JpegSteps DEF JpegStep
      <4> QED  BY <4>1 DEF jpegVars, JpegThreads, JpegFails, CancelJob, DestroySession, encodeData,
             createJpegSession, NtfJpeg, abort_job, destroy_session, Manager, Encoder, Abort,
             ManagerWakes, ManagerIdle, ManagerEncodes, EncodeFails, Encoded, JobRemoved, JobDone,
             EncoderStops, session_abort, SessionAborted
    <3> QED  BY <1>1, <3>1
  <2> QED  BY <2>1, <2>2 DEF Telling
<1> QED  BY <1>2, <1>3, <1>4

-----------------------------------------------------------------------------
(* The frames of the daemon                                                *)

\* What was given back stays so; and what else is now.
LEMMA GoneIs ==
    ASSUME Typed, sc' = sc, back' \in [Buffers -> 0..1], NEW r, Return(r), NEW s, kept' = kept \cup s
    PROVE  /\ Gone("source") \subseteq Gone("source")'
           /\ \A f \in Gone("output")' : f \in Gone("output") \/ Output(f) \in r \cup s
           /\ \A f \in Frames : Source(f) \in r \cup s => f \in Gone("source")'
<1>1. Frames' = Frames /\ Buffers' = Buffers
  BY FramesStay
<1>2. back \in [Buffers -> 0..1]
  BY DEF Typed, TypedRest
<1>3. \A b \in Buffers : back'[b] = back[b] + (IF b \in r THEN 1 ELSE 0)
  BY DEF Return
<1>4. \A b \in Buffers : /\ back[b] = 1 => back'[b] = 1
                         /\ back'[b] = 1 => back[b] = 1 \/ b \in r
                         /\ b \in r => back'[b] = 1
  <2> SUFFICES ASSUME NEW b \in Buffers
               PROVE  /\ back[b] = 1 => back'[b] = 1
                      /\ back'[b] = 1 => back[b] = 1 \/ b \in r
                      /\ b \in r => back'[b] = 1
    OBVIOUS
  <2>1. back[b] \in 0..1 /\ back'[b] \in 0..1
    BY <1>2
  <2>2. CASE b \in r
    <3>1. back'[b] = back[b] + 1
      BY <1>3, <2>2
    <3>2. back'[b] = 1
      BY <2>1, <3>1
    <3> QED  BY <2>2, <3>2
  <2>3. CASE b \notin r
    <3>1. back'[b] = back[b]
      BY <1>3, <2>1, <2>3
    <3> QED  BY <2>3, <3>1
  <2> QED  BY <2>2, <2>3
<1>5. \A f \in Frames : <<f, "source">> \in Buffers /\ <<f, "output">> \in Buffers
  BY DEF Buffers
<1>6. Gone("source")' = {f \in Frames : back'[<<f, "source">>] = 1 \/ <<f, "source">> \in kept'}
  BY <1>1 DEF Gone
<1>7. Gone("output")' = {f \in Frames : back'[<<f, "output">>] = 1 \/ <<f, "output">> \in kept'}
  BY <1>1 DEF Gone
<1> QED  BY <1>4, <1>5, <1>6, <1>7 DEF Gone, Source, Output

\* What is gone after a release.
LEMMA ReleaseGone ==
    ASSUME Typed, sc' = sc, back' \in [Buffers -> 0..1], NEW bs, Release(bs)
    PROVE  /\ Gone("source") \subseteq Gone("source")'
           /\ \A f \in Gone("output")' : f \in Gone("output") \/ Output(f) \in bs
           /\ \A f \in Frames : Source(f) \in bs => f \in Gone("source")'
<1> DEFINE X == reproc_frame_release
           r == bs \ X
           s == bs \cap X
<1>1. Return(r) /\ kept' = kept \cup s /\ r \cup s = bs
  BY DEF Release
<1> HIDE DEF r, s
<1> QED  BY <1>1, GoneIs

\* A reprocessed frame is lent until it comes back: no other step returns its buffer.
LEMMA LentStay ==
    ASSUME Typed, Held, Busy, Next, back' \in [Buffers -> 0..1], ~FindPPJob
    PROVE  /\ Gone("source") \subseteq Gone("source")'
           /\ \A f \in Gone("output")' :
                f \in Gone("output") \/ \E h \in Holders \ {"onPP"} : f \in HeldBy[h]
           /\ FlushOngoingPP => HeldBy["onPP"] \subseteq Gone("source")'
<1>1. sc' = sc
  BY ScenarioStays
<1>2. \A f, g : Output(f) # Source(g) /\ (Output(f) = Output(g) => f = g)
  BY DEF Output, Source
<1>3. \A f, g : /\ Output(f) \in jpegBufs(g) => f = g
                /\ Output(f) \notin ppBufs(g)
                /\ Source(f) \in ppBufs(f)
  BY DEF jpegBufs, ppBufs, Output, Source
<1>4. CASE ~BackStep
  <2>1. UNCHANGED <<back, kept>> /\ ~FlushOngoingPP
    BY <1>4, BackSteps DEF BackStep
  <2> QED  BY <1>1, <2>1, NothingGone
<1>5. CASE processData
  <2>1. kept' = kept \cup {} /\ ~FlushOngoingPP
    BY <1>5, HeldTyped DEF processData, FlushOngoingPP, Flush, SrcStates
  <2>2. CASE UNCHANGED back
    BY <1>1, <2>1, <2>2, NothingGone
  <2>3. CASE Return({Source(src.frame)})
    <3>1. /\ Gone("source") \subseteq Gone("source")'
          /\ \A f \in Gone("output")' : f \in Gone("output") \/ Output(f) \in {Source(src.frame)} \cup {}
      BY <1>1, <2>1, <2>3, GoneIs
    <3> QED  BY <1>2, <2>1, <3>1
  <2> QED  BY <1>5, <2>2, <2>3 DEF processData
<1>6. CASE EnqueueJpeg
  <2>1. ~FlushOngoingPP /\ rep.pc = "enqueue" /\ HeldBy["rep"] = {rep.frame}
    BY <1>6, HasNow, HeldTyped DEF EnqueueJpeg, FlushOngoingPP, Flush, RepStates
  <2>2. CASE UNCHANGED <<back, kept>>
    BY <1>1, <2>1, <2>2, NothingGone
  <2>3. CASE Release(jpegBufs(rep.frame))
    <3>1. /\ Gone("source") \subseteq Gone("source")'
          /\ \A f \in Gone("output")' : f \in Gone("output") \/ Output(f) \in jpegBufs(rep.frame)
      BY <1>1, <2>3, ReleaseGone
    <3> QED  BY <1>3, <2>1, <3>1, HoldersHave
  <2> QED  BY <1>6, <2>2, <2>3 DEF EnqueueJpeg
<1>7. CASE ReleaseJob
  <2>1. ~FlushOngoingPP /\ HeldBy["data"] = {data.job}
    BY <1>7, HasNow DEF ReleaseJob, FlushOngoingPP
  <2>2. Release(jpegBufs(data.job))
    BY <1>7 DEF ReleaseJob
  <2>3. /\ Gone("source") \subseteq Gone("source")'
        /\ \A f \in Gone("output")' : f \in Gone("output") \/ Output(f) \in jpegBufs(data.job)
    BY <1>1, <2>2, ReleaseGone
  <2> QED  BY <1>3, <2>1, <2>3, HoldersHave
<1>8. CASE FlushOngoingPP \/ FlushInputPP
  <2>1. PICK k \in {"onPP", "inPP"} : Release(BufsOf(k)) /\ (FlushOngoingPP => k = "onPP")
    BY <1>8 DEF FlushOngoingPP, FlushInputPP, Flush
  <2>2. BufsOf(k) = UNION {ppBufs(f) : f \in FramesOf(q[k])}
    BY DEF BufsOf
  <2>3. /\ Gone("source") \subseteq Gone("source")'
        /\ \A f \in Gone("output")' : f \in Gone("output") \/ Output(f) \in BufsOf(k)
        /\ \A f \in Frames : Source(f) \in BufsOf(k) => f \in Gone("source")'
    BY <1>1, <2>1, ReleaseGone
  <2>4. \A f : Output(f) \notin BufsOf(k)
    BY <1>3, <2>2
  <2>5. FlushOngoingPP => HeldBy["onPP"] \subseteq Gone("source")'
    <3>1. HeldBy["onPP"] \subseteq Frames
      BY HeldIs, HoldersHave
    <3>2. ASSUME k = "onPP", NEW f \in HeldBy["onPP"] PROVE Source(f) \in BufsOf(k)
      <4>1. f \in FramesOf(q[k])
        BY <3>2, HasNow
      <4> QED  BY <1>3, <2>2, <4>1
    <3> QED  BY <2>1, <2>3, <3>1, <3>2
  <2> QED  BY <2>3, <2>4, <2>5
<1>9. CASE FlushInputJpeg
  <2>1. ~FlushOngoingPP /\ Release(BufsOf("inJpeg"))
    BY <1>9 DEF FlushOngoingPP, FlushInputJpeg, Flush
  <2>2. BufsOf("inJpeg") = UNION {jpegBufs(f) : f \in HeldBy["inJpeg"]}
    BY HasNow DEF BufsOf
  <2>3. /\ Gone("source") \subseteq Gone("source")'
        /\ \A f \in Gone("output")' : f \in Gone("output") \/ Output(f) \in BufsOf("inJpeg")
    BY <1>1, <2>1, ReleaseGone
  <2> QED  BY <1>3, <2>1, <2>2, <2>3, HoldersHave
<1>10. CASE EncodeRefused
  <2>1. ~FlushOngoingPP /\ Release(jpegBufs(Last(q.onJpeg).frame))
    BY <1>10 DEF FlushOngoingPP, EncodeRefused
  <2>2. Last(q.onJpeg).frame \in HeldBy["onJpeg"]
    <3>1. q.onJpeg # <<>>
      BY <1>10 DEF EncodeRefused, Busy
    <3> QED  BY <3>1, HasNow, HeldTyped, FramesFront
  <2>3. /\ Gone("source") \subseteq Gone("source")'
        /\ \A f \in Gone("output")' : f \in Gone("output") \/ Output(f) \in jpegBufs(Last(q.onJpeg).frame)
    BY <1>1, <2>1, ReleaseGone
  <2> QED  BY <1>3, <2>1, <2>2, <2>3, HoldersHave
<1>11. CASE processJpegEvt
  <2> DEFINE S == {i \in DOMAIN q.onJpeg : q.onJpeg[i].id = Head(evt_queue).id}
             bs == UNION {jpegBufs(q.onJpeg[i].frame) : i \in S}
  <2>1. ~FlushOngoingPP /\ Release(bs)
    <3>1. FlushOngoingPP => sm' = sm
      BY DEF FlushOngoingPP, Flush
    <3>2. sm'.pc # sm.pc
      BY <1>11, ShakeTyped DEF processJpegEvt, Event, SmStates
    <3> QED  BY <1>11, <3>1, <3>2 DEF processJpegEvt
  <2>2. \A f : Output(f) \in bs => f \in HeldBy["onJpeg"]
    <3>1. HeldBy["onJpeg"] = FramesOf(q.onJpeg)
      BY HasNow
    <3> QED  BY <1>3, <3>1 DEF FramesOf
  <2> HIDE DEF bs
  <2>3. /\ Gone("source") \subseteq Gone("source")'
        /\ \A f \in Gone("output")' : f \in Gone("output") \/ Output(f) \in bs
    BY <1>1, <2>1, ReleaseGone
  <2> QED  BY <2>1, <2>2, <2>3, HoldersHave
<1> QED  BY <1>4, <1>5, <1>6, <1>7, <1>8, <1>9, <1>10, <1>11 DEF BackStep

\* The frames that the daemon has, besides those that were released.
LEMMA LentIs ==
    ASSUME Typed, Held, Reprocessed
    PROVE  /\ rep.owed \in Seq(Frames) /\ rep \in RepStates
           /\ Lent \subseteq Gone("source") \cup FramesOf(q.onPP)
           /\ Lent \cap Gone("output") = {}
           /\ \A h \in Holders \ {"onPP"} : HeldBy[h] \cap Lent = {}
           /\ \A i \in DOMAIN rep.owed : rep.owed[i] \in Lent
           /\ rep.pc = "process" => rep.frame \in Lent
<1>1. rep.owed \in Seq(Frames) /\ rep \in RepStates
  BY DEF Typed, TypedRest, RepStates
<1>2. Lent \subseteq Gone("source") \cup HeldBy["onPP"] /\ Lent \cap Gone("output") = {}
  BY HasIs, HoldersHave DEF Reprocessed
<1>3. \A h \in Holders \ {"onPP"} : HeldBy[h] \cap Lent = {}
  BY <1>2, HeldIs, HoldersHave
<1>4. /\ \A i \in DOMAIN rep.owed : rep.owed[i] \in Lent
      /\ rep.pc = "process" => rep.frame \in Lent
  BY DEF Lent, Range
<1> QED  BY <1>1, <1>2, <1>3, <1>4, HasNow

\* What the others do not change.
LEMMA LentSame ==
    ASSUME Typed, Held, Reprocessed, Busy, Next, back' \in [Buffers -> 0..1], ~FindPPJob,
           rep'.owed = rep.owed, rep'.pc = "process" <=> rep.pc = "process",
           rep.pc = "process" => rep'.frame = rep.frame
    PROVE  /\ Lent' \cap Gone("output")' = {}
           /\ q'.onPP = q.onPP => Lent' \subseteq Gone("source")' \cup Has("onPP")'
           /\ \A i, j \in DOMAIN rep'.owed : rep'.owed[i] = rep'.owed[j] => i = j
           /\ rep'.pc = "process" => rep'.frame \notin Range(rep'.owed)
           /\ Due' = Due
<1>1. Lent' = Lent
  BY DEF Lent
<1>2. Lent' \cap Gone("output")' = {}
  BY <1>1, LentIs, LentStay
<1>3. q'.onPP = q.onPP => Lent' \subseteq Gone("source")' \cup Has("onPP")'
  <2>1. Has("onPP")' = FramesOf(q'.onPP)
    BY DEF Has
  <2> QED  BY <1>1, <2>1, LentIs, LentStay
<1>4. /\ \A i, j \in DOMAIN rep'.owed : rep'.owed[i] = rep'.owed[j] => i = j
      /\ rep'.pc = "process" => rep'.frame \notin Range(rep'.owed)
  BY DEF Reprocessed, Range
<1> QED  BY <1>2, <1>3, <1>4 DEF Due

\* The steps that leave the reprocess channel and its jobs alone.
LEMMA ReprocessedOthers ==
    ASSUME Typed, Held, Shake, Reprocessed, Busy, Next, back' \in [Buffers -> 0..1],
           ~FindPPJob, ~RepFrame, ~doReprocess, ~StopReprocess, ~FlushOngoingPP, ~DataStart
    PROVE  Reprocessed'
<1>1. /\ rep'.owed = rep.owed /\ (rep'.pc = "process" <=> rep.pc = "process")
      /\ rep.pc = "process" => rep'.frame = rep.frame
  <2>1. EnqueueJpeg \/ RepSend \/ UNCHANGED rep
    BY SrcRepSteps DEF RepStep, RepThread
  <2> QED  BY <2>1, ShakeTyped DEF EnqueueJpeg, RepSend, RepStates
<1>2. q'.onPP = q.onPP
  <2>1. \/ processData \/ EnqueueJpeg \/ CancelJob \/ FlushInputJpeg \/ FlushInputPP \/ NextJob
        \/ StoreJobId \/ EncodeRefused \/ processJpegEvt \/ UNCHANGED q
    BY QSteps DEF QStep
  <2> QED  BY <2>1, ShakeTyped DEF processData, EnqueueJpeg, CancelJob, FlushInputJpeg, FlushInputPP,
           Flush, NextJob, StoreJobId, EncodeRefused, processJpegEvt, Queues
<1>3. open'.onPP = open.onPP
  <2>1. FlushInputJpeg \/ FlushInputPP \/ UNCHANGED open
    BY OpenSteps DEF OpenStep
  <2> QED  BY <2>1, ShakeTyped DEF FlushInputJpeg, FlushInputPP, Flush, Opened
<1>4. sm.pc = "wait" => sm'.pc = "wait"
  <2>1. \/ UNCHANGED sm \/ takePicture \/ CancelPicture \/ SnapshotDone
        \/ StopChannel \/ NothingToCancel \/ stopCaptureChannel \/ processJpegEvt
        \/ sendDataNotify \/ AppTake \/ AppCancel
    BY DefSmSteps DEF SmStep
  <2> QED  BY <2>1, ShakeTyped DEF takePicture, CancelPicture, SnapshotDone, StopPostproc,
           StopChannel, NothingToCancel, stopCaptureChannel, processJpegEvt, sendDataNotify,
           AppTake, AppCancel, Request, Event, SmStates
<1>5. /\ Lent' \cap Gone("output")' = {}
      /\ Lent' \subseteq Gone("source")' \cup Has("onPP")'
      /\ \A i, j \in DOMAIN rep'.owed : rep'.owed[i] = rep'.owed[j] => i = j
      /\ rep'.pc = "process" => rep'.frame \notin Range(rep'.owed)
      /\ Due' = Due
  BY <1>1, <1>2, LentSame
<1>6. open'.onPP =>
         /\ Len(q'.onPP) = Len(rep'.owed) + Due'
         /\ \A i \in DOMAIN rep'.owed : q'.onPP[i + Due'].frame = rep'.owed[i]
         /\ rep'.pc = "process" => q'.onPP[1].frame = rep'.frame
  BY <1>1, <1>2, <1>3, <1>5 DEF Reprocessed
<1>7. ~open'.onPP => sm'.pc = "wait" \/ (rep'.owed = <<>> /\ rep'.pc # "process")
  BY <1>1, <1>3, <1>4 DEF Reprocessed
<1> QED  BY <1>5, <1>6, <1>7 DEF Reprocessed

\* The post-processor and the reprocess channel start and stop.
LEMMA ReprocessedStop ==
    ASSUME Typed, Held, Shake, Phases, Reprocessed, Busy, Next, back' \in [Buffers -> 0..1],
           StopReprocess \/ FlushOngoingPP \/ DataStart
    PROVE  Reprocessed'
<1>0. /\ Handshake(data.cmds, data.pc, data.synced, def, sm.pc, sm.state)
      /\ data \in DataStates /\ rep \in RepStates /\ sm \in SmStates /\ q \in Queues
      /\ open \in Opened /\ data.cmds \in Seq(Commands)
  BY ShakeIs, ShakeTyped
<1>1. CASE StopReprocess
  <2>1. /\ sm.pc = "wait" /\ data.synced /\ rep.pc = "idle" /\ rep'.pc = "idle" /\ rep'.owed = <<>>
        /\ UNCHANGED <<q, open>>
    BY <1>0, <1>1 DEF StopReprocess, RepStates
  <2>2. sm.state = "PIC_TAKING"
    BY <1>0, <2>1 DEF Handshake
  <2>3. ~open.onPP
    BY <2>1, <2>2 DEF Phases, Shut, Ending, AllClosed
  <2>4. Lent' = {}
    BY <2>1 DEF Lent, Range
  <2> QED  BY <2>1, <2>3, <2>4 DEF Reprocessed, Range
<1>2. CASE FlushOngoingPP
  <2>1. UNCHANGED <<rep, sm>> /\ open'.onPP = FALSE
    BY <1>0, <1>2 DEF FlushOngoingPP, Flush, Opened
  <2>2. sm.pc = "wait"
    BY <1>0, <1>2 DEF FlushOngoingPP, Handshake, Stopping
  <2>3. ~FindPPJob
    BY <1>0, <1>2 DEF FindPPJob, FlushOngoingPP, DataStates
  <2>4. /\ Lent' \cap Gone("output")' = {}
        /\ \A i, j \in DOMAIN rep'.owed : rep'.owed[i] = rep'.owed[j] => i = j
        /\ rep'.pc = "process" => rep'.frame \notin Range(rep'.owed)
    BY <2>1, <2>3, LentSame
  <2>5. Lent' \subseteq Gone("source")'
    <3>1. Lent' = Lent
      BY <2>1 DEF Lent
    <3>2. /\ Gone("source") \subseteq Gone("source")'
          /\ HeldBy["onPP"] \subseteq Gone("source")'
      BY <1>2, <2>3, LentStay
    <3> QED  BY <3>1, <3>2, LentIs, HasNow
  <2> QED  BY <2>1, <2>2, <2>4, <2>5 DEF Reprocessed
<1>3. CASE DataStart
  <2>1. data.cmds # <<>> /\ Head(data.cmds) = "START_DATA_PROC" /\ UNCHANGED <<rep, q>>
        /\ open'.onPP = TRUE
    BY <1>3 DEF DataStart, NextCmd
  <2>2. def = "wait"
    <3>1. \E j \in DOMAIN data.cmds : data.cmds[j] = Head(data.cmds)
      BY <1>0, <2>1, CommandsTaken
    <3> QED  BY <1>0, <2>1, <3>1 DEF Handshake
  <2>3. q.onPP = <<>> /\ rep.pc = "idle" /\ rep.owed = <<>>
    BY <2>2 DEF Phases, Waiting, Empty, NoReprocess
  <2>4. Lent' = {} /\ Due' = 0
    BY <2>1, <2>3 DEF Lent, Range, Due
  <2> QED  BY <2>1, <2>3, <2>4 DEF Reprocessed, Range
<1> QED  BY <1>1, <1>2, <1>3

\* The next reprocessed frame, and the job it belongs to.
LEMMA ReprocessedNext ==
    ASSUME Typed, Held, Phases, Reprocessed, Busy, Next, back' \in [Buffers -> 0..1],
           RepFrame \/ FindPPJob
    PROVE  Reprocessed'
<1> DEFINE s == rep.owed
           n == Len(s)
           p == q.onPP
<1>0. /\ s \in Seq(Frames) /\ rep \in RepStates /\ p \in Seq(Jobs) /\ q \in Queues
      /\ sc' = sc /\ n \in Nat /\ DOMAIN s = 1 .. n
      /\ DOMAIN p = 1 .. Len(p) /\ Len(p) \in Nat
  BY LentIs, HeldTyped, ScenarioStays, SeqIs
<1>1. CASE RepFrame
  <2> DEFINE t == Tail(s)
  <2>1. /\ s # <<>> /\ rep.pc = "idle" /\ rep'.owed = t /\ rep'.pc = "process"
        /\ rep'.frame = Head(s) /\ UNCHANGED <<q, open, sm, back, kept>>
    BY <1>0, <1>1 DEF RepFrame, ppVars
  <2>2. /\ t \in Seq(Frames) /\ Len(t) = n - 1 /\ n \in Nat \ {0} /\ Head(s) = s[1]
        /\ \A i \in 1 .. n - 1 : t[i] = s[i + 1]
    BY <1>0, <2>1, TailIs
  <2>3. DOMAIN t = 1 .. n - 1
    BY <2>2, SeqIs
  <2>4. /\ \A i \in DOMAIN t : i + 1 \in DOMAIN s /\ t[i] = s[i + 1] /\ i + 1 # 1
        /\ 1 \in DOMAIN s
        /\ \A i, j \in DOMAIN t : i + 1 = j + 1 => i = j
    BY <1>0, <2>2, <2>3
  <2>5. /\ Gone("source")' = Gone("source") /\ Gone("output")' = Gone("output")
        /\ Has("onPP")' = Has("onPP")
    BY <1>0, <2>1, NothingGone DEF Has
  <2> HIDE DEF t
  <2>6. Lent' \subseteq Lent
    <3>1. Lent' = Range(t) \cup {s[1]}
      BY <2>1, <2>2 DEF Lent
    <3> QED  BY <2>4, <3>1, LentIs DEF Range
  <2>7. \A i, j \in DOMAIN t : t[i] = t[j] => i = j
    BY <2>4 DEF Reprocessed
  <2>8. s[1] \notin Range(t)
    BY <2>4 DEF Reprocessed, Range
  <2>9. Due = 0 /\ Due' = 1
    BY <2>1 DEF Due
  <2>10. open.onPP =>
         /\ Len(p) = n
         /\ \A i \in DOMAIN s : p[i].frame = s[i]
    <3> SUFFICES ASSUME open.onPP
                 PROVE  /\ Len(p) = n
                        /\ \A i \in DOMAIN s : p[i].frame = s[i]
      OBVIOUS
    <3>1. Len(p) = n + 0 /\ \A i \in DOMAIN s : p[i + 0].frame = s[i]
      BY <2>9 DEF Reprocessed
    <3> QED  BY <1>0, <3>1
  <2>11. open.onPP =>
         /\ Len(p) = Len(t) + 1
         /\ \A i \in DOMAIN t : p[i + 1].frame = t[i]
         /\ p[1].frame = s[1]
    BY <2>2, <2>4, <2>10
  <2>12. ~open.onPP => sm.pc = "wait"
    BY <2>1 DEF Reprocessed
  <2>13. Lent' \cap Gone("output") = {} /\ Lent' \subseteq Gone("source") \cup Has("onPP")
    BY <2>6 DEF Reprocessed
  <2> QED  BY <2>1, <2>2, <2>5, <2>7, <2>8, <2>9, <2>11, <2>12, <2>13 DEF Reprocessed
<1>2. CASE FindPPJob
  <2>1. /\ rep.pc = "process" /\ rep'.owed = s /\ rep'.pc # "process" /\ UNCHANGED <<open, sm, back>>
        /\ rep.frame \in Frames
    BY <1>0, <1>2 DEF FindPPJob, RepStates, Busy
  <2>2. Lent' = Range(s) /\ Due = 1 /\ Due' = 0 /\ rep.frame \notin Range(s)
    BY <2>1 DEF Lent, Due, Reprocessed
  <2>3. Range(s) \subseteq Lent
    BY DEF Lent
  <2>4. open.onPP => Len(p) = n + 1
    BY <2>2 DEF Reprocessed
  <2>5. CASE open.onPP /\ p # <<>>
    <3>1. q' = [q EXCEPT !.onPP = Tail(@)] /\ kept' = kept
      BY <1>2, <2>5 DEF FindPPJob
    <3>2. q'.onPP = Tail(p)
      BY <1>0, <3>1 DEF Queues
    <3>3. /\ Tail(p) \in Seq(Jobs) /\ Len(Tail(p)) = Len(p) - 1 /\ Head(p) = p[1]
          /\ \A i \in 1 .. Len(p) - 1 : Tail(p)[i] = p[i + 1]
      BY <1>0, <2>5, TailIs
    <3>4. /\ p[1].frame = rep.frame /\ \A i \in DOMAIN s : p[i + 1].frame = s[i]
      BY <2>1, <2>2, <2>5 DEF Reprocessed
    <3>5. Len(Tail(p)) = n /\ \A i \in DOMAIN s : Tail(p)[i].frame = s[i]
      BY <1>0, <2>4, <2>5, <3>3, <3>4
    <3>6. FramesOf(Tail(p)) = FramesOf(p) \ {rep.frame}
      BY <2>5, <3>3, <3>4, HeldTyped, FramesTail
    <3>7. Gone("source")' = Gone("source") /\ Gone("output")' = Gone("output")
      BY <1>0, <2>1, <3>1, NothingGone
    <3>8. Has("onPP")' = FramesOf(p) \ {rep.frame}
      BY <3>2, <3>6 DEF Has
    <3>9. Lent' \subseteq Gone("source") \cup (FramesOf(p) \ {rep.frame})
      BY <2>2, <2>3, LentIs
    <3>10. Lent' \cap Gone("output") = {}
      BY <2>2, <2>3, LentIs
    <3>11. \A i \in DOMAIN s : i + 0 = i
      BY <1>0
    <3>13. Len(q'.onPP) = Len(rep'.owed) + Due'
      <4>1. Len(rep'.owed) = n
        BY <2>1
      <4>2. Len(q'.onPP) = n
        BY <3>2, <3>5
      <4> HIDE DEF n
      <4> QED  BY <1>0, <2>2, <4>1, <4>2
    <3> HIDE DEF s, n, p
    <3>12. \A i, j \in DOMAIN s : s[i] = s[j] => i = j
      BY DEF Reprocessed, s
    <3> QED  BY <2>1, <2>2, <2>5, <3>2, <3>5, <3>7, <3>8, <3>9, <3>10, <3>11, <3>12, <3>13
             DEF Reprocessed
  <2>6. CASE ~(open.onPP /\ p # <<>>)
    <3>1. kept' = kept \cup {Output(rep.frame)} /\ UNCHANGED q
      BY <1>2, <2>6 DEF FindPPJob
    <3>2. ~open.onPP
      <4> SUFFICES ASSUME open.onPP PROVE FALSE
        OBVIOUS
      <4>1. Len(p) = 0
        BY <1>0, <2>6
      <4> QED  BY <1>0, <2>4, <4>1
    <3>3. sm.pc = "wait"
      BY <2>1, <3>2 DEF Reprocessed
    <3>4. Frames' = Frames
      BY <1>0, FramesStay
    <3>5. Gone("source")' = Gone("source") /\ Gone("output")' \subseteq Gone("output") \cup {rep.frame}
      BY <2>1, <3>1, <3>4 DEF Gone, Output
    <3>6. Lent' \cap Gone("output")' = {}
      BY <2>2, <2>3, <3>5, LentIs
    <3>7. Has("onPP")' = FramesOf(q.onPP)
      BY <3>1 DEF Has
    <3>8. Lent' \subseteq Gone("source")' \cup Has("onPP")'
      BY <2>2, <2>3, <3>5, <3>7, LentIs
    <3> QED  BY <2>1, <3>2, <3>3, <3>6, <3>8 DEF Reprocessed
  <2> QED  BY <2>5, <2>6
<1> QED  BY <1>1, <1>2

\* One more frame for the daemon.
LEMMA ReprocessedMore ==
    ASSUME Typed, Held, Phases, Reprocessed, Busy, Next, back' \in [Buffers -> 0..1], doReprocess
    PROVE  Reprocessed'
<1> DEFINE s == rep.owed
           n == Len(s)
           p == q.onPP
           j == Head(q.inPP)
           f == j.frame
<1>0. /\ s \in Seq(Frames) /\ rep \in RepStates /\ p \in Seq(Jobs) /\ q \in Queues
      /\ sc' = sc /\ n \in Nat /\ DOMAIN s = 1 .. n /\ sm'.pc = sm.pc
      /\ DOMAIN p = 1 .. Len(p) /\ Len(p) \in Nat /\ q.inPP \in Seq(Jobs)
      /\ UNCHANGED <<open, back, kept>> /\ open.onPP
  <2>1. sm'.pc = sm.pc
    BY ShakeTyped DEF doReprocess, SmStates
  <2>2. open.onPP
    BY DEF doReprocess, Phases, Going, AllOpen
  <2>3. UNCHANGED <<open, back, kept>>
    BY DEF doReprocess
  <2> QED  BY <2>1, <2>2, <2>3, LentIs, HeldTyped, ScenarioStays, SeqIs
<1>1. CASE UNCHANGED <<q, rep>>
  <2>1. Lent' = Lent /\ Has("onPP")' = Has("onPP") /\ Due' = Due
    BY <1>1 DEF Lent, Has, Due
  <2>2. Gone("source")' = Gone("source") /\ Gone("output")' = Gone("output")
    BY <1>0, NothingGone
  <2> QED  BY <1>0, <1>1, <2>1, <2>2 DEF Reprocessed
<1>2. CASE /\ q.inPP # <<>>
           /\ q' = [q EXCEPT !.inPP = Tail(@), !.onPP = Append(@, Head(q.inPP))]
           /\ rep' = [rep EXCEPT !.owed = Append(@, Head(q.inPP).frame)]
  <2> DEFINE t == Append(s, f)
             u == Append(p, j)
  <2>1. j \in Jobs /\ f \in FramesOf(q.inPP) /\ f \in Frames
    <3>1. j \in Jobs /\ f \in FramesOf(q.inPP)
      BY <1>0, <1>2, TailIs, FramesTail, HeldTyped
    <3> QED  BY <3>1 DEF Jobs
  <2>2. rep' = [rep EXCEPT !.owed = t] /\ q' = [q EXCEPT !.inPP = Tail(@), !.onPP = u]
    BY <1>0, <1>2 DEF RepStates, Queues
  <2> HIDE DEF j, t, u
  <2>3. rep'.owed = t /\ rep'.pc = rep.pc /\ rep'.frame = rep.frame /\ q'.onPP = u
    BY <1>0, <2>2 DEF RepStates, Queues
  <2>4. /\ t \in Seq(Frames) /\ Len(t) = n + 1 /\ t[n + 1] = f
        /\ \A i \in 1 .. n : t[i] = s[i]
    BY <1>0, <2>1, AppendIs DEF t
  <2>5. /\ u \in Seq(Jobs) /\ Len(u) = Len(p) + 1 /\ u[Len(p) + 1] = j
        /\ \A i \in 1 .. Len(p) : u[i] = p[i]
    BY <1>0, <2>1, AppendIs DEF u
  <2>6. DOMAIN t = 1 .. n + 1 /\ DOMAIN u = 1 .. Len(p) + 1
    BY <2>4, <2>5, SeqIs
  <2>7. f \notin FramesOf(p) /\ f \notin Gone("source") /\ f \notin Gone("output")
    BY <2>1, HeldIs, HasNow, HoldersHave
  <2>8. f \notin Lent
    BY <2>7, LentIs
  <2>9. FramesOf(u) = FramesOf(p) \cup {f}
    BY <2>1, <2>7, HeldTyped, FramesAppend DEF u
  <2>10. Gone("source")' = Gone("source") /\ Gone("output")' = Gone("output")
    BY <1>0, NothingGone
  <2>11. \A i \in DOMAIN t : i = n + 1 \/ (i \in DOMAIN s /\ t[i] = s[i] /\ i # n + 1)
    BY <1>0, <2>4, <2>6
  <2>12. Lent' \subseteq Lent \cup {f}
    <3>1. Lent' = Range(t) \cup (IF rep.pc = "process" THEN {rep.frame} ELSE {})
      BY <2>3 DEF Lent
    <3>2. \A g \in Range(t) : g \in Lent \/ g = f
      BY <2>4, <2>11, LentIs DEF Range
    <3> QED  BY <3>1, <3>2, LentIs
  <2>13. Has("onPP")' = FramesOf(p) \cup {f}
    BY <2>3, <2>9 DEF Has
  <2>14. /\ Lent' \cap Gone("output")' = {}
         /\ Lent' \subseteq Gone("source")' \cup Has("onPP")'
    BY <2>7, <2>10, <2>12, <2>13, LentIs
  <2>15. \A i, k \in DOMAIN t : t[i] = t[k] => i = k
    <3>1. \A i \in DOMAIN s : s[i] # f
      BY <2>8, LentIs
    <3> QED  BY <2>4, <2>11, <3>1 DEF Reprocessed
  <2>16. rep.pc = "process" => rep.frame \notin Range(t)
    <3>1. rep.pc = "process" => rep.frame # f /\ rep.frame \notin Range(s)
      BY <2>8, LentIs DEF Reprocessed
    <3> QED  BY <2>4, <2>11, <3>1 DEF Range
  <2>17. Due' = Due /\ Due \in {0, 1} /\ (rep.pc = "process" <=> Due = 1)
    BY <2>3 DEF Due
  <2>18. Len(p) = n + Due
    BY <1>0 DEF Reprocessed
  <2>19. Len(u) = Len(t) + Due
    BY <1>0, <2>4, <2>5, <2>17, <2>18
  <2>20. ASSUME NEW i \in DOMAIN t PROVE u[i + Due].frame = t[i]
    <3>1. CASE i = n + 1
      <4>1. i + Due = Len(p) + 1
        BY <1>0, <2>17, <2>18, <3>1
      <4> QED  BY <2>4, <2>5, <3>1, <4>1
    <3>2. CASE i \in DOMAIN s
      <4>1. i + Due \in 1 .. Len(p)
        BY <1>0, <2>17, <2>18, <3>2
      <4>2. p[i + Due].frame = s[i]
        BY <1>0, <3>2 DEF Reprocessed
      <4> QED  BY <1>0, <2>4, <2>5, <3>2, <4>1, <4>2
    <3> QED  BY <2>11, <3>1, <3>2
  <2>21. rep.pc = "process" => u[1].frame = rep.frame
    <3>1. rep.pc = "process" => 1 \in 1 .. Len(p) /\ p[1].frame = rep.frame
      BY <1>0, <2>17, <2>18 DEF Reprocessed
    <3> QED  BY <2>5, <3>1
  <2> QED  BY <1>0, <2>3, <2>14, <2>15, <2>16, <2>17, <2>19, <2>20, <2>21 DEF Reprocessed
<1> QED  BY <1>1, <1>2 DEF doReprocess

\* Every step keeps the daemon's frames and m_ongoingPPQ together.
LEMMA ReprocessedKept ==
    ASSUME Typed, Held, Shake, Phases, Reprocessed, Busy, Next, back' \in [Buffers -> 0..1]
    PROVE  Reprocessed'
BY ReprocessedOthers, ReprocessedStop, ReprocessedNext, ReprocessedMore

-----------------------------------------------------------------------------
(* The notifier                                                            *)

\* What the notifier knows, when it is told more, ...
LEMMA ToldMore ==
    ASSUME NEW n \in NtfStates, NEW over, Told(n, over), NEW w \in Answers, w = "jpeg" => ~over,
           NEW m, m = [n EXCEPT !.cmds = Append(n.cmds, DO_NEXT_JOB), !.data = Append(n.data, w)]
    PROVE  Told(m, over)
<1> DEFINE c == n.cmds
           d == n.data
           c2 == Append(c, DO_NEXT_JOB)
           d2 == Append(d, w)
<1>1. /\ c \in Seq(Commands) /\ d \in Seq(Answers) /\ DO_NEXT_JOB \in Commands
      /\ m = [n EXCEPT !.cmds = c2, !.data = d2]
  BY DEF NtfStates, Commands
<1>2. /\ Len(c) \in Nat /\ DOMAIN c = 1 .. Len(c) /\ DOMAIN c2 = 1 .. Len(c) + 1
      /\ \A i \in 1 .. Len(c) : c2[i] = c[i]
      /\ c2[Len(c) + 1] = DO_NEXT_JOB
  BY <1>1, AppendIs, SeqIs
<1>3. /\ Len(d) \in Nat /\ DOMAIN d = 1 .. Len(d) /\ DOMAIN d2 = 1 .. Len(d) + 1
      /\ \A i \in 1 .. Len(d) : d2[i] = d[i]
      /\ d2[Len(d) + 1] = w
  BY <1>1, AppendIs, SeqIs
<1> HIDE DEF c, d, c2, d2
<1>4. /\ m.cmds = c2 /\ m.data = d2 /\ m.received = n.received /\ m.expected = n.expected
      /\ m.active = n.active /\ m.pc = n.pc
  BY <1>1 DEF NtfStates
<1>5. \A i, j \in DOMAIN c2 : i < j /\ c2[i] = DO_NEXT_JOB => c2[j] = DO_NEXT_JOB
  BY <1>2 DEF Told, c
<1>6. over => (\E i \in DOMAIN c2 : c2[i] = "STOP_DATA_PROC") \/ (\A i \in DOMAIN d2 : d2[i] # "jpeg")
  <2> SUFFICES ASSUME over
               PROVE  (\E i \in DOMAIN c2 : c2[i] = "STOP_DATA_PROC") \/ (\A i \in DOMAIN d2 : d2[i] # "jpeg")
    OBVIOUS
  <2>1. CASE \E i \in DOMAIN c : c[i] = "STOP_DATA_PROC"
    BY <1>2, <2>1
  <2>2. CASE \A i \in DOMAIN d : d[i] # "jpeg"
    BY <1>3, <2>2
  <2> QED  BY <2>1, <2>2 DEF Told, c, d
<1>7. (\E i \in DOMAIN c : Turn(c[i])) => \E i \in DOMAIN c2 : Turn(c2[i])
  BY <1>2
<1> QED  BY <1>4, <1>5, <1>6, <1>7 DEF Told, c

\* ... when it is told to begin or to end, ...
LEMMA ToldFirst ==
    ASSUME NEW n \in NtfStates, NEW over, Told(n, over),
           NEW first \in {"START_DATA_PROC", "STOP_DATA_PROC"},
           NEW over2, over2 => over \/ first = "STOP_DATA_PROC",
           NEW m, m = [n EXCEPT !.cmds = <<first>> \o n.cmds]
    PROVE  Told(m, over2)
<1> DEFINE c == n.cmds
           c2 == <<first>> \o c
<1>1. /\ c \in Seq(Commands) /\ first \in Commands /\ Turn(first) /\ first # DO_NEXT_JOB
      /\ m = [n EXCEPT !.cmds = c2]
  BY DEF NtfStates, Commands, Turn, DO_NEXT_JOB
<1>2. /\ Len(c) \in Nat /\ DOMAIN c = 1 .. Len(c) /\ DOMAIN c2 = 1 .. Len(c) + 1
      /\ \A i \in 1 .. Len(c) : c2[i + 1] = c[i]
      /\ c2[1] = first
  <2>1. /\ c2 \in Seq(Commands) /\ Len(c2) = Len(c) + 1 /\ Len(c) \in Nat
        /\ \A i \in 1 .. Len(c) : c2[i + 1] = c[i]
        /\ c2[1] = first
    BY <1>1, PushIs
  <2> HIDE DEF c2
  <2> QED  BY <1>1, <2>1, SeqIs
<1> HIDE DEF c, c2
<1>3. /\ m.cmds = c2 /\ m.data = n.data /\ m.received = n.received /\ m.expected = n.expected
      /\ m.active = n.active /\ m.pc = n.pc
  BY <1>1 DEF NtfStates
<1>4. \A i \in DOMAIN c2 : i = 1 \/ (i - 1 \in DOMAIN c /\ c2[i] = c[i - 1])
  <2> TAKE i \in DOMAIN c2
  <2>1. i \in 1 .. Len(c) + 1
    BY <1>2
  <2>2. i # 1 => i - 1 \in 1 .. Len(c) /\ (i - 1) + 1 = i
    BY <1>2, <2>1
  <2> QED  BY <1>2, <2>2
<1>5. \A i, j \in DOMAIN c2 : i < j /\ c2[i] = DO_NEXT_JOB => c2[j] = DO_NEXT_JOB
  <2> SUFFICES ASSUME NEW i \in DOMAIN c2, NEW j \in DOMAIN c2, i < j, c2[i] = DO_NEXT_JOB
               PROVE  c2[j] = DO_NEXT_JOB
    OBVIOUS
  <2>1. i \in Int /\ j \in Int /\ i >= 1
    BY <1>2
  <2>2. i # 1 /\ j # 1 /\ i - 1 < j - 1
    BY <1>1, <1>2, <2>1
  <2> QED  BY <1>4, <2>2 DEF Told, c
<1>6. 1 \in DOMAIN c2 /\ Turn(c2[1])
  BY <1>1, <1>2
<1>7. over2 => (\E i \in DOMAIN c2 : c2[i] = "STOP_DATA_PROC")
               \/ (\A i \in DOMAIN n.data : n.data[i] # "jpeg")
  <2> SUFFICES ASSUME over2
               PROVE  (\E i \in DOMAIN c2 : c2[i] = "STOP_DATA_PROC")
                      \/ (\A i \in DOMAIN n.data : n.data[i] # "jpeg")
    OBVIOUS
  <2>1. CASE first = "STOP_DATA_PROC"
    BY <1>2, <1>6, <2>1
  <2>2. CASE \E i \in DOMAIN c : c[i] = "STOP_DATA_PROC"
    <3>1. PICK i \in DOMAIN c : c[i] = "STOP_DATA_PROC"
      BY <2>2
    <3>2. i + 1 \in DOMAIN c2 /\ c2[i + 1] = "STOP_DATA_PROC"
      BY <1>2, <3>1
    <3> QED  BY <3>2
  <2> QED  BY <2>1, <2>2 DEF Told, c
<1> QED  BY <1>3, <1>5, <1>6, <1>7 DEF Told

\* ... and when it takes a command.
LEMMA ToldTail ==
    ASSUME NEW n \in NtfStates, NEW over, Told(n, over), n.cmds # <<>>
    PROVE  /\ \A i, j \in DOMAIN Tail(n.cmds) :
                 i < j /\ Tail(n.cmds)[i] = DO_NEXT_JOB => Tail(n.cmds)[j] = DO_NEXT_JOB
           /\ \A i \in DOMAIN Tail(n.cmds) : \E j \in DOMAIN n.cmds : Tail(n.cmds)[i] = n.cmds[j]
           /\ \A j \in DOMAIN n.cmds :
                 n.cmds[j] = Head(n.cmds) \/ \E i \in DOMAIN Tail(n.cmds) : Tail(n.cmds)[i] = n.cmds[j]
           /\ Head(n.cmds) = DO_NEXT_JOB => \A j \in DOMAIN n.cmds : n.cmds[j] = DO_NEXT_JOB
<1> DEFINE c == n.cmds
           t == Tail(c)
<1>1. c \in Seq(Commands)
  BY DEF NtfStates
<1>2. /\ t \in Seq(Commands) /\ Len(t) = Len(c) - 1 /\ Len(c) \in Nat \ {0}
      /\ Head(c) = c[1] /\ DOMAIN c = 1 .. Len(c)
      /\ \A i \in 1 .. Len(c) - 1 : t[i] = c[i + 1]
  BY <1>1, TailIs, SeqIs
<1>3. DOMAIN t = 1 .. Len(c) - 1
  <2> HIDE DEF t
  <2> QED  BY <1>2, SeqIs
<1> HIDE DEF c, t
<1>4. \A i \in DOMAIN t : i + 1 \in DOMAIN c /\ t[i] = c[i + 1]
  BY <1>2, <1>3
<1>5. \A i, j \in DOMAIN t : i < j /\ t[i] = DO_NEXT_JOB => t[j] = DO_NEXT_JOB
  <2> SUFFICES ASSUME NEW i \in DOMAIN t, NEW j \in DOMAIN t, i < j, t[i] = DO_NEXT_JOB
               PROVE  t[j] = DO_NEXT_JOB
    OBVIOUS
  <2>1. i + 1 < j + 1
    BY <1>2, <1>3
  <2> QED  BY <1>4, <2>1 DEF Told, c
<1>6. \A j \in DOMAIN c : j = 1 \/ \E i \in DOMAIN t : t[i] = c[j]
  <2> SUFFICES ASSUME NEW j \in DOMAIN c, j # 1 PROVE \E i \in DOMAIN t : t[i] = c[j]
    OBVIOUS
  <2>1. j - 1 \in 1 .. Len(c) - 1 /\ (j - 1) + 1 = j
    BY <1>2
  <2> QED  BY <1>2, <1>3, <2>1
<1>7. Head(c) = DO_NEXT_JOB => \A j \in DOMAIN c : c[j] = DO_NEXT_JOB
  <2> SUFFICES ASSUME Head(c) = DO_NEXT_JOB, NEW j \in DOMAIN c, j # 1 PROVE c[j] = DO_NEXT_JOB
    BY <1>2
  <2>1. 1 \in DOMAIN c /\ 1 < j
    BY <1>2
  <2> QED  BY <1>2, <2>1 DEF Told, c
<1> QED  BY <1>2, <1>4, <1>5, <1>6, <1>7 DEF c, t

\* START_DATA_PROC: the counting begins anew.
LEMMA ToldStart ==
    ASSUME NEW n \in NtfStates, NEW over, Told(n, over), n.cmds # <<>>,
           Head(n.cmds) = "START_DATA_PROC", NEW k \in Nat \ {0},
           NEW m, m = [n EXCEPT !.cmds = Tail(n.cmds), !.active = TRUE, !.expected = k, !.received = 0]
    PROVE  Told(m, over)
<1> DEFINE t == Tail(n.cmds)
<1>1. /\ \A i, j \in DOMAIN t : i < j /\ t[i] = DO_NEXT_JOB => t[j] = DO_NEXT_JOB
      /\ \A j \in DOMAIN n.cmds : n.cmds[j] = Head(n.cmds) \/ \E i \in DOMAIN t : t[i] = n.cmds[j]
  BY ToldTail
<1> HIDE DEF t
<1>2. m = [n EXCEPT !.cmds = t, !.active = TRUE, !.expected = k, !.received = 0]
  BY DEF t
<1>3. m.cmds = t /\ m.data = n.data /\ m.expected = k /\ m.received = 0
  BY <1>2 DEF NtfStates
<1>4. over => (\E i \in DOMAIN t : t[i] = "STOP_DATA_PROC") \/ (\A i \in DOMAIN n.data : n.data[i] # "jpeg")
  BY <1>1 DEF Told
<1> QED  BY <1>1, <1>3, <1>4 DEF Told

\* A flush leaves nothing that is in its set,
LEMMA FlushLeaves ==
    ASSUME NEW T, NEW s \in Seq(T), NEW S, NEW t, t = flushNodes(s, S)
    PROVE  \A k \in DOMAIN t : \E j \in DOMAIN s \ S : t[k] = s[j]
BY FlushIs

\* so no JPEG when the JPEGs are flushed.
LEMMA JpegsFlushed ==
    ASSUME NEW s \in Seq(Answers),
           NEW t, t = flushNodes(s, {i \in DOMAIN s : s[i] = "jpeg"})
    PROVE  \A i \in DOMAIN t : t[i] # "jpeg"
<1> DEFINE S == {i \in DOMAIN s : s[i] = "jpeg"}
<1>1. \A i \in DOMAIN s \ S : s[i] # "jpeg"
  OBVIOUS
<1>2. t = flushNodes(s, S)
  OBVIOUS
<1> HIDE DEF S
<1>3. \A k \in DOMAIN t : \E j \in DOMAIN s \ S : t[k] = s[j]
  <2>1. \A u : u = flushNodes(s, S) => \A k \in DOMAIN u : \E j \in DOMAIN s \ S : u[k] = s[j]
    BY FlushLeaves
  <2> QED  BY <1>2, <2>1
<1> QED  BY <1>1, <1>3

\* STOP_DATA_PROC: no JPEG is left.
LEMMA ToldStop ==
    ASSUME NEW n \in NtfStates, NEW over, Told(n, over), n.cmds # <<>>,
           Head(n.cmds) = "STOP_DATA_PROC",
           NEW d, d = flushNodes(n.data, {i \in DOMAIN n.data : n.data[i] = "jpeg"}),
           NEW m, m = [n EXCEPT !.cmds = Tail(n.cmds), !.active = FALSE, !.expected = 0,
                                !.received = 0, !.data = d]
    PROVE  Told(m, over)
<1> DEFINE t == Tail(n.cmds)
<1>1. \A i, j \in DOMAIN t : i < j /\ t[i] = DO_NEXT_JOB => t[j] = DO_NEXT_JOB
  BY ToldTail
<1>2. n.data \in Seq(Answers)
  BY DEF NtfStates
<1> HIDE DEF t
<1>7. \A i \in DOMAIN d : d[i] # "jpeg"
  BY <1>2, JpegsFlushed
<1>5. m = [n EXCEPT !.cmds = t, !.active = FALSE, !.expected = 0, !.received = 0, !.data = d]
  BY DEF t
<1>6. m.cmds = t /\ m.data = d /\ m.expected = 0 /\ m.received = 0 /\ m.active = FALSE
  BY <1>5 DEF NtfStates
<1> QED  BY <1>1, <1>6, <1>7 DEF Told

\* A DO_NEXT_JOB: nothing is in front of the callbacks.
LEMMA ToldNext ==
    ASSUME NEW n \in NtfStates, NEW over, Told(n, over), n.cmds # <<>>, n.pc = "idle",
           Head(n.cmds) = DO_NEXT_JOB
    PROVE  /\ n.active => n.received # n.expected
           /\ over => \A i \in DOMAIN n.data : n.data[i] # "jpeg"
<1>1. \A j \in DOMAIN n.cmds : n.cmds[j] = DO_NEXT_JOB
  BY ToldTail
<1>2. \A j \in DOMAIN n.cmds : n.cmds[j] # "STOP_DATA_PROC" /\ ~Turn(n.cmds[j])
  BY <1>1 DEF Turn, DO_NEXT_JOB
<1> QED  BY <1>2 DEF Told

\* A callback is taken, or there was none.
LEMMA ToldTakes ==
    ASSUME NEW n \in NtfStates, NEW over, Told(n, over), n.cmds # <<>>, n.pc = "idle",
           Head(n.cmds) = DO_NEXT_JOB,
           NEW d, d = n.data \/ (n.data # <<>> /\ d = Tail(n.data)),
           NEW m, m = [n EXCEPT !.cmds = Tail(n.cmds), !.data = d]
    PROVE  /\ Told(m, over)
           /\ m.pc = n.pc /\ m.active = n.active /\ m.received = n.received
           /\ m.expected = n.expected
<1> DEFINE t == Tail(n.cmds)
<1>1. \A i, j \in DOMAIN t : i < j /\ t[i] = DO_NEXT_JOB => t[j] = DO_NEXT_JOB
  BY ToldTail
<1>2. n.data \in Seq(Answers)
  BY DEF NtfStates
<1>3. \A i \in DOMAIN d : \E j \in DOMAIN n.data : d[i] = n.data[j]
  <2>1. CASE d = n.data
    BY <2>1
  <2>2. CASE n.data # <<>> /\ d = Tail(n.data)
    <3>1. /\ d \in Seq(Answers) /\ Len(d) = Len(n.data) - 1 /\ Len(n.data) \in Nat
          /\ \A i \in 1 .. Len(n.data) - 1 : d[i] = n.data[i + 1]
      BY <1>2, <2>2, TailIs
    <3>2. DOMAIN d = 1 .. Len(n.data) - 1 /\ DOMAIN n.data = 1 .. Len(n.data)
      BY <1>2, <3>1, SeqIs
    <3>3. \A i \in DOMAIN d : i + 1 \in DOMAIN n.data
      BY <3>1, <3>2
    <3> QED  BY <3>1, <3>2, <3>3
  <2> QED  BY <2>1, <2>2
<1> HIDE DEF t
<1>4. m = [n EXCEPT !.cmds = t, !.data = d]
  BY DEF t
<1>5. /\ m.cmds = t /\ m.data = d /\ m.expected = n.expected /\ m.received = n.received
      /\ m.active = n.active /\ m.pc = n.pc
  BY <1>4 DEF NtfStates
<1>6. /\ n.active => n.received # n.expected
      /\ over => \A i \in DOMAIN n.data : n.data[i] # "jpeg"
  BY ToldNext
<1> QED  BY <1>1, <1>3, <1>5, <1>6 DEF Told

\* What is over, and when that changes.
LEMMA OverIs ==
    ASSUME Typed, Shake, Next
    PROVE  /\ CancelPicture \/ SnapshotDone \/ Over' \in BOOLEAN
           /\ ~(CancelPicture \/ SnapshotDone) /\ Over' => Over
           /\ CancelPicture \/ SnapshotDone => ntf' = sendCmdFirst(ntf, "STOP_DATA_PROC")
<1>1. sm \in SmStates /\ (sm.pc # "idle" => sm.state = "PIC_TAKING")
  BY ShakeTyped DEF Shake
<1>2. CASE UNCHANGED sm
  BY <1>2 DEF Over, Ending, CancelPicture, SnapshotDone, StopPostproc
<1>3. CASE CancelPicture \/ SnapshotDone
  BY <1>3 DEF CancelPicture, SnapshotDone, StopPostproc
<1>4. CASE doReprocess \/ AppTake \/ AppCancel \/ NothingToCancel \/ stopCaptureChannel
  <2>1. sm'.state = sm.state /\ sm'.pc = sm.pc
    BY <1>1, <1>4 DEF doReprocess, AppTake, AppCancel, NothingToCancel, stopCaptureChannel, Taken,
                      SmStates
  <2>2. Over' = Over
    BY <2>1 DEF Over, Ending
  <2>3. CancelPicture \/ SnapshotDone => ntf' = sendCmdFirst(ntf, "STOP_DATA_PROC")
    BY DEF CancelPicture, SnapshotDone, StopPostproc
  <2> QED  BY <2>2, <2>3 DEF Over
<1>5. CASE takePicture \/ StopReprocess \/ StopChannel \/ processJpegEvt \/ sendDataNotify
  <2>1. Over' => Over
    BY <1>1, <1>5 DEF takePicture, StopReprocess, StopChannel, processJpegEvt, sendDataNotify,
                      Request, Event, Taken, SmStates, Over, Ending
  <2>2. CancelPicture \/ SnapshotDone => ntf' = sendCmdFirst(ntf, "STOP_DATA_PROC")
    BY DEF CancelPicture, SnapshotDone, StopPostproc
  <2> QED  BY <2>1, <2>2 DEF Over
<1> QED  BY <1>2, <1>3, <1>4, <1>5, DefSmSteps DEF SmStep

\* The notifier itself.
LEMMA NotifiedRuns ==
    ASSUME Typed, Notified, NtfThread, UNCHANGED <<sm, sc>>
    PROVE  Notified'
<1>1. /\ ntf \in NtfStates /\ Told(ntf, Over) /\ sc.n \in Nat \ {0}
      /\ ntf.received \in Nat /\ ntf.expected \in Nat
  BY ScenarioIs DEF Typed, TypedRest, Notified, NtfStates
<1>2. Over' = Over
  BY DEF Over, Ending
<1>3. Told(ntf', Over) => Notified'
  <2>1. Told(ntf', Over') => Notified'
    BY DEF Notified
  <2> QED  BY <1>2, <2>1
<1>4. CASE NtfStart
  <2>1. ntf.cmds # <<>> /\ Head(ntf.cmds) = "START_DATA_PROC"
        /\ ntf' = [ntf EXCEPT !.cmds = Tail(ntf.cmds), !.active = TRUE, !.expected = sc.n,
                              !.received = 0]
    BY <1>1, <1>4 DEF NtfStart, NextCmd, NtfStates
  <2> QED  BY <1>1, <1>3, <2>1, ToldStart
<1>5. CASE NtfStop
  <2> DEFINE d == flushNodes(ntf.data, {i \in DOMAIN ntf.data : ntf.data[i] = "jpeg"})
  <2>1. ntf.cmds # <<>> /\ Head(ntf.cmds) = "STOP_DATA_PROC"
        /\ ntf' = [ntf EXCEPT !.cmds = Tail(ntf.cmds), !.active = FALSE, !.expected = 0,
                              !.received = 0, !.data = d]
    BY <1>1, <1>5 DEF NtfStop, NextCmd, NtfStates
  <2> QED  BY <1>1, <1>3, <2>1, ToldStop
<1>6. CASE NtfNothing \/ NtfError
  <2>1. ntf.cmds # <<>> /\ Head(ntf.cmds) = DO_NEXT_JOB /\ ntf.pc = "idle"
    BY <1>6 DEF NtfNothing, NtfError, NextCmd
  <2>2. CASE ntf' = [ntf EXCEPT !.cmds = Tail(@)]
    <3>1. ntf' = [ntf EXCEPT !.cmds = Tail(ntf.cmds), !.data = ntf.data]
      BY <1>1, <2>2 DEF NtfStates
    <3> QED  BY <1>1, <1>3, <2>1, <3>1, ToldTakes
  <2>3. CASE ntf.data # <<>> /\ ntf' = NtfCb
    <3>1. ntf' = [ntf EXCEPT !.cmds = Tail(ntf.cmds), !.data = Tail(ntf.data)]
      BY <1>1, <2>3 DEF NtfCb, NtfStates
    <3> QED  BY <1>1, <1>3, <2>1, <2>3, <3>1, ToldTakes
  <2> QED  BY <1>6, <2>2, <2>3 DEF NtfNothing, NtfError
<1>7. CASE NtfJpeg
  <2>1. ntf.cmds # <<>> /\ Head(ntf.cmds) = DO_NEXT_JOB /\ ntf.pc = "idle" /\ ntf.active
        /\ ntf.data # <<>> /\ Head(ntf.data) = "jpeg"
    BY <1>7 DEF NtfJpeg, NextCmd
  <2>2. ntf.data \in Seq(Answers) /\ 1 \in DOMAIN ntf.data /\ ntf.data[1] = "jpeg"
    <3>1. ntf.data \in Seq(Answers)
      BY <1>1 DEF NtfStates
    <3>2. Len(ntf.data) \in Nat \ {0} /\ Head(ntf.data) = ntf.data[1] /\ DOMAIN ntf.data = 1 .. Len(ntf.data)
      BY <2>1, <3>1, TailIs, SeqIs
    <3> QED  BY <2>1, <3>1, <3>2
  <2>3. ~Over /\ ntf.received # ntf.expected
    BY <1>1, <2>1, <2>2, ToldNext
  <2> DEFINE m == [ntf EXCEPT !.cmds = Tail(ntf.cmds), !.data = Tail(ntf.data)]
  <2>4. Told(m, Over) /\ m.received = ntf.received /\ m.expected = ntf.expected
    <3>1. \E d : (d = ntf.data \/ (ntf.data # <<>> /\ d = Tail(ntf.data)))
                 /\ m = [ntf EXCEPT !.cmds = Tail(ntf.cmds), !.data = d]
      BY <2>1
    <3>2. m.received = ntf.received /\ m.expected = ntf.expected
      BY <1>1 DEF NtfStates
    <3> HIDE DEF m
    <3>3. Told(m, Over)
      BY <1>1, <2>1, <3>1, ToldTakes
    <3> QED  BY <3>2, <3>3
  <2>5. m = NtfCb /\ DOMAIN m = {"cmds", "data", "active", "expected", "received", "pc"}
        /\ m = [x \in DOMAIN m |-> m[x]]
    BY <1>1 DEF NtfCb, NtfStates
  <2> HIDE DEF m
  <2>6. ntf' = [m EXCEPT !.received = m.received + 1,
                         !.pc = IF ntf.received + 1 = ntf.expected THEN "wait" ELSE "deliver"]
    BY <1>7, <2>5 DEF NtfJpeg
  <2>7. /\ ntf'.cmds = m.cmds /\ ntf'.data = m.data /\ ntf'.received = m.received + 1
        /\ ntf'.expected = m.expected /\ ntf'.active = m.active
        /\ ntf.received + 1 = ntf.expected => ntf'.pc = "wait"
    BY <2>5, <2>6
  <2>8. ntf.received + 1 <= ntf.expected
    <3>1. ntf.received <= ntf.expected
      BY <1>1 DEF Told
    <3> QED  BY <1>1, <2>3, <3>1
  <2>9. ntf'.received <= ntf'.expected
        /\ (ntf'.received = ntf'.expected => ntf'.pc = "wait" /\ ~Over)
    BY <2>3, <2>4, <2>7, <2>8
  <2>10. Told(ntf', Over)
    BY <2>4, <2>7, <2>9 DEF Told
  <2> QED  BY <1>3, <2>10
<1>8. CASE Delivered
  <2>1. ntf.pc = "deliver" /\ ntf' = [ntf EXCEPT !.pc = "idle"]
    BY <1>8 DEF Delivered
  <2>2. /\ ntf'.cmds = ntf.cmds /\ ntf'.data = ntf.data /\ ntf'.received = ntf.received
        /\ ntf'.expected = ntf.expected /\ ntf'.active = ntf.active
    BY <1>1, <2>1 DEF NtfStates
  <2>3. Told(ntf', Over)
    BY <1>1, <2>1, <2>2 DEF Told
  <2> QED  BY <1>3, <2>3
<1> QED  BY <1>4, <1>5, <1>6, <1>7, <1>8 DEF NtfThread

\* Every step keeps what the notifier counts.
LEMMA NotifiedKept ==
    ASSUME Typed, Shake, Notified, Next
    PROVE  Notified'
<1>1. /\ ntf \in NtfStates /\ Told(ntf, Over) /\ sm \in SmStates
      /\ ntf.cmds \in Seq(Commands) /\ ntf.data \in Seq(Answers)
  BY ShakeTyped DEF Typed, TypedRest, Notified, NtfStates
<1>2. /\ ~(CancelPicture \/ SnapshotDone) /\ Over' => Over
      /\ Over' => Over \/ "STOP_DATA_PROC" = "STOP_DATA_PROC"
  BY OverIs
<1>3. Told(ntf', Over') => Notified'
  BY DEF Notified
<1>4. CASE UNCHANGED ntf /\ (Over' => Over)
  <2>1. Told(ntf, Over')
    BY <1>1, <1>4 DEF Told
  <2> QED  BY <1>3, <1>4, <2>1
<1>5. CASE CancelPicture \/ SnapshotDone
  <2>1. ntf' = [ntf EXCEPT !.cmds = <<"STOP_DATA_PROC">> \o ntf.cmds]
    BY <1>1, <1>5 DEF CancelPicture, SnapshotDone, StopPostproc, sendCmdFirst, NtfStates
  <2> QED  BY <1>1, <1>3, <2>1, ToldFirst
<1>6. CASE StartSnapshots
  <2>1. ntf' = [ntf EXCEPT !.cmds = <<"START_DATA_PROC">> \o ntf.cmds] /\ sm' = sm
    BY <1>1, <1>6 DEF StartSnapshots, sendCmdFirst, NtfStates
  <2>2. Over' = Over
    BY <2>1 DEF Over, Ending
  <2> QED  BY <1>1, <1>3, <2>1, <2>2, ToldFirst
<1>7. CASE EncodeRefused \/ sendDataNotify
  <2>1. ntf' = notifyCallback("error") \/ (sendDataNotify /\ ntf' = notifyCallback("jpeg"))
    BY <1>7 DEF EncodeRefused, sendDataNotify
  <2>2. sendDataNotify => ~Over'
    BY <1>1 DEF sendDataNotify, Shake, SmStates, Over, Ending
  <2>3. EncodeRefused => Over' = Over
    BY DEF EncodeRefused, Over, Ending
  <2>4. PICK w \in Answers : /\ ntf' = notifyCallback(w)
                             /\ w = "jpeg" => ~Over'
    BY <2>1, <2>2 DEF Answers
  <2>5. ntf' = [ntf EXCEPT !.cmds = Append(ntf.cmds, DO_NEXT_JOB), !.data = Append(ntf.data, w)]
    BY <1>1, <2>4 DEF notifyCallback, sendCmd, NtfStates
  <2>6. Told(ntf, Over')
    <3>1. Over' => Over
      BY <1>7, <2>2, <2>3
    <3> QED  BY <1>1, <3>1 DEF Told
  <2> QED  BY <1>1, <1>3, <2>4, <2>5, <2>6, ToldMore
<1>8. CASE StopChannel \/ NothingToEnd \/ NothingToCancel
  <2>1. Over /\ Over'
    BY <1>1, <1>8 DEF StopChannel, NothingToEnd, NothingToCancel, Taken, Over, Ending, SmStates
  <2>2. ntf' = ntf \/ ntf' = [ntf EXCEPT !.pc = "deliver"]
    BY <1>8 DEF StopChannel, NothingToEnd, NothingToCancel, Ended
  <2>3. /\ ntf'.cmds = ntf.cmds /\ ntf'.data = ntf.data /\ ntf'.received = ntf.received
        /\ ntf'.expected = ntf.expected /\ ntf'.active = ntf.active
    BY <1>1, <2>2 DEF NtfStates
  <2>4. Told(ntf', Over')
    BY <1>1, <2>1, <2>3 DEF Told
  <2> QED  BY <1>3, <2>4
<1>9. CASE NtfThread
  <2>1. UNCHANGED <<sm, sc>>
    BY <1>9 DEF NtfThread, NtfStart, NtfStop, NtfNothing, NtfError, NtfJpeg, Delivered
  <2> QED  BY <1>9, <2>1, NotifiedRuns
<1> QED  BY <1>2, <1>4, <1>5, <1>6, <1>7, <1>8, <1>9, NtfAppSteps DEF NtfStep

-----------------------------------------------------------------------------
(* The invariant                                                           *)

\* The first state has the types.
LEMMA InitTyped == Init => Typed
<1> SUFFICES ASSUME Init PROVE Typed
  OBVIOUS
<1>1. sc \in Scenarios /\ sc.n \in Nat \ {0} /\ sc.captures \in Nat /\ sc.cancels \in Nat
      /\ sc.n * sc.captures \in Nat
  BY ScenarioIs DEF Init
<1>2. TypedJpeg
  <2>1. <<>> \in Seq(Orders) /\ <<>> \in Seq(Events) /\ Len(<<>>) = 0
    OBVIOUS
  <2>2. NoSession \in Sessions
    BY DEF NoSession, NoJob, Sessions, Slots, Idle
  <2> QED  BY <2>1, <2>2, ConcurrentAssumption DEF Init, JpegInit, TypedJpeg
<1>3. TypedData
  <2>1. q = [inPP |-> <<>>, onPP |-> <<>>, inJpeg |-> <<>>, onJpeg |-> <<>>]
    BY DEF Init
  <2>2. q \in Queues /\ q.onPP = <<>>
    BY <2>1 DEF Queues
  <2>3. Len(q.onPP) <= PPBufs
    BY <2>2, PPBufsAssumption
  <2>4. open \in Opened
    BY DEF Init, Opened
  <2>5. data = [cmds |-> <<>>, pc |-> "idle", active |-> FALSE, job |-> Idle,
               newSess |-> TRUE, synced |-> FALSE]
    BY DEF Init
  <2>6. data \in DataStates
    BY <2>5 DEF DataStates, Working
  <2> QED  BY <2>2, <2>3, <2>4, <2>6 DEF TypedData
<1>4. TypedRest
  <2>1. /\ src = [on |-> FALSE, due |-> 0, seen |-> 0, pc |-> "idle", frame |-> Idle]
        /\ rep = [owed |-> <<>>, pc |-> "idle", frame |-> Idle]
        /\ sm = [state |-> "PREVIEWING", pc |-> "idle", for |-> "none", api_queue |-> <<>>]
        /\ ntf = [cmds |-> <<>>, data |-> <<>>, active |-> FALSE, expected |-> 0,
                  received |-> 0, pc |-> "idle"]
        /\ app = [busy |-> FALSE, taken |-> 0, got |-> 0, cancels |-> 0, error |-> FALSE]
        /\ def = "idle"
    BY DEF Init
  <2>2. 0 \in 0 .. sc.n * sc.captures
    <3> DEFINE m == sc.n * sc.captures
    <3>1. m \in Nat
      BY <1>1
    <3> HIDE DEF m
    <3>2. 0 \in 0 .. m
      BY <3>1
    <3> QED  BY <3>2 DEF m
  <2>3. 0 \in 0 .. sc.n /\ 0 \in 0 .. sc.captures /\ 0 \in 0 .. sc.n - 1 /\ 0 \in 0 .. sc.cancels
    BY <1>1
  <2>4. src \in SrcStates
    BY <2>1, <2>2, <2>3 DEF SrcStates
  <2>5. rep \in RepStates
    BY <2>1 DEF RepStates
  <2>6. sm \in SmStates
    BY <2>1 DEF SmStates
  <2>7. ntf \in NtfStates
    BY <2>1, <2>3 DEF NtfStates
  <2>8. app \in AppStates
    BY <2>1, <2>3 DEF AppStates
  <2>9. back \in [Buffers -> 0 .. 1] /\ kept \in SUBSET Buffers
    BY DEF Init
  <2> QED  BY <2>1, <2>4, <2>5, <2>6, <2>7, <2>8, <2>9 DEF TypedRest
<1> QED  BY <1>1, <1>2, <1>3, <1>4 DEF Typed

\* The inductive invariant holds in the first state, ...
LEMMA InitRest == Init => IInv
<1> SUFFICES ASSUME Init PROVE IInv
  OBVIOUS
<1>1. Typed
  BY InitTyped
<1>2. /\ src.due = 0 /\ src.seen = 0 /\ src.pc = "idle"
      /\ rep.owed = <<>> /\ rep.pc = "idle"
      /\ sm.state = "PREVIEWING" /\ sm.pc = "idle" /\ sm.api_queue = <<>>
      /\ ntf.cmds = <<>> /\ ntf.data = <<>> /\ ntf.active = FALSE /\ ntf.expected = 0 /\ ntf.received = 0
      /\ app.taken = 0 /\ def = "idle" /\ client = "out" /\ omx = "idle" /\ todo = <<>> /\ evt_queue = <<>>
      /\ data.cmds = <<>> /\ data.pc = "idle" /\ data.active = FALSE /\ data.newSess = TRUE /\ data.synced = FALSE
      /\ q.inPP = <<>> /\ q.onPP = <<>> /\ q.inJpeg = <<>> /\ q.onJpeg = <<>>
      /\ session.active = FALSE /\ session.abort = "NONE" /\ session.encoding = FALSE /\ session.free = FALSE
      /\ open.inPP = TRUE /\ open.onPP = TRUE /\ open.inJpeg = TRUE
      /\ kept = {} /\ \A b \in Buffers : back[b] = 0
  BY DEF Init, JpegInit, NoSession
<1>3. Asked
  <2>1. Takes(<<>>) = {}
    BY DEF Takes
  <2>2. Cardinality(Takes(sm.api_queue)) = 0
    BY <1>2, <2>1, FS_EmptySet
  <2>3. sc.n \in Nat
    BY <1>1, ScenarioIs DEF Typed
  <2> QED  BY <1>2, <2>2, <2>3 DEF Asked
<1>4. Shake
  BY <1>2 DEF Shake, Single, Ending, Stopping
<1>5. Phases
  BY <1>2 DEF Phases, AtRest, Waiting, NoReprocess, Shut, Going, ClosedEmpty, Flushing, Resting,
              Ending, Empty, AllOpen, AllClosed, Stopping
<1>6. Encoding
  BY <1>2 DEF Encoding
<1>7. Ids
  BY <1>2 DEF Ids
<1>8. Held
  <2>1. FramesOf(<<>>) = {}
    BY DEF FramesOf
  <2>2. \A h \in Holders : HeldBy[h] = {}
    BY <1>2, <2>1, HasIs
  <2>3. Gone("source") = {} /\ Gone("output") = {}
    BY <1>2 DEF Gone, Buffers
  <2>4. 1 .. src.seen = {}
    BY <1>2
  <2>5. \A k \in Names : Distinct(q[k])
    BY <1>2 DEF Names, Distinct
  <2> QED  BY <1>2, <2>2, <2>3, <2>4, <2>5 DEF Held, Apart, Once
<1>9. Reprocessed
  <2>1. Lent = {} /\ Due = 0
    BY <1>2 DEF Lent, Due, Range
  <2> QED  BY <1>2, <2>1 DEF Reprocessed
<1>10. Notified
  <2>1. 0 <= 0 /\ \A i \in DOMAIN <<>> : FALSE
    OBVIOUS
  <2> QED  BY <1>2, <2>1 DEF Notified, Told
<1>11. Telling
  BY <1>2 DEF Telling
<1> QED  BY <1>1, <1>3, <1>4, <1>5, <1>6, <1>7, <1>8, <1>9, <1>10, <1>11 DEF IInv

\* ... every step keeps it, ...
LEMMA IInvNext ==
    ASSUME IInv, Next
    PROVE  IInv'
<1>1. /\ Typed /\ Asked /\ Shake /\ Phases /\ Encoding /\ Ids /\ Held /\ Reprocessed /\ Notified
      /\ Telling
  BY DEF IInv
<1>2. Busy
  BY <1>1, BusyIs
<1>3. Held' /\ back' \in [Buffers -> 0..1] /\ kept' \in SUBSET Buffers
  BY <1>1, <1>2, HeldKept
<1>4. Typed'
  BY <1>1, <1>2, <1>3, TypedKept
<1>5. Asked' /\ Shake' /\ Phases' /\ Encoding'
  BY <1>1, <1>2, AskedKept, ShakeKept, PhasesKept, EncodingKept
<1>6. Ids' /\ Telling' /\ Notified'
  BY <1>1, <1>2, <1>5, IdsKept, TellingKept, NotifiedKept
<1>7. Reprocessed'
  BY <1>1, <1>2, <1>3, ReprocessedKept
<1> QED  BY <1>3, <1>4, <1>5, <1>6, <1>7 DEF IInv

\* ... and so does a step of something else.
LEMMA IInvStutter ==
    ASSUME IInv, UNCHANGED vars
    PROVE  IInv'
<1>1. /\ UNCHANGED <<todo, ongoing, tokens, mgr, session, omx, client, jobHist, evt_queue>>
      /\ UNCHANGED <<sc, q, open, data, src, rep, def, sm, ntf, app, back, kept>>
  BY DEF vars, jpegVars, ppVars
<1>2. Typed'
  <2>1. Frames' = Frames /\ Buffers' = Buffers /\ Jobs' = Jobs
    BY <1>1, FramesStay
  <2>2. TypedJpeg'
    BY <1>1, <2>1 DEF IInv, Typed, TypedJpeg, Orders, Sessions, Slots, Events
  <2>3. TypedData'
    <3>1. Queues' = Queues /\ DataStates' = DataStates /\ Opened' = Opened
      BY <2>1 DEF Queues, DataStates, Opened, Stopping, Working, Commands
    <3> QED  BY <1>1, <3>1 DEF IInv, Typed, TypedData
  <2>4. TypedRest'
    <3>1. /\ SrcStates' = SrcStates /\ RepStates' = RepStates /\ SmStates' = SmStates
          /\ NtfStates' = NtfStates /\ AppStates' = AppStates
      BY <1>1, <2>1 DEF SrcStates, RepStates, SmStates, NtfStates, AppStates, Requests, Commands,
                        Answers
    <3> QED  BY <1>1, <2>1, <3>1 DEF IInv, Typed, TypedRest
  <2> QED  BY <1>1, <2>2, <2>3, <2>4 DEF IInv, Typed
<1>3. Asked' /\ Shake'
  BY <1>1 DEF IInv, Asked, Takes, Shake, Ending
<1>4. Phases' /\ Encoding'
  BY <1>1 DEF IInv, Phases, AtRest, Waiting, NoReprocess, Shut, Going, ClosedEmpty, Flushing, Resting,
              Ending, Empty, AllOpen, AllClosed, Encoding
<1>5. Ids' /\ Telling'
  BY <1>1 DEF IInv, Ids, Known, Knows, Telling
<1>6. /\ Gone("source")' = Gone("source") /\ Gone("output")' = Gone("output")
      /\ Once' /\ HeldBy' = HeldBy /\ Has("onPP")' = Has("onPP")
  <2>1. Gone("source")' = Gone("source") /\ Gone("output")' = Gone("output") /\ Once'
    BY <1>1, NothingGone DEF IInv
  <2>2. \A h : Has(h)' = Has(h)
    BY <1>1 DEF Has
  <2> QED  BY <2>1, <2>2 DEF HeldBy
<1>9. Held'
  BY <1>1, <1>6 DEF IInv, Held
<1>7. Reprocessed'
  <2>1. Lent' = Lent /\ Due' = Due
    BY <1>1 DEF Lent, Due
  <2> QED  BY <1>1, <1>6, <2>1 DEF IInv, Reprocessed
<1>8. Notified'
  BY <1>1 DEF IInv, Notified, Told, Over, Ending
<1> QED  BY <1>2, <1>3, <1>4, <1>5, <1>7, <1>8, <1>9 DEF IInv

(* Every reachable state satisfies the inductive invariant. *)
THEOREM PostProcInvariant == Spec => []IInv
<1>1. IInv /\ [Next]_vars => IInv'
  BY IInvNext, IInvStutter
<1> QED  BY <1>1, InitRest, PTL DEF Spec

-----------------------------------------------------------------------------
(* What follows from it                                                    *)

\* The type invariant follows.
LEMMA TypeFollows == ASSUME Typed, Notified PROVE TypeOK
<1>1. /\ q \in Queues /\ Len(q.onPP) <= PPBufs /\ open \in Opened /\ data \in DataStates
      /\ src \in SrcStates /\ rep \in RepStates /\ sm \in SmStates /\ ntf \in NtfStates
      /\ app \in AppStates /\ sc \in Scenarios
  BY DEF Typed, TypedData, TypedRest
<1>2. /\ DOMAIN q = {"inPP", "onPP", "inJpeg", "onJpeg"}
      /\ q["inPP"] \in Seq(Jobs) /\ q["onPP"] \in Seq(Jobs)
      /\ q["inJpeg"] \in Seq(Jobs) /\ q["onJpeg"] \in Seq(Jobs)
  BY <1>1 DEF Queues
<1>3. open \in [{"inPP", "onPP", "inJpeg"} -> BOOLEAN]
  BY <1>1 DEF Opened
<1>4. /\ data.cmds \in Seq({"START_DATA_PROC", "STOP_DATA_PROC", DO_NEXT_JOB})
      /\ data.job \in Frames \cup {Idle}
  BY <1>1 DEF DataStates, Commands
<1>5. /\ src.seen \in 0..sc.n * sc.captures /\ src.due \in 0..sc.n
      /\ rep.owed \in Seq(Frames) /\ rep.frame \in Frames \cup {Idle}
  BY <1>1 DEF SrcStates, RepStates
<1>6. /\ sm.state \in {"PREVIEWING", "PIC_TAKING"} /\ sm.pc \in {"idle", "wait", "channel", "notify"}
      /\ app.taken \in 0..sc.captures /\ app.got \in 0..sc.n - 1 /\ app.cancels \in 0..sc.cancels
  BY <1>1 DEF SmStates, AppStates
<1>7. ntf.expected \in 0..sc.n /\ ntf.received \in 0..ntf.expected
  <2>1. ntf.expected \in 0..sc.n /\ ntf.received \in Nat /\ sc.n \in Nat
    BY <1>1, ScenarioIs DEF NtfStates
  <2>2. ntf.received <= ntf.expected
    BY DEF Notified, Told
  <2> QED  BY <2>1, <2>2
<1>8. /\ back \in [Buffers -> 0..1] /\ kept \subseteq Buffers
      /\ def \in {"idle", "start", "wait", "jpeg_session"}
  BY DEF Typed, TypedRest
<1>9. /\ todo \in Seq([id : Nat, frame : Frames]) /\ ongoing \in Seq([id : Nat, frame : Frames])
      /\ Len(ongoing) <= Concurrent /\ tokens \in Nat /\ jobHist \in Nat
      /\ mgr \in {"asleep", "goes_on"} /\ client \in {"out", "abort", "destroy"}
      /\ omx \in {"idle", "encoding", "reported", "removed"}
  BY DEF Typed, TypedJpeg, Orders
<1> QED  BY <1>1, <1>2, <1>3, <1>4, <1>5, <1>6, <1>7, <1>8, <1>9 DEF TypeOK

PlaceNames == {"inPP", "onPP", "inJpeg", "onJpeg", "src", "rep", "data", "daemon", "kept"}
\* Who has the source of a frame, and its output.
LEMMA PlacesOf ==
    ASSUME Typed, Held, Reprocessed, NEW f \in Frames
    PROVE  /\ DOMAIN Places = PlaceNames
           /\ \A p \in PlaceNames : Source(f) \in Places[p] =>
                (p \in Holders /\ f \in HeldBy[p]) \/ (p = "kept" /\ Source(f) \in kept)
           /\ \A p \in PlaceNames : Output(f) \in Places[p] =>
                \/ p \in Holders \ {"src", "inPP", "onPP"} /\ f \in HeldBy[p]
                \/ p = "kept" /\ Output(f) \in kept
                \/ p = "rep" /\ rep.pc = "process" /\ f = rep.frame
                \/ p = "daemon" /\ f \in Range(rep.owed)
           /\ \A p \in Holders : f \in HeldBy[p] => Source(f) \in Places[p] /\ p \in PlaceNames
<1>1. DOMAIN Places = PlaceNames
  BY DEF Places, PlaceNames
<1>2. /\ Places["inPP"] = BufsOf("inPP") /\ Places["onPP"] = BufsOf("onPP")
      /\ Places["inJpeg"] = BufsOf("inJpeg") /\ Places["onJpeg"] = BufsOf("onJpeg")
      /\ Places["src"] = IF src.pc = "process" THEN {Source(src.frame)} ELSE {}
      /\ Places["rep"] = IF rep.pc = "enqueue" THEN jpegBufs(rep.frame)
                         ELSE IF rep.pc = "process" THEN {Output(rep.frame)} ELSE {}
      /\ Places["data"] = IF data.pc = "release" THEN jpegBufs(data.job) ELSE {}
      /\ Places["daemon"] = {Output(rep.owed[i]) : i \in DOMAIN rep.owed}
      /\ Places["kept"] = kept
  BY DEF Places
<1>3. \A g : /\ Source(f) \in ppBufs(g) <=> f = g
             /\ Output(f) \notin ppBufs(g)
             /\ Source(f) \in jpegBufs(g) <=> f = g
             /\ Output(f) \in jpegBufs(g) => f = g
             /\ Source(f) # Output(g)
             /\ Source(f) = Source(g) <=> f = g
             /\ Output(f) = Output(g) <=> f = g
             /\ Output(f) # Source(g)
  BY DEF ppBufs, jpegBufs, Source, Output
<1>4. /\ \A k \in {"inPP", "onPP"} : Source(f) \in BufsOf(k) <=> f \in FramesOf(q[k])
      /\ \A k \in {"inPP", "onPP"} : Output(f) \notin BufsOf(k)
  BY <1>3 DEF BufsOf
<1>5. /\ \A k \in {"inJpeg", "onJpeg"} : Source(f) \in BufsOf(k) <=> f \in FramesOf(q[k])
      /\ \A k \in {"inJpeg", "onJpeg"} : Output(f) \in BufsOf(k) => f \in FramesOf(q[k])
  BY <1>3 DEF BufsOf
<1> HIDE DEF Places
<1>6. \A p \in Holders : Source(f) \in Places[p] <=> f \in HeldBy[p]
  <2>1. /\ Source(f) \in Places["inPP"] <=> f \in HeldBy["inPP"]
        /\ Source(f) \in Places["onPP"] <=> f \in HeldBy["onPP"]
        /\ Source(f) \in Places["inJpeg"] <=> f \in HeldBy["inJpeg"]
        /\ Source(f) \in Places["onJpeg"] <=> f \in HeldBy["onJpeg"]
    BY <1>2, <1>4, <1>5, HasNow
  <2>2. /\ Source(f) \in Places["src"] <=> f \in HeldBy["src"]
        /\ Source(f) \in Places["rep"] <=> f \in HeldBy["rep"]
        /\ Source(f) \in Places["data"] <=> f \in HeldBy["data"]
    BY <1>2, <1>3, HasNow
  <2> QED  BY <2>1, <2>2, HasIs
<1>7. Source(f) \notin Places["daemon"]
  BY <1>2, <1>3
<1>8. PlaceNames = Holders \cup {"daemon", "kept"}
  BY DEF PlaceNames, Holders, Names
<1>9. /\ Output(f) \notin Places["inPP"] /\ Output(f) \notin Places["onPP"]
      /\ Output(f) \notin Places["src"]
      /\ Output(f) \in Places["inJpeg"] => f \in HeldBy["inJpeg"]
      /\ Output(f) \in Places["onJpeg"] => f \in HeldBy["onJpeg"]
      /\ Output(f) \in Places["data"] => f \in HeldBy["data"]
      /\ Output(f) \in Places["rep"] =>
            f \in HeldBy["rep"] \/ (rep.pc = "process" /\ f = rep.frame)
      /\ Output(f) \in Places["daemon"] => f \in Range(rep.owed)
  BY <1>2, <1>3, <1>4, <1>5, HasNow DEF Range
<1>10. \A p \in PlaceNames : Source(f) \in Places[p] =>
         (p \in Holders /\ f \in HeldBy[p]) \/ (p = "kept" /\ Source(f) \in kept)
  BY <1>2, <1>6, <1>7, <1>8
<1>11. \A p \in PlaceNames : Output(f) \in Places[p] =>
                \/ p \in Holders \ {"src", "inPP", "onPP"} /\ f \in HeldBy[p]
                \/ p = "kept" /\ Output(f) \in kept
                \/ p = "rep" /\ rep.pc = "process" /\ f = rep.frame
                \/ p = "daemon" /\ f \in Range(rep.owed)
  BY <1>2, <1>9, HasIs DEF PlaceNames
<1> QED  BY <1>1, <1>6, <1>8, <1>10, <1>11

\* No buffer is in two places.
LEMMA AtMostOne ==
    ASSUME NEW S, \A p, r \in S : p = r
    PROVE  Cardinality(S) \in {0, 1} /\ (S = {} => Cardinality(S) = 0)
<1>1. CASE S = {}
  BY <1>1, FS_EmptySet
<1>2. CASE S # {}
  <2>1. PICK p \in S : TRUE
    BY <1>2
  <2>2. S = {p}
    BY <2>1
  <2> QED  BY <1>2, <2>2, FS_Singleton
<1> QED  BY <1>1, <1>2

\* The source of a frame is in one place, or back,
LEMMA SourceOnce ==
    ASSUME Typed, Held, Reprocessed, NEW f \in Frames
    PROVE  /\ \A p, r \in PlaceNames :
                Source(f) \in Places[p] /\ Source(f) \in Places[r] => p = r
           /\ back[Source(f)] = 1 => \A p \in PlaceNames : Source(f) \notin Places[p]
<1>1. /\ \A p \in PlaceNames : Source(f) \in Places[p] =>
           (p \in Holders /\ f \in HeldBy[p]) \/ (p = "kept" /\ Source(f) \in kept)
  BY PlacesOf
<1>2. /\ \A h \in Holders : HeldBy[h] \cap Gone("source") = {}
      /\ \A h, k \in Holders : h # k => HeldBy[h] \cap HeldBy[k] = {}
      /\ Once
  BY HeldIs
<1>3. back[Source(f)] = 1 \/ Source(f) \in kept => f \in Gone("source")
  BY DEF Gone, Source
<1>4. Source(f) \in Buffers
  BY DEF Source, Buffers
<1> QED  BY <1>1, <1>2, <1>3, <1>4 DEF Once

\* and so is its reprocessed image.
LEMMA OutputOnce ==
    ASSUME Typed, Held, Reprocessed, NEW f \in Frames
    PROVE  /\ \A p, r \in PlaceNames :
                Output(f) \in Places[p] /\ Output(f) \in Places[r] => p = r
           /\ back[Output(f)] = 1 => \A p \in PlaceNames : Output(f) \notin Places[p]
<1>1. \A p \in PlaceNames : Output(f) \in Places[p] =>
                \/ p \in Holders \ {"src", "inPP", "onPP"} /\ f \in HeldBy[p]
                \/ p = "kept" /\ Output(f) \in kept
                \/ p = "rep" /\ rep.pc = "process" /\ f = rep.frame
                \/ p = "daemon" /\ f \in Range(rep.owed)
  BY PlacesOf
<1>2. /\ \A h \in Holders : HeldBy[h] \cap Gone("source") = {}
      /\ \A h, k \in Holders : h # k => HeldBy[h] \cap HeldBy[k] = {}
      /\ Gone("output") \subseteq Gone("source")
      /\ Once
  BY HeldIs
<1>3. back[Output(f)] = 1 \/ Output(f) \in kept => f \in Gone("output")
  BY DEF Gone, Output
<1>4. Output(f) \in Buffers
  BY DEF Output, Buffers
<1>5. /\ Lent \cap Gone("output") = {}
      /\ \A h \in Holders \ {"onPP"} : HeldBy[h] \cap Lent = {}
      /\ rep.pc = "process" => rep.frame \in Lent
      /\ Range(rep.owed) \subseteq Lent
      /\ rep.pc = "process" => rep.frame \notin Range(rep.owed)
  BY LentIs DEF Lent, Reprocessed
<1>6. "kept" \notin Holders /\ "daemon" \notin Holders
  BY HasIs
<1>7. \A h \in Holders : f \in HeldBy[h] => f \notin Gone("output")
  BY <1>2
<1>8. f \in Lent => f \notin Gone("output")
  BY <1>5
<1>9. \A h \in Holders \ {"src", "inPP", "onPP"} : f \in HeldBy[h] => f \notin Lent
  BY <1>5
<1>10. back[Output(f)] = 1 => \A p \in PlaceNames : Output(f) \notin Places[p]
  BY <1>1, <1>2, <1>3, <1>4, <1>5, <1>7, <1>8 DEF Once
<1>11. ASSUME NEW p \in PlaceNames, NEW r \in PlaceNames,
              Output(f) \in Places[p], Output(f) \in Places[r]
       PROVE  p = r
  <2>1. CASE p = "kept" /\ Output(f) \in kept
    BY <1>1, <1>3, <1>5, <1>7, <1>8, <1>11, <2>1
  <2>2. CASE p \in Holders \ {"src", "inPP", "onPP"} /\ f \in HeldBy[p]
    BY <1>1, <1>2, <1>3, <1>5, <1>7, <1>9, <1>11, <2>2
  <2>3. CASE p = "rep" /\ rep.pc = "process" /\ f = rep.frame
    BY <1>1, <1>3, <1>5, <1>8, <1>9, <1>11, <2>3
  <2>4. CASE p = "daemon" /\ f \in Range(rep.owed)
    BY <1>1, <1>3, <1>5, <1>8, <1>9, <1>11, <2>4
  <2> QED  BY <1>1, <1>11, <2>1, <2>2, <2>3, <2>4
<1> QED  BY <1>10, <1>11

\* The five parts of FramesAccounted follow: every buffer is in one place, ...
LEMMA OnePlaceFollows ==
    ASSUME Typed, Held, Reprocessed
    PROVE  OnePlace
<1>1. ASSUME NEW b \in Buffers
      PROVE  back[b] + Cardinality({p \in DOMAIN Places : b \in Places[p]}) <= 1
  <2> DEFINE S == {p \in DOMAIN Places : b \in Places[p]}
  <2>1. PICK f \in Frames : b = Source(f) \/ b = Output(f)
    BY DEF Buffers, Source, Output
  <2>2. DOMAIN Places = PlaceNames
    BY <2>1, PlacesOf
  <2>3. back[b] \in {0, 1}
    BY DEF Typed, TypedRest
  <2>4. (\A p, r \in S : p = r) /\ (back[b] = 1 => S = {})
    <3>1. CASE b = Source(f)
      BY <2>2, <3>1, SourceOnce
    <3>2. CASE b = Output(f)
      BY <2>2, <3>2, OutputOnce
    <3> QED  BY <2>1, <3>1, <3>2
  <2> HIDE DEF S
  <2>5. Cardinality(S) \in {0, 1} /\ (S = {} => Cardinality(S) = 0)
    BY <2>4, AtMostOne
  <2>6. back[b] + Cardinality(S) <= 1
    BY <2>3, <2>4, <2>5
  <2> QED  BY <2>6 DEF S
<1>2. ASSUME NEW b \in Out PROVE back[b] = 1 \/ \E p \in DOMAIN Places : b \in Places[p]
  <2>1. PICK f \in 1 .. src.seen : b = Source(f)
    BY DEF Out
  <2>2. f \in Gone("source") \/ \E h \in Holders : f \in HeldBy[h]
    BY HeldIs DEF Apart
  <2>3. f \in Frames
    <3>1. \A h \in Holders : HeldBy[h] \subseteq Frames
      BY HeldIs
    <3>2. Gone("source") \subseteq Frames
      BY DEF Gone
    <3> QED  BY <2>2, <3>1, <3>2
  <2>4. /\ DOMAIN Places = PlaceNames
        /\ \A p \in Holders : f \in HeldBy[p] => Source(f) \in Places[p] /\ p \in PlaceNames
    BY <2>3, PlacesOf
  <2>5. f \in Gone("source") => back[b] = 1 \/ (b \in Places["kept"] /\ "kept" \in PlaceNames)
    BY <2>1 DEF Gone, Source, Places, PlaceNames
  <2> QED  BY <2>1, <2>2, <2>4, <2>5
<1>3. \A k \in DOMAIN q : IsInjective([i \in DOMAIN q[k] |-> q[k][i].frame])
  <2>1. DOMAIN q = Names /\ \A k \in Names : Distinct(q[k])
    BY HeldIs DEF Typed, TypedData, Queues, Names
  <2> QED  BY <2>1 DEF Distinct, IsInjective
<1> QED  BY <1>1, <1>2, <1>3 DEF OnePlace

\* ... the encoder's are not returned, ...
LEMMA EncoderFollows ==
    ASSUME Typed, Held, Encoding, Ids
    PROVE  EncoderOwns
<1> SUFFICES ASSUME omx = "encoding", NEW b \in jpegBufs(session.job.frame)
             PROVE  back[b] = 0 /\ b \notin kept
  BY DEF EncoderOwns
<1> DEFINE f == session.job.frame
<1>1. \E h \in Holders : f \in HeldBy[h]
  <2>1. CASE Known(session.job)
    <3>1. f \in FramesOf(q.onJpeg)
      BY <2>1 DEF Known, Knows, FramesOf
    <3> QED  BY <3>1, HasNow, HoldersHave
  <2>2. CASE client = "abort" /\ data.job = f
    <3>1. data.pc = "release"
      BY <2>2 DEF Encoding
    <3> QED  BY <2>2, <3>1, HasNow, HoldersHave
  <2> QED  BY <2>1, <2>2 DEF Ids
<1> HIDE DEF f
<1>2. f \in Frames /\ f \notin Gone("source") /\ f \notin Gone("output")
  BY <1>1, HeldIs
<1>3. b = Source(f) \/ b = Output(f)
  BY DEF jpegBufs, f
<1>4. b \in Buffers
  BY <1>2, <1>3 DEF Buffers, Source, Output
<1>5. back[b] # 1 /\ b \notin kept
  BY <1>2, <1>3 DEF Gone, Source, Output
<1>6. back[b] \in {0, 1}
  BY <1>4 DEF Typed, TypedRest
<1> QED  BY <1>5, <1>6

\* ... nor the daemon's, ...
LEMMA DaemonFollows ==
    ASSUME Typed, Held, Reprocessed
    PROVE  DaemonReads
<1> SUFFICES ASSUME sm.pc # "wait", NEW i \in DOMAIN rep.owed
             PROVE  back[Source(rep.owed[i])] = 0
  BY DEF DaemonReads
<1> DEFINE f == rep.owed[i]
           s == rep.owed
           p == q.onPP
<1>1. s \in Seq(Frames) /\ p \in Seq(Jobs)
  BY LentIs, HeldTyped
<1>2. DOMAIN s = 1 .. Len(s) /\ Len(s) \in Nat /\ s # <<>> /\ f \in Frames
      /\ DOMAIN p = 1 .. Len(p) /\ Len(p) \in Nat
  BY <1>1, SeqIs
<1>3. open.onPP
  BY <1>2 DEF Reprocessed
<1>4. Due \in {0, 1} /\ Len(p) = Len(s) + Due /\ p[i + Due].frame = f
  BY <1>3 DEF Reprocessed, Due
<1> HIDE DEF s, p
<1>5. i + Due \in DOMAIN p
  BY <1>2, <1>4 DEF s
<1>6. f \in FramesOf(p)
  BY <1>4, <1>5 DEF FramesOf
<1>7. f \notin Gone("source")
  <2>1. FramesOf(p) \cap Gone("source") = {}
    BY HeldIs, HasNow, HoldersHave DEF p
  <2> QED  BY <1>6, <2>1
<1>8. back[Source(f)] # 1
  BY <1>2, <1>7 DEF Gone, Source
<1>9. back[Source(f)] \in {0, 1}
  BY <1>2 DEF Typed, TypedRest, Buffers, Source
<1> QED  BY <1>8, <1>9

\* ... a reprocessed frame finds the job it came from, ...
LEMMA OwnFollows ==
    ASSUME Typed, Held, Reprocessed, Phases
    PROVE  OwnJob
<1> SUFFICES ASSUME rep.pc = "process", q.onPP # <<>>
             PROVE  Head(q.onPP).frame = rep.frame
  BY DEF OwnJob
<1>1. open.onPP
  BY DEF Phases, ClosedEmpty
<1>2. Head(q.onPP) = q.onPP[1]
  <2>1. q.onPP \in Seq(Jobs)
    BY HeldTyped
  <2> QED  BY <2>1, TailIs
<1> QED  BY <1>1, <1>2 DEF Reprocessed

\* ... and the end of a capture leaves nothing.
LEMMA LeftFollows ==
    ASSUME Typed, Held, Phases, Encoding
    PROVE  NothingLeft
<1> SUFFICES ASSUME sm.state = "PREVIEWING", sm.pc = "idle", src.pc \in {"idle", "send"}
             PROVE  /\ \A k \in DOMAIN q : q[k] = <<>>
                    /\ todo = <<>> /\ omx = "idle"
                    /\ \A b \in Out : back[b] = 1 \/ b \in kept
  BY DEF NothingLeft
<1>1. Empty /\ todo = <<>> /\ ~session.active /\ data.pc = "idle" /\ rep.pc = "idle"
  BY DEF Phases, AtRest, Resting, NoReprocess
<1>2. \A k \in DOMAIN q : q[k] = <<>>
  <2>1. DOMAIN q = Names
    BY DEF Typed, TypedData, Queues, Names
  <2> QED  BY <1>1, <2>1 DEF Empty, Names
<1>3. omx = "idle"
  BY <1>1 DEF Encoding
<1>4. \A h \in Holders : HeldBy[h] = {}
  <2>1. FramesOf(<<>>) = {}
    BY DEF FramesOf
  <2> QED  BY <1>1, <2>1, HasIs DEF Empty
<1>5. \A f \in 1 .. src.seen : f \in Gone("source")
  BY <1>4, HeldIs DEF Apart
<1> QED  BY <1>1, <1>2, <1>3, <1>5 DEF Out, Gone, Source

(* TypeOK, for all captures: in particular m_ongoingPPQ never holds more
   frames than the reprocess channel has buffers, the encoder never has
   more than Concurrent jobs, and the notifier never counts more JPEGs than
   the capture has. *)
THEOREM PostProcTypes == Spec => []TypeOK
<1>1. IInv => TypeOK
  BY TypeFollows DEF IInv
<1> QED  BY <1>1, PostProcInvariant, PTL

(* FramesAccounted, for all captures and all orders of the threads: a buffer
   is never lost, never returned twice and never returned while the encoder
   or the daemon uses it; a reprocessed frame is encoded with its own job;
   and a capture that is over leaves no frame behind. *)
THEOREM FramesAccountedFor == Spec => []FramesAccounted
<1>1. IInv => FramesAccounted
  <2> SUFFICES ASSUME IInv PROVE FramesAccounted
    OBVIOUS
  <2>1. Typed /\ Phases /\ Encoding /\ Ids /\ Held /\ Reprocessed
    BY DEF IInv
  <2> QED  BY <2>1, OnePlaceFollows, EncoderFollows, DaemonFollows, OwnFollows, LeftFollows
           DEF FramesAccounted
<1> QED  BY <1>1, PostProcInvariant, PTL
=============================================================================
