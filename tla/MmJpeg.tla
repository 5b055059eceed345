------------------------------- MODULE MmJpeg -------------------------------
(***************************************************************************)
(* mm-jpeg-interface (mm_jpeg.c): one client with one encoding session at  *)
(* a time, the thread that gives its jobs to the encoder, the encoder's    *)
(* callbacks, and the two calls that take jobs back, mm_jpeg_abort_job and *)
(* mm_jpeg_destroy_session.                                                *)
(*                                                                         *)
(* A job waits in the todo queue until a token of job_sem wakes the        *)
(* manager thread; it is ongoing while the encoder has it.  The encoder    *)
(* has Concurrent sessions in all, and a session one OMX handle.           *)
(***************************************************************************)
EXTENDS Integers, Sequences, SequencesExt

CONSTANT Concurrent     \* MM_JPEG_CONCURRENT_SESSIONS_COUNT

ASSUME ConcurrentAssumption == Concurrent \in Nat \ {0}

VARIABLES
    todo,        \* job_mgr.job_queue
    ongoing,     \* ongoing_job_q
    tokens,      \* the value of job_sem
    mgr,         \* the manager thread: asleep, or past its test of ongoing_job_q
    session,     \* the session: see NoSession
    omx,         \* the encoder and its callback, which holds the session's lock
    client,      \* the call that holds job_lock over several steps, if any
    jobHist,     \* job_hist: the number of jobs so far
    evt_queue    \* the client's queue, to which its jpeg_cb (jpegEvtHandle) appends

jpegVars == <<todo, ongoing, tokens, mgr, session, omx, client, jobHist, evt_queue>>

(* A job is its id and the frame in the buffer src_index. *)
NoJob == [id |-> 0, frame |-> 0]
(* abort: abort_state; encoding: the flag; free: its handle is in
   session_handle_q; job: jobId and encode_job. *)
NoSession == [active |-> FALSE, abort |-> "NONE", encoding |-> FALSE, free |-> FALSE, job |-> NoJob]
JpegEvt(job, status) == [evt |-> "JPEG_EVT_NOTIFY", id |-> job.id, status |-> status]
(* mm_jpeg_queue_remove_job_by_job_id: the first job with that id. *)
Without(queue, id) ==
    LET same == {i \in DOMAIN queue : queue[i].id = id}
    IN IF same = {} THEN queue ELSE RemoveAt(queue, Min(same))

JpegInit ==
    /\ todo = <<>> /\ ongoing = <<>> /\ tokens = 0 /\ mgr = "asleep"
    /\ session = NoSession /\ omx = "idle" /\ client = "out" /\ jobHist = 0
    /\ evt_queue = <<>>

-----------------------------------------------------------------------------
(* mm_jpeg_create_session, with a queue that holds the new handle. *)
create_session == [NoSession EXCEPT !.active = TRUE, !.free = TRUE]

(* mm_jpeg_start_job: no failure in it leaves anything behind. *)
start_job(frame) ==
    /\ jobHist' = jobHist + 1
    /\ todo' = Append(todo, [id |-> jobHist + 1, frame |-> frame])
    /\ tokens' = tokens + 1

(* mm_jpeg_jobmgr_thread: a token that comes while the encoder is busy is
   used up; the end of the ongoing job brings another. *)
ManagerWakes ==
    /\ mgr = "asleep" /\ tokens > 0
    /\ tokens' = tokens - 1
    /\ mgr' = IF Len(ongoing) >= Concurrent THEN "asleep" ELSE "goes_on"
    /\ UNCHANGED <<todo, ongoing, session, omx, client, jobHist, evt_queue>>

(* mm_jpeg_process_encoding_job, under job_lock: no job, or no handle yet
   (the job goes back to the head of its queue), ... *)
ManagerIdle ==
    /\ mgr = "goes_on" /\ client = "out"
    /\ todo = <<>> \/ ~session.free
    /\ mgr' = "asleep"
    /\ UNCHANGED <<todo, ongoing, tokens, session, omx, client, jobHist, evt_queue>>

(* ... or the job starts, with mm_jpeg_session_encode ... *)
ManagerEncodes ==
    /\ mgr = "goes_on" /\ client = "out"
    /\ todo # <<>> /\ session.free
    /\ mgr' = "asleep"
    /\ todo' = Tail(todo)
    /\ ongoing' = Append(ongoing, Head(todo))
    /\ session' = [session EXCEPT !.free = FALSE, !.abort = "NONE", !.encoding = TRUE, !.job = Head(todo)]
    /\ omx' = "encoding"
    /\ UNCHANGED <<tokens, client, jobHist, evt_queue>>

(* ... which may fail: the client is told and the job is done. *)
EncodeFails ==
    /\ mgr = "goes_on" /\ client = "out"
    /\ todo # <<>> /\ session.free
    /\ mgr' = "asleep"
    /\ todo' = Tail(todo)
    /\ evt_queue' = Append(evt_queue, JpegEvt(Head(todo), "ERROR"))
    /\ session' = [session EXCEPT !.abort = "NONE", !.encoding = FALSE, !.job = Head(todo)]
    /\ tokens' = tokens + 1
    /\ UNCHANGED <<ongoing, omx, client, jobHist>>

(* mm_jpeg_fbd and the error branch of mm_jpeg_event_handler: the callback
   (a session that is being aborted stays silent), ... *)
Encoded(status) ==
    /\ omx = "encoding" /\ session.abort = "NONE"
    /\ omx' = "reported"
    /\ evt_queue' = Append(evt_queue, JpegEvt(session.job, status))
    /\ UNCHANGED <<todo, ongoing, tokens, mgr, session, client, jobHist>>

(* ... then mm_jpegenc_job_done: out of ongoing_job_q, ... *)
JobRemoved ==
    /\ omx = "reported"
    /\ omx' = "removed"
    /\ ongoing' = Without(ongoing, session.job.id)
    /\ session' = [session EXCEPT !.encoding = FALSE]
    /\ UNCHANGED <<todo, tokens, mgr, client, jobHist, evt_queue>>

(* Mutant: without the token. *)
JobDone_NoToken ==
    /\ omx = "removed"
    /\ omx' = "idle"
    /\ session' = [session EXCEPT !.free = TRUE]
    /\ UNCHANGED <<todo, ongoing, tokens, mgr, client, jobHist, evt_queue>>

(* ... its handle is free again, and the manager has a token. *)
JobDone ==
    /\ omx = "removed"
    /\ omx' = "idle"
    /\ session' = [session EXCEPT !.free = TRUE]
    /\ tokens' = tokens + 1
    /\ UNCHANGED <<todo, ongoing, mgr, client, jobHist, evt_queue>>

-----------------------------------------------------------------------------
(* mm_jpeg_abort_job: a job that waits is taken out; one that is ongoing has
   its session aborted, with job_lock held. *)
abort_job(id) ==
    /\ client = "out"
    /\ todo' = Without(todo, id)
    /\ ongoing' = IF todo' = todo THEN Without(ongoing, id) ELSE ongoing
    /\ client' = IF ongoing' # ongoing THEN "abort" ELSE "out"
    /\ UNCHANGED <<tokens, mgr, session, omx, jobHist, evt_queue>>

(* mm_jpeg_destroy_session: all its jobs, then the session. *)
destroy_session ==
    /\ client = "out"
    /\ todo' = <<>> /\ ongoing' = <<>>
    /\ client' = "destroy"
    /\ UNCHANGED <<tokens, mgr, session, omx, jobHist, evt_queue>>

(* Mutant: the encoder is told, and not awaited. *)
session_abort_NoWait ==
    /\ client \in {"abort", "destroy"} /\ session.abort = "NONE"
    /\ omx \notin {"reported", "removed"}
    /\ session' = [session EXCEPT !.abort = "DONE"]
    /\ UNCHANGED <<todo, ongoing, tokens, mgr, omx, client, jobHist, evt_queue>>

(* mm_jpeg_session_abort: nothing to do if it is aborted already; otherwise
   an encoder at work is told to stop, and awaited. *)
session_abort ==
    /\ client \in {"abort", "destroy"} /\ session.abort = "NONE"
    /\ omx \notin {"reported", "removed"}
    /\ session' = [session EXCEPT !.abort = IF session.encoding THEN "INIT" ELSE "DONE"]
    /\ UNCHANGED <<todo, ongoing, tokens, mgr, omx, client, jobHist, evt_queue>>

(* mm_jpeg_event_handler: the encoder has stopped. *)
EncoderStops ==
    /\ omx = "encoding" /\ session.abort = "INIT"
    /\ omx' = "idle"
    /\ session' = [session EXCEPT !.abort = "DONE"]
    /\ UNCHANGED <<todo, ongoing, tokens, mgr, client, jobHist, evt_queue>>

(* The aborted session lets the call go on; a destroyed one is gone. *)
SessionAborted ==
    /\ client \in {"abort", "destroy"} /\ session.abort = "DONE"
    /\ client' = "out"
    /\ IF client = "destroy"
       THEN session' = NoSession /\ tokens' = tokens + 1
       ELSE UNCHANGED <<session, tokens>>
    /\ UNCHANGED <<todo, ongoing, mgr, omx, jobHist, evt_queue>>

Manager == ManagerWakes \/ ManagerIdle \/ ManagerEncodes
Encoder == Encoded("DONE") \/ JobRemoved \/ JobDone \/ EncoderStops
Abort == session_abort \/ SessionAborted
=============================================================================
