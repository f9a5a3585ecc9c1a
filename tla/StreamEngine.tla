---------------------------- MODULE StreamEngine ----------------------------
(***************************************************************************)
(* streaming_pipeline of engine.py: a reader, a writer and its upload tasks  *)
(* on one event loop, around the process that dumps the source.  A step runs *)
(* from one await to the next.  Chunks are numbered as the source wrote      *)
(* them, and the unit of the pipes and buffers is a chunk.                   *)
(***************************************************************************)
EXTENDS Naturals, Sequences, FiniteSets

CONSTANTS
    Chunks,         \* how many chunks the source has to write
    Noise,          \* how many pipe units it writes to stderr
    PipeCapacity,   \* of a pipe with the buffer of its StreamReader
    QueueMaxsize,   \* PIPELINE_QUEUE_MAXSIZE
    MaxUploads,     \* MAX_CONCURRENT_UPLOADS
    UploadsFail,    \* whether upload_callback may raise
    None            \* the mark of the end of the source in the queue

ASSUME StreamAssumption ==
    /\ {Chunks, Noise} \subseteq Nat
    /\ {PipeCapacity, QueueMaxsize, MaxUploads} \subseteq Nat \ {0}
    /\ UploadsFail \in BOOLEAN
    /\ None \notin Nat

VARIABLES
    to_write,       \* chunks the source has not written yet
    noise,          \* units of stderr it has not written yet
    proc,           \* the process: running, or how it ended
    stdout, stderr, \* the contents of the pipes
    reader,         \* where read_source is
    buffer,         \* chunks in the buffer of FastCDCStreamer
    ready,          \* chunks cut off it and not yet put
    handed,         \* chunks put
    is_eof,
    queue,
    writer,         \* where compress_encrypt_upload is
    chunk,          \* the chunk it holds
    chunk_seq,
    background_tasks,
    shutdown_event,
    uploaded,       \* <<chunk_seq, chunk>> of the uploads that succeeded
    outcome         \* of streaming_pipeline

source == <<to_write, noise, proc>>
cutter == <<buffer, ready, handed, is_eof>>
upload == <<chunk, chunk_seq, background_tasks, uploaded>>
vars   == <<source, stdout, stderr, reader, cutter, queue, writer, upload, shutdown_event, outcome>>

Ended == {"done", "raised"}

Task == [seq : Nat, chunk : Nat, started : BOOLEAN]

TypeOK ==
    /\ to_write \in 0 .. Chunks /\ noise \in 0 .. Noise
    /\ proc \in {"running", "ok", "error", "sigpipe"}
    /\ stdout \in 0 .. PipeCapacity /\ stderr \in 0 .. PipeCapacity
    /\ reader \in {"read", "put", "sentinel", "wait", "cancelled"} \cup Ended
    /\ {buffer, ready, handed} \subseteq 0 .. Chunks
    /\ is_eof \in BOOLEAN
    /\ queue \in Seq(Nat \cup {None}) /\ Len(queue) <= QueueMaxsize
    /\ writer \in {"get", "acquire", "gather", "gather_failed", "cancelled"} \cup Ended
    /\ {chunk, chunk_seq} \subseteq 0 .. Chunks
    /\ background_tasks \subseteq Task
    /\ shutdown_event \in BOOLEAN
    /\ uploaded \subseteq Nat \X Nat
    /\ outcome \in {"none", "returned", "raised"}

Init ==
    /\ to_write = Chunks /\ noise = Noise /\ proc = "running"
    /\ stdout = 0 /\ stderr = 0
    /\ reader = "read" /\ buffer = 0 /\ ready = 0 /\ handed = 0 /\ is_eof = FALSE
    /\ queue = <<>>
    /\ writer = "get" /\ chunk = 0 /\ chunk_seq = 0 /\ background_tasks = {}
    /\ shutdown_event = FALSE /\ uploaded = {} /\ outcome = "none"

-----------------------------------------------------------------------------
(* The process that dumps the source.                                      *)

WriteStdout ==
    /\ proc = "running" /\ to_write > 0 /\ stdout < PipeCapacity
    /\ to_write' = to_write - 1
    /\ stdout' = stdout + 1
    /\ UNCHANGED <<noise, proc, stderr, reader, cutter, queue, writer, upload, shutdown_event,
                   outcome>>

WriteStderr ==
    /\ proc = "running" /\ noise > 0 /\ stderr < PipeCapacity
    /\ noise' = noise - 1
    /\ stderr' = stderr + 1
    /\ UNCHANGED <<to_write, proc, stdout, reader, cutter, queue, writer, upload, shutdown_event,
                   outcome>>

\* It has written everything.
Finish ==
    /\ proc = "running" /\ to_write = 0 /\ noise = 0
    /\ proc' \in {"ok", "error"}
    /\ UNCHANGED <<to_write, noise, stdout, stderr, reader, cutter, queue, writer, upload,
                   shutdown_event, outcome>>

\* It may die at any time.
Die ==
    /\ proc = "running"
    /\ proc' \in {"error", "sigpipe"}
    /\ UNCHANGED <<to_write, noise, stdout, stderr, reader, cutter, queue, writer, upload,
                   shutdown_event, outcome>>

-----------------------------------------------------------------------------
(* read_source.                                                            *)

\* Where the loop goes when the chunks of one read are dealt with.
AfterFeed(eof) ==
    CASE shutdown_event -> "wait"
      [] eof /\ ~shutdown_event -> "sentinel"
      [] OTHER -> "read"

\* stdout.read, then feed: FastCDC cuts as many chunks as it finds borders for,
\* and everything that is left at the end of the source.
Read ==
    /\ reader = "read"
    /\ \/ /\ stdout > 0
          /\ \E n \in 1 .. stdout : \E cut \in 0 .. buffer + n :
                /\ stdout' = stdout - n
                /\ buffer' = buffer + n - cut
                /\ ready' = cut
          /\ UNCHANGED is_eof
       \/ /\ stdout = 0 /\ proc # "running"
          /\ is_eof' = TRUE
          /\ ready' = buffer
          /\ buffer' = 0
          /\ UNCHANGED stdout
    /\ reader' = IF ready' > 0 THEN "put" ELSE AfterFeed(is_eof')
    /\ UNCHANGED <<source, stderr, handed, queue, writer, upload, shutdown_event, outcome>>

\* A queue without a bound.
SlipOffer(item) == queue' = Append(queue, item)

\* queue.put raced against shutdown_event.wait.
Offer(item) ==
    \/ Len(queue) < QueueMaxsize /\ queue' = Append(queue, item)
    \/ shutdown_event /\ UNCHANGED queue

Put ==
    /\ reader = "put"
    /\ Offer(handed)
    /\ handed' = handed + 1
    /\ ready' = ready - 1
    /\ reader' = IF ready' > 0 /\ ~shutdown_event THEN "put" ELSE AfterFeed(is_eof)
    /\ UNCHANGED <<source, stdout, stderr, buffer, is_eof, writer, upload, shutdown_event, outcome>>

PutSentinel ==
    /\ reader = "sentinel"
    /\ Offer(None)
    /\ reader' = "wait"
    /\ UNCHANGED <<source, stdout, stderr, cutter, writer, upload, shutdown_event, outcome>>

\* proc.wait; death by SIGPIPE is no error.
ReaderEnds ==
    /\ reader = "wait"
    /\ proc # "running"
    /\ reader' = IF proc = "error" /\ ~shutdown_event THEN "raised" ELSE "done"
    /\ UNCHANGED <<source, stdout, stderr, cutter, queue, writer, upload, shutdown_event, outcome>>

\* stderr is read once the source has been read to its end.
SlipDrainStderr ==
    /\ reader = "wait" /\ stderr > 0
    /\ stderr' = 0
    /\ UNCHANGED <<source, stdout, reader, cutter, queue, writer, upload, shutdown_event, outcome>>

\* drain_stderr_nonblocking, a task of its own while the reader lives.
DrainStderr ==
    /\ reader \notin Ended \cup {"cancelled"}
    /\ stderr > 0
    /\ stderr' = 0
    /\ UNCHANGED <<source, stdout, reader, cutter, queue, writer, upload, shutdown_event, outcome>>

-----------------------------------------------------------------------------
(* compress_encrypt_upload.                                                *)

Get ==
    /\ writer = "get" /\ ~shutdown_event
    /\ queue # <<>>
    /\ queue' = Tail(queue)
    /\ IF Head(queue) = None
         THEN writer' = "gather" /\ UNCHANGED chunk
         ELSE writer' = "acquire" /\ chunk' = Head(queue)
    /\ UNCHANGED <<source, stdout, stderr, reader, cutter, chunk_seq, background_tasks, uploaded,
                   shutdown_event, outcome>>

\* The event is only looked at when the next chunk comes.
SlipGetInterrupted ==
    /\ writer = "get" /\ shutdown_event /\ queue # <<>>
    /\ writer' = "gather"
    /\ queue' = Tail(queue)
    /\ UNCHANGED <<source, stdout, stderr, reader, cutter, upload, shutdown_event, outcome>>

\* queue.get raced against shutdown_event.wait: a chunk it got is dropped.
GetInterrupted ==
    /\ writer = "get" /\ shutdown_event
    /\ writer' = "gather"
    /\ queue' \in {queue} \cup (IF queue = <<>> THEN {} ELSE {Tail(queue)})
    /\ UNCHANGED <<source, stdout, stderr, reader, cutter, upload, shutdown_event, outcome>>

\* Encrypt under the next sequence number, take the semaphore, start the task.
\* A task releases the semaphore as it ends.
Acquire ==
    /\ writer = "acquire"
    /\ Cardinality(background_tasks) < MaxUploads
    /\ background_tasks' = background_tasks \cup
          {[seq |-> chunk_seq, chunk |-> chunk, started |-> FALSE]}
    /\ chunk_seq' = chunk_seq + 1
    /\ writer' = "get"
    /\ UNCHANGED <<source, stdout, stderr, reader, cutter, queue, chunk, uploaded, shutdown_event,
                   outcome>>

Uploading(t) == UNCHANGED <<source, stdout, stderr, reader, cutter, queue, chunk, chunk_seq, outcome>>

\* The task does not look at the event.
SlipStartUpload(t) ==
    /\ ~t.started
    /\ background_tasks' = (background_tasks \ {t}) \cup {[t EXCEPT !.started = TRUE]}
    /\ UNCHANGED <<writer, uploaded, shutdown_event>>
    /\ Uploading(t)

\* do_upload: a task that finds the event set uploads nothing.
StartUpload(t) ==
    /\ ~t.started
    /\ background_tasks' = (background_tasks \ {t}) \cup
          (IF shutdown_event THEN {} ELSE {[t EXCEPT !.started = TRUE]})
    /\ UNCHANGED <<writer, uploaded, shutdown_event>>
    /\ Uploading(t)

UploadDone(t) ==
    /\ t.started
    /\ background_tasks' = background_tasks \ {t}
    /\ uploaded' = uploaded \cup {<<t.seq, t.chunk>>}
    /\ UNCHANGED <<writer, shutdown_event>>
    /\ Uploading(t)

\* The exception stays in the task, and nobody is told.
SlipUploadFails(t) ==
    /\ UploadsFail
    /\ t.started
    /\ background_tasks' = background_tasks \ {t}
    /\ UNCHANGED <<writer, shutdown_event, uploaded>>
    /\ Uploading(t)

\* Only a failure during the final gather reaches the writer: a task that ended
\* before has left background_tasks.
UploadFails(t) ==
    /\ UploadsFail
    /\ t.started
    /\ background_tasks' = background_tasks \ {t}
    /\ shutdown_event' = TRUE
    /\ writer' = IF writer = "gather" THEN "gather_failed" ELSE writer
    /\ UNCHANGED uploaded
    /\ Uploading(t)

\* The writer leaves without waiting for its tasks.
SlipWriterEnds ==
    /\ writer = "gather"
    /\ writer' = "done"
    /\ UNCHANGED <<source, stdout, stderr, reader, cutter, queue, upload, shutdown_event, outcome>>

WriterEnds ==
    /\ writer \in {"gather", "gather_failed"}
    /\ background_tasks = {}
    /\ writer' = IF writer = "gather" THEN "done" ELSE "raised"
    /\ UNCHANGED <<source, stdout, stderr, reader, cutter, queue, upload, shutdown_event, outcome>>

-----------------------------------------------------------------------------
(* streaming_pipeline, and the end of the event loop it runs on, which       *)
(* cancels what is left: the reader terminates the process, and the chunk on *)
(* its way may still be stored.                                            *)

PipelineEnds ==
    /\ outcome = "none"
    /\ {reader, writer} \subseteq Ended \/ "raised" \in {reader, writer}
    /\ outcome' = IF "raised" \in {reader, writer} /\ ~shutdown_event THEN "raised" ELSE "returned"
    /\ reader' = IF reader \in Ended THEN reader ELSE "cancelled"
    /\ writer' = IF writer \in Ended THEN writer ELSE "cancelled"
    /\ proc' = IF proc = "running" THEN "error" ELSE proc
    /\ background_tasks' = {}
    /\ \E late \in SUBSET {t \in background_tasks : t.started} :
          uploaded' = uploaded \cup {<<t.seq, t.chunk>> : t \in late}
    /\ UNCHANGED <<to_write, noise, stdout, stderr, cutter, queue, chunk, chunk_seq, shutdown_event>>

Source == WriteStdout \/ WriteStderr \/ Finish
Reader == Read \/ Put \/ PutSentinel \/ ReaderEnds
Writer == Get \/ GetInterrupted \/ Acquire \/ WriterEnds
Uploads ==
    \E t \in background_tasks : StartUpload(t) \/ UploadDone(t) \/ UploadFails(t)

Next == Source \/ Die \/ Reader \/ DrainStderr \/ Writer \/ Uploads \/ PipelineEnds

\* The event loop runs every task that can go on, S3 calls end after at most five
\* attempts, and a process whose pipes have room goes on and ends.
Fairness ==
    /\ WF_vars(Source) /\ WF_vars(Reader) /\ WF_vars(DrainStderr)
    /\ WF_vars(Writer) /\ WF_vars(Uploads) /\ WF_vars(PipelineEnds)

Spec == Init /\ [][Next]_vars /\ Fairness

-----------------------------------------------------------------------------

Written == Chunks - to_write

\* What is stored is always a prefix of the source, each chunk under its own
\* number: the one upload at a time and the test of the event when a task starts
\* see to it, although a failure does not stop the writer at once.
UploadedIsPrefix == \E n \in 0 .. Chunks : uploaded = {<<i, i>> : i \in 0 .. n - 1}

\* A pipeline that returns, with no chunk failed, has stored all that was
\* written, and the process did not end in an error.
CleanReturn ==
    outcome = "returned" /\ ~shutdown_event
        => uploaded = {<<i, i>> : i \in 0 .. Written - 1} /\ proc \in {"ok", "sigpipe"}

\* After the first failure the writer comes to its end, wherever it was.
WriterStops == shutdown_event ~> writer \in Ended \cup {"cancelled"}

\* Without a failed chunk the pipeline comes to its end: neither the bounded
\* queue nor a full pipe of stdout or stderr holds it up for ever.
EndsWithoutFailure == []~shutdown_event => <>(outcome # "none")

\* The pipeline comes to its end.
Ends == <>(outcome # "none")

Abstract == INSTANCE Pipeline WITH
    source  <- Written,
    sent    <- Cardinality(uploaded),
    broken  <- shutdown_event

\* The engine stores chunks as BackupPurge supposes.
ImplementsPipeline == Abstract!Spec
=============================================================================
