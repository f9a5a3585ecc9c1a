------------------------- MODULE StreamEngineProofs -------------------------
(***************************************************************************)
(* Proofs about StreamEngine for a source of any length and pipes and queues *)
(* of any capacity: type correctness, and that a clean return stored all of  *)
(* it, for any number of uploads at a time, and, for the one at a time of    *)
(* constants.py, that what is stored is a prefix of the source and that the  *)
(* engine implements module Pipeline.                                        *)
(***************************************************************************)
EXTENDS StreamEngine, FiniteSetTheorems, FunctionTheorems, TLAPS

\* TypeOK and StreamAssumption, one variable or constant at a time.
Typed ==
    /\ to_write \in Nat /\ to_write <= Chunks
    /\ noise \in Nat /\ noise <= Noise
    /\ proc \in {"running", "ok", "error", "sigpipe"}
    /\ stdout \in Nat /\ stdout <= PipeCapacity /\ stderr \in Nat /\ stderr <= PipeCapacity
    /\ reader \in {"read", "put", "sentinel", "wait", "cancelled", "done", "raised"}
    /\ buffer \in Nat /\ ready \in Nat /\ handed \in Nat
    /\ buffer <= Chunks /\ ready <= Chunks /\ handed <= Chunks
    /\ is_eof \in BOOLEAN
    /\ queue \in Seq(Nat \cup {None}) /\ Len(queue) <= QueueMaxsize
    /\ writer \in {"get", "acquire", "gather", "gather_failed", "cancelled", "done", "raised"}
    /\ chunk \in Nat /\ chunk_seq \in Nat /\ chunk <= Chunks /\ chunk_seq <= Chunks
    /\ background_tasks \subseteq Task
    /\ shutdown_event \in BOOLEAN
    /\ uploaded \subseteq Nat \X Nat
    /\ outcome \in {"none", "returned", "raised"}

Constants ==
    /\ Chunks \in Nat /\ Noise \in Nat
    /\ PipeCapacity \in Nat /\ PipeCapacity > 0
    /\ QueueMaxsize \in Nat /\ QueueMaxsize > 0
    /\ None \notin Nat

\* The reader is beyond the end of the source, or was stopped.
Through == Ended \cup {"wait", "cancelled"}

\* No chunk is lost or doubled on its way from the source to the queue.
Conserved == handed + ready + buffer + stdout = Chunks - to_write

\* The end of the source comes once, and leaves nothing behind.
EofDrained == is_eof => stdout = 0 /\ buffer = 0 /\ proc # "running"

\* What the place of the reader says of its chunks.  After a failure it may give
\* chunks up.
ReaderPlace ==
    /\ reader = "put" => ready > 0
    /\ reader \in {"read", "sentinel"} => ready = 0
    /\ reader = "read" => ~is_eof
    /\ reader = "sentinel" => is_eof
    /\ reader \in Ended \cup {"wait"} /\ ~shutdown_event => is_eof /\ ready = 0

\* The number of the chunk the writer will get next.
next == IF writer = "acquire" THEN chunk_seq + 1 ELSE chunk_seq

\* The writer numbers the chunks as the source did.
WriterPlace ==
    /\ writer = "acquire" => chunk = chunk_seq
    /\ next <= handed
    /\ writer \in {"gather", "done"} /\ ~shutdown_event
          => next = handed /\ queue = <<>> /\ reader \in Through
    /\ writer \in {"gather_failed", "raised"} => shutdown_event

\* Without a failure the queue holds, in order and without a gap, the chunks put and
\* not yet got, and the mark of the end only as its last item.
QueueInOrder ==
    ~shutdown_event /\ outcome = "none" =>
        /\ \A i \in 1 .. Len(queue) :
              IF queue[i] = None THEN i = Len(queue) /\ reader \in Through
              ELSE queue[i] = next + i - 1
        /\ \/ handed = next + Len(queue) /\ \A i \in 1 .. Len(queue) : queue[i] # None
           \/ handed = next + Len(queue) - 1 /\ Len(queue) > 0 /\ queue[Len(queue)] = None

\* Nothing moves once streaming_pipeline has ended.
Stopped ==
    outcome # "none" =>
        /\ {reader, writer} \subseteq Ended \cup {"cancelled"}
        /\ proc # "running"
        /\ background_tasks = {}

Ordered ==
    /\ Typed
    /\ Conserved
    /\ EofDrained
    /\ ReaderPlace
    /\ WriterPlace
    /\ QueueInOrder
    /\ Stopped

\* The first n chunks, each under its own number.
Prefix(n) == {<<i, i>> : i \in 0 .. n - 1}

\* Before a failure every chunk numbered is stored or on its way.
NoneMissing ==
    ~shutdown_event /\ outcome = "none"
        => uploaded \cup {<<t.seq, t.chunk>> : t \in background_tasks} = Prefix(chunk_seq)

\* How the writer and the reader ended.
WriterEnd == writer \in {"done", "raised"} => background_tasks = {}
ReaderEnd == reader = "done" => proc # "running" /\ (proc = "error" => shutdown_event)

Accounted == Ordered /\ NoneMissing /\ WriterEnd /\ ReaderEnd /\ CleanReturn

\* The uploads, when there is one at a time: before a failure the one under way is
\* of the last chunk numbered, and after it none is started.
OneUpload ==
    /\ ~shutdown_event /\ outcome = "none" =>
          \/ background_tasks = {} /\ uploaded = Prefix(chunk_seq)
          \/ /\ chunk_seq > 0 /\ uploaded = Prefix(chunk_seq - 1)
             /\ \E b \in BOOLEAN : background_tasks =
                   {[seq |-> chunk_seq - 1, chunk |-> chunk_seq - 1, started |-> b]}
    /\ shutdown_event => \A t \in background_tasks : ~t.started
    /\ IsFiniteSet(background_tasks)

InOrder == Accounted /\ OneUpload /\ UploadedIsPrefix

-----------------------------------------------------------------------------
(* Type correctness, and the order of the chunks, for any number of uploads. *)

\* The constants are what they are assumed to be.
LEMMA ConstantsTyped == Constants
BY StreamAssumption DEF Constants

\* The two forms of the type invariant say the same.
LEMMA TypesUnpacked == TypeOK <=> Typed
BY ConstantsTyped DEF Constants, TypeOK, Typed, Ended

\* At first nothing has moved.
LEMMA OrderedInit == Init => Ordered
<1> SUFFICES ASSUME Init PROVE Ordered
  OBVIOUS
<1>1. Constants /\ Len(queue) = 0 /\ queue \in Seq(Nat \cup {None})
  BY ConstantsTyped DEF Init
<1>2. Typed
  <2>1. background_tasks \subseteq Task /\ uploaded \subseteq Nat \X Nat
    BY DEF Init
  <2>2. Len(queue) <= QueueMaxsize /\ queue \in Seq(Nat \cup {None})
    BY <1>1 DEF Constants
  <2>3. /\ to_write = Chunks /\ noise = Noise /\ proc = "running" /\ stdout = 0 /\ stderr = 0
        /\ reader = "read" /\ buffer = 0 /\ ready = 0 /\ handed = 0 /\ is_eof = FALSE
        /\ writer = "get" /\ chunk = 0 /\ chunk_seq = 0
        /\ shutdown_event = FALSE /\ outcome = "none"
    BY DEF Init
  <2>4. /\ to_write \in Nat /\ to_write <= Chunks /\ noise \in Nat /\ noise <= Noise
        /\ stdout \in Nat /\ stdout <= PipeCapacity /\ stderr \in Nat /\ stderr <= PipeCapacity
        /\ buffer \in Nat /\ ready \in Nat /\ handed \in Nat
        /\ buffer <= Chunks /\ ready <= Chunks /\ handed <= Chunks
        /\ chunk \in Nat /\ chunk_seq \in Nat /\ chunk <= Chunks /\ chunk_seq <= Chunks
    BY <1>1, <2>3 DEF Constants
  <2>5. /\ proc \in {"running", "ok", "error", "sigpipe"}
        /\ reader \in {"read", "put", "sentinel", "wait", "cancelled", "done", "raised"}
        /\ writer \in {"get", "acquire", "gather", "gather_failed", "cancelled", "done", "raised"}
        /\ is_eof \in BOOLEAN /\ shutdown_event \in BOOLEAN
        /\ outcome \in {"none", "returned", "raised"}
    BY <2>3
  <2> QED
    BY <2>1, <2>2, <2>4, <2>5, Zenon DEF Typed
<1>3. Conserved /\ EofDrained /\ ReaderPlace /\ WriterPlace /\ Stopped
  BY <1>1 DEF Constants, Init, Conserved, EofDrained, ReaderPlace, WriterPlace, Stopped, next,
              Ended
<1>4. QueueInOrder
  BY <1>1 DEF Init, QueueInOrder, next
<1> QED
  BY <1>2, <1>3, <1>4 DEF Ordered

\* Every step keeps the chunks in their order and loses none before a failure.
LEMMA OrderedStep == Ordered /\ [Next]_vars => Ordered'
<1> SUFFICES ASSUME Ordered, [Next]_vars PROVE Ordered'
  OBVIOUS
<1>c. Constants
  BY ConstantsTyped
<1>o. Typed /\ Conserved /\ EofDrained /\ ReaderPlace /\ WriterPlace /\ Stopped
  BY DEF Ordered
<1>q. QueueInOrder
  BY DEF Ordered
<1>g. ASSUME Typed', Conserved', EofDrained', ReaderPlace', WriterPlace', Stopped', QueueInOrder'
      PROVE  Ordered'
  BY <1>g DEF Ordered
\* Steps that touch neither the queue nor the places of its two ends.
<1>k. UNCHANGED <<queue, reader, writer, chunk_seq, handed>> /\ (shutdown_event => shutdown_event')
         /\ (outcome' = "none" => outcome = "none")
         => QueueInOrder'
  BY <1>q, <1>o DEF QueueInOrder, next, Typed
<1> USE <1>c, <1>o DEF Constants, Typed, Conserved, EofDrained, ReaderPlace, WriterPlace,
            Stopped, next, Ended, Through, source, cutter, upload
<1>1. CASE WriteStdout
  BY <1>1, <1>k, <1>g DEF WriteStdout
<1>2. CASE WriteStderr
  BY <1>2, <1>k, <1>g DEF WriteStderr
<1>3. CASE Finish
  BY <1>3, <1>k, <1>g DEF Finish
<1>4. CASE Die
  BY <1>4, <1>k, <1>g DEF Die
<1>5. CASE Read
  <2>1. /\ reader = "read" /\ ~is_eof /\ ready = 0
        /\ reader' = IF ready' > 0 THEN "put" ELSE AfterFeed(is_eof')
        /\ UNCHANGED <<source, stderr, handed, queue, writer, upload, shutdown_event, outcome>>
    BY <1>5 DEF Read
  <2>2. \/ /\ stdout > 0 /\ UNCHANGED is_eof
           /\ \E n \in 1 .. stdout : \E cut \in 0 .. buffer + n :
                 stdout' = stdout - n /\ buffer' = buffer + n - cut /\ ready' = cut
        \/ /\ stdout = 0 /\ proc # "running" /\ UNCHANGED stdout
           /\ is_eof' = TRUE /\ ready' = buffer /\ buffer' = 0
    BY <1>5 DEF Read
  <2> DEFINE Moved == /\ stdout' \in Nat /\ stdout' <= PipeCapacity
                      /\ buffer' \in Nat /\ buffer' <= Chunks /\ ready' \in Nat /\ ready' <= Chunks
                      /\ Conserved'
                      /\ is_eof' \in BOOLEAN
                      /\ is_eof' => stdout' = 0 /\ buffer' = 0 /\ proc # "running"
  <2>3. Moved
    <3>1. ASSUME NEW n \in 1 .. stdout, NEW cut \in 0 .. buffer + n, UNCHANGED is_eof,
                 stdout' = stdout - n, buffer' = buffer + n - cut, ready' = cut
          PROVE  Moved
      <4>1. n \in Nat /\ n <= stdout /\ cut \in Nat /\ cut <= buffer + n /\ stdout \in Nat
            /\ buffer \in Nat
        OBVIOUS
      <4>2. /\ stdout - n \in Nat /\ stdout - n <= PipeCapacity
            /\ buffer + n - cut \in Nat /\ buffer + n - cut <= Chunks /\ cut <= Chunks
            /\ handed + cut + (buffer + n - cut) + (stdout - n) = Chunks - to_write
        BY <2>1, <4>1
      <4>3. handed' = handed /\ to_write' = to_write
        BY <2>1
      <4>4. Conserved'
        BY <3>1, <4>2, <4>3
      <4> QED
        BY <2>1, <3>1, <4>1, <4>2, <4>4
    <3>2. CASE /\ stdout = 0 /\ proc # "running" /\ UNCHANGED stdout
               /\ is_eof' = TRUE /\ ready' = buffer /\ buffer' = 0
      BY <2>1, <3>2
    <3> QED
      BY <2>2, <3>1, <3>2
  <2>4. reader' \in {"put", "wait", "sentinel", "read"}
    BY <2>1 DEF AfterFeed
  <2>5. Conserved' /\ EofDrained'
    BY <2>1, <2>3
  <2>6. Typed'
    BY <2>1, <2>3, <2>4
  <2>7. ReaderPlace'
    BY <2>1, <2>3 DEF AfterFeed
  <2>8. WriterPlace' /\ Stopped'
    BY <2>1
  <2>9. QueueInOrder'
    BY <1>q, <2>1 DEF QueueInOrder
  <2> QED
    BY <2>5, <2>6, <2>7, <2>8, <2>9, <1>g
<1>6. CASE Put
  <2>1. /\ reader = "put" /\ ready > 0
        /\ handed' = handed + 1 /\ ready' = ready - 1
        /\ reader' = IF ready' > 0 /\ ~shutdown_event THEN "put" ELSE AfterFeed(is_eof)
        /\ UNCHANGED <<source, stdout, stderr, buffer, is_eof, writer, upload, shutdown_event,
                       outcome>>
    BY <1>6 DEF Put
  <2>2. \/ Len(queue) < QueueMaxsize /\ queue' = Append(queue, handed)
        \/ shutdown_event /\ UNCHANGED queue
    BY <1>6 DEF Put, Offer
  <2>3. queue' \in Seq(Nat \cup {None}) /\ Len(queue') <= QueueMaxsize
    BY <2>2
  <2>4. \/ reader' = "put" /\ ready' > 0
        \/ reader' = "wait" /\ shutdown_event
        \/ reader' = "sentinel" /\ is_eof /\ ready' = 0
        \/ reader' = "read" /\ ~is_eof /\ ready' = 0
    <3>1. ready' \in Nat /\ shutdown_event \in BOOLEAN /\ is_eof \in BOOLEAN
      BY <2>1
    <3>2. CASE shutdown_event
      BY <2>1, <3>1, <3>2 DEF AfterFeed
    <3>3. CASE ~shutdown_event /\ ready' > 0
      BY <2>1, <3>3
    <3>4. CASE ~shutdown_event /\ ready' = 0
      BY <2>1, <3>4 DEF AfterFeed
    <3> QED
      BY <3>1, <3>2, <3>3, <3>4
  <2>5. Typed' /\ Conserved' /\ EofDrained'
    BY <2>1, <2>3, <2>4
  <2>6. ReaderPlace'
    BY <2>1, <2>4
  <2>7. WriterPlace' /\ Stopped'
    BY <2>1
  <2>8. QueueInOrder'
    <3> SUFFICES ASSUME ~shutdown_event, outcome = "none" PROVE QueueInOrder'
      BY <2>1 DEF QueueInOrder
    <3> DEFINE n == Len(queue)
    <3>1. /\ n \in Nat /\ n + 1 \in Nat /\ Len(queue') = n + 1
          /\ \A i \in 1 .. n : queue'[i] = queue[i]
          /\ queue'[n + 1] = handed
      BY <2>2
    <3>2. /\ \A i \in 1 .. n : queue[i] # None /\ queue[i] = next + i - 1
          /\ handed = next + n
      <4>1. \A i \in 1 .. n : queue[i] # None
        BY <1>q, <2>1, <3>1 DEF QueueInOrder
      <4>2. n > 0 => n \in 1 .. n
        BY <3>1
      <4> QED
        BY <1>q, <4>1, <4>2, <3>1 DEF QueueInOrder
    <3>3. next' = next /\ handed # None /\ next \in Nat
      BY <2>1
    <3>4. handed' = handed + 1 /\ handed \in Nat
      BY <2>1
    <3> HIDE DEF n, next
    <3>5. \A i \in 1 .. n + 1 : queue'[i] # None /\ queue'[i] = next + i - 1
      BY <3>1, <3>2, <3>3
    <3>6. handed' = next + (n + 1)
      BY <3>1, <3>2, <3>3, <3>4
    <3> QED
      BY <3>1, <3>3, <3>5, <3>6 DEF QueueInOrder
  <2> QED
    BY <2>5, <2>6, <2>7, <2>8, <1>g
<1>7. CASE PutSentinel
  <2>1. /\ reader = "sentinel" /\ reader' = "wait"
        /\ UNCHANGED <<source, stdout, stderr, cutter, writer, upload, shutdown_event, outcome>>
    BY <1>7 DEF PutSentinel
  <2>2. \/ Len(queue) < QueueMaxsize /\ queue' = Append(queue, None)
        \/ shutdown_event /\ UNCHANGED queue
    BY <1>7 DEF PutSentinel, Offer
  <2>3. queue' \in Seq(Nat \cup {None}) /\ Len(queue') <= QueueMaxsize
    BY <2>2
  <2>4. Typed' /\ Conserved' /\ EofDrained' /\ ReaderPlace' /\ WriterPlace' /\ Stopped'
    BY <2>1, <2>3
  <2>5. QueueInOrder'
    <3> SUFFICES ASSUME ~shutdown_event, outcome = "none" PROVE QueueInOrder'
      BY <2>1 DEF QueueInOrder
    <3> DEFINE n == Len(queue)
    <3>1. /\ n \in Nat /\ Len(queue') = n + 1
          /\ \A i \in 1 .. n : queue'[i] = queue[i]
          /\ queue'[n + 1] = None
      BY <2>2
    <3>2. /\ \A i \in 1 .. n : queue[i] # None /\ queue[i] = next + i - 1
          /\ handed = next + n
      <4>1. \A i \in 1 .. n : queue[i] # None
        BY <1>q, <2>1, <3>1 DEF QueueInOrder
      <4>2. n > 0 => n \in 1 .. n
        BY <3>1
      <4> QED
        BY <1>q, <4>1, <4>2, <3>1 DEF QueueInOrder
    <3>3. next' = next /\ next \in Nat /\ handed' = handed /\ reader' \in Through
      BY <2>1
    <3> HIDE DEF n, next
    <3>4. \A i \in 1 .. n + 1 : IF queue'[i] = None THEN i = n + 1 ELSE queue'[i] = next + i - 1
      BY <3>1, <3>2, <3>3
    <3>5. handed' = next' + (n + 1) - 1
      BY <3>1, <3>2, <3>3
    <3> QED
      BY <3>1, <3>3, <3>4, <3>5 DEF QueueInOrder
  <2> QED
    BY <2>4, <2>5, <1>g
<1>8. CASE ReaderEnds
  BY <1>8, <1>q, <1>g DEF ReaderEnds, QueueInOrder
<1>9. CASE DrainStderr
  BY <1>9, <1>k, <1>g DEF DrainStderr
<1>10. CASE Get
  <2>1. /\ writer = "get" /\ ~shutdown_event /\ queue # <<>> /\ queue' = Tail(queue)
        /\ UNCHANGED <<source, stdout, stderr, reader, cutter, chunk_seq, background_tasks,
                       uploaded, shutdown_event, outcome>>
        /\ outcome = "none"
    BY <1>10 DEF Get
  <2> DEFINE n == Len(queue)
  <2>2. /\ n \in Nat /\ n > 0 /\ Len(queue') = n - 1
        /\ queue' \in Seq(Nat \cup {None})
        /\ \A i \in 1 .. n - 1 : queue'[i] = queue[i + 1] /\ i + 1 \in 1 .. n
        /\ Head(queue) = queue[1] /\ 1 \in 1 .. n /\ n \in 1 .. n
    BY <2>1
  <2>3. next = chunk_seq /\ chunk_seq \in Nat /\ Len(queue') <= QueueMaxsize
    BY <2>1, <2>2
  <2>4. /\ \A i \in 1 .. n : IF queue[i] = None THEN i = n /\ reader \in Through
                             ELSE queue[i] = chunk_seq + i - 1
        /\ \/ handed = chunk_seq + n /\ \A i \in 1 .. n : queue[i] # None
           \/ handed = chunk_seq + n - 1 /\ queue[n] = None
    BY <1>q, <2>1, <2>3 DEF QueueInOrder
  <2>5. CASE Head(queue) = None
    <3>1. writer' = "gather" /\ UNCHANGED chunk
      BY <1>10, <2>5 DEF Get
    <3>2. n = 1 /\ reader \in Through /\ handed = chunk_seq
      BY <2>2, <2>3, <2>4, <2>5
    <3>3. queue' = <<>>
      BY <2>2, <3>2
    <3>4. Typed' /\ Conserved' /\ EofDrained' /\ ReaderPlace' /\ Stopped'
      BY <2>1, <2>2, <2>3, <3>1
    <3>5. WriterPlace'
      BY <2>1, <3>1, <3>2, <3>3
    <3>6. QueueInOrder'
      <4>1. Len(queue') = 0 /\ handed' = next' /\ next' \in Nat
        BY <2>1, <2>2, <2>3, <3>1, <3>2
      <4> QED
        BY <4>1 DEF QueueInOrder
    <3> QED
      BY <3>4, <3>5, <3>6, <1>g
  <2>6. CASE Head(queue) # None
    <3>1. writer' = "acquire" /\ chunk' = chunk_seq
      <4>1. Head(queue) = chunk_seq
        BY <2>2, <2>3, <2>4, <2>6
      <4> QED
        BY <1>10, <2>6, <4>1 DEF Get
    <3>2. next' = chunk_seq + 1 /\ handed' = handed
      BY <2>1, <3>1
    <3>3. chunk_seq + 1 <= handed
      <4>1. queue[n] = None => n # 1
        BY <2>2, <2>6
      <4> QED
        BY <2>2, <2>3, <2>4, <4>1
    <3>4. Typed' /\ Conserved' /\ EofDrained' /\ ReaderPlace' /\ WriterPlace' /\ Stopped'
      BY <2>1, <2>2, <2>3, <3>1, <3>3
    <3>5. \A i \in 1 .. n - 1 :
             IF queue'[i] = None THEN i = n - 1 /\ reader' \in Through
             ELSE queue'[i] = next' + i - 1
      <4> SUFFICES ASSUME NEW i \in 1 .. n - 1
                   PROVE  IF queue'[i] = None THEN i = n - 1 /\ reader' \in Through
                          ELSE queue'[i] = next' + i - 1
        OBVIOUS
      <4>1. queue'[i] = queue[i + 1] /\ i + 1 \in 1 .. n /\ i \in Nat
        BY <2>2
      <4>2. IF queue[i + 1] = None THEN i + 1 = n /\ reader \in Through
            ELSE queue[i + 1] = chunk_seq + (i + 1) - 1
        BY <2>4, <4>1
      <4>3. reader' = reader
        BY <2>1
      <4> HIDE DEF next, n
      <4> QED
        BY <2>2, <2>3, <3>2, <4>1, <4>2, <4>3
    <3>6. \/ handed' = next' + (n - 1) /\ \A i \in 1 .. n - 1 : queue'[i] # None
          \/ handed' = next' + (n - 1) - 1 /\ n - 1 > 0 /\ queue'[n - 1] = None
      <4>1. CASE handed = chunk_seq + n /\ \A i \in 1 .. n : queue[i] # None
        <5> HIDE DEF next, n
        <5> QED
          BY <2>2, <2>3, <3>2, <4>1
      <4>2. CASE handed = chunk_seq + n - 1 /\ queue[n] = None
        <5>1. n # 1
          BY <2>2, <2>6, <4>2
        <5>2. n - 1 \in 1 .. n - 1 /\ (n - 1) + 1 = n
          BY <2>2, <5>1
        <5>3. queue'[n - 1] = None
          BY <2>2, <4>2, <5>2
        <5> HIDE DEF next, n
        <5> QED
          BY <2>2, <2>3, <3>2, <4>2, <5>1, <5>3
      <4> QED
        BY <2>4, <4>1, <4>2
    <3>7. QueueInOrder'
      <4> HIDE DEF next
      <4> QED
        BY <2>2, <3>5, <3>6 DEF QueueInOrder
    <3> QED
      BY <3>4, <3>7, <1>g
  <2> QED
    BY <2>5, <2>6
<1>11. CASE GetInterrupted
  BY <1>11, <1>q, <1>g DEF GetInterrupted, QueueInOrder
<1>12. CASE Acquire
  <2>1. /\ writer = "acquire" /\ writer' = "get" /\ chunk_seq' = chunk_seq + 1
        /\ background_tasks' = background_tasks \cup
              {[seq |-> chunk_seq, chunk |-> chunk, started |-> FALSE]}
        /\ UNCHANGED <<source, stdout, stderr, reader, cutter, queue, chunk, uploaded,
                       shutdown_event, outcome>>
    BY <1>12 DEF Acquire
  <2>2. background_tasks' \subseteq Task
    <3>1. [seq |-> chunk_seq, chunk |-> chunk, started |-> FALSE] \in Task
      BY DEF Task
    <3> QED
      BY <2>1, <3>1
  <2>3. next' = next /\ next' = chunk_seq' /\ handed' = handed
    BY <2>1
  <2>4. Typed'
    BY <2>1, <2>2, <2>3
  <2>5. Conserved' /\ EofDrained' /\ ReaderPlace' /\ Stopped'
    BY <2>1
  <2>6. WriterPlace'
    BY <2>1, <2>3
  <2>7. QueueInOrder'
    <3> HIDE DEF next
    <3> QED
      BY <1>q, <2>1, <2>3 DEF QueueInOrder
  <2> QED
    BY <2>4, <2>5, <2>6, <2>7, <1>g
<1>13. CASE WriterEnds
  BY <1>13, <1>q, <1>g DEF WriterEnds, QueueInOrder
<1>14. CASE PipelineEnds
  <2>1. /\ outcome = "none" /\ outcome' \in {"returned", "raised"}
        /\ reader' = IF reader \in Ended THEN reader ELSE "cancelled"
        /\ writer' = IF writer \in Ended THEN writer ELSE "cancelled"
        /\ proc' = IF proc = "running" THEN "error" ELSE proc
        /\ background_tasks' = {}
        /\ UNCHANGED <<to_write, noise, stdout, stderr, cutter, queue, chunk, chunk_seq,
                       shutdown_event>>
    BY <1>14 DEF PipelineEnds
  <2>2. uploaded' \subseteq Nat \X Nat
    <3>1. PICK late \in SUBSET {t \in background_tasks : t.started} :
             uploaded' = uploaded \cup {<<t.seq, t.chunk>> : t \in late}
      BY <1>14 DEF PipelineEnds
    <3>2. \A t \in late : t.seq \in Nat /\ t.chunk \in Nat
      BY DEF Task
    <3>3. uploaded \subseteq Nat \X Nat
      OBVIOUS
    <3> QED
      BY <3>1, <3>2, <3>3
  <2>3. Typed'
    BY <2>1, <2>2
  <2>4. Conserved' /\ EofDrained' /\ ReaderPlace' /\ Stopped'
    BY <2>1
  <2>5. WriterPlace'
    BY <2>1
  <2>6. QueueInOrder'
    BY <2>1 DEF QueueInOrder
  <2> QED
    BY <2>3, <2>4, <2>5, <2>6, <1>g
<1>15. ASSUME NEW t \in background_tasks, StartUpload(t) PROVE Ordered'
  <2>1. /\ UNCHANGED <<source, stdout, stderr, reader, cutter, queue, chunk, chunk_seq, outcome>>
        /\ UNCHANGED <<writer, uploaded, shutdown_event>>
    BY <1>15 DEF StartUpload, Uploading
  <2>2. background_tasks' \subseteq Task /\ outcome = "none"
    BY <1>15 DEF StartUpload, Task
  <2>3. Typed'
    BY <2>1, <2>2
  <2> QED
    BY <2>1, <2>2, <2>3, <1>k, <1>g
<1>16. ASSUME NEW t \in background_tasks, UploadDone(t) PROVE Ordered'
  BY <1>16, <1>k, <1>g DEF UploadDone, Uploading, Task
<1>17. ASSUME NEW t \in background_tasks, UploadFails(t) PROVE Ordered'
  BY <1>17, <1>g DEF UploadFails, Uploading, Task, QueueInOrder
<1>18. CASE UNCHANGED vars
  BY <1>18, <1>k, <1>g DEF vars
<1> QED
  BY <1>1, <1>2, <1>3, <1>4, <1>5, <1>6, <1>7, <1>8, <1>9, <1>10, <1>11, <1>12, <1>13, <1>14, <1>15, <1>16, <1>17, <1>18
     DEF Next, Source, Reader, Writer, Uploads

\* The engine's state stays well typed, whatever the number of uploads at a time: no
\* chunk is invented, and no pipe or queue holds more than its capacity.
THEOREM TypeCorrect == Spec => []TypeOK
<1>1. Init => Ordered
  BY OrderedInit
<1>2. Ordered /\ [Next]_vars => Ordered'
  BY OrderedStep
<1>3. Ordered => TypeOK
  BY TypesUnpacked DEF Ordered
<1> QED
  BY <1>1, <1>2, <1>3, PTL DEF Spec

-----------------------------------------------------------------------------
(* A clean return, for any number of uploads.                               *)

\* The next chunk makes the prefix one longer.
LEMMA PrefixGrows ==
    ASSUME NEW n \in Nat, n > 0
    PROVE  Prefix(n - 1) \cup {<<n - 1, n - 1>>} = Prefix(n)
BY DEF Prefix

\* The prefix of n chunks has n of them.
LEMMA PrefixCardinality ==
    ASSUME NEW n \in Nat
    PROVE  Cardinality(Prefix(n)) = n
<1> DEFINE f == [i \in 1 .. n |-> <<i - 1, i - 1>>]
<1>1. f \in [1 .. n -> Prefix(n)]
  BY DEF Prefix
<1>2. ASSUME NEW i \in 1 .. n, NEW j \in 1 .. n, f[i] = f[j] PROVE i = j
  BY <1>2
<1>3. ASSUME NEW p \in Prefix(n) PROVE \E i \in 1 .. n : f[i] = p
  <2>1. PICK i \in 0 .. n - 1 : p = <<i, i>>
    BY DEF Prefix
  <2>2. i + 1 \in 1 .. n /\ f[i + 1] = p
    BY <2>1
  <2> QED
    BY <2>2
<1>4. f \in Bijection(1 .. n, Prefix(n))
  <2> HIDE DEF f
  <2> QED
    BY <1>1, <1>2, <1>3, Fun_IsBij
<1>5. ExistsBijection(1 .. n, Prefix(n))
  BY <1>4 DEF ExistsBijection
<1> QED
  BY <1>5, FS_CountingElements

\* Once streaming_pipeline has ended, the run is over.
LEMMA NothingMoves == Ordered /\ outcome # "none" /\ [Next]_vars => UNCHANGED vars
<1> SUFFICES ASSUME Ordered, outcome # "none", Next PROVE FALSE
  OBVIOUS
<1>1. /\ reader \in {"cancelled", "done", "raised"} /\ writer \in {"cancelled", "done", "raised"}
      /\ proc # "running" /\ background_tasks = {}
  BY DEF Ordered, Stopped, Typed, Ended
<1> QED
  BY <1>1 DEF Next, Source, WriteStdout, WriteStderr, Finish, Die, Reader, Read, Put, PutSentinel,
              ReaderEnds, DrainStderr, Writer, Get, GetInterrupted, Acquire, WriterEnds, Uploads,
              PipelineEnds, Ended

\* At first no chunk is numbered.
LEMMA AccountedInit == Init => Accounted
<1> SUFFICES ASSUME Init PROVE Accounted
  OBVIOUS
<1>1. NoneMissing
  BY DEF Init, NoneMissing, Prefix
<1>2. WriterEnd /\ ReaderEnd /\ CleanReturn
  BY DEF Init, WriterEnd, ReaderEnd, CleanReturn
<1> QED
  BY <1>1, <1>2, OrderedInit DEF Accounted

\* A chunk that is numbered stays under way until it is stored, as long as none fails;
\* the writer ends without a task left, so that nothing is under way at a clean return.
LEMMA AccountedStep == Accounted /\ [Next]_vars => Accounted'
<1> SUFFICES ASSUME Accounted, [Next]_vars PROVE Accounted'
  OBVIOUS
<1> DEFINE Shape == NoneMissing /\ WriterEnd /\ ReaderEnd /\ CleanReturn
<1>o. Ordered /\ Ordered' /\ Shape
  BY OrderedStep DEF Accounted
<1>g. SUFFICES Shape'
  BY <1>o DEF Accounted
<1>1. CASE outcome # "none" \/ UNCHANGED vars
  <2>1. UNCHANGED <<proc, reader, writer, chunk_seq, background_tasks, uploaded, shutdown_event,
                    outcome, to_write>>
    BY <1>1, <1>o, NothingMoves DEF vars, source, upload
  <2> QED
    BY <2>1, <1>o DEF NoneMissing, Prefix, WriterEnd, ReaderEnd, CleanReturn, Written
<1>2. CASE outcome = "none" /\ Next
  <2>t. /\ chunk_seq \in Nat /\ shutdown_event \in BOOLEAN /\ background_tasks \subseteq Task
        /\ writer = "acquire" => chunk = chunk_seq
    BY <1>o DEF Ordered, Typed, WriterPlace
  \* Steps that leave the uploads alone.
  <2>k. ASSUME UNCHANGED <<chunk_seq, background_tasks, uploaded, shutdown_event, outcome>>,
               writer' \in {"done", "raised"} =>
                  writer \in {"done", "raised"} \/ background_tasks = {}
        PROVE  NoneMissing' /\ WriterEnd'
    BY <2>k, <1>o DEF NoneMissing, Prefix, WriterEnd
  <2>n. outcome' = "none" => CleanReturn'
    BY DEF CleanReturn
  <2>r. reader' = reader /\ (shutdown_event => shutdown_event') /\ (proc' = proc \/ proc = "running")
        => ReaderEnd'
    BY <1>o DEF ReaderEnd
  <2>1. CASE WriteStdout
    BY <1>2, <2>1, <2>k, <2>n, <2>r DEF WriteStdout, upload, cutter
  <2>2. CASE WriteStderr
    BY <1>2, <2>2, <2>k, <2>n, <2>r DEF WriteStderr, upload, cutter
  <2>3. CASE Finish
    BY <1>2, <2>3, <2>k, <2>n, <2>r DEF Finish, upload, cutter
  <2>4. CASE Die
    BY <1>2, <2>4, <2>k, <2>n, <2>r DEF Die, upload, cutter
  <2>5. CASE Read \/ Put \/ PutSentinel
    <3>1. UNCHANGED <<chunk_seq, background_tasks, uploaded, shutdown_event, outcome, writer>>
          /\ reader' # "done"
      BY <2>5 DEF Read, Put, PutSentinel, upload, AfterFeed
    <3> QED
      BY <1>2, <3>1, <2>k, <2>n DEF ReaderEnd
  <2>6. CASE ReaderEnds
    <3>1. UNCHANGED <<chunk_seq, background_tasks, uploaded, shutdown_event, outcome, writer>>
      BY <2>6 DEF ReaderEnds, upload
    <3>2. ReaderEnd'
      BY <2>6 DEF ReaderEnds, ReaderEnd, source
    <3> QED
      BY <1>2, <3>1, <3>2, <2>k, <2>n
  <2>7. CASE DrainStderr
    BY <1>2, <2>7, <2>k, <2>n, <2>r DEF DrainStderr, upload, cutter, source
  <2>8. CASE Get
    BY <1>2, <2>8, <2>k, <2>n, <2>r DEF Get, source, cutter
  <2>9. CASE GetInterrupted
    BY <1>2, <2>9, <2>k, <2>n, <2>r DEF GetInterrupted, upload, cutter, source
  <2>10. CASE WriterEnds
    BY <1>2, <2>10, <2>k, <2>n, <2>r DEF WriterEnds, upload, cutter, source
  <2>11. CASE Acquire
    <3>1. /\ writer = "acquire" /\ writer' = "get" /\ chunk_seq' = chunk_seq + 1
          /\ background_tasks' = background_tasks \cup
                {[seq |-> chunk_seq, chunk |-> chunk, started |-> FALSE]}
          /\ UNCHANGED <<uploaded, shutdown_event, reader, proc, outcome>>
      BY <2>11 DEF Acquire, source
    <3>2. {<<t.seq, t.chunk>> : t \in background_tasks'}
             = {<<t.seq, t.chunk>> : t \in background_tasks} \cup {<<chunk_seq, chunk_seq>>}
      <4>1. chunk = chunk_seq
        BY <3>1, <2>t
      <4> DEFINE new == [seq |-> chunk_seq, chunk |-> chunk_seq, started |-> FALSE]
      <4>2. new.seq = chunk_seq /\ new.chunk = chunk_seq
        OBVIOUS
      <4>3. background_tasks' = background_tasks \cup {new}
        BY <3>1, <4>1
      <4> HIDE DEF new
      <4> QED
        BY <4>2, <4>3
    <3>3. Prefix(chunk_seq') = Prefix(chunk_seq) \cup {<<chunk_seq, chunk_seq>>}
      BY <3>1, <2>t, PrefixGrows
    <3>4. NoneMissing'
      <4> SUFFICES ASSUME ~shutdown_event
                   PROVE  uploaded' \cup {<<t.seq, t.chunk>> : t \in background_tasks'}
                             = Prefix(chunk_seq')
        BY <3>1 DEF NoneMissing, Prefix
      <4>1. uploaded \cup {<<t.seq, t.chunk>> : t \in background_tasks} = Prefix(chunk_seq)
        BY <1>2, <1>o DEF NoneMissing
      <4> QED
        BY <3>1, <3>2, <3>3, <4>1
    <3>5. WriterEnd'
      BY <3>1 DEF WriterEnd
    <3> QED
      BY <1>2, <3>1, <3>4, <3>5, <2>n, <2>r
  <2>12. ASSUME NEW t \in background_tasks, StartUpload(t) \/ UploadDone(t) \/ UploadFails(t)
         PROVE  Shape'
    <3>1. /\ UNCHANGED <<reader, proc, chunk_seq, outcome>>
          /\ shutdown_event => shutdown_event'
          /\ writer' \notin {"done", "raised"}
      <4>1. writer \notin {"done", "raised"}
        BY <1>o DEF WriterEnd
      <4> QED
        BY <2>12, <4>1 DEF StartUpload, UploadDone, UploadFails, Uploading, source
    <3>2. ReaderEnd' /\ CleanReturn' /\ WriterEnd'
      BY <1>2, <3>1, <2>n, <2>r DEF WriterEnd
    <3>3. NoneMissing'
      <4> SUFFICES ASSUME ~shutdown_event'
                   PROVE  uploaded' \cup {<<u.seq, u.chunk>> : u \in background_tasks'}
                             = Prefix(chunk_seq)
        BY <3>1 DEF NoneMissing, Prefix
      <4>1. uploaded \cup {<<u.seq, u.chunk>> : u \in background_tasks} = Prefix(chunk_seq)
        BY <1>2, <1>o, <3>1 DEF NoneMissing
      <4>2. CASE StartUpload(t)
        <5>1. /\ background_tasks' = (background_tasks \ {t}) \cup {[t EXCEPT !.started = TRUE]}
              /\ uploaded' = uploaded
          BY <3>1, <4>2 DEF StartUpload
        <5>2. /\ [t EXCEPT !.started = TRUE].seq = t.seq
              /\ [t EXCEPT !.started = TRUE].chunk = t.chunk
          BY <2>t DEF Task
        <5>3. {<<u.seq, u.chunk>> : u \in background_tasks'}
                 = {<<u.seq, u.chunk>> : u \in background_tasks}
          BY <5>1, <5>2
        <5> QED
          BY <4>1, <5>1, <5>3
      <4>3. CASE UploadDone(t)
        <5>1. background_tasks' = background_tasks \ {t}
              /\ uploaded' = uploaded \cup {<<t.seq, t.chunk>>}
          BY <4>3 DEF UploadDone
        <5> QED
          BY <4>1, <5>1
      <4> QED
        BY <2>12, <4>2, <4>3 DEF UploadFails
    <3> QED
      BY <3>2, <3>3
  <2>13. CASE PipelineEnds
    <3>1. /\ outcome' # "none" /\ background_tasks' = {} /\ UNCHANGED <<shutdown_event, to_write>>
          /\ reader' = IF reader \in Ended THEN reader ELSE "cancelled"
          /\ proc' = IF proc = "running" THEN "error" ELSE proc
          /\ outcome' = IF "raised" \in {reader, writer} /\ ~shutdown_event THEN "raised" ELSE "returned"
          /\ {reader, writer} \subseteq Ended \/ "raised" \in {reader, writer}
      BY <2>13 DEF PipelineEnds
    <3>2. PICK late \in SUBSET {t \in background_tasks : t.started} :
             uploaded' = uploaded \cup {<<t.seq, t.chunk>> : t \in late}
      BY <2>13 DEF PipelineEnds
    <3>3. NoneMissing' /\ WriterEnd'
      BY <3>1 DEF NoneMissing, WriterEnd
    <3>4. ReaderEnd'
      BY <3>1, <1>o DEF ReaderEnd, Ended
    <3>5. CleanReturn'
      <4> SUFFICES ASSUME outcome' = "returned", ~shutdown_event
                   PROVE  uploaded' = Prefix(Written)' /\ proc' \in {"ok", "sigpipe"}
        BY <3>1 DEF CleanReturn, Prefix
      <4>1. reader = "done" /\ writer = "done"
        BY <3>1 DEF Ended
      <4>2. background_tasks = {}
        BY <4>1, <1>o DEF WriterEnd
      <4>3. uploaded = Prefix(chunk_seq) /\ uploaded' = uploaded
        <5>1. {<<t.seq, t.chunk>> : t \in background_tasks} = {} /\ late = {}
          BY <4>2
        <5> QED
          BY <1>2, <3>2, <5>1, <1>o DEF NoneMissing
      <4>4. is_eof /\ ready = 0 /\ stdout = 0 /\ buffer = 0
        BY <4>1, <1>o DEF Ordered, ReaderPlace, EofDrained, Ended
      <4>5. chunk_seq = handed
        BY <4>1, <1>o DEF Ordered, WriterPlace, next
      <4>6. handed = Written
        <5>1. handed \in Nat
          BY <1>o DEF Ordered, Typed
        <5> QED
          BY <4>4, <5>1, <1>o DEF Ordered, Conserved, Written
      <4>7. Written' = Written
        BY <3>1 DEF Written
      <4>8. uploaded' = Prefix(Written')
        BY <4>3, <4>5, <4>6, <4>7
      <4>9. proc \in {"ok", "sigpipe"}
        BY <4>1, <1>o DEF ReaderEnd, Ordered, Typed
      <4> QED
        BY <3>1, <4>8, <4>9 DEF Prefix, Written
    <3> QED
      BY <3>3, <3>4, <3>5
  <2> QED
    BY <1>2, <2>1, <2>2, <2>3, <2>4, <2>5, <2>6, <2>7, <2>8, <2>9, <2>10, <2>11, <2>12, <2>13
       DEF Next, Source, Reader, Writer, Uploads
<1> QED
  BY <1>1, <1>2

\* A pipeline that returns with no failed chunk has stored all that the source wrote, and
\* the process of the source did not end in an error, however many uploads run at a time.
THEOREM CleanReturnStoresAll == Spec => []CleanReturn
<1>1. Init => Accounted
  BY AccountedInit
<1>2. Accounted /\ [Next]_vars => Accounted'
  BY AccountedStep
<1>3. Accounted => CleanReturn
  BY DEF Accounted
<1> QED
  BY <1>1, <1>2, <1>3, PTL DEF Spec

-----------------------------------------------------------------------------
(* What is stored, when there is one upload at a time.                      *)

\* At first nothing is stored.
LEMMA InOrderInit == Init => InOrder
<1> SUFFICES ASSUME Init PROVE InOrder
  OBVIOUS
<1>1. uploaded = Prefix(0) /\ uploaded = Prefix(chunk_seq) /\ 0 \in 0 .. Chunks
  BY ConstantsTyped DEF Init, Prefix, Constants
<1>2. OneUpload
  BY <1>1, FS_EmptySet DEF Init, OneUpload
<1>3. UploadedIsPrefix
  BY <1>1 DEF UploadedIsPrefix, Prefix
<1> QED
  BY <1>2, <1>3, AccountedInit DEF InOrder

\* With one upload at a time, every step keeps what is stored a prefix of the source:
\* the upload under way is of the chunk after it, and a failure starts no other.
LEMMA InOrderStep == MaxUploads = 1 => (InOrder /\ [Next]_vars => InOrder')
<1> SUFFICES ASSUME MaxUploads = 1, InOrder, [Next]_vars PROVE InOrder'
  OBVIOUS
<1> DEFINE Shape == OneUpload /\ UploadedIsPrefix
<1>o. Ordered /\ Shape
  BY DEF InOrder, Accounted
<1>g. SUFFICES Shape'
  BY AccountedStep DEF InOrder
<1>1. CASE outcome # "none" \/ UNCHANGED vars
  <2>1. UNCHANGED <<chunk_seq, background_tasks, uploaded, shutdown_event, outcome>>
    BY <1>1, <1>o, NothingMoves DEF vars, upload
  <2> QED
    BY <2>1, <1>o DEF OneUpload, UploadedIsPrefix, Prefix
<1>2. CASE outcome = "none" /\ Next
  <2>c. Chunks \in Nat
    BY ConstantsTyped DEF Constants
  <2>t. /\ chunk_seq \in Nat /\ chunk_seq <= Chunks /\ shutdown_event \in BOOLEAN
        /\ background_tasks \subseteq Task /\ outcome = "none"
        /\ writer = "acquire" => chunk = chunk_seq
    BY <1>2, <1>o DEF Ordered, Typed, WriterPlace
  \* Steps that leave the uploads alone.
  <2>1. CASE Source \/ Die \/ Reader \/ DrainStderr \/ Get \/ GetInterrupted \/ WriterEnds
    <3>1. UNCHANGED <<chunk_seq, background_tasks, uploaded, shutdown_event, outcome>>
      BY <2>1 DEF Source, WriteStdout, WriteStderr, Finish, Die, Reader, Read, Put, PutSentinel,
                  ReaderEnds, DrainStderr, Get, GetInterrupted, WriterEnds, upload
    <3> QED
      BY <3>1, <1>o DEF OneUpload, UploadedIsPrefix, Prefix
  <2>2. CASE Acquire
    <3>1. /\ writer = "acquire" /\ writer' = "get" /\ chunk_seq' = chunk_seq + 1
          /\ Cardinality(background_tasks) < 1
          /\ background_tasks' = background_tasks \cup
                {[seq |-> chunk_seq, chunk |-> chunk, started |-> FALSE]}
          /\ UNCHANGED <<uploaded, shutdown_event, outcome>>
      BY <2>2 DEF Acquire
    <3>2. background_tasks = {}
      <4>1. IsFiniteSet(background_tasks)
        BY <1>o DEF OneUpload
      <4>2. Cardinality(background_tasks) = 0
        BY <3>1, <4>1, FS_CardinalityType
      <4> QED
        BY <4>1, <4>2, FS_EmptySet
    <3>3. background_tasks' =
             {[seq |-> chunk_seq' - 1, chunk |-> chunk_seq' - 1, started |-> FALSE]}
      BY <3>1, <3>2, <2>t
    <3>4. ~shutdown_event' => chunk_seq' > 0 /\ uploaded' = Prefix(chunk_seq' - 1)
      <4>1. ~shutdown_event => uploaded = Prefix(chunk_seq)
        BY <3>2, <2>t, <1>o DEF OneUpload
      <4>2. chunk_seq' > 0 /\ chunk_seq' - 1 = chunk_seq
        BY <3>1, <2>t
      <4> QED
        BY <3>1, <4>1, <4>2
    <3>5. IsFiniteSet(background_tasks')
      BY <3>3, FS_Singleton
    <3>6. OneUpload'
      <4>1. \A t \in background_tasks' : ~t.started
        BY <3>3
      <4>2. \E b \in BOOLEAN : background_tasks' =
               {[seq |-> chunk_seq' - 1, chunk |-> chunk_seq' - 1, started |-> b]}
        BY <3>3
      <4> QED
        BY <3>4, <3>5, <4>1, <4>2 DEF OneUpload, Prefix
    <3>7. UploadedIsPrefix'
      BY <3>1, <1>o DEF UploadedIsPrefix
    <3> QED
      BY <3>6, <3>7
  <2>3. ASSUME NEW t \in background_tasks, StartUpload(t) \/ UploadDone(t) \/ UploadFails(t)
         PROVE  Shape'
    <3>1. UNCHANGED <<chunk_seq, outcome>>
      BY <2>3 DEF StartUpload, UploadDone, UploadFails, Uploading
    <3>2. /\ IsFiniteSet(background_tasks)
          /\ shutdown_event => \A u \in background_tasks : ~u.started
          /\ t.started \in BOOLEAN
      BY <2>t, <1>o DEF OneUpload, Task
    <3>3. IsFiniteSet(background_tasks \ {t})
      BY <3>2, FS_RemoveElement
    <3>4. CASE StartUpload(t) /\ shutdown_event
      <4>1. background_tasks' = background_tasks \ {t} /\ UNCHANGED <<writer, uploaded, shutdown_event>>
        BY <3>4 DEF StartUpload
      <4>2. OneUpload'
        BY <3>2, <3>3, <3>4, <4>1 DEF OneUpload
      <4>3. UploadedIsPrefix'
        BY <4>1, <1>o DEF UploadedIsPrefix
      <4> QED
        BY <4>2, <4>3
    <3>5. CASE ~shutdown_event
      <4>1. chunk_seq > 0 /\ uploaded = Prefix(chunk_seq - 1)
        BY <3>5, <2>t, <1>o DEF OneUpload
      <4>2. PICK b \in BOOLEAN : background_tasks =
               {[seq |-> chunk_seq - 1, chunk |-> chunk_seq - 1, started |-> b]}
        BY <3>5, <2>t, <1>o DEF OneUpload
      <4>3. /\ t = [seq |-> chunk_seq - 1, chunk |-> chunk_seq - 1, started |-> b]
            /\ background_tasks = {t}
        BY <4>2
      <4>4. CASE StartUpload(t)
        <5>1. /\ background_tasks' = {[t EXCEPT !.started = TRUE]}
              /\ UNCHANGED <<writer, uploaded, shutdown_event>>
          BY <3>5, <4>3, <4>4 DEF StartUpload
        <5>2. background_tasks' =
                 {[seq |-> chunk_seq' - 1, chunk |-> chunk_seq' - 1, started |-> TRUE]}
          BY <3>1, <4>3, <5>1
        <5>3. IsFiniteSet(background_tasks')
          BY <5>2, FS_Singleton
        <5>4. ~shutdown_event' /\ chunk_seq' > 0 /\ uploaded' = Prefix(chunk_seq' - 1)
          BY <3>1, <3>5, <4>1, <5>1
        <5>5. OneUpload'
          BY <5>2, <5>3, <5>4 DEF OneUpload, Prefix
        <5>6. UploadedIsPrefix'
          BY <5>1, <1>o DEF UploadedIsPrefix
        <5> QED
          BY <5>5, <5>6
      <4>5. CASE UploadDone(t)
        <5>1. /\ background_tasks' = {}
              /\ uploaded' = uploaded \cup {<<chunk_seq - 1, chunk_seq - 1>>}
              /\ UNCHANGED shutdown_event
          BY <4>3, <4>5 DEF UploadDone
        <5>2. uploaded' = Prefix(chunk_seq)
          BY <2>t, <4>1, <5>1, PrefixGrows
        <5>3. OneUpload'
          BY <3>1, <3>5, <5>1, <5>2, FS_EmptySet DEF OneUpload, Prefix
        <5>4. UploadedIsPrefix'
          <6>1. chunk_seq \in 0 .. Chunks
            BY <2>c, <2>t
          <6> QED
            BY <5>2, <6>1 DEF UploadedIsPrefix, Prefix
        <5> QED
          BY <5>3, <5>4
      <4>6. CASE UploadFails(t)
        <5>1. background_tasks' = {} /\ shutdown_event' /\ UNCHANGED uploaded
          BY <4>3, <4>6 DEF UploadFails
        <5>2. OneUpload'
          BY <5>1, FS_EmptySet DEF OneUpload
        <5>3. UploadedIsPrefix'
          BY <5>1, <1>o DEF UploadedIsPrefix
        <5> QED
          BY <5>2, <5>3
      <4> QED
        BY <2>3, <4>4, <4>5, <4>6
    <3>6. ~t.started \/ ~shutdown_event
      BY <3>2
    <3> QED
      BY <2>3, <3>4, <3>5, <3>6 DEF UploadDone, UploadFails
  <2>4. CASE PipelineEnds
    <3>1. /\ outcome' # "none" /\ background_tasks' = {} /\ UNCHANGED <<chunk_seq, shutdown_event>>
      BY <2>4 DEF PipelineEnds
    <3>2. PICK late \in SUBSET {t \in background_tasks : t.started} :
             uploaded' = uploaded \cup {<<t.seq, t.chunk>> : t \in late}
      BY <2>4 DEF PipelineEnds
    <3>3. OneUpload'
      BY <3>1, FS_EmptySet DEF OneUpload
    <3>4. late = {} => uploaded' = uploaded
      BY <3>2
    <3>5. UploadedIsPrefix'
      <4>1. CASE late = {}
        BY <3>4, <4>1, <1>o DEF UploadedIsPrefix
      <4>2. CASE late # {}
        <5>1. ~shutdown_event /\ background_tasks # {}
          BY <4>2, <1>o DEF OneUpload
        <5>2. chunk_seq > 0 /\ uploaded = Prefix(chunk_seq - 1)
          BY <5>1, <2>t, <1>o DEF OneUpload
        <5>3. PICK b \in BOOLEAN : background_tasks =
                 {[seq |-> chunk_seq - 1, chunk |-> chunk_seq - 1, started |-> b]}
          BY <5>1, <2>t, <1>o DEF OneUpload
        <5>4. {<<t.seq, t.chunk>> : t \in late} = {<<chunk_seq - 1, chunk_seq - 1>>}
          BY <4>2, <5>3
        <5>5. uploaded' = Prefix(chunk_seq) /\ chunk_seq \in 0 .. Chunks
          BY <3>2, <5>2, <5>4, <2>c, <2>t, PrefixGrows
        <5> QED
          BY <5>5 DEF UploadedIsPrefix, Prefix
      <4> QED
        BY <4>1, <4>2
    <3> QED
      BY <3>3, <3>5
  <2> QED
    BY <1>2, <2>1, <2>2, <2>3, <2>4 DEF Next, Writer, Uploads
<1> QED
  BY <1>1, <1>2

\* With one upload at a time what is stored is always a prefix of the source, each chunk
\* under its own number, however the tasks of the event loop interleave and fail.
THEOREM StoredInOrder == MaxUploads = 1 => (Spec => []UploadedIsPrefix)
<1> SUFFICES ASSUME MaxUploads = 1 PROVE Spec => []UploadedIsPrefix
  OBVIOUS
<1>1. Init => InOrder
  BY InOrderInit
<1>2. InOrder /\ [Next]_vars => InOrder'
  BY InOrderStep
<1>3. InOrder => UploadedIsPrefix
  BY DEF InOrder
<1> QED
  BY <1>1, <1>2, <1>3, PTL DEF Spec

-----------------------------------------------------------------------------
(* The engine implements module Pipeline.                                  *)

\* At first the abstract pipeline has nothing either.
LEMMA PipelineInit == Init => Abstract!Init
<1> SUFFICES ASSUME Init PROVE Abstract!Init
  OBVIOUS
<1>1. Cardinality(uploaded) = 0
  BY FS_EmptySet DEF Init
<1>2. Written = 0
  BY ConstantsTyped DEF Init, Written, Constants
<1> QED
  BY <1>1, <1>2 DEF Init, Abstract!Init

\* Each step of the engine is one of the abstract pipeline or changes nothing there: an
\* upload that ends is Send or Break, the end of streaming_pipeline Return or Raise.
LEMMA PipelineStep ==
    MaxUploads = 1 => (InOrder /\ [Next]_vars => [Abstract!Next]_(Abstract!vars))
<1> SUFFICES ASSUME MaxUploads = 1, InOrder, [Next]_vars PROVE [Abstract!Next]_(Abstract!vars)
  OBVIOUS
<1> DEFINE sent == Cardinality(uploaded)
<1>o. Ordered /\ OneUpload /\ WriterEnd
  BY DEF InOrder, Accounted
<1>t. /\ chunk_seq \in Nat /\ shutdown_event \in BOOLEAN /\ background_tasks \subseteq Task
      /\ Chunks \in Nat /\ to_write \in Nat /\ to_write <= Chunks /\ Written \in Nat
  BY <1>o, ConstantsTyped DEF Ordered, Typed, Constants, Written
<1>w. chunk_seq <= Written
  <2>1. chunk_seq <= handed
    BY <1>o, <1>t DEF Ordered, WriterPlace, next, Typed
  <2>2. handed \in Nat /\ ready \in Nat /\ buffer \in Nat /\ stdout \in Nat
    BY <1>o DEF Ordered, Typed
  <2>3. handed + ready + buffer + stdout = Written
    BY <1>o DEF Ordered, Conserved, Written
  <2> QED
    BY <1>t, <2>1, <2>2, <2>3
\* What is stored before a failure.
<1>s. ~shutdown_event /\ outcome = "none" =>
         \/ background_tasks = {} /\ uploaded = Prefix(chunk_seq) /\ sent = chunk_seq
         \/ /\ chunk_seq > 0 /\ uploaded = Prefix(chunk_seq - 1) /\ sent = chunk_seq - 1
            /\ \E b \in BOOLEAN : background_tasks =
                  {[seq |-> chunk_seq - 1, chunk |-> chunk_seq - 1, started |-> b]}
  BY <1>o, <1>t, PrefixCardinality DEF OneUpload
<1>k. UNCHANGED <<to_write, uploaded, shutdown_event, outcome>> => UNCHANGED Abstract!vars
  BY DEF Abstract!vars, Written
<1>1. CASE UNCHANGED vars
  BY <1>1, <1>k DEF vars, source, upload
<1>2. CASE WriteStdout
  <2>1. /\ to_write > 0 /\ to_write' = to_write - 1
        /\ UNCHANGED <<uploaded, shutdown_event, outcome>>
    BY <1>2 DEF WriteStdout, upload
  <2>2. Written < Chunks /\ Written' = Written + 1
    BY <1>t, <2>1 DEF Written
  <2>3. Abstract!Write
    BY <2>1, <2>2 DEF Abstract!Write
  <2> QED
    BY <2>3 DEF Abstract!Next
<1>3. CASE \/ WriteStderr \/ Finish \/ Die \/ Reader \/ DrainStderr \/ Get \/ GetInterrupted
           \/ Acquire \/ WriterEnds
  <2>1. UNCHANGED <<to_write, uploaded, shutdown_event, outcome>>
    BY <1>3 DEF WriteStderr, Finish, Die, Reader, Read, Put, PutSentinel, ReaderEnds, DrainStderr,
                Get, GetInterrupted, Acquire, WriterEnds, source, upload
  <2> QED
    BY <1>k, <2>1
<1>4. ASSUME NEW t \in background_tasks, StartUpload(t) \/ UploadDone(t) \/ UploadFails(t)
      PROVE  [Abstract!Next]_(Abstract!vars)
  <2>1. UNCHANGED <<to_write, outcome>> /\ outcome = "none"
    BY <1>4, <1>o DEF StartUpload, UploadDone, UploadFails, Uploading, source, Ordered, Stopped
  <2>2. CASE StartUpload(t)
    BY <1>k, <2>1, <2>2 DEF StartUpload
  <2>3. CASE UploadDone(t)
    <3>1. ~shutdown_event
      BY <2>3, <1>o DEF UploadDone, OneUpload
    <3>2. chunk_seq > 0 /\ uploaded = Prefix(chunk_seq - 1) /\ sent = chunk_seq - 1
      BY <3>1, <2>1, <1>s
    <3>3. t.seq = chunk_seq - 1 /\ t.chunk = chunk_seq - 1
      BY <3>1, <2>1, <1>s
    <3>4. uploaded' = Prefix(chunk_seq)
      BY <2>3, <3>2, <3>3, <1>t, PrefixGrows DEF UploadDone
    <3>5. sent' = sent + 1
      <4>1. Cardinality(uploaded') = chunk_seq
        BY <3>4, <1>t, PrefixCardinality
      <4> QED
        BY <4>1, <3>2, <1>t
    <3>6. sent < Written
      BY <3>2, <1>t, <1>w
    <3>7. Abstract!Send
      BY <2>1, <2>3, <3>1, <3>5, <3>6 DEF Abstract!Send, UploadDone, Written
    <3> QED
      BY <3>7 DEF Abstract!Next
  <2>4. CASE UploadFails(t)
    <3>1. Abstract!Break
      BY <2>1, <2>4 DEF UploadFails, Abstract!Break, Written
    <3> QED
      BY <3>1 DEF Abstract!Next
  <2> QED
    BY <1>4, <2>2, <2>3, <2>4
<1>5. CASE PipelineEnds
  <2>1. /\ outcome = "none" /\ UNCHANGED <<to_write, shutdown_event>>
        /\ outcome' = IF "raised" \in {reader, writer} /\ ~shutdown_event THEN "raised" ELSE "returned"
        /\ {reader, writer} \subseteq Ended \/ "raised" \in {reader, writer}
    BY <1>5 DEF PipelineEnds
  <2>2. PICK late \in SUBSET {t \in background_tasks : t.started} :
           uploaded' = uploaded \cup {<<t.seq, t.chunk>> : t \in late}
    BY <1>5 DEF PipelineEnds
  <2>3. Written' = Written
    BY <2>1 DEF Written
  <2>4. CASE shutdown_event
    <3>1. late = {}
      BY <2>4, <1>o DEF OneUpload
    <3>2. uploaded' = uploaded
      BY <2>2, <3>1
    <3>3. Abstract!Return
      BY <2>1, <2>3, <2>4, <3>2 DEF Abstract!Return
    <3> QED
      BY <3>3 DEF Abstract!Next
  <2>5. CASE ~shutdown_event /\ "raised" \notin {reader, writer}
    <3>1. InOrder' /\ outcome' = "returned" /\ ~shutdown_event'
      BY <2>1, <2>5, InOrderStep
    <3>2. reader = "done" /\ writer = "done"
      BY <2>1, <2>5 DEF Ended
    <3>3. background_tasks = {} /\ late = {}
      BY <3>2, <1>o DEF WriterEnd
    <3>4. uploaded' = uploaded
      BY <2>2, <3>3
    <3>5. uploaded' = Prefix(Written)
      BY <2>3, <3>1 DEF InOrder, Accounted, CleanReturn, Prefix, Written
    <3>6. sent = Written
      BY <1>t, <3>4, <3>5, PrefixCardinality
    <3>7. Abstract!Return
      BY <2>1, <2>3, <3>1, <3>4, <3>6 DEF Abstract!Return
    <3> QED
      BY <3>7 DEF Abstract!Next
  <2>6. CASE ~shutdown_event /\ "raised" \in {reader, writer}
    <3>1. sent \in Nat /\ sent <= Written
      BY <1>s, <1>t, <1>w, <2>1, <2>6
    <3>2. sent' \in sent .. Written /\ sent' <= sent + 1
      <4>1. CASE late = {}
        <5>1. uploaded' = uploaded
          BY <2>2, <4>1
        <5> QED
          BY <3>1, <5>1, <1>t
      <4>2. CASE late # {}
        <5>1. background_tasks # {}
          BY <4>2
        <5>2. chunk_seq > 0 /\ uploaded = Prefix(chunk_seq - 1) /\ sent = chunk_seq - 1
          BY <5>1, <2>1, <2>6, <1>s
        <5>3. PICK b \in BOOLEAN : background_tasks =
                 {[seq |-> chunk_seq - 1, chunk |-> chunk_seq - 1, started |-> b]}
          BY <5>1, <2>1, <2>6, <1>s
        <5>4. {<<t.seq, t.chunk>> : t \in late} = {<<chunk_seq - 1, chunk_seq - 1>>}
          BY <4>2, <5>3
        <5>5. uploaded' = Prefix(chunk_seq)
          BY <2>2, <5>2, <5>4, <1>t, PrefixGrows
        <5>6. Cardinality(uploaded') = chunk_seq
          BY <5>5, <1>t, PrefixCardinality
        <5> QED
          BY <5>2, <5>6, <1>t, <1>w
      <4> QED
        BY <4>1, <4>2
    <3>3. Abstract!Raise
      BY <2>1, <2>3, <2>6, <3>2 DEF Abstract!Raise
    <3> QED
      BY <3>3 DEF Abstract!Next
  <2> QED
    BY <2>4, <2>5, <2>6
<1> QED
  BY <1>1, <1>2, <1>3, <1>4, <1>5 DEF Next, Source, Writer, Uploads

\* The streaming engine stores chunks as BackupPurge takes it to: one after the other, none
\* after the first failure, all of them before a clean end.
THEOREM PipelineImplemented == MaxUploads = 1 => (Spec => ImplementsPipeline)
<1> SUFFICES ASSUME MaxUploads = 1 PROVE Spec => ImplementsPipeline
  OBVIOUS
<1>1. Init => InOrder /\ Abstract!Init
  BY InOrderInit, PipelineInit
<1>2. InOrder /\ [Next]_vars => InOrder'
  BY InOrderStep
<1>3. InOrder /\ [Next]_vars => [Abstract!Next]_(Abstract!vars)
  BY PipelineStep
<1> QED
  BY <1>1, <1>2, <1>3, PTL DEF Spec, ImplementsPipeline, Abstract!Spec
=============================================================================
