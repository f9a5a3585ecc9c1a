------------------------------- MODULE FastCDC -------------------------------
(***************************************************************************)
(* FastCDCStreamer of fastcdc.py: the source comes in pieces of any length,  *)
(* and the cutter keeps the tail it cannot cut yet with the fingerprint and  *)
(* the offset of its scan.  Sizes, masks and the width of the fingerprint    *)
(* are constants; a step is one feed or one turn of the loop in it, for feed *)
(* is a generator and hands out one chunk at a time.                        *)
(***************************************************************************)
EXTENDS Integers, Sequences, SequencesExt, FiniteSetsExt

CONSTANTS
    MIN_CHUNK_SIZE, AVG_CHUNK_SIZE, MAX_CHUNK_SIZE,
    StrictBits, LaxBits,   \* the ones of MASK_STRICT and MASK_LAX
    Width,                 \* of the fingerprint, in bits
    GEAR_TABLE,
    MaxInput               \* bound on the length of the source

Byte == DOMAIN GEAR_TABLE

ASSUME CutterAssumption ==
    /\ {MIN_CHUNK_SIZE, AVG_CHUNK_SIZE, MAX_CHUNK_SIZE, StrictBits, LaxBits, Width} \subseteq Nat
    /\ MaxInput \in Nat
    /\ 0 < MIN_CHUNK_SIZE /\ MIN_CHUNK_SIZE < AVG_CHUNK_SIZE /\ AVG_CHUNK_SIZE < MAX_CHUNK_SIZE
    /\ LaxBits < StrictBits /\ StrictBits <= Width
    /\ GEAR_TABLE \in [Byte -> 0 .. 2^Width - 1]

\* What exponentiation is: the provers know nothing of it.
ASSUME PowersOfTwo ==
    2^0 = 1 /\ \A n \in 0 .. MAX_CHUNK_SIZE + Width : 2^(n + 1) = 2 * 2^n

VARIABLES
    input,           \* all that the source writes
    fed,             \* how much of it has been fed
    is_eof,          \* whether the last feed said so
    looping,         \* whether a feed is in its loop
    buffer,
    scanned_offset,
    fingerprint,
    chunks           \* handed out, in order

vars == <<input, fed, is_eof, looping, buffer, scanned_offset, fingerprint, chunks>>

TypeOK ==
    /\ input \in Seq(Byte) /\ Len(input) <= MaxInput
    /\ fed \in 0 .. Len(input)
    /\ {is_eof, looping} \subseteq BOOLEAN
    /\ buffer \in Seq(Byte)
    /\ scanned_offset \in 0 .. Len(buffer)
    /\ fingerprint \in 0 .. 2^Width - 1
    /\ chunks \in Seq(Seq(Byte) \ {<<>>})

Init ==
    /\ input \in BoundedSeq(Byte, MaxInput)
    /\ fed = 0 /\ is_eof = FALSE /\ looping = FALSE
    /\ buffer = <<>> /\ scanned_offset = 0 /\ fingerprint = 0
    /\ chunks = <<>>

Feed(n, eof) ==
    /\ ~looping /\ ~is_eof
    /\ fed + n <= Len(input)
    /\ eof => fed + n = Len(input)
    /\ buffer' = buffer \o SubSeq(input, fed + 1, fed + n)
    /\ fed' = fed + n
    /\ is_eof' = eof
    /\ looping' = TRUE
    /\ UNCHANGED <<input, scanned_offset, fingerprint, chunks>>

-----------------------------------------------------------------------------
(* find_fastcdc_boundary_rolling.  Offsets count from 0 as in the code.      *)

\* The fingerprint after byte i, for a scan that begins at start.
Rolled(buf, start, fp) ==
    LET F[i \in start - 1 .. Len(buf) - 1] ==
          IF i < start THEN fp ELSE (2 * F[i - 1] + GEAR_TABLE[buf[i + 1]]) % 2^Width
    IN  F

MaskBits(i) == IF i < AVG_CHUNK_SIZE THEN StrictBits ELSE LaxBits

Boundary(boundary, fp, scanned) ==
    [boundary |-> boundary, fingerprint |-> fp, scanned |-> scanned]

\* The scan goes on to the end of the buffer.
SlipScanLimit(buf) == Len(buf)

ScanLimit(buf) == Min({Len(buf), MAX_CHUNK_SIZE})

\* The scan does not remember how far it came.
SlipFindBoundary(buf, start_offset, fp, eof) ==
    LET scan_limit == Min({Len(buf), MAX_CHUNK_SIZE})
        F    == Rolled(buf, MIN_CHUNK_SIZE, fp)
        hits == {i \in MIN_CHUNK_SIZE .. scan_limit - 1 : F[i] % 2^MaskBits(i) = 0}
    IN  CASE Len(buf) < MIN_CHUNK_SIZE -> Boundary(IF eof THEN Len(buf) ELSE 0, fp, 0)
          [] Len(buf) >= MIN_CHUNK_SIZE /\ hits # {} -> Boundary(Min(hits) + 1, 0, 0)
          [] Len(buf) >= MAX_CHUNK_SIZE /\ hits = {} -> Boundary(MAX_CHUNK_SIZE, 0, 0)
          [] OTHER -> Boundary(IF eof THEN Len(buf) ELSE 0, F[scan_limit - 1], 0)

FindBoundary(buf, start_offset, fp, eof) ==
    LET scan_limit == ScanLimit(buf)
        start_scan == Max({MIN_CHUNK_SIZE, start_offset})
        F    == Rolled(buf, start_scan, fp)
        hits == {i \in start_scan .. scan_limit - 1 : F[i] % 2^MaskBits(i) = 0}
    IN  CASE Len(buf) < MIN_CHUNK_SIZE -> Boundary(IF eof THEN Len(buf) ELSE 0, fp, 0)
          [] Len(buf) >= MIN_CHUNK_SIZE /\ hits # {} ->
               Boundary(Min(hits) + 1, F[Min(hits)], Min(hits) + 1)
          [] Len(buf) >= MAX_CHUNK_SIZE /\ hits = {} ->
               Boundary(MAX_CHUNK_SIZE, F[scan_limit - 1], MAX_CHUNK_SIZE)
          [] Len(buf) \in MIN_CHUNK_SIZE .. MAX_CHUNK_SIZE - 1 /\ hits = {} ->
               Boundary(IF eof THEN Len(buf) ELSE 0, F[scan_limit - 1], scan_limit)

\* The offset of the scan outlives the chunk.
SlipCut(boundary) ==
    /\ chunks' = Append(chunks, SubSeq(buffer, 1, boundary))
    /\ buffer' = SubSeq(buffer, boundary + 1, Len(buffer))
    /\ scanned_offset' = boundary
    /\ fingerprint' = 0
    /\ looping' = (is_eof \/ Len(buffer') >= MIN_CHUNK_SIZE)

\* A feed hands out one chunk at most.
SlipCutOnce(boundary) ==
    /\ chunks' = Append(chunks, SubSeq(buffer, 1, boundary))
    /\ buffer' = SubSeq(buffer, boundary + 1, Len(buffer))
    /\ scanned_offset' = 0
    /\ fingerprint' = 0
    /\ looping' = is_eof

Cut(boundary) ==
    /\ chunks' = Append(chunks, SubSeq(buffer, 1, boundary))
    /\ buffer' = SubSeq(buffer, boundary + 1, Len(buffer))
    /\ scanned_offset' = 0
    /\ fingerprint' = 0
    /\ looping' = (is_eof \/ Len(buffer') >= MIN_CHUNK_SIZE)

\* One turn of the loop of feed.
Turn ==
    LET found == FindBoundary(buffer, scanned_offset, fingerprint, is_eof)
    IN  /\ looping
        /\ \/ /\ found.boundary = 0
              /\ scanned_offset' = found.scanned
              /\ fingerprint' = found.fingerprint
              /\ looping' = FALSE
              /\ UNCHANGED <<buffer, chunks>>
           \/ /\ found.boundary > 0
              /\ Cut(found.boundary)
        /\ UNCHANGED <<input, fed, is_eof>>

Next == Turn \/ \E n \in 0 .. MaxInput, eof \in BOOLEAN : Feed(n, eof)

Spec == Init /\ [][Next]_vars

-----------------------------------------------------------------------------
(* The chunking of a source that is there as a whole.                       *)

\* The fingerprint of the bytes from offset MIN_CHUNK_SIZE to offset i.
Gear(s, i) ==
    LET Sum[j \in MIN_CHUNK_SIZE - 1 .. i] ==
          IF j < MIN_CHUNK_SIZE THEN 0 ELSE Sum[j - 1] + GEAR_TABLE[s[j + 1]] * 2^(i - j)
    IN  Sum[i]

FirstLength(s) ==
    LET limit   == Min({Len(s), MAX_CHUNK_SIZE})
        borders == {i \in MIN_CHUNK_SIZE .. limit - 1 : Gear(s, i) % 2^MaskBits(i) = 0}
    IN  IF borders = {} THEN limit ELSE Min(borders) + 1

\* The chunks of what follows the first k bytes.
ChunkingFrom(s) ==
    LET From[k \in 0 .. Len(s)] ==
          IF k = Len(s) THEN <<>>
          ELSE LET n == FirstLength(SubSeq(s, k + 1, Len(s)))
               IN  <<SubSeq(s, k + 1, k + n)>> \o From[k + n]
    IN  From

Chunking(s) == ChunkingFrom(s)[0]

\* The chunks depend on the content of the source alone, not on the pieces in
\* which the pipe delivered it: what is handed out is always the beginning of the
\* chunking of the whole source, and all of it in the end.
SplitIndependent ==
    /\ IsPrefix(chunks, Chunking(input))
    /\ is_eof /\ ~looping => chunks = Chunking(input)

\* Between two feeds less than the longest chunk is kept in memory.
BufferBounded == ~looping => Len(buffer) < MAX_CHUNK_SIZE

\* No chunk is longer than the longest, and none is shorter than the shortest but the
\* last one of the source.
ChunkLengths ==
    \A i \in 1 .. Len(chunks) :
        /\ Len(chunks[i]) <= MAX_CHUNK_SIZE
        /\ Len(chunks[i]) >= MIN_CHUNK_SIZE \/ (i = Len(chunks) /\ is_eof /\ buffer = <<>>)
=============================================================================
