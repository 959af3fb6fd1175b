----------------------------- MODULE BoundedLog -----------------------------
(***************************************************************************)
(* storage_guard/bounded_log.py: it reads a stream to its end and keeps    *)
(* the first HeadLimit and the last TailLimit bytes.  A byte is its place  *)
(* in the stream, so the log shows which bytes survived and in what order. *)
(***************************************************************************)
EXTENDS Naturals, Sequences

CONSTANTS HeadLimit, TailLimit, ChunkLimit

ASSUME LimitsAssumption ==
    HeadLimit \in Nat /\ TailLimit \in Nat /\ ChunkLimit \in Nat \ {0}

VARIABLES total,    \* total_bytes read
          head,     \* head_bytes written
          tail,     \* the rolling tail
          log,      \* the output file
          omitted,  \* omitted_bytes of the metadata
          lphase    \* "off", "reading", "done" or "killed"

logVars == <<total, head, tail, log, omitted, lphase>>

Marker == 0   \* the "[storage-guard truncated ...]" line

LogInit ==
    /\ total = 0 /\ head = 0 /\ tail = <<>> /\ log = <<>> /\ omitted = 0
    /\ lphase = "off"

MutantDropPerChunk(t, data, limit) ==
    IF limit = 0 THEN t
    ELSE IF Len(data) >= limit
         THEN SubSeq(data, Len(data) - limit + 1, Len(data))
    ELSE IF Len(t) + Len(data) > limit
         THEN SubSeq(t, Len(data) + 1, Len(t)) \o data
         ELSE t \o data

UpdateTail(t, data, limit) ==
    IF limit = 0 THEN t
    ELSE IF Len(data) >= limit
         THEN SubSeq(data, Len(data) - limit + 1, Len(data))
    ELSE IF Len(t) + Len(data) > limit
         THEN SubSeq(t, Len(t) + Len(data) - limit + 1, Len(t)) \o data
         ELSE t \o data

Bytes(a, b) == [i \in 1..(b - a) |-> a + i]   \* the bytes after a, up to b

HeadRoom(n) == IF n <= HeadLimit - head THEN n ELSE HeadLimit - head

OpenLog == lphase = "off" /\ lphase' = "reading"
           /\ UNCHANGED <<total, head, tail, log, omitted>>

(* One chunk of n bytes: what fits goes to the head, the rest to the tail. *)
ReadChunk(n) ==
    /\ lphase = "reading"
    /\ total' = total + n
    /\ head' = head + HeadRoom(n)
    /\ log' = log \o Bytes(total, total + HeadRoom(n))
    /\ tail' = IF HeadRoom(n) < n
               THEN UpdateTail(tail, Bytes(total + HeadRoom(n), total + n), TailLimit)
               ELSE tail
    /\ UNCHANGED <<omitted, lphase>>

(* End of the stream: marker, tail and metadata.                           *)
EndLog ==
    /\ lphase = "reading"
    /\ omitted' = total - head - Len(tail)
    /\ log' = log \o (IF total > head + Len(tail) THEN <<Marker>> ELSE <<>>) \o tail
    /\ lphase' = "done"
    /\ UNCHANGED <<total, head, tail>>

KillLog == lphase = "reading" /\ lphase' = "killed"
           /\ UNCHANGED <<total, head, tail, log, omitted>>

LogNext == \/ OpenLog \/ EndLog \/ KillLog
           \/ \E n \in 1..ChunkLimit : ReadChunk(n)

LogSpec == LogInit /\ [][LogNext]_logVars
-----------------------------------------------------------------------------
Kept == IF total <= HeadLimit THEN 0
        ELSE IF total - HeadLimit <= TailLimit THEN total - HeadLimit
        ELSE TailLimit

(* However the stream is cut into chunks, a finished log holds the first   *)
(* HeadLimit bytes and the last TailLimit of the others, in order, each at *)
(* most once, with a marker exactly where bytes are missing and their      *)
(* number in the metadata (lines 49-92).                                   *)
LogExact ==
    lphase = "done" =>
        /\ omitted = total - head - Kept
        /\ head = IF total <= HeadLimit THEN total ELSE HeadLimit
        /\ log = Bytes(0, head) \o (IF omitted > 0 THEN <<Marker>> ELSE <<>>)
                 \o Bytes(total - Kept, total)
=============================================================================
