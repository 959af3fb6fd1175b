------------------------ MODULE BenchmarkRun_proofs -------------------------
(***************************************************************************)
(* Theorems about a benchmark run and the two programs it relies on: the   *)
(* bounded log is exact for every limit and every way in which the stream  *)
(* is cut into chunks, the replayed journal is what the engine counted,    *)
(* whenever it died, and so a run reported as passed is complete.          *)
(***************************************************************************)
EXTENDS BenchmarkRun, SequenceTheorems, TLAPS

(* While it reads, the log is the head and the tail the last bytes after   *)
(* it, Kept of them.                                                       *)
LogInv ==
  /\ total \in Nat /\ lphase \in {"off", "reading", "done", "killed"}
  /\ lphase = "off" => total = 0
  /\ head = IF total <= HeadLimit THEN total ELSE HeadLimit
  /\ tail = Bytes(total - Kept, total)
  /\ lphase # "done" => log = Bytes(0, head)
  /\ LogExact

(* A stretch of the stream as a sequence.                                  *)
LEMMA BytesSeq ==
  ASSUME NEW a \in Nat, NEW b \in Nat, a <= b
  PROVE  /\ Bytes(a, b) \in Seq(Nat) /\ Len(Bytes(a, b)) = b - a
         /\ DOMAIN Bytes(a, b) = 1 .. b - a
         /\ \A i \in 1 .. b - a : Bytes(a, b)[i] = a + i
  BY DEF Bytes

(* Two stretches that meet.                                                *)
LEMMA BytesJoin ==
  ASSUME NEW a \in Nat, NEW b \in Nat, NEW c \in Nat, a <= b, b <= c
  PROVE  Bytes(a, b) \o Bytes(b, c) = Bytes(a, c)
<1> DEFINE r == Bytes(a, b)
           u == Bytes(b, c)
           s == r \o u
           t == Bytes(a, c)
<1>0. a <= c
  OBVIOUS
<1>1. r \in Seq(Nat) /\ Len(r) = b - a /\ \A i \in 1 .. b - a : r[i] = a + i
  BY BytesSeq, Zenon
<1>2. u \in Seq(Nat) /\ Len(u) = c - b /\ \A i \in 1 .. c - b : u[i] = b + i
  BY BytesSeq, Zenon
<1>3. t \in Seq(Nat) /\ Len(t) = c - a /\ \A i \in 1 .. c - a : t[i] = a + i
  BY <1>0, BytesSeq, Zenon
<1> HIDE DEF r, u, t
<1>4. /\ s \in Seq(Nat) /\ Len(s) = Len(r) + Len(u)
      /\ \A i \in 1 .. Len(r) + Len(u) :
           s[i] = IF i <= Len(r) THEN r[i] ELSE u[i - Len(r)]
  BY <1>1, <1>2, ConcatProperties, Zenon
<1> HIDE DEF s
<1>5. Len(s) = Len(t)
  BY <1>1, <1>2, <1>3, <1>4
<1>6. ASSUME NEW i \in 1 .. Len(s) PROVE s[i] = t[i]
  <2>1. /\ s[i] = IF i <= b - a THEN r[i] ELSE u[i - (b - a)]
        /\ i \in 1 .. c - a
    BY <1>1, <1>2, <1>4
  <2>2. t[i] = a + i
    BY <2>1, <1>3
  <2>3. CASE i <= b - a
    BY <2>1, <2>2, <2>3, <1>1
  <2>4. CASE ~(i <= b - a)
    <3> DEFINE j == i - (b - a)
    <3>1. j \in 1 .. c - b /\ b + j = a + i
      BY <2>1, <2>4
    <3>2. u[j] = b + j
      <4> HIDE DEF j
      <4> QED
        BY <3>1, <1>2
    <3> QED
      BY <2>1, <2>2, <2>4, <3>1, <3>2
  <2> QED
    BY <2>3, <2>4
<1>7. s = t
  BY <1>3, <1>4, <1>5, <1>6, SeqEqual
<1> QED
  BY <1>7 DEF r, u, s, t

(* The end of a stretch.                                                   *)
LEMMA BytesEnd ==
  ASSUME NEW a \in Nat, NEW b \in Nat, a <= b, NEW k \in 0 .. b - a
  PROVE  SubSeq(Bytes(a, b), k + 1, b - a) = Bytes(a + k, b)
<1> DEFINE r == Bytes(a, b)
           m == k + 1
           n == b - a
           s == SubSeq(r, m, n)
           t == Bytes(a + k, b)
<1>0. a + k <= b /\ a + k \in Nat /\ m \in Int /\ n \in Int
  OBVIOUS
<1>1. r \in Seq(Nat) /\ Len(r) = b - a /\ \A i \in 1 .. b - a : r[i] = a + i
  BY BytesSeq, Zenon
<1>2. t \in Seq(Nat) /\ Len(t) = b - (a + k) /\ \A i \in 1 .. b - (a + k) : t[i] = (a + k) + i
  BY <1>0, BytesSeq, Zenon
<1> HIDE DEF r, t
<1>3. \A i \in m .. n : r[i] \in Nat
  BY <1>1
<1>4. /\ s \in Seq(Nat)
      /\ Len(s) = IF m <= n THEN n - m + 1 ELSE 0
      /\ \A i \in 1 .. n - m + 1 : s[i] = r[m + i - 1]
  <2>1. m \in Int /\ n \in Int
    BY <1>0
  <2> HIDE DEF m, n
  <2>2. \A S, q : \A mm, nn \in Int : (\A i \in mm .. nn : q[i] \in S) =>
      /\ SubSeq(q, mm, nn) \in Seq(S)
      /\ Len(SubSeq(q, mm, nn)) = IF mm <= nn THEN nn - mm + 1 ELSE 0
      /\ \A i \in 1 .. nn - mm + 1 : SubSeq(q, mm, nn)[i] = q[mm + i - 1]
    BY SubSeqProperties
  <2> QED
    BY <2>1, <2>2, <1>3
<1> HIDE DEF s
<1>5. Len(s) = Len(t)
  BY <1>2, <1>4
<1>6. \A i \in 1 .. Len(s) : s[i] = t[i]
  BY <1>1, <1>2, <1>4
<1>7. s = t
  BY <1>2, <1>4, <1>5, <1>6, SeqEqual
<1> QED
  BY <1>7 DEF r, s, t

(* How many of the bytes after the head a tail of b bytes keeps.           *)
KeepAt(b) == IF b - HeadLimit <= TailLimit THEN b - HeadLimit ELSE TailLimit

(* update_tail keeps the last of them, however long tail and chunk are.    *)
LEMMA TailKept ==
  ASSUME NEW b \in Nat, NEW c \in Nat, HeadLimit <= b, b < c
  PROVE  UpdateTail(Bytes(b - KeepAt(b), b), Bytes(b, c), TailLimit)
           = Bytes(c - KeepAt(c), c)
<1> USE LimitsAssumption
<1> DEFINE limit == TailLimit
           k == KeepAt(b)
           m == KeepAt(c)
           t == Bytes(b - k, b)
           d == Bytes(b, c)
<1>a. /\ (k = b - HeadLimit /\ k <= limit) \/ (k = limit /\ b - HeadLimit > limit)
      /\ (m = c - HeadLimit /\ m <= limit) \/ (m = limit /\ c - HeadLimit > limit)
      /\ k \in Nat /\ m \in Nat /\ limit \in Nat
  BY DEF KeepAt
<1> SUFFICES UpdateTail(t, d, limit) = Bytes(c - m, c)
  OBVIOUS
<1> HIDE DEF k, m, limit
<1>0. k \in Nat /\ m \in Nat /\ b - k \in Nat /\ c - m \in Nat /\ k <= b /\ m <= c
  BY <1>a
<1>1. Len(t) = k /\ Len(d) = c - b
  <2>1. b - k <= b /\ b <= c
    BY <1>0
  <2>2. Len(t) = b - (b - k) /\ Len(d) = c - b
    BY <1>0, <2>1, BytesSeq, Zenon
  <2> QED
    BY <1>0, <2>2
<1>2. CASE limit = 0
  BY <1>a, <1>0, <1>2 DEF UpdateTail, Bytes
<1>3. CASE limit # 0 /\ c - b >= limit
  <2> DEFINE j == c - b - limit
  <2>1. j \in 0 .. c - b /\ b <= c /\ b + j = c - m /\ j + 1 = c - b - limit + 1
    BY <1>a, <1>3
  <2> HIDE DEF j
  <2>2. SubSeq(Bytes(b, c), j + 1, c - b) = Bytes(b + j, c)
    BY <2>1, BytesEnd, Zenon
  <2> QED
    BY <1>1, <1>3, <2>1, <2>2 DEF UpdateTail
<1>4. CASE limit # 0 /\ c - b < limit /\ k + (c - b) > limit
  <2> DEFINE j == k + (c - b) - limit
             e == b - k
  <2>1. /\ j \in 0 .. b - e /\ e \in Nat /\ e <= b /\ b - e = k
        /\ e + j = c - m /\ c - m <= b /\ b <= c
    BY <1>a, <1>0, <1>4
  <2> HIDE DEF e
  <2>2. SubSeq(Bytes(e, b), j + 1, b - e) = Bytes(e + j, b)
    <3> HIDE DEF j
    <3> QED
      BY <2>1, BytesEnd, Zenon
  <2>3. Bytes(c - m, b) \o Bytes(b, c) = Bytes(c - m, c)
    BY <1>0, <2>1, BytesJoin, Zenon
  <2>4. SubSeq(t, j + 1, k) = Bytes(c - m, b)
    BY <2>1, <2>2 DEF e
  <2> HIDE DEF t, d
  <2>5. UpdateTail(t, d, limit) = SubSeq(t, j + 1, k) \o d
    BY <1>a, <1>0, <1>1, <1>4 DEF UpdateTail
  <2> QED
    BY <2>3, <2>4, <2>5 DEF t, d
<1>5. CASE limit # 0 /\ c - b < limit /\ k + (c - b) <= limit
  <2>1. b - k = c - m
    BY <1>a, <1>0, <1>5
  <2>2. Bytes(b - k, b) \o Bytes(b, c) = Bytes(b - k, c)
    <3>1. b - k <= b /\ b <= c
      BY <1>0
    <3> QED
      BY <1>0, <3>1, BytesJoin, Zenon
  <2>3. UpdateTail(t, d, limit) = t \o d
    <3> HIDE DEF t, d
    <3> QED
      BY <1>a, <1>0, <1>1, <1>5 DEF UpdateTail
  <2> QED
    BY <2>1, <2>2, <2>3
<1> QED
  BY <1>a, <1>0, <1>2, <1>3, <1>4, <1>5

(* A chunk keeps the invariant.                                            *)
LEMMA ChunkStep ==
  ASSUME LogInv, NEW n \in 1 .. ChunkLimit, ReadChunk(n)
  PROVE  LogInv'
<1> USE LimitsAssumption
<1> DEFINE h == HeadRoom(n)
<1>1. /\ total \in Nat /\ n \in Nat /\ n > 0 /\ head \in Nat /\ Kept \in Nat
      /\ head <= total /\ Kept <= total /\ h \in Nat /\ h <= n
      /\ head = IF total <= HeadLimit THEN total ELSE HeadLimit
      /\ lphase = "reading" /\ lphase' = "reading" /\ total' = total + n
      /\ head' = head + h
  BY DEF LogInv, ReadChunk, HeadRoom, Kept
<1>2. head' = IF total' <= HeadLimit THEN total' ELSE HeadLimit
  BY <1>1 DEF HeadRoom
<1>3. log' = Bytes(0, head')
  <2>1. log = Bytes(0, head) /\ log' = log \o Bytes(total, total + h)
    BY <1>1 DEF LogInv, ReadChunk
  <2>2. CASE h = 0
    <3>1. Bytes(total, total + h) = <<>>
      BY <1>1, <2>2 DEF Bytes
    <3>2. log \in Seq(Nat)
      <4>1. 0 \in Nat /\ 0 <= head
        BY <1>1
      <4>2. Bytes(0, head) \in Seq(Nat)
        BY <1>1, <4>1, BytesSeq, Zenon
      <4> QED
        BY <2>1, <4>2
    <3> QED
      BY <1>1, <2>1, <2>2, <3>1, <3>2
  <2>3. CASE h > 0
    <3>1. total = head
      BY <1>1, <2>3 DEF HeadRoom
    <3>2. 0 \in Nat /\ 0 <= total /\ total <= total + h /\ total + h \in Nat
      BY <1>1
    <3>3. Bytes(0, total) \o Bytes(total, total + h) = Bytes(0, total + h)
      BY <1>1, <3>2, BytesJoin, Zenon
    <3> QED
      BY <1>1, <2>1, <3>1, <3>3
  <2> QED
    BY <1>1, <2>2, <2>3
<1>4. tail' = Bytes(total' - Kept', total')
  <2>1. CASE h = n
    <3>1. total' <= HeadLimit /\ Kept = 0 /\ Kept' = 0
      BY <1>1, <2>1 DEF HeadRoom, Kept
    <3>2. tail' = tail /\ tail = Bytes(total, total)
      BY <1>1, <2>1, <3>1 DEF ReadChunk, LogInv
    <3> QED
      BY <1>1, <3>1, <3>2 DEF Bytes
  <2>2. CASE h < n
    <3>1. /\ total' > HeadLimit
          /\ tail' = UpdateTail(tail, Bytes(total + h, total + n), TailLimit)
      BY <1>1, <2>2 DEF ReadChunk, HeadRoom
    <3>2. HeadLimit <= total + h
      BY <1>1, <2>2 DEF HeadRoom
    <3>3. Kept = IF (total + h) - HeadLimit <= TailLimit
                 THEN (total + h) - HeadLimit ELSE TailLimit
      BY <1>1, <2>2 DEF HeadRoom, Kept
    <3>4. Kept' = IF (total + n) - HeadLimit <= TailLimit
                  THEN (total + n) - HeadLimit ELSE TailLimit
      BY <1>1, <3>1 DEF Kept
    <3>5. tail = Bytes((total + h) - Kept, total + h)
      <4>1. h = 0 \/ Kept = 0
        BY <1>1 DEF HeadRoom, Kept
      <4>2. tail = Bytes(total - Kept, total)
        BY DEF LogInv
      <4> QED
        BY <1>1, <4>1, <4>2 DEF Bytes
    <3>6. UpdateTail(Bytes((total + h) - Kept, total + h),
                     Bytes(total + h, total + n), TailLimit)
            = Bytes((total + n) - Kept', total + n)
      <4>2. total + h \in Nat /\ total + n \in Nat /\ total + h < total + n
        BY <1>1, <2>2
      <4>3. Kept = KeepAt(total + h) /\ Kept' = KeepAt(total + n)
        BY <3>3, <3>4 DEF KeepAt
      <4> QED
        BY <3>2, <4>2, <4>3, TailKept, Zenon
    <3> QED
      BY <1>1, <3>1, <3>5, <3>6
  <2> QED
    BY <1>1, <2>1, <2>2
<1> QED
  BY <1>1, <1>2, <1>3, <1>4 DEF LogInv, LogExact

(* The end of the stream.                                                  *)
LEMMA EndStep ==
  ASSUME LogInv, EndLog
  PROVE  LogInv'
<1> USE LimitsAssumption
<1>1. /\ total \in Nat /\ Kept \in Nat /\ Kept <= total - head
      /\ head = IF total <= HeadLimit THEN total ELSE HeadLimit
      /\ tail = Bytes(total - Kept, total) /\ log = Bytes(0, head)
      /\ lphase' = "done" /\ UNCHANGED <<total, head, tail>> /\ Kept' = Kept
  BY DEF LogInv, EndLog, Kept
<1>2. Len(tail) = Kept
  <2>1. total - Kept \in Nat /\ total - Kept <= total
    BY <1>1
  <2>2. Len(Bytes(total - Kept, total)) = total - (total - Kept)
    BY <1>1, <2>1, BytesSeq, Zenon
  <2> QED
    BY <1>1, <2>2
<1>3. omitted' = total - head - Kept
  BY <1>2 DEF EndLog
<1>4. log' = Bytes(0, head) \o (IF omitted' > 0 THEN <<Marker>> ELSE <<>>) \o tail
  <2>1. total > head + Len(tail) <=> omitted' > 0
    BY <1>1, <1>2, <1>3
  <2>2. log' = log \o (IF total > head + Len(tail) THEN <<Marker>> ELSE <<>>) \o tail
    BY DEF EndLog
  <2> QED
    BY <1>1, <2>1, <2>2, Zenon
<1> QED
  BY <1>1, <1>3, <1>4 DEF LogInv, LogExact

(* A log that has not been opened, and every step of the logger.           *)
LEMMA LogInitInv == LogInit => LogInv
<1>1. Bytes(0, 0) = <<>>
  BY DEF Bytes
<1> QED
  BY <1>1, LimitsAssumption DEF LogInit, LogInv, LogExact, Kept

LEMMA LogNextInv == LogInv /\ [LogNext]_logVars => LogInv'
<1> SUFFICES ASSUME LogInv, [LogNext]_logVars PROVE LogInv'
  OBVIOUS
<1>1. CASE OpenLog \/ KillLog \/ UNCHANGED logVars
  BY <1>1, LimitsAssumption DEF OpenLog, KillLog, logVars, LogInv, LogExact, Kept
<1>2. CASE EndLog
  BY <1>2, EndStep
<1>3. CASE \E n \in 1 .. ChunkLimit : ReadChunk(n)
  BY <1>3, ChunkStep
<1> QED
  BY <1>1, <1>2, <1>3 DEF LogNext

(* A finished log is exact for every head and tail limit and every way of  *)
(* cutting the stream into chunks (bounded_log.py 20-92).                  *)
THEOREM LogsAreExact == LogSpec => []LogExact
<1>1. LogInv => LogExact
  BY DEF LogInv
<1> QED
  BY <1>1, LogInitInv, LogNextInv, PTL DEF LogSpec

-----------------------------------------------------------------------------
(***************************************************************************)
(* The journal.  That replaying a journal with one more line is replaying  *)
(* it and then the line needs an induction over the journal; the journal   *)
(* grows by one line at a time, so the invariant of the run carries it.    *)
(***************************************************************************)

(* g is the table that FoldLeft defines for the replay of j, by the set of *)
(* places that have been replayed.                                         *)
ReplayTable(j, g) ==
  g = [s \in SUBSET DOMAIN j |->
         IF s = {} THEN Zero ELSE Replayed(g[s \ {Max(s)}], j[Max(s)])]

(* There is one such table, and every set of places has a last one.        *)
Replayable(j) ==
  /\ \A s \in SUBSET DOMAIN j : s # {} => \E m \in s : \A y \in s : m >= y
  /\ \E g : ReplayTable(j, g) /\ \A h : ReplayTable(j, h) => h = g

(* FoldLeft takes the table's last entry.                                  *)
LEMMA ReplayIsTable ==
  ASSUME NEW j, NEW g, ReplayTable(j, g), \A h : ReplayTable(j, h) => h = g
  PROVE  ReplayEventJournal(j) = g[DOMAIN j]
<1> DEFINE T == CHOOSE h : ReplayTable(j, h)
<1>1. ReplayEventJournal(j) = T[DOMAIN j]
  BY DEF ReplayEventJournal, FoldLeft, MapThenFoldSet, ReplayTable
<1>2. T = g
  <2>1. ReplayTable(j, T)
    BY Zenon
  <2> QED
    BY <2>1, Zenon
<1> QED
  BY <1>1, <1>2, Zenon

(* The last of a set of places.                                            *)
LEMMA MaxFacts ==
  ASSUME NEW s, NEW m \in s, \A y \in s : m >= y, s \subseteq Nat
  PROVE  Max(s) \in s /\ Max(s) = m
<1>1. Max(s) \in s /\ \A y \in s : Max(s) >= y
  BY Zenon DEF Max
<1>2. m \in Nat /\ Max(s) \in Nat /\ m >= Max(s) /\ Max(s) >= m
  BY <1>1
<1> HIDE DEF Max
<1> QED
  BY <1>1, <1>2

(* One more line: the table for the longer journal.                        *)
LEMMA ReplayAppend ==
  ASSUME NEW j \in Seq(Events), NEW e \in Events, Replayable(j)
  PROVE  /\ Replayable(j \o <<e>>)
         /\ ReplayEventJournal(j \o <<e>>) = Replayed(ReplayEventJournal(j), e)
<1> DEFINE n == Len(j)
           k == j \o <<e>>
<1>1. /\ n \in Nat /\ DOMAIN j = 1 .. n /\ DOMAIN k = 1 .. n + 1
      /\ k[n + 1] = e /\ \A i \in 1 .. n : k[i] = j[i]
  OBVIOUS
<1>2. PICK g : ReplayTable(j, g) /\ \A h : ReplayTable(j, h) => h = g
  BY DEF Replayable
<1> HIDE DEF k, n
<1>3. \A s \in SUBSET (1 .. n) : s # {} => Max(s) \in s
  <2> SUFFICES ASSUME NEW s \in SUBSET (1 .. n), s # {} PROVE Max(s) \in s
    OBVIOUS
  <2>1. PICK m \in s : \A y \in s : m >= y
    BY <1>1 DEF Replayable
  <2>2. s \subseteq Nat
    BY <1>1
  <2> QED
    BY <2>1, <2>2, MaxFacts
<1>4. \A s \in SUBSET (1 .. n + 1) : n + 1 \in s => Max(s) = n + 1
  <2> SUFFICES ASSUME NEW s \in SUBSET (1 .. n + 1), n + 1 \in s
               PROVE  Max(s) = n + 1
    OBVIOUS
  <2>1. s \subseteq Nat /\ \A y \in s : n + 1 >= y
    BY <1>1
  <2> HIDE DEF n
  <2> QED
    BY <2>1, MaxFacts
<1>5. \A s \in SUBSET (1 .. n + 1) : /\ n + 1 \notin s => s \in SUBSET (1 .. n)
                                     /\ s \ {n + 1} \in SUBSET (1 .. n)
  BY <1>1
<1>6. \A s \in SUBSET (1 .. n) : /\ s \in SUBSET (1 .. n + 1) /\ n + 1 \notin s
  BY <1>1
<1> DEFINE g2 == [s \in SUBSET (1 .. n + 1) |->
                    IF n + 1 \in s THEN Replayed(g[s \ {n + 1}], e) ELSE g[s]]
<1>7. \A s \in SUBSET (1 .. n) :
        g[s] = IF s = {} THEN Zero ELSE Replayed(g[s \ {Max(s)}], j[Max(s)])
  <2>1. g = [s \in SUBSET (1 .. n) |->
               IF s = {} THEN Zero ELSE Replayed(g[s \ {Max(s)}], j[Max(s)])]
    BY <1>1, <1>2 DEF ReplayTable
  <2> QED
    BY <2>1, Zenon
<1>8. \A s \in SUBSET (1 .. n + 1) :
        g2[s] = IF s = {} THEN Zero ELSE Replayed(g2[s \ {Max(s)}], k[Max(s)])
  <2> SUFFICES ASSUME NEW s \in SUBSET (1 .. n + 1)
               PROVE  g2[s] = IF s = {} THEN Zero
                              ELSE Replayed(g2[s \ {Max(s)}], k[Max(s)])
    OBVIOUS
  <2>1. CASE n + 1 \in s
    <3>1. g2[s] = Replayed(g[s \ {n + 1}], e)
      BY <2>1
    <3>2. g2[s \ {n + 1}] = g[s \ {n + 1}]
      BY <1>5, <1>6
    <3>3. s # {} /\ Max(s) = n + 1 /\ k[n + 1] = e
      BY <1>1, <1>4, <2>1
    <3> HIDE DEF g2
    <3> QED
      BY <3>1, <3>2, <3>3
  <2>2. CASE n + 1 \notin s
    <3>1. s \in SUBSET (1 .. n) /\ s \ {Max(s)} \in SUBSET (1 .. n)
      BY <1>5, <2>2
    <3>2. g2[s] = g[s] /\ g2[s \ {Max(s)}] = g[s \ {Max(s)}]
      BY <1>6, <3>1
    <3>3. s # {} => k[Max(s)] = j[Max(s)]
      BY <1>1, <1>3, <3>1
    <3>4. g[s] = IF s = {} THEN Zero ELSE Replayed(g[s \ {Max(s)}], j[Max(s)])
      BY <1>7, <3>1
    <3> HIDE DEF g2
    <3> QED
      BY <3>2, <3>3, <3>4
  <2> QED
    BY <2>1, <2>2
<1>9. ReplayTable(k, g2)
  <2>1. g2 = [s \in SUBSET (1 .. n + 1) |-> g2[s]]
    OBVIOUS
  <2> HIDE DEF g2
  <2>2. g2 = [s \in SUBSET (1 .. n + 1) |->
                IF s = {} THEN Zero ELSE Replayed(g2[s \ {Max(s)}], k[Max(s)])]
    BY <1>8, <2>1
  <2> QED
    BY <1>1, <2>2 DEF ReplayTable
<1>10. ASSUME NEW h, ReplayTable(k, h) PROVE h = g2
  <2> DEFINE h1 == [s \in SUBSET (1 .. n) |-> h[s]]
  <2>1. h = [s \in SUBSET (1 .. n + 1) |->
               IF s = {} THEN Zero ELSE Replayed(h[s \ {Max(s)}], k[Max(s)])]
    BY <1>1, <1>10 DEF ReplayTable
  <2>2. \A s \in SUBSET (1 .. n + 1) :
          h[s] = IF s = {} THEN Zero ELSE Replayed(h[s \ {Max(s)}], k[Max(s)])
    BY <2>1, Zenon
  <2>3. \A s \in SUBSET (1 .. n) :
          h1[s] = IF s = {} THEN Zero ELSE Replayed(h1[s \ {Max(s)}], j[Max(s)])
    <3> SUFFICES ASSUME NEW s \in SUBSET (1 .. n)
                 PROVE  h1[s] = IF s = {} THEN Zero
                                ELSE Replayed(h1[s \ {Max(s)}], j[Max(s)])
      OBVIOUS
    <3>1. h1[s] = h[s] /\ h1[s \ {Max(s)}] = h[s \ {Max(s)}]
      OBVIOUS
    <3>2. s # {} => k[Max(s)] = j[Max(s)]
      BY <1>1, <1>3
    <3>3. h[s] = IF s = {} THEN Zero ELSE Replayed(h[s \ {Max(s)}], k[Max(s)])
      BY <1>6, <2>2
    <3> HIDE DEF h1
    <3> QED
      BY <3>1, <3>2, <3>3
  <2>4. h1 = g
    <3>1. h1 = [s \in SUBSET (1 .. n) |-> h1[s]]
      OBVIOUS
    <3> HIDE DEF h1
    <3>2. h1 = [s \in SUBSET (1 .. n) |->
                  IF s = {} THEN Zero ELSE Replayed(h1[s \ {Max(s)}], j[Max(s)])]
      BY <2>3, <3>1
    <3>3. ReplayTable(j, h1)
      BY <1>1, <3>2 DEF ReplayTable
    <3> QED
      BY <1>2, <3>3, Zenon
  <2>5. \A s \in SUBSET (1 .. n) : h[s] = g[s]
    BY <2>4
  <2>6. \A s \in SUBSET (1 .. n + 1) : h[s] = g2[s]
    <3> SUFFICES ASSUME NEW s \in SUBSET (1 .. n + 1) PROVE h[s] = g2[s]
      OBVIOUS
    <3>1. CASE n + 1 \in s
      <4>1. s # {} /\ Max(s) = n + 1 /\ k[n + 1] = e
        BY <1>1, <1>4, <3>1
      <4>2. h[s] = Replayed(h[s \ {n + 1}], e)
        BY <2>2, <4>1
      <4>3. h[s \ {n + 1}] = g[s \ {n + 1}]
        BY <1>5, <2>5
      <4>4. g2[s] = Replayed(g[s \ {n + 1}], e)
        BY <3>1
      <4> QED
        BY <4>2, <4>3, <4>4, Zenon
    <3>2. CASE n + 1 \notin s
      BY <1>5, <2>5, <3>2
    <3> QED
      BY <3>1, <3>2
  <2>7. DOMAIN h = SUBSET (1 .. n + 1) /\ h = [s \in DOMAIN h |-> h[s]]
    BY <2>1
  <2>8. g2 = [s \in SUBSET (1 .. n + 1) |-> g2[s]]
    OBVIOUS
  <2> HIDE DEF g2
  <2> QED
    BY <2>6, <2>7, <2>8
<1>11. \A s \in SUBSET DOMAIN k : s # {} => \E m \in s : \A y \in s : m >= y
  <2> SUFFICES ASSUME NEW s \in SUBSET (1 .. n + 1), s # {}
               PROVE  \E m \in s : \A y \in s : m >= y
    BY <1>1
  <2>1. CASE n + 1 \in s
    BY <1>1, <2>1
  <2>2. CASE n + 1 \notin s
    BY <1>1, <1>5, <2>2 DEF Replayable
  <2> QED
    BY <2>1, <2>2
<1>12. Replayable(k)
  <2> HIDE DEF g2
  <2> QED
    BY <1>9, <1>10, <1>11 DEF Replayable
<1>13. ReplayEventJournal(k) = g2[1 .. n + 1]
  <2> HIDE DEF g2
  <2> QED
    BY <1>1, <1>9, <1>10, ReplayIsTable, Zenon
<1>14. ReplayEventJournal(j) = g[1 .. n]
  BY <1>1, <1>2, ReplayIsTable, Zenon
<1>15. g2[1 .. n + 1] = Replayed(g[1 .. n], e)
  <2>1. n + 1 \in 1 .. n + 1 /\ (1 .. n + 1) \ {n + 1} = 1 .. n
    BY <1>1
  <2> QED
    BY <2>1
<1> QED
  BY <1>12, <1>13, <1>14, <1>15 DEF k

(* Nothing to replay.                                                      *)
LEMMA ReplayEmpty == Replayable(<<>>) /\ ReplayEventJournal(<<>>) = Zero
<1> DEFINE g == [s \in {{}} |-> Zero]
<1>1. DOMAIN <<>> = {} /\ SUBSET {} = {{}}
  OBVIOUS
<1>2. ReplayTable(<<>>, g)
  <2>1. g = [s \in {{}} |-> IF s = {} THEN Zero
                            ELSE Replayed(g[s \ {Max(s)}], <<>>[Max(s)])]
    BY Zenon
  <2> QED
    BY <1>1, <2>1 DEF ReplayTable
<1>3. ASSUME NEW h, ReplayTable(<<>>, h) PROVE h = g
  <2>1. h = [s \in {{}} |-> IF s = {} THEN Zero
                            ELSE Replayed(h[s \ {Max(s)}], <<>>[Max(s)])]
    BY <1>1, <1>3 DEF ReplayTable
  <2>2. DOMAIN h = {{}} /\ h = [s \in DOMAIN h |-> h[s]] /\ h[{}] = Zero
    BY <2>1, Zenon
  <2> QED
    BY <2>2
<1>4. g[{}] = Zero
  BY Zenon
<1> HIDE DEF g
<1>5. ReplayEventJournal(<<>>) = g[DOMAIN <<>>]
  BY <1>2, <1>3, ReplayIsTable, Zenon
<1> QED
  BY <1>1, <1>2, <1>3, <1>4, <1>5 DEF Replayable

(* Counting nothing, and counting the event that was cut off.              *)
LEMMA CountNone ==
  ASSUME NEW c
  PROVE  FoldLeft(Counted, c, <<>>) = c
<1> DEFINE T(h) == h = [s \in SUBSET DOMAIN <<>> |->
                     IF s = {} THEN c ELSE Counted(h[s \ {Max(s)}], <<>>[Max(s)])]
           g == [s \in {{}} |-> c]
<1>1. FoldLeft(Counted, c, <<>>) = (CHOOSE h : T(h))[DOMAIN <<>>]
  BY DEF FoldLeft, MapThenFoldSet
<1>2. DOMAIN <<>> = {} /\ SUBSET DOMAIN <<>> = {{}}
  OBVIOUS
<1>3. T(g)
  <2>1. g = [s \in {{}} |-> IF s = {} THEN c
                            ELSE Counted(g[s \ {Max(s)}], <<>>[Max(s)])]
    BY Zenon
  <2> QED
    BY <1>2, <2>1
<1>4. ASSUME NEW h, T(h) PROVE h[{}] = c
  <2>1. h = [s \in {{}} |-> IF s = {} THEN c
                            ELSE Counted(h[s \ {Max(s)}], <<>>[Max(s)])]
    BY <1>2, <1>4
  <2> QED
    BY <2>1, Zenon
<1> HIDE DEF T, g
<1>5. T(CHOOSE h : T(h))
  BY <1>3, Zenon
<1> QED
  BY <1>1, <1>2, <1>4, <1>5, Zenon

LEMMA CountOne ==
  ASSUME NEW c, NEW e
  PROVE  FoldLeft(Counted, c, <<e>>) = Counted(c, e)
<1> DEFINE T(h) == h = [s \in SUBSET DOMAIN <<e>> |->
                     IF s = {} THEN c ELSE Counted(h[s \ {Max(s)}], <<e>>[Max(s)])]
           g == [s \in {{}, {1}} |-> IF s = {} THEN c ELSE Counted(c, e)]
<1>1. FoldLeft(Counted, c, <<e>>) = (CHOOSE h : T(h))[DOMAIN <<e>>]
  BY DEF FoldLeft, MapThenFoldSet
<1>2. DOMAIN <<e>> = {1} /\ SUBSET {1} = {{}, {1}} /\ <<e>>[1] = e
      /\ {1} \ {1} = {} /\ {1} # {}
  OBVIOUS
<1>3. Max({1}) = 1
  BY MaxFacts
<1>4. T(g)
  <2>1. g[{}] = c /\ g[{1}] = Counted(c, e)
    BY <1>2, Zenon
  <2>2. \A s \in {{}, {1}} : g[s] = IF s = {} THEN c
                               ELSE Counted(g[s \ {Max(s)}], <<e>>[Max(s)])
    <3> HIDE DEF g
    <3> QED
      BY <1>2, <1>3, <2>1
  <2>3. g = [s \in {{}, {1}} |-> g[s]]
    BY Zenon
  <2> HIDE DEF g
  <2>4. g = [s \in {{}, {1}} |-> IF s = {} THEN c
                                 ELSE Counted(g[s \ {Max(s)}], <<e>>[Max(s)])]
    BY <2>2, <2>3
  <2> QED
    BY <1>2, <2>4
<1>5. ASSUME NEW h, T(h) PROVE h[{1}] = Counted(c, e)
  <2>1. h = [s \in {{}, {1}} |-> IF s = {} THEN c
                                 ELSE Counted(h[s \ {Max(s)}], <<e>>[Max(s)])]
    BY <1>2, <1>5
  <2>2. \A s \in {{}, {1}} : h[s] = IF s = {} THEN c
                               ELSE Counted(h[s \ {Max(s)}], <<e>>[Max(s)])
    BY <2>1, Zenon
  <2>3. h[{}] = c
    BY <2>2, Zenon
  <2>4. h[{1}] = Counted(h[{1} \ {Max({1})}], <<e>>[Max({1})])
    BY <1>2, <2>2, Zenon
  <2> QED
    BY <1>2, <1>3, <2>3, <2>4, Zenon
<1> HIDE DEF T, g
<1>6. T(CHOOSE h : T(h))
  BY <1>4, Zenon
<1> QED
  BY <1>1, <1>2, <1>5, <1>6, Zenon

(* Replaying an event adds what counting it added.                         *)
LEMMA CountedIsReplayed ==
  ASSUME NEW c \in [Names -> Nat], NEW e \in Events
  PROVE  Counted(c, e) = Replayed(c, e) /\ Counted(c, e) \in [Names -> Nat]
<1> DEFINE HostSchedules == [kind : {"schedule"}, device : {FALSE},
                             rejection : Rejections]
           Plans == [kind : {"schedule"}, device : {TRUE}, requests : {2}, steps : {3}]
           HostResults == [kind : {"result"}, device : {FALSE}]
           Results == [kind : {"result"}, device : {TRUE}, calls : {3}, tokens : {4},
                       feeds : {1}, fetches : {1}, imported : Imported]
<1>1. \/ e \in HostSchedules \/ e \in Plans \/ e \in HostResults \/ e \in Results
  BY DEF Events
<1>2. CASE e \in HostSchedules
  <2>1. e.kind = "schedule" /\ e.device = FALSE /\ e.rejection \in Rejections
    BY <1>2
  <2>2. PICK r \in Names \ CounterNames : r = Reason(e)
    BY <2>1, JournalAssumption DEF Reason, Names, CounterNames
  <2>3. Counted(c, e) = [c EXCEPT !["schedule_calls"] = @ + 1,
                                  !["host_schedule_calls"] = @ + 1, ![r] = @ + 1]
    BY <2>1, <2>2 DEF Counted
  <2> DEFINE added == [n \in {"host_schedule_calls", "schedule_calls", r} |-> 1]
  <2>4. Replayed(c, e) =
          [n \in Names |-> c[n] + (IF n \in DOMAIN added THEN added[n] ELSE 0)]
    BY <2>1, <2>2 DEF Replayed
  <2>5. /\ DOMAIN added = {"host_schedule_calls", "schedule_calls", r}
        /\ \A n \in DOMAIN added : added[n] = 1
    OBVIOUS
  <2> HIDE DEF added
  <2>6. \A n \in Names : Counted(c, e)[n] = Replayed(c, e)[n]
    BY <2>3, <2>4, <2>5 DEF Names, CounterNames
  <2>7. /\ DOMAIN Counted(c, e) = Names
        /\ Counted(c, e) = [n \in Names |-> Counted(c, e)[n]]
    BY <2>3
  <2>8. Replayed(c, e) \in [Names -> Nat]
    BY <2>4, <2>5
  <2> QED
    BY <2>4, <2>6, <2>7, <2>8
<1>3. CASE e \in Plans
  <2>1. e.kind = "schedule" /\ e.device = TRUE /\ e.requests = 2 /\ e.steps = 3
    BY <1>3
  <2>2. Counted(c, e) = [c EXCEPT !["schedule_calls"] = @ + 1,
                                  !["device_plan_calls"] = @ + 1,
                                  !["device_planned_requests"] = @ + 2,
                                  !["device_planned_model_calls"] = @ + 3,
                                  !["epoch_steps"] = @ + 1]
    BY <2>1 DEF Counted
  <2> DEFINE added == [device_plan_calls |-> 1, device_planned_requests |-> 2,
                       device_planned_model_calls |-> 3, epoch_steps |-> 1,
                       schedule_calls |-> 1]
  <2>3. Replayed(c, e) =
          [n \in Names |-> c[n] + (IF n \in DOMAIN added THEN added[n] ELSE 0)]
    BY <2>1 DEF Replayed
  <2>4. \A n \in Names : Counted(c, e)[n] = Replayed(c, e)[n]
    BY <2>2, <2>3 DEF Names, CounterNames
  <2>5. /\ DOMAIN Counted(c, e) = Names
        /\ Counted(c, e) = [n \in Names |-> Counted(c, e)[n]]
    BY <2>2
  <2>6. Replayed(c, e) \in [Names -> Nat]
    BY <2>3
  <2> QED
    BY <2>3, <2>4, <2>5, <2>6
<1>4. CASE e \in HostResults
  <2>1. e.kind = "result" /\ e.device = FALSE
    BY <1>4
  <2>2. Counted(c, e) = [c EXCEPT !["non_device_results"] = @ + 1]
    BY <2>1 DEF Counted
  <2> DEFINE added == [non_device_results |-> 1]
  <2>3. Replayed(c, e) =
          [n \in Names |-> c[n] + (IF n \in DOMAIN added THEN added[n] ELSE 0)]
    BY <2>1 DEF Replayed
  <2>4. \A n \in Names : Counted(c, e)[n] = Replayed(c, e)[n]
    BY <2>2, <2>3 DEF Names, CounterNames
  <2>5. /\ DOMAIN Counted(c, e) = Names
        /\ Counted(c, e) = [n \in Names |-> Counted(c, e)[n]]
    BY <2>2
  <2>6. Replayed(c, e) \in [Names -> Nat]
    BY <2>3
  <2> QED
    BY <2>3, <2>4, <2>5, <2>6
<1>5. CASE e \in Results
  <2>1. /\ e.kind = "result" /\ e.device = TRUE /\ e.calls = 3 /\ e.tokens = 4
        /\ e.feeds = 1 /\ e.fetches = 1 /\ e.imported \in Imported
    BY <1>5
  <2>2. PICK i \in Nat : i = IF e.imported THEN 1 ELSE 0
    OBVIOUS
  <2>3. Counted(c, e) = [c EXCEPT !["device_epochs"] = @ + 1,
                                  !["device_model_calls"] = @ + 3,
                                  !["device_request_tokens"] = @ + 4,
                                  !["feed_calls"] = @ + 1,
                                  !["fetch_calls"] = @ + 1,
                                  !["kv_imports"] = @ + i]
    BY <2>1, <2>2 DEF Counted
  <2> DEFINE added == [device_epochs |-> 1, device_model_calls |-> 3,
                       device_request_tokens |-> 4, feed_calls |-> 1,
                       fetch_calls |-> 1, kv_imports |-> i]
  <2>4. Replayed(c, e) =
          [n \in Names |-> c[n] + (IF n \in DOMAIN added THEN added[n] ELSE 0)]
    BY <2>1, <2>2 DEF Replayed
  <2>5. \A n \in Names : Counted(c, e)[n] = Replayed(c, e)[n]
    BY <2>3, <2>4 DEF Names, CounterNames
  <2>6. /\ DOMAIN Counted(c, e) = Names
        /\ Counted(c, e) = [n \in Names |-> Counted(c, e)[n]]
    BY <2>3
  <2>7. Replayed(c, e) \in [Names -> Nat]
    BY <2>4
  <2> QED
    BY <2>4, <2>5, <2>6, <2>7
<1> QED
  BY <1>1, <1>2, <1>3, <1>4, <1>5

(* The engine's counters, the event it is about to append, and the journal *)
(* that accounts for all the others.                                       *)
JournalInv ==
  /\ counters \in [Names -> Nat] /\ opened \in BOOLEAN
  /\ journal \in Seq(Events) /\ Len(journal) <= MaxEvents
  /\ \/ pending = <<>>
     \/ Len(journal) < MaxEvents /\ \E e \in Events : pending = <<e>>
  /\ Replayable(journal) /\ ReplayEventJournal(journal) \in [Names -> Nat]
  /\ ReplayExact

(* The logger has ended only with the whole output read and nobody left to *)
(* print more; the result is collected after the logger.                   *)
EndInv ==
  /\ runner = "start" => lphase = "off" /\ server = "none" /\ engine = "none"
  /\ lphase = "done" => Eof /\ total = sent
  /\ engine # "none" /\ mode = "cruise" => opened
  /\ loaded => engine # "none"
  /\ runner = "collect" \/ runner = "done" => lphase # "reading"
  /\ runner = "done" /\ loaded /\ lphase = "done" /\ mode = "cruise" =>
       metrics = <<ReplayEventJournal(journal)>>

(* The barrier is opened by a driver that has launched msprof or found no  *)
(* target, and one that joins has launched it.                             *)
BarrierInv ==
  /\ start => profiler # "none" \/ route \in {"let_go", "failed"}
  /\ route \in {"settle", "join", "msprof", "passed"} => profiler # "none"
  /\ route \in {"msprof", "passed", "failed"} => runner = "done"
  /\ ProfileAccountedFor

(* What a step of the engine does to its counters and its journal.         *)
JournalStep ==
  \/ OpenJournal \/ Append1 \/ Flush \/ (\E e \in Events : Count(e))
  \/ UNCHANGED journalVars

LEMMA JournalInitInv == JournalInit => JournalInv
<1> SUFFICES ASSUME JournalInit PROVE JournalInv
  OBVIOUS
<1>1. Zero \in [Names -> Nat]
  BY DEF Zero
<1>2. FoldLeft(Counted, Zero, <<>>) = Zero
  BY CountNone, Zenon
<1>3. /\ journal = <<>> /\ pending = <<>> /\ counters = Zero /\ opened = FALSE
      /\ ReplayEventJournal(journal) = Zero /\ Replayable(journal)
  BY ReplayEmpty DEF JournalInit
<1>4. ReplayExact
  BY <1>2, <1>3, Zenon DEF ReplayExact
<1>5. journal \in Seq(Events) /\ Len(journal) <= MaxEvents
  BY <1>3, JournalAssumption
<1> QED
  BY <1>1, <1>3, <1>4, <1>5 DEF JournalInv

LEMMA JournalStepInv ==
  ASSUME JournalInv, JournalStep
  PROVE  JournalInv'
<1> DEFINE r == ReplayEventJournal(journal)
<1>1. CASE OpenJournal \/ Flush \/ UNCHANGED journalVars
  <2>1. UNCHANGED <<counters, pending, journal>> /\ opened' \in BOOLEAN
    BY <1>1 DEF OpenJournal, Flush, journalVars, JournalInv
  <2>2. UNCHANGED ReplayExact
    BY <2>1 DEF ReplayExact
  <2> QED
    BY <2>1, <2>2 DEF JournalInv
<1>2. CASE \E e \in Events : Count(e)
  <2>1. PICK e \in Events : Count(e)
    BY <1>2
  <2>2. /\ pending = <<>> /\ Len(journal) < MaxEvents /\ pending' = <<e>>
        /\ counters' = Counted(counters, e) /\ UNCHANGED <<opened, journal>>
    BY <2>1 DEF Count
  <2>3. counters = r
    <3>1. counters = FoldLeft(Counted, r, <<>>)
      BY <2>2, Zenon DEF JournalInv, ReplayExact
    <3> QED
      BY <3>1, CountNone, Zenon
  <2>4. counters' = FoldLeft(Counted, r, <<e>>)
    BY <2>2, <2>3, CountOne, Zenon
  <2>5. counters' \in [Names -> Nat]
    BY <2>2, CountedIsReplayed DEF JournalInv
  <2>6. ReplayExact'
    BY <2>2, <2>4 DEF ReplayExact
  <2> QED
    BY <2>2, <2>5, <2>6 DEF JournalInv
<1>3. CASE Append1
  <2>1. PICK e \in Events : pending = <<e>> /\ Len(journal) < MaxEvents
    BY <1>3 DEF Append1, JournalInv
  <2>2. /\ journal' = journal \o <<e>> /\ pending' = <<>>
        /\ UNCHANGED <<counters, opened>>
    BY <1>3, <2>1 DEF Append1
  <2>3. counters = Replayed(r, e)
    <3>1. counters = FoldLeft(Counted, r, <<e>>)
      BY <2>1, Zenon DEF JournalInv, ReplayExact
    <3>2. counters = Counted(r, e)
      BY <3>1, CountOne, Zenon
    <3>3. r \in [Names -> Nat]
      BY DEF JournalInv
    <3>4. Counted(r, e) = Replayed(r, e)
      BY <3>3, CountedIsReplayed, Zenon
    <3> QED
      BY <3>2, <3>4, Zenon
  <2>4. /\ Replayable(journal \o <<e>>)
        /\ ReplayEventJournal(journal \o <<e>>) = Replayed(r, e)
    <3>1. journal \in Seq(Events) /\ Replayable(journal)
      BY DEF JournalInv
    <3> QED
      BY <3>1, ReplayAppend, Zenon
  <2>5. Replayable(journal)' /\ ReplayEventJournal(journal)' = counters
    BY <2>2, <2>3, <2>4, Zenon
  <2>6. ReplayExact'
    <3>1. FoldLeft(Counted, counters, <<>>) = counters
      BY CountNone, Zenon
    <3> QED
      BY <2>2, <2>5, <3>1, Zenon DEF ReplayExact
  <2>7. journal' \in Seq(Events) /\ Len(journal') <= MaxEvents
    BY <2>1, <2>2, JournalAssumption DEF JournalInv
  <2> QED
    BY <2>2, <2>5, <2>6, <2>7 DEF JournalInv
<1> QED
  BY <1>1, <1>2, <1>3 DEF JournalStep

(* The logger and the journal see a run as steps of their own or none.     *)
LEMMA BenchParts ==
  ASSUME BenchTypeOK, [BenchNext]_benchVars
  PROVE  [LogNext]_logVars /\ JournalStep
<1> USE DEF logVars, journalVars, runVars, routeVars
<1>1. CASE UNCHANGED benchVars
  BY <1>1 DEF benchVars, JournalStep
<1>2. CASE RunnerStep
  BY <1>2 DEF RunnerStep, Launch, LaunchFails, Ready, NotReady, WarmedUp, Announce,
     BarrierOpens, LoadRaises, Loaded, Stop, Stopped, GraceOver, LoggerWaited,
     LoggerTimeout, Collect, LogNext, JournalStep
<1>3. CASE RouteStep
  BY <1>3 DEF RouteStep, SeesReady, GivesUpWaiting, TargetFound, TargetMissed,
     OpensBarrier, JoinsBenchmark, JoinsMsprof, RouteUnchanged, JournalStep
<1>4. CASE LoggerReads
  <2>1. UNCHANGED journalVars
    BY <1>4 DEF LoggerReads
  <2>2. \E n \in 1 .. ChunkLimit : ReadChunk(n)
    <3>1. sent \in Nat /\ total \in Nat /\ ChunkLimit \in Nat \ {0}
      BY LimitsAssumption, BytesAssumption DEF BenchTypeOK
    <3>2. CASE ReadChunk(ChunkLimit)
      BY <3>1, <3>2
    <3>3. CASE sent > total /\ sent - total < ChunkLimit /\ ReadChunk(sent - total)
      <4>1. sent - total \in 1 .. ChunkLimit
        BY <3>1, <3>3
      <4> QED
        BY <3>3, <4>1
    <3> QED
      BY <1>4, <3>2, <3>3 DEF LoggerReads
  <2> QED
    BY <2>1, <2>2 DEF LogNext, JournalStep
<1>5. CASE EngineStarts \/ ServerUp \/ Journal \/ EngineExits \/ EngineCrashes
           \/ LoggerEnds
  BY <1>5 DEF EngineStarts, ServerUp, Journal, EngineExits, EngineCrashes,
     LoggerEnds, LogNext, JournalStep
<1>6. CASE \E n \in 1 .. 2 : PrintBytes(n)
  BY <1>6 DEF PrintBytes, JournalStep
<1>7. CASE \E e \in Events : Schedule(e)
  BY <1>7 DEF Schedule, JournalStep
<1>8. CASE \E ok \in BOOLEAN : ServerEnds(ok)
  BY <1>8 DEF ServerEnds, JournalStep
<1>9. CASE \E ok \in BOOLEAN : MsprofEnds(ok)
  BY <1>9 DEF MsprofEnds, RouteUnchanged, JournalStep
<1> QED
  BY <1>1, <1>2, <1>3, <1>4, <1>5, <1>6, <1>7, <1>8, <1>9 DEF BenchNext

(* What holds throughout a run.                                            *)
BenchInv ==
  BenchTypeOK /\ LogInv /\ JournalInv /\ EndInv /\ BarrierInv

LEMMA BenchInitInv == BenchInit => BenchInv
<1> SUFFICES ASSUME BenchInit PROVE BenchInv
  OBVIOUS
<1>1. LogInv /\ JournalInv
  BY LogInitInv, JournalInitInv DEF BenchInit
<1>2. BenchTypeOK
  <2>1. /\ counters \in [Names -> Nat] /\ opened \in BOOLEAN
        /\ Len(journal) <= MaxEvents
    BY <1>1 DEF JournalInv
  <2>2. Len(pending) <= 1
    BY DEF BenchInit, JournalInit
  <2>3. sent \in 0 .. MaxBytes /\ total \in 0 .. sent /\ lphase = "off"
    BY BytesAssumption DEF BenchInit, LogInit
  <2>4. /\ runner = "start" /\ server = "none" /\ engine = "none"
        /\ termed = FALSE /\ code = FALSE /\ held = FALSE /\ loaded = FALSE
        /\ mode \in {"graph", "cruise"} /\ route \in {"off", "wait"}
        /\ ready = "none" /\ start = FALSE
        /\ profiler = "none" /\ reported = "none"
    BY DEF BenchInit
  <2> QED
    BY <2>1, <2>2, <2>3, <2>4 DEF BenchTypeOK
<1>3. EndInv /\ BarrierInv
  BY DEF BenchInit, LogInit, EndInv, BarrierInv, ProfileAccountedFor
<1> QED
  BY <1>1, <1>2, <1>3 DEF BenchInv

(* The bytes: what is read was sent.                                       *)
LEMMA BytesStep ==
  ASSUME BenchTypeOK, [BenchNext]_benchVars
  PROVE  sent' \in 0 .. MaxBytes /\ total' \in 0 .. sent'
<1> USE DEF logVars, journalVars, runVars, routeVars
<1>0. /\ sent \in Nat /\ total \in Nat /\ total <= sent /\ sent <= MaxBytes
      /\ MaxBytes \in Nat /\ ChunkLimit \in Nat \ {0}
  BY LimitsAssumption, BytesAssumption DEF BenchTypeOK
<1>1. CASE UNCHANGED <<sent, total>>
  BY <1>0, <1>1
<1>2. CASE \E n \in 1 .. 2 : PrintBytes(n)
  BY <1>0, <1>2 DEF PrintBytes
<1>3. CASE LoggerReads
  <2>1. PICK n \in Nat : n <= sent - total /\ ReadChunk(n) /\ sent' = sent
    BY <1>0, <1>3 DEF LoggerReads
  <2> QED
    BY <1>0, <2>1 DEF ReadChunk
<1>4. CASE RunnerStep
  <2>1. UNCHANGED <<sent, total>>
    BY <1>4 DEF RunnerStep, Launch, LaunchFails, Ready, NotReady, WarmedUp, Announce,
       BarrierOpens, LoadRaises, Loaded, Stop, Stopped, GraceOver, LoggerWaited,
       LoggerTimeout, Collect, OpenLog, KillLog
  <2> QED
    BY <1>1, <2>1
<1>5. CASE RouteStep
  <2>1. UNCHANGED <<sent, total>>
    BY <1>5 DEF RouteStep, SeesReady, GivesUpWaiting, TargetFound, TargetMissed,
       OpensBarrier, JoinsBenchmark, JoinsMsprof, RouteUnchanged
  <2> QED
    BY <1>1, <2>1
<1>6. CASE \/ EngineStarts \/ ServerUp \/ Journal \/ EngineExits \/ EngineCrashes
           \/ LoggerEnds \/ UNCHANGED benchVars
           \/ (\E e \in Events : Schedule(e)) \/ (\E ok \in BOOLEAN : ServerEnds(ok))
           \/ \E ok \in BOOLEAN : MsprofEnds(ok)
  <2>1. UNCHANGED <<sent, total>>
    BY <1>6 DEF EngineStarts, ServerUp, Journal, EngineExits, EngineCrashes,
       LoggerEnds, EndLog, benchVars, Schedule, ServerEnds, MsprofEnds,
       RouteUnchanged
  <2> QED
    BY <1>1, <2>1
<1> QED
  BY <1>2, <1>3, <1>4, <1>5, <1>6 DEF BenchNext

LEMMA BenchTypeStep ==
  ASSUME BenchTypeOK, LogInv', JournalInv', [BenchNext]_benchVars
  PROVE  BenchTypeOK'
<1> USE DEF logVars, journalVars, runVars, routeVars
<1> DEFINE Rest == 
      /\ runner \in {"start", "ready", "warmup", "announce", "barrier", "load",
                     "stop", "grace", "logger", "collect", "done"}
      /\ mode \in {"graph", "cruise"}
      /\ route \in {"off", "wait", "unready", "target", "let_go", "settle", "join",
                    "msprof", "passed", "failed", "gone"}
      /\ ready \in {"none", "torn", "full"} /\ start \in BOOLEAN
      /\ profiler \in {"none", "running", "ok", "failed"}
      /\ reported \in {"none", "unready", "let_go", "ok", "failed"}
      /\ server \in {"none", "starting", "up", "dead"}
      /\ engine \in {"none", "up", "dead"}
      /\ termed \in BOOLEAN /\ code \in BOOLEAN /\ held \in BOOLEAN
      /\ loaded \in BOOLEAN
<1>0. Rest
  BY DEF BenchTypeOK
<1>1. Rest'
  <2>1. CASE Launch \/ LaunchFails \/ Ready \/ NotReady \/ WarmedUp \/ Announce
    BY <1>0, <2>1 DEF Launch, LaunchFails, Ready, NotReady, WarmedUp, Announce, GoTo
  <2>2. CASE BarrierOpens \/ LoadRaises \/ \E ok \in BOOLEAN : Loaded(ok)
    BY <1>0, <2>2 DEF BarrierOpens, LoadRaises, Loaded, GoTo
  <2>3. CASE Stop \/ Stopped \/ GraceOver
    <3>1. SrvAlive \in BOOLEAN
      BY DEF SrvAlive
    <3>2. CASE Stop
      <4>1. /\ termed' = SrvAlive /\ runner' \in {"grace", "logger"}
            /\ UNCHANGED <<routeVars, server, engine, code, held, loaded>>
        BY <3>2 DEF Stop, GoTo
      <4>2. termed' \in BOOLEAN
        BY <3>1, <4>1, Zenon
      <4> QED
        BY <1>0, <4>1, <4>2
    <3>3. CASE Stopped \/ GraceOver
      BY <1>0, <3>3 DEF Stopped, GraceOver, GoTo
    <3> QED
      BY <2>3, <3>2, <3>3
  <2>4. CASE LoggerWaited \/ LoggerTimeout \/ Collect
    BY <1>0, <2>4 DEF LoggerWaited, LoggerTimeout, Collect, GoTo
  <2>5. CASE RouteStep
    BY <1>0, <2>5 DEF RouteStep, SeesReady, GivesUpWaiting, TargetFound,
       TargetMissed, OpensBarrier, JoinsBenchmark, JoinsMsprof, RouteUnchanged
  <2>6. CASE \/ EngineStarts \/ ServerUp \/ Journal \/ EngineExits \/ EngineCrashes
             \/ LoggerReads \/ LoggerEnds
    BY <1>0, <2>6 DEF EngineStarts, ServerUp, Journal, EngineExits, EngineCrashes,
       LoggerReads, LoggerEnds
  <2>7. CASE \/ UNCHANGED benchVars \/ (\E n \in 1 .. 2 : PrintBytes(n))
             \/ (\E e \in Events : Schedule(e)) \/ \E ok \in BOOLEAN : ServerEnds(ok)
    BY <1>0, <2>7 DEF PrintBytes, Schedule, ServerEnds, benchVars
  <2>8. CASE \E ok \in BOOLEAN : MsprofEnds(ok)
    BY <1>0, <2>8 DEF MsprofEnds, RouteUnchanged
  <2> HIDE DEF Rest
  <2> QED
    BY <2>1, <2>2, <2>3, <2>4, <2>5, <2>6, <2>7, <2>8 DEF BenchNext, RunnerStep
<1>2. sent' \in 0 .. MaxBytes /\ total' \in 0 .. sent'
  BY BytesStep
<1>3. lphase' \in {"off", "reading", "done", "killed"}
  BY DEF LogInv
<1>4. /\ counters' \in [Names -> Nat] /\ opened' \in BOOLEAN
      /\ Len(journal') <= MaxEvents
  BY DEF JournalInv
<1>5. Len(pending') <= 1
  <2>1. pending' = <<>> \/ \E e \in Events : pending' = <<e>>
    BY DEF JournalInv
  <2>2. CASE pending' = <<>>
    BY <2>2
  <2>3. ASSUME NEW e \in Events, pending' = <<e>> PROVE Len(pending') <= 1
    BY <2>3
  <2> QED
    BY <2>1, <2>2, <2>3
<1> QED
  BY <1>1, <1>2, <1>3, <1>4, <1>5 DEF BenchTypeOK

(* A verdict of passed stays: nothing that made it is left to change.      *)
LEMMA PassStays ==
  ASSUME EndInv, Pass, [BenchNext]_benchVars
  PROVE  Pass'
<1> USE DEF logVars, journalVars, runVars, routeVars, GoTo
<1>1. /\ runner = "done" /\ loaded /\ code /\ ModeIdentity /\ lphase = "done"
      /\ ~SrvAlive
  BY DEF Pass, EndInv, Eof
<1>2. UNCHANGED <<runner, loaded, code, metrics, mode, lphase>>
  <2>1. ~RunnerStep
    BY <1>1 DEF RunnerStep, Launch, LaunchFails, Ready, NotReady, WarmedUp,
       Announce, BarrierOpens, LoadRaises, Loaded, Stop, Stopped, GraceOver,
       LoggerWaited, LoggerTimeout, Collect
  <2>2. CASE RouteStep \/ \E ok \in BOOLEAN : MsprofEnds(ok)
    BY <2>2 DEF RouteStep, SeesReady, GivesUpWaiting, TargetFound, TargetMissed,
       OpensBarrier, JoinsBenchmark, JoinsMsprof, MsprofEnds, RouteUnchanged
  <2>3. CASE \/ EngineStarts \/ ServerUp \/ Journal \/ EngineExits \/ EngineCrashes
             \/ LoggerReads \/ LoggerEnds
    BY <1>1, <2>3 DEF EngineStarts, ServerUp, Journal, EngineExits,
       EngineCrashes, LoggerReads, LoggerEnds, ReadChunk, EndLog
  <2>4. CASE \/ UNCHANGED benchVars \/ (\E n \in 1 .. 2 : PrintBytes(n))
             \/ (\E e \in Events : Schedule(e)) \/ \E ok \in BOOLEAN : ServerEnds(ok)
    BY <1>1, <2>4 DEF PrintBytes, Schedule, ServerEnds, benchVars
  <2> QED
    BY <2>1, <2>2, <2>3, <2>4 DEF BenchNext
<1> QED
  BY <1>1, <1>2 DEF Pass, ModeIdentity

(* The barrier: one action of the runner or of the driver at a time.       *)
LEMMA BarrierStep ==
  ASSUME BenchTypeOK, EndInv, BarrierInv, [BenchNext]_benchVars
  PROVE  BarrierInv'
<1> USE DEF logVars, journalVars, runVars, routeVars, BarrierInv,
            ProfileAccountedFor
<1>0. Pass => Pass'
  BY PassStays
<1>1. CASE Launch \/ LaunchFails \/ Ready \/ NotReady \/ WarmedUp \/ Announce
  BY <1>0, <1>1 DEF Launch, LaunchFails, Ready, NotReady, WarmedUp, Announce, GoTo
<1>2. CASE BarrierOpens \/ LoadRaises \/ \E ok \in BOOLEAN : Loaded(ok)
  BY <1>0, <1>2 DEF BarrierOpens, LoadRaises, Loaded, GoTo
<1>3. CASE Stop \/ Stopped \/ GraceOver \/ LoggerWaited \/ LoggerTimeout \/ Collect
  BY <1>0, <1>3 DEF Stop, Stopped, GraceOver, LoggerWaited, LoggerTimeout, Collect,
     GoTo
<1>4. CASE \/ SeesReady \/ GivesUpWaiting \/ TargetFound \/ TargetMissed
           \/ OpensBarrier
  BY <1>0, <1>4 DEF SeesReady, GivesUpWaiting, TargetFound, TargetMissed,
     OpensBarrier, RouteUnchanged, BenchTypeOK
<1>5. CASE JoinsBenchmark
  BY <1>0, <1>5 DEF JoinsBenchmark, RouteUnchanged, BenchTypeOK
<1>6. CASE JoinsMsprof
  <2>1. profiler \in {"ok", "failed"}
    BY <1>6 DEF JoinsMsprof, BenchTypeOK
  <2> QED
    BY <1>0, <1>6, <2>1 DEF JoinsMsprof, RouteUnchanged
<1>7. CASE \E ok \in BOOLEAN : MsprofEnds(ok)
  BY <1>0, <1>7 DEF MsprofEnds, RouteUnchanged
<1>8. CASE \/ EngineStarts \/ ServerUp \/ Journal \/ EngineExits \/ EngineCrashes
           \/ LoggerReads \/ LoggerEnds
  BY <1>0, <1>8 DEF EngineStarts, ServerUp, Journal, EngineExits, EngineCrashes,
     LoggerReads, LoggerEnds
<1>9. CASE \/ UNCHANGED benchVars \/ (\E n \in 1 .. 2 : PrintBytes(n))
           \/ (\E e \in Events : Schedule(e)) \/ \E ok \in BOOLEAN : ServerEnds(ok)
  BY <1>0, <1>9 DEF PrintBytes, Schedule, ServerEnds, benchVars
<1> QED
  BY <1>1, <1>2, <1>3, <1>4, <1>5, <1>6, <1>7, <1>8, <1>9
     DEF BenchNext, RunnerStep, RouteStep

(* The end: nothing is printed, counted or read once the logger has ended. *)
LEMMA EndStepInv ==
  ASSUME BenchTypeOK, EndInv, [BenchNext]_benchVars
  PROVE  EndInv'
<1> USE DEF logVars, journalVars, runVars, routeVars, EndInv, Eof, SrvAlive
<1>1. CASE Launch \/ LaunchFails
  BY <1>1 DEF Launch, LaunchFails, OpenLog, GoTo
<1>2. CASE Ready \/ NotReady \/ WarmedUp \/ Announce \/ BarrierOpens \/ LoadRaises
  BY <1>2 DEF Ready, NotReady, WarmedUp, Announce, BarrierOpens, LoadRaises, GoTo
<1>3. CASE \E ok \in BOOLEAN : Loaded(ok)
  BY <1>3 DEF Loaded, GoTo
<1>4. CASE Stop \/ Stopped
  BY <1>4 DEF Stop, Stopped, GoTo
<1>5. CASE GraceOver
  BY <1>5 DEF GraceOver, GoTo
<1>6. CASE LoggerWaited \/ LoggerTimeout
  BY <1>6 DEF LoggerWaited, LoggerTimeout, KillLog, GoTo
<1>7. CASE Collect
  BY <1>7 DEF Collect, GoTo
<1>8. CASE RouteStep
  BY <1>8 DEF RouteStep, SeesReady, GivesUpWaiting, TargetFound, TargetMissed,
     OpensBarrier, JoinsBenchmark, JoinsMsprof, RouteUnchanged
<1>9. CASE EngineStarts \/ ServerUp
  BY <1>9 DEF EngineStarts, ServerUp, OpenJournal
<1>10. CASE Journal \/ \E e \in Events : Schedule(e)
  BY <1>10 DEF Journal, Schedule, Append1, Count
<1>11. CASE EngineExits \/ EngineCrashes
  BY <1>11 DEF EngineExits, EngineCrashes, Flush
<1>12. CASE LoggerReads \/ LoggerEnds
  BY <1>12 DEF LoggerReads, LoggerEnds, ReadChunk, EndLog
<1>13. CASE \/ UNCHANGED benchVars \/ (\E n \in 1 .. 2 : PrintBytes(n))
            \/ (\E ok \in BOOLEAN : ServerEnds(ok)) \/ \E ok \in BOOLEAN : MsprofEnds(ok)
  BY <1>13 DEF PrintBytes, ServerEnds, MsprofEnds, RouteUnchanged, benchVars
<1> QED
  BY <1>1, <1>2, <1>3, <1>4, <1>5, <1>6, <1>7, <1>8, <1>9, <1>10, <1>11, <1>12,
     <1>13 DEF BenchNext, RunnerStep

LEMMA BenchNextInv == BenchInv /\ [BenchNext]_benchVars => BenchInv'
<1> SUFFICES ASSUME BenchInv, [BenchNext]_benchVars PROVE BenchInv'
  OBVIOUS
<1>1. BenchTypeOK /\ LogInv /\ JournalInv /\ EndInv /\ BarrierInv
  BY DEF BenchInv
<1>2. [LogNext]_logVars /\ JournalStep
  BY <1>1, BenchParts
<1>3. LogInv' /\ JournalInv'
  BY <1>1, <1>2, LogNextInv, JournalStepInv
<1>4. BenchTypeOK'
  BY <1>1, <1>3, BenchTypeStep
<1>5. EndInv' /\ BarrierInv'
  BY <1>1, EndStepInv, BarrierStep
<1> QED
  BY <1>3, <1>4, <1>5 DEF BenchInv

LEMMA BenchInvariant == BenchSpec => []BenchInv
  BY BenchInitInv, BenchNextInv, PTL DEF BenchSpec
-----------------------------------------------------------------------------
(* The log of a run is exact whenever the bounded logger has ended, however*)
(* server and engine write to the pipe and die (bounded_log.py 49-92 inside*)
(* run_service).                                                           *)
THEOREM RunLogsAreExact == BenchSpec => []LogExact
<1>1. BenchInv => LogExact
  BY DEF BenchInv, LogInv
<1> QED
  BY <1>1, BenchInvariant, PTL

(* For journals of every length and every reason, replay_event_journal     *)
(* gives the counters of the engine but for the one event it had counted   *)
(* and not yet appended, at whatever moment it died (61-120, 148-190).     *)
THEOREM JournalReplaysExactly == BenchSpec => []ReplayExact
<1>1. BenchInv => ReplayExact
  BY DEF BenchInv, JournalInv
<1> QED
  BY <1>1, BenchInvariant, PTL

(* A run reported as passed left no process behind, logged the whole       *)
(* output and reports all the engine did (run_benchmark.py 802-838).       *)
THEOREM PassesAreComplete == BenchSpec => []PassIsComplete
<1>1. BenchInv => PassIsComplete
  <2> SUFFICES ASSUME BenchInv, Pass
               PROVE  /\ ~SrvAlive /\ engine = "dead" /\ total = sent
                      /\ mode = "cruise" =>
                           counters = FoldLeft(Counted, metrics[1], pending)
    BY DEF PassIsComplete
  <2>1. runner = "done" /\ loaded /\ lphase = "done"
    BY DEF Pass
  <2>2. /\ Eof /\ total = sent /\ engine # "none"
        /\ mode = "cruise" => metrics = <<ReplayEventJournal(journal)>>
    BY <2>1 DEF BenchInv, EndInv
  <2>3. ~SrvAlive /\ engine = "dead"
    BY <2>2 DEF Eof, BenchInv, BenchTypeOK
  <2>4. mode = "cruise" => metrics[1] = ReplayEventJournal(journal)
    BY <2>2
  <2>5. counters = FoldLeft(Counted, ReplayEventJournal(journal), pending)
    BY DEF BenchInv, JournalInv, ReplayExact
  <2> QED
    BY <2>2, <2>3, <2>4, <2>5, Zenon
<1> QED
  BY <1>1, BenchInvariant, PTL

(* A profiled run is never measured before msprof was launched or its      *)
(* target given up, and a route that returns success passed, with msprof   *)
(* ended and its status, good or bad, in the table (626-634, 317-358).     *)
THEOREM ProfilesAreAccountedFor == BenchSpec => []ProfileAccountedFor
<1>1. BenchInv => ProfileAccountedFor
  BY DEF BenchInv, BarrierInv
<1> QED
  BY <1>1, BenchInvariant, PTL
=============================================================================
