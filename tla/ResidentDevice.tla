--------------------------- MODULE ResidentDevice ---------------------------
(***************************************************************************)
(* The Device UDF G4cB4ResidentEpoch (controller/g4c_b4_resident_epoch.cpp)*)
(* keeps one decoder state per row between epochs: a Paged-KV cache and    *)
(* the generation, next token and position it belongs to.  Proc() runs one *)
(* epoch: validate, import, check continuity, decode, commit.              *)
(*                                                                         *)
(* Greedy decoding makes the tokens of a request (a stream) a function of  *)
(* its prompt, so data is abstracted to whether it is the right data.  A   *)
(* token is the stream it belongs to, at the position that goes with it; a *)
(* KV entry is the stream whose key and value it holds; Junk is anything   *)
(* else.  One decoder call on the right token over a right KV prefix gives *)
(* a right KV entry and the right next token; otherwise both are Junk.     *)
(*                                                                         *)
(* resident_length_ is always resident_position_ + 1 and initial_length is *)
(* checked to be initial_position + 1, so lengths are left out.            *)
(***************************************************************************)
EXTENDS Integers

CONSTANTS
  Rows,      \* 0 .. kBatchSize - 1
  Streams,   \* the requests a row may decode
  Depth,     \* kLogicalCapacity
  EpochMax,  \* kMaxEpochSteps
  Junk       \* a token or KV entry that is no stream's

Positions == 0 .. Depth - 1
Data == Streams \cup {Junk}

ASSUME DeviceAssumption ==
  /\ Depth \in Nat \ {0}
  /\ EpochMax \in Nat \ {0}
  /\ Junk \notin Streams

VARIABLES
  resGen,    \* resident_generation_
  resTok,    \* resident_token_
  resPos,    \* resident_position_
  resValid,  \* the rows with resident_valid_ set
  kv,        \* resident_key_ and resident_value_
  reply      \* the output tensors of the last Proc()

residentVars == <<resGen, resTok, resPos, resValid, kv>>
deviceVars == <<residentVars, reply>>

Empty == [p \in Positions |-> Junk]
NoReply == [status |-> 0, got |-> [x \in Rows |-> 0], eos |-> {}, wrong |-> {}]

(* Init(), and the zeroed cache that the first Proc() allocates. *)
DeviceInit ==
  /\ resGen = [x \in Rows |-> 0]
  /\ resTok = [x \in Rows |-> Junk]
  /\ resPos = [x \in Rows |-> 0]
  /\ resValid = {}
  /\ kv = [x \in Rows |-> Empty]
  /\ reply = NoReply

(* The input tensors of an epoch.  payload is the Paged-KV to import into  *)
(* the rows of import.                                                     *)
EpochInputs ==
  [active : SUBSET Rows, gen : [Rows -> Nat], tok : [Rows -> Data],
   pos : [Rows -> Nat], steps : Nat,
   import : SUBSET Rows, payload : [Rows -> [Positions -> Data]]]

InvalidMetadata(i) ==
  \/ i.steps \notin 1 .. EpochMax
  \/ \E x \in i.active : i.gen[x] = 0 \/ i.pos[x] + i.steps > Depth

(* The resident state after the import of i, which comes before the        *)
(* continuity check and is not undone by it.                               *)
MutantImportWithoutCopy(i) == kv
ImportedKV(i) == [x \in Rows |-> IF x \in i.import THEN i.payload[x] ELSE kv[x]]
Overlay(i, new, old) == [x \in Rows |-> IF x \in i.import THEN new[x] ELSE old[x]]

Import(i) ==
  /\ resGen' = Overlay(i, i.gen, resGen)
  /\ resTok' = Overlay(i, i.tok, resTok)
  /\ resPos' = Overlay(i, i.pos, resPos)
  /\ resValid' = resValid \cup i.import

(* A row continues its generation from exactly where it stopped, or starts *)
(* a generation from position zero.                                        *)
Continues(i, x) == x \in i.import \/ resGen[x] = i.gen[x]
MutantPositionUnchecked(i) ==
  \A x \in i.active \ i.import :
    IF Continues(i, x) THEN x \in resValid /\ resTok[x] = i.tok[x]
                       ELSE i.pos[x] = 0

Continuous(i) ==
  \A x \in i.active \ i.import :
    IF Continues(i, x)
    THEN x \in resValid /\ resTok[x] = i.tok[x] /\ resPos[x] = i.pos[x]
    ELSE i.pos[x] = 0

(* The cache the decoder starts from: rows that start a generation are     *)
(* cleared.                                                                *)
StartKV(i) ==
  [x \in Rows |-> IF x \in i.active /\ ~Continues(i, x) THEN Empty
                  ELSE ImportedKV(i)[x]]

PrefixRight(i, x) ==
  /\ i.tok[x] # Junk
  /\ \A p \in Positions : p < i.pos[x] => StartKV(i)[x][p] = i.tok[x]

Fallback(status) ==
  reply' = [NoReply EXCEPT !.status = status]

-----------------------------------------------------------------------------
(***************************************************************************)
(* The ways a Proc() ends.                                                 *)
(***************************************************************************)

ProcInvalid(i) ==
  /\ InvalidMetadata(i)
  /\ Fallback(201)
  /\ UNCHANGED residentVars

ProcDiscontinuous(i) ==
  /\ ~InvalidMetadata(i) /\ ~Continuous(i)
  /\ Import(i)
  /\ kv' = ImportedKV(i)
  /\ Fallback(212)

(* A decoder call fails.  The generations, tokens and positions stay; the  *)
(* cache has been cleared for new rows, and the entries the calls were to  *)
(* write may or may not have been written in place, for the rows of D they *)
(* are lost.                                                               *)
ProcModelError(i, D) ==
  /\ ~InvalidMetadata(i) /\ Continuous(i)
  /\ D \subseteq i.active
  /\ Import(i)
  /\ kv' = [x \in Rows |->
              IF x \in D
              THEN [p \in Positions |-> IF p >= i.pos[x] THEN Junk
                                        ELSE StartKV(i)[x][p]]
              ELSE StartKV(i)[x]]
  /\ Fallback(207)

(* n[x] tokens for row x, fewer than steps only when the last is EOS. *)
ProcOk(i, n, E) ==
  /\ ~InvalidMetadata(i) /\ Continuous(i)
  /\ E \subseteq i.active
  /\ \A x \in i.active : n[x] \in 1 .. i.steps /\ (n[x] < i.steps => x \in E)
  /\ kv' = [x \in Rows |->
              IF x \in i.active
              THEN [p \in Positions |->
                      IF p \in i.pos[x] .. i.pos[x] + n[x] - 1
                      THEN IF PrefixRight(i, x) THEN i.tok[x] ELSE Junk
                      ELSE StartKV(i)[x][p]]
              ELSE kv[x]]
  /\ resGen' = [x \in Rows |-> IF x \in i.active THEN i.gen[x] ELSE resGen[x]]
  /\ resTok' = [x \in Rows |->
                  IF x \notin i.active THEN resTok[x]
                  ELSE IF PrefixRight(i, x) THEN i.tok[x] ELSE Junk]
  /\ resPos' = [x \in Rows |-> IF x \in i.active THEN i.pos[x] + n[x]
                               ELSE resPos[x]]
  /\ resValid' = resValid \cup i.active
  /\ reply' = [status |-> 0,
               got |-> [x \in Rows |-> IF x \in i.active THEN n[x] ELSE 0],
               eos |-> E,
               wrong |-> {x \in i.active : ~PrefixRight(i, x)}]

(* Model failures happen only when `faulty' says so. *)
Proc(i, faulty) ==
  \/ ProcInvalid(i)
  \/ ProcDiscontinuous(i)
  \/ faulty /\ \E D \in SUBSET i.active : ProcModelError(i, D)
  \/ \E n \in [i.active -> 1 .. i.steps], E \in SUBSET i.active : ProcOk(i, n, E)

-----------------------------------------------------------------------------
(* The state of the Device is well formed. *)
DeviceTypeOK ==
  /\ resGen \in [Rows -> Nat]
  /\ resTok \in [Rows -> Data]
  /\ resPos \in [Rows -> Nat]
  /\ resValid \subseteq Rows
  /\ kv \in [Rows -> [Positions -> Data]]
  /\ reply \in [status : Nat, got : [Rows -> Nat], eos : SUBSET Rows,
                wrong : SUBSET Rows]

=============================================================================
