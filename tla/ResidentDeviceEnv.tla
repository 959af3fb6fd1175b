-------------------------- MODULE ResidentDeviceEnv -------------------------
(***************************************************************************)
(* The Device under a Host that keeps only one promise: a generation names *)
(* one request, and a row is given generations that only grow.  Positions, *)
(* tokens, epoch lengths and the choice between import, continuation and   *)
(* fresh start are arbitrary, so this is what the Device defends by itself *)
(* against a Host whose accounting has gone wrong.                         *)
(***************************************************************************)
EXTENDS ResidentDevice

CONSTANT MaxGen   \* bound on the generations handed out

ASSUME EnvAssumption == MaxGen \in Nat \ {0}

VARIABLES
  leaseGen,     \* the generation each row was last leased under, 0 before
  leaseStream,  \* the request it was leased to
  lastGen       \* the newest generation

envVars == <<deviceVars, leaseGen, leaseStream, lastGen>>

EnvInit ==
  /\ DeviceInit
  /\ leaseGen = [x \in Rows |-> 0]
  /\ leaseStream = [x \in Rows |-> Junk]
  /\ lastGen = 0

(* _assign_resident_rows hands the row to a request. *)
Lease(x, r) ==
  /\ lastGen < MaxGen
  /\ lastGen' = lastGen + 1
  /\ leaseGen' = [leaseGen EXCEPT ![x] = lastGen + 1]
  /\ leaseStream' = [leaseStream EXCEPT ![x] = r]
  /\ UNCHANGED deviceVars

(* What the Host may send for the leased rows of A: any positions, the     *)
(* right token or another one, and the stock model's KV for an import.     *)
Request(A, pos, k, imp, odd) ==
  [active |-> A,
   gen |-> [x \in Rows |-> IF x \in A THEN leaseGen[x] ELSE 0],
   tok |-> [x \in Rows |-> IF x \in odd THEN Junk ELSE leaseStream[x]],
   pos |-> pos, steps |-> k, import |-> imp,
   payload |-> [x \in Rows |-> [p \in Positions |->
                  IF p < pos[x] THEN leaseStream[x] ELSE Junk]]]

(* A token that is not the stream's is only ever claimed for a row that is *)
(* past its first token and is not imported.                               *)
Submit(A, pos, k, imp, odd) ==
  /\ A # {} /\ imp \subseteq A /\ odd \subseteq A \ imp
  /\ \A x \in A : leaseGen[x] > 0
  /\ \A x \in odd : pos[x] > 0
  /\ Proc(Request(A, pos, k, imp, odd), TRUE)
  /\ UNCHANGED <<leaseGen, leaseStream, lastGen>>

EnvNext ==
  \/ \E x \in Rows, r \in Streams : Lease(x, r)
  \/ \E A \in SUBSET Rows : \E pos \in [Rows -> Positions] :
     \E k \in 1 .. EpochMax, imp \in SUBSET A, odd \in SUBSET A :
       /\ \A x \in Rows \ A : pos[x] = 0
       /\ Submit(A, pos, k, imp, odd)

EnvSpec == EnvInit /\ [][EnvNext]_envVars

(* Whatever the Host claims about positions, tokens and ownership, an      *)
(* epoch that returns status 0 has sampled only right tokens: a lost,      *)
(* repeated, skipped or overwritten decoding step is caught by the         *)
(* generation and continuity checks, also after failed epochs.             *)
AnswersAreRight == reply.wrong = {}

(* The same for the state kept: a row that is resident under its current   *)
(* lease holds the KV of every position before its next one.               *)
ResidentKVComplete ==
  \A x \in resValid :
    resGen[x] = leaseGen[x] =>
      /\ resTok[x] = leaseStream[x]
      /\ \A p \in Positions : p < resPos[x] => kv[x][p] = leaseStream[x]

=============================================================================
