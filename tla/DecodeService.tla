--------------------------- MODULE DecodeService ----------------------------
(***************************************************************************)
(* What the decode path promises its clients, without rows, epochs,        *)
(* owners, lanes or processes: a request that is accepted is given the     *)
(* next tokens of its greedy stream, some at a time, never more than it    *)
(* asked for, never after it has ended, and nobody else's; when nothing    *)
(* can be promised any more the service stops, and what was given stands.  *)
(*                                                                         *)
(* `right' says that every token given so far was the one stock greedy     *)
(* decoding gives at its place; no action makes it false.                  *)
(***************************************************************************)
EXTENDS Integers

CONSTANTS
  Req,     \* request ids
  Burst    \* the most tokens one delivery holds for a request

VARIABLES
  live,    \* requests in service
  given,   \* how many tokens a request has been given
  limit,   \* how many it asked for
  right

serviceVars == <<live, given, limit, right>>

ServiceInit ==
  /\ live = {}
  /\ given = [r \in Req |-> 0]
  /\ limit \in [Req -> Nat]
  /\ right = TRUE

Submit(r) ==
  /\ r \notin live
  /\ live' = live \cup {r}
  /\ given' = [given EXCEPT ![r] = 0]
  /\ limit'[r] > 0
  /\ \A q \in Req \ {r} : limit'[q] = limit[q]
  /\ UNCHANGED right

(* A request ends with a delivery: at its limit, or earlier at EOS. *)
Deliver ==
  /\ \A r \in Req : given'[r] # given[r] =>
       /\ r \in live
       /\ given'[r] \in given[r] + 1 .. given[r] + Burst
       /\ given'[r] <= limit[r]
  /\ live' \subseteq live
  /\ \A r \in live \ live' : given'[r] > given[r]
  /\ \A r \in live' : given'[r] < limit[r]
  /\ UNCHANGED <<limit, right>>

Cancel(r) ==
  /\ r \in live
  /\ live' = live \ {r}
  /\ UNCHANGED <<given, limit, right>>

ServiceNext == Deliver \/ \E r \in Req : Submit(r) \/ Cancel(r)

ServiceSpec == ServiceInit /\ [][ServiceNext]_serviceVars
=============================================================================
