--------------------------- MODULE MetricsJournal ---------------------------
(***************************************************************************)
(* benchmark_metrics.py: the engine process counts what it schedules and   *)
(* what comes back, appends every event to a journal, and writes the       *)
(* counters to a file when it exits in order.  A journal is replayed when  *)
(* the engine ended otherwise.  Counting an event and appending it are two *)
(* steps: the process can end in between.                                  *)
(***************************************************************************)
EXTENDS Naturals, Sequences, SequencesExt

CONSTANTS MaxEvents,   \* bound on the events of one engine
          Rejections,  \* the reasons given for a Host schedule, "none" for None
          Imported     \* whether the Device results imported KV

VARIABLES counters,  \* in the engine's memory
          pending,   \* counted and not yet appended, or <<>>
          opened,    \* the event file exists
          journal,   \* the event file
          flushed    \* the metrics file, or <<>> when there is none

journalVars == <<counters, pending, opened, journal, flushed>>

(* record_schedule and record_result are called with a plan or none and    *)
(* with a Device result or another one; small plans and results.           *)
Events ==
    [kind : {"schedule"}, device : {FALSE}, rejection : Rejections]
        \cup [kind : {"schedule"}, device : {TRUE}, requests : {2}, steps : {3}]
        \cup [kind : {"result"}, device : {FALSE}]
        \cup [kind : {"result"}, device : {TRUE}, calls : {3}, tokens : {4},
              feeds : {1}, fetches : {1}, imported : Imported]

(* The counters with a name of their own, and the reasons for the Host,    *)
(* which have a Counter of their own: no reason is one of the others.      *)
CounterNames ==
    {"schedule_calls", "host_schedule_calls", "device_plan_calls",
     "device_planned_requests", "device_planned_model_calls", "epoch_steps",
     "non_device_results", "device_epochs", "device_model_calls",
     "device_request_tokens", "feed_calls", "fetch_calls", "kv_imports"}

Names == CounterNames \cup (Rejections \ {"none"}) \cup {"unspecified"}

ASSUME JournalAssumption ==
    /\ MaxEvents \in Nat /\ Imported \subseteq BOOLEAN
    /\ Rejections \cap CounterNames = {}

Reason(e) == IF e.rejection = "none" THEN "unspecified" ELSE e.rejection

Zero == [n \in Names |-> 0]

(* What record_schedule and record_result add to the counters.             *)
Counted(c, e) ==
    IF e.kind = "schedule" THEN
        IF e.device
        THEN [c EXCEPT !["schedule_calls"] = @ + 1,
                       !["device_plan_calls"] = @ + 1,
                       !["device_planned_requests"] = @ + e.requests,
                       !["device_planned_model_calls"] = @ + e.steps,
                       !["epoch_steps"] = @ + 1]
        ELSE [c EXCEPT !["schedule_calls"] = @ + 1,
                       !["host_schedule_calls"] = @ + 1,
                       ![Reason(e)] = @ + 1]
    ELSE IF e.device
        THEN [c EXCEPT !["device_epochs"] = @ + 1,
                       !["device_model_calls"] = @ + e.calls,
                       !["device_request_tokens"] = @ + e.tokens,
                       !["feed_calls"] = @ + e.feeds,
                       !["fetch_calls"] = @ + e.fetches,
                       !["kv_imports"] = @ + (IF e.imported THEN 1 ELSE 0)]
        ELSE [c EXCEPT !["non_device_results"] = @ + 1]

MutantReplaySkipsImports(c, e) ==
    CASE e.kind = "schedule" -> Counted(c, e)
      [] e.kind = "result" /\ ~e.device -> Counted(c, e)
      [] OTHER -> [Counted(c, e) EXCEPT !["kv_imports"] = c["kv_imports"]]

(* What one line of the journal adds in replay_event_journal: the counters *)
(* of a schedule line and of a result line, summed by name.                *)
Replayed(c, e) ==
    LET added == CASE e.kind = "schedule" /\ e.device ->
                        [device_plan_calls |-> 1,
                         device_planned_requests |-> e.requests,
                         device_planned_model_calls |-> e.steps,
                         epoch_steps |-> 1, schedule_calls |-> 1]
                   [] e.kind = "schedule" /\ ~e.device ->
                        [n \in {"host_schedule_calls", "schedule_calls",
                                Reason(e)} |-> 1]
                   [] e.kind = "result" /\ ~e.device ->
                        [non_device_results |-> 1]
                   [] e.kind = "result" /\ e.device ->
                        [device_epochs |-> 1, device_model_calls |-> e.calls,
                         device_request_tokens |-> e.tokens,
                         feed_calls |-> e.feeds, fetch_calls |-> e.fetches,
                         kv_imports |-> IF e.imported THEN 1 ELSE 0]
    IN  [n \in Names |-> c[n] + (IF n \in DOMAIN added THEN added[n] ELSE 0)]

ReplayEventJournal(j) == FoldLeft(Replayed, Zero, j)

JournalInit ==
    /\ counters = Zero /\ pending = <<>> /\ flushed = <<>>
    /\ opened = FALSE /\ journal = <<>>

(* __init__ opens the journal, which creates it.                           *)
OpenJournal == opened' = TRUE /\ UNCHANGED <<counters, pending, journal, flushed>>

Count(e) ==
    /\ pending = <<>> /\ Len(journal) < MaxEvents
    /\ counters' = Counted(counters, e)
    /\ pending' = <<e>>
    /\ UNCHANGED <<opened, journal, flushed>>

Append1 ==
    /\ pending # <<>>
    /\ journal' = journal \o pending
    /\ pending' = <<>>
    /\ UNCHANGED <<counters, opened, flushed>>

(* flush, from the exit handler: write beside and replace, so that the     *)
(* file is there in full or not at all.  A SIGTERM that raises SystemExit  *)
(* between counting and appending leads here too.                          *)
Flush == flushed' = <<counters>> /\ UNCHANGED <<counters, pending, opened, journal>>
=============================================================================
