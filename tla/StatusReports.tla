----------------------------- MODULE StatusReports -----------------------------
(***************************************************************************)
(* What a PostgresReplication's status says of it (handlers/common.py,     *)
(* handlers/replication.py, status.py and reconcile/health.py): the        *)
(* conditions and the phase they collapse into, the state the two servers  *)
(* put the replication in, and what of it the next pass compares with.     *)
(*                                                                         *)
(* Two handlers write it, the change handler and the timer.  Each works    *)
(* from the body it was called with, which other writes may have overtaken *)
(* by the time it holds the resource's lock; a paused one takes no lock.   *)
(* A failed pass writes twice, health first.                               *)
(*                                                                         *)
(* Abstracted: what the pass converges (modules Replication and            *)
(* PublicationTables), messages, times, generations and the numbers that   *)
(* are only shown; Synced, which nothing here depends on.  The spec stays  *)
(* readable by observe_from_status; a missing slot counts as a lost one.   *)
(***************************************************************************)
EXTENDS Naturals

CONSTANTS
  MaxErrors,    \* bound, for TLC: apply errors the server has counted
  Budgets       \* bounds, for TLC: edits of the spec, changes of the servers, writes lost

ASSUME MaxErrorsIsNat == MaxErrors \in Nat
ASSUME BudgetsAreNat == Budgets \subseteq [edits : Nat, changes : Nat, losses : Nat]

VARIABLES
  spec,     \* what of the spec matters: paused, enabled, and whether a pass can accept it
  up,       \* whether each server answers
  slot,     \* the slot on the source: lost, with a consumer, and how far it lags
  apply,    \* the subscription on the target: worker, errors counted, its tables
  status,   \* the resource's status
  task,     \* the two handlers
  due,      \* the change handler has to be called
  budget    \* how often the bounded actions may still happen

vars == <<spec, up, slot, apply, status, task, due, budget>>
servers == <<up, slot, apply>>

Task == {"change", "timer"}
State == {"Initializing", "Streaming", "Lagging", "Stalled", "SlotLost", "Disabled"}
DegradingReasons == {"Lagging", "Stalled", "SlotLost"}
Unread == MaxErrors + 1     \* None: a value that could not be read
Since == {"none", "recent", "old"}   \* old: longer ago than alerting.maxSlotInactive
\* Lag: below 80 % of its threshold, between that and the threshold, over it.
Clear == 0
Band == 1
Over == 2

Health == [state : State, errors : 0..Unread, since : Since]
Conditions == [ready : {"Reconciled", "Paused", "ConnectionFailed", "Failed"},
               reachable : BOOLEAN, streaming : State, drifted : BOOLEAN]
Phase == {"Ready", "Drifted", "Degraded", "Unreachable", "Failed", "Paused"}
Status == [conditions : Conditions, phase : Phase, health : Health]
Asked == [paused : BOOLEAN, enabled : BOOLEAN, valid : BOOLEAN]
Body == [spec : Asked, status : Status]

TypeOK ==
  /\ spec \in Asked
  /\ up \in [source : BOOLEAN, target : BOOLEAN]
  /\ slot \in [lost : BOOLEAN, consumer : BOOLEAN, lag : {Clear, Band, Over}]
  /\ apply \in [running : BOOLEAN, errors : 0..MaxErrors,
                tables : {"copying", "ready", "held"}]
  /\ status \in Status
  /\ task \in [Task -> [pc : {"idle", "paused", "queued", "pass", "report", "failed",
                              "note", "publish"},
                        body : Body, why : {"none", "ConnectionFailed", "Failed"},
                        seen : Health, held : BOOLEAN]]
  /\ due \in BOOLEAN
  /\ budget \in [edits : Nat, changes : Nat, losses : Nat]

Healthy ==
  [conditions |-> [ready |-> "Reconciled", reachable |-> TRUE,
                   streaming |-> "Streaming", drifted |-> FALSE],
   phase |-> "Ready", health |-> [state |-> "Streaming", errors |-> 0, since |-> "none"]]

Idle == [pc |-> "idle", why |-> "none", seen |-> Healthy.health, held |-> FALSE,
         body |-> [spec |-> [paused |-> FALSE, enabled |-> TRUE, valid |-> TRUE],
                   status |-> Healthy]]

\* Collapse conditions into a single phase.
PhaseOf(c) ==
  IF c.ready = "Reconciled"
  THEN IF c.streaming \in DegradingReasons THEN "Degraded"
       ELSE IF c.drifted THEN "Drifted" ELSE "Ready"
  ELSE IF c.ready = "Paused" THEN "Paused"
  ELSE IF ~c.reachable THEN "Unreachable" ELSE "Failed"

----------------------------------------------------------------------------
(* Deciding the state.  Worst first: a lost slot outranks being switched off. *)

\* What can be read of the subscription; nothing of it where the target does not answer.
Subscription ==
  IF up.target
  THEN [stopped |-> ~apply.running, errors |-> apply.errors,
        copying |-> apply.tables = "copying"]
  ELSE [stopped |-> FALSE, errors |-> Unread, copying |-> FALSE]

\* Mutant: the time is taken anew on every pass.
InactiveNow(previous) == IF slot.lost \/ slot.consumer THEN "none" ELSE "recent"

InactiveSince(previous) ==
  IF slot.lost \/ slot.consumer THEN "none"
  ELSE IF previous.since = "none" THEN "recent" ELSE previous.since

ErrorsRose(previous) ==
  /\ previous.errors # Unread /\ Subscription.errors # Unread
  /\ Subscription.errors > previous.errors

Stalls(previous) ==
  Subscription.stopped \/ InactiveSince(previous) = "old" \/ ErrorsRose(previous)

\* A Lagging replication recovers only below 80 % of its threshold.
Lags(previous) == slot.lag >= (IF previous.state = "Lagging" THEN Band ELSE Over)

\* Mutant: being switched off outranks a lost slot.
DisabledFirst(previous, enabled) ==
  IF ~enabled THEN "Disabled"
  ELSE IF slot.lost THEN "SlotLost"
  ELSE IF Stalls(previous) THEN "Stalled"
  ELSE IF Lags(previous) THEN "Lagging"
  ELSE IF Subscription.copying THEN "Initializing" ELSE "Streaming"

StateSeen(previous, enabled) ==
  IF slot.lost THEN "SlotLost"
  ELSE IF ~enabled THEN "Disabled"
  ELSE IF Stalls(previous) THEN "Stalled"
  ELSE IF Lags(previous) THEN "Lagging"
  ELSE IF Subscription.copying THEN "Initializing" ELSE "Streaming"

Assess(previous, enabled) ==
  [state |-> StateSeen(previous, enabled), errors |-> Subscription.errors,
   since |-> InactiveSince(previous)]

----------------------------------------------------------------------------
(* The handlers. *)

Held == \E t \in Task : task[t].pc \in {"pass", "report", "failed", "note", "publish"}

Goto(t, pc) == task' = [task EXCEPT ![t].pc = pc]

\* A handler is called, with the body as it is now.
Wake(t) ==
  /\ task[t].pc = "idle"
  /\ t = "change" => due
  /\ due' = (due /\ t # "change")
  /\ task' = [task EXCEPT ![t].pc = IF spec.paused THEN "paused" ELSE "queued",
                          ![t].body = [spec |-> spec, status |-> status]]
  /\ UNCHANGED <<spec, servers, status, budget>>

\* A handler returns, and releases the lock if it holds it; after a temporary error
\* the change handler is called again.
End(t, again) ==
  /\ task' = [task EXCEPT ![t] = Idle]
  /\ due' = (due \/ (t = "change" /\ again))

\* publish_paused: no lock, no connection, conditions merged over those of the body.
PublishPaused(t) ==
  LET c == [task[t].body.status.conditions EXCEPT !.ready = "Paused"]
  IN /\ task[t].pc = "paused"
     /\ status' = [status EXCEPT !.conditions = c, !.phase = PhaseOf(c)]
     /\ End(t, FALSE)
     /\ UNCHANGED <<spec, servers, budget>>

\* run_reconcile takes the resource's lock.
Enter(t) ==
  /\ task[t].pc = "queued" /\ ~Held
  /\ Goto(t, "pass")
  /\ UNCHANGED <<spec, servers, status, due, budget>>

\* The pass converges, and observes health on its open connections.
Converge(t) ==
  LET b == task[t].body
  IN /\ task[t].pc = "pass" /\ b.spec.valid /\ up.source /\ up.target
     /\ task' = [task EXCEPT ![t].pc = "report",
                             ![t].seen = Assess(b.status.health, b.spec.enabled),
                             ![t].held = apply.tables = "held"]
     /\ UNCHANGED <<spec, servers, status, due, budget>>

\* The pass fails: a server does not answer, or the spec asks for what cannot be.
Fail(t) ==
  /\ task[t].pc = "pass"
  /\ \E why \in {"ConnectionFailed", "Failed"} :
       /\ why = "ConnectionFailed" => ~(up.source /\ up.target)
       /\ why = "Failed" => ~task[t].body.spec.valid
       /\ task' = [task EXCEPT ![t].pc = "failed", ![t].why = why]
  /\ UNCHANGED <<spec, servers, status, due, budget>>

\* Mutant: a slot that cannot be seen is taken to be gone.
ObserveUnseen(t) ==
  LET b == task[t].body
      h == Assess(b.status.health, b.spec.enabled)
  IN /\ task[t].pc = "failed"
     /\ task' = [task EXCEPT ![t].pc = "note",
                             ![t].seen = IF up.source THEN h ELSE [h EXCEPT !.state = "SlotLost"]]
     /\ UNCHANGED <<spec, servers, status, due, budget>>

\* After a failed pass: health from the names and oid status records, unless the
\* source cannot be read.
ObserveAnyway(t) ==
  LET b == task[t].body
  IN /\ task[t].pc = "failed"
     /\ task' = IF up.source
                THEN [task EXCEPT ![t].pc = "note",
                                  ![t].seen = Assess(b.status.health, b.spec.enabled)]
                ELSE [task EXCEPT ![t].pc = "publish"]
     /\ UNCHANGED <<spec, servers, status, due, budget>>

\* ... and status.health and replicationState, at once.
PatchHealth(t) ==
  /\ task[t].pc = "note"
  /\ status' = [status EXCEPT !.health = task[t].seen]
  /\ Goto(t, "publish")
  /\ UNCHANGED <<spec, servers, due, budget>>

\* Mutant: Reachable is left as the last good pass wrote it.
OnlyNotReady(t) == [task[t].body.status.conditions EXCEPT !.ready = task[t].why]

FailureConditions(t) ==
  [task[t].body.status.conditions EXCEPT
     !.ready = task[t].why,
     !.reachable = @ /\ task[t].why # "ConnectionFailed"]

\* Whether a pass that failed is tried again: not where only the spec can help.
Retried(t) == IF task[t].why = "ConnectionFailed" THEN {TRUE} ELSE BOOLEAN

\* _publish_failure: conditions merged over those of the body.
PublishFailure(t) ==
  /\ task[t].pc = "publish"
  /\ status' = [status EXCEPT !.conditions = FailureConditions(t),
                              !.phase = PhaseOf(FailureConditions(t))]
  /\ \E again \in Retried(t) : End(t, again)
  /\ UNCHANGED <<spec, servers, budget>>

ReportConditions(t) ==
  [ready |-> "Reconciled", reachable |-> TRUE, streaming |-> task[t].seen.state,
   drifted |-> task[t].held]

\* build_status, and the one patch that ends a pass that succeeded.
Report(t) ==
  /\ task[t].pc = "report"
  /\ status' = [conditions |-> ReportConditions(t), phase |-> PhaseOf(ReportConditions(t)),
                health |-> task[t].seen]
  /\ End(t, FALSE)
  /\ UNCHANGED <<spec, servers, budget>>

\* The API server refuses a patch.  After a failure nobody is told; otherwise the
\* handler fails with it, and is tried again.
LosePatch(t) ==
  /\ budget.losses > 0
  /\ budget' = [budget EXCEPT !.losses = @ - 1]
  /\ \/ task[t].pc \in {"report", "paused"} /\ End(t, TRUE)
     \/ task[t].pc = "publish" /\ (\E again \in Retried(t) : End(t, again))
     \/ task[t].pc = "note" /\ Goto(t, "publish") /\ UNCHANGED due
  /\ UNCHANGED <<spec, servers, status>>

----------------------------------------------------------------------------
(* Everything else. *)

Edit ==
  /\ budget.edits > 0
  /\ budget' = [budget EXCEPT !.edits = @ - 1]
  /\ \E s \in Asked \ {spec} : spec' = s
  /\ due' = TRUE
  /\ UNCHANGED <<servers, status, task>>

Change ==
  /\ budget.changes > 0
  /\ budget' = [budget EXCEPT !.changes = @ - 1]
  /\ UNCHANGED <<spec, status, task, due>>

\* A server stops answering, or answers again.
Outage ==
  /\ Change
  /\ \E side \in {"source", "target"} : up' = [up EXCEPT ![side] = ~@]
  /\ UNCHANGED <<slot, apply>>

\* The slot is invalidated or dropped: nothing brings it back.
LoseSlot ==
  /\ Change /\ ~slot.lost
  /\ slot' = [slot EXCEPT !.lost = TRUE, !.consumer = FALSE]
  /\ UNCHANGED <<up, apply>>

\* A walsender comes or goes; the slot's lag grows or shrinks.
MoveSlot ==
  /\ Change /\ ~slot.lost
  /\ \/ slot' = [slot EXCEPT !.consumer = ~@]
     \/ \E lag \in {Clear, Band, Over} \ {slot.lag} : slot' = [slot EXCEPT !.lag = lag]
  /\ UNCHANGED <<up, apply>>

\* The worker stops or starts, an apply error is counted or the statistics are
\* reset, a table is copied or held back.
MoveApply ==
  /\ Change
  /\ \/ apply' = [apply EXCEPT !.running = ~@]
     \/ apply.errors < MaxErrors /\ apply' = [apply EXCEPT !.errors = @ + 1]
     \/ apply.errors > 0 /\ apply' = [apply EXCEPT !.errors = 0]
     \/ \E tables \in {"copying", "ready", "held"} \ {apply.tables} :
          apply' = [apply EXCEPT !.tables = tables]
  /\ UNCHANGED <<up, slot>>

Aged(h) == [h EXCEPT !.since = IF @ = "recent" THEN "old" ELSE @]

\* alerting.maxSlotInactive passes.
Age ==
  /\ status' = [status EXCEPT !.health = Aged(@)]
  /\ task' = [t \in Task |-> [task[t] EXCEPT !.body.status.health = Aged(@),
                                             !.seen = Aged(@)]]
  /\ UNCHANGED <<spec, servers, due, budget>>

----------------------------------------------------------------------------
\* A replication that streams, and whose last pass said so.
Init ==
  /\ spec = [paused |-> FALSE, enabled |-> TRUE, valid |-> TRUE]
  /\ up = [source |-> TRUE, target |-> TRUE]
  /\ slot = [lost |-> FALSE, consumer |-> TRUE, lag |-> Clear]
  /\ apply = [running |-> TRUE, errors |-> 0, tables |-> "ready"]
  /\ status = Healthy
  /\ task = [t \in Task |-> Idle]
  /\ due = FALSE
  /\ budget \in Budgets

Step(t) ==
  \/ PublishPaused(t) \/ Enter(t) \/ Converge(t) \/ Fail(t) \/ ObserveAnyway(t)
  \/ PatchHealth(t) \/ PublishFailure(t) \/ Report(t)

Next ==
  \/ \E t \in Task : Wake(t) \/ Step(t) \/ LosePatch(t)
  \/ Edit \/ Outage \/ LoseSlot \/ MoveSlot \/ MoveApply \/ Age

\* The timer is called again and again, a call that has begun goes on, the change
\* handler is called for a change, and time passes.
Fairness ==
  /\ \A t \in Task : WF_vars(Wake(t)) /\ WF_vars(Step(t))
  /\ WF_vars(Age)

Spec == Init /\ [][Next]_vars /\ Fairness

----------------------------------------------------------------------------
(* Properties. *)

\* A status that says SlotLost says so of a slot that is lost: one that could only
\* not be seen is never reported lost (observe_from_status).
LossIsReal == status.health.state = "SlotLost" => slot.lost

\* Once SlotLost is reported it stays reported: neither switching the replication
\* off, nor a failing pass, nor a handler called with an older body hides that the
\* replica has to be rebuilt.
LossSticks ==
  [][status.health.state = "SlotLost" => status'.health.state = "SlotLost"]_vars

\* What the servers would have to be reported as, if nothing changed any more.
Truth ==
  IF slot.lost THEN {"SlotLost"}
  ELSE IF ~spec.enabled THEN {"Disabled"}
  ELSE IF Subscription.stopped \/ ~slot.consumer THEN {"Stalled"}
  ELSE IF slot.lag = Over THEN {"Lagging"}
  ELSE (IF slot.lag = Band THEN {"Lagging"} ELSE {})
       \cup {IF Subscription.copying THEN "Initializing" ELSE "Streaming"}

\* Once spec and servers stay as they are, the state comes to be what they are in
\* and stays it, also where every pass fails, as long as the source can be read.
StateSettles == <>[](~spec.paused /\ up.source => status.health.state \in Truth)

\* A pass over an invalid spec asks no server anything, and its failure leaves
\* Reachable as it is: Unreachable may be left from an outage long over, or never
\* have been said of one that goes on (_publish_failure).
RightPhase ==
  IF spec.paused THEN {"Paused"}
  ELSE IF ~spec.valid THEN {"Failed", "Unreachable"}
  ELSE IF ~(up.source /\ up.target) THEN {"Unreachable"}
  ELSE {IF state \in DegradingReasons THEN "Degraded"
        ELSE IF apply.tables = "held" THEN "Drifted" ELSE "Ready" : state \in Truth}

\* ... and so does the phase.  While the spec is valid, nothing an earlier outcome
\* left behind outlives it; of an invalid one the phase says only that its passes
\* fail, by either word for it, and not whether the servers answer.
PhaseSettles == <>[](status.phase \in RightPhase)

=============================================================================
