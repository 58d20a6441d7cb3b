------------------------ MODULE StatusReports_proofs ------------------------
(***************************************************************************)
(* For any number of edits, changes and lost writes: type correctness, and *)
(* that SlotLost is reported only of a slot that is lost, and from then on *)
(* for good.                                                               *)
(*                                                                         *)
(* The second needs more than what status says: a pass carries what it has *)
(* seen to the write that ends it, so what it carries has to be as true,   *)
(* and no pass may carry something older than the status it overwrites -   *)
(* which is what holding the resource's lock is for.                       *)
(***************************************************************************)
EXTENDS StatusReports, TLAPS

PC == {"idle", "paused", "queued", "pass", "report", "failed", "note", "publish"}
Call == [pc : PC, body : Body, why : {"none", "ConnectionFailed", "Failed"},
         seen : Health, held : BOOLEAN]

LEMMA IdleCall == Idle \in Call
  BY MaxErrorsIsNat
  DEF Idle, Call, PC, Body, Asked, Status, Healthy, Conditions, Phase, Health, State,
      Since, Unread

LEMMA Phases ==
  ASSUME NEW c \in Conditions
  PROVE  PhaseOf(c) \in Phase
  BY DEF PhaseOf, Phase

\* What an observation finds is a value of status.health.
LEMMA Assessed ==
  ASSUME TypeOK, NEW h \in Health, NEW enabled \in BOOLEAN
  PROVE  Assess(h, enabled) \in Health
<1>1. StateSeen(h, enabled) \in State
  BY DEF StateSeen, State
<1>2. Subscription.errors \in 0..Unread
  BY MaxErrorsIsNat DEF Subscription, TypeOK, Unread
<1>3. InactiveSince(h) \in Since
  BY DEF InactiveSince, Since, Health
<1> QED  BY <1>1, <1>2, <1>3 DEF Assess, Health

LEMMA AgedHealth ==
  ASSUME NEW h \in Health
  PROVE  Aged(h) \in Health /\ Aged(h).state = h.state
  BY DEF Aged, Health, Since

LEMMA TypeInit == Init => TypeOK
<1> SUFFICES ASSUME Init PROVE TypeOK
  OBVIOUS
<1>1. task \in [Task -> Call]
  BY IdleCall DEF Init
<1>2. Healthy \in Status
  BY IdleCall DEF Idle, Call, Body
<1>3. /\ spec \in Asked /\ up \in [source : BOOLEAN, target : BOOLEAN]
      /\ slot \in [lost : BOOLEAN, consumer : BOOLEAN, lag : {Clear, Band, Over}]
      /\ due \in BOOLEAN
  BY DEF Init, Asked
<1>4. apply \in [running : BOOLEAN, errors : 0..MaxErrors, tables : {"copying", "ready", "held"}]
  BY MaxErrorsIsNat DEF Init
<1>5. budget \in [edits : Nat, changes : Nat, losses : Nat] /\ status \in Status
  BY <1>2, BudgetsAreNat DEF Init
<1> QED  BY <1>1, <1>3, <1>4, <1>5, Zenon DEF TypeOK, Call, PC

\* The parts of the type invariant, so that a step argues about what it moves.
LEMMA Calls == TypeOK => task \in [Task -> Call]
  BY DEF TypeOK, Call, PC
LEMMA TypeFromParts ==
  ASSUME TypeOK, task' \in [Task -> Call], status' \in Status, due' \in BOOLEAN,
         UNCHANGED <<spec, servers>>,
         budget' \in [edits : Nat, changes : Nat, losses : Nat]
  PROVE  TypeOK'
  BY DEF TypeOK, Call, PC, servers

\* A step of one handler leaves a call of that handler.
LEMMA Moved ==
  ASSUME TypeOK, NEW t \in Task, NEW call \in Call, task' = [task EXCEPT ![t] = call]
  PROVE  task' \in [Task -> Call]
  BY Calls

LEMMA Ended ==
  ASSUME TypeOK, NEW t \in Task, NEW again \in BOOLEAN, End(t, again)
  PROVE  task' \in [Task -> Call] /\ due' \in BOOLEAN
<1>1. task' = [task EXCEPT ![t] = Idle]
  BY DEF End
<1>2. due' = (due \/ (t = "change" /\ again))
  BY DEF End
<1>3. task' \in [Task -> Call]
  BY <1>1, IdleCall, Moved
<1>4. due' \in BOOLEAN
  BY <1>2
<1> QED  BY <1>3, <1>4

LEMMA Gone ==
  ASSUME TypeOK, NEW t \in Task, NEW pc \in PC, Goto(t, pc)
  PROVE  task' \in [Task -> Call]
<1>1. task[t] \in Call
  BY Calls
<1>2. [task[t] EXCEPT !.pc = pc] \in Call
  BY <1>1 DEF Call
<1>3. task' = [task EXCEPT ![t] = [task[t] EXCEPT !.pc = pc]]
  BY DEF Goto
<1> QED  BY <1>2, <1>3, Moved

\* The conditions any handler writes are conditions.
LEMMA Written ==
  ASSUME TypeOK, NEW t \in Task
  PROVE  /\ [task[t].body.status.conditions EXCEPT !.ready = "Paused"] \in Conditions
         /\ task[t].why # "none" => FailureConditions(t) \in Conditions
         /\ ReportConditions(t) \in Conditions
<1>1. task[t] \in Call
  BY Calls
<1>2. task[t].body.status.conditions \in Conditions
  BY <1>1 DEF Call, Body, Status
<1>3. task[t].why \in {"none", "ConnectionFailed", "Failed"} /\ task[t].held \in BOOLEAN
      /\ task[t].seen.state \in State
  BY <1>1 DEF Call, Health
<1>4. [task[t].body.status.conditions EXCEPT !.ready = "Paused"] \in Conditions
  BY <1>2 DEF Conditions
<1>5. ASSUME task[t].why # "none" PROVE FailureConditions(t) \in Conditions
  BY <1>2, <1>3, <1>5 DEF FailureConditions, Conditions
<1>6. ReportConditions(t) \in Conditions
  BY <1>3 DEF ReportConditions, Conditions
<1> QED  BY <1>4, <1>5, <1>6

-----------------------------------------------------------------------------
\* Type correctness

\* What else a call keeps: a pass that has failed knows why.
Failing == \A t \in Task : task[t].pc \in {"failed", "note", "publish"} => task[t].why # "none"

\* A call that returns leaves no failed pass behind.
LEMMA EndedFailing ==
  ASSUME TypeOK, Failing, NEW t \in Task, NEW again, End(t, again)
  PROVE  Failing'
<1>1. task' = [task EXCEPT ![t] = Idle] /\ Idle.pc = "idle"
  BY DEF End, Idle
<1>2. \A u \in Task : task'[u] = IF u = t THEN Idle ELSE task[u]
  BY <1>1, Calls
<1> QED  BY <1>1, <1>2 DEF Failing

LEMMA TypeStep == TypeOK /\ Failing /\ [Next]_vars => TypeOK' /\ Failing'
<1> SUFFICES ASSUME TypeOK, Failing, [Next]_vars PROVE TypeOK' /\ Failing'
  OBVIOUS
<1>1. task \in [Task -> Call] /\ due \in BOOLEAN /\ status \in Status /\ spec \in Asked
  BY Calls DEF TypeOK
<1>2. budget \in [edits : Nat, changes : Nat, losses : Nat]
  BY DEF TypeOK
<1>3. CASE UNCHANGED vars
  BY <1>3, <1>1, <1>2, TypeFromParts DEF vars, servers, Failing
<1>4. ASSUME NEW t \in Task, Wake(t) PROVE TypeOK' /\ Failing'
  <2> DEFINE call == [task[t] EXCEPT !.pc = IF spec.paused THEN "paused" ELSE "queued",
                                     !.body = [spec |-> spec, status |-> status]]
  <2>1. call \in Call
    BY <1>1 DEF Call, Body, PC
  <2>2. task' = [task EXCEPT ![t] = call]
    BY <1>4 DEF Wake
  <2>3. task' \in [Task -> Call]
    BY <2>1, <2>2, Moved
  <2>4. due' \in BOOLEAN
    BY <1>4 DEF Wake
  <2>5. call.pc \notin {"failed", "note", "publish"}
    BY <1>1 DEF Call
  <2>6. \A u \in Task : task'[u] = IF u = t THEN call ELSE task[u]
    BY <2>2, <1>1
  <2>7. Failing'
    BY <2>5, <2>6 DEF Failing
  <2>8. status' \in Status /\ UNCHANGED <<spec, servers>> /\ budget' = budget
    BY <1>4, <1>1 DEF Wake
  <2> QED  BY <2>3, <2>4, <2>7, <2>8, <1>2, TypeFromParts
<1>5. ASSUME NEW t \in Task, PublishPaused(t) PROVE TypeOK' /\ Failing'
  <2> DEFINE c == [task[t].body.status.conditions EXCEPT !.ready = "Paused"]
  <2>1. c \in Conditions /\ PhaseOf(c) \in Phase
    BY Written, Phases
  <2>2. status' = [status EXCEPT !.conditions = c, !.phase = PhaseOf(c)]
    BY <1>5 DEF PublishPaused
  <2>3. status' \in Status
    BY <2>1, <2>2, <1>1, Zenon DEF Status
  <2>4. End(t, FALSE) /\ UNCHANGED <<spec, servers, budget>>
    BY <1>5 DEF PublishPaused
  <2> QED  BY <2>3, <2>4, <1>2, Ended, EndedFailing, TypeFromParts
<1>6. ASSUME NEW t \in Task, Enter(t) PROVE TypeOK' /\ Failing'
  <2>1. Goto(t, "pass") /\ UNCHANGED <<spec, servers, status, due, budget>>
    BY <1>6 DEF Enter
  <2>2. task' \in [Task -> Call]
    BY <2>1, Gone DEF PC
  <2>3. \A u \in Task : task'[u].pc = (IF u = t THEN "pass" ELSE task[u].pc)
                         /\ task'[u].why = task[u].why
    BY <2>1, <1>1 DEF Goto, Call
  <2>4. Failing'
    BY <2>3 DEF Failing
  <2> QED  BY <2>1, <2>2, <2>4, <1>1, <1>2, TypeFromParts
<1>7. ASSUME NEW t \in Task, Converge(t) PROVE TypeOK' /\ Failing'
  <2> DEFINE h == Assess(task[t].body.status.health, task[t].body.spec.enabled)
             call == [task[t] EXCEPT !.pc = "report", !.seen = h, !.held = apply.tables = "held"]
  <2>1. h \in Health
    BY <1>1, Assessed DEF Call, Body, Status, Asked
  <2>2. call \in Call /\ call.pc = "report"
    BY <2>1, <1>1 DEF Call, PC
  <2>3. task' = [task EXCEPT ![t] = call] /\ UNCHANGED <<spec, servers, status, due, budget>>
    BY <1>7 DEF Converge
  <2>4. task' \in [Task -> Call]
    BY <2>2, <2>3, Moved
  <2>5. \A u \in Task : task'[u] = IF u = t THEN call ELSE task[u]
    BY <2>3, <1>1
  <2>6. Failing'
    BY <2>2, <2>5 DEF Failing
  <2> QED  BY <2>3, <2>4, <2>6, <1>1, <1>2, TypeFromParts
<1>8. ASSUME NEW t \in Task, Fail(t) PROVE TypeOK' /\ Failing'
  <2>1. PICK why \in {"ConnectionFailed", "Failed"} :
          task' = [task EXCEPT ![t].pc = "failed", ![t].why = why]
    BY <1>8 DEF Fail
  <2> DEFINE call == [task[t] EXCEPT !.pc = "failed", !.why = why]
  <2>2. call \in Call /\ call.why # "none"
    BY <1>1 DEF Call, PC
  <2>3. task' = [task EXCEPT ![t] = call] /\ UNCHANGED <<spec, servers, status, due, budget>>
    BY <1>8, <2>1 DEF Fail
  <2>4. task' \in [Task -> Call]
    BY <2>2, <2>3, Moved
  <2>5. \A u \in Task : task'[u] = IF u = t THEN call ELSE task[u]
    BY <2>3, <1>1
  <2>6. Failing'
    BY <2>2, <2>5 DEF Failing
  <2> QED  BY <2>3, <2>4, <2>6, <1>1, <1>2, TypeFromParts
<1>9. ASSUME NEW t \in Task, ObserveAnyway(t) PROVE TypeOK' /\ Failing'
  <2> DEFINE h == Assess(task[t].body.status.health, task[t].body.spec.enabled)
             call == IF up.source THEN [task[t] EXCEPT !.pc = "note", !.seen = h]
                                  ELSE [task[t] EXCEPT !.pc = "publish"]
  <2>1. h \in Health
    BY <1>1, Assessed DEF Call, Body, Status, Asked
  <2>2. call \in Call /\ call.why = task[t].why
    BY <2>1, <1>1 DEF Call, PC
  <2>3. task' = [task EXCEPT ![t] = call] /\ UNCHANGED <<spec, servers, status, due, budget>>
    BY <1>9 DEF ObserveAnyway
  <2>4. task' \in [Task -> Call]
    BY <2>2, <2>3, Moved
  <2>5. \A u \in Task : task'[u] = IF u = t THEN call ELSE task[u]
    BY <2>3, <1>1
  <2>6. task[t].pc = "failed"
    BY <1>9 DEF ObserveAnyway
  <2>7. Failing'
    BY <2>2, <2>5, <2>6 DEF Failing
  <2> QED  BY <2>3, <2>4, <2>7, <1>1, <1>2, TypeFromParts
<1>10. ASSUME NEW t \in Task, PatchHealth(t) PROVE TypeOK' /\ Failing'
  <2>1. /\ task[t].pc = "note" /\ status' = [status EXCEPT !.health = task[t].seen]
        /\ Goto(t, "publish") /\ UNCHANGED <<spec, servers, due, budget>>
    BY <1>10 DEF PatchHealth
  <2>2. task[t].seen \in Health
    BY <1>1 DEF Call
  <2>3. status' \in Status
    BY <2>1, <2>2, <1>1 DEF Status
  <2>4. task' \in [Task -> Call]
    BY <2>1, Gone DEF PC
  <2>5. \A u \in Task : task'[u].pc = (IF u = t THEN "publish" ELSE task[u].pc)
                         /\ task'[u].why = task[u].why
    BY <2>1, <1>1 DEF Goto, Call
  <2>6. Failing'
    BY <2>1, <2>5 DEF Failing
  <2> QED  BY <2>1, <2>3, <2>4, <2>6, <1>1, <1>2, TypeFromParts
<1>11. ASSUME NEW t \in Task, PublishFailure(t) PROVE TypeOK' /\ Failing'
  <2> DEFINE c == FailureConditions(t)
  <2>1. PICK again \in BOOLEAN : End(t, again)
    BY <1>11 DEF PublishFailure, Retried
  <2>2. task[t].why # "none"
    BY <1>11 DEF PublishFailure, Failing
  <2>3. c \in Conditions /\ PhaseOf(c) \in Phase
    BY <2>2, Written, Phases
  <2>4. status' = [status EXCEPT !.conditions = c, !.phase = PhaseOf(c)]
    BY <1>11 DEF PublishFailure
  <2>5. status' \in Status
    BY <2>3, <2>4, <1>1, Zenon DEF Status
  <2>6. UNCHANGED <<spec, servers, budget>>
    BY <1>11 DEF PublishFailure
  <2> QED  BY <2>1, <2>5, <2>6, <1>2, Ended, EndedFailing, TypeFromParts
<1>12. ASSUME NEW t \in Task, Report(t) PROVE TypeOK' /\ Failing'
  <2>1. ReportConditions(t) \in Conditions /\ PhaseOf(ReportConditions(t)) \in Phase
    BY Written, Phases
  <2>2. task[t].seen \in Health
    BY <1>1 DEF Call
  <2>3. status' \in Status
    BY <1>12, <2>1, <2>2 DEF Report, Status
  <2>4. End(t, FALSE) /\ UNCHANGED <<spec, servers, budget>>
    BY <1>12 DEF Report
  <2> QED  BY <2>3, <2>4, <1>2, Ended, EndedFailing, TypeFromParts
<1>13. ASSUME NEW t \in Task, LosePatch(t) PROVE TypeOK' /\ Failing'
  <2>1. UNCHANGED <<spec, servers, status>> /\ budget' \in [edits : Nat, changes : Nat, losses : Nat]
    BY <1>13, <1>2 DEF LosePatch
  <2>2. CASE \E again \in BOOLEAN : End(t, again)
    BY <2>1, <2>2, <1>1, Ended, EndedFailing, TypeFromParts
  <2>3. CASE task[t].pc = "note" /\ Goto(t, "publish") /\ UNCHANGED due
    <3>1. task' \in [Task -> Call]
      BY <2>3, Gone DEF PC
    <3>2. \A u \in Task : task'[u].pc = (IF u = t THEN "publish" ELSE task[u].pc)
                           /\ task'[u].why = task[u].why
      BY <2>3, <1>1 DEF Goto, Call
    <3>3. Failing'
      BY <2>3, <3>2 DEF Failing
    <3> QED  BY <2>1, <2>3, <3>1, <3>3, <1>1, TypeFromParts
  <2> QED  BY <1>13, <2>2, <2>3 DEF LosePatch, Retried
<1>14. CASE Edit
  <2>1. spec' \in Asked /\ due' \in BOOLEAN /\ UNCHANGED <<servers, status, task>>
        /\ budget' \in [edits : Nat, changes : Nat, losses : Nat]
    BY <1>14, <1>2 DEF Edit
  <2> QED  BY <2>1 DEF TypeOK, Failing, servers
<1>15. CASE Outage \/ LoseSlot \/ MoveSlot \/ MoveApply
  <2>1. UNCHANGED <<spec, status, task, due>>
        /\ budget' \in [edits : Nat, changes : Nat, losses : Nat]
    BY <1>15, <1>2 DEF Outage, LoseSlot, MoveSlot, MoveApply, Change
  <2>2. up' \in [source : BOOLEAN, target : BOOLEAN]
    BY <1>15 DEF Outage, LoseSlot, MoveSlot, MoveApply, TypeOK
  <2>3. slot' \in [lost : BOOLEAN, consumer : BOOLEAN, lag : {Clear, Band, Over}]
    BY <1>15 DEF Outage, LoseSlot, MoveSlot, MoveApply, TypeOK
  <2> DEFINE Kinds == [running : BOOLEAN, errors : 0..MaxErrors,
                       tables : {"copying", "ready", "held"}]
  <2>4. apply' \in Kinds
    <3>1. apply \in Kinds
      BY DEF TypeOK
    <3>2. /\ \A running \in BOOLEAN : [apply EXCEPT !.running = running] \in Kinds
          /\ [apply EXCEPT !.errors = 0] \in Kinds
          /\ (~apply.running) \in BOOLEAN
      BY <3>1, MaxErrorsIsNat
    <3>3. apply.errors < MaxErrors => [apply EXCEPT !.errors = @ + 1] \in Kinds
      BY <3>1, MaxErrorsIsNat
    <3>4. \A tables \in {"copying", "ready", "held"} : [apply EXCEPT !.tables = tables] \in Kinds
      BY <3>1
    <3>5. CASE UNCHANGED apply
      BY <3>1, <3>5
    <3>6. CASE MoveApply
      BY <3>2, <3>3, <3>4, <3>6, Zenon DEF MoveApply
    <3> QED  BY <1>15, <3>5, <3>6 DEF Outage, LoseSlot, MoveSlot
  <2> QED  BY <2>1, <2>2, <2>3, <2>4 DEF TypeOK, Failing
<1>16. CASE Age
  <2>1. UNCHANGED <<spec, servers, due, budget>>
        /\ status' = [status EXCEPT !.health = Aged(@)]
    BY <1>16 DEF Age
  <2>2. status' \in Status
    BY <2>1, <1>1, AgedHealth DEF Status
  <2> DEFINE call(t) == [task[t] EXCEPT !.body.status.health = Aged(@), !.seen = Aged(@)]
  <2>3. task' = [t \in Task |-> call(t)]
    BY <1>16 DEF Age
  <2>4. ASSUME NEW t \in Task
        PROVE  call(t) \in Call /\ call(t).pc = task[t].pc /\ call(t).why = task[t].why
    <3>1. task[t] \in Call /\ task[t].body \in Body /\ task[t].body.status \in Status
      BY <1>1 DEF Call, Body
    <3>2. [task[t].body.status EXCEPT !.health = Aged(@)] \in Status
      BY <3>1, AgedHealth DEF Status
    <3>3. [task[t].body EXCEPT !.status.health = Aged(@)] \in Body
      BY <3>1, <3>2 DEF Body
    <3>4. Aged(task[t].seen) \in Health
      BY <3>1, AgedHealth DEF Call
    <3>5. call(t) = [task[t] EXCEPT !.body = [task[t].body EXCEPT !.status.health = Aged(@)],
                                    !.seen = Aged(task[t].seen)]
      BY Zenon
    <3> QED  BY <3>1, <3>3, <3>4, <3>5 DEF Call
  <2>5. task' \in [Task -> Call]
    BY <2>3, <2>4
  <2>6. Failing'
    BY <2>3, <2>4 DEF Failing
  <2> QED  BY <2>1, <2>2, <2>5, <2>6, <1>1, <1>2, TypeFromParts
<1> QED
  BY <1>3, <1>4, <1>5, <1>6, <1>7, <1>8, <1>9, <1>10, <1>11, <1>12, <1>13, <1>14, <1>15, <1>16
  DEF Next, Step

LEMMA FailingInit == Init => Failing
  BY DEF Init, Failing, Idle

\* Every variable keeps its type, for any bound on what may happen.
THEOREM TypeCorrect == Spec => []TypeOK
<1>1. Init => TypeOK /\ Failing
  BY TypeInit, FailingInit
<1> QED  BY <1>1, TypeStep, PTL DEF Spec

-----------------------------------------------------------------------------
\* What is said of a lost slot

Holding == {"pass", "report", "failed", "note", "publish"}

\* One call holds the lock; what it has seen is true, and not behind what status says.
Carried ==
  /\ \A t, u \in Task : task[t].pc \in Holding /\ task[u].pc \in Holding => t = u
  /\ \A t \in Task : task[t].pc \in {"report", "note"} =>
       /\ task[t].seen.state = "SlotLost" => slot.lost
       /\ status.health.state = "SlotLost" => task[t].seen.state = "SlotLost"

LossInv == LossIsReal /\ Carried

LEMMA LossInit == Init => LossInv
  BY DEF Init, LossInv, LossIsReal, Carried, Idle, Healthy, Holding

\* An observation says SlotLost of a lost slot, and of nothing else.
LEMMA AssessedLost ==
  ASSUME NEW h, NEW enabled
  PROVE  Assess(h, enabled).state = "SlotLost" <=> slot.lost
  BY DEF Assess, StateSeen

\* A call that changes no report and takes no lock keeps the invariant.
LEMMA CallKeeps ==
  ASSUME TypeOK, LossInv, UNCHANGED slot, status'.health.state = status.health.state,
         NEW t \in Task, NEW call \in Call, task' = [task EXCEPT ![t] = call],
         call.pc \in Holding => task[t].pc \in Holding,
         call.pc \notin {"report", "note"}
  PROVE  LossInv'
<1>1. \A u \in Task : task'[u] = IF u = t THEN call ELSE task[u]
  BY Calls
<1>2. \A u \in Task : /\ task'[u].pc \in Holding => task[u].pc \in Holding
                      /\ task'[u].pc \in {"report", "note"} => task'[u] = task[u]
  BY <1>1
<1>3. \A u, v \in Task : task'[u].pc \in Holding /\ task'[v].pc \in Holding => u = v
  BY <1>2 DEF LossInv, Carried
<1>4. \A u \in Task : task'[u].pc \in {"report", "note"} =>
        /\ task'[u].seen.state = "SlotLost" => slot'.lost
        /\ status'.health.state = "SlotLost" => task'[u].seen.state = "SlotLost"
  BY <1>2 DEF LossInv, Carried
<1> QED  BY <1>3, <1>4 DEF LossInv, LossIsReal, Carried

LEMMA LossStep ==
  TypeOK /\ LossInv /\ [Next]_vars
    => LossInv' /\ (status.health.state = "SlotLost" => status'.health.state = "SlotLost")
<1> SUFFICES ASSUME TypeOK, LossInv, [Next]_vars
             PROVE  /\ LossInv'
                    /\ status.health.state = "SlotLost" => status'.health.state = "SlotLost"
  OBVIOUS
<1>1. task \in [Task -> Call] /\ status \in Status
  BY Calls DEF TypeOK
<1>2. CASE UNCHANGED vars
  BY <1>2 DEF vars, servers, LossInv, LossIsReal, Carried
<1>3. ASSUME NEW t \in Task, Wake(t) PROVE LossInv' /\ UNCHANGED status
  <2> DEFINE call == [task[t] EXCEPT !.pc = IF spec.paused THEN "paused" ELSE "queued",
                                     !.body = [spec |-> spec, status |-> status]]
  <2>0. spec \in Asked
    BY DEF TypeOK
  <2>1. call \in Call
    BY <2>0, <1>1 DEF Call, Body, PC
  <2>2. call.pc \notin Holding /\ call.pc \notin {"report", "note"}
    BY <1>1 DEF Call, Holding
  <2>3. task' = [task EXCEPT ![t] = call] /\ UNCHANGED <<slot, status>>
    BY <1>3 DEF Wake, servers
  <2> QED  BY <2>1, <2>2, <2>3, CallKeeps
<1>4. ASSUME NEW t \in Task, NEW again, End(t, again), UNCHANGED slot,
             status'.health.state = status.health.state
      PROVE  LossInv'
  <2>1. task' = [task EXCEPT ![t] = Idle] /\ Idle.pc = "idle"
    BY <1>4 DEF End, Idle
  <2>2. Idle.pc \notin Holding /\ Idle.pc \notin {"report", "note"}
    BY <2>1 DEF Holding
  <2> QED  BY <1>4, <2>1, <2>2, IdleCall, CallKeeps
<1>5. ASSUME NEW t \in Task, NEW pc \in {"publish", "failed"}, task[t].pc \in Holding,
             Goto(t, pc), UNCHANGED slot, status'.health.state = status.health.state
      PROVE  LossInv'
  <2> DEFINE call == [task[t] EXCEPT !.pc = pc]
  <2>1. call \in Call /\ call.pc = pc
    BY <1>1 DEF Call, PC
  <2>2. task' = [task EXCEPT ![t] = call]
    BY <1>5 DEF Goto
  <2> QED  BY <1>5, <2>1, <2>2, CallKeeps
<1>6. ASSUME NEW t \in Task, PublishPaused(t)
      PROVE  LossInv' /\ status'.health.state = status.health.state
  <2>1. status'.health = status.health
    BY <1>6, <1>1 DEF PublishPaused, Status
  <2>2. End(t, FALSE) /\ UNCHANGED slot
    BY <1>6 DEF PublishPaused, servers
  <2> QED  BY <2>1, <2>2, <1>4
<1>7. ASSUME NEW t \in Task, Enter(t) PROVE LossInv' /\ UNCHANGED status
  <2>1. \A u \in Task : task[u].pc \notin Holding
    BY <1>7 DEF Enter, Held, Holding
  <2>2. \A u \in Task : task'[u].pc = IF u = t THEN "pass" ELSE task[u].pc
    BY <1>7, <1>1 DEF Enter, Goto, Call
  <2>3. UNCHANGED <<slot, status>>
    BY <1>7 DEF Enter, servers
  <2>4. \A u \in Task : task'[u].pc \notin {"report", "note"}
    BY <2>1, <2>2 DEF Holding
  <2> QED  BY <2>1, <2>2, <2>3, <2>4 DEF LossInv, LossIsReal, Carried
<1>8. ASSUME NEW t \in Task, NEW pc \in {"report", "note"}, NEW call \in Call,
             task[t].pc \in Holding, task' = [task EXCEPT ![t] = call], call.pc = pc,
             call.seen.state = "SlotLost" <=> slot.lost, UNCHANGED <<slot, status>>
      PROVE  LossInv'
  <2>1. \A u \in Task : task'[u] = IF u = t THEN call ELSE task[u]
    BY <1>8, <1>1
  <2>2. \A u, v \in Task : task'[u].pc \in Holding /\ task'[v].pc \in Holding => u = v
    BY <1>8, <2>1 DEF LossInv, Carried, Holding
  <2> QED  BY <1>8, <2>1, <2>2 DEF LossInv, LossIsReal, Carried
<1>9. ASSUME NEW t \in Task, Converge(t) PROVE LossInv' /\ UNCHANGED status
  <2> DEFINE h == Assess(task[t].body.status.health, task[t].body.spec.enabled)
             call == [task[t] EXCEPT !.pc = "report", !.seen = h, !.held = apply.tables = "held"]
  <2>1. h \in Health /\ (h.state = "SlotLost" <=> slot.lost)
    BY <1>1, Assessed, AssessedLost DEF Call, Body, Status, Asked
  <2>2. call \in Call /\ call.pc = "report" /\ call.seen = h
    BY <2>1, <1>1 DEF Call, PC
  <2>3. task' = [task EXCEPT ![t] = call] /\ task[t].pc \in Holding /\ UNCHANGED <<slot, status>>
    BY <1>9 DEF Converge, Holding, servers
  <2> QED  BY <2>1, <2>2, <2>3, <1>8
<1>10. ASSUME NEW t \in Task, Fail(t) PROVE LossInv' /\ UNCHANGED status
  <2>1. PICK why \in {"ConnectionFailed", "Failed"} :
          task' = [task EXCEPT ![t].pc = "failed", ![t].why = why]
    BY <1>10 DEF Fail
  <2> DEFINE call == [task[t] EXCEPT !.pc = "failed", !.why = why]
  <2>2. call \in Call /\ call.pc = "failed"
    BY <1>1 DEF Call, PC
  <2>3. task' = [task EXCEPT ![t] = call] /\ task[t].pc \in Holding /\ UNCHANGED <<slot, status>>
    BY <1>10, <2>1 DEF Fail, Holding, servers
  <2> QED  BY <2>2, <2>3, CallKeeps
<1>11. ASSUME NEW t \in Task, ObserveAnyway(t) PROVE LossInv' /\ UNCHANGED status
  <2> DEFINE h == Assess(task[t].body.status.health, task[t].body.spec.enabled)
             call == [task[t] EXCEPT !.pc = "note", !.seen = h]
  <2>1. h \in Health /\ (h.state = "SlotLost" <=> slot.lost)
    BY <1>1, Assessed, AssessedLost DEF Call, Body, Status, Asked
  <2>2. call \in Call /\ call.pc = "note" /\ call.seen = h
    BY <2>1, <1>1 DEF Call, PC
  <2>3. task[t].pc \in Holding /\ UNCHANGED <<slot, status>>
    BY <1>11 DEF ObserveAnyway, Holding, servers
  <2>4. CASE task' = [task EXCEPT ![t] = call]
    BY <2>1, <2>2, <2>3, <2>4, <1>8
  <2>5. CASE Goto(t, "publish")
    BY <2>3, <2>5, <1>5
  <2> QED  BY <1>11, <2>3, <2>4, <2>5 DEF ObserveAnyway, Goto
<1>12. ASSUME NEW t \in Task, PatchHealth(t)
       PROVE  /\ LossInv'
              /\ status.health.state = "SlotLost" => status'.health.state = "SlotLost"
  <2>1. task[t].pc = "note" /\ status'.health = task[t].seen /\ Goto(t, "publish") /\ UNCHANGED slot
    BY <1>12, <1>1 DEF PatchHealth, Status, servers
  <2>2. \A u \in Task : task'[u].pc = (IF u = t THEN "publish" ELSE task[u].pc)
    BY <2>1, <1>1 DEF Goto, Call
  <2>3. \A u \in Task : task[u].pc \in Holding => u = t
    BY <2>1 DEF LossInv, Carried, Holding
  <2>4. /\ task[t].seen.state = "SlotLost" => slot.lost
        /\ status.health.state = "SlotLost" => task[t].seen.state = "SlotLost"
    BY <2>1 DEF LossInv, Carried
  <2>5. \A u \in Task : task'[u].pc \notin {"report", "note"}
    BY <2>2, <2>3 DEF Holding
  <2>6. \A u, v \in Task : task'[u].pc \in Holding /\ task'[v].pc \in Holding => u = v
    BY <2>2, <2>3 DEF Holding
  <2> QED  BY <2>1, <2>4, <2>5, <2>6 DEF LossInv, LossIsReal, Carried
<1>13. ASSUME NEW t \in Task, PublishFailure(t)
       PROVE  LossInv' /\ status'.health.state = status.health.state
  <2>1. status'.health = status.health /\ UNCHANGED slot
    BY <1>13, <1>1 DEF PublishFailure, Status, servers
  <2>2. PICK again \in BOOLEAN : End(t, again)
    BY <1>13 DEF PublishFailure, Retried
  <2> QED  BY <2>1, <2>2, <1>4
<1>14. ASSUME NEW t \in Task, Report(t)
       PROVE  /\ LossInv'
              /\ status.health.state = "SlotLost" => status'.health.state = "SlotLost"
  <2>1. task[t].pc = "report" /\ status'.health = task[t].seen /\ End(t, FALSE) /\ UNCHANGED slot
    BY <1>14 DEF Report, servers
  <2>2. task' = [task EXCEPT ![t] = Idle] /\ Idle.pc = "idle"
    BY <2>1 DEF End, Idle
  <2>3. \A u \in Task : task'[u].pc = IF u = t THEN "idle" ELSE task[u].pc
    BY <2>2, <1>1
  <2>4. \A u \in Task : task[u].pc \in Holding => u = t
    BY <2>1 DEF LossInv, Carried, Holding
  <2>5. /\ task[t].seen.state = "SlotLost" => slot.lost
        /\ status.health.state = "SlotLost" => task[t].seen.state = "SlotLost"
    BY <2>1 DEF LossInv, Carried
  <2>6. \A u \in Task : task'[u].pc \notin Holding /\ task'[u].pc \notin {"report", "note"}
    BY <2>3, <2>4 DEF Holding
  <2> QED  BY <2>1, <2>5, <2>6 DEF LossInv, LossIsReal, Carried
<1>15. ASSUME NEW t \in Task, LosePatch(t) PROVE LossInv' /\ UNCHANGED status
  <2>1. UNCHANGED <<slot, status>>
    BY <1>15 DEF LosePatch, servers
  <2>2. CASE \E again : End(t, again)
    BY <2>1, <2>2, <1>4
  <2>3. CASE task[t].pc = "note" /\ Goto(t, "publish")
    BY <2>1, <2>3, <1>5 DEF Holding
  <2> QED  BY <1>15, <2>1, <2>2, <2>3 DEF LosePatch
<1>16. CASE Edit \/ Outage \/ LoseSlot \/ MoveSlot \/ MoveApply
  <2>1. UNCHANGED <<status, task>>
    BY <1>16 DEF Edit, Outage, LoseSlot, MoveSlot, MoveApply, Change
  <2>2. slot.lost => slot'.lost
    BY <1>16 DEF Edit, Outage, LoseSlot, MoveSlot, MoveApply, servers, TypeOK
  <2> QED  BY <2>1, <2>2 DEF LossInv, LossIsReal, Carried
<1>17. CASE Age
  <2>1. status'.health = Aged(status.health) /\ UNCHANGED slot
    BY <1>17, <1>1 DEF Age, Status, servers
  <2>2. status'.health.state = status.health.state
    BY <2>1, <1>1, AgedHealth DEF Status
  <2>3. \A u \in Task : task'[u].pc = task[u].pc /\ task'[u].seen = Aged(task[u].seen)
    BY <1>17, <1>1 DEF Age, Call
  <2>4. \A u \in Task : task'[u].seen.state = task[u].seen.state
    BY <2>3, <1>1, AgedHealth DEF Call
  <2> QED  BY <2>1, <2>2, <2>3, <2>4 DEF LossInv, LossIsReal, Carried
<1> QED
  BY <1>2, <1>3, <1>6, <1>7, <1>9, <1>10, <1>11, <1>12, <1>13, <1>14, <1>15, <1>16, <1>17
  DEF Next, Step

\* Status says SlotLost only of a slot that is lost, for any bound on what may happen.
THEOREM LossTrue == Spec => []LossIsReal
<1>1. Init => TypeOK /\ Failing /\ LossInv
  BY TypeInit, FailingInit, LossInit
<1>2. LossInv => LossIsReal
  BY DEF LossInv
<1> QED  BY <1>1, <1>2, TypeStep, LossStep, PTL DEF Spec

\* ... and once it does it always does: no later pass, and no handler called before
\* with an older body, takes it back.
THEOREM LossKept == Spec => LossSticks
<1> DEFINE Stays == status.health.state = "SlotLost" => status'.health.state = "SlotLost"
<1>1. Init => TypeOK /\ Failing /\ LossInv
  BY TypeInit, FailingInit, LossInit
<1>2. TypeOK /\ LossInv /\ [Next]_vars => [Stays]_vars
  BY LossStep
<1>3. [][Stays]_vars => LossSticks
  BY PTL DEF LossSticks
<1> QED  BY <1>1, <1>2, <1>3, TypeStep, LossStep, PTL DEF Spec
=============================================================================
