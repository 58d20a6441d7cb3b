-------------------------- MODULE TableClaims_proofs --------------------------
(***************************************************************************)
(* Proof that where no pass would change anything each table has one       *)
(* writer, the oldest, and none is left to nobody, for any number of       *)
(* replications, tables and target databases.                              *)
(*                                                                         *)
(* Older is a total order, whatever the clock did (OlderIsTotal): of two   *)
(* writers one would have yielded.  A table nobody writes is claimed by    *)
(* nobody, for what is reported is written at rest: somebody would add it. *)
(***************************************************************************)
EXTENDS TableClaims, TLAPS

-----------------------------------------------------------------------------
(***************************************************************************)
(* 1  Types                                                                *)
(***************************************************************************)

Allowed == [creations : Nat, edits : Nat, fails : Nat, outages : Nat]

LEMMA BudgetType ==
  ASSUME NEW b \in Allowed
  PROVE  /\ b.creations > 0 => [b EXCEPT !.creations = @ - 1] \in Allowed
         /\ b.edits > 0 => [b EXCEPT !.edits = @ - 1] \in Allowed
         /\ b.fails > 0 => [b EXCEPT !.fails = @ - 1] \in Allowed
         /\ b.outages > 0 => [b EXCEPT !.outages = @ - 1] \in Allowed
<1>1. b.creations \in Nat /\ b.edits \in Nat /\ b.fails \in Nat /\ b.outages \in Nat
  BY DEF Allowed
<1>2. /\ b.creations > 0 => b.creations - 1 \in Nat
      /\ b.edits > 0 => b.edits - 1 \in Nat
      /\ b.fails > 0 => b.fails - 1 \in Nat
      /\ b.outages > 0 => b.outages - 1 \in Nat
  BY <1>1
<1> QED
  BY <1>2 DEF Allowed

LEMMA NoPassType == NoPass \in Running
  BY DEF NoPass, Running

LEMMA NoSpecType == NoSpec \in Request
  BY SomeInstance DEF NoSpec, Request

LEMMA ReadTargetType == ASSUME TypeOK, NEW r \in Replication, ReadTarget(r) PROVE pass' \in [Replication -> Running]
<1>1. spec[r] \in Request
  BY DEF TypeOK
<1>2. spec[r].tables \subseteq Table /\ spec[r].copyData \in BOOLEAN
  BY <1>1 DEF Request
<1> DEFINE nonempty == IF spec[r].copyData
                       THEN {t \in spec[r].tables \ carries[r] : <<Target(r), t>> \in rows}
                       ELSE {}
<1>3. nonempty \in SUBSET Table
  BY <1>2
<1> HIDE DEF nonempty
<1>4. [NoPass EXCEPT !.stage = "judging", !.asked = spec[r].tables,
         !.copyData = spec[r].copyData, !.nonempty = nonempty] \in Running
  BY <1>2, <1>3, ZenonT(60) DEF NoPass, Running
<1>5. pass' = [pass EXCEPT ![r] =
         [NoPass EXCEPT !.stage = "judging", !.asked = spec[r].tables,
            !.copyData = spec[r].copyData, !.nonempty = nonempty]]
  BY DEF ReadTarget, nonempty
<1> QED
  BY <1>4, <1>5 DEF TypeOK

LEMMA JudgeType == ASSUME TypeOK, NEW r \in Replication, Judge(r) PROVE pass' \in [Replication -> Running]
<1>1. pass[r] \in Running /\ members[r] \subseteq Table
  BY DEF TypeOK
<1>2. pass[r].asked \subseteq Table
  BY <1>1 DEF Running
<1> DEFINE drops == members[r] \ (pass[r].asked \ Claimed(r))
           adds == pass[r].asked \ (members[r] \cup pass[r].nonempty \cup Claimed(r))
<1>3. drops \in SUBSET Table /\ adds \in SUBSET Table
  BY <1>1, <1>2
<1>4. pass' = [pass EXCEPT ![r].stage = "converging", ![r].drops = drops, ![r].adds = adds]
  BY DEF Judge
<1> HIDE DEF drops, adds
<1>5. [pass[r] EXCEPT !.stage = "converging", !.drops = drops, !.adds = adds] \in Running
  BY <1>1, <1>3, ZenonT(60) DEF Running
<1>6. pass' = [pass EXCEPT ![r] = [pass[r] EXCEPT !.stage = "converging", !.drops = drops, !.adds = adds]]
  BY <1>4, ZenonT(60)
<1> QED
  BY <1>5, <1>6 DEF TypeOK

LEMMA StageType ==
  ASSUME TypeOK, NEW r \in Replication, NEW s \in {"refreshing", "publishing"},
         pass' = [pass EXCEPT ![r].stage = s]
  PROVE  pass' \in [Replication -> Running]
<1>1. pass[r] \in Running
  BY DEF TypeOK
<1>2. [pass[r] EXCEPT !.stage = s] \in Running
  BY <1>1 DEF Running
<1> QED
  BY <1>2 DEF TypeOK

LEMMA TypeStep == TypeOK /\ [Next]_vars => TypeOK'
<1> SUFFICES ASSUME TypeOK, [Next]_vars PROVE TypeOK'
  OBVIOUS
<1> USE DEF Allowed
<1>1. ASSUME NEW r \in Replication, ReadTarget(r) PROVE TypeOK'
  BY <1>1, ReadTargetType DEF ReadTarget, TypeOK
<1>2. ASSUME NEW r \in Replication, Judge(r) PROVE TypeOK'
  BY <1>2, JudgeType DEF Judge, TypeOK
<1>3. ASSUME NEW r \in Replication, Converge(r) PROVE TypeOK'
  <2>1. pass[r] \in Running /\ members[r] \subseteq Table
    BY DEF TypeOK
  <2>2. pass[r].adds \subseteq Table
    BY <2>1 DEF Running
  <2>3. members' \in [Replication -> SUBSET Table]
    BY <1>3, <2>1, <2>2 DEF Converge, TypeOK
  <2>4. pass' \in [Replication -> Running]
    BY <1>3, StageType DEF Converge, TypeOK
  <2> QED
    BY <1>3, <2>3, <2>4 DEF Converge, TypeOK
<1>4. ASSUME NEW r \in Replication, Refresh(r) PROVE TypeOK'
  <2>1. pass' \in [Replication -> Running]
    BY <1>4, StageType DEF Refresh
  <2>2. carries' \in [Replication -> SUBSET Table] /\ members[r] \subseteq Table
    BY <1>4 DEF Refresh, TypeOK
  <2>3. spec[r].home \in Instance
    BY DEF TypeOK, Request
  <2>4. rows' \subseteq {TargetOf[i] : i \in Instance} \X Table
    BY <1>4, <2>2, <2>3 DEF Refresh, TypeOK, Target
  <2> QED
    BY <1>4, <2>1, <2>2, <2>4 DEF Refresh, TypeOK
<1>5. ASSUME NEW r \in Replication, Publish(r) PROVE TypeOK'
  BY <1>5, NoPassType DEF Publish, TypeOK
<1>6. ASSUME NEW r \in Replication, Fail(r) PROVE TypeOK'
  BY <1>6, NoPassType, BudgetType DEF Fail, TypeOK
<1>7. ASSUME NEW r \in Replication, Finalize(r) PROVE TypeOK'
  BY <1>7, NoSpecType DEF Finalize, TypeOK
<1>8. ASSUME NEW r \in Replication, Create(r) PROVE TypeOK'
  <2>1. clock' \in Nat /\ created' \in [Replication -> Nat]
    BY <1>8 DEF Create, TypeOK
  <2>2. spec' \in [Replication -> Request]
    BY <1>8 DEF Create, TypeOK
  <2>3. budget' \in Allowed
    BY <1>8, BudgetType DEF Create, TypeOK
  <2>4. life' \in [Replication -> {"absent", "standing", "deleting"}]
    BY <1>8 DEF Create, TypeOK
  <2> QED
    BY <1>8, <2>1, <2>2, <2>3, <2>4 DEF Create, TypeOK
<1>9. ASSUME NEW r \in Replication, EditSpec(r) PROVE TypeOK'
  <2>1. spec' \in [Replication -> Request]
    BY <1>9 DEF EditSpec, TypeOK
  <2> QED
    BY <1>9, <2>1, BudgetType DEF EditSpec, Edits, TypeOK
<1>10. ASSUME NEW r \in Replication, Delete(r) PROVE TypeOK'
  BY <1>10, BudgetType DEF Delete, Edits, TypeOK
<1>11. CASE LoadOrEmpty
  <2>1. rows' \subseteq {TargetOf[i] : i \in Instance} \X Table
    BY <1>11 DEF LoadOrEmpty, TypeOK
  <2> QED
    BY <1>11, <2>1, BudgetType DEF LoadOrEmpty, Edits, TypeOK
<1>12. ASSUME NEW i \in Instance, Lose(i) PROVE TypeOK'
  BY <1>12, BudgetType DEF Lose, TypeOK
<1>13. ASSUME NEW i \in Instance, Return(i) PROVE TypeOK'
  BY <1>13 DEF Return, TypeOK
<1>14. CASE Quiet \/ UNCHANGED vars
  BY <1>14 DEF Quiet, vars, TypeOK
<1> QED
  BY <1>1, <1>2, <1>3, <1>4, <1>5, <1>6, <1>7, <1>8, <1>9, <1>10, <1>11, <1>12, <1>13, <1>14
     DEF Next, Pass

LEMMA TypeInit == Init => TypeOK
  BY BudgetsAreNat, NoSpecType, NoPassType DEF Init, TypeOK, Allowed

\* Every variable keeps its type.
THEOREM TypeCorrect == Spec => []TypeOK
  BY TypeInit, TypeStep, PTL DEF Spec

-----------------------------------------------------------------------------
(***************************************************************************)
(* 2  At rest                                                              *)
(***************************************************************************)

LEMMA OlderIsTotal ==
  ASSUME TypeOK, NEW q \in Replication, NEW r \in Replication, q # r
  PROVE  Older(q, r) \/ Older(r, q)
<1>1. created[q] \in Nat /\ created[r] \in Nat
  BY DEF TypeOK
<1>2. NameOrder[q] \in Nat /\ NameOrder[r] \in Nat /\ NameOrder[q] # NameOrder[r]
  BY NamesDiffer
<1> QED
  BY <1>1, <1>2 DEF Older

LEMMA OlderIsNotYounger ==
  ASSUME TypeOK, NEW q \in Replication, NEW r \in Replication, Older(q, r)
  PROVE  created[q] <= created[r]
<1>1. created[q] \in Nat /\ created[r] \in Nat
  BY DEF TypeOK
<1> QED
  BY <1>1 DEF Older

\* At rest an older replication that reports a table keeps it from the others.
LEMMA Yields ==
  ASSUME TypeOK, AtRest, NEW d, NEW t, NEW q \in Replication, NEW r \in Replication,
         q \in Writers(d, t), Target(r) = d, q # r, Older(q, r)
  PROVE  t \in Claimed(r) /\ t \notin members[r]
<1>1. life[q] # "absent" /\ Target(q) = d /\ t \in members[q]
  BY DEF Writers
<1>2. life[q] = "standing"
  BY <1>1 DEF AtRest, TypeOK
<1>3. spec[q].home \in loads
  BY DEF AtRest, TypeOK, Request
<1>4. t \in reported[q]
  BY <1>1 DEF AtRest
<1>5. q \in {o \in Replication \ {r} : life[o] = "standing" /\ Older(o, r) /\ SameTarget(o, r)}
  BY <1>1, <1>2, <1>3 DEF SameTarget
<1>6. t \in Claimed(r)
  BY <1>4, <1>5 DEF Claimed
<1> QED
  BY <1>6 DEF AtRest

\* At rest a table that is claimed is written, by the one it is claimed for.
LEMMA ClaimedIsWritten ==
  ASSUME TypeOK, AtRest, NEW r \in Replication, NEW t, t \in Claimed(r)
  PROVE  \E q \in Writers(Target(r), t) : Older(q, r)
<1>1. PICK q \in Replication : /\ life[q] = "standing" /\ Older(q, r) /\ SameTarget(q, r)
                               /\ t \in reported[q]
  BY DEF Claimed
<1>2. t \in members[q] /\ t \in carries[q]
  BY <1>1 DEF AtRest
<1> QED
  BY <1>1, <1>2 DEF Writers, SameTarget

LEMMA RestIsUndisputed ==
  ASSUME TypeOK, AtRest, NEW d \in Databases, NEW t \in Table, NEW w \in Writers(d, t)
  PROVE  Writers(d, t) = {w} /\ Prevails(d, t, w)
<1>1. w \in Replication /\ Target(w) = d /\ t \in members[w]
  BY DEF Writers
<1>2. ASSUME NEW v \in Writers(d, t), v # w PROVE FALSE
  <2>1. v \in Replication /\ Target(v) = d /\ t \in members[v]
    BY DEF Writers
  <2> QED
    BY <1>1, <1>2, <2>1, OlderIsTotal, Yields
<1>3. Writers(d, t) = {w}
  BY <1>2
<1>4. ASSUME NEW q \in Standing, q # w, Target(q) = d, t \in spec[q].tables, ~spec[q].copyData
      PROVE  created[w] <= created[q]
  <2>1. q \in Replication
    BY DEF Standing
  <2>2. q \notin Writers(d, t)
    BY <1>2, <1>4
  <2>3. t \notin members[q]
    BY <1>4, <2>1, <2>2 DEF Writers, Standing, AtRest
  <2>4. t \in Claimed(q)
    BY <1>4, <2>1, <2>3 DEF AtRest
  <2>5. Older(w, q)
    BY <1>3, <1>4, <2>1, <2>4, ClaimedIsWritten
  <2> QED
    BY <1>1, <2>1, <2>5, OlderIsNotYounger
<1> QED
  BY <1>3, <1>4 DEF Prevails

LEMMA RestIsServed ==
  ASSUME TypeOK, AtRest, NEW d \in Databases, NEW t \in Table
  PROVE  ~Unserved(d, t)
<1> SUFFICES ASSUME Unserved(d, t) PROVE FALSE
  OBVIOUS
<1>1. PICK r \in Standing : /\ Target(r) = d /\ t \in spec[r].tables
                            /\ ~spec[r].copyData \/ <<d, t>> \notin rows
  BY DEF Unserved
<1>2. r \in Replication /\ life[r] = "standing" /\ Writers(d, t) = {}
  BY DEF Standing, Unserved
<1>3. t \notin members[r]
  BY <1>1, <1>2 DEF Writers, AtRest
<1>4. t \in Claimed(r)
  BY <1>1, <1>2, <1>3 DEF AtRest
<1> QED
  BY <1>1, <1>2, <1>4, ClaimedIsWritten

\* What no pass would change is right: one writer for each table, the oldest, and
\* no table left to nobody (_claims_elsewhere and its caller's verdicts).
THEOREM RestRight == Spec => []RestIsRight
<1>1. TypeOK => RestIsRight
  BY RestIsUndisputed, RestIsServed DEF RestIsRight, Undisputed
<1> QED
  BY <1>1, TypeCorrect, PTL
=============================================================================
