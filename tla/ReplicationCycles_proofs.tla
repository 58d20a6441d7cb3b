---------------------- MODULE ReplicationCycles_proofs ----------------------
(***************************************************************************)
(* Proof that no loop of replications streams that the checks could see,   *)
(* for any number of replications, databases and servers.                  *)
(*                                                                         *)
(* Reaches and Loops are stated with sets rather than by recursion, and    *)
(* PathClosesLoop is the bridge between them: if there is no path back     *)
(* along the edges a check has seen, what it saw holds a loop of its own.  *)
(***************************************************************************)
EXTENDS ReplicationCycles, TLAPS

-----------------------------------------------------------------------------
(***************************************************************************)
(* 1  Types                                                                *)
(***************************************************************************)

LEMMA ResolvedType ==
  ASSUME TypeOK, NEW r \in Replication
  PROVE  Resolved(r, at) \in Edge \cup {NoEdge}
<1>1. Ends[r].source \in Database /\ Ends[r].target \in Database
  BY EndsAreDatabases
<1>2. at[Ends[r].source] \in Site \cup {NoSite} /\ at[Ends[r].target] \in Site \cup {NoSite}
  BY <1>1 DEF TypeOK
<1>3. \A w \in Site : w.place \in Place
  BY SitesHavePlaces
<1> QED
  BY <1>2, <1>3 DEF Resolved, Edge

LEMMA NamedType ==
  ASSUME TypeOK, NEW r \in Replication, Resolved(r, at) # NoEdge
  PROVE  Named(r, at) \in Names
<1>1. Ends[r].source \in Database /\ Ends[r].target \in Database
  BY EndsAreDatabases
<1>2. at[Ends[r].source] \in Site /\ at[Ends[r].target] \in Site
  BY <1>1 DEF TypeOK, Resolved
<1>3. \A w \in Site : w.name \in Name
  BY SitesHavePlaces
<1> QED
  BY <1>2, <1>3 DEF Named, Names

LEMMA IdleType ==
  ASSUME TypeOK, NEW r \in Replication, NEW how, Idle(r, how)
  PROVE  /\ stage' \in [Replication -> Stage]
         /\ edge' \in [Replication -> Edge \cup {NoEdge}]
         /\ pending' \in [Replication -> SUBSET Replication]
         /\ seen' \in [Replication -> [Replication -> Edge \cup {NoEdge}]]
         /\ refused' \subseteq Replication
         /\ names' \in [Replication -> Names \cup {NoEdge}]
  BY DEF TypeOK, Idle, Stage

LEMMA LapseType == Lapse => lapsed' \subseteq Replication
  BY DEF Lapse

LEMMA BudgetType ==
  ASSUME NEW b \in [creations : Nat, meddling : Nat, fails : Nat]
  PROVE  /\ b.creations > 0 => [b EXCEPT !.creations = @ - 1] \in [creations : Nat, meddling : Nat, fails : Nat]
         /\ b.meddling > 0 => [b EXCEPT !.meddling = @ - 1] \in [creations : Nat, meddling : Nat, fails : Nat]
         /\ b.fails > 0 => [b EXCEPT !.fails = @ - 1] \in [creations : Nat, meddling : Nat, fails : Nat]
<1>1. b.creations \in Nat /\ b.meddling \in Nat /\ b.fails \in Nat
  OBVIOUS
<1>2. /\ b.creations > 0 => b.creations - 1 \in Nat
      /\ b.meddling > 0 => b.meddling - 1 \in Nat
      /\ b.fails > 0 => b.fails - 1 \in Nat
  BY <1>1
<1> QED
  BY <1>2

LEMMA TypeStep == TypeOK /\ [Next]_vars => TypeOK'
<1> SUFFICES ASSUME TypeOK, [Next]_vars PROVE TypeOK'
  OBVIOUS
<1>1. ASSUME NEW r \in Replication, ResolveEnds(r) PROVE TypeOK'
  <2>1. CASE Permissible(r, at)
    <3>1. Resolved(r, at) \in Edge \cup {NoEdge} /\ Named(r, at) \in Names
      BY <2>1, ResolvedType, NamedType DEF Permissible
    <3>2. /\ stage' = [stage EXCEPT ![r] = "listing"]
          /\ edge' = [edge EXCEPT ![r] = Resolved(r, at)]
          /\ names' = [names EXCEPT ![r] = Named(r, at)]
          /\ UNCHANGED <<life, at, attached, made, pending, seen, refused, budget>> /\ Lapse
      BY <1>1, <2>1 DEF ResolveEnds
    <3>3. stage' \in [Replication -> Stage]
      BY <3>2 DEF TypeOK, Stage
    <3>4. /\ edge' \in [Replication -> Edge \cup {NoEdge}]
          /\ names' \in [Replication -> Names \cup {NoEdge}]
      BY <3>1, <3>2 DEF TypeOK
    <3> QED
      BY <3>2, <3>3, <3>4, LapseType DEF TypeOK
  <2>2. CASE ~Permissible(r, at)
    BY <1>1, <2>2, IdleType, LapseType DEF ResolveEnds, TypeOK
  <2> QED
    BY <2>1, <2>2
<1>2. ASSUME NEW r \in Replication, List(r) PROVE TypeOK'
  BY <1>2, LapseType DEF List, TypeOK, Stage
<1>3. ASSUME NEW r \in Replication, NEW q \in Replication, ResolveOther(r, q) PROVE TypeOK'
  <2>1. seen' \in [Replication -> [Replication -> Edge \cup {NoEdge}]]
    BY <1>3, ResolvedType DEF ResolveOther, TypeOK
  <2>2. pending' \in [Replication -> SUBSET Replication]
    BY <1>3 DEF ResolveOther, TypeOK
  <2> QED
    BY <1>3, <2>1, <2>2, LapseType DEF ResolveOther, TypeOK
<1>4. ASSUME NEW r \in Replication, Decide(r) PROVE TypeOK'
  <2>1. CASE Reaches(Edges(r), edge[r].target, edge[r].source)
    BY <1>4, <2>1, IdleType, LapseType DEF Decide, TypeOK
  <2>2. CASE ~Reaches(Edges(r), edge[r].target, edge[r].source)
    <3>1. /\ stage' = [stage EXCEPT ![r] = "cleared"]
          /\ seen' = [seen EXCEPT ![r] = [q \in Replication |-> NoEdge]]
          /\ UNCHANGED <<life, at, attached, made, names, edge, pending, refused, budget>> /\ Lapse
      BY <1>4, <2>2 DEF Decide
    <3>2. stage' \in [Replication -> Stage]
      BY <3>1 DEF TypeOK, Stage
    <3>3. seen' \in [Replication -> [Replication -> Edge \cup {NoEdge}]]
      BY <3>1 DEF TypeOK
    <3> QED
      BY <3>1, <3>2, <3>3, LapseType DEF TypeOK
  <2> QED
    BY <2>1, <2>2
<1>5. ASSUME NEW r \in Replication, Attach(r) PROVE TypeOK'
  BY <1>5, IdleType, LapseType DEF Attach, TypeOK
<1>6. ASSUME NEW r \in Replication, Fail(r) PROVE TypeOK'
  BY <1>6, IdleType, LapseType, BudgetType DEF Fail, TypeOK
<1>7. ASSUME NEW r \in Replication, Finalize(r) PROVE TypeOK'
  BY <1>7, IdleType, LapseType DEF Finalize, TypeOK
<1>8. ASSUME NEW r \in Replication, Create(r) PROVE TypeOK'
  BY <1>8, LapseType, BudgetType DEF Create, TypeOK
<1>9. ASSUME NEW r \in Replication, Delete(r) PROVE TypeOK'
  BY <1>9, LapseType, BudgetType DEF Delete, TypeOK
<1>11. ASSUME NEW d \in Movable, Move(d) PROVE TypeOK'
  <2>1. at' \in [Database -> Site \cup {NoSite}]
    BY <1>11, SomeMove DEF Move, TypeOK
  <2>2. budget' \in [creations : Nat, meddling : Nat, fails : Nat]
    BY <1>11, BudgetType DEF Move, TypeOK
  <2> QED
    BY <1>11, <2>1, <2>2, LapseType DEF Move, TypeOK
<1>10. CASE Quiet \/ UNCHANGED vars
  BY <1>10 DEF Quiet, vars, TypeOK
<1>12. ASSUME NEW r \in Replication, Make(r) PROVE TypeOK'
  BY <1>12, LapseType DEF Make, TypeOK
<1> QED
  BY <1>1, <1>2, <1>3, <1>4, <1>5, <1>6, <1>7, <1>8, <1>9, <1>10, <1>11, <1>12
     DEF Next, Pass

LEMMA TypeInit == Init => TypeOK
  BY OriginsAreSites, BudgetsAreNat DEF Init, TypeOK, Stage

\* Every variable keeps its type.
THEOREM TypeCorrect == Spec => []TypeOK
  BY TypeInit, TypeStep, PTL DEF Spec

-----------------------------------------------------------------------------
(***************************************************************************)
(* 2  Paths and loops                                                      *)
(***************************************************************************)

\* Going round the loop S from r.  If the edges of the others in S are among E
\* and lead nowhere near r's source, the part of S they do reach is a loop of its
\* own, without r.
LEMMA PathClosesLoop ==
  ASSUME NEW S, NEW e, NEW r \in S, NEW E, Loops(S, e),
         \A q \in S : e[q] \in Edge,
         \A q \in S \ {r} : e[q] \in E,
         ~Reaches(E, e[r].target, e[r].source)
  PROVE  \E R \in SUBSET (S \ {r}) : Loops(R, e)
<1>1. PICK N \in SUBSET Place :
        /\ e[r].target \in N /\ e[r].source \notin N
        /\ \A f \in E : f.source \in N => f.target \in N
  BY DEF Reaches
<1> DEFINE R == {q \in S : e[q].source \in N}
<1>2. R \in SUBSET (S \ {r})
  BY <1>1
<1>3. PICK q \in S : e[r].target = e[q].source
  BY DEF Loops
<1>4. R # {}
  BY <1>1, <1>3
<1>5. ASSUME NEW p \in R PROVE \E s \in R : e[p].target = e[s].source
  <2>1. e[p].target \in N
    BY <1>1, <1>2
  <2>2. PICK s \in S : e[p].target = e[s].source
    BY DEF Loops
  <2> QED
    BY <2>1, <2>2
<1>6. Loops(R, e)
  BY <1>4, <1>5 DEF Loops
<1> QED
  BY <1>2, <1>6

-----------------------------------------------------------------------------
(***************************************************************************)
(* 3  The invariant.  A loop of replications none of which has lapsed is   *)
(* there only while one of them is still being checked, is attached        *)
(* nowhere, and cannot miss the rest of some loop it is on: whatever it    *)
(* has not yet listed or resolved it still will.                           *)
(***************************************************************************)

Holds == [r \in Replication |-> Held(r, attached, stage, edge)]
Firm == {r \in Replication : Holds[r] # NoEdge /\ r \notin lapsed}

Watches(r, S) ==
  /\ attached[r] = NoEdge
  /\ \/ stage[r] = "listing"
     \/ /\ stage[r] = "resolving"
        /\ \A q \in S \ {r} : q \in pending[r] \/ seen[r][q] = Holds[q]

Watched(S) == \E R \in SUBSET S : Loops(R, Holds) /\ \E r \in R : Watches(r, R)

\* A pass may be about to stream elsewhere only where an instance has been edited,
\* and then its replication has lapsed.
PassHolds == \A r \in Replication :
  stage[r] # "idle" => edge[r] \in Edge /\ (r \in Firm => Holds[r] = edge[r])
FirmIsSeen == \A r \in Firm : life[r] = "standing" /\ Resolved(r, at) = Holds[r]
LoopsWatched == \A S \in SUBSET Firm : Loops(S, Holds) => Watched(S)

CycleInv == TypeOK /\ PassHolds /\ FirmIsSeen /\ LoopsWatched

LEMMA HoldsType ==
  ASSUME TypeOK, NEW r \in Replication
  PROVE  Holds[r] \in Edge \cup {NoEdge}
  BY DEF TypeOK, Holds, Held

LEMMA CycleInit == Init => CycleInv
<1> SUFFICES ASSUME Init PROVE CycleInv
  OBVIOUS
<1>1. Firm = {}
  BY DEF Init, Firm, Holds, Held
<1>2. PassHolds
  BY DEF Init, PassHolds
<1>3. FirmIsSeen /\ LoopsWatched
  BY <1>1 DEF FirmIsSeen, LoopsWatched, Loops
<1> QED
  BY <1>2, <1>3, TypeInit DEF CycleInv

\* Whoever is firm after a step was firm before it, or comes to hold an edge in it.
LEMMA FirmComes ==
  ASSUME Lapse, NEW r \in Replication, r \in Firm', Holds[r] # NoEdge
  PROVE  r \in Firm
  BY DEF Lapse, Firm, Holds

LEMMA FirmSeen == Lapse => FirmIsSeen'
  BY DEF Lapse, FirmIsSeen, Firm, Holds

\* A step in which nobody comes to hold an edge or holds another one, and in which
\* who watches goes on watching, if not refused, leaves every loop watched.
LEMMA LoopsKept ==
  ASSUME CycleInv, Lapse,
         \A q \in Firm' : Holds'[q] = Holds[q],
         \A R \in SUBSET Firm' : \A q \in R : Loops(R, Holds) /\ Watches(q, R) => Watches(q, R)'
  PROVE  LoopsWatched'
<1> SUFFICES ASSUME NEW S \in SUBSET Firm', Loops(S, Holds') PROVE Watched(S)'
  BY DEF LoopsWatched
<1>1. S \in SUBSET Firm
  BY FirmComes DEF Firm
<1>2. Loops(S, Holds)
  BY DEF Loops
<1>3. PICK R \in SUBSET S : Loops(R, Holds) /\ \E q \in R : Watches(q, R)
  BY <1>1, <1>2 DEF CycleInv, LoopsWatched, Watched
<1>4. Loops(R, Holds')
  BY <1>3 DEF Loops
<1>5. PICK q \in R : Watches(q, R)'
  BY <1>3
<1> QED
  BY <1>4, <1>5 DEF Watched

\* When a pass ends its replication holds what it is attached to.
LEMMA IdleHolds ==
  ASSUME CycleInv, NEW r \in Replication, NEW how, Idle(r, how), UNCHANGED attached
  PROVE  /\ \A q \in Replication : Holds'[q] # NoEdge => Holds'[q] = Holds[q]
         /\ \A q \in Replication \ {r} : stage'[q] = stage[q] /\ edge'[q] = edge[q]
              /\ pending'[q] = pending[q] /\ seen'[q] = seen[q]
         /\ stage'[r] = "idle"
  BY DEF CycleInv, TypeOK, Idle, Holds, Held

LEMMA IdleKeeps ==
  ASSUME CycleInv, NEW r \in Replication, NEW how, Idle(r, how), UNCHANGED attached, Lapse
  PROVE  PassHolds' /\ LoopsWatched'
<1>1. PassHolds'
  <2> SUFFICES ASSUME NEW q \in Replication, stage'[q] # "idle"
               PROVE  edge'[q] \in Edge /\ (q \in Firm' => Holds'[q] = edge'[q])
    BY DEF PassHolds
  <2>1. q # r /\ stage[q] # "idle" /\ edge'[q] = edge[q]
    BY IdleHolds
  <2>2. ASSUME q \in Firm' PROVE Holds'[q] = Holds[q] /\ q \in Firm
    BY <2>2, IdleHolds, FirmComes DEF Firm
  <2> QED
    BY <2>1, <2>2 DEF CycleInv, PassHolds
<1>2. \A q \in Firm' : Holds'[q] = Holds[q]
  BY IdleHolds DEF Firm
<1>3. ASSUME NEW R \in SUBSET Firm', NEW q \in R, Watches(q, R)
      PROVE  Watches(q, R)'
  <2>1. q # r
    <3>1. SUFFICES ASSUME q = r PROVE FALSE
      OBVIOUS
    <3>2. attached'[r] = NoEdge /\ stage'[r] = "idle"
      BY <1>3, <3>1, IdleHolds DEF Watches
    <3>3. Holds'[r] = NoEdge
      BY <3>2 DEF Holds, Held
    <3> QED
      BY <3>1, <3>3 DEF Firm
  <2>2. q \in Replication /\ \A p \in R : Holds'[p] = Holds[p]
    BY <1>2 DEF Firm
  <2> QED
    BY <1>3, <2>1, <2>2, IdleHolds DEF Watches
<1> QED
  BY <1>1, <1>2, <1>3, LoopsKept

\* A step in which who is in a pass goes on, along the ends it resolved.
LEMMA PassKept ==
  ASSUME CycleInv, Lapse, Holds' = Holds, edge' = edge,
         \A q \in Replication : stage'[q] # "idle" => stage[q] # "idle"
  PROVE  PassHolds'
<1> SUFFICES ASSUME NEW q \in Replication, stage'[q] # "idle"
             PROVE  edge'[q] \in Edge /\ (q \in Firm' => Holds'[q] = edge'[q])
  BY DEF PassHolds
<1>1. q \in Firm' => q \in Firm
  BY FirmComes DEF Firm
<1> QED
  BY <1>1 DEF CycleInv, PassHolds

LEMMA CycleStep == CycleInv /\ [Next]_vars => CycleInv'
<1> SUFFICES ASSUME CycleInv, [Next]_vars PROVE CycleInv'
  OBVIOUS
<1>0. TypeOK /\ TypeOK'
  BY TypeStep DEF CycleInv
<1>1. ASSUME NEW r \in Replication, ResolveEnds(r) PROVE CycleInv'
  <2>1. Lapse /\ UNCHANGED attached
    BY <1>1 DEF ResolveEnds
  <2>2. CASE ~Permissible(r, at)
    BY <1>0, <1>1, <2>1, <2>2, IdleKeeps, FirmSeen DEF ResolveEnds, CycleInv
  <2>3. CASE Permissible(r, at)
    <3>1. /\ stage[r] = "idle" /\ stage' = [stage EXCEPT ![r] = "listing"]
          /\ edge' = [edge EXCEPT ![r] = Resolved(r, at)]
          /\ UNCHANGED <<at, pending, seen>>
      BY <1>1, <2>3 DEF ResolveEnds
    <3>2. Resolved(r, at) \in Edge
      BY <1>0, <2>3, ResolvedType DEF Permissible
    <3>4. /\ \A q \in Replication \ {r} : Holds'[q] = Holds[q]
          /\ attached[r] # NoEdge => Holds'[r] = Holds[r]
      BY <1>0, <2>1, <3>1 DEF Holds, Held, TypeOK
    <3>3. PassHolds'
      <4> SUFFICES ASSUME NEW q \in Replication, stage'[q] # "idle"
                   PROVE  edge'[q] \in Edge /\ (q \in Firm' => Holds'[q] = edge'[q])
        BY DEF PassHolds
      <4>1. CASE q = r
        <5>1. edge'[q] = Resolved(q, at)
          BY <1>0, <3>1, <4>1 DEF TypeOK
        <5>2. q \in Firm' => Resolved(q, at') = Holds'[q]
          BY <2>1, FirmSeen DEF FirmIsSeen
        <5>3. Resolved(q, at') = Resolved(q, at)
          BY <3>1 DEF Resolved
        <5> QED
          BY <3>2, <4>1, <5>1, <5>2, <5>3
      <4>2. CASE q # r
        <5>1. stage[q] # "idle" /\ edge'[q] = edge[q]
          BY <1>0, <3>1, <4>2 DEF TypeOK
        <5>2. ASSUME q \in Firm' PROVE Holds'[q] = Holds[q] /\ q \in Firm
          BY <2>1, <3>4, <4>2, <5>2, FirmComes DEF Firm
        <5> QED
          BY <5>1, <5>2 DEF CycleInv, PassHolds
      <4> QED
        BY <4>1, <4>2
    <3>5. ASSUME NEW S \in SUBSET Firm', Loops(S, Holds') PROVE Watched(S)'
      <4>1. CASE r \in S /\ attached[r] = NoEdge
        <5>1. Watches(r, S)'
          BY <1>0, <2>1, <3>1, <4>1 DEF Watches, TypeOK
        <5> QED
          BY <3>5, <4>1, <5>1 DEF Watched
      <4>2. CASE r \notin S \/ attached[r] # NoEdge
        <5>1. \A q \in S : q \in Replication /\ Holds'[q] = Holds[q] /\ Holds[q] # NoEdge
          BY <3>4, <4>2 DEF Firm
        <5>2. S \in SUBSET Firm
          BY <2>1, <5>1, FirmComes
        <5>3. Loops(S, Holds)
          BY <3>5, <5>1 DEF Loops
        <5>4. PICK R \in SUBSET S : Loops(R, Holds) /\ \E q \in R : Watches(q, R)
          BY <5>2, <5>3 DEF CycleInv, LoopsWatched, Watched
        <5>5. PICK q \in R : Watches(q, R)
          BY <5>4
        <5>6. q # r
          BY <3>1, <5>5 DEF Watches
        <5>7. Watches(q, R)'
          BY <1>0, <2>1, <3>1, <5>1, <5>5, <5>6 DEF Watches, TypeOK
        <5>8. Loops(R, Holds')
          BY <5>1, <5>4 DEF Loops
        <5> QED
          BY <5>7, <5>8 DEF Watched
      <4> QED
        BY <4>1, <4>2
    <3> QED
      BY <1>0, <2>1, <3>3, <3>5, FirmSeen DEF CycleInv, LoopsWatched
  <2> QED
    BY <2>2, <2>3
<1>2. ASSUME NEW r \in Replication, List(r) PROVE CycleInv'
  <2>1. /\ Lapse /\ UNCHANGED <<attached, edge, seen, life>>
        /\ stage[r] = "listing" /\ stage' = [stage EXCEPT ![r] = "resolving"]
        /\ pending' = [pending EXCEPT ![r] = {q \in Replication \ {r} : life[q] = "standing"}]
    BY <1>2 DEF List
  <2>2. Holds' = Holds
    BY <1>0, <2>1 DEF Holds, Held, TypeOK
  <2>3. PassHolds'
    <3>1. \A q \in Replication : stage'[q] # "idle" => stage[q] # "idle"
      BY <1>0, <2>1 DEF TypeOK
    <3> QED
      BY <2>1, <2>2, <3>1, PassKept
  <2>4. ASSUME NEW R \in SUBSET Firm', NEW q \in R, Watches(q, R)
        PROVE  Watches(q, R)'
    <3>1. \A p \in R : p \in Replication /\ life[p] = "standing"
      BY <2>1, FirmSeen DEF FirmIsSeen, Firm
    <3>2. CASE q = r
      <4>1. pending'[r] = {p \in Replication \ {r} : life[p] = "standing"} /\ stage'[r] = "resolving"
        BY <1>0, <2>1 DEF TypeOK
      <4> QED
        BY <2>1, <2>4, <3>1, <3>2, <4>1 DEF Watches
    <3>3. CASE q # r
      BY <1>0, <2>1, <2>2, <2>4, <3>1, <3>3 DEF Watches, TypeOK
    <3> QED
      BY <3>2, <3>3
  <2> QED
    BY <1>0, <2>1, <2>2, <2>3, <2>4, FirmSeen, LoopsKept DEF CycleInv
<1>3. ASSUME NEW r \in Replication, NEW o \in Replication, ResolveOther(r, o) PROVE CycleInv'
  <2>1. /\ Lapse /\ UNCHANGED <<attached, edge, stage, at>>
        /\ pending' = [pending EXCEPT ![r] = @ \ {o}]
        /\ seen' = [seen EXCEPT ![r][o] = Resolved(o, at)]
    BY <1>3 DEF ResolveOther
  <2>2. Holds' = Holds
    BY <2>1 DEF Holds, Held
  <2>3. PassHolds'
    BY <2>1, <2>2, PassKept
  <2>4. ASSUME NEW R \in SUBSET Firm', NEW q \in R, Watches(q, R)
        PROVE  Watches(q, R)'
    <3>1. \A p \in R : p \in Replication /\ Resolved(p, at) = Holds[p]
      <4>1. \A p \in Firm' : Resolved(p, at') = Holds'[p]
        BY <2>1, FirmSeen DEF FirmIsSeen
      <4> QED
        BY <2>1, <2>2, <4>1 DEF Firm
    <3>2. CASE q = r
      <4>1. /\ pending'[r] = pending[r] \ {o}
            /\ seen'[r][o] = Resolved(o, at)
            /\ \A p \in Replication \ {o} : seen'[r][p] = seen[r][p]
        BY <1>0, <2>1 DEF TypeOK
      <4> QED
        BY <2>1, <2>2, <2>4, <3>1, <3>2, <4>1 DEF Watches
    <3>3. CASE q # r
      <4>1. pending'[q] = pending[q] /\ seen'[q] = seen[q]
        BY <1>0, <2>1, <3>1, <3>3 DEF TypeOK
      <4> QED
        BY <2>1, <2>2, <2>4, <4>1 DEF Watches
    <3> QED
      BY <3>2, <3>3
  <2> QED
    BY <1>0, <2>1, <2>2, <2>3, <2>4, FirmSeen, LoopsKept DEF CycleInv
<1>4. ASSUME NEW r \in Replication, Decide(r) PROVE CycleInv'
  <2>1. Lapse /\ UNCHANGED attached /\ stage[r] = "resolving" /\ pending[r] = {}
    BY <1>4 DEF Decide
  <2>2. CASE Reaches(Edges(r), edge[r].target, edge[r].source)
    BY <1>0, <1>4, <2>1, <2>2, IdleKeeps, FirmSeen DEF Decide, CycleInv
  <2>3. CASE ~Reaches(Edges(r), edge[r].target, edge[r].source)
    <3>1. /\ stage' = [stage EXCEPT ![r] = "cleared"] /\ UNCHANGED <<edge, pending>>
          /\ seen' = [seen EXCEPT ![r] = [q \in Replication |-> NoEdge]]
      BY <1>4, <2>3 DEF Decide
    <3>2. Holds' = Holds
      BY <1>0, <2>1, <3>1 DEF Holds, Held, TypeOK
    <3>3. PassHolds'
      <4>1. \A q \in Replication : stage'[q] # "idle" => stage[q] # "idle"
        BY <1>0, <2>1, <3>1 DEF TypeOK
      <4> QED
        BY <2>1, <3>1, <3>2, <4>1, PassKept
    <3>4. ASSUME NEW q \in Replication \ {r}, NEW R, Watches(q, R) PROVE Watches(q, R)'
      <4>1. stage'[q] = stage[q] /\ seen'[q] = seen[q]
        BY <1>0, <3>1 DEF TypeOK
      <4> QED
        BY <2>1, <3>1, <3>2, <3>4, <4>1 DEF Watches
    \* A loop r watches has a smaller one without r, which another must watch.
    <3>5. ASSUME NEW S \in SUBSET Firm', Loops(S, Holds) PROVE Watched(S)'
      <4>1. S \in SUBSET Firm
        BY <2>1, <3>2, FirmComes DEF Firm
      <4>2. PICK R \in SUBSET S : Loops(R, Holds) /\ \E q \in R : Watches(q, R)
        BY <3>5, <4>1 DEF CycleInv, LoopsWatched, Watched
      <4>3. PICK q \in R : Watches(q, R)
        BY <4>2
      <4>4. CASE q # r
        BY <3>2, <3>4, <4>1, <4>2, <4>3, <4>4 DEF Watched, Firm
      <4>5. CASE q = r
        <5>1. \A p \in R : p \in Replication /\ Holds[p] \in Edge
          BY <1>0, <4>1, HoldsType DEF Firm
        <5>2. \A p \in R \ {r} : Holds[p] \in Edges(r)
          <6>1. \A p \in R \ {r} : seen[r][p] = Holds[p]
            BY <2>1, <4>3, <4>5 DEF Watches
          <6>2. NoEdge \notin Edge
            BY NothingIsNowhere
          <6> QED
            BY <5>1, <6>1, <6>2 DEF Edges
        <5>3. Holds[r] = edge[r]
          BY <2>1, <4>3, <4>5 DEF Watches, Holds, Held
        <5>4. PICK Q \in SUBSET (R \ {r}) : Loops(Q, Holds)
          BY <2>3, <4>2, <4>3, <4>5, <5>1, <5>2, <5>3, PathClosesLoop
        <5>5. Q \in SUBSET Firm
          BY <4>1, <4>2, <5>4
        <5>6. PICK P \in SUBSET Q : Loops(P, Holds) /\ \E p \in P : Watches(p, P)
          BY <5>4, <5>5 DEF CycleInv, LoopsWatched, Watched
        <5>7. PICK p \in P : Watches(p, P)
          BY <5>6
        <5>8. p \in Replication \ {r} /\ P \in SUBSET S
          BY <4>2, <5>1, <5>4, <5>6, <5>7
        <5> QED
          BY <3>2, <3>4, <5>6, <5>7, <5>8 DEF Watched
      <4> QED
        BY <4>4, <4>5
    <3> QED
      BY <1>0, <2>1, <3>2, <3>3, <3>5, FirmSeen DEF CycleInv, LoopsWatched
  <2> QED
    BY <2>2, <2>3
<1>5. ASSUME NEW r \in Replication, Attach(r) PROVE CycleInv'
  <2>1. /\ Lapse /\ stage[r] = "cleared" /\ Idle(r, "attached")
        /\ attached' = [attached EXCEPT ![r] = edge[r]]
    BY <1>5 DEF Attach
  <2>2. /\ stage' = [stage EXCEPT ![r] = "idle"] /\ edge' = [edge EXCEPT ![r] = NoEdge]
        /\ \A q \in Replication \ {r} : pending'[q] = pending[q] /\ seen'[q] = seen[q]
    BY <1>0, <2>1 DEF Idle, TypeOK
  <2>3. edge[r] \in Edge /\ (r \in Firm => Holds[r] = edge[r]) /\ NoEdge \notin Edge
    BY <2>1, NothingIsNowhere DEF CycleInv, PassHolds
  <2>4. \A q \in Firm' : Holds'[q] = Holds[q]
    <3> SUFFICES ASSUME NEW q \in Firm' PROVE Holds'[q] = Holds[q]
      OBVIOUS
    <3>1. CASE q = r
      <4>1. Holds[r] # NoEdge
        BY <1>0, <2>1, <2>3 DEF Holds, Held, TypeOK
      <4>2. Holds'[r] = edge[r]
        BY <1>0, <2>1, <2>3 DEF Holds, Held, TypeOK
      <4>3. r \in Firm
        BY <2>1, <3>1, <4>1, FirmComes
      <4> QED
        BY <2>3, <3>1, <4>2, <4>3
    <3>2. CASE q # r
      BY <1>0, <2>1, <2>2, <3>2 DEF Holds, Held, TypeOK, Firm
    <3> QED
      BY <3>1, <3>2
  <2>5. PassHolds'
    <3> SUFFICES ASSUME NEW q \in Replication, stage'[q] # "idle"
                 PROVE  edge'[q] \in Edge /\ (q \in Firm' => Holds'[q] = edge'[q])
      BY DEF PassHolds
    <3>1. q # r /\ stage[q] # "idle" /\ edge'[q] = edge[q]
      BY <1>0, <2>2 DEF TypeOK
    <3>2. ASSUME q \in Firm' PROVE q \in Firm
      BY <2>1, <2>4, <3>2, FirmComes DEF Firm
    <3> QED
      BY <2>4, <3>1, <3>2 DEF CycleInv, PassHolds
  <2>6. ASSUME NEW R \in SUBSET Firm', NEW q \in R, Watches(q, R)
        PROVE  Watches(q, R)'
    <3>1. q # r /\ \A p \in R : p \in Replication
      BY <2>1, <2>6 DEF Watches, Firm
    <3>2. attached'[q] = attached[q] /\ stage'[q] = stage[q]
      BY <1>0, <2>1, <2>2, <3>1 DEF TypeOK
    <3> QED
      BY <2>2, <2>4, <2>6, <3>1, <3>2 DEF Watches
  <2> QED
    BY <1>0, <2>1, <2>4, <2>5, <2>6, FirmSeen, LoopsKept DEF CycleInv, Firm
<1>6. ASSUME NEW r \in Replication, Fail(r) PROVE CycleInv'
  <2>1. Lapse /\ Idle(r, "failed") /\ UNCHANGED attached
    BY <1>6 DEF Fail
  <2> QED
    BY <1>0, <2>1, IdleKeeps, FirmSeen DEF CycleInv
<1>7. ASSUME NEW r \in Replication, Finalize(r) PROVE CycleInv'
  <2>1. /\ Lapse /\ stage[r] = "idle" /\ Idle(r, "none")
        /\ attached' = [attached EXCEPT ![r] = NoEdge]
    BY <1>7 DEF Finalize
  <2>2. \A q \in Replication \ {r} :
          /\ attached'[q] = attached[q] /\ stage'[q] = stage[q] /\ edge'[q] = edge[q]
          /\ pending'[q] = pending[q] /\ seen'[q] = seen[q]
    BY <1>0, <2>1 DEF Idle, TypeOK
  <2>3. Holds'[r] = NoEdge /\ stage'[r] = "idle"
    BY <1>0, <2>1 DEF Holds, Held, Idle, TypeOK
  <2>4. \A q \in Replication \ {r} : Holds'[q] = Holds[q]
    BY <2>2 DEF Holds, Held
  <2>5. PassHolds'
    <3> SUFFICES ASSUME NEW q \in Replication, stage'[q] # "idle"
                 PROVE  edge'[q] \in Edge /\ (q \in Firm' => Holds'[q] = edge'[q])
      BY DEF PassHolds
    <3>1. q # r /\ stage[q] # "idle" /\ edge'[q] = edge[q] /\ Holds'[q] = Holds[q]
      BY <2>2, <2>3, <2>4
    <3>2. ASSUME q \in Firm' PROVE q \in Firm
      BY <2>1, <3>1, <3>2, FirmComes DEF Firm
    <3> QED
      BY <3>1, <3>2 DEF CycleInv, PassHolds
  <2>6. \A q \in Firm' : q \in Replication \ {r}
    BY <2>3 DEF Firm
  <2>7. ASSUME NEW R \in SUBSET Firm', NEW q \in R, Watches(q, R)
        PROVE  Watches(q, R)'
    BY <2>2, <2>4, <2>6, <2>7 DEF Watches
  <2> QED
    BY <1>0, <2>1, <2>4, <2>5, <2>6, <2>7, FirmSeen, LoopsKept DEF CycleInv
<1>8. ASSUME Lapse, UNCHANGED <<attached, stage, edge, pending, seen>> PROVE CycleInv'
  <2>1. Holds' = Holds
    BY <1>8 DEF Holds
  <2>2. PassHolds'
    BY <1>8, <2>1, PassKept
  <2>3. \A R : \A q \in R : Watches(q, R) => Watches(q, R)'
    BY <1>8, <2>1 DEF Watches
  <2> QED
    BY <1>0, <1>8, <2>1, <2>2, <2>3, FirmSeen, LoopsKept DEF CycleInv
<1>9. CASE Quiet \/ UNCHANGED vars
  <2>1. UNCHANGED vars
    BY <1>9 DEF Quiet
  <2>2. Firm' = Firm /\ Holds' = Holds
    BY <2>1 DEF Firm, Holds, vars
  <2> QED
    BY <1>0, <2>1, <2>2 DEF CycleInv, PassHolds, FirmIsSeen, LoopsWatched, Watched, Watches, vars
<1>10. CASE \E r \in Replication : Create(r) \/ Delete(r) \/ Make(r)
  BY <1>8, <1>10 DEF Create, Delete, Make
<1>11. CASE \E d \in Movable : Move(d)
  BY <1>8, <1>11 DEF Move
<1> QED
  BY <1>1, <1>2, <1>3, <1>4, <1>5, <1>6, <1>7, <1>9, <1>10, <1>11 DEF Next, Pass

LEMMA LoopsLapse == CycleInv => LoopsHaveALapse
<1> SUFFICES ASSUME CycleInv, NEW S \in SUBSET Attached, Loops(S, attached), S \cap lapsed = {}
             PROVE  FALSE
  BY DEF LoopsHaveALapse
<1>1. \A r \in S : r \in Replication /\ attached[r] # NoEdge /\ Holds[r] = attached[r]
  BY DEF Attached, Holds, Held
<1>2. S \in SUBSET Firm
  BY <1>1 DEF Firm
<1>3. Loops(S, Holds)
  BY <1>1 DEF Loops
<1>4. PICK R \in SUBSET S : \E r \in R : Watches(r, R)
  BY <1>2, <1>3 DEF CycleInv, LoopsWatched, Watched
<1> QED
  BY <1>1, <1>4 DEF Watches

\* No loop of replications streams, of whatever length, unless one of them was at
\* some time hidden from the others' checks.
THEOREM LoopFree == Spec => []LoopsHaveALapse
<1>1. CycleInv /\ [Next]_vars => CycleInv'
  BY CycleStep
<1> QED
  BY CycleInit, <1>1, LoopsLapse, PTL DEF Spec
=============================================================================
