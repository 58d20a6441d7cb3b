-------------------------- MODULE ReplicationCycles --------------------------
(***************************************************************************)
(* Several PostgresReplications over the physical databases their          *)
(* PostgresDBs resolve to, and the check by which a pass refuses to close  *)
(* a loop of them (_resolve_end, _refuse_moved_ends and _refuse_cycles of  *)
(* reconcile/replication.py).                                              *)
(*                                                                         *)
(* ResourceLocks keeps two passes over ONE replication apart; nothing      *)
(* keeps passes over different replications apart.  A check lists the      *)
(* replications, then resolves them one by one, while others are made,     *)
(* deleted and attached, and while PostgresDBs go, come back or move.      *)
(*                                                                         *)
(* Abstracted: what a pass makes between its check and the end (module     *)
(* Replication) is the one step Attach, and its finalizer is Finalize;     *)
(* following one dbRef pair is one step.  What an instance that is edited  *)
(* to name another server leaves behind on the old one is not followed.    *)
(***************************************************************************)
EXTENDS Naturals, FiniteSets

CONSTANTS
  Replication,  \* the PostgresReplications, in the order a list returns them or any other
  Database,     \* names of PostgresDBs
  Place,        \* physical databases: host, port and database name
  Name,         \* the same by the names status records: PostgresInstance and database name
  Site,         \* what a PostgresDB may resolve to: an instance's database, and where that is
  NoSite,       \* what one that is missing or invalid resolves to
  NoEdge,       \* of a replication that resolves to nothing, or is attached nowhere
  Ends,         \* the dbRefs of each replication; they are immutable
  ServerOf,     \* the server a physical database is on
  Origins,      \* where the PostgresDBs may resolve to at the start
  Movable,      \* the PostgresDBs that may come to resolve to something else
  Budgets       \* bounds, for TLC: how often others may act and calls may fail

Edge == [source : Place, target : Place]
Names == [source : Name, target : Name]

ASSUME EndsAreDatabases == Ends \in [Replication -> [source : Database, target : Database]]
ASSUME SitesHavePlaces == Site \subseteq [name : Name, place : Place]
ASSUME OriginsAreSites == Origins \subseteq [Database -> Site \cup {NoSite}]
ASSUME NothingIsNowhere == NoSite \notin Site /\ NoEdge \notin Edge
ASSUME SomeMove == Movable \subseteq Database
ASSUME BudgetsAreNat == Budgets \subseteq [creations : Nat, meddling : Nat, fails : Nat]

VARIABLES
  life,      \* Replication -> absent, standing, or deleting until its finalizer is released
  at,        \* Database -> the site it resolves to now, or NoSite
  attached,  \* Replication -> the edge it streams along
  made,      \* those with something made for them, which status.created records
  names,     \* Replication -> its ends as its pass resolved them; status keeps them once made
  stage,     \* Replication -> how far its pass has come
  edge,      \* Replication -> where these ends are, as its pass resolved them
  pending,   \* Replication -> the replications its pass has listed and not yet resolved
  seen,      \* Replication -> the edges of those it has resolved
  refused,   \* the replications whose last pass was refused: Ready=False says why
  lapsed,    \* those whose edge a check may have missed; see Lapse
  budget     \* how often the bounded actions may still happen

vars == <<life, at, attached, made, names, stage, edge, pending, seen, refused, lapsed, budget>>

Stage == {"idle", "listing", "resolving", "cleared"}

TypeOK ==
  /\ life \in [Replication -> {"absent", "standing", "deleting"}]
  /\ at \in [Database -> Site \cup {NoSite}]
  /\ attached \in [Replication -> Edge \cup {NoEdge}]
  /\ made \subseteq Replication
  /\ names \in [Replication -> Names \cup {NoEdge}]
  /\ stage \in [Replication -> Stage]
  /\ edge \in [Replication -> Edge \cup {NoEdge}]
  /\ pending \in [Replication -> SUBSET Replication]
  /\ seen \in [Replication -> [Replication -> Edge \cup {NoEdge}]]
  /\ refused \subseteq Replication
  /\ lapsed \subseteq Replication
  /\ budget \in [creations : Nat, meddling : Nat, fails : Nat]

-----------------------------------------------------------------------------
\* Where the dbRefs of r lead, with the PostgresDBs at the sites w.
Resolved(r, w) ==
  IF NoSite \in {w[Ends[r].source], w[Ends[r].target]} THEN NoEdge
  ELSE [source |-> w[Ends[r].source].place, target |-> w[Ends[r].target].place]

\* The names they resolve to, of ends that do resolve.
Named(r, w) == [source |-> w[Ends[r].source].name, target |-> w[Ends[r].target].name]

\* The edge a replication holds, or is about to hold if its check succeeds.
Held(r, att, st, e) == IF att[r] # NoEdge THEN att[r] ELSE IF st[r] = "idle" THEN NoEdge ELSE e[r]

\* History, for the properties only: the replications that have at some time held
\* an edge which a check made then would not have counted, because they were
\* being deleted or their PostgresDBs named something else, or nothing.
Lapse ==
  lapsed' = {r \in Replication :
               /\ Held(r, attached', stage', edge') # NoEdge
               /\ \/ r \in lapsed \/ life'[r] # "standing"
                  \/ Resolved(r, at') # Held(r, attached', stage', edge')}

\* Mutant: the edges are remembered from one pass to the next.
IdleRemembering(r, how) ==
  /\ stage' = [stage EXCEPT ![r] = "idle"]
  /\ edge' = [edge EXCEPT ![r] = NoEdge]
  /\ pending' = [pending EXCEPT ![r] = {}]
  /\ names' = IF r \in made' THEN names ELSE [names EXCEPT ![r] = NoEdge]
  /\ refused' = IF how = "refused" THEN refused \cup {r} ELSE refused \ {r}
  /\ UNCHANGED seen

\* A pass ends.
Idle(r, how) ==
  /\ stage' = [stage EXCEPT ![r] = "idle"]
  /\ edge' = [edge EXCEPT ![r] = NoEdge]
  /\ pending' = [pending EXCEPT ![r] = {}]
  /\ names' = IF r \in made' THEN names ELSE [names EXCEPT ![r] = NoEdge]
  /\ seen' = [seen EXCEPT ![r] = [q \in Replication |-> NoEdge]]
  /\ refused' = IF how = "refused" THEN refused \cup {r} ELSE refused \ {r}

\* Is there a path along the edges E, which _path looks for breadth-first?  There
\* is none if some set of places is closed under E, holds start and not goal.
Reaches(E, start, goal) ==
  \A N \in SUBSET Place :
    start \in N /\ (\A e \in E : e.source \in N => e.target \in N) => goal \in N

Init ==
  /\ life = [r \in Replication |-> "absent"]
  /\ at \in Origins
  /\ attached = [r \in Replication |-> NoEdge]
  /\ made = {}
  /\ names = [r \in Replication |-> NoEdge]
  /\ stage = [r \in Replication |-> "idle"]
  /\ edge = [r \in Replication |-> NoEdge]
  /\ pending = [r \in Replication |-> {}]
  /\ seen = [r \in Replication |-> [q \in Replication |-> NoEdge]]
  /\ refused = {}
  /\ lapsed = {}
  /\ budget \in Budgets

-----------------------------------------------------------------------------
(***************************************************************************)
(* A pass, from following its own dbRefs to the end.                       *)
(***************************************************************************)

\* Both ends resolve, and are on two servers; where something has been made, their
\* names are those status records it under.  An instance that has since come to
\* mean another server is not noticed.
Permissible(r, w) ==
  /\ Resolved(r, w) # NoEdge /\ ServerOf[Resolved(r, w).source] # ServerOf[Resolved(r, w).target]
  /\ r \in made => names[r] = Named(r, w)

ResolveEnds(r) ==
  /\ life[r] = "standing" /\ stage[r] = "idle"
  /\ UNCHANGED <<life, at, attached, made, budget>>
  /\ IF Permissible(r, at)
     THEN /\ stage' = [stage EXCEPT ![r] = "listing"]
          /\ edge' = [edge EXCEPT ![r] = Resolved(r, at)]
          /\ names' = [names EXCEPT ![r] = Named(r, at)]
          /\ UNCHANGED <<pending, seen, refused>>
     ELSE Idle(r, "refused")
  /\ Lapse

\* Mutant: a replication that is not attached anywhere is not counted.
ListAttached(r) ==
  /\ stage[r] = "listing"
  /\ pending' = [pending EXCEPT ![r] = {q \in Replication \ {r} : life[q] = "standing" /\ attached[q] # NoEdge}]
  /\ stage' = [stage EXCEPT ![r] = "resolving"]
  /\ UNCHANGED <<life, at, attached, made, names, edge, seen, refused, budget>> /\ Lapse

\* list_replications: every other one that is not being deleted.
List(r) ==
  /\ stage[r] = "listing"
  /\ pending' = [pending EXCEPT ![r] = {q \in Replication \ {r} : life[q] = "standing"}]
  /\ stage' = [stage EXCEPT ![r] = "resolving"]
  /\ UNCHANGED <<life, at, attached, made, names, edge, seen, refused, budget>> /\ Lapse

\* One that does not resolve is skipped.
ResolveOther(r, q) ==
  /\ stage[r] = "resolving" /\ q \in pending[r]
  /\ pending' = [pending EXCEPT ![r] = @ \ {q}]
  /\ seen' = [seen EXCEPT ![r][q] = Resolved(q, at)]
  /\ UNCHANGED <<life, at, attached, made, names, stage, edge, refused, budget>> /\ Lapse

Edges(r) == {seen[r][q] : q \in Replication} \ {NoEdge}

\* Mutant: a replication that is attached is not checked again.
DecideOnce(r) ==
  /\ stage[r] = "resolving" /\ pending[r] = {}
  /\ UNCHANGED <<life, at, attached, made, budget>>
  /\ IF attached[r] = NoEdge /\ Reaches(Edges(r), edge[r].target, edge[r].source)
     THEN Idle(r, "refused")
     ELSE /\ stage' = [stage EXCEPT ![r] = "cleared"]
          /\ seen' = [seen EXCEPT ![r] = [q \in Replication |-> NoEdge]]
          /\ UNCHANGED <<names, edge, pending, refused>>
  /\ Lapse

Decide(r) ==
  /\ stage[r] = "resolving" /\ pending[r] = {}
  /\ UNCHANGED <<life, at, attached, made, budget>>
  /\ IF Reaches(Edges(r), edge[r].target, edge[r].source)
     THEN Idle(r, "refused")
     ELSE /\ stage' = [stage EXCEPT ![r] = "cleared"]
          /\ seen' = [seen EXCEPT ![r] = [q \in Replication |-> NoEdge]]
          /\ UNCHANGED <<names, edge, pending, refused>>
  /\ Lapse

\* The publication and the login are made on the source, and recorded at once.
Make(r) ==
  /\ stage[r] = "cleared" /\ r \notin made
  /\ made' = made \cup {r}
  /\ UNCHANGED <<life, at, attached, names, stage, edge, pending, seen, refused, budget>> /\ Lapse

\* The rest of the pass, to the places resolved at its start.
Attach(r) ==
  /\ stage[r] = "cleared" /\ r \in made
  /\ attached' = [attached EXCEPT ![r] = edge[r]]
  /\ UNCHANGED <<life, at, made, budget>>
  /\ Idle(r, "attached") /\ Lapse

\* A call fails, or the operator is restarted, anywhere in a pass.
Fail(r) ==
  /\ stage[r] # "idle" /\ budget.fails > 0
  /\ budget' = [budget EXCEPT !.fails = @ - 1]
  /\ UNCHANGED <<life, at, attached, made>>
  /\ Idle(r, "failed") /\ Lapse

\* The finalizer, which waits for a pass that holds the lock.
Finalize(r) ==
  /\ life[r] = "deleting" /\ stage[r] = "idle"
  /\ life' = [life EXCEPT ![r] = "absent"]
  /\ attached' = [attached EXCEPT ![r] = NoEdge]
  /\ made' = made \ {r}
  /\ UNCHANGED <<at, budget>>
  /\ Idle(r, "none") /\ Lapse

-----------------------------------------------------------------------------
\* A replication is made; its name may have been used before.
Create(r) ==
  /\ life[r] = "absent" /\ budget.creations > 0
  /\ budget' = [budget EXCEPT !.creations = @ - 1]
  /\ life' = [life EXCEPT ![r] = "standing"]
  /\ UNCHANGED <<at, attached, made, names, stage, edge, pending, seen, refused>> /\ Lapse

Delete(r) ==
  /\ life[r] = "standing" /\ budget.meddling > 0
  /\ budget' = [budget EXCEPT !.meddling = @ - 1]
  /\ life' = [life EXCEPT ![r] = "deleting"]
  /\ UNCHANGED <<at, attached, made, names, stage, edge, pending, seen, refused>> /\ Lapse

\* A PostgresDB is made, deleted under RETAIN or made again on another instance;
\* its PostgresInstance goes, returns, or is edited to name another server.
Move(d) ==
  /\ budget.meddling > 0
  /\ budget' = [budget EXCEPT !.meddling = @ - 1]
  /\ \E p \in (Site \cup {NoSite}) \ {at[d]} : at' = [at EXCEPT ![d] = p]
  /\ UNCHANGED <<life, attached, made, names, stage, edge, pending, seen, refused>> /\ Lapse

\* Every replication is gone: the operator waits for another.
Quiet == (\A r \in Replication : life[r] = "absent") /\ UNCHANGED vars

Pass(r) ==
  \/ ResolveEnds(r) \/ List(r) \/ Decide(r) \/ Make(r) \/ Attach(r)
  \/ \E q \in Replication : ResolveOther(r, q)

Next ==
  \/ \E r \in Replication : Pass(r) \/ Fail(r) \/ Finalize(r) \/ Create(r) \/ Delete(r)
  \/ \E d \in Movable : Move(d)
  \/ Quiet

\* The timer runs a pass every replicationInterval, a pass is bounded by its
\* timeouts, and kopf retries a finalizer until it is done.
Fairness == \A r \in Replication : WF_vars(Pass(r)) /\ WF_vars(Finalize(r))

Spec == Init /\ [][Next]_vars /\ Fairness

-----------------------------------------------------------------------------
(***************************************************************************)
(* Properties                                                              *)
(***************************************************************************)

\* Among replications every one of which streams into the source of another of
\* them, there is a loop.
Loops(S, e) == S # {} /\ \A r \in S : \E q \in S : e[r].target = e[q].source

Attached == {r \in Replication : attached[r] # NoEdge}

\* No loop of replications of any length ever streams, however their passes
\* interleave, unless one of them has been hidden from the others' checks: while
\* it was being deleted, or did not resolve to where it streams (_refuse_cycles).
LoopsHaveALapse == \A S \in SUBSET Attached : Loops(S, attached) => S \cap lapsed # {}

\* A loop as the check sees it, that streams.
Open == {r \in Attached : life[r] = "standing" /\ Resolved(r, at) = attached[r]}
InLoop(r) ==
  LET E == {attached[q] : q \in Open} IN
  r \in Open /\ Reaches(E, attached[r].target, attached[r].source)

\* A loop that came about all the same is not silent: unless it is undone, the
\* passes of every replication in it come to be refused.
LoopReported == \A r \in Replication : InLoop(r) ~> (r \in refused \/ ~InLoop(r))

\* The edges of all that stand, and none of them on one server or moved away.
Standing == {r \in Replication : life[r] = "standing"}
Sound ==
  LET now == [r \in Replication |-> Resolved(r, at)] IN
  /\ \A r \in Standing : Permissible(r, at)
  /\ \A S \in SUBSET Standing : ~Loops(S, now)

\* Replications that close no loop are not refused in the end: each attaches,
\* whatever their passes saw of each other before.
ChainsAttach == <>[]Sound => <>[](Standing \subseteq Attached)
=============================================================================
