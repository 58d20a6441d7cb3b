------------------------- MODULE PublicationTables -------------------------
(***************************************************************************)
(* The tables of one PostgresReplication: what each pass makes of the two  *)
(* catalogs, the publication's members and options on the source, the      *)
(* relations the subscription carries on the target, and the row filters   *)
(* status remembers (reconcile/replication.py, steps 3 to 6 of a pass).    *)
(*                                                                         *)
(* A pass is a sequence of statements, each a step of its own; only its    *)
(* reads of the two catalogs are one step.  It judges what it read, while  *)
(* owners alter tables, administrators edit the publication and users the  *)
(* spec.  The login, the slot, the connection string and the record of     *)
(* what was created belong to the module Replication.                      *)
(***************************************************************************)
EXTENDS Eligibility, Naturals, FiniteSets

CONSTANTS
  SourceCatalogs,    \* what the source database may hold
  TargetCatalogs,    \* what the target database may hold
  InitialSources, InitialTargets,   \* what they hold at first
  Specs,             \* what the resource may ask for
  GeneratedChecked,  \* is the source PostgreSQL 18 or later?
  Claimable,         \* tables an older replication may publish into the target
  Loadable,          \* relations of the target others load or empty
  Refusable,         \* the statements a server may refuse for reasons of its own
  Edits,             \* what others may change
  MaxEdits, MaxBreaks, MaxRefusals   \* bounds, for TLC

\* A function on some of the relations.
OnSome(f, S) == DOMAIN f \subseteq Relation /\ f \in [DOMAIN f -> S]

IsSpec(s) ==
  /\ s = [schema |-> s.schema, excluded |-> s.excluded, tables |-> s.tables,
          keyed |-> s.keyed, viaRoot |-> s.viaRoot, copyData |-> s.copyData,
          enabled |-> s.enabled]
  /\ OnSome(s.tables, Candidate)
  /\ s.excluded \subseteq Relation
  /\ {s.schema, s.keyed, s.viaRoot, s.copyData, s.enabled} \subseteq BOOLEAN

ASSUME CatalogsAreCatalogs ==
  /\ \A cat \in SourceCatalogs :
       /\ OnSome(cat, SourceTable)
       /\ \A r \in DOMAIN cat : LeavesAreLeaves(cat, r)
  /\ \A cat \in TargetCatalogs : OnSome(cat, TargetTable)
ASSUME CatalogsAtFirst ==
  InitialSources \subseteq SourceCatalogs /\ InitialTargets \subseteq TargetCatalogs
ASSUME SpecsAreSpecs == \A s \in Specs : IsSpec(s)
ASSUME ChoicesAreKnown ==
  /\ GeneratedChecked \in BOOLEAN
  /\ Claimable \subseteq Relation /\ Loadable \subseteq Relation
  /\ Refusable \subseteq {"add", "replace"}
  /\ Edits \subseteq {"source", "target", "rows", "publication", "publicationMeanwhile",
                    "spec", "claims"}
  /\ MaxEdits \in Nat /\ MaxBreaks \in Nat /\ MaxRefusals \in Nat

VARIABLES
  spec,          \* the resource
  status,        \* what the last good pass published: filters, kept tables, warnings
  source,        \* the source's catalog
  target,        \* the target's catalog
  rows,          \* relations of the target that hold rows
  claimed,       \* tables an older replication publishes into the target
  publication,   \* its members and options
  subscription,  \* whether it exists, is enabled, and what it carries and has copied
  pc,            \* the step of the running pass
  pass,          \* what that pass has read and decided
  fresh,         \* nothing the pass judged has changed since
  budget         \* how often the bounded actions have happened

vars == <<spec, status, source, target, rows, claimed, publication, subscription,
          pc, pass, fresh, budget>>
others == <<spec, source, target, claimed>>

\* What status remembers of a filter: the one asked for, and the server's own
\* text of the one in force.  Texts are told apart by the filter they are of.
Remembered == [asked : Filter, applied : Filter \cup {NoFilter}]

TypeOK ==
  /\ spec \in Specs
  /\ status \in [rowFilters : {status.rowFilters}, kept : SUBSET Relation,
                refused : SUBSET Relation]
  /\ OnSome(status.rowFilters, Remembered)
  /\ source \in SourceCatalogs /\ target \in TargetCatalogs
  /\ rows \subseteq DOMAIN target
  /\ claimed \subseteq Claimable
  /\ publication \in [exists : BOOLEAN, members : {publication.members}, keyed : BOOLEAN,
                     viaRoot : BOOLEAN]
  /\ OnSome(publication.members, Candidate)
  /\ DOMAIN publication.members \subseteq DOMAIN source
  /\ subscription \in [exists : BOOLEAN, enabled : BOOLEAN, carries : SUBSET DOMAIN target,
                      copied : SUBSET DOMAIN target]
  /\ subscription.copied \subseteq subscription.carries
  /\ pc \in {"idle", "options", "judge", "tables", "subscribe", "refresh", "publish"}
  /\ pass \in [spec : Specs, drops : SUBSET Relation, adds : SUBSET Relation,
              replaces : SUBSET Relation, kept : SUBSET Relation, refused : SUBSET Relation,
              rowFilters : {pass.rowFilters}, published : SUBSET Relation]
  /\ OnSome(pass.rowFilters, Remembered)
  /\ fresh \in BOOLEAN
  /\ budget \in [edits : Nat, breaks : Nat, refusals : Nat]

-----------------------------------------------------------------------------
\* Helpers

Empty == [r \in {} |-> Whole]
Without(f, T) == [r \in DOMAIN f \ T |-> f[r]]
With(f, r, x) == [s \in DOMAIN f \cup {r} |-> IF s = r THEN x ELSE f[s]]

\* The options the judgement depends on, from the spec.
OptionsOf(s) ==
  [keyed |-> s.keyed, viaRoot |-> s.viaRoot, copyData |-> s.copyData,
   generatedChecked |-> GeneratedChecked]

\* The columns and filter the spec gives a table it selects.
ShapeOf(s, r) == IF r \in DOMAIN s.tables THEN s.tables[r] ELSE Whole

\* What a subscriber of the publication receives: partitions expanded.
PublishedRelations(cat, pub) ==
  UNION {TargetRelations(cat, pub.viaRoot, r) : r \in DOMAIN pub.members}

\* Between passes only the spec of the last one is of interest.
PassOf(s) ==
  [spec |-> s, drops |-> {}, adds |-> {}, replaces |-> {}, kept |-> {}, refused |-> {},
   rowFilters |-> Empty, published |-> {}]

Init ==
  /\ spec \in Specs
  /\ source \in InitialSources /\ target \in InitialTargets
  /\ rows = {} /\ claimed = {}
  /\ status = [rowFilters |-> Empty, kept |-> {}, refused |-> {}]
  /\ publication = [exists |-> FALSE, members |-> Empty, keyed |-> FALSE, viaRoot |-> FALSE]
  /\ subscription = [exists |-> FALSE, enabled |-> FALSE, carries |-> {}, copied |-> {}]
  /\ pc = "idle" /\ pass = PassOf(spec)
  /\ fresh = FALSE
  /\ budget = [edits |-> 0, breaks |-> 0, refusals |-> 0]

-----------------------------------------------------------------------------
\* The pass

\* A pass that ends, well or badly.
End == pc' = "idle" /\ pass' = PassOf(pass.spec)
Fail == End /\ fresh' = FALSE

StartPass ==
  /\ pc = "idle"
  /\ pc' = "options" /\ pass' = PassOf(spec)
  /\ fresh' = FALSE
  /\ UNCHANGED <<others, status, rows, publication, subscription, budget>>

\* Step 3: made empty, or given the spec's options, before any table is judged.
\* The server does not let a root go unpublished while it has filter or columns.
SetOptions ==
  /\ pc = "options"
  /\ IF /\ ~pass.spec.viaRoot
        /\ \E r \in DOMAIN publication.members : NeedsRoot(source, r, publication.members[r])
     THEN Fail /\ UNCHANGED publication
     ELSE /\ publication' = [publication EXCEPT !.exists = TRUE,
                                                !.keyed = pass.spec.keyed,
                                                !.viaRoot = pass.spec.viaRoot]
          /\ pc' = "judge"
          /\ UNCHANGED <<pass, fresh>>
  /\ UNCHANGED <<others, status, rows, subscription, budget>>

\* A defect: the server's filter is not looked at.
MatchesSpec(c, member, remembered, r) ==
  /\ member.columns = c.columns
  /\ IF c.filter = NoFilter THEN member.filter = NoFilter
     ELSE r \in DOMAIN remembered /\ remembered[r].asked = c.filter

\* A filter matches when the spec's and the server's are what was remembered.
MemberMatches(c, member, remembered, r) ==
  /\ member.columns = c.columns
  /\ IF c.filter = NoFilter THEN member.filter = NoFilter
     ELSE /\ r \in DOMAIN remembered
          /\ remembered[r].asked = c.filter
          /\ remembered[r].applied = member.filter

\* Relations an initial copy would land in and that hold rows already.
Uncopied == {r \in rows : target[r].settable /\ r \notin subscription.carries}

\* Steps 4 and 5, up to the verdicts.
JudgeTables ==
  LET s == pass.spec
      members == publication.members
      selected == Candidates(s, source)
      Issues(r) ==
        Judge(source, target, r, selected[r], OptionsOf(s), Uncopied, claimed)
      eligible == {r \in DOMAIN selected : Issues(r) = {}}
      kept == {r \in DOMAIN selected \cap DOMAIN members :
                 Issues(r) # {} /\ KeepsMembership(Issues(r))}
  IN /\ pc = "judge"
     /\ pc' = "tables"
     /\ pass' = [pass EXCEPT
          !.drops = DOMAIN members \ (eligible \cup kept),
          !.adds = eligible \ DOMAIN members,
          !.replaces = {r \in eligible \cap DOMAIN members :
                          ~MemberMatches(selected[r], members[r], status.rowFilters, r)},
          !.kept = kept]
     /\ fresh' = (spec = s)
     /\ UNCHANGED <<others, status, rows, publication, subscription, budget>>

\* First what has to go; an error of DROP TABLE ends the pass.
DropTable(r) ==
  /\ pc = "tables" /\ r \in pass.drops
  /\ IF r \in DOMAIN publication.members
     THEN /\ publication' = [publication EXCEPT !.members = Without(@, {r})]
          /\ pass' = [pass EXCEPT !.drops = @ \ {r}]
          /\ UNCHANGED <<pc, fresh>>
     ELSE Fail /\ UNCHANGED publication
  /\ UNCHANGED <<others, status, rows, subscription, budget>>

\* A server refuses what it must, and now and then what it need not: an
\* operand that does not convert, a lock it did not get.
MayRefuse(statement, allowed) ==
  \/ ~allowed /\ UNCHANGED budget
  \/ /\ allowed /\ statement \in Refusable /\ budget.refusals < MaxRefusals
     /\ budget' = [budget EXCEPT !.refusals = @ + 1]

AddTable(r) ==
  LET c == ShapeOf(pass.spec, r)
      allowed == /\ r \notin DOMAIN publication.members
                 /\ AddAllowed(source, publication.viaRoot, r, c)
  IN /\ pc = "tables" /\ pass.drops = {} /\ r \in pass.adds
     /\ pass' = [pass EXCEPT !.adds = @ \ {r}]
     /\ \/ /\ allowed
           /\ publication' = [publication EXCEPT !.members = With(@, r, c)]
           /\ UNCHANGED budget
        \/ MayRefuse("add", allowed) /\ UNCHANGED publication
     /\ UNCHANGED <<others, status, rows, subscription, pc, fresh>>

\* Dropped and added in one transaction: refused, the old shape stays.
ReplaceTable(r) ==
  LET c == ShapeOf(pass.spec, r)
      allowed == /\ r \in DOMAIN publication.members
                 /\ AddAllowed(source, publication.viaRoot, r, c)
  IN /\ pc = "tables" /\ pass.drops = {} /\ r \in pass.replaces
     /\ \/ /\ allowed
           /\ publication' = [publication EXCEPT !.members[r] = c]
           /\ pass' = [pass EXCEPT !.replaces = @ \ {r}]
           /\ UNCHANGED budget
        \/ /\ MayRefuse("replace", allowed)
           /\ pass' = [pass EXCEPT !.replaces = @ \ {r}, !.refused = @ \cup {r}]
           /\ UNCHANGED publication
     /\ UNCHANGED <<others, status, rows, subscription, pc, fresh>>

\* What will be remembered: for every candidate with a filter that is
\* published, whatever became of it in this pass, the filter the spec asks for
\* and the text the server has.
ReadBack ==
  LET members == publication.members
      filtered == {r \in DOMAIN members \cap DOMAIN pass.spec.tables :
                     pass.spec.tables[r].filter # NoFilter}
  IN /\ pc = "tables"
     /\ pass.drops = {} /\ pass.adds = {} /\ pass.replaces = {}
     /\ pass' = [pass EXCEPT
          !.rowFilters = [r \in filtered |-> [asked |-> pass.spec.tables[r].filter,
                                              applied |-> members[r].filter]],
          !.published = PublishedRelations(source, publication)]
     /\ pc' = "subscribe"
     /\ UNCHANGED <<others, status, rows, publication, subscription, fresh, budget>>

\* A target without one of the published tables refuses CREATE and REFRESH.
Missing == \E r \in PublishedRelations(source, publication) : r \notin DOMAIN target

\* The subscription carries these relations from now on; if it is enabled they
\* are copied at once, and hold rows (tables have some at the source).
Carry(relations, enabled) ==
  LET copied == IF enabled THEN relations ELSE subscription.copied \cap relations
  IN /\ subscription' = [exists |-> TRUE, enabled |-> enabled, carries |-> relations,
                         copied |-> copied]
     /\ rows' = rows \cup copied

\* Step 6: made with what is published now, or enabled as the spec says.
Subscribe ==
  /\ pc = "subscribe"
  /\ \/ /\ ~subscription.exists /\ ~Missing
        /\ Carry(PublishedRelations(source, publication), pass.spec.enabled)
        /\ pc' = "refresh" /\ UNCHANGED <<pass, fresh>>
     \/ /\ ~subscription.exists /\ Missing
        /\ Fail /\ UNCHANGED <<subscription, rows>>
     \/ /\ subscription.exists
        /\ Carry(subscription.carries, pass.spec.enabled)
        /\ pc' = "refresh" /\ UNCHANGED <<pass, fresh>>
  /\ UNCHANGED <<others, status, publication, budget>>

\* Mutant: only tables that left make it refresh.
RefreshLeft ==
  /\ pc = "refresh" /\ pc' = "publish"
  /\ IF pass.spec.enabled /\ ~(subscription.carries \subseteq pass.published) /\ ~Missing
     THEN Carry(PublishedRelations(source, publication), subscription.enabled)
     ELSE UNCHANGED <<subscription, rows>>
  /\ UNCHANGED <<others, status, publication, budget, pass, fresh>>

\* Only an enabled subscription can, and only a difference makes it.
Refresh ==
  /\ pc = "refresh"
  /\ IF pass.spec.enabled /\ subscription.carries # pass.published
     THEN IF Missing
          THEN Fail /\ UNCHANGED <<subscription, rows>>
          ELSE /\ Carry(PublishedRelations(source, publication), subscription.enabled)
               /\ pc' = "publish" /\ UNCHANGED <<pass, fresh>>
     ELSE pc' = "publish" /\ UNCHANGED <<subscription, rows, pass, fresh>>
  /\ UNCHANGED <<others, status, publication, budget>>

Publish ==
  /\ pc = "publish"
  /\ status' = [rowFilters |-> pass.rowFilters, kept |-> pass.kept, refused |-> pass.refused]
  /\ End
  /\ UNCHANGED <<others, rows, publication, subscription, fresh, budget>>

\* A call fails, or the operator dies: the next pass starts from status.
Break ==
  /\ pc # "idle" /\ budget.breaks < MaxBreaks
  /\ budget' = [budget EXCEPT !.breaks = @ + 1]
  /\ Fail
  /\ UNCHANGED <<others, status, rows, publication, subscription>>

Pass ==
  \/ StartPass \/ SetOptions \/ JudgeTables
  \/ \E r \in Relation : DropTable(r) \/ AddTable(r) \/ ReplaceTable(r)
  \/ ReadBack \/ Subscribe \/ Refresh \/ Publish

-----------------------------------------------------------------------------
\* The others

Changes(what) ==
  /\ what \in Edits /\ budget.edits < MaxEdits
  /\ budget' = [budget EXCEPT !.edits = @ + 1]

\* The server keeps a published table what ADD TABLE wanted, but for its owner
\* and its partitioning; a table that is dropped leaves the publication.
StillMembers(cat) ==
  \A r \in DOMAIN publication.members \cap DOMAIN cat :
    LET c == publication.members[r]
    IN /\ cat[r].key.kind = source[r].key.kind /\ cat[r].permanent
       /\ c.columns \cup FilterReads(c) \subseteq Stored(cat[r].key)

AlterSource ==
  /\ Changes("source")
  /\ source' \in SourceCatalogs \ {source}
  /\ StillMembers(source')
  /\ publication' = [publication EXCEPT !.members = Without(@, DOMAIN @ \ DOMAIN source')]
  /\ fresh' = FALSE
  /\ UNCHANGED <<spec, status, target, rows, claimed, subscription, pc, pass>>

\* A table that is dropped on the target is no longer carried.
AlterTarget ==
  /\ Changes("target")
  /\ target' \in TargetCatalogs \ {target}
  /\ rows' = rows \cap DOMAIN target'
  /\ subscription' = [subscription EXCEPT !.carries = @ \cap DOMAIN target',
                                               !.copied = @ \cap DOMAIN target']
  /\ fresh' = FALSE
  /\ UNCHANGED <<spec, status, source, claimed, publication, pc, pass>>

LoadOrEmpty ==
  /\ Changes("rows")
  /\ \E r \in Loadable \cap DOMAIN target :
       rows' = IF r \in rows THEN rows \ {r} ELSE rows \cup {r}
  /\ UNCHANGED <<others, status, publication, subscription, pc, pass, fresh>>

\* An administrator drops a member or changes its filter.
\* Between a pass's reads it can only where Edits says so: ReadBack remembers it.
EditPublication ==
  /\ Changes("publication") /\ publication.exists
  /\ pc = "idle" \/ "publicationMeanwhile" \in Edits
  /\ \/ \E r \in DOMAIN publication.members :
          publication' = [publication EXCEPT !.members = Without(@, {r})]
     \/ \E r \in DOMAIN publication.members, f \in Filter \cup {NoFilter} :
          LET c == [publication.members[r] EXCEPT !.filter = f]
          IN /\ f # publication.members[r].filter
             /\ AddAllowed(source, publication.viaRoot, r, c)
             /\ publication' = [publication EXCEPT !.members[r] = c]
  /\ fresh' = FALSE
  /\ UNCHANGED <<others, status, rows, subscription, pc, pass>>

EditSpec ==
  /\ Changes("spec")
  /\ spec' \in Specs \ {spec}
  /\ fresh' = FALSE
  /\ UNCHANGED <<status, source, target, rows, claimed, publication, subscription, pc, pass>>

Claim ==
  /\ Changes("claims")
  /\ \E r \in Claimable :
       claimed' = IF r \in claimed THEN claimed \ {r} ELSE claimed \cup {r}
  /\ UNCHANGED <<spec, status, source, target, rows, publication, subscription, pc, pass, fresh>>

Others ==
  AlterSource \/ AlterTarget \/ LoadOrEmpty \/ EditPublication \/ EditSpec \/ Claim

Next == Pass \/ Break \/ Others

\* The timer starts passes, and a pass goes on until it ends.
Spec == Init /\ [][Next]_vars /\ WF_vars(Pass)

-----------------------------------------------------------------------------
\* Properties

\* A pass has ended well, and nothing it judged has changed since.
Settled == pc = "idle" /\ fresh

\* What the servers go by.
InForce ==
  [keyed |-> publication.keyed, viaRoot |-> publication.viaRoot,
   copyData |-> spec.copyData, generatedChecked |-> GeneratedChecked]

\* After a good pass the publication carries selected tables only, each with
\* the columns and the row filter the spec asks for; where it does not, status
\* says so (_converge_tables).  Rows the spec holds back do not leave silently.
FilterHonoured ==
  Settled =>
    \A r \in DOMAIN publication.members :
      /\ r \in DOMAIN Candidates(spec, source)
      /\ \/ publication.members[r] = ShapeOf(spec, r)
         \/ r \in status.kept \cup status.refused

\* After a good pass no published table makes the source refuse its UPDATE and
\* DELETE, unless the pass could not give it the shape it judged (judge).
WritesAccepted ==
  Settled =>
    \A r \in DOMAIN publication.members :
      WritesRefused(source, r, publication.members[r], InForce) =>
        /\ r \in status.kept \cup status.refused
        /\ publication.members[r] # ShapeOf(spec, r)

\* After a good pass a published table that stops the apply worker, and with it
\* every other table, is one status reports as kept (judge, keeps_membership).
ReportedOrFlowing ==
  Settled =>
    \A r \in DOMAIN publication.members :
      ApplyStops(source, target, r, publication.members[r], InForce) =>
        r \in status.kept \cup status.refused

\* Every table that could be published is, and the subscription, if enabled,
\* carries it: again and again, whatever failed or changed before, unless a
\* published table is missing on the target (reconcile_replication).
Caught ==
  LET selected == Candidates(spec, source)
      Issues(r) ==
        Judge(source, target, r, selected[r], OptionsOf(spec), Uncopied, claimed)
  IN /\ Settled
     /\ \A r \in DOMAIN selected :
          Issues(r) = {} =>
            /\ r \in DOMAIN publication.members
            /\ spec.enabled =>
                 TargetRelations(source, publication.viaRoot, r) \subseteq subscription.carries
Converges == []<>(Caught \/ Missing)
=============================================================================
