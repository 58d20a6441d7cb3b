---------------------- MODULE PublicationTables_proofs ----------------------
(***************************************************************************)
(* First what the judgement of module Eligibility is worth, for any        *)
(* catalogs, options and specs: with no issue at the source it accepts the *)
(* table and refuses no UPDATE or DELETE of it; with none at all the apply *)
(* worker does not stop at them.  Then theorems about the table steps of a *)
(* pass, for any catalogs, specs and number of changes: type correctness;  *)
(* that a good pass reports every published table that would stop the      *)
(* apply worker; that it leaves every table in the shape the spec gives it *)
(* and writable at the source, or reports it, or is mistaken about its row *)
(* filter; and when no such mistake can arise.                             *)
(***************************************************************************)
EXTENDS PublicationTables, TLAPS

-----------------------------------------------------------------------------
\* The judgement

\* What is judged: a candidate whose table exists, on catalogs of the right shape.
Judged(cat, targets, r, c, o) ==
  /\ \A s \in DOMAIN cat : cat[s] \in SourceTable /\ LeavesAreLeaves(cat, s)
  /\ \A s \in DOMAIN targets : targets[s] \in TargetTable
  /\ c \in Candidate /\ o \in Options
  /\ r \in DOMAIN cat

\* When and only when a condition holds, there is an issue.
LEMMA NoIssue ==
  ASSUME NEW condition, NEW side, NEW reason
  PROVE  When(condition, side, reason) = {} <=> ~condition
  BY DEF When

\* All that is wrong, if anything, is on the target.
OnTarget(issues) == \A i \in issues : i.side = "target"

LEMMA NoSourceIssue ==
  ASSUME NEW issues, OnTarget(issues), NEW condition, NEW reason,
         When(condition, "source", reason) \subseteq issues
  PROVE  ~condition
  BY DEF OnTarget, When

\* The issues of a replica identity are issues at the source.
LEMMA IdentityIssuesAtSource ==
  ASSUME NEW cat, NEW r, NEW c, NEW checked, OnTarget(IdentityIssues(cat, r, c, checked))
  PROVE  IdentityIssues(cat, r, c, checked) = {}
<1>1. \A key : \A i \in IdentityIssuesOf(c, key, checked) : i.side = "source"
  BY DEF IdentityIssuesOf, When
<1>2. \A i \in IdentityIssues(cat, r, c, checked) : i.side = "source"
  BY <1>1 DEF IdentityIssues
<1> QED  BY <1>2 DEF OnTarget

\* No issue at the source means none of the causes of one.
LEMMA SourceClear ==
  ASSUME NEW cat, NEW targets, NEW r, NEW c, NEW o, NEW uncopied, NEW taken,
         OnTarget(Judge(cat, targets, r, c, o, uncopied, taken))
  PROVE  /\ r \in DOMAIN cat
         /\ Publishable(cat[r]) /\ cat[r].usable
         /\ \A l \in cat[r].leaves : Publishable(cat[l])
         /\ c.columns \cup FilterReads(c) \subseteq Stored(cat[r].key)
         /\ cat[r].key.kind = "p" /\ ~o.viaRoot => c.columns = {} /\ c.filter = NoFilter
         /\ o.keyed => IdentityIssues(cat, r, c, o.generatedChecked) = {}
<1> DEFINE issues == Judge(cat, targets, r, c, o, uncopied, taken)
<1>1. r \in DOMAIN cat
  BY NoSourceIssue, Zenon DEF Judge, When, OnTarget
<1>2. ~(cat[r].partition \/ ~Publishable(cat[r]))
  BY <1>1, Zenon DEF Judge, When, OnTarget
<1>3. SourceIssues(cat, r, c, o) \subseteq issues
  BY <1>1, <1>2, Zenon DEF Judge
<1>4. /\ When(\E l \in cat[r].leaves : ~Publishable(cat[l]), "source", "NotPublishable")
           \subseteq issues
      /\ When(~(c.columns \cup FilterReads(c) \subseteq Stored(cat[r].key)),
              "source", "UnknownColumn") \subseteq issues
      /\ When(cat[r].key.kind = "p" /\ ~o.viaRoot /\ (c.columns # {} \/ c.filter # NoFilter),
              "source", "FilterIgnoredWithoutPartitionRoot") \subseteq issues
      /\ o.keyed => IdentityIssues(cat, r, c, o.generatedChecked) \subseteq issues
      /\ When(~cat[r].usable, "source", "SourceTableNotOwned") \subseteq issues
  BY <1>3 DEF SourceIssues
<1> HIDE DEF issues
<1>5. OnTarget(issues)
  BY DEF issues
<1>6. o.keyed => IdentityIssues(cat, r, c, o.generatedChecked) = {}
  BY <1>4, <1>5, IdentityIssuesAtSource DEF OnTarget
<1> QED  BY <1>1, <1>2, <1>4, <1>5, <1>6, NoSourceIssue, Zenon

\* No issue on the target means that, for every relation changes are applied to.
LEMMA TargetClear ==
  ASSUME NEW cat, NEW targets, NEW r, NEW c, NEW o, NEW uncopied, NEW taken,
         Judged(cat, targets, r, c, o),
         Judge(cat, targets, r, c, o, uncopied, taken) = {},
         NEW relation \in TargetRelations(cat, o.viaRoot, r)
  PROVE  /\ relation \in DOMAIN targets
         /\ targets[relation].key.kind \in PublishableKind
         /\ targets[relation].settable
         /\ PublishedColumns(c, cat[r].key) \subseteq Stored(targets[relation].key)
         /\ targets[relation].required \subseteq PublishedColumns(c, cat[r].key)
         /\ o.keyed => TargetIdentityIssues(cat[relation].key, targets[relation].key) = {}
<1> DEFINE there == targets[relation]
           sent == PublishedColumns(c, cat[r].key)
<1>1. ~(cat[r].partition \/ ~Publishable(cat[r]))
  BY NoIssue, Zenon DEF Judge, Judged
<1>2. TargetIssues(cat, targets, r, c, o, uncopied) = {}
  BY <1>1, Zenon DEF Judge, Judged
<1>3. TargetIssuesOf(cat, targets, r, c, o, relation, uncopied) = {}
  BY <1>2 DEF TargetIssues
<1>4. relation \in DOMAIN targets
  BY <1>3, NoIssue, Zenon DEF TargetIssuesOf
<1>5. there.key.kind \in PublishableKind
  BY <1>3, <1>4, NoIssue, Zenon DEF TargetIssuesOf
<1>6. /\ When(~(sent \subseteq Stored(there.key)), "target", "TargetColumnsMissing") = {}
      /\ When(~there.settable, "target", "TargetOwnerNotSettable") = {}
      /\ When(~(there.required \subseteq sent), "target", "TargetColumnRequired") = {}
      /\ o.keyed => TargetIdentityIssues(cat[relation].key, there.key) = {}
  BY <1>3, <1>4, <1>5 DEF TargetIssuesOf
<1> QED  BY <1>4, <1>5, <1>6, NoIssue, Zenon

-----------------------------------------------------------------------------
\* A key without identity issues is one the source accepts keyed writes under.
LEMMA IdentityAccepted ==
  ASSUME NEW key \in Keyed, NEW c \in Candidate, NEW checked \in BOOLEAN,
         IdentityIssuesOf(c, key, checked) = {}
  PROVE  HasIdentity(key) /\ ~KeyedWriteRefused(key, c, checked)
<1> DEFINE full == key.replident = "f"
           identity == IdentityColumns(key)
<1>1. HasIdentity(key)
  BY NoIssue, Zenon DEF IdentityIssuesOf
<1>2. /\ When(~(FilterReads(c) \subseteq identity), "source", "RowFilterNotCoveredByIdentity") = {}
      /\ When(checked /\ c.columns = {}
                /\ (IF full THEN key.generated ELSE identity \cap key.generated) # {},
              "source", "GeneratedColumnInIdentity") = {}
      /\ When(c.columns # {} /\ (full \/ ~(identity \subseteq c.columns)),
              "source", "ColumnListMissesIdentity") = {}
  BY <1>1 DEF IdentityIssuesOf
<1>3. /\ FilterReads(c) \subseteq identity
      /\ ~(checked /\ c.columns = {}
             /\ (IF full THEN key.generated ELSE identity \cap key.generated) # {})
      /\ ~(c.columns # {} /\ (full \/ ~(identity \subseteq c.columns)))
  BY <1>2, NoIssue, Zenon
<1>4. ~full => identity = IdentityIndex(key) /\ IdentityIndex(key) # {}
  BY <1>1 DEF IdentityColumns, HasIdentity
<1> QED  BY <1>1, <1>3, <1>4 DEF KeyedWriteRefused

\* The source takes the table into the publication (add_table).
THEOREM Addable ==
  ASSUME NEW cat, NEW targets, NEW r, NEW c, NEW o, NEW uncopied, NEW taken,
         Judged(cat, targets, r, c, o),
         OnTarget(Judge(cat, targets, r, c, o, uncopied, taken))
  PROVE  AddAllowed(cat, o.viaRoot, r, c)
<1>1. NeedsRoot(cat, r, c) => o.viaRoot
  BY SourceClear DEF NeedsRoot, Whole, Judged, Candidate
<1> QED  BY <1>1, SourceClear DEF AddAllowed, Judged

\* The source does not refuse an UPDATE or DELETE of a table published with the
\* columns and the filter it was judged with (_identity_issues).
THEOREM WritesSurvive ==
  ASSUME NEW cat, NEW targets, NEW r, NEW c, NEW o, NEW uncopied, NEW taken,
         Judged(cat, targets, r, c, o),
         OnTarget(Judge(cat, targets, r, c, o, uncopied, taken))
  PROVE  ~WritesRefused(cat, r, c, o)
<1> SUFFICES ASSUME o.keyed, NEW m \in IdentityMembers(cat, r)
             PROVE  ~KeyedWriteRefused(cat[m].key, MemberShape(cat, o.viaRoot, r, c),
                                       o.generatedChecked)
  BY DEF WritesRefused
<1>1. MemberShape(cat, o.viaRoot, r, c) = c
  BY SourceClear DEF MemberShape, Whole, Judged, Candidate
<1>2. m \in DOMAIN cat
  BY DEF IdentityMembers, Judged, LeavesAreLeaves
<1>3. cat[m].key \in Keyed /\ c \in Candidate /\ o.generatedChecked \in BOOLEAN
  BY <1>2 DEF Judged, SourceTable, Options
<1>4. IdentityIssues(cat, r, c, o.generatedChecked) = {}
  BY SourceClear
<1>5. IdentityIssuesOf(c, cat[m].key, o.generatedChecked) = {}
  BY <1>4 DEF IdentityIssues
<1> QED  BY <1>1, <1>3, <1>5, IdentityAccepted

\* A partitioned table published through its root is found by the root's own
\* identity, which the judgement does not look at.
RootIdentified(cat, r, o) ==
  o.viaRoot /\ cat[r].key.kind = "p" => HasIdentity(cat[r].key)

\* The apply worker does not stop at a change of the table: the relations are
\* there, take what is sent, and can be searched by the keys that are sent
\* (judge, _target_identity_issues).
THEOREM ApplyGoesOn ==
  ASSUME NEW cat, NEW targets, NEW r, NEW c, NEW o, NEW uncopied, NEW taken,
         Judged(cat, targets, r, c, o),
         RootIdentified(cat, r, o),
         Judge(cat, targets, r, c, o, uncopied, taken) = {}
  PROVE  ~ApplyStops(cat, targets, r, c, o)
<1>0. OnTarget(Judge(cat, targets, r, c, o, uncopied, taken))
  BY DEF OnTarget
<1> SUFFICES ASSUME NEW relation \in TargetRelations(cat, o.viaRoot, r),
                    o.keyed, cat[relation].key.replident # "f"
             PROVE  /\ SubscriberIdentity(targets[relation].key) # {}
                    /\ SubscriberIdentity(targets[relation].key)
                         \subseteq IdentityIndex(cat[relation].key)
  BY TargetClear DEF ApplyStops
<1> DEFINE key == cat[relation].key
           identity == SubscriberIdentity(targets[relation].key)
<1>1. \/ relation \in IdentityMembers(cat, r)
      \/ relation = r /\ o.viaRoot /\ cat[r].key.kind = "p"
  <2>1. o.viaRoot \in BOOLEAN /\ \A l \in cat[r].leaves : Publishable(cat[l])
    BY <1>0, SourceClear DEF Judged, Options
  <2>2. CASE cat[r].key.kind = "p" /\ ~o.viaRoot
    BY <2>1, <2>2 DEF TargetRelations, IdentityMembers
  <2>3. CASE ~(cat[r].key.kind = "p" /\ ~o.viaRoot)
    BY <2>1, <2>3 DEF TargetRelations, IdentityMembers
  <2> QED  BY <2>2, <2>3
<1>2. HasIdentity(key)
  <2>1. CASE relation \in IdentityMembers(cat, r)
    <3>1. relation \in DOMAIN cat
      BY <2>1 DEF IdentityMembers, Judged, LeavesAreLeaves
    <3>2. key \in Keyed /\ c \in Candidate /\ o.generatedChecked \in BOOLEAN
      BY <3>1 DEF Judged, SourceTable, Options
    <3>3. IdentityIssuesOf(c, key, o.generatedChecked) = {}
      BY <1>0, <2>1, SourceClear DEF IdentityIssues
    <3> QED  BY <3>2, <3>3, IdentityAccepted
  <2>2. CASE relation = r /\ o.viaRoot /\ cat[r].key.kind = "p"
    BY <2>2 DEF RootIdentified
  <2> QED  BY <1>1, <2>1, <2>2
<1>3. TargetIdentityIssues(key, targets[relation].key) = {}
  BY TargetClear
<1>4. identity # {}
  BY <1>2, <1>3, NoIssue, Zenon DEF TargetIdentityIssues
<1>5. When(~(identity \subseteq IdentityColumns(key)), "target", "TargetIdentityNotSent") = {}
  BY <1>2, <1>3, <1>4, Zenon DEF TargetIdentityIssues
<1>6. identity \subseteq IdentityColumns(key)
  BY <1>5, NoIssue, Zenon
<1> QED  BY <1>4, <1>6 DEF IdentityColumns

-----------------------------------------------------------------------------
\* Type correctness

\* Tables that exist have the shape of a catalog's.
LEMMA CatalogTypes ==
  ASSUME NEW cat \in SourceCatalogs
  PROVE  /\ DOMAIN cat \subseteq Relation
         /\ \A r \in DOMAIN cat : cat[r] \in SourceTable /\ LeavesAreLeaves(cat, r)
  BY CatalogsAreCatalogs DEF OnSome

LEMMA TargetTypes ==
  ASSUME NEW cat \in TargetCatalogs
  PROVE  DOMAIN cat \subseteq Relation /\ \A r \in DOMAIN cat : cat[r] \in TargetTable
  BY CatalogsAreCatalogs DEF OnSome

\* A spec selects relations, each with columns and a filter.
LEMMA SpecTypes ==
  ASSUME NEW s \in Specs
  PROVE  /\ DOMAIN s.tables \subseteq Relation
         /\ \A r \in DOMAIN s.tables : s.tables[r] \in Candidate
         /\ {s.keyed, s.viaRoot, s.copyData, s.enabled} \subseteq BOOLEAN
         /\ \A r : ShapeOf(s, r) \in Candidate
         /\ OptionsOf(s) \in Options
<1>1. IsSpec(s)
  BY SpecsAreSpecs
<1>2. Whole \in Candidate
  BY DEF Whole, Candidate
<1>3. \A r \in DOMAIN s.tables : s.tables[r] \in Candidate
  BY <1>1 DEF IsSpec, OnSome
<1>4. {s.keyed, s.viaRoot, s.copyData, s.enabled} \subseteq BOOLEAN
  BY <1>1 DEF IsSpec
<1>5. OptionsOf(s) \in Options
  BY <1>4, ChoicesAreKnown DEF OptionsOf, Options
<1> QED  BY <1>1, <1>2, <1>3, <1>4, <1>5 DEF IsSpec, OnSome, ShapeOf

\* What a publication sends are relations.
LEMMA PublishedAreRelations ==
  ASSUME TypeOK
  PROVE  PublishedRelations(source, publication) \subseteq Relation
<1> SUFFICES ASSUME NEW r \in DOMAIN publication.members
             PROVE  TargetRelations(source, publication.viaRoot, r) \subseteq Relation
  BY DEF PublishedRelations
<1>1. r \in DOMAIN source /\ r \in Relation /\ source[r] \in SourceTable
  BY CatalogTypes DEF TypeOK
<1> QED  BY <1>1 DEF TargetRelations, SourceTable

\* Functions on some of the relations stay such when cut or added to.
LEMMA CutAndAdded ==
  ASSUME NEW S, NEW f, OnSome(f, S), NEW T, NEW r \in Relation, NEW x \in S
  PROVE  /\ OnSome(Without(f, T), S) /\ DOMAIN Without(f, T) = DOMAIN f \ T
         /\ OnSome(With(f, r, x), S) /\ DOMAIN With(f, r, x) = DOMAIN f \cup {r}
         /\ r \in DOMAIN f => OnSome([f EXCEPT ![r] = x], S)
  BY DEF OnSome, Without, With

LEMMA NothingOnSome == ASSUME NEW S PROVE OnSome(Empty, S)
  BY DEF OnSome, Empty

LEMMA TypeInit == Init => TypeOK
<1> SUFFICES ASSUME Init PROVE TypeOK
  OBVIOUS
<1>1. source \in SourceCatalogs /\ target \in TargetCatalogs
  BY CatalogsAtFirst DEF Init
<1>2. OnSome(Empty, Remembered) /\ OnSome(Empty, Candidate) /\ DOMAIN Empty = {}
  BY NothingOnSome DEF Empty
<1> QED  BY <1>1, <1>2 DEF Init, TypeOK, PassOf
\* TypeOK in four parts, of which most steps disturb one or two.
SourceSide ==
  /\ source \in SourceCatalogs
  /\ publication \in [exists : BOOLEAN, members : {publication.members}, keyed : BOOLEAN,
                     viaRoot : BOOLEAN]
  /\ OnSome(publication.members, Candidate)
  /\ DOMAIN publication.members \subseteq DOMAIN source
TargetSide ==
  /\ target \in TargetCatalogs /\ rows \subseteq DOMAIN target
  /\ subscription \in [exists : BOOLEAN, enabled : BOOLEAN, carries : SUBSET DOMAIN target,
                      copied : SUBSET DOMAIN target]
  /\ subscription.copied \subseteq subscription.carries
PassSide ==
  /\ pc \in {"idle", "options", "judge", "tables", "subscribe", "refresh", "publish"}
  /\ pass \in [spec : Specs, drops : SUBSET Relation, adds : SUBSET Relation,
              replaces : SUBSET Relation, kept : SUBSET Relation, refused : SUBSET Relation,
              rowFilters : {pass.rowFilters}, published : SUBSET Relation]
  /\ OnSome(pass.rowFilters, Remembered)
  /\ fresh \in BOOLEAN
Rest ==
  /\ spec \in Specs /\ claimed \subseteq Claimable
  /\ status \in [rowFilters : {status.rowFilters}, kept : SUBSET Relation,
                refused : SUBSET Relation]
  /\ OnSome(status.rowFilters, Remembered)
  /\ budget \in [edits : Nat, breaks : Nat, refusals : Nat]

LEMMA Parts == TypeOK <=> SourceSide /\ TargetSide /\ PassSide /\ Rest
  BY DEF TypeOK, SourceSide, TargetSide, PassSide, Rest
LEMMA PartsNext == TypeOK' <=> SourceSide' /\ TargetSide' /\ PassSide' /\ Rest'
  BY DEF TypeOK, SourceSide, TargetSide, PassSide, Rest

\* What a step of another actor leaves alone, and what it counts.
LEMMA KeptSides ==
  /\ SourceSide /\ UNCHANGED <<source, publication>> => SourceSide'
  /\ TargetSide /\ UNCHANGED <<target, rows, subscription>> => TargetSide'
  /\ PassSide /\ UNCHANGED <<pc, pass>> /\ fresh' \in BOOLEAN => PassSide'
<1>1. SourceSide /\ UNCHANGED <<source, publication>> => SourceSide'
  BY DEF SourceSide
<1>2. TargetSide /\ UNCHANGED <<target, rows, subscription>> => TargetSide'
  BY DEF TargetSide
<1>3. PassSide /\ UNCHANGED <<pc, pass>> /\ fresh' \in BOOLEAN => PassSide'
  BY DEF PassSide
<1> QED  BY <1>1, <1>2, <1>3

LEMMA Counted ==
  ASSUME Rest, NEW what, Changes(what), spec' \in Specs, claimed' \subseteq Claimable,
         status' = status
  PROVE  Rest'
  BY DEF Rest, Changes

\* A pass that ends leaves a pass of its type.
LEMMA EndSide == PassSide /\ End /\ fresh' \in BOOLEAN => PassSide'
  BY NothingOnSome DEF PassSide, End, PassOf

\* A member that is added, taken out or changed keeps the publication's type.
LEMMA MembersSide ==
  ASSUME SourceSide, NEW r \in Relation, NEW c \in Candidate, NEW T,
         source' = source,
         \/ publication' = [publication EXCEPT !.members = Without(@, T)]
         \/ /\ r \in DOMAIN source
            /\ publication' = [publication EXCEPT !.members = With(@, r, c)]
         \/ /\ r \in DOMAIN publication.members
            /\ publication' = [publication EXCEPT !.members[r] = c]
  PROVE  SourceSide'
<1> DEFINE m == publication.members
<1>1. OnSome(m, Candidate) /\ DOMAIN m \subseteq DOMAIN source
  BY DEF SourceSide
<1>2. /\ OnSome(Without(m, T), Candidate) /\ DOMAIN Without(m, T) = DOMAIN m \ T
      /\ OnSome(With(m, r, c), Candidate) /\ DOMAIN With(m, r, c) = DOMAIN m \cup {r}
      /\ r \in DOMAIN m => OnSome([m EXCEPT ![r] = c], Candidate)
  BY <1>1, CutAndAdded
<1>3. DOMAIN [m EXCEPT ![r] = c] = DOMAIN m
  OBVIOUS
<1> HIDE DEF m
<1>4. CASE publication' = [publication EXCEPT !.members = Without(m, T)]
  <2>1. publication'.members = Without(m, T)
    BY <1>4 DEF SourceSide
  <2> QED  BY <1>1, <1>2, <1>4, <2>1 DEF SourceSide
<1>5. CASE /\ r \in DOMAIN source
           /\ publication' = [publication EXCEPT !.members = With(m, r, c)]
  <2>1. publication'.members = With(m, r, c)
    BY <1>5 DEF SourceSide
  <2> QED  BY <1>1, <1>2, <1>5, <2>1 DEF SourceSide
<1>6. CASE /\ r \in DOMAIN m
           /\ publication' = [publication EXCEPT !.members = [m EXCEPT ![r] = c]]
  <2>1. publication'.members = [m EXCEPT ![r] = c]
    BY <1>6 DEF SourceSide
  <2> QED  BY <1>1, <1>2, <1>3, <1>6, <2>1 DEF SourceSide
<1> QED  BY <1>4, <1>5, <1>6 DEF m

\* Carry keeps the target's side.
LEMMA CarrySide ==
  ASSUME TargetSide, target' = target, NEW relations \in SUBSET DOMAIN target,
         NEW enabled \in BOOLEAN, Carry(relations, enabled)
  PROVE  TargetSide'
  BY DEF TargetSide, Carry

LEMMA TypeStep == TypeOK /\ [Next]_vars => TypeOK'
<1> SUFFICES ASSUME SourceSide, TargetSide, PassSide, Rest, [Next]_vars
             PROVE  SourceSide' /\ TargetSide' /\ PassSide' /\ Rest'
  BY Parts, PartsNext
<1>1. CASE StartPass
  <2>1. PassSide'
    BY <1>1, NothingOnSome DEF PassSide, StartPass, PassOf, Rest
  <2> QED  BY <1>1, <2>1 DEF StartPass, others, SourceSide, TargetSide, Rest
<1>2. CASE SetOptions
  <2>1. pass.spec.keyed \in BOOLEAN /\ pass.spec.viaRoot \in BOOLEAN
    BY SpecTypes DEF PassSide
  <2>2. SourceSide'
    BY <1>2, <2>1 DEF SetOptions, SourceSide, others
  <2>3. PassSide'
    BY <1>2, EndSide DEF SetOptions, Fail, PassSide
  <2>4. TargetSide'
    BY <1>2, KeptSides DEF SetOptions, others
  <2> QED  BY <1>2, <2>2, <2>3, <2>4 DEF SetOptions, others, Rest
<1>3. CASE JudgeTables
  <2>1. DOMAIN Candidates(pass.spec, source) \subseteq Relation
    BY SpecTypes, CatalogTypes DEF SourceSide, PassSide, Candidates
  <2>2. PassSide'
    BY <1>3, <2>1 DEF JudgeTables, PassSide, SourceSide, OnSome
  <2> QED  BY <1>3, <2>2 DEF JudgeTables, others, SourceSide, TargetSide, Rest
<1>4. ASSUME NEW r \in Relation, DropTable(r)
      PROVE  SourceSide' /\ TargetSide' /\ PassSide' /\ Rest'
  <2>1. SourceSide'
    <3>1. Whole \in Candidate
      BY DEF Candidate, Whole
    <3> QED  BY <1>4, <3>1, MembersSide DEF DropTable, others, SourceSide
  <2>2. PassSide'
    BY <1>4, EndSide, ZenonT(60) DEF DropTable, Fail, PassSide
  <2>3. TargetSide'
    BY <1>4, KeptSides DEF DropTable, others
  <2> QED  BY <1>4, <2>1, <2>2, <2>3 DEF DropTable, others, Rest
<1>5. ASSUME NEW r \in Relation, AddTable(r) \/ ReplaceTable(r)
      PROVE  SourceSide' /\ TargetSide' /\ PassSide' /\ Rest'
  <2>1. ShapeOf(pass.spec, r) \in Candidate
    BY SpecTypes DEF PassSide
  <2>2. SourceSide'
    <3>1. CASE UNCHANGED <<source, publication>>
      BY <3>1, KeptSides
    <3>2. CASE /\ r \in DOMAIN source /\ source' = source
               /\ publication' = [publication EXCEPT !.members =
                                     With(@, r, ShapeOf(pass.spec, r))]
      BY <2>1, <3>2, MembersSide
    <3>3. CASE /\ r \in DOMAIN publication.members /\ source' = source
               /\ publication' = [publication EXCEPT !.members[r] = ShapeOf(pass.spec, r)]
      BY <2>1, <3>3, MembersSide
    <3> QED  BY <1>5, <3>1, <3>2, <3>3 DEF AddTable, ReplaceTable, AddAllowed, others
  <2>3. PassSide'
    <3>1. /\ UNCHANGED <<pc, fresh>>
          /\ \/ pass' = [pass EXCEPT !.adds = @ \ {r}]
             \/ pass' = [pass EXCEPT !.replaces = @ \ {r}]
             \/ pass' = [pass EXCEPT !.replaces = @ \ {r}, !.refused = @ \cup {r}]
      BY <1>5 DEF AddTable, ReplaceTable
    <3>2. CASE pass' = [pass EXCEPT !.adds = @ \ {r}]
      BY <3>1, <3>2 DEF PassSide
    <3>3. CASE pass' = [pass EXCEPT !.replaces = @ \ {r}]
      BY <3>1, <3>3 DEF PassSide
    <3>4. CASE pass' = [pass EXCEPT !.replaces = @ \ {r}, !.refused = @ \cup {r}]
      BY <3>1, <3>4 DEF PassSide
    <3> QED  BY <3>1, <3>2, <3>3, <3>4
  <2>4. TargetSide'
    BY <1>5, KeptSides DEF AddTable, ReplaceTable, others
  <2>5. Rest'
    BY <1>5 DEF AddTable, ReplaceTable, MayRefuse, others, Rest
  <2> QED  BY <2>2, <2>3, <2>4, <2>5
<1>6. CASE ReadBack
  <2> DEFINE members == publication.members
             filtered == {r \in DOMAIN members \cap DOMAIN pass.spec.tables :
                            pass.spec.tables[r].filter # NoFilter}
             remembered == [r \in filtered |-> [asked |-> pass.spec.tables[r].filter,
                                                applied |-> members[r].filter]]
  <2>1. ASSUME NEW r \in filtered
        PROVE  [asked |-> pass.spec.tables[r].filter, applied |-> members[r].filter]
                 \in Remembered
    <3>1. pass.spec.tables[r] \in Candidate /\ members[r] \in Candidate
      BY SpecTypes DEF PassSide, SourceSide, OnSome
    <3> QED  BY <3>1 DEF Candidate, Remembered
  <2>2. OnSome(remembered, Remembered)
    BY <2>1 DEF OnSome, SourceSide
  <2>3. PublishedRelations(source, publication) \subseteq Relation
    BY PublishedAreRelations, Parts
  <2>4. pass' = [pass EXCEPT !.rowFilters = remembered,
                             !.published = PublishedRelations(source, publication)]
    BY <1>6 DEF ReadBack
  <2>5. pc' = "subscribe" /\ fresh' = fresh
    BY <1>6 DEF ReadBack
  <2>6. PassSide'
    BY <2>2, <2>3, <2>4, <2>5 DEF PassSide
  <2> QED  BY <1>6, <2>6 DEF ReadBack, others, SourceSide, TargetSide, Rest
<1>7. CASE Subscribe \/ Refresh
  <2>1. pass.spec.enabled \in BOOLEAN /\ subscription.enabled \in BOOLEAN
    BY SpecTypes DEF PassSide, TargetSide
  <2>2. ~Missing => PublishedRelations(source, publication) \subseteq DOMAIN target
    BY DEF Missing
  <2>3. subscription.carries \subseteq DOMAIN target
    BY DEF TargetSide
  <2>4. TargetSide'
    BY <1>7, <2>1, <2>2, <2>3, CarrySide, KeptSides DEF Subscribe, Refresh, others
  <2>5. PassSide'
    BY <1>7, EndSide DEF Subscribe, Refresh, Fail, PassSide
  <2> QED  BY <1>7, <2>4, <2>5 DEF Subscribe, Refresh, others, SourceSide, Rest
<1>8. CASE Publish
  <2>1. PassSide'
    BY <1>8, EndSide DEF Publish, PassSide
  <2>2. Rest'
    BY <1>8 DEF Publish, Rest, PassSide, others
  <2> QED  BY <1>8, <2>1, <2>2 DEF Publish, others, SourceSide, TargetSide
<1>9. CASE Break
  <2>1. PassSide'
    BY <1>9, EndSide DEF Break, Fail, PassSide
  <2> QED  BY <1>9, <2>1 DEF Break, others, SourceSide, TargetSide, Rest
<1>10. CASE AlterSource
  <2> DEFINE kept == Without(publication.members,
                             DOMAIN publication.members \ DOMAIN source')
  <2>2. OnSome(kept, Candidate) /\ DOMAIN kept \subseteq DOMAIN source'
    BY DEF SourceSide, OnSome, Without
  <2>3. SourceSide'
    BY <1>10, <2>2 DEF AlterSource, SourceSide
  <2>4. TargetSide'
    BY <1>10, KeptSides DEF AlterSource
  <2>5. PassSide' /\ Rest'
    BY <1>10, KeptSides, Counted DEF AlterSource, Rest
  <2> QED  BY <2>3, <2>4, <2>5
<1>11. CASE AlterTarget
  <2>1. TargetSide'
    BY <1>11 DEF AlterTarget, TargetSide
  <2>2. SourceSide' /\ PassSide' /\ Rest'
    BY <1>11, KeptSides, Counted DEF AlterTarget, Rest
  <2> QED  BY <2>1, <2>2
<1>12. CASE LoadOrEmpty
  <2>1. TargetSide'
    BY <1>12 DEF LoadOrEmpty, TargetSide, others
  <2>2. SourceSide' /\ PassSide' /\ Rest'
    BY <1>12, KeptSides, Counted DEF LoadOrEmpty, others, Rest, PassSide
  <2> QED  BY <2>1, <2>2
<1>13. CASE EditPublication
  <2>1. ASSUME NEW r \in DOMAIN publication.members, NEW f \in Filter \cup {NoFilter}
        PROVE  [publication.members[r] EXCEPT !.filter = f] \in Candidate
    BY DEF SourceSide, OnSome, Candidate
  <2>2. SourceSide'
    <3>1. CASE \E r \in DOMAIN publication.members :
                 publication' = [publication EXCEPT !.members = Without(@, {r})]
      <4>1. PICK r \in Relation : publication' = [publication EXCEPT !.members = Without(@, {r})]
        BY <3>1 DEF SourceSide, OnSome
      <4>2. Whole \in Candidate
        BY DEF Candidate, Whole
      <4> QED  BY <1>13, <4>1, <4>2, MembersSide DEF EditPublication, others
    <3>2. CASE \E r \in DOMAIN publication.members, f \in Filter \cup {NoFilter} :
                 publication' = [publication EXCEPT !.members[r] =
                                   [publication.members[r] EXCEPT !.filter = f]]
      <4>1. PICK r \in DOMAIN publication.members, f \in Filter \cup {NoFilter} :
                 publication' = [publication EXCEPT !.members[r] =
                                   [publication.members[r] EXCEPT !.filter = f]]
        BY <3>2
      <4>2. r \in Relation
        BY DEF SourceSide, OnSome
      <4> QED  BY <1>13, <2>1, <4>1, <4>2, MembersSide DEF EditPublication, others
    <3> QED  BY <1>13, <3>1, <3>2 DEF EditPublication
  <2>3. TargetSide'
    BY <1>13, KeptSides DEF EditPublication, others
  <2>4. PassSide' /\ Rest'
    BY <1>13, KeptSides, Counted DEF EditPublication, others, Rest
  <2> QED  BY <2>2, <2>3, <2>4
<1>14. CASE EditSpec
  BY <1>14, KeptSides, Counted DEF EditSpec, Rest
<1>15. CASE Claim
  <2>1. claimed' \subseteq Claimable
    BY <1>15 DEF Claim, Rest
  <2> QED  BY <1>15, <2>1, KeptSides, Counted DEF Claim, PassSide, Rest
<1>16. CASE UNCHANGED vars
  BY <1>16 DEF SourceSide, TargetSide, PassSide, Rest, vars
<1> QED  BY <1>1, <1>2, <1>3, <1>4, <1>5, <1>6, <1>7, <1>8, <1>9, <1>10, <1>11, <1>12,
            <1>13, <1>14, <1>15, <1>16 DEF Next, Pass, Others

\* Every variable keeps its type, whatever the catalogs, specs and bounds.
THEOREM TablesTypeCorrect == Spec => []TypeOK
  BY TypeInit, TypeStep, PTL DEF Spec

-----------------------------------------------------------------------------
\* What a good pass leaves behind

\* Every partitioned table has a replica identity of its own.
RootsIdentified ==
  \A cat \in SourceCatalogs : \A r \in DOMAIN cat : cat[r].key.kind = "p" => HasIdentity(cat[r].key)

\* What the pass, or after it status, reports of a published table.
Kept == IF pc = "idle" THEN status.kept ELSE pass.kept
Refused == IF pc = "idle" THEN status.refused ELSE pass.refused

\* A table that was judged fit in the shape the spec gives it.
Fit(r) ==
  /\ r \in DOMAIN Candidates(spec, source)
  /\ ~WritesRefused(source, r, ShapeOf(spec, r), InForce)
  /\ r \notin Kept /\ RootsIdentified =>
       ~ApplyStops(source, target, r, ShapeOf(spec, r), InForce)

\* The filters the next judgement goes by, and a table they are wrong about: the
\* filter read back for it was not the one asked for.
Remembers ==
  IF pc \in {"subscribe", "refresh", "publish"} THEN pass.rowFilters ELSE status.rowFilters
Misremembered(r) == r \in DOMAIN Remembers /\ Remembers[r].asked # Remembers[r].applied

\* A table that is published in that shape, as far as the operator can know.
AsAsked(r) ==
  /\ publication.members[r].columns = ShapeOf(spec, r).columns
  /\ \/ publication.members[r] = ShapeOf(spec, r)
     \/ ShapeOf(spec, r).filter # NoFilter /\ Misremembered(r)

\* While nothing that was judged has changed, what is published is fit, and as
\* asked for but for what is still to be replaced, was kept or was refused.
StillTrue ==
  /\ spec = pass.spec
  /\ \A r \in (DOMAIN publication.members \ pass.drops) \cup pass.adds : Fit(r)
  /\ \A r \in DOMAIN publication.members :
       r \notin pass.drops \cup pass.replaces \cup Kept \cup Refused => AsAsked(r)

\* The inductive invariant.
Inv ==
  /\ pc \in {"options", "judge"} => ~fresh
  /\ pc = "judge" => publication.keyed = pass.spec.keyed /\ publication.viaRoot = pass.spec.viaRoot
  /\ pc # "tables" => pass.drops = {} /\ pass.adds = {} /\ pass.replaces = {}
  /\ fresh => StillTrue

\* The apply worker minds a table's columns, not its filter.
LEMMA StopsByColumns ==
  ASSUME NEW cat, NEW targets, NEW r, NEW c, NEW d, c.columns = d.columns, NEW o
  PROVE  ApplyStops(cat, targets, r, c, o) = ApplyStops(cat, targets, r, d, o)
  BY DEF ApplyStops, PublishedColumns

\* A member that matches a table's spec is as asked for.
LEMMA MatchingIsAsked ==
  ASSUME NEW c \in Candidate, NEW member \in Candidate, NEW remembered, NEW r,
         MemberMatches(c, member, remembered, r)
  PROVE  /\ member.columns = c.columns
         /\ \/ member = c
            \/ /\ c.filter # NoFilter /\ r \in DOMAIN remembered
               /\ remembered[r].asked = c.filter /\ remembered[r].applied = member.filter
               /\ remembered[r].asked # remembered[r].applied
<1>1. member.filter = c.filter /\ member.columns = c.columns => member = c
  BY DEF Candidate
<1> QED  BY <1>1 DEF MemberMatches

\* Inv survives a step that leaves alone what it is about.
LEMMA InvKept ==
  ASSUME Inv, UNCHANGED <<spec, source, target, publication, status, pass, pc, fresh>>
  PROVE  Inv'
  BY DEF Inv, StillTrue, Fit, AsAsked, InForce, Kept, Refused, Remembers, Misremembered

\* A judgement passed on the spec and catalogs as they are.
LEMMA JudgeKeeps == TypeOK /\ Inv /\ JudgeTables => Inv'
<1> SUFFICES ASSUME TypeOK, Inv, JudgeTables, spec = pass.spec
             PROVE  StillTrue'
  BY DEF Inv, JudgeTables, others
<1> DEFINE s == pass.spec
           members == publication.members
           selected == Candidates(s, source)
           Issues(r) == Judge(source, target, r, selected[r], OptionsOf(s), Uncopied, claimed)
           eligible == {r \in DOMAIN selected : Issues(r) = {}}
           kept == {r \in DOMAIN selected \cap DOMAIN members :
                      Issues(r) # {} /\ KeepsMembership(Issues(r))}
<1>1. /\ pass'.spec = s /\ pass'.drops = DOMAIN members \ (eligible \cup kept)
      /\ pass'.adds = eligible \ DOMAIN members /\ pass'.kept = kept
      /\ pass'.replaces = {r \in eligible \cap DOMAIN members :
                             ~MemberMatches(selected[r], members[r], status.rowFilters, r)}
      /\ pc' = "tables"
  BY DEF JudgeTables, TypeOK
<1>2. UNCHANGED <<spec, source, target, publication>>
  BY DEF JudgeTables, others
<1>3. InForce = OptionsOf(s) /\ InForce' = InForce
  BY <1>2 DEF InForce, OptionsOf, Inv, JudgeTables
<1>4. s \in Specs /\ OptionsOf(s) \in Options
  BY SpecTypes DEF TypeOK
<1>5. ASSUME NEW r \in DOMAIN selected
      PROVE  selected[r] = ShapeOf(s, r) /\ selected[r] \in Candidate
  <2>1. selected[r] = ShapeOf(s, r)
    BY DEF Candidates, ShapeOf
  <2> QED  BY <1>4, <2>1, SpecTypes
<1>6. ASSUME NEW r \in DOMAIN selected, OnTarget(Issues(r))
      PROVE  Judged(source, target, r, selected[r], OptionsOf(s))
  <2>1. r \in DOMAIN source
    BY <1>6, SourceClear
  <2>2. \A q \in DOMAIN source : source[q] \in SourceTable /\ LeavesAreLeaves(source, q)
    BY CatalogTypes DEF TypeOK
  <2>3. \A q \in DOMAIN target : target[q] \in TargetTable
    BY TargetTypes DEF TypeOK
  <2> QED  BY <1>4, <1>5, <2>1, <2>2, <2>3 DEF Judged
<1>7. ASSUME NEW r \in eligible \cup kept
      PROVE  r \in DOMAIN selected /\ OnTarget(Issues(r))
  BY <1>7 DEF OnTarget, KeepsMembership
<1>8. ASSUME NEW r \in eligible \cup kept
      PROVE  ~WritesRefused(source, r, ShapeOf(s, r), InForce)
  BY <1>3, <1>5, <1>6, <1>7, WritesSurvive
<1>9. ASSUME NEW r \in eligible, RootsIdentified
      PROVE  ~ApplyStops(source, target, r, ShapeOf(s, r), InForce)
  <2>1. Judged(source, target, r, selected[r], OptionsOf(s))
    BY <1>6, <1>7
  <2>2. RootIdentified(source, r, OptionsOf(s))
    BY <1>9, <2>1 DEF RootIdentified, RootsIdentified, Judged, TypeOK
  <2> QED  BY <1>3, <1>5, <2>1, <2>2, ApplyGoesOn
<1>10. ASSUME NEW r \in (DOMAIN members \ pass'.drops) \cup pass'.adds
       PROVE  Fit(r)'
  <2>1. r \in eligible \cup kept
    BY <1>1
  <2>2. r \notin kept => r \in eligible
    BY <2>1
  <2>3. Kept' = kept
    BY <1>1 DEF Kept
  <2> QED  BY <1>2, <1>3, <1>7, <1>8, <1>9, <2>1, <2>2, <2>3 DEF Fit
<1>11. ASSUME NEW r \in DOMAIN members,
              r \notin pass'.drops \cup pass'.replaces \cup Kept'
       PROVE  AsAsked(r)'
  <2>1. r \in eligible /\ MemberMatches(selected[r], members[r], status.rowFilters, r)
    BY <1>1, <1>11 DEF Kept
  <2>2. members[r] \in Candidate
    BY DEF TypeOK, OnSome
  <2>3. r \in DOMAIN selected /\ selected[r] = ShapeOf(s, r) /\ selected[r] \in Candidate
    BY <1>5, <2>1
  <2>4. Remembers' = status.rowFilters
    BY <1>1 DEF Remembers, JudgeTables
  <2>5. /\ members[r].columns = selected[r].columns
        /\ \/ members[r] = selected[r]
           \/ selected[r].filter # NoFilter /\ Misremembered(r)'
    BY <2>1, <2>2, <2>3, <2>4, MatchingIsAsked DEF Misremembered
  <2> QED  BY <1>1, <1>2, <2>3, <2>5 DEF AsAsked
<1> QED  BY <1>1, <1>2, <1>10, <1>11 DEF StillTrue

\* A statement about one table.
LEMMA TableKeeps ==
  ASSUME TypeOK, Inv, NEW r \in Relation, DropTable(r) \/ AddTable(r) \/ ReplaceTable(r)
  PROVE  Inv'
<1>0. \/ Fail
      \/ pc' = "tables" /\ UNCHANGED fresh
  BY DEF DropTable, AddTable, ReplaceTable
<1> SUFFICES ASSUME fresh, fresh', pc' = "tables" PROVE StillTrue'
  <2>1. Fail => Inv'
    BY DEF Fail, End, Inv, PassOf
  <2> QED  BY <1>0, <2>1 DEF Inv
<1> DEFINE members == publication.members
<1>1. /\ UNCHANGED <<spec, source, target, status>> /\ pc = "tables"
      /\ StillTrue
      /\ \A q : Misremembered(q)' = Misremembered(q)
  <2>1. UNCHANGED <<spec, source, target, status>> /\ pc = "tables" /\ StillTrue
    BY DEF DropTable, AddTable, ReplaceTable, others, Inv
  <2>2. Remembers' = Remembers
    BY <2>1 DEF Remembers
  <2> QED  BY <2>1, <2>2 DEF Misremembered
<1>2. CASE DropTable(r)
  <2>1. r \in DOMAIN members
    BY <1>2 DEF DropTable, Fail
  <2>2. publication' = [publication EXCEPT !.members = Without(members, {r})]
        /\ pass' = [pass EXCEPT !.drops = @ \ {r}]
    BY <1>2, <2>1 DEF DropTable
  <2>3. /\ publication'.members = Without(members, {r}) /\ InForce' = InForce
        /\ pass'.drops = pass.drops \ {r} /\ pass'.adds = pass.adds
        /\ pass'.replaces = pass.replaces /\ pass'.spec = pass.spec
        /\ Kept' = Kept /\ Refused' = Refused
    BY <1>1, <2>2 DEF TypeOK, InForce, Kept, Refused
  <2>4. /\ DOMAIN publication'.members = DOMAIN members \ {r}
        /\ \A q \in DOMAIN members \ {r} : publication'.members[q] = members[q]
    BY <2>3 DEF Without
  <2>5. \A q : Fit(q) => Fit(q)'
    BY <1>1, <2>3 DEF Fit
  <2>6. \A q \in DOMAIN members \ {r} : AsAsked(q) => AsAsked(q)'
    BY <1>1, <2>4 DEF AsAsked
  <2> QED  BY <1>1, <2>3, <2>4, <2>5, <2>6 DEF StillTrue
<1>3. CASE AddTable(r) \/ ReplaceTable(r)
  <2> DEFINE c == ShapeOf(pass.spec, r)
  <2>1. CASE /\ r \notin DOMAIN members /\ r \in pass.adds
             /\ publication' = [publication EXCEPT !.members = With(members, r, c)]
             /\ pass' = [pass EXCEPT !.adds = @ \ {r}]
    <3>1. /\ publication'.members = With(members, r, c) /\ InForce' = InForce
          /\ pass'.drops = pass.drops /\ pass'.adds = pass.adds \ {r}
          /\ pass'.replaces = pass.replaces /\ pass'.spec = pass.spec
          /\ Kept' = Kept /\ Refused' = Refused
      BY <1>1, <2>1 DEF TypeOK, InForce, Kept, Refused
    <3>2. /\ DOMAIN publication'.members = DOMAIN members \cup {r}
          /\ publication'.members[r] = c
          /\ \A q \in DOMAIN members : publication'.members[q] = members[q]
      BY <2>1, <3>1 DEF With
    <3>3. \A q : Fit(q) => Fit(q)'
      BY <1>1, <3>1 DEF Fit
    <3>4. \A q \in DOMAIN members : AsAsked(q) => AsAsked(q)'
      BY <1>1, <3>2 DEF AsAsked
    <3>5. AsAsked(r)'
      BY <1>1, <3>2 DEF AsAsked, StillTrue
    <3> QED  BY <1>1, <2>1, <3>1, <3>2, <3>3, <3>4, <3>5 DEF StillTrue
  <2>2. CASE /\ r \in DOMAIN members /\ r \in pass.replaces
             /\ publication' = [publication EXCEPT !.members = [members EXCEPT ![r] = c]]
             /\ pass' = [pass EXCEPT !.replaces = @ \ {r}]
    <3>1. /\ publication'.members = [members EXCEPT ![r] = c] /\ InForce' = InForce
          /\ pass'.drops = pass.drops /\ pass'.adds = pass.adds
          /\ pass'.replaces = pass.replaces \ {r} /\ pass'.spec = pass.spec
          /\ Kept' = Kept /\ Refused' = Refused
      BY <1>1, <2>2 DEF TypeOK, InForce, Kept, Refused
    <3>2. /\ DOMAIN publication'.members = DOMAIN members
          /\ publication'.members[r] = c
          /\ \A q \in DOMAIN members \ {r} : publication'.members[q] = members[q]
      BY <2>2, <3>1
    <3>3. \A q : Fit(q) => Fit(q)'
      BY <1>1, <3>1 DEF Fit
    <3>4. \A q \in DOMAIN members \ {r} : AsAsked(q) => AsAsked(q)'
      BY <1>1, <3>2 DEF AsAsked
    <3>5. AsAsked(r)'
      BY <1>1, <3>2 DEF AsAsked, StillTrue
    <3> QED  BY <1>1, <2>2, <3>1, <3>2, <3>3, <3>4, <3>5 DEF StillTrue
  <2>3. CASE /\ UNCHANGED publication
             /\ \/ pass' = [pass EXCEPT !.adds = @ \ {r}]
                \/ pass' = [pass EXCEPT !.replaces = @ \ {r}, !.refused = @ \cup {r}]
    <3>1. /\ InForce' = InForce /\ pass'.drops = pass.drops /\ pass'.adds \subseteq pass.adds
          /\ pass.replaces \cup pass.refused \subseteq pass'.replaces \cup pass'.refused
          /\ pass'.spec = pass.spec /\ Kept' = Kept
          /\ Refused = pass.refused /\ Refused' = pass'.refused
      <4>1. InForce' = InForce
        BY <1>1, <2>3 DEF InForce
      <4>2. CASE pass' = [pass EXCEPT !.adds = @ \ {r}]
        BY <1>1, <4>1, <4>2 DEF TypeOK, Kept, Refused
      <4>3. CASE pass' = [pass EXCEPT !.replaces = @ \ {r}, !.refused = @ \cup {r}]
        BY <1>1, <4>1, <4>3 DEF TypeOK, Kept, Refused
      <4> QED  BY <2>3, <4>2, <4>3
    <3>2. \A q : Fit(q) => Fit(q)'
      BY <1>1, <3>1 DEF Fit
    <3>3. \A q : AsAsked(q) => AsAsked(q)'
      BY <1>1, <2>3 DEF AsAsked
    <3> QED  BY <1>1, <2>3, <3>1, <3>2, <3>3 DEF StillTrue
  <2> QED  BY <1>3, <2>1, <2>2, <2>3, Zenon DEF AddTable, ReplaceTable
<1> QED  BY <1>2, <1>3

LEMMA InvStep == TypeOK /\ Inv /\ [Next]_vars => Inv'
<1> SUFFICES ASSUME TypeOK, Inv, [Next]_vars PROVE Inv'
  OBVIOUS
<1>1. CASE StartPass
  BY <1>1 DEF StartPass, Inv, PassOf
<1>2. CASE SetOptions
  <2>1. CASE Fail
    BY <2>1 DEF Fail, End, Inv, PassOf
  <2>2. CASE /\ publication' = [publication EXCEPT !.exists = TRUE,
                                                  !.keyed = pass.spec.keyed,
                                                  !.viaRoot = pass.spec.viaRoot]
             /\ pc' = "judge" /\ UNCHANGED <<pass, fresh>>
    <3>1. publication'.keyed = pass.spec.keyed /\ publication'.viaRoot = pass.spec.viaRoot
      BY <2>2 DEF TypeOK
    <3>2. ~fresh /\ pc # "tables"
      BY <1>2 DEF SetOptions, Inv
    <3> QED  BY <2>2, <3>1, <3>2 DEF Inv
  <2> QED  BY <1>2, <2>1, <2>2 DEF SetOptions
<1>3. CASE JudgeTables
  BY <1>3, JudgeKeeps
<1>4. CASE \E r \in Relation : DropTable(r) \/ AddTable(r) \/ ReplaceTable(r)
  BY <1>4, TableKeeps
<1>5. CASE ReadBack
  <2>1. /\ UNCHANGED <<spec, source, target, publication, fresh>> /\ pc' = "subscribe"
        /\ UNCHANGED <<pass.spec, pass.drops, pass.adds, pass.replaces, Kept, Refused>>
        /\ pass.drops = {} /\ pass.adds = {} /\ pass.replaces = {}
    BY <1>5 DEF ReadBack, others, TypeOK, Kept, Refused
  <2>2. ASSUME spec = pass.spec, NEW r \in DOMAIN publication.members, AsAsked(r)
        PROVE  AsAsked(r)'
    <3> DEFINE member == publication.members[r]
               asked == ShapeOf(spec, r)
    <3>1. CASE member = asked
      BY <2>1, <3>1 DEF AsAsked
    <3>2. CASE member # asked
      <4>1. asked.filter # NoFilter /\ member.columns = asked.columns
        BY <2>2, <3>2 DEF AsAsked
      <4>2. r \in DOMAIN pass.spec.tables /\ asked = pass.spec.tables[r]
        BY <2>2, <4>1 DEF ShapeOf, Whole
      <4>3. /\ r \in DOMAIN pass'.rowFilters
            /\ pass'.rowFilters[r] = [asked |-> asked.filter, applied |-> member.filter]
        BY <1>5, <4>1, <4>2 DEF ReadBack, TypeOK
      <4>4. member \in Candidate /\ asked \in Candidate
        BY SpecTypes DEF TypeOK, OnSome
      <4>5. asked.filter # member.filter
        BY <3>2, <4>1, <4>4 DEF Candidate
      <4>6. Misremembered(r)'
        BY <2>1, <4>3, <4>5 DEF Misremembered, Remembers
      <4> QED  BY <2>1, <4>1, <4>6 DEF AsAsked
    <3> QED  BY <3>1, <3>2
  <2> QED  BY <2>1, <2>2 DEF Inv, StillTrue, Fit, InForce
<1>6. CASE Subscribe \/ Refresh
  <2>1. CASE Fail
    BY <2>1 DEF Fail, End, Inv, PassOf
  <2>2. CASE /\ UNCHANGED <<spec, source, target, publication, pass, fresh, Kept, Refused>>
             /\ pc' \in {"refresh", "publish"} /\ pc \in {"subscribe", "refresh"}
    BY <2>2 DEF Inv, StillTrue, Fit, AsAsked, InForce, Remembers, Misremembered
  <2> QED  BY <1>6, <2>1, <2>2 DEF Subscribe, Refresh, others, Kept, Refused
<1>7. CASE Publish
  <2>1. /\ UNCHANGED <<spec, source, target, publication, fresh, Kept, Refused>>
        /\ pass'.spec = pass.spec /\ pc = "publish" /\ pc' = "idle"
        /\ pass'.drops = {} /\ pass'.adds = {} /\ pass'.replaces = {}
        /\ Remembers' = Remembers
    BY <1>7 DEF Publish, End, PassOf, others, Kept, Refused, Remembers
  <2> QED  BY <2>1 DEF Inv, StillTrue, Fit, AsAsked, InForce, Misremembered
<1>8. CASE Break
  BY <1>8 DEF Break, Fail, End, Inv, PassOf
<1>9. CASE AlterSource \/ AlterTarget \/ EditPublication \/ EditSpec
  <2>1. ~fresh' /\ UNCHANGED <<pc, pass>>
        /\ UNCHANGED <<publication.keyed, publication.viaRoot>>
    BY <1>9 DEF AlterSource, AlterTarget, EditPublication, EditSpec, TypeOK
  <2> QED  BY <2>1 DEF Inv
<1>10. CASE LoadOrEmpty \/ Claim \/ UNCHANGED vars
  BY <1>10, InvKept DEF LoadOrEmpty, Claim, others, vars
<1> QED  BY <1>1, <1>2, <1>3, <1>4, <1>5, <1>6, <1>7, <1>8, <1>9, <1>10 DEF Next, Pass, Others

LEMMA AlwaysInv == Spec => [](TypeOK /\ Inv)
<1>1. Init => TypeOK /\ Inv
  BY TypeInit DEF Init, Inv, PassOf
<1>2. TypeOK /\ Inv /\ [Next]_vars => TypeOK' /\ Inv'
  BY TypeStep, InvStep
<1> QED  BY <1>1, <1>2, PTL DEF Spec

\* After a good pass, a published table that would stop the apply worker is one
\* status reports, filters or no filters, provided partitioned tables have
\* identities (judge, keeps_membership).
THEOREM StopsAreReported == RootsIdentified => (Spec => []ReportedOrFlowing)
<1> SUFFICES ASSUME RootsIdentified PROVE Spec => []ReportedOrFlowing
  OBVIOUS
<1>1. TypeOK /\ Inv => ReportedOrFlowing
  <2> SUFFICES ASSUME Inv, Settled, NEW r \in DOMAIN publication.members,
                      r \notin status.kept \cup status.refused
               PROVE  ~ApplyStops(source, target, r, publication.members[r], InForce)
    BY DEF ReportedOrFlowing
  <2>1. Fit(r) /\ AsAsked(r) /\ r \notin Kept
    BY DEF Inv, StillTrue, Settled, Kept, Refused
  <2> QED  BY <2>1, StopsByColumns DEF Fit, AsAsked
<1> QED  BY <1>1, AlwaysInv, PTL

\* A good pass leaves published what is selected, and what it leaves in the shape
\* the spec gives it refuses no UPDATE or DELETE.  A table in another shape is
\* reported, or has the columns asked for and a filter status is mistaken about:
\* there is no other way for a row filter not to be honoured (_member_matches).
FilterTraced ==
  Settled =>
    \A r \in DOMAIN publication.members :
      LET member == publication.members[r]
          asked == ShapeOf(spec, r)
      IN /\ r \in DOMAIN Candidates(spec, source)
         /\ ~WritesRefused(source, r, asked, InForce)
         /\ \/ member = asked
            \/ r \in status.kept \cup status.refused
            \/ /\ member.columns = asked.columns /\ asked.filter # NoFilter
               /\ Misremembered(r)

\* Whatever the catalogs, specs and edits, a wrong row filter that is not
\* reported is one that was read back wrong (_converge_tables).
THEOREM WrongFiltersTraced == Spec => []FilterTraced
<1>1. TypeOK /\ Inv => FilterTraced
  BY DEF Inv, StillTrue, Settled, Kept, Refused, Fit, AsAsked, FilterTraced
<1> QED  BY <1>1, AlwaysInv, PTL

-----------------------------------------------------------------------------
\* Where row filters are honoured

\* Every filter that was read back is the one that was asked for.
Honest ==
  \A known \in {status.rowFilters, pass.rowFilters} :
    \A r \in DOMAIN known : known[r].asked = known[r].applied

\* With such a memory, what a good pass leaves published is in shape or reported.
LEMMA HonestPass ==
  ASSUME FilterTraced, Honest
  PROVE  FilterHonoured /\ WritesAccepted
<1>1. ASSUME NEW r, Settled PROVE ~Misremembered(r)
  BY <1>1 DEF Honest, Misremembered, Remembers, Settled
<1> QED  BY <1>1 DEF FilterTraced, FilterHonoured, WritesAccepted

\* The published table has the filter the pass is asked for, if any.
Given(r) == ShapeOf(pass.spec, r).filter \in {NoFilter, publication.members[r].filter}

\* No pass reads back a table that it had to keep, or was refused to replace,
\* with another filter than the one asked for.
Unhindered ==
  ReadBack => \A r \in DOMAIN publication.members \cap (pass.kept \cup pass.refused) : Given(r)

\* The inductive invariant: the memory, and the tables a pass is done with.
GivenSoFar ==
  pc = "tables" =>
    /\ pass.adds \cap DOMAIN publication.members = {}
    /\ \A r \in DOMAIN publication.members :
         r \notin pass.drops \cup pass.replaces \cup pass.kept \cup pass.refused => Given(r)

\* The memory changes only by being read back, published or forgotten.
MemoryKept ==
  /\ status'.rowFilters \in {status.rowFilters, pass.rowFilters}
  /\ pass'.rowFilters \in {pass.rowFilters, Empty}

LEMMA MemoryMostlyKept == TypeOK /\ [Next]_vars /\ ~ReadBack => MemoryKept
<1> SUFFICES ASSUME TypeOK, [Next]_vars, ~ReadBack PROVE MemoryKept
  OBVIOUS
<1>1. CASE StartPass \/ SetOptions \/ Subscribe \/ Refresh \/ Break
  <2>1. status' = status /\ (UNCHANGED pass \/ \E s : pass' = PassOf(s))
    BY <1>1 DEF StartPass, SetOptions, Subscribe, Refresh, Break, Fail, End
  <2> QED  BY <2>1 DEF PassOf, MemoryKept
<1>2. CASE JudgeTables
  BY <1>2 DEF JudgeTables, TypeOK, MemoryKept
<1>3. CASE \E r \in Relation : DropTable(r) \/ AddTable(r) \/ ReplaceTable(r)
  <2>1. PICK r \in Relation : DropTable(r) \/ AddTable(r) \/ ReplaceTable(r)
    BY <1>3
  <2>2. status' = status
    BY <2>1 DEF DropTable, AddTable, ReplaceTable
  <2>3. \/ Fail
        \/ pass' = [pass EXCEPT !.drops = @ \ {r}]
        \/ pass' = [pass EXCEPT !.adds = @ \ {r}]
        \/ pass' = [pass EXCEPT !.replaces = @ \ {r}]
        \/ pass' = [pass EXCEPT !.replaces = @ \ {r}, !.refused = @ \cup {r}]
    BY <2>1, Zenon DEF DropTable, AddTable, ReplaceTable
  <2>4. CASE Fail
    BY <2>2, <2>4 DEF Fail, End, PassOf, MemoryKept
  <2>5. CASE ~Fail
    BY <2>2, <2>3, <2>5 DEF TypeOK, MemoryKept
  <2> QED  BY <2>4, <2>5
<1>4. CASE Publish
  BY <1>4 DEF Publish, End, PassOf, MemoryKept
<1>5. CASE Others \/ UNCHANGED vars
  <2>1. UNCHANGED <<status, pass>>
    BY <1>5 DEF Others, AlterSource, AlterTarget, LoadOrEmpty, EditPublication, EditSpec,
                Claim, others, vars
  <2> QED  BY <2>1 DEF MemoryKept
<1> QED  BY <1>1, <1>2, <1>3, <1>4, <1>5 DEF Next, Pass

\* A table is matched on an honest memory only where it has its filter.
LEMMA GivenJudged == TypeOK /\ Honest /\ JudgeTables => GivenSoFar'
<1> SUFFICES ASSUME TypeOK, Honest, JudgeTables PROVE GivenSoFar'
  OBVIOUS
<1> DEFINE s == pass.spec
           members == publication.members
           selected == Candidates(s, source)
           Issues(r) == Judge(source, target, r, selected[r], OptionsOf(s), Uncopied, claimed)
           eligible == {r \in DOMAIN selected : Issues(r) = {}}
           kept == {r \in DOMAIN selected \cap DOMAIN members :
                      Issues(r) # {} /\ KeepsMembership(Issues(r))}
<1>1. /\ pass'.spec = s /\ pass'.drops = DOMAIN members \ (eligible \cup kept)
      /\ pass'.adds = eligible \ DOMAIN members /\ pass'.kept = kept
      /\ pass'.replaces = {r \in eligible \cap DOMAIN members :
                             ~MemberMatches(selected[r], members[r], status.rowFilters, r)}
      /\ publication' = publication
  BY DEF JudgeTables, TypeOK
<1> HIDE DEF kept
<1>2. ASSUME NEW r \in DOMAIN members,
             r \notin pass'.drops \cup pass'.replaces \cup pass'.kept
      PROVE  Given(r)'
  <2>1. r \in DOMAIN selected /\ MemberMatches(selected[r], members[r], status.rowFilters, r)
    BY <1>1, <1>2
  <2>2. selected[r] = ShapeOf(s, r)
    BY <2>1 DEF Candidates, ShapeOf
  <2>3. selected[r].filter \in {NoFilter, members[r].filter}
    BY <2>1 DEF MemberMatches, Honest
  <2> QED  BY <1>1, <2>2, <2>3 DEF Given
<1> QED  BY <1>1, <1>2 DEF GivenSoFar

\* A statement about one table gives it the filter asked for, or takes it out.
LEMMA GivenKept ==
  ASSUME TypeOK, GivenSoFar, NEW r \in Relation, DropTable(r) \/ AddTable(r) \/ ReplaceTable(r)
  PROVE  GivenSoFar'
<1>1. CASE Fail
  BY <1>1 DEF Fail, End, GivenSoFar
<1>2. CASE ~Fail
  <2> DEFINE members == publication.members
             c == ShapeOf(pass.spec, r)
  <2>1. pc = "tables" /\ UNCHANGED pass.spec
    BY <1>2 DEF DropTable, AddTable, ReplaceTable, TypeOK
  <2>2. CASE /\ r \in DOMAIN members /\ pass' = [pass EXCEPT !.drops = @ \ {r}]
             /\ publication' = [publication EXCEPT !.members = Without(members, {r})]
    <3>1. /\ publication'.members = Without(members, {r})
          /\ pass'.drops = pass.drops \ {r}
          /\ UNCHANGED <<pass.adds, pass.replaces, pass.kept, pass.refused>>
      BY <2>2 DEF TypeOK
    <3>2. /\ DOMAIN publication'.members = DOMAIN members \ {r}
          /\ \A q \in DOMAIN members \ {r} : publication'.members[q] = members[q]
      BY <3>1 DEF Without
    <3> QED  BY <2>1, <3>1, <3>2 DEF GivenSoFar, Given
  <2>3. CASE /\ r \in pass.adds /\ pass' = [pass EXCEPT !.adds = @ \ {r}]
             /\ publication' = [publication EXCEPT !.members = With(members, r, c)]
    <3>1. /\ publication'.members = With(members, r, c)
          /\ pass'.adds = pass.adds \ {r}
          /\ UNCHANGED <<pass.drops, pass.replaces, pass.kept, pass.refused>>
      BY <2>3 DEF TypeOK
    <3>2. /\ DOMAIN publication'.members = DOMAIN members \cup {r}
          /\ publication'.members[r] = c
          /\ \A q \in DOMAIN members : q # r => publication'.members[q] = members[q]
      BY <3>1 DEF With
    <3> QED  BY <2>1, <3>1, <3>2 DEF GivenSoFar, Given
  <2>4. CASE /\ r \in DOMAIN members /\ pass' = [pass EXCEPT !.replaces = @ \ {r}]
             /\ publication' = [publication EXCEPT !.members = [members EXCEPT ![r] = c]]
    <3>1. /\ publication'.members = [members EXCEPT ![r] = c]
          /\ pass'.replaces = pass.replaces \ {r}
          /\ UNCHANGED <<pass.drops, pass.adds, pass.kept, pass.refused>>
      BY <2>4 DEF TypeOK
    <3>2. /\ DOMAIN publication'.members = DOMAIN members
          /\ publication'.members[r] = c
          /\ \A q \in DOMAIN members \ {r} : publication'.members[q] = members[q]
      BY <2>4, <3>1
    <3> QED  BY <2>1, <3>1, <3>2 DEF GivenSoFar, Given
  <2>5. CASE /\ UNCHANGED publication
             /\ \/ pass' = [pass EXCEPT !.adds = @ \ {r}]
                \/ pass' = [pass EXCEPT !.replaces = @ \ {r}, !.refused = @ \cup {r}]
    <3>1. /\ pass'.adds \subseteq pass.adds /\ pass'.kept = pass.kept
          /\ pass'.drops = pass.drops
          /\ pass.replaces \cup pass.refused \subseteq pass'.replaces \cup pass'.refused
      <4>1. CASE pass' = [pass EXCEPT !.adds = @ \ {r}]
        BY <4>1 DEF TypeOK
      <4>2. CASE pass' = [pass EXCEPT !.replaces = @ \ {r}, !.refused = @ \cup {r}]
        BY <4>2 DEF TypeOK
      <4> QED  BY <2>5, <4>1, <4>2
    <3> QED  BY <2>1, <2>5, <3>1 DEF GivenSoFar, Given
  <2> QED  BY <1>2, <2>2, <2>3, <2>4, <2>5, Zenon DEF DropTable, AddTable, ReplaceTable
<1> QED  BY <1>1, <1>2

\* What is read back is what was asked for.
LEMMA HonestReadBack == TypeOK /\ Honest /\ GivenSoFar /\ Unhindered /\ ReadBack => Honest'
<1> SUFFICES ASSUME TypeOK, Honest, GivenSoFar, Unhindered, ReadBack PROVE Honest'
  OBVIOUS
<1> DEFINE members == publication.members
           filtered == {r \in DOMAIN members \cap DOMAIN pass.spec.tables :
                          pass.spec.tables[r].filter # NoFilter}
<1>1. pass'.rowFilters = [r \in filtered |-> [asked |-> pass.spec.tables[r].filter,
                                              applied |-> members[r].filter]]
  BY DEF ReadBack, TypeOK
<1>2. ASSUME NEW r \in filtered PROVE pass.spec.tables[r].filter = members[r].filter
  <2>1. Given(r)
    BY DEF GivenSoFar, Unhindered, ReadBack
  <2> QED  BY <2>1 DEF Given, ShapeOf
<1>3. status' = status
  BY DEF ReadBack
<1> QED  BY <1>1, <1>2, <1>3 DEF Honest

LEMMA HonestStep ==
  ASSUME TypeOK, Honest, GivenSoFar, [Unhindered]_vars, [Next]_vars
  PROVE  Honest'
<1>1. CASE ReadBack
  <2>1. Unhindered
    BY <1>1 DEF ReadBack, vars
  <2> QED  BY <1>1, <2>1, HonestReadBack
<1>2. CASE ~ReadBack
  <2>1. MemoryKept
    BY <1>2, MemoryMostlyKept
  <2> QED  BY <2>1 DEF MemoryKept, Honest, Empty
<1> QED  BY <1>1, <1>2

LEMMA GivenStep ==
  ASSUME "publicationMeanwhile" \notin Edits, TypeOK, Honest, GivenSoFar, [Next]_vars
  PROVE  GivenSoFar'
<1>1. CASE pc' # "tables"
  BY <1>1 DEF GivenSoFar
<1>2. CASE JudgeTables
  BY <1>2, GivenJudged
<1>3. CASE \E r \in Relation : DropTable(r) \/ AddTable(r) \/ ReplaceTable(r)
  BY <1>3, GivenKept
<1>4. CASE AlterSource
  <2>1. publication' = [publication EXCEPT !.members = Without(@, DOMAIN @ \ DOMAIN source')]
        /\ UNCHANGED <<pc, pass>>
    BY <1>4 DEF AlterSource
  <2>2. /\ DOMAIN publication'.members \subseteq DOMAIN publication.members
        /\ \A r \in DOMAIN publication'.members :
             publication'.members[r] = publication.members[r]
    BY <2>1 DEF Without, TypeOK
  <2> QED  BY <2>1, <2>2 DEF GivenSoFar, Given
<1>5. CASE AlterTarget \/ LoadOrEmpty \/ EditSpec \/ Claim \/ UNCHANGED vars
  <2>1. UNCHANGED <<publication, pc, pass>>
    BY <1>5 DEF AlterTarget, LoadOrEmpty, EditSpec, Claim, others, vars
  <2> QED  BY <2>1 DEF GivenSoFar, Given
<1>6. CASE StartPass \/ SetOptions \/ ReadBack \/ Subscribe \/ Refresh \/ Publish \/ Break
  <2>1. pc' # "tables"
    BY <1>6 DEF StartPass, SetOptions, ReadBack, Subscribe, Refresh, Publish, Break, Fail, End
  <2> QED  BY <1>1, <2>1
<1>7. CASE EditPublication
  <2>1. pc' # "tables"
    BY <1>7 DEF EditPublication
  <2> QED  BY <1>1, <2>1
<1> QED  BY <1>2, <1>3, <1>4, <1>5, <1>6, <1>7 DEF Next, Pass, Others

LEMMA AlwaysHonest ==
  "publicationMeanwhile" \notin Edits =>
    (Spec /\ [][Unhindered]_vars => [](FilterHonoured /\ WritesAccepted))
<1> SUFFICES ASSUME "publicationMeanwhile" \notin Edits
             PROVE  Spec /\ [][Unhindered]_vars => [](FilterHonoured /\ WritesAccepted)
  OBVIOUS
<1>1. Init => Honest /\ GivenSoFar
  BY DEF Init, Honest, GivenSoFar, PassOf, Empty
<1>2. TypeOK /\ Honest /\ GivenSoFar /\ [Unhindered]_vars /\ [Next]_vars
        => Honest' /\ GivenSoFar'
  BY HonestStep, GivenStep
<1>3. FilterTraced /\ Honest => FilterHonoured /\ WritesAccepted
  BY HonestPass
<1> QED  BY <1>1, <1>2, <1>3, TablesTypeCorrect, WrongFiltersTraced, PTL DEF Spec

\* What a good pass leaves published is selected, and has the columns and the
\* filter the spec asks for or is reported, whatever the spec, the catalogs and,
\* between passes, an administrator become, as long as no pass had to keep, or
\* was refused to replace, a table that has not the filter asked for
\* (_converge_tables, _member_matches).
THEOREM PublishedAsAsked ==
  "publicationMeanwhile" \notin Edits => (Spec /\ [][Unhindered]_vars => []FilterHonoured)
<1> SUFFICES ASSUME "publicationMeanwhile" \notin Edits
             PROVE  Spec /\ [][Unhindered]_vars => []FilterHonoured
  OBVIOUS
<1>1. Spec /\ [][Unhindered]_vars => [](FilterHonoured /\ WritesAccepted)
  BY AlwaysHonest
<1> QED  BY <1>1, PTL

\* Under the same proviso a good pass leaves no table published that makes the
\* source refuse its UPDATE and DELETE, but one reported in a shape it could not
\* be given (judge).
THEOREM WritesStayAccepted ==
  "publicationMeanwhile" \notin Edits => (Spec /\ [][Unhindered]_vars => []WritesAccepted)
<1> SUFFICES ASSUME "publicationMeanwhile" \notin Edits
             PROVE  Spec /\ [][Unhindered]_vars => []WritesAccepted
  OBVIOUS
<1>1. Spec /\ [][Unhindered]_vars => [](FilterHonoured /\ WritesAccepted)
  BY AlwaysHonest
<1> QED  BY <1>1, PTL

-----------------------------------------------------------------------------
\* Filters that never change

\* A table that every spec which selects it gives the same filter, or none, and
\* whose filter no administrator edits.
Selects(s, r) == r \in DOMAIN s.tables \/ (s.schema /\ r \notin s.excluded)
Steady(r, f) ==
  /\ f = NoFilter \/ "publication" \notin Edits
  /\ \A s \in Specs : Selects(s, r) => ShapeOf(s, r).filter = f
FiltersSteady == \A r \in Relation : \E f \in Filter \cup {NoFilter} : Steady(r, f)

\* A published table has that filter, and keeps it.
SteadyMembers ==
  /\ \A r \in pass.adds \cup pass.replaces : Selects(pass.spec, r)
  /\ \A r \in DOMAIN publication.members, f \in Filter :
       Steady(r, f) => publication.members[r].filter = f

\* Steps that leave members as they are, or take some out, and plan nothing new.
LEMMA SteadyKept ==
  ASSUME SteadyMembers,
         \/ pass'.adds = {} /\ pass'.replaces = {}
         \/ /\ pass'.spec = pass.spec
            /\ pass'.adds \subseteq pass.adds /\ pass'.replaces \subseteq pass.replaces,
         DOMAIN publication'.members \subseteq DOMAIN publication.members,
         \A r \in DOMAIN publication'.members :
           publication'.members[r] = publication.members[r]
  PROVE  SteadyMembers'
  BY DEF SteadyMembers, Steady

LEMMA SteadyTable ==
  ASSUME TypeOK, SteadyMembers, NEW r \in Relation,
         DropTable(r) \/ AddTable(r) \/ ReplaceTable(r)
  PROVE  SteadyMembers'
<1> DEFINE members == publication.members
           c == ShapeOf(pass.spec, r)
<1>1. CASE Fail /\ UNCHANGED publication
  BY <1>1, SteadyKept DEF Fail, End, PassOf
<1>2. CASE /\ r \in DOMAIN members /\ pass' = [pass EXCEPT !.drops = @ \ {r}]
           /\ publication' = [publication EXCEPT !.members = Without(members, {r})]
  <2>1. publication'.members = Without(members, {r}) /\ UNCHANGED <<pass.spec, pass.adds, pass.replaces>>
    BY <1>2 DEF TypeOK
  <2> QED  BY <2>1, SteadyKept DEF Without
<1>3. ASSUME r \in pass.adds \cup pass.replaces, NEW f \in Filter, Steady(r, f)
      PROVE  c.filter = f
  BY <1>3 DEF SteadyMembers, Steady, TypeOK
<1>4. CASE /\ r \in pass.adds \cup pass.replaces
           /\ pass' = [pass EXCEPT !.adds = @ \ {r}] \/ pass' = [pass EXCEPT !.replaces = @ \ {r}]
           /\ \/ publication' = [publication EXCEPT !.members = With(members, r, c)]
              \/ publication' = [publication EXCEPT !.members = [members EXCEPT ![r] = c]]
  <2>1. /\ pass'.spec = pass.spec /\ pass'.adds \subseteq pass.adds
        /\ pass'.replaces \subseteq pass.replaces
    BY <1>4 DEF TypeOK
  <2>2. publication'.members = With(members, r, c)
          \/ publication'.members = [members EXCEPT ![r] = c]
    BY <1>4 DEF TypeOK
  <2>3. ASSUME NEW q \in DOMAIN publication'.members
        PROVE  \/ q = r /\ publication'.members[q] = c
               \/ q \in DOMAIN members /\ publication'.members[q] = members[q]
    BY <2>2 DEF With
  <2> QED  BY <1>3, <1>4, <2>1, <2>3 DEF SteadyMembers, Steady
<1>5. CASE /\ UNCHANGED publication
           /\ \/ pass' = [pass EXCEPT !.adds = @ \ {r}]
              \/ pass' = [pass EXCEPT !.replaces = @ \ {r}, !.refused = @ \cup {r}]
  <2>1. /\ pass'.spec = pass.spec /\ pass'.adds \subseteq pass.adds
        /\ pass'.replaces \subseteq pass.replaces
    <3>1. CASE pass' = [pass EXCEPT !.adds = @ \ {r}]
      BY <3>1 DEF TypeOK
    <3>2. CASE pass' = [pass EXCEPT !.replaces = @ \ {r}, !.refused = @ \cup {r}]
      BY <3>2 DEF TypeOK
    <3> QED  BY <1>5, <3>1, <3>2
  <2> QED  BY <1>5, <2>1, SteadyKept
<1> QED  BY <1>1, <1>2, <1>4, <1>5, Zenon DEF DropTable, AddTable, ReplaceTable

LEMMA SteadyStep == TypeOK /\ SteadyMembers /\ [Next]_vars => SteadyMembers'
<1> SUFFICES ASSUME TypeOK, SteadyMembers, [Next]_vars PROVE SteadyMembers'
  OBVIOUS
<1>1. CASE StartPass \/ Subscribe \/ Refresh \/ Publish \/ Break
  <2>1. UNCHANGED publication
    BY <1>1 DEF StartPass, Subscribe, Refresh, Publish, Break
  <2>2. UNCHANGED pass \/ \E s : pass' = PassOf(s)
    BY <1>1 DEF StartPass, Subscribe, Refresh, Publish, Break, Fail, End
  <2> QED  BY <2>1, <2>2, SteadyKept DEF PassOf
<1>2. CASE SetOptions
  <2>1. UNCHANGED publication.members
    BY <1>2 DEF SetOptions, TypeOK
  <2>2. UNCHANGED pass \/ \E s : pass' = PassOf(s)
    BY <1>2 DEF SetOptions, Fail, End
  <2> QED  BY <2>1, <2>2, SteadyKept DEF PassOf
<1>3. CASE JudgeTables
  <2>1. /\ pass'.spec = pass.spec /\ publication' = publication
        /\ pass'.adds \cup pass'.replaces \subseteq DOMAIN Candidates(pass.spec, source)
    BY <1>3 DEF JudgeTables, TypeOK
  <2>2. \A r \in DOMAIN Candidates(pass.spec, source) : Selects(pass.spec, r)
    BY DEF Candidates, Selects
  <2> QED  BY <2>1, <2>2 DEF SteadyMembers, Steady
<1>4. CASE \E r \in Relation : DropTable(r) \/ AddTable(r) \/ ReplaceTable(r)
  BY <1>4, SteadyTable
<1>5. CASE ReadBack
  <2>1. UNCHANGED <<publication, pass.spec, pass.adds, pass.replaces>>
    BY <1>5 DEF ReadBack, TypeOK
  <2> QED  BY <2>1, SteadyKept
<1>6. CASE AlterSource
  <2>1. UNCHANGED pass
        /\ publication'.members = Without(publication.members,
                                          DOMAIN publication.members \ DOMAIN source')
    BY <1>6 DEF AlterSource, TypeOK
  <2> QED  BY <2>1, SteadyKept DEF Without
<1>7. CASE EditPublication
  <2>1. "publication" \in Edits /\ UNCHANGED pass
    BY <1>7 DEF EditPublication, Changes
  <2>2. \A r, f : f \in Filter => ~Steady(r, f)
    BY <2>1, FiltersReadColumns DEF Steady
  <2> QED  BY <2>1, <2>2 DEF SteadyMembers, Steady
<1>8. CASE AlterTarget \/ LoadOrEmpty \/ EditSpec \/ Claim \/ UNCHANGED vars
  <2>1. UNCHANGED <<publication, pass>>
    BY <1>8 DEF AlterTarget, LoadOrEmpty, EditSpec, Claim, others, vars
  <2> QED  BY <2>1, SteadyKept
<1> QED  BY <1>1, <1>2, <1>3, <1>4, <1>5, <1>6, <1>7, <1>8 DEF Next, Pass, Others

\* What is read back of such a table is what was asked for.
LEMMA SteadyHonest ==
  ASSUME FiltersSteady, TypeOK, SteadyMembers, Honest, [Next]_vars
  PROVE  Honest'
<1>1. CASE ReadBack
  <2> DEFINE members == publication.members
             filtered == {r \in DOMAIN members \cap DOMAIN pass.spec.tables :
                            pass.spec.tables[r].filter # NoFilter}
  <2>1. pass'.rowFilters = [r \in filtered |-> [asked |-> pass.spec.tables[r].filter,
                                                applied |-> members[r].filter]]
    BY <1>1 DEF ReadBack, TypeOK
  <2>2. ASSUME NEW r \in filtered PROVE pass.spec.tables[r].filter = members[r].filter
    <3>1. r \in Relation /\ pass.spec \in Specs
      BY DEF TypeOK, OnSome
    <3>2. PICK f \in Filter \cup {NoFilter} : Steady(r, f)
      BY <3>1 DEF FiltersSteady
    <3>3. pass.spec.tables[r].filter = f
      BY <3>1, <3>2 DEF Steady, Selects, ShapeOf
    <3> QED  BY <3>2, <3>3 DEF SteadyMembers
  <2>3. status' = status
    BY <1>1 DEF ReadBack
  <2> QED  BY <2>1, <2>2, <2>3 DEF Honest
<1>2. CASE ~ReadBack
  <2>1. MemoryKept
    BY <1>2, MemoryMostlyKept
  <2> QED  BY <2>1 DEF MemoryKept, Honest, Empty
<1> QED  BY <1>1, <1>2

\* A table whose row filter is the same in every spec that selects it, or that
\* has none, is published in the shape the spec asks for or reported, whatever
\* was kept, refused, changed or broken off before (_converge_tables).
THEOREM SteadyFiltersHonoured == FiltersSteady => (Spec => [](FilterHonoured /\ WritesAccepted))
<1> SUFFICES ASSUME FiltersSteady PROVE Spec => [](FilterHonoured /\ WritesAccepted)
  OBVIOUS
<1>1. Init => Honest /\ SteadyMembers
  BY DEF Init, Honest, SteadyMembers, PassOf, Empty
<1>2. TypeOK /\ Honest /\ SteadyMembers /\ [Next]_vars => Honest' /\ SteadyMembers'
  BY SteadyStep, SteadyHonest
<1>3. FilterTraced /\ Honest => FilterHonoured /\ WritesAccepted
  BY HonestPass
<1> QED  BY <1>1, <1>2, <1>3, TablesTypeCorrect, WrongFiltersTraced, PTL DEF Spec
=============================================================================
