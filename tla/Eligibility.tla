---------------------------- MODULE Eligibility ----------------------------
(***************************************************************************)
(* Which selected tables a publication may carry, and why the others may   *)
(* not (reconcile/eligibility.py), judged on the facts postgres/           *)
(* publication.py reads from the two catalogs; and, beside it, the rules   *)
(* of the servers that the judgement has to anticipate.                    *)
(*                                                                         *)
(* A catalog is a function whose domain is the relations that exist.  A    *)
(* column list is a set of columns, the empty set publishing them all.     *)
(* Types and the warning about them, names and wording are left out.       *)
(***************************************************************************)
CONSTANTS
  Relation,       \* qualified names of tables, leaf partitions included
  Column,         \* names of columns
  Filter,         \* row filters a spec may ask for, by their hash
  NoFilter,       \* no row filter
  FilterColumns   \* the columns each filter reads

ASSUME FiltersReadColumns ==
  /\ NoFilter \notin Filter
  /\ FilterColumns \in [Filter -> SUBSET Column]

PublishableKind == {"r", "p"}

\* pg_class, pg_index and pg_attribute of a relation, as far as they are read.
\* "other" stands for views and foreign tables; primary and index are the key
\* columns of the primary key and of the index of REPLICA IDENTITY USING INDEX.
Keyed ==
  [kind : PublishableKind \cup {"other"}, replident : {"d", "i", "f", "n"},
   primary : SUBSET Column, immediate : BOOLEAN, index : SUBSET Column,
   columns : SUBSET Column, generated : SUBSET Column]
SourceTable ==
  [key : Keyed, permanent : BOOLEAN, partition : BOOLEAN, usable : BOOLEAN,
   readable : BOOLEAN, secured : BOOLEAN, leaves : SUBSET Relation]
TargetTable == [key : Keyed, settable : BOOLEAN, required : SUBSET Column]

\* Only a partitioned table has leaves, and they are no partitioned tables.
LeavesAreLeaves(cat, r) ==
  /\ cat[r].leaves \subseteq DOMAIN cat
  /\ cat[r].key.kind # "p" => cat[r].leaves = {}
  /\ \A l \in cat[r].leaves : cat[l].key.kind # "p"

\* The spec's options the judgement depends on, and whether the source is new
\* enough to look for generated columns in a replica identity.
Options ==
  [keyed : BOOLEAN, viaRoot : BOOLEAN, copyData : BOOLEAN, generatedChecked : BOOLEAN]

\* A table the spec selects: whole, or with a column list and a filter.
Candidate == [columns : SUBSET Column, filter : Filter \cup {NoFilter}]
Whole == [columns |-> {}, filter |-> NoFilter]

Issue == [side : {"source", "target"}, reason : STRING]

-----------------------------------------------------------------------------
\* What the catalogs are read as

\* The columns a publication can carry.
Stored(key) == key.columns \ key.generated

\* The index of the replica identity: a DEFERRABLE primary key is none.
IdentityIndex(key) ==
  CASE key.replident = "d" -> IF key.immediate THEN key.primary ELSE {}
    [] key.replident = "i" -> key.index
    [] OTHER -> {}

HasIdentity(key) == key.replident = "f" \/ IdentityIndex(key) # {}
IdentityColumns(key) == IF key.replident = "f" THEN Stored(key) ELSE IdentityIndex(key)

\* The columns the apply worker matches rows by: an identity index, or the
\* primary key, which it falls back to also under FULL and NOTHING.
SubscriberIdentity(key) ==
  IF key.replident = "i" /\ key.index # {} THEN key.index
  ELSE IF key.immediate THEN key.primary ELSE {}

FilterReads(c) == IF c.filter = NoFilter THEN {} ELSE FilterColumns[c.filter]

-----------------------------------------------------------------------------
\* The candidates: the tables of a selected schema that a publication can carry
\* and that are not excluded, overlaid by the explicit entries.

Candidates(spec, cat) ==
  LET explicit == DOMAIN spec.tables
      found == {r \in DOMAIN cat \ (explicit \cup spec.excluded) :
                  /\ spec.schema
                  /\ ~cat[r].partition
                  /\ cat[r].key.kind \in PublishableKind
                  /\ cat[r].permanent}
  IN [r \in explicit \cup found |-> IF r \in explicit THEN spec.tables[r] ELSE Whole]

\* What the subscription applies into: the table, or each of its leaves.
TargetRelations(cat, viaRoot, r) ==
  IF cat[r].key.kind = "p" /\ ~viaRoot THEN cat[r].leaves ELSE {r}

-----------------------------------------------------------------------------
\* The judgement

When(condition, side, reason) ==
  IF condition THEN {[side |-> side, reason |-> reason]} ELSE {}

Publishable(t) == t.key.kind \in PublishableKind /\ t.permanent

\* What keyed changes on these keys would break at the source.
IdentityIssuesOf(c, key, generatedChecked) ==
  IF ~HasIdentity(key) THEN When(TRUE, "source", "NoReplicaIdentity")
  ELSE
    LET identity == IdentityColumns(key)
        full == key.replident = "f"
    IN When(~(FilterReads(c) \subseteq identity), "source", "RowFilterNotCoveredByIdentity")
       \cup When(generatedChecked /\ c.columns = {}
                   /\ (IF full THEN key.generated ELSE identity \cap key.generated) # {},
                 "source", "GeneratedColumnInIdentity")
       \cup When(c.columns # {} /\ (full \/ ~(identity \subseteq c.columns)),
                 "source", "ColumnListMissesIdentity")

\* The relations whose keys count: leaves that are never published do not.
IdentityMembers(cat, r) ==
  IF cat[r].key.kind = "p" THEN {l \in cat[r].leaves : Publishable(cat[l])} ELSE {r}

IdentityIssues(cat, r, c, generatedChecked) ==
  UNION {IdentityIssuesOf(c, cat[m].key, generatedChecked) : m \in IdentityMembers(cat, r)}

SourceIssues(cat, r, c, o) ==
  LET t == cat[r]
      parts == {r} \cup t.leaves
  IN When(\E l \in t.leaves : ~Publishable(cat[l]), "source", "NotPublishable")
     \cup When(~(c.columns \cup FilterReads(c) \subseteq Stored(t.key)),
               "source", "UnknownColumn")
     \cup When(t.key.kind = "p" /\ ~o.viaRoot /\ (c.columns # {} \/ c.filter # NoFilter),
               "source", "FilterIgnoredWithoutPartitionRoot")
     \cup (IF o.keyed THEN IdentityIssues(cat, r, c, o.generatedChecked) ELSE {})
     \cup When(~t.usable, "source", "SourceTableNotOwned")
     \cup When(\E p \in parts : ~cat[p].readable, "source", "SourceTableNotReadable")
     \cup When(\E p \in parts : cat[p].secured, "source", "RowSecurityEnabled")

\* The columns the publication sends of a table.
PublishedColumns(c, key) ==
  IF c.columns = {} THEN Stored(key) ELSE c.columns \cap Stored(key)

\* A defect: any key of the target's will do.
TargetIdentityAny(source, target) ==
  When(source.replident # "f" /\ HasIdentity(source) /\ SubscriberIdentity(target) = {},
       "target", "TargetNoReplicaIdentity")

\* Nothing is asked of a target whose publisher sends whole rows, or no keys.
TargetIdentityIssues(source, target) ==
  IF source.replident = "f" \/ ~HasIdentity(source) THEN {}
  ELSE IF SubscriberIdentity(target) = {}
       THEN When(TRUE, "target", "TargetNoReplicaIdentity")
       ELSE When(~(SubscriberIdentity(target) \subseteq IdentityColumns(source)),
                 "target", "TargetIdentityNotSent")

\* uncopied: relations of the target that hold rows and are not subscribed yet.
TargetIssuesOf(cat, targets, r, c, o, relation, uncopied) ==
  IF relation \notin DOMAIN targets THEN When(TRUE, "target", "TargetTableMissing")
  ELSE
    LET target == targets[relation]
        sent == PublishedColumns(c, cat[r].key)
    IN IF target.key.kind \notin PublishableKind
       THEN When(TRUE, "target", "TargetTableMissing")
       ELSE When(~(sent \subseteq Stored(target.key)), "target", "TargetColumnsMissing")
            \cup When(o.copyData /\ relation \in uncopied, "target", "TargetTableNotEmpty")
            \cup When(~target.settable, "target", "TargetOwnerNotSettable")
            \cup When(~(target.required \subseteq sent), "target", "TargetColumnRequired")
            \cup (IF o.keyed THEN TargetIdentityIssues(cat[relation].key, target.key) ELSE {})

TargetIssues(cat, targets, r, c, o, uncopied) ==
  UNION {TargetIssuesOf(cat, targets, r, c, o, relation, uncopied) :
           relation \in TargetRelations(cat, o.viaRoot, r)}

\* claimed: tables an older replication publishes into the same target.
Judge(cat, targets, r, c, o, uncopied, claimed) ==
  IF r \notin DOMAIN cat THEN When(TRUE, "source", "SourceTableMissing")
  ELSE IF cat[r].partition \/ ~Publishable(cat[r])
       THEN When(TRUE, "source", "NotPublishable")
       ELSE SourceIssues(cat, r, c, o)
            \cup TargetIssues(cat, targets, r, c, o, uncopied)
            \cup When(r \in claimed, "target", "TableTargetedTwice")

\* A defect: trouble at the source does not end the membership.
KeepsUnclaimed(issues) == \A i \in issues : i.reason # "TableTargetedTwice"

\* A published table stays published when all that is wrong is on the target.
KeepsMembership(issues) ==
  \A i \in issues : i.side = "target" /\ i.reason # "TableTargetedTwice"

-----------------------------------------------------------------------------
\* The servers' own rules, from PostgreSQL's documentation and source

\* A filter or column list of a partitioned table needs its root published.
NeedsRoot(cat, r, c) == cat[r].key.kind = "p" /\ c # Whole

\* ADD TABLE takes what the catalog allows.
AddAllowed(cat, viaRoot, r, c) ==
  /\ r \in DOMAIN cat
  /\ Publishable(cat[r]) /\ cat[r].usable
  /\ NeedsRoot(cat, r, c) => viaRoot
  /\ c.columns \cup FilterReads(c) \subseteq Stored(cat[r].key)

\* CheckCmdReplicaIdentity: an UPDATE or DELETE of a relation published like
\* this is an error at the source.
KeyedWriteRefused(key, c, generatedChecked) ==
  LET full == key.replident = "f"
      index == IdentityIndex(key)
  IN \/ ~full /\ index = {}
     \/ ~full /\ ~(FilterReads(c) \subseteq index)
     \/ c.columns # {} /\ (full \/ ~(index \subseteq c.columns))
     \/ /\ generatedChecked /\ c.columns = {}
        /\ (IF full THEN key.generated ELSE index \cap key.generated) # {}

\* The filter and columns that count for a leaf are those of its published
\* root only when changes are published through the root.
MemberShape(cat, viaRoot, r, c) == IF cat[r].key.kind = "p" /\ ~viaRoot THEN Whole ELSE c

\* Changes of this published table would be refused on the source.
WritesRefused(cat, r, c, o) ==
  /\ o.keyed
  /\ \E m \in IdentityMembers(cat, r) :
       KeyedWriteRefused(cat[m].key, MemberShape(cat, o.viaRoot, r, c), o.generatedChecked)

\* The apply worker stops at a change of this published table.
ApplyStops(cat, targets, r, c, o) ==
  \E relation \in TargetRelations(cat, o.viaRoot, r) :
    \/ relation \notin DOMAIN targets
    \/ LET target == targets[relation]
           key == cat[relation].key
           sent == PublishedColumns(c, cat[r].key)
       IN \/ target.key.kind \notin PublishableKind
          \/ ~target.settable
          \/ ~(sent \subseteq Stored(target.key))
          \/ ~(target.required \subseteq sent)
          \/ /\ o.keyed /\ key.replident # "f"
             /\ \/ SubscriberIdentity(target.key) = {}
                \/ ~(SubscriberIdentity(target.key) \subseteq IdentityIndex(key))
=============================================================================
