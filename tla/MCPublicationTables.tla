------------------------ MODULE MCPublicationTables ------------------------
(***************************************************************************)
(* Instances for TLC: two tables, t and u, the second of which may be gone *)
(* or replaced by a partitioned table p with its leaf l; columns k, the    *)
(* usual key, and a.                                                       *)
(***************************************************************************)
EXTENDS PublicationTables, TLC

MCRelation == {"t", "u", "p", "l"}
MCColumn == {"k", "a"}
MCFilter == {"onK", "onA"}
MCFilterColumns == ("onK" :> {"k"}) @@ ("onA" :> {"a"})

Key(replident, primary) ==
  [kind |-> "r", replident |-> replident, primary |-> primary, immediate |-> TRUE,
   index |-> {"k", "a"}, columns |-> MCColumn, generated |-> {}]

Plain(key) ==
  [key |-> key, permanent |-> TRUE, partition |-> FALSE, usable |-> TRUE, readable |-> TRUE,
   secured |-> FALSE, leaves |-> {}]
Onto(key) == [key |-> key, settable |-> TRUE, required |-> {}]

OnK == Key("d", {"k"})

\* Sources: keyed by k, which the filter onA does not keep to, or by an index on
\* both columns.
SourceShapes == {Plain(OnK), Plain(Key("i", {"k"}))}

\* Targets: keyed by k, by more than is sent, with a column the source does not
\* send.
TargetShapes ==
  {Onto(OnK), Onto(Key("d", {"k", "a"})), [Onto(OnK) EXCEPT !.required = {"a"}]}

\* A partitioned table and its leaf; the target has both as plain tables.
Partitioned ==
  "p" :> [Plain([OnK EXCEPT !.kind = "p"]) EXCEPT !.leaves = {"l"}]
    @@ "l" :> [Plain(OnK) EXCEPT !.partition = TRUE]

Standing == {("t" :> x @@ "u" :> Plain(OnK)) : x \in SourceShapes}
Sources ==
  Standing \cup {"u" :> Plain(OnK), "t" :> Plain(OnK) @@ Partitioned}
Targets ==
  {"t" :> Onto(OnK)} \cup {("t" :> Onto(OnK) @@ "u" :> x) : x \in TargetShapes}
    \cup {"t" :> Onto(OnK) @@ "l" :> Onto(OnK) @@ "p" :> Onto(OnK)}

Healthy == {"t" :> Plain(Key("i", {"k"})) @@ "u" :> Plain(OnK)}
Awaiting == {"t" :> Onto(OnK) @@ "u" :> Onto(OnK)}

Asking(tables) ==
  [schema |-> TRUE, excluded |-> {}, tables |-> tables, keyed |-> TRUE, viaRoot |-> FALSE,
   copyData |-> TRUE, enabled |-> TRUE]
Filtered(f) == Asking("t" :> [columns |-> MCColumn, filter |-> f])

\* A filter; another one, while disabled; the table left out, and partitions
\* published through their root.
MCSpecs ==
  {Filtered("onA"), [Filtered("onK") EXCEPT !.enabled = FALSE],
   [Asking(Empty) EXCEPT !.excluded = {"t"}, !.viaRoot = TRUE]}
=============================================================================
