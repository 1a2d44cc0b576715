------------------------------- MODULE PlanTree -----------------------------
(***************************************************************************)
(* parse_plan_xml (adapters/sqlserver/plan_xml_to_ir.py): from the XML of  *)
(* one showplan to the operators of the neutral plan (ir/models.py).       *)
(*                                                                         *)
(* A document is the XML below the root RelOp, its elements numbered in    *)
(* document order, the root being 1:                                       *)
(*   tag, parent   sequences over the elements; parent[1] = 0              *)
(*   attr[e]       the attributes of RelOp e and of the elements that only *)
(*                 describe it (runtime counters, warnings)                *)
(*   statement     StatementType                                           *)
(*   total         StatementSubTreeCost                                    *)
(*   granted       GrantedMemory                                           *)
(*   missing       the MissingIndexGroups: their impact and, of each index,*)
(*                 the ColumnGroups                                        *)
(* An Object or ScalarOperator is told apart by its number.                *)
(***************************************************************************)
EXTENDS Integers, SequencesExt

CONSTANTS
  None,        \* an attribute or element that is absent
  SeekNames,   \* the names of operators with "Seek" in them
  ScanNames    \* the names of operators with "Scan" in them

ASSUME NamesSayWhatTheyDo ==
  /\ {"Index Seek", "Clustered Index Seek"} \subseteq SeekNames \ ScanNames
  /\ {"Table Scan", "Index Scan", "Clustered Index Scan"} \subseteq ScanNames \ SeekNames

(* "Detail" stands for the element named for the operator (IndexScan,      *)
(* NestedLoops, ..., but Sort), "Part" for any plain element inside it.    *)
(* MemoryFractions and, over a partitioned table, RunTimePartitionSummary  *)
(* come before it.                                                         *)
Tags == {"RelOp", "MemoryFractions", "RunTimePartitionSummary", "Detail", "Sort", "Part",
         "Object", "ScalarOperator"}

StatementTypes == {"SELECT", "INSERT", "UPDATE", "DELETE", "MERGE", "OTHER"}

OperatorTypes ==
  {"table_scan", "index_seek", "index_scan", "bookmark_lookup", "join_nested_loop",
   "join_hash", "join_merge", "sort", "aggregate", "other"}

JoinTypes == {"nested_loop", "hash", "merge"}

AccessTypes == {"seek", "scan", "bookmark_lookup", "full_scan"}

ASSUME NoneIsNoValue == None \notin Int /\ None \notin AccessTypes

WarningTypes ==
  {"implicit_conversion", "tempdb_spill", "no_join_predicate", "column_with_no_stats",
   "memory_grant_excessive", "cardinality_skew", "other"}

(* Lookup tables are functions with a default.                             *)
Get(table, key, default) == IF key \in DOMAIN table THEN table[key] ELSE default

PhysicalOpMap ==
  [p \in {"Table Scan", "Nested Loops", "Index Seek", "Clustered Index Seek", "Index Scan",
          "Clustered Index Scan", "Merge Join", "Sort", "Stream Aggregate"} |->
     CASE p = "Table Scan" -> "table_scan"
       [] p \in {"Index Seek", "Clustered Index Seek"} -> "index_seek"
       [] p \in {"Index Scan", "Clustered Index Scan"} -> "index_scan"
       [] p = "Nested Loops" -> "join_nested_loop"
       [] p = "Merge Join" -> "join_merge"
       [] p = "Sort" -> "sort"
       [] p = "Stream Aggregate" -> "aggregate"]

LookupCapablePhysicalOps == {"Clustered Index Seek", "Index Seek", "RID Lookup"}

HashJoinLogicalOps ==
  {"Inner Join", "Left Outer Join", "Right Outer Join", "Full Outer Join",
   "Left Semi Join", "Left Anti Semi Join"}

(* A table of its own in the code, which names the joins once more.        *)
HashMatchLogicalOpMap ==
  [o \in {"Inner Join", "Left Outer Join", "Right Outer Join", "Full Outer Join",
          "Left Semi Join", "Left Anti Semi Join",
          "Aggregate", "Partial Aggregate", "Distinct"} |->
     IF o \in {"Aggregate", "Partial Aggregate", "Distinct"} THEN "aggregate" ELSE "join_hash"]

WarningTagMap ==
  [SpillToTempDb           |-> "tempdb_spill",
   NoJoinPredicate         |-> "no_join_predicate",
   ColumnsWithNoStatistics |-> "column_with_no_stats",
   PlanAffectingConvert    |-> "implicit_conversion",
   MemoryGrantWarning      |-> "memory_grant_excessive"]

(* A comprehension with a condition: the elements of s at the indexes in I.*)
Kept(s, I) ==
  LET upTo[n \in 0 .. Len(s)] ==
        IF n = 0 THEN <<>>
        ELSE IF n \in I THEN Append(upTo[n - 1], s[n]) ELSE upTo[n - 1]
  IN upTo[Len(s)]

Elements(doc) == DOMAIN doc.tag

RelOps(doc) == {e \in Elements(doc) : doc.tag[e] = "RelOp"}

InOrder(doc, S) == Kept([e \in Elements(doc) |-> e], S)

Children(doc, e) == InOrder(doc, {c \in Elements(doc) : doc.parent[c] = e})

(* What lxml's ".//" searches: everything strictly inside the element.     *)
Inside(doc, e) ==
  LET ancestors[c \in Elements(doc)] ==
        IF doc.parent[c] = 0 THEN {}
        ELSE {doc.parent[c]} \cup ancestors[doc.parent[c]]
  IN {c \in Elements(doc) : e \in ancestors[c]}

ColumnGroups == [usage : {"EQUALITY", "INEQUALITY", "INCLUDE"}, columns : Seq(STRING)]

Counts == Nat \cup {None}

(* Durations per thread, as the rows; costs and rows in whole units.       *)
OperatorAttributes ==
  [node_id : Counts, physical : STRING, logical : STRING, lookup : BOOLEAN,
   estimated : Counts, rows : Seq(Counts), elapsed : Seq(Counts), cost : Counts,
   parallel : BOOLEAN, warnings : Seq(STRING)]

(* An index SQL Server asks for names every usage once.                    *)
IsIndexAdvice(index) ==
  /\ index \in Seq(ColumnGroups)
  /\ \A g, h \in DOMAIN index : index[g].usage = index[h].usage => g = h

(* What SQL Server writes: a tree in document order below a root operator, *)
(* where what stands between an element and one of its children is inside  *)
(* the element; Lookup="1" on no scan; NodeIds that differ, or that the    *)
(* plan was stripped of.                                                   *)
IsShowplan(doc) ==
  /\ doc.tag \in Seq(Tags) /\ doc.tag # <<>> /\ doc.tag[1] = "RelOp"
  /\ doc.parent \in [Elements(doc) -> Nat] /\ doc.parent[1] = 0
  /\ \A c \in Elements(doc) \ {1} : doc.parent[c] \in 1 .. c - 1
  /\ \A c, d \in Elements(doc) :
       doc.parent[d] < c /\ c < d => doc.parent[d] <= doc.parent[c]
  /\ \A e \in RelOps(doc) : doc.attr[e] \in OperatorAttributes
  /\ \A e \in RelOps(doc) : doc.attr[e].lookup => doc.attr[e].physical \notin ScanNames
  /\ \/ \A e \in RelOps(doc) : doc.attr[e].node_id = None
     \/ \A d, e \in RelOps(doc) :
          doc.attr[d].node_id # None /\ (doc.attr[d].node_id = doc.attr[e].node_id => d = e)
  /\ doc.missing \in Seq([impact : {None} \cup Int, indexes : Seq(Seq(ColumnGroups))])
  /\ \A g \in DOMAIN doc.missing :
       \A index \in ToSet(doc.missing[g].indexes) : IsIndexAdvice(index)

First(S) == IF S = {} THEN None ELSE Min(S)

-----------------------------------------------------------------------------

(* Mutant: a nested operator is looked for among the direct children only. *)
DirectChildrenOnly(doc) ==
  [e \in Elements(doc) |->
     SelectSeq(Children(doc, e), LAMBDA c : doc.tag[c] = "RelOp")]

(* _direct_child_rel_ops: the nearest RelOps below each element.           *)
DirectChildRelOps(doc) ==
  LET below[e \in Elements(doc)] ==
        FlattenSeq([i \in DOMAIN Children(doc, e) |->
          LET c == Children(doc, e)[i]
          IN IF doc.tag[c] = "RelOp" THEN <<c>> ELSE below[c]])
  IN below

(* _walk: an operator before its children, in their order.                 *)
Walk(doc) ==
  LET kids == DirectChildRelOps(doc)
      from[e \in Elements(doc)] ==
        <<e>> \o FlattenSeq([i \in DOMAIN kids[e] |-> from[kids[e][i]]])
  IN from[1]

(* NodeId, or else the next number of the counter, which starts at 1 and   *)
(* is drawn before an operator's children are built.                       *)
OperatorId(doc, walk, i) ==
  IF doc.attr[walk[i]].node_id # None THEN doc.attr[walk[i]].node_id
  ELSE Cardinality({j \in 1 .. i : doc.attr[walk[j]].node_id = None})

(* _find_detail_wrapper: the first child that is no output list, runtime   *)
(* information, warnings or operator.                                      *)
DetailWrapper(doc, e) ==
  First({c \in Elements(doc) : doc.parent[c] = e /\ doc.tag[c] # "RelOp"})

InsideWrapper(doc, e) ==
  IF DetailWrapper(doc, e) = None THEN {} ELSE Inside(doc, DetailWrapper(doc, e))

(* _extract_object_ref and _extract_predicates.                            *)
ObjectOf(doc, e) == First({c \in InsideWrapper(doc, e) : doc.tag[c] = "Object"})

PredicatesOf(doc, e) == {c \in InsideWrapper(doc, e) : doc.tag[c] = "ScalarOperator"}

(* Lookup="1" is written on the detail element.                            *)
IsLookup(doc, e) ==
  /\ DetailWrapper(doc, e) # None
  /\ doc.tag[DetailWrapper(doc, e)] = "Detail"
  /\ doc.attr[e].lookup

SortPresent(doc, e) ==
  DetailWrapper(doc, e) # None /\ doc.tag[DetailWrapper(doc, e)] = "Sort"

OperatorType(physical, logical, lookup) ==
  IF lookup /\ physical \in LookupCapablePhysicalOps THEN "bookmark_lookup"
  ELSE IF physical = "Hash Match" THEN Get(HashMatchLogicalOpMap, logical, "other")
  ELSE Get(PhysicalOpMap, physical, "other")

(* "Seek" is looked for in the operator's name, then "Scan".               *)
AccessType(physical, lookup) ==
  IF lookup THEN "bookmark_lookup"
  ELSE IF physical \in SeekNames THEN "seek"
  ELSE IF physical = "Table Scan" THEN "full_scan"
  ELSE IF physical \in ScanNames THEN "scan"
  ELSE None

(* Mutant: every hash match is called a join.                              *)
JoinTypeOfHashMatch(physical, logical) ==
  IF physical = "Nested Loops" THEN "nested_loop"
  ELSE IF physical = "Merge Join" THEN "merge"
  ELSE IF physical = "Hash Match" THEN "hash"
  ELSE None

JoinType(physical, logical) ==
  IF physical = "Nested Loops" THEN "nested_loop"
  ELSE IF physical = "Merge Join" THEN "merge"
  ELSE IF physical = "Hash Match" /\ logical \in HashJoinLogicalOps THEN "hash"
  ELSE None

(* One value per thread; threads that do not report one are passed over.   *)
Reported(perThread) ==
  Kept(perThread, {t \in DOMAIN perThread : perThread[t] # None})

(* Mutant: a thread that does not report its rows hides the others'.       *)
SumActualRowsOfAll(perThread) ==
  IF Reported(perThread) # perThread \/ perThread = <<>> THEN None
  ELSE FoldSeq(+, 0, perThread)

SumActualRows(perThread) ==
  IF Reported(perThread) = <<>> THEN None ELSE FoldSeq(+, 0, Reported(perThread))

MaxDuration(perThread) ==
  IF Reported(perThread) = <<>> THEN None ELSE Max(ToSet(Reported(perThread)))

(* A share of the same total: costs compare as their shares do.            *)
CostShare(doc, e) ==
  IF doc.total = None \/ doc.total = 0 THEN None ELSE doc.attr[e].cost

(* row_estimate_ratio exists only for a known, nonzero estimate and a      *)
(* known actual count.                                                     *)
HasRatio(op) == op.estimated # None /\ op.actual # None /\ op.estimated # 0

-----------------------------------------------------------------------------

(* memory_grant_kb is the root's alone: showplan gives it once per plan.   *)
BuildOperator(doc, walk, i) ==
  LET e == walk[i]
      a == doc.attr[e]
  IN [element    |-> e,
      id         |-> OperatorId(doc, walk, i),
      type       |-> OperatorType(a.physical, a.logical, IsLookup(doc, e)),
      access     |-> AccessType(a.physical, IsLookup(doc, e)),
      join       |-> JoinType(a.physical, a.logical),
      object     |-> ObjectOf(doc, e),
      predicates |-> PredicatesOf(doc, e),
      estimated  |-> a.estimated,
      actual     |-> SumActualRows(a.rows),
      duration   |-> MaxDuration(a.elapsed),
      cost       |-> CostShare(doc, e),
      sort       |-> SortPresent(doc, e),
      parallel   |-> a.parallel,
      memory     |-> IF i = 1 THEN doc.granted ELSE None,
      spill      |-> Contains(a.warnings, "SpillToTempDb")]

(* Mutant: every warning is reported for the root.                         *)
WarningsAtRoot(doc, walk) ==
  FlattenSeq([i \in DOMAIN walk |->
    [k \in DOMAIN doc.attr[walk[i]].warnings |->
       [type |-> Get(WarningTagMap, doc.attr[walk[i]].warnings[k], "other"),
        operator |-> OperatorId(doc, walk, 1)]]])

(* warnings_out, in the order the operators are built.                     *)
WarningsOut(doc, walk) ==
  FlattenSeq([i \in DOMAIN walk |->
    [k \in DOMAIN doc.attr[walk[i]].warnings |->
       [type |-> Get(WarningTagMap, doc.attr[walk[i]].warnings[k], "other"),
        operator |-> OperatorId(doc, walk, i)]]])

(* Of two ColumnGroups with the same usage the later one counts.           *)
ColumnsOf(index, usage) ==
  LET groups == {g \in DOMAIN index : index[g].usage = usage}
  IN IF groups = {} THEN <<>> ELSE index[Max(groups)].columns

(* _extract_missing_indexes: the impact is the group's.                    *)
MissingIndexes(doc) ==
  FlattenSeq([g \in DOMAIN doc.missing |->
    [k \in DOMAIN doc.missing[g].indexes |->
       [impact     |-> doc.missing[g].impact,
        equality   |-> ColumnsOf(doc.missing[g].indexes[k], "EQUALITY"),
        inequality |-> ColumnsOf(doc.missing[g].indexes[k], "INEQUALITY"),
        include    |-> ColumnsOf(doc.missing[g].indexes[k], "INCLUDE")]]])

(* The statement's totals are those of its root operator, walk[1].         *)
StatementOf(doc) ==
  [type     |-> IF doc.statement \in StatementTypes THEN doc.statement ELSE "OTHER",
   cost     |-> doc.total,
   duration |-> MaxDuration(doc.attr[1].elapsed),
   rows     |-> SumActualRows(doc.attr[1].rows)]

(* The IRPlan; its operator tree is kept in the order _walk yields it,     *)
(* which is the only one its readers use.                                  *)
ParsePlan(doc) ==
  LET walk == Walk(doc)
  IN [statement |-> StatementOf(doc),
      operators |-> [i \in DOMAIN walk |-> BuildOperator(doc, walk, i)],
      warnings  |-> WarningsOut(doc, walk),
      missing   |-> MissingIndexes(doc)]

=============================================================================
