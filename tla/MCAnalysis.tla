----------------------------- MODULE MCAnalysis -----------------------------
(* Analysis for TLC.                                                       *)
(*                                                                         *)
(* A batch produces an optional set for SET STATISTICS XML ON, the query's *)
(* own set, the plan unless it was not captured, and an optional set for   *)
(* SET STATISTICS XML OFF.  Catalogs hold up to MaxViews views.            *)
(*                                                                         *)
(* Documents are of two families: every shape of up to MaxElements         *)
(* elements with attributes that follow from the shape, and one join of    *)
(* two inputs with every combination of the attributes in InputAttributes. *)
EXTENDS Analysis

CONSTANTS MaxViews, MaxElements

MCSeekNames == {"Index Seek", "Clustered Index Seek", "Remote Index Seek"}

MCScanNames == {"Table Scan", "Index Scan", "Clustered Index Scan", "Columnstore Index Scan",
                "Constant Scan", "Remote Scan", "Remote Index Scan"}

NoColumns == {<<>>, <<"no_columns">>}

MCResultSets ==
  {before \o <<own>> \o answered \o after :
     before \in NoColumns, own \in {"empty", "data", "lookalike"},
     answered \in {<<>>, <<"plan">>}, after \in NoColumns}

MCCatalogs == BoundedSeq(TextKinds, MaxViews)

(* A shape is a sequence of [tag, parent].                                 *)
Root == <<[tag |-> "RelOp", parent |-> 0]>>

MayHold(tag) ==
  CASE tag = "RelOp" -> {"RelOp", "MemoryFractions", "RunTimePartitionSummary", "Detail"}
    [] tag \in {"Detail", "Part"} -> {"Part", "RelOp", "Object", "ScalarOperator"}
    [] OTHER -> {}

(* The elements the next one may be a child of: the last and its ancestors.*)
Open(shape) ==
  LET up[e \in 0 .. Len(shape)] ==
        IF e = 0 THEN {} ELSE {e} \cup up[shape[e].parent]
  IN up[Len(shape)]

(* An operator has at most one of each, its detail last.                   *)
Fits(shape, tag, parent) ==
  \A c \in DOMAIN shape : shape[c].parent = parent =>
    /\ tag = "Detail" => shape[c].tag # "Detail"
    /\ tag = "MemoryFractions" => shape[c].tag = "RelOp"
    /\ tag = "RunTimePartitionSummary" => shape[c].tag \in {"RelOp", "MemoryFractions"}

Grown(shape) ==
  UNION {{Append(shape, [tag |-> t, parent |-> p]) :
            t \in {u \in MayHold(shape[p].tag) : Fits(shape, u, p)}} : p \in Open(shape)}

Shapes ==
  LET upTo[n \in 1 .. MaxElements] ==
        IF n = 1 THEN {Root}
        ELSE upTo[n - 1] \cup UNION {Grown(s) : s \in upTo[n - 1]}
  IN upTo[MaxElements]

HasInput(shape, e) ==
  \E c \in DOMAIN shape :
    c # e /\ shape[c].tag = "RelOp" /\ e \in Open(SubSeq(shape, 1, c))

(* Memory is granted to operators that consume an input; tables, and their *)
(* partitions, are read by operators that do not.                          *)
Plausible(shape) ==
  \A c \in DOMAIN shape :
    /\ shape[c].tag = "MemoryFractions" => HasInput(shape, shape[c].parent)
    /\ shape[c].tag = "RunTimePartitionSummary" => ~HasInput(shape, shape[c].parent)

(* Operators without inputs scan; these and the others by their place;     *)
(* warnings of every kind; ids are all given or all left to the counter.   *)
Scanning == <<"Columnstore Index Scan", "Clustered Index Scan", "Table Scan", "Remote Scan",
              "Constant Scan">>
Joining == <<"Merge Join", "Hash Match", "Sort", "Hash Match">>
Joined == <<"Inner Join", "Aggregate", "Sort", "Left Outer Join">>
Warned == <<"NoJoinPredicate", "SpillToTempDb", "PlanAffectingConvert", "SpillToTempDb",
            "UnmatchedIndexes">>

ShapeAttributes(shape, e, numbered) ==
  [node_id   |-> IF numbered THEN e ELSE None,
   physical  |-> IF HasInput(shape, e) THEN Joining[e] ELSE Scanning[e],
   logical   |-> IF HasInput(shape, e) THEN Joined[e] ELSE Scanning[e],
   lookup    |-> FALSE,
   estimated |-> 20000, rows |-> <<>>, elapsed |-> <<>>, cost |-> e,
   parallel  |-> FALSE,
   warnings  |-> <<Warned[e]>>]

ShapeDocuments ==
  {[tag |-> [e \in DOMAIN s |->
       IF s[e].tag = "Detail" /\ s[e].parent = 3 /\ HasInput(s, 3) THEN "Sort" ELSE s[e].tag],
    parent |-> [e \in DOMAIN s |-> s[e].parent],
    attr |-> [e \in DOMAIN s |-> ShapeAttributes(s, e, numbered)],
    statement |-> "SELECT", total |-> 10, granted |-> 1024, missing |-> <<>>] :
     s \in {t \in Shapes : Plausible(t)}, numbered \in BOOLEAN}

(* A join whose detail holds its inputs, each with an object.              *)
JoinTags == <<"RelOp", "Detail", "RelOp", "Detail", "Object", "RelOp", "Detail", "Object">>
JoinParents == <<0, 1, 2, 3, 4, 2, 6, 7>>

Input(physical, lookup, estimated, rows, cost, elapsed, warnings) ==
  [node_id |-> None, physical |-> physical, logical |-> physical, lookup |-> lookup,
   estimated |-> estimated, rows |-> rows, elapsed |-> elapsed, cost |-> cost, parallel |-> FALSE,
   warnings |-> warnings]

(* Rows around both thresholds, on no, one or two threads; costs and       *)
(* durations that tie or are missing.                                      *)
InputAttributes ==
  {Input("Table Scan", FALSE, estimated, rows, 3, <<>>, <<>>) :
     estimated \in {None, 0, 9999, 100000},
     rows \in {<<>>, <<None>>, <<5000, 5000>>, <<9999, None>>, <<100000>>}}
  \cup {Input(physical, TRUE, 1, <<1>>, cost, elapsed, warnings) :
          physical \in {"Index Seek", "RID Lookup"}, cost \in {None, 3, 4},
          elapsed \in {<<>>, <<2, 7>>, <<None, 5>>},
          warnings \in {<<>>, <<"SpillToTempDb", "ColumnsWithNoStatistics">>}}

SomeInputs ==
  {Input("Remote Index Scan", FALSE, 100000, <<100000>>, 3, <<>>, <<>>),
   Input("Table Scan", FALSE, None, <<>>, None, <<>>, <<"MemoryGrantWarning">>),
   Input("Remote Index Seek", FALSE, 1, <<20000>>, 3, <<>>, <<>>),
   Input("RID Lookup", TRUE, 1, <<10>>, 4, <<7>>, <<"SpillToTempDb">>)}

Group(usage, columns) == [usage |-> usage, columns |-> columns]

(* Groups of one index and of two; the last has no key columns.            *)
MissingGroups ==
  <<[impact |-> 50,
     indexes |-> << <<Group("EQUALITY", <<"a">>), Group("INCLUDE", <<"c", "d">>)>>,
                    <<Group("INEQUALITY", <<"b">>)>> >>],
    [impact |-> 80,
     indexes |-> << <<Group("EQUALITY", <<"b">>), Group("INEQUALITY", <<"a", "c">>)>> >>],
    [impact |-> None,
     indexes |-> << <<Group("EQUALITY", <<"d">>)>>, <<Group("INCLUDE", <<"e">>)>> >>]>>

(* With everything a plan may have, or with nothing but the operators.     *)
JoinDocument(root, left, right, rich) ==
  [tag |-> JoinTags, parent |-> JoinParents,
   attr |-> [e \in DOMAIN JoinTags |->
      IF e = 3 THEN left ELSE IF e = 6 THEN right ELSE [root EXCEPT !.parallel = rich]],
   statement |-> IF rich THEN "SELECT" ELSE "SELECT WITHOUT QUERY",
   total     |-> IF rich THEN 10 ELSE 0,
   granted   |-> IF rich THEN 1024 ELSE None,
   missing   |-> IF rich THEN MissingGroups ELSE <<>>]

Loops == Input("Nested Loops", FALSE, 10, <<1>>, 4, <<5>>, <<>>)

JoinDocuments ==
  {JoinDocument(Loops, left, right, rich) :
     left \in InputAttributes, right \in SomeInputs, rich \in BOOLEAN}
  \cup {JoinDocument([Loops EXCEPT !.physical = "Hash Match", !.logical = o],
                     input, input, TRUE) :
          o \in DOMAIN HashMatchLogicalOpMap \cup {"Union"}, input \in SomeInputs}

AllDocuments == ShapeDocuments \cup JoinDocuments

MCDocuments == AllDocuments

(* Ids in the order Python's strings have.                                 *)
Numerals == <<0, 1, 10, 100, 101, 11, 12, 2, 20, 9, 99>>

ASSUME IdsAreStrings ==
  \A k, m \in DOMAIN Numerals : IdBefore(Numerals[k], Numerals[m]) <=> k < m

=============================================================================
