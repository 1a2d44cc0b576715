-------------------------------- MODULE Tier0 -------------------------------
(***************************************************************************)
(* evaluate (rules/engine.py) and summarize_plan                           *)
(* (narration/plan_summary.py): what is found in a plan, in which order,   *)
(* and which operators the model is told about.                            *)
(***************************************************************************)
EXTENDS PlanTree

CONSTANT MaxNotable   \* max_notable_operators of summarize_plan

ASSUME NotableIsNat == MaxNotable \in Nat

LargeScanWarningRows == 10000
LargeScanCriticalRows == 100000
SkewFactor == 10
ImpactCritical == 80
ImpactWarning == 50

Severities == <<"critical", "warning", "info">>

Finding(rule, severity, operator, object, fix) ==
  [rule |-> rule, severity |-> severity, operator |-> operator, object |-> object,
   suggested_fix |-> fix]

-----------------------------------------------------------------------------

PromotedSeverity(type) ==
  IF type \in {"tempdb_spill", "no_join_predicate"} THEN "critical"
  ELSE IF type = "other" THEN "info"
  ELSE "warning"

(* rule_id of a warning the engine itself gave.                            *)
WarningRule(type) ==
  CASE type = "implicit_conversion"    -> "adapter_warning.implicit_conversion"
    [] type = "tempdb_spill"           -> "adapter_warning.tempdb_spill"
    [] type = "no_join_predicate"      -> "adapter_warning.no_join_predicate"
    [] type = "column_with_no_stats"   -> "adapter_warning.column_with_no_stats"
    [] type = "memory_grant_excessive" -> "adapter_warning.memory_grant_excessive"
    [] type = "cardinality_skew"       -> "adapter_warning.cardinality_skew"
    [] type = "other"                  -> "adapter_warning.other"

PromoteAdapterWarnings(plan) ==
  [k \in DOMAIN plan.warnings |->
     Finding(WarningRule(plan.warnings[k].type), PromotedSeverity(plan.warnings[k].type),
             plan.warnings[k].operator, None, None)]

RowsRead(op) == IF op.actual # None THEN op.actual ELSE op.estimated

IsLargeScan(op) ==
  /\ op.access \in {"scan", "full_scan"}
  /\ RowsRead(op) # None
  /\ RowsRead(op) >= LargeScanWarningRows

CheckLargeScans(plan) ==
  LET ops == plan.operators
      large == Kept(ops, {i \in DOMAIN ops : IsLargeScan(ops[i])})
  IN [k \in DOMAIN large |->
        Finding("large_table_scan",
                IF RowsRead(large[k]) >= LargeScanCriticalRows
                THEN "critical" ELSE "warning",
                large[k].id, large[k].object, None)]

(* The ratio of actual to estimated rows is at least 10 or at most 0.1.    *)
Skewed(op) ==
  /\ HasRatio(op)
  /\ \/ op.actual >= SkewFactor * op.estimated
     \/ SkewFactor * op.actual <= op.estimated

CheckCardinalitySkew(plan) ==
  LET ops == plan.operators
      skewed == Kept(ops, {i \in DOMAIN ops : Skewed(ops[i])})
  IN [k \in DOMAIN skewed |->
        Finding("cardinality_skew", "warning", skewed[k].id, None, None)]

CheckBookmarkLookups(plan) ==
  LET ops == plan.operators
      lookups == Kept(ops, {i \in DOMAIN ops : ops[i].type = "bookmark_lookup"})
  IN [k \in DOMAIN lookups |->
        Finding("non_covering_key_lookup", "warning", lookups[k].id,
                lookups[k].object, None)]

ImpactSeverity(impact) ==
  IF impact = None THEN "info"
  ELSE IF impact >= ImpactCritical THEN "critical"
  ELSE IF impact >= ImpactWarning THEN "warning"
  ELSE "info"

(* Mutant: an index without equality columns gets no key.                  *)
ScriptOfEquality(mi) ==
  [key |-> IF mi.equality = <<>> THEN <<>> ELSE mi.equality \o mi.inequality,
   include |-> mi.include]

(* CREATE NONCLUSTERED INDEX on the equality columns, then the others; for *)
(* an empty key the text says "<no key columns reported>".                 *)
MissingIndexScript(mi) ==
  [key |-> mi.equality \o mi.inequality, include |-> mi.include]

(* The only rule that derives a fix of its own.                            *)
CheckMissingIndexes(plan) ==
  [k \in DOMAIN plan.missing |->
     Finding("missing_index_available", ImpactSeverity(plan.missing[k].impact), None, None,
             MissingIndexScript(plan.missing[k]))]

CheckParallelism(plan) ==
  IF plan.operators[1].parallel
  THEN <<Finding("parallelism_used", "info", plan.operators[1].id, None, None)>>
  ELSE <<>>

OfSeverity(findings, severity) ==
  Kept(findings, {k \in DOMAIN findings : findings[k].severity = severity})

(* Mutant: the sort forgets the least severe.                              *)
BySeverityWithoutInfo(findings) ==
  OfSeverity(findings, Severities[1]) \o OfSeverity(findings, Severities[2])

(* A stable sort by severity.                                              *)
BySeverity(findings) ==
  OfSeverity(findings, Severities[1]) \o OfSeverity(findings, Severities[2])
    \o OfSeverity(findings, Severities[3])

(* What the rules find, one rule after the other.                          *)
Unsorted(plan) ==
  PromoteAdapterWarnings(plan) \o CheckLargeScans(plan) \o CheckCardinalitySkew(plan)
    \o CheckBookmarkLookups(plan) \o CheckMissingIndexes(plan) \o CheckParallelism(plan)

-----------------------------------------------------------------------------

OrMinusOne(v) == IF v = None THEN -1 ELSE v

(* The power of ten that has one digit more than n.                        *)
Scale(n) ==
  LET upTo[m \in 0 .. n] == IF m < 10 THEN 10 ELSE 10 * upTo[m \div 10]
  IN upTo[n]

(* Ids are strings, and compared as such: "10" comes before "2".           *)
IdBefore(a, b) ==
  LET x == a * Scale(b)
      y == b * Scale(a)
  IN x < y \/ (x = y /\ a < b)

(* Mutant: the cheapest come first.                                        *)
BeforeByLeastCost(p, q) ==
  \/ OrMinusOne(p.cost) < OrMinusOne(q.cost)
  \/ OrMinusOne(p.cost) = OrMinusOne(q.cost) /\ IdBefore(p.id, q.id)

(* sort_key of _select_notable_operators: (-cost, -duration, id).          *)
Before(p, q) ==
  \/ OrMinusOne(p.cost) > OrMinusOne(q.cost)
  \/ /\ OrMinusOne(p.cost) = OrMinusOne(q.cost)
     /\ \/ OrMinusOne(p.duration) > OrMinusOne(q.duration)
        \/ OrMinusOne(p.duration) = OrMinusOne(q.duration) /\ IdBefore(p.id, q.id)

(* sorted(): ids differ, so do the keys, and the k-th operator is the one  *)
(* that k - 1 others come before.                                          *)
Ranked(operators) ==
  [k \in DOMAIN operators |->
     CHOOSE i \in DOMAIN operators :
       Cardinality({j \in DOMAIN operators : Before(operators[j], operators[i])}) = k - 1]

(* OperatorHighlight: what the model is told of an operator.               *)
HighlightFields ==
  {"id", "type", "object", "access", "estimated", "actual", "cost", "duration",
   "spill", "parallel"}

ToHighlight(op) == [f \in HighlightFields |-> op[f]]

NotableOperators(operators) ==
  SubSeq([k \in DOMAIN operators |-> operators[Ranked(operators)[k]]],
         1, Min({MaxNotable, Len(operators)}))

Summarize(plan) ==
  LET notable == NotableOperators(plan.operators)
  IN [statement      |-> plan.statement,
      operator_count |-> Len(plan.operators),
      notable        |-> [k \in DOMAIN notable |-> ToHighlight(notable[k])]]

=============================================================================
