------------------------------ MODULE Analysis ------------------------------
(***************************************************************************)
(* A live call and what becomes of it: run (cli.py) and the handlers of    *)
(* web/app.py around Capture, then parse_plan_xml, evaluate and            *)
(* summarize_plan over the plan that was captured.                         *)
(***************************************************************************)
EXTENDS Capture, Tier0

CONSTANT Documents   \* the documents a captured plan may be

ASSUME DocumentsAreShowplans == \A doc \in Documents : IsShowplan(doc)

VARIABLES
  caller,     \* "cli", or "web" for a handler
  stage,
  document,   \* the document whose operators are analysed, or None
  plan,       \* the IRPlan, or None
  findings,   \* Tier 0's findings
  summary,    \* the PlanSummary, or None
  ending      \* how the caller ends: see Endings

analysis == <<document, plan, findings, summary>>
runVars == <<vars, caller, stage, analysis, ending>>

(* Exit codes 0, 1 and 2, an exception that leaves run, HTTP statuses.     *)
Endings == {"none", "exit_0", "exit_1", "exit_2", "traceback",
            "200", "400", "422", "500", "502"}

EndsAs(e) == ending' = e /\ stage' = "ended"

RunInit ==
  /\ Init
  /\ caller \in IF op = "capture" THEN {"cli", "web"} ELSE {"web"}
  /\ stage = IF caller = "cli" THEN "arguments" ELSE "call"
  /\ document = None /\ plan = None /\ summary = None
  /\ findings = <<>>
  /\ ending = "none"

(* parse_args ends the program itself: a usage error, or --help.           *)
Arguments ==
  /\ stage = "arguments"
  /\ \/ stage' = "password" /\ UNCHANGED ending
     \/ EndsAs("exit_2") \/ EndsAs("exit_0")
  /\ UNCHANGED <<vars, caller, analysis>>

(* QUERYSMITH_DB_PASSWORD is read before anything is tried.                *)
Password ==
  /\ stage = "password"
  /\ \/ stage' = "call" /\ UNCHANGED ending
     \/ EndsAs("exit_2")
  /\ UNCHANGED <<vars, caller, analysis>>

Call ==
  /\ stage = "call"
  /\ Next
  /\ UNCHANGED <<caller, stage, analysis, ending>>

(* Mutant: a failed capture is called a usage error.                       *)
FailureAsUsage(o) ==
  IF caller = "cli" THEN IF o = "raw" THEN "traceback" ELSE "exit_2"
  ELSE IF o = "raw" THEN "500"
  ELSE IF o = "rejected" THEN "422"
  ELSE IF op = "test" THEN "400" ELSE "502"

(* QueryValidationError, DBCaptureError, anything else.                    *)
FailureAs(o) ==
  IF caller = "cli"
  THEN IF o = "rejected" THEN "exit_2" ELSE IF o = "raw" THEN "traceback" ELSE "exit_1"
  ELSE IF o = "raw" THEN "500"
  ELSE IF o = "rejected" THEN "422"
  ELSE IF op = "test" THEN "400" ELSE "502"

CallFails ==
  /\ stage = "call" /\ pc = "ended" /\ outcome # "ok"
  /\ EndsAs(FailureAs(outcome))
  /\ UNCHANGED <<vars, caller, analysis>>

CallReturns ==
  /\ stage = "call" /\ pc = "ended" /\ outcome = "ok"
  /\ IF op = "capture" THEN stage' = "parse" /\ UNCHANGED ending ELSE EndsAs("200")
  /\ UNCHANGED <<vars, caller, analysis>>

(* What etree and find() make of an answer: a plan document, one without a *)
(* statement, query plan or root operator, or no XML at all.               *)
Parse ==
  /\ stage = "parse"
  /\ \E doc \in Documents :
       /\ document' = doc
       /\ plan' = ParsePlan(doc)
  /\ stage' = "evaluate"
  /\ UNCHANGED <<vars, caller, findings, summary, ending>>

(* ValueError: there is no StmtSimple, QueryPlan or root RelOp.            *)
ParseFindsNoPlan ==
  /\ stage = "parse"
  /\ EndsAs(IF caller = "cli" THEN "exit_1" ELSE "500")
  /\ UNCHANGED <<vars, caller, analysis>>

(* A row that only begins like a plan: etree's XMLSyntaxError is no        *)
(* ValueError.                                                             *)
ParseRaises ==
  /\ stage = "parse" /\ sets[answer] = "lookalike"
  /\ EndsAs(IF caller = "cli" THEN "traceback" ELSE "500")
  /\ UNCHANGED <<vars, caller, analysis>>

(* evaluate: what the rules find, sorted by severity.                      *)
RunRules ==
  /\ stage = "evaluate"
  /\ \E found \in {Unsorted(plan)} : findings' = BySeverity(found)
  /\ stage' = "summarise"
  /\ UNCHANGED <<vars, caller, document, plan, summary, ending>>

SummarisePlan ==
  /\ stage = "summarise"
  /\ summary' = Summarize(plan)
  /\ stage' = "report"
  /\ UNCHANGED <<vars, caller, document, plan, findings, ending>>

(* Narrated, if that is asked for, and printed or returned; what does not  *)
(* come back from get_narration leaves run (see Narration).                *)
Report ==
  /\ stage = "report"
  /\ EndsAs(IF caller = "cli" THEN "exit_0" ELSE "200")
       \/ EndsAs(IF caller = "cli" THEN "traceback" ELSE "500")
  /\ UNCHANGED <<vars, caller, analysis>>

RunNext ==
  \/ Arguments \/ Password \/ Call \/ CallFails \/ CallReturns
  \/ Parse \/ ParseFindsNoPlan \/ ParseRaises
  \/ RunRules \/ SummarisePlan \/ Report

(* Driver and model answer or run into their timeouts, which are not 0.    *)
RunSpec == RunInit /\ [][RunNext]_runVars /\ WF_runVars(RunNext)

-----------------------------------------------------------------------------

Analysed == summary # None

RunTypeOK ==
  /\ TypeOK
  /\ stage \in {"arguments", "password", "call", "parse", "evaluate", "summarise",
                "report", "ended"}
  /\ ending \in Endings
  /\ (stage = "ended") <=> (ending # "none")
  /\ plan # None =>
       /\ \A i \in DOMAIN plan.operators :
            /\ plan.operators[i].type \in OperatorTypes
            /\ plan.operators[i].access \in AccessTypes \cup {None}
            /\ plan.operators[i].join \in JoinTypes \cup {None}
       /\ \A k \in DOMAIN plan.warnings : plan.warnings[k].type \in WarningTypes
  /\ Analysed =>
       /\ summary.statement.type \in StatementTypes
       /\ summary.operator_count = Cardinality(RelOps(document))

(* cli.py 70-75, app.py 284-287: only a text that was never sent is blamed *)
(* on the user (exit 2, 422), and a capture that failed with DBCaptureError*)
(* is never: it ends in exit 1, 400 or 502.                                *)
BlameIsRight ==
  /\ ending \in {"exit_2", "422"} => conn = "none"
  /\ ending = "422" => query # "select"
  /\ outcome \in {"capture_error", "no_plan"} => ending \in {"none", "exit_1", "400", "502"}

(* Wherever SQL Server puts an operator's inputs, inside the detail        *)
(* element or next to it, the rules and the summary see every operator of  *)
(* the plan once, in the plan's order, under an id of its own.             *)
EveryOperatorOnce ==
  plan # None =>
    /\ [i \in DOMAIN plan.operators |-> plan.operators[i].element]
         = InOrder(document, RelOps(document))
    /\ \A i, j \in DOMAIN plan.operators :
         plan.operators[i].id = plan.operators[j].id => i = j

(* The object SQL Server wrote for element e itself: not one of an input.  *)
OwnObjects(doc, e) ==
  {c \in Inside(doc, e) :
     /\ doc.tag[c] = "Object"
     /\ \A r \in RelOps(doc) : c \in Inside(doc, r) => e \in Inside(doc, r) \cup {r}}

(* By the name SQL Server gives an operator.                               *)
Scans(doc) == {e \in RelOps(doc) : doc.attr[e].physical \in ScanNames \ SeekNames}

(* The rows a scan really read: all threads together, or the estimate.     *)
LargeScans(doc) ==
  {e \in Scans(doc) :
     LET a == doc.attr[e]
         rows == IF \E t \in DOMAIN a.rows : a.rows[t] # None
                 THEN MapThenSumSet(LAMBDA t : IF a.rows[t] = None THEN 0 ELSE a.rows[t],
                                    DOMAIN a.rows)
                 ELSE a.estimated
     IN rows # None /\ rows >= LargeScanWarningRows}

(* The detail element is all the operator holds.                           *)
HoldsItsDetailOnly(doc, e) ==
  \A c \in Elements(doc) : doc.parent[c] = e =>
    doc.tag[c] = "Detail" /\ \A d \in Elements(doc) : doc.parent[d] = e => d = c

FindingsOf(rule) == {k \in DOMAIN findings : findings[k].rule = rule}

(* Every scan that read many rows, on however many threads, is reported    *)
(* once.  A scan without inputs is never reported under a table it does    *)
(* not read, and under its own unless _find_detail_wrapper finds another   *)
(* element before the detail: in plans over partitioned tables it finds    *)
(* RunTimePartitionSummary, and the report names no table.                 *)
LargeScansNameTheirTable ==
  Analysed =>
    /\ Cardinality(FindingsOf("large_table_scan")) = Cardinality(LargeScans(document))
    /\ \A e \in LargeScans(document) :
         \E k \in FindingsOf("large_table_scan"), i \in DOMAIN plan.operators :
           /\ plan.operators[i].element = e
           /\ findings[k].operator = plan.operators[i].id
           /\ Inside(document, e) \cap RelOps(document) = {} =>
                /\ findings[k].object \in OwnObjects(document, e) \cup {None}
                /\ HoldsItsDetailOnly(document, e) /\ OwnObjects(document, e) # {}
                     => findings[k].object # None

(* A spilling operator is flagged in the plan and has a critical finding   *)
(* that names it, ahead of everything that is not critical.                *)
SpillsComeFirst ==
  Analysed =>
    \A i \in DOMAIN plan.operators :
      plan.operators[i].spill <=>
        \E k \in FindingsOf(WarningRule("tempdb_spill")) :
          /\ findings[k].operator = plan.operators[i].id
          /\ \A m \in 1 .. k : findings[m].severity = "critical"

RuleOrder(rule) ==
  CASE rule \in {WarningRule(t) : t \in WarningTypes} -> 1
    [] rule = "large_table_scan" -> 2
    [] rule = "cardinality_skew" -> 3
    [] rule = "non_covering_key_lookup" -> 4
    [] rule = "missing_index_available" -> 5
    [] rule = "parallelism_used" -> 6

(* Findings come worst first, within a severity by rule, and within a rule *)
(* in the plan's own order; none is lost on the way.                       *)
WorstFirst ==
  Analysed =>
    LET rank(f) == CHOOSE s \in DOMAIN Severities : Severities[s] = f.severity
        place(f) == First({i \in DOMAIN plan.operators : plan.operators[i].id = f.operator})
    IN /\ Len(findings) = Len(Unsorted(plan))
       /\ \A k, m \in DOMAIN findings : k < m =>
            LET f == findings[k]
                g == findings[m]
            IN /\ rank(f) <= rank(g)
               /\ rank(f) = rank(g) => RuleOrder(f.rule) <= RuleOrder(g.rule)
               /\ (rank(f) = rank(g) /\ f.rule = g.rule /\ f.operator # None)
                    => place(f) <= place(g)

(* The model is told of the operators where the cost concentrates, as many *)
(* as there is room for and the heaviest first: by cost, then by duration, *)
(* a value that is missing below every other, then by id as text.          *)
NotableAreTheCostliest ==
  Analysed =>
    LET ops == plan.operators
        told == [k \in DOMAIN summary.notable |-> summary.notable[k].id]
        above(v, w) == v # None /\ (w = None \/ v > w)
        precedes(p, q) ==
          \/ above(p.cost, q.cost)
          \/ p.cost = q.cost /\ above(p.duration, q.duration)
          \/ p.cost = q.cost /\ p.duration = q.duration /\ IdBefore(p.id, q.id)
    IN /\ Len(told) = Min({MaxNotable, Len(ops)})
       /\ \A k \in DOMAIN told : \E i \in DOMAIN ops :
            /\ ops[i].id = told[k]
            /\ \A j \in DOMAIN ops :
                 (\E m \in 1 .. k - 1 : told[m] = ops[j].id) <=> precedes(ops[j], ops[i])

(* The two tables that read a hash match agree: what is said to join is a  *)
(* join operator, and no lookup, aggregate or sort is said to join.        *)
JoinsAreJoins ==
  plan # None =>
    \A i \in DOMAIN plan.operators :
      LET o == plan.operators[i]
      IN o.join = Get([join_nested_loop |-> "nested_loop", join_hash |-> "hash",
                      join_merge |-> "merge"], o.type, None)

(* The columns SQL Server asks for in one index of the plan, by usage.     *)
Wanted(index, usages) ==
  UNION {ToSet(index[g].columns) : g \in {h \in DOMAIN index : index[h].usage \in usages}}

(* Every index SQL Server asks for has a finding whose script covers just  *)
(* those columns, key and included, at the severity of its own group's     *)
(* impact.                                                                 *)
IndexScriptsCoverThePlan ==
  Analysed =>
    \A g \in DOMAIN document.missing :
      \A index \in ToSet(document.missing[g].indexes) :
        \E k \in FindingsOf("missing_index_available") :
          LET script == findings[k].suggested_fix
          IN /\ findings[k].severity = ImpactSeverity(document.missing[g].impact)
             /\ ToSet(script.key) = Wanted(index, {"EQUALITY", "INEQUALITY"})
             /\ ToSet(script.include) = Wanted(index, {"INCLUDE"})

(* test_object_ref_and_predicates_scoped_to_own_relop                      *)
(* (test_operator_mapping.py 71) reads a join whose inputs are siblings of *)
(* its detail element and finds no object on it.  SQL Server nests the     *)
(* inputs in the detail element, as _direct_child_rel_ops (177) knows.     *)
ObjectsAreTheirOwn ==
  plan # None =>
    \A i \in DOMAIN plan.operators :
      plan.operators[i].object # None =>
        plan.operators[i].object \in OwnObjects(document, plan.operators[i].element)

(* Every run comes to an end.                                              *)
EveryRunEnds == <>(stage = "ended")

=============================================================================
