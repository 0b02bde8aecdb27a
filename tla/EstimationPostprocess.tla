------------------------- MODULE EstimationPostprocess -------------------------
(***************************************************************************)
(* Estimator.ReqEstimationPostProcess and Estimator._postprocess           *)
(* (estimation/src/estimator.py): the expectation value and standard      *)
(* deviation of an observable from the counts of its measurement groups.  *)
(*                                                                         *)
(* The request carries counts_list, one counts map per executed group     *)
(* circuit, and grouped_operators, the JSON text [meas_paulis, coeffs]    *)
(* Preprocess produced.  The arithmetic is PauliExpectation's.            *)
(***************************************************************************)
EXTENDS PauliExpectation

CONSTANTS
  Records,       \* the decoded grouped_operators the requests carry
  CountsLists,   \* the counts_list the requests carry
  BadJson,       \* grouped_operators that json.loads rejects
  NoResponse     \* the handler returned None (the except branch)

VARIABLES
  counts_list,
  operators,     \* the decoded record, or BadJson
  pc,
  k,             \* the zip loop's position (1-based)
  exp_value,     \* a rational, or NaN
  stds,          \* the sequence of [var, absc] terms, or NaN
  response

vars == <<counts_list, operators, pc, k, exp_value, stds, response>>

(* Mutant: the loop stopping one group early.                             *)
ZipLenOffByOne ==
  LET m == IF Len(operators.meas) <= Len(operators.coeffs)
             THEN Len(operators.meas) ELSE Len(operators.coeffs)
  IN (IF Len(counts_list) <= m THEN Len(counts_list) ELSE m) - 1

(* zip(counts_list, operators[0], operators[1]) stops at the shortest.     *)
ZipLen ==
  LET m == IF Len(operators.meas) <= Len(operators.coeffs)
             THEN Len(operators.meas) ELSE Len(operators.coeffs)
  IN IF Len(counts_list) <= m THEN Len(counts_list) ELSE m

Init ==
  /\ counts_list \in CountsLists
  /\ operators \in Records \cup {BadJson}
  /\ pc = "load"
  /\ k = 0
  /\ exp_value = Rat(0, 1)
  /\ stds = <<>>
  /\ response = NoResponse

(* The except branch of ReqEstimationPostProcess: logged, None returned.   *)
Fail == pc' = "done" /\ response' = NoResponse

(* operators = json.loads(grouped_operators)                               *)
Load ==
  /\ pc = "load"
  /\ IF operators = BadJson
       THEN Fail
       ELSE pc' = "loop" /\ UNCHANGED response
  /\ k' = 1
  /\ UNCHANGED <<counts_list, operators, exp_value, stds>>

(* One iteration of the zip loop.  np.dot of lists of unequal length       *)
(* raises ValueError.                                                      *)
Accumulate ==
  /\ pc = "loop"
  /\ k <= ZipLen
  /\ LET c == counts_list[k]
         ls == operators.meas[k]
         cs == operators.coeffs[k]
     IN IF Len(ls) # Len(cs)
          THEN Fail /\ UNCHANGED <<exp_value, stds>>
          ELSE /\ IF Shots(c) = 0 \/ exp_value = NaN
                    THEN exp_value' = NaN /\ stds' = NaN
                    ELSE /\ exp_value' = RAdd(exp_value, GroupDot(c, ls, cs))
                         /\ stds' = stds \o GroupTerms(c, ls, cs)
               /\ UNCHANGED <<pc, response>>
  /\ k' = k + 1
  /\ UNCHANGED <<counts_list, operators>>

(* After the loop: counts_list[0] raises IndexError on an empty list; the *)
(* response carries np.real_if_close([exp_value])[0] and stds.            *)
Finish ==
  /\ pc = "loop"
  /\ k > ZipLen
  /\ IF counts_list = <<>>
       THEN Fail
       ELSE /\ pc' = "done"
            /\ response' = [expval |-> exp_value,
                            std |-> FinalStd(stds, Shots(counts_list[1]))]
  /\ UNCHANGED <<counts_list, operators, k, exp_value, stds>>

(* The handler has returned; the server takes no further step for it.    *)
Next == Load \/ Accumulate \/ Finish

Spec == Init /\ [][Next]_vars

-----------------------------------------------------------------------------
Labels == Seq({"I", "Z"})

TypeOK ==
  /\ pc \in {"load", "loop", "done"}
  /\ k \in 0 .. Len(counts_list) + 1
  /\ exp_value = NaN \/ (exp_value \in [num : Int, den : Nat \ {0}])
  /\ stds = NaN \/ \A i \in DOMAIN stds : stds[i].var.den > 0
  /\ response = NoResponse \/ response.std \in {NaN, Inf} \/ response.std.shots > 0

(* The aggregation of spec section 4.4, written over the label and the     *)
(* bit string as aligned strings: sign(b, label) is the product over the   *)
(* non-identity positions p of +1 if b[p] = 0 and -1 otherwise, and the    *)
(* total is the sum over every group g and label j of                      *)
(* coeff * sum_b sign(b, label) * c[b] / shots(g).                          *)
SpecSign(b, l) ==
  IF Cardinality({p \in 1 .. Width : l[p] # "I" /\ b[p] = 1}) % 2 = 0 THEN 1 ELSE -1

SpecExpectation(cl, r) ==
  LET Terms == UNION {{<<g, j>> : j \in 1 .. Len(r.meas[g])} : g \in 1 .. Len(r.meas)}
      Term(t) == LET c == cl[t[1]] IN
                 Rat(r.coeffs[t[1]][t[2]] *
                       SumFunction([b \in DOMAIN c |-> SpecSign(b, r.meas[t[1]][t[2]]) * c[b]]),
                     Shots(c))
  IN FoldFunctionOnSet(RAdd, Rat(0, 1), [t \in Terms |-> Term(t)], Terms)

Aligned(cl, r) ==
  /\ Len(cl) = Len(r.meas)
  /\ \A g \in 1 .. Len(cl) : Shots(cl[g]) > 0

(* The expectation _postprocess returns for counts that match the groups   *)
(* one to one, each with at least one shot, is the section 4.4 sum: the    *)
(* label's qubit order (_paulis2inds), the key's bit order (int(b, 2)),    *)
(* the parity sign, the coefficient alignment of the record and the        *)
(* running total across loop iterations all agree.                        *)
ExpvalMatchesReference ==
  pc = "done" /\ response # NoResponse /\ Aligned(counts_list, operators) =>
    response.expval # NaN /\ REq(response.expval, SpecExpectation(counts_list, operators))

(* Section 6 and 7: the result is for the whole observable, never partial: *)
(* a response is returned only when counts_list has counts for every group *)
(* of grouped_operators.                                                   *)
AllGroupsUsed ==
  pc = "done" /\ response # NoResponse => Len(counts_list) >= Len(operators.meas)

Abs == INSTANCE Aggregation WITH finished <- (pc = "done")

(* The zip loop, with its running totals, its NaN propagation and the      *)
(* exceptions raised inside and after it, computes what Aggregation        *)
(* computes in one step.                                                   *)
AggregationRefinement == Abs!Spec

=============================================================================
