------------------------------ MODULE Aggregation ------------------------------
(***************************************************************************)
(* What ReqEstimationPostProcess promises, as one atomic step: the        *)
(* response to a request is a function of its counts_list and             *)
(* grouped_operators.  The groups taken are those zip() pairs with counts *)
(* (the first z, z the shortest length); the call fails on undecodable    *)
(* JSON, on a group whose label and coefficient lists differ in length,   *)
(* and on an empty counts_list; a zipped group without shots makes both   *)
(* results NaN; otherwise the expectation is the sum of the groups' dot   *)
(* products and the deviation the concatenated terms over sqrt of the     *)
(* first counts' shots.                                                   *)
(***************************************************************************)
EXTENDS PauliExpectation, SequencesExt

CONSTANTS Records, CountsLists, BadJson, NoResponse

VARIABLES counts_list, operators, finished, response

vars == <<counts_list, operators, finished, response>>

MinLen(a, b) == IF a <= b THEN a ELSE b

Aggregate(cl, r) ==
  IF r = BadJson THEN NoResponse
  ELSE LET G == 1 .. MinLen(Len(cl), MinLen(Len(r.meas), Len(r.coeffs)))
       IN IF \E g \in G : Len(r.meas[g]) # Len(r.coeffs[g]) THEN NoResponse
          ELSE IF cl = <<>> THEN NoResponse
          ELSE IF \E g \in G : Shots(cl[g]) = 0 THEN [expval |-> NaN, std |-> NaN]
          ELSE [expval |->
                  FoldFunctionOnSet(RAdd, Rat(0, 1),
                    [g \in G |-> GroupDot(cl[g], r.meas[g], r.coeffs[g])], G),
                std |->
                  FinalStd(FlattenSeq([g \in G |-> GroupTerms(cl[g], r.meas[g], r.coeffs[g])]),
                           Shots(cl[1]))]

Init ==
  /\ counts_list \in CountsLists
  /\ operators \in Records \cup {BadJson}
  /\ finished = FALSE
  /\ response = NoResponse

Respond ==
  /\ ~finished
  /\ finished' = TRUE
  /\ response' = Aggregate(counts_list, operators)
  /\ UNCHANGED <<counts_list, operators>>

Spec == Init /\ [][Respond]_vars
=============================================================================
