----------------------- MODULE MCEstimationPostprocess -----------------------
EXTENDS EstimationPostprocess

\* Groups of two measured bits, as Preprocess records them: an asymmetric
\* pair of labels with unequal coefficients, a single label, and the
\* identity term alone.
GroupA == [meas |-> <<<<"I", "Z">>, <<"Z", "Z">>>>, coeffs |-> <<1, -2>>]
GroupB == [meas |-> <<<<"Z", "I">>>>, coeffs |-> <<2>>]
GroupI == [meas |-> <<<<"I", "I">>>>, coeffs |-> <<1>>]

MCWidth == 2
\* no group (the JSON text "[[], []]"), one or two groups
MCRecords ==
  LET gs == {GroupA, GroupB, GroupI}
  IN {[meas |-> <<>>, coeffs |-> <<>>]} \cup
     {[meas |-> <<g.meas>>, coeffs |-> <<g.coeffs>>] : g \in gs} \cup
     {[meas |-> <<g.meas, h.meas>>, coeffs |-> <<g.coeffs, h.coeffs>>] : g, h \in gs} \cup
     \* a record whose coefficient list is shorter than its label list
     {[meas |-> <<GroupA.meas>>, coeffs |-> <<<<1>>>>]}
\* counts maps of at most two shots, none included
MCCounts == {c \in [BitStrings -> 0 .. 2] : SumFunction(c) <= 2}
\* zero, one or two groups' counts
MCCountsLists == {<<>>} \cup {<<c>> : c \in MCCounts} \cup {<<c, d>> : c, d \in MCCounts}
=============================================================================
