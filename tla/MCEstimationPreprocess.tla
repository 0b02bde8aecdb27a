----------------------- MODULE MCEstimationPreprocess -----------------------
EXTENDS EstimationPreprocess

\* circuits of one to three qubits
MCQubitCounts == 1 .. 3
\* every mapping_list of at most four entries below four: empty, partial,
\* full, too long, with duplicates and with indices off the circuit
MCLayouts == UNION {[1 .. m -> 0 .. 3] : m \in 0 .. 4}

\* characters of term texts: two Pauli letters, the identity, two digits
\* and the space
Chars == {"X", "Z", "I", "0", "1", " "}
\* every term text of one to five characters that is not blank
MCTexts ==
  {s \in UNION {[1 .. m -> Chars] : m \in 1 .. 5} : \E i \in DOMAIN s : s[i] # " "}
\* one-term operators over every text, and two-term operators mixing a
\* valid, an invalid and an identity term
MCOperators ==
  {<<t>> : t \in MCTexts} \cup
  {<<t, u>> : t, u \in {<<"Z", "0">>, <<"X", " ", "1">>, <<"I">>, <<"0", "Z">>}}
\* the identity term alone ("I"), a single Z on qubit 0 ("Z0"), and two
\* terms touching qubits 0, 1 and 2 ("X1", "Z0 Y2")
MCLayoutOperators ==
  {<<<<"I">>>>, <<<<"Z", "0">>>>,
   <<<<"X", "1">>, <<"Z", "0", " ", "Y", "2">>>>}
=============================================================================
