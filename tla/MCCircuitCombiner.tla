--------------------------- MODULE MCCircuitCombiner ---------------------------
(***************************************************************************)
(* Model of CircuitCombiner for TLC: five kinds of parseable program, one *)
(* unparseable, up to three programs per request.                         *)
(***************************************************************************)
EXTENDS CircuitCombiner

\* an empty circuit
MCEmpty == [num_qubits |-> 0, num_clbits |-> 0, meas |-> {}, composable |-> TRUE]
\* one qubit measured into one clbit
MCOne == [num_qubits |-> 1, num_clbits |-> 1, meas |-> {<<0, 0>>}, composable |-> TRUE]
\* two qubits measured crosswise into two clbits
MCCross == [num_qubits |-> 2, num_clbits |-> 2, meas |-> {<<0, 1>>, <<1, 0>>},
            composable |-> TRUE]
\* two qubits, only qubit 1 measured, into a single clbit
MCNarrow == [num_qubits |-> 2, num_clbits |-> 1, meas |-> {<<1, 0>>}, composable |-> TRUE]
\* a circuit that loads but that QuantumCircuit.append rejects
MCOpaque == [num_qubits |-> 1, num_clbits |-> 1, meas |-> {<<0, 0>>}, composable |-> FALSE]

MCPrograms == {MCEmpty, MCOne, MCCross, MCNarrow, MCOpaque}
MCMaxQubitsValues == {-1, 0, 2, 3}
================================================================================
