----------------------------- MODULE CombineSpec -----------------------------
(***************************************************************************)
(* What the Combine operation of the circuit combiner promises, stated as *)
(* one atomic step from a request to its response (spec section 4.1 and   *)
(* section 6).  A circuit is abstracted to its qubit and classical-bit    *)
(* counts, the measurements it ends with (pairs <<qubit, clbit>>) and     *)
(* whether qiskit can append it as one instruction.  The combined circuit *)
(* places circuit k at the offsets given by the counts of circuits 1..k-1 *)
(* (prefix sums), a definition independent of the loop that computes them.*)
(***************************************************************************)
EXTENDS Integers, Sequences, SequencesExt, Functions

CONSTANTS
  Programs,         \* the parseable programs a request may carry
  BadQasm,          \* a program text that qiskit.qasm3.loads rejects
  BadArray,         \* a qasm_array field that ast.literal_eval rejects
  MaxQubitsValues,  \* the max_qubits values a request may carry
  MaxPrograms,      \* bound on the number of programs in one request
  NoResponse,       \* no response has been produced yet
  NoCircuit         \* an empty combined_qasm field

ASSUME \A p \in Programs :
         /\ p.num_qubits \in Nat /\ p.num_clbits \in Nat
         /\ p.meas \subseteq (0 .. p.num_qubits - 1) \X (0 .. p.num_clbits - 1)
         /\ p.composable \in BOOLEAN
ASSUME MaxQubitsValues \subseteq Int /\ MaxPrograms \in Nat

VARIABLES request, response
vars == <<request, response>>

Requests ==
  [qasm_array : BoundedSeq(Programs \cup {BadQasm}, MaxPrograms) \cup {BadArray},
   max_qubits : MaxQubitsValues]

Failure == [status |-> "FAILURE", combined_qasm |-> NoCircuit,
            combined_qubits_list |-> <<>>]

(* Sum of field f over circuits 1..k-1 of cs: the offset of circuit k.    *)
Offset(cs, k, f) == SumFunction([j \in 1 .. k - 1 |-> cs[j][f]])

(* The measurements of circuit c moved to qubit offset qo, clbit offset co.*)
Translate(c, qo, co) == {<<m[1] + qo, m[2] + co>> : m \in c.meas}

(* The flattened combined circuit of the circuits cs, placed in order.    *)
Combined(cs) ==
  LET n == Len(cs) + 1 IN
  [num_qubits |-> Offset(cs, n, "num_qubits"),
   num_clbits |-> Offset(cs, n, "num_clbits"),
   meas |-> UNION {Translate(cs[k], Offset(cs, k, "num_qubits"),
                             Offset(cs, k, "num_clbits")) : k \in DOMAIN cs}]

(* The response Combine owes to request r.                                *)
Expected(r) ==
  LET cs == r.qasm_array IN
  CASE cs = BadArray -> Failure
    [] BadQasm \in Range(cs) -> Failure
    [] Offset(cs, Len(cs) + 1, "num_qubits") >
         IF r.max_qubits > 0 THEN r.max_qubits ELSE 0 ->
         [status |-> "INVALID_QUBIT_SIZE", combined_qasm |-> NoCircuit,
          combined_qubits_list |-> <<>>]
    [] \E k \in DOMAIN cs : ~cs[k].composable -> Failure
    [] OTHER ->
         [status |-> "SUCCESS", combined_qasm |-> Combined(cs),
          combined_qubits_list |->
            Reverse([k \in DOMAIN cs |-> cs[k].num_qubits])]

Init == request \in Requests /\ response = NoResponse

Respond ==
  /\ response = NoResponse
  /\ response' = Expected(request)
  /\ UNCHANGED request

Spec == Init /\ [][Respond]_vars
==============================================================================
