---------------------------- MODULE CircuitCombiner ----------------------------
(***************************************************************************)
(* One Combine request as the servicer executes it: CircuitCombiner.      *)
(* Combine, deal_with_request_qasm and combine_circuits of                 *)
(* circuit_combiner.py.  Each iteration of the two loops of                *)
(* combine_circuits (parse every program, then append every circuit at the *)
(* running offsets) is one step, so the offsets, the totals and the        *)
(* reversed combined_qubits_list are observed between iterations.  An      *)
(* exception anywhere ends the request with STATUS_FAILURE and empty       *)
(* fields, as the except clauses do.                                       *)
(***************************************************************************)
EXTENDS Integers, Sequences, SequencesExt, Functions

CONSTANTS Programs, BadQasm, BadArray, MaxQubitsValues, MaxPrograms,
          NoResponse, NoCircuit

VARIABLES
  request,       \* the CombineRequest: qasm_array and max_qubits
  pc,            \* the statement the handler is at
  qasm_list,     \* the programs decoded by deal_with_request_qasm
  circuits,      \* the circuits parsed so far
  i,             \* loop index into qasm_list, then into circuits
  total_qbits,
  total_clbits,
  combined,      \* combined_circuit: sizes and the instructions appended
  quantum_bit_index,
  classical_bit_index,
  combined_qubits_list,
  response       \* the CombineResponse, once returned

vars == <<request, pc, qasm_list, circuits, i, total_qbits, total_clbits,
          combined, quantum_bit_index, classical_bit_index,
          combined_qubits_list, response>>

Abs == INSTANCE CombineSpec

Failure == Abs!Failure

Return(r) == response' = r /\ pc' = "done"

(* An instruction of combined_circuit: circuit c appended on qargs/cargs. *)
CircuitAppend(c, qo, co) ==
  [circuit |-> c,
   qargs |-> [j \in 0 .. c.num_qubits - 1 |-> j + qo],
   cargs |-> [j \in 0 .. c.num_clbits - 1 |-> j + co]]

(* qiskit.qasm3.dumps(combined_circuit.decompose()): the appended          *)
(* circuits are inlined, their measurements renamed through qargs/cargs.   *)
Dumps(cc) ==
  [num_qubits |-> cc.num_qubits, num_clbits |-> cc.num_clbits,
   meas |-> UNION {{<<ins.qargs[m[1]], ins.cargs[m[2]]>> : m \in ins.circuit.meas}
                   : ins \in Range(cc.data)}]

Init ==
  /\ request \in Abs!Requests
  /\ pc = "deal_with_request"
  /\ qasm_list = <<>> /\ circuits = <<>> /\ i = 1
  /\ total_qbits = 0 /\ total_clbits = 0
  /\ combined = NoCircuit
  /\ quantum_bit_index = 0 /\ classical_bit_index = 0
  /\ combined_qubits_list = <<>>
  /\ response = NoResponse

(* deal_with_request_qasm: literal_eval of qasm_array; a ValueError is    *)
(* caught in Combine and answered with STATUS_FAILURE.                     *)
DealWithRequest ==
  /\ pc = "deal_with_request"
  /\ IF request.qasm_array = BadArray
       THEN Return(Failure) /\ UNCHANGED qasm_list
       ELSE qasm_list' = request.qasm_array /\ pc' = "parse" /\ UNCHANGED response
  /\ UNCHANGED <<request, circuits, i, total_qbits, total_clbits, combined,
                 quantum_bit_index, classical_bit_index, combined_qubits_list>>

(* One iteration of the first loop: qasm3.loads and the running totals.   *)
ParseOne ==
  /\ pc = "parse" /\ i <= Len(qasm_list)
  /\ IF qasm_list[i] = BadQasm
       THEN Return(Failure)
            /\ UNCHANGED <<circuits, i, total_qbits, total_clbits>>
       ELSE /\ circuits' = Append(circuits, qasm_list[i])
            /\ total_qbits' = total_qbits + qasm_list[i].num_qubits
            /\ total_clbits' = total_clbits + qasm_list[i].num_clbits
            /\ i' = i + 1
            /\ UNCHANGED <<pc, response>>
  /\ UNCHANGED <<request, qasm_list, combined, quantum_bit_index,
                 classical_bit_index, combined_qubits_list>>

(* Mutant: the limit compared with >=, rejecting a request that fills    *)
(* max_qubits exactly.                                                    *)
CheckLimitAtLimit ==
  /\ pc = "parse" /\ i > Len(qasm_list)
  /\ LET max_limit_qubits == IF request.max_qubits > 0 THEN request.max_qubits ELSE 0
     IN IF total_qbits >= max_limit_qubits
          THEN Return([status |-> "INVALID_QUBIT_SIZE", combined_qasm |-> NoCircuit,
                       combined_qubits_list |-> <<>>])
               /\ UNCHANGED <<combined, i>>
          ELSE /\ combined' = [num_qubits |-> total_qbits,
                               num_clbits |-> total_clbits, data |-> <<>>]
               /\ i' = 1
               /\ pc' = "place"
               /\ UNCHANGED response
  /\ UNCHANGED <<request, qasm_list, circuits, total_qbits, total_clbits,
                 quantum_bit_index, classical_bit_index, combined_qubits_list>>

(* After the first loop: the limit check against max(max_qubits, 0), then *)
(* QuantumCircuit(total_qbits, total_clbits) and the indices reset.        *)
CheckLimit ==
  /\ pc = "parse" /\ i > Len(qasm_list)
  /\ LET max_limit_qubits == IF request.max_qubits > 0 THEN request.max_qubits ELSE 0
     IN IF total_qbits > max_limit_qubits
          THEN Return([status |-> "INVALID_QUBIT_SIZE", combined_qasm |-> NoCircuit,
                       combined_qubits_list |-> <<>>])
               /\ UNCHANGED <<combined, i>>
          ELSE /\ combined' = [num_qubits |-> total_qbits,
                               num_clbits |-> total_clbits, data |-> <<>>]
               /\ i' = 1
               /\ pc' = "place"
               /\ UNCHANGED response
  /\ UNCHANGED <<request, qasm_list, circuits, total_qbits, total_clbits,
                 quantum_bit_index, classical_bit_index, combined_qubits_list>>

(* Mutant: the classical-bit index advanced by the circuit's qubit count. *)
PlaceOneClbitsByQubits ==
  /\ pc = "place" /\ i <= Len(circuits)
  /\ LET c == circuits[i] IN
     IF ~c.composable
       THEN Return(Failure)
            /\ UNCHANGED <<combined, i, quantum_bit_index, classical_bit_index,
                           combined_qubits_list>>
       ELSE /\ combined' = [combined EXCEPT !.data =
                 Append(@, CircuitAppend(c, quantum_bit_index, classical_bit_index))]
            /\ quantum_bit_index' = quantum_bit_index + c.num_qubits
            /\ classical_bit_index' = classical_bit_index + c.num_qubits
            /\ combined_qubits_list' = <<c.num_qubits>> \o combined_qubits_list
            /\ i' = i + 1
            /\ UNCHANGED <<pc, response>>
  /\ UNCHANGED <<request, qasm_list, circuits, total_qbits, total_clbits>>

(* One iteration of the second loop: append the circuit on the arange of  *)
(* qubits and clbits at the current indices, advance both indices, and    *)
(* prepend its qubit count to combined_qubits_list.  append raises for a  *)
(* circuit that cannot be converted to an instruction.                     *)
PlaceOne ==
  /\ pc = "place" /\ i <= Len(circuits)
  /\ LET c == circuits[i] IN
     IF ~c.composable
       THEN Return(Failure)
            /\ UNCHANGED <<combined, i, quantum_bit_index, classical_bit_index,
                           combined_qubits_list>>
       ELSE /\ combined' = [combined EXCEPT !.data =
                 Append(@, CircuitAppend(c, quantum_bit_index, classical_bit_index))]
            /\ quantum_bit_index' = quantum_bit_index + c.num_qubits
            /\ classical_bit_index' = classical_bit_index + c.num_clbits
            /\ combined_qubits_list' = <<c.num_qubits>> \o combined_qubits_list
            /\ i' = i + 1
            /\ UNCHANGED <<pc, response>>
  /\ UNCHANGED <<request, qasm_list, circuits, total_qbits, total_clbits>>

(* Mutant: the composed circuit returned without decompose and dumps.    *)
FinishUndumped ==
  /\ pc = "place" /\ i > Len(circuits)
  /\ Return([status |-> "SUCCESS", combined_qasm |-> combined,
             combined_qubits_list |-> combined_qubits_list])
  /\ UNCHANGED <<request, qasm_list, circuits, i, total_qbits, total_clbits,
                 combined, quantum_bit_index, classical_bit_index,
                 combined_qubits_list>>

(* After the second loop: decompose, dumps and the SUCCESS response.      *)
Finish ==
  /\ pc = "place" /\ i > Len(circuits)
  /\ Return([status |-> "SUCCESS", combined_qasm |-> Dumps(combined),
             combined_qubits_list |-> combined_qubits_list])
  /\ UNCHANGED <<request, qasm_list, circuits, i, total_qbits, total_clbits,
                 combined, quantum_bit_index, classical_bit_index,
                 combined_qubits_list>>

(* The handler returns after the response; a finished request takes no   *)
(* further step.                                                           *)
Next == DealWithRequest \/ ParseOne \/ CheckLimit \/ PlaceOne \/ Finish

Spec == Init /\ [][Next]_vars

-----------------------------------------------------------------------------
Statuses == {"SUCCESS", "INVALID_QUBIT_SIZE", "FAILURE"}

TypeOK ==
  /\ request \in Abs!Requests
  /\ pc \in {"deal_with_request", "parse", "place", "done"}
  /\ circuits \in Seq(Programs)
  /\ total_qbits \in Nat /\ total_clbits \in Nat
  /\ quantum_bit_index \in Nat /\ classical_bit_index \in Nat
  /\ combined_qubits_list \in Seq(Nat)
  /\ response \in {NoResponse} \cup
       [status : Statuses, combined_qasm : {NoCircuit} \cup
          [num_qubits : Nat, num_clbits : Nat, meas : SUBSET (Nat \X Nat)],
        combined_qubits_list : Seq(Nat)]

(* While combine_circuits appends circuits, the qubits and the classical  *)
(* bits given to two different appended circuits never overlap, and every *)
(* one lies inside the registers of QuantumCircuit(total_qbits,           *)
(* total_clbits): the running quantum_bit_index / classical_bit_index     *)
(* must advance by exactly the counts of the circuit just placed.          *)
NoOverlap ==
  pc = "place" =>
    /\ \A a \in DOMAIN combined.data :
         /\ Range(combined.data[a].qargs) \subseteq 0 .. combined.num_qubits - 1
         /\ Range(combined.data[a].cargs) \subseteq 0 .. combined.num_clbits - 1
    /\ \A a, b \in DOMAIN combined.data : a # b =>
         /\ Range(combined.data[a].qargs) \cap Range(combined.data[b].qargs) = {}
         /\ Range(combined.data[a].cargs) \cap Range(combined.data[b].cargs) = {}

(* Combine, executed loop by loop, answers every request exactly as the   *)
(* atomic specification CombineSpec does: same status, a combined circuit *)
(* whose measurements are the inputs' placed at prefix-sum offsets, the   *)
(* qubit counts in reverse placement order, and no partial result on any  *)
(* failure.                                                               *)
CombineRefinement == Abs!Spec

(* The contract of combined_qubits_list (spec 4.1): slicing the combined  *)
(* measurement bitstring from its most significant end by the list's      *)
(* entries yields, in turn, the classical bits of the last-placed circuit, *)
(* then the one before it, and so on.                                      *)
ClbitSlice(list, k, width) ==
  LET top == width - SumFunction([j \in 1 .. k - 1 |-> list[j]])
  IN top - list[k] .. top - 1

Demultiplexable ==
  response # NoResponse /\ response.status = "SUCCESS" =>
    LET cs   == request.qasm_array
        list == response.combined_qubits_list
        j(k) == Len(cs) + 1 - k
    IN Len(list) >= 2 => \A k \in DOMAIN list :
         ClbitSlice(list, k, response.combined_qasm.num_clbits)
           = Abs!Offset(cs, j(k), "num_clbits")
               .. Abs!Offset(cs, j(k), "num_clbits") + cs[j(k)].num_clbits - 1
================================================================================
