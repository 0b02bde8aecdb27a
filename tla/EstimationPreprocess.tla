-------------------------- MODULE EstimationPreprocess --------------------------
(***************************************************************************)
(* Estimator.ReqEstimationPreProcess and Estimator._preprocess            *)
(* (estimation/src/estimator.py) up to the grouped record: the program is *)
(* loaded, the operator built for the circuit's qubits, the client's      *)
(* mapping_list completed and applied to the observable, and the backend  *)
(* built for the commuting grouping.                                      *)
(*                                                                         *)
(* The operator text is parsed by OperatorParser's create_qiskit_operator *)
(* on the circuit's qubit count.  An observable is the set of the parsed  *)
(* terms; a term is the set of its non-identity factors <<qubit, pauli>>  *)
(* (coefficients play no part here).  The                                *)
(* completion of a partial layout is translated with the order CPython    *)
(* 3.11 gives list(set(...) - set(...)): set_difference inserts the       *)
(* missing indices, in ascending order, into a fresh hash table (small    *)
(* ints hash to themselves), and list() reads the table slot by slot.     *)
(* The grouping, the measurement circuits and the JSON text are qiskit's  *)
(* and are left out: the response holds the mapped observable.            *)
(***************************************************************************)
EXTENDS Integers, Sequences, FiniteSets, SequencesExt

CONSTANTS
  QubitCounts,     \* qc.num_qubits of the programs the requests carry
  Operators,       \* operator texts (sequences of term texts), empty layout
  LayoutOperators, \* operator texts sent with every mapping_list
  Layouts,         \* the mapping_list values the requests carry
  NoResponse,      \* the handler returned None (the except branch)
  BadLiteral, ValueErr, QiskitErr, ParameterErr, None

OP == INSTANCE OperatorParser

VARIABLES
  req,           \* [n, qasm_ok, basis_ok, op, layout]
  pc,
  parsed,        \* what create_qiskit_operator returned or raised
  mapping_list,
  mapped,        \* the mapped observable
  response

vars == <<req, pc, parsed, mapping_list, mapped, response>>

(* Every operator text with the default layout, and a few operator texts  *)
(* with every mapping_list.                                                *)
Requests ==
  [n : QubitCounts, qasm_ok : BOOLEAN, basis_ok : BOOLEAN,
   op : Operators \cup {BadLiteral}, layout : {<<>>}] \cup
  [n : QubitCounts, qasm_ok : BOOLEAN, basis_ok : BOOLEAN,
   op : LayoutOperators, layout : Layouts]

(* The SparsePauliOp: the set of the parsed terms.                         *)
Observable(p) == ToSet(p)

-----------------------------------------------------------------------------
(* setobject.c: set_add_entry and set_insert_clean probe slot i, then the *)
(* next LINEAR_PROBES slots when they fit below the mask, then jump by    *)
(* perturbation.  A table is a function 0 .. size-1 -> value or Free.    *)
LINEAR_PROBES == 9
PERTURB_SHIFT == 5
Free == -1

FindSlot(t, v) ==
  LET mask == Cardinality(DOMAIN t) - 1
      RECURSIVE Probe(_, _)
      Probe(i, perturb) ==
        LET last == IF i + LINEAR_PROBES <= mask THEN i + LINEAR_PROBES ELSE i
            free == {j \in i .. last : t[j] = Free}
            p == perturb \div (2 ^ PERTURB_SHIFT)
        IN IF free # {} THEN Min(free) ELSE Probe((i * 5 + 1 + p) % (mask + 1), p)
  IN Probe(v % (mask + 1), v)

EmptyTable(size) == [j \in 0 .. size - 1 |-> Free]

SlotOrder(t) ==
  SelectSeq([j \in 1 .. Cardinality(DOMAIN t) |-> t[j - 1]], LAMBDA x : x # Free)

Used(t) == Cardinality({j \in DOMAIN t : t[j] # Free})

(* set_table_resize(so, used * 4): the least power of two from 8 above    *)
(* the minimum, the old entries reinserted in slot order.                  *)
RECURSIVE Grow(_, _)
Grow(size, minused) == IF size <= minused THEN Grow(2 * size, minused) ELSE size

Resize(t) ==
  LET RECURSIVE Reinsert(_, _)
      Reinsert(nt, vs) ==
        IF vs = <<>> THEN nt
        ELSE Reinsert([nt EXCEPT ![FindSlot(nt, Head(vs))] = Head(vs)], Tail(vs))
  IN Reinsert(EmptyTable(Grow(8, Used(t) * 4)), SlotOrder(t))

(* set_add_entry for each value; the table grows once fill*5 >= mask*3.   *)
RECURSIVE AddAll(_, _)
AddAll(t, vs) ==
  IF vs = <<>> THEN t
  ELSE LET t1 == [t EXCEPT ![FindSlot(t, Head(vs))] = Head(vs)]
           mask == Cardinality(DOMAIN t1) - 1
       IN AddAll(IF Used(t1) * 5 < mask * 3 THEN t1 ELSE Resize(t1), Tail(vs))

(* list(set(full_indices) - set(mapping_list)).  set(range(m + 1))        *)
(* iterates in ascending order.  When len(so) >> 2 > len(other),          *)
(* set_difference copies so and discards, which keeps ascending order;    *)
(* otherwise it adds the kept values to a new set.                        *)
MissingList(layout) ==
  LET full == 0 .. Max(ToSet(layout))
      kept == SelectSeq([i \in 1 .. Cardinality(full) |-> i - 1],
                        LAMBDA x : x \notin ToSet(layout))
  IN IF Cardinality(full) \div 4 > Cardinality(ToSet(layout))
       THEN kept
       ELSE SlotOrder(AddAll(EmptyTable(8), kept))

(* Mutant: the missing indices put before the client's layout.           *)
CompleteLayoutPrepending(layout, n) ==
  IF layout = <<>> THEN [i \in 1 .. n |-> i - 1]
  ELSE IF Len(layout) # n THEN MissingList(layout) \o layout
  ELSE layout

(* The layout completion of _preprocess.                                  *)
CompleteLayout(layout, n) ==
  IF layout = <<>> THEN [i \in 1 .. n |-> i - 1]
  ELSE IF Len(layout) # n THEN layout \o MissingList(layout)
  ELSE layout

(* SparsePauliOp.apply_layout(layout, num_qubits=n) on an n-qubit          *)
(* operator: the layout must send the n qubits to distinct indices below  *)
(* n; observable qubit q goes to physical qubit layout[q].                 *)
LayoutApplies(l, n) ==
  Len(l) = n /\ \A i \in 1 .. Len(l) : l[i] < n /\ Cardinality(ToSet(l)) = Len(l)

ApplyLayout(op, l) == {{<<l[f[1] + 1], f[2]>> : f \in t} : t \in op}

-----------------------------------------------------------------------------
Init ==
  /\ req \in Requests
  /\ pc = "load"
  /\ parsed = None
  /\ mapping_list = req.layout
  /\ mapped = {}
  /\ response = NoResponse

(* The except branch of ReqEstimationPreProcess: logged, None returned.   *)
Fail == pc' = "done" /\ response' = NoResponse

(* qasm3.loads and remove_final_measurements; a program that does not    *)
(* load raises before the operator is parsed.                             *)
LoadProgram ==
  /\ pc = "load"
  /\ IF req.qasm_ok
       THEN pc' = "parse" /\ UNCHANGED response
       ELSE Fail
  /\ UNCHANGED <<req, parsed, mapping_list, mapped>>

(* op = create_qiskit_operator(operators, qc.num_qubits)                  *)
ParseOperator ==
  /\ pc = "parse"
  /\ parsed' = OP!CreateQiskitOperator(req.op, req.n)
  /\ IF OP!Raised(parsed')
       THEN Fail
       ELSE pc' = "layout" /\ UNCHANGED response
  /\ UNCHANGED <<req, mapping_list, mapped>>

(* The completion and op.apply_layout(mapping_list, num_qubits=n).       *)
MapObservable ==
  /\ pc = "layout"
  /\ mapping_list' = CompleteLayout(mapping_list, req.n)
  /\ IF LayoutApplies(mapping_list', req.n)
       THEN /\ mapped' = ApplyLayout(Observable(parsed), mapping_list')
            /\ pc' = "group" /\ UNCHANGED response
       ELSE Fail /\ UNCHANGED mapped
  /\ UNCHANGED <<req, parsed>>

(* GenericBackendV2(num_qubits, basis_gates), BackendEstimator and        *)
(* _preprocess_pub; a basis_gates list the backend rejects raises.        *)
Group ==
  /\ pc = "group"
  /\ pc' = "done"
  /\ response' = IF req.basis_ok THEN mapped ELSE NoResponse
  /\ UNCHANGED <<req, parsed, mapping_list, mapped>>

(* The handler has returned; the server takes no further step for it.    *)
Next == LoadProgram \/ ParseOperator \/ MapObservable \/ Group

Spec == Init /\ [][Next]_vars

-----------------------------------------------------------------------------
Paulis == {"X", "Y", "Z"}

(* Every mapped observable lives on the circuit's qubits, and              *)
(* create_qiskit_operator yields a list of terms or raises ValueError or   *)
(* ParameterValueError and nothing else.                                   *)
TypeOK ==
  /\ req \in Requests
  /\ pc \in {"load", "parse", "layout", "group", "done"}
  /\ parsed \in {None, ValueErr, ParameterErr} \/ parsed \in Seq(OP!Terms)
  /\ mapping_list \in Seq(Nat)
  /\ \A t \in mapped : t \subseteq (0 .. req.n - 1) \X Paulis
  /\ response = NoResponse \/ response = mapped

Perms(n) == {p \in [1 .. n -> 0 .. n - 1] : Cardinality(ToSet(p)) = n}

(* Section 4.3: a preprocessed observable is the client's operator moved   *)
(* by a layout that is a permutation of the circuit's qubits and that      *)
(* sends every observable qubit the client placed to the physical qubit    *)
(* the client chose: completion only adds to the end of mapping_list, and  *)
(* the identity default and apply_layout's checks leave no other outcome.  *)
RespectsClientLayout ==
  pc = "done" /\ response # NoResponse =>
    \E p \in Perms(req.n) :
      /\ \A i \in 1 .. Len(req.layout) : p[i] = req.layout[i]
      /\ response = ApplyLayout(Observable(parsed), p)

(* create_qiskit_operator never misreads a term: every operator it         *)
(* returns is, term by term, what section 4.2's tokenization makes of the  *)
(* text, so the strip, the letter-digit substitution, the "I" expansion,   *)
(* the even/odd split and from_sparse_list's checks together reject every  *)
(* text they cannot read correctly.                                        *)
ParseSound ==
  parsed \in Seq(OP!Terms) =>
    \A i \in DOMAIN parsed : parsed[i] = OP!SpecTerm(req.op[i], req.n)

=============================================================================
