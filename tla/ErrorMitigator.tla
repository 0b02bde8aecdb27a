---------------------------- MODULE ErrorMitigator ----------------------------
(***************************************************************************)
(* One ReqMitigation request of the readout-error mitigator (mitigator.py):*)
(* ro_error_mitigation with get_measured_qubits.  The steps are the        *)
(* program load, one step per instruction of qc.data, the sort of the     *)
(* classical-bit map with the 32-qubit guard, one step per assignment      *)
(* matrix looked up in the device topology, and the correction itself     *)
(* (ReadoutCorrection).  Every exception ends the request in the except   *)
(* clause of ReqMitigation, which logs it and returns no counts.           *)
(*                                                                         *)
(* A program has registers cregs (their sizes, in declaration order) and  *)
(* instructions [op, qubit, creg, bit]: op "measure" writes qubit into bit *)
(* `bit` of register `creg`, op "gate" stands for any other instruction.  *)
(* A topology is the list device_topology.qubits of [id, p0m1, p1m0].     *)
(***************************************************************************)
EXTENDS Integers, Sequences, SequencesExt, Functions, FiniteSets, TLC

CONSTANTS
  Programs,        \* the parseable programs a request may carry
  BadProgram,      \* a program text qasm3.loads rejects
  Topologies,      \* the device topologies a request may carry
  MaxShots,        \* bound on the shots of arbitrary counts
  MeasuredLimit,   \* the size guard of ro_error_mitigation (32 in the code)
  R,               \* error rates are multiples of 1/R
  NoResponse, ErrorResponse, NoTruth

RC == INSTANCE ReadoutCorrection

VARIABLES
  request,          \* [program, topology, counts]
  truth,            \* the true counts the counts were generated from, if any
  pc,
  shots,
  measured_qubits_dict,
  k,                \* index into qc.data, then into measured_qubits
  measured_qubits,
  assignment_matrices,
  nearest,          \* nearest_prob: the projected distribution
  response          \* the counts returned, or ErrorResponse

vars == <<request, truth, pc, shots, measured_qubits_dict, k, measured_qubits,
          assignment_matrices, nearest, response>>

NumClbits(p) == SumFunction(p.cregs)

(* The circuit-wide index of bit b of register r.                         *)
GlobalClbit(p, r, b) == SumFunction([j \in 1 .. r - 1 |-> p.cregs[j]]) + b

(* Counts over the program's classical bits: a map from the observed      *)
(* outcomes to their counts, at most MaxShots shots in all; the empty map  *)
(* has no shots.                                                           *)
ArbitraryCounts(p) ==
  UNION {{c \in [S -> 1 .. MaxShots] : SumFunction(c) <= MaxShots} :
           S \in {S \in SUBSET RC!Outcomes(NumClbits(p)) : Cardinality(S) <= MaxShots}}

(* The measured qubits the spec (4.5) prescribes: by ascending            *)
(* circuit-wide classical bit, the qubit of the last measurement into it. *)
SpecMeasuredQubits(p) ==
  LET Writes(c) == {j \in DOMAIN p.instrs :
                      p.instrs[j].op = "measure"
                      /\ GlobalClbit(p, p.instrs[j].creg, p.instrs[j].bit) = c}
      Targeted == {c \in 0 .. NumClbits(p) - 1 : Writes(c) # {}}
      Order == SetToSortSeq(Targeted, <)
  IN [j \in DOMAIN Order |-> p.instrs[Max(Writes(Order[j]))].qubit]

(* The error rates of the topology entry whose id is q.                   *)
RatesOf(topology, q) ==
  LET e == CHOOSE e \in Range(topology) : e.id = q
  IN [p0m1 |-> e.p0m1, p1m0 |-> e.p1m0]

Count(c, x) == IF x \in DOMAIN c THEN c[x] ELSE 0

(* True counts: R^n on each of a non-empty set of outcomes, so that the   *)
(* noisy counts they produce are whole numbers.                           *)
TrueCounts(n) ==
  {t \in [RC!Outcomes(n) -> {0, R^n}] : SumFunction(t) > 0}

(* The requests whose counts are exactly the noisy image of true counts. *)
NoisyRequests ==
  {r \in [program : Programs, topology : Topologies] :
     LET mq == SpecMeasuredQubits(r.program) IN
     /\ Len(mq) = NumClbits(r.program)
     /\ Len(mq) <= MeasuredLimit
     /\ \A j \in DOMAIN mq : \E e \in Range(r.topology) : e.id = mq[j]}

Init ==
  /\ \/ /\ request \in [program : Programs \cup {BadProgram},
                        topology : Topologies,
                        counts : UNION {ArbitraryCounts(p) : p \in Programs}]
        /\ request.program # BadProgram =>
             DOMAIN request.counts \subseteq RC!Outcomes(NumClbits(request.program))
        /\ truth = NoTruth
     \/ \E r \in NoisyRequests :
          LET rates == [j \in DOMAIN SpecMeasuredQubits(r.program) |->
                          RatesOf(r.topology, SpecMeasuredQubits(r.program)[j])]
          IN \E t \in TrueCounts(Len(rates)) :
               /\ truth = t
               /\ request = [program |-> r.program, topology |-> r.topology,
                             counts |-> RC!NoisyCounts(rates, t)]
  /\ pc = "load"
  /\ shots = 0
  /\ measured_qubits_dict = <<>>
  /\ k = 1
  /\ measured_qubits = <<>>
  /\ assignment_matrices = <<>>
  /\ nearest = <<>>
  /\ response = NoResponse

Fail == response' = ErrorResponse /\ pc' = "done"

(* shots = sum(counts.values()), then qasm3.loads in get_measured_qubits; *)
(* a parse error is re-raised as ValueError.                              *)
LoadProgram ==
  /\ pc = "load"
  /\ shots' = SumFunction(request.counts)
  /\ IF request.program = BadProgram
       THEN Fail
       ELSE pc' = "scan" /\ UNCHANGED response
  /\ UNCHANGED <<request, truth, measured_qubits_dict, k, measured_qubits,
                 assignment_matrices, nearest>>

(* Mutant: an earlier measurement into a key kept over a later one.      *)
ScanInstructionFirstWins ==
  /\ pc = "scan" /\ k <= Len(request.program.instrs)
  /\ LET ins == request.program.instrs[k] IN
     measured_qubits_dict' =
       IF ins.op = "measure" THEN measured_qubits_dict @@ (ins.bit :> ins.qubit)
                             ELSE measured_qubits_dict
  /\ k' = k + 1
  /\ UNCHANGED <<request, truth, pc, shots, measured_qubits, assignment_matrices,
                 nearest, response>>

(* One instruction of qc.data.  A measurement records its qubit under     *)
(* clbit._index, the index of the bit inside its own register; a later    *)
(* measurement into the same key overwrites an earlier one.               *)
ScanInstruction ==
  /\ pc = "scan" /\ k <= Len(request.program.instrs)
  /\ LET ins == request.program.instrs[k] IN
     measured_qubits_dict' =
       IF ins.op = "measure" THEN (ins.bit :> ins.qubit) @@ measured_qubits_dict
                             ELSE measured_qubits_dict
  /\ k' = k + 1
  /\ UNCHANGED <<request, truth, pc, shots, measured_qubits, assignment_matrices,
                 nearest, response>>

(* Mutant: the keys sorted in descending order.                          *)
SortAndCheckDescending ==
  /\ pc = "scan" /\ k > Len(request.program.instrs)
  /\ LET keys == SetToSortSeq(DOMAIN measured_qubits_dict, >)
         mq   == [j \in DOMAIN keys |-> measured_qubits_dict[keys[j]]]
     IN /\ measured_qubits' = mq
        /\ IF Len(mq) > MeasuredLimit
             THEN Fail /\ UNCHANGED k
             ELSE pc' = "amat" /\ k' = 1 /\ UNCHANGED response
  /\ UNCHANGED <<request, truth, shots, measured_qubits_dict, assignment_matrices,
                 nearest>>

(* The end of get_measured_qubits, the qubits in the order of their sorted *)
(* keys, then the guard n_qubits > 32 of ro_error_mitigation.             *)
SortAndCheck ==
  /\ pc = "scan" /\ k > Len(request.program.instrs)
  /\ LET keys == SetToSortSeq(DOMAIN measured_qubits_dict, <)
         mq   == [j \in DOMAIN keys |-> measured_qubits_dict[keys[j]]]
     IN /\ measured_qubits' = mq
        /\ IF Len(mq) > MeasuredLimit
             THEN Fail /\ UNCHANGED k
             ELSE pc' = "amat" /\ k' = 1 /\ UNCHANGED response
  /\ UNCHANGED <<request, truth, shots, measured_qubits_dict, assignment_matrices,
                 nearest>>

(* Mutant: the whole topology entry taken for its mes_error.             *)
BuildAmatWholeEntry ==
  /\ pc = "amat" /\ k <= Len(measured_qubits)
  /\ LET id == measured_qubits[k] IN
     IF id >= Len(request.topology)
       THEN Fail /\ UNCHANGED <<assignment_matrices, k>>
       ELSE /\ assignment_matrices' =
                 Append(assignment_matrices, request.topology[id + 1])
            /\ k' = k + 1
            /\ UNCHANGED <<pc, response>>
  /\ UNCHANGED <<request, truth, shots, measured_qubits_dict, measured_qubits,
                 nearest>>

(* One iteration of `for id in measured_qubits`: qubits[id] indexes the    *)
(* topology list by position (IndexError past its end) and its mes_error  *)
(* gives the assignment matrix.                                           *)
BuildAmat ==
  /\ pc = "amat" /\ k <= Len(measured_qubits)
  /\ LET id == measured_qubits[k] IN
     IF id >= Len(request.topology)
       THEN Fail /\ UNCHANGED <<assignment_matrices, k>>
       ELSE /\ assignment_matrices' =
                 Append(assignment_matrices,
                        [p0m1 |-> request.topology[id + 1].p0m1,
                         p1m0 |-> request.topology[id + 1].p1m0])
            /\ k' = k + 1
            /\ UNCHANGED <<pc, response>>
  /\ UNCHANGED <<request, truth, shots, measured_qubits_dict, measured_qubits,
                 nearest>>

(* quasi_probabilities fills a vector of 2^n_qubits entries, entry        *)
(* int(key, 2) for each key of the counts: a key of a classical bit above  *)
(* the measured ones raises IndexError.  With no shots the vector is       *)
(* divided by 0, every probability is NaN and int(v * shots) raises       *)
(* ValueError.                                                            *)
Unmitigable(counts, n, s) ==
  s = 0 \/ \E y \in DOMAIN counts : y \notin RC!Outcomes(n)

(* The counts as the vector of 2^n entries, zero where no key was given.   *)
CountsVector(counts, n) == [y \in RC!Outcomes(n) |-> Count(counts, y)]

(* LocalReadoutMitigator.quasi_probabilities, nearest_probability_        *)
(* distribution, binary_probabilities(num_bits=n_qubits) and the int      *)
(* conversion into counts.                                                *)
Mitigate ==
  /\ pc = "amat" /\ k > Len(measured_qubits)
  /\ IF Unmitigable(request.counts, Len(measured_qubits), shots)
       THEN Fail /\ UNCHANGED nearest
       ELSE LET vec == CountsVector(request.counts, Len(measured_qubits))
                p == RC!NearestProbability(RC!QuasiNum(assignment_matrices, vec),
                                          RC!QuasiDen(assignment_matrices, shots))
            IN /\ nearest' = p
               /\ response' = RC!MitigatedCounts(p, shots)
               /\ pc' = "done"
  /\ UNCHANGED <<request, truth, shots, measured_qubits_dict, k, measured_qubits,
                 assignment_matrices>>

(* ReqMitigation returns after the response; the request takes no further *)
(* step.                                                                  *)
Next == LoadProgram \/ ScanInstruction \/ SortAndCheck \/ BuildAmat \/ Mitigate

Spec == Init /\ [][Next]_vars

-----------------------------------------------------------------------------
Rates == {e \in [p0m1 : 0 .. R, p1m0 : 0 .. R] : e.p0m1 + e.p1m0 < R}

TypeOK ==
  /\ pc \in {"load", "scan", "amat", "done"}
  /\ shots \in Nat
  /\ measured_qubits \in Seq(Nat)
  /\ assignment_matrices \in Seq(Rates)
  /\ \/ response \in {NoResponse, ErrorResponse}
     \/ /\ DOMAIN response \subseteq RC!Outcomes(Len(measured_qubits))
        /\ \A x \in DOMAIN response : response[x] \in Nat

(* Counts that are exactly the readout-noise image of true counts are     *)
(* corrected back to those true counts: the per-qubit matrices are built  *)
(* from the right rates, inverted, and applied to the right bits, for     *)
(* every order in which the program measures its qubits into its bits.    *)
RecoversTrueCounts ==
  truth # NoTruth /\ pc = "done" =>
    /\ response # ErrorResponse
    /\ \A x \in DOMAIN truth : Count(response, x) = truth[x]

(* The distribution the counts are taken from is the Euclidean projection *)
(* of the quasi-probabilities onto the simplex (spec 4.5), for any counts *)
(* and error rates: the ascending sweep of nearest_probability_           *)
(* distribution agrees with the descending threshold rule.                *)
NearestIsProjection ==
  pc = "done" /\ response # ErrorResponse =>
    LET ref == RC!SimplexProjection(
                 RC!QuasiNum(assignment_matrices,
                             CountsVector(request.counts, Len(measured_qubits))),
                 RC!QuasiDen(assignment_matrices, shots))
    IN \A x \in DOMAIN ref :
         RC!SameValue(IF x \in DOMAIN nearest THEN nearest[x]
                                             ELSE [num |-> 0, den |-> 1],
                      ref[x])

(* The corrected counts never add up to more than the shots, and fall     *)
(* short of them by less than one count per outcome returned: the         *)
(* truncation of int(v * shots) loses less than one per entry.            *)
CountsWithinShots ==
  pc = "done" /\ response # ErrorResponse =>
    LET total == SumFunction(response) IN
    total <= shots /\ shots - total < Cardinality(DOMAIN response)

(* spec 4.5: the model is the product, over measuredQubits by ascending   *)
(* classical bit, of the matrices of the topology entries whose id is     *)
(* that qubit.  So the j-th assignment matrix built is that of the qubit  *)
(* last measured into the j-th targeted bit of the circuit, looked up by   *)
(* id, and no matrix is built for a qubit the topology does not list.      *)
AssignmentBySpec ==
  request.program # BadProgram =>
    LET mq == SpecMeasuredQubits(request.program) IN
    \A j \in DOMAIN assignment_matrices :
      /\ j \in DOMAIN mq
      /\ \E e \in Range(request.topology) : e.id = mq[j]
      /\ assignment_matrices[j] = RatesOf(request.topology, mq[j])

================================================================================
