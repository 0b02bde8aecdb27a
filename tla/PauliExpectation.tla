---------------------------- MODULE PauliExpectation ----------------------------
(***************************************************************************)
(* The arithmetic of Estimator._postprocess (estimation/src/estimator.py) *)
(* for one measurement group: qiskit's _pauli_expval_with_variance on the *)
(* group's counts, the dot products of the loop body and the final        *)
(* division by sqrt(shots).  A counts map sends bit strings (sequences of *)
(* 0/1, most significant bit first, as in the proto's string keys) to     *)
(* counts; a label is a sequence of "I"/"Z" in qiskit's order, its last   *)
(* character being qubit 0.  Real numbers are exact: a rational is a      *)
(* record [num, den], never reduced; a standard deviation accumulator is  *)
(* the list of its terms sqrt(variance) * |coeff|.  numpy's 0/0 and x/0   *)
(* are the values NaN and Inf.                                            *)
(***************************************************************************)
EXTENDS Integers, Sequences, FiniteSets, Functions

CONSTANTS
  Width,         \* the number of measured bits of every group
  NaN, Inf       \* numpy float results of 0/0 and x/0

Bits == 0 .. Width - 1
BitStrings == [1 .. Width -> {0, 1}]

Rat(n, d) == [num |-> n, den |-> d]
RAdd(a, b) == Rat(a.num * b.den + b.num * a.den, a.den * b.den)
REq(a, b) == a.num * b.den = b.num * a.den

(* Counts(...): a key is read by int(bitstring, 2).                        *)
BinToInt(b) == LET RECURSIVE Val(_) Val(i) == IF i = 0 THEN 0 ELSE 2 * Val(i - 1) + b[i]
               IN Val(Width)

Bit(x, q) == (x \div (2 ^ q)) % 2

(* Mutant: the label read left to right, its first character qubit 0.     *)
DiagIndsLeftToRight(l) == {q \in Bits : l[q + 1] # "I"}

(* _paulis2inds: the qubits on which the label is not the identity.       *)
DiagInds(l) == {q \in Bits : l[Width - q] # "I"}

(* (-1) ** _parity(diag_inds[k] & outcome)                                 *)
Sign(l, x) ==
  IF Cardinality({q \in DiagInds(l) : Bit(x, q) = 1}) % 2 = 0 THEN 1 ELSE -1

Shots(c) == SumFunction(c)

(* _pauli_expval_with_variance for one label: the numerator of the        *)
(* expectation, over the denominator Shots(c).                             *)
ExpvalNum(c, l) == SumFunction([b \in DOMAIN c |-> c[b] * Sign(l, BinToInt(b))])

(* The loop body for one group: exp_value += dot(exp_values, coeffs) and   *)
(* stds += dot(variances ** 0.5, abs(coeffs)), variance = 1 - e^2.  With   *)
(* no shots, expvals /= 0 makes every expectation NaN.                     *)
GroupTerms(c, ls, cs) ==
  [j \in 1 .. Len(ls) |->
     LET e == Rat(ExpvalNum(c, ls[j]), Shots(c))
     IN [var |-> Rat(e.den * e.den - e.num * e.num, e.den * e.den),
         absc |-> IF cs[j] < 0 THEN -cs[j] ELSE cs[j]]]

GroupDot(c, ls, cs) ==
  Rat(SumFunction([j \in 1 .. Len(ls) |-> cs[j] * ExpvalNum(c, ls[j])]), Shots(c))

StdZero(s) == \A i \in DOMAIN s : s[i].var.num = 0 \/ s[i].absc = 0

(* Mutant: the division by sqrt(0) taken as an ordinary quotient.         *)
FinalStdUnguarded(s, shots) ==
  IF s = NaN THEN NaN ELSE [terms |-> s, shots |-> shots]

(* stds /= np.sqrt(shots), shots the total of counts_list[0].              *)
FinalStd(s, shots) ==
  IF s = NaN THEN NaN
  ELSE IF shots = 0 THEN (IF StdZero(s) THEN NaN ELSE Inf)
  ELSE [terms |-> s, shots |-> shots]

=============================================================================
