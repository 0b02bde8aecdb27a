-------------------------- MODULE ReadoutCorrection --------------------------
(***************************************************************************)
(* The arithmetic of ErrorMitigator.ro_error_mitigation (mitigator.py), in *)
(* exact rationals.  Error rates are multiples of 1/R and a rational is a  *)
(* record [num, den] with den > 0.  Outcomes are integers; bit i of an    *)
(* outcome is classical bit i, read by measured_qubits[i+1], which is the  *)
(* qubit order LocalReadoutMitigator gets from the list of assignment     *)
(* matrices.  Floating-point rounding is not modelled: every value is the *)
(* exact value the float computation approximates.                        *)
(*                                                                         *)
(* The module also holds the reference definitions the code is checked    *)
(* against: the noise model of spec section 3 applied forwards, and the   *)
(* Euclidean projection onto the probability simplex by the descending    *)
(* threshold rule of spec section 4.5.                                    *)
(***************************************************************************)
EXTENDS Integers, Sequences, SequencesExt, Functions, FiniteSets, TLC

CONSTANT R   \* rates are given as numerators over R

Bit(x, i) == (x \div 2^i) % 2
Outcomes(n) == 0 .. 2^n - 1

(* R times amat of the code, [[1 - p0m1, p1m0], [p0m1, 1 - p1m0]]:         *)
(* entry [o, t] is R * Pr(read o | true t).                               *)
Amat(e) == [o \in 0 .. 1, t \in 0 .. 1 |->
              CASE o = 0 /\ t = 0 -> R - e.p0m1
                [] o = 0 /\ t = 1 -> e.p1m0
                [] o = 1 /\ t = 0 -> e.p0m1
                [] o = 1 /\ t = 1 -> R - e.p1m0]

(* The inverse of amat is Adj(e) / Gap(e): la.inv in LocalReadoutMitigator.*)
Adj(e) == [t \in 0 .. 1, o \in 0 .. 1 |->
             CASE t = 0 /\ o = 0 -> R - e.p1m0
               [] t = 0 /\ o = 1 -> -e.p1m0
               [] t = 1 /\ o = 0 -> -e.p0m1
               [] t = 1 /\ o = 1 -> R - e.p0m1]
Gap(e) == R - e.p0m1 - e.p1m0

Product(f) == FoldFunction(LAMBDA a, b : a * b, 1, f)

(* Entry [x, y] of the Kronecker product of the per-qubit matrices M(e),  *)
(* matrix i acting on bit i - 1.                                          *)
Kron(M(_), rates, x, y) ==
  Product([i \in DOMAIN rates |-> M(rates[i])[Bit(x, i - 1), Bit(y, i - 1)]])

(* quasi_probabilities: A^-1 (counts / shots).  Entry x is                *)
(* QuasiNum(..)[x] / QuasiDen(..); the sum of the entries is 1.           *)
QuasiNum(rates, counts) ==
  LET n == Len(rates) IN
  [x \in Outcomes(n) |->
     SumFunction([y \in Outcomes(n) |-> Kron(Adj, rates, x, y) * counts[y]])]
QuasiDen(rates, shots) == shots * Product([i \in DOMAIN rates |-> Gap(rates[i])])

(* nearest_probability_distribution (Smolin, Gambetta, Smith): visit the  *)
(* entries in ascending order; an entry that the mass dropped so far,     *)
(* spread over the entries not dropped, cannot lift to 0 is dropped and   *)
(* its mass carried on; every other entry is kept, lifted by that share.  *)
(* v are numerators over the common denominator d; beta the mass dropped, *)
(* k the number of entries not dropped (num_elements).  The result maps   *)
(* each kept outcome to its probability.                                  *)
(* Mutant: num_elements not decremented when an entry is dropped.        *)
RECURSIVE SweepKeepCount(_, _, _, _, _)
SweepKeepCount(s, beta, k, d, kept) ==
  IF s = <<>> THEN kept
  ELSE LET x == Head(s) IN
       IF x.val * k + beta < 0
         THEN SweepKeepCount(Tail(s), beta + x.val, k, d, kept)
         ELSE SweepKeepCount(Tail(s), beta, k, d,
                    kept @@ (x.key :> [num |-> x.val * k + beta, den |-> k * d]))

RECURSIVE Sweep(_, _, _, _, _)
Sweep(s, beta, k, d, kept) ==
  IF s = <<>> THEN kept
  ELSE LET x == Head(s) IN
       IF x.val * k + beta < 0
         THEN Sweep(Tail(s), beta + x.val, k - 1, d, kept)
         ELSE Sweep(Tail(s), beta, k, d,
                    kept @@ (x.key :> [num |-> x.val * k + beta, den |-> k * d]))

Ascending(a, b) == a.val < b.val \/ (a.val = b.val /\ a.key < b.key)

NearestProbability(v, d) ==
  Sweep(SetToSortSeq({[key |-> x, val |-> v[x]] : x \in DOMAIN v}, Ascending),
        0, Cardinality(DOMAIN v), d, <<>>)

(* binary_probabilities then {k: int(v * shots)}: int truncates the       *)
(* non-negative count towards zero.  An outcome's bitstring is a          *)
(* bijection of the outcome, so outcomes stand for the keys.              *)
(* Mutant: the counts rounded up.                                        *)
MitigatedCountsCeiling(p, shots) ==
  [x \in DOMAIN p |-> (p[x].num * shots + p[x].den - 1) \div p[x].den]

MitigatedCounts(p, shots) == [x \in DOMAIN p |-> (p[x].num * shots) \div p[x].den]

--------------------------------------------------------------------------------
(* Reference definitions.                                                 *)

(* Counts observed when the true counts t pass through the readout noise  *)
(* of spec section 3; exact when R^n divides every entry of t.            *)
NoisyCounts(rates, t) ==
  LET n == Len(rates) IN
  [y \in Outcomes(n) |->
     SumFunction([x \in Outcomes(n) |-> Kron(Amat, rates, y, x) * t[x]]) \div R^n]

(* The Euclidean projection of v / d (entries summing to 1) onto the      *)
(* simplex: with u the entries in descending order and c(j) the sum of    *)
(* the first j, rho is the last j with u_j > (c(j) - 1) / j and the       *)
(* projection is max(v - tau, 0) with tau = (c(rho) - 1) / rho.           *)
SimplexProjection(v, d) ==
  LET u   == SetToSortSeq({[key |-> x, val |-> v[x]] : x \in DOMAIN v},
                          LAMBDA a, b : Ascending(b, a))
      c(j) == SumFunction([i \in 1 .. j |-> u[i].val])
      rho == Max({j \in 1 .. Len(u) : u[j].val * j > c(j) - d})
      Lift(x) == v[x] * rho - (c(rho) - d)
  IN [x \in DOMAIN v |-> [num |-> IF Lift(x) > 0 THEN Lift(x) ELSE 0,
                          den |-> rho * d]]

RECURSIVE GCD(_, _)
GCD(a, b) == IF b = 0 THEN a ELSE GCD(b, a % b)

(* A rational in lowest terms, so that equal values are equal records    *)
(* without multiplying large numerators and denominators.                *)
Reduced(a) ==
  LET g == GCD(IF a.num < 0 THEN -a.num ELSE a.num, a.den)
  IN [num |-> a.num \div g, den |-> a.den \div g]

SameValue(a, b) == Reduced(a) = Reduced(b)
================================================================================
