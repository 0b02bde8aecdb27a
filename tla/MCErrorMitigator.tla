--------------------------- MODULE MCErrorMitigator ---------------------------
(***************************************************************************)
(* Model of ErrorMitigator for TLC.  Rates are 0, 0.1 and 0.3; the size   *)
(* guard is lowered from 32 to 2 so that both of its sides are reached    *)
(* with at most three measured qubits.                                    *)
(***************************************************************************)
EXTENDS ErrorMitigator

Measure(q, r, b) == [op |-> "measure", qubit |-> q, creg |-> r, bit |-> b]
Gate(q) == [op |-> "gate", qubit |-> q, creg |-> 0, bit |-> 0]

\* qubit i measured into bit i
MCStraight == [cregs |-> <<2>>, instrs |-> <<Measure(0, 1, 0), Measure(1, 1, 1)>>]
\* qubits measured crosswise, with a gate in between
MCCrossed == [cregs |-> <<2>>, instrs |-> <<Measure(1, 1, 0), Gate(0), Measure(0, 1, 1)>>]
\* bit 0 measured twice: the last measurement, of qubit 1, wins
MCRemeasure == [cregs |-> <<2>>,
                instrs |-> <<Measure(0, 1, 0), Measure(1, 1, 1), Measure(1, 1, 0)>>]
\* one bit, from qubit 1
MCSingle == [cregs |-> <<1>>, instrs |-> <<Measure(1, 1, 0)>>]
\* three measured qubits: over the size guard
MCWide == [cregs |-> <<3>>,
           instrs |-> <<Measure(0, 1, 0), Measure(1, 1, 1), Measure(2, 1, 2)>>]
\* a qubit the two-entry topology does not describe
MCOffTopology == [cregs |-> <<1>>, instrs |-> <<Measure(2, 1, 0)>>]
\* qubit 0 measured into bit 1; bit 0 is never written
MCGap == [cregs |-> <<2>>, instrs |-> <<Measure(0, 1, 1)>>]
\* two classical registers of one bit each
MCTwoRegisters == [cregs |-> <<1, 1>>, instrs |-> <<Measure(0, 1, 0), Measure(1, 2, 0)>>]

MCRateValues == {0, 1, 3}
MCRates == {e \in [p0m1 : MCRateValues, p1m0 : MCRateValues] : e.p0m1 + e.p1m0 < R}

\* device_topology.qubits listed by ascending id
MCOrderedTopologies ==
  {<<[id |-> 0] @@ a, [id |-> 1] @@ b>> : a, b \in MCRates}

MCPrograms == {MCStraight, MCCrossed, MCRemeasure, MCSingle, MCWide, MCOffTopology, MCGap}
MCRegisterPrograms == {MCStraight, MCTwoRegisters}
================================================================================
