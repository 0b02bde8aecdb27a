# TLA+ models of oqtopus-engine

This directory holds TLA+ models of the three gRPC services in this
repository, the TLC configurations that check them, and `PROJECT.json`.
`PROJECT.json` records, in machine-readable form, which definition models
which source lines, what each run checks, the mutants and findings, and the
hazard list.

## The system

Each service is a separate process. Each one is a `grpc.server` over a
`ThreadPoolExecutor` and serves stateless requests:

| service | source | RPCs | what it computes |
|---|---|---|---|
| circuit combiner | `src/circuit_combiner/src/circuit_combiner/circuit_combiner.py` | `Combine` | parses a list of OpenQASM 3 programs and places them side by side in one circuit (qubits and clbits at running offsets). It returns the combined program and the list of qubit counts (reversed) that the client uses to split the result. |
| estimator | `src/estimation/src/estimator.py` | `ReqEstimationPreProcess`, `ReqEstimationPostProcess` | pre: parses the Pauli-sum operator, completes the transpiler layout, groups commuting Paulis and emits one measurement circuit per group. Post: turns the counts of each group into an expectation value and standard deviation. |
| error mitigator | `src/mitigation/src/mitigator.py` | `ReqMitigation` | readout-error mitigation. It finds which qubit each classical bit measures and builds a 2×2 assignment matrix per measured qubit from the device topology. It inverts the noise, projects the result onto the probability simplex and returns integer counts. |

All three share two pieces of infrastructure, each copied per service:

- `get_cgroup_cpu_count` / `get_allowed_threads` size the worker pool at boot.
- `CustomTimedRotatingFileHandler` rotates the log daily.

The services do not call one another. A request shares no mutable state with
another request: the servicers hold only a logger, and logging emits under
the handler's lock. So the concurrency of the thread pool adds no
interleaving to model. The hard parts are the sequential control flow of
each handler, the order in which its checks fire, and the numerics.

The remaining files under `src/` are SSE test scripts and unit tests. They
hold no system state.

## Modules

| module | models | how |
|---|---|---|
| `CombineSpec` | what `Combine` promises | One atomic step maps a request `[qasm_array, max_qubits]` to its response `Expected(r)`. The cases are tried in the code's order: malformed array → FAILURE; any unparsable program → FAILURE; total qubits > `max(max_qubits, 0)` → INVALID_QUBIT_SIZE; any circuit `append` rejects → FAILURE; otherwise SUCCESS with the combined circuit and the reversed qubit counts. |
| `CircuitCombiner` | `Combine`, `deal_with_request_qasm`, `combine_circuits` | The loops become a program counter (`pc`), one step per iteration. `DealWithRequest` (json.loads of the array), `ParseOne` (qasm3.loads), `CheckLimit` (the size check), `PlaceOne` (one `append` with its qubit and clbit offsets and the prepend to `combined_qubits_list`) and `Finish` (dumps of the decomposed circuit). A circuit is a record of qubit and clbit counts, measurements and an abstract "composable" flag for what `append` rejects. `Abs == INSTANCE CombineSpec` with the identity mapping. |
| `ReadoutCorrection` | the numerics of `ro_error_mitigation` | Rates are multiples of 1/R and every value is an exact rational. Amat, its adjugate and its gap give the inverse. `QuasiNum / QuasiDen` is the inverse Kronecker product applied to the counts (`quasi_probabilities`). `Sweep` (RECURSIVE) is Smolin's ascending sweep, the algorithm of qiskit's `nearest_probability_distribution`. `MitigatedCounts` is `int(v * shots)`. The reference definitions are `NoisyCounts`, the forward noise model, and `SimplexProjection`, the Euclidean projection by the descending-threshold rule. |
| `ErrorMitigator` | `ReqMitigation`, `ro_error_mitigation`, `get_measured_qubits` | `LoadProgram` (shots = sum of counts, qasm3.loads). `ScanInstruction` covers one instruction of `qc.data`: a measurement writes `clbit._index ↦ qubit`, last write wins. `SortAndCheck` sorts the keys and applies the `n_qubits > 32` guard. `BuildAmat` does one `qubits[id].mes_error` lookup, by list position. `Mitigate` does the correction. `CountsVector` places each key `y` at entry `y` of the 2^n vector. `Unmitigable` covers its two exceptions: a key ≥ 2^n raises IndexError, and zero shots give NaN, so `int(NaN * 0)` raises ValueError. `Fail` is the `except` clause: log and return no counts. |
| `WorkerPool` | boot: `get_cgroup_cpu_count`, `get_allowed_threads`, `ThreadPoolExecutor(max_workers=...)` in `serve()` | The environment is a record: the service, the cgroup quota and period (or absent files), `os.cpu_count()` (or None) and the override (an integer, or a string `int()` rejects). The steps are `ReadCgroup`, `AllowThreads` and `CreatePool`, each in the variant of the service. The combiner's copy differs from the estimator's, which the mitigator repeats line for line. `Crash` is an exception escaping `serve()`. |
| `LogRotation` | `CustomTimedRotatingFileHandler` (both variants) on Python 3.11's `TimedRotatingFileHandler`, with `init_logger` | Time is the UTC day. A path is a sequence of names under the log directory (`<<LogName(d)>>` is `<dir>/<service>-<d>.log`), and `fs` maps each existing file to the days of the records it holds. The actions are `Emit` (a record before midnight), `EmitRollover` (the first record after midnight: `doRollover` with its namer, rename, backup listing and reopen, where any exception loses the record), `Restart` (a new process builds a new handler) and `Tick`. |
| `OperatorParser` | `create_qiskit_operator` | A library module with no state of its own. `EstimationPreprocess` instantiates it as `OP`. A term text is a sequence of one-character strings, and a parsed term is the set of its non-identity factors `<<qubit, pauli>>`. The coefficients pass through `complex()` and are left out. `CreateQiskitOperator` covers `ast.literal_eval` failure (ValueError), `Strip`, `SeparateFrom` (the `re.sub` that puts a space between a letter and a following digit; matches do not overlap), the bare-`"I"` expansion, `SplitWords`, `Label` (the even tokens joined), `IntOf` (int() of the odd tokens), `FromSparse` (the checks of `from_sparse_list`) and the wrapping of QiskitError as ParameterValueError. `Raised` tells an exception apart from an operator. `SpecTerm` is section 4.2's tokenization, the reference. |
| `EstimationPreprocess` | `ReqEstimationPreProcess`, `_preprocess` up to the grouping | The step `LoadProgram` covers qasm3.loads. `ParseOperator` calls `OP!CreateQiskitOperator(operators, qc.num_qubits)` and fails on any exception it raises. `MapObservable` covers the layout completion and `apply_layout`, and `Group` the backend construction. `Fail` is the `except` clause. The completion `list(set(full) - set(mapping_list))` is translated with CPython 3.11's set algorithm: `set_difference` either copies (ascending) or inserts into a fresh 8-slot table with linear probing, perturbation and resizing (`FindSlot`, `AddAll`, `Resize`), and `list()` reads the slots in order. The grouping, the measurement circuits and the JSON text are qiskit's, so the response is the mapped observable. |
| `PauliExpectation` | the arithmetic of `_postprocess` for one group | A counts map is a function from bit strings to counts, and every number is an exact unreduced rational. `DiagInds` is `_paulis2inds` (the label's last character is qubit 0). `Sign` is the parity sign of `_pauli_expval_with_variance` and `GroupDot` its dot product with the coefficients. `GroupTerms` holds the terms `sqrt(1 - e^2) * abs(c)`, with the square root kept symbolic. `FinalStd` is the division by `sqrt(shots)`, which gives NaN or Inf when shots = 0. |
| `EstimationPostprocess` | `ReqEstimationPostProcess`, `_postprocess` | `Load` is json.loads. `Accumulate` is one iteration of the `zip` loop: `ZipLen` is the shortest of the three lists, a length mismatch makes `np.dot` raise, and zero shots give NaN. `Finish` covers `counts_list[0]` (IndexError when the list is empty) and the final division. `Fail` is the `except` clause. |
| `Aggregation` | what `ReqEstimationPostProcess` promises | One atomic step maps a request to its response in closed form: `Aggregate(counts_list, record)`. `Abs == INSTANCE Aggregation WITH finished <- (pc = "done")` in `EstimationPostprocess`. |
| `MCCircuitCombiner`, `MCErrorMitigator`, `MCWorkerPool`, `MCLogRotation`, `MCEstimationPreprocess`, `MCEstimationPostprocess` | model values and finite inputs for TLC | — |

A program in `ErrorMitigator` has registers (`cregs`, their sizes) and
instructions `[op, qubit, creg, bit]`. This is exactly the information
`get_measured_qubits` reads. A topology is the list `device_topology.qubits`
of `[id, p0m1, p1m0]`.

## Runs

| run | cfg | expect | checks |
|---|---|---|---|
| `combine` | `MCCircuitCombiner.cfg` | pass | `TypeOK`; `NoOverlap`; `CombineRefinement`. `NoOverlap`: every circuit placed so far occupies its own qubits and clbits, all in range. `CombineRefinement`: the step-by-step handler implements the atomic `CombineSpec`. That covers every status and the order in which the checks fire: parse errors before the size check, an `append` failure after partial placement, and the boundary and negative clamp of the qubit limit. |
| `combine_demux` | `MCCircuitCombinerDemux.cfg` | violation | `Demultiplexable`: the list returned can split the combined bitstring back into each circuit's bits. It fails for a circuit with fewer clbits than qubits, because the list holds qubit counts while the bitstring is over clbits. |
| `mitigate` | `MCErrorMitigator.cfg` | pass | `TypeOK`; `RecoversTrueCounts`; `NearestIsProjection`; `CountsWithinShots`; `AssignmentBySpec`. `AssignmentBySpec` (spec 4.5): the j-th assignment matrix is that of the topology entry whose id is the qubit last measured into the j-th targeted bit, and none is built for a qubit the topology lacks. `RecoversTrueCounts`: counts that are exactly the noisy image of true counts are corrected back to them, for every measurement order the programs use, including re-measurement of a bit. `NearestIsProjection`: the sweep equals the Euclidean projection for all counts and rates. `CountsWithinShots`: the truncated counts sum to at most shots and lose less than one per outcome. |
| `mitigate_registers` | `MCErrorMitigatorRegisters.cfg` | violation | `AssignmentBySpec` (spec 4.5): a program with two one-bit registers loses a measured qubit, because `clbit._index` is register-local. The first matrix is then built from the second qubit's rates. |
| `pool` | `MCWorkerPool.cfg` | pass | `TypeOK` (including: a built pool has workers); `PoolSizedToAllotment`. With a known core count and at least one whole CPU of quota, each server boots with the override if it lies in 1..allotment, and with the whole allotment otherwise. |
| `pool_boot` | `MCWorkerPoolBoot.cfg` | violation | `PoolBoots` (spec section 5): every environment boots a server. It fails for a quota below one CPU: `quota // period` = 0, then `ThreadPoolExecutor(0)` raises in all servers. In the combiner it also fails for `os.cpu_count()` = None: `min(.., None)` or `int > None` raises TypeError. |
| `logs` | `MCLogRotation.cfg` | pass | `TypeOK`; `RecordsKept`; `DatedFile`. `RecordsKept`: no record written is ever gone from the directory, across rollovers and same-day restarts. `DatedFile`: every file holds only records of the day its name carries. Both variants, days 0..3. |
| `log_estimator` | `MCLogRotationEstimator.cfg` | violation | `NoRecordLost`: at the first midnight the estimator's (and mitigator's) `_open` nests the new name under the renamed file and the open fails. Every later rollover fails listing the missing parent directory. |
| `log_combiner` | `MCLogRotationCombiner.cfg` | violation | `NoRecordLost`: the combiner's `namer` is `custom_namer`, which takes no `default_name`. So `rotation_filename` raises TypeError inside `emit` and the record is lost. `rolloverAt` is not advanced, so every later record retries the rollover and is lost too, until the process restarts. |
| `estimate_pre` | `MCEstimationPreprocess.cfg` | pass | `TypeOK` (only ValueError and ParameterValueError escape the parser); `ParseSound`; `RespectsClientLayout`. `ParseSound`: every operator the handler goes on with is, term by term, what section 4.2's tokenization makes of the text. So the strip, the substitution, the `"I"` expansion, the even/odd split and `from_sparse_list`'s checks between them reject every text they would misread. `RespectsClientLayout`: every preprocessed observable is the operator moved by a permutation of the circuit's qubits that keeps every placement in the client's `mapping_list`. The parse is checked over every text of 1..5 characters from `X Z I 0 1` and space, and over two-term operators. The layout is checked over every mapping_list of 0..4 entries below 4, on circuits of 1..3 qubits. |
| `estimate_post` | `MCEstimationPostprocess.cfg` | pass | `TypeOK`; `ExpvalMatchesReference`; `AggregationRefinement`. `ExpvalMatchesReference`: for counts aligned one to one with the groups, the expectation is the section 4.4 sum, written independently over labels and keys as aligned strings. `AggregationRefinement`: the loop implements `Aggregation`. |
| `estimate_post_zip` | `MCEstimationPostprocessZip.cfg` | violation | `AllGroupsUsed` (sections 6 and 7: a result is never partial). A counts_list with fewer entries than groups returns a success computed from the first groups only. |

Every property of a passing run has a mutant in `PROJECT.json`: a plausible
bug in a mapped definition (`>=` for `>` in the limit, clbit offsets advanced
by qubit counts, keys sorted descending, a rescale that keeps the dropped
count, and so on). TLC reports the property violated for each one.

## Findings

- **Combiner, demultiplexing list** (`circuit_combiner.py:185`): the list is
  built from `num_qubits` and is only right when every circuit has as many
  clbits as qubits.
- **Mitigator, register-local clbit index** (`mitigator.py:139`): with several
  classical registers, measurements into different registers collide.
- **Combiner, uncallable namer** (`circuit_combiner.py:272`): `namer` is
  `custom_namer(self)`, and every rollover raises TypeError inside `emit`.
- **Estimator, partial results** (`estimator.py:180`): `zip` drops the groups
  that have no counts and still reports success.

- **Worker pool, zero workers** (`circuit_combiner.py:213`, `estimator.py:256`,
  `mitigator.py:170`): a fractional CPU quota stops every server at boot.
  In the combiner, an unknown core count does too.

- **Logging stops at the first midnight** in every service
  (`circuit_combiner.py:272`, `estimator.py:298`, `mitigator.py:212`).
  Nothing is logged until the process restarts. The combiner's
  `custom_namer` would also, once callable, rename the finished day's file
  to the new day's name (`DatedFile` catches that variant).

Further disagreements were shown by TLC while modelling. Each was a
one-property violation configuration. They are kept out of the regular runs
so that each run asks a distinct question, and the hazard list in
`PROJECT.json` records them:

- `qubits[id]` (`mitigator.py:85`) assumes that the topology lists qubit `i`
  at position `i`. With two entries in the other order, `AssignmentBySpec`
  fails.
- `int(v*shots)` (`mitigator.py:108`) truncates where spec 4.5 says `round`.
  The spec's own golden vector (465, 34, 45, 454) is the truncated one.
- A program that leaves a lower classical bit unmeasured (qubit 0 into
  bit 1 only, `MCGap`) fails with IndexError (`mitigator.py:103`) as soon as
  its counts hold a key with that bit. Spec 4.5 says bits never targeted are
  simply absent.
- Empty or zero counts (`mitigator.py:73`) fail with ValueError from
  `int(NaN * 0)`, rather than returning empty counts.
- Layout completion (`estimator.py:141`) fills only `0..max(layout)`. So `[0]`
  on a two-qubit circuit stays short and the request fails, although
  spec 4.3 names only duplicates as inconsistent.
- The completion order (`estimator.py:142`) is CPython's set order. On ten
  qubits, `[0,1,2,3,4,9]` is completed as `[0,1,2,3,4,9,8,5,6,7]`, not in
  ascending order (n = 10 is the smallest case). It is still a valid
  permutation that keeps the client's entries.
- The tokenizer (`estimator.py:218`) separates only a letter followed by a
  digit, so the spec's own example `"X0Z1"` raises ValueError (`"I1I0"` is
  the shortest such text).
- Counts with no shots (`estimator.py:184`) give NaN for both expectation
  and deviation, returned as success. Section 8 says the identity observable
  yields 1.0 and 0.0 for any counts.
- The deviation (`estimator.py:190-195`) is `sum sqrt(1-e^2)|c| / sqrt(s)`.
  Section 4.4 as written divides by `sqrt(s)` once more: its
  `variance = (1-e^2)/s` is then divided by `sqrt(shots)` again.

## Bounds and why they suffice

- **Combiner.** Up to `MaxPrograms = 3` programs, drawn from five circuit
  shapes: empty, 1q1c, 2q2c with crossed measurement, 2q1c, and one that
  `append` rejects. `max_qubits` ∈ {-1, 0, 2, 3}. Three programs give
  non-trivial offsets for the last circuit. The limit values hit below, at
  and above the total, and the negative clamp.
- **Mitigator.** Rates are multiples of 1/R with R = 10, drawn from
  {0, 0.1, 0.3}. Two topologies of two qubits are listed in id order.
  - There are eight programs: straight, crossed and re-measured two-bit
    programs, one-bit, a three-qubit program over the guard, one measuring a
    qubit the topology lacks, one leaving bit 0 unmeasured, and (in the
    register run only) two registers.
  - `MeasuredLimit = 2` stands for the code's 32. It puts one program on
    each side of the guard.
  - Arbitrary counts have 0..2 shots over any subset of the program's
    outcomes: empty counts, missing keys, and keys of an unmeasured bit. Noisy counts are
    generated exactly from true counts of weight R^n, so the inverse
    recovers integers.
  - Floating-point error is not modelled. All arithmetic is exact, which is
    what the properties are about.

- **Worker pool.** All three services, with period 100 and quota -1, 50,
  100, 150 and 300: none, below one CPU, exactly one, fractional above one,
  and above the cores. `os.cpu_count()` ∈ {None, 1, 2}. Overrides are -1,
  0 (the default), 1, 2, 3 and unparsable. That reaches both sides of every
  comparison in the two variants.

- **Logs.** Days 0..3 give a rollover, a second rollover after a failed
  one, and restarts before and after each. `getFilesToDelete` is modelled
  as the directory listing only: each name is rotated at most once, so 30
  backups are never exceeded.

- **Operator parser** (inside the pre-process run). Texts of 1..5 characters over `X Z I 0 1` and space
  (every one, about 9,000) on 1 or 2 qubits, plus two-term operators. That
  covers unspaced terms, repeated and out-of-range indices, odd token counts
  and the bare `I`.
- **Pre-process.** Every mapping_list of length 0..4 over 0..3 on 1..3
  qubits: empty, partial, full, too long, with duplicates and off the
  circuit. Three observables touch qubits 0, 1 and 2. At these sizes the set
  order is ascending. The ten-qubit case that differs was checked
  separately (see Findings).
- **Post-process.** Two-qubit labels. Counts maps have at most two shots in
  total, and counts_lists have length 0..2. The records are none, one or
  two groups, plus a record whose coefficients are shorter than its labels.
  The labels `IZ`, `ZZ` and `ZI` differ under reversal, and unequal
  coefficients catch a swapped pairing.

## Fairness

Every property is a safety property or the refinement of a safety
specification, checked without fairness. The handlers' loops run over
finite lists, so each one terminates by its shape. A liveness property
such as "every request is answered" would hold whatever the loop bodies
do, and tells nothing about the code; none is checked. Each request is one
finite run of a handler that ends at `pc = "done"`, so the cfgs say
`CHECK_DEADLOCK FALSE`: the servicer method returns and the request takes
no further step.

## Not modelled

- **Commuting grouping and measurement circuits** (`_preprocess_pub`,
  `qasm3.dumps` at `estimator.py:150-171`). These are qiskit internals, and
  the model stops at the mapped observable.
- **Coefficients in the parser**: `complex()` of a literal is left out.
- **Floating point in the mitigator.** In IEEE doubles, `int(0.29 * 100)`
  is 28, so even zero-error matrices can lose a count. Section 8 says they
  reproduce the input counts. TLC has no floating point, so all arithmetic
  is exact rationals, and this loss is not modelled.
- **What a client receives for a `None` response**: grpc transport. Every
  handler's `except` path is modelled as `Fail`.
- **gRPC boot and transport**: pure I/O. It is kept out of the models beyond
  the handler's own control flow.
- **Imports, module constants and debug logging**: the lines no
  definition maps are these. They change no state that a property tells
  apart, so every handler's control flow is already modelled in full.
- **qiskit internals** (transpile, `qasm3` text, `decompose`): each is
  abstracted to the outcome the handler branches on.
