------------------------------ MODULE WorkerPool ------------------------------
(***************************************************************************)
(* Boot-time sizing of the gRPC worker pool, the same in all three        *)
(* servers up to two variants: get_cgroup_cpu_count reads the cgroup CPU  *)
(* quota and period, get_allowed_threads applies the <SERVICE>_MAX_THREADS *)
(* override, and serve() builds futures.ThreadPoolExecutor(max_workers=   *)
(* num_workers).  The combiner's copy handles os.cpu_count() = None       *)
(* differently from the estimator's and mitigator's (which are the same   *)
(* line for line).                                                        *)
(*                                                                         *)
(* The environment is a record: the service, the cgroup quota and period  *)
(* (or NoCgroup when the files are absent), os.cpu_count() (or NoCpuCount *)
(* for None) and the override string, either a decimal integer or        *)
(* BadInt, a string int() rejects.                                        *)
(***************************************************************************)
EXTENDS Integers

CONSTANTS
  Services,      \* subset of {"combiner", "estimator", "mitigator"}
  Quotas,        \* cfs_quota_us values, -1 meaning no quota
  Periods,       \* cfs_period_us values (positive)
  CpuCounts,     \* os.cpu_count() values, NoCpuCount standing for None
  Overrides,     \* integer values of MAX_THREADS
  NoCgroup, NoCpuCount, BadInt,
  BootError      \* an exception escaped serve() before the server started

VARIABLES
  env,
  pc,
  max_allowed_threads,
  num_workers,
  pool           \* the pool's max_workers once built, or BootError

vars == <<env, pc, max_allowed_threads, num_workers, pool>>

Environments ==
  [service : Services, cgroup : [quota : Quotas, period : Periods] \cup {NoCgroup},
   cpu : CpuCounts, max_threads : Overrides \cup {BadInt}]

MinOf(a, b) == IF a <= b THEN a ELSE b

(* circuit_combiner.py: os.cpu_count() may be None; with a quota set,    *)
(* min(quota // period, None) raises TypeError, which only a             *)
(* FileNotFoundError handler surrounds.                                  *)
CombinerCgroupCpuCount(e) ==
  IF e.cgroup = NoCgroup \/ e.cgroup.quota = -1 THEN e.cpu
  ELSE IF e.cpu = NoCpuCount THEN BootError
  ELSE MinOf(e.cgroup.quota \div e.cgroup.period, e.cpu)

(* Mutant: the quota not capped by the host's cores.                     *)
CgroupCpuCountUncapped(e) ==
  LET cpu == IF e.cpu = NoCpuCount THEN 1 ELSE e.cpu IN
  IF e.cgroup = NoCgroup THEN e.cpu
  ELSE IF e.cgroup.quota = -1 THEN cpu
  ELSE e.cgroup.quota \div e.cgroup.period

(* estimator.py / mitigator.py: None becomes 1 when the cgroup files are *)
(* read, but is returned as is when they are absent.                     *)
CgroupCpuCount(e) ==
  LET cpu == IF e.cpu = NoCpuCount THEN 1 ELSE e.cpu IN
  IF e.cgroup = NoCgroup THEN e.cpu
  ELSE IF e.cgroup.quota = -1 THEN cpu
  ELSE MinOf(e.cgroup.quota \div e.cgroup.period, cpu)

(* circuit_combiner.py: only ValueError (from int) is caught; comparing  *)
(* an int with a None maximum raises TypeError.                          *)
CombinerAllowedThreads(e, max) ==
  IF e.max_threads = BadInt THEN max
  ELSE IF max = NoCpuCount THEN BootError
  ELSE IF e.max_threads > max \/ e.max_threads < 1 THEN max
  ELSE e.max_threads

(* estimator.py / mitigator.py: a None maximum becomes 1; a bad or out-of-*)
(* range override falls back to the maximum.                             *)
AllowedThreads(e, max) ==
  LET m == IF max = NoCpuCount THEN 1 ELSE max IN
  IF e.max_threads = BadInt \/ e.max_threads > m \/ e.max_threads < 1 THEN m
  ELSE e.max_threads

(* Mutant: the executor accepts any max_workers.                        *)
ExecutorWorkersUnchecked(e, n) ==
  IF n = NoCpuCount
    THEN MinOf(32, (IF e.cpu = NoCpuCount THEN 1 ELSE e.cpu) + 4)
  ELSE n

(* ThreadPoolExecutor(max_workers): None means min(32, (os.cpu_count() or *)
(* 1) + 4); a value <= 0 raises ValueError.                               *)
ExecutorWorkers(e, n) ==
  IF n = NoCpuCount
    THEN MinOf(32, (IF e.cpu = NoCpuCount THEN 1 ELSE e.cpu) + 4)
  ELSE IF n <= 0 THEN BootError
  ELSE n

Init ==
  /\ env \in Environments
  /\ pc = "cgroup"
  /\ max_allowed_threads = 0
  /\ num_workers = 0
  /\ pool = 0

Crash == pc' = "done" /\ pool' = BootError

(* get_cgroup_cpu_count, in the variant of the service.                  *)
ReadCgroup ==
  /\ pc = "cgroup"
  /\ LET r == IF env.service = "combiner" THEN CombinerCgroupCpuCount(env)
                                          ELSE CgroupCpuCount(env)
     IN IF r = BootError
          THEN Crash /\ UNCHANGED max_allowed_threads
          ELSE max_allowed_threads' = r /\ pc' = "threads" /\ UNCHANGED pool
  /\ UNCHANGED <<env, num_workers>>

(* The rest of get_allowed_threads.                                       *)
AllowThreads ==
  /\ pc = "threads"
  /\ LET n == IF env.service = "combiner"
                THEN CombinerAllowedThreads(env, max_allowed_threads)
                ELSE AllowedThreads(env, max_allowed_threads)
     IN IF n = BootError
          THEN Crash /\ UNCHANGED num_workers
          ELSE num_workers' = n /\ pc' = "pool" /\ UNCHANGED pool
  /\ UNCHANGED <<env, max_allowed_threads>>

(* serve(): grpc.server(futures.ThreadPoolExecutor(max_workers=...)).    *)
CreatePool ==
  /\ pc = "pool"
  /\ pool' = ExecutorWorkers(env, num_workers)
  /\ pc' = "done"
  /\ UNCHANGED <<env, max_allowed_threads, num_workers>>

(* The server then serves until terminated; boot takes no further step.  *)
Next == ReadCgroup \/ AllowThreads \/ CreatePool

Spec == Init /\ [][Next]_vars

-----------------------------------------------------------------------------
TypeOK ==
  /\ env \in Environments
  /\ pc \in {"cgroup", "threads", "pool", "done"}
  /\ max_allowed_threads \in Nat \cup {NoCpuCount}
  /\ num_workers \in Nat \cup {NoCpuCount}
  /\ pool \in Nat \cup {BootError}
  /\ pc = "done" => pool # 0

(* The effective CPU allotment of spec section 5, for a host whose core  *)
(* count is known: the quota in whole CPUs, never more than the cores.   *)
Allotment(e) ==
  IF e.cgroup = NoCgroup \/ e.cgroup.quota = -1 THEN e.cpu
  ELSE MinOf(e.cgroup.quota \div e.cgroup.period, e.cpu)

(* Spec section 5: on a host with a known core count and an allotment of *)
(* at least one CPU, the server starts with a pool of the override if it *)
(* is a number within the allotment, and of the whole allotment          *)
(* otherwise: the two fallbacks of get_allowed_threads and the min() of  *)
(* get_cgroup_cpu_count together.                                        *)
PoolSizedToAllotment ==
  pc = "done" /\ env.cpu # NoCpuCount /\ Allotment(env) >= 1 =>
    pool = IF env.max_threads \in 1 .. Allotment(env) THEN env.max_threads
                                                      ELSE Allotment(env)

(* Spec section 5: a failure never takes down the worker pool; every     *)
(* environment the container can present, a fractional CPU quota        *)
(* (quota < period) and an undeterminable core count included, boots a    *)
(* server with at least one worker.                                      *)
PoolBoots ==
  pc = "done" => pool # BootError
=============================================================================
