---------------------------- MODULE MCWorkerPool ----------------------------
EXTENDS WorkerPool

\* all three servers, with both variants of the sizing code
MCServices == {"combiner", "estimator", "mitigator"}
\* no quota, a half CPU, one, one and a half and three CPUs of period 100
MCQuotas == {-1, 50, 100, 150, 300}
MCPeriods == {100}
\* os.cpu_count(): None, one and two cores
MCCpuCounts == {NoCpuCount, 1, 2}
\* the default "0", a negative value, and values at and over the allotment
MCOverrides == {-1, 0, 1, 2, 3}
=============================================================================
