CONSTANTS
  Services <- MCServices
  Quotas <- MCQuotas
  Periods <- MCPeriods
  CpuCounts <- MCCpuCounts
  Overrides <- MCOverrides
  NoCgroup = NoCgroup
  NoCpuCount = NoCpuCount
  BadInt = BadInt
  BootError = BootError

SPECIFICATION Spec

INVARIANT PoolBoots
\* boot ends once the pool is built (or serve() has raised)
CHECK_DEADLOCK FALSE
