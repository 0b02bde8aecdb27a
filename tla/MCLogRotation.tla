---------------------------- MODULE MCLogRotation ----------------------------
EXTENDS LogRotation

\* both variants of the handler; the mitigator's is the estimator's
MCServices == {"combiner", "estimator"}
\* a rolled-over combiner handler
MCCombiner == {"combiner"}
\* a rolled-over estimator or mitigator handler
MCEstimator == {"estimator"}
=============================================================================
