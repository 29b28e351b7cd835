\* Two workers, two map and two reduce tasks, one slow attempt per task and
\* one crash: stale attempts, half-published map tasks, re-execution, and a
\* survivor that finishes the job.  No symmetry, since liveness is checked.
SPECIFICATION FairSpec
CONSTANTS
  Workers = {w1, w2}
  NMap = 2
  NReduce = 2
  MaxAttempt = 1
  MaxCrashes = 1
INVARIANTS
  AcceptedOnlyInProgress
  OutputsComplete
  DoneMeansPublished
PROPERTIES
  PhaseNeverRegresses
  CompletedIsFinal
  JobTerminates
