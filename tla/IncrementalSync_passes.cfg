\* Files of one block are streamed, files of two copied in parallel; one file is
\* beyond the page a listing gives.
SPECIFICATION PassFairSpec
CONSTANTS
  Files = {f1, f2, f3}
  Page = {f1, f2}
  Sizes = {1, 2}
  ParallelMin = 2
  NoCopy = NoCopy
  MaxEdits = 1
  MaxFailures = 2
  MaxJobs = 1
INVARIANT PassDelivers
PROPERTY EventuallyMirrors
