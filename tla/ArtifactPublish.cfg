\* A CLI package and a desktop package, each with two contents; one change
\* upstream, two runs cut short or failing reads, one lost object.
SPECIFICATION FairSpec
CONSTANTS
  Cli = {package}
  Desktop = {app}
  Digests = {d1, d2}
  Tags = {r1, r2}
  NoTag = notag
  NoManifest = nomanifest
  MaxChanges = 1
  MaxFaults = 2
  MaxLosses = 1
INVARIANTS
  TypeOK
  LatestIsComplete
  OnlyVerifiedPackages
  SuccessMeansPublished
PROPERTIES
  CatchesUp
