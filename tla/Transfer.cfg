\* Images of up to three packages, one download after the other; both kinds,
\* every boundary, a failure at any step.
SPECIFICATION TransferFairSpec
CONSTANTS
  None = None
  MaxPackages = 3
  Kinds = {"sparse", "plain"}
INVARIANTS TransferInv NothingMisplaced VerdictExact
PROPERTIES DownloadEnds
