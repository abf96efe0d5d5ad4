CONSTANTS
  Volumes <- MCVolumes
  Drives <- MCDrives
  Clusters <- MCClusters
  Trees <- MCTrees
  None = None
SPECIFICATION Spec
INVARIANTS
  TypeOK
  AdvertisedValidates
  PartitionsHold
  PlanFormats
  CheckedFits
CHECK_DEADLOCK FALSE
