SPECIFICATION SetupLiveSpec
CONSTANTS
  Kinds = {"workload", "native"}
  MaxOps = 2
  MaxCrashes = 1
  MaxFailures = 1
INVARIANTS KeysRetained SelectedIsActivated AdmittedIsStored OpenedIsRecorded
PROPERTIES StartsAccepted ActivatedIsRecovered ApprovedRuns
