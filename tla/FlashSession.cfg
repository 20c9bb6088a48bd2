SPECIFICATION FairSpec
CONSTANTS
  Align = 2
  Sector = 4
  AddressSpace = 16
  MaxSegments = 2
  MaxArtifact = 16
  MaxUpload = 8
  MaxRead = 8
  Headers <- MCHeaders
  BootAddress <- MCBootAddress
  Clients = {"cli", "api"}
  Cli = "cli"
  Builds <- MCBuilds
  Selections <- MCSelections
  Plans <- MCPlans
  Manifests <- MCManifests
  Requests <- MCRequests
  Parts <- MCParts
  FirstDisk <- MCFirstDisk
  Revisions <- MCRevisions
  Devices = {1, 2}
  Boards = {"small", "large"}
  Kind <- MCKind
  MaxSaid = 1
  MaxEdits = 1
  MaxFaults = 1
INVARIANTS FlashIsFaithful HandoffIsClean
PROPERTY PortComesBack
CHECK_DEADLOCK FALSE
