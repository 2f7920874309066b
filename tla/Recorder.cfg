SPECIFICATION RecorderSpec
CONSTANTS
  Clients = {"web", "electron"}
  Patient = TRUE
  MaxTakes = 2
  MaxDocs = 2
  MaxFailures = 1
  MaxChanges = 2
  MaxReloads = 1
INVARIANTS
    ClaimsAreTrue
PROPERTIES
    QueuedUntilStored
    MicrophoneReleased
CHECK_DEADLOCK FALSE
