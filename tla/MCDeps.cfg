SPECIFICATION Spec
CONSTANTS
  Package = {1, 2, 3}
  Repo = {"r", "m"}
  MaxCommit = 1
  MaxRuns = 3
  Index <- MCIndex
  Default <- MCDefault
  UserClone <- MCUserClone
  Manifests <- MCManifests
  Locks <- MCLocks
INVARIANTS
  Pinned
  Heals
PROPERTIES
  KeepsLocked
CHECK_DEADLOCK FALSE
