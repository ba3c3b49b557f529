SPECIFICATION FairSpec
CONSTANTS
  Users = {u1}
  Owner = u1
  Roles = {"admin", "member"}
  Projects = {p1, p2}
  NoProject = NoProject
  Absent = Absent
  Destroyed = Destroyed
  NoJob = NoJob
  MaxAttempts = 2
  Room <- MCRoom
  MaxRequests = 3
  MaxCrashes = 1
INVARIANT Safety
PROPERTIES DestroyedAfterItsProject TeamSettles DeletionSettles
CHECK_DEADLOCK FALSE
