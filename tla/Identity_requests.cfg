\* Two overlapping requests over the accounts of one address and their sessions.
SPECIFICATION Spec
CONSTANTS
  User = {1, 2}
  Email = {"ann"}
  Session = {1, 2}
  Link = {1, 2}
  Request = {"p", "q"}
  MaxAttempts = 1
  Lockout = 2
  Lifetime = 2
  LinkLife = 1
  Keep = 1
  MaxToken = 3
  MaxServed = 6
INVARIANTS
  SupersededStaysShut
  DeletedKeepsNoSession
PROPERTIES
  EndsAreFinal
  DeletionCompletes
CHECK_DEADLOCK FALSE
