\* Two overlapping requests over a founder, an invited adult and a child.
SPECIFICATION Spec
CONSTANTS
  Member = {1, 2, 3}
  User <- Accounts
  Founder = "ann"
  Guardianship = {1, 2}
  Invitation = {1}
  GivenRole = {"adult", "viewer"}
  p = p
  q = q
  Request <- TwoRequests
  MaxServed = 6
SYMMETRY AnyRequest
INVARIANTS
  OwnedUnlessOverwritten
  GuardedUnlessRaced
PROPERTIES
  DeletionFreezes
CHECK_DEADLOCK FALSE
