\* Is there an owner at every point in time, when requests overlap?
SPECIFICATION Spec
CONSTANTS
  Member = {1, 2, 3}
  User <- Accounts
  Founder = "ann"
  Guardianship = {1, 2}
  Invitation = {1}
  GivenRole = {"adult", "viewer"}
  p = p
  q = q
  Request <- TwoRequests
  MaxServed = 4
INVARIANTS
  ExactlyOneOwner
CHECK_DEADLOCK FALSE
