\* A reader, three tasks on pages of one, an event, a child, four changes.
SPECIFICATION Spec
CONSTANTS
  Task = {1, 2, 3}
  Event = {11}
  Child = {"kit"}
  Due = {1, 2}
  PageSize = 1
  MaxChanges = 4
INVARIANTS
  ShownAsAudited
  PagesMissNothing
CHECK_DEADLOCK FALSE
