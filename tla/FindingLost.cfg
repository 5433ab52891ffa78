SPECIFICATION Spec
CONSTANTS
  Unset = Unset
  Context = 1
  MaxLines = 5
  MaxEdits = 4
  PageSize = 2
  MaxPages = 2
  ChangePageSize = 2
  ChangePages = 2
  MaxFiles = 3
  MaxBytes = 10
  Workers = {w1, w2}
  MaxMishaps = 1
  MaxDiffLines = 6
  Pulls <- Reviews
INVARIANT FindingsSaid
CHECK_DEADLOCK FALSE
