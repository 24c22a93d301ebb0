\* Two commands started together on a fresh directory.
SPECIFICATION Spec
CONSTANTS
  Pid = {p1, p2}
  Loop = {recovery}
  MaxBorrows = 1
INVARIANT OneOwner
