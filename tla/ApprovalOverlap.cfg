SPECIFICATION Spec
CONSTANTS
  None = None
  ann = ann
  bob = bob
  editor = editor
  legal = legal
  Requests = {r1, r2}
  Posts = {p1}
  Levels = {editor, legal}
  Callers = {ann, bob}
  RolesOf <- Roles
  Admins = {ann}
  Default = {editor, legal}
SYMMETRY Symmetry
INVARIANTS TypeOK ApprovedWasSigned OnePendingPerPost OnlyOverlapsLose
PROPERTY ImplementsApprovals
