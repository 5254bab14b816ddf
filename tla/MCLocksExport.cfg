\* By hand: a refresh, a role edit, an export and a template edit close a circle
\* (NoDeadlock is violated, DeadlocksNeedTemplates is not).
SPECIFICATION Spec
CONSTANTS
  Tasks = {a, b, c, d}
  Handlers = {"refresh", "editRoles", "export", "editTemplates"}
  None = None
INVARIANTS DeadlocksNeedTemplates NoDeadlock
