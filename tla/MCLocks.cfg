\* Three requests at a time: a flow step, a federated sign-in that keeps the
\* templates' guard, and the template edits that can close a circle with it.
SPECIFICATION Spec
CONSTANTS
  Tasks = {a, b, c}
  Handlers = {"flowNext", "exchange", "editTemplates"}
  None = None
INVARIANTS TypeOK DeadlocksNeedTemplates
PROPERTIES AnsweredUnlessCircle
