\* An OTP verification, a refresh and a template edit in a circle.
SPECIFICATION Spec
CONSTANTS
  Tasks = {a, b, c}
  Handlers = {"verifyOtp", "refresh", "editTemplates"}
  None = None
PROPERTIES EveryRequestIsAnswered
