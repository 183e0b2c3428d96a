SPECIFICATION Spec
CONSTANTS
  Lines <- MCLines
INVARIANTS
  SubmittedIsStrict
  NotSubmittedIsUnknownOp
  RequestIsPopulated
