SPECIFICATION Spec
CONSTANTS
  Null = Null
  Fail = Fail
  StackTrace = "trace"
  MaxDepth = 3
  MaxAsks = 5
  Answers <- MCAnswers
  Programs <- MCPrograms
INVARIANT SameBehaviour
INVARIANT InnermostCatches
INVARIANT StackBalanced
INVARIANT TargetsInside
INVARIANT LoweringIsVerified
CHECK_DEADLOCK FALSE
