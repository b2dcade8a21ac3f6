\* A new kind of operation, in a document an operator chose.
CONSTANTS
  None = None
  Names = {"retrieve_details", "delete", "create_video", "new_tool", "new"}
  ShortNames = {"new"}
  Operations <- MCOperations
  Submitted <- MCSubmitted
  LoggingCounts = FALSE
  MaxChanges = 2
SPECIFICATION OperatorSpec
INVARIANTS FailsClosed
