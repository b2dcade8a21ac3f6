\* Up to three changes to three submitted tools, a new one and one whose name is
\* too short.
CONSTANTS
  None = None
  Names = {"retrieve_details", "delete", "create_video", "new_tool", "new"}
  ShortNames = {"new"}
  Operations <- MCOperations
  Submitted <- MCSubmitted
  LoggingCounts = FALSE
  MaxChanges = 3
SPECIFICATION Spec
INVARIANTS TypeOK OnlyReviewedLive SaysWhatItHints
