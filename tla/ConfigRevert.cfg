SPECIFICATION Spec
CONSTANTS
  Text <- MCText
  Verdict <- MCVerdict
  Package = "package"
  NoText = "no text"
  Args = {"x", "y"}
  LiveArgs = "live"
  NoArgs = "no args"
  Wanted <- WantedRevert
  Limit <- LimitRevert
INVARIANTS TextConverged
CHECK_DEADLOCK FALSE
