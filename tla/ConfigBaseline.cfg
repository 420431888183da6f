SPECIFICATION Spec
CONSTANTS
  Text <- MCText
  Verdict <- MCVerdict
  Package = "package"
  NoText = "no text"
  Args = {"x", "y"}
  LiveArgs = "live"
  NoArgs = "no args"
  Wanted <- WantedArgs
  Limit <- LimitArgs
INVARIANTS ArgsConverged
CHECK_DEADLOCK FALSE
