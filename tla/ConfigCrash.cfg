SPECIFICATION Spec
CONSTANTS
  Text <- MCText
  Verdict <- MCVerdict
  Package = "package"
  NoText = "no text"
  Args = {"x", "y"}
  LiveArgs = "live"
  NoArgs = "no args"
  Wanted <- WantedCrash
  Limit <- LimitCrash
INVARIANTS TypeOK BaselineKept
CHECK_DEADLOCK FALSE
