SPECIFICATION FairSpec
CONSTANTS
  Text <- MCText
  Verdict <- MCVerdict
  Package = "package"
  NoText = "no text"
  Args = {"x", "y"}
  LiveArgs = "live"
  NoArgs = "no args"
  Wanted <- WantedDrift
  Limit <- LimitDrift
INVARIANTS TextConverged ArgsConverged ServiceCurrent
PROPERTIES DriftIsManual DownReported EditDetected
CHECK_DEADLOCK FALSE
