SPECIFICATION Spec
CONSTANTS
  Name <- Names
  Sanitized <- Sanitize
  Suffixed <- Suffix
  Relation = {"r1", "r2"}
  Scraped = {"u1", "u2"}
  Option <- Options
  JobOffer <- Offers
  Override <- Overrides
  Payload <- Payloads
  NoName = "(none)"
  NoPayload = NoPayload
  Broken = Broken
  Changes = 4
INVARIANTS LoadsUnlessNamesMeet DeliversPromised
CHECK_DEADLOCK FALSE
