SPECIFICATION Spec
CONSTANTS
  Name <- Names
  Sanitized <- Sanitize
  Suffixed <- Suffix
  Relation = {"r1", "r2"}
  Scraped = {"u1", "u2"}
  Option <- JournalOptions
  JobOffer <- Offers
  Override <- Overrides
  Payload <- Payloads
  NoName = "(none)"
  NoPayload = NoPayload
  Broken = Broken
  Changes = 2
INVARIANTS HostLogsDelivered
CHECK_DEADLOCK FALSE
