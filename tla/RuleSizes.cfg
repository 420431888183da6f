SPECIFICATION Spec
CONSTANTS
  Relation = {1, 2}
  Artifact = {1, 2}
  Owner = {o1}
  Document = {1, 2}
  Unit = {u1}
  Encoding = {"json"}
  PublicationLimit = 3
  CacheLimit = 2
  MaxArtifacts = 2
  Calls = 3
  BackendOf <- TwoOfOneKind
  Decoded <- TotalDecoded
  DecodeLimit = 3
  Weight <- TotalWeight
  Compressed <- NoWeight
  CacheWeight <- TotalWeight
  Inputs <- SizeInputs
  Bound <- SizeBound
  Rejected = Rejected
  Plain = Plain
  Omitted = Omitted
  Unidentified = Unidentified
  Malformed = Malformed
  Refused = Refused
INVARIANTS WorkPublishable PublishedDurable PublishedOwnedOnce
PROPERTIES Settles PublishesAtomically LkgRetained
