SPECIFICATION FairSpec
CONSTANTS
  Relation = {1, 2}
  Artifact = {1}
  Owner = {o1}
  Document = {1}
  Unit = {u1, u2}
  Encoding = {"json"}
  PublicationLimit = 9
  CacheLimit = 9
  MaxArtifacts = 2
  Calls = 2
  BackendOf <- OneArtifact
  Decoded <- NoWeight
  DecodeLimit = 9
  Weight <- NoWeight
  Compressed <- NoWeight
  CacheWeight <- NoWeight
  Inputs <- ProgressInputs
  Bound <- ProgressBound
  Rejected = Rejected
  Plain = Plain
  Omitted = Omitted
  Unidentified = Unidentified
  Malformed = Malformed
  Refused = Refused
PROPERTIES OfferedPublished WithdrawnRemoved
