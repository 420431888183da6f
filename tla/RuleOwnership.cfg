SPECIFICATION Spec
CONSTANTS
  Relation = {1, 2, 3}
  Artifact = {1}
  Owner = {o1, o2}
  Document = {d1}
  Unit = {u1, u2}
  Encoding = {"json"}
  PublicationLimit = 9
  CacheLimit = 9
  MaxArtifacts = 1
  Calls = 3
  BackendOf <- OneArtifact
  Decoded <- NoWeight
  DecodeLimit = 9
  Weight <- NoWeight
  Compressed <- NoWeight
  CacheWeight <- NoWeight
  Inputs <- OwnershipInputs
  Bound <- OwnershipBound
  Rejected = Rejected
  Plain = Plain
  Omitted = Omitted
  Unidentified = Unidentified
  Malformed = Malformed
  Refused = Refused
SYMMETRY Interchangeable
INVARIANTS TypeOK LowestClaimantServes
PROPERTIES NeighboursKept
