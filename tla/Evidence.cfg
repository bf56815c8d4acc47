SPECIFICATION Spec
CONSTANTS
  Chunk = {c1}
  Document = {d1}
  DocumentOf <- MCDocumentOf
  Text = {"t1", "t2"}
  Shape <- MCShape
  Listing <- MCListing
  MaxEdits = 1
  MaxRestarts = 1
  None = None
INVARIANTS
  CitationsHoldInTheirProcess
  AgentsKeepToTheirMaterial
  PassingCitationsAreVouchedFor
  AuditAgreesWithBuild
