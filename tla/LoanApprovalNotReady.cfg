SPECIFICATION Spec
CONSTANTS
  e1 = e1
  m1 = m1
  m2 = m2
  m3 = m3
  d1 = d1
  None = None
  User <- MCUser
  RoleOf <- MCRoleOf
  Active <- MCActive
  Amounts <- MCAmounts
  Handler = {h1}
PROPERTY ApprovedOnlyWhenReady
