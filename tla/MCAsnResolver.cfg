\* Three requests about two addresses of one AS.
SPECIFICATION ResolverSpec
CONSTANTS
  None = None
  as1 = as1
  Callers = {c1, c2, c3}
  Addresses = {a1, a2}
  Systems = {as1}
  OriginOf <- MCOriginOf
  AddrMax = 1
  OrgMax = 1
  AsnTTL = 2
  AsnErrorTTL = 1
  MaxClock = 1
SYMMETRY MCSymmetry
INVARIANTS WaitsEnd OneOrgQuery
