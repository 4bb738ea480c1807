CONSTANTS
  c1 = c1
  c2 = c2
  k1 = k1
  k2 = k2
  None = None
  Calls = {c1, c2}
  Names <- MCNames
  Fold <- MCFold
  ValidIds <- MCValidIds
  Applications <- MCApplications
  Requests <- MCRequests
  RequestFaults = {"Timeout", "NoResponders"}
  PublishFaults = {"Disconnected"}
  FaultSubjects <- MCFaultSubjects
  MaxFaults = 2
SPECIFICATION Spec
SYMMETRY Symmetry
INVARIANT InvalidIdIsReplaced
