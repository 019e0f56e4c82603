CONSTANTS
  r = r
  d = d
  e = e
  x = x
  pRoot = pRoot
  pComp = pComp
  pDef = pDef
  pExt = pExt
  Nodes <- MCNodes
  Pointers <- MCPointers
  RootPointer = pRoot
  RawRefs <- MCRawRefs
  Unsupported = 2
CHECK_DEADLOCK FALSE
SPECIFICATION TwoDocuments
INVARIANT CoversEveryReachable
