CONSTANTS
  Calls = {c1, c2, c3, c4}
  MaxThreads <- MCMaxThreads
  OuterCancel = TRUE
SPECIFICATION Spec
INVARIANT TypeOK
INVARIANT PermitsConserved
PROPERTY PermitsEventuallyReturned
