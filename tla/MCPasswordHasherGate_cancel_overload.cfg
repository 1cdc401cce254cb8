CONSTANTS
  Calls = {c1, c2, c3}
  MaxThreads <- MCMaxThreads
  OuterCancel = TRUE
SPECIFICATION Spec
INVARIANT AdmittedWorkFitsPool
