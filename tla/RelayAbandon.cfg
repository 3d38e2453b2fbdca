CONSTANTS
  Languages = {"csharp"}
  MaxBatch = 3
  MaxPublished = 6
  MaxFailures = 2
SPECIFICATION Spec
INVARIANT EachIsSent
