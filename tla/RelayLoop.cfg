CONSTANTS
  Languages = {"csharp", "go", "java", "python"}
  MaxBatch = 3
  MaxPublished = 6
  MaxFailures = 2
SPECIFICATION FairSpec
INVARIANTS TypeOK LossBounded OthersSendEach
PROPERTIES Implements Drains
