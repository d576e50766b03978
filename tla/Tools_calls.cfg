\* Two tables of three records and three runs.
CONSTANTS
  Digits <- TwoToFive
  Words <- FourWords
  SomeNames <- MixedNames
  TableNames <- TwoTables
  FieldNames <- TwoFields
  Pages <- TwoPages
  Limit = 1
  Batches <- SomeBatches
  Requests <- SomeRequests
  SchemaRequests <- SomeSchemaRequests
  Deletable <- OfEach
  MaxRuns = 3
SPECIFICATION Spec
INVARIANTS TypeOK PartialIsTold NotFoundIsTrue TruncationIsTrue OwnNameResolves
