SPECIFICATION FairSpec
CONSTANTS
  Requests <- Batches
  DotNames = {}
  Asked = {1, 2}
  MaxVariants = 4
  MaxParallel = 2
INVARIANTS TypeOK DisjointBuilds EachVariantOnce WithinAskedParallel AnswerIsHonest
PROPERTIES AdmittedBatchAnswers ImplementsContract
