SPECIFICATION Spec
CONSTANTS
  Requests <- DottedBatches
  DotNames <- Nested
  Asked = {2}
  MaxVariants = 4
  MaxParallel = 2
INVARIANT DisjointBuilds
