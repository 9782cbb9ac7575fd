SPECIFICATION Spec
CONSTANTS
  None = None
  Self = 0
  InitValidators = {0, 1, 2, 3, 4}
  InitKeys = {0, 1, 2, 3, 4}
  Blocks <- MCBlocks
  Votes <- MCVotes
  QCs <- MCQCs
  Commands <- MCCommands
  OwnHashes = {7}
  Views = {0, 1}
INVARIANTS
  TypeOK
  CommittedHasThreeChain
  PoolIsCurrent
  HighQCVerifies
