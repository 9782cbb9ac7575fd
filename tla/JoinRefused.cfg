SPECIFICATION Spec
CONSTANTS
  None = None
  Self = 0
  InitValidators = {0, 1, 2, 3}
  InitKeys = {0, 1, 2, 3}
  Blocks <- JoinBlocks
  Votes <- MCVotes
  QCs <- MCQCs
  Commands <- MCCommands
  OwnHashes = {7}
  Views = {0, 1}
INVARIANTS
  JoinTakesEffect
