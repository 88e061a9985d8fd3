\* Does the KV cache hold what prev_len says it holds?
SPECIFICATION Spec
CONSTANTS
  NCtx = 9
  PromptReserve = 4
  LoopReserve = 2
  MessagesToKeep = 5
  MaxMessage = 2
  Header = 1
  Opening = 1
  InitialBuffer = 5
  Sizes <- TwoSizes
  Templates <- Known
  StoreChats <- Stored
  MaxAdded = 5
  MaxReply = 1
INVARIANT AllPreviousTokensCached
