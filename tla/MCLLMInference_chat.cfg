\* Short chats: messages that are cut to MaxMessage and shorter replies, both values of
\* store_chats, every kind of template. The context overflows, so does the number of messages
\* a truncation keeps, and a job is left after a truncation for a length stored late.
SPECIFICATION Spec
CONSTANTS
  NCtx = 9
  PromptReserve = 4
  LoopReserve = 2
  MessagesToKeep = 2
  MaxMessage = 2
  Header = 1
  Opening = 1
  InitialBuffer = 5
  Sizes <- LongSize
  Templates <- AnyTemplate
  StoreChats <- Either
  MaxAdded = 5
  MaxReply = 2
INVARIANTS TypeOK PromptInBuffer PrevLenOnBoundary CachedWhenSerial QuestionKept
PROPERTIES NoDoubleReply HeadKept SecondStopIsIdle StopHonoured
