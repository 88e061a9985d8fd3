\* Two queries in two chats that come and go, two jobs at a time, with stops, switches,
\* recreations and deaths of the process.
SPECIFICATION Spec
CONSTANTS
  c1 = c1
  c2 = c2
  m1 = m1
  NoModel = NoModel
  NoChat = NoChat
  Absent = Absent
  Deleted = Deleted
  Chats <- TwoChats
  Models <- OneModel
  MaxLoads = 1
  MaxQueries = 2
  MaxJobs = 2
  Inputs <- Chatting
  FirstRows <- Empty
  FirstModels <- WithModel
  Imported <- Nothing
  Prompted <- TwoChats
INVARIANTS TypeOK NoRunawayJob RepliesAnswer
SYMMETRY AnyChat
