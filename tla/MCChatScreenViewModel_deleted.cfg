\* A chat is deleted while a model file is imported.
SPECIFICATION Spec
CONSTANTS
  c1 = c1
  c2 = c2
  m1 = m1
  NoModel = NoModel
  NoChat = NoChat
  Absent = Absent
  Deleted = Deleted
  Chats <- TwoChats
  Models <- OneModel
  MaxLoads = 1
  MaxQueries = 0
  MaxJobs = 2
  Inputs <- Deleting
  FirstRows <- Empty
  FirstModels <- NoneYet
  Imported <- OneModel
  Prompted <- Nothing
PROPERTY DeletedStays
