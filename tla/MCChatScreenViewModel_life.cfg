\* One chat with a saved query, one query more, and two jobs at a time: loads from the
\* settings, the dialog, the effect and an import; the activity is recreated and the
\* process dies.
SPECIFICATION Spec
CONSTANTS
  c1 = c1
  c2 = c2
  m1 = m1
  NoModel = NoModel
  NoChat = NoChat
  Absent = Absent
  Deleted = Deleted
  Chats <- OneChat
  Models <- OneModel
  MaxLoads = 2
  MaxQueries = 1
  MaxJobs = 2
  Inputs <- Living
  FirstRows <- OldQuery
  FirstModels <- OneModel
  Imported <- OneModel
  Prompted <- OneChat
INVARIANTS SpinnerHasLoad LoadedOnce LoadedWhole
PROPERTIES StopHonoured InitializingEnds
