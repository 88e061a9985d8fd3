----------------------- MODULE MCChatScreenViewModel -----------------------
(***************************************************************************)
(* Small sessions for TLC.                                                 *)
(***************************************************************************)
EXTENDS ChatScreenViewModel, TLC

CONSTANTS c1, c2, m1

\* Chats and models, and what the databases hold of them at first.
OneChat == {c1}
TwoChats == {c1, c2}
AnyChat == Permutations(TwoChats)
OneModel == {m1}
WithModel == {m1, Absent}
NoneYet == {NoModel, Absent}
Empty == {<<>>}
OldQuery == {<<UserRow(0)>>}
Nothing == {}

\* What happens besides sending and stopping.
Chatting == {"die", "recreate", "switch", "delete chat"}
Living == {"die", "recreate", "dialog", "settings"}
Deleting == {"switch", "delete chat"}
===========================================================================
