---------------------------- MODULE MCChatServer ----------------------------
(***************************************************************************)
(* Small instances of ChatServer for TLC.                                  *)
(***************************************************************************)
EXTENDS ChatMembership, ChatPatience, TLC

CONSTANTS d1, d2, d3

\* Everyone is a user of his own; or d1 and d2 are two logins of one user.
OwnUser == [d \in Doppelgangers |-> d]
SharedUser == [d \in Doppelgangers |-> IF d = d2 THEN d1 ELSE d]

Line(cmd) == [cmd |-> cmd, chan |-> Nowhere]
Joins == [cmd : {"join"}, chan : Channels]
Errands(cmds) == Joins \cup { Line(cmd) : cmd \in cmds }

\* What the users of a run may type.
Everything == Lines
JoinExit == Errands({"exit"})
JoinExitWhoQuit == Errands({"exit", "who", "quit"})
JoinExitQuit == Errands({"exit", "quit"})
JoinExitSay == Errands({"exit", "say"})
JoinSay == Errands({"say"})

UsersAlike == Permutations(Doppelgangers)
=============================================================================
