--------------------------- MODULE ChatMembership ---------------------------
(***************************************************************************)
(* The goroutines of ChatServer, with patient users and a database that    *)
(* does not fail, implement Membership.  A request is decided where a      *)
(* handler takes it out of its go channel: a /join of a running channel    *)
(* and an /exit in the chat channel's goroutine, the /join that launches   *)
(* it, or that names no channel, in the channel master's.                  *)
(***************************************************************************)
EXTENDS ChatServer

CONSTANT Leave  \* stands for the /exit among the requests

ASSUME LeaveAssumption == Leave \notin Channels \cup {Nowhere}

(***************************************************************************)
(* Who is on the goroutine behind c's entry: those on its roster and those *)
(* about to be entered, but for the one whose exit it is announcing.       *)
(***************************************************************************)
Entering(i) == { m.to : m \in { x \in ToSet(todo[i]) : x.op = "Joined" } }
Leaving(i) == { m.leaving : m \in ToSet(todo[i]) }

rosterOf ==
    [c \in Channels |->
        IF running[c] = NoGoroutine THEN {}
        ELSE (memberList[running[c]] \cup Entering(running[c]))
             \ Leaving(running[c])]

\* The joins and exits of d on their way to the channel master and beyond it.
AskedOfMaster(d) ==
    { IF m.op = "Join" THEN m.chan ELSE Leave :
        m \in { x \in ToSet(masterQ) : x.op # "Who" /\ x.from = d }
              \cup { x \in ToSet(masterTodo) : x.op \in {"Join", "Exit"} /\ x.who = d } }

AskedOfChat(d, i) ==
    { IF m.op = "Join" THEN chanOf[i] ELSE Leave :
        m \in { x \in ToSet(inbox[i]) : x.op \in {"Join", "Exit"} /\ x.who = d } }

requestOf ==
    [d \in Doppelgangers |->
        AskedOfMaster(d) \cup UNION { AskedOfChat(d, i) : i \in Goroutines }]

(***************************************************************************)
(* The answers to d, in its own go channels or in the hands of a handler.  *)
(***************************************************************************)
AnswersTo(d, ms) ==
    { "in" : m \in { x \in ms : x.op = "Joined" } }
    \cup { "refused" : m \in { x \in ms : x.op = "JoinDenied" } }
    \cup { "out" : m \in { x \in ms : x.op = "TextExit" /\ x.leaving = d } }

verdictOf ==
    [d \in Doppelgangers |->
        AnswersTo(d, ToSet(chatIn[d]))
        \cup (IF d \in ToSet(masterReplies) \/ replyIn[d] > 0 THEN {"refused"} ELSE {})
        \cup UNION { AnswersTo(d, { x \in ToSet(todo[i]) : x.to = d }) : i \in Goroutines }]

droppedOf ==
    [d \in Doppelgangers |->
        \/ conn[d] = "down"
        \/ telnet[d] = "quit"
        \/ line[d] # <<>> /\ line[d][1].cmd = "quit"]

Promise == INSTANCE Membership WITH
    Users <- Doppelgangers, roster <- rosterOf, request <- requestOf,
    verdict <- verdictOf, dropped <- droppedOf

(***************************************************************************)
(* README.md:486-526: joins, refusals, exits, lost connections, shutdowns  *)
(* and relaunches of a channel's goroutine, in whatever order they cross,  *)
(* are a step of Membership or none: no request is lost or answered twice, *)
(* no channel overfills, and no one is put off who did not ask for it.     *)
(***************************************************************************)
KeepsPromise == Promise!Spec
=============================================================================
