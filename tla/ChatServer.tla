----------------------------- MODULE ChatServer -----------------------------
(***************************************************************************)
(* The whole chat server: the channel master, the chat channel goroutines, *)
(* the doppelgangers and their Telnet goroutines, composed over the go     *)
(* channels of ChatState, and what must be true of them together.          *)
(***************************************************************************)
EXTENDS ChannelMaster, ChatChannel, Doppelganger, TelnetSession

Init ==
    /\ masterQ = <<>>
    /\ denialQ = <<>>
    /\ memberCount = [c \in Channels |-> 0]
    /\ running = [c \in Channels |-> NoGoroutine]
    /\ masterTodo = <<>>
    /\ masterReplies = <<>>
    /\ masterUp = TRUE
    /\ chatState = [i \in Goroutines |-> "unborn"]
    /\ chanOf = [i \in Goroutines |-> NoChannel]
    /\ inbox = [i \in Goroutines |-> <<>>]
    /\ speech = [i \in Goroutines |-> 0]
    /\ memberList = [i \in Goroutines |-> {}]
    /\ todo = [i \in Goroutines |-> <<>>]
    /\ status = [d \in Doppelgangers |-> "selecting"]
    /\ chatID = [d \in Doppelgangers |-> NoChannel]
    /\ callback = [d \in Doppelgangers |-> NoGoroutine]
    /\ gone = [d \in Doppelgangers |-> FALSE]
    /\ cantExit = [d \in Doppelgangers |-> FALSE]
    /\ cantExitCount = [d \in Doppelgangers |-> 0]
    /\ replyIn = [d \in Doppelgangers |-> 0]
    /\ chatIn = [d \in Doppelgangers |-> <<>>]
    /\ telnet = [d \in Doppelgangers |-> "reading"]
    /\ conn = [d \in Doppelgangers |-> "up"]
    /\ line = [d \in Doppelgangers |-> <<>>]
    /\ typed = [d \in Doppelgangers |-> 0]
    /\ view = [d \in Doppelgangers |-> "off"]
    /\ crash = "none"

-----------------------------------------------------------------------------
MasterStep ==
    \/ MasterRefusesName
    \/ MasterLookupFails
    \/ MasterForwardsJoin
    \/ MasterWho
    \/ MasterExit
    \/ MasterReturns
    \/ MasterTakesDenial
    \/ MasterSendsToChat
    \/ MasterReplies
    \/ \E i \in Goroutines : Launch(i)

ChatStep(i) ==
    \/ ChatJoin(i)
    \/ ChatWho(i)
    \/ ChatExit(i)
    \/ ChatShutdown(i)
    \/ ChatSpeech(i)
    \/ ChatTellsMaster(i)
    \/ ChatTellsDoppelganger(i)

DoppStep(d) ==
    \/ DoppEchoFails(d)
    \/ DoppJoin(d)
    \/ DoppWho(d)
    \/ DoppExit(d)
    \/ DoppSay(d)
    \/ DoppUnblocks(d)
    \/ DoppQuit(d)
    \/ DoppSeesClosed(d)
    \/ DoppRefusedByMaster(d)
    \/ DoppRefusedByChat(d)
    \/ DoppJoined(d)
    \/ DoppText(d)
    \/ DoppHearsExit(d)
    \/ DoppOwnExit(d)

TelnetStep(d) == ReadFails(d) \/ ServerClosesConnection(d)

Environment(d) == UserTypes(d) \/ ConnectionDrops(d)

(***************************************************************************)
(* Every goroutine waits at its select and nothing is on its way: the      *)
(* server is idle.  Any other state without a step is a deadlock.          *)
(***************************************************************************)
Idle ==
    /\ MasterIdle \/ ~masterUp
    /\ masterUp => masterQ = <<>> /\ denialQ = <<>>
    /\ \A i \in Goroutines :
        chatState[i] = "running" => todo[i] = <<>> /\ inbox[i] = <<>> /\ speech[i] = 0
    /\ \A d \in Doppelgangers :
        \/ status[d] = "returned"
        \/ status[d] = "selecting" /\ replyIn[d] = 0 /\ chatIn[d] = <<>>

StaysIdle == Idle /\ UNCHANGED vars

Next ==
    /\ crash = "none"
    /\ \/ MasterStep
       \/ \E i \in Goroutines : ChatStep(i)
       \/ \E d \in Doppelgangers : DoppStep(d) \/ TelnetStep(d) \/ Environment(d)
       \/ StaysIdle

Spec == Init /\ [][Next]_vars

(***************************************************************************)
(* The Go scheduler runs every goroutine that is ready, and a Telnet       *)
(* goroutine learns of a connection that is down.  Nobody has to type, and *)
(* no connection has to drop.                                              *)
(***************************************************************************)
Fairness ==
    /\ WF_vars(crash = "none" /\ MasterStep)
    /\ \A i \in Goroutines : WF_vars(crash = "none" /\ ChatStep(i))
    /\ \A d \in Doppelgangers :
        /\ WF_vars(crash = "none" /\ DoppStep(d))
        /\ WF_vars(crash = "none" /\ TelnetStep(d))

FairSpec == Spec /\ Fairness

-----------------------------------------------------------------------------
(***************************************************************************)
(* Every variable has its type.  One part per component, and one for what  *)
(* the end of a doppelganger's loop sets.                                  *)
(***************************************************************************)
MasterTypeOK ==
    /\ denialQ \in Seq(Denials)
    /\ memberCount \in [Channels -> Int]
    /\ running \in [Channels -> Goroutines \cup {NoGoroutine}]
    /\ masterTodo \in Seq(MasterSends)
    /\ masterReplies \in Seq(Doppelgangers)
    /\ masterUp \in BOOLEAN

ChatTypeOK ==
    /\ chatState \in [Goroutines -> {"unborn", "running", "returned"}]
    /\ chanOf \in [Goroutines -> Channels \cup {NoChannel}]
    /\ \A i \in Goroutines : chatState[i] # "unborn" => chanOf[i] \in Channels
    /\ inbox \in [Goroutines -> Seq(ToChat)]
    /\ speech \in [Goroutines -> 0 .. SpeechBuffer]
    /\ memberList \in [Goroutines -> SUBSET Doppelgangers]
    /\ todo \in [Goroutines -> Seq(ChatSends)]

LoopTypeOK ==
    /\ masterQ \in Seq(ToMaster)
    /\ status \in [Doppelgangers -> {"selecting", "blocked", "returned"}]
    /\ chatID \in [Doppelgangers -> Channels \cup {NoChannel, Joining}]
    /\ gone \in [Doppelgangers -> BOOLEAN]
    /\ cantExit \in [Doppelgangers -> BOOLEAN]
    /\ cantExitCount \in [Doppelgangers -> 0 .. CantExitLimit]

MailTypeOK ==
    /\ callback \in [Doppelgangers -> Goroutines \cup {NoGoroutine}]
    /\ replyIn \in [Doppelgangers -> 0 .. 1]
    /\ chatIn \in [Doppelgangers -> Seq(ToDoppelganger)]

TelnetTypeOK ==
    /\ telnet \in [Doppelgangers -> {"reading", "closed", "quit"}]
    /\ conn \in [Doppelgangers -> {"up", "down"}]
    /\ line \in [Doppelgangers -> Seq(Lines)]
    /\ typed \in [Doppelgangers -> 0 .. MaxLines]
    /\ view \in [Doppelgangers -> {"off", "asked", "on"}]
    /\ crash \in Crashes

TypeOK == MasterTypeOK /\ ChatTypeOK /\ LoopTypeOK /\ MailTypeOK /\ TelnetTypeOK

(***************************************************************************)
(* A map entry of the channel master stands for a goroutine that is there: *)
(* every send the master makes, has queued in its handler or will make     *)
(* through the entry meets an open go channel, because the Shutdown is the *)
(* last thing sent and deletes the entry (channelmaster.go:304-321).       *)
(***************************************************************************)
HasShutdown(s) == \E k \in DOMAIN s : s[k].op = "Shutdown"

EntryIsLive ==
    /\ \A c \in Channels : running[c] # NoGoroutine =>
        /\ chatState[running[c]] = "running"
        /\ chanOf[running[c]] = c
        /\ ~HasShutdown(inbox[running[c]])
    /\ \A k \in DOMAIN masterTodo : running[masterTodo[k].chan] # NoGoroutine

(***************************************************************************)
(* README.md:518-529: when a chat channel goroutine receives the Shutdown  *)
(* its roster is empty, whatever order joins, refusals and exits came in   *)
(* (chatchannel.go:386-392 only logs when it is not).                      *)
(***************************************************************************)
ShutdownFindsEmptyRoster ==
    \A i \in Goroutines : chatState[i] = "returned" => memberList[i] = {}

(***************************************************************************)
(* A doppelganger that takes itself to be on a channel talks to the        *)
(* goroutine the channel master has in its map, and so does every exit     *)
(* from a channel that is still queued: neither can meet "trying to exit a *)
(* channel that doesn't exist" (channelmaster.go:290-296).                 *)
(***************************************************************************)
HoldersKeepTheirChannel ==
    /\ \A d \in Doppelgangers :
        chatID[d] \in Channels /\ status[d] # "returned" =>
            running[chatID[d]] # NoGoroutine /\ running[chatID[d]] = callback[d]
    /\ \A m \in ToSet(masterQ) :
        m.op = "Exit" /\ m.chan \in Channels => running[m.chan] # NoGoroutine

(***************************************************************************)
(* A refused join finds the map entry whose count it takes back, so the    *)
(* nil pointer of channelmaster.go:341 is never dereferenced.              *)
(***************************************************************************)
DenialsFindTheirEntry ==
    /\ \A i \in Goroutines : \A m \in ToSet(todo[i]) :
        m.op = "Denial" => running[chanOf[i]] = i
    /\ \A m \in ToSet(denialQ) : running[m.chan] # NoGoroutine

-----------------------------------------------------------------------------
(***************************************************************************)
(* What the channel master's count of c stands for: the roster of the      *)
(* goroutine behind the entry, corrected by what is on the way to it and   *)
(* back.  A join counts from the moment the master takes it, an exit from  *)
(* the moment the master has sent it.                                      *)
(***************************************************************************)
HowMany(s, messages) == Cardinality({ k \in DOMAIN s : s[k] \in messages })

\* What the master's handler has yet to send to c, and what is in a chat channel's inbox.
SendsTo(c, op) == [op : {op}, who : Doppelgangers, chan : {c}]
Posts(op) == [op : {op}, who : Doppelgangers]
DenialsBy(c) == [from : Doppelgangers, chan : {c}]

Verdicts == [op : {"Joined", "Denial"}, to : Doppelgangers, leaving : {Nobody}]
Farewells == [op : {"TextExit"}, to : Doppelgangers, leaving : Doppelgangers]

JoinsUnderWay(c) ==
    HowMany(masterTodo, SendsTo(c, "Join"))
    + HowMany(inbox[running[c]], Posts("Join"))
    + HowMany(todo[running[c]], Verdicts)
    + HowMany(denialQ, DenialsBy(c))

ExitsUnderWay(c) ==
    HowMany(inbox[running[c]], Posts("Exit"))
    + IF HowMany(todo[running[c]], Farewells) > 0 THEN 1 ELSE 0

Accounted(c) ==
    IF running[c] = NoGoroutine THEN 0
    ELSE Cardinality(memberList[running[c]]) + JoinsUnderWay(c) - ExitsUnderWay(c)

(***************************************************************************)
(* README.md:511-516 worries that the master's counts and the rosters get  *)
(* out of sync.  Whatever the users type, a count is never too low: a      *)
(* channel somebody is on, or is getting on, is not shut down.             *)
(***************************************************************************)
CountCoversRoster == \A c \in Channels : memberCount[c] >= Accounted(c)

(***************************************************************************)
(* Whatever the users type, no send of the channel master to a chat        *)
(* channel meets a go channel the chat channel has closed on its return.   *)
(***************************************************************************)
MasterNeverSendsOnClosed == crash # "master sent on a closed go channel"

(***************************************************************************)
(* With patient users the count is exact, so that the last one to leave,   *)
(* or to be refused, ends the channel (README.md:518-526).                 *)
(***************************************************************************)
CountMatchesRoster == \A c \in Channels : memberCount[c] = Accounted(c)

-----------------------------------------------------------------------------
(***************************************************************************)
(* README.md:318-324: one goroutine per channel.  What holds is this: two  *)
(* goroutines of one channel may coexist, but all except the one in the    *)
(* master's map have their Shutdown queued.                                *)
(***************************************************************************)
OneLiveGoroutinePerChannel ==
    \A i \in Goroutines :
        chatState[i] = "running" /\ running[chanOf[i]] # i => HasShutdown(inbox[i])

(***************************************************************************)
(* What makes EntryIsLive and OneLiveGoroutinePerChannel inductive.  The   *)
(* master's handler never has two sends queued, so that none is behind the *)
(* Shutdown that deletes the entry; a goroutine that is yet to be launched *)
(* has no messages; and the count of seconds of a doppelganger still in    *)
(* its loop has not reached the limit.                                     *)
(***************************************************************************)
OneSendAtATime == Len(masterTodo) <= 1

UnbornAreUnused ==
    \A i \in Goroutines : chatState[i] = "unborn" => inbox[i] = <<>>

WaitBelowLimit ==
    \A d \in Doppelgangers : status[d] # "returned" => cantExitCount[d] < CantExitLimit

IInv ==
    /\ TypeOK
    /\ WaitBelowLimit
    /\ UnbornAreUnused
    /\ OneSendAtATime
    /\ EntryIsLive
    /\ OneLiveGoroutinePerChannel
    /\ MasterNeverSendsOnClosed

(***************************************************************************)
(* What makes CountCoversRoster and what follows from it inductive, for    *)
(* users who type anything at any time.  Each doppelganger has its claims  *)
(* on c: it takes itself to be on it, is about to hear that it is, or has  *)
(* an exit from it on the way to the master.  It may have several, for it  *)
(* can join the channel again before the first answer comes, and then one  *)
(* exit for each.  Whoever is on the roster without a claim counts once.   *)
(***************************************************************************)
ExitRequests(c) == [op : {"Exit"}, from : Doppelgangers, chan : {c}]

Holders(c) == { d \in Doppelgangers : status[d] # "returned" /\ chatID[d] = c }

Hearing(i) ==
    { d \in Doppelgangers :
        \E m \in ToSet(chatIn[d]) : m.op = "Joined" /\ m.by = i }

\* An exit of d from c is with the master, or d's exit with the chat channel i.
ExitAsked(c, d) ==
    \/ \E m \in ToSet(masterQ) : m.op = "Exit" /\ m.chan = c /\ m.from = d
    \/ \E m \in ToSet(masterTodo) : m.op = "Exit" /\ m.chan = c /\ m.who = d

ExitTaken(i, d) ==
    \/ \E m \in ToSet(inbox[i]) : m.op = "Exit" /\ m.who = d
    \/ \E m \in ToSet(todo[i]) : m.leaving = d

Unclaimed(c) ==
    { d \in memberList[running[c]] :
        /\ d \notin Holders(c) /\ d \notin Hearing(running[c])
        /\ ~ExitAsked(c, d) /\ ~ExitTaken(running[c], d) }

ExitsAsked(c) ==
    HowMany(masterQ, ExitRequests(c)) + HowMany(masterTodo, SendsTo(c, "Exit"))

Claims(c) ==
    Cardinality(Holders(c)) + Cardinality(Hearing(running[c]))
    + Cardinality(Unclaimed(c))

Due(c) == JoinsUnderWay(c) + ExitsAsked(c) + Claims(c)

CountCoversDue ==
    /\ \A c \in Channels :
        IF running[c] = NoGoroutine THEN memberCount[c] >= 0
                                    ELSE memberCount[c] >= Due(c)
    /\ \A m \in ToSet(masterTodo) : m.op = "Shutdown" => memberCount[m.chan] = 0

OneMessageOfBuffer ==
    /\ \A i \in Goroutines : Len(inbox[i]) <= 1
    /\ \A d \in Doppelgangers : Len(chatIn[d]) <= 1

(***************************************************************************)
(* A handler of a chat channel announces one exit or none, and a goroutine *)
(* that has its Shutdown has nobody left but the one whose exit it is      *)
(* announcing.                                                             *)
(***************************************************************************)
OneLeaverAtATime ==
    \A i \in Goroutines : \A m \in ToSet(todo[i]) :
        /\ m.op = "TextExit" <=> m.leaving # Nobody
        /\ \A n \in ToSet(todo[i]) : n.leaving = m.leaving

ShutdownIsLast ==
    \A i \in Goroutines :
        /\ chatState[i] = "unborn" => memberList[i] = {} /\ todo[i] = <<>>
        /\ HasShutdown(inbox[i]) => \A d \in memberList[i] : ExitTaken(i, d)

\* The goroutine behind every verdict is the one in the master's map.
InCharge(i) == \E c \in Channels : running[c] = i

VerdictsStand ==
    /\ \A i \in Goroutines : \A m \in ToSet(todo[i]) :
        m.op \in {"Joined", "Denial"} => InCharge(i)
    /\ \A d \in Doppelgangers : \A m \in ToSet(chatIn[d]) :
        m.op = "Joined" => InCharge(m.by)
    /\ \A m \in ToSet(denialQ) : running[m.chan] # NoGoroutine

AccountsInv ==
    /\ IInv
    /\ OneMessageOfBuffer
    /\ OneLeaverAtATime
    /\ ShutdownIsLast
    /\ ShutdownFindsEmptyRoster
    /\ HoldersKeepTheirChannel
    /\ VerdictsStand
    /\ CountCoversDue

(***************************************************************************)
(* README.md:486-498: a doppelganger outlives everything that may still    *)
(* send to it.  Once it has returned, and closed its go channels, it is on *)
(* no roster and no join, exit, reply or text is on its way to it.         *)
(***************************************************************************)
NothingSentToReturned ==
    \A d \in Doppelgangers : status[d] = "returned" =>
        /\ \A k \in DOMAIN masterQ : masterQ[k].from # d \/ masterQ[k].op = "Exit"
        /\ \A k \in DOMAIN masterTodo : masterTodo[k].who # d \/ masterTodo[k].op = "Shutdown"
        /\ \A k \in DOMAIN masterReplies : masterReplies[k] # d
        /\ \A i \in Goroutines :
            /\ chatState[i] = "running" /\ d \in memberList[i] =>
                \E k \in DOMAIN todo[i] : todo[i][k].leaving = d
            /\ \A k \in DOMAIN inbox[i] : inbox[i][k].who # d \/ inbox[i][k].op = "Shutdown"
            /\ \A k \in DOMAIN todo[i] : todo[i][k].to # d

(***************************************************************************)
(* Once nothing is on its way to or from a doppelganger, it and the chat   *)
(* channels agree: it is on the roster of the goroutine it talks to, and   *)
(* on no other, exactly when it has that channel's ID.                     *)
(***************************************************************************)
Settled(d) ==
    /\ status[d] = "selecting" /\ replyIn[d] = 0 /\ chatIn[d] = <<>>
    /\ \A k \in DOMAIN masterQ : masterQ[k].from # d
    /\ \A k \in DOMAIN masterTodo : masterTodo[k].who # d
    /\ \A k \in DOMAIN masterReplies : masterReplies[k] # d
    /\ \A i \in Goroutines :
        /\ \A k \in DOMAIN inbox[i] : inbox[i][k].who # d
        /\ \A k \in DOMAIN todo[i] : todo[i][k].to # d /\ todo[i][k].leaving # d

SettledViewsAgree ==
    \A d \in Doppelgangers : Settled(d) =>
        \A i \in Goroutines : chatState[i] = "running" =>
            (d \in memberList[i] <=> chatID[d] = chanOf[i] /\ callback[d] = i)

(***************************************************************************)
(* README.md:311-316, 691-694: a chat channel goroutine stops when the     *)
(* last person leaves, and nothing leaks.  When the server is idle and     *)
(* every doppelganger has returned, every chat channel goroutine has too.  *)
(***************************************************************************)
EmptyServerIsClean ==
    Idle /\ (\A d \in Doppelgangers : status[d] = "returned") =>
        /\ \A i \in Goroutines : chatState[i] # "running"
        /\ \A c \in Channels : running[c] = NoGoroutine

(***************************************************************************)
(* README.md:448-509: however far a join or an exit has got when the       *)
(* connection is lost, the doppelganger finds its way out.                 *)
(***************************************************************************)
DroppedUserIsReleased ==
    \A d \in Doppelgangers : telnet[d] = "closed" ~> status[d] = "returned"

(***************************************************************************)
(* A user who has asked to join or to leave hears of it, unless he is      *)
(* gone: no request is lost between the four goroutines that handle it.    *)
(***************************************************************************)
RequestIsAnswered ==
    \A d \in Doppelgangers : view[d] = "asked" ~> view[d] # "asked" \/ gone[d] \/ status[d] = "returned"

(***************************************************************************)
(* README.md:486-498, 693, doppelganger.go:425-433: no goroutine ever      *)
(* sends on a closed go channel, and none panics otherwise.                *)
(***************************************************************************)
NoCrash == crash = "none"

(***************************************************************************)
(* README.md:404-427: with one message of buffer into a goroutine that has *)
(* a single sender, no cycle of go channels deadlocks.  Here it would be a *)
(* chat channel that waits to report a refusal while the channel master    *)
(* waits to send to it, both go channels being full.                       *)
(***************************************************************************)
MasterAndChatNeverWedge ==
    ~ \E i \in Goroutines :
        /\ todo[i] # <<>> /\ todo[i][1].op = "Denial" /\ Len(denialQ) = DenialBuffer
        /\ masterTodo # <<>> /\ running[masterTodo[1].chan] = i /\ Len(inbox[i]) = 1

(***************************************************************************)
(* README.md:416-418: the same of a doppelganger that speaks and the chat  *)
(* channel that answers, with a buffer of one message towards the former.  *)
(***************************************************************************)
SpeakerAndChatNeverWedge ==
    ~ \E d \in Doppelgangers, i \in Goroutines :
        /\ status[d] = "blocked" /\ callback[d] = i /\ speech[i] = SpeechBuffer
        /\ todo[i] # <<>> /\ todo[i][1].op # "Denial" /\ todo[i][1].to = d
        /\ Len(chatIn[d]) = 1

\* README.md:473: "The zombies eventually shut down and clean themselves up".
ZombiesShutDown ==
    \A d \in Doppelgangers : gone[d] ~> status[d] = "returned"

(***************************************************************************)
(* channelmaster.go:290-296: the exit from a channel that does not exist   *)
(* "should never happen", and the return after it is to "try and keep      *)
(* server up".                                                             *)
(***************************************************************************)
MasterStaysUp == masterUp
=============================================================================
