---------------------------- MODULE ChatChannel ----------------------------
(***************************************************************************)
(* The goroutine of one chat channel.  It is launched by the channel       *)
(* master, takes joins, exits and the shutdown from it and speech from the *)
(* doppelgangers, and sends to the doppelgangers one blocking send after   *)
(* another, in the order in which Go happens to iterate over the roster.   *)
(***************************************************************************)
EXTENDS ChatState

SendTo(op, d, leaving) == [op |-> op, to |-> d, leaving |-> leaving]

\* One send to each of ds, in the order of some iteration over the map.
Broadcasts(op, ds, leaving) ==
    { [k \in DOMAIN s |-> SendTo(op, s[k], leaving)] : s \in SetToSeqs(ds) }

-----------------------------------------------------------------------------
\* Mistaken: only the channel master is told.
RefusalUntold(d) == <<SendTo("Denial", d, Nobody)>>

\* processMessageFromChannelMaster, a join by d when the channel is full.
RefusalOf(d) == <<SendTo("Denial", d, Nobody), SendTo("JoinDenied", d, Nobody)>>

(***************************************************************************)
(* A join by d when it is not: d is told it has joined and who is there,   *)
(* then the members of other users are told.                               *)
(***************************************************************************)
WelcomesOf(d, members) ==
    { <<SendTo("Joined", d, Nobody), SendTo("Text", d, Nobody)>> \o s :
        s \in Broadcasts("Text", {m \in members : UserOf[m] # UserOf[d]}, Nobody) }

AnswersToJoin(d, members) ==
    IF Cardinality(members) >= MaxMembers THEN {RefusalOf(d)}
                                          ELSE WelcomesOf(d, members)

\* Mistaken: a goroutine is launched for every join, entry or not.
LaunchAnew(i) ==
    /\ MasterIdle
    /\ masterQ # <<>>
    /\ chatState[i] = "unborn"
    /\ \A j \in Goroutines : j < i => chatState[j] # "unborn"
    /\ LET m == Head(masterQ) IN
        /\ m.op = "Join"
        /\ m.chan \in Channels
        /\ memberCount' = [memberCount EXCEPT ![m.chan] = 1]
        /\ running' = [running EXCEPT ![m.chan] = i]
        /\ chanOf' = [chanOf EXCEPT ![i] = m.chan]
        /\ \E answer \in AnswersToJoin(m.from, {}) :
            todo' = [todo EXCEPT ![i] = answer]
    /\ chatState' = [chatState EXCEPT ![i] = "running"]
    /\ masterQ' = Tail(masterQ)
    /\ UNCHANGED <<denialQ, masterTodo, masterReplies, masterUp, inbox, speech,
                   memberList, doppVars, telnetVars, crash>>

(***************************************************************************)
(* The channel master launches the goroutine for a channel that is not in  *)
(* its map, with the join as the first message; the goroutine handles it   *)
(* before its select loop.                                                 *)
(***************************************************************************)
Launch(i) ==
    /\ MasterIdle
    /\ masterQ # <<>>
    /\ chatState[i] = "unborn"
    /\ \A j \in Goroutines : j < i => chatState[j] # "unborn"
    /\ LET m == Head(masterQ) IN
        /\ m.op = "Join"
        /\ m.chan \in Channels
        /\ running[m.chan] = NoGoroutine
        /\ memberCount' = [memberCount EXCEPT ![m.chan] = 1]
        /\ running' = [running EXCEPT ![m.chan] = i]
        /\ chanOf' = [chanOf EXCEPT ![i] = m.chan]
        /\ \E answer \in AnswersToJoin(m.from, {}) :
            todo' = [todo EXCEPT ![i] = answer]
    /\ chatState' = [chatState EXCEPT ![i] = "running"]
    /\ masterQ' = Tail(masterQ)
    /\ UNCHANGED <<denialQ, masterTodo, masterReplies, masterUp, inbox, speech,
                   memberList, doppVars, telnetVars, crash>>

TakeFromMaster(i, op) ==
    /\ ChatIdle(i)
    /\ inbox[i] # <<>>
    /\ Head(inbox[i]).op = op
    /\ inbox' = [inbox EXCEPT ![i] = Tail(@)]
    /\ UNCHANGED <<masterVars, chanOf, doppVars, telnetVars>>

ChatJoin(i) ==
    /\ TakeFromMaster(i, "Join")
    /\ \E answer \in AnswersToJoin(Head(inbox[i]).who, memberList[i]) :
        todo' = [todo EXCEPT ![i] = answer]
    /\ UNCHANGED <<chatState, speech, memberList, crash>>

\* tellWhoIsOnChannel drops the leading ", " of the list of the names.
ChatWho(i) ==
    /\ TakeFromMaster(i, "Who")
    /\ IF memberList[i] = {}
       THEN /\ crash' = "roster slice out of range"
            /\ UNCHANGED todo
       ELSE /\ todo' = [todo EXCEPT ![i] = <<SendTo("Text", Head(inbox[i]).who, Nobody)>>]
            /\ UNCHANGED crash
    /\ UNCHANGED <<chatState, speech, memberList>>

\* Everyone on the roster is told; see AfterChatSend for the deletion.
ChatExit(i) ==
    /\ TakeFromMaster(i, "Exit")
    /\ \E s \in Broadcasts("TextExit", memberList[i], Head(inbox[i]).who) :
        todo' = [todo EXCEPT ![i] = s]
    /\ UNCHANGED <<chatState, speech, memberList, crash>>

\* Both go channels are closed; what they still buffered is never read.
ChatShutdown(i) ==
    /\ TakeFromMaster(i, "Shutdown")
    /\ chatState' = [chatState EXCEPT ![i] = "returned"]
    /\ speech' = [speech EXCEPT ![i] = 0]
    /\ UNCHANGED <<memberList, todo, crash>>

\* distributeMessageToEveryoneInChatChannel.
ChatSpeech(i) ==
    /\ ChatIdle(i)
    /\ speech[i] > 0
    /\ speech' = [speech EXCEPT ![i] = @ - 1]
    /\ \E s \in Broadcasts("Text", memberList[i], Nobody) :
        todo' = [todo EXCEPT ![i] = s]
    /\ UNCHANGED <<masterVars, chatState, chanOf, inbox, memberList, doppVars,
                   telnetVars, crash>>

-----------------------------------------------------------------------------
\* Mistaken: whoever leaves stays on the roster.
AfterChatSendKeepsLeaver(i, m) ==
    memberList' = IF m.op = "Joined" THEN [memberList EXCEPT ![i] = @ \cup {m.to}]
                                     ELSE memberList

(***************************************************************************)
(* What the handler does after a send: Joined is followed by the new entry *)
(* in the roster, the last TextExit by the deletion of the leaver's.  (An  *)
(* exit that finds the roster empty has nothing to send or to delete.)     *)
(***************************************************************************)
AfterChatSend(i, m) ==
    memberList' =
        IF m.op = "Joined" THEN [memberList EXCEPT ![i] = @ \cup {m.to}]
        ELSE IF m.op = "TextExit" /\ Len(todo[i]) = 1
             THEN [memberList EXCEPT ![i] = @ \ {m.leaving}]
        ELSE memberList

ChatTellsMaster(i) ==
    /\ chatState[i] = "running"
    /\ todo[i] # <<>>
    /\ Head(todo[i]).op = "Denial"
    /\ Len(denialQ) < DenialBuffer
    /\ denialQ' = Append(denialQ, [from |-> Head(todo[i]).to, chan |-> chanOf[i]])
    /\ todo' = [todo EXCEPT ![i] = Tail(@)]
    /\ UNCHANGED <<masterQ, memberCount, running, masterTodo, masterReplies,
                   masterUp, chatState, chanOf, inbox, speech, memberList,
                   doppVars, telnetVars, crash>>

ChatTellsDoppelganger(i) ==
    /\ chatState[i] = "running"
    /\ todo[i] # <<>>
    /\ Head(todo[i]).op # "Denial"
    /\ LET m == Head(todo[i]) IN
        IF status[m.to] = "returned"
        THEN Panic("chat channel sent on a closed go channel")
        ELSE /\ Len(chatIn[m.to]) < 1
             /\ chatIn' = [chatIn EXCEPT ![m.to] =
                    Append(@, [op |-> m.op, by |-> i, leaving |-> m.leaving])]
             /\ AfterChatSend(i, m)
             /\ todo' = [todo EXCEPT ![i] = Tail(@)]
             /\ UNCHANGED <<masterVars, chatState, chanOf, inbox, speech, status,
                            chatID, callback, gone, cantExit, cantExitCount,
                            replyIn, telnetVars, crash>>
=============================================================================
