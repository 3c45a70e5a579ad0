--------------------------- MODULE ChannelMaster ---------------------------
(***************************************************************************)
(* The goroutine through which every join and every exit goes.  A receive  *)
(* and each of the sends its handler makes is a step of its own, so that   *)
(* the other goroutines run in between and a send may block.               *)
(***************************************************************************)
EXTENDS ChatState

othersOfMaster == <<chatVars, doppVars, telnetVars, crash>>

\* Is there an entry for chatChannelID c in runningChatchannelMap?
HasEntry(c) == c \in Channels /\ running[c] # NoGoroutine

HeadIs(op) == MasterIdle /\ masterQ # <<>> /\ Head(masterQ).op = op

TakeRequest ==
    /\ masterQ' = Tail(masterQ)
    /\ UNCHANGED <<denialQ, masterUp>>

\* A join that names no channel, or one the database does not have.
MasterRefusesName ==
    /\ HeadIs("Join")
    /\ Head(masterQ).chan = Nowhere
    /\ masterReplies' = <<Head(masterQ).from>>
    /\ TakeRequest
    /\ UNCHANGED <<memberCount, running, masterTodo, othersOfMaster>>

(***************************************************************************)
(* The look-up fails: the handler replies "A database error has occurred", *)
(* does not return, and as the ID is 0 replies a second time.              *)
(***************************************************************************)
MasterLookupFails ==
    /\ DatabaseErrors
    /\ HeadIs("Join")
    /\ masterReplies' = <<Head(masterQ).from, Head(masterQ).from>>
    /\ TakeRequest
    /\ UNCHANGED <<memberCount, running, masterTodo, othersOfMaster>>

\* Mistaken: the join is sent on and not counted.
MasterForwardsJoinUncounted ==
    /\ HeadIs("Join")
    /\ LET m == Head(masterQ) IN
        /\ HasEntry(m.chan)
        /\ masterTodo' = <<[op |-> "Join", who |-> m.from, chan |-> m.chan]>>
    /\ TakeRequest
    /\ UNCHANGED <<memberCount, running, masterReplies, othersOfMaster>>

(***************************************************************************)
(* joinChatChannel with an entry in the map: count first, then send.       *)
(***************************************************************************)
MasterForwardsJoin ==
    /\ HeadIs("Join")
    /\ LET m == Head(masterQ) IN
        /\ HasEntry(m.chan)
        /\ memberCount' = [memberCount EXCEPT ![m.chan] = @ + 1]
        /\ masterTodo' = <<[op |-> "Join", who |-> m.from, chan |-> m.chan]>>
    /\ TakeRequest
    /\ UNCHANGED <<running, masterReplies, othersOfMaster>>

\* whoIsOnChatChannel: forwarded if there is an entry, dropped otherwise.
MasterWho ==
    /\ HeadIs("Who")
    /\ LET m == Head(masterQ) IN
        masterTodo' = IF HasEntry(m.chan)
                      THEN <<[op |-> "Who", who |-> m.from, chan |-> m.chan]>>
                      ELSE <<>>
    /\ TakeRequest
    /\ UNCHANGED <<memberCount, running, masterReplies, othersOfMaster>>

MasterExit ==
    /\ HeadIs("Exit")
    /\ LET m == Head(masterQ) IN
        /\ HasEntry(m.chan)
        /\ masterTodo' = <<[op |-> "Exit", who |-> m.from, chan |-> m.chan]>>
    /\ TakeRequest
    /\ UNCHANGED <<memberCount, running, masterReplies, othersOfMaster>>

\* "Should never happen": an exit from a channel not in the map.  The master returns.
MasterReturns ==
    /\ HeadIs("Exit")
    /\ ~HasEntry(Head(masterQ).chan)
    /\ masterUp' = FALSE
    /\ masterQ' = Tail(masterQ)
    /\ UNCHANGED <<denialQ, memberCount, running, masterTodo, masterReplies,
                   othersOfMaster>>

\* Mistaken: a refused join goes on counting.
MasterTakesDenialCounted ==
    /\ MasterIdle
    /\ denialQ # <<>>
    /\ denialQ' = Tail(denialQ)
    /\ UNCHANGED <<masterQ, memberCount, running, masterTodo, masterReplies,
                   masterUp, othersOfMaster>>

(***************************************************************************)
(* A chat channel refused a join: it no longer counts, and the last one to *)
(* stop counting shuts the chat channel down.                              *)
(***************************************************************************)
MasterTakesDenial ==
    /\ MasterIdle
    /\ denialQ # <<>>
    /\ LET m == Head(denialQ) IN
        IF ~HasEntry(m.chan)
        THEN Panic("nil map entry")
        ELSE /\ memberCount' = [memberCount EXCEPT ![m.chan] = @ - 1]
             /\ masterTodo' = IF memberCount[m.chan] = 1
                    THEN <<[op |-> "Shutdown", who |-> m.from, chan |-> m.chan]>>
                    ELSE <<>>
             /\ denialQ' = Tail(denialQ)
             /\ UNCHANGED <<masterQ, running, masterReplies, masterUp,
                            othersOfMaster>>

\* Mistaken: the entry of a goroutine that has been shut down stays in the map.
AfterMasterSendKeepsEntry(m) ==
    /\ memberCount' = IF m.op = "Exit"
                      THEN [memberCount EXCEPT ![m.chan] = @ - 1]
                      ELSE memberCount
    /\ masterTodo' = IF m.op = "Exit" /\ memberCount[m.chan] = 1
                     THEN <<[m EXCEPT !.op = "Shutdown"]>>
                     ELSE Tail(masterTodo)
    /\ UNCHANGED running

\* Mistaken: the count is compared with 0 before the exit is counted.
AfterMasterSendTooLate(m) ==
    /\ memberCount' = IF m.op = "Exit"
                      THEN [memberCount EXCEPT ![m.chan] = @ - 1]
                      ELSE memberCount
    /\ masterTodo' = IF m.op = "Exit" /\ memberCount[m.chan] = 0
                     THEN <<[m EXCEPT !.op = "Shutdown"]>>
                     ELSE Tail(masterTodo)
    /\ running' = IF m.op = "Shutdown"
                  THEN [running EXCEPT ![m.chan] = NoGoroutine]
                  ELSE running

(***************************************************************************)
(* The send at the head of masterTodo, through the chatChannelCallback of  *)
(* its map entry, and what the handler does after it: an Exit is followed  *)
(* by the decrement and, at 0, by the Shutdown; a Shutdown by the deletion *)
(* of the entry.                                                           *)
(***************************************************************************)
AfterMasterSend(m) ==
    /\ memberCount' = IF m.op = "Exit"
                      THEN [memberCount EXCEPT ![m.chan] = @ - 1]
                      ELSE memberCount
    /\ masterTodo' = IF m.op = "Exit" /\ memberCount[m.chan] = 1
                     THEN <<[m EXCEPT !.op = "Shutdown"]>>
                     ELSE Tail(masterTodo)
    /\ running' = IF m.op = "Shutdown"
                  THEN [running EXCEPT ![m.chan] = NoGoroutine]
                  ELSE running

MasterSendsToChat ==
    /\ masterUp
    /\ masterTodo # <<>>
    /\ LET m == Head(masterTodo)
           i == running[m.chan] IN
        IF chatState[i] = "returned"
        THEN Panic("master sent on a closed go channel")
        ELSE /\ Len(inbox[i]) < 1
             /\ inbox' = [inbox EXCEPT ![i] = Append(@, [op |-> m.op, who |-> m.who])]
             /\ AfterMasterSend(m)
             /\ UNCHANGED <<masterQ, denialQ, masterReplies, masterUp, chatState,
                            chanOf, speech, memberList, todo, doppVars, telnetVars,
                            crash>>

\* Mistaken: the reply is left in the go channel, full or not.
MasterRepliesUnbounded ==
    /\ masterUp
    /\ masterReplies # <<>>
    /\ replyIn' = [replyIn EXCEPT ![Head(masterReplies)] = @ + 1]
    /\ masterReplies' = Tail(masterReplies)
    /\ UNCHANGED <<masterQ, denialQ, memberCount, running, masterTodo,
                   masterUp, chatVars, status, chatID, callback, gone,
                   cantExit, cantExitCount, chatIn, telnetVars, crash>>

MasterReplies ==
    /\ masterUp
    /\ masterReplies # <<>>
    /\ LET d == Head(masterReplies) IN
        IF status[d] = "returned"
        THEN Panic("master replied on a closed go channel")
        ELSE /\ replyIn[d] < 1
             /\ replyIn' = [replyIn EXCEPT ![d] = @ + 1]
             /\ masterReplies' = Tail(masterReplies)
             /\ UNCHANGED <<masterQ, denialQ, memberCount, running, masterTodo,
                            masterUp, chatVars, status, chatID, callback, gone,
                            cantExit, cantExitCount, chatIn, telnetVars, crash>>
=============================================================================
