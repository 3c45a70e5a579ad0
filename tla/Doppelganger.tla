---------------------------- MODULE Doppelganger ----------------------------
(***************************************************************************)
(* The goroutine that stands for one logged-in user.  Each action is one   *)
(* iteration of its loop from the select on: the case that was ready, the  *)
(* exit procedure at the end of the loop, and the prompt at the top of the *)
(* next iteration.  A write to the user may fail once the connection is    *)
(* down, and need not: the kernel may still take it.                       *)
(***************************************************************************)
EXTENDS ChatState

restOfMaster == <<denialQ, memberCount, running, masterTodo, masterReplies, masterUp>>
restOfChat == <<chatState, chanOf, inbox, memberList, todo>>

\* May a write to d's user fail?
WriteFails(d) == IF conn[d] = "down" THEN BOOLEAN ELSE {FALSE}

Request(op, d, c) == [op |-> op, from |-> d, chan |-> c]

-----------------------------------------------------------------------------
Settles(d, st, g, id, ce, n, q) ==
    /\ status' = [status EXCEPT ![d] = st]
    /\ gone' = [gone EXCEPT ![d] = g]
    /\ chatID' = [chatID EXCEPT ![d] = id]
    /\ cantExit' = [cantExit EXCEPT ![d] = ce]
    /\ cantExitCount' = [cantExitCount EXCEPT ![d] = n]
    /\ masterQ' = q

(***************************************************************************)
(* cantExitCount after one more second.  If messages take less than the    *)
(* CantExitLimit seconds, the count does not reach the limit before        *)
(* everything about d has been dealt with.                                 *)
(***************************************************************************)
Waited(d, q) ==
    IF Timely /\ ~(Quiet(d) /\ q = masterQ)
    THEN IF cantExitCount[d] + 1 < CantExitLimit THEN cantExitCount[d] + 1
                                                 ELSE CantExitLimit - 1
    ELSE cantExitCount[d] + 1

(***************************************************************************)
(* handleChannelExitProcedure, for a doppelganger whose handler leaves     *)
(* gone = g, chatChannelID = id, cantExit = ce and the channel master's    *)
(* queue = q, and then the prompt if it is needed.                         *)
(***************************************************************************)
StaysWithUser(d, id, ce, q, prompt) ==
    \E lost \in (IF prompt THEN WriteFails(d) ELSE {FALSE}) :
        Settles(d, "selecting", lost, id, ce, cantExitCount[d], q)

WaitsForExit(d, id, q) ==
    LET n == Waited(d, q) IN
    Settles(d, IF n >= CantExitLimit THEN "returned" ELSE "selecting",
            TRUE, id, TRUE, n, q)

\* Mistaken: the doppelganger does not wait for its exit to come back.
LeavesChannelAtOnce(d, id, q) ==
    Settles(d, "returned", TRUE, NoChannel, TRUE, cantExitCount[d],
            IF id = Joining THEN q ELSE Append(q, Request("Exit", d, id)))

LeavesChannel(d, id, q) ==
    Settles(d, "selecting", TRUE, NoChannel, TRUE, cantExitCount[d],
            IF id = Joining THEN q ELSE Append(q, Request("Exit", d, id)))

Returns(d, q) == Settles(d, "returned", TRUE, NoChannel, FALSE, cantExitCount[d], q)

EndOfLoop(d, g, id, ce, q, prompt) ==
    \/ ~g /\ StaysWithUser(d, id, ce, q, prompt)
    \/ g /\ ce /\ WaitsForExit(d, id, q)
    \/ g /\ ~ce /\ id # NoChannel /\ LeavesChannel(d, id, q)
    \/ g /\ ~ce /\ id = NoChannel /\ Returns(d, q)

\* The handler leaves everything as it was but for a write that may have failed.
OnlyWrites(d, g, prompt) == EndOfLoop(d, g, chatID[d], cantExit[d], masterQ, prompt)

-----------------------------------------------------------------------------
\* The bytes the Telnet goroutine hands over, a line at a time.

HasLine(d, cmd) ==
    /\ status[d] = "selecting"
    /\ line[d] # <<>>
    /\ Head(line[d]).cmd = cmd

TakeLine(d) ==
    /\ line' = [line EXCEPT ![d] = <<>>]
    /\ UNCHANGED <<restOfMaster, restOfChat, callback, replyIn, chatIn, conn, typed>>

(***************************************************************************)
(* A byte of the line before its return key, once the connection is down:  *)
(* its echo fails, or has failed before.                                   *)
(***************************************************************************)
DoppEchoFails(d) ==
    /\ status[d] = "selecting"
    /\ line[d] # <<>>
    /\ Head(line[d]).cmd # "quit"
    /\ gone[d] \/ conn[d] = "down"
    /\ OnlyWrites(d, TRUE, FALSE)
    /\ UNCHANGED <<restOfMaster, chatVars, callback, replyIn, chatIn, telnetVars,
                   crash>>

\* /join.  A doppelganger that is still Joining is not refused.
DoppJoin(d) ==
    /\ HasLine(d, "join")
    /\ \/ /\ chatID[d] \in Channels
          /\ \E fails \in WriteFails(d) : OnlyWrites(d, gone[d] \/ fails, TRUE)
       \/ /\ chatID[d] \notin Channels
          /\ EndOfLoop(d, gone[d], Joining, cantExit[d],
                Append(masterQ, Request("Join", d, Head(line[d]).chan)), FALSE)
    /\ TakeLine(d)
    /\ UNCHANGED <<speech, telnet, view, crash>>

\* /who.
DoppWho(d) ==
    /\ HasLine(d, "who")
    /\ \E fails \in WriteFails(d) :
        IF chatID[d] = NoChannel \/ fails
        THEN OnlyWrites(d, gone[d] \/ fails, TRUE)
        ELSE EndOfLoop(d, gone[d], chatID[d], cantExit[d],
                Append(masterQ, Request("Who", d, chatID[d])), TRUE)
    /\ TakeLine(d)
    /\ UNCHANGED <<speech, telnet, view, crash>>

\* /exit.  The channel is left at once, the answer comes later.
DoppExit(d) ==
    /\ HasLine(d, "exit")
    /\ \E fails \in WriteFails(d) :
        IF chatID[d] = NoChannel \/ fails
        THEN OnlyWrites(d, gone[d] \/ fails, TRUE)
        ELSE EndOfLoop(d, gone[d], NoChannel, TRUE,
                Append(masterQ, Request("Exit", d, chatID[d])), TRUE)
    /\ TakeLine(d)
    /\ UNCHANGED <<speech, telnet, view, crash>>

(***************************************************************************)
(* /say, /emote, /think and /sing.  The send to the chat channel's own go  *)
(* channel blocks the doppelganger while that is full.                     *)
(***************************************************************************)
DoppSay(d) ==
    /\ HasLine(d, "say")
    /\ \E fails \in WriteFails(d) :
        IF chatID[d] = NoChannel \/ fails \/ callback[d] = NoGoroutine
        THEN /\ OnlyWrites(d, gone[d] \/ fails, chatID[d] = NoChannel)
             /\ UNCHANGED <<speech, crash>>
        ELSE IF chatState[callback[d]] = "returned"
        THEN /\ crash' = "doppelganger sent on a closed go channel"
             /\ UNCHANGED <<masterQ, speech, status, gone, chatID, cantExit,
                            cantExitCount>>
        ELSE IF speech[callback[d]] = SpeechBuffer
        THEN /\ status' = [status EXCEPT ![d] = "blocked"]
             /\ UNCHANGED <<masterQ, speech, gone, chatID, cantExit,
                            cantExitCount, crash>>
        ELSE /\ speech' = [speech EXCEPT ![callback[d]] = @ + 1]
             /\ OnlyWrites(d, gone[d], FALSE)
             /\ UNCHANGED crash
    /\ TakeLine(d)
    /\ UNCHANGED <<telnet, view>>

\* The blocked send of a /say goes through, or finds its go channel closed.
DoppUnblocks(d) ==
    /\ status[d] = "blocked"
    /\ IF chatState[callback[d]] = "returned"
       THEN Panic("doppelganger sent on a closed go channel")
       ELSE /\ speech[callback[d]] < SpeechBuffer
            /\ speech' = [speech EXCEPT ![callback[d]] = @ + 1]
            /\ OnlyWrites(d, gone[d], FALSE)
            /\ UNCHANGED <<restOfMaster, restOfChat, callback, replyIn, chatIn,
                           telnetVars, crash>>

(***************************************************************************)
(* ^C or ^D.  The Telnet goroutine returns once it has handed it over, and *)
(* does not close userGoChannel.                                           *)
(***************************************************************************)
DoppQuit(d) ==
    /\ HasLine(d, "quit")
    /\ OnlyWrites(d, TRUE, FALSE)
    /\ TakeLine(d)
    /\ telnet' = [telnet EXCEPT ![d] = "quit"]
    /\ UNCHANGED <<speech, view, crash>>

(***************************************************************************)
(* userGoChannel is closed, and is ready in every iteration from then on.  *)
(* (An iteration that only sleeps for a second is a stuttering step.)      *)
(***************************************************************************)
OnlySleeps(d) ==
    gone[d] /\ cantExit[d] /\ Waited(d, masterQ) = cantExitCount[d]

DoppSeesClosed(d) ==
    /\ status[d] = "selecting"
    /\ telnet[d] = "closed"
    /\ ~OnlySleeps(d)
    /\ OnlyWrites(d, TRUE, FALSE)
    /\ UNCHANGED <<restOfMaster, chatVars, callback, replyIn, chatIn, telnetVars,
                   crash>>

-----------------------------------------------------------------------------
\* Messages from the channel master and from chat channels.

Sees(d, what) ==
    view' = [view EXCEPT ![d] = IF d \in Impatient THEN @ ELSE what]

\* fromChannelMasterToDoppelgangerOpJoinDenied.
DoppRefusedByMaster(d) ==
    /\ status[d] = "selecting"
    /\ replyIn[d] > 0
    /\ replyIn' = [replyIn EXCEPT ![d] = @ - 1]
    /\ \E fails \in WriteFails(d) :
        LET g == gone[d] \/ fails IN
        EndOfLoop(d, g, NoChannel, cantExit[d] /\ ~g, masterQ, TRUE)
    /\ Sees(d, "off")
    /\ UNCHANGED <<restOfMaster, chatVars, callback, chatIn, telnet, conn, line,
                   typed, crash>>

TakeFromChat(d, op) ==
    /\ status[d] = "selecting"
    /\ chatIn[d] # <<>>
    /\ Head(chatIn[d]).op = op
    /\ chatIn' = [chatIn EXCEPT ![d] = Tail(@)]
    /\ UNCHANGED <<restOfMaster, chatVars, replyIn, telnet, conn, line, typed, crash>>

\* The chat channel is full.  chatChannelID stays -1.
DoppRefusedByChat(d) ==
    /\ TakeFromChat(d, "JoinDenied")
    /\ \E fails \in WriteFails(d) : OnlyWrites(d, gone[d] \/ fails, TRUE)
    /\ Sees(d, "off")
    /\ UNCHANGED callback

\* Mistaken: what it waits for is not forgotten once it has joined.
DoppJoinedStillWaits(d) ==
    /\ TakeFromChat(d, "Joined")
    /\ callback' = [callback EXCEPT ![d] = Head(chatIn[d]).by]
    /\ \E fails \in WriteFails(d) :
        EndOfLoop(d, gone[d] \/ fails, chanOf[Head(chatIn[d]).by], cantExit[d],
                  masterQ, TRUE)
    /\ Sees(d, "on")

\* Mistaken: it goes on talking to the goroutine it was with before, or to none.
DoppJoinedKeepsCallback(d) ==
    /\ TakeFromChat(d, "Joined")
    /\ \E fails \in WriteFails(d) :
        LET g == gone[d] \/ fails IN
        EndOfLoop(d, g, chanOf[Head(chatIn[d]).by], cantExit[d] /\ ~g, masterQ, TRUE)
    /\ Sees(d, "on")
    /\ UNCHANGED callback

(***************************************************************************)
(* If the user is gone the exit procedure starts from the beginning.       *)
(***************************************************************************)
DoppJoined(d) ==
    /\ TakeFromChat(d, "Joined")
    /\ callback' = [callback EXCEPT ![d] = Head(chatIn[d]).by]
    /\ \E fails \in WriteFails(d) :
        LET g == gone[d] \/ fails IN
        EndOfLoop(d, g, chanOf[Head(chatIn[d]).by], cantExit[d] /\ ~g, masterQ, TRUE)
    /\ Sees(d, "on")

DoppText(d) ==
    /\ TakeFromChat(d, "Text")
    /\ \E fails \in WriteFails(d) : OnlyWrites(d, gone[d] \/ fails, TRUE)
    /\ UNCHANGED <<callback, view>>

DoppHearsExit(d) ==
    /\ TakeFromChat(d, "TextExit")
    /\ Head(chatIn[d]).leaving # d
    /\ \E fails \in WriteFails(d) : OnlyWrites(d, gone[d] \/ fails, TRUE)
    /\ UNCHANGED <<callback, view>>

\* Its own exit comes back: the end of a doppelganger whose user is gone.
DoppOwnExit(d) ==
    /\ TakeFromChat(d, "TextExit")
    /\ Head(chatIn[d]).leaving = d
    /\ \/ /\ gone[d]
          /\ Settles(d, "returned", TRUE, chatID[d], cantExit[d],
                     cantExitCount[d], masterQ)
       \/ /\ ~gone[d]
          /\ \E fails \in WriteFails(d) :
                \* chatChannelID is reset last, before the exit procedure.
                EndOfLoop(d, fails, NoChannel, FALSE, masterQ, TRUE)
    /\ Sees(d, "off")
    /\ UNCHANGED callback
=============================================================================
