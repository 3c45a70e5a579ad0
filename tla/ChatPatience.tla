---------------------------- MODULE ChatPatience ----------------------------
(***************************************************************************)
(* What holds of the chat when its users wait for their answers, and makes *)
(* inductive that nothing is sent to a doppelganger that has returned,     *)
(* that the counts are exact and that nothing panics: of each doppelganger *)
(* one join or exit is under way at most, everywhere in the server, and    *)
(* the session knows it.                                                   *)
(***************************************************************************)
EXTENDS ChatServer

\* Nobody types ahead, look-ups do not fail and messages take less than the limit.
PatientUsers == Impatient = {} /\ ~DatabaseErrors /\ Timely

Kinds == {"Join", "Exit"}

(***************************************************************************)
(* A matter of d is a join of d, until d has its answer, or an exit of d,  *)
(* until d has heard of it.  These are the places where it can be.         *)
(***************************************************************************)
QueuedFor(o, d) == \E m \in ToSet(masterQ) : m.op = o /\ m.from = d

HeldFor(o, d) ==
    \/ \E m \in ToSet(masterTodo) : m.op = o /\ m.who = d
    \/ o = "Join" /\ d \in ToSet(masterReplies)

PostedFor(o, i, d) == \E m \in ToSet(inbox[i]) : m.op = o /\ m.who = d

\* Does a message of a chat channel end the matter o of d?
Ends(o, d, m) == IF o = "Join" THEN m.op \in {"Joined", "JoinDenied"}
                               ELSE m.leaving = d

HandledFor(o, i, d) == \E m \in ToSet(todo[i]) : m.to = d /\ Ends(o, d, m)

RepliedTo(o, d) == o = "Join" /\ replyIn[d] > 0

MailedTo(o, d) == \E m \in ToSet(chatIn[d]) : Ends(o, d, m)

Places == {"queue", "master", "inbox", "handler", "reply", "mail"}

MatterAt(o, d, p, i) ==
    \/ p = "queue"   /\ i = NoGoroutine /\ QueuedFor(o, d)
    \/ p = "master"  /\ i = NoGoroutine /\ HeldFor(o, d)
    \/ p = "inbox"   /\ i \in Goroutines /\ PostedFor(o, i, d)
    \/ p = "handler" /\ i \in Goroutines /\ HandledFor(o, i, d)
    \/ p = "reply"   /\ i = NoGoroutine /\ RepliedTo(o, d)
    \/ p = "mail"    /\ i = NoGoroutine /\ MailedTo(o, d)

Whereabouts == Goroutines \cup {NoGoroutine}

UnderWay(o, d) == \E p \in Places, i \in Whereabouts : MatterAt(o, d, p, i)

OneMatter ==
    \A d \in Doppelgangers, o \in Kinds, p \in Places, i \in Whereabouts :
        MatterAt(o, d, p, i) =>
            \A o2 \in Kinds, p2 \in Places, i2 \in Whereabouts :
                MatterAt(o2, d, p2, i2) => o2 = o /\ p2 = p /\ i2 = i

\* Nor are there two of them in one place.
NoneBehind(requests) ==
    \A k, l \in DOMAIN requests :
        k < l /\ requests[k].op # "Who" => requests[l].from # requests[k].from

OneEnding(sends) ==
    \A k, l \in DOMAIN sends, o \in Kinds :
        k < l /\ Ends(o, sends[k].to, sends[k]) /\ sends[l].to = sends[k].to
            => ~Ends(o, sends[l].to, sends[l])

NothingBehind ==
    /\ NoneBehind(masterQ)
    /\ Len(masterReplies) <= 1
    /\ masterReplies # <<>> => masterTodo = <<>>
    /\ \A i \in Goroutines : OneEnding(todo[i])

(***************************************************************************)
(* A session with chatChannelID id, cantExit ce, gone g, view v, line l    *)
(* and a join or an exit under way, or none.                               *)
(***************************************************************************)
Commands(l) == { m.cmd : m \in ToSet(l) }

Knows(id, ce, g, v, l, join, exit) ==
    /\ id \in Channels => ~ce /\ ~join /\ ~exit
    /\ exit => ce
    /\ join => ce \/ id = Joining
    /\ ce /\ ~g => v = "asked" /\ "join" \notin Commands(l) /\ ~join
    /\ v = "off" => ~join /\ ~exit /\ id \notin Channels
    /\ v = "on" => id # Joining /\ ~join /\ (exit => g)
    /\ "join" \in Commands(l) => v = "asked" /\ ~join /\ ~exit /\ id \notin Channels
    /\ "exit" \in Commands(l) => v = "asked" /\ id # Joining /\ ~join /\ (exit => g)
    /\ "who" \in Commands(l) \/ "say" \in Commands(l) => v = "on"

SessionsKnow ==
    \A d \in Doppelgangers :
        IF status[d] = "returned"
        THEN ~UnderWay("Join", d) /\ ~UnderWay("Exit", d)
        ELSE /\ Knows(chatID[d], cantExit[d], gone[d], view[d], line[d],
                      UnderWay("Join", d), UnderWay("Exit", d))
             /\ status[d] = "blocked" => chatID[d] \in Channels

(***************************************************************************)
(* The rosters: who is on one and is not being taken off takes himself to  *)
(* be on it, is about to hear that he is, or has asked to leave, and so    *)
(* has nobody else.                                                        *)
(***************************************************************************)
TakenOff(i, d) == \E m \in ToSet(todo[i]) : m.leaving = d

Counts(c, d) == d \in Holders(c) \/ ExitAsked(c, d)

Belongs(i, d) ==
    \/ d \in Hearing(i)
    \/ \E c \in Channels : running[c] = i /\ Counts(c, d)
    \/ PostedFor("Exit", i, d)

SeatsAreTaken ==
    \A i \in Goroutines, d \in Doppelgangers :
        /\ d \in memberList[i] /\ ~TakenOff(i, d) <=> Belongs(i, d)
        /\ TakenOff(i, d) => d \in memberList[i]

(***************************************************************************)
(* A /who is on its way for somebody who is on the channel and whose exit, *)
(* if there is one, comes after it; a text is for somebody on the roster,  *)
(* or about to be; and whose join is refused is told.                      *)
(***************************************************************************)
AsksWho(d, c) ==
    d \in Holders(c) \/ \E m \in ToSet(masterQ) : m.op = "Exit" /\ m.from = d /\ m.chan = c

DenialsAreTold(sends) ==
    \A k \in DOMAIN sends : sends[k].op = "Denial" =>
        \E l \in DOMAIN sends :
            k < l /\ sends[l].op = "JoinDenied" /\ sends[l].to = sends[k].to

RepliesReach ==
    /\ \A m \in ToSet(masterQ) :
        /\ m.op # "Join" => m.chan \in Channels
        /\ m.op = "Who" => AsksWho(m.from, m.chan)
    /\ \A m \in ToSet(masterTodo) : m.op = "Who" => AsksWho(m.who, m.chan)
    /\ \A i \in Goroutines :
        /\ \A m \in ToSet(inbox[i]) : m.op = "Who" =>
            \E c \in Channels : running[c] = i /\ Counts(c, m.who)
        /\ \A m \in ToSet(todo[i]) : m.op \in {"Text", "TextExit"} =>
            \/ m.to \in memberList[i]
            \/ \E n \in ToSet(todo[i]) : n.op = "Joined" /\ n.to = m.to
        /\ DenialsAreTold(todo[i])

\* An entry is there as long as somebody counts, or its Shutdown is about to be sent.
EntriesCount ==
    \A c \in Channels : running[c] # NoGoroutine =>
        memberCount[c] > 0 \/ \E m \in ToSet(masterTodo) : m.op = "Shutdown" /\ m.chan = c

(***************************************************************************)
(* A doppelganger that asks for a chat channel, or leaves it, has no other *)
(* request, verdict or exit of its own anywhere between channelmaster.go,  *)
(* chatchannel.go and its own loop until it has heard of that one; its     *)
(* fields chatChannelID and cantExitBeforeExitMessageFromChannel say which *)
(* it is; and the rosters and the master's counts are exactly what these   *)
(* requests make of them (README.md:448-529).                              *)
(***************************************************************************)
PatientInv ==
    /\ AccountsInv
    /\ OneMatter
    /\ NothingBehind
    /\ SessionsKnow
    /\ SeatsAreTaken
    /\ RepliesReach
    /\ CountMatchesRoster
    /\ EntriesCount
    /\ masterUp
    /\ NoCrash
=============================================================================
