----------------------------- MODULE ChatState -----------------------------
(***************************************************************************)
(* The goroutines of the chat server and the go channels between them: the *)
(* constants, the state and the messages that the modules of the channel   *)
(* master, of the chat channels, of the doppelgangers and of the Telnet    *)
(* goroutines share.                                                       *)
(*                                                                         *)
(* The text of a message, of a prompt and of a reply is left out.  A line  *)
(* the user types is its command, a chat channel is its ID, and the string *)
(* conversions of the IDs play no part.                                    *)
(***************************************************************************)
EXTENDS Integers, FiniteSets, Sequences, SequencesExt

CONSTANTS
    Doppelgangers,  \* one per connection, all of them past the login
    UserOf,         \* the userID a doppelganger is logged in with
    Channels,       \* the chat channels of the database
    Nowhere,        \* a name /join may give that the database does not have
    NoChannel,      \* chatChannelID = 0, on no channel
    Joining,        \* chatChannelID = -1, has asked to join
    Nobody,         \* leavingDoppelgangerID = 0
    MaxMembers,     \* 6, the size at which a chat channel is full
    SpeechBuffer,   \* 128, the buffer from the doppelgangers to a chat channel
    DenialBuffer,   \* 512, the buffer from the chat channels to the master
    CantExitLimit,  \* 1000, the seconds a zombie waits
    Impatient,      \* the users who type without waiting for an answer
    Offered,        \* the lines the users may type, a subset of Lines
    DatabaseErrors, \* may the look-up of a channel's ID fail?
    Timely,         \* do messages take less than CantExitLimit seconds?
    MaxLines,       \* bound on the lines one user types
    MaxLaunches     \* bound on the chat channel goroutines ever launched

ASSUME IdsAssumption ==
    /\ IsFiniteSet(Doppelgangers)
    /\ Nobody \notin Doppelgangers
    /\ {NoChannel, Joining, Nowhere} \cap Channels = {}
    /\ Cardinality({NoChannel, Joining, Nowhere}) = 3
    /\ Impatient \subseteq Doppelgangers

ASSUME SizesAssumption ==
    /\ MaxMembers \in Nat \ {0}
    /\ SpeechBuffer \in Nat \ {0}
    /\ DenialBuffer \in Nat \ {0}
    /\ CantExitLimit \in Nat \ {0}
    /\ MaxLines \in Nat
    /\ MaxLaunches \in Nat
    /\ DatabaseErrors \in BOOLEAN
    /\ Timely \in BOOLEAN

VARIABLES
    \* The channel master.
    masterQ,        \* chanMasterFromDoppelgangerGoChan
    denialQ,        \* chanMasterFromChatChannelGoChan
    memberCount,    \* runningChatchannelMap[c].memberCount, 0 with no entry
    running,        \* the goroutine behind the entry's chatChannelCallback
    masterTodo,     \* the sends to chat channels its handler has yet to make
    masterReplies,  \* the JoinDenied replies its handler has yet to make
    masterUp,       \* has its goroutine not returned?
    \* The chat channel goroutines, numbered in the order of their launch.
    chatState,      \* unborn, running or returned (its go channels closed)
    chanOf,         \* chatChannelID
    inbox,          \* incomingFromChannelMaster
    speech,         \* the number of messages in incomingFromDoppelganger
    memberList,     \* the doppelganger IDs on its roster
    todo,           \* the sends its handler has yet to make
    \* The doppelgangers.
    status,         \* at its select, blocked in a send, or returned
    chatID,         \* chatChannelID
    callback,       \* the goroutine behind chatChannelCallback, 0 for nil
    gone,           \* telnetGoroutineHasGoneAway
    cantExit,       \* cantExitBeforeExitMessageFromChannel
    cantExitCount,
    replyIn,        \* the number of messages in its incomingFromChannelMaster
    chatIn,         \* incomingFromChatChannel
    \* The Telnet goroutines and the people at the other end.
    telnet,         \* reading, closed (userGoChannel closed) or quit (not so)
    conn,           \* the network connection
    line,           \* the line the Telnet goroutine is handing over
    typed,          \* how many lines the user has typed
    view,           \* what the screen tells a patient user
    crash           \* the panic that took the server down

masterVars == <<masterQ, denialQ, memberCount, running, masterTodo,
                masterReplies, masterUp>>
chatVars   == <<chatState, chanOf, inbox, speech, memberList, todo>>
doppVars   == <<status, chatID, callback, gone, cantExit, cantExitCount,
                replyIn, chatIn>>
telnetVars == <<telnet, conn, line, typed, view>>
vars       == <<masterVars, chatVars, doppVars, telnetVars, crash>>

-----------------------------------------------------------------------------
Goroutines == 1 .. MaxLaunches
NoGoroutine == 0

Lines == [cmd : {"join"}, chan : Channels \cup {Nowhere}]
         \cup [cmd : {"exit", "who", "say", "quit"}, chan : {Nowhere}]

ASSUME OfferedAssumption == Offered \subseteq Lines

(***************************************************************************)
(* Doppelganger to channel master.  /who and /exit carry the sender's      *)
(* chatChannelID, which is never 0: doCommand refuses them then.           *)
(***************************************************************************)
ToMaster == [op : {"Join"}, from : Doppelgangers, chan : Channels \cup {Nowhere}]
            \cup [op : {"Who", "Exit"}, from : Doppelgangers,
                  chan : Channels \cup {Joining}]

\* Chat channel to channel master: a join was refused.
Denials == [from : Doppelgangers, chan : Channels]

\* Channel master to chat channel.
ToChat == [op : {"Join", "Who", "Exit", "Shutdown"}, who : Doppelgangers]

\* Chat channel to doppelganger.
ToDoppelganger == [op : {"JoinDenied", "Joined", "Text", "TextExit"},
                   by : Goroutines, leaving : Doppelgangers \cup {Nobody}]

\* A send a chat channel has yet to make; "Denial" goes to the channel master.
ChatSends == [op : {"JoinDenied", "Joined", "Text", "TextExit", "Denial"},
              to : Doppelgangers, leaving : Doppelgangers \cup {Nobody}]

\* A send the channel master has yet to make, through its entry for chan.
MasterSends == [op : {"Join", "Who", "Exit", "Shutdown"},
                who : Doppelgangers, chan : Channels]

MasterIdle == masterUp /\ masterTodo = <<>> /\ masterReplies = <<>>
ChatIdle(i) == chatState[i] = "running" /\ todo[i] = <<>>

(***************************************************************************)
(* Nothing about d is on its way: no request of d, no notice or roster     *)
(* entry about it, no message to it.                                       *)
(***************************************************************************)
Quiet(d) ==
    /\ \A k \in DOMAIN masterQ : masterQ[k].from # d
    /\ \A k \in DOMAIN masterTodo : masterTodo[k].who # d
    /\ \A k \in DOMAIN masterReplies : masterReplies[k] # d
    /\ replyIn[d] = 0 /\ chatIn[d] = <<>>
    /\ \A i \in Goroutines :
        /\ d \notin memberList[i]
        /\ \A k \in DOMAIN inbox[i] : inbox[i][k].who # d
        /\ \A k \in DOMAIN todo[i] : todo[i][k].to # d /\ todo[i][k].leaving # d

(***************************************************************************)
(* A send on a closed go channel, a slice bound out of range or a nil map  *)
(* entry panics and takes the whole program down.                          *)
(***************************************************************************)
Crashes == {"none", "nil map entry", "master sent on a closed go channel",
            "master replied on a closed go channel", "roster slice out of range",
            "chat channel sent on a closed go channel",
            "doppelganger sent on a closed go channel"}

Panic(why) ==
    /\ crash' = why
    /\ UNCHANGED <<masterVars, chatVars, doppVars, telnetVars>>
=============================================================================
