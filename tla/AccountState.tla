---------------------------- MODULE AccountState ----------------------------
(***************************************************************************)
(* What stands between a new connection and the chat: the listener, the    *)
(* Telnet goroutine and the doppelganger of each connection up to and      *)
(* beside the chat commands, and the database they share.                  *)
(*                                                                         *)
(* A connection is a slot that is used again once all of its connection is *)
(* gone.  A line is what the user means by it; lines are handed over whole.*)
(* The hash of a password stands for the password.                         *)
(***************************************************************************)
EXTENDS Integers, FiniteSets, Sequences

CONSTANTS
    Connections,    \* slots for connections
    Names,          \* user names
    Passwords,      \* passwords of at least 4 characters
    Short,          \* one that is shorter
    Yes, No,        \* the answers to "Create new account?"
    ChannelNames,   \* the operands of /create
    Other,          \* a command that only writes to the user, such as /list
    Quit,           \* ^C or ^D
    Nothing,        \* the empty string
    DatabaseErrors, \* may queries and transactions fail?
    FdLimit,        \* file descriptors for the listener and the connections
    MaxBuffered     \* bound on the lines received and unread when a user drops

ASSUME LimitsAssumption ==
    /\ FdLimit \in Nat \ {0}
    /\ MaxBuffered \in Nat
    /\ DatabaseErrors \in BOOLEAN
    /\ Nothing \notin Names \cup Passwords

VARIABLES
    \* The database.
    user,           \* its rows, the userID of a row being its position
    channel,
    \* The listener.
    listener,       \* listening, retrying (asleep for 10 s), or stopped
    \* Each connection: network, Telnet goroutine and server.handle.
    conn,           \* up, or down at the user's end
    buffered,       \* lines received that are still unread when it went down
    fd,             \* is its file descriptor open here?
    telnet,         \* reading, closed (userGoChannel closed) or quit
    line,           \* the line the Telnet goroutine is handing over
    \* Its doppelganger.
    dopp,           \* starting, selecting, writing (in a transaction), returned
    tx,             \* the name its transaction is about, and the row found
    mode,
    attemptingUserName,
    attemptingUserNewPassword,
    userID,
    userName,
    echoOn,
    gone            \* telnetGoroutineHasGoneAway

database == <<user, channel>>
network  == <<conn, buffered, fd>>
session  == <<mode, attemptingUserName, attemptingUserNewPassword, userID,
              userName, echoOn, gone>>
vars == <<database, listener, network, telnet, line, dopp, tx, session>>

PasswordModes == {"NewPassword1", "NewPassword2", "RegularPassword"}
Modes == {"Username", "NewUserYN", "Command"} \cup PasswordModes

\* What a user types at the prompt of a mode, besides ^C and ^D.
AskedIn(m) ==
    CASE m = "Username"        -> Names
      [] m = "NewUserYN"       -> {Yes, No}
      [] m \in PasswordModes   -> Passwords \cup {Short}
      [] m = "Command"         -> ChannelNames \cup {Other}

NoTx == [name |-> Nothing, row |-> 0]

\* The row a SELECT by name ends with, 0 if there is none.
RowOf(table, name) ==
    IF \E k \in DOMAIN table : table[k].name = name
    THEN CHOOSE k \in DOMAIN table : table[k].name = name
    ELSE 0
=============================================================================
