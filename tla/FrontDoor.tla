----------------------------- MODULE FrontDoor -----------------------------
(***************************************************************************)
(* The listener, the Telnet goroutines and the doppelgangers of users who  *)
(* register, log in and create channels, over one database; and what they  *)
(* promise.                                                                *)
(***************************************************************************)
EXTENDS Login, Listener

\* A first start, which finds no database file and creates the empty tables.
Init ==
    /\ user = <<>>
    /\ channel = <<>>
    /\ listener = "stopped"
    /\ conn = Everywhere("down")
    /\ buffered = Everywhere(0)
    /\ fd = Everywhere(FALSE)
    /\ telnet = Everywhere("closed")
    /\ line = Everywhere(<<>>)
    /\ dopp = Everywhere("returned")
    /\ tx = Everywhere(NoTx)
    /\ mode = Everywhere("Username")
    /\ attemptingUserName = Everywhere(Nothing)
    /\ attemptingUserNewPassword = Everywhere(Nothing)
    /\ userID = Everywhere(0)
    /\ userName = Everywhere(Nothing)
    /\ echoOn = Everywhere(TRUE)
    /\ gone = Everywhere(FALSE)

Iterates(s) ==
    \/ Starts(s)
    \/ LoginUsername(s) \/ LoginNewUserYN(s)
    \/ LoginNewPassword1(s) \/ LoginPasswordsDiffer(s) \/ LoginRegularPassword(s)
    \/ CommandOther(s)
    \/ CreateUserReads(s) \/ CreateUserWrites(s) \/ CreateUserFails(s)
    \/ CreateChannelReads(s) \/ CreateChannelWrites(s) \/ CreateChannelFails(s)
    \/ EchoFails(s) \/ TakesQuit(s) \/ SeesClosed(s)

Next ==
    \/ \E s \in Connections :
        \/ Iterates(s)
        \/ Accepts(s) \/ UserTypes(s) \/ ConnectionDrops(s)
        \/ ReadFails(s) \/ HandlerReturns(s)
    \/ AcceptFails \/ ListensAgain
    \/ ProgramEnds \/ StartsUp

Spec == Init /\ [][Next]_vars

(***************************************************************************)
(* Every goroutine that can go on does.  Nothing is said of users, who may *)
(* type or not and stay or not, nor of faults; lines that had arrived when *)
(* their sender dropped are there to be read.                              *)
(***************************************************************************)
Fairness ==
    /\ \A s \in Connections :
        /\ WF_vars(Iterates(s))
        /\ WF_vars(conn[s] = "down" /\ UserTypes(s))
        /\ WF_vars(ReadFails(s))
        /\ WF_vars(HandlerReturns(s))
    /\ WF_vars(ListensAgain)

FairSpec == Spec /\ Fairness

-----------------------------------------------------------------------------
UserRows == [name : Names, password : Passwords]
ChannelRows == [name : ChannelNames]
Texts == {Quit} \cup UNION { AskedIn(m) : m \in Modes }

(***************************************************************************)
(* The types of the variables; what has been typed arrives as a value of   *)
(* the field it is typed for, whatever happened on its way.                *)
(***************************************************************************)
TypeOK ==
    /\ user \in Seq(UserRows)
    /\ channel \in Seq(ChannelRows)
    /\ listener \in {"listening", "retrying", "stopped"}
    /\ conn \in [Connections -> {"up", "down"}]
    /\ buffered \in [Connections -> 0..MaxBuffered]
    /\ fd \in [Connections -> BOOLEAN]
    /\ telnet \in [Connections -> {"reading", "closed", "quit"}]
    /\ line \in [Connections -> {<<>>} \cup { <<t>> : t \in Texts }]
    /\ dopp \in [Connections -> {"starting", "selecting", "writing", "returned"}]
    /\ tx \in [Connections -> [name : Names \cup ChannelNames \cup {Nothing}, row : Nat]]
    /\ mode \in [Connections -> Modes]
    /\ attemptingUserName \in [Connections -> Names \cup {Nothing}]
    /\ attemptingUserNewPassword \in [Connections -> Passwords \cup {Nothing}]
    /\ userID \in [Connections -> Nat]
    /\ userName \in [Connections -> Names \cup {Nothing}]
    /\ echoOn \in [Connections -> BOOLEAN]
    /\ gone \in [Connections -> BOOLEAN]

Unique(table) == \A i, j \in DOMAIN table : table[i].name = table[j].name => i = j

(***************************************************************************)
(* No two accounts and no two channels have the same name, however the     *)
(* SELECTs and INSERTs of several sessions interleave: a row found by name *)
(* is the only one (createUser, createChatchannel, login).                 *)
(***************************************************************************)
NamesAreUnique == Unique(user) /\ Unique(channel)

(***************************************************************************)
(* A password is asked only of a user who has an account, and a session    *)
(* that is past the login is the owner of its row: its userID and userName *)
(* are those of one row, which is the name it attempted, however many      *)
(* others have registered, logged in or failed to meanwhile (login's       *)
(* "never should end up here"; /join's and /say's "should be impossible"). *)
(***************************************************************************)
SessionsMatchAccounts ==
    \A s \in Connections : dopp[s] # "returned" =>
        /\ mode[s] = "RegularPassword" => RowOf(user, attemptingUserName[s]) # 0
        /\ mode[s] = "Command" =>
            /\ userID[s] \in DOMAIN user
            /\ user[userID[s]].name = userName[s]
            /\ userName[s] = attemptingUserName[s]
        /\ mode[s] # "Command" => userID[s] = 0

\* What a transaction has found is still there when it writes.
RowStands(table, t) == t.row # 0 => t.row \in DOMAIN table /\ table[t.row].name = t.name

TransactionsStand ==
    \A s \in Connections : dopp[s] = "writing" =>
        /\ mode[s] \in {"NewPassword2", "Command"}
        /\ mode[s] = "NewPassword2" =>
            tx[s].name = attemptingUserName[s] /\ RowStands(user, tx[s])
        /\ mode[s] = "Command" =>
            tx[s].name \in ChannelNames /\ RowStands(channel, tx[s])

\* A line under way is one for the prompt it will meet, on an open connection.
LinesFitPrompts ==
    \A s \in Connections :
        /\ telnet[s] = "reading" => fd[s]
        /\ telnet[s] # "reading" => line[s] = <<>>
        /\ dopp[s] # "returned" /\ line[s] \notin {<<>>, <<Quit>>} =>
                line[s][1] \in AskedIn(Awaited(s))

AttemptsAreNamed ==
    \A s \in Connections :
        /\ mode[s] # "Username" => attemptingUserName[s] \in Names
        /\ mode[s] = "NewPassword2" => attemptingUserNewPassword[s] \in Passwords
        /\ dopp[s] \in {"starting", "returned"} => mode[s] = "Username" /\ userID[s] = 0

(***************************************************************************)
(* The inductive invariant: types, unique names, sessions that match their *)
(* accounts, and what these rest on: rows found stay where they are while  *)
(* others write, and no line is taken at a prompt it was not typed for.    *)
(***************************************************************************)
IInv ==
    /\ TypeOK
    /\ NamesAreUnique
    /\ SessionsMatchAccounts
    /\ TransactionsStand
    /\ LinesFitPrompts
    /\ AttemptsAreNamed

(***************************************************************************)
(* While the doppelganger waits for input, the user sees what is typed     *)
(* exactly if it is not a password: retries, mismatches and errors never   *)
(* leave the echo off for a user name nor on for a password.               *)
(***************************************************************************)
PasswordUnseen ==
    \A s \in Connections : dopp[s] = "selecting" =>
        (echoOn[s] <=> mode[s] \notin PasswordModes)

(***************************************************************************)
(* What is written to disk under one name stays under it, and a userID     *)
(* handed out stays the row of the same user, across transactions, failed  *)
(* ones too, and restarts.                                                 *)
(***************************************************************************)
RowsKeepTheirNames ==
    [][/\ \A k \in DOMAIN user : k \in DOMAIN user' /\ user'[k].name = user[k].name
       /\ \A k \in DOMAIN channel : k \in DOMAIN channel' /\ channel'[k] = channel[k]]_vars

(***************************************************************************)
(* The doppelganger of a user who has dropped returns, in every mode and   *)
(* in the middle of a transaction, with input of the user still unread and *)
(* with writes that fail.                                                  *)
(***************************************************************************)
DroppedSessionEnds ==
    \A s \in Connections : conn[s] = "down" ~> dopp[s] = "returned"

(***************************************************************************)
(* A connection that a Telnet goroutine has done with is closed, and then  *)
(* there is room for another: also where the listener had met "too many    *)
(* open files", closed and begun to retry meanwhile (wtelnet.go:151-172),  *)
(* unless the program ends.                                                *)
(***************************************************************************)
ServesAgain ==
    \A s \in Connections :
        telnet[s] # "reading" /\ fd[s]
            ~> (listener = "listening" /\ InUse < FdLimit) \/ listener = "stopped"

-----------------------------------------------------------------------------
(***************************************************************************)
(* Not so: users have no way to change their passwords and an account that *)
(* exists is not created again, so that its password stays.                *)
(***************************************************************************)
PasswordsNeverChange ==
    [][\A k \in DOMAIN user : user'[k].password = user[k].password]_vars

(***************************************************************************)
(* Not so: the Telnet goroutine of a user who has dropped shuts down, and  *)
(* so gives its file descriptor back.                                      *)
(***************************************************************************)
DroppedConnectionCloses ==
    \A s \in Connections : conn[s] = "down" ~> telnet[s] # "reading"
=============================================================================
