-------------------------------- MODULE Login --------------------------------
(***************************************************************************)
(* The doppelganger from its launch to its return, for a user who is on no *)
(* chat channel: registration, login and /create.  An action is one        *)
(* iteration of the loop, with the prompt of the next; the transactions    *)
(* that create a user or a channel are two steps, the SELECT and the rest, *)
(* as other sessions may use the database in between.                      *)
(***************************************************************************)
EXTENDS AccountState

othersOfLogin == <<listener, network>>

\* May a write to the user fail?
WriteFails(s) == IF conn[s] = "down" THEN BOOLEAN ELSE {FALSE}

\* May the database?
QueryFails == IF DatabaseErrors THEN BOOLEAN ELSE {FALSE}

(***************************************************************************)
(* The locals of the goroutine after an iteration, or when it starts; they *)
(* are gone once it has returned.                                          *)
(***************************************************************************)
Sets(s, d, m, name, pw, id, un, e, g) ==
    /\ dopp' = [dopp EXCEPT ![s] = d]
    /\ mode' = [mode EXCEPT ![s] = m]
    /\ attemptingUserName' = [attemptingUserName EXCEPT ![s] = name]
    /\ attemptingUserNewPassword' = [attemptingUserNewPassword EXCEPT ![s] = pw]
    /\ userID' = [userID EXCEPT ![s] = id]
    /\ userName' = [userName EXCEPT ![s] = un]
    /\ echoOn' = [echoOn EXCEPT ![s] = e]
    /\ gone' = [gone EXCEPT ![s] = g]
    /\ tx' = [tx EXCEPT ![s] = NoTx]

Returns(s) == Sets(s, "returned", "Username", Nothing, Nothing, 0, Nothing, TRUE, FALSE)

\* Which prompts turn the echo off.
EchoAfterPrompt(m, e) == e /\ m \notin PasswordModes

(***************************************************************************)
(* The end of an iteration whose handler leaves the mode m, the echo e and *)
(* the rest as given; g says whether it has found the user gone.  A prompt *)
(* that cannot be written is acted on only in the next iteration.          *)
(***************************************************************************)
EndsIteration(s, m, name, pw, id, un, e, g) ==
    IF gone[s] \/ g THEN Returns(s)
    ELSE \E lost \in WriteFails(s) :
            Sets(s, "selecting", m, name, pw, id, un, EchoAfterPrompt(m, e), lost)

\* Nothing but the mode and the echo change.
GoesTo(s, m, e, g) ==
    EndsIteration(s, m, attemptingUserName[s], attemptingUserNewPassword[s],
                  userID[s], userName[s], e, g)

-----------------------------------------------------------------------------
(***************************************************************************)
(* Launched by the Telnet goroutine.  If its first writes fail it returns  *)
(* before it has received anything.                                        *)
(***************************************************************************)
Starts(s) ==
    /\ dopp[s] = "starting"
    /\ \E fails \in WriteFails(s) : GoesTo(s, "Username", TRUE, fails)
    /\ UNCHANGED <<database, othersOfLogin, telnet, line>>

Takes(s, m) ==
    /\ dopp[s] = "selecting"
    /\ mode[s] = m
    /\ ~gone[s]
    /\ line[s] # <<>>
    /\ Head(line[s]) # Quit
    /\ line' = [line EXCEPT ![s] = <<>>]
    /\ UNCHANGED <<othersOfLogin, telnet>>

Typed(s) == Head(line[s])

\* Mistaken: a look-up that failed is taken for a hit.
ExistsOrFailed(name) == { RowOf(user, name) # 0 \/ fails : fails \in QueryFails }

\* What userExists may say: FALSE as well if the database fails.
SaysExists(name) == { RowOf(user, name) # 0 /\ ~fails : fails \in QueryFails }

LoginUsername(s) ==
    /\ Takes(s, "Username")
    /\ \E exists \in SaysExists(Typed(s)), fails \in WriteFails(s) :
        EndsIteration(s, IF exists THEN "RegularPassword" ELSE "NewUserYN",
                      Typed(s), attemptingUserNewPassword[s], userID[s],
                      userName[s], echoOn[s], fails)
    /\ UNCHANGED database

LoginNewUserYN(s) ==
    /\ Takes(s, "NewUserYN")
    /\ \E fails \in WriteFails(s) :
        GoesTo(s, IF Typed(s) = Yes THEN "NewPassword1" ELSE "Username", echoOn[s], fails)
    /\ UNCHANGED database

\* Mistaken: no password is too short.
LoginAnyPassword(s) ==
    /\ Takes(s, "NewPassword1")
    /\ \E fails \in WriteFails(s) :
        EndsIteration(s, "NewPassword2", attemptingUserName[s], Typed(s),
                      userID[s], userName[s], echoOn[s], fails)
    /\ UNCHANGED database

LoginNewPassword1(s) ==
    /\ Takes(s, "NewPassword1")
    /\ \E fails \in WriteFails(s) :
        IF Typed(s) = Short
        THEN GoesTo(s, "NewPassword1", echoOn[s], fails)
        ELSE EndsIteration(s, "NewPassword2", attemptingUserName[s], Typed(s),
                           userID[s], userName[s], echoOn[s], fails)
    /\ UNCHANGED database

\* The passwords differ: back to the first one.
LoginPasswordsDiffer(s) ==
    /\ Takes(s, "NewPassword2")
    /\ Typed(s) # attemptingUserNewPassword[s]
    /\ \E fails \in WriteFails(s) : GoesTo(s, "NewPassword1", TRUE, fails)
    /\ UNCHANGED database

(***************************************************************************)
(* login: the row's password against the one typed.  A database error is   *)
(* "Incorrect password." to the user.                                      *)
(***************************************************************************)
LoginRegularPassword(s) ==
    /\ Takes(s, "RegularPassword")
    /\ \E fails \in WriteFails(s), error \in QueryFails :
        LET id == RowOf(user, attemptingUserName[s]) IN
        IF ~error /\ id # 0 /\ user[id].password = Typed(s)
        THEN EndsIteration(s, "Command", attemptingUserName[s],
                attemptingUserNewPassword[s], id, user[id].name, TRUE, fails)
        ELSE EndsIteration(s, "Username", attemptingUserName[s],
                attemptingUserNewPassword[s], 0, Nothing, TRUE, fails)
    /\ UNCHANGED database

CommandOther(s) ==
    /\ Takes(s, "Command")
    /\ Typed(s) = Other
    /\ \E fails \in WriteFails(s) : GoesTo(s, "Command", echoOn[s], fails)
    /\ UNCHANGED database

-----------------------------------------------------------------------------
\* The SELECT of a transaction about a name.
Begins(s, name, table) ==
    /\ dopp' = [dopp EXCEPT ![s] = "writing"]
    /\ tx' = [tx EXCEPT ![s] = [name |-> name, row |-> RowOf(table, name)]]
    /\ UNCHANGED <<database, session>>

\* createUser, once the passwords match.
CreateUserReads(s) ==
    /\ Takes(s, "NewPassword2")
    /\ Typed(s) = attemptingUserNewPassword[s]
    /\ Begins(s, attemptingUserName[s], user)

\* createChatchannel.
CreateChannelReads(s) ==
    /\ Takes(s, "Command")
    /\ Typed(s) \in ChannelNames
    /\ Begins(s, Typed(s), channel)

Writes(s, m) == dopp[s] = "writing" /\ mode[s] = m

\* Mistaken: the table lacks its UNIQUE constraint.
InsertedAnyway(table, row) == Append(table, row)

\* An INSERT, which fails and changes nothing if the name has been taken.
Inserted(table, row) == IF RowOf(table, row.name) # 0 THEN table ELSE Append(table, row)

\* INSERT if the SELECT has found no row, UPDATE of the row otherwise.
Written(s, table, row) ==
    IF tx[s].row = 0 THEN Inserted(table, row) ELSE [table EXCEPT ![tx[s].row] = row]

(***************************************************************************)
(* createUser ends well, or its INSERT fails.  After a failure the write   *)
(* to the user is not checked.                                             *)
(***************************************************************************)
CreateUserWrites(s) ==
    /\ Writes(s, "NewPassword2")
    /\ user' = Written(s, user, [name |-> tx[s].name,
                                 password |-> attemptingUserNewPassword[s]])
    /\ \E fails \in WriteFails(s) : GoesTo(s, "Username", TRUE, fails)
    /\ UNCHANGED <<channel, othersOfLogin, telnet, line>>

CreateChannelWrites(s) ==
    /\ Writes(s, "Command")
    /\ channel' = Written(s, channel, [name |-> tx[s].name])
    /\ \E fails \in WriteFails(s) : GoesTo(s, "Command", echoOn[s], fails)
    /\ UNCHANGED <<user, othersOfLogin, telnet, line>>

\* Mistaken: a registration that fails leaves the echo off.
CreateUserFailsUnseen(s) ==
    /\ DatabaseErrors
    /\ Writes(s, "NewPassword2")
    /\ GoesTo(s, "Username", echoOn[s], FALSE)
    /\ UNCHANGED <<database, othersOfLogin, telnet, line>>

(***************************************************************************)
(* The transaction fails and is rolled back: the database is busy, or the  *)
(* disk is full.  /create then leaves the user without a prompt.           *)
(***************************************************************************)
CreateUserFails(s) ==
    /\ DatabaseErrors
    /\ Writes(s, "NewPassword2")
    /\ GoesTo(s, "Username", TRUE, FALSE)
    /\ UNCHANGED <<database, othersOfLogin, telnet, line>>

CreateChannelFails(s) ==
    /\ DatabaseErrors
    /\ Writes(s, "Command")
    /\ \E fails \in WriteFails(s) :
        IF fails
        THEN Returns(s)
        ELSE Sets(s, "selecting", "Command", attemptingUserName[s],
                  attemptingUserNewPassword[s], userID[s], userName[s],
                  echoOn[s], FALSE)
    /\ UNCHANGED <<database, othersOfLogin, telnet, line>>

-----------------------------------------------------------------------------
(***************************************************************************)
(* A byte of the line before its return key: its echo fails, or the user   *)
(* is known to be gone.  The doppelganger returns, and the Telnet          *)
(* goroutine is left with the rest of the line.                            *)
(***************************************************************************)
EchoFails(s) ==
    /\ dopp[s] = "selecting"
    /\ line[s] # <<>>
    /\ Head(line[s]) # Quit
    /\ \/ gone[s]
       \/ echoOn[s] /\ TRUE \in WriteFails(s)
    /\ Returns(s)
    /\ UNCHANGED <<database, othersOfLogin, telnet, line>>

\* ^C or ^D.  The Telnet goroutine returns once it has handed it over.
TakesQuit(s) ==
    /\ dopp[s] = "selecting"
    /\ line[s] = <<Quit>>
    /\ line' = [line EXCEPT ![s] = <<>>]
    /\ telnet' = [telnet EXCEPT ![s] = "quit"]
    /\ Returns(s)
    /\ UNCHANGED <<database, othersOfLogin>>

SeesClosed(s) ==
    /\ dopp[s] = "selecting"
    /\ telnet[s] = "closed"
    /\ Returns(s)
    /\ UNCHANGED <<database, othersOfLogin, telnet, line>>
=============================================================================
