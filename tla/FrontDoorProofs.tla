-------------------------- MODULE FrontDoorProofs --------------------------
(***************************************************************************)
(* IInv of FrontDoor is an invariant, for any sets of connections, names   *)
(* and passwords, and what follows from it.  Most actions end an iteration *)
(* of one doppelganger with Sets; the lemma SetsKeeps does them once, from *)
(* what the new values have to satisfy.                                    *)
(***************************************************************************)
EXTENDS FrontDoor, TLAPS

\* What a SELECT by name returns.
LEMMA RowOfFinds ==
    ASSUME NEW Row, NEW table \in Seq(Row), NEW name
    PROVE  /\ RowOf(table, name) \in Nat
           /\ RowOf(table, name) # 0 =>
                /\ RowOf(table, name) \in DOMAIN table
                /\ table[RowOf(table, name)].name = name
           /\ RowOf(table, name) = 0 =>
                \A k \in DOMAIN table : table[k].name # name
<1>1. DOMAIN table = 1..Len(table) /\ Len(table) \in Nat
    OBVIOUS
<1>2. CASE \E k \in DOMAIN table : table[k].name = name
    <2>1. RowOf(table, name) = CHOOSE k \in DOMAIN table : table[k].name = name
        BY <1>2 DEF RowOf
    <2>2. /\ RowOf(table, name) \in DOMAIN table
          /\ table[RowOf(table, name)].name = name
        BY <1>2, <2>1
    <2> QED
        BY <1>1, <2>2
<1>3. CASE ~ \E k \in DOMAIN table : table[k].name = name
    BY <1>3 DEF RowOf
<1> QED
    BY <1>2, <1>3

\* Every row of a stays in b, under its name.
KeepsRows(a, b) == \A k \in DOMAIN a : k \in DOMAIN b /\ b[k].name = a[k].name

LEMMA RowOfKept ==
    ASSUME NEW Row, NEW a \in Seq(Row), NEW b \in Seq(Row), KeepsRows(a, b),
           NEW name, RowOf(a, name) # 0
    PROVE  RowOf(b, name) # 0
<1>1. PICK k \in DOMAIN a : a[k].name = name
    BY RowOfFinds
<1>2. k \in DOMAIN b /\ b[k].name = name
    BY <1>1 DEF KeepsRows
<1> QED
    BY <1>2, RowOfFinds

\* What a transaction leaves behind.
LEMMA WrittenKeeps ==
    ASSUME NEW Row, NEW table \in Seq(Row), NEW row \in Row, NEW s,
           Unique(table), RowStands(table, tx[s]), row.name = tx[s].name
    PROVE  /\ Written(s, table, row) \in Seq(Row)
           /\ Unique(Written(s, table, row))
           /\ KeepsRows(table, Written(s, table, row))
<1> DEFINE result == Written(s, table, row)
<1>1. CASE tx[s].row # 0
    <2>1. tx[s].row \in DOMAIN table /\ table[tx[s].row].name = row.name
        BY <1>1 DEF RowStands
    <2>2. result = [table EXCEPT ![tx[s].row] = row]
        BY <1>1 DEF Written
    <2>3. result \in Seq(Row) /\ DOMAIN result = DOMAIN table
        BY <2>1, <2>2
    <2>4. \A k \in DOMAIN table : result[k].name = table[k].name
        BY <2>1, <2>2
    <2> QED
        BY <2>3, <2>4 DEF Unique, KeepsRows
<1>2. CASE tx[s].row = 0 /\ RowOf(table, row.name) # 0
    BY <1>2 DEF Written, Inserted, KeepsRows
<1>3. CASE tx[s].row = 0 /\ RowOf(table, row.name) = 0
    <2>1. result = Append(table, row)
        BY <1>3 DEF Written, Inserted
    <2>2. \A k \in DOMAIN table : table[k].name # row.name
        BY <1>3, RowOfFinds
    <2>3. /\ result \in Seq(Row)
          /\ DOMAIN table = 1..Len(table)
          /\ DOMAIN result = 1..(Len(table) + 1)
          /\ Len(table) \in Nat
          /\ result[Len(table) + 1] = row
          /\ \A k \in 1..Len(table) : result[k] = table[k]
        <3>1. Len(table) \in Nat /\ DOMAIN table = 1..Len(table)
            OBVIOUS
        <3>2. result \in Seq(Row) /\ Len(result) = Len(table) + 1
            BY <2>1
        <3>3. result[Len(table) + 1] = row
            BY <2>1
        <3>4. \A k \in 1..Len(table) : result[k] = table[k]
            BY <2>1
        <3> QED
            BY <3>1, <3>2, <3>3, <3>4
    <2> HIDE DEF result
    <2>4. Unique(result)
        BY <2>2, <2>3 DEF Unique
    <2>5. KeepsRows(table, result)
        BY <2>3 DEF KeepsRows
    <2> QED
        BY <2>3, <2>4, <2>5 DEF result
<1> QED
    BY <1>1, <1>2, <1>3

-----------------------------------------------------------------------------
\* What a step of s may do to what is not its own.
Around(s) ==
    /\ UNCHANGED <<listener, conn, buffered, fd>>
    /\ user' \in Seq(UserRows) /\ Unique(user') /\ KeepsRows(user, user')
    /\ channel' \in Seq(ChannelRows) /\ Unique(channel') /\ KeepsRows(channel, channel')
    /\ telnet' \in [Connections -> {"reading", "closed", "quit"}]
    /\ line' \in [Connections -> {<<>>} \cup { <<t>> : t \in Texts }]
    /\ telnet'[s] = "reading" => telnet[s] = "reading"
    /\ telnet'[s] # "reading" => line'[s] = <<>>
    /\ \A r \in Connections : r # s => telnet'[r] = telnet[r] /\ line'[r] = line[r]

\* What the mode and the values s goes on with have to satisfy.
Fits(s, m, name, pw, id, un) ==
    /\ m \in Modes /\ name \in Names \cup {Nothing} /\ pw \in Passwords \cup {Nothing}
    /\ id \in Nat /\ un \in Names \cup {Nothing}
    /\ m # "Username" => name \in Names
    /\ m = "NewPassword2" => pw \in Passwords
    /\ m # "Command" => id = 0
    /\ m = "Command" => id \in DOMAIN user' /\ user'[id].name = un /\ un = name
    /\ m = "RegularPassword" => RowOf(user', name) # 0

\* The line s has before it is one for mode m.
Meets(s, m) == line'[s] \notin {<<>>, <<Quit>>} => line'[s][1] \in AskedIn(m)

LEMMA SetsKeeps ==
    ASSUME IInv, NEW s \in Connections, NEW d \in {"selecting", "returned"}, NEW m,
           NEW name, NEW pw, NEW id, NEW un, NEW e \in BOOLEAN, NEW g \in BOOLEAN,
           Sets(s, d, m, name, pw, id, un, e, g),
           Around(s), Fits(s, m, name, pw, id, un),
           IF d = "returned" THEN m = "Username" ELSE Meets(s, m)
    PROVE  IInv'
<1>1. TypeOK'
    <2>1. NoTx \in [name : Names \cup ChannelNames \cup {Nothing}, row : Nat]
        BY DEF NoTx
    <2>2. /\ user' \in Seq(UserRows) /\ channel' \in Seq(ChannelRows)
          /\ listener' \in {"listening", "retrying", "stopped"}
          /\ conn' \in [Connections -> {"up", "down"}]
          /\ buffered' \in [Connections -> 0..MaxBuffered]
          /\ fd' \in [Connections -> BOOLEAN]
          /\ telnet' \in [Connections -> {"reading", "closed", "quit"}]
          /\ line' \in [Connections -> {<<>>} \cup { <<t>> : t \in Texts }]
        BY DEF Around, IInv, TypeOK
    <2>3. /\ dopp' \in [Connections -> {"starting", "selecting", "writing", "returned"}]
          /\ mode' \in [Connections -> Modes]
          /\ attemptingUserName' \in [Connections -> Names \cup {Nothing}]
          /\ attemptingUserNewPassword' \in [Connections -> Passwords \cup {Nothing}]
        BY DEF Sets, Fits, IInv, TypeOK
    <2>4. /\ userID' \in [Connections -> Nat]
          /\ userName' \in [Connections -> Names \cup {Nothing}]
          /\ echoOn' \in [Connections -> BOOLEAN]
          /\ gone' \in [Connections -> BOOLEAN]
        BY DEF Sets, Fits, IInv, TypeOK
    <2>5. tx' \in [Connections -> [name : Names \cup ChannelNames \cup {Nothing}, row : Nat]]
        BY <2>1 DEF Sets, IInv, TypeOK
    <2> QED
        BY <2>2, <2>3, <2>4, <2>5 DEF TypeOK
<1>2. NamesAreUnique'
    BY DEF Around, NamesAreUnique
\* The step leaves the locals of the others alone.
<1>3. \A r \in Connections : r # s =>
        /\ dopp'[r] = dopp[r] /\ mode'[r] = mode[r] /\ tx'[r] = tx[r]
        /\ attemptingUserName'[r] = attemptingUserName[r]
        /\ attemptingUserNewPassword'[r] = attemptingUserNewPassword[r]
        /\ userID'[r] = userID[r] /\ userName'[r] = userName[r]
        /\ telnet'[r] = telnet[r] /\ line'[r] = line[r]
    BY DEF Sets, Around, IInv, TypeOK
<1>4. /\ dopp'[s] = d /\ mode'[s] = m
      /\ attemptingUserName'[s] = name
      /\ attemptingUserNewPassword'[s] = pw
      /\ userID'[s] = id /\ userName'[s] = un
    BY DEF Sets, IInv, TypeOK
<1>5. SessionsMatchAccounts'
    <2> SUFFICES ASSUME NEW r \in Connections, dopp'[r] # "returned"
                 PROVE  /\ mode'[r] = "RegularPassword" =>
                            RowOf(user', attemptingUserName'[r]) # 0
                        /\ mode'[r] = "Command" =>
                            /\ userID'[r] \in DOMAIN user'
                            /\ user'[userID'[r]].name = userName'[r]
                            /\ userName'[r] = attemptingUserName'[r]
                        /\ mode'[r] # "Command" => userID'[r] = 0
        BY DEF SessionsMatchAccounts
    <2>1. CASE r = s
        BY <1>4, <2>1 DEF Fits
    <2>2. CASE r # s
        <3>1. /\ mode[r] = "RegularPassword" => RowOf(user, attemptingUserName[r]) # 0
              /\ mode[r] = "Command" =>
                    /\ userID[r] \in DOMAIN user
                    /\ user[userID[r]].name = userName[r]
                    /\ userName[r] = attemptingUserName[r]
              /\ mode[r] # "Command" => userID[r] = 0
            BY <1>3, <2>2 DEF IInv, SessionsMatchAccounts
        <3>2. RowOf(user, attemptingUserName[r]) # 0 =>
                    RowOf(user', attemptingUserName[r]) # 0
            BY RowOfKept DEF Around, IInv, TypeOK
        <3> QED
            BY <1>3, <2>2, <3>1, <3>2 DEF Around, KeepsRows
    <2> QED
        BY <2>1, <2>2
<1>6. TransactionsStand'
    <2> SUFFICES ASSUME NEW r \in Connections, dopp'[r] = "writing"
                 PROVE  /\ mode'[r] \in {"NewPassword2", "Command"}
                        /\ mode'[r] = "NewPassword2" =>
                            /\ tx'[r].name = attemptingUserName'[r]
                            /\ RowStands(user', tx'[r])
                        /\ mode'[r] = "Command" =>
                            tx'[r].name \in ChannelNames /\ RowStands(channel', tx'[r])
        BY DEF TransactionsStand
    <2>1. r # s
        BY <1>4
    <2>2. /\ mode[r] \in {"NewPassword2", "Command"}
          /\ mode[r] = "NewPassword2" =>
                tx[r].name = attemptingUserName[r] /\ RowStands(user, tx[r])
          /\ mode[r] = "Command" =>
                tx[r].name \in ChannelNames /\ RowStands(channel, tx[r])
        BY <1>3, <2>1 DEF IInv, TransactionsStand
    <2>3. /\ RowStands(user, tx[r]) => RowStands(user', tx[r])
          /\ RowStands(channel, tx[r]) => RowStands(channel', tx[r])
        BY DEF RowStands, Around, KeepsRows
    <2> QED
        BY <1>3, <2>1, <2>2, <2>3
<1>7. LinesFitPrompts'
    <2> SUFFICES ASSUME NEW r \in Connections
                 PROVE  /\ telnet'[r] = "reading" => fd'[r]
                        /\ telnet'[r] # "reading" => line'[r] = <<>>
                        /\ dopp'[r] # "returned" /\ line'[r] \notin {<<>>, <<Quit>>} =>
                                line'[r][1] \in AskedIn(Awaited(r)')
        BY DEF LinesFitPrompts
    <2>1. CASE r = s
        <3>1. telnet'[s] = "reading" => fd'[s]
            BY DEF Around, IInv, LinesFitPrompts
        <3>2. Awaited(s)' = m \/ dopp'[s] = "returned"
            BY <1>4 DEF Awaited
        <3> QED
            BY <1>4, <2>1, <3>1, <3>2 DEF Around, Meets
    <2>2. CASE r # s
        <3>1. Awaited(r)' = Awaited(r)
            BY <1>3, <2>2 DEF Awaited
        <3> QED
            BY <1>3, <2>2, <3>1 DEF IInv, LinesFitPrompts, Around
    <2> QED
        BY <2>1, <2>2
<1>8. AttemptsAreNamed'
    BY <1>3, <1>4 DEF IInv, AttemptsAreNamed, Fits
<1> QED
    BY <1>1, <1>2, <1>5, <1>6, <1>7, <1>8 DEF IInv

LEMMA ReturnsKeeps ==
    ASSUME IInv, NEW s \in Connections, Returns(s), Around(s)
    PROVE  IInv'
<1>1. Fits(s, "Username", Nothing, Nothing, 0, Nothing)
    BY DEF Fits, Modes
<1> QED
    BY <1>1, SetsKeeps DEF Returns

LEMMA EndsIterationKeeps ==
    ASSUME IInv, NEW s \in Connections, NEW m, NEW name, NEW pw, NEW id, NEW un,
           NEW e \in BOOLEAN, NEW g \in BOOLEAN,
           EndsIteration(s, m, name, pw, id, un, e, g),
           Around(s), Fits(s, m, name, pw, id, un), Meets(s, m)
    PROVE  IInv'
<1>1. CASE gone[s] \/ g
    BY <1>1, ReturnsKeeps DEF EndsIteration
<1>2. CASE ~(gone[s] \/ g)
    <2>1. PICK lost \in WriteFails(s) :
            Sets(s, "selecting", m, name, pw, id, un, EchoAfterPrompt(m, e), lost)
        BY <1>2 DEF EndsIteration
    <2>2. lost \in BOOLEAN /\ EchoAfterPrompt(m, e) \in BOOLEAN
        BY <2>1 DEF WriteFails, EchoAfterPrompt
    <2> QED
        BY <2>1, <2>2, SetsKeeps
<1> QED
    BY <1>1, <1>2

\* A row keeps its name when nothing is written.
LEMMA QuietDatabase ==
    ASSUME IInv, UNCHANGED database
    PROVE  /\ user' \in Seq(UserRows) /\ Unique(user') /\ KeepsRows(user, user')
           /\ channel' \in Seq(ChannelRows) /\ Unique(channel') /\ KeepsRows(channel, channel')
BY DEF IInv, TypeOK, NamesAreUnique, database, KeepsRows

\* A step that takes a line whole, and one that leaves it where it is.
LEMMA TakesIsAround ==
    ASSUME IInv, NEW s \in Connections, NEW m, Takes(s, m), UNCHANGED database
    PROVE  Around(s) /\ (\A n : Meets(s, n))
<1>1. /\ line'[s] = <<>>
      /\ \A r \in Connections : r # s => line'[r] = line[r]
      /\ line' \in [Connections -> {<<>>} \cup { <<t>> : t \in Texts }]
      /\ UNCHANGED <<listener, conn, buffered, fd, telnet>>
    BY DEF Takes, IInv, TypeOK, othersOfLogin, network
<1> QED
    BY <1>1, QuietDatabase DEF Around, Meets, IInv, TypeOK

LEMMA LineStaysIsAround ==
    ASSUME IInv, NEW s \in Connections,
           UNCHANGED <<database, othersOfLogin, telnet, line>>
    PROVE  Around(s) /\ (dopp[s] # "returned" => Meets(s, Awaited(s)))
BY QuietDatabase DEF Around, Meets, IInv, TypeOK, LinesFitPrompts, othersOfLogin, network

\* What is typed at the prompt of mode m.
LEMMA TypedIsAsked ==
    ASSUME IInv, NEW s \in Connections, NEW m, Takes(s, m)
    PROVE  Typed(s) \in AskedIn(m)
<1>1. line[s] \notin {<<>>, <<Quit>>}
    BY DEF Takes
<1>2. Awaited(s) = m
    BY DEF Takes, Awaited
<1> QED
    BY <1>1, <1>2 DEF IInv, LinesFitPrompts, Typed, Takes

\* What a session has goes on to fit if only the mode changes.
LEMMA SessionFits ==
    ASSUME IInv, NEW s \in Connections, NEW m \in Modes, dopp[s] # "returned",
           UNCHANGED user,
           m = "Command" <=> mode[s] = "Command",
           m \notin {"Username", mode[s]} => m = "NewPassword1",
           m = "NewPassword1" => mode[s] # "Username"
    PROVE  Fits(s, m, attemptingUserName[s], attemptingUserNewPassword[s],
                userID[s], userName[s])
BY DEF Fits, IInv, TypeOK, AttemptsAreNamed, SessionsMatchAccounts

-----------------------------------------------------------------------------
LEMMA StartsKeeps ==
    ASSUME IInv, NEW s \in Connections, Starts(s)
    PROVE  IInv'
<1>1. dopp[s] = "starting" /\ mode[s] = "Username" /\ UNCHANGED user
    BY DEF Starts, IInv, AttemptsAreNamed, database
<1>2. Around(s) /\ Meets(s, "Username")
    BY <1>1, LineStaysIsAround DEF Starts, Awaited
<1>3. Fits(s, "Username", attemptingUserName[s], attemptingUserNewPassword[s],
           userID[s], userName[s])
    BY <1>1, SessionFits DEF Modes
<1>4. PICK fails \in WriteFails(s) : GoesTo(s, "Username", TRUE, fails)
    BY DEF Starts
<1> QED
    BY <1>2, <1>3, <1>4, EndsIterationKeeps DEF GoesTo, WriteFails

LEMMA LoginUsernameKeeps ==
    ASSUME IInv, NEW s \in Connections, LoginUsername(s)
    PROVE  IInv'
<1>1. Takes(s, "Username") /\ UNCHANGED database
    BY DEF LoginUsername
<1>2. Around(s) /\ \A n : Meets(s, n)
    BY <1>1, TakesIsAround
<1>3. Typed(s) \in Names
    BY <1>1, TypedIsAsked DEF AskedIn, PasswordModes
<1>4. PICK exists \in SaysExists(Typed(s)), fails \in WriteFails(s) :
        EndsIteration(s, IF exists THEN "RegularPassword" ELSE "NewUserYN",
                      Typed(s), attemptingUserNewPassword[s], userID[s],
                      userName[s], echoOn[s], fails)
    BY DEF LoginUsername
<1>5. exists => RowOf(user', Typed(s)) # 0
    BY <1>1, <1>4 DEF SaysExists, QueryFails, database
<1>6. mode[s] = "Username" /\ userID[s] = 0
    BY <1>1 DEF Takes, IInv, SessionsMatchAccounts
<1>7. Fits(s, IF exists THEN "RegularPassword" ELSE "NewUserYN", Typed(s),
           attemptingUserNewPassword[s], userID[s], userName[s])
    BY <1>3, <1>5, <1>6 DEF Fits, Modes, PasswordModes, IInv, TypeOK
<1>8. echoOn[s] \in BOOLEAN /\ fails \in BOOLEAN
    BY <1>4 DEF IInv, TypeOK, WriteFails
<1> QED
    BY <1>2, <1>4, <1>7, <1>8, EndsIterationKeeps

\* The iterations that take a line and change the mode at most.
LEMMA TakesAndGoesKeeps ==
    ASSUME IInv, NEW s \in Connections, NEW m, Takes(s, m), UNCHANGED database,
           NEW n \in Modes, NEW e \in BOOLEAN, NEW g \in BOOLEAN, GoesTo(s, n, e, g),
           n = "Command" <=> m = "Command",
           n \notin {"Username", m} => n = "NewPassword1",
           n = "NewPassword1" => m # "Username"
    PROVE  IInv'
<1>1. Around(s) /\ Meets(s, n)
    BY TakesIsAround
<1>2. Fits(s, n, attemptingUserName[s], attemptingUserNewPassword[s],
           userID[s], userName[s])
    BY SessionFits DEF Takes, database
<1> QED
    BY <1>1, <1>2, EndsIterationKeeps DEF GoesTo

LEMMA LoginNewUserYNKeeps ==
    ASSUME IInv, NEW s \in Connections, LoginNewUserYN(s)
    PROVE  IInv'
<1>1. PICK fails \in WriteFails(s) :
        GoesTo(s, IF Typed(s) = Yes THEN "NewPassword1" ELSE "Username", echoOn[s], fails)
    BY DEF LoginNewUserYN
<1>2. echoOn[s] \in BOOLEAN /\ fails \in BOOLEAN
    BY <1>1 DEF IInv, TypeOK, WriteFails
<1> QED
    BY <1>1, <1>2, TakesAndGoesKeeps DEF LoginNewUserYN, Modes, PasswordModes

LEMMA LoginNewPassword1Keeps ==
    ASSUME IInv, NEW s \in Connections, LoginNewPassword1(s)
    PROVE  IInv'
<1>1. Takes(s, "NewPassword1") /\ UNCHANGED database
    BY DEF LoginNewPassword1
<1>2. echoOn[s] \in BOOLEAN /\ WriteFails(s) \subseteq BOOLEAN
    BY DEF IInv, TypeOK, WriteFails
<1>3. CASE Typed(s) = Short
    <2>1. PICK fails \in WriteFails(s) : GoesTo(s, "NewPassword1", echoOn[s], fails)
        BY <1>3 DEF LoginNewPassword1
    <2> QED
        BY <1>1, <1>2, <2>1, TakesAndGoesKeeps DEF Modes, PasswordModes
<1>4. CASE Typed(s) # Short
    <2>1. PICK fails \in WriteFails(s) :
            EndsIteration(s, "NewPassword2", attemptingUserName[s], Typed(s),
                          userID[s], userName[s], echoOn[s], fails)
        BY <1>4 DEF LoginNewPassword1
    <2>2. Typed(s) \in Passwords
        BY <1>1, <1>4, TypedIsAsked DEF AskedIn, PasswordModes
    <2>3. Fits(s, "NewPassword2", attemptingUserName[s], Typed(s), userID[s], userName[s])
        BY <1>1, <2>2 DEF Fits, Takes, IInv, TypeOK, AttemptsAreNamed,
                          SessionsMatchAccounts, Modes, PasswordModes
    <2>4. Around(s) /\ Meets(s, "NewPassword2")
        BY <1>1, TakesIsAround
    <2> QED
        BY <1>2, <2>1, <2>3, <2>4, EndsIterationKeeps
<1> QED
    BY <1>3, <1>4

LEMMA LoginPasswordsDifferKeeps ==
    ASSUME IInv, NEW s \in Connections, LoginPasswordsDiffer(s)
    PROVE  IInv'
<1>1. PICK fails \in WriteFails(s) : GoesTo(s, "NewPassword1", TRUE, fails)
    BY DEF LoginPasswordsDiffer
<1>2. fails \in BOOLEAN
    BY <1>1 DEF WriteFails
<1>3. Takes(s, "NewPassword2") /\ UNCHANGED database
    BY DEF LoginPasswordsDiffer
<1>4. Around(s) /\ Meets(s, "NewPassword1")
    BY <1>3, TakesIsAround
<1>5. Fits(s, "NewPassword1", attemptingUserName[s], attemptingUserNewPassword[s],
           userID[s], userName[s])
    BY <1>3, SessionFits DEF Takes, database, Modes, PasswordModes
<1> QED
    BY <1>1, <1>2, <1>4, <1>5, EndsIterationKeeps DEF GoesTo

LEMMA CommandOtherKeeps ==
    ASSUME IInv, NEW s \in Connections, CommandOther(s)
    PROVE  IInv'
<1>1. PICK fails \in WriteFails(s) : GoesTo(s, "Command", echoOn[s], fails)
    BY DEF CommandOther
<1>2. echoOn[s] \in BOOLEAN /\ fails \in BOOLEAN
    BY <1>1 DEF IInv, TypeOK, WriteFails
<1> QED
    BY <1>1, <1>2, TakesAndGoesKeeps DEF CommandOther, Modes, PasswordModes

\* The one step into command mode: login has found the row of the attempted name.
LEMMA LoginRegularPasswordKeeps ==
    ASSUME IInv, NEW s \in Connections, LoginRegularPassword(s)
    PROVE  IInv'
<1> DEFINE id == RowOf(user, attemptingUserName[s])
<1>1. Takes(s, "RegularPassword") /\ UNCHANGED database
    BY DEF LoginRegularPassword
<1>2. Around(s) /\ \A n : Meets(s, n)
    BY <1>1, TakesIsAround
<1>3. attemptingUserName[s] \in Names /\ attemptingUserNewPassword[s] \in Passwords \cup {Nothing}
    BY <1>1 DEF Takes, IInv, TypeOK, AttemptsAreNamed
<1>4. PICK fails \in WriteFails(s), error \in QueryFails :
        IF ~error /\ id # 0 /\ user[id].password = Typed(s)
        THEN EndsIteration(s, "Command", attemptingUserName[s],
                attemptingUserNewPassword[s], id, user[id].name, TRUE, fails)
        ELSE EndsIteration(s, "Username", attemptingUserName[s],
                attemptingUserNewPassword[s], 0, Nothing, TRUE, fails)
    BY DEF LoginRegularPassword
<1>5. fails \in BOOLEAN
    BY <1>4 DEF WriteFails
<1>6. id \in Nat /\ (id # 0 => id \in DOMAIN user /\ user[id].name = attemptingUserName[s])
    BY RowOfFinds DEF IInv, TypeOK
<1> HIDE DEF id
<1>7. CASE ~error /\ id # 0 /\ user[id].password = Typed(s)
    <2>1. Fits(s, "Command", attemptingUserName[s], attemptingUserNewPassword[s],
               id, user[id].name)
        BY <1>1, <1>3, <1>6, <1>7 DEF Fits, Modes, database
    <2> QED
        BY <1>2, <1>4, <1>5, <1>7, <2>1, EndsIterationKeeps
<1>8. CASE ~(~error /\ id # 0 /\ user[id].password = Typed(s))
    <2>1. Fits(s, "Username", attemptingUserName[s], attemptingUserNewPassword[s],
               0, Nothing)
        BY <1>3 DEF Fits, Modes
    <2> QED
        BY <1>2, <1>4, <1>5, <1>8, <2>1, EndsIterationKeeps
<1> QED
    BY <1>7, <1>8

-----------------------------------------------------------------------------
\* The first half of a transaction: the row it has found is there.
LEMMA BeginsKeeps ==
    ASSUME IInv, NEW s \in Connections, NEW m \in {"NewPassword2", "Command"},
           Takes(s, m), NEW name \in Names \cup ChannelNames,
           NEW table, Begins(s, name, table),
           m = "NewPassword2" => table = user /\ name = attemptingUserName[s],
           m = "Command" => table = channel /\ name \in ChannelNames
    PROVE  IInv'
<1>1. UNCHANGED <<user, channel>>
    BY DEF Begins, database
<1>2. RowOf(table, name) \in Nat /\ RowStands(table, [name |-> name, row |-> RowOf(table, name)])
    BY RowOfFinds DEF IInv, TypeOK, RowStands
<1>3. /\ line' \in [Connections -> {<<>>} \cup { <<t>> : t \in Texts }]
      /\ line'[s] = <<>> /\ \A r \in Connections : r # s => line'[r] = line[r]
      /\ UNCHANGED <<listener, conn, buffered, fd, telnet>>
    BY DEF Takes, IInv, TypeOK, othersOfLogin, network
<1>4. /\ tx' \in [Connections -> [name : Names \cup ChannelNames \cup {Nothing}, row : Nat]]
      /\ tx'[s] = [name |-> name, row |-> RowOf(table, name)]
      /\ \A r \in Connections : r # s => tx'[r] = tx[r]
    BY <1>2 DEF Begins, IInv, TypeOK
<1>5. /\ dopp' \in [Connections -> {"starting", "selecting", "writing", "returned"}]
      /\ dopp'[s] = "writing" /\ \A r \in Connections : r # s => dopp'[r] = dopp[r]
      /\ UNCHANGED <<mode, attemptingUserName, attemptingUserNewPassword, userID,
                     userName, echoOn, gone>>
    BY DEF Begins, IInv, TypeOK, session
<1>6. dopp[s] = "selecting" /\ mode[s] = m
    BY DEF Takes
<1>7. TypeOK' /\ NamesAreUnique'
    BY <1>1, <1>3, <1>4, <1>5 DEF IInv, TypeOK, NamesAreUnique
<1>8. SessionsMatchAccounts' /\ AttemptsAreNamed'
    BY <1>1, <1>5, <1>6 DEF IInv, SessionsMatchAccounts, AttemptsAreNamed
<1>9. TransactionsStand'
    <2> SUFFICES ASSUME NEW r \in Connections, dopp'[r] = "writing"
                 PROVE  /\ mode'[r] \in {"NewPassword2", "Command"}
                        /\ mode'[r] = "NewPassword2" =>
                            /\ tx'[r].name = attemptingUserName'[r]
                            /\ RowStands(user', tx'[r])
                        /\ mode'[r] = "Command" =>
                            tx'[r].name \in ChannelNames /\ RowStands(channel', tx'[r])
        BY DEF TransactionsStand
    <2>1. CASE r = s
        BY <1>1, <1>2, <1>4, <1>5, <1>6, <2>1
    <2>2. CASE r # s
        BY <1>1, <1>4, <1>5, <2>2 DEF IInv, TransactionsStand
    <2> QED
        BY <2>1, <2>2
<1>10. LinesFitPrompts'
    <2> SUFFICES ASSUME NEW r \in Connections
                 PROVE  /\ telnet'[r] = "reading" => fd'[r]
                        /\ telnet'[r] # "reading" => line'[r] = <<>>
                        /\ dopp'[r] # "returned" /\ line'[r] \notin {<<>>, <<Quit>>} =>
                                line'[r][1] \in AskedIn(Awaited(r)')
        BY DEF LinesFitPrompts
    <2>1. CASE r = s
        BY <1>3, <2>1 DEF IInv, LinesFitPrompts
    <2>2. CASE r # s
        <3>1. Awaited(r)' = Awaited(r)
            BY <1>5, <2>2 DEF Awaited
        <3> QED
            BY <1>3, <1>5, <2>2, <3>1 DEF IInv, LinesFitPrompts
    <2> QED
        BY <2>1, <2>2
<1> QED
    BY <1>7, <1>8, <1>9, <1>10 DEF IInv

LEMMA CreateUserReadsKeeps ==
    ASSUME IInv, NEW s \in Connections, CreateUserReads(s)
    PROVE  IInv'
<1>1. attemptingUserName[s] \in Names
    BY DEF CreateUserReads, Takes, IInv, AttemptsAreNamed
<1> QED
    BY <1>1, BeginsKeeps DEF CreateUserReads

LEMMA CreateChannelReadsKeeps ==
    ASSUME IInv, NEW s \in Connections, CreateChannelReads(s)
    PROVE  IInv'
BY BeginsKeeps DEF CreateChannelReads

LEMMA CreateUserWritesKeeps ==
    ASSUME IInv, NEW s \in Connections, CreateUserWrites(s)
    PROVE  IInv'
<1> DEFINE row == [name |-> tx[s].name, password |-> attemptingUserNewPassword[s]]
<1>1. /\ dopp[s] = "writing" /\ mode[s] = "NewPassword2"
      /\ user' = Written(s, user, row)
      /\ UNCHANGED <<channel, othersOfLogin, telnet, line>>
    BY DEF CreateUserWrites, Writes
<1>2. row \in UserRows /\ row.name = tx[s].name /\ RowStands(user, tx[s])
    BY <1>1 DEF UserRows, IInv, AttemptsAreNamed, TransactionsStand
<1>3. user' \in Seq(UserRows) /\ Unique(user') /\ KeepsRows(user, user')
    BY <1>1, <1>2, WrittenKeeps DEF IInv, TypeOK, NamesAreUnique
<1>4. Around(s)
    BY <1>1, <1>3 DEF Around, IInv, TypeOK, NamesAreUnique, KeepsRows, LinesFitPrompts,
                      othersOfLogin, network
<1>5. Meets(s, "Username")
    BY <1>1 DEF Meets, Awaited, IInv, LinesFitPrompts
<1>6. Fits(s, "Username", attemptingUserName[s], attemptingUserNewPassword[s],
           userID[s], userName[s])
    BY <1>1 DEF Fits, Modes, IInv, TypeOK, SessionsMatchAccounts
<1>7. PICK fails \in WriteFails(s) : GoesTo(s, "Username", TRUE, fails)
    BY DEF CreateUserWrites
<1> QED
    BY <1>4, <1>5, <1>6, <1>7, EndsIterationKeeps DEF GoesTo, WriteFails

LEMMA CreateChannelWritesKeeps ==
    ASSUME IInv, NEW s \in Connections, CreateChannelWrites(s)
    PROVE  IInv'
<1> DEFINE row == [name |-> tx[s].name]
<1>1. /\ dopp[s] = "writing" /\ mode[s] = "Command"
      /\ channel' = Written(s, channel, row)
      /\ UNCHANGED <<user, othersOfLogin, telnet, line>>
    BY DEF CreateChannelWrites, Writes
<1>2. row \in ChannelRows /\ row.name = tx[s].name /\ RowStands(channel, tx[s])
    BY <1>1 DEF ChannelRows, IInv, TransactionsStand
<1>3. channel' \in Seq(ChannelRows) /\ Unique(channel') /\ KeepsRows(channel, channel')
    BY <1>1, <1>2, WrittenKeeps DEF IInv, TypeOK, NamesAreUnique
<1>4. Around(s)
    BY <1>1, <1>3 DEF Around, IInv, TypeOK, NamesAreUnique, KeepsRows, LinesFitPrompts,
                      othersOfLogin, network
<1>5. Meets(s, "Command")
    BY <1>1 DEF Meets, Awaited, IInv, LinesFitPrompts
<1>6. Fits(s, "Command", attemptingUserName[s], attemptingUserNewPassword[s],
           userID[s], userName[s])
    BY <1>1, SessionFits DEF Modes
<1>7. PICK fails \in WriteFails(s) : GoesTo(s, "Command", echoOn[s], fails)
    BY DEF CreateChannelWrites
<1>8. echoOn[s] \in BOOLEAN /\ fails \in BOOLEAN
    BY <1>7 DEF IInv, TypeOK, WriteFails
<1> QED
    BY <1>4, <1>5, <1>6, <1>7, <1>8, EndsIterationKeeps DEF GoesTo

LEMMA CreateUserFailsKeeps ==
    ASSUME IInv, NEW s \in Connections, CreateUserFails(s)
    PROVE  IInv'
<1>1. dopp[s] = "writing" /\ mode[s] = "NewPassword2" /\ UNCHANGED user
    BY DEF CreateUserFails, Writes, database
<1>2. Around(s) /\ Meets(s, "Username")
    BY <1>1, LineStaysIsAround DEF CreateUserFails, Awaited
<1>3. Fits(s, "Username", attemptingUserName[s], attemptingUserNewPassword[s],
           userID[s], userName[s])
    BY <1>1, SessionFits DEF Modes
<1> QED
    BY <1>2, <1>3, EndsIterationKeeps DEF CreateUserFails, GoesTo

LEMMA CreateChannelFailsKeeps ==
    ASSUME IInv, NEW s \in Connections, CreateChannelFails(s)
    PROVE  IInv'
<1>1. dopp[s] = "writing" /\ mode[s] = "Command" /\ UNCHANGED user
    BY DEF CreateChannelFails, Writes, database
<1>2. Around(s) /\ Meets(s, "Command")
    BY <1>1, LineStaysIsAround DEF CreateChannelFails, Awaited
<1>3. Fits(s, "Command", attemptingUserName[s], attemptingUserNewPassword[s],
           userID[s], userName[s])
    BY <1>1, SessionFits DEF Modes
<1>4. echoOn[s] \in BOOLEAN
    BY DEF IInv, TypeOK
<1> QED
    BY <1>2, <1>3, <1>4, SetsKeeps, ReturnsKeeps DEF CreateChannelFails

\* The ways in which an iteration finds its user gone.
LEMMA LeavesKeeps ==
    ASSUME IInv, NEW s \in Connections, EchoFails(s) \/ TakesQuit(s) \/ SeesClosed(s)
    PROVE  IInv'
<1>1. CASE EchoFails(s) \/ SeesClosed(s)
    BY <1>1, LineStaysIsAround, ReturnsKeeps DEF EchoFails, SeesClosed
<1>2. CASE TakesQuit(s)
    <2>1. Around(s)
        BY <1>2, QuietDatabase DEF TakesQuit, Around, IInv, TypeOK, othersOfLogin, network
    <2> QED
        BY <1>2, <2>1, ReturnsKeeps DEF TakesQuit
<1> QED
    BY <1>1, <1>2

-----------------------------------------------------------------------------
(***************************************************************************)
(* What the network and the listener do: the database, the locals of the   *)
(* doppelgangers and the transactions stay as they are.                    *)
(***************************************************************************)
NetworkOnly ==
    /\ UNCHANGED <<database, tx, session>>
    /\ listener' \in {"listening", "retrying", "stopped"}
    /\ conn' \in [Connections -> {"up", "down"}]
    /\ buffered' \in [Connections -> 0..MaxBuffered]
    /\ fd' \in [Connections -> BOOLEAN]
    /\ telnet' \in [Connections -> {"reading", "closed", "quit"}]
    /\ line' \in [Connections -> {<<>>} \cup { <<t>> : t \in Texts }]
    /\ dopp' \in [Connections -> {"starting", "selecting", "writing", "returned"}]
    /\ \A r \in Connections :
        dopp'[r] = dopp[r] \/ (dopp[r] = "returned" /\ dopp'[r] = "starting")

LEMMA NetworkKeeps ==
    ASSUME IInv, NetworkOnly, LinesFitPrompts'
    PROVE  IInv'
<1> USE DEF NetworkOnly
<1>1. TypeOK' /\ NamesAreUnique'
    BY DEF IInv, TypeOK, NamesAreUnique, database, session
<1>2. AttemptsAreNamed'
    BY DEF IInv, AttemptsAreNamed, session
<1>3. SessionsMatchAccounts'
    <2> SUFFICES ASSUME NEW s \in Connections, dopp'[s] # "returned"
                 PROVE  /\ mode[s] = "RegularPassword" => RowOf(user, attemptingUserName[s]) # 0
                        /\ mode[s] = "Command" =>
                            /\ userID[s] \in DOMAIN user
                            /\ user[userID[s]].name = userName[s]
                            /\ userName[s] = attemptingUserName[s]
                        /\ mode[s] # "Command" => userID[s] = 0
        BY DEF SessionsMatchAccounts, session, database
    <2>1. CASE dopp[s] = "returned"
        BY <2>1 DEF IInv, AttemptsAreNamed
    <2>2. CASE dopp[s] # "returned"
        BY <2>2 DEF IInv, SessionsMatchAccounts
    <2> QED
        BY <2>1, <2>2
<1>4. TransactionsStand'
    BY DEF IInv, TransactionsStand, database, session
<1> QED
    BY <1>1, <1>2, <1>3, <1>4 DEF IInv

LEMMA AcceptsKeeps ==
    ASSUME IInv, NEW s \in Connections, Accepts(s)
    PROVE  IInv'
<1>1. /\ dopp[s] = "returned" /\ mode[s] = "Username" /\ line[s] = <<>>
      /\ UNCHANGED <<mode, line>>
    BY DEF Accepts, Free, IInv, AttemptsAreNamed, LinesFitPrompts, session
<1>2. LinesFitPrompts'
    <2> SUFFICES ASSUME NEW r \in Connections
                 PROVE  /\ telnet'[r] = "reading" => fd'[r]
                        /\ telnet'[r] # "reading" => line[r] = <<>>
                        /\ dopp'[r] # "returned" /\ line[r] \notin {<<>>, <<Quit>>} =>
                                line[r][1] \in AskedIn(Awaited(r)')
        BY <1>1 DEF LinesFitPrompts
    <2>1. CASE r # s
        BY <1>1, <2>1 DEF Accepts, IInv, TypeOK, LinesFitPrompts, Awaited
    <2>2. CASE r = s
        BY <1>1, <2>2 DEF Accepts, IInv, TypeOK, LinesFitPrompts, Awaited
    <2> QED
        BY <2>1, <2>2
<1>3. /\ listener' \in {"listening", "retrying", "stopped"}
      /\ buffered' \in [Connections -> 0..MaxBuffered]
      /\ line' \in [Connections -> {<<>>} \cup { <<t>> : t \in Texts }]
      /\ UNCHANGED <<database, tx, session>>
    BY DEF Accepts, IInv, TypeOK
<1>4. /\ conn' \in [Connections -> {"up", "down"}]
      /\ fd' \in [Connections -> BOOLEAN]
      /\ telnet' \in [Connections -> {"reading", "closed", "quit"}]
      /\ dopp' \in [Connections -> {"starting", "selecting", "writing", "returned"}]
      /\ \A r \in Connections :
            dopp'[r] = dopp[r] \/ (dopp[r] = "returned" /\ dopp'[r] = "starting")
    BY <1>1 DEF Accepts, IInv, TypeOK
<1> QED
    BY <1>2, <1>3, <1>4, NetworkKeeps DEF NetworkOnly

LEMMA UserTypesKeeps ==
    ASSUME IInv, NEW s \in Connections, UserTypes(s)
    PROVE  IInv'
<1>1. PICK text \in AskedIn(Awaited(s)) \cup {Quit} : line' = [line EXCEPT ![s] = <<text>>]
    BY DEF UserTypes
<1>2. telnet[s] = "reading"
    BY DEF UserTypes
<1>3. UNCHANGED <<database, listener, conn, fd, telnet, dopp, tx, session>>
    BY DEF UserTypes
<1>4. Awaited(s) \in Modes
    BY DEF Awaited, IInv, TypeOK, Modes
<1>5. text \in Texts
    BY <1>4 DEF Texts
<1>6. line' \in [Connections -> {<<>>} \cup { <<t>> : t \in Texts }]
    BY <1>1, <1>5 DEF IInv, TypeOK
<1>7. buffered' \in [Connections -> 0..MaxBuffered]
    <2>1. buffered \in [Connections -> 0..MaxBuffered] /\ MaxBuffered \in Nat
        BY LimitsAssumption DEF IInv, TypeOK
    <2>2. buffered[s] > 0 => buffered[s] - 1 \in 0..MaxBuffered
        BY <2>1
    <2> QED
        BY <2>1, <2>2 DEF UserTypes
<1>8. LinesFitPrompts'
    <2> SUFFICES ASSUME NEW r \in Connections
                 PROVE  /\ telnet[r] = "reading" => fd[r]
                        /\ telnet[r] # "reading" => line'[r] = <<>>
                        /\ dopp[r] # "returned" /\ line'[r] \notin {<<>>, <<Quit>>} =>
                                line'[r][1] \in AskedIn(Awaited(r))
        BY <1>3 DEF LinesFitPrompts, Awaited, session
    <2>1. CASE r = s
        <3>1. line'[s] = <<text>>
            BY <1>1 DEF IInv, TypeOK
        <3>2. telnet[s] = "reading" => fd[s]
            BY DEF IInv, LinesFitPrompts
        <3> QED
            BY <1>1, <1>2, <2>1, <3>1, <3>2
    <2>2. CASE r # s
        BY <1>1, <2>2 DEF IInv, TypeOK, LinesFitPrompts
    <2> QED
        BY <2>1, <2>2
<1> QED
    <2>1. NetworkOnly
        BY <1>3, <1>6, <1>7 DEF NetworkOnly, IInv, TypeOK
    <2> QED
        BY <1>8, <2>1, NetworkKeeps

\* No more Telnet goroutines read, and none loses its connection or a line.
LEMMA FdsKeep ==
    ASSUME IInv, NetworkOnly, UNCHANGED <<line, dopp>>,
           \A r \in Connections :
               /\ telnet'[r] # telnet[r] => telnet'[r] # "reading" /\ line[r] = <<>>
               /\ fd'[r] # fd[r] => telnet'[r] # "reading"
    PROVE  IInv'
<1>1. \A r \in Connections : Awaited(r)' = Awaited(r)
    BY DEF NetworkOnly, Awaited, session
<1>2. LinesFitPrompts'
    BY <1>1 DEF IInv, LinesFitPrompts
<1> QED
    BY <1>2, NetworkKeeps

LEMMA NetworkStepsKeep ==
    ASSUME IInv, NEW s \in Connections,
           ConnectionDrops(s) \/ ReadFails(s) \/ HandlerReturns(s)
    PROVE  IInv'
<1>1. CASE ConnectionDrops(s)
    <2>1. UNCHANGED <<database, listener, fd, telnet, line, dopp, tx, session>>
        BY <1>1 DEF ConnectionDrops
    <2>2. /\ conn' \in [Connections -> {"up", "down"}]
          /\ buffered' \in [Connections -> 0..MaxBuffered]
        BY <1>1 DEF ConnectionDrops, IInv, TypeOK
    <2>3. NetworkOnly
        BY <2>1, <2>2 DEF NetworkOnly, IInv, TypeOK
    <2> QED
        BY <2>1, <2>3, FdsKeep
<1>2. CASE ReadFails(s)
    <2>1. UNCHANGED <<database, listener, conn, buffered, fd, line, dopp, tx, session>>
        BY <1>2 DEF ReadFails, listenerOnly
    <2>2. /\ telnet' \in [Connections -> {"reading", "closed", "quit"}]
          /\ \A r \in Connections :
                telnet'[r] # telnet[r] => telnet'[r] # "reading" /\ line[r] = <<>>
        BY <1>2 DEF ReadFails, IInv, TypeOK
    <2>3. NetworkOnly
        BY <2>1, <2>2 DEF NetworkOnly, IInv, TypeOK
    <2> QED
        BY <2>1, <2>2, <2>3, FdsKeep
<1>3. CASE HandlerReturns(s)
    <2>1. UNCHANGED <<database, listener, telnet, line, dopp, tx, session>>
        BY <1>3 DEF HandlerReturns
    <2>2. /\ conn' \in [Connections -> {"up", "down"}]
          /\ fd' \in [Connections -> BOOLEAN]
          /\ \A r \in Connections : fd'[r] # fd[r] => telnet[r] # "reading"
        BY <1>3 DEF HandlerReturns, IInv, TypeOK
    <2>3. buffered' \in [Connections -> 0..MaxBuffered]
        BY <1>3, LimitsAssumption DEF HandlerReturns, IInv, TypeOK
    <2>4. NetworkOnly
        BY <2>1, <2>2, <2>3 DEF NetworkOnly, IInv, TypeOK
    <2> QED
        BY <2>1, <2>2, <2>4, FdsKeep
<1> QED
    BY <1>1, <1>2, <1>3

LEMMA ListenerStepsKeep ==
    ASSUME IInv, AcceptFails \/ ListensAgain \/ StartsUp
    PROVE  IInv'
<1>1. /\ UNCHANGED <<database, conn, buffered, fd, telnet, line, dopp, tx, session>>
      /\ listener' \in {"listening", "retrying", "stopped"}
    BY DEF AcceptFails, ListensAgain, StartsUp, listenerOnly
<1>2. NetworkOnly
    BY <1>1 DEF NetworkOnly, IInv, TypeOK
<1> QED
    BY <1>1, <1>2, FdsKeep

\* With no goroutine left, what IInv says of the tables is all it says.
LEMMA EmptiedIsIInv ==
    ASSUME Emptied, user' \in Seq(UserRows), channel' \in Seq(ChannelRows),
           NamesAreUnique', listener' \in {"listening", "retrying", "stopped"}
    PROVE  IInv'
<1>1. TypeOK'
    <2>1. NoTx \in [name : Names \cup ChannelNames \cup {Nothing}, row : Nat]
        BY DEF NoTx
    <2>2. 0 \in 0..MaxBuffered
        BY LimitsAssumption
    <2> QED
        BY <2>1, <2>2 DEF Emptied, Everywhere, TypeOK, Modes
<1>2. SessionsMatchAccounts' /\ TransactionsStand'
    BY DEF Emptied, Everywhere, SessionsMatchAccounts, TransactionsStand
<1>3. LinesFitPrompts' /\ AttemptsAreNamed'
    BY DEF Emptied, Everywhere, LinesFitPrompts, AttemptsAreNamed
<1> QED
    BY <1>1, <1>2, <1>3 DEF IInv

LEMMA ProgramEndsKeeps ==
    ASSUME IInv, ProgramEnds
    PROVE  IInv'
<1>1. user' = user /\ channel' = channel /\ NamesAreUnique'
    BY DEF ProgramEnds, database, IInv, NamesAreUnique
<1> QED
    BY <1>1, EmptiedIsIInv DEF ProgramEnds, IInv, TypeOK

-----------------------------------------------------------------------------
LEMMA IteratesKeeps ==
    ASSUME IInv, NEW s \in Connections, Iterates(s)
    PROVE  IInv'
<1>1. CASE Starts(s)
    BY <1>1, StartsKeeps
<1>2. CASE LoginUsername(s)
    BY <1>2, LoginUsernameKeeps
<1>3. CASE LoginNewUserYN(s)
    BY <1>3, LoginNewUserYNKeeps
<1>4. CASE LoginNewPassword1(s)
    BY <1>4, LoginNewPassword1Keeps
<1>5. CASE LoginPasswordsDiffer(s)
    BY <1>5, LoginPasswordsDifferKeeps
<1>6. CASE LoginRegularPassword(s)
    BY <1>6, LoginRegularPasswordKeeps
<1>7. CASE CommandOther(s)
    BY <1>7, CommandOtherKeeps
<1>8. CASE CreateUserReads(s) \/ CreateUserWrites(s) \/ CreateUserFails(s)
    BY <1>8, CreateUserReadsKeeps, CreateUserWritesKeeps, CreateUserFailsKeeps
<1>9. CASE CreateChannelReads(s) \/ CreateChannelWrites(s) \/ CreateChannelFails(s)
    BY <1>9, CreateChannelReadsKeeps, CreateChannelWritesKeeps, CreateChannelFailsKeeps
<1>10. CASE EchoFails(s) \/ TakesQuit(s) \/ SeesClosed(s)
    BY <1>10, LeavesKeeps
<1> QED
    BY <1>1, <1>2, <1>3, <1>4, <1>5, <1>6, <1>7, <1>8, <1>9, <1>10 DEF Iterates

LEMMA InitIsIInv == Init => IInv
<1> SUFFICES ASSUME Init PROVE IInv
    OBVIOUS
<1>1. TypeOK
    <2>1. NoTx \in [name : Names \cup ChannelNames \cup {Nothing}, row : Nat]
        BY DEF NoTx
    <2>2. 0 \in 0..MaxBuffered
        BY LimitsAssumption
    <2>3. user \in Seq(UserRows) /\ channel \in Seq(ChannelRows)
        BY DEF Init
    <2> QED
        BY <2>1, <2>2, <2>3 DEF Init, Everywhere, TypeOK, Modes
<1>2. NamesAreUnique
    BY DEF Init, NamesAreUnique, Unique
<1>3. SessionsMatchAccounts /\ TransactionsStand
    BY DEF Init, Everywhere, SessionsMatchAccounts, TransactionsStand
<1>4. LinesFitPrompts /\ AttemptsAreNamed
    BY DEF Init, Everywhere, LinesFitPrompts, AttemptsAreNamed
<1> QED
    BY <1>1, <1>2, <1>3, <1>4 DEF IInv

LEMMA StepKeeps ==
    ASSUME IInv, [Next]_vars
    PROVE  IInv'
<1>1. CASE UNCHANGED vars
    BY <1>1 DEF vars, database, network, session, IInv, TypeOK, NamesAreUnique,
                SessionsMatchAccounts, TransactionsStand, LinesFitPrompts, Awaited,
                AttemptsAreNamed
<1>2. CASE Next
    <2>1. ASSUME NEW s \in Connections, Iterates(s) PROVE IInv'
        BY <2>1, IteratesKeeps
    <2>2. ASSUME NEW s \in Connections,
                 Accepts(s) \/ UserTypes(s) \/ ConnectionDrops(s)
                    \/ ReadFails(s) \/ HandlerReturns(s)
          PROVE  IInv'
        BY <2>2, AcceptsKeeps, UserTypesKeeps, NetworkStepsKeep
    <2>3. CASE AcceptFails \/ ListensAgain \/ StartsUp
        BY <2>3, ListenerStepsKeep
    <2>4. CASE ProgramEnds
        BY <2>4, ProgramEndsKeeps
    <2> QED
        BY <1>2, <2>1, <2>2, <2>3, <2>4 DEF Next
<1> QED
    BY <1>1, <1>2

(***************************************************************************)
(* The inductive invariant of the front door holds however many sessions   *)
(* register, log in and create channels at a time, drop, fail, and with    *)
(* them the program (login, createUser, createChatchannel, the listener).  *)
(***************************************************************************)
THEOREM FrontDoorInvariant == Spec => []IInv
<1>1. IInv /\ [Next]_vars => IInv'
    BY StepKeeps
<1> QED
    BY <1>1, InitIsIInv, PTL DEF Spec

(***************************************************************************)
(* Two SELECTs that both miss and the INSERTs after them never leave two   *)
(* rows of one name.                                                       *)
(***************************************************************************)
THEOREM NamesStayUnique == Spec => []NamesAreUnique
<1>1. IInv => NamesAreUnique
    BY DEF IInv
<1> QED
    BY <1>1, FrontDoorInvariant, PTL

(***************************************************************************)
(* A session that is logged in is the owner of the row its userID names.   *)
(***************************************************************************)
THEOREM SessionsAreOwners == Spec => []SessionsMatchAccounts
<1>1. IInv => SessionsMatchAccounts
    BY DEF IInv
<1> QED
    BY <1>1, FrontDoorInvariant, PTL

-----------------------------------------------------------------------------
\* Two steps write to the tables, each to one of them.
LEMMA OthersDoNotWrite ==
    ASSUME Next,
           ~ \E s \in Connections : CreateUserWrites(s) \/ CreateChannelWrites(s)
    PROVE  UNCHANGED database
<1>1. ASSUME NEW s \in Connections, Iterates(s)
      PROVE  UNCHANGED database
    BY <1>1 DEF Iterates, Starts, LoginUsername, LoginNewUserYN, LoginNewPassword1,
                LoginPasswordsDiffer, LoginRegularPassword, CommandOther,
                CreateUserReads, CreateUserFails, CreateChannelReads,
                CreateChannelFails, Begins, EchoFails, TakesQuit, SeesClosed
<1>2. ASSUME NEW s \in Connections,
             Accepts(s) \/ UserTypes(s) \/ ConnectionDrops(s)
                \/ ReadFails(s) \/ HandlerReturns(s)
      PROVE  UNCHANGED database
    BY <1>2 DEF Accepts, UserTypes, ConnectionDrops, ReadFails, HandlerReturns, listenerOnly
<1>3. CASE AcceptFails \/ ListensAgain \/ ProgramEnds \/ StartsUp
    BY <1>3 DEF AcceptFails, ListensAgain, ProgramEnds, StartsUp, listenerOnly
<1> QED
    BY <1>1, <1>2, <1>3 DEF Next

LEMMA StepKeepsRows ==
    ASSUME IInv, [Next]_vars
    PROVE  KeepsRows(user, user') /\ KeepsRows(channel, channel')
<1>1. CASE \E s \in Connections : CreateUserWrites(s)
    <2>1. PICK s \in Connections : CreateUserWrites(s)
        BY <1>1
    <2>2. /\ user' = Written(s, user, [name |-> tx[s].name,
                                       password |-> attemptingUserNewPassword[s]])
          /\ channel' = channel /\ dopp[s] = "writing" /\ mode[s] = "NewPassword2"
        BY <2>1 DEF CreateUserWrites, Writes
    <2>3. /\ attemptingUserNewPassword[s] \in Passwords /\ tx[s].name \in Names
          /\ RowStands(user, tx[s])
        BY <2>2 DEF IInv, AttemptsAreNamed, TransactionsStand
    <2>4. [name |-> tx[s].name, password |-> attemptingUserNewPassword[s]] \in UserRows
        BY <2>3 DEF UserRows
    <2>5. user \in Seq(UserRows) /\ Unique(user)
        BY DEF IInv, TypeOK, NamesAreUnique
    <2>6. KeepsRows(user, user')
        BY <2>2, <2>3, <2>4, <2>5, WrittenKeeps
    <2> QED
        BY <2>2, <2>6 DEF KeepsRows
<1>2. CASE \E s \in Connections : CreateChannelWrites(s)
    <2>1. PICK s \in Connections : CreateChannelWrites(s)
        BY <1>2
    <2>2. /\ channel' = Written(s, channel, [name |-> tx[s].name])
          /\ user' = user /\ dopp[s] = "writing" /\ mode[s] = "Command"
        BY <2>1 DEF CreateChannelWrites, Writes
    <2>3. tx[s].name \in ChannelNames /\ RowStands(channel, tx[s])
        BY <2>2 DEF IInv, TransactionsStand
    <2>4. [name |-> tx[s].name] \in ChannelRows
        BY <2>3 DEF ChannelRows
    <2>5. channel \in Seq(ChannelRows) /\ Unique(channel)
        BY DEF IInv, TypeOK, NamesAreUnique
    <2>6. KeepsRows(channel, channel')
        BY <2>2, <2>3, <2>4, <2>5, WrittenKeeps
    <2> QED
        BY <2>2, <2>6 DEF KeepsRows
<1>3. CASE UNCHANGED database
    BY <1>3 DEF database, KeepsRows
<1>4. CASE UNCHANGED vars
    BY <1>3, <1>4 DEF vars
<1> QED
    BY <1>1, <1>2, <1>3, <1>4, OthersDoNotWrite

(***************************************************************************)
(* A userID that was handed out stays the row of the same user for ever,   *)
(* over failed transactions and restarts of the program.                   *)
(***************************************************************************)
THEOREM RowsAreKept == Spec => RowsKeepTheirNames
<1>1. ASSUME IInv, [Next]_vars
      PROVE  [/\ \A k \in DOMAIN user : k \in DOMAIN user' /\ user'[k].name = user[k].name
              /\ \A k \in DOMAIN channel :
                    k \in DOMAIN channel' /\ channel'[k] = channel[k]]_vars
    <2>1. \A k \in DOMAIN user : k \in DOMAIN user' /\ user'[k].name = user[k].name
        BY <1>1, StepKeepsRows DEF KeepsRows
    <2>2. \A k \in DOMAIN channel :
            k \in DOMAIN channel' /\ channel'[k].name = channel[k].name
        BY <1>1, StepKeepsRows DEF KeepsRows
    <2>3. /\ \A k \in DOMAIN channel : channel[k] \in ChannelRows
          /\ \A k \in DOMAIN channel' : channel'[k] \in ChannelRows
        <3>1. channel \in Seq(ChannelRows) /\ channel' \in Seq(ChannelRows)
            BY <1>1, StepKeeps DEF IInv, TypeOK
        <3> QED
            BY <3>1
    <2>4. \A a, b \in ChannelRows : a.name = b.name => a = b
        BY DEF ChannelRows
    <2> QED
        BY <2>1, <2>2, <2>3, <2>4
<1>2. RowsKeepTheirNames <=>
        [][/\ \A k \in DOMAIN user : k \in DOMAIN user' /\ user'[k].name = user[k].name
           /\ \A k \in DOMAIN channel :
                k \in DOMAIN channel' /\ channel'[k] = channel[k]]_vars
    BY DEF RowsKeepTheirNames
<1> QED
    BY <1>1, <1>2, FrontDoorInvariant, PTL DEF Spec

-----------------------------------------------------------------------------
(***************************************************************************)
(* PasswordUnseen, extended to a session in the middle of a transaction,   *)
(* which goes on with the echo it found.                                   *)
(***************************************************************************)
EchoFollowsMode ==
    \A s \in Connections : dopp[s] \in {"selecting", "writing"} =>
        (echoOn[s] <=> mode[s] \notin PasswordModes)

LEMMA SetsKeepsEcho ==
    ASSUME TypeOK, EchoFollowsMode, NEW s \in Connections,
           NEW d, NEW m, NEW name, NEW pw, NEW id, NEW un, NEW e, NEW g,
           Sets(s, d, m, name, pw, id, un, e, g),
           d \in {"selecting", "writing"} => (e <=> m \notin PasswordModes)
    PROVE  EchoFollowsMode'
  BY DEF Sets, TypeOK, EchoFollowsMode

LEMMA ReturnsKeepsEcho ==
    ASSUME TypeOK, EchoFollowsMode, NEW s \in Connections, Returns(s)
    PROVE  EchoFollowsMode'
  BY SetsKeepsEcho DEF Returns

\* The prompt of a password turns the echo off; one of another mode finds it on.
LEMMA EndsIterationKeepsEcho ==
    ASSUME TypeOK, EchoFollowsMode, NEW s \in Connections,
           NEW m, NEW name, NEW pw, NEW id, NEW un, NEW e, NEW g,
           EndsIteration(s, m, name, pw, id, un, e, g),
           m \notin PasswordModes => e
    PROVE  EchoFollowsMode'
<1>1. CASE Returns(s)
    BY <1>1, ReturnsKeepsEcho
<1>2. ASSUME NEW lost,
             Sets(s, "selecting", m, name, pw, id, un, EchoAfterPrompt(m, e), lost)
      PROVE  EchoFollowsMode'
    <2>1. EchoAfterPrompt(m, e) <=> m \notin PasswordModes
        BY Zenon DEF EchoAfterPrompt
    <2> QED
        BY <1>2, <2>1, SetsKeepsEcho
<1> QED
    BY <1>1, <1>2 DEF EndsIteration

LEMMA GoesToKeepsEcho ==
    ASSUME TypeOK, EchoFollowsMode, NEW s \in Connections, NEW m, NEW e, NEW g,
           GoesTo(s, m, e, g), m \notin PasswordModes => e
    PROVE  EchoFollowsMode'
  BY EndsIterationKeepsEcho DEF GoesTo

LEMMA IteratesKeepsEcho ==
    ASSUME TypeOK, EchoFollowsMode, NEW s \in Connections, Iterates(s)
    PROVE  EchoFollowsMode'
<1>1. dopp[s] \in {"selecting", "writing"} /\ mode[s] \notin PasswordModes => echoOn[s]
    BY DEF EchoFollowsMode
<1>2. ASSUME NEW m, Takes(s, m), m \notin PasswordModes
      PROVE  echoOn[s]
    BY <1>1, <1>2 DEF Takes
<1>3. /\ "Username" \notin PasswordModes /\ "NewUserYN" \notin PasswordModes
      /\ "Command" \notin PasswordModes
      /\ "NewPassword1" \in PasswordModes /\ "NewPassword2" \in PasswordModes
      /\ "RegularPassword" \in PasswordModes
    BY DEF PasswordModes
<1>4. CASE Starts(s)
    BY <1>4, GoesToKeepsEcho DEF Starts
<1>5. CASE LoginUsername(s)
    BY <1>2, <1>3, <1>5, EndsIterationKeepsEcho DEF LoginUsername
<1>6. CASE LoginNewUserYN(s)
    BY <1>2, <1>3, <1>6, GoesToKeepsEcho DEF LoginNewUserYN
<1>7. CASE LoginNewPassword1(s)
    BY <1>3, <1>7, GoesToKeepsEcho, EndsIterationKeepsEcho DEF LoginNewPassword1
<1>8. CASE LoginPasswordsDiffer(s)
    BY <1>8, GoesToKeepsEcho DEF LoginPasswordsDiffer
<1>9. CASE LoginRegularPassword(s)
    <2>1. \E m, name, pw, id, un, g : EndsIteration(s, m, name, pw, id, un, TRUE, g)
        BY <1>9 DEF LoginRegularPassword
    <2> QED
        BY <2>1, EndsIterationKeepsEcho
<1>10. CASE CommandOther(s)
    BY <1>2, <1>3, <1>10, GoesToKeepsEcho DEF CommandOther
<1>11. CASE CreateUserReads(s) \/ CreateChannelReads(s)
    <2>1. dopp[s] = "selecting" /\ dopp' = [dopp EXCEPT ![s] = "writing"]
          /\ UNCHANGED session
        BY <1>11 DEF CreateUserReads, CreateChannelReads, Begins, Takes
    <2> QED
        BY <2>1 DEF TypeOK, EchoFollowsMode, session
<1>12. CASE CreateUserWrites(s) \/ CreateUserFails(s)
    BY <1>12, GoesToKeepsEcho DEF CreateUserWrites, CreateUserFails
<1>13. ASSUME Writes(s, "Command")
       PROVE  echoOn[s]
    BY <1>1, <1>3, <1>13 DEF Writes
<1>14. CASE CreateChannelWrites(s)
    BY <1>13, <1>14, GoesToKeepsEcho DEF CreateChannelWrites
<1>15. CASE CreateChannelFails(s)
    <2>1. CASE Returns(s)
        BY <2>1, ReturnsKeepsEcho
    <2>2. CASE Sets(s, "selecting", "Command", attemptingUserName[s],
                    attemptingUserNewPassword[s], userID[s], userName[s], echoOn[s], FALSE)
        <3>1. echoOn[s]
            BY <1>13, <1>15 DEF CreateChannelFails
        <3> QED
            BY <1>3, <2>2, <3>1, SetsKeepsEcho
    <2> QED
        BY <1>15, <2>1, <2>2 DEF CreateChannelFails
<1>16. CASE EchoFails(s) \/ TakesQuit(s) \/ SeesClosed(s)
    BY <1>16, ReturnsKeepsEcho DEF EchoFails, TakesQuit, SeesClosed
<1> QED
    BY <1>4, <1>5, <1>6, <1>7, <1>8, <1>9, <1>10, <1>11, <1>12, <1>14, <1>15, <1>16
       DEF Iterates

LEMMA StepKeepsEcho ==
    ASSUME TypeOK, EchoFollowsMode, [Next]_vars
    PROVE  EchoFollowsMode'
<1>1. ASSUME UNCHANGED <<dopp, session>>
      PROVE  EchoFollowsMode'
    BY <1>1 DEF EchoFollowsMode, session
<1>2. CASE UNCHANGED vars
    BY <1>1, <1>2 DEF vars
<1>3. ASSUME NEW s \in Connections, Accepts(s)
      PROVE  EchoFollowsMode'
    BY <1>3 DEF Accepts, TypeOK, EchoFollowsMode, session
<1>4. ASSUME NEW s \in Connections,
             UserTypes(s) \/ ConnectionDrops(s) \/ ReadFails(s) \/ HandlerReturns(s)
      PROVE  EchoFollowsMode'
    <2>1. UNCHANGED <<dopp, session>>
        BY <1>4 DEF UserTypes, ConnectionDrops, ReadFails, HandlerReturns, listenerOnly
    <2> QED
        BY <1>1, <2>1
<1>5. CASE AcceptFails \/ ListensAgain \/ StartsUp
    <2>1. UNCHANGED <<dopp, session>>
        BY <1>5 DEF AcceptFails, ListensAgain, StartsUp, listenerOnly
    <2> QED
        BY <1>1, <2>1
<1>6. CASE ProgramEnds
    <2>1. \A s \in Connections : dopp'[s] = "returned"
        BY <1>6 DEF ProgramEnds, Emptied, Everywhere
    <2> QED
        BY <2>1 DEF EchoFollowsMode
<1> QED
    BY <1>2, <1>3, <1>4, <1>5, <1>6, IteratesKeepsEcho DEF Next

(***************************************************************************)
(* A user who is asked for a password does not see it, and one who is      *)
(* asked for anything else sees what he types, after whatever retries,     *)
(* mismatches, failed transactions and lost writes.                        *)
(***************************************************************************)
THEOREM PasswordsAreUnseen == Spec => []PasswordUnseen
<1>1. Init => EchoFollowsMode
    BY DEF Init, Everywhere, EchoFollowsMode
<1>2. IInv /\ EchoFollowsMode /\ [Next]_vars => EchoFollowsMode'
    BY StepKeepsEcho DEF IInv
<1>3. EchoFollowsMode => PasswordUnseen
    BY DEF EchoFollowsMode, PasswordUnseen
<1> QED
    BY <1>1, <1>2, <1>3, FrontDoorInvariant, PTL DEF Spec

\* The variables of the front door keep their types; FrontDoorInvariant rests on it.
THEOREM FrontDoorTypes == Spec => []TypeOK
<1>1. IInv => TypeOK
    BY DEF IInv
<1> QED
    BY <1>1, FrontDoorInvariant, PTL
=============================================================================
