------------------------------ MODULE Listener ------------------------------
(***************************************************************************)
(* The listener with its retry, the Telnet goroutine of each connection,   *)
(* the network and the end of the program.                                 *)
(***************************************************************************)
EXTENDS AccountState

listenerOnly == <<database, buffered, line, dopp, tx, session>>

Open == { s \in Connections : fd[s] }

\* File descriptors in use, the listener's own among them.
InUse == Cardinality(Open) + (IF listener = "listening" THEN 1 ELSE 0)

\* Nothing is left of the connection this slot had.
Free(s) == dopp[s] = "returned" /\ ~fd[s]

Accepts(s) ==
    /\ listener = "listening"
    /\ InUse < FdLimit
    /\ Free(s)
    /\ fd' = [fd EXCEPT ![s] = TRUE]
    /\ conn' = [conn EXCEPT ![s] = "up"]
    /\ telnet' = [telnet EXCEPT ![s] = "reading"]
    /\ dopp' = [dopp EXCEPT ![s] = "starting"]
    /\ UNCHANGED <<database, listener, buffered, line, tx, session>>

\* "too many open files": Serve returns, which closes the listener.
AcceptFails ==
    /\ listener = "listening"
    /\ InUse >= FdLimit
    /\ listener' = "retrying"
    /\ UNCHANGED <<listenerOnly, fd, conn, telnet>>

\* After its sleep; net.Listen needs a file descriptor, or main sleeps again.
ListensAgain ==
    /\ listener = "retrying"
    /\ InUse < FdLimit
    /\ listener' = "listening"
    /\ UNCHANGED <<listenerOnly, fd, conn, telnet>>

-----------------------------------------------------------------------------
\* The mode a line typed now will meet: createUser ends in "Username".
Awaited(s) ==
    IF dopp[s] = "writing" /\ mode[s] = "NewPassword2" THEN "Username" ELSE mode[s]

\* The Telnet goroutine reads a line, or ^C or ^D, and begins to hand it over.
UserTypes(s) ==
    /\ telnet[s] = "reading"
    /\ line[s] = <<>>
    /\ \/ conn[s] = "up" /\ UNCHANGED buffered
       \/ /\ conn[s] = "down"
          /\ buffered[s] > 0
          /\ buffered' = [buffered EXCEPT ![s] = @ - 1]
    /\ \E text \in AskedIn(Awaited(s)) \cup {Quit} : line' = [line EXCEPT ![s] = <<text>>]
    /\ UNCHANGED <<database, listener, conn, fd, telnet, dopp, tx, session>>

\* The connection drops; lines of the user may have arrived before that.
ConnectionDrops(s) ==
    /\ conn[s] = "up"
    /\ conn' = [conn EXCEPT ![s] = "down"]
    /\ \E n \in 0..MaxBuffered : buffered' = [buffered EXCEPT ![s] = n]
    /\ UNCHANGED <<database, listener, fd, telnet, line, dopp, tx, session>>

\* Mistaken: the Telnet goroutine returns without closing userGoChannel.
ReadFailsSilently(s) ==
    /\ telnet[s] = "reading"
    /\ line[s] = <<>>
    /\ conn[s] = "down"
    /\ buffered[s] = 0
    /\ telnet' = [telnet EXCEPT ![s] = "quit"]
    /\ UNCHANGED <<listenerOnly, listener, conn, fd>>

\* The reader's error ends the Telnet goroutine, which closes userGoChannel.
ReadFails(s) ==
    /\ telnet[s] = "reading"
    /\ line[s] = <<>>
    /\ conn[s] = "down"
    /\ buffered[s] = 0
    /\ telnet' = [telnet EXCEPT ![s] = "closed"]
    /\ UNCHANGED <<listenerOnly, listener, conn, fd>>

\* Mistaken: server.handle leaves closing the connection to the user's end.
HandlerReturnsOpen(s) ==
    /\ telnet[s] # "reading"
    /\ conn[s] = "up"
    /\ conn' = [conn EXCEPT ![s] = "down"]
    /\ buffered' = [buffered EXCEPT ![s] = 0]
    /\ UNCHANGED <<database, listener, fd, telnet, line, dopp, tx, session>>

\* server.handle closes the connection once ServeTELNET has returned.
HandlerReturns(s) ==
    /\ telnet[s] # "reading"
    /\ fd[s]
    /\ fd' = [fd EXCEPT ![s] = FALSE]
    /\ conn' = [conn EXCEPT ![s] = "down"]
    /\ buffered' = [buffered EXCEPT ![s] = 0]
    /\ UNCHANGED <<database, listener, telnet, line, dopp, tx, session>>

-----------------------------------------------------------------------------
Everywhere(value) == [s \in Connections |-> value]

\* The goroutines, and all that is not on disk, when there are none.
Emptied ==
    /\ conn' = Everywhere("down")
    /\ buffered' = Everywhere(0)
    /\ fd' = Everywhere(FALSE)
    /\ telnet' = Everywhere("closed")
    /\ line' = Everywhere(<<>>)
    /\ dopp' = Everywhere("returned")
    /\ tx' = Everywhere(NoTx)
    /\ mode' = Everywhere("Username")
    /\ attemptingUserName' = Everywhere(Nothing)
    /\ attemptingUserNewPassword' = Everywhere(Nothing)
    /\ userID' = Everywhere(0)
    /\ userName' = Everywhere(Nothing)
    /\ echoOn' = Everywhere(TRUE)
    /\ gone' = Everywhere(FALSE)

\* A crash, a panic, or an error of ListenAndServe that main does not retry.
ProgramEnds ==
    /\ listener # "stopped"
    /\ listener' = "stopped"
    /\ Emptied
    /\ UNCHANGED database

\* Mistaken: the database is created at every start.
StartsAfresh ==
    /\ listener = "stopped"
    /\ listener' = "listening"
    /\ user' = <<>>
    /\ UNCHANGED <<channel, buffered, line, dopp, tx, session, fd, conn, telnet>>

\* main, with the database file it finds.
StartsUp ==
    /\ listener = "stopped"
    /\ listener' = "listening"
    /\ UNCHANGED <<listenerOnly, fd, conn, telnet>>
=============================================================================
