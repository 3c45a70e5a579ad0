--------------------------- MODULE TelnetSession ---------------------------
(***************************************************************************)
(* The Telnet goroutine of a connection, which hands the user's bytes to   *)
(* the doppelganger over an unbuffered go channel, and the environment:    *)
(* the user who types and the network that may drop the connection.        *)
(***************************************************************************)
EXTENDS ChatState

othersOfTelnet == <<masterVars, chatVars, doppVars, crash>>

(***************************************************************************)
(* A patient user goes by what the screen says: /join when on no channel,  *)
(* /exit, /who and speech when on one, none of them while an answer is     *)
(* awaited.  An impatient one types anything at any time.                  *)
(***************************************************************************)
MayType(d, l) ==
    \/ d \in Impatient
    \/ l.cmd = "quit"
    \/ l.cmd = "join" /\ view[d] = "off"
    \/ l.cmd \in {"exit", "who", "say"} /\ view[d] = "on"

(***************************************************************************)
(* The Telnet goroutine has read a line and blocks until the doppelganger  *)
(* takes it.  What was received before the connection dropped is still     *)
(* read after it.                                                          *)
(***************************************************************************)
UserTypes(d) ==
    /\ telnet[d] = "reading"
    /\ line[d] = <<>>
    /\ typed[d] < MaxLines
    /\ \E l \in Offered :
        /\ MayType(d, l)
        /\ line' = [line EXCEPT ![d] = <<l>>]
        /\ view' = [view EXCEPT ![d] =
                IF d \notin Impatient /\ l.cmd \in {"join", "exit"} THEN "asked" ELSE @]
    /\ typed' = [typed EXCEPT ![d] = @ + 1]
    /\ UNCHANGED <<telnet, conn, othersOfTelnet>>

\* The peer, or the network, drops the connection.
ConnectionDrops(d) ==
    /\ conn[d] = "up"
    /\ conn' = [conn EXCEPT ![d] = "down"]
    /\ UNCHANGED <<telnet, line, typed, view, othersOfTelnet>>

\* The next read fails: userGoChannel is closed and the goroutine returns.
ReadFails(d) ==
    /\ telnet[d] = "reading"
    /\ line[d] = <<>>
    /\ conn[d] = "down"
    /\ telnet' = [telnet EXCEPT ![d] = "closed"]
    /\ UNCHANGED <<conn, line, typed, view, othersOfTelnet>>

\* After ^C or ^D the handler has returned and the server closes the connection.
ServerClosesConnection(d) ==
    /\ telnet[d] = "quit"
    /\ conn[d] = "up"
    /\ conn' = [conn EXCEPT ![d] = "down"]
    /\ UNCHANGED <<telnet, line, typed, view, othersOfTelnet>>
=============================================================================
