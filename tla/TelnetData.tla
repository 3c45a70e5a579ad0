----------------------------- MODULE TelnetData -----------------------------
(***************************************************************************)
(* The Telnet library's reader, byte by byte, and the Telnet goroutine.    *)
(***************************************************************************)
EXTENDS TerminalState

readerOnly == <<line, entered, editor, session, display, asEntered>>

\* Read waits for one of these bytes; handed is free for what it returns.
Reads(state, bytes) ==
    /\ telnet = "reading"
    /\ handed = <<>>
    /\ reader = state
    /\ wire # <<>>
    /\ Head(wire) \in bytes
    /\ wire' = Tail(wire)

GoesOn(state) ==
    /\ reader' = state
    /\ UNCHANGED <<handed, telnet, readerOnly>>

\* Read returns the byte, and the Telnet goroutine begins to send it.
Delivers ==
    /\ reader' = "data"
    /\ handed' = <<Head(wire)>>
    /\ UNCHANGED <<telnet, readerOnly>>

ReadsData == Reads("data", Bytes \ {IAC}) /\ Delivers

ReadsIAC == Reads("data", {IAC}) /\ GoesOn("iac")

\* WILL, WONT, DO, DONT and the option after them are skipped.
SkipsNegotiation ==
    \/ Reads("iac", Negotiations) /\ GoesOn("option")
    \/ Reads("option", Bytes) /\ GoesOn("data")

ReadsEscapedIAC == Reads("iac", {IAC}) /\ Delivers

\* Mistaken: any IAC ends a sub-negotiation.
EndsAtAnyIAC ==
    \/ Reads("iac", {SB}) /\ GoesOn("sub")
    \/ Reads("sub", Bytes \ {IAC}) /\ GoesOn("sub")
    \/ Reads("sub", {IAC}) /\ GoesOn("subIAC")
    \/ Reads("subIAC", Bytes) /\ GoesOn("data")

\* A sub-negotiation lasts until IAC SE; IAC IAC is data of its own.
SkipsSubnegotiation ==
    \/ Reads("iac", {SB}) /\ GoesOn("sub")
    \/ Reads("sub", Bytes \ {IAC}) /\ GoesOn("sub")
    \/ Reads("sub", {IAC}) /\ GoesOn("subIAC")
    \/ Reads("subIAC", {SE}) /\ GoesOn("data")
    \/ Reads("subIAC", Bytes \ {SE}) /\ GoesOn("sub")

SkipsStraySE == Reads("iac", {SE}) /\ GoesOn("data")

\* errCorrupted: the Telnet goroutine closes userGoChannel and returns.
ReadsOtherCommand ==
    /\ Reads("iac", Bytes \ ({IAC, SB, SE} \cup Negotiations))
    /\ telnet' = "closed"
    /\ UNCHANGED <<reader, handed, readerOnly>>

Read ==
    \/ ReadsData \/ ReadsIAC \/ SkipsNegotiation \/ ReadsEscapedIAC
    \/ SkipsSubnegotiation \/ SkipsStraySE \/ ReadsOtherCommand
=============================================================================
