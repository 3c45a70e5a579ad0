--------------------------- MODULE TerminalState ---------------------------
(***************************************************************************)
(* One connection seen byte by byte: what the user's Telnet client sends,  *)
(* what the Telnet goroutine and the doppelganger make of it, and what the *)
(* user's screen shows.  A byte is a number, a line a sequence of bytes.   *)
(***************************************************************************)
EXTENDS Naturals, Sequences, SequencesExt

CONSTANTS
    Letters,        \* bytes the user types, 32 (a space) and 255 among them
    Secrets,        \* bytes he types at the prompt for a password only
    MaxLine,        \* bound on the bytes of a line
    MaxAhead        \* bound on the bytes under way when a key is pressed

ASSUME BytesAssumption ==
    /\ Letters \cup Secrets \subseteq 32..255 \ {127}
    /\ Letters \cap Secrets = {}
    /\ MaxLine \in Nat
    /\ MaxAhead \in Nat

\* A secret byte is none of those that keys and prompts are made of besides.
ASSUME SecretsAssumption ==
    Secrets \cap ({35, 62, 63, 65, 68, 80, 91} \cup 240..255) = {}

VARIABLES
    \* From the keyboard to the doppelganger.
    wire,           \* bytes sent by the client, not yet read
    reader,         \* how far Read is with a Telnet command
    handed,         \* the byte the Telnet goroutine is handing over
    telnet,         \* reading, closed or quit
    \* The doppelganger.
    mode,           \* Username for all that echo, Password for all that do not
    chat,           \* off, joining, refused (by a chat channel), on, leaving
    named,          \* is chatChannelName that of a channel?
    lineBuffer,
    cursorColumn,
    controlSequence,\* its bytes up to ctrlSeqPosition
    promptLen,
    \* The user: the line he is typing, and those he has entered that have
    \* not been run; was each one run as it was entered?
    line,
    entered,
    asEntered,
    \* His screen: the line the cursor is on, the last line of conversation,
    \* and whether a byte 255 was among what it was sent.
    screen,
    above,
    garbled

keyboard == <<wire, line, entered>>
network  == <<reader, handed, telnet>>
editor   == <<lineBuffer, cursorColumn, controlSequence>>
session  == <<mode, chat, named>>
display  == <<promptLen, screen, above, garbled>>
vars == <<keyboard, network, editor, session, display, asEntered>>

Bytes == 0..255
IAC == 255
SB  == 250
SE  == 240
Negotiations == 251..254            \* WILL, WONT, DO, DONT
ESC == 27
Returns    == {10, 13}
Backspaces == {8, 127}
Stops      == {3, 4}                \* ^C and ^D

\* What the doppelganger has of the line being typed.
Line == SubSeq(lineBuffer, 1, cursorColumn)

Blank(text) == \A i \in DOMAIN text : text[i] = 32

\* Prompts, one byte for one, and a line of conversation.
Asks    == 63
Prompt  == IF mode # "Command" THEN <<Asks>> ELSE IF named THEN <<35, 62>> ELSE <<62>>
Said    == 33
=============================================================================
