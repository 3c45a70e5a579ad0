------------------------------ MODULE Terminal ------------------------------
(***************************************************************************)
(* A user at his keyboard, from the keys he presses to the lines the       *)
(* doppelganger runs and back to his screen, while the conversation of     *)
(* others arrives.  Which command a line is is left open.  The user does   *)
(* not send a request for a channel before the last one is answered.       *)
(***************************************************************************)
EXTENDS TelnetData, LineEditor

Quiet == wire = <<>> /\ handed = <<>> /\ reader = "data" /\ ~InSequence

\* A connection at its first prompt, doppelgangerGoroutine's setup done.
Init ==
    /\ wire = <<>> /\ line = <<>> /\ entered = <<>>
    /\ reader = "data" /\ handed = <<>> /\ telnet = "reading"
    /\ lineBuffer = <<>> /\ cursorColumn = 0 /\ controlSequence = <<>>
    /\ mode = "Username" /\ chat = "off" /\ named = FALSE
    /\ promptLen = 0 /\ screen = <<Asks>> /\ above = <<>> /\ garbled = FALSE
    /\ asEntered = TRUE

-----------------------------------------------------------------------------
(***************************************************************************)
(* The user.  A key is the bytes his client sends for it.                  *)
(***************************************************************************)
Sends(bytes) ==
    /\ telnet = "reading"
    /\ Len(wire) <= MaxAhead
    /\ wire' = wire \o bytes
    /\ UNCHANGED <<network, editor, session, display, asEntered>>

\* At a prompt for a password the user types secrets.
PressesLetter ==
    /\ Len(line) < MaxLine
    /\ \E b \in IF Quiet /\ mode = "Password" THEN Secrets ELSE Letters :
        /\ Sends(IF b = IAC THEN <<IAC, IAC>> ELSE <<b>>)
        /\ line' = Append(line, b)
    /\ UNCHANGED entered

\* Clients send CR NUL or CR LF.
PressesReturn ==
    /\ \E b \in {<<13, 0>>, <<13, 10>>} : Sends(b)
    /\ IF Blank(line)
       THEN UNCHANGED <<line, entered>>
       ELSE line' = <<>> /\ entered' = Append(entered, line)

\* Backspace, in its two forms, and the left arrow.
PressesBackspace ==
    /\ \E b \in {<<8>>, <<127>>, <<ESC, 91, 68>>} : Sends(b)
    /\ line' = IF line = <<>> THEN <<>> ELSE Front(line)
    /\ UNCHANGED entered

\* A tab, the up arrow, an answer to an option, a sub-negotiation with a 255.
PressesOther ==
    /\ \E b \in {<<9>>, <<ESC, 91, 65>>, <<IAC, 253, 3>>,
                 <<IAC, SB, 31, IAC, IAC, 80, IAC, SE>>, <<IAC, SE>>} : Sends(b)
    /\ UNCHANGED <<line, entered>>

\* ^D, or a command the library does not know (IAC NOP).
EndsSession ==
    /\ \E b \in {<<4>>, <<IAC, 241>>} : Sends(b)
    /\ UNCHANGED <<line, entered>>

User == PressesLetter \/ PressesReturn \/ PressesBackspace \/ PressesOther \/ EndsSession

-----------------------------------------------------------------------------
\* Mistaken: the next line begins where this one ended.
RunsKeepingCursor(m) ==
    /\ Takes
    /\ ~InSequence
    /\ handed[1] \in Returns
    /\ mode = m
    /\ ~Blank(Line)
    /\ asEntered' = (asEntered /\ entered # <<>> /\ Head(entered) = Line)
    /\ entered' = IF entered = <<>> THEN <<>> ELSE Tail(entered)
    /\ UNCHANGED <<lineBuffer, cursorColumn, controlSequence, above>>

\* The return key on a line, which begins a new one.
Runs(m) ==
    /\ Takes
    /\ ~InSequence
    /\ handed[1] \in Returns
    /\ mode = m
    /\ ~Blank(Line)
    /\ asEntered' = (asEntered /\ entered # <<>> /\ Head(entered) = Line)
    /\ entered' = IF entered = <<>> THEN <<>> ELSE Tail(entered)
    /\ cursorColumn' = 0
    /\ UNCHANGED <<lineBuffer, controlSequence, above>>

\* A name, an answer or a password; /join and the like only after the login.
LoginLine ==
    /\ \/ Runs("Username") /\ mode' \in {"Username", "Password"}
       \/ Runs("Password") /\ mode' \in {"Username", "Password", "Command"}
    /\ UNCHANGED <<chat, named>>
    /\ Prompts

\* /list, /help, /who, and what is refused or cannot be done now.
RunsAtOnce ==
    /\ Runs("Command")
    /\ UNCHANGED session
    /\ Prompts

\* /create meets a database error: no prompt.
RunsFailingCreate ==
    /\ Runs("Command")
    /\ Shows(<<>>)
    /\ UNCHANGED <<session, promptLen>>

\* Mistaken: the line stays on the screen until it comes back.
RunsSayKept ==
    /\ Runs("Command")
    /\ chat \in {"joining", "refused", "on"}
    /\ UNCHANGED <<session, promptLen, screen, garbled>>

(***************************************************************************)
(* Speech is backspaced out, and comes back as conversation if the user is *)
(* on a channel.  That chatChannelID is not 0 is all that is asked: it is  *)
(* -1 while a join is unanswered and after a chat channel has refused it.  *)
(***************************************************************************)
RunsSay ==
    /\ Runs("Command")
    /\ chat \in {"joining", "refused", "on"}
    /\ Shows(Erased(screen, cursorColumn))
    /\ UNCHANGED <<session, promptLen>>

\* No prompt before the answer.
RunsJoin ==
    /\ Runs("Command")
    /\ chat \in {"off", "refused"}
    /\ chat' = "joining"
    /\ UNCHANGED <<mode, named, promptLen, screen, garbled>>

\* With chatChannelID -1 no exit comes back.
RunsExit ==
    /\ Runs("Command")
    /\ \/ chat = "on" /\ chat' = "leaving"
       \/ chat = "refused" /\ chat' = "off"
    /\ named' = FALSE
    /\ UNCHANGED mode
    /\ Prompts

-----------------------------------------------------------------------------
\* The doppelganger takes a message of a chat channel or the channel master.
Hears ==
    /\ telnet = "reading"
    /\ UNCHANGED <<keyboard, network, editor, mode, asEntered>>

(***************************************************************************)
(* Answers to /join are written on a new line.  chatChannelID is 0 after a *)
(* refusal of the channel master and stays -1 after one of a chat channel. *)
(***************************************************************************)
HearsRefusal ==
    /\ Hears
    /\ chat = "joining"
    /\ chat' \in {"off", "refused"}
    /\ UNCHANGED <<named, above>>
    /\ Prompts

HearsJoined ==
    /\ Hears
    /\ chat = "joining"
    /\ chat' = "on"
    /\ named' = TRUE
    /\ UNCHANGED above
    /\ Prompts

\* Mistaken: only the prompt is backspaced out.
OverPrompt ==
    above' = IF garbled THEN <<>> ELSE Append(Erased(screen, promptLen), Said)

\* genericTextOutput: prompt and line are backspaced out before the text.
OverLine ==
    above' = IF garbled THEN <<>>
             ELSE Append(Erased(screen, promptLen + cursorColumn), Said)

HearsText ==
    /\ Hears
    /\ chat \in {"on", "leaving"}
    /\ OverLine
    /\ UNCHANGED <<chat, named>>
    /\ Prompts

\* The user's own exit comes back.
HearsOwnExit ==
    /\ Hears
    /\ chat = "leaving"
    /\ chat' = "off"
    /\ named' = FALSE
    /\ OverLine
    /\ Prompts

-----------------------------------------------------------------------------
\* ^C and ^D, in a control sequence too, end both goroutines.
TakesStop ==
    /\ handed # <<>>
    /\ handed[1] \in Stops
    /\ handed' = <<>>
    /\ telnet' = "quit"
    /\ UNCHANGED <<keyboard, reader, editor, session, display, asEntered>>

\* The user connects again.
Reconnects ==
    /\ telnet # "reading"
    /\ wire' = <<>> /\ line' = <<>> /\ entered' = <<>>
    /\ reader' = "data" /\ handed' = <<>> /\ telnet' = "reading"
    /\ lineBuffer' = <<>> /\ cursorColumn' = 0 /\ controlSequence' = <<>>
    /\ mode' = "Username" /\ chat' = "off" /\ named' = FALSE
    /\ promptLen' = 0 /\ screen' = <<Asks>> /\ above' = <<>> /\ garbled' = FALSE
    /\ asEntered' = TRUE

Doppelganger ==
    \/ Edits \/ TakesStop
    \/ LoginLine \/ RunsAtOnce \/ RunsFailingCreate \/ RunsSay \/ RunsJoin \/ RunsExit
    \/ HearsRefusal \/ HearsJoined \/ HearsText \/ HearsOwnExit

Next == User \/ Read \/ Doppelganger \/ Reconnects

Spec == Init /\ [][Next]_vars

-----------------------------------------------------------------------------
\* What the user should see of the line he is typing.
Visible == IF EchoOn THEN Line ELSE <<>>

(***************************************************************************)
(* The types of the variables.                                             *)
(***************************************************************************)
TypeOK ==
    /\ wire \in Seq(Bytes)
    /\ reader \in {"data", "iac", "option", "sub", "subIAC"}
    /\ handed \in Seq(Bytes) /\ Len(handed) <= 1
    /\ telnet \in {"reading", "closed", "quit"}
    /\ mode \in {"Username", "Password", "Command"}
    /\ chat \in {"off", "joining", "refused", "on", "leaving"}
    /\ named \in BOOLEAN
    /\ lineBuffer \in Seq(Bytes)
    /\ cursorColumn \in 0..Len(lineBuffer)
    /\ controlSequence \in Seq(Bytes) /\ Len(controlSequence) <= 2
    /\ promptLen \in 0..2
    /\ line \in Seq(Letters \cup Secrets)
    /\ entered \in Seq(Seq(Letters \cup Secrets))
    /\ asEntered \in BOOLEAN
    /\ screen \in Seq(Bytes)
    /\ above \in Seq(Bytes)
    /\ garbled \in BOOLEAN

(***************************************************************************)
(* Every line is run as its user entered it, once and in order, whatever   *)
(* is between its keys: corrections, arrows, Telnet commands, both forms   *)
(* of the return key, conversation of others (README.md:127-135).          *)
(***************************************************************************)
LinesRunAsEntered == asEntered

(***************************************************************************)
(* When all that was typed has been taken, the line buffer up to the       *)
(* cursor is the line the user means, and no line of his is missing.       *)
(***************************************************************************)
EditorFollowsKeys ==
    telnet = "reading" /\ Quiet => Line = line /\ entered = <<>>

(***************************************************************************)
(* The line the cursor is on ends in what has been typed of a line, and    *)
(* but for an unanswered /join there is nothing before that but the prompt,*)
(* which a failed /create leaves out: a redrawn prompt neither loses nor   *)
(* repeats a part of the line (doppelganger.go:843-856).                   *)
(***************************************************************************)
ScreenShowsLine ==
    ~garbled =>
        /\ IsSuffix(Visible, screen)
        /\ chat # "joining" => screen \in {Prompt \o Visible, Visible}

(***************************************************************************)
(* A line of conversation stands by itself: prompt and partial line are    *)
(* backspaced out to the last byte before it (README.md:182-189).          *)
(***************************************************************************)
ConversationIsUnbroken == above \in {<<>>, <<Said>>}

(***************************************************************************)
(* Nothing a user types at the prompt for a password is ever shown, not    *)
(* when it is typed and not in the prompts that repeat the line buffer.    *)
(***************************************************************************)
PasswordNeverShown == Range(screen) \cap Secrets = {}

(***************************************************************************)
(* The inductive invariant of the proofs.  A secret byte is next to be     *)
(* read, handed over or in the line only at the prompt for a password, and *)
(* of the wire it is the first; before the login there is no channel, and  *)
(* after it the length that will be backspaced out is that of the prompt.  *)
(***************************************************************************)
SecretsInTheirPlace ==
    /\ \A i \in DOMAIN wire : wire[i] \in Secrets =>
            i = 1 /\ handed = <<>> /\ mode = "Password"
    /\ handed # <<>> /\ handed[1] \in Secrets => mode = "Password"
    /\ \A i \in 1..cursorColumn : lineBuffer[i] \in Secrets => mode = "Password"

PromptIsMeasured ==
    /\ mode # "Command" => chat = "off"
    /\ mode = "Command" => promptLen = Len(Prompt)

IInv ==
    /\ TypeOK
    /\ ScreenShowsLine
    /\ ConversationIsUnbroken
    /\ PasswordNeverShown
    /\ SecretsInTheirPlace
    /\ PromptIsMeasured
=============================================================================
