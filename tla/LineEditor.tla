----------------------------- MODULE LineEditor -----------------------------
(***************************************************************************)
(* The doppelganger's handling of one byte up to the return key, and what  *)
(* it writes to the screen on the way.                                     *)
(***************************************************************************)
EXTENDS TerminalState

EchoOn == mode # "Password"

(***************************************************************************)
(* Writing to the screen.  The library's writer sends a 255 as it is, and  *)
(* the client takes it for a command: what it shows from there on is not   *)
(* followed.                                                               *)
(***************************************************************************)
Shows(text) ==
    LET bad == garbled \/ IAC \in Range(text) IN
    /\ garbled' = bad
    /\ screen' = IF bad THEN <<>> ELSE text

\* n times \b, space, \b.
Erased(text, n) == IF n >= Len(text) THEN <<>> ELSE SubSeq(text, 1, Len(text) - n)

\* Mistaken: the prompt repeats all of the line buffer.
PromptsBuffer ==
    /\ promptLen' = IF mode' = "Command" THEN Len(Prompt') ELSE 0
    /\ Shows(IF mode' = "Command" THEN Prompt' \o lineBuffer' ELSE Prompt')

(***************************************************************************)
(* The prompt at the top of the loop.  In command mode it repeats what the *)
(* user has typed of a line, and its own length is kept.                   *)
(***************************************************************************)
Prompts ==
    /\ promptLen' = IF mode' = "Command" THEN Len(Prompt') ELSE 0
    /\ Shows(IF mode' = "Command" THEN Prompt' \o Line' ELSE Prompt')

-----------------------------------------------------------------------------
Takes ==
    /\ handed # <<>>
    /\ handed' = <<>>
    /\ UNCHANGED <<wire, line, reader, telnet>>

InSequence == controlSequence # <<>>

\* A byte that does nothing by itself.
Ignores ==
    /\ UNCHANGED <<entered, lineBuffer, cursorColumn, session, display, asEntered>>

\* Mistaken: the cursor may go to the left of the line.
DeletesLastUnclamped ==
    /\ cursorColumn' = cursorColumn - 1
    /\ IF EchoOn /\ cursorColumn > 0
       THEN Shows(Erased(screen, 1))
       ELSE UNCHANGED <<screen, garbled>>
    /\ UNCHANGED <<entered, lineBuffer, session, promptLen, above, asEntered>>

\* Back to the start of the line and no further.
DeletesLast ==
    /\ cursorColumn' = IF cursorColumn > 0 THEN cursorColumn - 1 ELSE 0
    /\ IF EchoOn /\ cursorColumn > 0
       THEN Shows(Erased(screen, 1))
       ELSE UNCHANGED <<screen, garbled>>
    /\ UNCHANGED <<entered, lineBuffer, session, promptLen, above, asEntered>>

(***************************************************************************)
(* A byte of a control sequence.  The third one ends it, and ESC [ D, the  *)
(* left arrow, is a backspace.                                             *)
(***************************************************************************)
TakesSequenceByte ==
    /\ Takes
    /\ InSequence
    /\ LET b == IF handed[1] = 127 THEN 8 ELSE handed[1]
           s == Append(controlSequence, b)
       IN
        /\ b \notin Stops
        /\ controlSequence' = IF Len(s) = 3 THEN <<>> ELSE s
        /\ IF s = <<ESC, 91, 68>> THEN DeletesLast ELSE Ignores

StartsSequence ==
    /\ Takes
    /\ ~InSequence
    /\ handed[1] = ESC
    /\ controlSequence' = <<ESC>>
    /\ Ignores

IgnoresControlCode ==
    /\ Takes
    /\ ~InSequence
    /\ handed[1] \in 0..31 \ (Returns \cup Backspaces \cup Stops \cup {ESC})
    /\ UNCHANGED controlSequence
    /\ Ignores

TakesBackspace ==
    /\ Takes
    /\ ~InSequence
    /\ handed[1] \in Backspaces
    /\ UNCHANGED controlSequence
    /\ DeletesLast

\* Mistaken: a byte is always added at the end of the buffer.
TakesLetterAppending ==
    /\ Takes
    /\ ~InSequence
    /\ handed[1] >= 32 /\ handed[1] \notin Backspaces
    /\ lineBuffer' = Append(lineBuffer, handed[1])
    /\ cursorColumn' = Len(lineBuffer')
    /\ IF EchoOn THEN Shows(Append(screen, handed[1])) ELSE UNCHANGED <<screen, garbled>>
    /\ UNCHANGED <<entered, controlSequence, session, promptLen, above, asEntered>>

\* Into the buffer, over what an earlier line left there, and echoed.
TakesLetter ==
    /\ Takes
    /\ ~InSequence
    /\ handed[1] >= 32 /\ handed[1] \notin Backspaces
    /\ lineBuffer' = IF cursorColumn < Len(lineBuffer)
                     THEN [lineBuffer EXCEPT ![cursorColumn + 1] = handed[1]]
                     ELSE Append(lineBuffer, handed[1])
    /\ cursorColumn' = IF cursorColumn < Len(lineBuffer) THEN cursorColumn + 1
                                                         ELSE Len(lineBuffer')
    /\ IF EchoOn THEN Shows(Append(screen, handed[1])) ELSE UNCHANGED <<screen, garbled>>
    /\ UNCHANGED <<entered, controlSequence, session, promptLen, above, asEntered>>

\* The return key on a blank line, which stays as it is.
IgnoresBlankLine ==
    /\ Takes
    /\ ~InSequence
    /\ handed[1] \in Returns
    /\ Blank(Line)
    /\ UNCHANGED controlSequence
    /\ Ignores

Edits ==
    \/ TakesSequenceByte \/ StartsSequence \/ IgnoresControlCode
    \/ TakesBackspace \/ TakesLetter \/ IgnoresBlankLine
=============================================================================
