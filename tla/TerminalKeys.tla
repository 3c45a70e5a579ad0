---------------------------- MODULE TerminalKeys ----------------------------
(***************************************************************************)
(* Lines are run as the user has entered them, for any letters, secrets,   *)
(* length of line and number of bytes under way.  The inductive invariant, *)
(* KeysInv, follows the bytes that are still under way: read one after the *)
(* other by an editor that is a function of its state and the byte, they   *)
(* take it from where the doppelganger's editor is to where the user means *)
(* it to be, and every line they run is the one he has entered, unless the *)
(* session is over on the way.  That run is a function the invariant says  *)
(* there is: a key adds to its end and a byte that is read drops its       *)
(* beginning, so what the bytes do to the editor is never computed.        *)
(***************************************************************************)
EXTENDS TerminalProofs

USE DEF Bytes, IAC, ESC, Asks, Said

-----------------------------------------------------------------------------
(***************************************************************************)
(* What the bytes under way will come to.  A state of the editor is how    *)
(* far the Telnet reader is, the control sequence, the line up to the      *)
(* cursor and the number of lines run from now on; "over" is the end of    *)
(* the session.  The definitions repeat what TelnetData and LineEditor do  *)
(* with one byte, as a function of the state and the byte.                 *)
(***************************************************************************)
Readers == {"data", "iac", "option", "sub", "subIAC", "over"}
EditorStates == [rd : Readers, cs : Seq(Bytes), txt : Seq(Bytes), ran : Nat]
At(rd, cs, txt, n) == [rd |-> rd, cs |-> cs, txt |-> txt, ran |-> n]

Deletes(text) == IF text = <<>> THEN <<>> ELSE SubSeq(text, 1, Len(text) - 1)

RunsLine(s, b) == b \in Returns /\ s.cs = <<>> /\ ~Blank(s.txt)

\* A byte for the doppelganger.
AddsToSequence(s, b) ==
    LET q == Append(s.cs, IF b = 127 THEN 8 ELSE b) IN
    At("data", IF Len(q) = 3 THEN <<>> ELSE q,
       IF q = <<ESC, 91, 68>> THEN Deletes(s.txt) ELSE s.txt, s.ran)

Fed(s, b) ==
    IF b \in Stops THEN At("over", s.cs, s.txt, s.ran)
    ELSE IF s.cs # <<>> THEN AddsToSequence(s, b)
    ELSE IF b = ESC THEN At("data", <<ESC>>, s.txt, s.ran)
    ELSE IF b \in Backspaces THEN At("data", s.cs, Deletes(s.txt), s.ran)
    ELSE IF RunsLine(s, b) THEN At("data", s.cs, <<>>, s.ran + 1)
    ELSE IF b >= 32 THEN At("data", s.cs, Append(s.txt, b), s.ran)
    ELSE At("data", s.cs, s.txt, s.ran)

\* A byte the reader keeps to itself.
Skips(s, b) ==
    CASE s.rd = "data" -> "iac"
      [] s.rd = "iac" -> IF b \in Negotiations THEN "option"
                         ELSE IF b = SB THEN "sub"
                         ELSE IF b = SE THEN "data" ELSE "over"
      [] s.rd = "option" -> "data"
      [] s.rd = "sub" -> IF b = IAC THEN "subIAC" ELSE "sub"
      [] s.rd = "subIAC" -> IF b = SE THEN "data" ELSE "sub"
      [] s.rd = "over" -> "over"

HandsOver(s, b) == (s.rd = "data" /\ b # IAC) \/ (s.rd = "iac" /\ b = IAC)

Seen(s, b) == IF HandsOver(s, b) THEN Fed(s, b) ELSE At(Skips(s, b), s.cs, s.txt, s.ran)

\* If b runs a line, it is the next one of those the user has entered.
Right(s, b, lines) == RunsLine(s, b) => s.ran < Len(lines) /\ lines[s.ran + 1] = s.txt

(***************************************************************************)
(* The states tr that the bytes of w take the editor through, and the      *)
(* state it comes to from s, or that the session is over on the way.       *)
(***************************************************************************)
Follows(tr, w, lines) ==
    /\ tr \in [0..Len(w) -> EditorStates]
    /\ \A k \in 1..Len(w) :
        /\ tr[k] = Seen(tr[k - 1], w[k])
        /\ HandsOver(tr[k - 1], w[k]) => Right(tr[k - 1], w[k], lines)
    /\ \A j \in 0..Len(w) : \A k \in j..Len(w) : tr[j].ran <= tr[k].ran

Leads(s, w, lines, t) == \E tr : Follows(tr, w, lines) /\ tr[0] = s /\ tr[Len(w)] = t

Reaches(s, w, lines, t) ==
    \E u \in EditorStates : Leads(s, w, lines, u) /\ (u.rd = "over" \/ u = t)

LEMMA DeletesType ==
    ASSUME NEW t \in Seq(Bytes)
    PROVE  Deletes(t) \in Seq(Bytes)
<1>1. CASE t = <<>>
    BY <1>1 DEF Deletes
<1>2. CASE t # <<>>
    <2>1. Len(t) > 0
        BY <1>2, EmptySeq
    <2> QED
        BY <1>2, <2>1, FrontBytes DEF Deletes
<1> QED
    BY <1>1, <1>2

LEMMA AtType ==
    ASSUME NEW rd \in Readers, NEW cs \in Seq(Bytes), NEW txt \in Seq(Bytes), NEW n \in Nat
    PROVE  /\ At(rd, cs, txt, n) \in EditorStates
           /\ At(rd, cs, txt, n).rd = rd /\ At(rd, cs, txt, n).cs = cs
           /\ At(rd, cs, txt, n).txt = txt /\ At(rd, cs, txt, n).ran = n
BY DEF At, EditorStates

LEMMA FedType ==
    ASSUME NEW s \in EditorStates, NEW b \in Bytes
    PROVE  Fed(s, b) \in EditorStates /\ s.ran <= Fed(s, b).ran
<1>1. s.cs \in Seq(Bytes) /\ s.txt \in Seq(Bytes) /\ s.ran \in Nat
    BY DEF EditorStates
<1>2. /\ Deletes(s.txt) \in Seq(Bytes) /\ <<>> \in Seq(Bytes) /\ <<ESC>> \in Seq(Bytes)
      /\ Append(s.txt, b) \in Seq(Bytes)
    BY <1>1, DeletesType
<1>3. PICK r : r = s.ran
    OBVIOUS
<1>4. r \in Nat /\ r + 1 \in Nat /\ r <= r /\ r <= r + 1
    BY <1>1, <1>3
<1>5. "data" \in Readers /\ "over" \in Readers
    BY DEF Readers
<1>6. AddsToSequence(s, b) \in EditorStates /\ AddsToSequence(s, b).ran = s.ran
    <2>1. PICK e : e = IF b = 127 THEN 8 ELSE b
        OBVIOUS
    <2>2. e \in Bytes
        BY <2>1
    <2>3. PICK q : q = Append(s.cs, e)
        OBVIOUS
    <2>4. q \in Seq(Bytes)
        BY <1>1, <2>2, <2>3
    <2>5. PICK cs : cs = IF Len(q) = 3 THEN <<>> ELSE q
        OBVIOUS
    <2>6. PICK txt : txt = IF q = <<ESC, 91, 68>> THEN Deletes(s.txt) ELSE s.txt
        OBVIOUS
    <2>7. cs \in Seq(Bytes) /\ txt \in Seq(Bytes)
        BY <1>1, <1>2, <2>4, <2>5, <2>6
    <2>8. AddsToSequence(s, b) = At("data", cs, txt, s.ran)
        BY <2>1, <2>3, <2>5, <2>6 DEF AddsToSequence
    <2> QED
        BY <1>1, <1>5, <2>7, <2>8, AtType
<1>7. \A cs \in Seq(Bytes), txt \in Seq(Bytes), rd \in {"data", "over"}, n \in {r, r + 1} :
        At(rd, cs, txt, n) \in EditorStates /\ r <= At(rd, cs, txt, n).ran
    BY <1>4, <1>5, AtType
<1> HIDE DEF ESC
<1> QED
    BY <1>1, <1>2, <1>3, <1>4, <1>6, <1>7 DEF Fed

LEMMA SeenType ==
    ASSUME NEW s \in EditorStates, NEW b \in Bytes
    PROVE  Seen(s, b) \in EditorStates /\ s.ran <= Seen(s, b).ran
<1>1. s.rd \in Readers /\ s.cs \in Seq(Bytes) /\ s.txt \in Seq(Bytes) /\ s.ran \in Nat
    BY DEF EditorStates
<1>2. Skips(s, b) \in Readers
    BY <1>1 DEF Skips, Readers
<1>3. /\ At(Skips(s, b), s.cs, s.txt, s.ran) \in EditorStates
      /\ At(Skips(s, b), s.cs, s.txt, s.ran).ran = s.ran
    BY <1>1, <1>2 DEF At, EditorStates
<1>4. CASE HandsOver(s, b)
    BY <1>4, FedType DEF Seen
<1>5. CASE ~HandsOver(s, b)
    <2>1. s.ran <= s.ran
        BY <1>1
    <2> QED
        BY <1>3, <1>5, <2>1 DEF Seen
<1> QED
    BY <1>4, <1>5

-----------------------------------------------------------------------------
LEMMA LeadsNowhere ==
    ASSUME NEW s \in EditorStates, NEW lines
    PROVE  /\ Leads(s, <<>>, lines, s)
           /\ \A t : Leads(s, <<>>, lines, t) => t = s
<1>1. Len(<<>>) = 0
    OBVIOUS
<1>2. PICK tr : tr = [k \in 0..0 |-> s]
    OBVIOUS
<1>3. tr \in [0..0 -> EditorStates] /\ tr[0] = s
    BY <1>2
<1>4. \A j \in 0..0 : \A k \in j..0 : tr[j].ran <= tr[k].ran
    <2>1. s.ran <= s.ran
        BY DEF EditorStates
    <2> QED
        BY <1>3, <2>1
<1>5. Follows(tr, <<>>, lines)
    BY <1>1, <1>3, <1>4 DEF Follows
<1> QED
    BY <1>1, <1>3, <1>5 DEF Leads

\* One more byte at the end.
LEMMA LeadsOn ==
    ASSUME NEW s, NEW w \in Seq(Bytes), NEW lines, NEW t, Leads(s, w, lines, t),
           NEW b \in Bytes, HandsOver(t, b) => Right(t, b, lines)
    PROVE  Leads(s, Append(w, b), lines, Seen(t, b)) /\ Seen(t, b) \in EditorStates
<1>1. PICK tr : Follows(tr, w, lines) /\ tr[0] = s /\ tr[Len(w)] = t
    BY DEF Leads
<1>2. PICK n \in Nat : n = Len(w)
    OBVIOUS
<1>3. PICK w2 : w2 = Append(w, b)
    OBVIOUS
<1>4. /\ Len(w2) = n + 1 /\ w2[n + 1] = b /\ \A k \in 1..n : w2[k] = w[k]
      /\ w2 \in Seq(Bytes)
    BY <1>2, <1>3
<1>5. /\ tr \in [0..n -> EditorStates]
      /\ \A k \in 1..n : /\ tr[k] = Seen(tr[k - 1], w[k])
                         /\ HandsOver(tr[k - 1], w[k]) => Right(tr[k - 1], w[k], lines)
      /\ \A j \in 0..n : \A k \in j..n : tr[j].ran <= tr[k].ran
    BY <1>1, <1>2 DEF Follows
<1>6. t \in EditorStates
    BY <1>1, <1>2, <1>5
<1>7. Seen(t, b) \in EditorStates /\ t.ran <= Seen(t, b).ran
    BY <1>6, SeenType
<1>8. PICK u : u = [k \in 0..n + 1 |-> IF k = n + 1 THEN Seen(t, b) ELSE tr[k]]
    OBVIOUS
<1>9. /\ u \in [0..n + 1 -> EditorStates]
      /\ \A k \in 0..n : u[k] = tr[k]
      /\ u[n + 1] = Seen(t, b)
    BY <1>5, <1>7, <1>8
<1>10. ASSUME NEW k \in 1..n + 1
       PROVE  /\ u[k] = Seen(u[k - 1], w2[k])
              /\ HandsOver(u[k - 1], w2[k]) => Right(u[k - 1], w2[k], lines)
    <2>1. CASE k = n + 1
        <3>1. u[k - 1] = t /\ w2[k] = b /\ u[k] = Seen(t, b)
            BY <1>1, <1>2, <1>4, <1>9, <2>1
        <3> QED
            BY <3>1
    <2>2. CASE k \in 1..n
        <3>1. u[k - 1] = tr[k - 1] /\ w2[k] = w[k] /\ u[k] = tr[k]
            BY <1>4, <1>9, <2>2
        <3> QED
            BY <1>5, <2>2, <3>1
    <2> QED
        BY <2>1, <2>2
<1>11. ASSUME NEW j \in 0..n + 1, NEW k \in j..n + 1
       PROVE  u[j].ran <= u[k].ran
    <2>1. CASE j = n + 1
        <3>1. k = n + 1
            BY <2>1
        <3> QED
            BY <1>7, <1>9, <2>1, <3>1 DEF EditorStates
    <2>2. CASE j \in 0..n /\ k \in j..n
        BY <1>5, <1>9, <2>2
    <2>3. CASE j \in 0..n /\ k = n + 1
        <3>1. tr[j].ran <= tr[n].ran /\ tr[n] = t /\ tr[j] \in EditorStates
            BY <1>1, <1>2, <1>5, <2>3
        <3> QED
            BY <1>6, <1>7, <1>9, <2>3, <3>1 DEF EditorStates
    <2> QED
        BY <2>1, <2>2, <2>3
<1>12. Follows(u, w2, lines)
    BY <1>4, <1>9, <1>10, <1>11 DEF Follows
<1>13. u[0] = s /\ u[Len(w2)] = Seen(t, b)
    BY <1>1, <1>4, <1>9
<1> QED
    BY <1>3, <1>7, <1>12, <1>13 DEF Leads

\* One byte fewer at the beginning.
LEMMA LeadsFrom ==
    ASSUME NEW s, NEW w \in Seq(Bytes), w # <<>>, NEW lines, NEW t, Leads(s, w, lines, t)
    PROVE  /\ Leads(Seen(s, Head(w)), Tail(w), lines, t)
           /\ HandsOver(s, Head(w)) => Right(s, Head(w), lines)
<1>1. PICK tr : Follows(tr, w, lines) /\ tr[0] = s /\ tr[Len(w)] = t
    BY DEF Leads
<1>2. PICK n \in Nat : n + 1 = Len(w)
    <2>1. Len(w) - 1 \in Nat
        BY EmptySeq
    <2> QED
        BY <2>1
<1>3. PICK w2 : w2 = Tail(w)
    OBVIOUS
<1>4. /\ Len(w2) = n /\ w[1] = Head(w) /\ \A k \in 1..n : w2[k] = w[k + 1]
    BY <1>2, <1>3
<1>5. /\ tr \in [0..n + 1 -> EditorStates]
      /\ \A k \in 1..n + 1 : /\ tr[k] = Seen(tr[k - 1], w[k])
                             /\ HandsOver(tr[k - 1], w[k]) => Right(tr[k - 1], w[k], lines)
      /\ \A j \in 0..n + 1 : \A k \in j..n + 1 : tr[j].ran <= tr[k].ran
    BY <1>1, <1>2 DEF Follows
<1>6. tr[1] = Seen(s, Head(w)) /\ (HandsOver(s, Head(w)) => Right(s, Head(w), lines))
    <2>1. 1 \in 1..n + 1 /\ 1 - 1 = 0
        OBVIOUS
    <2> QED
        BY <1>1, <1>4, <1>5, <2>1
<1>7. PICK u : u = [k \in 0..n |-> tr[k + 1]]
    OBVIOUS
<1>8. u \in [0..n -> EditorStates] /\ \A k \in 0..n : u[k] = tr[k + 1]
    BY <1>5, <1>7
<1>9. ASSUME NEW k \in 1..n
      PROVE  /\ u[k] = Seen(u[k - 1], w2[k])
             /\ HandsOver(u[k - 1], w2[k]) => Right(u[k - 1], w2[k], lines)
    <2>1. k + 1 \in 1..n + 1 /\ k + 1 - 1 = k /\ k - 1 + 1 = k /\ k - 1 \in 0..n
        OBVIOUS
    <2>2. u[k] = tr[k + 1] /\ u[k - 1] = tr[k] /\ w2[k] = w[k + 1]
        BY <1>4, <1>8, <2>1
    <2> QED
        BY <1>5, <2>1, <2>2
<1>10. ASSUME NEW j \in 0..n, NEW k \in j..n
       PROVE  u[j].ran <= u[k].ran
    <2>1. j + 1 \in 0..n + 1 /\ k + 1 \in (j + 1)..n + 1 /\ k \in 0..n
        OBVIOUS
    <2> QED
        BY <1>5, <1>8, <2>1
<1>11. Follows(u, w2, lines)
    BY <1>4, <1>8, <1>9, <1>10 DEF Follows
<1>12. u[0] = Seen(s, Head(w)) /\ u[Len(w2)] = t
    BY <1>1, <1>2, <1>4, <1>6, <1>8
<1> QED
    BY <1>3, <1>6, <1>11, <1>12 DEF Leads

-----------------------------------------------------------------------------
LEMMA RightLonger ==
    ASSUME NEW s \in EditorStates, NEW b, NEW lines \in Seq(Seq(Bytes)), NEW l \in Seq(Bytes),
           Right(s, b, lines)
    PROVE  Right(s, b, Append(lines, l))
<1>1. s.ran \in Nat
    BY DEF EditorStates
<1>2. PICK r : r = s.ran
    OBVIOUS
<1>3. ASSUME r < Len(lines)
      PROVE  r < Len(Append(lines, l)) /\ Append(lines, l)[r + 1] = lines[r + 1]
    BY <1>1, <1>2, <1>3
<1> QED
    BY <1>2, <1>3 DEF Right

\* A line entered after w was sent is not one that w runs.
LEMMA LeadsLonger ==
    ASSUME NEW s, NEW w \in Seq(Bytes), NEW t, NEW lines \in Seq(Seq(Bytes)),
           NEW l \in Seq(Bytes), Leads(s, w, lines, t)
    PROVE  Leads(s, w, Append(lines, l), t)
<1>1. PICK tr : Follows(tr, w, lines) /\ tr[0] = s /\ tr[Len(w)] = t
    BY DEF Leads
<1>2. PICK n \in Nat : n = Len(w)
    OBVIOUS
<1>3. ASSUME NEW k \in 1..n, HandsOver(tr[k - 1], w[k])
      PROVE  Right(tr[k - 1], w[k], Append(lines, l))
    <2>1. Right(tr[k - 1], w[k], lines)
        BY <1>1, <1>2, <1>3 DEF Follows
    <2>2. k - 1 \in 0..n
        OBVIOUS
    <2>3. tr[k - 1] \in EditorStates
        BY <1>1, <1>2, <2>2 DEF Follows
    <2> QED
        BY <2>1, <2>3, RightLonger
<1>4. Follows(tr, w, Append(lines, l))
    BY <1>1, <1>2, <1>3 DEF Follows
<1> QED
    BY <1>1, <1>4 DEF Leads

\* The first line has been run, and is no longer counted.
Less(s) == At(s.rd, s.cs, s.txt, s.ran - 1)

LEMMA SeenLess ==
    ASSUME NEW s \in EditorStates, s.ran >= 1, NEW b \in Bytes
    PROVE  /\ Less(s) \in EditorStates /\ Less(s).ran = s.ran - 1
           /\ HandsOver(Less(s), b) <=> HandsOver(s, b)
           /\ RunsLine(Less(s), b) <=> RunsLine(s, b)
           /\ Seen(Less(s), b) = Less(Seen(s, b))
<1>1. /\ s.rd \in Readers /\ s.cs \in Seq(Bytes) /\ s.txt \in Seq(Bytes) /\ s.ran \in Nat
      /\ s.ran - 1 \in Nat
    BY DEF EditorStates
<1>2. /\ Less(s) \in EditorStates
      /\ Less(s).rd = s.rd /\ Less(s).cs = s.cs /\ Less(s).txt = s.txt
      /\ Less(s).ran = s.ran - 1
    BY <1>1, AtType DEF Less
<1>3. /\ HandsOver(Less(s), b) <=> HandsOver(s, b)
      /\ RunsLine(Less(s), b) <=> RunsLine(s, b)
      /\ Skips(Less(s), b) = Skips(s, b)
    BY <1>2 DEF HandsOver, RunsLine, Skips
<1>4. \A rd, cs, txt, n : Less(At(rd, cs, txt, n)) = At(rd, cs, txt, n - 1)
    BY DEF Less, At
<1>5. AddsToSequence(Less(s), b) = Less(AddsToSequence(s, b))
    BY <1>2, <1>4 DEF AddsToSequence
<1>6. /\ \A rd, cs, txt : Less(At(rd, cs, txt, s.ran)) = At(rd, cs, txt, Less(s).ran)
      /\ Less(At("data", s.cs, <<>>, s.ran + 1)) = At("data", s.cs, <<>>, Less(s).ran + 1)
    <2>1. PICK n : n = s.ran + 1
        OBVIOUS
    <2>2. n - 1 = Less(s).ran + 1
        BY <1>1, <1>2, <2>1
    <2>3. Less(At("data", s.cs, <<>>, n)) = At("data", s.cs, <<>>, n - 1)
        BY <1>4
    <2>4. \A rd, cs, txt : Less(At(rd, cs, txt, s.ran)) = At(rd, cs, txt, s.ran - 1)
        BY <1>4
    <2> QED
        BY <1>2, <2>1, <2>2, <2>3, <2>4
<1>7. Fed(Less(s), b) = Less(Fed(s, b))
    <2> HIDE DEF ESC
    <2>1. CASE b \in Stops
        BY <1>2, <1>6, <2>1 DEF Fed
    <2>2. CASE b \notin Stops /\ s.cs # <<>>
        BY <1>2, <1>5, <2>2 DEF Fed
    <2>3. CASE b \notin Stops /\ s.cs = <<>> /\ RunsLine(s, b) /\ b # ESC /\ b \notin Backspaces
        BY <1>2, <1>3, <1>6, <2>3 DEF Fed
    <2>4. CASE b \notin Stops /\ s.cs = <<>> /\ (~RunsLine(s, b) \/ b = ESC \/ b \in Backspaces)
        BY <1>2, <1>3, <1>6, <2>4 DEF Fed
    <2> QED
        BY <2>1, <2>2, <2>3, <2>4
<1>8. Seen(Less(s), b) = Less(Seen(s, b))
    BY <1>2, <1>3, <1>4, <1>7 DEF Seen
<1> QED
    BY <1>2, <1>3, <1>8

LEMMA RightLess ==
    ASSUME NEW s \in EditorStates, s.ran >= 1, NEW b \in Bytes,
           NEW lines \in Seq(Seq(Bytes)), Right(s, b, lines)
    PROVE  Right(Less(s), b, Tail(lines))
<1>1. s.ran \in Nat /\ Less(s).txt = s.txt /\ Less(s).ran = s.ran - 1
    BY DEF EditorStates, Less, At
<1>2. SUFFICES ASSUME RunsLine(Less(s), b)
               PROVE  Less(s).ran < Len(Tail(lines)) /\ Tail(lines)[Less(s).ran + 1] = Less(s).txt
    BY DEF Right
<1>3. s.ran < Len(lines) /\ lines[s.ran + 1] = s.txt
    BY <1>2, SeenLess DEF Right
<1>4. PICK r : r = s.ran
    OBVIOUS
<1>5. r \in Nat /\ r >= 1 /\ r < Len(lines) /\ lines # <<>>
    BY <1>1, <1>3, <1>4
<1>6. Len(Tail(lines)) = Len(lines) - 1 /\ Tail(lines)[r] = lines[r + 1]
    BY <1>5
<1>7. r - 1 < Len(Tail(lines)) /\ r - 1 + 1 = r
    BY <1>5, <1>6
<1> QED
    BY <1>1, <1>3, <1>4, <1>6, <1>7

LEMMA LeadsShorter ==
    ASSUME NEW s \in EditorStates, s.ran >= 1, NEW w \in Seq(Bytes), NEW t,
           NEW lines \in Seq(Seq(Bytes)), Leads(s, w, lines, t)
    PROVE  Leads(Less(s), w, Tail(lines), Less(t)) /\ t \in EditorStates /\ t.ran >= 1
<1>1. PICK tr : Follows(tr, w, lines) /\ tr[0] = s /\ tr[Len(w)] = t
    BY DEF Leads
<1>2. PICK n \in Nat : n = Len(w)
    OBVIOUS
<1>3. /\ tr \in [0..n -> EditorStates]
      /\ \A k \in 1..n : /\ tr[k] = Seen(tr[k - 1], w[k])
                         /\ HandsOver(tr[k - 1], w[k]) => Right(tr[k - 1], w[k], lines)
      /\ \A j \in 0..n : \A k \in j..n : tr[j].ran <= tr[k].ran
    BY <1>1, <1>2 DEF Follows
<1>4. ASSUME NEW k \in 0..n
      PROVE  tr[k] \in EditorStates /\ tr[k].ran \in Nat /\ tr[k].ran >= 1
    <2>1. tr[k] \in EditorStates /\ s.ran <= tr[k].ran
        BY <1>1, <1>3
    <2> QED
        BY <2>1 DEF EditorStates
<1>5. PICK u : u = [k \in 0..n |-> Less(tr[k])]
    OBVIOUS
<1>6. \A k \in 0..n : u[k] = Less(tr[k])
    BY <1>5
<1>7. \A k \in 0..n : Less(tr[k]) \in EditorStates /\ Less(tr[k]).ran = tr[k].ran - 1
    <2>1. 0 \in Bytes
        OBVIOUS
    <2> QED
        BY <1>4, <2>1, SeenLess
<1>8. u \in [0..n -> EditorStates]
    BY <1>5, <1>7
<1>9. ASSUME NEW k \in 1..n
      PROVE  /\ u[k] = Seen(u[k - 1], w[k])
             /\ HandsOver(u[k - 1], w[k]) => Right(u[k - 1], w[k], Tail(lines))
    <2>1. k - 1 \in 0..n /\ k \in 0..n
        OBVIOUS
    <2>2. w[k] \in Bytes
        BY <1>2, ElementOfSeq
    <2>3. tr[k] = Seen(tr[k - 1], w[k])
        BY <1>3
    <2>4. Seen(Less(tr[k - 1]), w[k]) = Less(Seen(tr[k - 1], w[k]))
        BY <1>4, <2>1, <2>2, SeenLess
    <2>5. HandsOver(u[k - 1], w[k]) <=> HandsOver(tr[k - 1], w[k])
        <3>1. u[k - 1] = Less(tr[k - 1])
            BY <1>6, <2>1
        <3>2. HandsOver(Less(tr[k - 1]), w[k]) <=> HandsOver(tr[k - 1], w[k])
            BY <1>4, <2>1, <2>2, SeenLess
        <3> QED
            BY <3>1, <3>2
    <2>6. HandsOver(tr[k - 1], w[k]) => Right(Less(tr[k - 1]), w[k], Tail(lines))
        BY <1>3, <1>4, <2>1, <2>2, RightLess
    <2> QED
        BY <1>6, <2>1, <2>3, <2>4, <2>5, <2>6
<1>10. ASSUME NEW j \in 0..n, NEW k \in j..n
       PROVE  u[j].ran <= u[k].ran
    <2>1. tr[j].ran <= tr[k].ran /\ k \in 0..n
        BY <1>3
    <2>2. u[j].ran = tr[j].ran - 1 /\ u[k].ran = tr[k].ran - 1
        BY <1>6, <1>7, <2>1
    <2> QED
        BY <1>4, <2>1, <2>2
<1>11. Follows(u, w, Tail(lines))
    BY <1>2, <1>8, <1>9, <1>10 DEF Follows
<1>12. u[0] = Less(s) /\ u[Len(w)] = Less(t) /\ t \in EditorStates /\ t.ran >= 1
    BY <1>1, <1>2, <1>4, <1>6
<1> QED
    BY <1>11, <1>12 DEF Leads

-----------------------------------------------------------------------------
\* One more byte, from a state that is known if the session is not over.
LEMMA ReachesOn ==
    ASSUME NEW s, NEW w \in Seq(Bytes), NEW lines, NEW t \in EditorStates,
           Reaches(s, w, lines, t), NEW b \in Bytes, HandsOver(t, b) => Right(t, b, lines)
    PROVE  Reaches(s, Append(w, b), lines, Seen(t, b)) /\ Seen(t, b) \in EditorStates
<1>1. PICK u \in EditorStates : Leads(s, w, lines, u) /\ (u.rd = "over" \/ u = t)
    BY DEF Reaches
<1>2. CASE u = t
    BY <1>1, <1>2, LeadsOn, SeenType DEF Reaches
<1>3. CASE u.rd = "over"
    <2>1. ~HandsOver(u, b) /\ Skips(u, b) = "over"
        BY <1>3 DEF HandsOver, Skips
    <2>2. Leads(s, Append(w, b), lines, Seen(u, b)) /\ Seen(u, b) \in EditorStates
        BY <1>1, <2>1, LeadsOn
    <2>3. Seen(u, b).rd = "over"
        BY <2>1 DEF Seen, At
    <2> QED
        BY <2>2, <2>3, SeenType DEF Reaches
<1> QED
    BY <1>1, <1>2, <1>3

LEMMA ReachesOver ==
    ASSUME NEW s, NEW w, NEW lines, NEW t, Reaches(s, w, lines, t), t.rd = "over"
    PROVE  \A t2 : Reaches(s, w, lines, t2)
BY DEF Reaches

-----------------------------------------------------------------------------
(***************************************************************************)
(* The editor now, or once it has taken the byte handed over, and what the *)
(* user means it to be when it has taken all there is.                     *)
(***************************************************************************)
\* Between two keys.
Typing(txt, n) == At("data", <<>>, txt, n)

Editing == At(reader, controlSequence, Line, 0)
Upcoming == IF handed = <<>> THEN Editing ELSE Fed(Editing, handed[1])
Meant == Typing(line, Len(entered))

(***************************************************************************)
(* The inductive invariant for the lines: the bytes under way take the     *)
(* editor to what the user means, and each line they run is the one he     *)
(* entered, unless they end the session on the way.                        *)
(***************************************************************************)
KeysInv ==
    /\ asEntered
    /\ telnet # "reading" => handed = <<>>
    /\ handed # <<>> => reader = "data" /\ Right(Editing, handed[1], entered)
    /\ telnet = "reading" => Reaches(Upcoming, wire, entered, Meant)

\* The editor between two keys, and within a control sequence.
LEMMA WithinKey ==
    ASSUME NEW cs \in Seq(Bytes), NEW txt \in Seq(Bytes), NEW n \in Nat
    PROVE  /\ At("data", cs, txt, n) \in EditorStates
           /\ At("data", cs, txt, n).rd = "data" /\ At("data", cs, txt, n).cs = cs
           /\ At("data", cs, txt, n).txt = txt /\ At("data", cs, txt, n).ran = n
<1>1. PICK rd \in Readers : rd = "data"
    BY DEF Readers
<1>2. /\ At(rd, cs, txt, n) \in EditorStates
      /\ At(rd, cs, txt, n).rd = rd /\ At(rd, cs, txt, n).cs = cs
      /\ At(rd, cs, txt, n).txt = txt /\ At(rd, cs, txt, n).ran = n
    BY AtType
<1> QED
    BY <1>1, <1>2

LEMMA BetweenKeys ==
    ASSUME NEW txt \in Seq(Bytes), NEW n \in Nat
    PROVE  /\ Typing(txt, n) \in EditorStates
           /\ Typing(txt, n).rd = "data" /\ Typing(txt, n).cs = <<>>
           /\ Typing(txt, n).txt = txt /\ Typing(txt, n).ran = n
<1>1. PICK cs : cs = <<>>
    OBVIOUS
<1>2. cs \in Seq(Bytes)
    BY <1>1
<1>3. /\ At("data", cs, txt, n) \in EditorStates
      /\ At("data", cs, txt, n).rd = "data" /\ At("data", cs, txt, n).cs = cs
      /\ At("data", cs, txt, n).txt = txt /\ At("data", cs, txt, n).ran = n
    BY <1>2, WithinKey
<1> QED
    BY <1>1, <1>3 DEF Typing

LEMMA KeyTypes ==
    ASSUME IInv
    PROVE  /\ wire \in Seq(Bytes) /\ entered \in Seq(Seq(Bytes)) /\ line \in Seq(Bytes)
           /\ Editing \in EditorStates /\ Upcoming \in EditorStates /\ Meant \in EditorStates
           /\ handed # <<>> => handed[1] \in Bytes /\ handed = <<handed[1]>>
           /\ Letters \cup Secrets \subseteq 32..255 \ {127}
<1>1. Letters \cup Secrets \subseteq Bytes /\ Letters \cup Secrets \subseteq 32..255 \ {127}
    BY BytesAssumption
<1>2. /\ wire \in Seq(Bytes) /\ line \in Seq(Letters \cup Secrets)
      /\ entered \in Seq(Seq(Letters \cup Secrets))
      /\ handed \in Seq(Bytes) /\ Len(handed) <= 1
      /\ reader \in Readers /\ controlSequence \in Seq(Bytes)
    BY DEF IInv, TypeOK, Readers
<1>3. line \in Seq(Bytes) /\ Seq(Letters \cup Secrets) \subseteq Seq(Bytes)
    <2>1. PICK L : L = Letters \cup Secrets
        OBVIOUS
    <2>2. PICK B : B = Bytes
        OBVIOUS
    <2>3. L \subseteq B
        BY <1>1, <2>1, <2>2
    <2>4. \A text \in Seq(L) : text \in Seq(B)
        BY <2>3, SeqMonotonic
    <2> QED
        BY <1>2, <2>1, <2>2, <2>4
<1>4. entered \in Seq(Seq(Bytes))
    <2>1. PICK L : L = Seq(Letters \cup Secrets)
        OBVIOUS
    <2>2. PICK B : B = Seq(Bytes)
        OBVIOUS
    <2>3. entered \in Seq(L) /\ L \subseteq B
        BY <1>2, <1>3, <2>1, <2>2
    <2>4. entered \in Seq(B)
        BY <2>3, SeqMonotonic
    <2> QED
        BY <2>2, <2>4
<1>5. handed # <<>> => handed[1] \in Bytes /\ handed = <<handed[1]>>
    <2> SUFFICES ASSUME handed # <<>>
                 PROVE  handed[1] \in Bytes /\ handed = <<handed[1]>>
        OBVIOUS
    <2>1. PICK h \in Seq(Bytes) : h = handed
        BY <1>2
    <2>2. h # <<>> => Len(h) \in Nat \ {0}
        BY EmptySeq
    <2>3. Len(h) = 1 /\ 1 \in 1..Len(h)
        <3>1. h # <<>> /\ Len(h) <= 1
            BY <1>2, <2>1
        <3>2. PICK n \in Nat \ {0} : n = Len(h)
            BY <2>2, <3>1
        <3> QED
            BY <3>1, <3>2
    <2>4. PICK x : x = h[1]
        OBVIOUS
    <2>5. x \in Bytes
        BY <2>3, <2>4, ElementOfSeq
    <2>6. PICK y : y = <<x>>
        OBVIOUS
    <2>7. y \in Seq(Bytes) /\ Len(y) = 1 /\ y[1] = x
        BY <2>5, <2>6
    <2>8. h = y
        BY <2>3, <2>4, <2>7, SeqEqual
    <2> QED
        BY <2>1, <2>4, <2>5, <2>6, <2>8
<1>6. Line \in Seq(Bytes)
    BY LineBytes DEF IInv
<1>7. Editing \in EditorStates
    BY <1>2, <1>6, AtType DEF Editing
<1>8. Meant \in EditorStates
    <2>1. <<>> \in Seq(Bytes) /\ Len(entered) \in Nat /\ "data" \in Readers
        BY <1>4 DEF Readers
    <2> QED
        BY <1>3, <2>1, BetweenKeys DEF Meant
<1>9. Upcoming \in EditorStates
    BY <1>5, <1>7, FedType DEF Upcoming
<1> QED
    BY <1>1, <1>2, <1>3, <1>4, <1>5, <1>7, <1>8, <1>9

-----------------------------------------------------------------------------
\* The bytes of a key, one after another.
LEMMA ReachesMore ==
    ASSUME NEW s, NEW w \in Seq(Bytes), NEW lines, NEW u \in Seq(Bytes), NEW b \in Bytes,
           NEW t \in EditorStates, Reaches(s, w \o u, lines, t),
           HandsOver(t, b) => Right(t, b, lines)
    PROVE  Reaches(s, w \o Append(u, b), lines, Seen(t, b)) /\ Seen(t, b) \in EditorStates
<1>1. PICK w1 : w1 = w \o u
    OBVIOUS
<1>2. w1 \in Seq(Bytes) /\ w \o Append(u, b) = Append(w1, b)
    BY <1>1
<1>3. Reaches(s, w1, lines, t)
    BY <1>1
<1>4. Reaches(s, Append(w1, b), lines, Seen(t, b)) /\ Seen(t, b) \in EditorStates
    BY <1>2, <1>3, ReachesOn
<1> QED
    BY <1>2, <1>4

LEMMA NothingRuns ==
    ASSUME NEW t, NEW b, NEW lines, b \notin Returns \/ t.cs # <<>> \/ t.txt = <<>>
    PROVE  Right(t, b, lines)
BY DEF Right, RunsLine, Blank

\* A byte that is handed over.
LEMMA OneByte ==
    ASSUME NEW s, NEW w \in Seq(Bytes), NEW lines, NEW u \in Seq(Bytes),
           NEW t \in EditorStates, t.rd = "data", Reaches(s, w \o u, lines, t),
           NEW b \in Bytes \ {IAC}, Right(t, b, lines)
    PROVE  Reaches(s, w \o Append(u, b), lines, Fed(t, b)) /\ Fed(t, b) \in EditorStates
<1>1. Seen(t, b) = Fed(t, b)
    BY DEF Seen, HandsOver
<1>2. b \in Bytes
    OBVIOUS
<1>3. Reaches(s, w \o Append(u, b), lines, Seen(t, b)) /\ Seen(t, b) \in EditorStates
    BY <1>2, ReachesMore
<1> QED
    BY <1>1, <1>3

-----------------------------------------------------------------------------
\* Short tuples, byte by byte.
LEMMA PairBytes ==
    ASSUME NEW S, NEW a \in S, NEW b \in S
    PROVE  Append(<<a>>, b) = <<a, b>> /\ <<a, b>> \in Seq(S) /\ Len(<<a, b>>) = 2
<1>1. PICK x, y : x = <<a>> /\ y = <<a, b>>
    OBVIOUS
<1>2. x \in Seq(S) /\ Len(x) = 1 /\ x[1] = a
    BY <1>1
<1>3. y \in Seq(S) /\ Len(y) = 2 /\ y[1] = a /\ y[2] = b
    BY <1>1
<1>4. PICK z : z = Append(x, b)
    OBVIOUS
<1>5. z \in Seq(S) /\ Len(z) = 2 /\ z[1] = a /\ z[2] = b
    <2>1. /\ z \in Seq(S) /\ Len(z) = Len(x) + 1 /\ z[Len(x) + 1] = b
          /\ \A i \in 1..Len(x) : z[i] = x[i]
        <3>1. x \in Seq(S)
            BY <1>2
        <3>2. /\ Append(x, b) \in Seq(S) /\ Len(Append(x, b)) = Len(x) + 1
              /\ Append(x, b)[Len(x) + 1] = b
              /\ \A i \in 1..Len(x) : Append(x, b)[i] = x[i]
            BY <3>1, AppendProperties
        <3> QED
            BY <1>4, <3>2
    <2>2. Len(x) + 1 = 2 /\ 1 \in 1..Len(x)
        BY <1>2
    <2> QED
        BY <1>2, <2>1, <2>2
<1>6. \A i \in 1..2 : z[i] = y[i]
    BY <1>3, <1>5
<1>7. z = y
    BY <1>3, <1>5, <1>6, SeqEqual
<1> QED
    BY <1>1, <1>3, <1>4, <1>7

LEMMA TripleBytes ==
    ASSUME NEW S, NEW a \in S, NEW b \in S, NEW c \in S
    PROVE  /\ Append(<<a, b>>, c) = <<a, b, c>> /\ <<a, b, c>> \in Seq(S)
           /\ Len(<<a, b, c>>) = 3 /\ <<a, b, c>>[3] = c
<1>1. PICK x, y : x = <<a, b>> /\ y = <<a, b, c>>
    OBVIOUS
<1>2. x \in Seq(S) /\ Len(x) = 2 /\ x[1] = a /\ x[2] = b
    BY <1>1
<1>3. y \in Seq(S) /\ Len(y) = 3 /\ y[1] = a /\ y[2] = b /\ y[3] = c
    BY <1>1
<1>4. PICK z : z = Append(x, c)
    OBVIOUS
<1>5. z \in Seq(S) /\ Len(z) = 3 /\ z[1] = a /\ z[2] = b /\ z[3] = c
    <2>1. /\ z \in Seq(S) /\ Len(z) = Len(x) + 1 /\ z[Len(x) + 1] = c
          /\ \A i \in 1..Len(x) : z[i] = x[i]
        <3>1. x \in Seq(S)
            BY <1>2
        <3>2. /\ Append(x, c) \in Seq(S) /\ Len(Append(x, c)) = Len(x) + 1
              /\ Append(x, c)[Len(x) + 1] = c
              /\ \A i \in 1..Len(x) : Append(x, c)[i] = x[i]
            BY <3>1, AppendProperties
        <3> QED
            BY <1>4, <3>2
    <2>2. Len(x) + 1 = 3 /\ 1 \in 1..Len(x) /\ 2 \in 1..Len(x)
        BY <1>2
    <2> QED
        BY <1>2, <2>1, <2>2
<1>6. \A i \in 1..3 : z[i] = y[i]
    BY <1>3, <1>5
<1>7. z = y
    BY <1>3, <1>5, <1>6, SeqEqual
<1> QED
    BY <1>1, <1>3, <1>4, <1>7

\* The next byte of a key.
LEMMA NextByte ==
    ASSUME NEW s, NEW w \in Seq(Bytes), NEW lines, NEW u \in Seq(Bytes), NEW k \in Nat,
           k < Len(u), NEW t \in EditorStates, Reaches(s, w \o SubSeq(u, 1, k), lines, t),
           HandsOver(t, u[k + 1]) => Right(t, u[k + 1], lines)
    PROVE  /\ Reaches(s, w \o SubSeq(u, 1, k + 1), lines, Seen(t, u[k + 1]))
           /\ Seen(t, u[k + 1]) \in EditorStates
<1>1. PICK b, p, q : b = u[k + 1] /\ p = SubSeq(u, 1, k) /\ q = SubSeq(u, 1, k + 1)
    OBVIOUS
<1>2. k \in 0..Len(u) /\ k + 1 \in 0..Len(u) /\ k + 1 \in 1..Len(u)
    OBVIOUS
<1>3. b \in Bytes
    BY <1>1, <1>2, ElementOfSeq
<1>4. p \in Seq(Bytes) /\ Len(p) = k /\ \A i \in 1..k : p[i] = u[i]
    BY <1>1, <1>2, BeginningBytes
<1>5. q \in Seq(Bytes) /\ Len(q) = k + 1 /\ \A i \in 1..k + 1 : q[i] = u[i]
    BY <1>1, <1>2, BeginningBytes
<1>6. PICK r : r = Append(p, b)
    OBVIOUS
<1>7. r \in Seq(Bytes) /\ Len(r) = k + 1 /\ r[k + 1] = b /\ \A i \in 1..k : r[i] = p[i]
    BY <1>3, <1>4, <1>6, AppendProperties
<1>8. \A i \in 1..k + 1 : q[i] = r[i]
    <2>1. \A i \in 1..k + 1 : i \in 1..k \/ i = k + 1
        OBVIOUS
    <2> QED
        BY <1>1, <1>4, <1>5, <1>7, <2>1
<1>9. q = r
    BY <1>5, <1>7, <1>8, SeqEqual
<1>10. Reaches(s, w \o Append(p, b), lines, Seen(t, b)) /\ Seen(t, b) \in EditorStates
    BY <1>1, <1>3, <1>4, ReachesMore
<1> QED
    BY <1>1, <1>6, <1>9, <1>10

LEMMA FirstByte ==
    ASSUME NEW w \in Seq(Bytes), NEW u
    PROVE  w \o SubSeq(u, 1, 0) = w
BY SubSeqEmpty, ConcatEmptySeq

LEMMA LastByte ==
    ASSUME NEW u \in Seq(Bytes)
    PROVE  SubSeq(u, 1, Len(u)) = u
BY SubSeqFull

-----------------------------------------------------------------------------
\* What each byte of a key does to the editor.
LEMMA FedTyping ==
    ASSUME NEW txt \in Seq(Bytes), NEW n \in Nat, NEW b \in Bytes
    PROVE  /\ b \in 32..255 \ {127} => Fed(Typing(txt, n), b) = Typing(Append(txt, b), n)
           /\ b \in {8, 127} => Fed(Typing(txt, n), b) = Typing(Deletes(txt), n)
           /\ b = ESC => Fed(Typing(txt, n), b) = At("data", <<ESC>>, txt, n)
           /\ b \in {10, 13} /\ ~Blank(txt) => Fed(Typing(txt, n), b) = Typing(<<>>, n + 1)
           /\ b \in {0, 9} \/ (b \in {10, 13} /\ Blank(txt)) =>
                    Fed(Typing(txt, n), b) = Typing(txt, n)
           /\ b = 4 => Fed(Typing(txt, n), b).rd = "over"
<1>1. PICK t : t = Typing(txt, n)
    OBVIOUS
<1>2. t.cs = <<>> /\ t.txt = txt /\ t.ran = n
    BY <1>1, BetweenKeys
<1>3. RunsLine(t, b) <=> b \in {10, 13} /\ ~Blank(txt)
    BY <1>2 DEF RunsLine, Returns
<1>4. b \in 32..255 \ {127} => Fed(t, b) = Typing(Append(txt, b), n)
    BY <1>2, <1>3 DEF Fed, Stops, Backspaces, Typing
<1>5. b \in {8, 127} => Fed(t, b) = Typing(Deletes(txt), n)
    BY <1>2, <1>3 DEF Fed, Stops, Backspaces, Typing
<1>6. b = ESC => Fed(t, b) = At("data", <<ESC>>, txt, n)
    BY <1>2, <1>3 DEF Fed, Stops, Backspaces
<1>7. b \in {10, 13} /\ ~Blank(txt) => Fed(t, b) = Typing(<<>>, n + 1)
    BY <1>2, <1>3 DEF Fed, Stops, Backspaces, Typing
<1>8. b \in {0, 9} \/ (b \in {10, 13} /\ Blank(txt)) => Fed(t, b) = Typing(txt, n)
    BY <1>2, <1>3 DEF Fed, Stops, Backspaces, Typing
<1>9. b = 4 => Fed(t, b).rd = "over"
    BY <1>2, <1>3 DEF Fed, Stops, At
<1> QED
    BY <1>1, <1>4, <1>5, <1>6, <1>7, <1>8, <1>9

LEMMA FedSequence ==
    ASSUME NEW txt \in Seq(Bytes), NEW n \in Nat
    PROVE  /\ Fed(At("data", <<ESC>>, txt, n), 91) = At("data", <<ESC, 91>>, txt, n)
           /\ Fed(At("data", <<ESC, 91>>, txt, n), 68) = Typing(Deletes(txt), n)
           /\ Fed(At("data", <<ESC, 91>>, txt, n), 65) = Typing(txt, n)
<1>1. /\ <<ESC>> \in Seq(Bytes) /\ <<ESC, 91>> \in Seq(Bytes)
      /\ <<ESC>> # <<>> /\ <<ESC, 91>> # <<>>
      /\ Append(<<ESC>>, 91) = <<ESC, 91>>
      /\ Append(<<ESC, 91>>, 65) = <<ESC, 91, 65>> /\ Append(<<ESC, 91>>, 68) = <<ESC, 91, 68>>
      /\ Len(<<ESC, 91>>) = 2 /\ Len(<<ESC, 91, 65>>) = 3 /\ Len(<<ESC, 91, 68>>) = 3
      /\ <<ESC, 91>> # <<ESC, 91, 68>> /\ <<ESC, 91, 65>> # <<ESC, 91, 68>>
    <2>1. <<ESC>> \in Seq(Bytes) /\ <<ESC, 91>> \in Seq(Bytes)
        OBVIOUS
    <2>2. <<ESC>> # <<>> /\ <<ESC, 91>> # <<>>
        OBVIOUS
    <2>3. Append(<<ESC>>, 91) = <<ESC, 91>>
        <3>1. ESC \in Bytes /\ 91 \in Bytes
            OBVIOUS
        <3> QED
            BY <3>1, PairBytes
    <2>4. Append(<<ESC, 91>>, 65) = <<ESC, 91, 65>> /\ Append(<<ESC, 91>>, 68) = <<ESC, 91, 68>>
        <3>1. ESC \in Bytes /\ 91 \in Bytes /\ 65 \in Bytes /\ 68 \in Bytes
            OBVIOUS
        <3>2. PICK B : B = Bytes
            OBVIOUS
        <3>3. ESC \in B /\ 91 \in B /\ 65 \in B /\ 68 \in B
            BY <3>1, <3>2
        <3>4. Append(<<ESC, 91>>, 65) = <<ESC, 91, 65>>
            BY <3>3, TripleBytes
        <3>5. Append(<<ESC, 91>>, 68) = <<ESC, 91, 68>>
            BY <3>3, TripleBytes
        <3> QED
            BY <3>4, <3>5
    <2>5. Len(<<ESC, 91>>) = 2 /\ Len(<<ESC, 91, 65>>) = 3 /\ Len(<<ESC, 91, 68>>) = 3
        OBVIOUS
    <2>6. <<ESC, 91, 65>>[3] = 65 /\ <<ESC, 91, 68>>[3] = 68
        OBVIOUS
    <2>7. <<ESC, 91>> # <<ESC, 91, 68>> /\ <<ESC, 91, 65>> # <<ESC, 91, 68>>
        BY <2>5, <2>6
    <2> QED
        BY <2>1, <2>2, <2>3, <2>4, <2>5, <2>7
<1>2. 91 \notin Stops /\ 68 \notin Stops /\ 65 \notin Stops
    BY DEF Stops
<1>3. PICK one, two : one = <<ESC>> /\ two = <<ESC, 91>>
    OBVIOUS
<1>4. /\ one \in Seq(Bytes) /\ two \in Seq(Bytes) /\ one # <<>> /\ two # <<>>
      /\ Append(one, 91) = two /\ Len(two) = 2 /\ two # <<ESC, 91, 68>>
      /\ Append(two, 65) = <<ESC, 91, 65>> /\ Append(two, 68) = <<ESC, 91, 68>>
    BY <1>1, <1>3
<1>5. PICK t, u : t = At("data", one, txt, n) /\ u = At("data", two, txt, n)
    OBVIOUS
<1>6. t.cs = one /\ t.txt = txt /\ t.ran = n
    BY <1>4, <1>5, WithinKey
<1>7. u.cs = two /\ u.txt = txt /\ u.ran = n
    BY <1>4, <1>5, WithinKey
<1> HIDE DEF ESC
<1>8. Fed(t, 91) = u
    <2>1. AddsToSequence(t, 91) = At("data", two, txt, n)
        <3>1. two # <<ESC, 91, 68>> /\ Len(two) # 3 /\ Append(one, 91) = two
            BY <1>4
        <3>2. Append(t.cs, IF 91 = 127 THEN 8 ELSE 91) = two
            BY <1>6, <3>1
        <3>3. AddsToSequence(t, 91) =
                At("data", IF Len(two) = 3 THEN <<>> ELSE two,
                   IF two = <<ESC, 91, 68>> THEN Deletes(t.txt) ELSE t.txt, t.ran)
            BY <3>2 DEF AddsToSequence
        <3> QED
            BY <1>6, <3>1, <3>3
    <2> QED
        BY <1>2, <1>4, <1>5, <1>6, <2>1 DEF Fed
<1>9. Fed(u, 68) = Typing(Deletes(txt), n)
    <2>1. AddsToSequence(u, 68) = Typing(Deletes(txt), n)
        BY <1>1, <1>4, <1>7 DEF AddsToSequence, Typing
    <2> QED
        BY <1>2, <1>4, <1>7, <2>1 DEF Fed
<1>10. Fed(u, 65) = Typing(txt, n)
    <2>1. AddsToSequence(u, 65) = Typing(txt, n)
        BY <1>1, <1>4, <1>7 DEF AddsToSequence, Typing
    <2> QED
        BY <1>2, <1>4, <1>7, <2>1 DEF Fed
<1> QED
    BY <1>3, <1>5, <1>8, <1>9, <1>10

-----------------------------------------------------------------------------
\* Keys of bytes that are all handed over.
LEMMA KeyOfOne ==
    ASSUME NEW s, NEW w \in Seq(Bytes), NEW lines, NEW t \in EditorStates, t.rd = "data",
           Reaches(s, w, lines, t), NEW a \in Bytes \ {IAC}, Right(t, a, lines)
    PROVE  Reaches(s, w \o <<a>>, lines, Fed(t, a)) /\ Fed(t, a) \in EditorStates
<1>1. PICK u : u = <<a>>
    OBVIOUS
<1>2. u \in Seq(Bytes) /\ Len(u) = 1 /\ u[1] = a
    BY <1>1
<1>3. Seen(t, a) = Fed(t, a)
    BY DEF Seen, HandsOver
<1>4. Reaches(s, w \o SubSeq(u, 1, 0), lines, t)
    BY FirstByte
<1>5. PICK k \in Nat : k = 0
    OBVIOUS
<1>6. k < Len(u) /\ u[k + 1] = a /\ SubSeq(u, 1, k + 1) = u
    BY <1>2, <1>5, LastByte
<1>7. /\ Reaches(s, w \o SubSeq(u, 1, k + 1), lines, Seen(t, u[k + 1]))
      /\ Seen(t, u[k + 1]) \in EditorStates
    BY <1>2, <1>4, <1>5, <1>6, NextByte
<1> QED
    BY <1>1, <1>3, <1>6, <1>7

LEMMA KeyOfTwo ==
    ASSUME NEW s, NEW w \in Seq(Bytes), NEW lines, NEW t \in EditorStates, t.rd = "data",
           Reaches(s, w, lines, t), NEW a \in Bytes \ {IAC}, Right(t, a, lines),
           NEW b \in Bytes \ {IAC}, Fed(t, a).rd = "data", Right(Fed(t, a), b, lines)
    PROVE  /\ Reaches(s, w \o <<a, b>>, lines, Fed(Fed(t, a), b))
           /\ Fed(Fed(t, a), b) \in EditorStates
<1>1. PICK v : v = <<a>>
    OBVIOUS
<1>2. v \in Seq(Bytes) /\ a \in Bytes /\ b \in Bytes
    BY <1>1
<1>3. Reaches(s, w \o v, lines, Fed(t, a)) /\ Fed(t, a) \in EditorStates
    BY <1>1, KeyOfOne
<1>4. Append(v, b) = <<a, b>>
    <2>1. PICK B : B = Bytes
        OBVIOUS
    <2>2. a \in B /\ b \in B
        BY <1>2, <2>1
    <2>3. Append(<<a>>, b) = <<a, b>>
        BY <2>2, PairBytes
    <2> QED
        BY <1>1, <2>3
<1>5. PICK f \in EditorStates : f = Fed(t, a)
    BY <1>3
<1>6. f.rd = "data" /\ Right(f, b, lines) /\ Reaches(s, w \o v, lines, f)
    BY <1>3, <1>5
<1>7. Reaches(s, w \o Append(v, b), lines, Fed(f, b)) /\ Fed(f, b) \in EditorStates
    BY <1>2, <1>6, OneByte
<1> QED
    BY <1>4, <1>5, <1>7

LEMMA KeyOfThree ==
    ASSUME NEW s, NEW w \in Seq(Bytes), NEW lines, NEW t \in EditorStates, t.rd = "data",
           Reaches(s, w, lines, t), NEW a \in Bytes \ {IAC}, Right(t, a, lines),
           NEW b \in Bytes \ {IAC}, Fed(t, a).rd = "data", Right(Fed(t, a), b, lines),
           NEW c \in Bytes \ {IAC}, Fed(Fed(t, a), b).rd = "data",
           Right(Fed(Fed(t, a), b), c, lines)
    PROVE  Reaches(s, w \o <<a, b, c>>, lines, Fed(Fed(Fed(t, a), b), c))
<1>1. PICK v : v = <<a, b>>
    OBVIOUS
<1>2. a \in Bytes /\ b \in Bytes /\ c \in Bytes
    OBVIOUS
<1>3. v \in Seq(Bytes)
    BY <1>1, <1>2, PairBytes
<1>4. PICK f : f = Fed(Fed(t, a), b)
    OBVIOUS
<1>5. Reaches(s, w \o v, lines, f) /\ f \in EditorStates
    BY <1>1, <1>4, KeyOfTwo
<1>6. Append(v, c) = <<a, b, c>>
    <2>1. PICK B : B = Bytes
        OBVIOUS
    <2>2. a \in B /\ b \in B /\ c \in B
        BY <1>2, <2>1
    <2>3. Append(<<a, b>>, c) = <<a, b, c>>
        BY <2>2, TripleBytes
    <2> QED
        BY <1>1, <2>3
<1>7. f.rd = "data" /\ Right(f, c, lines)
    BY <1>4
<1>8. Reaches(s, w \o Append(v, c), lines, Fed(f, c))
    BY <1>3, <1>5, <1>7, OneByte
<1> QED
    BY <1>4, <1>6, <1>8

\* Telnet commands.
Reading(rd, txt, n) == At(rd, <<>>, txt, n)

LEMMA SeenTelnet ==
    ASSUME NEW txt \in Seq(Bytes), NEW n \in Nat
    PROVE  /\ Typing(txt, n) = Reading("data", txt, n)
           /\ \A rd \in Readers : Reading(rd, txt, n) \in EditorStates
           /\ \A b \in Bytes : ~HandsOver(Reading("data", txt, n), b) <=> b = IAC
           /\ \A b \in Bytes : HandsOver(Reading("iac", txt, n), b) <=> b = IAC
           /\ \A rd \in {"option", "sub", "subIAC"} : \A b : ~HandsOver(Reading(rd, txt, n), b)
           /\ Seen(Reading("data", txt, n), IAC) = Reading("iac", txt, n)
           /\ Seen(Reading("iac", txt, n), IAC) = Typing(Append(txt, IAC), n)
           /\ Seen(Reading("iac", txt, n), 253) = Reading("option", txt, n)
           /\ Seen(Reading("option", txt, n), 3) = Reading("data", txt, n)
           /\ Seen(Reading("iac", txt, n), SB) = Reading("sub", txt, n)
           /\ \A b \in Bytes \ {IAC} : Seen(Reading("sub", txt, n), b) = Reading("sub", txt, n)
           /\ Seen(Reading("sub", txt, n), IAC) = Reading("subIAC", txt, n)
           /\ Seen(Reading("subIAC", txt, n), IAC) = Reading("sub", txt, n)
           /\ Seen(Reading("subIAC", txt, n), SE) = Reading("data", txt, n)
           /\ Seen(Reading("iac", txt, n), SE) = Reading("data", txt, n)
           /\ Seen(Reading("iac", txt, n), 241) = Reading("over", txt, n)
<1>1. PICK e \in Seq(Bytes) : e = <<>>
    BY EmptySeq
<1>2. ASSUME NEW rd \in Readers
      PROVE  /\ Reading(rd, txt, n) \in EditorStates /\ Reading(rd, txt, n).rd = rd
             /\ Reading(rd, txt, n).cs = <<>> /\ Reading(rd, txt, n).txt = txt
             /\ Reading(rd, txt, n).ran = n
    <2>1. /\ At(rd, e, txt, n) \in EditorStates
          /\ At(rd, e, txt, n).rd = rd /\ At(rd, e, txt, n).cs = e
          /\ At(rd, e, txt, n).txt = txt /\ At(rd, e, txt, n).ran = n
        BY AtType
    <2> QED
        BY <1>1, <2>1 DEF Reading
<1>3. /\ "data" \in Readers /\ "iac" \in Readers /\ "option" \in Readers
      /\ "sub" \in Readers /\ "subIAC" \in Readers
    BY DEF Readers
<1>4. ASSUME NEW rd \in Readers, NEW b, ~HandsOver(Reading(rd, txt, n), b)
      PROVE  Seen(Reading(rd, txt, n), b) = Reading(Skips(Reading(rd, txt, n), b), txt, n)
    BY <1>2, <1>4 DEF Seen, Reading
<1>5. /\ Skips(Reading("data", txt, n), IAC) = "iac"
      /\ Skips(Reading("iac", txt, n), 253) = "option"
      /\ Skips(Reading("iac", txt, n), SB) = "sub"
      /\ Skips(Reading("iac", txt, n), SE) = "data"
      /\ Skips(Reading("iac", txt, n), 241) = "over"
      /\ Skips(Reading("option", txt, n), 3) = "data"
      /\ \A b \in Bytes \ {IAC} : Skips(Reading("sub", txt, n), b) = "sub"
      /\ Skips(Reading("sub", txt, n), IAC) = "subIAC"
      /\ Skips(Reading("subIAC", txt, n), IAC) = "sub"
      /\ Skips(Reading("subIAC", txt, n), SE) = "data"
    BY <1>2, <1>3 DEF Skips, Negotiations, SB, SE
<1>6. /\ \A b \in Bytes : ~HandsOver(Reading("data", txt, n), b) <=> b = IAC
      /\ \A b \in Bytes : HandsOver(Reading("iac", txt, n), b) <=> b = IAC
      /\ \A rd \in {"option", "sub", "subIAC"} : \A b : ~HandsOver(Reading(rd, txt, n), b)
    BY <1>2, <1>3 DEF HandsOver
<1>7. 255 \in Bytes /\ 253 \in Bytes /\ SB \in Bytes /\ SE \in Bytes /\ 241 \in Bytes
      /\ SB # IAC /\ SE # IAC
    BY DEF SB, SE
<1>8. Seen(Reading("iac", txt, n), IAC) = Typing(Append(txt, IAC), n)
    <2>1. PICK t : t = Reading("iac", txt, n)
        OBVIOUS
    <2>2. t.cs = <<>> /\ t.txt = txt /\ t.ran = n
        BY <1>2, <1>3, <2>1
    <2>3. HandsOver(t, IAC)
        BY <1>6, <1>7, <2>1
    <2>4. Fed(t, IAC) = Typing(Append(txt, IAC), n)
        BY <2>2 DEF Fed, Stops, Backspaces, RunsLine, Returns, Typing
    <2> QED
        BY <2>1, <2>3, <2>4 DEF Seen
<1>9. /\ ~HandsOver(Reading("data", txt, n), IAC) /\ ~HandsOver(Reading("iac", txt, n), 253)
      /\ ~HandsOver(Reading("iac", txt, n), SB) /\ ~HandsOver(Reading("iac", txt, n), SE)
      /\ ~HandsOver(Reading("iac", txt, n), 241)
    <2>1. Reading("data", txt, n).rd = "data" /\ Reading("iac", txt, n).rd = "iac"
        BY <1>2, <1>3
    <2> QED
        BY <1>7, <2>1 DEF HandsOver
<1>10. /\ Seen(Reading("data", txt, n), IAC) = Reading("iac", txt, n)
       /\ Seen(Reading("iac", txt, n), 253) = Reading("option", txt, n)
       /\ Seen(Reading("iac", txt, n), SB) = Reading("sub", txt, n)
       /\ Seen(Reading("iac", txt, n), SE) = Reading("data", txt, n)
       /\ Seen(Reading("iac", txt, n), 241) = Reading("over", txt, n)
    <2>1. Seen(Reading("data", txt, n), IAC) = Reading("iac", txt, n)
        BY <1>3, <1>4, <1>5, <1>9
    <2>2. Seen(Reading("iac", txt, n), 253) = Reading("option", txt, n)
        BY <1>3, <1>4, <1>5, <1>9
    <2>3. Seen(Reading("iac", txt, n), SB) = Reading("sub", txt, n)
        BY <1>3, <1>4, <1>5, <1>9
    <2>4. Seen(Reading("iac", txt, n), SE) = Reading("data", txt, n)
        BY <1>3, <1>4, <1>5, <1>9
    <2>5. Seen(Reading("iac", txt, n), 241) = Reading("over", txt, n)
        BY <1>3, <1>4, <1>5, <1>9
    <2> QED
        BY <2>1, <2>2, <2>3, <2>4, <2>5
<1>11. /\ Seen(Reading("option", txt, n), 3) = Reading("data", txt, n)
       /\ \A b \in Bytes \ {IAC} : Seen(Reading("sub", txt, n), b) = Reading("sub", txt, n)
       /\ Seen(Reading("sub", txt, n), IAC) = Reading("subIAC", txt, n)
       /\ Seen(Reading("subIAC", txt, n), IAC) = Reading("sub", txt, n)
       /\ Seen(Reading("subIAC", txt, n), SE) = Reading("data", txt, n)
    <2>1. /\ \A b : ~HandsOver(Reading("option", txt, n), b)
          /\ \A b : ~HandsOver(Reading("sub", txt, n), b)
          /\ \A b : ~HandsOver(Reading("subIAC", txt, n), b)
        BY <1>2, <1>3 DEF HandsOver
    <2>2. Seen(Reading("option", txt, n), 3) = Reading("data", txt, n)
        BY <1>3, <1>4, <1>5, <2>1
    <2>3. \A b \in Bytes \ {IAC} : Seen(Reading("sub", txt, n), b) = Reading("sub", txt, n)
        BY <1>3, <1>4, <1>5, <2>1
    <2>4. Seen(Reading("sub", txt, n), IAC) = Reading("subIAC", txt, n)
        BY <1>3, <1>4, <1>5, <2>1
    <2>5. Seen(Reading("subIAC", txt, n), IAC) = Reading("sub", txt, n)
        BY <1>3, <1>4, <1>5, <2>1
    <2>6. Seen(Reading("subIAC", txt, n), SE) = Reading("data", txt, n)
        BY <1>3, <1>4, <1>5, <2>1
    <2> QED
        BY <2>2, <2>3, <2>4, <2>5, <2>6
<1>12. Typing(txt, n) = Reading("data", txt, n)
    BY DEF Typing, Reading
<1> QED
    BY <1>2, <1>6, <1>8, <1>9, <1>10, <1>11, <1>12

-----------------------------------------------------------------------------
\* Two bytes of a Telnet command.
Commands == {IAC, SE, 241, 253}

LEMMA CommandOfTwo ==
    ASSUME NEW s, NEW w \in Seq(Bytes), NEW lines, NEW txt \in Seq(Bytes), NEW n \in Nat,
           Reaches(s, w, lines, Typing(txt, n)), NEW b \in Commands
    PROVE  /\ Reaches(s, w \o <<IAC, b>>, lines, Seen(Reading("iac", txt, n), b))
           /\ Seen(Reading("iac", txt, n), b) \in EditorStates
           /\ <<IAC, b>> \in Seq(Bytes)
<1>1. PICK t, i : t = Reading("data", txt, n) /\ i = Reading("iac", txt, n)
    OBVIOUS
<1>2. /\ t \in EditorStates /\ i \in EditorStates /\ t = Typing(txt, n)
      /\ ~HandsOver(t, IAC) /\ Seen(t, IAC) = i
    <2>1. "data" \in Readers /\ "iac" \in Readers
        BY DEF Readers
    <2>2. \A rd \in Readers : Reading(rd, txt, n) \in EditorStates
        BY SeenTelnet
    <2>3. /\ Typing(txt, n) = Reading("data", txt, n)
          /\ Seen(Reading("data", txt, n), IAC) = Reading("iac", txt, n)
        BY SeenTelnet
    <2>4. t.rd = "data"
        BY <1>1 DEF Reading, At
    <2>5. ~HandsOver(t, IAC)
        BY <2>4 DEF HandsOver
    <2> QED
        BY <1>1, <2>1, <2>2, <2>3, <2>5
<1>3. PICK x, e : x = IAC /\ e = <<>>
    OBVIOUS
<1>4. x \in Bytes /\ b \in Bytes /\ e \in Seq(Bytes) /\ w \o e = w /\ Append(e, x) = <<x>>
      /\ <<x>> \in Seq(Bytes)
    BY <1>3 DEF SE, Commands
<1>5. Reaches(s, w \o <<x>>, lines, i)
    <2>1. Reaches(s, w \o e, lines, t) /\ ~HandsOver(t, x)
        BY <1>2, <1>3, <1>4
    <2>2. Reaches(s, w \o Append(e, x), lines, Seen(t, x))
        BY <1>2, <1>4, <2>1, ReachesMore
    <2> QED
        BY <1>2, <1>3, <1>4, <2>2
<1>6. Right(i, b, lines)
    BY DEF Right, RunsLine, Returns, SE, Commands
<1>7. PICK y : y = <<x>>
    OBVIOUS
<1>8. Reaches(s, w \o Append(y, b), lines, Seen(i, b)) /\ Seen(i, b) \in EditorStates
    <2>1. y \in Seq(Bytes) /\ b \in Bytes /\ i \in EditorStates /\ Reaches(s, w \o y, lines, i)
        BY <1>2, <1>4, <1>5, <1>7
    <2> QED
        BY <1>6, <2>1, ReachesMore
<1>9. Append(y, b) = <<x, b>> /\ <<x, b>> \in Seq(Bytes)
    <2>1. PICK B : B = Bytes
        OBVIOUS
    <2>2. x \in B /\ b \in B
        BY <1>4, <2>1
    <2>3. Append(<<x>>, b) = <<x, b>> /\ <<x, b>> \in Seq(B)
        BY <2>2, PairBytes
    <2> QED
        BY <1>7, <2>1, <2>3
<1> QED
    BY <1>1, <1>3, <1>8, <1>9

LEMMA EscapedIAC ==
    ASSUME NEW s, NEW w \in Seq(Bytes), NEW lines, NEW txt \in Seq(Bytes), NEW n \in Nat,
           Reaches(s, w, lines, Typing(txt, n))
    PROVE  Reaches(s, w \o <<IAC, IAC>>, lines, Typing(Append(txt, IAC), n))
<1>1. IAC \in Commands
    BY DEF Commands
<1>2. Reaches(s, w \o <<IAC, IAC>>, lines, Seen(Reading("iac", txt, n), IAC))
    BY <1>1, CommandOfTwo
<1>3. Seen(Reading("iac", txt, n), IAC) = Typing(Append(txt, IAC), n)
    BY SeenTelnet
<1> QED
    BY <1>2, <1>3

LEMMA StraySE ==
    ASSUME NEW s, NEW w \in Seq(Bytes), NEW lines, NEW txt \in Seq(Bytes), NEW n \in Nat,
           Reaches(s, w, lines, Typing(txt, n))
    PROVE  Reaches(s, w \o <<IAC, SE>>, lines, Typing(txt, n))
<1>1. Reaches(s, w \o <<IAC, SE>>, lines, Seen(Reading("iac", txt, n), SE))
    <2>1. SE \in Commands
        BY DEF Commands
    <2> QED
        BY <2>1, CommandOfTwo
<1>2. /\ Seen(Reading("iac", txt, n), SE) = Reading("data", txt, n)
      /\ Typing(txt, n) = Reading("data", txt, n)
    BY SeenTelnet
<1> QED
    BY <1>1, <1>2

LEMMA OtherCommand ==
    ASSUME NEW s, NEW w \in Seq(Bytes), NEW lines, NEW txt \in Seq(Bytes), NEW n \in Nat,
           Reaches(s, w, lines, Typing(txt, n))
    PROVE  \A t : Reaches(s, w \o <<IAC, 241>>, lines, t)
<1>1. Reaches(s, w \o <<IAC, 241>>, lines, Reading("over", txt, n))
    <2>1. 241 \in Commands
        BY DEF Commands
    <2>2. Reaches(s, w \o <<IAC, 241>>, lines, Seen(Reading("iac", txt, n), 241))
        BY <2>1, CommandOfTwo
    <2>3. Seen(Reading("iac", txt, n), 241) = Reading("over", txt, n)
        BY SeenTelnet
    <2> QED
        BY <2>2, <2>3
<1>2. Reading("over", txt, n).rd = "over"
    BY DEF Reading, At
<1> QED
    BY <1>1, <1>2, ReachesOver

LEMMA Negotiation ==
    ASSUME NEW s, NEW w \in Seq(Bytes), NEW lines, NEW txt \in Seq(Bytes), NEW n \in Nat,
           Reaches(s, w, lines, Typing(txt, n))
    PROVE  Reaches(s, w \o <<IAC, 253, 3>>, lines, Typing(txt, n))
<1>1. PICK v, o : v = <<IAC, 253>> /\ o = Reading("option", txt, n)
    OBVIOUS
<1>2. Reaches(s, w \o v, lines, o) /\ v \in Seq(Bytes) /\ o \in EditorStates
    <2>1. 253 \in Commands
        BY DEF Commands
    <2>2. /\ Reaches(s, w \o <<IAC, 253>>, lines, Seen(Reading("iac", txt, n), 253))
          /\ Seen(Reading("iac", txt, n), 253) \in EditorStates
          /\ <<IAC, 253>> \in Seq(Bytes)
        BY <2>1, CommandOfTwo
    <2>3. Seen(Reading("iac", txt, n), 253) = Reading("option", txt, n)
        BY SeenTelnet
    <2> QED
        BY <1>1, <2>2, <2>3
<1>3. ~HandsOver(o, 3) /\ Seen(o, 3) = Typing(txt, n)
    <2>1. \A b : ~HandsOver(Reading("option", txt, n), b)
        BY SeenTelnet
    <2>2. Seen(Reading("option", txt, n), 3) = Reading("data", txt, n)
        BY SeenTelnet
    <2>3. Typing(txt, n) = Reading("data", txt, n)
        BY SeenTelnet
    <2> QED
        BY <1>1, <2>1, <2>2, <2>3
<1>4. PICK b \in Bytes : b = 3
    OBVIOUS
<1>5. Reaches(s, w \o Append(v, b), lines, Seen(o, b))
    BY <1>2, <1>3, <1>4, ReachesMore
<1>6. Append(v, b) = <<IAC, 253, 3>>
    <2>1. PICK B : B = Bytes
        OBVIOUS
    <2>2. IAC \in B /\ 253 \in B /\ 3 \in B
        BY <2>1
    <2>3. Append(<<IAC, 253>>, 3) = <<IAC, 253, 3>>
        BY <2>2, TripleBytes
    <2> QED
        BY <1>1, <1>4, <2>3
<1> QED
    BY <1>3, <1>4, <1>5, <1>6

\* One with a 255 in it.
SizeOfWindow == <<IAC, SB, 31, IAC, IAC, 80, IAC, SE>>

LEMMA Subnegotiation ==
    ASSUME NEW s, NEW w \in Seq(Bytes), NEW lines, NEW txt \in Seq(Bytes), NEW n \in Nat,
           Reaches(s, w, lines, Typing(txt, n))
    PROVE  Reaches(s, w \o SizeOfWindow, lines, Typing(txt, n))
<1>1. PICK u : u = SizeOfWindow
    OBVIOUS
<1>2. u \in Seq(Bytes) /\ Len(u) = 8
    BY <1>1 DEF SB, SE, SizeOfWindow
<1>3. /\ u[1] = IAC /\ u[2] = SB /\ u[3] = 31 /\ u[4] = IAC
      /\ u[5] = IAC /\ u[6] = 80 /\ u[7] = IAC /\ u[8] = SE
    BY <1>1 DEF SizeOfWindow
<1>4. PICK d, i, b, c : /\ d = Reading("data", txt, n) /\ i = Reading("iac", txt, n)
                        /\ b = Reading("sub", txt, n) /\ c = Reading("subIAC", txt, n)
    OBVIOUS
<1>5. /\ d \in EditorStates /\ i \in EditorStates /\ b \in EditorStates /\ c \in EditorStates
      /\ d = Typing(txt, n)
    <2>1. "data" \in Readers /\ "iac" \in Readers /\ "sub" \in Readers /\ "subIAC" \in Readers
        BY DEF Readers
    <2>2. \A rd \in Readers : Reading(rd, txt, n) \in EditorStates
        BY SeenTelnet
    <2>3. Typing(txt, n) = Reading("data", txt, n)
        BY SeenTelnet
    <2> QED
        BY <1>4, <2>1, <2>2, <2>3
<1>6. /\ ~HandsOver(d, u[1]) /\ ~HandsOver(i, u[2]) /\ ~HandsOver(b, u[3])
      /\ ~HandsOver(b, u[4]) /\ ~HandsOver(c, u[5]) /\ ~HandsOver(b, u[6])
      /\ ~HandsOver(b, u[7]) /\ ~HandsOver(c, u[8])
    <2>1. d.rd = "data" /\ i.rd = "iac" /\ b.rd = "sub" /\ c.rd = "subIAC"
        BY <1>4 DEF Reading, At
    <2> QED
        BY <1>3, <2>1 DEF HandsOver, SB
<1>7. /\ Seen(d, u[1]) = i /\ Seen(i, u[2]) = b /\ Seen(b, u[3]) = b /\ Seen(b, u[4]) = c
      /\ Seen(c, u[5]) = b /\ Seen(b, u[6]) = b /\ Seen(b, u[7]) = c /\ Seen(c, u[8]) = d
    <2>1. 31 \in Bytes \ {IAC} /\ 80 \in Bytes \ {IAC}
        OBVIOUS
    <2>2. /\ Seen(d, IAC) = i /\ Seen(i, SB) = b /\ Seen(b, IAC) = c /\ Seen(c, IAC) = b
          /\ Seen(c, SE) = d
        BY <1>4, SeenTelnet
    <2>3. Seen(b, 31) = b /\ Seen(b, 80) = b
        <3>1. \A x \in Bytes \ {IAC} : Seen(Reading("sub", txt, n), x) = Reading("sub", txt, n)
            BY SeenTelnet
        <3> QED
            BY <1>4, <2>1, <3>1
    <2> QED
        BY <1>3, <2>2, <2>3
<1>8. Reaches(s, w \o SubSeq(u, 1, 0), lines, d)
    BY <1>5, FirstByte
<1>9. ASSUME NEW k \in 0..7, NEW t \in EditorStates, NEW t2,
             Reaches(s, w \o SubSeq(u, 1, k), lines, t), ~HandsOver(t, u[k + 1]),
             Seen(t, u[k + 1]) = t2
      PROVE  Reaches(s, w \o SubSeq(u, 1, k + 1), lines, t2)
    <2>1. k \in Nat /\ k < Len(u)
        BY <1>2
    <2> QED
        BY <1>2, <1>9, <2>1, NextByte
<1>10. Reaches(s, w \o SubSeq(u, 1, 1), lines, i)
    BY <1>5, <1>6, <1>7, <1>8, <1>9
<1>11. Reaches(s, w \o SubSeq(u, 1, 2), lines, b)
    BY <1>5, <1>6, <1>7, <1>10, <1>9
<1>12. Reaches(s, w \o SubSeq(u, 1, 3), lines, b)
    BY <1>5, <1>6, <1>7, <1>11, <1>9
<1>13. Reaches(s, w \o SubSeq(u, 1, 4), lines, c)
    BY <1>5, <1>6, <1>7, <1>12, <1>9
<1>14. Reaches(s, w \o SubSeq(u, 1, 5), lines, b)
    BY <1>5, <1>6, <1>7, <1>13, <1>9
<1>15. Reaches(s, w \o SubSeq(u, 1, 6), lines, b)
    BY <1>5, <1>6, <1>7, <1>14, <1>9
<1>16. Reaches(s, w \o SubSeq(u, 1, 7), lines, c)
    BY <1>5, <1>6, <1>7, <1>15, <1>9
<1>17. Reaches(s, w \o SubSeq(u, 1, 8), lines, d)
    BY <1>5, <1>6, <1>7, <1>16, <1>9
<1>18. SubSeq(u, 1, 8) = u
    BY <1>2, LastByte
<1> QED
    BY <1>1, <1>5, <1>17, <1>18

\* The same for keys of one byte, or two.
LEMMA FedLetter ==
    ASSUME NEW txt \in Seq(Bytes), NEW n \in Nat, NEW b \in Bytes, b \in 32..255 \ {127}
    PROVE  Fed(Typing(txt, n), b) = Typing(Append(txt, b), n)
BY FedTyping

LEMMA FedReturn ==
    ASSUME NEW txt \in Seq(Bytes), NEW n \in Nat, NEW b \in Bytes, b = 10 \/ b = 13, ~Blank(txt)
    PROVE  Fed(Typing(txt, n), b) = Typing(<<>>, n + 1)
BY FedTyping

LEMMA FedBackspace ==
    ASSUME NEW txt \in Seq(Bytes), NEW n \in Nat, NEW b \in Bytes, b = 8 \/ b = 127
    PROVE  Fed(Typing(txt, n), b) = Typing(Deletes(txt), n)
BY FedTyping

LEMMA FedNothing ==
    ASSUME NEW txt \in Seq(Bytes), NEW n \in Nat, NEW b \in Bytes,
           b = 0 \/ b = 9 \/ (b = 10 /\ Blank(txt)) \/ (b = 13 /\ Blank(txt))
    PROVE  Fed(Typing(txt, n), b) = Typing(txt, n)
BY FedTyping

-----------------------------------------------------------------------------
LEMMA ReachesLonger ==
    ASSUME NEW s, NEW w \in Seq(Bytes), NEW t, NEW lines \in Seq(Seq(Bytes)),
           NEW l \in Seq(Bytes), Reaches(s, w, lines, t)
    PROVE  Reaches(s, w, Append(lines, l), t)
BY LeadsLonger DEF Reaches

\* A key that is sent.
LEMMA SentKeeps ==
    ASSUME IInv, KeysInv, NEW bytes, Sends(bytes),
           entered' = entered \/ \E l \in Seq(Bytes) : entered' = Append(entered, l),
           Reaches(Upcoming, wire \o bytes, entered', Meant')
    PROVE  KeysInv'
<1>1. /\ wire' = wire \o bytes
      /\ UNCHANGED <<reader, handed, telnet, lineBuffer, cursorColumn, controlSequence, asEntered>>
    BY DEF Sends, network, editor
<1>2. Upcoming' = Upcoming /\ Editing' = Editing
    BY <1>1 DEF Upcoming, Editing, Line
<1>3. Editing \in EditorStates /\ entered \in Seq(Seq(Bytes))
    BY KeyTypes
<1>4. handed # <<>> => reader = "data" /\ Right(Editing, handed[1], entered')
    <2> SUFFICES ASSUME handed # <<>>
                 PROVE  reader = "data" /\ Right(Editing, handed[1], entered')
        OBVIOUS
    <2>1. reader = "data" /\ Right(Editing, handed[1], entered)
        BY DEF KeysInv
    <2>2. PICK b : b = handed[1]
        OBVIOUS
    <2>3. \A l \in Seq(Bytes) : Right(Editing, b, Append(entered, l))
        BY <1>3, <2>1, <2>2, RightLonger
    <2> QED
        BY <2>1, <2>2, <2>3
<1>5. asEntered' /\ (telnet' # "reading" => handed' = <<>>)
    BY <1>1 DEF KeysInv
<1>6. handed' # <<>> => reader' = "data" /\ Right(Editing', handed'[1], entered')
    BY <1>1, <1>2, <1>4
<1>7. Reaches(Upcoming', wire', entered', Meant')
    BY <1>1, <1>2
<1> QED
    BY <1>5, <1>6, <1>7 DEF KeysInv

\* What the user knows when he presses a key.
LEMMA BeforeKey ==
    ASSUME IInv, KeysInv, telnet = "reading"
    PROVE  /\ wire \in Seq(Bytes) /\ line \in Seq(Bytes) /\ entered \in Seq(Seq(Bytes))
           /\ Len(entered) \in Nat
           /\ Reaches(Upcoming, wire, entered, Typing(line, Len(entered)))
           /\ Typing(line, Len(entered)) \in EditorStates
           /\ Typing(line, Len(entered)).rd = "data"
<1>1. wire \in Seq(Bytes) /\ line \in Seq(Bytes) /\ entered \in Seq(Seq(Bytes))
    BY KeyTypes
<1>2. Len(entered) \in Nat
    BY <1>1
<1>3. Reaches(Upcoming, wire, entered, Typing(line, Len(entered)))
    BY DEF KeysInv, Meant
<1> QED
    BY <1>1, <1>2, <1>3, BetweenKeys

LEMMA LetterSent == IInv /\ KeysInv /\ PressesLetter => KeysInv'
<1> SUFFICES ASSUME IInv, KeysInv, PressesLetter
             PROVE  KeysInv'
    OBVIOUS
<1>1. PICK b \in Letters \cup Secrets :
        /\ Sends(IF b = IAC THEN <<IAC, IAC>> ELSE <<b>>)
        /\ line' = Append(line, b) /\ entered' = entered
    BY DEF PressesLetter
<1>2. b \in 32..255 \ {127} /\ b \in Bytes
    <2>1. Letters \cup Secrets \subseteq 32..255 \ {127}
        BY KeyTypes
    <2> QED
        BY <2>1
<1>3. telnet = "reading"
    BY <1>1 DEF Sends
<1>4. PICK n \in Nat : n = Len(entered)
    BY <1>3, BeforeKey
<1>5. /\ wire \in Seq(Bytes) /\ line \in Seq(Bytes)
      /\ Reaches(Upcoming, wire, entered, Typing(line, n))
      /\ Typing(line, n) \in EditorStates /\ Typing(line, n).rd = "data"
    BY <1>3, <1>4, BeforeKey
<1>6. Meant' = Typing(Append(line, b), n)
    BY <1>1, <1>4 DEF Meant
<1>7. CASE b = IAC
    <2>1. Reaches(Upcoming, wire \o <<IAC, IAC>>, entered, Typing(Append(line, IAC), n))
        BY <1>5, EscapedIAC
    <2> QED
        BY <1>1, <1>6, <1>7, <2>1, SentKeeps
<1>8. CASE b # IAC
    <2>1. b \in Bytes \ {IAC} /\ b \notin Returns
        BY <1>2, <1>8 DEF Returns
    <2>2. Right(Typing(line, n), b, entered)
        BY <2>1, NothingRuns
    <2>3. Fed(Typing(line, n), b) = Typing(Append(line, b), n)
        BY <1>2, <1>5, FedLetter
    <2>4. Reaches(Upcoming, wire \o <<b>>, entered, Fed(Typing(line, n), b))
        BY <1>5, <2>1, <2>2, KeyOfOne
    <2> QED
        BY <1>1, <1>6, <1>8, <2>3, <2>4, SentKeeps
<1> QED
    BY <1>7, <1>8

\* The second byte of a return key comes to nothing.
LEMMA ReturnSent == IInv /\ KeysInv /\ PressesReturn => KeysInv'
<1> SUFFICES ASSUME IInv, KeysInv, PressesReturn
             PROVE  KeysInv'
    OBVIOUS
<1>1. PICK a, b : a = 13 /\ b \in {0, 10} /\ Sends(<<a, b>>)
    BY DEF PressesReturn
<1>2. a \in Bytes \ {IAC} /\ b \in Bytes \ {IAC} /\ (b = 0 \/ b = 10)
      /\ a \in Bytes /\ b \in Bytes
    BY <1>1
<1>3. telnet = "reading"
    BY <1>1 DEF Sends
<1>4. PICK n \in Nat : n = Len(entered)
    BY <1>3, BeforeKey
<1>5. PICK t : t = Typing(line, n)
    OBVIOUS
<1>6. /\ wire \in Seq(Bytes) /\ line \in Seq(Bytes) /\ entered \in Seq(Seq(Bytes))
      /\ Reaches(Upcoming, wire, entered, t)
      /\ t \in EditorStates /\ t.rd = "data"
    BY <1>3, <1>4, <1>5, BeforeKey
<1>7. t.txt = line /\ t.ran = n
    BY <1>5, <1>6, BetweenKeys
<1>8. CASE Blank(line)
    <2>1. line' = line /\ entered' = entered
        BY <1>8 DEF PressesReturn
    <2>2. Right(t, a, entered) /\ Right(t, b, entered)
        BY <1>7, <1>8 DEF Right, RunsLine
    <2>3. Fed(t, a) = t /\ Fed(t, b) = t
        <3>1. Fed(Typing(line, n), a) = Typing(line, n)
            BY <1>1, <1>2, <1>6, <1>8, FedNothing
        <3>2. Fed(Typing(line, n), b) = Typing(line, n)
            BY <1>2, <1>6, <1>8, FedNothing
        <3> QED
            BY <1>5, <3>1, <3>2
    <2>4. Reaches(Upcoming, wire \o <<a, b>>, entered, Fed(Fed(t, a), b))
        BY <1>2, <1>6, <2>2, <2>3, KeyOfTwo
    <2>5. Meant' = t
        BY <1>4, <1>5, <2>1 DEF Meant
    <2> QED
        BY <1>1, <2>1, <2>3, <2>4, <2>5, SentKeeps
<1>9. CASE ~Blank(line)
    <2>1. line' = <<>> /\ entered' = Append(entered, line)
        BY <1>9 DEF PressesReturn
    <2>2. PICK lines : lines = Append(entered, line)
        OBVIOUS
    <2>3. Len(lines) = n + 1 /\ lines[n + 1] = line
        BY <1>4, <1>6, <2>2
    <2>4. Reaches(Upcoming, wire, lines, t)
        BY <1>6, <2>2, ReachesLonger
    <2>5. Right(t, a, lines)
        BY <1>4, <1>7, <2>3 DEF Right
    <2>6. PICK f, e : f = Typing(<<>>, n + 1) /\ e = <<>>
        OBVIOUS
    <2>7. Fed(t, a) = f
        BY <1>1, <1>2, <1>5, <1>6, <1>9, <2>6, FedReturn
    <2>8. e \in Seq(Bytes) /\ n + 1 \in Nat /\ Blank(e)
        BY <2>6 DEF Blank
    <2>9. f.rd = "data" /\ f.txt = <<>>
        BY <2>6, <2>8, BetweenKeys
    <2>10. Fed(f, b) = f
        <3>1. PICK m \in Nat : m = n + 1
            BY <2>8
        <3>2. Fed(Typing(e, m), b) = Typing(e, m)
            BY <1>2, <2>8, FedNothing
        <3> QED
            BY <2>6, <3>1, <3>2
    <2>11. Right(f, b, lines)
        BY <2>9, NothingRuns
    <2>12. Reaches(Upcoming, wire \o <<a, b>>, lines, Fed(Fed(t, a), b))
        <3>1. Fed(t, a).rd = "data" /\ Right(Fed(t, a), b, lines)
            BY <2>7, <2>9, <2>11
        <3>2. /\ t \in EditorStates /\ t.rd = "data" /\ Reaches(Upcoming, wire, lines, t)
              /\ Right(t, a, lines) /\ wire \in Seq(Bytes)
            BY <1>6, <2>4, <2>5
        <3>3. a \in Bytes \ {IAC} /\ b \in Bytes \ {IAC}
            BY <1>2
        <3> QED
            BY <3>1, <3>2, <3>3, KeyOfTwo
    <2>13. Meant' = f
        BY <2>1, <2>2, <2>3, <2>6 DEF Meant
    <2> QED
        BY <1>1, <1>6, <2>1, <2>2, <2>7, <2>10, <2>12, <2>13, SentKeeps
<1> QED
    BY <1>8, <1>9

\* The left and the up arrow.
LEMMA ArrowSent ==
    ASSUME NEW s, NEW w \in Seq(Bytes), NEW lines, NEW txt \in Seq(Bytes), NEW n \in Nat,
           Reaches(s, w, lines, Typing(txt, n))
    PROVE  /\ Reaches(s, w \o <<ESC, 91, 68>>, lines, Typing(Deletes(txt), n))
           /\ Reaches(s, w \o <<ESC, 91, 65>>, lines, Typing(txt, n))
<1>1. PICK a, b : a = ESC /\ b = 91
    OBVIOUS
<1>2. /\ a \in Bytes \ {IAC} /\ b \in Bytes \ {IAC} /\ a \in Bytes
      /\ 65 \in Bytes \ {IAC} /\ 68 \in Bytes \ {IAC}
    BY <1>1
<1>3. PICK t, f, g : /\ t = Typing(txt, n) /\ f = At("data", <<ESC>>, txt, n)
                     /\ g = At("data", <<ESC, 91>>, txt, n)
    OBVIOUS
<1>4. t \in EditorStates /\ t.rd = "data"
    BY <1>3, BetweenKeys
<1>5. f.rd = "data" /\ f.cs = <<ESC>> /\ g.rd = "data" /\ g.cs = <<ESC, 91>>
    BY <1>3 DEF At
<1>6. Fed(t, a) = f
    BY <1>1, <1>2, <1>3, FedTyping
<1>7. /\ Fed(f, b) = g /\ Fed(g, 68) = Typing(Deletes(txt), n) /\ Fed(g, 65) = Typing(txt, n)
    BY <1>1, <1>3, FedSequence
<1>8. \A s2 : /\ Right(s2, a, lines) /\ Right(s2, b, lines)
              /\ Right(s2, 65, lines) /\ Right(s2, 68, lines)
    <2>1. a \notin Returns /\ b \notin Returns /\ 65 \notin Returns /\ 68 \notin Returns
        BY <1>1 DEF Returns
    <2> QED
        BY <2>1, NothingRuns
<1>9. /\ Right(t, a, lines) /\ Fed(t, a).rd = "data" /\ Right(Fed(t, a), b, lines)
      /\ Fed(Fed(t, a), b).rd = "data" /\ Reaches(s, w, lines, t)
    BY <1>3, <1>5, <1>6, <1>7, <1>8
<1>10. ASSUME NEW c \in {65, 68}
       PROVE  Reaches(s, w \o <<ESC, 91, c>>, lines, Fed(g, c))
    <2>1. c \in Bytes \ {IAC} /\ Right(Fed(Fed(t, a), b), c, lines)
        BY <1>2, <1>8
    <2>2. Reaches(s, w \o <<a, b, c>>, lines, Fed(Fed(Fed(t, a), b), c))
        BY <1>2, <1>4, <1>9, <2>1, KeyOfThree
    <2> QED
        BY <1>1, <1>6, <1>7, <2>2
<1> QED
    BY <1>7, <1>10

\* Three forms of a backspace.
LEMMA BackspaceSent == IInv /\ KeysInv /\ PressesBackspace => KeysInv'
<1> SUFFICES ASSUME IInv, KeysInv, PressesBackspace
             PROVE  KeysInv'
    OBVIOUS
<1>1. entered' = entered /\ line' = IF line = <<>> THEN <<>> ELSE Front(line)
    BY DEF PressesBackspace
<1>2. PICK keys \in {<<8>>, <<127>>, <<ESC, 91, 68>>} : Sends(keys)
    BY DEF PressesBackspace
<1>3. telnet = "reading"
    BY <1>2 DEF Sends
<1>4. PICK n \in Nat : n = Len(entered)
    BY <1>3, BeforeKey
<1>5. PICK t : t = Typing(line, n)
    OBVIOUS
<1>6. /\ wire \in Seq(Bytes) /\ line \in Seq(Bytes) /\ entered \in Seq(Seq(Bytes))
      /\ Reaches(Upcoming, wire, entered, t)
      /\ t \in EditorStates /\ t.rd = "data"
    BY <1>3, <1>4, <1>5, BeforeKey
<1>7. line' = Deletes(line)
    BY <1>1 DEF Deletes, Front
<1>8. Meant' = Typing(Deletes(line), n)
    BY <1>1, <1>4, <1>7 DEF Meant
<1>9. ASSUME NEW b, b = 8 \/ b = 127, keys = <<b>>
      PROVE  KeysInv'
    <2>1. b \in Bytes \ {IAC} /\ b \in Bytes /\ b \notin Returns
        BY <1>9 DEF Returns
    <2>2. Right(t, b, entered)
        BY <2>1, NothingRuns
    <2>3. Fed(t, b) = Typing(Deletes(line), n)
        BY <1>5, <1>6, <1>9, <2>1, FedBackspace
    <2>4. Reaches(Upcoming, wire \o <<b>>, entered, Fed(t, b))
        BY <1>6, <2>1, <2>2, KeyOfOne
    <2> QED
        BY <1>1, <1>2, <1>8, <1>9, <2>3, <2>4, SentKeeps
<1>10. CASE keys = <<ESC, 91, 68>>
    <2>1. Reaches(Upcoming, wire \o <<ESC, 91, 68>>, entered, Typing(Deletes(line), n))
        BY <1>5, <1>6, ArrowSent
    <2> QED
        BY <1>1, <1>2, <1>8, <1>10, <2>1, SentKeeps
<1> QED
    BY <1>2, <1>9, <1>10

\* A tab, the up arrow and the Telnet commands change nothing.
LEMMA OtherSent == IInv /\ KeysInv /\ PressesOther => KeysInv'
<1> SUFFICES ASSUME IInv, KeysInv, PressesOther
             PROVE  KeysInv'
    OBVIOUS
<1>1. entered' = entered /\ line' = line
    BY DEF PressesOther
<1>2. PICK keys \in {<<9>>, <<ESC, 91, 65>>, <<IAC, 253, 3>>,
                     <<IAC, SB, 31, IAC, IAC, 80, IAC, SE>>, <<IAC, SE>>} : Sends(keys)
    BY DEF PressesOther
<1>3. telnet = "reading"
    BY <1>2 DEF Sends
<1>4. PICK n \in Nat : n = Len(entered)
    BY <1>3, BeforeKey
<1>5. PICK t : t = Typing(line, n)
    OBVIOUS
<1>6. /\ wire \in Seq(Bytes) /\ line \in Seq(Bytes) /\ entered \in Seq(Seq(Bytes))
      /\ Reaches(Upcoming, wire, entered, t)
      /\ t \in EditorStates /\ t.rd = "data"
    BY <1>3, <1>4, <1>5, BeforeKey
<1>7. Meant' = t
    BY <1>1, <1>4, <1>5 DEF Meant
<1>8. Reaches(Upcoming, wire \o keys, entered, t)
    <2>1. CASE keys = <<9>>
        <3>1. 9 \in Bytes \ {IAC} /\ 9 \in Bytes /\ 9 \notin Returns
            BY DEF Returns
        <3>2. Right(t, 9, entered)
            BY <3>1, NothingRuns
        <3>3. Fed(t, 9) = t
            BY <1>5, <1>6, <3>1, FedNothing
        <3>4. Reaches(Upcoming, wire \o <<9>>, entered, Fed(t, 9))
            BY <1>6, <3>1, <3>2, KeyOfOne
        <3> QED
            BY <2>1, <3>3, <3>4
    <2>2. CASE keys = <<ESC, 91, 65>>
        BY <1>5, <1>6, <2>2, ArrowSent
    <2>3. CASE keys = <<IAC, 253, 3>>
        BY <1>5, <1>6, <2>3, Negotiation
    <2>4. CASE keys = <<IAC, SB, 31, IAC, IAC, 80, IAC, SE>>
        <3>1. keys = SizeOfWindow
            BY <2>4 DEF SizeOfWindow
        <3> QED
            BY <1>5, <1>6, <3>1, Subnegotiation
    <2>5. CASE keys = <<IAC, SE>>
        BY <1>5, <1>6, <2>5, StraySE
    <2> QED
        BY <1>2, <2>1, <2>2, <2>3, <2>4, <2>5
<1> QED
    BY <1>1, <1>2, <1>7, <1>8, SentKeeps

\* Whatever follows the end of the session, it is over.
LEMMA EndSent == IInv /\ KeysInv /\ EndsSession => KeysInv'
<1> SUFFICES ASSUME IInv, KeysInv, EndsSession
             PROVE  KeysInv'
    OBVIOUS
<1>1. entered' = entered /\ line' = line
    BY DEF EndsSession
<1>2. PICK keys \in {<<4>>, <<IAC, 241>>} : Sends(keys)
    BY DEF EndsSession
<1>3. telnet = "reading"
    BY <1>2 DEF Sends
<1>4. PICK n \in Nat : n = Len(entered)
    BY <1>3, BeforeKey
<1>5. PICK t : t = Typing(line, n)
    OBVIOUS
<1>6. /\ wire \in Seq(Bytes) /\ line \in Seq(Bytes) /\ entered \in Seq(Seq(Bytes))
      /\ Reaches(Upcoming, wire, entered, t)
      /\ t \in EditorStates /\ t.rd = "data"
    BY <1>3, <1>4, <1>5, BeforeKey
<1>7. PICK m : m = Meant'
    OBVIOUS
<1>8. Reaches(Upcoming, wire \o keys, entered, m)
    <2>1. CASE keys = <<4>>
        <3>1. 4 \in Bytes \ {IAC} /\ 4 \in Bytes /\ 4 \notin Returns
            BY DEF Returns
        <3>2. Right(t, 4, entered)
            BY <3>1, NothingRuns
        <3>3. Fed(t, 4).rd = "over"
            BY <1>5, <1>6, <3>1, FedTyping
        <3>4. Reaches(Upcoming, wire \o <<4>>, entered, Fed(t, 4))
            BY <1>6, <3>1, <3>2, KeyOfOne
        <3> QED
            BY <2>1, <3>3, <3>4, ReachesOver
    <2>2. CASE keys = <<IAC, 241>>
        BY <1>5, <1>6, <2>2, OtherCommand
    <2> QED
        BY <1>2, <2>1, <2>2
<1> QED
    BY <1>1, <1>2, <1>7, <1>8, SentKeeps

LEMMA KeysSent == IInv /\ KeysInv /\ User => KeysInv'
BY LetterSent, ReturnSent, BackspaceSent, OtherSent, EndSent DEF User

-----------------------------------------------------------------------------
(***************************************************************************)
(* The Telnet reader takes a byte off the wire.                            *)
(***************************************************************************)
LEMMA ReachesFrom ==
    ASSUME NEW s \in EditorStates, NEW w \in Seq(Bytes), w # <<>>, NEW lines, NEW t,
           Reaches(s, w, lines, t)
    PROVE  /\ Reaches(Seen(s, Head(w)), Tail(w), lines, t)
           /\ HandsOver(s, Head(w)) => Right(s, Head(w), lines)
BY LeadsFrom DEF Reaches

LEMMA EditingNow ==
    ASSUME IInv
    PROVE  /\ Editing \in EditorStates /\ Editing.rd = reader
           /\ Editing.cs = controlSequence /\ Editing.txt = Line /\ Editing.ran = 0
<1>1. Editing \in EditorStates
    BY KeyTypes
<1> QED
    BY <1>1 DEF Editing, At

\* What is fed to the editor does not depend on the reader.
LEMMA FedAnyReader ==
    ASSUME NEW rd, NEW s, NEW b, NEW lines
    PROVE  /\ Fed(At(rd, s.cs, s.txt, s.ran), b) = Fed(s, b)
           /\ Right(At(rd, s.cs, s.txt, s.ran), b, lines) <=> Right(s, b, lines)
<1>1. PICK t : t = At(rd, s.cs, s.txt, s.ran)
    OBVIOUS
<1>2. t.cs = s.cs /\ t.txt = s.txt /\ t.ran = s.ran
    BY <1>1 DEF At
<1>3. RunsLine(t, b) <=> RunsLine(s, b)
    BY <1>2 DEF RunsLine
<1>4. Right(t, b, lines) <=> Right(s, b, lines)
    BY <1>2, <1>3 DEF Right
<1>5. AddsToSequence(t, b) = AddsToSequence(s, b)
    BY <1>2 DEF AddsToSequence
<1>6. Fed(t, b) = Fed(s, b)
    BY <1>2, <1>3, <1>5 DEF Fed
<1> QED
    BY <1>1, <1>4, <1>6

LEMMA NextOfWire ==
    ASSUME IInv, KeysInv, telnet = "reading", handed = <<>>, wire # <<>>
    PROVE  /\ Head(wire) \in Bytes /\ Tail(wire) \in Seq(Bytes)
           /\ Reaches(Seen(Editing, Head(wire)), Tail(wire), entered, Meant)
           /\ HandsOver(Editing, Head(wire)) => Right(Editing, Head(wire), entered)
<1>1. wire \in Seq(Bytes) /\ Editing \in EditorStates
    BY KeyTypes
<1>2. Head(wire) \in Bytes /\ Tail(wire) \in Seq(Bytes)
    BY <1>1, HeadTailProperties
<1>3. Reaches(Editing, wire, entered, Meant)
    BY DEF KeysInv, Upcoming
<1> QED
    BY <1>1, <1>2, <1>3, ReachesFrom

LEMMA GoingOn ==
    ASSUME IInv, KeysInv, NEW state, NEW bytes, Reads(state, bytes), NEW next, GoesOn(next),
           ~HandsOver(Editing, Head(wire)), Skips(Editing, Head(wire)) = next
    PROVE  KeysInv'
<1>1. /\ telnet = "reading" /\ handed = <<>> /\ wire # <<>> /\ wire' = Tail(wire)
      /\ reader' = next
      /\ UNCHANGED <<handed, telnet, line, entered, lineBuffer, cursorColumn,
                     controlSequence, asEntered>>
    BY DEF Reads, GoesOn, readerOnly, editor
<1>2. Reaches(Seen(Editing, Head(wire)), Tail(wire), entered, Meant)
    BY <1>1, NextOfWire
<1>3. Seen(Editing, Head(wire)) = At(next, controlSequence, Line, 0)
    BY EditingNow DEF Seen
<1>4. Upcoming' = At(next, controlSequence, Line, 0) /\ Meant' = Meant
    BY <1>1 DEF Upcoming, Editing, Line, Meant
<1>5. Reaches(Upcoming', wire', entered', Meant')
    BY <1>1, <1>2, <1>3, <1>4
<1> QED
    BY <1>1, <1>5 DEF KeysInv

LEMMA HandingOver ==
    ASSUME IInv, KeysInv, NEW state, NEW bytes, Reads(state, bytes), Delivers,
           HandsOver(Editing, Head(wire))
    PROVE  KeysInv'
<1>1. /\ telnet = "reading" /\ handed = <<>> /\ wire # <<>> /\ wire' = Tail(wire)
      /\ reader' = "data" /\ handed' = <<Head(wire)>>
      /\ UNCHANGED <<telnet, line, entered, lineBuffer, cursorColumn,
                     controlSequence, asEntered>>
    BY DEF Reads, Delivers, readerOnly, editor
<1>2. PICK b : b = Head(wire)
    OBVIOUS
<1>3. /\ Reaches(Seen(Editing, b), Tail(wire), entered, Meant) /\ Right(Editing, b, entered)
    BY <1>1, <1>2, NextOfWire
<1>4. Seen(Editing, b) = Fed(Editing, b)
    BY <1>2 DEF Seen
<1>5. handed' # <<>> /\ handed'[1] = b
    BY <1>1, <1>2
<1>6. Editing' = At("data", Editing.cs, Editing.txt, Editing.ran) /\ Meant' = Meant
    BY <1>1, EditingNow DEF Editing, Line, Meant
<1>7. Fed(Editing', b) = Fed(Editing, b) /\ Right(Editing', b, entered)
    BY <1>3, <1>6, FedAnyReader
<1>8. Upcoming' = Fed(Editing, b)
    BY <1>5, <1>7 DEF Upcoming
<1>9. Reaches(Upcoming', wire', entered', Meant')
    BY <1>1, <1>3, <1>4, <1>6, <1>8
<1>10. Right(Editing', handed'[1], entered')
    BY <1>1, <1>5, <1>7
<1> QED
    BY <1>1, <1>9, <1>10 DEF KeysInv

LEMMA KeysRead == IInv /\ KeysInv /\ Read => KeysInv'
<1> SUFFICES ASSUME IInv, KeysInv, Read
             PROVE  KeysInv'
    OBVIOUS
<1>1. Editing.rd = reader
    BY EditingNow
<1>2. CASE ReadsData
    <2>1. Reads("data", Bytes \ {IAC}) /\ Delivers
        BY <1>2 DEF ReadsData
    <2>2. HandsOver(Editing, Head(wire))
        BY <1>1, <2>1 DEF HandsOver, Reads
    <2> QED
        BY <2>1, <2>2, HandingOver
<1>3. CASE ReadsEscapedIAC
    <2>1. Reads("iac", {IAC}) /\ Delivers
        BY <1>3 DEF ReadsEscapedIAC
    <2>2. HandsOver(Editing, Head(wire))
        BY <1>1, <2>1 DEF HandsOver, Reads
    <2> QED
        BY <2>1, <2>2, HandingOver
<1>4. CASE ReadsIAC
    <2>1. Reads("data", {IAC}) /\ GoesOn("iac")
        BY <1>4 DEF ReadsIAC
    <2>2. ~HandsOver(Editing, Head(wire)) /\ Skips(Editing, Head(wire)) = "iac"
        BY <1>1, <2>1 DEF HandsOver, Reads, Skips
    <2> QED
        BY <2>1, <2>2, GoingOn
<1>5. CASE SkipsNegotiation
    <2>1. CASE Reads("iac", Negotiations) /\ GoesOn("option")
        <3>1. ~HandsOver(Editing, Head(wire)) /\ Skips(Editing, Head(wire)) = "option"
            BY <1>1, <2>1 DEF HandsOver, Reads, Skips, Negotiations
        <3> QED
            BY <2>1, <3>1, GoingOn
    <2>2. CASE Reads("option", Bytes) /\ GoesOn("data")
        <3>1. ~HandsOver(Editing, Head(wire)) /\ Skips(Editing, Head(wire)) = "data"
            BY <1>1, <2>2 DEF HandsOver, Reads, Skips
        <3> QED
            BY <2>2, <3>1, GoingOn
    <2> QED
        BY <1>5, <2>1, <2>2 DEF SkipsNegotiation
<1>6. CASE SkipsSubnegotiation
    <2>1. CASE Reads("iac", {SB}) /\ GoesOn("sub")
        <3>1. ~HandsOver(Editing, Head(wire)) /\ Skips(Editing, Head(wire)) = "sub"
            BY <1>1, <2>1 DEF HandsOver, Reads, Skips, Negotiations, SB
        <3> QED
            BY <2>1, <3>1, GoingOn
    <2>2. CASE Reads("sub", Bytes \ {IAC}) /\ GoesOn("sub")
        <3>1. ~HandsOver(Editing, Head(wire)) /\ Skips(Editing, Head(wire)) = "sub"
            BY <1>1, <2>2 DEF HandsOver, Reads, Skips
        <3> QED
            BY <2>2, <3>1, GoingOn
    <2>3. CASE Reads("sub", {IAC}) /\ GoesOn("subIAC")
        <3>1. ~HandsOver(Editing, Head(wire)) /\ Skips(Editing, Head(wire)) = "subIAC"
            BY <1>1, <2>3 DEF HandsOver, Reads, Skips
        <3> QED
            BY <2>3, <3>1, GoingOn
    <2>4. CASE Reads("subIAC", {SE}) /\ GoesOn("data")
        <3>1. ~HandsOver(Editing, Head(wire)) /\ Skips(Editing, Head(wire)) = "data"
            BY <1>1, <2>4 DEF HandsOver, Reads, Skips
        <3> QED
            BY <2>4, <3>1, GoingOn
    <2>5. CASE Reads("subIAC", Bytes \ {SE}) /\ GoesOn("sub")
        <3>1. ~HandsOver(Editing, Head(wire)) /\ Skips(Editing, Head(wire)) = "sub"
            BY <1>1, <2>5 DEF HandsOver, Reads, Skips
        <3> QED
            BY <2>5, <3>1, GoingOn
    <2> QED
        BY <1>6, <2>1, <2>2, <2>3, <2>4, <2>5 DEF SkipsSubnegotiation
<1>7. CASE SkipsStraySE
    <2>1. Reads("iac", {SE}) /\ GoesOn("data")
        BY <1>7 DEF SkipsStraySE
    <2>2. ~HandsOver(Editing, Head(wire)) /\ Skips(Editing, Head(wire)) = "data"
        BY <1>1, <2>1 DEF HandsOver, Reads, Skips, Negotiations, SB, SE
    <2> QED
        BY <2>1, <2>2, GoingOn
<1>8. CASE ReadsOtherCommand
    <2>1. handed = <<>> /\ telnet' = "closed" /\ UNCHANGED <<handed, asEntered>>
        BY <1>8 DEF ReadsOtherCommand, Reads, readerOnly
    <2> QED
        BY <2>1 DEF KeysInv
<1> QED
    BY <1>2, <1>3, <1>4, <1>5, <1>6, <1>7, <1>8 DEF Read

-----------------------------------------------------------------------------
(***************************************************************************)
(* The doppelganger takes the byte handed over.                            *)
(***************************************************************************)
LEMMA LineShrinks ==
    ASSUME IInv, lineBuffer' = lineBuffer,
           cursorColumn' = IF cursorColumn > 0 THEN cursorColumn - 1 ELSE 0
    PROVE  Line' = Deletes(Line)
<1>1. /\ Line \in Seq(Bytes) /\ Len(Line) = cursorColumn
      /\ \A i \in 1..cursorColumn : Line[i] = lineBuffer[i]
    BY LineBytes DEF IInv
<1>2. lineBuffer \in Seq(Bytes) /\ cursorColumn \in 0..Len(lineBuffer) /\ Len(lineBuffer) \in Nat
    BY DEF IInv, TypeOK
<1>3. CASE cursorColumn = 0
    <2>1. Line = <<>>
        BY <1>1, <1>3, EmptySeq
    <2>2. Line' = SubSeq(lineBuffer, 1, 0)
        BY <1>3 DEF Line
    <2> QED
        BY <2>1, <2>2, SubSeqEmpty DEF Deletes
<1>4. CASE cursorColumn > 0
    <2>1. PICK v, n : v = Line /\ n = cursorColumn - 1
        OBVIOUS
    <2>2. v \in Seq(Bytes) /\ Len(v) > 0 /\ Len(v) - 1 = n /\ v # <<>> /\ n \in 0..Len(lineBuffer)
        BY <1>1, <1>2, <1>4, <2>1
    <2>3. PICK d, e : d = SubSeq(v, 1, n) /\ e = SubSeq(lineBuffer, 1, n)
        OBVIOUS
    <2>4. d \in Seq(Bytes) /\ Len(d) = n /\ \A i \in 1..n : d[i] = v[i]
        BY <2>2, <2>3, FrontBytes
    <2>5. e \in Seq(Bytes) /\ Len(e) = n /\ \A i \in 1..n : e[i] = lineBuffer[i]
        BY <1>2, <2>2, <2>3, BeginningBytes
    <2>6. \A i \in 1..n : d[i] = e[i]
        BY <1>1, <1>2, <1>4, <2>1, <2>4, <2>5
    <2>7. d = e
        BY <2>4, <2>5, <2>6, SeqEqual
    <2>8. Line' = e
        BY <1>4, <2>1, <2>3 DEF Line
    <2>9. Deletes(v) = d
        BY <2>2, <2>3 DEF Deletes
    <2> QED
        BY <2>1, <2>7, <2>8, <2>9
<1> QED
    BY <1>2, <1>3, <1>4

LEMMA TakingKey ==
    ASSUME IInv, KeysInv, handed # <<>>
    PROVE  /\ telnet = "reading" /\ reader = "data" /\ handed[1] \in Bytes
           /\ Right(Editing, handed[1], entered)
           /\ Reaches(Fed(Editing, handed[1]), wire, entered, Meant)
BY KeyTypes DEF KeysInv, Upcoming

\* The editor comes to be what it was going to be.
LEMMA Took ==
    ASSUME IInv, KeysInv, Takes, UNCHANGED <<entered, asEntered>>,
           Fed(Editing, handed[1]) = At("data", controlSequence', Line', 0)
    PROVE  KeysInv'
<1>1. handed # <<>> /\ handed' = <<>> /\ UNCHANGED <<wire, line, reader, telnet>>
    BY DEF Takes
<1>2. reader = "data" /\ Reaches(Fed(Editing, handed[1]), wire, entered, Meant)
    BY <1>1, TakingKey
<1>3. Upcoming' = At("data", controlSequence', Line', 0) /\ Meant' = Meant
    BY <1>1, <1>2 DEF Upcoming, Editing, Meant
<1>4. Reaches(Upcoming', wire', entered', Meant')
    BY <1>1, <1>2, <1>3
<1> QED
    BY <1>1, <1>4 DEF KeysInv

LEMMA SequenceByteTaken == IInv /\ KeysInv /\ TakesSequenceByte => KeysInv'
<1> SUFFICES ASSUME IInv, KeysInv, TakesSequenceByte
             PROVE  KeysInv'
    OBVIOUS
<1>1. PICK a : a = handed[1]
    OBVIOUS
<1>2. PICK b : b = IF a = 127 THEN 8 ELSE a
    OBVIOUS
<1>3. PICK q : q = Append(controlSequence, b)
    OBVIOUS
<1>4. /\ Takes /\ handed # <<>> /\ controlSequence # <<>> /\ b \notin Stops
      /\ controlSequence' = IF Len(q) = 3 THEN <<>> ELSE q
      /\ IF q = <<ESC, 91, 68>> THEN DeletesLast ELSE Ignores
    BY <1>1, <1>2, <1>3 DEF TakesSequenceByte, Takes, InSequence
<1>5. /\ UNCHANGED <<entered, asEntered, lineBuffer>>
      /\ q # <<ESC, 91, 68>> => cursorColumn' = cursorColumn
      /\ q = <<ESC, 91, 68>> => cursorColumn' = IF cursorColumn > 0 THEN cursorColumn - 1 ELSE 0
    BY <1>4 DEF DeletesLast, Ignores
<1>6. Line' = IF q = <<ESC, 91, 68>> THEN Deletes(Line) ELSE Line
    <2>1. CASE q = <<ESC, 91, 68>>
        BY <1>5, <2>1, LineShrinks
    <2>2. CASE q # <<ESC, 91, 68>>
        BY <1>5, <2>2 DEF Line
    <2> QED
        BY <2>1, <2>2
<1>7. Editing.cs = controlSequence /\ Editing.txt = Line /\ Editing.ran = 0
    BY EditingNow
<1>8. a \notin Stops
    BY <1>2, <1>4 DEF Stops
<1>9. Fed(Editing, a) = AddsToSequence(Editing, a)
    BY <1>4, <1>7, <1>8 DEF Fed
<1>10. AddsToSequence(Editing, a) = At("data", controlSequence', Line', 0)
    <2> HIDE DEF ESC
    <2>1. Append(Editing.cs, IF a = 127 THEN 8 ELSE a) = q
        BY <1>2, <1>3, <1>7
    <2>2. AddsToSequence(Editing, a) =
            At("data", IF Len(q) = 3 THEN <<>> ELSE q,
               IF q = <<ESC, 91, 68>> THEN Deletes(Editing.txt) ELSE Editing.txt, Editing.ran)
        BY <2>1 DEF AddsToSequence
    <2> QED
        BY <1>4, <1>6, <1>7, <2>2
<1> QED
    BY <1>1, <1>4, <1>5, <1>9, <1>10, Took

\* A byte outside of a control sequence.
LEMMA FedOutside ==
    ASSUME IInv, ~InSequence, NEW b \in Bytes, b \notin Stops
    PROVE  /\ b = ESC => Fed(Editing, b) = At("data", <<ESC>>, Line, 0)
           /\ b \in Backspaces => Fed(Editing, b) = At("data", controlSequence, Deletes(Line), 0)
           /\ b \in Returns /\ ~Blank(Line) => Fed(Editing, b) = At("data", controlSequence, <<>>, 1)
           /\ b >= 32 /\ b \notin Backspaces =>
                    Fed(Editing, b) = At("data", controlSequence, Append(Line, b), 0)
           /\ \/ b \in Returns /\ Blank(Line)
              \/ b \in 0..31 /\ b \notin Returns /\ b \notin Backspaces /\ b # ESC
              => Fed(Editing, b) = At("data", controlSequence, Line, 0)
<1>1. PICK s : s = Editing
    OBVIOUS
<1>2. s.cs = <<>> /\ s.cs = controlSequence /\ s.txt = Line /\ s.ran = 0
    BY <1>1, EditingNow DEF InSequence
<1>3. RunsLine(s, b) <=> b \in Returns /\ ~Blank(Line)
    BY <1>2 DEF RunsLine
<1>4. 0 + 1 = 1
    OBVIOUS
<1>5. b = ESC => Fed(s, b) = At("data", <<ESC>>, Line, 0)
    BY <1>2, <1>3 DEF Fed
<1>6. b \in Backspaces => Fed(s, b) = At("data", controlSequence, Deletes(Line), 0)
    BY <1>2, <1>3 DEF Fed, Backspaces
<1>7. b \in Returns /\ ~Blank(Line) => Fed(s, b) = At("data", controlSequence, <<>>, 1)
    BY <1>2, <1>3, <1>4 DEF Fed, Backspaces, Returns
<1>8. b >= 32 /\ b \notin Backspaces => Fed(s, b) = At("data", controlSequence, Append(Line, b), 0)
    BY <1>2, <1>3 DEF Fed, Returns
<1>9. ASSUME \/ b \in Returns /\ Blank(Line)
             \/ b \in 0..31 /\ b \notin Returns /\ b \notin Backspaces /\ b # ESC
      PROVE  Fed(s, b) = At("data", controlSequence, Line, 0)
    BY <1>2, <1>3, <1>9 DEF Fed, Returns, Backspaces
<1> QED
    BY <1>1, <1>5, <1>6, <1>7, <1>8, <1>9

LEMMA EditTaken ==
    IInv /\ KeysInv /\ (StartsSequence \/ IgnoresControlCode \/ TakesBackspace \/ IgnoresBlankLine)
        => KeysInv'
<1> SUFFICES ASSUME IInv, KeysInv,
                    StartsSequence \/ IgnoresControlCode \/ TakesBackspace \/ IgnoresBlankLine
             PROVE  KeysInv'
    OBVIOUS
<1>1. /\ Takes /\ handed # <<>> /\ ~InSequence
      /\ UNCHANGED <<entered, asEntered, lineBuffer>>
    BY DEF StartsSequence, IgnoresControlCode, TakesBackspace, IgnoresBlankLine, Takes,
           Ignores, DeletesLast
<1>2. PICK b \in Bytes : b = handed[1]
    BY <1>1, TakingKey
<1>3. CASE StartsSequence
    <2>1. b = ESC /\ controlSequence' = <<ESC>> /\ cursorColumn' = cursorColumn
        BY <1>2, <1>3 DEF StartsSequence, Ignores
    <2>2. Line' = Line /\ b \notin Stops
        BY <1>1, <2>1 DEF Line, Stops
    <2>3. Fed(Editing, b) = At("data", controlSequence', Line', 0)
        BY <1>1, <2>1, <2>2, FedOutside
    <2> QED
        BY <1>1, <1>2, <2>3, Took
<1>4. CASE IgnoresControlCode
    <2>1. /\ b \in 0..31 /\ b \notin Returns /\ b \notin Backspaces /\ b # ESC /\ b \notin Stops
          /\ controlSequence' = controlSequence /\ cursorColumn' = cursorColumn
        BY <1>2, <1>4 DEF IgnoresControlCode, Ignores
    <2>2. Line' = Line
        BY <1>1, <2>1 DEF Line
    <2>3. Fed(Editing, b) = At("data", controlSequence', Line', 0)
        BY <1>1, <2>1, <2>2, FedOutside
    <2> QED
        BY <1>1, <1>2, <2>3, Took
<1>5. CASE TakesBackspace
    <2>1. /\ b \in Backspaces /\ controlSequence' = controlSequence
          /\ cursorColumn' = IF cursorColumn > 0 THEN cursorColumn - 1 ELSE 0
        BY <1>2, <1>5 DEF TakesBackspace, DeletesLast
    <2>2. Line' = Deletes(Line) /\ b \notin Stops
        BY <1>1, <2>1, LineShrinks DEF Backspaces, Stops
    <2>3. Fed(Editing, b) = At("data", controlSequence', Line', 0)
        BY <1>1, <2>1, <2>2, FedOutside
    <2> QED
        BY <1>1, <1>2, <2>3, Took
<1>6. CASE IgnoresBlankLine
    <2>1. /\ b \in Returns /\ Blank(Line) /\ b \notin Stops
          /\ controlSequence' = controlSequence /\ cursorColumn' = cursorColumn
        BY <1>2, <1>6 DEF IgnoresBlankLine, Ignores, Returns, Stops
    <2>2. Line' = Line
        BY <1>1, <2>1 DEF Line
    <2>3. Fed(Editing, b) = At("data", controlSequence', Line', 0)
        BY <1>1, <2>1, <2>2, FedOutside
    <2> QED
        BY <1>1, <1>2, <2>3, Took
<1> QED
    BY <1>3, <1>4, <1>5, <1>6

LEMMA LetterTaken == IInv /\ KeysInv /\ TakesLetter => KeysInv'
<1> SUFFICES ASSUME IInv, KeysInv, TakesLetter
             PROVE  KeysInv'
    OBVIOUS
<1>1. /\ Takes /\ handed # <<>> /\ ~InSequence
      /\ UNCHANGED <<entered, asEntered, controlSequence>>
    BY DEF TakesLetter, Takes
<1>2. PICK b \in Bytes : b = handed[1]
    BY <1>1, TakingKey
<1>3. b >= 32 /\ b \notin Backspaces /\ b \notin Stops
    BY <1>2 DEF TakesLetter, Stops
<1>4. Fed(Editing, b) = At("data", controlSequence, Append(Line, b), 0)
    BY <1>1, <1>3, FedOutside
<1>5. Line' = Append(Line, b)
    BY <1>2, LetterAdded
<1> QED
    BY <1>1, <1>2, <1>4, <1>5, Took

\* The line that is run is the first of those entered, which becomes shorter.
LEMMA LineRun ==
    ASSUME IInv, KeysInv, NEW m, Runs(m)
    PROVE  KeysInv'
<1>1. /\ Takes /\ handed # <<>> /\ handed' = <<>> /\ ~InSequence /\ controlSequence = <<>>
      /\ handed[1] \in Returns /\ ~Blank(Line)
      /\ asEntered' = (asEntered /\ entered # <<>> /\ Head(entered) = Line)
      /\ entered' = IF entered = <<>> THEN <<>> ELSE Tail(entered)
      /\ UNCHANGED <<wire, line, reader, telnet, controlSequence>>
    BY DEF Runs, Takes, InSequence
<1>2. PICK b \in Bytes : b = handed[1]
    BY <1>1, TakingKey
<1>3. /\ telnet = "reading" /\ reader = "data" /\ Right(Editing, b, entered)
      /\ Reaches(Fed(Editing, b), wire, entered, Meant)
    BY <1>1, <1>2, TakingKey
<1>4. /\ Editing.cs = controlSequence /\ Editing.txt = Line /\ Editing.ran = 0
    BY EditingNow
<1>5. /\ wire \in Seq(Bytes) /\ entered \in Seq(Seq(Bytes)) /\ line \in Seq(Bytes)
    BY KeyTypes
<1>6. RunsLine(Editing, b)
    BY <1>1, <1>2, <1>4 DEF RunsLine
<1>7. 0 < Len(entered) /\ entered[1] = Line
    BY <1>3, <1>4, <1>6 DEF Right
<1>8. PICK lines \in Seq(Seq(Bytes)) : lines = entered
    BY <1>5
<1>9. /\ lines # <<>> /\ Head(lines) = Line /\ Tail(lines) \in Seq(Seq(Bytes))
      /\ Len(lines) \in Nat /\ Len(lines) - 1 \in Nat /\ Len(Tail(lines)) = Len(lines) - 1
    BY <1>7, <1>8
<1>10. entered' = Tail(lines) /\ (asEntered => asEntered')
    BY <1>1, <1>8, <1>9
<1>11. asEntered'
    BY <1>10 DEF KeysInv
<1>12. PICK n \in Nat : n = Len(lines)
    BY <1>9
<1>13. Meant = Typing(line, n)
    BY <1>8, <1>12 DEF Meant
<1>14. Meant' = Typing(line, n - 1)
    BY <1>1, <1>9, <1>10, <1>12 DEF Meant
<1>15. PICK u : u = At("data", <<>>, <<>>, 1)
    OBVIOUS
<1>16. u \in EditorStates /\ u.ran = 1 /\ u.rd = "data" /\ u.cs = <<>> /\ u.txt = <<>>
    <2>1. PICK e \in Seq(Bytes) : e = <<>>
        BY EmptySeq
    <2>2. PICK k \in Nat : k = 1
        OBVIOUS
    <2>3. /\ At("data", e, e, k) \in EditorStates
          /\ At("data", e, e, k).rd = "data" /\ At("data", e, e, k).cs = e
          /\ At("data", e, e, k).txt = e /\ At("data", e, e, k).ran = k
        BY WithinKey
    <2> QED
        BY <1>15, <2>1, <2>2, <2>3
<1>17. b \notin Stops
    BY <1>1, <1>2 DEF Returns, Stops
<1>18. Fed(Editing, b) = u
    BY <1>1, <1>2, <1>15, <1>17, FedOutside
<1>19. PICK v \in EditorStates : Leads(u, wire, lines, v) /\ (v.rd = "over" \/ v = Meant)
    BY <1>3, <1>8, <1>18 DEF Reaches
<1>20. u.ran >= 1
    BY <1>16
<1>21. Leads(Less(u), wire, Tail(lines), Less(v)) /\ v.ran >= 1
    BY <1>5, <1>16, <1>19, <1>20, LeadsShorter
<1>22. Less(v) \in EditorStates
    <2>1. 0 \in Bytes
        OBVIOUS
    <2> QED
        BY <1>21, <2>1, SeenLess
<1>23. Less(v).rd = "over" \/ Less(v) = Typing(line, n - 1)
    <2>1. CASE v.rd = "over"
        BY <2>1 DEF Less, At
    <2>2. CASE v = Meant
        <3>1. v.rd = "data" /\ v.cs = <<>> /\ v.txt = line /\ v.ran = n
            BY <1>5, <1>13, <2>2, BetweenKeys
        <3> QED
            BY <3>1 DEF Less, Typing
    <2> QED
        BY <1>19, <2>1, <2>2
<1>24. Reaches(Less(u), wire, Tail(lines), Typing(line, n - 1))
    BY <1>21, <1>22, <1>23 DEF Reaches
<1>25. Less(u) = At("data", <<>>, <<>>, 0)
    <2>1. 1 - 1 = 0
        OBVIOUS
    <2> QED
        BY <1>16, <2>1 DEF Less
<1>26. Line' = <<>>
    BY NothingVisible
<1>27. Upcoming' = At("data", <<>>, <<>>, 0)
    BY <1>1, <1>3, <1>26 DEF Upcoming, Editing
<1>28. Reaches(Upcoming', wire', entered', Meant')
    BY <1>1, <1>10, <1>14, <1>24, <1>25, <1>27
<1> QED
    BY <1>1, <1>11, <1>28 DEF KeysInv

\* Conversation and the end of a session leave the keys alone.
LEMMA KeysAlone ==
    IInv /\ KeysInv /\ (HearsRefusal \/ HearsJoined \/ HearsText \/ HearsOwnExit \/ TakesStop)
        => KeysInv'
<1> SUFFICES ASSUME IInv, KeysInv,
                    HearsRefusal \/ HearsJoined \/ HearsText \/ HearsOwnExit \/ TakesStop
             PROVE  KeysInv'
    OBVIOUS
<1>1. CASE TakesStop
    BY <1>1 DEF TakesStop, KeysInv
<1>2. CASE Hears
    <2>1. UNCHANGED <<wire, line, entered, reader, handed, telnet, lineBuffer, cursorColumn,
                      controlSequence, asEntered>>
        BY <1>2 DEF Hears, keyboard, network, editor
    <2>2. Upcoming' = Upcoming /\ Editing' = Editing /\ Meant' = Meant
        BY <2>1 DEF Upcoming, Editing, Line, Meant
    <2> QED
        BY <2>1, <2>2 DEF KeysInv
<1> QED
    BY <1>1, <1>2 DEF HearsRefusal, HearsJoined, HearsText, HearsOwnExit

LEMMA KeysTaken == IInv /\ KeysInv /\ Doppelganger => KeysInv'
<1> SUFFICES ASSUME IInv, KeysInv, Doppelganger
             PROVE  KeysInv'
    OBVIOUS
<1>1. CASE Edits
    BY <1>1, SequenceByteTaken, EditTaken, LetterTaken DEF Edits
<1>2. CASE LoginLine \/ RunsAtOnce \/ RunsFailingCreate \/ RunsSay \/ RunsJoin \/ RunsExit
    <2>1. Runs("Username") \/ Runs("Password") \/ Runs("Command")
        BY <1>2 DEF LoginLine, RunsAtOnce, RunsFailingCreate, RunsSay, RunsJoin, RunsExit
    <2> QED
        BY <2>1, LineRun
<1> QED
    BY <1>1, <1>2, KeysAlone DEF Doppelganger

\* A new connection.
LEMMA NothingSent ==
    ASSUME NEW s, s = At("data", <<>>, <<>>, 0)
    PROVE  Reaches(s, <<>>, <<>>, s)
<1>1. PICK e \in Seq(Bytes) : e = <<>>
    BY EmptySeq
<1>2. At("data", e, e, 0) \in EditorStates
    BY WithinKey
<1>3. s \in EditorStates
    BY <1>1, <1>2
<1>4. Leads(s, <<>>, <<>>, s)
    BY <1>3, LeadsNowhere
<1> QED
    BY <1>3, <1>4 DEF Reaches

LEMMA KeysFresh == Reconnects => KeysInv'
<1> SUFFICES ASSUME Reconnects
             PROVE  KeysInv'
    OBVIOUS
<1>1. /\ wire' = <<>> /\ line' = <<>> /\ entered' = <<>> /\ reader' = "data" /\ handed' = <<>>
      /\ telnet' = "reading" /\ lineBuffer' = <<>> /\ cursorColumn' = 0
      /\ controlSequence' = <<>> /\ asEntered' = TRUE
    BY DEF Reconnects
<1>2. Line' = <<>>
    BY <1>1, SubSeqEmpty DEF Line
<1>3. Upcoming' = At("data", <<>>, <<>>, 0)
    BY <1>1, <1>2 DEF Upcoming, Editing
<1>4. Meant' = At("data", <<>>, <<>>, 0)
    <2>1. Len(<<>>) = 0
        OBVIOUS
    <2> QED
        BY <1>1, <2>1 DEF Meant, Typing
<1>5. Reaches(Upcoming', wire', entered', Meant')
    BY <1>1, <1>3, <1>4, NothingSent
<1> QED
    BY <1>1, <1>5 DEF KeysInv

LEMMA KeysFirst == Init => KeysInv
<1> SUFFICES ASSUME Init
             PROVE  KeysInv
    OBVIOUS
<1>1. /\ wire = <<>> /\ line = <<>> /\ entered = <<>> /\ reader = "data" /\ handed = <<>>
      /\ telnet = "reading" /\ lineBuffer = <<>> /\ cursorColumn = 0
      /\ controlSequence = <<>> /\ asEntered = TRUE
    BY DEF Init
<1>2. Line = <<>>
    BY <1>1, SubSeqEmpty DEF Line
<1>3. Upcoming = At("data", <<>>, <<>>, 0)
    BY <1>1, <1>2 DEF Upcoming, Editing
<1>4. Meant = At("data", <<>>, <<>>, 0)
    <2>1. Len(<<>>) = 0
        OBVIOUS
    <2> QED
        BY <1>1, <2>1 DEF Meant, Typing
<1>5. Reaches(Upcoming, wire, entered, Meant)
    BY <1>1, <1>3, <1>4, NothingSent
<1> QED
    BY <1>1, <1>5 DEF KeysInv

LEMMA KeysKeep == IInv /\ KeysInv /\ [Next]_vars => KeysInv'
<1> SUFFICES ASSUME IInv, KeysInv, [Next]_vars
             PROVE  KeysInv'
    OBVIOUS
<1>1. CASE UNCHANGED vars
    <2>1. UNCHANGED <<wire, line, entered, reader, handed, telnet, lineBuffer, cursorColumn,
                      controlSequence, asEntered>>
        BY <1>1 DEF vars, keyboard, network, editor
    <2>2. Upcoming' = Upcoming /\ Editing' = Editing /\ Meant' = Meant
        BY <2>1 DEF Upcoming, Editing, Line, Meant
    <2> QED
        BY <2>1, <2>2 DEF KeysInv
<1> QED
    BY <1>1, KeysSent, KeysRead, KeysTaken, KeysFresh DEF Next

\* The bytes under way run the lines the user entered, and come to the line
\* he means, whatever is between his keys.
THEOREM KeysAreFollowed == Spec => []KeysInv
<1>1. Init => IInv /\ KeysInv
    BY InitHolds, KeysFirst
<1>2. IInv /\ KeysInv /\ [Next]_vars => (IInv /\ KeysInv)'
    BY NextKeeps, KeysKeep
<1> QED
    BY <1>1, <1>2, PTL DEF Spec

\* Every line is run as it was entered, once and in order.
THEOREM LinesAreRunAsEntered == Spec => []LinesRunAsEntered
<1>1. KeysInv => LinesRunAsEntered
    BY DEF KeysInv, LinesRunAsEntered
<1> QED
    BY <1>1, KeysAreFollowed, PTL

\* When all that was typed has been taken, the editor has the user's line and
\* no line of his is missing.
THEOREM EditorKeepsUp == Spec => []EditorFollowsKeys
<1>1. ASSUME IInv, KeysInv
      PROVE  EditorFollowsKeys
    <2> SUFFICES ASSUME telnet = "reading", Quiet
                 PROVE  Line = line /\ entered = <<>>
        BY DEF EditorFollowsKeys
    <2>1. wire = <<>> /\ handed = <<>> /\ reader = "data"
        BY DEF Quiet
    <2>2. Reaches(Editing, <<>>, entered, Meant)
        BY <1>1, <2>1 DEF KeysInv, Upcoming
    <2>3. /\ Editing \in EditorStates /\ Editing.rd = "data"
          /\ Editing.txt = Line /\ Editing.ran = 0
        BY <1>1, <2>1, EditingNow
    <2>4. Editing = Meant
        BY <2>2, <2>3, LeadsNowhere DEF Reaches
    <2>5. line \in Seq(Bytes) /\ entered \in Seq(Seq(Bytes)) /\ Len(entered) \in Nat
        BY <1>1, KeyTypes
    <2>6. Meant.txt = line /\ Meant.ran = Len(entered)
        BY <2>5, BetweenKeys DEF Meant
    <2>7. Line = line /\ Len(entered) = 0
        BY <2>3, <2>4, <2>6
    <2> QED
        BY <2>5, <2>7, EmptySeq
<1> QED
    BY <1>1, KeysAreFollowed, TerminalInvariant, PTL
=============================================================================
