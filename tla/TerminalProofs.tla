--------------------------- MODULE TerminalProofs ---------------------------
(***************************************************************************)
(* IInv of Terminal is an invariant, for any letters, secrets and bounds,  *)
(* and what follows from it for the screen.  Every action is a lemma; what *)
(* many of them do (a key, a prompt, a byte read, a byte taken) is a lemma *)
(* of its own, in the terms of the variables it changes.                   *)
(***************************************************************************)
EXTENDS Terminal, SequenceTheorems, TLAPS

USE DEF Bytes, IAC, ESC, Asks, Said

-----------------------------------------------------------------------------
LEMMA BeginningBytes ==
    ASSUME NEW S, NEW s \in Seq(S), NEW n \in 0..Len(s)
    PROVE  /\ SubSeq(s, 1, n) \in Seq(S)
           /\ Len(SubSeq(s, 1, n)) = n
           /\ \A i \in 1..n : SubSeq(s, 1, n)[i] = s[i]
<1>1. \A i \in 1..n : s[i] \in S
    BY ElementOfSeq
<1>2. n \in Int /\ n - 1 + 1 = n /\ \A i \in 1..n : 1 + i - 1 = i
    OBVIOUS
<1> QED
    BY <1>1, <1>2, SubSeqProperties

LEMMA FrontBytes ==
    ASSUME NEW S, NEW s \in Seq(S), Len(s) > 0
    PROVE  /\ SubSeq(s, 1, Len(s) - 1) \in Seq(S)
           /\ Len(SubSeq(s, 1, Len(s) - 1)) = Len(s) - 1
           /\ \A i \in 1..(Len(s) - 1) : SubSeq(s, 1, Len(s) - 1)[i] = s[i]
<1> DEFINE n == Len(s) - 1
<1>1. n \in 0..Len(s)
    OBVIOUS
<1> HIDE DEF n
<1>2. /\ SubSeq(s, 1, n) \in Seq(S)
      /\ Len(SubSeq(s, 1, n)) = n
      /\ \A i \in 1..n : SubSeq(s, 1, n)[i] = s[i]
    BY <1>1, BeginningBytes
<1> QED
    BY <1>2 DEF n

\* A suffix, byte by byte.
LEMMA SuffixBytes ==
    ASSUME NEW S, NEW v \in Seq(S), NEW t \in Seq(S)
    PROVE  IsSuffix(v, t) <=>
               /\ Len(v) <= Len(t)
               /\ \A i \in 1..Len(v) : v[i] = t[Len(t) - Len(v) + i]
<1> DEFINE rv == Reverse(v)
           rt == Reverse(t)
<1>1. /\ rv \in Seq(S) /\ Len(rv) = Len(v)
      /\ \A i \in 1..Len(v) : rv[i] = v[Len(v) - i + 1]
    BY DEF Reverse
<1>2. /\ rt \in Seq(S) /\ Len(rt) = Len(t)
      /\ \A i \in 1..Len(t) : rt[i] = t[Len(t) - i + 1]
    BY DEF Reverse
<1>3. IsSuffix(v, t) <=> Len(rv) <= Len(rt) /\ SubSeq(rv, 1, Len(rv)) = SubSeq(rt, 1, Len(rv))
    BY DEF IsSuffix, IsPrefix
<1> HIDE DEF rv, rt
<1>4. ASSUME Len(v) <= Len(t)
      PROVE  SubSeq(rv, 1, Len(rv)) = SubSeq(rt, 1, Len(rv))
                <=> \A i \in 1..Len(v) : rv[i] = rt[i]
    BY <1>1, <1>2, <1>4
<1>5. ASSUME Len(v) <= Len(t)
      PROVE  (\A i \in 1..Len(v) : rv[i] = rt[i])
                <=> \A i \in 1..Len(v) : v[i] = t[Len(t) - Len(v) + i]
    <2>1. ASSUME \A i \in 1..Len(v) : rv[i] = rt[i], NEW i \in 1..Len(v)
          PROVE  v[i] = t[Len(t) - Len(v) + i]
        <3>1. Len(v) - i + 1 \in 1..Len(v) /\ Len(v) - i + 1 \in 1..Len(t)
            BY <1>5
        <3>2. rv[Len(v) - i + 1] = rt[Len(v) - i + 1]
            BY <2>1, <3>1
        <3>3. rv[Len(v) - i + 1] = v[Len(v) - (Len(v) - i + 1) + 1]
            BY <1>1, <3>1
        <3>4. rt[Len(v) - i + 1] = t[Len(t) - (Len(v) - i + 1) + 1]
            BY <1>2, <3>1
        <3>5. /\ Len(v) - (Len(v) - i + 1) + 1 = i
              /\ Len(t) - (Len(v) - i + 1) + 1 = Len(t) - Len(v) + i
            OBVIOUS
        <3> QED
            BY <3>2, <3>3, <3>4, <3>5
    <2>2. ASSUME \A i \in 1..Len(v) : v[i] = t[Len(t) - Len(v) + i], NEW i \in 1..Len(v)
          PROVE  rv[i] = rt[i]
        <3>1. Len(v) - i + 1 \in 1..Len(v) /\ i \in 1..Len(t)
            BY <1>5
        <3>2. v[Len(v) - i + 1] = t[Len(t) - Len(v) + (Len(v) - i + 1)]
            BY <2>2, <3>1
        <3>3. rv[i] = v[Len(v) - i + 1] /\ rt[i] = t[Len(t) - i + 1]
            BY <1>1, <1>2, <3>1
        <3>4. Len(t) - Len(v) + (Len(v) - i + 1) = Len(t) - i + 1
            OBVIOUS
        <3> QED
            BY <3>2, <3>3, <3>4
    <2> QED
        BY <2>1, <2>2
<1> QED
    BY <1>1, <1>2, <1>3, <1>4, <1>5

LEMMA SuffixOfConcat ==
    ASSUME NEW S, NEW p \in Seq(S), NEW v \in Seq(S)
    PROVE  IsSuffix(v, p \o v)
<1> DEFINE t == p \o v
<1>1. /\ t \in Seq(S) /\ Len(t) = Len(p) + Len(v)
      /\ \A i \in 1..Len(v) : t[Len(p) + i] = v[i]
    OBVIOUS
<1>2. Len(v) <= Len(t) /\ Len(t) - Len(v) = Len(p)
    BY <1>1
<1> HIDE DEF t
<1>3. IsSuffix(v, t)
    BY <1>1, <1>2, SuffixBytes
<1> QED
    BY <1>3 DEF t

LEMMA EmptyIsSuffix ==
    ASSUME NEW S, NEW t \in Seq(S)
    PROVE  IsSuffix(<<>>, t)
<1> DEFINE e == <<>>
<1>1. e \in Seq(S) /\ Len(e) = 0
    OBVIOUS
<1>2. Len(e) <= Len(t) /\ \A i \in 1..Len(e) : e[i] = t[Len(t) - Len(e) + i]
    BY <1>1
<1> HIDE DEF e
<1>3. IsSuffix(e, t)
    BY <1>1, <1>2, SuffixBytes
<1> QED
    BY <1>3 DEF e

\* Both grow by the same byte.
LEMMA SuffixGrows ==
    ASSUME NEW S, NEW v \in Seq(S), NEW t \in Seq(S), NEW b \in S, IsSuffix(v, t)
    PROVE  IsSuffix(Append(v, b), Append(t, b))
<1>1. Len(v) <= Len(t) /\ \A i \in 1..Len(v) : v[i] = t[Len(t) - Len(v) + i]
    BY SuffixBytes
<1> DEFINE v1 == Append(v, b)
           t1 == Append(t, b)
<1>2. /\ v1 \in Seq(S) /\ Len(v1) = Len(v) + 1
      /\ \A i \in 1..Len(v) : v1[i] = v[i]
      /\ v1[Len(v) + 1] = b
    OBVIOUS
<1>3. /\ t1 \in Seq(S) /\ Len(t1) = Len(t) + 1
      /\ \A i \in 1..Len(t) : t1[i] = t[i]
      /\ t1[Len(t) + 1] = b
    OBVIOUS
<1> HIDE DEF v1, t1
<1>4. ASSUME NEW i \in 1..Len(v1)
      PROVE  v1[i] = t1[Len(t1) - Len(v1) + i]
    <2>1. Len(t1) - Len(v1) + i = Len(t) - Len(v) + i
        BY <1>2, <1>3
    <2>2. CASE i \in 1..Len(v)
        <3>1. Len(t) - Len(v) + i \in 1..Len(t)
            BY <1>1, <2>2
        <3> QED
            BY <1>1, <1>2, <1>3, <2>1, <2>2, <3>1
    <2>3. CASE i = Len(v) + 1
        <3>1. Len(t) - Len(v) + i = Len(t) + 1
            BY <2>3
        <3> QED
            BY <1>2, <1>3, <2>1, <2>3, <3>1
    <2> QED
        BY <1>2, <2>2, <2>3
<1>5. Len(v1) <= Len(t1)
    BY <1>1, <1>2, <1>3
<1> QED
    BY <1>2, <1>3, <1>4, <1>5, SuffixBytes DEF v1, t1

\* Both lose their last byte.
LEMMA SuffixShrinks ==
    ASSUME NEW S, NEW v \in Seq(S), NEW t \in Seq(S), IsSuffix(v, t), Len(v) > 0
    PROVE  IsSuffix(SubSeq(v, 1, Len(v) - 1), SubSeq(t, 1, Len(t) - 1))
<1>1. Len(v) <= Len(t) /\ \A i \in 1..Len(v) : v[i] = t[Len(t) - Len(v) + i]
    BY SuffixBytes
<1> DEFINE v1 == SubSeq(v, 1, Len(v) - 1)
           t1 == SubSeq(t, 1, Len(t) - 1)
<1>2. /\ v1 \in Seq(S) /\ Len(v1) = Len(v) - 1
      /\ \A i \in 1..Len(v1) : v1[i] = v[i]
    BY FrontBytes
<1>3. /\ t1 \in Seq(S) /\ Len(t1) = Len(t) - 1
      /\ \A i \in 1..Len(t1) : t1[i] = t[i]
    <2>1. Len(t) > 0
        BY <1>1
    <2> QED
        BY <2>1, FrontBytes
<1> HIDE DEF v1, t1
<1>4. ASSUME NEW i \in 1..Len(v1)
      PROVE  v1[i] = t1[Len(t1) - Len(v1) + i]
    <2>1. /\ Len(t1) - Len(v1) + i = Len(t) - Len(v) + i
          /\ Len(t) - Len(v) + i \in 1..Len(t1)
          /\ i \in 1..Len(v)
        BY <1>1, <1>2, <1>3
    <2> QED
        BY <1>1, <1>2, <1>3, <2>1
<1>5. Len(v1) <= Len(t1)
    BY <1>1, <1>2, <1>3
<1> QED
    BY <1>2, <1>3, <1>4, <1>5, SuffixBytes DEF v1, t1

-----------------------------------------------------------------------------
LEMMA ErasedType ==
    ASSUME NEW S, NEW t \in Seq(S), NEW n \in Nat
    PROVE  /\ Erased(t, n) \in Seq(S)
           /\ Len(Erased(t, n)) = IF n >= Len(t) THEN 0 ELSE Len(t) - n
           /\ \A i \in 1..Len(Erased(t, n)) : i \in 1..Len(t) /\ Erased(t, n)[i] = t[i]
           /\ n >= Len(t) => Erased(t, n) = <<>>
<1>1. CASE n >= Len(t)
    BY <1>1 DEF Erased
<1>2. CASE ~(n >= Len(t))
    <2>1. Erased(t, n) = SubSeq(t, 1, Len(t) - n)
        BY <1>2 DEF Erased
    <2>2. Len(t) - n \in 1..Len(t)
        BY <1>2
    <2> QED
        BY <1>2, <2>1, <2>2
<1> QED
    BY <1>1, <1>2

\* What is before the end of a line is what is left of it.
LEMMA ErasedConcat ==
    ASSUME NEW S, NEW p \in Seq(S), NEW v \in Seq(S)
    PROVE  /\ Erased(p \o v, Len(v)) = p
           /\ Erased(v, Len(v)) = <<>>
           /\ Len(v) > 0 => Erased(p \o v, 1) = p \o SubSeq(v, 1, Len(v) - 1)
           /\ Len(v) > 0 => Erased(v, 1) = SubSeq(v, 1, Len(v) - 1)
<1> DEFINE t == p \o v
<1>1. /\ t \in Seq(S) /\ Len(t) = Len(p) + Len(v)
      /\ \A i \in 1..Len(p) : t[i] = p[i]
      /\ \A i \in 1..Len(v) : t[Len(p) + i] = v[i]
    OBVIOUS
<1> HIDE DEF t
<1>2. Erased(t, Len(v)) = p
    <2>1. /\ Erased(t, Len(v)) \in Seq(S)
          /\ Len(Erased(t, Len(v))) = Len(p)
          /\ \A i \in 1..Len(p) : Erased(t, Len(v))[i] = t[i]
        BY <1>1, ErasedType
    <2> QED
        BY <1>1, <2>1, SeqEqual
<1>3. Erased(v, Len(v)) = <<>>
    BY ErasedType
<1>4. ASSUME Len(v) > 0
      PROVE  Erased(t, 1) = p \o SubSeq(v, 1, Len(v) - 1)
    <2> DEFINE w == SubSeq(v, 1, Len(v) - 1)
    <2>1. /\ w \in Seq(S) /\ Len(w) = Len(v) - 1
          /\ \A i \in 1..Len(w) : w[i] = v[i]
        BY <1>4, FrontBytes
    <2> HIDE DEF w
    <2>2. /\ p \o w \in Seq(S) /\ Len(p \o w) = Len(p) + Len(w)
          /\ \A i \in 1..Len(p) : (p \o w)[i] = p[i]
          /\ \A i \in 1..Len(w) : (p \o w)[Len(p) + i] = w[i]
        <3> DEFINE r == p \o w
        <3>1. /\ r \in Seq(S) /\ Len(r) = Len(p) + Len(w)
              /\ \A i \in 1..Len(p) + Len(w) :
                    r[i] = IF i <= Len(p) THEN p[i] ELSE w[i - Len(p)]
            BY <2>1, ConcatProperties
        <3> HIDE DEF r
        <3>2. Len(p) \in Nat /\ Len(w) \in Nat
            BY <2>1
        <3>3. \A i \in 1..Len(p) : r[i] = p[i]
            BY <3>1, <3>2
        <3>4. ASSUME NEW i \in 1..Len(w)
              PROVE  r[Len(p) + i] = w[i]
            <4>1. /\ Len(p) + i \in 1..Len(p) + Len(w)
                  /\ ~(Len(p) + i <= Len(p))
                  /\ Len(p) + i - Len(p) = i
                BY <3>2
            <4> QED
                BY <3>1, <4>1
        <3> QED
            BY <3>1, <3>3, <3>4 DEF r
    <2> DEFINE u == Erased(t, 1)
    <2>3. /\ u \in Seq(S)
          /\ Len(u) = Len(p) + Len(w)
          /\ \A i \in 1..Len(p) + Len(w) : u[i] = t[i]
        <3>1. /\ u \in Seq(S)
              /\ Len(u) = IF 1 >= Len(t) THEN 0 ELSE Len(t) - 1
              /\ \A i \in 1..Len(u) : u[i] = t[i]
            <4> DEFINE n == 1
            <4>1. n \in Nat
                OBVIOUS
            <4> HIDE DEF n
            <4>2. /\ Erased(t, n) \in Seq(S)
                  /\ Len(Erased(t, n)) = IF n >= Len(t) THEN 0 ELSE Len(t) - n
                  /\ \A i \in 1..Len(Erased(t, n)) : Erased(t, n)[i] = t[i]
                BY <1>1, <4>1, ErasedType
            <4> QED
                BY <4>2 DEF n
        <3> HIDE DEF u
        <3> QED
            BY <1>1, <1>4, <2>1, <3>1
    <2> HIDE DEF u
    <2>4. ASSUME NEW i \in 1..Len(p) + Len(w)
          PROVE  t[i] = (p \o w)[i]
        <3>1. CASE i \in 1..Len(p)
            BY <1>1, <2>2, <3>1
        <3>2. CASE i \notin 1..Len(p)
            <4>1. i - Len(p) \in 1..Len(w) /\ Len(p) + (i - Len(p)) = i
                BY <2>1, <3>2
            <4>2. i - Len(p) \in 1..Len(v)
                BY <2>1, <4>1
            <4> QED
                BY <1>1, <2>1, <2>2, <4>1, <4>2
        <3> QED
            BY <3>1, <3>2
    <2> DEFINE r == p \o w
    <2> HIDE DEF r
    <2>5. r \in Seq(S) /\ Len(r) = Len(u) /\ \A i \in 1..Len(u) : u[i] = r[i]
        BY <2>2, <2>3, <2>4 DEF r
    <2>6. u = r
        BY <2>3, <2>5, SeqEqual
    <2> QED
        BY <2>6 DEF u, r, w
<1>5. ASSUME Len(v) > 0
      PROVE  Erased(v, 1) = SubSeq(v, 1, Len(v) - 1)
    <2>1. CASE 1 >= Len(v)
        <3>1. Erased(v, 1) = <<>>
            BY <2>1 DEF Erased
        <3>2. SubSeq(v, 1, Len(v) - 1) = <<>>
            BY <2>1, SubSeqEmpty
        <3> QED
            BY <3>1, <3>2
    <2>2. CASE ~(1 >= Len(v))
        BY <2>2 DEF Erased
    <2> QED
        BY <2>1, <2>2
<1> QED
    BY <1>2, <1>3, <1>4, <1>5 DEF t

-----------------------------------------------------------------------------
NoSecrets(text) == \A i \in 1..Len(text) : text[i] \notin Secrets

LEMMA NeverShown ==
    ASSUME NEW t \in Seq(Bytes)
    PROVE  Range(t) \cap Secrets = {} <=> NoSecrets(t)
BY DEF Range, NoSecrets

\* Bytes that are no secrets, and those of prompts and keys among them.
Plain == Bytes \ Secrets

LEMMA PlainBytes ==
    /\ \A t \in Seq(Plain) : t \in Seq(Bytes) /\ NoSecrets(t)
    /\ 0..31 \cup {35, 62, 63, 65, 68, 80, 91, 127} \cup 240..255 \subseteq Plain
<1>1. ASSUME NEW t \in Seq(Plain)
      PROVE  t \in Seq(Bytes) /\ NoSecrets(t)
    <2>1. \A i \in 1..Len(t) : t[i] \in Plain
        BY ElementOfSeq
    <2>2. t \in Seq(Bytes)
        BY SeqMonotonic DEF Plain
    <2> QED
        BY <2>1, <2>2 DEF Plain, NoSecrets
<1>2. 0..31 \cup {35, 62, 63, 65, 68, 80, 91, 127} \cup 240..255 \subseteq Plain
    BY BytesAssumption, SecretsAssumption DEF Plain
<1> QED
    BY <1>1, <1>2

\* What the prompt repeats of the line buffer.
LEMMA LineBytes ==
    ASSUME TypeOK
    PROVE  /\ Line \in Seq(Bytes)
           /\ Len(Line) = cursorColumn
           /\ \A i \in 1..cursorColumn : Line[i] = lineBuffer[i]
BY BeginningBytes DEF TypeOK, Line

LEMMA PromptBytes == Prompt \in Seq(Bytes) /\ Len(Prompt) \in 1..2 /\ NoSecrets(Prompt)
<1>1. CASE Prompt = <<63>>
    BY <1>1, SecretsAssumption DEF NoSecrets
<1>2. CASE Prompt = <<35, 62>>
    BY <1>2, SecretsAssumption DEF NoSecrets
<1>3. CASE Prompt = <<62>>
    BY <1>3, SecretsAssumption DEF NoSecrets
<1> QED
    BY <1>1, <1>2, <1>3 DEF Prompt

LEMMA ConcatNoSecrets ==
    ASSUME NEW p \in Seq(Bytes), NEW v \in Seq(Bytes), NoSecrets(p), NoSecrets(v)
    PROVE  p \o v \in Seq(Bytes) /\ NoSecrets(p \o v)
<1> DEFINE t == p \o v
<1>1. /\ t \in Seq(Bytes) /\ Len(t) = Len(p) + Len(v)
      /\ \A i \in 1..Len(p) + Len(v) : t[i] = IF i <= Len(p) THEN p[i] ELSE v[i - Len(p)]
    BY ConcatProperties
<1> HIDE DEF t
<1>2. ASSUME NEW i \in 1..Len(t)
      PROVE  t[i] \notin Secrets
    <2>1. CASE i <= Len(p)
        BY <1>1, <2>1 DEF NoSecrets
    <2>2. CASE ~(i <= Len(p))
        <3>1. i - Len(p) \in 1..Len(v)
            BY <1>1, <2>2
        <3> QED
            BY <1>1, <2>2, <3>1 DEF NoSecrets
    <2> QED
        BY <2>1, <2>2
<1> QED
    BY <1>1, <1>2 DEF t, NoSecrets

LEMMA ShowsText ==
    ASSUME NEW text \in Seq(Bytes), Shows(text)
    PROVE  /\ screen' \in Seq(Bytes)
           /\ garbled' \in BOOLEAN
           /\ ~garbled' => ~garbled /\ screen' = text
           /\ NoSecrets(text) => PasswordNeverShown'
<1>1. garbled' \in BOOLEAN /\ (~garbled' => ~garbled)
    BY DEF Shows
<1>2. screen' = <<>> \/ screen' = text
    BY DEF Shows
<1>3. <<>> \in Seq(Bytes) /\ NoSecrets(<<>>)
    BY DEF NoSecrets
<1>4. screen' \in Seq(Bytes)
    BY <1>2, <1>3
<1>5. ~garbled' => screen' = text
    BY DEF Shows
<1>6. NoSecrets(text) => PasswordNeverShown'
    BY <1>2, <1>3, <1>4, NeverShown DEF PasswordNeverShown
<1> QED
    BY <1>1, <1>4, <1>5, <1>6

\* The prompt repeats the line and no secret, if the line holds none.
LEMMA PromptsShow ==
    ASSUME lineBuffer' \in Seq(Bytes), cursorColumn' \in 0..Len(lineBuffer'),
           mode' # "Command" => cursorColumn' = 0,
           mode' = "Command" => \A i \in 1..cursorColumn' : lineBuffer'[i] \notin Secrets,
           Prompts
    PROVE  /\ screen' \in Seq(Bytes)
           /\ garbled' \in BOOLEAN
           /\ promptLen' \in 0..2
           /\ mode' = "Command" => promptLen' = Len(Prompt')
           /\ ScreenShowsLine'
           /\ PasswordNeverShown'
<1> DEFINE p == Prompt'
           v == Line'
<1>1. p \in Seq(Bytes) /\ Len(p) \in 1..2 /\ NoSecrets(p)
    <2>1. CASE p = <<63>>
        BY <2>1, SecretsAssumption DEF NoSecrets
    <2>2. CASE p = <<35, 62>>
        BY <2>2, SecretsAssumption DEF NoSecrets
    <2>3. CASE p = <<62>>
        BY <2>3, SecretsAssumption DEF NoSecrets
    <2> QED
        BY <2>1, <2>2, <2>3 DEF Prompt
<1>2. /\ v \in Seq(Bytes) /\ Len(v) = cursorColumn'
      /\ \A i \in 1..cursorColumn' : v[i] = lineBuffer'[i]
    BY BeginningBytes DEF Line
<1>3. promptLen' = IF mode' = "Command" THEN Len(p) ELSE 0
    BY DEF Prompts
<1>4. Shows(IF mode' = "Command" THEN p \o v ELSE p)
    BY DEF Prompts
<1>5. Visible' = IF mode' = "Password" THEN <<>> ELSE v
    BY DEF Visible, EchoOn
<1>6. ScreenShowsLine' <=>
        (~garbled' => /\ IsSuffix(Visible', screen')
                      /\ chat' # "joining" => screen' \in {p \o Visible', Visible'})
    BY DEF ScreenShowsLine
<1> HIDE DEF p, v
<1>7. CASE mode' = "Command"
    <2>1. NoSecrets(v)
        BY <1>2, <1>7 DEF NoSecrets
    <2>2. p \o v \in Seq(Bytes) /\ NoSecrets(p \o v)
        BY <1>1, <1>2, <2>1, ConcatNoSecrets
    <2>3. Shows(p \o v)
        BY <1>4, <1>7
    <2>4. /\ screen' \in Seq(Bytes) /\ garbled' \in BOOLEAN
          /\ ~garbled' => screen' = p \o v
          /\ PasswordNeverShown'
        BY <2>2, <2>3, ShowsText
    <2>5. IsSuffix(v, p \o v)
        BY <1>1, <1>2, SuffixOfConcat
    <2>6. ScreenShowsLine'
        BY <1>5, <1>6, <1>7, <2>4, <2>5
    <2> QED
        BY <1>1, <1>3, <1>7, <2>4, <2>6 DEF p
<1>8. CASE mode' # "Command"
    <2>1. Visible' = <<>> /\ <<>> \in Seq(Bytes)
        BY <1>2, <1>5, <1>8
    <2>2. Shows(p)
        BY <1>4, <1>8
    <2>3. /\ screen' \in Seq(Bytes) /\ garbled' \in BOOLEAN
          /\ ~garbled' => screen' = p
          /\ PasswordNeverShown'
        BY <1>1, <2>2, ShowsText
    <2>4. IsSuffix(<<>>, p) /\ p \o <<>> = p
        BY <1>1, EmptyIsSuffix, ConcatEmptySeq
    <2>5. ScreenShowsLine'
        BY <1>6, <2>1, <2>3, <2>4
    <2> QED
        BY <1>3, <1>8, <2>3, <2>5
<1> QED
    BY <1>7, <1>8

-----------------------------------------------------------------------------
LEMMA InitHolds == Init => IInv
<1> SUFFICES ASSUME Init
             PROVE  IInv
    OBVIOUS
<1> DEFINE e == <<>>
           q == <<63>>
<1>1. /\ wire = e /\ line = e /\ entered = e
      /\ reader = "data" /\ handed = e /\ telnet = "reading"
      /\ lineBuffer = e /\ cursorColumn = 0 /\ controlSequence = e
      /\ mode = "Username" /\ chat = "off" /\ named = FALSE
      /\ promptLen = 0 /\ screen = q /\ above = e /\ garbled = FALSE
      /\ asEntered = TRUE
    BY DEF Init
<1>2. /\ Len(e) = 0
      /\ e \in Seq(Bytes)
      /\ e \in Seq(Letters \cup Secrets)
      /\ e \in Seq(Seq(Letters \cup Secrets))
    OBVIOUS
<1>3. q \in Seq(Bytes) /\ Range(q) \cap Secrets = {}
    <2>1. 63 \in Plain
        BY PlainBytes
    <2>2. q \in Seq(Plain)
        BY <2>1
    <2> QED
        BY <2>2, PlainBytes, NeverShown
<1>4. Prompt = q /\ Line = e
    BY <1>1, SubSeqEmpty DEF Prompt, Line
<1>5. IsSuffix(e, q) /\ q \o e = q
    BY <1>3, EmptyIsSuffix, ConcatEmptySeq
<1> HIDE DEF e, q
<1>6. TypeOK
    <2>1. named \in BOOLEAN /\ asEntered \in BOOLEAN /\ garbled \in BOOLEAN
        BY <1>1
    <2>2. /\ wire \in Seq(Bytes) /\ handed \in Seq(Bytes) /\ Len(handed) <= 1
          /\ line \in Seq(Letters \cup Secrets)
          /\ entered \in Seq(Seq(Letters \cup Secrets))
        BY <1>1, <1>2
    <2>3. /\ lineBuffer \in Seq(Bytes) /\ cursorColumn \in 0..Len(lineBuffer)
          /\ controlSequence \in Seq(Bytes) /\ Len(controlSequence) <= 2
        BY <1>1, <1>2
    <2>4. screen \in Seq(Bytes) /\ above \in Seq(Bytes) /\ promptLen \in 0..2
        BY <1>1, <1>2, <1>3
    <2>5. /\ reader = "data" /\ telnet = "reading"
          /\ mode = "Username" /\ chat = "off"
        BY <1>1
    <2> QED
        BY <2>1, <2>2, <2>3, <2>4, <2>5 DEF TypeOK
<1>7. ScreenShowsLine
    BY <1>1, <1>4, <1>5 DEF ScreenShowsLine, Visible, EchoOn
<1>8. PasswordNeverShown
    BY <1>1, <1>3 DEF PasswordNeverShown
<1>9. SecretsInTheirPlace /\ PromptIsMeasured
    <2>1. DOMAIN e = {}
        BY DEF e
    <2> QED
        BY <1>1, <2>1 DEF SecretsInTheirPlace, PromptIsMeasured, e
<1>10. ConversationIsUnbroken
    BY <1>1 DEF ConversationIsUnbroken, e
<1> QED
    BY <1>6, <1>7, <1>8, <1>9, <1>10 DEF IInv

LEMMA FreshHolds == Reconnects => IInv'
<1> SUFFICES ASSUME Reconnects
             PROVE  IInv'
    OBVIOUS
<1> DEFINE e == <<>>
           q == <<63>>
<1>1. /\ wire' = e /\ line' = e /\ entered' = e
      /\ reader' = "data" /\ handed' = e /\ telnet' = "reading"
      /\ lineBuffer' = e /\ cursorColumn' = 0 /\ controlSequence' = e
      /\ mode' = "Username" /\ chat' = "off" /\ named' = FALSE
      /\ promptLen' = 0 /\ screen' = q /\ above' = e /\ garbled' = FALSE
      /\ asEntered' = TRUE
    BY DEF Reconnects
<1>2. /\ Len(e) = 0
      /\ e \in Seq(Bytes)
      /\ e \in Seq(Letters \cup Secrets)
      /\ e \in Seq(Seq(Letters \cup Secrets))
    OBVIOUS
<1>3. q \in Seq(Bytes) /\ Range(q) \cap Secrets = {}
    <2>1. 63 \in Plain
        BY PlainBytes
    <2>2. q \in Seq(Plain)
        BY <2>1
    <2> QED
        BY <2>2, PlainBytes, NeverShown
<1>4. Prompt' = q /\ Line' = e
    BY <1>1, SubSeqEmpty DEF Prompt, Line
<1>5. IsSuffix(e, q) /\ q \o e = q
    BY <1>3, EmptyIsSuffix, ConcatEmptySeq
<1> HIDE DEF e, q
<1>6. TypeOK'
    <2>1. named' \in BOOLEAN /\ asEntered' \in BOOLEAN /\ garbled' \in BOOLEAN
        BY <1>1
    <2>2. /\ wire' \in Seq(Bytes) /\ handed' \in Seq(Bytes) /\ Len(handed') <= 1
          /\ line' \in Seq(Letters \cup Secrets)
          /\ entered' \in Seq(Seq(Letters \cup Secrets))
        BY <1>1, <1>2
    <2>3. /\ lineBuffer' \in Seq(Bytes) /\ cursorColumn' \in 0..Len(lineBuffer')
          /\ controlSequence' \in Seq(Bytes) /\ Len(controlSequence') <= 2
        BY <1>1, <1>2
    <2>4. screen' \in Seq(Bytes) /\ above' \in Seq(Bytes) /\ promptLen' \in 0..2
        BY <1>1, <1>2, <1>3
    <2>5. /\ reader' = "data" /\ telnet' = "reading"
          /\ mode' = "Username" /\ chat' = "off"
        BY <1>1
    <2> QED
        BY <2>1, <2>2, <2>3, <2>4, <2>5 DEF TypeOK
<1>7. ScreenShowsLine'
    BY <1>1, <1>4, <1>5 DEF ScreenShowsLine, Visible, EchoOn
<1>8. PasswordNeverShown'
    BY <1>1, <1>3 DEF PasswordNeverShown
<1>9. SecretsInTheirPlace' /\ PromptIsMeasured'
    <2>1. DOMAIN e = {}
        BY DEF e
    <2> QED
        BY <1>1, <2>1 DEF SecretsInTheirPlace, PromptIsMeasured, e
<1>10. ConversationIsUnbroken'
    BY <1>1 DEF ConversationIsUnbroken, e
<1> QED
    BY <1>6, <1>7, <1>8, <1>9, <1>10 DEF IInv

-----------------------------------------------------------------------------
\* A step that leaves the doppelganger and the screen alone.
LEMMA OffScreen ==
    ASSUME IInv, UNCHANGED <<editor, session, display, asEntered>>,
           wire' \in Seq(Bytes), handed' \in Seq(Bytes), Len(handed') <= 1,
           reader' \in {"data", "iac", "option", "sub", "subIAC"},
           telnet' \in {"reading", "closed", "quit"},
           line' \in Seq(Letters \cup Secrets),
           entered' \in Seq(Seq(Letters \cup Secrets)),
           \A i \in 1..Len(wire') : wire'[i] \in Secrets =>
                i = 1 /\ handed' = <<>> /\ mode = "Password",
           handed' # <<>> /\ handed'[1] \in Secrets => mode = "Password"
    PROVE  IInv'
<1> USE DEF editor, session, display
<1>1. TypeOK'
    BY DEF IInv, TypeOK
<1>2. ScreenShowsLine' /\ ConversationIsUnbroken' /\ PasswordNeverShown'
    BY DEF IInv, ScreenShowsLine, ConversationIsUnbroken, PasswordNeverShown,
           Visible, Line, EchoOn, Prompt
<1>3. SecretsInTheirPlace'
    <2>1. DOMAIN wire' = 1..Len(wire')
        OBVIOUS
    <2> QED
        BY <2>1 DEF IInv, SecretsInTheirPlace
<1>4. PromptIsMeasured'
    BY DEF IInv, PromptIsMeasured, Prompt
<1> QED
    BY <1>1, <1>2, <1>3, <1>4 DEF IInv

\* A key that is no secret, pressed at any time.
LEMMA KeyKeeps ==
    ASSUME IInv, NEW bytes \in Seq(Bytes), Sends(bytes), NoSecrets(bytes),
           line' \in Seq(Letters \cup Secrets),
           entered' \in Seq(Seq(Letters \cup Secrets))
    PROVE  IInv'
<1>1. /\ wire \in Seq(Bytes) /\ handed \in Seq(Bytes) /\ Len(handed) <= 1
      /\ reader \in {"data", "iac", "option", "sub", "subIAC"}
      /\ telnet \in {"reading", "closed", "quit"}
    BY DEF IInv, TypeOK
<1>2. /\ wire' = wire \o bytes
      /\ handed' = handed /\ reader' = reader /\ telnet' = telnet
      /\ UNCHANGED <<editor, session, display, asEntered>>
    BY DEF Sends, network
<1>3. /\ \A i \in 1..Len(wire) : wire[i] \in Secrets =>
            i = 1 /\ handed = <<>> /\ mode = "Password"
      /\ handed # <<>> /\ handed[1] \in Secrets => mode = "Password"
    <2>1. DOMAIN wire = 1..Len(wire)
        BY <1>1
    <2> QED
        BY <2>1 DEF IInv, SecretsInTheirPlace
<1> DEFINE w == wire \o bytes
<1>4. /\ w \in Seq(Bytes) /\ Len(w) = Len(wire) + Len(bytes)
      /\ \A i \in 1..Len(wire) + Len(bytes) :
            w[i] = IF i <= Len(wire) THEN wire[i] ELSE bytes[i - Len(wire)]
    BY <1>1, ConcatProperties
<1> HIDE DEF w
<1>5. ASSUME NEW i \in 1..Len(w), w[i] \in Secrets
      PROVE  i = 1 /\ handed = <<>> /\ mode = "Password"
    <2>1. i <= Len(wire)
        <3> SUFFICES ASSUME ~(i <= Len(wire))
                     PROVE  FALSE
            OBVIOUS
        <3>1. i - Len(wire) \in 1..Len(bytes)
            BY <1>1, <1>4
        <3>2. w[i] = bytes[i - Len(wire)]
            BY <1>4
        <3> QED
            BY <1>5, <3>1, <3>2 DEF NoSecrets
    <2>2. i \in 1..Len(wire) /\ w[i] = wire[i]
        BY <1>1, <1>4, <2>1
    <2> QED
        BY <1>3, <1>5, <2>2
<1>6. wire' = w
    BY <1>2 DEF w
<1>7. \A i \in 1..Len(wire') : wire'[i] \in Secrets =>
            i = 1 /\ handed' = <<>> /\ mode = "Password"
    BY <1>2, <1>5, <1>6
<1> QED
    BY <1>1, <1>2, <1>3, <1>4, <1>6, <1>7, OffScreen

\* A secret is typed when nothing else is under way.
LEMMA SecretKeeps ==
    ASSUME IInv, NEW b \in Secrets, Quiet, mode = "Password", Sends(<<b>>),
           line' = Append(line, b), UNCHANGED entered
    PROVE  IInv'
<1>1. b \in Bytes
    BY BytesAssumption
<1>2. wire' = <<b>> /\ handed' = <<>> /\ reader' = reader /\ telnet' = telnet
    <2>1. wire' = <<>> \o <<b>>
        BY DEF Quiet, Sends
    <2> QED
        BY <2>1 DEF Quiet, Sends, network
<1>3. /\ UNCHANGED <<editor, session, display, asEntered>>
      /\ reader' \in {"data", "iac", "option", "sub", "subIAC"}
      /\ telnet' \in {"reading", "closed", "quit"}
      /\ line' \in Seq(Letters \cup Secrets)
      /\ entered' \in Seq(Seq(Letters \cup Secrets))
    BY <1>2 DEF IInv, TypeOK, Sends
<1>4. wire' \in Seq(Bytes) /\ Len(wire') = 1 /\ handed' \in Seq(Bytes) /\ Len(handed') = 0
    BY <1>1, <1>2
<1>5. \A i \in 1..Len(wire') : i = 1
    BY <1>4
<1> QED
    BY <1>2, <1>3, <1>4, <1>5, OffScreen

LEMMA PressesLetterKeeps == IInv /\ PressesLetter => IInv'
<1> SUFFICES ASSUME IInv, PressesLetter
             PROVE  IInv'
    OBVIOUS
<1>1. PICK b \in IF Quiet /\ mode = "Password" THEN Secrets ELSE Letters :
            /\ Sends(IF b = IAC THEN <<IAC, IAC>> ELSE <<b>>)
            /\ line' = Append(line, b)
    BY DEF PressesLetter
<1>2. UNCHANGED entered
    BY DEF PressesLetter
<1>3. CASE Quiet /\ mode = "Password"
    <2>1. b \in Secrets /\ b # IAC
        BY <1>1, <1>3, SecretsAssumption
    <2>2. Sends(<<b>>)
        BY <1>1, <2>1
    <2> QED
        BY <1>1, <1>2, <1>3, <2>1, <2>2, SecretKeeps
<1>4. CASE ~(Quiet /\ mode = "Password")
    <2>1. b \in Letters /\ b \notin Secrets /\ b \in Bytes
        BY <1>1, <1>4, BytesAssumption
    <2>2. line' \in Seq(Letters \cup Secrets) /\ entered' \in Seq(Seq(Letters \cup Secrets))
        BY <1>1, <1>2, <2>1 DEF IInv, TypeOK
    <2>3. <<b>> \in Seq(Bytes) /\ NoSecrets(<<b>>)
        BY <2>1 DEF NoSecrets
    <2>4. <<IAC, IAC>> \in Seq(Bytes) /\ NoSecrets(<<IAC, IAC>>)
        BY SecretsAssumption DEF NoSecrets
    <2> QED
        BY <1>1, <2>2, <2>3, <2>4, KeyKeeps
<1> QED
    BY <1>3, <1>4

LEMMA PressesReturnKeeps == IInv /\ PressesReturn => IInv'
<1> SUFFICES ASSUME IInv, PressesReturn
             PROVE  IInv'
    OBVIOUS
<1>1. PICK b \in {<<13, 0>>, <<13, 10>>} : Sends(b)
    BY DEF PressesReturn
<1>2. b \in Seq(Plain)
    <2>1. 0 \in Plain /\ 10 \in Plain /\ 13 \in Plain
        BY PlainBytes
    <2>2. <<13, 0>> \in Seq(Plain)
        BY <2>1
    <2>3. <<13, 10>> \in Seq(Plain)
        BY <2>1
    <2> QED
        BY <1>1, <2>2, <2>3
<1>3. line' \in Seq(Letters \cup Secrets) /\ entered' \in Seq(Seq(Letters \cup Secrets))
    <2>1. line \in Seq(Letters \cup Secrets) /\ entered \in Seq(Seq(Letters \cup Secrets))
        BY DEF IInv, TypeOK
    <2>2. CASE Blank(line)
        BY <2>1, <2>2 DEF PressesReturn
    <2>3. CASE ~Blank(line)
        <3>1. line' = <<>> /\ entered' = Append(entered, line)
            BY <2>3 DEF PressesReturn
        <3> QED
            BY <2>1, <3>1
    <2> QED
        BY <2>2, <2>3
<1> QED
    BY <1>1, <1>2, <1>3, PlainBytes, KeyKeeps

LEMMA PressesBackspaceKeeps == IInv /\ PressesBackspace => IInv'
<1> SUFFICES ASSUME IInv, PressesBackspace
             PROVE  IInv'
    OBVIOUS
<1>1. PICK b \in {<<8>>, <<127>>, <<ESC, 91, 68>>} : Sends(b)
    BY DEF PressesBackspace
<1>2. b \in Seq(Plain)
    <2>1. 8 \in Plain /\ 27 \in Plain /\ 68 \in Plain /\ 91 \in Plain /\ 127 \in Plain
        BY PlainBytes
    <2>2. <<8>> \in Seq(Plain)
        BY <2>1
    <2>3. <<127>> \in Seq(Plain)
        BY <2>1
    <2>4. <<ESC, 91, 68>> \in Seq(Plain)
        BY <2>1
    <2> QED
        BY <1>1, <2>2, <2>3, <2>4
<1>3. line' \in Seq(Letters \cup Secrets)
    <2>1. CASE line = <<>>
        BY <2>1 DEF PressesBackspace
    <2>2. CASE line # <<>>
        <3>1. line \in Seq(Letters \cup Secrets) /\ Len(line) > 0
            BY <2>2 DEF IInv, TypeOK
        <3> QED
            BY <2>2, <3>1, FrontBytes DEF PressesBackspace, Front
    <2> QED
        BY <2>1, <2>2
<1>4. entered' \in Seq(Seq(Letters \cup Secrets))
    BY DEF IInv, TypeOK, PressesBackspace
<1> QED
    BY <1>1, <1>2, <1>3, <1>4, PlainBytes, KeyKeeps

LEMMA PressesOtherKeeps == IInv /\ (PressesOther \/ EndsSession) => IInv'
<1> SUFFICES ASSUME IInv, PressesOther \/ EndsSession
             PROVE  IInv'
    OBVIOUS
<1> DEFINE tab == <<9>>
           upArrow == <<ESC, 91, 65>>
           option == <<IAC, 253, 3>>
           sub == <<IAC, SB, 31, IAC, IAC, 80, IAC, SE>>
           straySE == <<IAC, SE>>
           stop == <<4>>
           nop == <<IAC, 241>>
<1>1. PICK b \in {tab, upArrow, option, sub, straySE, stop, nop} : Sends(b)
    <2>1. CASE PressesOther
        BY <2>1 DEF PressesOther
    <2>2. CASE EndsSession
        BY <2>2 DEF EndsSession
    <2> QED
        BY <2>1, <2>2
<1>2. b \in Seq(Plain)
    <2>1. /\ 3 \in Plain /\ 4 \in Plain /\ 9 \in Plain /\ 27 \in Plain /\ 31 \in Plain
          /\ 65 \in Plain /\ 80 \in Plain /\ 91 \in Plain /\ 240 \in Plain
          /\ 241 \in Plain /\ 250 \in Plain /\ 253 \in Plain /\ 255 \in Plain
        BY PlainBytes
    <2>2. tab \in Seq(Plain) /\ stop \in Seq(Plain)
        BY <2>1
    <2>3. upArrow \in Seq(Plain) /\ option \in Seq(Plain)
        BY <2>1
    <2>4. sub \in Seq(Plain)
        BY <2>1 DEF SB, SE
    <2>5. straySE \in Seq(Plain) /\ nop \in Seq(Plain)
        BY <2>1 DEF SE
    <2> HIDE DEF tab, upArrow, option, sub, straySE, stop, nop
    <2> QED
        BY <1>1, <2>2, <2>3, <2>4, <2>5
<1>3. line' \in Seq(Letters \cup Secrets) /\ entered' \in Seq(Seq(Letters \cup Secrets))
    BY DEF IInv, TypeOK, PressesOther, EndsSession
<1> QED
    BY <1>1, <1>2, <1>3, PlainBytes, KeyKeeps

LEMMA UserKeeps == IInv /\ User => IInv'
BY PressesLetterKeeps, PressesReturnKeeps, PressesBackspaceKeeps, PressesOtherKeeps DEF User

-----------------------------------------------------------------------------
\* Read takes the first byte, and with it the secret if there is one.
LEMMA ReadKeeps ==
    ASSUME IInv, NEW state, NEW bytes, Reads(state, bytes), UNCHANGED readerOnly,
           reader' \in {"data", "iac", "option", "sub", "subIAC"},
           telnet' \in {"reading", "closed", "quit"},
           handed' = handed \/ handed' = <<Head(wire)>>
    PROVE  IInv'
<1>1. /\ wire \in Seq(Bytes) /\ wire # <<>> /\ wire' = Tail(wire)
      /\ handed = <<>>
      /\ line' \in Seq(Letters \cup Secrets)
      /\ entered' \in Seq(Seq(Letters \cup Secrets))
      /\ UNCHANGED <<editor, session, display, asEntered>>
    BY DEF IInv, TypeOK, Reads, readerOnly
<1>2. /\ Head(wire) \in Bytes /\ Head(wire) = wire[1] /\ Len(wire) \in Nat /\ Len(wire) >= 1
      /\ wire' \in Seq(Bytes) /\ Len(wire') = Len(wire) - 1
      /\ \A i \in 1..Len(wire') : wire'[i] = wire[i + 1]
    BY <1>1, HeadTailProperties
<1>3. \A i \in 1..Len(wire) : wire[i] \in Secrets => i = 1 /\ mode = "Password"
    <2>1. DOMAIN wire = 1..Len(wire)
        BY <1>1
    <2> QED
        BY <2>1 DEF IInv, SecretsInTheirPlace
<1>4. ASSUME NEW i \in 1..Len(wire')
      PROVE  wire'[i] \notin Secrets
    <2>1. i + 1 \in 1..Len(wire) /\ i + 1 # 1
        BY <1>2
    <2> QED
        BY <1>2, <1>3, <2>1
<1>5. /\ handed' \in Seq(Bytes) /\ Len(handed') <= 1
      /\ handed' # <<>> => handed'[1] = wire[1]
    <2>1. CASE handed' = handed
        BY <1>1, <2>1
    <2>2. CASE handed' = <<Head(wire)>>
        <3> DEFINE b == Head(wire)
        <3>1. b \in Bytes /\ b = wire[1] /\ handed' = <<b>>
            BY <1>2, <2>2
        <3> HIDE DEF b
        <3> QED
            BY <3>1
    <2> QED
        BY <2>1, <2>2
<1>6. handed' # <<>> /\ handed'[1] \in Secrets => mode = "Password"
    <2>1. 1 \in 1..Len(wire)
        BY <1>2
    <2> QED
        BY <1>3, <1>5, <2>1
<1> QED
    BY <1>1, <1>2, <1>4, <1>5, <1>6, OffScreen

LEMMA GoesOnKeeps ==
    ASSUME IInv, NEW state, NEW bytes, Reads(state, bytes),
           \E next \in {"data", "iac", "option", "sub", "subIAC"} : GoesOn(next)
    PROVE  IInv'
BY ReadKeeps DEF GoesOn, IInv, TypeOK

LEMMA DeliversKeeps ==
    ASSUME IInv, NEW state, NEW bytes, Reads(state, bytes), Delivers
    PROVE  IInv'
BY ReadKeeps DEF Delivers, IInv, TypeOK

LEMMA AllReadsKeep == IInv /\ Read => IInv'
<1> SUFFICES ASSUME IInv, Read
             PROVE  IInv'
    OBVIOUS
<1>1. CASE ReadsData \/ ReadsEscapedIAC
    BY <1>1, DeliversKeeps DEF ReadsData, ReadsEscapedIAC
<1>2. CASE ReadsIAC \/ SkipsNegotiation
    BY <1>2, GoesOnKeeps DEF ReadsIAC, SkipsNegotiation
<1>3. CASE SkipsSubnegotiation \/ SkipsStraySE
    BY <1>3, GoesOnKeeps DEF SkipsSubnegotiation, SkipsStraySE
<1>4. CASE ReadsOtherCommand
    <2>1. PICK bytes : Reads("iac", bytes)
        BY <1>4 DEF ReadsOtherCommand
    <2>2. /\ telnet' = "closed" /\ handed' = handed /\ reader' = reader
          /\ UNCHANGED readerOnly
        BY <1>4 DEF ReadsOtherCommand
    <2>3. reader \in {"data", "iac", "option", "sub", "subIAC"}
        BY DEF IInv, TypeOK
    <2> QED
        BY <2>1, <2>2, <2>3, ReadKeeps
<1> QED
    BY <1>1, <1>2, <1>3, <1>4 DEF Read

-----------------------------------------------------------------------------
\* The doppelganger takes a byte: then there is no secret on the wire.
LEMMA TakingLeavesNoSecret ==
    ASSUME IInv, handed # <<>>
    PROVE  /\ \A i \in DOMAIN wire : wire[i] \notin Secrets
           /\ handed[1] \in Bytes
           /\ handed[1] \in Secrets => mode = "Password"
<1>1. handed \in Seq(Bytes) /\ Len(handed) >= 1
    BY DEF IInv, TypeOK
<1>2. handed[1] \in Bytes
    <2>1. Len(handed) \in Nat /\ 1 \in 1..Len(handed)
        BY <1>1
    <2> QED
        BY <1>1, <2>1, ElementOfSeq
<1> QED
    BY <1>2 DEF IInv, SecretsInTheirPlace

\* What an action of the editor has to see to.
LEMMA EditKeeps ==
    ASSUME IInv, Takes, UNCHANGED <<entered, session, promptLen, above, asEntered>>,
           lineBuffer' \in Seq(Bytes), cursorColumn' \in 0..Len(lineBuffer'),
           controlSequence' \in Seq(Bytes), Len(controlSequence') <= 2,
           \A i \in 1..cursorColumn' : lineBuffer'[i] \in Secrets => mode = "Password",
           screen' \in Seq(Bytes), garbled' \in BOOLEAN,
           ScreenShowsLine', PasswordNeverShown'
    PROVE  IInv'
<1> USE DEF session
<1>1. /\ handed # <<>> /\ handed' = <<>> /\ UNCHANGED <<wire, line, reader, telnet>>
    BY DEF Takes
<1>2. TypeOK'
    <2>1. handed' \in Seq(Bytes) /\ Len(handed') <= 1
        BY <1>1
    <2>2. /\ named' \in BOOLEAN /\ asEntered' \in BOOLEAN /\ garbled' \in BOOLEAN
        BY DEF IInv, TypeOK
    <2>3. /\ wire' \in Seq(Bytes) /\ line' \in Seq(Letters \cup Secrets)
          /\ entered' \in Seq(Seq(Letters \cup Secrets))
          /\ reader' \in {"data", "iac", "option", "sub", "subIAC"}
          /\ telnet' \in {"reading", "closed", "quit"}
          /\ mode' \in {"Username", "Password", "Command"}
          /\ chat' \in {"off", "joining", "refused", "on", "leaving"}
          /\ promptLen' \in 0..2 /\ above' \in Seq(Bytes)
        BY <1>1 DEF IInv, TypeOK
    <2> QED
        BY <2>1, <2>2, <2>3 DEF TypeOK
<1>3. SecretsInTheirPlace'
    BY <1>1, TakingLeavesNoSecret DEF SecretsInTheirPlace
<1>4. ConversationIsUnbroken' /\ PromptIsMeasured'
    BY DEF IInv, ConversationIsUnbroken, PromptIsMeasured, Prompt
<1> QED
    BY <1>2, <1>3, <1>4 DEF IInv

LEMMA IgnoringKeeps ==
    ASSUME IInv, Takes, Ignores,
           controlSequence' \in Seq(Bytes), Len(controlSequence') <= 2
    PROVE  IInv'
<1>1. /\ UNCHANGED <<entered, session, promptLen, above, asEntered>>
      /\ UNCHANGED <<lineBuffer, cursorColumn, screen, garbled, mode, chat, named>>
    BY DEF Ignores, session, display
<1>2. ScreenShowsLine' /\ PasswordNeverShown'
    BY <1>1 DEF IInv, ScreenShowsLine, PasswordNeverShown, Visible, Line, EchoOn, Prompt
<1>3. /\ lineBuffer' \in Seq(Bytes) /\ cursorColumn' \in 0..Len(lineBuffer')
      /\ screen' \in Seq(Bytes) /\ garbled' \in BOOLEAN
    BY <1>1 DEF IInv, TypeOK
<1>4. \A i \in 1..cursorColumn' : lineBuffer'[i] \in Secrets => mode = "Password"
    BY <1>1 DEF IInv, SecretsInTheirPlace
<1> QED
    BY <1>1, <1>2, <1>3, <1>4, EditKeeps

\* The line and, if it is echoed, the screen lose their last byte.
LEMMA DeletingKeeps ==
    ASSUME IInv, Takes, DeletesLast,
           controlSequence' \in Seq(Bytes), Len(controlSequence') <= 2
    PROVE  IInv'
<1>1. /\ UNCHANGED <<entered, session, promptLen, above, asEntered>>
      /\ UNCHANGED <<lineBuffer, mode, chat, named>>
      /\ cursorColumn' = IF cursorColumn > 0 THEN cursorColumn - 1 ELSE 0
    BY DEF DeletesLast, session
<1>2. /\ lineBuffer \in Seq(Bytes) /\ cursorColumn \in 0..Len(lineBuffer)
      /\ screen \in Seq(Bytes) /\ garbled \in BOOLEAN
    BY DEF IInv, TypeOK
<1>3. /\ lineBuffer' \in Seq(Bytes) /\ cursorColumn' \in 0..Len(lineBuffer')
      /\ \A i \in 1..cursorColumn' : i \in 1..cursorColumn
    BY <1>1, <1>2
<1>4. \A i \in 1..cursorColumn' : lineBuffer'[i] \in Secrets => mode = "Password"
    BY <1>1, <1>3 DEF IInv, SecretsInTheirPlace
<1>5. Prompt' = Prompt /\ EchoOn' = EchoOn
    BY <1>1 DEF Prompt, EchoOn
<1>6. CASE EchoOn /\ cursorColumn > 0
    <2> DEFINE v == Line
               w == SubSeq(v, 1, Len(v) - 1)
    <2>1. v \in Seq(Bytes) /\ Len(v) = cursorColumn /\ Len(v) > 0
        BY <1>6, LineBytes DEF IInv
    <2>2. /\ w \in Seq(Bytes) /\ Len(w) = Len(v) - 1
          /\ \A i \in 1..Len(w) : w[i] = v[i]
        BY <2>1, FrontBytes
    <2>3. Line' = w
        <3>1. /\ Line' \in Seq(Bytes) /\ Len(Line') = cursorColumn - 1
              /\ \A i \in 1..Len(Line') : Line'[i] = lineBuffer[i]
            <4> DEFINE n == cursorColumn - 1
            <4>1. n \in 0..Len(lineBuffer) /\ cursorColumn' = n /\ lineBuffer' = lineBuffer
                BY <1>1, <1>2, <1>6
            <4> HIDE DEF n
            <4>2. /\ SubSeq(lineBuffer, 1, n) \in Seq(Bytes)
                  /\ Len(SubSeq(lineBuffer, 1, n)) = n
                  /\ \A i \in 1..n : SubSeq(lineBuffer, 1, n)[i] = lineBuffer[i]
                BY <1>2, <4>1, BeginningBytes
            <4>3. Line' = SubSeq(lineBuffer, 1, n)
                BY <4>1 DEF Line
            <4> QED
                BY <4>2, <4>3 DEF n
        <3>2. \A i \in 1..cursorColumn : v[i] = lineBuffer[i]
            BY LineBytes DEF IInv
        <3> DEFINE x == Line'
        <3>3. x \in Seq(Bytes) /\ Len(x) = Len(w) /\ \A i \in 1..Len(x) : x[i] = w[i]
            <4> HIDE DEF v, w
            <4> QED
                BY <2>1, <2>2, <3>1, <3>2
        <3> HIDE DEF v, w, x
        <3>4. x = w
            BY <2>2, <3>3, SeqEqual
        <3> QED
            BY <3>4 DEF x
    <2>4. Shows(Erased(screen, 1))
        BY <1>6 DEF DeletesLast
    <2>5. /\ Erased(screen, 1) \in Seq(Bytes)
          /\ \A i \in 1..Len(Erased(screen, 1)) :
                i \in 1..Len(screen) /\ Erased(screen, 1)[i] = screen[i]
        <3> DEFINE n == 1
        <3>1. n \in Nat
            OBVIOUS
        <3> HIDE DEF n
        <3>2. /\ Erased(screen, n) \in Seq(Bytes)
              /\ \A i \in 1..Len(Erased(screen, n)) :
                    i \in 1..Len(screen) /\ Erased(screen, n)[i] = screen[i]
            BY <1>2, <3>1, ErasedType
        <3> QED
            BY <3>2 DEF n
    <2>6. NoSecrets(screen)
        BY <1>2, NeverShown DEF IInv, PasswordNeverShown
    <2>7. NoSecrets(Erased(screen, 1))
        BY <2>5, <2>6 DEF NoSecrets
    <2>8. /\ screen' \in Seq(Bytes) /\ garbled' \in BOOLEAN
          /\ ~garbled' => ~garbled /\ screen' = Erased(screen, 1)
          /\ PasswordNeverShown'
        BY <2>4, <2>5, <2>7, ShowsText
    <2>9. ASSUME ~garbled
          PROVE  /\ IsSuffix(w, Erased(screen, 1))
                 /\ chat # "joining" => Erased(screen, 1) \in {Prompt \o w, w}
        <3>1. /\ IsSuffix(v, screen)
              /\ chat # "joining" => screen \in {Prompt \o v, v}
            BY <1>6, <2>9 DEF IInv, ScreenShowsLine, Visible
        <3>2. Prompt \in Seq(Bytes)
            BY PromptBytes
        <3> HIDE DEF v, w
        <3>3. Erased(Prompt \o v, 1) = Prompt \o w /\ Erased(v, 1) = w
            BY <2>1, <3>2, ErasedConcat DEF w
        <3>4. Erased(screen, 1) = SubSeq(screen, 1, Len(screen) - 1)
            <4>1. Len(screen) > 0
                BY <1>2, <2>1, <3>1, SuffixBytes
            <4> DEFINE none == <<>>
            <4>2. none \in Seq(Bytes) /\ none \o screen = screen
                BY <1>2, ConcatEmptySeq
            <4> HIDE DEF none
            <4>3. Erased(screen, 1) = SubSeq(screen, 1, Len(screen) - 1)
                BY <1>2, <4>1, <4>2, ErasedConcat
            <4> QED
                BY <4>3
        <3>5. IsSuffix(w, Erased(screen, 1))
            BY <1>2, <2>1, <3>1, <3>4, SuffixShrinks DEF w
        <3> QED
            BY <3>1, <3>3, <3>5
    <2>10. Visible' = w
        BY <1>5, <1>6, <2>3 DEF Visible
    <2> HIDE DEF v, w
    <2>11. ScreenShowsLine'
        BY <1>1, <1>5, <2>8, <2>9, <2>10 DEF ScreenShowsLine
    <2> QED
        BY <1>1, <1>3, <1>4, <2>8, <2>11, EditKeeps
<1>7. CASE ~(EchoOn /\ cursorColumn > 0)
    <2>1. UNCHANGED <<screen, garbled>>
        BY <1>7 DEF DeletesLast
    <2>2. Visible' = Visible
        <3>1. CASE ~EchoOn
            BY <1>5, <3>1 DEF Visible
        <3>2. CASE cursorColumn = 0
            BY <1>1, <1>2, <1>5, <3>2 DEF Visible, Line
        <3> QED
            BY <1>2, <1>7, <3>1, <3>2
    <2>3. ScreenShowsLine' /\ PasswordNeverShown'
        BY <1>1, <1>5, <2>1, <2>2 DEF IInv, ScreenShowsLine, PasswordNeverShown
    <2>4. screen' \in Seq(Bytes) /\ garbled' \in BOOLEAN
        BY <1>2, <2>1
    <2> QED
        BY <1>1, <1>3, <1>4, <2>3, <2>4, EditKeeps
<1> QED
    BY <1>6, <1>7

\* A letter goes to the end of the line.
LEMMA LetterAdded ==
    ASSUME IInv, TakesLetter
    PROVE  /\ lineBuffer' \in Seq(Bytes)
           /\ cursorColumn' = cursorColumn + 1
           /\ cursorColumn' \in 1..Len(lineBuffer')
           /\ \A i \in 1..cursorColumn : lineBuffer'[i] = lineBuffer[i]
           /\ lineBuffer'[cursorColumn + 1] = handed[1]
           /\ Line' = Append(Line, handed[1])
<1> DEFINE b == handed[1]
<1>1. /\ Takes /\ handed # <<>>
      /\ lineBuffer' = IF cursorColumn < Len(lineBuffer)
                       THEN [lineBuffer EXCEPT ![cursorColumn + 1] = b]
                       ELSE Append(lineBuffer, b)
      /\ cursorColumn' = IF cursorColumn < Len(lineBuffer) THEN cursorColumn + 1
                                                           ELSE Len(lineBuffer')
    BY DEF TakesLetter, Takes
<1>2. b \in Bytes
    BY <1>1, TakingLeavesNoSecret
<1> HIDE DEF b
<1>3. /\ lineBuffer \in Seq(Bytes) /\ cursorColumn \in 0..Len(lineBuffer)
      /\ Len(lineBuffer) \in Nat
    BY <1>1 DEF IInv, TypeOK
<1>4. /\ lineBuffer' \in Seq(Bytes)
      /\ cursorColumn' = cursorColumn + 1
      /\ cursorColumn' \in 1..Len(lineBuffer')
      /\ \A i \in 1..cursorColumn : lineBuffer'[i] = lineBuffer[i]
      /\ lineBuffer'[cursorColumn + 1] = b
    <2>1. CASE cursorColumn < Len(lineBuffer)
        <3>1. /\ lineBuffer' = [lineBuffer EXCEPT ![cursorColumn + 1] = b]
              /\ cursorColumn' = cursorColumn + 1
              /\ cursorColumn + 1 \in 1..Len(lineBuffer)
            BY <1>1, <1>3, <2>1
        <3>2. /\ lineBuffer' \in Seq(Bytes) /\ Len(lineBuffer') = Len(lineBuffer)
              /\ \A i \in 1..Len(lineBuffer) :
                    lineBuffer'[i] = IF i = cursorColumn + 1 THEN b ELSE lineBuffer[i]
            BY <1>2, <1>3, <3>1, ExceptSeq
        <3> QED
            BY <1>3, <3>1, <3>2
    <2>2. CASE ~(cursorColumn < Len(lineBuffer))
        <3>1. lineBuffer' = Append(lineBuffer, b) /\ cursorColumn' = Len(lineBuffer')
              /\ cursorColumn = Len(lineBuffer)
            BY <1>1, <1>3, <2>2
        <3>2. /\ lineBuffer' \in Seq(Bytes) /\ Len(lineBuffer') = Len(lineBuffer) + 1
              /\ \A i \in 1..Len(lineBuffer) : lineBuffer'[i] = lineBuffer[i]
              /\ lineBuffer'[Len(lineBuffer) + 1] = b
            BY <1>2, <1>3, <3>1, AppendProperties
        <3> QED
            BY <1>3, <3>1, <3>2
    <2> QED
        BY <2>1, <2>2
<1>5. Line' = Append(Line, b)
    <2> DEFINE v == Line
               w == Line'
               u == Append(v, b)
    <2>1. /\ v \in Seq(Bytes) /\ Len(v) = cursorColumn
          /\ \A i \in 1..cursorColumn : v[i] = lineBuffer[i]
        BY LineBytes DEF IInv
    <2>2. /\ w \in Seq(Bytes) /\ Len(w) = cursorColumn + 1
          /\ \A i \in 1..cursorColumn + 1 : w[i] = lineBuffer'[i]
        BY <1>3, <1>4, BeginningBytes DEF Line
    <2> HIDE DEF v, w
    <2>3. /\ u \in Seq(Bytes) /\ Len(u) = cursorColumn + 1
          /\ \A i \in 1..cursorColumn : u[i] = v[i]
          /\ u[cursorColumn + 1] = b
        BY <1>2, <2>1, AppendProperties
    <2> HIDE DEF u
    <2>4. \A i \in 1..Len(w) : w[i] = u[i]
        <3> SUFFICES ASSUME NEW i \in 1..Len(w)
                     PROVE  w[i] = u[i]
            OBVIOUS
        <3>1. CASE i \in 1..cursorColumn
            BY <1>4, <2>1, <2>2, <2>3, <3>1
        <3>2. CASE i = cursorColumn + 1
            BY <1>4, <2>2, <2>3, <3>2
        <3> QED
            BY <1>3, <2>2, <3>1, <3>2
    <2>5. w = u
        BY <2>2, <2>3, <2>4, SeqEqual
    <2> QED
        BY <2>5 DEF u, v, w
<1> QED
    BY <1>4, <1>5 DEF b

\* The line and, if it is echoed, the screen get the byte at their end.
LEMMA TakesLetterKeeps == IInv /\ TakesLetter => IInv'
<1> SUFFICES ASSUME IInv, TakesLetter
             PROVE  IInv'
    OBVIOUS
<1> DEFINE b == handed[1]
<1>1. /\ Takes /\ handed # <<>>
      /\ UNCHANGED <<entered, session, promptLen, above, asEntered>>
      /\ UNCHANGED <<mode, chat, named, controlSequence>>
      /\ lineBuffer' = IF cursorColumn < Len(lineBuffer)
                       THEN [lineBuffer EXCEPT ![cursorColumn + 1] = b]
                       ELSE Append(lineBuffer, b)
      /\ cursorColumn' = IF cursorColumn < Len(lineBuffer) THEN cursorColumn + 1
                                                           ELSE Len(lineBuffer')
      /\ IF EchoOn THEN Shows(Append(screen, b)) ELSE UNCHANGED <<screen, garbled>>
    BY DEF TakesLetter, Takes, session
<1>2. b \in Bytes /\ (b \in Secrets => mode = "Password")
    BY <1>1, TakingLeavesNoSecret
<1> HIDE DEF b
<1>3. /\ lineBuffer \in Seq(Bytes) /\ cursorColumn \in 0..Len(lineBuffer)
      /\ Len(lineBuffer) \in Nat
      /\ screen \in Seq(Bytes) /\ garbled \in BOOLEAN
      /\ controlSequence' \in Seq(Bytes) /\ Len(controlSequence') <= 2
    BY <1>1 DEF IInv, TypeOK
<1>4. /\ lineBuffer' \in Seq(Bytes)
      /\ cursorColumn' = cursorColumn + 1
      /\ cursorColumn' \in 1..Len(lineBuffer')
      /\ \A i \in 1..cursorColumn : lineBuffer'[i] = lineBuffer[i]
      /\ lineBuffer'[cursorColumn + 1] = b
      /\ Line' = Append(Line, b)
    BY LetterAdded DEF b
<1>5. \A i \in 1..cursorColumn' : lineBuffer'[i] \in Secrets => mode = "Password"
    <2> SUFFICES ASSUME NEW i \in 1..cursorColumn', lineBuffer'[i] \in Secrets
                 PROVE  mode = "Password"
        OBVIOUS
    <2>1. CASE i \in 1..cursorColumn
        BY <1>4, <2>1 DEF IInv, SecretsInTheirPlace
    <2>2. CASE i = cursorColumn + 1
        BY <1>2, <1>4, <2>2
    <2> QED
        BY <1>3, <1>4, <2>1, <2>2
<1>6. Prompt' = Prompt /\ EchoOn' = EchoOn
    BY <1>1 DEF Prompt, EchoOn
<1>7. CASE EchoOn
    <2> DEFINE v == Line
               w == Line'
    <2>1. /\ v \in Seq(Bytes) /\ Len(v) = cursorColumn
          /\ \A i \in 1..cursorColumn : v[i] = lineBuffer[i]
        BY LineBytes DEF IInv
    <2>2. /\ w \in Seq(Bytes) /\ Len(w) = cursorColumn + 1
          /\ \A i \in 1..cursorColumn + 1 : w[i] = lineBuffer'[i]
        BY <1>3, <1>4, BeginningBytes DEF Line
    <2> HIDE DEF v, w
    <2>3. w = Append(v, b)
        BY <1>4 DEF v, w
    <2> DEFINE s == Append(screen, b)
    <2>4. /\ s \in Seq(Bytes) /\ Len(s) = Len(screen) + 1
          /\ \A i \in 1..Len(screen) : s[i] = screen[i]
          /\ s[Len(screen) + 1] = b
        BY <1>2, <1>3, AppendProperties
    <2>5. NoSecrets(screen) /\ b \notin Secrets
        BY <1>2, <1>3, <1>7, NeverShown DEF IInv, PasswordNeverShown, EchoOn
    <2>6. Shows(s)
        BY <1>1, <1>7
    <2> HIDE DEF s
    <2>7. NoSecrets(s)
        <3> SUFFICES ASSUME NEW i \in 1..Len(s)
                     PROVE  s[i] \notin Secrets
            BY DEF NoSecrets
        <3>1. i \in 1..Len(screen) \/ i = Len(screen) + 1
            BY <1>3, <2>4
        <3> QED
            BY <2>4, <2>5, <3>1 DEF NoSecrets
    <2>8. /\ screen' \in Seq(Bytes) /\ garbled' \in BOOLEAN
          /\ ~garbled' => ~garbled /\ screen' = s
          /\ PasswordNeverShown'
        BY <2>4, <2>6, <2>7, ShowsText
    <2>9. ASSUME ~garbled
          PROVE  /\ IsSuffix(w, s)
                 /\ chat # "joining" => s \in {Prompt \o w, w}
        <3>1. /\ IsSuffix(v, screen)
              /\ chat # "joining" => screen \in {Prompt \o v, v}
            BY <1>7, <2>9 DEF IInv, ScreenShowsLine, Visible, v
        <3>2. IsSuffix(w, s)
            BY <1>2, <1>3, <2>1, <2>3, <3>1, SuffixGrows DEF s
        <3>3. Append(Prompt \o v, b) = Prompt \o Append(v, b)
            <4>1. Prompt \in Seq(Bytes) /\ <<b>> \in Seq(Bytes) /\ Prompt \o v \in Seq(Bytes)
                BY <1>2, <2>1, PromptBytes, ConcatProperties
            <4>2. /\ Append(Prompt \o v, b) = (Prompt \o v) \o <<b>>
                  /\ Append(v, b) = v \o <<b>>
                BY <1>2, <2>1, <4>1, AppendIsConcat
            <4>3. (Prompt \o v) \o <<b>> = Prompt \o (v \o <<b>>)
                BY <2>1, <4>1, ConcatAssociative
            <4> QED
                BY <4>2, <4>3
        <3> QED
            BY <2>3, <3>1, <3>2, <3>3 DEF s
    <2>10. Visible' = w
        BY <1>6, <1>7 DEF Visible, w
    <2>11. ScreenShowsLine'
        BY <1>1, <1>6, <2>8, <2>9, <2>10 DEF ScreenShowsLine
    <2> QED
        BY <1>1, <1>3, <1>4, <1>5, <2>8, <2>11, EditKeeps
<1>8. CASE ~EchoOn
    <2>1. UNCHANGED <<screen, garbled>>
        BY <1>1, <1>8
    <2>2. ScreenShowsLine' /\ PasswordNeverShown'
        BY <1>1, <1>6, <1>8, <2>1
           DEF IInv, ScreenShowsLine, PasswordNeverShown, Visible
    <2>3. screen' \in Seq(Bytes) /\ garbled' \in BOOLEAN
        BY <1>3, <2>1
    <2> QED
        BY <1>1, <1>3, <1>4, <1>5, <2>2, <2>3, EditKeeps
<1> QED
    BY <1>7, <1>8

LEMMA TakesSequenceByteKeeps == IInv /\ TakesSequenceByte => IInv'
<1> SUFFICES ASSUME IInv, TakesSequenceByte
             PROVE  IInv'
    OBVIOUS
<1> DEFINE b == IF handed[1] = 127 THEN 8 ELSE handed[1]
           s == Append(controlSequence, b)
<1>1. /\ Takes /\ handed # <<>> /\ controlSequence # <<>>
      /\ controlSequence' = IF Len(s) = 3 THEN <<>> ELSE s
      /\ DeletesLast \/ Ignores
    BY DEF TakesSequenceByte, Takes, InSequence
<1>2. b \in Bytes
    BY <1>1, TakingLeavesNoSecret
<1>3. controlSequence \in Seq(Bytes) /\ Len(controlSequence) <= 2
    BY DEF IInv, TypeOK
<1> HIDE DEF b
<1>4. s \in Seq(Bytes) /\ Len(s) = Len(controlSequence) + 1
    BY <1>2, <1>3, AppendProperties
<1> HIDE DEF s
<1>5. controlSequence' \in Seq(Bytes) /\ Len(controlSequence') <= 2
    <2>1. CASE Len(s) = 3
        BY <1>1, <2>1
    <2>2. CASE Len(s) # 3
        BY <1>1, <1>3, <1>4, <2>2
    <2> QED
        BY <2>1, <2>2
<1> QED
    BY <1>1, <1>5, DeletingKeeps, IgnoringKeeps

LEMMA EditsKeep == IInv /\ Edits => IInv'
<1> SUFFICES ASSUME IInv, Edits
             PROVE  IInv'
    OBVIOUS
<1>1. controlSequence \in Seq(Bytes) /\ Len(controlSequence) <= 2
    BY DEF IInv, TypeOK
<1>2. CASE TakesSequenceByte
    BY <1>2, TakesSequenceByteKeeps
<1>3. CASE StartsSequence
    <2>1. Takes /\ Ignores /\ controlSequence' = <<ESC>>
        BY <1>3 DEF StartsSequence
    <2>2. controlSequence' \in Seq(Bytes) /\ Len(controlSequence') <= 2
        BY <2>1
    <2> QED
        BY <2>1, <2>2, IgnoringKeeps
<1>4. CASE IgnoresControlCode \/ IgnoresBlankLine
    BY <1>1, <1>4, IgnoringKeeps DEF IgnoresControlCode, IgnoresBlankLine
<1>5. CASE TakesBackspace
    BY <1>1, <1>5, DeletingKeeps DEF TakesBackspace
<1>6. CASE TakesLetter
    BY <1>6, TakesLetterKeeps
<1> QED
    BY <1>2, <1>3, <1>4, <1>5, <1>6 DEF Edits

-----------------------------------------------------------------------------
\* What an action that runs a line has to see to.
LEMMA RunningKeeps ==
    ASSUME IInv, NEW m, Runs(m),
           mode' \in {"Username", "Password", "Command"},
           chat' \in {"off", "joining", "refused", "on", "leaving"}, named' \in BOOLEAN,
           promptLen' \in 0..2, screen' \in Seq(Bytes), garbled' \in BOOLEAN,
           mode' # "Command" => chat' = "off",
           mode' = "Command" => promptLen' = Len(Prompt'),
           ScreenShowsLine', PasswordNeverShown'
    PROVE  IInv'
<1>1. /\ handed # <<>> /\ handed' = <<>> /\ UNCHANGED <<wire, line, reader, telnet>>
      /\ asEntered' = (asEntered /\ entered # <<>> /\ Head(entered) = Line)
      /\ entered' = IF entered = <<>> THEN <<>> ELSE Tail(entered)
      /\ cursorColumn' = 0
      /\ UNCHANGED <<lineBuffer, controlSequence, above>>
    BY DEF Runs, Takes
<1>2. TypeOK'
    <2>1. entered' \in Seq(Seq(Letters \cup Secrets))
        BY <1>1 DEF IInv, TypeOK
    <2>2. asEntered' \in BOOLEAN
        BY <1>1
    <2>3. handed' \in Seq(Bytes) /\ Len(handed') <= 1
        BY <1>1
    <2>4. lineBuffer' \in Seq(Bytes) /\ cursorColumn' \in 0..Len(lineBuffer')
        BY <1>1 DEF IInv, TypeOK
    <2>5. /\ wire' \in Seq(Bytes) /\ line' \in Seq(Letters \cup Secrets)
          /\ reader' \in {"data", "iac", "option", "sub", "subIAC"}
          /\ telnet' \in {"reading", "closed", "quit"}
          /\ controlSequence' \in Seq(Bytes) /\ Len(controlSequence') <= 2
          /\ above' \in Seq(Bytes)
        BY <1>1 DEF IInv, TypeOK
    <2> QED
        BY <2>1, <2>2, <2>3, <2>4, <2>5 DEF TypeOK
<1>3. SecretsInTheirPlace'
    BY <1>1, TakingLeavesNoSecret DEF SecretsInTheirPlace
<1>4. ConversationIsUnbroken' /\ PromptIsMeasured'
    BY <1>1 DEF IInv, ConversationIsUnbroken, PromptIsMeasured
<1> QED
    BY <1>2, <1>3, <1>4 DEF IInv

\* The line has been run: the cursor is at its first column.
LEMMA NothingVisible ==
    ASSUME IInv, NEW m, Runs(m)
    PROVE  /\ cursorColumn' = 0 /\ lineBuffer' \in Seq(Bytes)
           /\ 0 \in 0..Len(lineBuffer')
           /\ Line' = <<>> /\ Visible' = <<>>
<1>1. cursorColumn' = 0 /\ lineBuffer' = lineBuffer
    BY DEF Runs
<1>2. lineBuffer \in Seq(Bytes)
    BY DEF IInv, TypeOK
<1>3. Line' = <<>>
    BY <1>1, SubSeqEmpty DEF Line
<1> QED
    BY <1>1, <1>2, <1>3 DEF Visible

LEMMA RunningPrompts ==
    ASSUME IInv, NEW m, Runs(m), Prompts,
           mode' \in {"Username", "Password", "Command"},
           chat' \in {"off", "joining", "refused", "on", "leaving"}, named' \in BOOLEAN,
           mode' # "Command" => chat' = "off"
    PROVE  IInv'
<1>1. cursorColumn' = 0 /\ lineBuffer' \in Seq(Bytes) /\ cursorColumn' \in 0..Len(lineBuffer')
    BY NothingVisible
<1>2. \A i \in 1..cursorColumn' : lineBuffer'[i] \notin Secrets
    BY <1>1
<1> QED
    BY <1>1, <1>2, PromptsShow, RunningKeeps

\* What is left on the screen when a line is backspaced out, or no prompt follows.
LEMMA RunningShows ==
    ASSUME IInv, NEW m, Runs(m), m = "Command", NEW text \in Seq(Bytes), Shows(text),
           UNCHANGED <<session, promptLen>>, NoSecrets(text),
           ~garbled /\ chat # "joining" => text \in {Prompt, <<>>}
    PROVE  IInv'
<1>1. /\ mode = "Command" /\ UNCHANGED <<mode, chat, named, promptLen>>
    BY DEF Runs, session
<1>2. Prompt' = Prompt
    BY <1>1 DEF Prompt
<1>3. /\ screen' \in Seq(Bytes) /\ garbled' \in BOOLEAN
      /\ ~garbled' => ~garbled /\ screen' = text
      /\ PasswordNeverShown'
    BY ShowsText
<1>4. Visible' = <<>>
    BY NothingVisible
<1>5. /\ Prompt \in Seq(Bytes)
      /\ Prompt \o <<>> = Prompt
      /\ IsSuffix(<<>>, text)
    BY PromptBytes, ConcatEmptySeq, EmptyIsSuffix
<1>6. ScreenShowsLine'
    BY <1>1, <1>2, <1>3, <1>4, <1>5 DEF ScreenShowsLine
<1>7. /\ mode' \in {"Username", "Password", "Command"}
      /\ chat' \in {"off", "joining", "refused", "on", "leaving"} /\ named' \in BOOLEAN
      /\ promptLen' \in 0..2
      /\ mode' # "Command" => chat' = "off"
      /\ mode' = "Command" => promptLen' = Len(Prompt')
    BY <1>1, <1>2 DEF IInv, TypeOK, PromptIsMeasured
<1> QED
    BY <1>3, <1>6, <1>7, RunningKeeps

LEMMA LoginLineKeeps == IInv /\ LoginLine => IInv'
<1> SUFFICES ASSUME IInv, LoginLine
             PROVE  IInv'
    OBVIOUS
<1>1. PICK m \in {"Username", "Password"} :
            /\ Runs(m)
            /\ mode' \in {"Username", "Password", "Command"}
    BY DEF LoginLine
<1>2. Prompts /\ UNCHANGED <<chat, named>>
    BY DEF LoginLine
<1>3. mode = m
    BY <1>1 DEF Runs
<1>4. chat' = "off" /\ named' \in BOOLEAN
    BY <1>1, <1>2, <1>3 DEF IInv, TypeOK, PromptIsMeasured
<1> QED
    BY <1>1, <1>2, <1>4, RunningPrompts

LEMMA RunsAtOnceKeeps == IInv /\ (RunsAtOnce \/ RunsExit) => IInv'
<1> SUFFICES ASSUME IInv, RunsAtOnce \/ RunsExit
             PROVE  IInv'
    OBVIOUS
<1>1. Runs("Command") /\ Prompts /\ mode' = mode
    BY DEF RunsAtOnce, RunsExit, session
<1>2. mode = "Command"
    BY <1>1 DEF Runs
<1>3. chat' \in {"off", "joining", "refused", "on", "leaving"} /\ named' \in BOOLEAN
    BY DEF IInv, TypeOK, RunsAtOnce, RunsExit, session
<1> QED
    BY <1>1, <1>2, <1>3, RunningPrompts

LEMMA RunsFailingCreateKeeps == IInv /\ RunsFailingCreate => IInv'
<1> SUFFICES ASSUME IInv, RunsFailingCreate
             PROVE  IInv'
    OBVIOUS
<1> DEFINE none == <<>>
<1>1. none \in Seq(Bytes) /\ NoSecrets(none)
    BY DEF NoSecrets
<1>2. Runs("Command") /\ Shows(none) /\ UNCHANGED <<session, promptLen>>
    BY DEF RunsFailingCreate
<1>3. none \in {Prompt, <<>>}
    OBVIOUS
<1> HIDE DEF none
<1> QED
    BY <1>1, <1>2, <1>3, RunningShows

LEMMA RunsSayKeeps == IInv /\ RunsSay => IInv'
<1> SUFFICES ASSUME IInv, RunsSay
             PROVE  IInv'
    OBVIOUS
<1> DEFINE text == Erased(screen, cursorColumn)
<1>1. Runs("Command") /\ Shows(text) /\ UNCHANGED <<session, promptLen>>
    BY DEF RunsSay
<1>2. screen \in Seq(Bytes) /\ cursorColumn \in Nat
    BY DEF IInv, TypeOK
<1>3. /\ text \in Seq(Bytes)
      /\ \A i \in 1..Len(text) : i \in 1..Len(screen) /\ text[i] = screen[i]
    BY <1>2, ErasedType
<1>4. NoSecrets(text)
    <2>1. NoSecrets(screen)
        BY <1>2, NeverShown DEF IInv, PasswordNeverShown
    <2> QED
        BY <1>3, <2>1 DEF NoSecrets
<1>5. ASSUME ~garbled, chat # "joining"
      PROVE  text \in {Prompt, <<>>}
    <2>1. mode = "Command"
        BY <1>1 DEF Runs
    <2>2. screen \in {Prompt \o Line, Line}
        BY <1>1, <1>5, <2>1 DEF IInv, ScreenShowsLine, Visible, EchoOn
    <2>3. /\ Line \in Seq(Bytes) /\ Len(Line) = cursorColumn
          /\ Prompt \in Seq(Bytes)
        BY LineBytes, PromptBytes DEF IInv
    <2>4. Erased(Prompt \o Line, cursorColumn) = Prompt /\ Erased(Line, cursorColumn) = <<>>
        BY <2>3, ErasedConcat
    <2> QED
        BY <2>2, <2>4
<1> HIDE DEF text
<1> QED
    BY <1>1, <1>3, <1>4, <1>5, RunningShows

LEMMA RunsJoinKeeps == IInv /\ RunsJoin => IInv'
<1> SUFFICES ASSUME IInv, RunsJoin
             PROVE  IInv'
    OBVIOUS
<1>1. /\ Runs("Command") /\ chat' = "joining"
      /\ UNCHANGED <<mode, named, promptLen, screen, garbled>>
    BY DEF RunsJoin
<1>2. mode = "Command"
    BY <1>1 DEF Runs
<1>3. /\ mode' \in {"Username", "Password", "Command"} /\ named' \in BOOLEAN
      /\ promptLen' \in 0..2 /\ screen' \in Seq(Bytes) /\ garbled' \in BOOLEAN
    BY <1>1 DEF IInv, TypeOK
<1>4. mode' = "Command" /\ promptLen' = Len(Prompt')
    BY <1>1, <1>2 DEF IInv, PromptIsMeasured, Prompt
<1>5. Visible' = <<>> /\ IsSuffix(<<>>, screen')
    BY <1>1, <1>3, NothingVisible, EmptyIsSuffix
<1>6. ScreenShowsLine' /\ PasswordNeverShown'
    BY <1>1, <1>5 DEF IInv, ScreenShowsLine, PasswordNeverShown
<1> QED
    BY <1>1, <1>3, <1>4, <1>6, RunningKeeps

-----------------------------------------------------------------------------
\* A message: prompt and line are written again, and the line is as it was.
LEMMA HearingKeeps ==
    ASSUME IInv, Hears, Prompts, mode = "Command",
           chat' \in {"off", "joining", "refused", "on", "leaving"}, named' \in BOOLEAN,
           above' \in {<<>>, <<Said>>}
    PROVE  IInv'
<1>1. /\ UNCHANGED <<wire, line, entered, reader, handed, telnet, asEntered>>
      /\ UNCHANGED <<lineBuffer, cursorColumn, controlSequence, mode>>
    BY DEF Hears, keyboard, network, editor
<1>2. /\ lineBuffer' \in Seq(Bytes) /\ cursorColumn' \in 0..Len(lineBuffer')
    BY <1>1 DEF IInv, TypeOK
<1>3. \A i \in 1..cursorColumn' : lineBuffer'[i] \notin Secrets
    BY <1>1 DEF IInv, SecretsInTheirPlace
<1>4. /\ screen' \in Seq(Bytes)
      /\ garbled' \in BOOLEAN
      /\ promptLen' \in 0..2
      /\ mode' = "Command" => promptLen' = Len(Prompt')
      /\ ScreenShowsLine'
      /\ PasswordNeverShown'
    BY <1>1, <1>2, <1>3, PromptsShow
<1>5. above' \in Seq(Bytes)
    <2> DEFINE none == <<>>
               said == <<Said>>
    <2>1. none \in Seq(Bytes) /\ said \in Seq(Bytes)
        OBVIOUS
    <2>2. above' \in {none, said}
        OBVIOUS
    <2> HIDE DEF none, said
    <2> QED
        BY <2>1, <2>2
<1>6. TypeOK'
    <2>1. asEntered' \in BOOLEAN
        BY <1>1 DEF IInv, TypeOK
    <2>2. /\ wire' \in Seq(Bytes) /\ line' \in Seq(Letters \cup Secrets)
          /\ entered' \in Seq(Seq(Letters \cup Secrets))
          /\ handed' \in Seq(Bytes) /\ Len(handed') <= 1
          /\ reader' \in {"data", "iac", "option", "sub", "subIAC"}
          /\ telnet' \in {"reading", "closed", "quit"}
          /\ controlSequence' \in Seq(Bytes) /\ Len(controlSequence') <= 2
          /\ mode' \in {"Username", "Password", "Command"}
        BY <1>1 DEF IInv, TypeOK
    <2> QED
        BY <1>2, <1>4, <1>5, <2>1, <2>2 DEF TypeOK
<1>7. SecretsInTheirPlace'
    BY <1>1 DEF IInv, SecretsInTheirPlace
<1>8. ConversationIsUnbroken' /\ PromptIsMeasured'
    BY <1>1, <1>4 DEF ConversationIsUnbroken, PromptIsMeasured
<1> QED
    BY <1>4, <1>6, <1>7, <1>8 DEF IInv

\* Prompt and line are all there is on the line to be backspaced out.
LEMMA OverLineClears ==
    ASSUME IInv, OverLine, chat \in {"on", "leaving"}
    PROVE  above' \in {<<>>, <<Said>>}
<1>1. CASE garbled
    BY <1>1 DEF OverLine
<1>2. CASE ~garbled
    <2>1. mode = "Command" /\ promptLen = Len(Prompt)
        BY DEF IInv, PromptIsMeasured
    <2>2. screen \in {Prompt \o Line, Line}
        BY <1>2, <2>1 DEF IInv, ScreenShowsLine, Visible, EchoOn
    <2>3. /\ Line \in Seq(Bytes) /\ Len(Line) = cursorColumn
          /\ Prompt \in Seq(Bytes) /\ Len(Prompt) \in Nat /\ cursorColumn \in Nat
        BY LineBytes, PromptBytes DEF IInv, TypeOK
    <2>4. Len(Prompt \o Line) = Len(Prompt) + Len(Line)
        BY <2>3, ConcatProperties
    <2>5. Len(screen) <= promptLen + cursorColumn
        BY <2>1, <2>2, <2>3, <2>4
    <2>6. Erased(screen, promptLen + cursorColumn) = <<>>
        BY <2>5 DEF Erased
    <2>7. above' = Append(<<>>, Said)
        BY <1>2, <2>6 DEF OverLine
    <2> QED
        BY <2>7
<1> QED
    BY <1>1, <1>2

LEMMA HearsKeep ==
    IInv /\ (HearsRefusal \/ HearsJoined \/ HearsText \/ HearsOwnExit) => IInv'
<1> SUFFICES ASSUME IInv, HearsRefusal \/ HearsJoined \/ HearsText \/ HearsOwnExit
             PROVE  IInv'
    OBVIOUS
<1>1. Hears /\ Prompts /\ chat # "off"
    BY DEF HearsRefusal, HearsJoined, HearsText, HearsOwnExit
<1>2. mode = "Command"
    BY <1>1 DEF IInv, PromptIsMeasured
<1>3. chat' \in {"off", "joining", "refused", "on", "leaving"}
    BY DEF IInv, TypeOK, HearsRefusal, HearsJoined, HearsText, HearsOwnExit
<1>4. named' \in BOOLEAN
    BY DEF IInv, TypeOK, HearsRefusal, HearsJoined, HearsText, HearsOwnExit
<1>5. above' \in {<<>>, <<Said>>}
    <2>1. CASE HearsRefusal \/ HearsJoined
        BY <2>1 DEF IInv, ConversationIsUnbroken, HearsRefusal, HearsJoined
    <2>2. CASE HearsText \/ HearsOwnExit
        BY <2>2, OverLineClears DEF HearsText, HearsOwnExit
    <2> QED
        BY <2>1, <2>2
<1> QED
    BY <1>1, <1>2, <1>3, <1>4, <1>5, HearingKeeps

LEMMA TakesStopKeeps == IInv /\ TakesStop => IInv'
<1> SUFFICES ASSUME IInv, TakesStop
             PROVE  IInv'
    OBVIOUS
<1>1. /\ handed # <<>> /\ handed' = <<>> /\ telnet' = "quit"
      /\ UNCHANGED <<wire, line, entered, reader, editor, session, display, asEntered>>
    BY DEF TakesStop, keyboard
<1>2. /\ wire' \in Seq(Bytes) /\ line' \in Seq(Letters \cup Secrets)
      /\ entered' \in Seq(Seq(Letters \cup Secrets))
      /\ reader' \in {"data", "iac", "option", "sub", "subIAC"}
    BY <1>1 DEF IInv, TypeOK
<1>3. handed' \in Seq(Bytes) /\ Len(handed') <= 1
    BY <1>1
<1>4. \A i \in 1..Len(wire') : wire'[i] \notin Secrets
    <2>1. DOMAIN wire = 1..Len(wire)
        BY DEF IInv, TypeOK
    <2> QED
        BY <1>1, <2>1, TakingLeavesNoSecret
<1> QED
    BY <1>1, <1>2, <1>3, <1>4, OffScreen

-----------------------------------------------------------------------------
LEMMA NextKeeps == IInv /\ [Next]_vars => IInv'
<1> SUFFICES ASSUME IInv, [Next]_vars
             PROVE  IInv'
    OBVIOUS
<1>1. CASE User
    BY <1>1, UserKeeps
<1>2. CASE Read
    BY <1>2, AllReadsKeep
<1>3. CASE Edits
    BY <1>3, EditsKeep
<1>4. CASE LoginLine \/ RunsAtOnce \/ RunsFailingCreate \/ RunsSay \/ RunsJoin \/ RunsExit
    BY <1>4, LoginLineKeeps, RunsAtOnceKeeps, RunsFailingCreateKeeps, RunsSayKeeps,
       RunsJoinKeeps
<1>5. CASE HearsRefusal \/ HearsJoined \/ HearsText \/ HearsOwnExit
    BY <1>5, HearsKeep
<1>6. CASE TakesStop
    BY <1>6, TakesStopKeeps
<1>7. CASE Reconnects
    BY <1>7, FreshHolds
<1>8. CASE UNCHANGED vars
    <2>1. UNCHANGED <<wire, line, entered, reader, handed, telnet, editor, session, display,
                      asEntered>>
        BY <1>8 DEF vars, keyboard, network
    <2>2. /\ wire \in Seq(Bytes) /\ handed \in Seq(Bytes) /\ Len(handed) <= 1
          /\ reader \in {"data", "iac", "option", "sub", "subIAC"}
          /\ telnet \in {"reading", "closed", "quit"}
          /\ line \in Seq(Letters \cup Secrets)
          /\ entered \in Seq(Seq(Letters \cup Secrets))
          /\ DOMAIN wire = 1..Len(wire)
        BY DEF IInv, TypeOK
    <2>3. /\ \A i \in 1..Len(wire) : wire[i] \in Secrets =>
                i = 1 /\ handed = <<>> /\ mode = "Password"
          /\ handed # <<>> /\ handed[1] \in Secrets => mode = "Password"
        BY <2>2 DEF IInv, SecretsInTheirPlace
    <2> QED
        BY <2>1, <2>2, <2>3, OffScreen
<1> QED
    BY <1>1, <1>2, <1>3, <1>4, <1>5, <1>6, <1>7, <1>8 DEF Next, Doppelganger

(***************************************************************************)
(* The invariant of a connection seen byte by byte: whatever the user      *)
(* types, whatever the chat sends in between, and wherever it is cut.      *)
(***************************************************************************)
THEOREM TerminalInvariant == Spec => []IInv
<1>1. Init => IInv
    BY InitHolds
<1>2. IInv /\ [Next]_vars => IInv'
    BY NextKeeps
<1> QED
    BY <1>1, <1>2, PTL DEF Spec

(***************************************************************************)
(* No byte of a password is ever on the screen: it is not echoed, and no   *)
(* prompt repeats it out of the line buffer, which is never cleared.       *)
(***************************************************************************)
THEOREM PasswordsStayHidden == Spec => []PasswordNeverShown
<1>1. IInv => PasswordNeverShown
    BY DEF IInv
<1> QED
    BY <1>1, TerminalInvariant, PTL

(***************************************************************************)
(* The screen shows prompt and line, also after conversation has come in.  *)
(***************************************************************************)
THEOREM LineStaysOnScreen == Spec => []ScreenShowsLine
<1>1. IInv => ScreenShowsLine
    BY DEF IInv
<1> QED
    BY <1>1, TerminalInvariant, PTL

(***************************************************************************)
(* Nothing of prompt or line is left in a line of conversation.            *)
(***************************************************************************)
THEOREM ConversationStaysUnbroken == Spec => []ConversationIsUnbroken
<1>1. IInv => ConversationIsUnbroken
    BY DEF IInv
<1> QED
    BY <1>1, TerminalInvariant, PTL

\* The variables of a connection keep their types; TerminalInvariant rests on it.
THEOREM TerminalTypes == Spec => []TypeOK
<1>1. IInv => TypeOK
    BY DEF IInv
<1> QED
    BY <1>1, TerminalInvariant, PTL
=============================================================================
