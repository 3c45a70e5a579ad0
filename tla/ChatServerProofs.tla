-------------------------- MODULE ChatServerProofs --------------------------
(***************************************************************************)
(* The channel master and the chat channel goroutines it launches: type    *)
(* correctness and safety, proved for any number of users, channels and    *)
(* launches, any sizes, and users who type anything at any time.           *)
(* WaitBelowLimit is part of the induction on types because the count of   *)
(* seconds goes up by one; IInv is the inductive invariant of the rest.    *)
(***************************************************************************)
EXTENDS ChatServer, FiniteSetTheorems, SequenceTheorems, TLAPS


-----------------------------------------------------------------------------
(***************************************************************************)
(* The orders in which a set of doppelgangers is told something: sequences *)
(* of sends to its members.                                                *)
(***************************************************************************)
LEMMA BroadcastsType ==
    ASSUME NEW ds \in SUBSET Doppelgangers,
           NEW op \in {"Text", "TextExit"},
           NEW leaving \in Doppelgangers \cup {Nobody},
           NEW s \in Broadcasts(op, ds, leaving)
    PROVE  s \in Seq(ChatSends)
<1>1. IsFiniteSet(ds)
  BY IdsAssumption, FS_Subset DEF IdsAssumption
<1>2. Cardinality(ds) \in Nat
  BY <1>1, FS_CardinalityType
<1>3. PICK f \in SetToSeqs(ds) : s = [k \in DOMAIN f |-> SendTo(op, f[k], leaving)]
  BY DEF Broadcasts
<1>4. f \in [1 .. Cardinality(ds) -> ds]
  BY <1>3 DEF SetToSeqs
<1>5. s \in [1 .. Cardinality(ds) -> ChatSends]
  BY <1>3, <1>4 DEF SendTo, ChatSends
<1> QED
  BY <1>2, <1>5

\* The answers of a chat channel to a join are sequences of sends.
LEMMA AnswersType ==
    ASSUME NEW d \in Doppelgangers,
           NEW members \in SUBSET Doppelgangers,
           NEW s \in AnswersToJoin(d, members)
    PROVE  s \in Seq(ChatSends)
<1>1. \A op \in {"Text", "Joined", "Denial", "JoinDenied"} : SendTo(op, d, Nobody) \in ChatSends
  BY DEF SendTo, ChatSends
<1>2. CASE Cardinality(members) >= MaxMembers
  <2>1. s = RefusalOf(d)
    BY <1>2 DEF AnswersToJoin
  <2> QED
    BY <1>1, <2>1 DEF RefusalOf
<1>3. CASE ~(Cardinality(members) >= MaxMembers)
  <2> DEFINE others == {m \in members : UserOf[m] # UserOf[d]}
             welcome == <<SendTo("Joined", d, Nobody), SendTo("Text", d, Nobody)>>
  <2>1. PICK t \in Broadcasts("Text", others, Nobody) : s = welcome \o t
    BY <1>3 DEF AnswersToJoin, WelcomesOf
  <2>2. t \in Seq(ChatSends)
    <3> HIDE DEF others
    <3>1. others \in SUBSET Doppelgangers
      BY DEF others
    <3> QED
      BY <2>1, <3>1, BroadcastsType
  <2>3. welcome \in Seq(ChatSends)
    BY <1>1
  <2> QED
    BY <2>1, <2>2, <2>3, ConcatProperties
<1> QED
  BY <1>2, <1>3

-----------------------------------------------------------------------------
(***************************************************************************)
(* The end of a doppelganger's loop keeps the types, and a doppelganger    *)
(* that has waited as long as it waits returns.                            *)
(***************************************************************************)
TypeInv == TypeOK /\ WaitBelowLimit

LoopInv == LoopTypeOK /\ WaitBelowLimit

LEMMA SettlesKeepsTypes ==
    ASSUME LoopInv, NEW d \in Doppelgangers,
           NEW st \in {"selecting", "blocked", "returned"},
           NEW g \in BOOLEAN, NEW id \in Channels \cup {NoChannel, Joining},
           NEW ce \in BOOLEAN, NEW n \in 0 .. CantExitLimit, NEW q \in Seq(ToMaster),
           st # "returned" => n < CantExitLimit,
           Settles(d, st, g, id, ce, n, q)
    PROVE  LoopInv'
<1>1. masterQ' \in Seq(ToMaster)
  BY DEF Settles
<1>2. status' \in [Doppelgangers -> {"selecting", "blocked", "returned"}]
  BY DEF Settles, LoopInv, LoopTypeOK
<1>3. chatID' \in [Doppelgangers -> Channels \cup {NoChannel, Joining}]
  BY DEF Settles, LoopInv, LoopTypeOK
<1>4. gone' \in [Doppelgangers -> BOOLEAN]
  BY Zenon DEF Settles, LoopInv, LoopTypeOK
<1>5. cantExit' \in [Doppelgangers -> BOOLEAN]
  BY Zenon DEF Settles, LoopInv, LoopTypeOK
<1>6. cantExitCount' \in [Doppelgangers -> 0 .. CantExitLimit]
  BY DEF Settles, LoopInv, LoopTypeOK
<1>7. WaitBelowLimit'
  BY DEF Settles, LoopInv, LoopTypeOK, WaitBelowLimit
<1> QED
  BY <1>1, <1>2, <1>3, <1>4, <1>5, <1>6, <1>7 DEF LoopInv, LoopTypeOK

LEMMA WaitedType ==
    ASSUME LoopInv, NEW d \in Doppelgangers, status[d] # "returned", NEW q
    PROVE  Waited(d, q) \in 0 .. CantExitLimit
  BY SizesAssumption DEF LoopInv, LoopTypeOK, WaitBelowLimit, Waited, SizesAssumption

LEMMA RequestType ==
    ASSUME NEW q \in Seq(ToMaster), NEW d \in Doppelgangers,
           NEW id \in Channels \cup {Joining}, NEW op \in {"Who", "Exit"}
    PROVE  Append(q, Request(op, d, id)) \in Seq(ToMaster)
<1>1. Request(op, d, id) \in ToMaster
  BY DEF Request, ToMaster
<1> QED
  BY <1>1, AppendProperties

LEMMA WriteFailsType ==
    ASSUME NEW d \in Doppelgangers
    PROVE  WriteFails(d) \subseteq BOOLEAN
  BY DEF WriteFails

LEMMA EndOfLoopKeepsTypes ==
    ASSUME LoopInv, NEW d \in Doppelgangers, status[d] # "returned",
           NEW g \in BOOLEAN, NEW id \in Channels \cup {NoChannel, Joining},
           NEW ce \in BOOLEAN, NEW q \in Seq(ToMaster), NEW prompt \in BOOLEAN,
           EndOfLoop(d, g, id, ce, q, prompt)
    PROVE  LoopInv'
<1>1. cantExitCount[d] \in 0 .. CantExitLimit /\ cantExitCount[d] < CantExitLimit
  BY DEF LoopInv, LoopTypeOK, WaitBelowLimit
<1>2. CASE StaysWithUser(d, id, ce, q, prompt)
  <2>1. PICK lost \in BOOLEAN : Settles(d, "selecting", lost, id, ce, cantExitCount[d], q)
    BY <1>2, WriteFailsType DEF StaysWithUser
  <2> QED
    BY <1>1, <2>1, SettlesKeepsTypes
<1>3. CASE ce /\ WaitsForExit(d, id, q)
  <2> DEFINE n == Waited(d, q)
             st == IF n >= CantExitLimit THEN "returned" ELSE "selecting"
  <2>1. n \in 0 .. CantExitLimit
    BY WaitedType
  <2>2. st \in {"selecting", "blocked", "returned"}
    OBVIOUS
  <2>3. st # "returned" => n < CantExitLimit
    BY <2>1, SizesAssumption DEF SizesAssumption
  <2>4. Settles(d, st, TRUE, id, TRUE, n, q)
    BY <1>3 DEF WaitsForExit
  <2> HIDE DEF n, st
  <2> QED
    BY <2>1, <2>2, <2>3, <2>4, SettlesKeepsTypes
<1>4. CASE id # NoChannel /\ LeavesChannel(d, id, q)
  <2> DEFINE r == IF id = Joining THEN q ELSE Append(q, Request("Exit", d, id))
  <2>1. r \in Seq(ToMaster)
    BY <1>4, RequestType
  <2>2. Settles(d, "selecting", TRUE, NoChannel, TRUE, cantExitCount[d], r)
    BY <1>4 DEF LeavesChannel
  <2> HIDE DEF r
  <2> QED
    BY <1>1, <2>1, <2>2, SettlesKeepsTypes
<1>5. CASE Returns(d, q)
  BY <1>1, <1>5, SettlesKeepsTypes DEF Returns
<1> QED
  BY <1>2, <1>3, <1>4, <1>5 DEF EndOfLoop

LEMMA OnlyWritesKeepsTypes ==
    ASSUME LoopInv, NEW d \in Doppelgangers, status[d] # "returned",
           NEW g \in BOOLEAN, NEW prompt \in BOOLEAN, OnlyWrites(d, g, prompt)
    PROVE  LoopInv'
<1>1. /\ chatID[d] \in Channels \cup {NoChannel, Joining}
      /\ masterQ \in Seq(ToMaster)
  BY DEF LoopInv, LoopTypeOK
<1>2. cantExit[d] \in BOOLEAN
  BY Zenon DEF LoopInv, LoopTypeOK
<1> QED
  BY <1>1, <1>2, EndOfLoopKeepsTypes DEF OnlyWrites

-----------------------------------------------------------------------------
(***************************************************************************)
(* The steps of a doppelganger.  Whatever it takes a line, or a message    *)
(* from a chat channel, for, what it leaves alone keeps its type.          *)
(***************************************************************************)
LEMMA TypeInvParts ==
    /\ TypeInv <=> /\ MasterTypeOK /\ ChatTypeOK /\ LoopInv /\ MailTypeOK
                   /\ TelnetTypeOK
    /\ TypeInv' <=> /\ MasterTypeOK' /\ ChatTypeOK' /\ LoopInv' /\ MailTypeOK'
                    /\ TelnetTypeOK'
  BY DEF TypeInv, TypeOK, LoopInv

LEMMA DoppFrame ==
    ASSUME TypeInv, LoopInv', UNCHANGED <<restOfMaster, restOfChat>>,
           speech' \in [Goroutines -> 0 .. SpeechBuffer],
           MailTypeOK', TelnetTypeOK'
    PROVE  TypeInv'
<1>1. MasterTypeOK'
  BY TypeInvParts DEF MasterTypeOK, restOfMaster
<1>2. ChatTypeOK'
  BY TypeInvParts DEF ChatTypeOK, restOfChat
<1> QED
  BY <1>1, <1>2, TypeInvParts

LEMMA TakeLineFrame ==
    ASSUME TypeInv, NEW d \in Doppelgangers, TakeLine(d), LoopInv',
           speech' \in [Goroutines -> 0 .. SpeechBuffer],
           telnet' \in [Doppelgangers -> {"reading", "closed", "quit"}],
           UNCHANGED view, crash' \in Crashes
    PROVE  TypeInv'
<1>1. line' \in [Doppelgangers -> Seq(Lines)]
  BY TypeInvParts DEF TakeLine, TelnetTypeOK
<1>2. TelnetTypeOK'
  BY <1>1, TypeInvParts DEF TakeLine, TelnetTypeOK
<1>3. MailTypeOK'
  BY TypeInvParts DEF TakeLine, MailTypeOK
<1> QED
  BY <1>2, <1>3, DoppFrame DEF TakeLine

LEMMA ViewType ==
    ASSUME TypeInv, NEW d \in Doppelgangers, NEW what \in {"off", "on"}, Sees(d, what)
    PROVE  view' \in [Doppelgangers -> {"off", "asked", "on"}]
  BY TypeInvParts DEF Sees, TelnetTypeOK

LEMMA TakeFromChatFrame ==
    ASSUME TypeInv, NEW d \in Doppelgangers, NEW op, TakeFromChat(d, op), LoopInv',
           callback' \in [Doppelgangers -> Goroutines \cup {NoGoroutine}],
           view' \in [Doppelgangers -> {"off", "asked", "on"}]
    PROVE  TypeInv'
<1>1. chatIn' \in [Doppelgangers -> Seq(ToDoppelganger)]
  <2>1. chatIn[d] \in Seq(ToDoppelganger)
    BY TypeInvParts DEF MailTypeOK
  <2>2. Tail(chatIn[d]) \in Seq(ToDoppelganger)
    BY <2>1, HeadTailProperties DEF TakeFromChat
  <2> QED
    BY <2>2, TypeInvParts DEF TakeFromChat, MailTypeOK
<1>2. MailTypeOK'
  BY <1>1, TypeInvParts DEF TakeFromChat, MailTypeOK
<1>3. TelnetTypeOK'
  BY TypeInvParts DEF TakeFromChat, TelnetTypeOK
<1>4. UNCHANGED <<restOfMaster, restOfChat, speech>>
  BY DEF TakeFromChat, chatVars, restOfChat
<1> QED
  BY <1>2, <1>3, <1>4, DoppFrame, TypeInvParts DEF ChatTypeOK

LEMMA SpeechType ==
    ASSUME NEW i, speech \in [Goroutines -> 0 .. SpeechBuffer],
           i \in Goroutines => speech[i] # SpeechBuffer,
           speech' = [speech EXCEPT ![i] = @ + 1]
    PROVE  speech' \in [Goroutines -> 0 .. SpeechBuffer]
<1>1. CASE i \in Goroutines
  <2>1. speech[i] + 1 \in 0 .. SpeechBuffer
    BY <1>1, SizesAssumption DEF SizesAssumption
  <2> QED
    BY <1>1, <2>1
<1>2. CASE i \notin Goroutines
  BY <1>2
<1> QED
  BY <1>1, <1>2

LEMMA DoppStepKeepsTypes ==
    ASSUME TypeInv, NEW d \in Doppelgangers, DoppStep(d)
    PROVE  TypeInv'
<1>0. /\ gone[d] \in BOOLEAN /\ cantExit[d] \in BOOLEAN
      /\ WriteFails(d) \subseteq BOOLEAN
  BY WriteFailsType, TypeInvParts, Zenon DEF LoopInv, LoopTypeOK
<1>i. /\ chatID[d] \in Channels \cup {NoChannel, Joining}
      /\ masterQ \in Seq(ToMaster)
      /\ callback[d] \in Goroutines \cup {NoGoroutine}
      /\ speech \in [Goroutines -> 0 .. SpeechBuffer]
      /\ telnet \in [Doppelgangers -> {"reading", "closed", "quit"}]
      /\ callback \in [Doppelgangers -> Goroutines \cup {NoGoroutine}]
      /\ crash \in Crashes
      /\ view \in [Doppelgangers -> {"off", "asked", "on"}]
      /\ LoopInv
  BY TypeInvParts DEF LoopInv, LoopTypeOK, MailTypeOK, ChatTypeOK, TelnetTypeOK
<1>g. \A fails \in WriteFails(d) : (gone[d] \/ fails) \in BOOLEAN
  OBVIOUS
<1>1. CASE DoppEchoFails(d)
  <2>1. LoopInv'
    BY <1>1, <1>i, OnlyWritesKeepsTypes DEF DoppEchoFails
  <2>2. UNCHANGED <<restOfMaster, restOfChat, speech, callback, replyIn, chatIn, telnetVars, crash>>
    BY <1>1 DEF DoppEchoFails, chatVars, restOfChat
  <2>3. MailTypeOK' /\ TelnetTypeOK'
    BY <2>2, TypeInvParts DEF MailTypeOK, TelnetTypeOK, telnetVars
  <2> QED
    BY <1>i, <2>1, <2>2, <2>3, DoppFrame
<1>2. CASE DoppJoin(d)
  <2>1. CASE \E fails \in WriteFails(d) : OnlyWrites(d, gone[d] \/ fails, TRUE)
    <3>1. LoopInv'
      BY <1>0, <1>2, <1>i, <2>1, OnlyWritesKeepsTypes DEF DoppJoin, HasLine
    <3> QED
      BY <1>2, <1>i, <3>1, TakeLineFrame DEF DoppJoin
  <2> DEFINE q == Append(masterQ, Request("Join", d, Head(line[d]).chan))
  <2>2. CASE EndOfLoop(d, gone[d], Joining, cantExit[d], q, FALSE)
    <3>1. line[d] \in Seq(Lines) /\ line[d] # <<>>
      BY <1>2, TypeInvParts DEF DoppJoin, HasLine, TelnetTypeOK
    <3>2. Head(line[d]) \in Lines
      BY <3>1, HeadTailProperties
    <3>3. Request("Join", d, Head(line[d]).chan) \in ToMaster
      BY <3>2 DEF Lines, Request, ToMaster
    <3>4. q \in Seq(ToMaster)
      BY <1>i, <3>3, AppendProperties
    <3>5. status[d] # "returned"
      BY <1>2 DEF DoppJoin, HasLine
    <3> HIDE DEF q
    <3>6. LoopInv'
      BY <1>0, <1>i, <2>2, <3>4, <3>5, EndOfLoopKeepsTypes, Zenon
    <3> QED
      BY <1>2, <1>i, <3>6, TakeLineFrame DEF DoppJoin
  <2> QED
    BY <1>2, <2>1, <2>2 DEF DoppJoin
<1>3. CASE DoppWho(d)
  <2>1. status[d] # "returned"
    BY <1>3 DEF DoppWho, HasLine
  <2>2. PICK fails \in WriteFails(d) :
            IF chatID[d] = NoChannel \/ fails
            THEN OnlyWrites(d, gone[d] \/ fails, TRUE)
            ELSE EndOfLoop(d, gone[d], chatID[d], cantExit[d],
                    Append(masterQ, Request("Who", d, chatID[d])), TRUE)
    BY <1>3 DEF DoppWho
  <2>3. LoopInv'
    <3>1. CASE OnlyWrites(d, gone[d] \/ fails, TRUE)
      BY <1>g, <1>i, <2>1, <3>1, OnlyWritesKeepsTypes
    <3>2. CASE chatID[d] # NoChannel /\ EndOfLoop(d, gone[d], chatID[d], cantExit[d],
                    Append(masterQ, Request("Who", d, chatID[d])), TRUE)
      <4>1. Append(masterQ, Request("Who", d, chatID[d])) \in Seq(ToMaster)
        BY <1>i, <3>2, RequestType
      <4> DEFINE q == Append(masterQ, Request("Who", d, chatID[d]))
      <4>2. EndOfLoop(d, gone[d], chatID[d], cantExit[d], q, TRUE)
        BY <3>2
      <4>3. q \in Seq(ToMaster)
        BY <4>1
      <4>4. chatID[d] \in Channels \cup {NoChannel, Joining} /\ LoopInv
        BY <1>i
      <4> HIDE DEF q
      <4> QED
        BY <1>0, <2>1, <4>2, <4>3, <4>4, EndOfLoopKeepsTypes, Zenon
    <3> QED
      BY <2>2, <3>1, <3>2
  <2> QED
    BY <1>3, <1>i, <2>3, TakeLineFrame DEF DoppWho
<1>4. CASE DoppExit(d)
  <2>1. status[d] # "returned"
    BY <1>4 DEF DoppExit, HasLine
  <2>2. PICK fails \in WriteFails(d) :
            IF chatID[d] = NoChannel \/ fails
            THEN OnlyWrites(d, gone[d] \/ fails, TRUE)
            ELSE EndOfLoop(d, gone[d], NoChannel, TRUE,
                    Append(masterQ, Request("Exit", d, chatID[d])), TRUE)
    BY <1>4 DEF DoppExit
  <2>3. LoopInv'
    <3>1. CASE OnlyWrites(d, gone[d] \/ fails, TRUE)
      BY <1>g, <1>i, <2>1, <3>1, OnlyWritesKeepsTypes
    <3>2. CASE chatID[d] # NoChannel /\ EndOfLoop(d, gone[d], NoChannel, TRUE,
                    Append(masterQ, Request("Exit", d, chatID[d])), TRUE)
      <4>1. Append(masterQ, Request("Exit", d, chatID[d])) \in Seq(ToMaster)
        BY <1>i, <3>2, RequestType
      <4> QED
        BY <1>0, <1>i, <2>1, <3>2, <4>1, EndOfLoopKeepsTypes, Zenon
    <3> QED
      BY <2>2, <3>1, <3>2
  <2> QED
    BY <1>4, <1>i, <2>3, TakeLineFrame DEF DoppExit
<1>5. CASE DoppSay(d)
  <2>1. status[d] # "returned"
    BY <1>5 DEF DoppSay, HasLine
  <2>t. TakeLine(d) /\ UNCHANGED <<telnet, view>>
    BY <1>5 DEF DoppSay
  <2>2. ASSUME NEW g \in BOOLEAN, NEW prompt \in BOOLEAN, OnlyWrites(d, g, prompt)
        PROVE  LoopInv'
    BY <1>i, <2>1, <2>2, OnlyWritesKeepsTypes
  <2>3. PICK fails \in WriteFails(d) :
            IF chatID[d] = NoChannel \/ fails \/ callback[d] = NoGoroutine
            THEN /\ OnlyWrites(d, gone[d] \/ fails, chatID[d] = NoChannel)
                 /\ UNCHANGED <<speech, crash>>
            ELSE IF chatState[callback[d]] = "returned"
            THEN /\ crash' = "doppelganger sent on a closed go channel"
                 /\ UNCHANGED <<masterQ, speech, status, gone, chatID, cantExit,
                                cantExitCount>>
            ELSE IF speech[callback[d]] = SpeechBuffer
            THEN /\ status' = [status EXCEPT ![d] = "blocked"]
                 /\ UNCHANGED <<masterQ, speech, gone, chatID, cantExit,
                                cantExitCount, crash>>
            ELSE /\ speech' = [speech EXCEPT ![callback[d]] = @ + 1]
                 /\ OnlyWrites(d, gone[d], FALSE)
                 /\ UNCHANGED crash
    BY <1>5, Zenon DEF DoppSay
  <2>4. CASE /\ OnlyWrites(d, gone[d] \/ fails, chatID[d] = NoChannel)
             /\ UNCHANGED <<speech, crash>>
    <3>1. LoopInv'
      BY <1>g, <2>2, <2>4
    <3> QED
      BY <1>i, <2>4, <2>t, <3>1, TakeLineFrame
  <2>5. CASE /\ crash' = "doppelganger sent on a closed go channel"
             /\ UNCHANGED <<masterQ, speech, status, gone, chatID, cantExit,
                            cantExitCount>>
    <3>1. LoopInv'
      BY <1>i, <2>5 DEF LoopInv, LoopTypeOK, WaitBelowLimit
    <3>2. crash' \in Crashes
      BY <2>5 DEF Crashes
    <3> QED
      BY <1>i, <2>5, <2>t, <3>1, <3>2, TakeLineFrame
  <2>6. CASE /\ status' = [status EXCEPT ![d] = "blocked"]
             /\ UNCHANGED <<masterQ, speech, gone, chatID, cantExit,
                            cantExitCount, crash>>
    <3>1. LoopInv'
      BY <1>i, <2>1, <2>6 DEF LoopInv, LoopTypeOK, WaitBelowLimit
    <3> QED
      BY <1>i, <2>6, <2>t, <3>1, TakeLineFrame
  <2>7. CASE /\ callback[d] # NoGoroutine
             /\ speech[callback[d]] # SpeechBuffer
             /\ speech' = [speech EXCEPT ![callback[d]] = @ + 1]
             /\ OnlyWrites(d, gone[d], FALSE)
             /\ UNCHANGED crash
    <3>1. LoopInv'
      BY <1>0, <2>2, <2>7
    <3>2. speech' \in [Goroutines -> 0 .. SpeechBuffer]
      BY <1>i, <2>7, SpeechType
    <3> QED
      BY <1>i, <2>7, <2>t, <3>1, <3>2, TakeLineFrame
  <2> QED
    BY <2>3, <2>4, <2>5, <2>6, <2>7
<1>6. CASE DoppUnblocks(d)
  <2>1. CASE UNCHANGED <<masterVars, chatVars, doppVars, telnetVars>> /\ crash' \in Crashes
    <3>1. LoopInv'
      BY <1>i, <2>1 DEF LoopInv, LoopTypeOK, WaitBelowLimit, masterVars, doppVars
    <3>2. MailTypeOK' /\ TelnetTypeOK'
      BY <2>1, TypeInvParts DEF MailTypeOK, TelnetTypeOK, doppVars, telnetVars
    <3> QED
      BY <1>i, <2>1, <3>1, <3>2, DoppFrame DEF restOfMaster, restOfChat, masterVars, chatVars
  <2>2. CASE /\ speech[callback[d]] < SpeechBuffer
             /\ speech' = [speech EXCEPT ![callback[d]] = @ + 1]
             /\ OnlyWrites(d, gone[d], FALSE)
             /\ UNCHANGED <<restOfMaster, restOfChat, callback, replyIn, chatIn,
                            telnetVars, crash>>
    <3>1. LoopInv'
      BY <1>0, <1>6, <1>i, <2>2, OnlyWritesKeepsTypes DEF DoppUnblocks
    <3>2. speech' \in [Goroutines -> 0 .. SpeechBuffer]
      <4>1. callback[d] \in Goroutines => speech[callback[d]] # SpeechBuffer
        BY <1>i, <2>2, SizesAssumption DEF SizesAssumption
      <4> QED
        BY <1>i, <2>2, <4>1, SpeechType
    <3>3. MailTypeOK' /\ TelnetTypeOK'
      BY <2>2, TypeInvParts DEF MailTypeOK, TelnetTypeOK, telnetVars
    <3> QED
      BY <2>2, <3>1, <3>2, <3>3, DoppFrame
  <2>3. CASE Panic("doppelganger sent on a closed go channel")
    <3>1. crash' \in Crashes
      BY <2>3 DEF Panic, Crashes
    <3> QED
      BY <2>1, <2>3, <3>1 DEF Panic
  <2> QED
    BY <1>6, <2>2, <2>3 DEF DoppUnblocks
<1>7. CASE DoppQuit(d)
  <2>1. LoopInv'
    BY <1>7, <1>i, OnlyWritesKeepsTypes DEF DoppQuit, HasLine
  <2> QED
    BY <1>7, <1>i, <2>1, TakeLineFrame DEF DoppQuit
<1>8. CASE DoppSeesClosed(d)
  <2>1. LoopInv'
    BY <1>8, <1>i, OnlyWritesKeepsTypes DEF DoppSeesClosed
  <2>2. MailTypeOK' /\ TelnetTypeOK'
    BY <1>8, TypeInvParts DEF DoppSeesClosed, MailTypeOK, TelnetTypeOK, telnetVars
  <2>3. UNCHANGED <<restOfMaster, restOfChat, speech>>
    BY <1>8 DEF DoppSeesClosed, chatVars, restOfChat
  <2> QED
    BY <1>i, <2>1, <2>2, <2>3, DoppFrame
<1>b. \A fails \in WriteFails(d) : (cantExit[d] /\ ~(gone[d] \/ fails)) \in BOOLEAN
  OBVIOUS
<1>v. \A what \in {"off", "on"} : Sees(d, what) =>
          view' \in [Doppelgangers -> {"off", "asked", "on"}]
  BY ViewType
<1>9. CASE DoppRefusedByMaster(d)
  <2>1. PICK fails \in WriteFails(d) :
            EndOfLoop(d, gone[d] \/ fails, NoChannel,
                      cantExit[d] /\ ~(gone[d] \/ fails), masterQ, TRUE)
    BY <1>9 DEF DoppRefusedByMaster
  <2>2. LoopInv'
    <3> DEFINE g == gone[d] \/ fails
               ce == cantExit[d] /\ ~g
    <3>1. g \in BOOLEAN /\ ce \in BOOLEAN
      BY <1>b, <1>g
    <3>2. EndOfLoop(d, g, NoChannel, ce, masterQ, TRUE)
      BY <2>1
    <3>3. status[d] # "returned"
      BY <1>9 DEF DoppRefusedByMaster
    <3> HIDE DEF g, ce
    <3> QED
      BY <1>i, <3>1, <3>2, <3>3, EndOfLoopKeepsTypes
  <2>3. MailTypeOK'
    BY <1>9, TypeInvParts DEF DoppRefusedByMaster, MailTypeOK
  <2>4. TelnetTypeOK'
    BY <1>9, <1>v, TypeInvParts DEF DoppRefusedByMaster, TelnetTypeOK
  <2>5. UNCHANGED <<restOfMaster, restOfChat, speech>>
    BY <1>9 DEF DoppRefusedByMaster, chatVars, restOfChat
  <2> QED
    BY <1>i, <2>2, <2>3, <2>4, <2>5, DoppFrame
<1>10. CASE DoppRefusedByChat(d)
  <2>1. LoopInv'
    BY <1>g, <1>i, <1>10, OnlyWritesKeepsTypes DEF DoppRefusedByChat, TakeFromChat
  <2>2. TakeFromChat(d, "JoinDenied") /\ Sees(d, "off") /\ UNCHANGED callback
    BY <1>10 DEF DoppRefusedByChat
  <2> QED
    BY <1>i, <1>v, <2>1, <2>2, TakeFromChatFrame
<1>11. CASE DoppJoined(d)
  <2> DEFINE m == Head(chatIn[d])
  <2>1. PICK fails \in WriteFails(d) :
            EndOfLoop(d, gone[d] \/ fails, chanOf[m.by],
                      cantExit[d] /\ ~(gone[d] \/ fails), masterQ, TRUE)
    BY <1>11 DEF DoppJoined
  <2>2. m \in ToDoppelganger
    <3>1. chatIn[d] \in Seq(ToDoppelganger) /\ chatIn[d] # <<>>
      BY <1>11, TypeInvParts DEF DoppJoined, TakeFromChat, MailTypeOK
    <3> QED
      BY <3>1, HeadTailProperties
  <2>3. m.by \in Goroutines /\ chanOf[m.by] \in Channels \cup {NoChannel, Joining}
    BY <2>2, TypeInvParts DEF ToDoppelganger, ChatTypeOK
  <2>4. TakeFromChat(d, "Joined") /\ callback' = [callback EXCEPT ![d] = m.by]
        /\ Sees(d, "on")
    BY <1>11 DEF DoppJoined
  <2>5. LoopInv'
    <3> DEFINE g == gone[d] \/ fails
               ce == cantExit[d] /\ ~g
               c == chanOf[m.by]
    <3>1. g \in BOOLEAN /\ ce \in BOOLEAN
      BY <1>b, <1>g
    <3>2. EndOfLoop(d, g, c, ce, masterQ, TRUE)
      BY <2>1
    <3>3. status[d] # "returned"
      BY <2>4 DEF TakeFromChat
    <3>4. c \in Channels \cup {NoChannel, Joining}
      BY <2>3
    <3> HIDE DEF g, ce, c
    <3> QED
      BY <1>i, <3>1, <3>2, <3>3, <3>4, EndOfLoopKeepsTypes
  <2> HIDE DEF m
  <2> QED
    BY <1>i, <1>v, <2>3, <2>4, <2>5, TakeFromChatFrame
<1>12. CASE DoppText(d)
  <2>1. LoopInv'
    BY <1>g, <1>i, <1>12, OnlyWritesKeepsTypes DEF DoppText, TakeFromChat
  <2> QED
    BY <1>12, <1>i, <2>1, TakeFromChatFrame DEF DoppText
<1>13. CASE DoppHearsExit(d)
  <2>1. LoopInv'
    BY <1>g, <1>i, <1>13, OnlyWritesKeepsTypes DEF DoppHearsExit, TakeFromChat
  <2> QED
    BY <1>13, <1>i, <2>1, TakeFromChatFrame DEF DoppHearsExit
<1>14. CASE DoppOwnExit(d)
  <2>1. TakeFromChat(d, "TextExit") /\ Sees(d, "off") /\ UNCHANGED callback
    BY <1>14 DEF DoppOwnExit
  <2>2. CASE Settles(d, "returned", TRUE, chatID[d], cantExit[d], cantExitCount[d], masterQ)
    <3>1. cantExitCount[d] \in 0 .. CantExitLimit
      BY <1>i DEF LoopInv, LoopTypeOK
    <3>2. LoopInv'
      BY <1>0, <1>i, <2>2, <3>1, SettlesKeepsTypes
    <3> QED
      BY <1>i, <1>v, <2>1, <3>2, TakeFromChatFrame
  <2>3. CASE \E fails \in WriteFails(d) : EndOfLoop(d, fails, NoChannel, FALSE, masterQ, TRUE)
    <3>1. LoopInv'
      BY <1>0, <1>i, <2>1, <2>3, EndOfLoopKeepsTypes DEF TakeFromChat
    <3> QED
      BY <1>i, <1>v, <2>1, <3>1, TakeFromChatFrame
  <2> QED
    BY <1>14, <2>2, <2>3 DEF DoppOwnExit
<1> QED
  BY <1>1, <1>2, <1>3, <1>4, <1>5, <1>6, <1>7, <1>8, <1>9, <1>10, <1>11, <1>12,
     <1>13, <1>14 DEF DoppStep
-----------------------------------------------------------------------------
\* The steps of the channel master.

LEMMA HeadOfMasterQ ==
    ASSUME TypeInv, masterQ # <<>>
    PROVE  /\ Head(masterQ) \in ToMaster
           /\ Tail(masterQ) \in Seq(ToMaster)
  BY TypeInvParts, HeadTailProperties DEF LoopInv, LoopTypeOK

LEMMA MasterFrame ==
    ASSUME TypeInv, MasterTypeOK', masterQ' \in Seq(ToMaster),
           UNCHANGED <<chatVars, status, chatID, callback, gone, cantExit,
                       cantExitCount, chatIn, telnetVars>>,
           replyIn' \in [Doppelgangers -> 0 .. 1], crash' \in Crashes
    PROVE  TypeInv'
<1>1. ChatTypeOK'
  BY TypeInvParts DEF ChatTypeOK, chatVars
<1>2. LoopInv'
  BY TypeInvParts DEF LoopInv, LoopTypeOK, WaitBelowLimit
<1>3. MailTypeOK' /\ TelnetTypeOK'
  BY TypeInvParts DEF MailTypeOK, TelnetTypeOK, telnetVars
<1> QED
  BY <1>1, <1>2, <1>3, TypeInvParts

LEMMA TakeRequestFrame ==
    ASSUME TypeInv, masterQ # <<>>, TakeRequest, UNCHANGED othersOfMaster,
           memberCount' \in [Channels -> Int],
           running' \in [Channels -> Goroutines \cup {NoGoroutine}],
           masterTodo' \in Seq(MasterSends),
           masterReplies' \in Seq(Doppelgangers)
    PROVE  TypeInv'
<1>1. MasterTypeOK'
  BY TypeInvParts DEF MasterTypeOK, TakeRequest
<1>2. masterQ' \in Seq(ToMaster)
  BY HeadOfMasterQ DEF TakeRequest
<1>3. replyIn' \in [Doppelgangers -> 0 .. 1] /\ crash' \in Crashes
  BY TypeInvParts DEF othersOfMaster, doppVars, MailTypeOK, TelnetTypeOK
<1>4. UNCHANGED <<chatVars, status, chatID, callback, gone, cantExit,
                  cantExitCount, chatIn, telnetVars>>
  BY DEF othersOfMaster, doppVars
<1> QED
  BY <1>1, <1>2, <1>3, <1>4, MasterFrame

LEMMA PanicKeepsTypes ==
    ASSUME TypeInv, NEW why \in Crashes, Panic(why)
    PROVE  TypeInv'
<1>1. MasterTypeOK' /\ masterQ' \in Seq(ToMaster)
  BY TypeInvParts DEF Panic, masterVars, MasterTypeOK, LoopInv, LoopTypeOK
<1>2. replyIn' \in [Doppelgangers -> 0 .. 1] /\ crash' \in Crashes
  BY TypeInvParts DEF Panic, doppVars, MailTypeOK
<1>3. UNCHANGED <<chatVars, status, chatID, callback, gone, cantExit,
                  cantExitCount, chatIn, telnetVars>>
  BY DEF Panic, doppVars
<1> QED
  BY <1>1, <1>2, <1>3, MasterFrame

LEMMA MasterStepKeepsTypes ==
    ASSUME TypeInv,
           \/ MasterRefusesName \/ MasterLookupFails \/ MasterForwardsJoin
           \/ MasterWho \/ MasterExit \/ MasterReturns \/ MasterTakesDenial
           \/ MasterSendsToChat \/ MasterReplies
    PROVE  TypeInv'
<1>i. /\ memberCount \in [Channels -> Int]
      /\ running \in [Channels -> Goroutines \cup {NoGoroutine}]
      /\ masterTodo \in Seq(MasterSends)
      /\ masterReplies \in Seq(Doppelgangers)
      /\ masterQ \in Seq(ToMaster)
      /\ denialQ \in Seq(Denials)
  BY TypeInvParts DEF MasterTypeOK, LoopInv, LoopTypeOK
<1>h. ASSUME NEW op, HeadIs(op)
      PROVE  masterQ # <<>> /\ Head(masterQ) \in ToMaster
             /\ Head(masterQ).from \in Doppelgangers
  <2>1. masterQ # <<>>
    BY <1>h DEF HeadIs
  <2> QED
    BY <2>1, HeadOfMasterQ DEF ToMaster
<1>s. ASSUME NEW op \in {"Join", "Who", "Exit", "Shutdown"}, NEW d \in Doppelgangers,
             NEW c, HasEntry(c)
      PROVE  <<[op |-> op, who |-> d, chan |-> c]>> \in Seq(MasterSends)
  BY <1>s DEF HasEntry, MasterSends
<1>1. CASE MasterRefusesName
  <2>1. masterReplies' \in Seq(Doppelgangers)
    BY <1>1, <1>h DEF MasterRefusesName
  <2> QED
    BY <1>1, <1>h, <1>i, <2>1, TakeRequestFrame DEF MasterRefusesName
<1>2. CASE MasterLookupFails
  <2>1. masterReplies' \in Seq(Doppelgangers)
    BY <1>2, <1>h DEF MasterLookupFails
  <2> QED
    BY <1>2, <1>h, <1>i, <2>1, TakeRequestFrame DEF MasterLookupFails
<1>3. CASE MasterForwardsJoin
  <2> DEFINE m == Head(masterQ)
  <2>1. HasEntry(m.chan) /\ m.from \in Doppelgangers
    BY <1>3, <1>h DEF MasterForwardsJoin
  <2>2. masterTodo' \in Seq(MasterSends)
    BY <1>3, <1>s, <2>1 DEF MasterForwardsJoin
  <2>3. memberCount' \in [Channels -> Int]
    BY <1>3, <1>i, <2>1 DEF MasterForwardsJoin, HasEntry
  <2> QED
    BY <1>3, <1>h, <1>i, <2>2, <2>3, TakeRequestFrame DEF MasterForwardsJoin
<1>4. CASE MasterWho
  <2>1. masterTodo' \in Seq(MasterSends)
    <3>1. CASE HasEntry(Head(masterQ).chan)
      BY <1>4, <1>h, <1>s, <3>1 DEF MasterWho
    <3>2. CASE ~HasEntry(Head(masterQ).chan)
      BY <1>4, <3>2 DEF MasterWho
    <3> QED
      BY <3>1, <3>2
  <2> QED
    BY <1>4, <1>h, <1>i, <2>1, TakeRequestFrame DEF MasterWho
<1>5. CASE MasterExit
  <2>1. masterTodo' \in Seq(MasterSends)
    BY <1>5, <1>h, <1>s DEF MasterExit
  <2> QED
    BY <1>5, <1>h, <1>i, <2>1, TakeRequestFrame DEF MasterExit
<1>6. CASE MasterReturns
  <2>1. masterQ' \in Seq(ToMaster)
    BY <1>6, <1>h, HeadOfMasterQ DEF MasterReturns
  <2>2. MasterTypeOK'
    BY <1>6, <1>i DEF MasterReturns, MasterTypeOK
  <2>3. replyIn' \in [Doppelgangers -> 0 .. 1] /\ crash' \in Crashes
    BY <1>6, TypeInvParts DEF MasterReturns, othersOfMaster, doppVars, MailTypeOK,
                             TelnetTypeOK
  <2>4. UNCHANGED <<chatVars, status, chatID, callback, gone, cantExit,
                    cantExitCount, chatIn, telnetVars>>
    BY <1>6 DEF MasterReturns, othersOfMaster, doppVars
  <2> QED
    BY <2>1, <2>2, <2>3, <2>4, MasterFrame
<1>7. CASE MasterTakesDenial
  <2>1. CASE Panic("nil map entry")
    BY <2>1, PanicKeepsTypes DEF Crashes
  <2> DEFINE m == Head(denialQ)
  <2>2. CASE /\ HasEntry(m.chan)
             /\ memberCount' = [memberCount EXCEPT ![m.chan] = @ - 1]
             /\ masterTodo' = IF memberCount[m.chan] = 1
                    THEN <<[op |-> "Shutdown", who |-> m.from, chan |-> m.chan]>>
                    ELSE <<>>
             /\ denialQ' = Tail(denialQ)
             /\ UNCHANGED <<masterQ, running, masterReplies, masterUp,
                            othersOfMaster>>
    <3>1. denialQ # <<>>
      BY <1>7 DEF MasterTakesDenial
    <3>2. m \in Denials /\ Tail(denialQ) \in Seq(Denials)
      BY <1>i, <3>1, HeadTailProperties
    <3>3. m.from \in Doppelgangers
      BY <3>2 DEF Denials
    <3>4. masterTodo' \in Seq(MasterSends)
      BY <1>s, <2>2, <3>3
    <3>5. memberCount' \in [Channels -> Int]
      BY <1>i, <2>2 DEF HasEntry
    <3>6. MasterTypeOK'
      BY <1>i, <2>2, <3>2, <3>4, <3>5, TypeInvParts DEF MasterTypeOK
    <3>7. replyIn' \in [Doppelgangers -> 0 .. 1] /\ crash' \in Crashes
      BY <2>2, TypeInvParts DEF othersOfMaster, doppVars, MailTypeOK, TelnetTypeOK
    <3>8. UNCHANGED <<masterQ, chatVars, status, chatID, callback, gone, cantExit,
                      cantExitCount, chatIn, telnetVars>>
      BY <2>2 DEF othersOfMaster, doppVars
    <3> QED
      BY <1>i, <3>6, <3>7, <3>8, MasterFrame
  <2> QED
    BY <1>7, <2>1, <2>2 DEF MasterTakesDenial
<1>8. CASE MasterSendsToChat
  <2> DEFINE m == Head(masterTodo)
             i == running[m.chan]
             msg == [op |-> m.op, who |-> m.who]
  <2>1. CASE Panic("master sent on a closed go channel")
    BY <2>1, PanicKeepsTypes DEF Crashes
  <2>2. CASE /\ inbox' = [inbox EXCEPT ![i] = Append(@, msg)]
             /\ AfterMasterSend(m)
             /\ UNCHANGED <<masterQ, denialQ, masterReplies, masterUp, chatState,
                            chanOf, speech, memberList, todo, doppVars, telnetVars,
                            crash>>
    <3>1. masterTodo # <<>>
      BY <1>8 DEF MasterSendsToChat
    <3>2. m \in MasterSends /\ Tail(masterTodo) \in Seq(MasterSends)
      BY <1>i, <3>1, HeadTailProperties
    <3>3. msg \in ToChat /\ m.chan \in Channels
      BY <3>2 DEF MasterSends, ToChat
    <3>4. inbox' \in [Goroutines -> Seq(ToChat)]
      <4>1. inbox \in [Goroutines -> Seq(ToChat)]
        BY TypeInvParts DEF ChatTypeOK
      <4>2. CASE i \in Goroutines
        <5>1. Append(inbox[i], msg) \in Seq(ToChat)
          BY <3>3, <4>1, <4>2, AppendProperties
        <5> QED
          BY <2>2, <4>1, <5>1
      <4>3. CASE i \notin Goroutines
        BY <2>2, <4>1, <4>3
      <4> QED
        BY <4>2, <4>3
    <3>5. ChatTypeOK'
      BY <2>2, <3>4, TypeInvParts DEF ChatTypeOK
    <3>6. /\ memberCount' \in [Channels -> Int]
          /\ running' \in [Channels -> Goroutines \cup {NoGoroutine}]
      BY <1>i, <2>2, <3>3 DEF AfterMasterSend
    <3>7. masterTodo' \in Seq(MasterSends)
      <4>1. [m EXCEPT !.op = "Shutdown"] \in MasterSends
        BY <3>2 DEF MasterSends
      <4> QED
        BY <2>2, <3>2, <4>1 DEF AfterMasterSend
    <3>8. MasterTypeOK'
      BY <2>2, <3>6, <3>7, TypeInvParts DEF MasterTypeOK
    <3>9. LoopInv' /\ MailTypeOK' /\ TelnetTypeOK'
      BY <2>2, TypeInvParts DEF LoopInv, LoopTypeOK, WaitBelowLimit, MailTypeOK,
                                TelnetTypeOK, doppVars, telnetVars
    <3> QED
      BY <3>5, <3>8, <3>9, TypeInvParts
  <2> QED
    BY <1>8, <2>1, <2>2 DEF MasterSendsToChat
<1>9. CASE MasterReplies
  <2> DEFINE d == Head(masterReplies)
  <2>1. CASE Panic("master replied on a closed go channel")
    BY <2>1, PanicKeepsTypes DEF Crashes
  <2>2. CASE /\ replyIn[d] < 1
             /\ replyIn' = [replyIn EXCEPT ![d] = @ + 1]
             /\ masterReplies' = Tail(masterReplies)
             /\ UNCHANGED <<masterQ, denialQ, memberCount, running, masterTodo,
                            masterUp, chatVars, status, chatID, callback, gone,
                            cantExit, cantExitCount, chatIn, telnetVars, crash>>
    <3>1. masterReplies # <<>>
      BY <1>9 DEF MasterReplies
    <3>2. d \in Doppelgangers /\ Tail(masterReplies) \in Seq(Doppelgangers)
      BY <1>i, <3>1, HeadTailProperties
    <3>3. MasterTypeOK'
      BY <2>2, <3>2, TypeInvParts DEF MasterTypeOK
    <3>4. replyIn' \in [Doppelgangers -> 0 .. 1]
      BY <2>2, <3>2, TypeInvParts DEF MailTypeOK
    <3>5. crash' \in Crashes
      BY <2>2, TypeInvParts DEF TelnetTypeOK
    <3> QED
      BY <1>i, <2>2, <3>3, <3>4, <3>5, MasterFrame
  <2> QED
    BY <1>9, <2>1, <2>2 DEF MasterReplies
<1> QED
  BY <1>1, <1>2, <1>3, <1>4, <1>5, <1>6, <1>7, <1>8, <1>9
-----------------------------------------------------------------------------
\* The steps of a chat channel, from its launch to its return.

LEMMA ChatFrame ==
    ASSUME TypeInv, ChatTypeOK', UNCHANGED <<masterVars, doppVars, telnetVars>>,
           crash' \in Crashes
    PROVE  TypeInv'
<1>1. MasterTypeOK'
  BY TypeInvParts DEF MasterTypeOK, masterVars
<1>2. LoopInv' /\ MailTypeOK' /\ TelnetTypeOK'
  BY TypeInvParts DEF LoopInv, LoopTypeOK, WaitBelowLimit, MailTypeOK, TelnetTypeOK,
                      masterVars, doppVars, telnetVars
<1> QED
  BY <1>1, <1>2, TypeInvParts

LEMMA LaunchKeepsTypes ==
    ASSUME TypeInv, NEW i \in Goroutines, Launch(i)
    PROVE  TypeInv'
<1> DEFINE m == Head(masterQ)
<1>1. m \in ToMaster /\ masterQ' \in Seq(ToMaster)
  BY HeadOfMasterQ DEF Launch
<1>2. m.from \in Doppelgangers /\ m.chan \in Channels
  BY <1>1 DEF Launch, ToMaster
<1>3. todo' \in [Goroutines -> Seq(ChatSends)]
  <2>1. PICK answer \in AnswersToJoin(m.from, {}) : todo' = [todo EXCEPT ![i] = answer]
    BY DEF Launch
  <2>2. answer \in Seq(ChatSends)
    BY <1>2, <2>1, AnswersType
  <2> QED
    BY <2>1, <2>2, TypeInvParts DEF ChatTypeOK
<1>4. ChatTypeOK'
  BY <1>2, <1>3, TypeInvParts DEF Launch, ChatTypeOK
<1>5. MasterTypeOK'
  BY <1>2, TypeInvParts DEF Launch, MasterTypeOK
<1>6. LoopInv' /\ MailTypeOK' /\ TelnetTypeOK'
  BY <1>1, TypeInvParts DEF Launch, LoopInv, LoopTypeOK, WaitBelowLimit, MailTypeOK,
                            TelnetTypeOK, doppVars, telnetVars
<1> QED
  BY <1>4, <1>5, <1>6, TypeInvParts

LEMMA TakeFromMasterType ==
    ASSUME TypeInv, NEW i \in Goroutines, NEW op, TakeFromMaster(i, op)
    PROVE  /\ Head(inbox[i]) \in ToChat
           /\ Head(inbox[i]).who \in Doppelgangers
           /\ inbox' \in [Goroutines -> Seq(ToChat)]
<1>1. inbox[i] \in Seq(ToChat) /\ inbox[i] # <<>>
  BY TypeInvParts DEF TakeFromMaster, ChatTypeOK
<1>2. Head(inbox[i]) \in ToChat /\ Tail(inbox[i]) \in Seq(ToChat)
  BY <1>1, HeadTailProperties
<1> QED
  BY <1>2, TypeInvParts DEF TakeFromMaster, ChatTypeOK, ToChat

LEMMA ChatStepKeepsTypes ==
    ASSUME TypeInv, NEW i \in Goroutines, ChatStep(i)
    PROVE  TypeInv'
<1>i. /\ todo \in [Goroutines -> Seq(ChatSends)]
      /\ memberList \in [Goroutines -> SUBSET Doppelgangers]
      /\ memberList[i] \in SUBSET Doppelgangers
      /\ crash \in Crashes
  BY TypeInvParts DEF ChatTypeOK, TelnetTypeOK
<1>t. ASSUME NEW s \in Seq(ChatSends), todo' = [todo EXCEPT ![i] = s]
      PROVE  todo' \in [Goroutines -> Seq(ChatSends)]
  BY <1>i, <1>t
<1>f. ASSUME NEW op, TakeFromMaster(i, op),
             chatState' = chatState \/ chatState' = [chatState EXCEPT ![i] = "returned"],
             speech' \in [Goroutines -> 0 .. SpeechBuffer],
             todo' \in [Goroutines -> Seq(ChatSends)],
             UNCHANGED memberList, crash' \in Crashes
      PROVE  TypeInv'
  <2>1. inbox' \in [Goroutines -> Seq(ToChat)]
    BY <1>f, TakeFromMasterType
  <2>2. ChatTypeOK'
    BY <1>f, <2>1, TypeInvParts DEF ChatTypeOK, TakeFromMaster, ChatIdle
  <2> QED
    BY <1>f, <2>2, ChatFrame DEF TakeFromMaster
<1>s. speech \in [Goroutines -> 0 .. SpeechBuffer]
  BY TypeInvParts DEF ChatTypeOK
<1>1. CASE ChatJoin(i)
  <2>1. PICK answer \in AnswersToJoin(Head(inbox[i]).who, memberList[i]) :
            todo' = [todo EXCEPT ![i] = answer]
    BY <1>1 DEF ChatJoin
  <2>2. answer \in Seq(ChatSends)
    BY <1>1, <1>i, <2>1, TakeFromMasterType, AnswersType DEF ChatJoin
  <2> QED
    BY <1>1, <1>f, <1>i, <1>s, <1>t, <2>1, <2>2 DEF ChatJoin
<1>2. CASE ChatWho(i)
  <2>1. CASE /\ crash' = "roster slice out of range"
             /\ UNCHANGED todo
    <3>1. crash' \in Crashes
      BY <2>1 DEF Crashes
    <3> QED
      BY <1>2, <1>f, <1>i, <1>s, <2>1, <3>1 DEF ChatWho
  <2>2. CASE /\ todo' = [todo EXCEPT ![i] = <<SendTo("Text", Head(inbox[i]).who, Nobody)>>]
             /\ UNCHANGED crash
    <3>1. <<SendTo("Text", Head(inbox[i]).who, Nobody)>> \in Seq(ChatSends)
      <4>1. Head(inbox[i]).who \in Doppelgangers
        BY <1>2, TakeFromMasterType DEF ChatWho
      <4>2. SendTo("Text", Head(inbox[i]).who, Nobody) \in ChatSends
        BY <4>1 DEF SendTo, ChatSends
      <4> QED
        BY <4>2
    <3> QED
      BY <1>2, <1>f, <1>i, <1>s, <1>t, <2>2, <3>1 DEF ChatWho
  <2> QED
    BY <1>2, <2>1, <2>2 DEF ChatWho
<1>3. CASE ChatExit(i)
  <2>1. PICK s \in Broadcasts("TextExit", memberList[i], Head(inbox[i]).who) :
            todo' = [todo EXCEPT ![i] = s]
    BY <1>3 DEF ChatExit
  <2>2. s \in Seq(ChatSends)
    BY <1>3, <1>i, <2>1, TakeFromMasterType, BroadcastsType DEF ChatExit
  <2> QED
    BY <1>3, <1>f, <1>i, <1>s, <1>t, <2>1, <2>2 DEF ChatExit
<1>4. CASE ChatShutdown(i)
  <2>1. speech' \in [Goroutines -> 0 .. SpeechBuffer]
    BY <1>4, <1>s, SizesAssumption DEF ChatShutdown, SizesAssumption
  <2> QED
    BY <1>4, <1>f, <1>i, <2>1 DEF ChatShutdown
<1>5. CASE ChatSpeech(i)
  <2>1. PICK s \in Broadcasts("Text", memberList[i], Nobody) :
            todo' = [todo EXCEPT ![i] = s]
    BY <1>5 DEF ChatSpeech
  <2>2. todo' \in [Goroutines -> Seq(ChatSends)]
    BY <1>i, <1>t, <2>1, BroadcastsType
  <2>3. speech' \in [Goroutines -> 0 .. SpeechBuffer]
    BY <1>5, <1>s, SizesAssumption DEF ChatSpeech, SizesAssumption
  <2>4. ChatTypeOK'
    BY <1>5, <2>2, <2>3, TypeInvParts DEF ChatSpeech, ChatTypeOK
  <2> QED
    BY <1>5, <1>i, <2>4, ChatFrame DEF ChatSpeech
<1>m. ASSUME todo[i] # <<>>
      PROVE  /\ Head(todo[i]) \in ChatSends
             /\ Tail(todo[i]) \in Seq(ChatSends)
  <2>1. todo[i] \in Seq(ChatSends)
    BY <1>i
  <2> QED
    BY <1>m, <2>1, HeadTailProperties
<1>6. CASE ChatTellsMaster(i)
  <2> DEFINE denial == [from |-> Head(todo[i]).to, chan |-> chanOf[i]]
  <2>1. todo[i] # <<>> /\ chatState[i] = "running"
    BY <1>6 DEF ChatTellsMaster
  <2>2. denial \in Denials
    BY <1>m, <2>1, TypeInvParts DEF ChatSends, Denials, ChatTypeOK
  <2>3. denialQ' \in Seq(Denials)
    <3> HIDE DEF denial
    <3>1. denialQ' = Append(denialQ, denial)
      BY <1>6 DEF ChatTellsMaster, denial
    <3> QED
      BY <2>2, <3>1, TypeInvParts, AppendProperties DEF MasterTypeOK
  <2>4. MasterTypeOK'
    BY <1>6, <2>3, TypeInvParts DEF ChatTellsMaster, MasterTypeOK
  <2>5. ChatTypeOK'
    BY <1>6, <1>m, <1>t, <2>1, TypeInvParts DEF ChatTellsMaster, ChatTypeOK
  <2>6. LoopInv' /\ MailTypeOK' /\ TelnetTypeOK'
    BY <1>6, TypeInvParts DEF ChatTellsMaster, LoopInv, LoopTypeOK, WaitBelowLimit,
                              MailTypeOK, TelnetTypeOK, doppVars, telnetVars
  <2> QED
    BY <2>4, <2>5, <2>6, TypeInvParts
<1>7. CASE ChatTellsDoppelganger(i)
  <2> DEFINE m == Head(todo[i])
             msg == [op |-> m.op, by |-> i, leaving |-> m.leaving]
  <2>1. todo[i] # <<>> /\ m.op # "Denial"
    BY <1>7 DEF ChatTellsDoppelganger
  <2>2. m \in ChatSends /\ m.to \in Doppelgangers /\ msg \in ToDoppelganger
    BY <1>m, <2>1 DEF ChatSends, ToDoppelganger
  <2>3. CASE Panic("chat channel sent on a closed go channel")
    BY <2>3, PanicKeepsTypes DEF Crashes
  <2>4. CASE /\ chatIn' = [chatIn EXCEPT ![m.to] = Append(@, msg)]
             /\ AfterChatSend(i, m)
             /\ todo' = [todo EXCEPT ![i] = Tail(@)]
             /\ UNCHANGED <<masterVars, chatState, chanOf, inbox, speech, status,
                            chatID, callback, gone, cantExit, cantExitCount,
                            replyIn, telnetVars, crash>>
    <3>1. chatIn' \in [Doppelgangers -> Seq(ToDoppelganger)]
      <4>1. chatIn[m.to] \in Seq(ToDoppelganger)
        BY <2>2, TypeInvParts DEF MailTypeOK
      <4>2. Append(chatIn[m.to], msg) \in Seq(ToDoppelganger)
        BY <2>2, <4>1, AppendProperties
      <4> HIDE DEF m, msg
      <4> QED
        BY <2>4, <4>2, TypeInvParts DEF MailTypeOK
    <3>2. memberList' \in [Goroutines -> SUBSET Doppelgangers]
      <4> HIDE DEF m
      <4> QED
        BY <1>i, <2>2, <2>4 DEF AfterChatSend
    <3>3. todo' \in [Goroutines -> Seq(ChatSends)]
      BY <1>m, <1>t, <2>1, <2>4
    <3>4. ChatTypeOK'
      BY <2>4, <3>2, <3>3, TypeInvParts DEF ChatTypeOK
    <3>5. MasterTypeOK'
      BY <2>4, TypeInvParts DEF MasterTypeOK, masterVars
    <3>6. LoopInv' /\ MailTypeOK' /\ TelnetTypeOK'
      BY <2>4, <3>1, TypeInvParts DEF LoopInv, LoopTypeOK, WaitBelowLimit, MailTypeOK,
                                     TelnetTypeOK, masterVars, telnetVars
    <3> QED
      BY <3>4, <3>5, <3>6, TypeInvParts
  <2> QED
    BY <1>7, <2>3, <2>4 DEF ChatTellsDoppelganger
<1> QED
  BY <1>1, <1>2, <1>3, <1>4, <1>5, <1>6, <1>7 DEF ChatStep

-----------------------------------------------------------------------------
\* The steps of the users, of the network and of the Telnet goroutines.

LEMMA TelnetKeepsTypes ==
    ASSUME TypeInv, NEW d \in Doppelgangers, TelnetStep(d) \/ Environment(d)
    PROVE  TypeInv'
<1>1. UNCHANGED othersOfTelnet
  BY DEF TelnetStep, Environment, UserTypes, ConnectionDrops, ReadFails,
         ServerClosesConnection
<1>2. TelnetTypeOK'
  <2>1. CASE UserTypes(d)
    <3>1. PICK l \in Offered :
            /\ line' = [line EXCEPT ![d] = <<l>>]
            /\ view' = [view EXCEPT ![d] =
                    IF d \notin Impatient /\ l.cmd \in {"join", "exit"}
                    THEN "asked" ELSE @]
      BY <2>1 DEF UserTypes
    <3>2. <<l>> \in Seq(Lines)
      BY OfferedAssumption
    <3>3. line' \in [Doppelgangers -> Seq(Lines)]
      BY <3>1, <3>2, TypeInvParts DEF TelnetTypeOK
    <3>4. typed' \in [Doppelgangers -> 0 .. MaxLines]
      BY <2>1, TypeInvParts, SizesAssumption DEF UserTypes, TelnetTypeOK, SizesAssumption
    <3> QED
      BY <1>1, <2>1, <3>1, <3>3, <3>4, TypeInvParts
         DEF UserTypes, TelnetTypeOK, othersOfTelnet
  <2>2. CASE ConnectionDrops(d) \/ ReadFails(d) \/ ServerClosesConnection(d)
    BY <1>1, <2>2, TypeInvParts DEF ConnectionDrops, ReadFails, ServerClosesConnection,
                                    TelnetTypeOK, othersOfTelnet
  <2> QED
    BY <2>1, <2>2 DEF TelnetStep, Environment
<1>3. MasterTypeOK' /\ ChatTypeOK'
  BY <1>1, TypeInvParts DEF othersOfTelnet, masterVars, chatVars, MasterTypeOK, ChatTypeOK
<1>4. LoopInv' /\ MailTypeOK'
  BY <1>1, TypeInvParts DEF othersOfTelnet, masterVars, doppVars, LoopInv, LoopTypeOK,
                            WaitBelowLimit, MailTypeOK
<1> QED
  BY <1>2, <1>3, <1>4, TypeInvParts

LEMMA StutterKeepsTypes ==
    ASSUME TypeInv, UNCHANGED vars
    PROVE  TypeInv'
<1>1. ChatTypeOK' /\ crash' \in Crashes
  BY TypeInvParts DEF vars, chatVars, ChatTypeOK, TelnetTypeOK
<1> QED
  BY <1>1, ChatFrame DEF vars

-----------------------------------------------------------------------------
LEMMA InitHasTypes == Init => TypeInv
<1> SUFFICES ASSUME Init PROVE TypeInv
  OBVIOUS
<1>1. MasterTypeOK
  BY DEF Init, MasterTypeOK
<1>2. ChatTypeOK
  BY SizesAssumption DEF Init, ChatTypeOK, SizesAssumption
<1>3. LoopTypeOK /\ WaitBelowLimit
  BY SizesAssumption DEF Init, LoopTypeOK, WaitBelowLimit, SizesAssumption
<1>4. MailTypeOK
  BY DEF Init, MailTypeOK
<1>5. TelnetTypeOK
  BY SizesAssumption DEF Init, TelnetTypeOK, Crashes, SizesAssumption
<1> QED
  BY <1>1, <1>2, <1>3, <1>4, <1>5 DEF TypeInv, TypeOK

LEMMA NextKeepsTypes == TypeInv /\ [Next]_vars => TypeInv'
<1> SUFFICES ASSUME TypeInv, [Next]_vars PROVE TypeInv'
  OBVIOUS
<1>1. CASE MasterStep
  BY <1>1, MasterStepKeepsTypes, LaunchKeepsTypes DEF MasterStep
<1>2. CASE \E i \in Goroutines : ChatStep(i)
  BY <1>2, ChatStepKeepsTypes
<1>3. CASE \E d \in Doppelgangers : DoppStep(d) \/ TelnetStep(d) \/ Environment(d)
  BY <1>3, DoppStepKeepsTypes, TelnetKeepsTypes
<1>4. CASE UNCHANGED vars
  BY <1>4, StutterKeepsTypes
<1> QED
  BY <1>1, <1>2, <1>3, <1>4 DEF Next, StaysIdle

(***************************************************************************)
(* Every variable always has its type: in particular no go channel holds a *)
(* message that its receiver has no case for, a chat channel that has been *)
(* launched has an ID of the database, and no more speech or replies are   *)
(* buffered than their go channels hold.                                   *)
(***************************************************************************)
THEOREM TypeCorrect == Spec => []TypeOK
<1>1. Init => TypeInv
  BY InitHasTypes
<1>2. TypeInv /\ [Next]_vars => TypeInv'
  BY NextKeepsTypes
<1>3. TypeInv => TypeOK
  BY DEF TypeInv
<1> QED
  BY <1>1, <1>2, <1>3, PTL DEF Spec

-----------------------------------------------------------------------------
(****************************************************************************)
(* The entries of the channel master's map and the goroutines behind them.  *)
(****************************************************************************)

\* The parts of IInv about the entries of runningChatchannelMap.
EntryInv ==
    /\ UnbornAreUnused
    /\ OneSendAtATime
    /\ EntryIsLive
    /\ OneLiveGoroutinePerChannel

LEMMA IInvParts ==
    /\ IInv <=> TypeInv /\ EntryInv /\ MasterNeverSendsOnClosed
    /\ IInv' <=> TypeInv' /\ EntryInv' /\ MasterNeverSendsOnClosed'
  BY DEF IInv, TypeInv, EntryInv

LEMMA TypeInvFacts ==
    ASSUME TypeInv
    PROVE  /\ running \in [Channels -> Goroutines \cup {NoGoroutine}]
           /\ masterTodo \in Seq(MasterSends)
           /\ chatState \in [Goroutines -> {"unborn", "running", "returned"}]
           /\ chanOf \in [Goroutines -> Channels \cup {NoChannel}]
           /\ inbox \in [Goroutines -> Seq(ToChat)]
           /\ NoGoroutine \notin Goroutines
           /\ \A i \in Goroutines : chatState[i] # "unborn" => chanOf[i] \in Channels
  BY TypeInvParts DEF MasterTypeOK, ChatTypeOK, Goroutines, NoGoroutine

-----------------------------------------------------------------------------
\* What a send to, and a receive from, the master's go channel do to a Shutdown in it.

LEMMA ShutdownOfAppend ==
    ASSUME NEW s \in Seq(ToChat), NEW m \in ToChat
    PROVE  HasShutdown(Append(s, m)) <=> HasShutdown(s) \/ m.op = "Shutdown"
<1>1. /\ Len(Append(s, m)) = Len(s) + 1
      /\ \A k \in 1 .. Len(s) : Append(s, m)[k] = s[k]
      /\ Append(s, m)[Len(s) + 1] = m
  BY AppendProperties
<1>2. Len(s) \in Nat /\ DOMAIN s = 1 .. Len(s)
      /\ DOMAIN Append(s, m) = 1 .. Len(s) + 1
  BY <1>1, AppendProperties, LenProperties
<1> QED
  BY <1>1, <1>2 DEF HasShutdown

LEMMA ShutdownOfTail ==
    ASSUME NEW s \in Seq(ToChat), s # <<>>
    PROVE  HasShutdown(s) <=> Head(s).op = "Shutdown" \/ HasShutdown(Tail(s))
<1>1. /\ Len(s) \in Nat /\ Len(s) > 0
      /\ DOMAIN s = 1 .. Len(s)
      /\ DOMAIN Tail(s) = 1 .. Len(s) - 1
      /\ Head(s) = s[1]
      /\ \A k \in 1 .. Len(s) - 1 : Tail(s)[k] = s[k + 1]
  BY HeadTailProperties, LenProperties, EmptySeq
<1>2. ASSUME HasShutdown(s), s[1].op # "Shutdown"
      PROVE  HasShutdown(Tail(s))
  <2>1. PICK k \in DOMAIN s : s[k].op = "Shutdown"
    BY <1>2 DEF HasShutdown
  <2>2. k - 1 \in 1 .. Len(s) - 1 /\ Tail(s)[k - 1] = s[k]
    BY <1>1, <1>2, <2>1
  <2> QED
    BY <1>1, <2>1, <2>2 DEF HasShutdown
<1>3. ASSUME HasShutdown(Tail(s))
      PROVE  HasShutdown(s)
  <2>1. PICK k \in 1 .. Len(s) - 1 : Tail(s)[k].op = "Shutdown"
    BY <1>1, <1>3 DEF HasShutdown
  <2>2. k + 1 \in DOMAIN s /\ s[k + 1].op = "Shutdown"
    BY <1>1, <2>1
  <2> QED
    BY <2>2 DEF HasShutdown
<1> QED
  BY <1>1, <1>2, <1>3 DEF HasShutdown

-----------------------------------------------------------------------------
LEMMA EntryFrame ==
    ASSUME EntryInv, UNCHANGED <<running, masterTodo, chatState, chanOf, inbox>>
    PROVE  EntryInv'
  BY DEF EntryInv, UnbornAreUnused, OneSendAtATime, EntryIsLive,
         OneLiveGoroutinePerChannel

(***************************************************************************)
(* A handler that starts on a request queues at most one send, through an  *)
(* entry that is in the map.                                               *)
(***************************************************************************)
LEMMA QueuesOneSend ==
    ASSUME EntryInv, UNCHANGED <<running, chatState, chanOf, inbox>>,
           \/ masterTodo' = <<>>
           \/ \E m \in MasterSends : HasEntry(m.chan) /\ masterTodo' = <<m>>
    PROVE  EntryInv'
<1>1. CASE masterTodo' = <<>>
  BY <1>1 DEF EntryInv, UnbornAreUnused, OneSendAtATime, EntryIsLive,
              OneLiveGoroutinePerChannel
<1>2. CASE \E m \in MasterSends : HasEntry(m.chan) /\ masterTodo' = <<m>>
  <2>1. PICK m \in MasterSends : HasEntry(m.chan) /\ masterTodo' = <<m>>
    BY <1>2
  <2>2. Len(masterTodo') = 1 /\ DOMAIN masterTodo' = {1} /\ masterTodo'[1] = m
    BY <2>1
  <2> QED
    BY <2>1, <2>2 DEF EntryInv, UnbornAreUnused, OneSendAtATime, EntryIsLive,
                      OneLiveGoroutinePerChannel, HasEntry
<1> QED
  BY <1>1, <1>2

(***************************************************************************)
(* The one send that is queued goes to a goroutine that is running, and    *)
(* is the only one queued.                                                 *)
(***************************************************************************)
LEMMA TheQueuedSend ==
    ASSUME TypeInv, EntryInv, masterTodo # <<>>
    PROVE  LET m == Head(masterTodo)
               i == running[m.chan]
           IN  /\ m \in MasterSends /\ m.chan \in Channels
               /\ Tail(masterTodo) = <<>>
               /\ i \in Goroutines
               /\ chatState[i] = "running"
               /\ chanOf[i] = m.chan
               /\ ~HasShutdown(inbox[i])
<1> DEFINE m == Head(masterTodo)
<1>1. masterTodo \in Seq(MasterSends) /\ Len(masterTodo) <= 1
  BY TypeInvFacts DEF EntryInv, OneSendAtATime
<1>2. /\ m \in MasterSends /\ m = masterTodo[1] /\ 1 \in DOMAIN masterTodo
      /\ Tail(masterTodo) = <<>>
  <2>1. Len(masterTodo) \in Nat /\ DOMAIN masterTodo = 1 .. Len(masterTodo)
    BY <1>1, LenProperties
  <2>2. Len(masterTodo) = 1
    BY <1>1, <2>1, EmptySeq
  <2>3. Tail(masterTodo) \in Seq(MasterSends) /\ Len(Tail(masterTodo)) = 0
    BY <1>1, <2>2, HeadTailProperties
  <2>4. Tail(masterTodo) = <<>>
    BY <2>3, EmptySeq
  <2> QED
    BY <1>1, <2>1, <2>2, <2>4, HeadTailProperties
<1>3. m.chan \in Channels
  BY <1>2 DEF MasterSends
<1>4. running[m.chan] # NoGoroutine
  BY <1>2 DEF EntryInv, EntryIsLive
<1>5. running[m.chan] \in Goroutines
  BY <1>3, <1>4, TypeInvFacts
<1> HIDE DEF m
<1>6. /\ chatState[running[m.chan]] = "running"
      /\ chanOf[running[m.chan]] = m.chan
      /\ ~HasShutdown(inbox[running[m.chan]])
  BY <1>3, <1>4 DEF EntryInv, EntryIsLive
<1> QED
  BY <1>2, <1>3, <1>5, <1>6 DEF m
LEMMA MasterSendKeepsEntries ==
    ASSUME TypeInv, EntryInv, masterTodo # <<>>,
           NEW m, m = Head(masterTodo), NEW i, i = running[m.chan],
           inbox' = [inbox EXCEPT ![i] = Append(@, [op |-> m.op, who |-> m.who])],
           AfterMasterSend(m), UNCHANGED <<chatState, chanOf>>
    PROVE  EntryInv'
<1> DEFINE msg == [op |-> m.op, who |-> m.who]
<1>1. /\ m \in MasterSends /\ m.chan \in Channels /\ Tail(masterTodo) = <<>>
      /\ i \in Goroutines /\ chatState[i] = "running" /\ chanOf[i] = m.chan
      /\ ~HasShutdown(inbox[i])
  BY TheQueuedSend
<1>2. msg \in ToChat /\ msg.op = m.op
  BY <1>1 DEF MasterSends, ToChat
<1> HIDE DEF msg
<1>3. /\ HasShutdown(inbox'[i]) <=> m.op = "Shutdown"
      /\ \A j \in Goroutines \ {i} : inbox'[j] = inbox[j]
  <2>1. inbox'[i] = Append(inbox[i], msg) /\ inbox[i] \in Seq(ToChat)
    BY <1>1, TypeInvFacts DEF msg
  <2>2. HasShutdown(inbox'[i]) <=> HasShutdown(inbox[i]) \/ msg.op = "Shutdown"
    BY <1>2, <2>1, ShutdownOfAppend
  <2>3. \A j \in Goroutines \ {i} : inbox'[j] = inbox[j]
    BY <1>1, TypeInvFacts
  <2> QED
    BY <1>1, <1>2, <2>2, <2>3
<1>4. UnbornAreUnused'
  <2> SUFFICES ASSUME NEW j \in Goroutines, chatState'[j] = "unborn"
               PROVE  inbox'[j] = <<>>
    BY DEF UnbornAreUnused
  <2>1. j # i
    BY <1>1
  <2> QED
    BY <1>3, <2>1 DEF EntryInv, UnbornAreUnused
<1>5. CASE m.op = "Shutdown"
  <2>1. masterTodo' = <<>> /\ running' = [running EXCEPT ![m.chan] = NoGoroutine]
    BY <1>1, <1>5 DEF AfterMasterSend
  <2>2. OneSendAtATime'
    BY <2>1 DEF OneSendAtATime
  <2>3. EntryIsLive'
    <3> SUFFICES ASSUME NEW c \in Channels, running'[c] # NoGoroutine
                 PROVE  /\ chatState'[running'[c]] = "running"
                        /\ chanOf'[running'[c]] = c
                        /\ ~HasShutdown(inbox'[running'[c]])
      BY <2>1 DEF EntryIsLive
    <3>1. c # m.chan /\ running'[c] = running[c] /\ running[c] \in Goroutines
      BY <1>1, <2>1, TypeInvFacts
    <3>2. /\ chatState[running[c]] = "running" /\ chanOf[running[c]] = c
          /\ ~HasShutdown(inbox[running[c]])
      BY <3>1 DEF EntryInv, EntryIsLive
    <3>3. running[c] # i
      BY <1>1, <3>1, <3>2
    <3>4. inbox'[running[c]] = inbox[running[c]]
      BY <1>3, <3>1, <3>3
    <3> QED
      BY <3>1, <3>2, <3>4
  <2>4. OneLiveGoroutinePerChannel'
    <3> SUFFICES ASSUME NEW j \in Goroutines, chatState[j] = "running",
                        running'[chanOf[j]] # j
                 PROVE  HasShutdown(inbox'[j])
      BY DEF OneLiveGoroutinePerChannel
    <3>1. CASE j = i
      BY <1>3, <1>5, <3>1
    <3>2. CASE j # i
      <4>1. running[chanOf[j]] # j
        BY <1>1, <2>1, <3>2, TypeInvFacts
      <4> QED
        BY <1>3, <3>2, <4>1 DEF EntryInv, OneLiveGoroutinePerChannel
    <3> QED
      BY <3>1, <3>2
  <2> QED
    BY <1>4, <2>2, <2>3, <2>4 DEF EntryInv
<1>6. CASE m.op # "Shutdown"
  <2>1. running' = running
    BY <1>6 DEF AfterMasterSend
  <2>2. OneSendAtATime' /\ \A k \in DOMAIN masterTodo' : masterTodo'[k].chan = m.chan
    <3>1. CASE masterTodo' = <<>>
      BY <3>1 DEF OneSendAtATime
    <3>2. CASE masterTodo' = <<[m EXCEPT !.op = "Shutdown"]>>
      <4> DEFINE shutdown == [m EXCEPT !.op = "Shutdown"]
      <4>1. shutdown.chan = m.chan
        BY <1>1 DEF MasterSends
      <4>2. masterTodo' = <<shutdown>>
        BY <3>2
      <4> HIDE DEF shutdown
      <4>3. Len(masterTodo') <= 1
        BY <4>2
      <4>4. \A k \in DOMAIN masterTodo' : masterTodo'[k].chan = m.chan
        BY <4>1, <4>2
      <4> QED
        BY <4>3, <4>4 DEF OneSendAtATime
    <3> QED
      BY <1>1, <3>1, <3>2 DEF AfterMasterSend
  <2>3. \A j \in Goroutines : HasShutdown(inbox'[j]) <=> HasShutdown(inbox[j])
    BY <1>1, <1>3, <1>6
  <2>4. EntryIsLive'
    <3>1. ASSUME NEW c \in Channels, running[c] # NoGoroutine
          PROVE  /\ chatState[running[c]] = "running" /\ chanOf[running[c]] = c
                 /\ ~HasShutdown(inbox'[running[c]])
      <4>1. running[c] \in Goroutines
        BY <3>1, TypeInvFacts
      <4> QED
        BY <2>3, <3>1, <4>1 DEF EntryInv, EntryIsLive
    <3>2. running[m.chan] # NoGoroutine
      BY <1>1, TypeInvFacts
    <3> QED
      BY <2>1, <2>2, <3>1, <3>2 DEF EntryIsLive
  <2>5. OneLiveGoroutinePerChannel'
    BY <2>1, <2>3 DEF EntryInv, OneLiveGoroutinePerChannel
  <2> QED
    BY <1>4, <2>2, <2>4, <2>5 DEF EntryInv
<1> QED
  BY <1>5, <1>6

-----------------------------------------------------------------------------
(***************************************************************************)
(* The launch of a goroutine for a channel without an entry, and the steps *)
(* with which a goroutine takes a message from the channel master.         *)
(***************************************************************************)
LEMMA LaunchKeepsEntries ==
    ASSUME TypeInv, EntryInv, NEW i \in Goroutines, Launch(i)
    PROVE  EntryInv'
<1> DEFINE c == Head(masterQ).chan
<1>1. /\ c \in Channels /\ running[c] = NoGoroutine
      /\ running' = [running EXCEPT ![c] = i]
      /\ chanOf' = [chanOf EXCEPT ![i] = c]
      /\ chatState' = [chatState EXCEPT ![i] = "running"]
      /\ chatState[i] = "unborn" /\ inbox' = inbox /\ masterTodo' = masterTodo
      /\ masterTodo = <<>>
  BY DEF Launch, MasterIdle
<1> HIDE DEF c
<1>2. inbox[i] = <<>>
  BY <1>1 DEF EntryInv, UnbornAreUnused
<1>3. UnbornAreUnused'
  BY <1>1, TypeInvFacts DEF EntryInv, UnbornAreUnused
<1>4. OneSendAtATime'
  BY <1>1 DEF OneSendAtATime
<1>5. EntryIsLive'
  <2> SUFFICES ASSUME NEW b \in Channels, running'[b] # NoGoroutine
               PROVE  /\ chatState'[running'[b]] = "running"
                      /\ chanOf'[running'[b]] = b
                      /\ ~HasShutdown(inbox[running'[b]])
    BY <1>1 DEF EntryIsLive
  <2>1. CASE b = c
    BY <1>1, <1>2, <2>1, TypeInvFacts DEF HasShutdown
  <2>2. CASE b # c
    <3>1. running'[b] = running[b] /\ running[b] \in Goroutines
      BY <1>1, <2>2, TypeInvFacts
    <3>2. /\ chatState[running[b]] = "running" /\ chanOf[running[b]] = b
          /\ ~HasShutdown(inbox[running[b]])
      BY <3>1 DEF EntryInv, EntryIsLive
    <3>3. running[b] # i
      BY <1>1, <3>2
    <3> QED
      BY <1>1, <3>1, <3>2, <3>3, TypeInvFacts
  <2> QED
    BY <2>1, <2>2
<1>6. OneLiveGoroutinePerChannel'
  <2> SUFFICES ASSUME NEW j \in Goroutines, chatState'[j] = "running",
                      running'[chanOf'[j]] # j
               PROVE  HasShutdown(inbox[j])
    BY <1>1 DEF OneLiveGoroutinePerChannel
  <2>1. j # i
    BY <1>1, TypeInvFacts
  <2>2. chatState[j] = "running" /\ chanOf'[j] = chanOf[j] /\ chanOf[j] \in Channels
    BY <1>1, <2>1, TypeInvFacts
  <2>3. running[chanOf[j]] # j
    BY <1>1, <2>2, TypeInvFacts
  <2> QED
    BY <2>2, <2>3 DEF EntryInv, OneLiveGoroutinePerChannel
<1> QED
  BY <1>3, <1>4, <1>5, <1>6 DEF EntryInv

LEMMA TakeFromMasterKeepsEntries ==
    ASSUME TypeInv, EntryInv, NEW i \in Goroutines, NEW op, TakeFromMaster(i, op),
           \/ op # "Shutdown" /\ chatState' = chatState
           \/ op = "Shutdown" /\ chatState' = [chatState EXCEPT ![i] = "returned"]
    PROVE  EntryInv'
<1>1. /\ inbox' = [inbox EXCEPT ![i] = Tail(@)] /\ inbox[i] # <<>>
      /\ inbox[i] \in Seq(ToChat) /\ Head(inbox[i]).op = op
      /\ chatState[i] = "running" /\ UNCHANGED <<running, masterTodo, chanOf>>
  BY TypeInvFacts DEF TakeFromMaster, ChatIdle, masterVars
<1>2. /\ \A j \in Goroutines \ {i} : inbox'[j] = inbox[j]
      /\ inbox'[i] = Tail(inbox[i])
  BY <1>1, TypeInvFacts
<1>3. HasShutdown(inbox[i]) <=> op = "Shutdown" \/ HasShutdown(inbox'[i])
  BY <1>1, <1>2, ShutdownOfTail
<1>4. /\ \A j \in Goroutines \ {i} : chatState'[j] = chatState[j]
      /\ chatState'[i] = IF op = "Shutdown" THEN "returned" ELSE "running"
  BY <1>1, TypeInvFacts
<1>5. UnbornAreUnused'
  BY <1>2, <1>4 DEF EntryInv, UnbornAreUnused
<1>6. OneSendAtATime'
  BY <1>1 DEF EntryInv, OneSendAtATime
<1>7. EntryIsLive'
  <2> SUFFICES ASSUME NEW c \in Channels, running[c] # NoGoroutine
               PROVE  /\ chatState'[running[c]] = "running"
                      /\ chanOf[running[c]] = c
                      /\ ~HasShutdown(inbox'[running[c]])
    BY <1>1 DEF EntryInv, EntryIsLive
  <2>1. running[c] \in Goroutines
    BY TypeInvFacts
  <2>2. /\ chatState[running[c]] = "running" /\ chanOf[running[c]] = c
        /\ ~HasShutdown(inbox[running[c]])
    BY DEF EntryInv, EntryIsLive
  <2> QED
    BY <1>2, <1>3, <1>4, <2>1, <2>2
<1>8. OneLiveGoroutinePerChannel'
  <2> SUFFICES ASSUME NEW j \in Goroutines, chatState'[j] = "running",
                      running[chanOf[j]] # j
               PROVE  HasShutdown(inbox'[j])
    BY <1>1 DEF OneLiveGoroutinePerChannel
  <2>1. chatState[j] = "running" /\ (j = i => op # "Shutdown")
    BY <1>1, <1>4
  <2>2. HasShutdown(inbox[j])
    BY <2>1 DEF EntryInv, OneLiveGoroutinePerChannel
  <2> QED
    BY <1>2, <1>3, <2>1, <2>2
<1> QED
  BY <1>5, <1>6, <1>7, <1>8 DEF EntryInv
-----------------------------------------------------------------------------
\* The steps.

LEMMA MasterStepKeepsEntries ==
    ASSUME TypeInv, EntryInv, MasterStep
    PROVE  EntryInv'
<1>h. ASSUME NEW op, HeadIs(op)
      PROVE  Head(masterQ) \in ToMaster /\ Head(masterQ).from \in Doppelgangers
  BY <1>h, HeadOfMasterQ DEF HeadIs, ToMaster
<1>s. ASSUME NEW op \in {"Join", "Who", "Exit", "Shutdown"}, NEW d \in Doppelgangers,
             NEW c, HasEntry(c), masterTodo' = <<[op |-> op, who |-> d, chan |-> c]>>
      PROVE  \E m \in MasterSends : HasEntry(m.chan) /\ masterTodo' = <<m>>
  <2>1. [op |-> op, who |-> d, chan |-> c] \in MasterSends
    BY <1>s DEF HasEntry, MasterSends
  <2> QED
    BY <1>s, <2>1
<1>1. CASE MasterRefusesName
  BY <1>1, EntryFrame DEF MasterRefusesName, othersOfMaster, chatVars
<1>2. CASE MasterLookupFails
  BY <1>2, EntryFrame DEF MasterLookupFails, othersOfMaster, chatVars
<1>3. CASE MasterForwardsJoin
  BY <1>3, <1>h, <1>s, QueuesOneSend DEF MasterForwardsJoin, othersOfMaster, chatVars
<1>4. CASE MasterWho
  <2>1. CASE HasEntry(Head(masterQ).chan)
    BY <1>4, <1>h, <1>s, <2>1, QueuesOneSend DEF MasterWho, othersOfMaster, chatVars
  <2>2. CASE ~HasEntry(Head(masterQ).chan)
    BY <1>4, <2>2, QueuesOneSend DEF MasterWho, othersOfMaster, chatVars
  <2> QED
    BY <2>1, <2>2
<1>5. CASE MasterExit
  BY <1>5, <1>h, <1>s, QueuesOneSend DEF MasterExit, othersOfMaster, chatVars
<1>6. CASE MasterReturns
  BY <1>6, EntryFrame DEF MasterReturns, othersOfMaster, chatVars
<1>7. CASE MasterTakesDenial
  <2>1. CASE Panic("nil map entry")
    BY <2>1, EntryFrame DEF Panic, masterVars, chatVars
  <2>2. CASE ~Panic("nil map entry")
    <3>1. /\ HasEntry(Head(denialQ).chan)
          /\ masterTodo' = IF memberCount[Head(denialQ).chan] = 1
                           THEN <<[op |-> "Shutdown", who |-> Head(denialQ).from,
                                   chan |-> Head(denialQ).chan]>>
                           ELSE <<>>
          /\ UNCHANGED <<running, chatState, chanOf, inbox>>
      BY <1>7, <2>2 DEF MasterTakesDenial, othersOfMaster, chatVars
    <3>2. Head(denialQ).from \in Doppelgangers
      <4>1. denialQ # <<>> /\ denialQ \in Seq(Denials)
        BY <1>7, TypeInvParts DEF MasterTakesDenial, MasterTypeOK
      <4>2. Head(denialQ) \in Denials
        BY <4>1, HeadTailProperties
      <4> QED
        BY <4>2 DEF Denials
    <3> QED
      BY <1>s, <3>1, <3>2, QueuesOneSend
  <2> QED
    BY <2>1, <2>2
<1>8. CASE MasterSendsToChat
  <2>1. CASE Panic("master sent on a closed go channel")
    BY <2>1, EntryFrame DEF Panic, masterVars, chatVars
  <2>2. CASE ~Panic("master sent on a closed go channel")
    BY <1>8, <2>2, MasterSendKeepsEntries DEF MasterSendsToChat
  <2> QED
    BY <2>1, <2>2
<1>9. CASE MasterReplies
  BY <1>9, EntryFrame DEF MasterReplies, Panic, masterVars, chatVars
<1> QED
  BY <1>1, <1>2, <1>3, <1>4, <1>5, <1>6, <1>7, <1>8, <1>9, LaunchKeepsEntries
     DEF MasterStep

LEMMA ChatStepKeepsEntries ==
    ASSUME TypeInv, EntryInv, NEW i \in Goroutines, ChatStep(i)
    PROVE  EntryInv'
<1>1. CASE ChatJoin(i)
  BY <1>1, TakeFromMasterKeepsEntries DEF ChatJoin
<1>2. CASE ChatWho(i)
  BY <1>2, TakeFromMasterKeepsEntries DEF ChatWho
<1>3. CASE ChatExit(i)
  BY <1>3, TakeFromMasterKeepsEntries DEF ChatExit
<1>4. CASE ChatShutdown(i)
  BY <1>4, TakeFromMasterKeepsEntries DEF ChatShutdown
<1>5. CASE ChatSpeech(i)
  BY <1>5, EntryFrame DEF ChatSpeech, masterVars
<1>6. CASE ChatTellsMaster(i)
  BY <1>6, EntryFrame DEF ChatTellsMaster
<1>7. CASE ChatTellsDoppelganger(i)
  BY <1>7, EntryFrame DEF ChatTellsDoppelganger, Panic, masterVars, chatVars
<1> QED
  BY <1>1, <1>2, <1>3, <1>4, <1>5, <1>6, <1>7 DEF ChatStep

LEMMA DoppStepKeepsEntries ==
    ASSUME EntryInv, NEW d \in Doppelgangers, DoppStep(d)
    PROVE  EntryInv'
<1>1. CASE TakeLine(d)
  BY <1>1, EntryFrame DEF TakeLine, restOfMaster, restOfChat
<1>2. CASE \E op : TakeFromChat(d, op)
  BY <1>2, EntryFrame DEF TakeFromChat, restOfMaster, chatVars
<1>3. CASE DoppUnblocks(d)
  BY <1>3, EntryFrame DEF DoppUnblocks, Panic, restOfMaster, restOfChat, masterVars,
                          chatVars
<1>4. CASE DoppEchoFails(d) \/ DoppSeesClosed(d) \/ DoppRefusedByMaster(d)
  BY <1>4, EntryFrame DEF DoppEchoFails, DoppSeesClosed, DoppRefusedByMaster,
                          restOfMaster, chatVars
<1>5. \/ TakeLine(d) \/ DoppUnblocks(d) \/ \E op : TakeFromChat(d, op)
      \/ DoppEchoFails(d) \/ DoppSeesClosed(d) \/ DoppRefusedByMaster(d)
  BY DEF DoppStep, DoppJoin, DoppWho, DoppExit, DoppSay, DoppQuit, DoppRefusedByChat,
         DoppJoined, DoppText, DoppHearsExit, DoppOwnExit
<1> QED
  BY <1>1, <1>2, <1>3, <1>4, <1>5

LEMMA TelnetKeepsEntries ==
    ASSUME EntryInv, NEW d \in Doppelgangers, TelnetStep(d) \/ Environment(d)
    PROVE  EntryInv' /\ crash' = crash
<1>1. UNCHANGED othersOfTelnet
  BY DEF TelnetStep, Environment, UserTypes, ConnectionDrops, ReadFails,
         ServerClosesConnection
<1> QED
  BY <1>1, EntryFrame DEF othersOfTelnet, masterVars, chatVars

(***************************************************************************)
(* The send at the head of masterTodo meets a running goroutine, and no    *)
(* other step panics with the master's send.                               *)
(***************************************************************************)
LEMMA MasterSendIsOpen ==
    ASSUME TypeInv, EntryInv, MasterNeverSendsOnClosed, Next
    PROVE  MasterNeverSendsOnClosed'
<1> DEFINE bad == "master sent on a closed go channel"
<1>1. CASE MasterSendsToChat
  <2>1. chatState[running[Head(masterTodo).chan]] = "running"
    BY <1>1, TheQueuedSend DEF MasterSendsToChat
  <2> QED
    BY <1>1, <2>1 DEF MasterSendsToChat, MasterNeverSendsOnClosed
<1>2. CASE MasterStep /\ ~MasterSendsToChat
  BY <1>2 DEF MasterStep, MasterNeverSendsOnClosed, MasterRefusesName,
      MasterLookupFails, MasterForwardsJoin, MasterWho, MasterExit, MasterReturns,
      MasterTakesDenial, MasterReplies, Launch, othersOfMaster, Panic
<1>3. CASE \E i \in Goroutines : ChatStep(i)
  BY <1>3 DEF ChatStep, MasterNeverSendsOnClosed, ChatJoin, ChatWho, ChatExit,
      ChatShutdown, ChatSpeech, ChatTellsMaster, ChatTellsDoppelganger, Panic
<1>4. CASE \E d \in Doppelgangers : DoppStep(d)
  BY <1>4 DEF DoppStep, MasterNeverSendsOnClosed, DoppEchoFails, DoppJoin, DoppWho,
      DoppExit, DoppSay, DoppUnblocks, DoppQuit, DoppSeesClosed, DoppRefusedByMaster,
      DoppRefusedByChat, DoppJoined, DoppText, DoppHearsExit, DoppOwnExit, TakeFromChat,
      Panic
<1>5. CASE \E d \in Doppelgangers : TelnetStep(d) \/ Environment(d)
  BY <1>5, TelnetKeepsEntries DEF MasterNeverSendsOnClosed
<1>6. CASE StaysIdle
  BY <1>6 DEF StaysIdle, vars, MasterNeverSendsOnClosed
<1> QED
  BY <1>1, <1>2, <1>3, <1>4, <1>5, <1>6 DEF Next

-----------------------------------------------------------------------------
LEMMA InitIInv == Init => IInv
<1> SUFFICES ASSUME Init PROVE IInv
  OBVIOUS
<1>1. UnbornAreUnused
  BY DEF Init, UnbornAreUnused
<1>2. OneSendAtATime
  BY DEF Init, OneSendAtATime
<1>3. EntryIsLive
  BY DEF Init, EntryIsLive
<1>4. OneLiveGoroutinePerChannel
  BY DEF Init, OneLiveGoroutinePerChannel
<1>5. MasterNeverSendsOnClosed
  BY DEF Init, MasterNeverSendsOnClosed
<1> QED
  BY <1>1, <1>2, <1>3, <1>4, <1>5, InitHasTypes, IInvParts DEF EntryInv

LEMMA NextIInv == IInv /\ [Next]_vars => IInv'
<1> SUFFICES ASSUME IInv, [Next]_vars PROVE IInv'
  OBVIOUS
<1>1. TypeInv /\ EntryInv /\ MasterNeverSendsOnClosed
  BY IInvParts
<1>2. TypeInv'
  BY <1>1, NextKeepsTypes
<1>3. CASE Next
  <2>1. EntryInv'
    <3>1. CASE StaysIdle
      BY <1>1, <3>1, EntryFrame DEF StaysIdle, vars, masterVars, chatVars
    <3> QED
      BY <1>1, <1>3, <3>1, MasterStepKeepsEntries, ChatStepKeepsEntries,
         DoppStepKeepsEntries, TelnetKeepsEntries DEF Next
  <2> QED
    BY <1>1, <1>2, <1>3, <2>1, MasterSendIsOpen, IInvParts
<1>4. CASE UNCHANGED vars
  <2>1. EntryInv' /\ MasterNeverSendsOnClosed'
    BY <1>1, <1>4, EntryFrame DEF vars, masterVars, chatVars, MasterNeverSendsOnClosed
  <2> QED
    BY <1>2, <2>1, IInvParts
<1> QED
  BY <1>3, <1>4

(***************************************************************************)
(* What holds in every reachable state: the invariant, and its parts that  *)
(* the README speaks of.                                                   *)
(***************************************************************************)
THEOREM Invariance == Spec => []IInv
<1>1. Init => IInv
  BY InitIInv
<1>2. IInv /\ [Next]_vars => IInv'
  BY NextIInv
<1> QED
  BY <1>1, <1>2, PTL DEF Spec

(***************************************************************************)
(* Every entry of runningChatchannelMap stands for a goroutine that is     *)
(* running for that channel and has not been told to shut down, and every  *)
(* send the master's handler has queued goes through such an entry.        *)
(***************************************************************************)
THEOREM EntriesAreLive == Spec => []EntryIsLive
<1>1. IInv => EntryIsLive
  BY DEF IInv
<1> QED
  BY <1>1, Invariance, PTL

(***************************************************************************)
(* Of the goroutines that run for one channel, all but the one in the map  *)
(* have been told to shut down.                                            *)
(***************************************************************************)
THEOREM OneIsLive == Spec => []OneLiveGoroutinePerChannel
<1>1. IInv => OneLiveGoroutinePerChannel
  BY DEF IInv
<1> QED
  BY <1>1, Invariance, PTL

\* The channel master never panics by sending to a chat channel that has returned.
THEOREM MasterSendsToOpen == Spec => []MasterNeverSendsOnClosed
<1>1. IInv => MasterNeverSendsOnClosed
  BY DEF IInv
<1> QED
  BY <1>1, Invariance, PTL
=============================================================================
