---------------------------- MODULE ChatRosters ----------------------------
(***************************************************************************)
(* The rest of the steps that keep AccountsInv, those of the chat channels *)
(* and of the doppelgangers, and the theorems that follow from it: the     *)
(* master's count of a channel is never too low, a Shutdown finds an empty *)
(* roster, and whoever takes himself to be on a channel has it in the map. *)
(***************************************************************************)
EXTENDS ChatAccounts

-----------------------------------------------------------------------------
\* What a handler of a chat channel queues.

LEMMA BroadcastFacts ==
    ASSUME NEW ds \in SUBSET Doppelgangers, NEW op, op \in {"Text", "TextExit"},
           NEW leaving, leaving \in Doppelgangers \cup {Nobody},
           NEW s, s \in Broadcasts(op, ds, leaving)
    PROVE  /\ s \in Seq(ChatSends)
           /\ \A m \in ToSet(s) : m.op = op /\ m.leaving = leaving
           /\ ds # {} => ToSet(s) # {}
<1>1. PICK f \in SetToSeqs(ds) : s = [k \in DOMAIN f |-> SendTo(op, f[k], leaving)]
  BY DEF Broadcasts
<1>2. s \in Seq(ChatSends)
  BY BroadcastsType
<1>3. ASSUME NEW k \in DOMAIN s
      PROVE  s[k].op = op /\ s[k].leaving = leaving
  BY <1>1, <1>3 DEF SendTo
<1>4. ASSUME ds # {}
      PROVE  DOMAIN s # {}
  <2>1. IsFiniteSet(ds) /\ Cardinality(ds) \in Nat
    BY IdsAssumption, FS_Subset, FS_CardinalityType DEF IdsAssumption
  <2>2. Cardinality(ds) # 0
    BY <1>4, <2>1, FS_EmptySet
  <2>3. DOMAIN f = 1 .. Cardinality(ds)
    BY <1>1 DEF SetToSeqs
  <2>4. 1 \in DOMAIN s
    BY <1>1, <2>1, <2>2, <2>3
  <2> QED
    BY <2>4
<1> QED
  BY <1>2, <1>3, <1>4 DEF ToSet

LEMMA FarewellFacts ==
    ASSUME NEW ds \in SUBSET Doppelgangers, NEW who, who \in Doppelgangers,
           NEW s, s \in Broadcasts("TextExit", ds, who)
    PROVE  /\ s \in Seq(ChatSends)
           /\ \A m \in ToSet(s) : m.op = "TextExit" /\ m.leaving = who
           /\ ds # {} => ToSet(s) # {}
  BY BroadcastFacts

LEMMA AnswerFacts ==
    ASSUME NEW d \in Doppelgangers, NEW members \in SUBSET Doppelgangers,
           NEW s \in AnswersToJoin(d, members)
    PROVE  /\ s \in Seq(ChatSends)
           /\ \A m \in ToSet(s) : m.op # "TextExit" /\ m.leaving = Nobody
           /\ HowMany(s, Verdicts) = 1
<1> DEFINE one(op) == SendTo(op, d, Nobody)
<1>0. s \in Seq(ChatSends)
  BY AnswersType
<1>1. \A op \in {"Joined", "Denial", "JoinDenied", "Text"} :
          /\ one(op).op = op /\ one(op).leaving = Nobody
          /\ one(op) \in Verdicts <=> op \in {"Joined", "Denial"}
  BY DEF SendTo, Verdicts
<1>2. /\ 1 \in DOMAIN s
      /\ s[1] = one("Joined") \/ s[1] = one("Denial")
      /\ \A k \in DOMAIN s \ {1} :
            s[k].op \in {"JoinDenied", "Text"} /\ s[k].leaving = Nobody
  <2>1. CASE Cardinality(members) >= MaxMembers
    <3>1. s = <<one("Denial"), one("JoinDenied")>>
      BY <2>1 DEF AnswersToJoin, RefusalOf
    <3> HIDE DEF one
    <3>2. DOMAIN s = {1, 2} /\ s[1] = one("Denial") /\ s[2] = one("JoinDenied")
      BY <3>1
    <3> QED
      BY <1>1, <3>2
  <2>2. CASE ~(Cardinality(members) >= MaxMembers)
    <3> DEFINE others == {m \in members : UserOf[m] # UserOf[d]}
               welcome == <<one("Joined"), one("Text")>>
    <3>1. PICK b \in Broadcasts("Text", others, Nobody) : s = welcome \o b
      BY <2>2 DEF AnswersToJoin, WelcomesOf
    <3>2. /\ b \in Seq(ChatSends) /\ \A m \in ToSet(b) : m.op = "Text" /\ m.leaving = Nobody
      <4>1. others \in SUBSET Doppelgangers
        OBVIOUS
      <4> HIDE DEF others
      <4> QED
        BY <3>1, <4>1, BroadcastFacts
    <3> HIDE DEF others, one
    <3>3. welcome \in Seq({one("Joined"), one("Text")}) /\ Len(welcome) = 2
          /\ welcome[1] = one("Joined") /\ welcome[2] = one("Text")
      OBVIOUS
    <3> HIDE DEF welcome
    <3>4. /\ Len(s) = 2 + Len(b) /\ Len(b) \in Nat
          /\ s[1] = one("Joined") /\ s[2] = one("Text")
          /\ \A k \in (2 + 1) .. (2 + Len(b)) : s[k] = b[k - 2]
      <4> DEFINE T == {one("Joined"), one("Text")} \cup ChatSends
      <4>1. welcome \in Seq(T) /\ b \in Seq(T)
        BY <3>2, <3>3
      <4> HIDE DEF T
      <4>2. /\ Len(s) = Len(welcome) + Len(b)
            /\ \A k \in 1 .. Len(welcome) : s[k] = welcome[k]
            /\ \A k \in (Len(welcome) + 1) .. (Len(welcome) + Len(b)) :
                  s[k] = b[k - Len(welcome)]
        BY <3>1, <4>1, ConcatProperties
      <4>3. Len(b) \in Nat
        BY <3>2, LenProperties
      <4> QED
        BY <3>3, <4>2, <4>3
    <3>5. DOMAIN s = 1 .. (2 + Len(b)) /\ DOMAIN b = 1 .. Len(b)
      BY <1>0, <3>2, <3>4, LenProperties
    <3>6. ASSUME NEW k \in DOMAIN s \ {1, 2}
          PROVE  s[k] \in ToSet(b)
      <4>1. k - 2 \in DOMAIN b /\ s[k] = b[k - 2]
        BY <3>4, <3>5
      <4> QED
        BY <4>1 DEF ToSet
    <3>7. 1 \in DOMAIN s
      BY <3>4, <3>5
    <3> QED
      BY <1>1, <3>2, <3>4, <3>6, <3>7
  <2> QED
    BY <2>1, <2>2
<1> HIDE DEF one
<1>3. Hits(s, Verdicts) = {1}
  <2>1. \A k \in DOMAIN s \ {1} : s[k] \notin Verdicts
    BY <1>2 DEF Verdicts
  <2> QED
    BY <1>1, <1>2, <2>1 DEF Hits
<1>4. HowMany(s, Verdicts) = 1
  BY <1>3, HowManyIsHits, FS_Singleton
<1>5. \A m \in ToSet(s) : m.op # "TextExit" /\ m.leaving = Nobody
  BY <1>1, <1>2 DEF ToSet
<1> QED
  BY <1>0, <1>4, <1>5

-----------------------------------------------------------------------------
\* The launch of goroutine i for channel b, whose first send will be answer s.
Launches(i, b, s) ==
    /\ running' = [running EXCEPT ![b] = i]
    /\ memberCount' = [memberCount EXCEPT ![b] = 1]
    /\ todo' = [todo EXCEPT ![i] = s]
    /\ chatState' = [chatState EXCEPT ![i] = "running"]
    /\ masterQ' = Tail(masterQ)
    /\ UNCHANGED <<denialQ, masterTodo, inbox, memberList, doppVars>>

\* What holds of the channel and the goroutine before the launch.
NotLaunched(i, b) ==
    /\ b \in Channels /\ running[b] = NoGoroutine
    /\ chatState[i] = "unborn" /\ inbox[i] = <<>> /\ memberList[i] = {}
    /\ masterTodo = <<>>
    /\ \A c \in Channels : running[c] # i
    /\ masterQ # <<>> /\ Head(masterQ) \in ToMaster /\ Head(masterQ).op = "Join"

LEMMA LaunchParts ==
    ASSUME TypeInv, EntryInv, RosterInv, NEW i \in Goroutines, Launch(i)
    PROVE  \E b, s : /\ NotLaunched(i, b) /\ Launches(i, b, s)
                     /\ s \in Seq(ChatSends) /\ HowMany(s, Verdicts) = 1
                     /\ \A m \in ToSet(s) : m.op # "TextExit" /\ m.leaving = Nobody
<1> DEFINE h == Head(masterQ)
           b == h.chan
<1>1. h \in ToMaster /\ h.op = "Join" /\ b \in Channels /\ masterQ # <<>>
  BY HeadOfMasterQ DEF Launch
<1>2. h.from \in Doppelgangers
  BY <1>1 DEF ToMaster
<1>3. PICK s \in AnswersToJoin(h.from, {}) : todo' = [todo EXCEPT ![i] = s]
  BY DEF Launch
<1>4. NotLaunched(i, b)
  <2>1. \A c \in Channels : running[c] # i
    BY TypeInvFacts DEF Launch, EntryInv, EntryIsLive
  <2> QED
    BY <1>1, <2>1 DEF NotLaunched, Launch, MasterIdle, EntryInv, UnbornAreUnused,
                      RosterInv, ShutdownIsLast
<1>5. Launches(i, b, s)
  BY <1>3 DEF Launches, Launch
<1> HIDE DEF h, b
<1> QED
  BY <1>2, <1>3, <1>4, <1>5, AnswerFacts

LEMMA LaunchKeepsOthersDue ==
    ASSUME TypeInv, TypeInv', NEW i \in Goroutines, NEW b, NEW s,
           NotLaunched(i, b), Launches(i, b, s),
           NEW c \in Channels, running[c] # NoGoroutine
    PROVE  running'[c] = running[c] /\ Due(c)' = Due(c)
<1>1. c # b /\ running'[c] = running[c] /\ running[c] # i /\ running[c] \in Goroutines
  BY TypeInvFacts DEF NotLaunched, Launches
<1>2. todo'[running[c]] = todo[running[c]]
  BY <1>1, MailTypes DEF Launches
<1>3. Head(masterQ) \notin ExitRequests(c)
  BY DEF NotLaunched, ExitRequests
<1>4. HowMany(masterQ', ExitRequests(c)) = HowMany(masterQ, ExitRequests(c))
  <2>1. HowMany(masterQ, ExitRequests(c)) = HowMany(Tail(masterQ), ExitRequests(c)) + 0
    BY <1>3, MailTypes, HowManyOfTail DEF NotLaunched
  <2>2. HowMany(Tail(masterQ), ExitRequests(c)) \in Nat
    BY HeadOfMasterQ, HowManyType DEF NotLaunched
  <2> QED
    BY <2>1, <2>2 DEF Launches
<1>5. ASSUME NEW d
      PROVE  ExitAsked(c, d)' <=> ExitAsked(c, d)
  <2>1. ToSet(masterQ) = {Head(masterQ)} \cup ToSet(masterQ')
    BY MailTypes, ToSetOfTail DEF NotLaunched, Launches
  <2>2. Head(masterQ).op # "Exit"
    BY DEF NotLaunched
  <2> QED
    BY <2>1, <2>2 DEF ExitAsked, Launches
<1>6. UNCHANGED <<denialQ, masterTodo, inbox, memberList, status, chatID, chatIn>>
  BY DEF Launches, doppVars
<1>7. /\ Holders(c)' = Holders(c) /\ Hearing(running[c])' = Hearing(running[c])
      /\ Unclaimed(c)' = Unclaimed(c)
  BY <1>1, <1>2, <1>5, <1>6 DEF Holders, Hearing, Unclaimed, ExitTaken
<1>8. JoinsUnderWay(c)' = JoinsUnderWay(c)
  BY <1>1, <1>2, <1>6 DEF JoinsUnderWay
<1>9. ExitsAsked(c)' = ExitsAsked(c)
  BY <1>4, <1>6 DEF ExitsAsked
<1>10. Claims(c)' = Claims(c)
  BY <1>1, <1>7 DEF Claims
<1> QED
  BY <1>1, <1>8, <1>9, <1>10 DEF Due

LEMMA LaunchDue ==
    ASSUME TypeInv, TypeInv', EntryInv, RelyInv, NEW i \in Goroutines,
           NEW b, NEW s, NotLaunched(i, b), Launches(i, b, s), HowMany(s, Verdicts) = 1
    PROVE  Due(b)' = 1
<1>1. b \in Channels /\ running'[b] = i /\ running[b] = NoGoroutine /\ todo'[i] = s
  BY TypeInvFacts, MailTypes DEF NotLaunched, Launches
<1>2. UNCHANGED <<denialQ, masterTodo, inbox, memberList, status, chatID, chatIn>>
  BY DEF Launches, doppVars
<1>3. /\ HowMany(masterTodo', SendsTo(b, "Join")) = 0
      /\ HowMany(masterTodo', SendsTo(b, "Exit")) = 0
      /\ HowMany(inbox'[i], Posts("Join")) = 0
  BY <1>2, HowManyOfEmpty DEF NotLaunched
<1>4. HowMany(denialQ', DenialsBy(b)) = 0
  <2>1. \A m \in ToSet(denialQ) : m \notin DenialsBy(b)
    BY <1>1 DEF RelyInv, VerdictsStand, DenialsBy
  <2> QED
    BY <1>2, <2>1, MailTypes, HowManyType
<1>5. HowMany(masterQ', ExitRequests(b)) = 0
  <2>1. \A m \in ToSet(masterQ) : m \notin ExitRequests(b)
    BY <1>1 DEF RelyInv, HoldersKeepTheirChannel, ExitRequests
  <2>2. ToSet(masterQ') \subseteq ToSet(masterQ)
    BY MailTypes, ToSetOfTail DEF NotLaunched, Launches
  <2>3. masterQ' \in Seq(ToMaster)
    BY HeadOfMasterQ DEF NotLaunched, Launches
  <2> QED
    BY <2>1, <2>2, <2>3, HowManyType
<1>6. Holders(b)' = {} /\ Hearing(i)' = {} /\ Unclaimed(b)' = {}
  <2>1. Holders(b)' = {}
    BY <1>1, <1>2 DEF Holders, RelyInv, HoldersKeepTheirChannel
  <2>2. ~InCharge(i)
    BY DEF NotLaunched, InCharge
  <2>3. Hearing(i)' = {}
    BY <1>2, <2>2 DEF Hearing, RelyInv, VerdictsStand
  <2>4. Unclaimed(b)' = {}
    BY <1>1, <1>2 DEF Unclaimed, NotLaunched
  <2> QED
    BY <2>1, <2>3, <2>4
<1>7. JoinsUnderWay(b)' = 1
  BY <1>1, <1>3, <1>4 DEF JoinsUnderWay
<1>8. ExitsAsked(b)' = 0
  BY <1>3, <1>5 DEF ExitsAsked
<1>9. Claims(b)' = 0
  BY <1>1, <1>6, FS_EmptySet DEF Claims
<1> QED
  BY <1>7, <1>8, <1>9 DEF Due

LEMMA LaunchKeepsAccounts ==
    ASSUME TypeInv, TypeInv', EntryInv, RosterInv, RelyInv, CountCoversDue,
           NEW i \in Goroutines, Launch(i)
    PROVE  RosterInv' /\ RelyInv' /\ CountCoversDue'
<1>1. PICK b, s : /\ NotLaunched(i, b) /\ Launches(i, b, s)
                  /\ s \in Seq(ChatSends) /\ HowMany(s, Verdicts) = 1
                  /\ \A m \in ToSet(s) : m.op # "TextExit" /\ m.leaving = Nobody
  BY LaunchParts
<1>2. /\ UNCHANGED <<denialQ, masterTodo, inbox, memberList, status, chatID, callback,
                     chatIn>>
      /\ b \in Channels /\ i # NoGoroutine /\ running[b] = NoGoroutine
      /\ running'[b] = i /\ \A c \in Channels \ {b} : running'[c] = running[c]
      /\ memberCount'[b] = 1 /\ \A c \in Channels \ {b} : memberCount'[c] = memberCount[c]
      /\ todo'[i] = s /\ \A j \in Goroutines \ {i} : todo'[j] = todo[j]
      /\ chatState'[i] = "running"
      /\ \A j \in Goroutines \ {i} : chatState'[j] = chatState[j]
      /\ ToSet(masterQ') \subseteq ToSet(masterQ)
  <2>1. ToSet(masterQ') \subseteq ToSet(masterQ)
    BY <1>1, MailTypes, ToSetOfTail DEF NotLaunched, Launches
  <2> QED
    BY <1>1, <2>1, TypeInvFacts, MailTypes DEF NotLaunched, Launches, doppVars
<1>3. RosterInv'
  <2>1. OneMessageOfBuffer'
    BY <1>2 DEF RosterInv, OneMessageOfBuffer
  <2>2. OneLeaverAtATime'
    <3> SUFFICES ASSUME NEW j \in Goroutines, NEW m \in ToSet(todo'[j])
                 PROVE  /\ m.op = "TextExit" <=> m.leaving # Nobody
                        /\ \A n \in ToSet(todo'[j]) : n.leaving = m.leaving
      BY DEF OneLeaverAtATime
    <3>1. CASE j = i
      BY <1>1, <1>2, <3>1
    <3>2. CASE j # i
      BY <1>2, <3>2 DEF RosterInv, OneLeaverAtATime
    <3> QED
      BY <3>1, <3>2
  <2>3. ShutdownIsLast'
    <3> SUFFICES ASSUME NEW j \in Goroutines
                 PROVE  /\ chatState'[j] = "unborn" => memberList[j] = {} /\ todo'[j] = <<>>
                        /\ HasShutdown(inbox[j]) =>
                              \A d \in memberList[j] : ExitTaken(j, d)'
      BY <1>2 DEF ShutdownIsLast
    <3>1. CASE j = i
      BY <1>1, <1>2, <3>1 DEF NotLaunched
    <3>2. CASE j # i
      BY <1>2, <3>2 DEF RosterInv, ShutdownIsLast, ExitTaken
    <3> QED
      BY <3>1, <3>2
  <2>4. ShutdownFindsEmptyRoster'
    BY <1>2 DEF RosterInv, ShutdownFindsEmptyRoster
  <2> QED
    BY <2>1, <2>2, <2>3, <2>4 DEF RosterInv
<1>4. RelyInv'
  <2>1. \A c \in Channels : running[c] # NoGoroutine => running'[c] = running[c]
    BY <1>2
  <2>2. \A j \in Goroutines : InCharge(j) => InCharge(j)'
    BY <2>1, TypeInvFacts DEF InCharge
  <2>3. InCharge(i)'
    BY <1>2 DEF InCharge
  <2>4. HoldersKeepTheirChannel'
    BY <1>2, <2>1 DEF RelyInv, HoldersKeepTheirChannel
  <2>5. ASSUME NEW j \in Goroutines, NEW m \in ToSet(todo'[j]), m.op \in {"Joined", "Denial"}
        PROVE  InCharge(j)'
    BY <1>2, <2>2, <2>3, <2>5 DEF RelyInv, VerdictsStand
  <2>6. ASSUME NEW d \in Doppelgangers, NEW m \in ToSet(chatIn[d]), m.op = "Joined"
        PROVE  InCharge(m.by)'
    <3>1. InCharge(m.by)
      BY <2>6 DEF RelyInv, VerdictsStand
    <3>2. chatIn[d] \in Seq(ToDoppelganger)
      BY MailTypes
    <3>3. m \in ToDoppelganger
      BY <3>2, ToSetType
    <3> QED
      BY <2>2, <3>1, <3>3 DEF ToDoppelganger
  <2>7. ASSUME NEW m \in ToSet(denialQ)
        PROVE  running'[m.chan] # NoGoroutine
    <3>1. m \in Denials
      BY MailTypes, ToSetType
    <3> QED
      BY <2>1, <2>7, <3>1 DEF RelyInv, VerdictsStand, Denials
  <2> QED
    BY <1>2, <2>4, <2>5, <2>6, <2>7 DEF RelyInv, VerdictsStand
<1>5. CountCoversDue'
  <2>1. ASSUME NEW c \in Channels
        PROVE  IF running'[c] = NoGoroutine THEN memberCount'[c] >= 0
                                            ELSE memberCount'[c] >= Due(c)'
    <3>1. CASE c = b
      BY <1>1, <1>2, <3>1, LaunchDue
    <3>2. CASE c # b /\ running[c] = NoGoroutine
      BY <1>2, <3>2 DEF CountCoversDue
    <3>3. CASE c # b /\ running[c] # NoGoroutine
      <4>1. Due(c)' = Due(c)
        BY <1>1, <3>3, LaunchKeepsOthersDue
      <4> QED
        BY <1>2, <3>3, <4>1 DEF CountCoversDue
    <3> QED
      BY <3>1, <3>2, <3>3
  <2>2. masterTodo' = <<>>
    BY <1>1, <1>2 DEF NotLaunched
  <2> QED
    BY <2>1, <2>2, ToSetOfEmpty DEF CountCoversDue
<1> QED
  BY <1>3, <1>4, <1>5

-----------------------------------------------------------------------------
(***************************************************************************)
(* A turn of chat channel i that touches no roster and no doppelganger: it *)
(* takes a message, or sends a refusal to the channel master.              *)
(***************************************************************************)
TurnOf(i) ==
    /\ UNCHANGED <<running, memberCount, masterTodo, masterQ, memberList, doppVars>>
    /\ \A j \in Goroutines \ {i} :
        inbox'[j] = inbox[j] /\ todo'[j] = todo[j] /\ chatState'[j] = chatState[j]
    /\ chatState[i] = "running" /\ chatState'[i] # "unborn"

LosesNoExit(i) == \A d \in memberList[i] : ExitTaken(i, d) => ExitTaken(i, d)'

LEMMA TurnKeepsCounts ==
    ASSUME TypeInv, TypeInv', CountCoversDue, NEW i \in Goroutines, TurnOf(i),
           LosesNoExit(i),
           \A c \in Channels : running[c] # i =>
               HowMany(denialQ', DenialsBy(c)) = HowMany(denialQ, DenialsBy(c)),
           \A c \in Channels : running[c] = i => JoinsUnderWay(c)' <= JoinsUnderWay(c)
    PROVE  CountCoversDue'
<1>1. UNCHANGED <<running, memberCount, masterTodo, masterQ, memberList, status, chatID,
                  chatIn>>
  BY DEF TurnOf, doppVars
<1>2. ASSUME NEW c \in Channels, running[c] # NoGoroutine
      PROVE  Due(c)' <= Due(c)
  <2>1. DueTyped(c) /\ DueTyped(c)'
    BY <1>1, <1>2, DueTypes
  <2>2. ExitsAsked(c)' = ExitsAsked(c)
    BY <1>1 DEF ExitsAsked
  <2>3. running[c] \in Goroutines /\ running'[c] = running[c]
    BY <1>1, <1>2, TypeInvFacts
  <2>4. Holders(c)' = Holders(c) /\ Hearing(running[c])' = Hearing(running[c])
    BY <1>1 DEF Holders, Hearing
  <2>5. Unclaimed(c)' \in SUBSET Unclaimed(c)
    <3>1. \A d \in memberList[running[c]] :
              ExitTaken(running[c], d) => ExitTaken(running[c], d)'
      <4>1. CASE running[c] = i
        BY <1>1, <4>1 DEF LosesNoExit, ExitTaken
      <4>2. CASE running[c] # i
        BY <1>1, <2>3, <4>2 DEF TurnOf, ExitTaken
      <4> QED
        BY <4>1, <4>2
    <3>2. \A d : ExitAsked(c, d)' <=> ExitAsked(c, d)
      BY <1>1 DEF ExitAsked
    <3> QED
      BY <1>1, <2>3, <2>4, <3>1, <3>2 DEF Unclaimed
  <2>6. Cardinality(Unclaimed(c)') <= Cardinality(Unclaimed(c))
    BY <2>1, <2>5, FS_Subset DEF DueTyped
  <2>7. Claims(c)' <= Claims(c)
    BY <2>1, <2>3, <2>4, <2>6 DEF DueTyped, Claims
  <2>8. JoinsUnderWay(c)' <= JoinsUnderWay(c)
    <3>1. CASE running[c] = i
      BY <3>1
    <3>2. CASE running[c] # i
      <4>1. JoinsUnderWay(c)' = JoinsUnderWay(c)
        BY <1>1, <2>3, <3>2 DEF JoinsUnderWay, TurnOf
      <4> QED
        BY <2>1, <4>1 DEF DueTyped
    <3> QED
      BY <3>1, <3>2
  <2> QED
    BY <2>1, <2>2, <2>7, <2>8 DEF DueTyped, Due
<1>3. ASSUME NEW c \in Channels, running[c] # NoGoroutine
      PROVE  memberCount[c] >= Due(c)'
  <2>1. Due(c) \in Nat /\ Due(c)' \in Nat /\ memberCount[c] \in Int
    BY <1>1, <1>3, DueTypes, MailTypes DEF DueTyped
  <2> QED
    BY <1>2, <1>3, <2>1 DEF CountCoversDue
<1> QED
  BY <1>1, <1>3 DEF CountCoversDue

LEMMA TurnKeepsRosters ==
    ASSUME RosterInv, NEW i \in Goroutines, TurnOf(i), LosesNoExit(i),
           Len(inbox'[i]) <= 1,
           HasShutdown(inbox'[i]) => HasShutdown(inbox[i]),
           chatState'[i] = "returned" => memberList[i] = {},
           \A m \in ToSet(todo'[i]) :
               /\ m.op = "TextExit" <=> m.leaving # Nobody
               /\ \A n \in ToSet(todo'[i]) : n.leaving = m.leaving
    PROVE  RosterInv'
<1>1. OneMessageOfBuffer'
  BY DEF RosterInv, OneMessageOfBuffer, TurnOf, doppVars
<1>2. OneLeaverAtATime'
  BY DEF RosterInv, OneLeaverAtATime, TurnOf
<1>3. ShutdownIsLast'
  BY DEF RosterInv, ShutdownIsLast, TurnOf, LosesNoExit, ExitTaken
<1>4. ShutdownFindsEmptyRoster'
  BY DEF RosterInv, ShutdownFindsEmptyRoster, TurnOf
<1> QED
  BY <1>1, <1>2, <1>3, <1>4 DEF RosterInv

LEMMA TurnKeepsRely ==
    ASSUME RelyInv, NEW i \in Goroutines, TurnOf(i),
           \A m \in ToSet(todo'[i]) : m.op \in {"Joined", "Denial"} => InCharge(i),
           \A m \in ToSet(denialQ') : running[m.chan] # NoGoroutine
    PROVE  RelyInv'
<1>1. UNCHANGED <<running, masterQ, status, chatID, callback, chatIn>>
  BY DEF TurnOf, doppVars
<1>2. HoldersKeepTheirChannel'
  BY <1>1 DEF RelyInv, HoldersKeepTheirChannel
<1>3. VerdictsStand'
  BY <1>1 DEF RelyInv, VerdictsStand, InCharge, TurnOf
<1> QED
  BY <1>2, <1>3 DEF RelyInv

(***************************************************************************)
(* What a chat channel queues when it takes h: a verdict for a join and    *)
(* for nothing else, and for an exit, if anyone is on the roster, its      *)
(* announcement.                                                           *)
(***************************************************************************)
Answers(i, h, s) ==
    /\ s \in Seq(ChatSends)
    /\ HowMany(s, Verdicts) = IF h.op = "Join" THEN 1 ELSE 0
    /\ h.op = "Exit" /\ memberList[i] # {} => \E m \in ToSet(s) : m.leaving = h.who
    /\ \A m \in ToSet(s) :
        /\ m.op = "TextExit" <=> m.leaving # Nobody
        /\ \A n \in ToSet(s) : n.leaving = m.leaving
        /\ m.op \in {"Joined", "Denial"} => h.op = "Join"

TakesAndAnswers(i, op, s) ==
    /\ TakeFromMaster(i, op) /\ UNCHANGED memberList
    /\ todo' = [todo EXCEPT ![i] = s] /\ Answers(i, Head(inbox[i]), s)
    /\ \/ op # "Shutdown" /\ chatState' = chatState
       \/ op = "Shutdown" /\ chatState' = [chatState EXCEPT ![i] = "returned"]

LEMMA TakeKeepsAccounts ==
    ASSUME TypeInv, TypeInv', EntryInv, RosterInv, RelyInv, CountCoversDue,
           NEW i \in Goroutines, NEW op, NEW s, TakesAndAnswers(i, op, s)
    PROVE  RosterInv' /\ RelyInv' /\ CountCoversDue'
<1> DEFINE h == Head(inbox[i])
<1>0. /\ TakeFromMaster(i, op) /\ UNCHANGED memberList
      /\ todo' = [todo EXCEPT ![i] = s] /\ Answers(i, h, s)
      /\ \/ op # "Shutdown" /\ chatState' = chatState
         \/ op = "Shutdown" /\ chatState' = [chatState EXCEPT ![i] = "returned"]
  BY DEF TakesAndAnswers
<1>1. /\ inbox[i] = <<h>> /\ inbox'[i] = <<>> /\ h \in ToChat /\ h.op = op
      /\ todo[i] = <<>> /\ todo'[i] = s
      /\ chatState[i] = "running" /\ UNCHANGED denialQ
  <2>1. inbox[i] \in Seq(ToChat) /\ inbox[i] # <<>> /\ Len(inbox[i]) <= 1
    BY <1>0, TypeInvFacts DEF TakeFromMaster, RosterInv, OneMessageOfBuffer
  <2>2. inbox'[i] = Tail(inbox[i])
    BY <1>0, TypeInvFacts DEF TakeFromMaster
  <2>3. h \in ToChat
    BY <1>0, TakeFromMasterType
  <2> QED
    BY <1>0, <2>1, <2>2, <2>3, TailOfOne, MailTypes DEF TakeFromMaster, ChatIdle, masterVars
<1> HIDE DEF h
<1>2. Answers(i, h, s)
  BY <1>0
<1>3. TurnOf(i)
  <2>1. chatState'[i] # "unborn"
    BY <1>0, <1>1, TypeInvFacts
  <2> QED
    BY <1>0, <1>1, <2>1, TypeInvFacts, MailTypes DEF TurnOf, TakeFromMaster, masterVars
<1>4. LosesNoExit(i)
  <2> SUFFICES ASSUME NEW d \in memberList[i], ExitTaken(i, d)
               PROVE  ExitTaken(i, d)'
    BY DEF LosesNoExit
  <2>1. h.op = "Exit" /\ h.who = d
    BY <1>1, ToSetOfOne, ToSetOfEmpty DEF ExitTaken
  <2>2. PICK m \in ToSet(s) : m.leaving = h.who
    BY <1>2, <2>1 DEF Answers
  <2> QED
    BY <1>1, <2>1, <2>2 DEF ExitTaken
<1>5. ~HasShutdown(inbox'[i]) /\ Len(inbox'[i]) <= 1
  BY <1>1 DEF HasShutdown
<1>6. RosterInv'
  <2>1. chatState'[i] = "returned" => memberList[i] = {}
    <3> SUFFICES ASSUME chatState'[i] = "returned", NEW d \in memberList[i]
                 PROVE  FALSE
      OBVIOUS
    <3>1. h.op = "Shutdown"
      BY <1>0, <1>1, TypeInvFacts
    <3>2. HasShutdown(inbox[i])
      BY <1>1, <3>1 DEF HasShutdown
    <3>3. ExitTaken(i, d)
      BY <3>2 DEF RosterInv, ShutdownIsLast
    <3> QED
      BY <1>1, <3>1, <3>3, ToSetOfOne, ToSetOfEmpty DEF ExitTaken
  <2>2. \A m \in ToSet(todo'[i]) :
            /\ m.op = "TextExit" <=> m.leaving # Nobody
            /\ \A n \in ToSet(todo'[i]) : n.leaving = m.leaving
    BY <1>1, <1>2 DEF Answers
  <2> QED
    BY <1>3, <1>4, <1>5, <2>1, <2>2, TurnKeepsRosters
<1>7. RelyInv'
  <2>1. ASSUME h.op = "Join"
        PROVE  InCharge(i)
    <3>1. ~HasShutdown(inbox[i])
      BY <1>1, <2>1 DEF HasShutdown
    <3>2. running[chanOf[i]] = i /\ chanOf[i] \in Channels
      BY <1>1, <3>1, TypeInvFacts DEF EntryInv, OneLiveGoroutinePerChannel
    <3> QED
      BY <3>2 DEF InCharge
  <2>2. \A m \in ToSet(todo'[i]) : m.op \in {"Joined", "Denial"} => InCharge(i)
    BY <1>1, <1>2, <2>1 DEF Answers
  <2>3. \A m \in ToSet(denialQ') : running[m.chan] # NoGoroutine
    BY <1>1 DEF RelyInv, VerdictsStand
  <2> QED
    BY <1>3, <2>2, <2>3, TurnKeepsRely
<1>8. CountCoversDue'
  <2>1. ASSUME NEW c \in Channels, running[c] = i
        PROVE  JoinsUnderWay(c)' <= JoinsUnderWay(c)
    <3> DEFINE join == IF h.op = "Join" THEN 1 ELSE 0
    <3>1. running'[c] = i /\ running[c] # NoGoroutine
      BY <1>3, <2>1, TypeInvFacts DEF TurnOf
    <3>2. HowMany(inbox[i], Posts("Join")) = join /\ HowMany(inbox'[i], Posts("Join")) = 0
      <4>1. h \in Posts("Join") <=> h.op = "Join"
        BY <1>1 DEF ToChat, Posts
      <4> QED
        BY <1>1, <4>1, HowManyOfEmpty, HowManyOfOne
    <3>3. HowMany(todo[i], Verdicts) = 0 /\ HowMany(todo'[i], Verdicts) = join
      BY <1>1, <1>2, HowManyOfEmpty DEF Answers
    <3>4. /\ HowMany(masterTodo, SendsTo(c, "Join")) \in Nat
          /\ HowMany(denialQ, DenialsBy(c)) \in Nat
      BY <3>1, DueTypes DEF DueTyped
    <3>5. join \in Nat
      OBVIOUS
    <3>6. UNCHANGED <<masterTodo, denialQ>>
      BY <1>1, <1>3 DEF TurnOf
    <3> HIDE DEF join
    <3>7. JoinsUnderWay(c)' = HowMany(masterTodo, SendsTo(c, "Join")) + 0 + join
                              + HowMany(denialQ, DenialsBy(c))
      BY <3>1, <3>2, <3>3, <3>6 DEF JoinsUnderWay
    <3>8. JoinsUnderWay(c) = HowMany(masterTodo, SendsTo(c, "Join")) + join + 0
                             + HowMany(denialQ, DenialsBy(c))
      BY <2>1, <3>2, <3>3 DEF JoinsUnderWay
    <3> QED
      BY <3>4, <3>5, <3>7, <3>8
  <2>2. \A c \in Channels : HowMany(denialQ', DenialsBy(c)) = HowMany(denialQ, DenialsBy(c))
    BY <1>1
  <2> QED
    BY <1>3, <1>4, <2>1, <2>2, TurnKeepsCounts
<1> QED
  BY <1>6, <1>7, <1>8

LEMMA MailKeepsAccounts ==
    ASSUME TypeInv, TypeInv', EntryInv, RosterInv, RelyInv, CountCoversDue,
           NEW i \in Goroutines,
           ChatJoin(i) \/ ChatWho(i) \/ ChatExit(i) \/ ChatShutdown(i)
    PROVE  RosterInv' /\ RelyInv' /\ CountCoversDue'
<1> DEFINE h == Head(inbox[i])
<1>1. /\ todo \in [Goroutines -> Seq(ChatSends)]
      /\ memberList[i] \in SUBSET Doppelgangers
  BY MailTypes
<1>2. ASSUME NEW op, TakeFromMaster(i, op)
      PROVE  /\ h.who \in Doppelgangers /\ h.op = op
             /\ todo' = todo => todo' = [todo EXCEPT ![i] = <<>>]
  BY <1>1, <1>2, TakeFromMasterType DEF TakeFromMaster, ChatIdle
<1>3. ASSUME h.op # "Join", h.op # "Exit"
      PROVE  Answers(i, h, <<>>)
  BY <1>3, HowManyOfEmpty, ToSetOfEmpty DEF Answers
<1>4. CASE ChatJoin(i)
  <2>1. TakeFromMaster(i, "Join") /\ chatState' = chatState /\ UNCHANGED memberList
    BY <1>4 DEF ChatJoin
  <2>2. PICK s \in AnswersToJoin(h.who, memberList[i]) : todo' = [todo EXCEPT ![i] = s]
    BY <1>4 DEF ChatJoin
  <2>3. Answers(i, h, s)
    <3>1. h.who \in Doppelgangers /\ h.op = "Join"
      BY <1>2, <2>1
    <3> HIDE DEF h
    <3> QED
      BY <1>1, <2>2, <3>1, AnswerFacts DEF Answers
  <2>4. TakesAndAnswers(i, "Join", s)
    BY <2>1, <2>2, <2>3 DEF TakesAndAnswers
  <2> QED
    BY <2>4, TakeKeepsAccounts
<1>5. CASE ChatWho(i)
  <2>1. TakeFromMaster(i, "Who") /\ chatState' = chatState /\ UNCHANGED memberList
    BY <1>5 DEF ChatWho
  <2>2. h.op = "Who" /\ h.who \in Doppelgangers
    BY <1>2, <2>1
  <2> DEFINE text == SendTo("Text", h.who, Nobody)
  <2>3. \/ todo' = todo
        \/ todo' = [todo EXCEPT ![i] = <<text>>]
    BY <1>5 DEF ChatWho
  <2>4. PICK s : todo' = [todo EXCEPT ![i] = s] /\ s \in {<<>>, <<text>>}
    BY <1>2, <2>1, <2>3
  <2>5. text \in ChatSends /\ text.op = "Text" /\ text.leaving = Nobody
    BY <2>2 DEF SendTo, ChatSends
  <2> HIDE DEF text, h
  <2>6. Answers(i, h, <<text>>)
    <3>1. <<text>> \in Seq(ChatSends) /\ text \notin Verdicts
      BY <2>5 DEF Verdicts
    <3>2. HowMany(<<text>>, Verdicts) = 0 /\ ToSet(<<text>>) = {text}
      BY <3>1, HowManyOfOne, ToSetOfOne
    <3> QED
      BY <2>2, <2>5, <3>1, <3>2 DEF Answers
  <2>7. Answers(i, h, s)
    BY <1>3, <2>2, <2>4, <2>6
  <2>8. TakesAndAnswers(i, "Who", s)
    BY <2>1, <2>4, <2>7 DEF TakesAndAnswers, h
  <2> QED
    BY <2>8, TakeKeepsAccounts
<1>6. CASE ChatExit(i)
  <2>1. TakeFromMaster(i, "Exit") /\ chatState' = chatState /\ UNCHANGED memberList
    BY <1>6 DEF ChatExit
  <2>2. PICK s \in Broadcasts("TextExit", memberList[i], h.who) :
            todo' = [todo EXCEPT ![i] = s]
    BY <1>6 DEF ChatExit
  <2>3. h.op = "Exit" /\ h.who \in Doppelgangers
    BY <1>2, <2>1
  <2>4. /\ s \in Seq(ChatSends)
        /\ \A m \in ToSet(s) : m.op = "TextExit" /\ m.leaving = h.who
        /\ memberList[i] # {} => ToSet(s) # {}
    <3> DEFINE who == h.who
               ds == memberList[i]
    <3>1. who \in Doppelgangers /\ ds \in SUBSET Doppelgangers
      BY <1>1, <2>3
    <3>2. s \in Broadcasts("TextExit", ds, who)
      BY <2>2
    <3> HIDE DEF who, ds
    <3>3. /\ s \in Seq(ChatSends)
          /\ \A m \in ToSet(s) : m.op = "TextExit" /\ m.leaving = who
          /\ ds # {} => ToSet(s) # {}
      BY <3>1, <3>2, FarewellFacts
    <3> QED
      BY <3>3 DEF who, ds
  <2> HIDE DEF h
  <2>5. HowMany(s, Verdicts) = 0
    BY <2>4, HowManyType DEF Verdicts
  <2>6. Nobody \notin Doppelgangers
    BY IdsAssumption DEF IdsAssumption
  <2>7. Answers(i, h, s)
    BY <2>3, <2>4, <2>5, <2>6 DEF Answers
  <2>8. TakesAndAnswers(i, "Exit", s)
    BY <2>1, <2>2, <2>7 DEF TakesAndAnswers, h
  <2> QED
    BY <2>8, TakeKeepsAccounts
<1>7. CASE ChatShutdown(i)
  <2>1. /\ TakeFromMaster(i, "Shutdown") /\ UNCHANGED <<memberList, todo>>
        /\ chatState' = [chatState EXCEPT ![i] = "returned"]
    BY <1>7 DEF ChatShutdown
  <2>2. Answers(i, h, <<>>)
    BY <1>2, <1>3, <2>1
  <2>3. todo' = [todo EXCEPT ![i] = <<>>]
    BY <1>2, <2>1
  <2>4. TakesAndAnswers(i, "Shutdown", <<>>)
    BY <2>1, <2>2, <2>3 DEF TakesAndAnswers
  <2> QED
    BY <2>4, TakeKeepsAccounts
<1> QED
  BY <1>4, <1>5, <1>6, <1>7

LEMMA SpeechKeepsAccounts ==
    ASSUME TypeInv, TypeInv', EntryInv, RosterInv, RelyInv, CountCoversDue,
           NEW i \in Goroutines, ChatSpeech(i)
    PROVE  RosterInv' /\ RelyInv' /\ CountCoversDue'
<1>1. PICK s \in Broadcasts("Text", memberList[i], Nobody) : todo' = [todo EXCEPT ![i] = s]
  BY DEF ChatSpeech
<1>2. /\ s \in Seq(ChatSends)
      /\ \A m \in ToSet(s) : m.op = "Text" /\ m.leaving = Nobody
  <2>1. memberList[i] \in SUBSET Doppelgangers
    BY MailTypes
  <2> QED
    BY <1>1, <2>1, BroadcastFacts
<1>3. HowMany(s, Verdicts) = 0
  BY <1>2, HowManyType DEF Verdicts
<1>4. /\ todo[i] = <<>> /\ todo'[i] = s /\ UNCHANGED <<denialQ, inbox, chatState>>
      /\ chatState[i] = "running"
  BY <1>1, MailTypes DEF ChatSpeech, ChatIdle, masterVars
<1>5. TurnOf(i)
  BY <1>1, <1>4, MailTypes DEF TurnOf, ChatSpeech, masterVars
<1>6. LosesNoExit(i)
  BY <1>4, ToSetOfEmpty DEF LosesNoExit, ExitTaken
<1>7. RosterInv'
  BY <1>2, <1>4, <1>5, <1>6, TurnKeepsRosters DEF RosterInv, OneMessageOfBuffer
<1>8. RelyInv'
  BY <1>2, <1>4, <1>5, TurnKeepsRely DEF RelyInv, VerdictsStand
<1>9. CountCoversDue'
  <2>1. ASSUME NEW c \in Channels, running[c] = i
        PROVE  JoinsUnderWay(c)' <= JoinsUnderWay(c)
    <3>1. HowMany(todo[i], Verdicts) = 0 /\ HowMany(todo'[i], Verdicts) = 0
      BY <1>3, <1>4, HowManyOfEmpty
    <3>2. UNCHANGED <<running, masterTodo, denialQ, inbox>>
      BY <1>4, <1>5 DEF TurnOf
    <3>3. JoinsUnderWay(c)' = JoinsUnderWay(c)
      BY <2>1, <3>1, <3>2 DEF JoinsUnderWay
    <3>4. JoinsUnderWay(c) \in Nat
      BY <2>1, DueTypes, TypeInvFacts DEF DueTyped
    <3> QED
      BY <3>3, <3>4
  <2> QED
    BY <1>4, <1>5, <1>6, <2>1, TurnKeepsCounts
<1> QED
  BY <1>7, <1>8, <1>9

\* A refusal: from the chat channel's handler to the go channel of the master.
LEMMA TellKeepsAccounts ==
    ASSUME TypeInv, TypeInv', EntryInv, RosterInv, RelyInv, CountCoversDue,
           NEW i \in Goroutines, ChatTellsMaster(i)
    PROVE  RosterInv' /\ RelyInv' /\ CountCoversDue'
<1> DEFINE h == Head(todo[i])
           b == chanOf[i]
           msg == [from |-> h.to, chan |-> b]
<1>1. /\ todo[i] \in Seq(ChatSends) /\ todo[i] # <<>> /\ h.op = "Denial"
      /\ todo'[i] = Tail(todo[i]) /\ h \in ToSet(todo[i])
      /\ ToSet(todo[i]) = {h} \cup ToSet(todo'[i])
      /\ denialQ' = Append(denialQ, msg)
  <2>1. todo[i] \in Seq(ChatSends) /\ todo[i] # <<>> /\ todo'[i] = Tail(todo[i])
    BY MailTypes DEF ChatTellsMaster
  <2> QED
    BY <2>1, ToSetOfTail, ToSetType DEF ChatTellsMaster
<1>2. h \in ChatSends /\ h.leaving = Nobody
  <2>1. h \in ChatSends
    BY <1>1, ToSetType
  <2> QED
    BY <1>1, <2>1 DEF RosterInv, OneLeaverAtATime
<1>3. \A c \in Channels : running[c] = i <=> c = b
  <2>1. InCharge(i)
    BY <1>1 DEF RelyInv, VerdictsStand
  <2> QED
    BY <2>1, TypeInvFacts DEF InCharge, EntryInv, EntryIsLive
<1>4. b \in Channels /\ running[b] # NoGoroutine
  <2>1. PICK c \in Channels : running[c] = i
    BY <1>1 DEF RelyInv, VerdictsStand, InCharge
  <2> QED
    BY <1>3, <2>1, TypeInvFacts
<1>5. msg \in Denials /\ \A c \in Channels : msg \in DenialsBy(c) <=> c = b
  BY <1>2, <1>4 DEF ChatSends, Denials, DenialsBy
<1>6. denialQ \in Seq(Denials)
  BY MailTypes
<1> HIDE DEF h, b, msg
<1>7. TurnOf(i)
  BY MailTypes DEF TurnOf, ChatTellsMaster
<1>8. LosesNoExit(i)
  <2>1. Nobody \notin Doppelgangers /\ memberList[i] \in SUBSET Doppelgangers
    BY MailTypes, IdsAssumption DEF IdsAssumption
  <2>2. inbox'[i] = inbox[i]
    BY DEF ChatTellsMaster
  <2> QED
    BY <1>1, <1>2, <2>1, <2>2 DEF LosesNoExit, ExitTaken
<1>9. RosterInv'
  <2>1. inbox'[i] = inbox[i] /\ chatState'[i] = "running"
    BY DEF ChatTellsMaster
  <2>2. \A m \in ToSet(todo'[i]) :
            /\ m.op = "TextExit" <=> m.leaving # Nobody
            /\ \A n \in ToSet(todo'[i]) : n.leaving = m.leaving
    BY <1>1 DEF RosterInv, OneLeaverAtATime
  <2> QED
    BY <1>7, <1>8, <2>1, <2>2, TurnKeepsRosters DEF RosterInv, OneMessageOfBuffer
<1>10. RelyInv'
  <2>1. \A m \in ToSet(denialQ') : running[m.chan] # NoGoroutine
    <3>1. ToSet(denialQ') = ToSet(denialQ) \cup {msg} /\ msg.chan = b
      BY <1>1, <1>5, <1>6, ToSetOfAppend DEF msg
    <3> QED
      BY <1>4, <3>1 DEF RelyInv, VerdictsStand
  <2>2. \A m \in ToSet(todo'[i]) : m.op \in {"Joined", "Denial"} => InCharge(i)
    BY <1>1 DEF RelyInv, VerdictsStand
  <2> QED
    BY <1>7, <2>1, <2>2, TurnKeepsRely
<1>11. CountCoversDue'
  <2>0. \A c \in Channels : HowMany(denialQ', DenialsBy(c))
                            = HowMany(denialQ, DenialsBy(c)) + IF c = b THEN 1 ELSE 0
    BY <1>1, <1>5, <1>6, HowManyOfAppend
  <2>1. ASSUME NEW c \in Channels, running[c] # i
        PROVE  HowMany(denialQ', DenialsBy(c)) = HowMany(denialQ, DenialsBy(c))
    <3>1. c # b
      BY <1>3, <2>1
    <3>2. HowMany(denialQ, DenialsBy(c)) \in Nat
      BY <1>6, HowManyType
    <3> QED
      BY <2>0, <3>1, <3>2
  <2>2. ASSUME NEW c \in Channels, running[c] = i
        PROVE  JoinsUnderWay(c)' <= JoinsUnderWay(c)
    <3>1. c = b /\ running[c] # NoGoroutine
      BY <1>3, <1>4, <2>2
    <3>2. HowMany(denialQ', DenialsBy(c)) = HowMany(denialQ, DenialsBy(c)) + 1
      BY <2>0, <3>1
    <3>3. HowMany(todo[i], Verdicts) = HowMany(todo'[i], Verdicts) + 1
      <4>1. h \in Verdicts
        BY <1>1, <1>2 DEF ChatSends, Verdicts
      <4>2. HowMany(todo[i], Verdicts)
            = HowMany(Tail(todo[i]), Verdicts) + IF h \in Verdicts THEN 1 ELSE 0
        BY <1>1, HowManyOfTail DEF h
      <4> QED
        BY <1>1, <4>1, <4>2
    <3>4. /\ running'[c] = i /\ inbox'[i] = inbox[i] /\ masterTodo' = masterTodo
      BY <2>2 DEF ChatTellsMaster
    <3>5. /\ HowMany(masterTodo, SendsTo(c, "Join")) \in Nat
          /\ HowMany(inbox[i], Posts("Join")) \in Nat
          /\ HowMany(denialQ, DenialsBy(c)) \in Nat
      BY <2>2, <3>1, DueTypes DEF DueTyped
    <3>6. HowMany(todo'[i], Verdicts) \in Nat
      <4>1. todo'[i] \in Seq(ChatSends)
        BY <1>1, HeadTailProperties
      <4> QED
        BY <4>1, HowManyType
    <3>7. JoinsUnderWay(c)' = HowMany(masterTodo, SendsTo(c, "Join"))
            + HowMany(inbox[i], Posts("Join")) + HowMany(todo'[i], Verdicts)
            + (HowMany(denialQ, DenialsBy(c)) + 1)
      BY <3>2, <3>4 DEF JoinsUnderWay
    <3>8. JoinsUnderWay(c) = HowMany(masterTodo, SendsTo(c, "Join"))
            + HowMany(inbox[i], Posts("Join")) + (HowMany(todo'[i], Verdicts) + 1)
            + HowMany(denialQ, DenialsBy(c))
      BY <2>2, <3>3 DEF JoinsUnderWay
    <3> QED
      BY <3>5, <3>6, <3>7, <3>8
  <2> QED
    BY <1>7, <1>8, <2>1, <2>2, TurnKeepsCounts
<1> QED
  BY <1>9, <1>10, <1>11

-----------------------------------------------------------------------------
\* Chat channel i delivers m, the first of its sends, to a doppelganger.
Delivers(i, m) ==
    /\ chatState[i] = "running" /\ todo[i] # <<>> /\ m = Head(todo[i])
    /\ m.op # "Denial" /\ Len(chatIn[m.to]) < 1
    /\ chatIn' = [chatIn EXCEPT ![m.to] =
            Append(@, [op |-> m.op, by |-> i, leaving |-> m.leaving])]
    /\ AfterChatSend(i, m)
    /\ todo' = [todo EXCEPT ![i] = Tail(@)]
    /\ UNCHANGED <<masterVars, chatState, inbox, status, chatID, callback>>

Heard(i, m) == [op |-> m.op, by |-> i, leaving |-> m.leaving]

LEMMA DeliversParts ==
    ASSUME TypeInv, RosterInv, NEW i \in Goroutines, NEW m, Delivers(i, m)
    PROVE  /\ m \in ToSet(todo[i]) /\ m \in ChatSends /\ m.to \in Doppelgangers
           /\ todo[i] \in Seq(ChatSends) /\ todo'[i] = Tail(todo[i])
           /\ ToSet(todo[i]) = {m} \cup ToSet(todo'[i])
           /\ \A j \in Goroutines \ {i} : todo'[j] = todo[j] /\ memberList'[j] = memberList[j]
           /\ chatIn[m.to] = <<>> /\ chatIn'[m.to] = <<Heard(i, m)>>
           /\ Heard(i, m).op = m.op /\ Heard(i, m).by = i
           /\ \A d \in Doppelgangers \ {m.to} : chatIn'[d] = chatIn[d]
           /\ m.op = "TextExit" <=> m.leaving # Nobody
           /\ memberList \in [Goroutines -> SUBSET Doppelgangers]
           /\ todo[i] # <<>> /\ m = Head(todo[i]) /\ m.op # "Denial"
           /\ chatState[i] = "running"
           /\ UNCHANGED <<masterQ, denialQ, masterTodo, running, memberCount, chatState,
                          inbox, status, chatID, callback>>
<1>0. /\ todo[i] # <<>> /\ m = Head(todo[i]) /\ m.op # "Denial"
      /\ chatState[i] = "running"
      /\ UNCHANGED <<masterQ, denialQ, masterTodo, running, memberCount, chatState,
                     inbox, status, chatID, callback>>
  BY DEF Delivers, masterVars
<1>1. /\ todo[i] \in Seq(ChatSends) /\ todo'[i] = Tail(todo[i])
      /\ \A j \in Goroutines \ {i} : todo'[j] = todo[j]
  BY MailTypes DEF Delivers
<1>2. m \in ToSet(todo[i]) /\ m \in ChatSends /\ ToSet(todo[i]) = {m} \cup ToSet(todo'[i])
  BY <1>1, ToSetType, ToSetOfTail DEF Delivers
<1>3. m.to \in Doppelgangers
  BY <1>2 DEF ChatSends
<1>4. /\ memberList \in [Goroutines -> SUBSET Doppelgangers]
      /\ \A j \in Goroutines \ {i} : memberList'[j] = memberList[j]
  BY MailTypes DEF Delivers, AfterChatSend
<1>5. /\ chatIn[m.to] \in Seq(ToDoppelganger)
      /\ chatIn'[m.to] = Append(chatIn[m.to], Heard(i, m))
      /\ \A d \in Doppelgangers \ {m.to} : chatIn'[d] = chatIn[d]
  BY <1>3, MailTypes DEF Delivers, Heard
<1>6. chatIn[m.to] = <<>>
  <2>1. Len(chatIn[m.to]) \in Nat
    BY <1>5, LenProperties
  <2> QED
    BY <1>5, <2>1, EmptySeq DEF Delivers
<1>7. chatIn'[m.to] = <<Heard(i, m)>>
  BY <1>5, <1>6
<1>8. m.op = "TextExit" <=> m.leaving # Nobody
  BY <1>2 DEF RosterInv, OneLeaverAtATime
<1> QED
  BY <1>0, <1>1, <1>2, <1>3, <1>4, <1>5, <1>6, <1>7, <1>8 DEF Heard

LEMMA RosterAfterDelivery ==
    ASSUME TypeInv, NEW i \in Goroutines, NEW m, Delivers(i, m)
    PROVE  /\ m.op = "Joined" => memberList'[i] = memberList[i] \cup {m.to}
           /\ m.op = "TextExit" /\ Len(todo[i]) = 1 =>
                memberList'[i] = memberList[i] \ {m.leaving}
           /\ m.op # "Joined" /\ m.op # "TextExit" => memberList'[i] = memberList[i]
           /\ Len(todo[i]) # 1 /\ m.op # "Joined" => memberList'[i] = memberList[i]
<1>1. AfterChatSend(i, m) /\ memberList \in [Goroutines -> SUBSET Doppelgangers]
  BY MailTypes DEF Delivers
<1> QED
  BY <1>1 DEF AfterChatSend

(***************************************************************************)
(* Whoever is on the roster then has been on it, and an exit of his that   *)
(* was being announced still is; or he is the one who has just joined.     *)
(***************************************************************************)
LEMMA DeliversRoster ==
    ASSUME TypeInv, RosterInv, NEW i \in Goroutines, NEW m, Delivers(i, m),
           NEW d \in memberList'[i]
    PROVE  \/ m.op = "Joined" /\ d = m.to
           \/ d \in memberList[i] /\ (ExitTaken(i, d) => ExitTaken(i, d)')
<1>1. /\ m \in ToSet(todo[i]) /\ todo[i] \in Seq(ChatSends) /\ m.to \in Doppelgangers
      /\ todo'[i] = Tail(todo[i]) /\ todo[i] # <<>>
      /\ ToSet(todo[i]) = {m} \cup ToSet(todo'[i])
      /\ m.op = "TextExit" <=> m.leaving # Nobody
      /\ memberList \in [Goroutines -> SUBSET Doppelgangers]
      /\ inbox' = inbox
  BY DeliversParts
<1>2. Nobody \notin Doppelgangers
  BY IdsAssumption DEF IdsAssumption
<1>3. CASE m.op = "Joined"
  <2>1. memberList'[i] = memberList[i] \cup {m.to} /\ m.leaving = Nobody
    BY <1>1, <1>3, RosterAfterDelivery
  <2>2. d \in memberList[i] => d # Nobody
    BY <1>1, <1>2
  <2> QED
    BY <1>1, <1>3, <2>1, <2>2 DEF ExitTaken
<1>4. CASE m.op # "Joined" /\ m.op # "TextExit"
  <2>1. memberList'[i] = memberList[i] /\ m.leaving = Nobody /\ d # Nobody
    BY <1>1, <1>2, <1>4, RosterAfterDelivery
  <2> QED
    BY <1>1, <2>1 DEF ExitTaken
<1>5. CASE m.op = "TextExit" /\ Len(todo[i]) = 1
  <2>1. memberList'[i] = memberList[i] \ {m.leaving}
    BY <1>5, RosterAfterDelivery
  <2>2. ToSet(todo[i]) = {m}
    <3> DEFINE s == todo[i]
    <3>0. s \in Seq(ChatSends) /\ s # <<>> /\ Len(s) <= 1
      BY <1>1, <1>5
    <3> HIDE DEF s
    <3>1. ToSet(s) = {Head(s)}
      BY <3>0, TailOfOne
    <3> QED
      BY <3>1, DeliversParts DEF s
  <2> QED
    BY <1>1, <2>1, <2>2 DEF ExitTaken
<1>6. CASE m.op = "TextExit" /\ Len(todo[i]) # 1
  <2>1. memberList'[i] = memberList[i]
    BY <1>6, RosterAfterDelivery
  <2>2. PICK n : n \in ToSet(todo'[i])
    <3>1. todo'[i] \in Seq(ChatSends) /\ Len(todo'[i]) = Len(todo[i]) - 1
          /\ Len(todo[i]) \in Nat /\ Len(todo[i]) # 0
      BY <1>1, HeadTailProperties, LenProperties, EmptySeq
    <3>2. todo'[i] # <<>>
      <4>1. Len(todo'[i]) # 0
        BY <1>6, <3>1
      <4> QED
        BY <3>1, <4>1, EmptySeq
    <3> QED
      BY <3>1, <3>2, ToSetType
  <2>3. n.leaving = m.leaving
    BY <1>1, <2>2 DEF RosterInv, OneLeaverAtATime
  <2> QED
    BY <1>1, <2>1, <2>2, <2>3 DEF ExitTaken
<1> QED
  BY <1>3, <1>4, <1>5, <1>6

LEMMA DeliversKeepsRosters ==
    ASSUME TypeInv, EntryInv, RosterInv, RelyInv, NEW i \in Goroutines, NEW m,
           Delivers(i, m)
    PROVE  RosterInv'
<1>1. /\ m \in ToSet(todo[i]) /\ ToSet(todo[i]) = {m} \cup ToSet(todo'[i])
      /\ \A j \in Goroutines \ {i} : todo'[j] = todo[j] /\ memberList'[j] = memberList[j]
      /\ chatIn'[m.to] = <<Heard(i, m)>>
      /\ \A d \in Doppelgangers \ {m.to} : chatIn'[d] = chatIn[d]
      /\ chatState[i] = "running" /\ UNCHANGED <<chatState, inbox>>
  BY DeliversParts
<1>2. OneMessageOfBuffer'
  <2>1. Len(chatIn'[m.to]) <= 1
    BY <1>1
  <2> QED
    BY <1>1, <2>1 DEF RosterInv, OneMessageOfBuffer
<1>3. OneLeaverAtATime'
  BY <1>1 DEF RosterInv, OneLeaverAtATime
<1>4. ShutdownIsLast'
  <2> SUFFICES ASSUME NEW j \in Goroutines
               PROVE  /\ chatState[j] = "unborn" => memberList'[j] = {} /\ todo'[j] = <<>>
                      /\ HasShutdown(inbox[j]) =>
                            \A d \in memberList'[j] : ExitTaken(j, d)'
    BY <1>1 DEF ShutdownIsLast
  <2>1. CASE j # i
    BY <1>1, <2>1 DEF RosterInv, ShutdownIsLast, ExitTaken
  <2>2. CASE j = i
    <3> SUFFICES ASSUME HasShutdown(inbox[i]), NEW d \in memberList'[i]
                 PROVE  ExitTaken(i, d)'
      BY <1>1, <2>2
    <3>1. m.op # "Joined"
      <4> SUFFICES ASSUME m.op = "Joined"
                   PROVE  FALSE
        OBVIOUS
      <4>1. PICK c \in Channels : running[c] = i
        BY <1>1 DEF RelyInv, VerdictsStand, InCharge
      <4>2. running[c] # NoGoroutine
        BY <4>1, TypeInvFacts
      <4> QED
        BY <4>1, <4>2 DEF EntryInv, EntryIsLive
    <3>2. d \in memberList[i] /\ (ExitTaken(i, d) => ExitTaken(i, d)')
      BY <3>1, DeliversRoster
    <3> QED
      BY <3>2 DEF RosterInv, ShutdownIsLast
  <2> QED
    BY <2>1, <2>2
<1>5. ShutdownFindsEmptyRoster'
  BY <1>1 DEF RosterInv, ShutdownFindsEmptyRoster
<1> QED
  BY <1>2, <1>3, <1>4, <1>5 DEF RosterInv

LEMMA DeliversKeepsRely ==
    ASSUME TypeInv, RosterInv, RelyInv, NEW i \in Goroutines, NEW m, Delivers(i, m)
    PROVE  RelyInv'
<1>1. /\ m \in ToSet(todo[i]) /\ ToSet(todo[i]) = {m} \cup ToSet(todo'[i])
      /\ \A j \in Goroutines \ {i} : todo'[j] = todo[j]
      /\ chatIn'[m.to] = <<Heard(i, m)>> /\ Heard(i, m).op = m.op /\ Heard(i, m).by = i
      /\ \A d \in Doppelgangers \ {m.to} : chatIn'[d] = chatIn[d]
      /\ UNCHANGED <<masterQ, denialQ, running, status, chatID, callback>>
  <2>1. /\ m \in ToSet(todo[i]) /\ ToSet(todo[i]) = {m} \cup ToSet(todo'[i])
        /\ \A j \in Goroutines \ {i} : todo'[j] = todo[j]
    BY DeliversParts
  <2>2. /\ chatIn'[m.to] = <<Heard(i, m)>> /\ Heard(i, m).op = m.op /\ Heard(i, m).by = i
        /\ \A d \in Doppelgangers \ {m.to} : chatIn'[d] = chatIn[d]
    BY DeliversParts
  <2>3. UNCHANGED <<masterQ, denialQ, running, status, chatID, callback>>
    BY DeliversParts
  <2> QED
    BY <2>1, <2>2, <2>3
<1>2. HoldersKeepTheirChannel'
  BY <1>1 DEF RelyInv, HoldersKeepTheirChannel
<1>3. ASSUME NEW d \in Doppelgangers, NEW n \in ToSet(chatIn'[d]), n.op = "Joined"
      PROVE  InCharge(n.by)
  <2>1. CASE d = m.to
    <3>1. n = Heard(i, m)
      BY <1>1, <1>3, <2>1, ToSetOfOne
    <3> QED
      BY <1>1, <1>3, <3>1 DEF RelyInv, VerdictsStand
  <2>2. CASE d # m.to
    BY <1>1, <1>3, <2>2 DEF RelyInv, VerdictsStand
  <2> QED
    BY <2>1, <2>2
<1>4. \A j \in Goroutines : \A n \in ToSet(todo'[j]) :
          n.op \in {"Joined", "Denial"} => InCharge(j)
  BY <1>1 DEF RelyInv, VerdictsStand
<1>5. VerdictsStand'
  BY <1>1, <1>3, <1>4 DEF RelyInv, VerdictsStand, InCharge
<1> QED
  BY <1>2, <1>5 DEF RelyInv

\* A Joined moves from the handler's sends to the doppelganger's go channel.
LEMMA DeliversDue ==
    ASSUME TypeInv, TypeInv', RosterInv, NEW i \in Goroutines, NEW m, Delivers(i, m),
           NEW c \in Channels, running[c] # NoGoroutine
    PROVE  Due(c)' <= Due(c)
<1> DEFINE j == running[c]
           joined == IF j = i /\ m.op = "Joined" THEN 1 ELSE 0
<1>1. /\ m \in ToSet(todo[i]) /\ m \in ChatSends /\ m.to \in Doppelgangers
      /\ todo[i] \in Seq(ChatSends) /\ todo'[i] = Tail(todo[i]) /\ todo[i] # <<>>
      /\ m = Head(todo[i]) /\ m.op # "Denial"
      /\ \A k \in Goroutines \ {i} : todo'[k] = todo[k] /\ memberList'[k] = memberList[k]
      /\ chatIn[m.to] = <<>> /\ chatIn'[m.to] = <<Heard(i, m)>>
      /\ Heard(i, m).op = m.op /\ Heard(i, m).by = i
      /\ \A d \in Doppelgangers \ {m.to} : chatIn'[d] = chatIn[d]
      /\ m.op = "TextExit" <=> m.leaving # Nobody
      /\ UNCHANGED <<masterQ, denialQ, masterTodo, running, inbox, status, chatID>>
  BY DeliversParts
<1>2. j \in Goroutines /\ running'[c] = j
  BY <1>1, TypeInvFacts
<1>3. DueTyped(c) /\ DueTyped(c)'
  BY <1>1, DueTypes
<1>4. HowMany(todo[j], Verdicts) = HowMany(todo'[j], Verdicts) + joined
  <2>1. CASE j = i
    <3>1. m \in Verdicts <=> m.op = "Joined"
      BY <1>1 DEF ChatSends, Verdicts
    <3>2. HowMany(todo[i], Verdicts)
          = HowMany(Tail(todo[i]), Verdicts) + IF m \in Verdicts THEN 1 ELSE 0
      BY <1>1, HowManyOfTail
    <3> QED
      BY <1>1, <2>1, <3>1, <3>2
  <2>2. CASE j # i
    <3>1. todo'[j] = todo[j] /\ joined = 0
      BY <1>1, <1>2, <2>2
    <3>2. HowMany(todo[j], Verdicts) \in Nat
      BY <1>3 DEF DueTyped
    <3> QED
      BY <3>1, <3>2
  <2> QED
    BY <2>1, <2>2
<1>5. /\ Hearing(j)' = IF joined = 1 THEN Hearing(j) \cup {m.to} ELSE Hearing(j)
      /\ m.to \notin Hearing(j)
  <2>1. \A d \in Doppelgangers \ {m.to} :
            d \in {e \in Doppelgangers : \E n \in ToSet(chatIn'[e]) : n.op = "Joined" /\ n.by = j}
            <=> d \in Hearing(j)
    BY <1>1 DEF Hearing
  <2>2. ToSet(chatIn[m.to]) = {} /\ ToSet(chatIn'[m.to]) = {Heard(i, m)}
    BY <1>1, ToSetOfEmpty, ToSetOfOne
  <2>3. m.to \notin Hearing(j)
    BY <2>2 DEF Hearing
  <2>4. (\E n \in ToSet(chatIn'[m.to]) : n.op = "Joined" /\ n.by = j) <=> joined = 1
    BY <1>1, <2>2
  <2>5. Hearing(j)' = {e \in Doppelgangers :
                           \E n \in ToSet(chatIn'[e]) : n.op = "Joined" /\ n.by = j}
    BY <1>1 DEF Hearing
  <2> HIDE DEF joined, j
  <2> QED
    BY <1>1, <2>1, <2>3, <2>4, <2>5 DEF Hearing
<1>6. Cardinality(Hearing(j)') = Cardinality(Hearing(j)) + joined
  <2>1. IsFiniteSet(Hearing(j)) /\ Cardinality(Hearing(j)) \in Nat
    BY <1>3 DEF DueTyped
  <2>2. joined \in {0, 1}
    OBVIOUS
  <2> HIDE DEF j, joined
  <2>3. CASE joined = 1
    BY <1>5, <2>1, <2>3, FS_AddElement
  <2>4. CASE joined = 0
    BY <1>5, <2>1, <2>4
  <2> QED
    BY <2>2, <2>3, <2>4
<1>7. Holders(c)' = Holders(c)
  BY <1>1 DEF Holders
<1>8. Unclaimed(c)' \in SUBSET Unclaimed(c)
  <2> SUFFICES ASSUME NEW d \in memberList'[j], d \in Unclaimed(c)'
               PROVE  d \in Unclaimed(c)
    BY <1>2 DEF Unclaimed
  <2>1. /\ d \in Doppelgangers /\ d \notin Holders(c)' /\ d \notin Hearing(j)'
        /\ ~ExitAsked(c, d)' /\ ~ExitTaken(j, d)'
    <3>1. d \in Doppelgangers
      BY <1>2, TypeInvParts DEF ChatTypeOK
    <3>2. d \notin Holders(c)' /\ ~ExitAsked(c, d)'
      BY DEF Unclaimed
    <3>3. d \notin Hearing(j)'
      BY <1>2, Zenon DEF Unclaimed, Hearing
    <3>4. ~ExitTaken(j, d)'
      BY <1>2 DEF Unclaimed, ExitTaken
    <3> QED
      BY <3>1, <3>2, <3>3, <3>4
  <2>2. d \notin Hearing(j)
    BY <1>5, <2>1
  <2>3. d \in memberList[j] /\ ~ExitTaken(j, d)
    <3>1. CASE j = i
      <4>1. ~(m.op = "Joined" /\ d = m.to)
        BY <1>5, <2>1, <3>1
      <4>2. d \in memberList'[i] /\ ~ExitTaken(i, d)'
        BY <1>2, <2>1, <3>1 DEF ExitTaken
      <4>3. d \in memberList[i] /\ ~ExitTaken(i, d)
        BY <4>1, <4>2, DeliversRoster
      <4> QED
        BY <3>1, <4>3
    <3>2. CASE j # i
      BY <1>1, <1>2, <2>1, <3>2 DEF ExitTaken
    <3> QED
      BY <3>1, <3>2
  <2>4. ~ExitAsked(c, d)
    BY <1>1, <2>1 DEF ExitAsked
  <2> QED
    BY <1>7, <2>1, <2>2, <2>3, <2>4 DEF Unclaimed
<1>9. joined \in Nat
  OBVIOUS
<1> HIDE DEF joined
<1>10. JoinsUnderWay(c)' + joined = JoinsUnderWay(c)
  <2>1. JoinsUnderWay(c)' = HowMany(masterTodo, SendsTo(c, "Join"))
          + HowMany(inbox[j], Posts("Join")) + HowMany(todo'[j], Verdicts)
          + HowMany(denialQ, DenialsBy(c))
    BY <1>1 DEF JoinsUnderWay
  <2>2. JoinsUnderWay(c) = HowMany(masterTodo, SendsTo(c, "Join"))
          + HowMany(inbox[j], Posts("Join")) + HowMany(todo[j], Verdicts)
          + HowMany(denialQ, DenialsBy(c))
    BY DEF JoinsUnderWay
  <2>3. /\ HowMany(masterTodo, SendsTo(c, "Join")) \in Nat
        /\ HowMany(inbox[j], Posts("Join")) \in Nat
        /\ HowMany(denialQ, DenialsBy(c)) \in Nat
    BY <1>3 DEF DueTyped
  <2>4. HowMany(todo'[j], Verdicts) \in Nat
    BY <1>1, <1>3 DEF DueTyped
  <2> HIDE DEF j
  <2> QED
    BY <1>4, <1>9, <2>1, <2>2, <2>3, <2>4
<1>11. ExitsAsked(c)' = ExitsAsked(c)
  BY <1>1 DEF ExitsAsked
<1>12. Claims(c)' <= Claims(c) + joined
  <2>1. Cardinality(Unclaimed(c)') <= Cardinality(Unclaimed(c))
    BY <1>3, <1>8, FS_Subset DEF DueTyped
  <2>2. Claims(c)' = Cardinality(Holders(c)) + Cardinality(Hearing(j)')
                     + Cardinality(Unclaimed(c)')
    BY <1>1, <1>7 DEF Claims, Hearing
  <2>3. /\ Cardinality(Holders(c)) \in Nat /\ Cardinality(Hearing(j)) \in Nat
        /\ Cardinality(Unclaimed(c)) \in Nat /\ Cardinality(Unclaimed(c)') \in Nat
        /\ Claims(c) = Cardinality(Holders(c)) + Cardinality(Hearing(j))
                       + Cardinality(Unclaimed(c))
    BY <1>3 DEF DueTyped, Claims
  <2> HIDE DEF j
  <2> QED
    BY <1>6, <1>9, <2>1, <2>2, <2>3
<1> QED
  BY <1>3, <1>9, <1>10, <1>11, <1>12 DEF DueTyped, Due

LEMMA DeliveryKeepsAccounts ==
    ASSUME TypeInv, TypeInv', EntryInv, RosterInv, RelyInv, CountCoversDue,
           NEW i \in Goroutines, ChatTellsDoppelganger(i)
    PROVE  RosterInv' /\ RelyInv' /\ CountCoversDue'
<1> DEFINE m == Head(todo[i])
<1>1. CASE status[m.to] = "returned"
  <2>1. Panic("chat channel sent on a closed go channel")
    BY <1>1 DEF ChatTellsDoppelganger
  <2> QED
    BY <2>1, ReplyKeepsAccounts DEF Panic, masterVars, chatVars, doppVars
<1>2. CASE status[m.to] # "returned"
  <2>1. Delivers(i, m)
    BY <1>2 DEF ChatTellsDoppelganger, Delivers
  <2>2. UNCHANGED <<running, memberCount, masterTodo>>
    BY <2>1 DEF Delivers, masterVars
  <2> HIDE DEF m
  <2>3. ASSUME NEW c \in Channels, running[c] # NoGoroutine
        PROVE  memberCount[c] >= Due(c)'
    <3>1. Due(c)' <= Due(c) /\ Due(c) \in Nat /\ Due(c)' \in Nat /\ memberCount[c] \in Int
      BY <2>1, <2>2, <2>3, DeliversDue, DueTypes, MailTypes DEF DueTyped
    <3> QED
      BY <2>3, <3>1 DEF CountCoversDue
  <2>4. CountCoversDue'
    BY <2>2, <2>3 DEF CountCoversDue
  <2> QED
    BY <2>1, <2>4, DeliversKeepsRosters, DeliversKeepsRely
<1> QED
  BY <1>1, <1>2

-----------------------------------------------------------------------------
(***************************************************************************)
(* A step of doppelganger d.  Its handler leaves it with chatChannelID id  *)
(* and the master's queue at q; the end of its loop may then reset the ID, *)
(* and ask to exit from the channel it had.                                *)
(***************************************************************************)
LoopEnds(d, id, q) ==
    \E st, last :
        /\ status' = [status EXCEPT ![d] = st]
        /\ chatID' = [chatID EXCEPT ![d] = last]
        /\ \/ masterQ' = q /\ last \in {id, NoChannel}
           \/ /\ masterQ' = Append(q, Request("Exit", d, id))
              /\ id \notin {Joining, NoChannel} /\ last = NoChannel

\* The handler asks the channel master for nothing or for r: an exit from its own channel.
Asks(d, id, q) ==
    \/ q = masterQ
    \/ \E r \in ToMaster :
        /\ r.from = d /\ q = Append(masterQ, r)
        /\ r.op = "Exit" /\ r.chan \in Channels => r.chan = chatID[d] /\ id = NoChannel

\* It stays on its channel, or joins the one it hears it is on.
Onto(d, id) ==
    id \in Channels =>
        \/ id = chatID[d] /\ callback'[d] = callback[d]
        \/ /\ running[id] = callback'[d] /\ running[id] # NoGoroutine
           /\ chatIn[d] # <<>> /\ d \in Hearing(running[id])
           /\ chatIn'[d] = Tail(chatIn[d])

DoppMoves(d, id, q) ==
    /\ status[d] # "returned"
    /\ id \in Channels \cup {NoChannel, Joining}
    /\ LoopEnds(d, id, q) /\ Asks(d, id, q) /\ Onto(d, id)
    /\ chatIn'[d] = chatIn[d] \/ (chatIn[d] # <<>> /\ chatIn'[d] = Tail(chatIn[d]))
    /\ \A e \in Doppelgangers \ {d} :
        callback'[e] = callback[e] /\ chatIn'[e] = chatIn[e]
    /\ UNCHANGED <<restOfMaster, restOfChat>>

LEMMA EndOfLoopEnds ==
    ASSUME NEW d, NEW g, NEW id, NEW ce, NEW q, NEW prompt,
           EndOfLoop(d, g, id, ce, q, prompt)
    PROVE  LoopEnds(d, id, q)
<1>1. ASSUME NEW st, NEW lost, NEW last, NEW waits, NEW n, NEW asked,
             Settles(d, st, lost, last, waits, n, asked),
             \/ asked = q /\ last \in {id, NoChannel}
             \/ /\ asked = Append(q, Request("Exit", d, id))
                /\ id \notin {Joining, NoChannel} /\ last = NoChannel
      PROVE  LoopEnds(d, id, q)
  BY <1>1 DEF LoopEnds, Settles
<1>2. CASE StaysWithUser(d, id, ce, q, prompt)
  BY <1>1, <1>2 DEF StaysWithUser
<1>3. CASE WaitsForExit(d, id, q)
  BY <1>1, <1>3 DEF WaitsForExit
<1>4. CASE id # NoChannel /\ LeavesChannel(d, id, q)
  <2>1. CASE id = Joining
    <3>1. Settles(d, "selecting", TRUE, NoChannel, TRUE, cantExitCount[d], q)
      BY <1>4, <2>1 DEF LeavesChannel
    <3> QED
      BY <1>1, <3>1
  <2>2. CASE id # Joining
    <3>1. Settles(d, "selecting", TRUE, NoChannel, TRUE, cantExitCount[d],
                  Append(q, Request("Exit", d, id)))
      BY <1>4, <2>2 DEF LeavesChannel
    <3> QED
      BY <1>1, <1>4, <2>2, <3>1
  <2> QED
    BY <2>1, <2>2
<1>5. CASE Returns(d, q)
  BY <1>1, <1>5 DEF Returns
<1> QED
  BY <1>2, <1>3, <1>4, <1>5 DEF EndOfLoop

LEMMA MovesParts ==
    ASSUME TypeInv, RosterInv, NEW d \in Doppelgangers, NEW id, NEW q, DoppMoves(d, id, q)
    PROVE  /\ UNCHANGED <<denialQ, memberCount, running, masterTodo, chatState, inbox,
                          memberList, todo>>
           /\ \A e \in Doppelgangers \ {d} :
                /\ status'[e] = status[e] /\ chatID'[e] = chatID[e]
                /\ callback'[e] = callback[e] /\ chatIn'[e] = chatIn[e]
           /\ chatIn'[d] = chatIn[d] \/ chatIn'[d] = <<>>
           /\ chatID'[d] \in {id, NoChannel}
<1>1. UNCHANGED <<denialQ, memberCount, running, masterTodo, chatState, inbox,
                  memberList, todo>>
  BY DEF DoppMoves, restOfMaster, restOfChat
<1>2. chatIn'[d] = chatIn[d] \/ chatIn'[d] = <<>>
  <2>1. chatIn[d] \in Seq(ToDoppelganger) /\ Len(chatIn[d]) <= 1
    BY MailTypes DEF RosterInv, OneMessageOfBuffer
  <2>2. chatIn[d] # <<>> => Tail(chatIn[d]) = <<>>
    BY <2>1, TailOfOne
  <2> QED
    BY <2>2 DEF DoppMoves
<1>3. PICK st, last :
        /\ status' = [status EXCEPT ![d] = st]
        /\ chatID' = [chatID EXCEPT ![d] = last]
        /\ last \in {id, NoChannel}
  BY DEF DoppMoves, LoopEnds
<1> QED
  BY <1>1, <1>2, <1>3, MailTypes DEF DoppMoves

\* What the master's queue has more of afterwards.
LEMMA MovesQueue ==
    ASSUME TypeInv, NEW d \in Doppelgangers, NEW id, NEW q, DoppMoves(d, id, q)
    PROVE  /\ q \in Seq(ToMaster)
           /\ ToSet(masterQ) \subseteq ToSet(masterQ')
           /\ \A m \in ToSet(masterQ') \ ToSet(masterQ) : m.from = d
           /\ \A m \in ToSet(masterQ') \ ToSet(masterQ) :
                m.op = "Exit" /\ m.chan \in Channels => m.chan \in {id, chatID[d]}
           /\ masterQ' = q \/ (/\ id \in Channels /\ chatID'[d] = NoChannel
                               /\ Request("Exit", d, id) \in ToMaster
                               /\ masterQ' = Append(q, Request("Exit", d, id)))
<1>1. masterQ \in Seq(ToMaster)
  BY MailTypes
<1>2. /\ q \in Seq(ToMaster) /\ ToSet(masterQ) \subseteq ToSet(q)
      /\ \A m \in ToSet(q) \ ToSet(masterQ) :
            m.from = d /\ (m.op = "Exit" /\ m.chan \in Channels => m.chan = chatID[d])
  <2>1. CASE q = masterQ
    BY <1>1, <2>1
  <2>2. ASSUME NEW r \in ToMaster, r.from = d, q = Append(masterQ, r),
               r.op = "Exit" /\ r.chan \in Channels => r.chan = chatID[d]
        PROVE  /\ q \in Seq(ToMaster) /\ ToSet(masterQ) \subseteq ToSet(q)
               /\ \A m \in ToSet(q) \ ToSet(masterQ) :
                    m.from = d /\ (m.op = "Exit" /\ m.chan \in Channels => m.chan = chatID[d])
    <3>1. q \in Seq(ToMaster)
      BY <1>1, <2>2, AppendProperties
    <3>2. ToSet(q) = ToSet(masterQ) \cup {r}
      BY <1>1, <2>2, ToSetOfAppend
    <3> QED
      BY <2>2, <3>1, <3>2
  <2> QED
    BY <2>1, <2>2 DEF DoppMoves, Asks
<1>3. \/ masterQ' = q
      \/ /\ masterQ' = Append(q, Request("Exit", d, id))
         /\ id \in Channels /\ chatID'[d] = NoChannel
  BY MailTypes DEF DoppMoves, LoopEnds
<1>4. CASE masterQ' = q
  BY <1>2, <1>4
<1>5. CASE masterQ' = Append(q, Request("Exit", d, id)) /\ id \in Channels
           /\ chatID'[d] = NoChannel
  <2> DEFINE r == Request("Exit", d, id)
  <2>1. r \in ToMaster /\ r.from = d /\ r.chan = id
    BY <1>5 DEF Request, ToMaster
  <2> HIDE DEF r
  <2>2. ToSet(masterQ') = ToSet(q) \cup {r}
    BY <1>2, <1>5, <2>1, ToSetOfAppend DEF r
  <2> QED
    BY <1>2, <1>5, <2>1, <2>2 DEF r
<1> QED
  BY <1>3, <1>4, <1>5

LEMMA MovesKeepsRosters ==
    ASSUME TypeInv, RosterInv, NEW d \in Doppelgangers, NEW id, NEW q, DoppMoves(d, id, q)
    PROVE  RosterInv'
<1>1. /\ UNCHANGED <<chatState, inbox, memberList, todo>>
      /\ chatIn'[d] = chatIn[d] \/ chatIn'[d] = <<>>
      /\ \A e \in Doppelgangers \ {d} : chatIn'[e] = chatIn[e]
  BY MovesParts
<1>2. OneMessageOfBuffer'
  BY <1>1 DEF RosterInv, OneMessageOfBuffer
<1> QED
  BY <1>1, <1>2 DEF RosterInv, OneLeaverAtATime, ShutdownIsLast, ShutdownFindsEmptyRoster,
                    ExitTaken

LEMMA MovesKeepsRely ==
    ASSUME TypeInv, RosterInv, RelyInv, NEW d \in Doppelgangers, NEW id, NEW q,
           DoppMoves(d, id, q)
    PROVE  RelyInv'
<1>1. /\ UNCHANGED <<denialQ, running, todo>>
      /\ chatIn'[d] = chatIn[d] \/ chatIn'[d] = <<>>
      /\ chatID'[d] \in {id, NoChannel}
      /\ \A e \in Doppelgangers \ {d} :
            /\ status'[e] = status[e] /\ chatID'[e] = chatID[e]
            /\ callback'[e] = callback[e] /\ chatIn'[e] = chatIn[e]
  BY MovesParts
<1>2. id \in Channels => running[id] # NoGoroutine /\ running[id] = callback'[d]
  BY DEF DoppMoves, Onto, RelyInv, HoldersKeepTheirChannel
<1>3. NoChannel \notin Channels
  BY IdsAssumption DEF IdsAssumption
<1>4. \A m \in ToSet(masterQ') :
          m.op = "Exit" /\ m.chan \in Channels => running[m.chan] # NoGoroutine
  <2>1. chatID[d] \in Channels => running[chatID[d]] # NoGoroutine
    BY DEF DoppMoves, RelyInv, HoldersKeepTheirChannel
  <2> QED
    BY <1>2, <2>1, MovesQueue DEF RelyInv, HoldersKeepTheirChannel
<1>5. HoldersKeepTheirChannel'
  BY <1>1, <1>2, <1>3, <1>4 DEF RelyInv, HoldersKeepTheirChannel
<1>6. VerdictsStand'
  BY <1>1, ToSetOfEmpty DEF RelyInv, VerdictsStand, InCharge
<1> QED
  BY <1>5, <1>6 DEF RelyInv

LEMMA OneMore ==
    ASSUME NEW s \in Seq(ToMaster), NEW m \in ToMaster, NEW M
    PROVE  /\ HowMany(s, M) \in Nat /\ HowMany(Append(s, m), M) \in Nat
           /\ m \in M => HowMany(Append(s, m), M) = HowMany(s, M) + 1
           /\ m \notin M => HowMany(Append(s, m), M) = HowMany(s, M)
<1>1. HowMany(Append(s, m), M) = HowMany(s, M) + IF m \in M THEN 1 ELSE 0
  BY HowManyOfAppend
<1>2. HowMany(s, M) \in Nat
  BY HowManyType
<1> QED
  BY <1>1, <1>2

(***************************************************************************)
(* An exit from c that d has asked for stands for d's having been on c, or *)
(* for its having just heard that it is.                                   *)
(***************************************************************************)
LEMMA MovesExits ==
    ASSUME TypeInv, TypeInv', NEW d \in Doppelgangers, NEW id, NEW q,
           DoppMoves(d, id, q), NEW c \in Channels
    PROVE  /\ HowMany(masterQ', ExitRequests(c)) + (IF chatID'[d] = c THEN 1 ELSE 0)
              <= HowMany(masterQ, ExitRequests(c))
                 + (IF chatID[d] = c \/ id = c THEN 1 ELSE 0)
           /\ \/ HowMany(masterQ', ExitRequests(c)) = HowMany(masterQ, ExitRequests(c))
              \/ ExitAsked(c, d)'
<1> DEFINE E(s) == HowMany(s, ExitRequests(c))
           h == IF chatID[d] = c THEN 1 ELSE 0
           k == IF id = c THEN 1 ELSE 0
           hAfter == IF chatID'[d] = c THEN 1 ELSE 0
           w == IF chatID[d] = c \/ id = c THEN 1 ELSE 0
<1>1. NoChannel # c /\ masterQ \in Seq(ToMaster) /\ q \in Seq(ToMaster)
  BY MailTypes, MovesQueue, IdsAssumption DEF IdsAssumption
<1>2. E(masterQ) \in Nat /\ E(q) \in Nat
  BY <1>1, HowManyType
<1>3. /\ E(q) + k <= E(masterQ) + w
      /\ \/ E(q) = E(masterQ)
         \/ \E m \in ToSet(q) : m.op = "Exit" /\ m.chan = c /\ m.from = d
  <2>1. CASE q = masterQ
    BY <1>2, <2>1
  <2>2. ASSUME NEW r \in ToMaster, r.from = d, q = Append(masterQ, r),
               r.op = "Exit" /\ r.chan \in Channels => r.chan = chatID[d] /\ id = NoChannel
        PROVE  /\ E(q) + k <= E(masterQ) + w
               /\ \/ E(q) = E(masterQ)
                  \/ \E m \in ToSet(q) : m.op = "Exit" /\ m.chan = c /\ m.from = d
    <3>1. CASE r \in ExitRequests(c)
      <4>1. r.op = "Exit" /\ r.chan = c
        BY <3>1 DEF ExitRequests
      <4>2. k = 0 /\ w = 1
        BY <1>1, <2>2, <4>1
      <4>3. E(q) = E(masterQ) + 1
        BY <1>1, <2>2, <3>1, OneMore
      <4>4. r \in ToSet(q)
        BY <1>1, <2>2, ToSetOfAppend
      <4> QED
        BY <1>2, <2>2, <4>1, <4>2, <4>3, <4>4
    <3>2. CASE r \notin ExitRequests(c)
      <4>1. E(q) = E(masterQ)
        BY <1>1, <2>2, <3>2, OneMore
      <4> QED
        BY <1>2, <4>1
    <3> QED
      BY <3>1, <3>2
  <2> QED
    BY <2>1, <2>2 DEF DoppMoves, Asks
<1>4. /\ E(masterQ') + hAfter <= E(q) + k
      /\ \/ E(masterQ') = E(q)
         \/ \E m \in ToSet(masterQ') : m.op = "Exit" /\ m.chan = c /\ m.from = d
  <2>1. CASE masterQ' = q
    <3>1. chatID'[d] = c => id = c
      BY <1>1, MailTypes DEF DoppMoves, LoopEnds
    <3>2. hAfter <= k /\ hAfter \in Nat /\ k \in Nat
      BY <3>1
    <3> HIDE DEF hAfter, k
    <3> QED
      BY <1>2, <2>1, <3>2
  <2>2. CASE /\ id \in Channels /\ chatID'[d] = NoChannel
             /\ Request("Exit", d, id) \in ToMaster
             /\ masterQ' = Append(q, Request("Exit", d, id))
    <3> DEFINE r == Request("Exit", d, id)
    <3>1. r \in ToMaster /\ r.op = "Exit" /\ r.chan = id /\ r.from = d
      BY <2>2 DEF Request
    <3>2. hAfter = 0
      BY <1>1, <2>2
    <3>3. r \in ExitRequests(c) <=> id = c
      BY <3>1 DEF Request, ExitRequests
    <3>4. masterQ' = Append(q, r)
      BY <2>2
    <3> HIDE DEF r
    <3>5. CASE id = c
      <4>1. E(masterQ') = E(q) + 1
        BY <1>1, <3>1, <3>3, <3>4, <3>5, OneMore
      <4>2. r \in ToSet(masterQ')
        BY <1>1, <3>1, <3>4, ToSetOfAppend
      <4> QED
        BY <1>2, <3>1, <3>2, <3>5, <4>1, <4>2
    <3>6. CASE id # c
      <4>1. E(masterQ') = E(q)
        BY <1>1, <3>1, <3>3, <3>4, <3>6, OneMore
      <4> QED
        BY <1>2, <3>2, <4>1
    <3> QED
      BY <3>5, <3>6
  <2> QED
    BY <2>1, <2>2, MovesQueue
<1>5. ToSet(q) \subseteq ToSet(masterQ')
  <2>1. CASE masterQ' = q
    BY <2>1
  <2>2. CASE /\ Request("Exit", d, id) \in ToMaster
             /\ masterQ' = Append(q, Request("Exit", d, id))
    BY <1>1, <2>2, ToSetOfAppend
  <2> QED
    BY <2>1, <2>2, MovesQueue
<1>6. E(masterQ') = E(masterQ) \/ ExitAsked(c, d)'
  BY <1>3, <1>4, <1>5 DEF ExitAsked
<1>7. E(masterQ') \in Nat /\ hAfter \in Nat /\ k \in Nat /\ w \in Nat
  <2>1. masterQ' \in Seq(ToMaster)
    BY TypeInvParts DEF LoopInv, LoopTypeOK
  <2> QED
    BY <2>1, HowManyType
<1> HIDE DEF E, hAfter, k, w
<1>8. E(masterQ') + hAfter <= E(masterQ) + w
  BY <1>2, <1>3, <1>4, <1>7
<1> QED
  BY <1>6, <1>8 DEF E, hAfter, w

LEMMA MovesDue ==
    ASSUME TypeInv, TypeInv', RosterInv, NEW d \in Doppelgangers, NEW id, NEW q,
           DoppMoves(d, id, q), NEW c \in Channels, running[c] # NoGoroutine
    PROVE  Due(c)' <= Due(c)
<1> DEFINE j == running[c]
           Has(S) == IF d \in S THEN 1 ELSE 0
           e == HowMany(masterQ, ExitRequests(c))
           eAfter == HowMany(masterQ', ExitRequests(c))
           hold == Has(Holders(c))
           hear == Has(Hearing(j))
           left == Has(Unclaimed(c))
           holdAfter == Has(Holders(c)')
           hearAfter == Has(Hearing(j)')
           leftAfter == Has(Unclaimed(c)')
<1>1. /\ UNCHANGED <<denialQ, running, masterTodo, inbox, memberList, todo>>
      /\ \A x \in Doppelgangers \ {d} :
            status'[x] = status[x] /\ chatID'[x] = chatID[x] /\ chatIn'[x] = chatIn[x]
      /\ chatIn'[d] = chatIn[d] \/ chatIn'[d] = <<>>
      /\ status[d] # "returned"
      /\ memberList[j] \in SUBSET Doppelgangers
  BY MovesParts, MailTypes, TypeInvFacts DEF DoppMoves
<1>2. DueTyped(c) /\ DueTyped(c)'
  BY <1>1, DueTypes
<1>3. ToSet(masterQ) \subseteq ToSet(masterQ')
      /\ \A m \in ToSet(masterQ') \ ToSet(masterQ) : m.from = d
  BY MovesQueue
<1>4. /\ Holders(c)' \ {d} = Holders(c) \ {d}
      /\ Hearing(j)' \ {d} = Hearing(j) \ {d}
      /\ Unclaimed(c)' \ {d} = Unclaimed(c) \ {d}
  <2>1. Holders(c)' \ {d} = Holders(c) \ {d}
    BY <1>1 DEF Holders
  <2>2. Hearing(j)' \ {d} = Hearing(j) \ {d}
    BY <1>1 DEF Hearing
  <2>3. \A x \in Doppelgangers \ {d} : ExitAsked(c, x)' <=> ExitAsked(c, x)
    BY <1>1, <1>3 DEF ExitAsked
  <2>4. Unclaimed(c)' \ {d} = Unclaimed(c) \ {d}
    BY <1>1, <2>1, <2>2, <2>3 DEF Unclaimed, ExitTaken
  <2> QED
    BY <2>1, <2>2, <2>4
<1>5. /\ eAfter + holdAfter + hearAfter <= e + hold + hear
      /\ eAfter = e \/ ExitAsked(c, d)'
  <2> DEFINE w == IF chatID[d] = c \/ id = c THEN 1 ELSE 0
  <2>1. /\ eAfter + (IF chatID'[d] = c THEN 1 ELSE 0) <= e + w
        /\ eAfter = e \/ ExitAsked(c, d)'
    BY MovesExits
  <2>2. holdAfter <= IF chatID'[d] = c THEN 1 ELSE 0
    BY DEF Holders
  <2>3. hold = IF chatID[d] = c THEN 1 ELSE 0
    BY <1>1 DEF Holders
  <2>4. hearAfter <= hear /\ (chatIn'[d] = <<>> => hearAfter = 0)
    BY <1>1, ToSetOfEmpty DEF Hearing
  <2>5. id = c /\ chatID[d] # c => hear = 1 /\ hearAfter = 0
    <3> SUFFICES ASSUME id = c, chatID[d] # c
                 PROVE  hear = 1 /\ hearAfter = 0
      OBVIOUS
    <3>1. chatIn[d] # <<>> /\ d \in Hearing(j) /\ chatIn'[d] = Tail(chatIn[d])
      BY DEF DoppMoves, Onto
    <3>2. chatIn[d] \in Seq(ToDoppelganger) /\ Len(chatIn[d]) <= 1
      BY MailTypes DEF RosterInv, OneMessageOfBuffer
    <3>3. chatIn'[d] = <<>>
      BY <3>1, <3>2, TailOfOne
    <3> QED
      BY <2>4, <3>1, <3>3
  <2>6. w + hearAfter <= hold + hear
    <3>1. CASE id = c /\ chatID[d] # c
      BY <2>3, <2>5, <3>1
    <3>2. CASE ~(id = c /\ chatID[d] # c)
      BY <2>3, <2>4, <3>2
    <3> QED
      BY <3>1, <3>2
  <2>7. e \in Nat /\ eAfter \in Nat /\ w \in Nat /\ hold \in Nat /\ hear \in Nat
        /\ holdAfter \in Nat /\ hearAfter \in Nat
    BY <1>2 DEF DueTyped
  <2> DEFINE holds == IF chatID'[d] = c THEN 1 ELSE 0
  <2>8. holds \in Nat /\ holdAfter <= holds /\ eAfter + holds <= e + w
    BY <2>1, <2>2
  <2>9. eAfter = e \/ ExitAsked(c, d)'
    BY <2>1
  <2> HIDE DEF w, e, eAfter, hold, hear, holdAfter, hearAfter, holds
  <2>10. eAfter + holdAfter + hearAfter <= e + hold + hear
    BY <2>6, <2>7, <2>8
  <2> QED
    BY <2>9, <2>10
<1>6. eAfter + holdAfter + hearAfter + leftAfter <= e + hold + hear + left
  <2>0. e \in Nat /\ eAfter \in Nat
    BY <1>2 DEF DueTyped
  <2>1. CASE d \notin Unclaimed(c)' \/ d \in Unclaimed(c)
    <3>1. leftAfter <= left /\ left \in Nat /\ leftAfter \in Nat /\ hold \in Nat
          /\ hear \in Nat /\ holdAfter \in Nat /\ hearAfter \in Nat
      BY <2>1
    <3> HIDE DEF e, eAfter, hold, hear, left, holdAfter, hearAfter, leftAfter
    <3> QED
      BY <1>5, <2>0, <3>1
  <2>2. CASE d \in Unclaimed(c)' /\ d \notin Unclaimed(c)
    <3>1. /\ d \notin Holders(c)' /\ d \notin Hearing(j)'
          /\ ~ExitAsked(c, d)' /\ ~ExitTaken(j, d) /\ d \in memberList[j]
      <4>1. d \in memberList[j] /\ d \notin Holders(c)' /\ ~ExitAsked(c, d)'
        BY <1>1, <2>2 DEF Unclaimed
      <4>2. d \notin Hearing(j)'
        BY <1>1, <2>2, Zenon DEF Unclaimed, Hearing
      <4>3. ~ExitTaken(j, d)
        BY <1>1, <2>2 DEF Unclaimed, ExitTaken
      <4> QED
        BY <4>1, <4>2, <4>3
    <3>2. ~ExitAsked(c, d)
      BY <1>1, <1>3, <3>1 DEF ExitAsked
    <3>3. d \in Holders(c) \/ d \in Hearing(j)
      BY <2>2, <3>1, <3>2 DEF Unclaimed
    <3>4. eAfter = e /\ holdAfter = 0 /\ hearAfter = 0 /\ leftAfter = 1 /\ left = 0
          /\ hold + hear >= 1 /\ hold \in Nat /\ hear \in Nat
      BY <1>5, <2>2, <3>1, <3>3
    <3> HIDE DEF e, eAfter, hold, hear, left, holdAfter, hearAfter, leftAfter
    <3> QED
      BY <2>0, <3>4
  <2> QED
    BY <2>1, <2>2
<1>7. /\ Cardinality(Holders(c)) = Cardinality(Holders(c) \ {d}) + hold
      /\ Cardinality(Hearing(j)) = Cardinality(Hearing(j) \ {d}) + hear
      /\ Cardinality(Unclaimed(c)) = Cardinality(Unclaimed(c) \ {d}) + left
      /\ Cardinality(Holders(c) \ {d}) \in Nat /\ Cardinality(Hearing(j) \ {d}) \in Nat
      /\ Cardinality(Unclaimed(c) \ {d}) \in Nat
  <2>1. IsFiniteSet(Holders(c)) /\ IsFiniteSet(Hearing(j)) /\ IsFiniteSet(Unclaimed(c))
    BY <1>2 DEF DueTyped
  <2> HIDE DEF j
  <2> QED
    BY <2>1, CountWithout
<1>8. /\ Cardinality(Holders(c)') = Cardinality(Holders(c) \ {d}) + holdAfter
      /\ Cardinality(Hearing(j)') = Cardinality(Hearing(j) \ {d}) + hearAfter
      /\ Cardinality(Unclaimed(c)') = Cardinality(Unclaimed(c) \ {d}) + leftAfter
  <2> DEFINE H == Holders(c)'
             G == Hearing(j)'
             U == Unclaimed(c)'
  <2>1. IsFiniteSet(H) /\ IsFiniteSet(G) /\ IsFiniteSet(U)
    <3>1. Hearing(j)' = Hearing(running[c])'
      BY <1>1 DEF Hearing
    <3> QED
      BY <1>2, <3>1 DEF DueTyped
  <2>2. /\ H \ {d} = Holders(c) \ {d} /\ G \ {d} = Hearing(j) \ {d}
        /\ U \ {d} = Unclaimed(c) \ {d}
    BY <1>4
  <2> HIDE DEF H, G, U
  <2>3. /\ Cardinality(H) = Cardinality(H \ {d}) + Has(H)
        /\ Cardinality(G) = Cardinality(G \ {d}) + Has(G)
        /\ Cardinality(U) = Cardinality(U \ {d}) + Has(U)
    BY <2>1, CountWithout
  <2> QED
    BY <2>2, <2>3 DEF H, G, U
<1> DEFINE a == Cardinality(Holders(c) \ {d})
           g == Cardinality(Hearing(j) \ {d})
           u == Cardinality(Unclaimed(c) \ {d})
           n == HowMany(masterTodo, SendsTo(c, "Exit"))
<1>9. /\ a \in Nat /\ g \in Nat /\ u \in Nat /\ n \in Nat /\ e \in Nat /\ eAfter \in Nat
      /\ hold \in Nat /\ hear \in Nat /\ left \in Nat
      /\ holdAfter \in Nat /\ hearAfter \in Nat /\ leftAfter \in Nat
  BY <1>2, <1>7 DEF DueTyped
<1>10. JoinsUnderWay(c)' = JoinsUnderWay(c)
  BY <1>1 DEF JoinsUnderWay
<1>11. ExitsAsked(c) = e + n /\ ExitsAsked(c)' = eAfter + n
  BY <1>1 DEF ExitsAsked
<1>12. Claims(c) = (a + hold) + (g + hear) + (u + left)
  BY <1>7 DEF Claims
<1>13. Claims(c)' = (a + holdAfter) + (g + hearAfter) + (u + leftAfter)
  <2>1. Claims(c)' = Cardinality(Holders(c)') + Cardinality(Hearing(j)') + Cardinality(Unclaimed(c)')
    BY <1>1 DEF Claims, Hearing
  <2> QED
    BY <1>8, <2>1
<1> HIDE DEF e, eAfter, hold, hear, left, holdAfter, hearAfter, leftAfter, a, g, u, n
<1>14. ExitsAsked(c)' + Claims(c)' <= ExitsAsked(c) + Claims(c)
  BY <1>6, <1>9, <1>11, <1>12, <1>13
<1>15. /\ JoinsUnderWay(c) \in Nat
       /\ ExitsAsked(c) \in Nat /\ ExitsAsked(c)' \in Nat
       /\ Claims(c) \in Nat /\ Claims(c)' \in Nat
  BY <1>9, <1>11, <1>12, <1>13, <1>2 DEF DueTyped
<1>16. Due(c) = JoinsUnderWay(c) + ExitsAsked(c) + Claims(c)
       /\ Due(c)' = JoinsUnderWay(c)' + ExitsAsked(c)' + Claims(c)'
  BY DEF Due
<1> QED
  BY <1>10, <1>14, <1>15, <1>16

LEMMA MovesKeepsAccounts ==
    ASSUME TypeInv, TypeInv', RosterInv, RelyInv, CountCoversDue,
           NEW d \in Doppelgangers, NEW id, NEW q, DoppMoves(d, id, q)
    PROVE  RosterInv' /\ RelyInv' /\ CountCoversDue'
<1>1. UNCHANGED <<running, memberCount, masterTodo>>
  BY MovesParts
<1>2. ASSUME NEW c \in Channels, running[c] # NoGoroutine
      PROVE  memberCount[c] >= Due(c)'
  <2>1. Due(c)' <= Due(c)
    BY <1>2, MovesDue
  <2>2. Due(c) \in Nat /\ Due(c)' \in Nat /\ memberCount[c] \in Int
    BY <1>1, <1>2, DueTypes, MailTypes DEF DueTyped
  <2> QED
    BY <1>2, <2>1, <2>2 DEF CountCoversDue
<1>3. CountCoversDue'
  BY <1>1, <1>2 DEF CountCoversDue
<1> QED
  BY <1>3, MovesKeepsRosters, MovesKeepsRely

-----------------------------------------------------------------------------
(***************************************************************************)
(* What the handlers of a doppelganger have in common.                     *)
(***************************************************************************)
TakesOrLeaves(d) ==
    \/ UNCHANGED chatIn
    \/ chatIn[d] # <<>> /\ chatIn' = [chatIn EXCEPT ![d] = Tail(@)]

LEMMA TakesOrLeavesParts ==
    ASSUME TypeInv, NEW d \in Doppelgangers, TakesOrLeaves(d)
    PROVE  /\ chatIn'[d] = chatIn[d] \/ (chatIn[d] # <<>> /\ chatIn'[d] = Tail(chatIn[d]))
           /\ \A e \in Doppelgangers \ {d} : chatIn'[e] = chatIn[e]
<1>1. chatIn \in [Doppelgangers -> Seq(ToDoppelganger)]
  BY MailTypes
<1> QED
  BY <1>1 DEF TakesOrLeaves

\* A handler that does not tell the doppelganger of a channel it has joined.
LEMMA HandlerMoves ==
    ASSUME TypeInv, NEW d \in Doppelgangers, NEW id, NEW q,
           id \in {chatID[d], NoChannel, Joining}, status[d] # "returned",
           LoopEnds(d, id, q), Asks(d, id, q), TakesOrLeaves(d),
           UNCHANGED <<callback, restOfMaster, restOfChat>>
    PROVE  DoppMoves(d, id, q)
<1>1. id \in Channels \cup {NoChannel, Joining}
  BY MailTypes
<1>2. Onto(d, id)
  BY IdsAssumption DEF IdsAssumption, Onto
<1> QED
  BY <1>1, <1>2, TakesOrLeavesParts DEF DoppMoves

LEMMA WriteMoves ==
    ASSUME TypeInv, NEW d \in Doppelgangers, NEW g, NEW prompt, OnlyWrites(d, g, prompt),
           status[d] # "returned", TakesOrLeaves(d),
           UNCHANGED <<callback, restOfMaster, restOfChat>>
    PROVE  DoppMoves(d, chatID[d], masterQ)
<1>1. LoopEnds(d, chatID[d], masterQ)
  BY EndOfLoopEnds DEF OnlyWrites
<1>2. Asks(d, chatID[d], masterQ)
  BY DEF Asks
<1> QED
  BY <1>1, <1>2, HandlerMoves

LEMMA RequestMoves ==
    ASSUME TypeInv, NEW d \in Doppelgangers, NEW g, NEW id, NEW ce, NEW prompt, NEW r,
           r \in ToMaster, r.from = d,
           r.op = "Exit" /\ r.chan \in Channels => r.chan = chatID[d] /\ id = NoChannel,
           EndOfLoop(d, g, id, ce, Append(masterQ, r), prompt),
           id \in {chatID[d], NoChannel, Joining}, status[d] # "returned",
           UNCHANGED <<callback, chatIn, restOfMaster, restOfChat>>
    PROVE  DoppMoves(d, id, Append(masterQ, r))
<1>1. LoopEnds(d, id, Append(masterQ, r))
  BY EndOfLoopEnds
<1>2. Asks(d, id, Append(masterQ, r))
  BY DEF Asks
<1>3. TakesOrLeaves(d)
  BY DEF TakesOrLeaves
<1> QED
  BY <1>1, <1>2, <1>3, HandlerMoves

LEMMA DoppStepKeepsAccounts ==
    ASSUME TypeInv, TypeInv', EntryInv, RosterInv, RelyInv, CountCoversDue,
           NEW d \in Doppelgangers, DoppStep(d)
    PROVE  RosterInv' /\ RelyInv' /\ CountCoversDue'
<1> SUFFICES \/ \E id, q : DoppMoves(d, id, q)
             \/ UNCHANGED <<masterQ, denialQ, memberCount, running, masterTodo, chatState,
                            inbox, memberList, todo, status, chatID, callback, chatIn>>
  BY MovesKeepsAccounts, ReplyKeepsAccounts
<1>1. CASE DoppEchoFails(d)
  <2>1. status[d] # "returned" /\ OnlyWrites(d, TRUE, FALSE) /\ TakesOrLeaves(d)
        /\ UNCHANGED <<callback, restOfMaster, restOfChat>>
    BY <1>1 DEF DoppEchoFails, TakesOrLeaves, chatVars, restOfChat
  <2> QED
    BY <2>1, WriteMoves
<1>2. ASSUME TakeLine(d)
      PROVE  TakesOrLeaves(d) /\ UNCHANGED <<callback, chatIn, restOfMaster, restOfChat>>
  BY <1>2 DEF TakeLine, TakesOrLeaves
<1>3. CASE DoppJoin(d)
  <2>1. TakeLine(d) /\ status[d] # "returned" /\ line[d] # <<>> /\ Head(line[d]).cmd = "join"
    BY <1>3 DEF DoppJoin, HasLine
  <2>2. CASE \E fails \in WriteFails(d) : OnlyWrites(d, gone[d] \/ fails, TRUE)
    BY <1>2, <2>1, <2>2, WriteMoves
  <2>3. CASE EndOfLoop(d, gone[d], Joining, cantExit[d],
                       Append(masterQ, Request("Join", d, Head(line[d]).chan)), FALSE)
    <3> DEFINE r == Request("Join", d, Head(line[d]).chan)
    <3>1. r \in ToMaster /\ r.from = d /\ r.op = "Join"
      <4>1. Head(line[d]).chan \in Channels \cup {Nowhere}
        BY <2>1, TypeInvParts DEF TelnetTypeOK, Lines
      <4> QED
        BY <4>1, RequestType DEF Request, ToMaster
    <3> HIDE DEF r
    <3> QED
      BY <1>2, <2>1, <2>3, <3>1, RequestMoves DEF r
  <2> QED
    BY <1>3, <2>2, <2>3 DEF DoppJoin
<1>4. CASE DoppWho(d)
  <2>1. TakeLine(d) /\ status[d] # "returned"
    BY <1>4 DEF DoppWho, HasLine
  <2>2. CASE \E fails \in WriteFails(d) : OnlyWrites(d, gone[d] \/ fails, TRUE)
    BY <1>2, <2>1, <2>2, WriteMoves
  <2>3. CASE /\ chatID[d] # NoChannel
             /\ EndOfLoop(d, gone[d], chatID[d], cantExit[d],
                          Append(masterQ, Request("Who", d, chatID[d])), TRUE)
    <3> DEFINE r == Request("Who", d, chatID[d])
    <3>1. r \in ToMaster /\ r.from = d /\ r.op = "Who"
      BY <2>3, MailTypes DEF Request, ToMaster
    <3> HIDE DEF r
    <3> QED
      BY <1>2, <2>1, <2>3, <3>1, RequestMoves DEF r
  <2> QED
    BY <1>4, <2>2, <2>3 DEF DoppWho
<1>5. CASE DoppExit(d)
  <2>1. TakeLine(d) /\ status[d] # "returned"
    BY <1>5 DEF DoppExit, HasLine
  <2>2. CASE \E fails \in WriteFails(d) : OnlyWrites(d, gone[d] \/ fails, TRUE)
    BY <1>2, <2>1, <2>2, WriteMoves
  <2>3. CASE /\ chatID[d] # NoChannel
             /\ EndOfLoop(d, gone[d], NoChannel, TRUE,
                          Append(masterQ, Request("Exit", d, chatID[d])), TRUE)
    <3> DEFINE r == Request("Exit", d, chatID[d])
    <3>1. r \in ToMaster /\ r.from = d /\ r.op = "Exit" /\ r.chan = chatID[d]
      BY <2>3, MailTypes DEF Request, ToMaster
    <3> HIDE DEF r
    <3> QED
      BY <1>2, <2>1, <2>3, <3>1, RequestMoves DEF r
  <2> QED
    BY <1>5, <2>2, <2>3 DEF DoppExit
<1>6. CASE DoppSay(d)
  <2>1. TakeLine(d) /\ status[d] = "selecting"
    BY <1>6 DEF DoppSay, HasLine
  <2>2. PICK fails \in WriteFails(d) :
          \/ \E g, prompt : OnlyWrites(d, g, prompt)
          \/ UNCHANGED <<masterQ, status, chatID>>
          \/ status' = [status EXCEPT ![d] = "blocked"] /\ UNCHANGED <<masterQ, chatID>>
    BY <1>6 DEF DoppSay
  <2>3. CASE \E g, prompt : OnlyWrites(d, g, prompt)
    BY <1>2, <2>1, <2>3, WriteMoves
  <2>4. CASE UNCHANGED <<masterQ, status, chatID>>
    BY <1>2, <2>1, <2>4 DEF restOfMaster, restOfChat
  <2>5. CASE status' = [status EXCEPT ![d] = "blocked"] /\ UNCHANGED <<masterQ, chatID>>
    <3>1. chatID' = [chatID EXCEPT ![d] = chatID[d]]
      BY <2>5, MailTypes
    <3>2. LoopEnds(d, chatID[d], masterQ)
      BY <2>5, <3>1 DEF LoopEnds
    <3>3. Asks(d, chatID[d], masterQ)
      BY DEF Asks
    <3> QED
      BY <1>2, <2>1, <3>2, <3>3, HandlerMoves
  <2> QED
    BY <2>2, <2>3, <2>4, <2>5
<1>7. CASE DoppUnblocks(d)
  <2>1. CASE Panic("doppelganger sent on a closed go channel")
    BY <2>1 DEF Panic, masterVars, chatVars, doppVars
  <2>2. CASE ~(chatState[callback[d]] = "returned")
    <3>1. status[d] # "returned" /\ OnlyWrites(d, gone[d], FALSE) /\ TakesOrLeaves(d)
          /\ UNCHANGED <<callback, restOfMaster, restOfChat>>
      BY <1>7, <2>2 DEF DoppUnblocks, TakesOrLeaves
    <3> QED
      BY <3>1, WriteMoves
  <2> QED
    BY <1>7, <2>1, <2>2 DEF DoppUnblocks
<1>8. CASE DoppQuit(d)
  <2>1. TakeLine(d) /\ status[d] # "returned" /\ OnlyWrites(d, TRUE, FALSE)
    BY <1>8 DEF DoppQuit, HasLine
  <2> QED
    BY <1>2, <2>1, WriteMoves
<1>9. CASE DoppSeesClosed(d)
  <2>1. status[d] # "returned" /\ OnlyWrites(d, TRUE, FALSE) /\ TakesOrLeaves(d)
        /\ UNCHANGED <<callback, restOfMaster, restOfChat>>
    BY <1>9 DEF DoppSeesClosed, TakesOrLeaves, chatVars, restOfChat
  <2> QED
    BY <2>1, WriteMoves
<1>10. CASE DoppRefusedByMaster(d)
  <2>1. /\ status[d] # "returned" /\ TakesOrLeaves(d)
        /\ UNCHANGED <<callback, restOfMaster, restOfChat>>
        /\ \E g, ce : EndOfLoop(d, g, NoChannel, ce, masterQ, TRUE)
    BY <1>10 DEF DoppRefusedByMaster, TakesOrLeaves, chatVars, restOfChat
  <2>2. LoopEnds(d, NoChannel, masterQ) /\ Asks(d, NoChannel, masterQ)
    BY <2>1, EndOfLoopEnds DEF Asks
  <2> QED
    BY <2>1, <2>2, HandlerMoves
<1>11. ASSUME NEW op, TakeFromChat(d, op)
       PROVE  /\ status[d] # "returned" /\ chatIn[d] # <<>> /\ Head(chatIn[d]).op = op
              /\ TakesOrLeaves(d) /\ chatIn' = [chatIn EXCEPT ![d] = Tail(@)]
              /\ UNCHANGED <<restOfMaster, restOfChat>>
  BY <1>11 DEF TakeFromChat, TakesOrLeaves, chatVars, restOfChat
<1>12. CASE DoppRefusedByChat(d)
  BY <1>11, <1>12, WriteMoves DEF DoppRefusedByChat
<1>13. CASE DoppJoined(d)
  <2> DEFINE m == Head(chatIn[d])
             i == m.by
  <2>1. /\ TakeFromChat(d, "Joined") /\ callback' = [callback EXCEPT ![d] = i]
        /\ \E g, ce : EndOfLoop(d, g, chanOf[i], ce, masterQ, TRUE)
    BY <1>13 DEF DoppJoined
  <2>2. chatIn[d] # <<>> /\ m.op = "Joined"
    BY <1>11, <2>1
  <2>3. m \in ToSet(chatIn[d])
    <3>1. chatIn[d] \in Seq(ToDoppelganger)
      BY MailTypes
    <3> QED
      BY <2>2, <3>1 DEF ToSet
  <2> HIDE DEF m
  <2>4. InCharge(i)
    BY <2>2, <2>3 DEF RelyInv, VerdictsStand
  <2>5. PICK c \in Channels : running[c] = i
    BY <2>4 DEF InCharge
  <2>6. i \in Goroutines
    <3>1. m \in ToDoppelganger
      <4>1. chatIn[d] \in Seq(ToDoppelganger)
        BY MailTypes
      <4> QED
        BY <2>2, <4>1 DEF m
    <3> QED
      BY <3>1 DEF ToDoppelganger
  <2>7. i # NoGoroutine
    BY <2>6, SizesAssumption DEF Goroutines, NoGoroutine, SizesAssumption
  <2>8. chanOf[i] = c
    BY <2>5, <2>7, InChargeOf
  <2>9. d \in Hearing(i)
    BY <2>2, <2>3 DEF Hearing
  <2>10. callback'[d] = i /\ \A e \in Doppelgangers \ {d} : callback'[e] = callback[e]
    BY <2>1, MailTypes
  <2>11. chatIn'[d] = Tail(chatIn[d])
    BY <1>11, <2>1, MailTypes
  <2>12. Onto(d, c)
    BY <2>2, <2>5, <2>7, <2>9, <2>10, <2>11 DEF Onto
  <2>13. LoopEnds(d, c, masterQ) /\ Asks(d, c, masterQ)
    BY <2>1, <2>8, EndOfLoopEnds DEF Asks
  <2>14. DoppMoves(d, c, masterQ)
    BY <1>11, <2>1, <2>10, <2>12, <2>13, TakesOrLeavesParts DEF DoppMoves
  <2> QED
    BY <2>14
<1>14. CASE DoppText(d)
  BY <1>11, <1>14, WriteMoves DEF DoppText
<1>15. CASE DoppHearsExit(d)
  BY <1>11, <1>15, WriteMoves DEF DoppHearsExit
<1>16. CASE DoppOwnExit(d)
  <2>1. TakeFromChat(d, "TextExit") /\ UNCHANGED callback
    BY <1>16 DEF DoppOwnExit
  <2>2. CASE \E ce, n : Settles(d, "returned", TRUE, chatID[d], ce, n, masterQ)
    <3>1. LoopEnds(d, chatID[d], masterQ) /\ Asks(d, chatID[d], masterQ)
      BY <2>2 DEF Settles, LoopEnds, Asks
    <3> QED
      BY <1>11, <2>1, <3>1, HandlerMoves
  <2>3. CASE \E g : EndOfLoop(d, g, NoChannel, FALSE, masterQ, TRUE)
    <3>1. LoopEnds(d, NoChannel, masterQ) /\ Asks(d, NoChannel, masterQ)
      BY <2>3, EndOfLoopEnds DEF Asks
    <3> QED
      BY <1>11, <2>1, <3>1, HandlerMoves
  <2> QED
    BY <1>16, <2>2, <2>3 DEF DoppOwnExit
<1> QED
  BY <1>1, <1>3, <1>4, <1>5, <1>6, <1>7, <1>8, <1>9, <1>10, <1>12, <1>13, <1>14,
     <1>15, <1>16 DEF DoppStep

-----------------------------------------------------------------------------
LEMMA InitAccounts == Init => AccountsInv
<1> SUFFICES ASSUME Init PROVE AccountsInv
  OBVIOUS
<1>1. IInv
  BY InitIInv
<1>2. /\ \A i \in Goroutines : inbox[i] = <<>> /\ todo[i] = <<>> /\ memberList[i] = {}
                               /\ chatState[i] = "unborn"
      /\ \A d \in Doppelgangers : chatIn[d] = <<>> /\ chatID[d] = NoChannel
      /\ \A c \in Channels : running[c] = NoGoroutine /\ memberCount[c] = 0
      /\ masterQ = <<>> /\ denialQ = <<>> /\ masterTodo = <<>>
  BY DEF Init
<1>3. OneMessageOfBuffer /\ OneLeaverAtATime /\ ShutdownIsLast /\ ShutdownFindsEmptyRoster
  <2>1. \A i \in Goroutines : ~HasShutdown(inbox[i])
    BY <1>2 DEF HasShutdown
  <2> QED
    BY <1>2, <2>1, ToSetOfEmpty
       DEF OneMessageOfBuffer, OneLeaverAtATime, ShutdownIsLast, ShutdownFindsEmptyRoster
<1>4. HoldersKeepTheirChannel /\ VerdictsStand
  BY <1>2, ToSetOfEmpty, IdsAssumption
     DEF HoldersKeepTheirChannel, VerdictsStand, IdsAssumption
<1>5. CountCoversDue
  BY <1>2, ToSetOfEmpty DEF CountCoversDue
<1> QED
  BY <1>1, <1>3, <1>4, <1>5 DEF AccountsInv

LEMMA NextAccounts == AccountsInv /\ [Next]_vars => AccountsInv'
<1> SUFFICES ASSUME AccountsInv, [Next]_vars PROVE AccountsInv'
  OBVIOUS
<1>1. IInv /\ TypeInv /\ EntryInv /\ RosterInv /\ RelyInv /\ CountCoversDue
  BY AccountsInvParts DEF AccountsInv
<1>2. IInv'
  BY <1>1, NextIInv
<1>3. TypeInv' /\ EntryInv' /\ MasterNeverSendsOnClosed'
  BY <1>2, IInvParts
<1>4. ASSUME UNCHANGED <<masterVars, chatVars, doppVars>>
      PROVE  RosterInv' /\ RelyInv' /\ CountCoversDue'
  BY <1>1, <1>4, ReplyKeepsAccounts DEF masterVars, chatVars, doppVars
<1>5. RosterInv' /\ RelyInv' /\ CountCoversDue'
  <2>1. CASE MasterStep
    <3>1. CASE MasterRefusesName \/ MasterLookupFails \/ MasterWho
      BY <1>1, <1>3, <3>1, RefusalKeepsAccounts
    <3>2. CASE MasterForwardsJoin \/ MasterExit
      BY <1>1, <1>3, <3>2, ForwardKeepsAccounts
    <3>3. CASE MasterReturns
      BY <1>1, <1>3, <3>3, ReturnKeepsAccounts
    <3>4. CASE MasterTakesDenial
      BY <1>1, <1>3, <3>4, DenialKeepsAccounts
    <3>5. CASE MasterSendsToChat
      BY <1>1, <1>3, <3>5, SendKeepsAccounts
    <3>6. CASE MasterReplies
      <4>1. UNCHANGED <<masterQ, denialQ, memberCount, running, masterTodo, chatState,
                        inbox, memberList, todo, status, chatID, callback, chatIn>>
        BY <3>6 DEF MasterReplies, Panic, masterVars, chatVars, doppVars
      <4> QED
        BY <1>1, <4>1, ReplyKeepsAccounts
    <3>7. CASE \E i \in Goroutines : Launch(i)
      BY <1>1, <1>3, <3>7, LaunchKeepsAccounts
    <3> QED
      BY <2>1, <3>1, <3>2, <3>3, <3>4, <3>5, <3>6, <3>7 DEF MasterStep
  <2>2. ASSUME NEW i \in Goroutines, ChatStep(i)
        PROVE  RosterInv' /\ RelyInv' /\ CountCoversDue'
    <3>1. CASE ChatJoin(i) \/ ChatWho(i) \/ ChatExit(i) \/ ChatShutdown(i)
      BY <1>1, <1>3, <3>1, MailKeepsAccounts
    <3>2. CASE ChatSpeech(i)
      BY <1>1, <1>3, <3>2, SpeechKeepsAccounts
    <3>3. CASE ChatTellsMaster(i)
      BY <1>1, <1>3, <3>3, TellKeepsAccounts
    <3>4. CASE ChatTellsDoppelganger(i)
      BY <1>1, <1>3, <3>4, DeliveryKeepsAccounts
    <3> QED
      BY <2>2, <3>1, <3>2, <3>3, <3>4 DEF ChatStep
  <2>3. ASSUME NEW d \in Doppelgangers, DoppStep(d)
        PROVE  RosterInv' /\ RelyInv' /\ CountCoversDue'
    BY <1>1, <1>3, <2>3, DoppStepKeepsAccounts
  <2>4. ASSUME NEW d \in Doppelgangers, TelnetStep(d) \/ Environment(d)
        PROVE  RosterInv' /\ RelyInv' /\ CountCoversDue'
    <3>1. UNCHANGED <<masterVars, chatVars, doppVars>>
      BY <2>4 DEF TelnetStep, Environment, ReadFails, ServerClosesConnection, UserTypes,
                  ConnectionDrops, othersOfTelnet
    <3> QED
      BY <1>4, <3>1
  <2>5. CASE StaysIdle \/ UNCHANGED vars
    <3>1. UNCHANGED <<masterVars, chatVars, doppVars>>
      BY <2>5 DEF StaysIdle, vars
    <3> QED
      BY <1>4, <3>1
  <2> QED
    BY <2>1, <2>2, <2>3, <2>4, <2>5 DEF Next
<1> QED
  BY <1>3, <1>5, AccountsInvParts

(***************************************************************************)
(* For any number of doppelgangers, channels and goroutines, buffers and   *)
(* seats, and for users who type anything at any time: the rosters, the    *)
(* messages under way and the channel master's counts fit together as      *)
(* AccountsInv says.                                                       *)
(***************************************************************************)
THEOREM AccountsKept == Spec => []AccountsInv
<1>1. Init => AccountsInv
  BY InitAccounts
<1>2. AccountsInv /\ [Next]_vars => AccountsInv'
  BY NextAccounts
<1> QED
  BY <1>1, <1>2, PTL DEF Spec

(***************************************************************************)
(* README.md:518-529: whatever order joins, refusals and exits came in,    *)
(* the roster of a goroutine that receives its Shutdown is empty           *)
(* (chatchannel.go:386-392 only logs when it is not).                      *)
(***************************************************************************)
THEOREM ShutdownIsOfEmptyRoster == Spec => []ShutdownFindsEmptyRoster
<1>1. AccountsInv => ShutdownFindsEmptyRoster
  BY DEF AccountsInv
<1> QED
  BY <1>1, AccountsKept, PTL

(***************************************************************************)
(* Whoever takes himself to be on a channel talks to the goroutine in the  *)
(* master's map, and no exit that is queued is from a channel that is not  *)
(* in the map, where the master would return (channelmaster.go:290-296).   *)
(***************************************************************************)
THEOREM HoldersAreServed == Spec => []HoldersKeepTheirChannel
<1>1. AccountsInv => HoldersKeepTheirChannel
  BY DEF AccountsInv
<1> QED
  BY <1>1, AccountsKept, PTL

(***************************************************************************)
(* A refused join finds the entry whose count it takes back: the nil map   *)
(* entry of channelmaster.go:341 is never dereferenced.                    *)
(***************************************************************************)
THEOREM DenialsAreCounted == Spec => []DenialsFindTheirEntry
<1>1. AccountsInv => DenialsFindTheirEntry
  <2> SUFFICES ASSUME AccountsInv PROVE DenialsFindTheirEntry
    OBVIOUS
  <2>1. TypeInv /\ EntryInv /\ VerdictsStand
    BY AccountsInvParts DEF AccountsInv
  <2>2. ASSUME NEW i \in Goroutines, NEW m \in ToSet(todo[i]), m.op = "Denial"
        PROVE  running[chanOf[i]] = i
    <3>1. PICK c \in Channels : running[c] = i
      BY <2>1, <2>2 DEF VerdictsStand, InCharge
    <3>2. i # NoGoroutine
      BY SizesAssumption DEF Goroutines, NoGoroutine, SizesAssumption
    <3>3. chanOf[i] = c
      BY <2>1, <3>1, <3>2, InChargeOf
    <3> QED
      BY <3>1, <3>3
  <2> QED
    BY <2>1, <2>2 DEF DenialsFindTheirEntry, VerdictsStand
<1> QED
  BY <1>1, AccountsKept, PTL

-----------------------------------------------------------------------------
\* A message names one doppelganger, so there are at least as many messages as names.
LEMMA NamedAreFewer ==
    ASSUME NEW T, NEW s \in Seq(T), NEW M, NEW S, NEW g \in [Hits(s, M) -> S],
           \A x \in S : \E k \in Hits(s, M) : g[k] = x
    PROVE  IsFiniteSet(S) /\ Cardinality(S) \in Nat /\ Cardinality(S) <= HowMany(s, M)
<1>1. IsFiniteSet(Hits(s, M)) /\ HowMany(s, M) = Cardinality(Hits(s, M))
  BY HitsFinite, HowManyIsHits
<1>2. g \in Surjection(Hits(s, M), S)
  BY DEF Surjection
<1> HIDE DEF HowMany
<1>3. IsFiniteSet(S) /\ Cardinality(S) <= Cardinality(Hits(s, M))
  BY <1>1, <1>2, FS_Surjection
<1> QED
  BY <1>1, <1>3, FS_CardinalityType

LEMMA UnionBound ==
    ASSUME NEW S, NEW T, IsFiniteSet(S), IsFiniteSet(T),
           NEW m \in Nat, NEW n \in Nat, Cardinality(S) <= m, Cardinality(T) <= n
    PROVE  IsFiniteSet(S \cup T) /\ Cardinality(S \cup T) <= m + n
<1>1. /\ IsFiniteSet(S \cup T) /\ IsFiniteSet(S \cap T)
      /\ Cardinality(S \cup T) = Cardinality(S) + Cardinality(T) - Cardinality(S \cap T)
  BY FS_Union, FS_Intersection
<1>2. Cardinality(S) \in Nat /\ Cardinality(T) \in Nat /\ Cardinality(S \cap T) \in Nat
      /\ Cardinality(S \cup T) \in Nat
  BY <1>1, FS_CardinalityType
<1> QED
  BY <1>1, <1>2

(***************************************************************************)
(* Whoever is on the roster of c has a claim on c, or an exit from c that  *)
(* is asked for, or under way.                                             *)
(***************************************************************************)
AskersOf(c) ==
    { d \in Doppelgangers : \E m \in ToSet(masterQ) : m.op = "Exit" /\ m.chan = c /\ m.from = d }

SentOf(c) ==
    { d \in Doppelgangers : \E m \in ToSet(masterTodo) : m.op = "Exit" /\ m.chan = c /\ m.who = d }

LeavingOf(i) ==
    { d \in Doppelgangers : \E m \in ToSet(inbox[i]) : m.op = "Exit" /\ m.who = d }

AnnouncedOf(i) ==
    { d \in Doppelgangers : \E m \in ToSet(todo[i]) : m.leaving = d }

LEMMA ExitersAreFewer ==
    ASSUME TypeInv, RosterInv, NEW c \in Channels, running[c] \in Goroutines
    PROVE  /\ IsFiniteSet(AskersOf(c))
           /\ Cardinality(AskersOf(c)) <= HowMany(masterQ, ExitRequests(c))
           /\ IsFiniteSet(SentOf(c))
           /\ Cardinality(SentOf(c)) <= HowMany(masterTodo, SendsTo(c, "Exit"))
           /\ IsFiniteSet(LeavingOf(running[c]))
           /\ Cardinality(LeavingOf(running[c])) <= HowMany(inbox[running[c]], Posts("Exit"))
           /\ IsFiniteSet(AnnouncedOf(running[c]))
           /\ Cardinality(AnnouncedOf(running[c]))
              <= IF HowMany(todo[running[c]], Farewells) > 0 THEN 1 ELSE 0
<1> DEFINE i == running[c]
<1>1. IsFiniteSet(AskersOf(c)) /\ Cardinality(AskersOf(c)) <= HowMany(masterQ, ExitRequests(c))
  <2> DEFINE M == ExitRequests(c)
             g == [k \in Hits(masterQ, M) |-> masterQ[k].from]
  <2>1. masterQ \in Seq(ToMaster)
    BY MailTypes
  <2>2. \A m \in ToMaster : m \in M <=> m.op = "Exit" /\ m.chan = c
    BY DEF ExitRequests, ToMaster
  <2>3. /\ ToSet(masterQ) \subseteq ToMaster
        /\ \A m \in ToMaster : m.from \in Doppelgangers
    BY <2>1, ToSetType DEF ToMaster
  <2> HIDE DEF M
  <2>4. g \in [Hits(masterQ, M) -> AskersOf(c)]
    BY <2>2, <2>3 DEF AskersOf, ToSet, Hits
  <2>5. \A d \in AskersOf(c) : \E k \in Hits(masterQ, M) : g[k] = d
    BY <2>2, <2>3 DEF AskersOf, ToSet, Hits
  <2> HIDE DEF g
  <2>6. IsFiniteSet(AskersOf(c)) /\ Cardinality(AskersOf(c)) <= HowMany(masterQ, M)
    BY <2>1, <2>4, <2>5, NamedAreFewer
  <2> QED
    BY <2>6 DEF M
<1>2. IsFiniteSet(SentOf(c))
      /\ Cardinality(SentOf(c)) <= HowMany(masterTodo, SendsTo(c, "Exit"))
  <2> DEFINE M == SendsTo(c, "Exit")
             g == [k \in Hits(masterTodo, M) |-> masterTodo[k].who]
  <2>1. masterTodo \in Seq(MasterSends)
    BY TypeInvFacts
  <2>2. \A m \in MasterSends : m \in M <=> m.op = "Exit" /\ m.chan = c
    BY DEF SendsTo, MasterSends
  <2>3. /\ ToSet(masterTodo) \subseteq MasterSends
        /\ \A m \in MasterSends : m.who \in Doppelgangers
    BY <2>1, ToSetType DEF MasterSends
  <2> HIDE DEF M
  <2>4. g \in [Hits(masterTodo, M) -> SentOf(c)]
    BY <2>2, <2>3 DEF SentOf, ToSet, Hits
  <2>5. \A d \in SentOf(c) : \E k \in Hits(masterTodo, M) : g[k] = d
    BY <2>2, <2>3 DEF SentOf, ToSet, Hits
  <2> HIDE DEF g
  <2>6. IsFiniteSet(SentOf(c)) /\ Cardinality(SentOf(c)) <= HowMany(masterTodo, M)
    BY <2>1, <2>4, <2>5, NamedAreFewer
  <2> QED
    BY <2>6 DEF M
<1>3. IsFiniteSet(LeavingOf(i))
      /\ Cardinality(LeavingOf(i)) <= HowMany(inbox[i], Posts("Exit"))
  <2> DEFINE s == inbox[i]
             M == Posts("Exit")
             g == [k \in Hits(s, M) |-> s[k].who]
  <2>1. s \in Seq(ToChat)
    BY TypeInvFacts
  <2>2. \A m \in ToChat : m \in M <=> m.op = "Exit"
    BY DEF Posts, ToChat
  <2>3. LeavingOf(i) = { d \in Doppelgangers : \E m \in ToSet(s) : m.op = "Exit" /\ m.who = d }
    BY DEF LeavingOf
  <2> HIDE DEF s, M
  <2>4. ToSet(s) \subseteq ToChat /\ \A m \in ToChat : m.who \in Doppelgangers
    BY <2>1, ToSetType DEF ToChat
  <2>5. g \in [Hits(s, M) -> LeavingOf(i)]
    BY <2>2, <2>3, <2>4 DEF ToSet, Hits
  <2>6. \A d \in LeavingOf(i) : \E k \in Hits(s, M) : g[k] = d
    BY <2>2, <2>3, <2>4 DEF ToSet, Hits
  <2> HIDE DEF g
  <2>7. IsFiniteSet(LeavingOf(i)) /\ Cardinality(LeavingOf(i)) <= HowMany(s, M)
    BY <2>1, <2>5, <2>6, NamedAreFewer
  <2> QED
    BY <2>7 DEF M, s
<1>4. IsFiniteSet(AnnouncedOf(i))
      /\ Cardinality(AnnouncedOf(i)) <= IF HowMany(todo[i], Farewells) > 0 THEN 1 ELSE 0
  <2> DEFINE s == todo[i]
  <2>1. s \in Seq(ChatSends)
    BY MailTypes
  <2>2. \A m \in ToSet(s) : /\ m.op = "TextExit" <=> m.leaving # Nobody
                            /\ \A n \in ToSet(s) : n.leaving = m.leaving
    BY DEF RosterInv, OneLeaverAtATime
  <2>3. AnnouncedOf(i) = { d \in Doppelgangers : \E m \in ToSet(s) : m.leaving = d }
    BY DEF AnnouncedOf
  <2>4. ToSet(s) \subseteq ChatSends
    BY <2>1, ToSetType
  <2> HIDE DEF s
  <2>5. HowMany(s, Farewells) \in Nat
        /\ (HowMany(s, Farewells) = 0 <=> \A m \in ToSet(s) : m \notin Farewells)
    BY <2>1, HowManyType
  <2>6. CASE AnnouncedOf(i) = {}
    BY <2>5, <2>6, FS_EmptySet DEF s
  <2>7. ASSUME NEW d \in AnnouncedOf(i)
        PROVE  /\ IsFiniteSet(AnnouncedOf(i)) /\ Cardinality(AnnouncedOf(i)) = 1
               /\ HowMany(s, Farewells) > 0
    <3>1. PICK m \in ToSet(s) : m.leaving = d
      BY <2>3
    <3>2. d \in Doppelgangers /\ d # Nobody
      BY <2>3, IdsAssumption DEF IdsAssumption
    <3>3. m \in Farewells
      <4>1. m \in ChatSends /\ m.op = "TextExit"
        BY <2>2, <2>4, <3>1, <3>2
      <4> QED
        BY <3>1, <3>2, <4>1 DEF ChatSends, Farewells
    <3>4. AnnouncedOf(i) = {d}
      BY <2>2, <2>3, <3>1
    <3>5. IsFiniteSet({d}) /\ Cardinality({d}) = 1
      BY FS_Singleton
    <3> QED
      BY <2>5, <3>3, <3>4, <3>5
  <2> QED
    BY <2>6, <2>7 DEF s
<1> QED
  BY <1>1, <1>2, <1>3, <1>4

\* The accounted members of a channel somebody is in charge of.
LEMMA AccountedOf ==
    ASSUME NEW c \in Channels, running[c] # NoGoroutine
    PROVE  Accounted(c) = Cardinality(memberList[running[c]])
                          + (JoinsUnderWay(c) - ExitsUnderWay(c))
  BY DEF Accounted

LEMMA RosterIsDue ==
    ASSUME TypeInv, EntryInv, RosterInv, NEW c \in Channels, running[c] # NoGoroutine
    PROVE  Accounted(c) <= Due(c) /\ Accounted(c) \in Int /\ Due(c) \in Nat
<1> DEFINE i == running[c]
           C == (Holders(c) \cup Hearing(i)) \cup Unclaimed(c)
           X == AskersOf(c) \cup SentOf(c)
           Y == LeavingOf(i) \cup AnnouncedOf(i)
           x == ExitsAsked(c)
           y == ExitsUnderWay(c)
<1>1. i \in Goroutines /\ DueTyped(c) /\ memberList[i] \in SUBSET Doppelgangers
  BY InChargeOf, DueTypes, MailTypes
<1>2. memberList[i] \subseteq (C \cup X) \cup Y
  BY <1>1 DEF Unclaimed, ExitAsked, ExitTaken, AskersOf, SentOf, LeavingOf, AnnouncedOf
<1>3. IsFiniteSet(C) /\ Cardinality(C) <= Claims(c)
  <2>1. /\ IsFiniteSet(Holders(c)) /\ Cardinality(Holders(c)) \in Nat
        /\ IsFiniteSet(Hearing(i)) /\ Cardinality(Hearing(i)) \in Nat
        /\ IsFiniteSet(Unclaimed(c)) /\ Cardinality(Unclaimed(c)) \in Nat
    BY <1>1 DEF DueTyped
  <2> DEFINE H == Holders(c)
             G == Hearing(i)
             U == Unclaimed(c)
             hs == Cardinality(H)
             gs == Cardinality(G)
             us == Cardinality(U)
             n == hs + gs
             P == H \cup G
  <2>2. Claims(c) = n + us
    BY DEF Claims
  <2>3. IsFiniteSet(H) /\ IsFiniteSet(G) /\ IsFiniteSet(U)
        /\ hs \in Nat /\ gs \in Nat /\ us \in Nat
    BY <2>1
  <2>4. hs = Cardinality(H) /\ gs = Cardinality(G) /\ us = Cardinality(U)
    OBVIOUS
  <2> HIDE DEF H, G, U, hs, gs, us
  <2>5. n \in Nat /\ Cardinality(H) <= hs /\ Cardinality(G) <= gs /\ Cardinality(U) <= us
    BY <2>3, <2>4
  <2>6. IsFiniteSet(P) /\ Cardinality(P) <= n
    BY <2>3, <2>5, UnionBound
  <2> HIDE DEF P, n
  <2>7. IsFiniteSet(P \cup U) /\ Cardinality(P \cup U) <= n + us
    BY <2>3, <2>5, <2>6, UnionBound
  <2> QED
    BY <2>2, <2>7 DEF P, H, G, U
<1>4. IsFiniteSet(X) /\ Cardinality(X) <= x
  <2>1. HowMany(masterQ, ExitRequests(c)) \in Nat /\ HowMany(masterTodo, SendsTo(c, "Exit")) \in Nat
    BY <1>1 DEF DueTyped
  <2> QED
    BY <1>1, <2>1, ExitersAreFewer, UnionBound DEF ExitsAsked
<1>5. IsFiniteSet(Y) /\ Cardinality(Y) <= y /\ y \in Nat
  <2> DEFINE a == HowMany(inbox[i], Posts("Exit"))
             b == IF HowMany(todo[i], Farewells) > 0 THEN 1 ELSE 0
  <2>1. a \in Nat
    <3>1. inbox[i] \in Seq(ToChat)
      BY <1>1, TypeInvFacts
    <3> QED
      BY <3>1, HowManyType
  <2>2. b \in Nat /\ y = a + b
    BY DEF ExitsUnderWay
  <2>3. /\ IsFiniteSet(LeavingOf(i)) /\ Cardinality(LeavingOf(i)) <= a
        /\ IsFiniteSet(AnnouncedOf(i)) /\ Cardinality(AnnouncedOf(i)) <= b
    BY <1>1, ExitersAreFewer
  <2> DEFINE L == LeavingOf(i)
             A == AnnouncedOf(i)
  <2> HIDE DEF a, b
  <2>4. /\ IsFiniteSet(L) /\ Cardinality(L) <= a
        /\ IsFiniteSet(A) /\ Cardinality(A) <= b
    BY <2>3
  <2> HIDE DEF L, A, y
  <2>5. IsFiniteSet(L \cup A) /\ Cardinality(L \cup A) <= a + b
    BY <2>1, <2>2, <2>4, UnionBound
  <2>6. y \in Nat
    BY <2>1, <2>2
  <2> QED
    BY <2>2, <2>5, <2>6 DEF L, A
<1>6. Claims(c) \in Nat /\ x \in Nat /\ JoinsUnderWay(c) \in Nat /\ Due(c) \in Nat
  BY <1>1 DEF DueTyped
<1> DEFINE r == Cardinality(memberList[i])
<1>7. r \in Nat /\ r <= (Claims(c) + x) + y
  <2>1. IsFiniteSet(C \cup X) /\ Cardinality(C \cup X) <= Claims(c) + x
    BY <1>3, <1>4, <1>6, UnionBound
  <2> DEFINE Z == C \cup X
             z == Claims(c) + x
  <2>2. IsFiniteSet(Z) /\ Cardinality(Z) <= z /\ z \in Nat
    BY <1>6, <2>1
  <2> HIDE DEF Z, z, Y, y
  <2>3. IsFiniteSet(Z \cup Y) /\ Cardinality(Z \cup Y) <= z + y
    BY <1>5, <2>2, UnionBound
  <2> DEFINE m == memberList[i]
             W == Z \cup Y
  <2>4. m \in SUBSET W
    BY <1>2 DEF Z
  <2> HIDE DEF m, W
  <2>5. IsFiniteSet(m) /\ Cardinality(m) <= Cardinality(W) /\ IsFiniteSet(W)
    BY <2>3, <2>4, FS_Subset DEF W
  <2>6. Cardinality(m) \in Nat /\ Cardinality(W) \in Nat
    BY <2>5, FS_CardinalityType
  <2>7. Cardinality(m) <= z + y
    BY <1>5, <2>2, <2>3, <2>5, <2>6 DEF W
  <2> QED
    BY <2>6, <2>7 DEF m, z
<1>8. Accounted(c) = r + (JoinsUnderWay(c) - y)
  BY AccountedOf
<1>9. Due(c) = JoinsUnderWay(c) + x + Claims(c)
  BY DEF Due
<1> HIDE DEF r, x, y
<1> QED
  BY <1>5, <1>6, <1>7, <1>8, <1>9

(***************************************************************************)
(* README.md:511-516: whatever the users type, the master's count of a     *)
(* channel is never below its roster with the joins and without the exits  *)
(* under way: a channel somebody is on, or is getting on, is not shut      *)
(* down.                                                                   *)
(***************************************************************************)
THEOREM CountIsNeverTooLow == Spec => []CountCoversRoster
<1>1. AccountsInv => CountCoversRoster
  <2> SUFFICES ASSUME AccountsInv, NEW c \in Channels
               PROVE  memberCount[c] >= Accounted(c)
    BY DEF CountCoversRoster
  <2>1. TypeInv /\ EntryInv /\ RosterInv /\ CountCoversDue /\ memberCount[c] \in Int
    BY AccountsInvParts, MailTypes
  <2>2. CASE running[c] = NoGoroutine
    BY <2>1, <2>2 DEF CountCoversDue, Accounted
  <2>3. CASE running[c] # NoGoroutine
    <3>1. memberCount[c] >= Due(c)
      BY <2>1, <2>3 DEF CountCoversDue
    <3>2. Accounted(c) <= Due(c) /\ Accounted(c) \in Int /\ Due(c) \in Nat
      BY <2>1, <2>3, RosterIsDue
    <3> QED
      BY <2>1, <3>1, <3>2
  <2> QED
    BY <2>2, <2>3
<1> QED
  BY <1>1, AccountsKept, PTL
=============================================================================
