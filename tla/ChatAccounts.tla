---------------------------- MODULE ChatAccounts ----------------------------
(***************************************************************************)
(* The channel master's count of a channel covers everyone who is on it or *)
(* getting on it, for any number of users who type anything at any time.   *)
(* Hence a chat channel is shut down with an empty roster, and whoever     *)
(* takes himself to be on a channel has it in the master's map.            *)
(***************************************************************************)
EXTENDS ChatServerProofs, FunctionTheorems

-----------------------------------------------------------------------------
(***************************************************************************)
(* What a send to a go channel and a receive from it do to the messages in *)
(* it and to how many of them are of a kind: the lemmas that the proofs    *)
(* about counts keep needing.                                              *)
(***************************************************************************)
LEMMA ToSetOfEmpty == ToSet(<<>>) = {}
  BY DEF ToSet

LEMMA ToSetOfOne ==
    ASSUME NEW m
    PROVE  ToSet(<<m>>) = {m}
<1> DEFINE s == <<m>>
<1>1. DOMAIN s = {1} /\ s[1] = m
  OBVIOUS
<1> HIDE DEF s
<1>2. ToSet(s) = {m}
  BY <1>1 DEF ToSet
<1> QED
  BY <1>2 DEF s

LEMMA ToSetType ==
    ASSUME NEW T, NEW s \in Seq(T)
    PROVE  /\ ToSet(s) \subseteq T
           /\ s # <<>> => Head(s) \in ToSet(s)
           /\ s # <<>> <=> ToSet(s) # {}
<1>1. Len(s) \in Nat /\ DOMAIN s = 1 .. Len(s) /\ \A k \in 1 .. Len(s) : s[k] \in T
  BY LenProperties, ElementOfSeq
<1>2. CASE s = <<>>
  BY <1>2, ToSetOfEmpty
<1>3. CASE s # <<>>
  <2>1. Len(s) > 0 /\ Head(s) = s[1]
    BY <1>1, <1>3, EmptySeq, HeadTailProperties
  <2> QED
    BY <1>1, <1>3, <2>1 DEF ToSet
<1> QED
  BY <1>2, <1>3

LEMMA ToSetOfAppend ==
    ASSUME NEW T, NEW s \in Seq(T), NEW m \in T
    PROVE  ToSet(Append(s, m)) = ToSet(s) \cup {m}
<1>1. /\ Len(s) \in Nat /\ DOMAIN s = 1 .. Len(s)
      /\ DOMAIN Append(s, m) = 1 .. Len(s) + 1
      /\ \A k \in 1 .. Len(s) : Append(s, m)[k] = s[k]
      /\ Append(s, m)[Len(s) + 1] = m
  BY AppendProperties, LenProperties
<1> QED
  BY <1>1 DEF ToSet

LEMMA TailParts ==
    ASSUME NEW T, NEW s \in Seq(T), s # <<>>
    PROVE  /\ Len(s) \in Nat \ {0}
           /\ DOMAIN s = 1 .. Len(s)
           /\ DOMAIN Tail(s) = 1 .. Len(s) - 1
           /\ Head(s) = s[1]
           /\ \A k \in 1 .. Len(s) - 1 : Tail(s)[k] = s[k + 1]
  BY HeadTailProperties, LenProperties, EmptySeq

LEMMA ToSetOfTail ==
    ASSUME NEW T, NEW s \in Seq(T), s # <<>>
    PROVE  ToSet(s) = {Head(s)} \cup ToSet(Tail(s))
<1>1. ASSUME NEW m \in ToSet(s), m # Head(s)
      PROVE  m \in ToSet(Tail(s))
  <2>1. PICK k \in 1 .. Len(s) : s[k] = m
    BY <1>1, TailParts DEF ToSet
  <2>2. k - 1 \in DOMAIN Tail(s) /\ Tail(s)[k - 1] = m
    BY <1>1, <2>1, TailParts
  <2> QED
    BY <2>2 DEF ToSet
<1>2. ASSUME NEW m \in ToSet(Tail(s))
      PROVE  m \in ToSet(s)
  <2>1. PICK k \in 1 .. Len(s) - 1 : Tail(s)[k] = m
    BY <1>2, TailParts DEF ToSet
  <2>2. k + 1 \in DOMAIN s /\ s[k + 1] = m
    BY <2>1, TailParts
  <2> QED
    BY <2>2 DEF ToSet
<1> QED
  BY <1>1, <1>2, ToSetType

\* A go channel with room for one message, when that has been taken.
LEMMA TailOfOne ==
    ASSUME NEW T, NEW s \in Seq(T), s # <<>>, Len(s) <= 1
    PROVE  Tail(s) = <<>> /\ ToSet(s) = {Head(s)} /\ s = <<Head(s)>>
<1>1. Len(s) = 1
  <2>1. Len(s) \in Nat \ {0}
    BY TailParts
  <2> QED
    BY <2>1
<1>2. Tail(s) \in Seq(T) /\ Len(Tail(s)) = 0
  BY <1>1, HeadTailProperties
<1>3. Tail(s) = <<>>
  BY <1>2, EmptySeq
<1>4. s = <<Head(s)>>
  <2> DEFINE t == <<Head(s)>>
  <2>1. t \in Seq(T) /\ Len(t) = 1 /\ t[1] = Head(s)
    BY HeadTailProperties
  <2> HIDE DEF t
  <2>2. s = t
    BY <1>1, <2>1, TailParts, SeqEqual
  <2> QED
    BY <2>2 DEF t
<1> QED
  BY <1>3, <1>4, ToSetOfTail, ToSetOfEmpty

-----------------------------------------------------------------------------
\* Counting.

Hits(s, M) == { k \in DOMAIN s : s[k] \in M }

LEMMA HowManyIsHits ==
    ASSUME NEW s, NEW M
    PROVE  HowMany(s, M) = Cardinality(Hits(s, M))
  BY DEF HowMany, Hits

LEMMA HitsFinite ==
    ASSUME NEW T, NEW s \in Seq(T), NEW M
    PROVE  IsFiniteSet(Hits(s, M)) /\ Cardinality(Hits(s, M)) \in Nat
<1>1. Len(s) \in Nat /\ DOMAIN s = 1 .. Len(s)
  BY LenProperties
<1>2. IsFiniteSet(1 .. Len(s)) /\ Hits(s, M) \in SUBSET (1 .. Len(s))
  BY <1>1, FS_Interval DEF Hits
<1>3. IsFiniteSet(Hits(s, M))
  BY <1>2, FS_Subset
<1> QED
  BY <1>3, FS_CardinalityType

LEMMA HowManyType ==
    ASSUME NEW T, NEW s \in Seq(T), NEW M
    PROVE  /\ HowMany(s, M) \in Nat
           /\ HowMany(s, M) = 0 <=> \A m \in ToSet(s) : m \notin M
<1>1. Cardinality(Hits(s, M)) = 0 <=> Hits(s, M) = {}
  BY HitsFinite, FS_EmptySet
<1>2. Hits(s, M) = {} <=> \A m \in ToSet(s) : m \notin M
  BY DEF ToSet, Hits
<1> QED
  BY <1>1, <1>2, HitsFinite, HowManyIsHits

LEMMA HowManyOfEmpty ==
    ASSUME NEW M
    PROVE  HowMany(<<>>, M) = 0
<1>1. Hits(<<>>, M) = {}
  BY DEF Hits
<1> QED
  BY <1>1, FS_EmptySet, HowManyIsHits

LEMMA HowManyOfAppend ==
    ASSUME NEW T, NEW s \in Seq(T), NEW m \in T, NEW M
    PROVE  HowMany(Append(s, m), M) = HowMany(s, M) + IF m \in M THEN 1 ELSE 0
<1> DEFINE n == Len(s) + 1
<1>1. /\ n \notin DOMAIN s
      /\ DOMAIN Append(s, m) = DOMAIN s \cup {n}
      /\ \A k \in DOMAIN s : Append(s, m)[k] = s[k]
      /\ Append(s, m)[n] = m
  BY AppendProperties, LenProperties
<1> HIDE DEF n
<1>2. IsFiniteSet(Hits(s, M)) /\ Cardinality(Hits(s, M)) \in Nat
  BY HitsFinite
<1>3. CASE m \in M
  <2>1. Hits(Append(s, m), M) = Hits(s, M) \cup {n} /\ n \notin Hits(s, M)
    BY <1>1, <1>3 DEF Hits
  <2>2. Cardinality(Hits(s, M) \cup {n}) = Cardinality(Hits(s, M)) + 1
    BY <1>2, <2>1, FS_AddElement
  <2> QED
    BY <1>3, <2>1, <2>2, HowManyIsHits
<1>4. CASE m \notin M
  <2>1. Hits(Append(s, m), M) = Hits(s, M)
    BY <1>1, <1>4 DEF Hits
  <2> QED
    BY <1>2, <1>4, <2>1, HowManyIsHits
<1> QED
  BY <1>3, <1>4

LEMMA HowManyOfOne ==
    ASSUME NEW m, NEW M
    PROVE  HowMany(<<m>>, M) = IF m \in M THEN 1 ELSE 0
<1>1. <<>> \in Seq({m}) /\ Append(<<>>, m) = <<m>>
  BY EmptySeq
<1> DEFINE s == <<>>
<1>2. s \in Seq({m}) /\ m \in {m}
  BY <1>1
<1> HIDE DEF s
<1>3. HowMany(Append(s, m), M) = HowMany(s, M) + IF m \in M THEN 1 ELSE 0
  BY <1>2, HowManyOfAppend
<1> QED
  BY <1>1, <1>3, HowManyOfEmpty DEF s

LEMMA HowManyOfTail ==
    ASSUME NEW T, NEW s \in Seq(T), s # <<>>, NEW M
    PROVE  HowMany(s, M) = HowMany(Tail(s), M) + IF Head(s) \in M THEN 1 ELSE 0
<1> DEFINE K == Hits(s, M)
           L == Hits(Tail(s), M)
           shift == [k \in L |-> k + 1]
<1>1. /\ IsFiniteSet(K) /\ Cardinality(K) \in Nat
      /\ IsFiniteSet(L) /\ Cardinality(L) \in Nat
  BY HeadTailProperties, HitsFinite
<1>2. \A l \in L : l \in Nat /\ l + 1 \in K \ {1} /\ shift[l] = l + 1
  BY TailParts DEF Hits
<1>3. \A k \in K \ {1} : k \in Nat /\ k - 1 \in L /\ (k - 1) + 1 = k
  BY TailParts DEF Hits
<1>4. 1 \in K <=> Head(s) \in M
  BY TailParts DEF Hits
<1>5. shift \in [L -> K \ {1}]
  BY <1>2
<1>6. HowMany(s, M) = Cardinality(K) /\ HowMany(Tail(s), M) = Cardinality(L)
  BY HowManyIsHits
<1> HIDE DEF K, L, shift
<1>7. \A a, b \in L : shift[a] = shift[b] => a = b
  BY <1>2
<1>8. \A k \in K \ {1} : \E l \in L : shift[l] = k
  BY <1>2, <1>3
<1>9. ExistsBijection(L, K \ {1})
  <2>1. shift \in Bijection(L, K \ {1})
    BY <1>5, <1>7, <1>8, Fun_IsBij
  <2> QED
    BY <2>1 DEF ExistsBijection
<1>10. Cardinality(K \ {1}) = Cardinality(L)
  BY <1>1, <1>9, FS_Bijection
<1>11. Cardinality(K \ {1}) = IF 1 \in K THEN Cardinality(K) - 1 ELSE Cardinality(K)
  BY <1>1, FS_RemoveElement
<1> QED
  BY <1>1, <1>4, <1>6, <1>10, <1>11

\* A finite set counted with and without one of its elements.
LEMMA CountWithout ==
    ASSUME NEW S, IsFiniteSet(S), NEW x
    PROVE  /\ Cardinality(S \ {x}) \in Nat
           /\ Cardinality(S) = Cardinality(S \ {x}) + IF x \in S THEN 1 ELSE 0
<1>1. IsFiniteSet(S \ {x}) /\ Cardinality(S) \in Nat
  BY FS_RemoveElement, FS_CardinalityType
<1>2. Cardinality(S \ {x}) \in Nat
  BY <1>1, FS_CardinalityType
<1> QED
  BY <1>1, <1>2, FS_RemoveElement

-----------------------------------------------------------------------------
\* The parts of AccountsInv: about the rosters, about who relies on an entry.
RosterInv ==
    /\ OneMessageOfBuffer
    /\ OneLeaverAtATime
    /\ ShutdownIsLast
    /\ ShutdownFindsEmptyRoster

RelyInv ==
    /\ HoldersKeepTheirChannel
    /\ VerdictsStand

LEMMA AccountsInvParts ==
    /\ AccountsInv <=> /\ TypeInv /\ EntryInv /\ MasterNeverSendsOnClosed
                       /\ RosterInv /\ RelyInv /\ CountCoversDue
    /\ AccountsInv' <=> /\ TypeInv' /\ EntryInv' /\ MasterNeverSendsOnClosed'
                        /\ RosterInv' /\ RelyInv' /\ CountCoversDue'
  BY IInvParts DEF AccountsInv, RosterInv, RelyInv

LEMMA MailTypes ==
    ASSUME TypeInv
    PROVE  /\ masterQ \in Seq(ToMaster)
           /\ denialQ \in Seq(Denials)
           /\ memberCount \in [Channels -> Int]
           /\ memberList \in [Goroutines -> SUBSET Doppelgangers]
           /\ todo \in [Goroutines -> Seq(ChatSends)]
           /\ chatIn \in [Doppelgangers -> Seq(ToDoppelganger)]
           /\ status \in [Doppelgangers -> {"selecting", "blocked", "returned"}]
           /\ chatID \in [Doppelgangers -> Channels \cup {NoChannel, Joining}]
           /\ callback \in [Doppelgangers -> Goroutines \cup {NoGoroutine}]
  BY TypeInvParts DEF MasterTypeOK, ChatTypeOK, LoopInv, LoopTypeOK, MailTypeOK

\* The channel whose entry has goroutine i is the one i was launched for.
LEMMA InChargeOf ==
    ASSUME TypeInv, EntryInv, NEW c \in Channels, running[c] # NoGoroutine
    PROVE  /\ running[c] \in Goroutines
           /\ chanOf[running[c]] = c
           /\ chatState[running[c]] = "running"
           /\ ~HasShutdown(inbox[running[c]])
           /\ InCharge(running[c])
           /\ \A b \in Channels : running[b] = running[c] => b = c
<1>1. /\ running[c] \in Goroutines
      /\ \A b \in Channels : running[b] # NoGoroutine => chanOf[running[b]] = b
  BY TypeInvFacts DEF EntryInv, EntryIsLive
<1> QED
  BY <1>1 DEF EntryInv, EntryIsLive, InCharge

-----------------------------------------------------------------------------
\* The terms of Due(c).
DueTyped(c) ==
    /\ HowMany(masterTodo, SendsTo(c, "Join")) \in Nat
    /\ HowMany(inbox[running[c]], Posts("Join")) \in Nat
    /\ HowMany(todo[running[c]], Verdicts) \in Nat
    /\ HowMany(denialQ, DenialsBy(c)) \in Nat
    /\ HowMany(masterQ, ExitRequests(c)) \in Nat
    /\ HowMany(masterTodo, SendsTo(c, "Exit")) \in Nat
    /\ IsFiniteSet(Holders(c)) /\ Cardinality(Holders(c)) \in Nat
    /\ IsFiniteSet(Hearing(running[c])) /\ Cardinality(Hearing(running[c])) \in Nat
    /\ IsFiniteSet(Unclaimed(c)) /\ Cardinality(Unclaimed(c)) \in Nat
    /\ JoinsUnderWay(c) \in Nat
    /\ ExitsAsked(c) \in Nat
    /\ Claims(c) \in Nat
    /\ Due(c) \in Nat

LEMMA DueIsTyped ==
    TypeInv => \A c \in Channels : running[c] # NoGoroutine => DueTyped(c)
<1> SUFFICES ASSUME TypeInv, NEW c \in Channels, running[c] # NoGoroutine
             PROVE  DueTyped(c)
  OBVIOUS
<1>1. running[c] \in Goroutines
  BY TypeInvFacts
<1>2. /\ HowMany(masterTodo, SendsTo(c, "Join")) \in Nat
      /\ HowMany(masterTodo, SendsTo(c, "Exit")) \in Nat
  BY TypeInvFacts, HowManyType
<1>3. HowMany(inbox[running[c]], Posts("Join")) \in Nat
  <2>1. inbox[running[c]] \in Seq(ToChat)
    BY <1>1, TypeInvFacts
  <2> QED
    BY <2>1, HowManyType
<1>4. HowMany(todo[running[c]], Verdicts) \in Nat
  <2>1. todo[running[c]] \in Seq(ChatSends)
    BY <1>1, MailTypes
  <2> QED
    BY <2>1, HowManyType
<1>5. HowMany(denialQ, DenialsBy(c)) \in Nat
  BY MailTypes, HowManyType
<1>6. HowMany(masterQ, ExitRequests(c)) \in Nat
  BY MailTypes, HowManyType
<1>7. /\ Holders(c) \in SUBSET Doppelgangers
      /\ Hearing(running[c]) \in SUBSET Doppelgangers
      /\ Unclaimed(c) \in SUBSET Doppelgangers
  BY <1>1, MailTypes DEF Holders, Hearing, Unclaimed
<1>8. \A S \in SUBSET Doppelgangers : IsFiniteSet(S) /\ Cardinality(S) \in Nat
  BY IdsAssumption, FS_Subset, FS_CardinalityType DEF IdsAssumption
<1> QED
  <2>1. JoinsUnderWay(c) \in Nat /\ ExitsAsked(c) \in Nat
    BY <1>2, <1>3, <1>4, <1>5, <1>6 DEF JoinsUnderWay, ExitsAsked
  <2>2. Claims(c) \in Nat
    BY <1>7, <1>8 DEF Claims
  <2>3. Due(c) \in Nat
    BY <2>1, <2>2 DEF Due
  <2> QED
    BY <1>2, <1>3, <1>4, <1>5, <1>6, <1>7, <1>8, <2>1, <2>2, <2>3 DEF DueTyped

LEMMA DueTypes ==
    /\ TypeInv => \A c \in Channels : running[c] # NoGoroutine => DueTyped(c)
    /\ TypeInv' => \A c \in Channels : running'[c] # NoGoroutine => DueTyped(c)'
<1>1. (TypeInv => \A c \in Channels : running[c] # NoGoroutine => DueTyped(c))'
  BY DueIsTyped, PTL
<1> QED
  BY <1>1, DueIsTyped

LEMMA DueFrame ==
    ASSUME NEW c \in Channels, NEW i, i = running[c], running'[c] = i,
           UNCHANGED <<masterTodo, denialQ, masterQ, status, chatID, chatIn>>,
           inbox'[i] = inbox[i], todo'[i] = todo[i], memberList'[i] = memberList[i]
    PROVE  Due(c)' = Due(c)
  BY DEF Due, JoinsUnderWay, ExitsAsked, Claims, Holders, Hearing, Unclaimed, ExitAsked, ExitTaken

\* When nothing is due nobody is on the channel, about to be, or relying on it.
LEMMA NothingDue ==
    ASSUME TypeInv, NEW c \in Channels, running[c] # NoGoroutine, Due(c) = 0
    PROVE  /\ \A m \in ToSet(todo[running[c]]) : m \notin Verdicts
           /\ \A m \in ToSet(denialQ) : m \notin DenialsBy(c)
           /\ \A m \in ToSet(masterQ) : m \notin ExitRequests(c)
           /\ \A m \in ToSet(masterTodo) : m \notin SendsTo(c, "Exit")
           /\ Holders(c) = {} /\ Hearing(running[c]) = {} /\ Unclaimed(c) = {}
<1>1. /\ HowMany(todo[running[c]], Verdicts) = 0
      /\ HowMany(denialQ, DenialsBy(c)) = 0
      /\ HowMany(masterQ, ExitRequests(c)) = 0
      /\ HowMany(masterTodo, SendsTo(c, "Exit")) = 0
      /\ Cardinality(Holders(c)) = 0 /\ Cardinality(Hearing(running[c])) = 0
      /\ Cardinality(Unclaimed(c)) = 0
  <2>1. DueTyped(c)
    BY DueTypes
  <2>2. JoinsUnderWay(c) = 0 /\ ExitsAsked(c) = 0 /\ Claims(c) = 0
    BY <2>1 DEF DueTyped, Due
  <2>3. /\ HowMany(todo[running[c]], Verdicts) = 0
        /\ HowMany(denialQ, DenialsBy(c)) = 0
    BY <2>1, <2>2 DEF DueTyped, JoinsUnderWay
  <2>4. /\ HowMany(masterQ, ExitRequests(c)) = 0
        /\ HowMany(masterTodo, SendsTo(c, "Exit")) = 0
    BY <2>1, <2>2 DEF DueTyped, ExitsAsked
  <2>5. /\ Cardinality(Holders(c)) = 0 /\ Cardinality(Hearing(running[c])) = 0
        /\ Cardinality(Unclaimed(c)) = 0
    BY <2>1, <2>2 DEF DueTyped, Claims
  <2> QED
    BY <2>3, <2>4, <2>5
<1>2. Holders(c) = {} /\ Hearing(running[c]) = {} /\ Unclaimed(c) = {}
  BY <1>1, DueTypes, FS_EmptySet DEF DueTyped
<1>3. \A m \in ToSet(todo[running[c]]) : m \notin Verdicts
  <2>1. todo[running[c]] \in Seq(ChatSends)
    BY TypeInvFacts, MailTypes
  <2> QED
    BY <1>1, <2>1, HowManyType
<1>4. \A m \in ToSet(denialQ) : m \notin DenialsBy(c)
  BY <1>1, MailTypes, HowManyType
<1>5. \A m \in ToSet(masterQ) : m \notin ExitRequests(c)
  BY <1>1, MailTypes, HowManyType
<1>6. \A m \in ToSet(masterTodo) : m \notin SendsTo(c, "Exit")
  BY <1>1, TypeInvFacts, HowManyType
<1> QED
  BY <1>2, <1>3, <1>4, <1>5, <1>6
-----------------------------------------------------------------------------
\* The channel master.

LEMMA RosterFrame ==
    ASSUME RosterInv, UNCHANGED <<chatState, inbox, memberList, todo, chatIn>>
    PROVE  RosterInv'
  BY DEF RosterInv, OneMessageOfBuffer, OneLeaverAtATime, ShutdownIsLast,
         ShutdownFindsEmptyRoster, ExitTaken

(***************************************************************************)
(* The request h has been taken, and what the handler is going to send     *)
(* passes it on or is nothing.                                             *)
(***************************************************************************)
TakesRequest(h) ==
    /\ masterTodo = <<>> /\ masterQ # <<>> /\ h = Head(masterQ)
    /\ masterQ' = Tail(masterQ)
    /\ UNCHANGED <<running, denialQ, chatVars, doppVars>>

PassesOn(h, c) ==
    \/ masterTodo' = <<>> /\ h \notin ExitRequests(c)
    \/ masterTodo' = <<[op |-> h.op, who |-> h.from, chan |-> h.chan]>>

LEMMA DueAfterRequest ==
    ASSUME TypeInv, TypeInv', NEW h, TakesRequest(h),
           NEW c \in Channels, running[c] # NoGoroutine, PassesOn(h, c)
    PROVE  Due(c)' <= Due(c) + IF masterTodo' # <<>> /\ h.op = "Join" /\ h.chan = c
                               THEN 1 ELSE 0
<1> DEFINE next == [op |-> h.op, who |-> h.from, chan |-> h.chan]
           joins == IF masterTodo' # <<>> /\ h.op = "Join" /\ h.chan = c THEN 1 ELSE 0
           exits == IF masterTodo' # <<>> /\ h \in ExitRequests(c) THEN 1 ELSE 0
<1>0. h \in ToMaster /\ h.from \in Doppelgangers
  BY HeadOfMasterQ DEF ToMaster, TakesRequest
<1>1. /\ next \in SendsTo(c, "Join") <=> h.op = "Join" /\ h.chan = c
      /\ next \in SendsTo(c, "Exit") <=> h.op = "Exit" /\ h.chan = c
      /\ h \in ExitRequests(c) <=> h.op = "Exit" /\ h.chan = c
  <2>1. next.op = h.op /\ next.who = h.from /\ next.chan = h.chan
    OBVIOUS
  <2>2. h \in ExitRequests(c) <=> h.op = "Exit" /\ h.chan = c
    BY <1>0 DEF ToMaster, ExitRequests
  <2> QED
    BY <1>0, <2>2 DEF SendsTo
<1>2. masterTodo' = <<>> \/ masterTodo' = <<next>>
  BY DEF PassesOn
<1>3. masterTodo' = <<>> => h \notin ExitRequests(c)
  BY DEF PassesOn
<1> HIDE DEF next
<1>4. HowMany(masterTodo', SendsTo(c, "Join")) = joins
  BY <1>1, <1>2, HowManyOfEmpty, HowManyOfOne
<1>5. HowMany(masterTodo', SendsTo(c, "Exit")) = exits
  BY <1>1, <1>2, HowManyOfEmpty, HowManyOfOne
<1>6. /\ HowMany(masterTodo, SendsTo(c, "Join")) = 0
      /\ HowMany(masterTodo, SendsTo(c, "Exit")) = 0
  BY HowManyOfEmpty DEF TakesRequest
<1>u. UNCHANGED <<running, inbox, todo, denialQ>>
  BY DEF chatVars, TakesRequest
<1>7. HowMany(masterQ, ExitRequests(c)) = HowMany(masterQ', ExitRequests(c)) + exits
  <2>1. HowMany(masterQ, ExitRequests(c))
        = HowMany(masterQ', ExitRequests(c)) + IF h \in ExitRequests(c) THEN 1 ELSE 0
    BY MailTypes, HowManyOfTail DEF TakesRequest
  <2> QED
    BY <1>2, <1>3, <2>1
<1>8. Holders(c)' = Holders(c) /\ Hearing(running[c])' = Hearing(running[c])
  BY DEF Holders, Hearing, doppVars, TakesRequest
<1>9. Cardinality(Unclaimed(c)') <= Cardinality(Unclaimed(c))
  <2>1. ASSUME NEW d, ExitAsked(c, d)
        PROVE  ExitAsked(c, d)'
    <3>1. PICK m \in ToSet(masterQ) : m.op = "Exit" /\ m.chan = c /\ m.from = d
      BY <2>1, ToSetOfEmpty DEF ExitAsked, TakesRequest
    <3>2. CASE m = h
      <4>1. h \in ExitRequests(c)
        BY <1>1, <3>1, <3>2
      <4>2. masterTodo' = <<next>> /\ next.op = "Exit" /\ next.chan = c /\ next.who = d
        BY <1>2, <1>3, <3>1, <3>2, <4>1 DEF next
      <4> QED
        BY <4>2, ToSetOfOne DEF ExitAsked
    <3>3. CASE m # h
      <4>1. m \in ToSet(masterQ')
        BY <3>1, <3>3, MailTypes, ToSetOfTail DEF TakesRequest
      <4> QED
        BY <3>1, <4>1 DEF ExitAsked
    <3> QED
      BY <3>2, <3>3
  <2>2. Unclaimed(c)' \in SUBSET Unclaimed(c)
    BY <1>8, <2>1 DEF Unclaimed, ExitTaken, chatVars, TakesRequest
  <2> QED
    BY <2>2, <1>u, DueTypes, FS_Subset DEF DueTyped
<1>10. Cardinality(Unclaimed(c)') \in Nat /\ HowMany(masterQ', ExitRequests(c)) \in Nat
  BY <1>u, DueTypes DEF DueTyped
<1> HIDE DEF joins, exits
<1>11. joins \in Nat /\ exits \in Nat
  BY DEF joins, exits
<1>12. Due(c)' <= Due(c) + joins
  <2>1. DueTyped(c) /\ DueTyped(c)'
    BY <1>u, DueTypes
  <2>2. JoinsUnderWay(c)' = JoinsUnderWay(c) + joins
    BY <1>4, <1>6, <1>u, <1>11, <2>1 DEF DueTyped, JoinsUnderWay
  <2>3. ExitsAsked(c)' = ExitsAsked(c)
    BY <1>5, <1>6, <1>7, <1>11, <2>1 DEF DueTyped, ExitsAsked
  <2>4. Claims(c)' <= Claims(c)
    BY <1>8, <1>9, <1>u, <2>1 DEF DueTyped, Claims
  <2> QED
    BY <1>11, <2>1, <2>2, <2>3, <2>4 DEF DueTyped, Due
<1> QED
  BY <1>12 DEF joins

LEMMA RequestKeepsRely ==
    ASSUME TypeInv, RelyInv, NEW h, TakesRequest(h)
    PROVE  RelyInv'
<1>1. ToSet(masterQ') \subseteq ToSet(masterQ)
  BY MailTypes, ToSetOfTail DEF TakesRequest
<1>2. UNCHANGED <<running, denialQ, status, chatID, callback, todo, chatIn>>
  BY DEF TakesRequest, chatVars, doppVars
<1> QED
  BY <1>1, <1>2 DEF RelyInv, HoldersKeepTheirChannel, VerdictsStand, InCharge

LEMMA TakesRequestParts ==
    ASSUME TypeInv, NEW op, HeadIs(op), TakeRequest, UNCHANGED <<running, othersOfMaster>>
    PROVE  /\ TakesRequest(Head(masterQ))
           /\ UNCHANGED <<chatState, inbox, memberList, todo, chatIn>>
           /\ Head(masterQ) \in ToMaster /\ Head(masterQ).op = op
  BY HeadOfMasterQ DEF HeadIs, MasterIdle, TakeRequest, TakesRequest, othersOfMaster,
                       chatVars, doppVars

\* A handler that queues no Shutdown and counts nothing more than joins.
LEMMA RequestKeepsCounts ==
    ASSUME TypeInv, TypeInv', CountCoversDue, NEW h, TakesRequest(h),
           \A c \in Channels : running[c] # NoGoroutine => PassesOn(h, c),
           \A m \in ToSet(masterTodo') : m.op # "Shutdown",
           \A c \in Channels :
               memberCount'[c] = memberCount[c] +
                   IF masterTodo' # <<>> /\ h.op = "Join" /\ h.chan = c THEN 1 ELSE 0
    PROVE  CountCoversDue'
<1>1. UNCHANGED running
  BY DEF TakesRequest
<1> SUFFICES ASSUME NEW c \in Channels
             PROVE  IF running[c] = NoGoroutine THEN memberCount'[c] >= 0
                                                ELSE memberCount'[c] >= Due(c)'
  BY <1>1 DEF CountCoversDue
<1> DEFINE join == IF masterTodo' # <<>> /\ h.op = "Join" /\ h.chan = c THEN 1 ELSE 0
<1>2. memberCount[c] \in Int /\ memberCount'[c] = memberCount[c] + join
  BY MailTypes
<1>3. join \in 0 .. 1
  OBVIOUS
<1> HIDE DEF join
<1>4. CASE running[c] = NoGoroutine
  <2>1. memberCount[c] >= 0
    BY <1>4 DEF CountCoversDue
  <2> QED
    BY <1>2, <1>3, <1>4, <2>1
<1>5. CASE running[c] # NoGoroutine
  <2>1. Due(c)' <= Due(c) + join
    BY <1>5, DueAfterRequest DEF join
  <2>2. memberCount[c] >= Due(c)
    BY <1>5 DEF CountCoversDue
  <2>3. Due(c) \in Nat /\ Due(c)' \in Nat
    BY <1>1, <1>5, DueTypes DEF DueTyped
  <2> QED
    BY <1>2, <1>3, <1>5, <2>1, <2>2, <2>3
<1> QED
  BY <1>4, <1>5

LEMMA RefusalKeepsAccounts ==
    ASSUME TypeInv, TypeInv', RosterInv, RelyInv, CountCoversDue,
           MasterRefusesName \/ MasterLookupFails \/ MasterWho
    PROVE  RosterInv' /\ RelyInv' /\ CountCoversDue'
<1> DEFINE h == Head(masterQ)
<1>1. /\ TakesRequest(h) /\ UNCHANGED <<chatState, inbox, memberList, todo, chatIn>>
      /\ h \in ToMaster /\ h.op \in {"Join", "Who"} /\ UNCHANGED memberCount
  BY TakesRequestParts DEF MasterRefusesName, MasterLookupFails, MasterWho
<1>2. /\ masterTodo' = <<>> \/ masterTodo' = <<[op |-> h.op, who |-> h.from, chan |-> h.chan]>>
      /\ masterTodo' # <<>> => h.op # "Join"
  <2>1. CASE MasterRefusesName \/ MasterLookupFails
    BY <2>1 DEF MasterRefusesName, MasterLookupFails, HeadIs, MasterIdle
  <2>2. CASE MasterWho
    BY <2>2 DEF MasterWho, HeadIs
  <2> QED
    BY <2>1, <2>2
<1> HIDE DEF h
<1>3. \A c \in Channels : PassesOn(h, c)
  BY <1>1, <1>2 DEF PassesOn, ExitRequests
<1>4. \A m \in ToSet(masterTodo') : m.op # "Shutdown"
  BY <1>1, <1>2, ToSetOfEmpty, ToSetOfOne
<1>5. \A c \in Channels : memberCount'[c] = memberCount[c] +
          IF masterTodo' # <<>> /\ h.op = "Join" /\ h.chan = c THEN 1 ELSE 0
  BY <1>1, <1>2, MailTypes
<1> QED
  BY <1>1, <1>3, <1>4, <1>5, RosterFrame, RequestKeepsRely, RequestKeepsCounts

LEMMA ForwardKeepsAccounts ==
    ASSUME TypeInv, TypeInv', RosterInv, RelyInv, CountCoversDue,
           MasterForwardsJoin \/ MasterExit
    PROVE  RosterInv' /\ RelyInv' /\ CountCoversDue'
<1> DEFINE h == Head(masterQ)
           next == [op |-> h.op, who |-> h.from, chan |-> h.chan]
<1>1. /\ TakesRequest(h) /\ UNCHANGED <<chatState, inbox, memberList, todo, chatIn>>
      /\ h \in ToMaster /\ h.op \in {"Join", "Exit"}
  BY TakesRequestParts DEF MasterForwardsJoin, MasterExit
<1>2. /\ masterTodo' = <<next>>
      /\ memberCount' = IF h.op = "Join" THEN [memberCount EXCEPT ![h.chan] = @ + 1]
                                         ELSE memberCount
  BY DEF MasterForwardsJoin, MasterExit, HeadIs
<1>3. next.op \in {"Join", "Exit"}
  BY <1>1
<1>4. \A c \in Channels : PassesOn(h, c)
  BY <1>2 DEF PassesOn
<1> HIDE DEF h, next
<1>5. \A m \in ToSet(masterTodo') : m.op # "Shutdown"
  BY <1>2, <1>3, ToSetOfOne
<1>6. masterTodo' # <<>>
  BY <1>2
<1>7. \A c \in Channels : memberCount'[c] = memberCount[c] +
          IF masterTodo' # <<>> /\ h.op = "Join" /\ h.chan = c THEN 1 ELSE 0
  <2>1. memberCount \in [Channels -> Int]
    BY MailTypes
  <2> QED
    BY <1>2, <1>6, <2>1
<1> QED
  BY <1>1, <1>4, <1>5, <1>7, RosterFrame, RequestKeepsRely, RequestKeepsCounts

LEMMA ReturnKeepsAccounts ==
    ASSUME TypeInv, TypeInv', RosterInv, RelyInv, CountCoversDue, MasterReturns
    PROVE  RosterInv' /\ RelyInv' /\ CountCoversDue'
<1> DEFINE h == Head(masterQ)
<1>1. /\ TakesRequest(h) /\ UNCHANGED <<chatState, inbox, memberList, todo, chatIn>>
      /\ ~HasEntry(h.chan) /\ masterTodo' = <<>> /\ UNCHANGED memberCount
  BY DEF MasterReturns, TakesRequest, HeadIs, MasterIdle, othersOfMaster, chatVars,
         doppVars
<1> HIDE DEF h
<1>2. ASSUME NEW c \in Channels, running[c] # NoGoroutine
      PROVE  PassesOn(h, c)
  BY <1>1, <1>2 DEF PassesOn, ExitRequests, HasEntry
<1>3. \A m \in ToSet(masterTodo') : m.op # "Shutdown"
  BY <1>1, ToSetOfEmpty
<1>4. \A c \in Channels : memberCount'[c] = memberCount[c] +
          IF masterTodo' # <<>> /\ h.op = "Join" /\ h.chan = c THEN 1 ELSE 0
  BY <1>1, MailTypes
<1> QED
  BY <1>1, <1>2, <1>3, <1>4, RosterFrame, RequestKeepsRely, RequestKeepsCounts

LEMMA ReplyKeepsAccounts ==
    ASSUME TypeInv, RosterInv, RelyInv, CountCoversDue,
           UNCHANGED <<masterQ, denialQ, memberCount, running, masterTodo, chatState,
                       inbox, memberList, todo, status, chatID, callback, chatIn>>
    PROVE  RosterInv' /\ RelyInv' /\ CountCoversDue'
<1>1. RosterInv'
  BY RosterFrame
<1>2. RelyInv'
  BY DEF RelyInv, HoldersKeepTheirChannel, VerdictsStand, InCharge
<1>3. \A c \in Channels : Due(c)' = Due(c)
  BY DueFrame
<1>4. CountCoversDue'
  BY <1>3 DEF CountCoversDue
<1> QED
  BY <1>1, <1>2, <1>4

LEMMA DenialKeepsAccounts ==
    ASSUME TypeInv, TypeInv', RosterInv, RelyInv, CountCoversDue, MasterTakesDenial
    PROVE  RosterInv' /\ RelyInv' /\ CountCoversDue'
<1> DEFINE h == Head(denialQ)
           b == h.chan
           shutdown == [op |-> "Shutdown", who |-> h.from, chan |-> b]
           turn == /\ masterTodo = <<>> /\ denialQ # <<>> /\ h = Head(denialQ)
                   /\ denialQ' = Tail(denialQ)
                   /\ memberCount' = [memberCount EXCEPT ![b] = @ - 1]
                   /\ UNCHANGED <<masterQ, running, chatVars, doppVars>>
<1>0. h \in ToSet(denialQ) /\ h \in Denials /\ b \in Channels
  <2>1. h \in ToSet(denialQ) /\ h \in Denials
    BY MailTypes, ToSetType DEF MasterTakesDenial
  <2> QED
    BY <2>1 DEF Denials
<1>1. running[b] # NoGoroutine
  BY <1>0 DEF RelyInv, VerdictsStand
<1>2. /\ turn
      /\ masterTodo' = IF memberCount[b] = 1 THEN <<shutdown>> ELSE <<>>
  BY <1>0, <1>1 DEF MasterTakesDenial, HasEntry, MasterIdle, othersOfMaster
<1>3. /\ shutdown.op = "Shutdown" /\ shutdown.chan = b
      /\ \A c \in Channels : h \in DenialsBy(c) <=> b = c
  BY <1>0 DEF Denials, DenialsBy
<1> HIDE DEF shutdown, h, b, turn
<1>4. /\ RosterInv'
      /\ UNCHANGED <<running, inbox, todo, masterQ>>
      /\ memberCount' = [memberCount EXCEPT ![b] = @ - 1]
      /\ memberCount \in [Channels -> Int]
  BY <1>2, RosterFrame, MailTypes DEF turn, chatVars, doppVars
<1>5. RelyInv'
  <2>1. ToSet(denialQ') \subseteq ToSet(denialQ)
    BY <1>2, MailTypes, ToSetOfTail DEF turn
  <2>2. UNCHANGED <<masterQ, running, status, chatID, callback, todo, chatIn>>
    BY <1>2 DEF turn, chatVars, doppVars
  <2> QED
    BY <2>1, <2>2 DEF RelyInv, HoldersKeepTheirChannel, VerdictsStand, InCharge
<1>6. ASSUME NEW m \in ToSet(masterTodo')
      PROVE  m = shutdown /\ memberCount[b] = 1
  BY <1>2, <1>6, ToSetOfEmpty, ToSetOfOne
<1>7. ASSUME NEW c \in Channels, running[c] # NoGoroutine
      PROVE  Due(c)' + (IF b = c THEN 1 ELSE 0) = Due(c)
  <2> DEFINE one == IF b = c THEN 1 ELSE 0
  <2>1. /\ \A op \in {"Join", "Exit"} : HowMany(masterTodo, SendsTo(c, op)) = 0
        /\ \A op \in {"Join", "Exit"} : HowMany(masterTodo', SendsTo(c, op)) = 0
    <3>1. \A op \in {"Join", "Exit"} : shutdown \notin SendsTo(c, op)
      BY <1>3 DEF SendsTo
    <3> QED
      BY <1>2, <3>1, HowManyOfEmpty, HowManyOfOne DEF turn
  <2>2. HowMany(denialQ, DenialsBy(c)) = HowMany(denialQ', DenialsBy(c)) + one
    BY <1>2, <1>3, MailTypes, HowManyOfTail DEF turn
  <2>3. Claims(c)' = Claims(c)
    <3>1. ASSUME NEW d
          PROVE  ExitAsked(c, d)' <=> ExitAsked(c, d)
      BY <1>2, <1>3, <1>6, ToSetOfEmpty DEF ExitAsked, turn
    <3>2. Unclaimed(c)' = Unclaimed(c)
      BY <1>2, <3>1 DEF Unclaimed, Holders, Hearing, ExitTaken, turn, chatVars, doppVars
    <3>3. Holders(c)' = Holders(c) /\ Hearing(running[c])' = Hearing(running[c])
      BY <1>2 DEF Holders, Hearing, turn, doppVars
    <3> QED
      BY <3>2, <3>3 DEF Claims
  <2>4. DueTyped(c) /\ DueTyped(c)'
    BY <1>4, <1>7, DueTypes
  <2>5. one \in Nat
    OBVIOUS
  <2> HIDE DEF one
  <2>6. JoinsUnderWay(c) = JoinsUnderWay(c)' + one
    BY <1>4, <2>1, <2>2, <2>4, <2>5 DEF DueTyped, JoinsUnderWay
  <2>7. ExitsAsked(c) = ExitsAsked(c)'
    BY <1>4, <2>1, <2>4 DEF DueTyped, ExitsAsked
  <2>8. Due(c)' + one = Due(c)
    BY <2>3, <2>4, <2>5, <2>6, <2>7 DEF DueTyped, Due
  <2> QED
    BY <2>8 DEF one
<1>8. CountCoversDue'
  <2>1. ASSUME NEW c \in Channels
        PROVE  IF running[c] = NoGoroutine THEN memberCount'[c] >= 0
                                           ELSE memberCount'[c] >= Due(c)'
    <3>1. CASE running[c] = NoGoroutine
      BY <1>1, <1>4, <3>1 DEF CountCoversDue
    <3>2. CASE running[c] # NoGoroutine
      <4>1. memberCount'[c] = memberCount[c] - (IF b = c THEN 1 ELSE 0)
        BY <1>4
      <4>2. memberCount[c] >= Due(c) /\ memberCount[c] \in Int
        BY <1>4, <3>2 DEF CountCoversDue
      <4>3. Due(c) \in Nat /\ Due(c)' \in Nat
        BY <1>4, <3>2, DueTypes DEF DueTyped
      <4> QED
        BY <1>7, <3>2, <4>1, <4>2, <4>3
    <3> QED
      BY <3>1, <3>2
  <2>2. ASSUME NEW m \in ToSet(masterTodo')
        PROVE  memberCount'[m.chan] = 0
    BY <1>0, <1>3, <1>4, <1>6
  <2> QED
    BY <1>4, <2>1, <2>2 DEF CountCoversDue
<1> QED
  BY <1>4, <1>5, <1>8

(***************************************************************************)
(* The send of the message m the master's handler has queued, to the       *)
(* goroutine i behind the entry of m.chan.                                 *)
(***************************************************************************)
SendsOn(m, i) ==
    /\ masterTodo # <<>> /\ m = Head(masterTodo) /\ i = running[m.chan]
    /\ Len(inbox[i]) < 1
    /\ inbox' = [inbox EXCEPT ![i] = Append(@, [op |-> m.op, who |-> m.who])]
    /\ AfterMasterSend(m)
    /\ UNCHANGED <<masterQ, denialQ, chatState, memberList, todo, doppVars>>

Posted(m) == [op |-> m.op, who |-> m.who]

LEMMA SendsOnParts ==
    ASSUME TypeInv, EntryInv, NEW m, NEW i, SendsOn(m, i)
    PROVE  /\ m \in MasterSends /\ m.chan \in Channels /\ m.who \in Doppelgangers
           /\ masterTodo = <<m>>
           /\ i \in Goroutines /\ running[m.chan] = i /\ chatState[i] = "running"
           /\ inbox[i] = <<>> /\ inbox'[i] = <<Posted(m)>>
           /\ Posted(m).op = m.op /\ Posted(m).who = m.who
           /\ \A j \in Goroutines \ {i} : inbox'[j] = inbox[j]
           /\ \A c \in Channels : running[c] = i => c = m.chan
<1>1. /\ m \in MasterSends /\ m.chan \in Channels /\ i \in Goroutines
      /\ chatState[i] = "running" /\ i = running[m.chan]
  BY TheQueuedSend DEF SendsOn
<1>2. masterTodo = <<m>>
  <2>1. masterTodo \in Seq(MasterSends) /\ Len(masterTodo) <= 1
    BY TypeInvFacts DEF EntryInv, OneSendAtATime
  <2> QED
    BY <2>1, TailOfOne DEF SendsOn
<1>3. inbox \in [Goroutines -> Seq(ToChat)]
  BY TypeInvFacts
<1>4. inbox[i] = <<>>
  <2>1. inbox[i] \in Seq(ToChat) /\ Len(inbox[i]) \in Nat
    BY <1>1, <1>3, LenProperties
  <2> QED
    BY <2>1, EmptySeq DEF SendsOn
<1>5. inbox'[i] = Append(inbox[i], Posted(m))
  BY <1>1, <1>3 DEF SendsOn, Posted
<1>6. inbox'[i] = <<Posted(m)>>
  BY <1>4, <1>5
<1>7. \A c \in Channels : running[c] = i => c = m.chan
  BY <1>1, TypeInvFacts DEF EntryInv, EntryIsLive
<1> QED
  BY <1>1, <1>2, <1>3, <1>4, <1>6, <1>7 DEF SendsOn, MasterSends, Posted

\* Where the entry stays, the message is due as before, but for an exit, which is counted.
LEMMA DueAfterSend ==
    ASSUME TypeInv, TypeInv', EntryInv, NEW m, NEW i, SendsOn(m, i),
           NEW c \in Channels, running[c] # NoGoroutine, running'[c] = running[c]
    PROVE  Due(c)' + (IF m.op = "Exit" /\ m.chan = c THEN 1 ELSE 0) <= Due(c)
<1> DEFINE join == IF m.op = "Join" /\ m.chan = c THEN 1 ELSE 0
           exit == IF m.op = "Exit" /\ m.chan = c THEN 1 ELSE 0
           j == running[c]
           shutdown == [m EXCEPT !.op = "Shutdown"]
<1>1. /\ m \in MasterSends /\ masterTodo = <<m>>
      /\ i \in Goroutines /\ running[m.chan] = i
      /\ inbox[i] = <<>> /\ inbox'[i] = <<Posted(m)>>
      /\ Posted(m).op = m.op /\ Posted(m).who = m.who /\ m.who \in Doppelgangers
      /\ \A k \in Goroutines \ {i} : inbox'[k] = inbox[k]
      /\ running[c] = i <=> c = m.chan
  BY SendsOnParts
<1>2. j \in Goroutines
  BY TypeInvFacts
<1>3. /\ m \in SendsTo(c, "Join") <=> m.op = "Join" /\ m.chan = c
      /\ m \in SendsTo(c, "Exit") <=> m.op = "Exit" /\ m.chan = c
      /\ Posted(m) \in Posts("Join") <=> m.op = "Join"
  <2>1. /\ m \in SendsTo(c, "Join") <=> m.op = "Join" /\ m.chan = c
        /\ m \in SendsTo(c, "Exit") <=> m.op = "Exit" /\ m.chan = c
    BY <1>1 DEF MasterSends, SendsTo
  <2>2. Posted(m) \in Posts("Join") <=> m.op = "Join"
    BY <1>1 DEF Posted, Posts
  <2> QED
    BY <2>1, <2>2
<1>4. /\ HowMany(masterTodo, SendsTo(c, "Join")) = join
      /\ HowMany(masterTodo, SendsTo(c, "Exit")) = exit
  BY <1>1, <1>3, HowManyOfOne
<1>5. /\ shutdown.op = "Shutdown"
      /\ masterTodo' = <<>> \/ masterTodo' = <<shutdown>>
  BY <1>1, TheQueuedSend DEF MasterSends, SendsOn, AfterMasterSend
<1> HIDE DEF shutdown
<1>6. /\ HowMany(masterTodo', SendsTo(c, "Join")) = 0
      /\ HowMany(masterTodo', SendsTo(c, "Exit")) = 0
  <2>1. shutdown \notin SendsTo(c, "Join") /\ shutdown \notin SendsTo(c, "Exit")
    BY <1>5 DEF SendsTo
  <2> QED
    BY <1>5, <2>1, HowManyOfEmpty, HowManyOfOne
<1>7. HowMany(inbox'[j], Posts("Join")) = HowMany(inbox[j], Posts("Join")) + join
  <2>1. CASE c = m.chan
    <3>1. HowMany(inbox[i], Posts("Join")) = 0
      BY <1>1, HowManyOfEmpty
    <3>2. HowMany(inbox'[i], Posts("Join")) = join
      BY <1>1, <1>3, <2>1, HowManyOfOne
    <3> QED
      BY <1>1, <2>1, <3>1, <3>2
  <2>2. CASE c # m.chan
    <3>1. inbox'[j] = inbox[j] /\ join = 0
      BY <1>1, <1>2, <2>2
    <3>2. HowMany(inbox[j], Posts("Join")) \in Nat
      BY DueTypes DEF DueTyped
    <3> QED
      BY <3>1, <3>2
  <2> QED
    BY <2>1, <2>2
<1>8. Unclaimed(c)' \in SUBSET Unclaimed(c)
  <2>1. ASSUME NEW d \in Doppelgangers, ExitAsked(c, d) \/ ExitTaken(j, d)
        PROVE  ExitAsked(c, d)' \/ ExitTaken(j, d)'
    <3>1. CASE \E n \in ToSet(masterTodo) : n.op = "Exit" /\ n.chan = c /\ n.who = d
      <4>1. m.op = "Exit" /\ m.chan = c /\ m.who = d
        BY <1>1, <3>1, ToSetOfOne
      <4>2. Posted(m) \in ToSet(inbox'[j])
        BY <1>1, <4>1, ToSetOfOne
      <4> QED
        BY <1>1, <4>1, <4>2 DEF ExitTaken
    <3>2. CASE \E n \in ToSet(inbox[j]) : n.op = "Exit" /\ n.who = d
      <4>1. j # i
        BY <1>1, <3>2, ToSetOfEmpty
      <4> QED
        BY <1>1, <1>2, <3>2, <4>1 DEF ExitTaken
    <3>3. CASE \E n \in ToSet(masterQ) : n.op = "Exit" /\ n.chan = c /\ n.from = d
      BY <3>3 DEF ExitAsked, SendsOn
    <3>4. CASE \E n \in ToSet(todo[j]) : n.leaving = d
      BY <3>4 DEF ExitTaken, SendsOn
    <3> QED
      BY <2>1, <3>1, <3>2, <3>3, <3>4 DEF ExitAsked, ExitTaken
  <2>2. memberList[j] \in SUBSET Doppelgangers
    BY <1>2, MailTypes
  <2> QED
    BY <2>1, <2>2 DEF Unclaimed, Holders, Hearing, SendsOn, doppVars
<1>9. Holders(c)' = Holders(c) /\ Hearing(running[c])' = Hearing(running[c])
  BY DEF Holders, Hearing, SendsOn, doppVars
<1>10. UNCHANGED <<masterQ, denialQ, todo>>
  BY DEF SendsOn
<1>11. DueTyped(c) /\ DueTyped(c)'
  BY DueTypes
<1>12. join \in Nat /\ exit \in Nat
  OBVIOUS
<1> HIDE DEF join, exit, j
<1>13. JoinsUnderWay(c)' = JoinsUnderWay(c)
  <2>1. JoinsUnderWay(c)' = HowMany(masterTodo', SendsTo(c, "Join"))
          + HowMany(inbox'[j], Posts("Join")) + HowMany(todo[j], Verdicts)
          + HowMany(denialQ, DenialsBy(c))
    BY <1>10 DEF JoinsUnderWay, j
  <2>2. JoinsUnderWay(c) = HowMany(masterTodo, SendsTo(c, "Join"))
          + HowMany(inbox[j], Posts("Join")) + HowMany(todo[j], Verdicts)
          + HowMany(denialQ, DenialsBy(c))
    BY DEF JoinsUnderWay, j
  <2>3. /\ HowMany(inbox[j], Posts("Join")) \in Nat
        /\ HowMany(todo[j], Verdicts) \in Nat
        /\ HowMany(denialQ, DenialsBy(c)) \in Nat
    BY <1>11 DEF DueTyped, j
  <2> QED
    BY <1>4, <1>6, <1>7, <1>12, <2>1, <2>2, <2>3
<1>14. ExitsAsked(c)' + exit = ExitsAsked(c)
  BY <1>4, <1>6, <1>10, <1>11, <1>12 DEF DueTyped, ExitsAsked
<1>15. Claims(c)' <= Claims(c)
  <2>1. Cardinality(Unclaimed(c)') <= Cardinality(Unclaimed(c))
    BY <1>8, <1>11, FS_Subset DEF DueTyped
  <2> QED
    BY <1>9, <1>11, <2>1 DEF DueTyped, Claims
<1>16. Due(c)' + exit <= Due(c)
  BY <1>11, <1>12, <1>13, <1>14, <1>15 DEF DueTyped, Due
<1> QED
  BY <1>16 DEF exit

LEMMA SendKeepsCounts ==
    ASSUME TypeInv, TypeInv', EntryInv, CountCoversDue, NEW m, NEW i, SendsOn(m, i)
    PROVE  CountCoversDue'
<1> DEFINE b == m.chan
           shutdown == [m EXCEPT !.op = "Shutdown"]
<1>1. /\ m \in MasterSends /\ b \in Channels /\ masterTodo = <<m>>
      /\ running[b] # NoGoroutine /\ Tail(masterTodo) = <<>>
  BY SendsOnParts, TheQueuedSend, TypeInvFacts DEF SendsOn
<1>2. /\ memberCount \in [Channels -> Int]
      /\ running \in [Channels -> Goroutines \cup {NoGoroutine}]
  BY MailTypes, TypeInvFacts
<1>3. /\ shutdown.op = "Shutdown" /\ shutdown.chan = b
      /\ masterTodo' = IF m.op = "Exit" /\ memberCount[b] = 1 THEN <<shutdown>> ELSE <<>>
      /\ memberCount' = IF m.op = "Exit" THEN [memberCount EXCEPT ![b] = @ - 1]
                                         ELSE memberCount
      /\ running' = IF m.op = "Shutdown" THEN [running EXCEPT ![b] = NoGoroutine]
                                         ELSE running
  BY <1>1 DEF SendsOn, AfterMasterSend, MasterSends
<1>4. m.op = "Shutdown" => memberCount[b] = 0
  BY <1>1, ToSetOfOne DEF CountCoversDue
<1> HIDE DEF shutdown, b
<1>5. ASSUME NEW c \in Channels
      PROVE  IF running'[c] = NoGoroutine THEN memberCount'[c] >= 0
                                          ELSE memberCount'[c] >= Due(c)'
  <2>1. CASE running[c] = NoGoroutine
    <3>1. running'[c] = NoGoroutine /\ memberCount'[c] = memberCount[c]
      BY <1>1, <1>2, <1>3, <2>1
    <3> QED
      BY <2>1, <3>1 DEF CountCoversDue
  <2>2. CASE running[c] # NoGoroutine /\ m.op = "Shutdown" /\ c = b
    BY <1>2, <1>3, <1>4, <2>2
  <2>3. CASE running[c] # NoGoroutine /\ ~(m.op = "Shutdown" /\ c = b)
    <3>1. running'[c] = running[c]
      BY <1>1, <1>2, <1>3, <2>3
    <3>2. Due(c)' + (IF m.op = "Exit" /\ b = c THEN 1 ELSE 0) <= Due(c)
      BY <2>3, <3>1, DueAfterSend DEF b
    <3>3. memberCount'[c] = memberCount[c] - IF m.op = "Exit" /\ b = c THEN 1 ELSE 0
      BY <1>1, <1>2, <1>3
    <3>4. memberCount[c] >= Due(c) /\ memberCount[c] \in Int
      BY <1>2, <2>3 DEF CountCoversDue
    <3>5. Due(c) \in Nat /\ Due(c)' \in Nat
      BY <2>3, <3>1, DueTypes DEF DueTyped
    <3> QED
      BY <2>3, <3>1, <3>2, <3>3, <3>4, <3>5
  <2> QED
    BY <2>1, <2>2, <2>3
<1>6. ASSUME NEW n \in ToSet(masterTodo')
      PROVE  n.op = "Shutdown" => memberCount'[n.chan] = 0
  <2>1. n = shutdown /\ m.op = "Exit" /\ memberCount[b] = 1
    BY <1>3, <1>6, ToSetOfEmpty, ToSetOfOne
  <2> QED
    BY <1>1, <1>2, <1>3, <2>1
<1> QED
  BY <1>5, <1>6 DEF CountCoversDue

\* The Shutdown is sent when nothing is due: whoever is left is being announced.
LEMMA ShutdownSent ==
    ASSUME TypeInv, EntryInv, CountCoversDue, NEW m, NEW i, SendsOn(m, i),
           m.op = "Shutdown"
    PROVE  /\ Due(m.chan) = 0
           /\ running' = [running EXCEPT ![m.chan] = NoGoroutine]
           /\ \A d \in memberList[i] : ExitTaken(i, d)'
<1> DEFINE b == m.chan
<1>1. /\ m \in MasterSends /\ b \in Channels /\ masterTodo = <<m>> /\ i \in Goroutines
      /\ running[b] = i /\ running[b] # NoGoroutine /\ inbox[i] = <<>>
  BY SendsOnParts, TypeInvFacts
<1>2. Due(b) = 0
  <2>1. memberCount[b] = 0
    BY <1>1, ToSetOfOne DEF CountCoversDue
  <2>2. Due(b) \in Nat
    BY <1>1, DueTypes DEF DueTyped
  <2> QED
    BY <1>1, <2>1, <2>2 DEF CountCoversDue
<1>3. ASSUME NEW d \in memberList[i]
      PROVE  ExitTaken(i, d)'
  <2>1. d \in Doppelgangers
    BY <1>1, MailTypes
  <2>2. Holders(b) = {} /\ Hearing(i) = {} /\ d \notin Unclaimed(b)
    BY <1>1, <1>2, NothingDue
  <2>3. ExitAsked(b, d) \/ ExitTaken(i, d)
    BY <1>1, <1>3, <2>1, <2>2 DEF Unclaimed
  <2>4. ~ExitAsked(b, d)
    <3>1. ASSUME NEW n \in ToSet(masterQ), n.op = "Exit", n.chan = b
          PROVE  FALSE
      <4>1. n \in ToMaster
        BY MailTypes, ToSetType
      <4>2. n \in ExitRequests(b)
        BY <3>1, <4>1 DEF ToMaster, ExitRequests
      <4> QED
        BY <1>1, <1>2, <4>2, NothingDue
    <3> QED
      BY <1>1, <3>1, ToSetOfOne DEF ExitAsked
  <2>5. \E n \in ToSet(todo[i]) : n.leaving = d
    BY <1>1, <2>3, <2>4, ToSetOfEmpty DEF ExitTaken
  <2> QED
    BY <2>5 DEF ExitTaken, SendsOn
<1>4. running' = [running EXCEPT ![b] = NoGoroutine]
  BY DEF SendsOn, AfterMasterSend
<1> QED
  BY <1>2, <1>3, <1>4

LEMMA SendKeepsRosters ==
    ASSUME TypeInv, EntryInv, RosterInv, CountCoversDue, NEW m, NEW i, SendsOn(m, i)
    PROVE  RosterInv'
<1>1. /\ i \in Goroutines /\ m \in MasterSends /\ inbox'[i] = <<Posted(m)>>
      /\ inbox[i] = <<>> /\ chatState[i] = "running"
      /\ Posted(m).op = m.op /\ \A j \in Goroutines \ {i} : inbox'[j] = inbox[j]
  BY SendsOnParts
<1>2. UNCHANGED <<chatState, memberList, todo, chatIn>>
  BY DEF SendsOn, doppVars
<1>3. OneMessageOfBuffer'
  <2>1. Len(inbox'[i]) <= 1
    BY <1>1
  <2> QED
    BY <1>1, <1>2, <2>1 DEF RosterInv, OneMessageOfBuffer
<1>4. OneLeaverAtATime' /\ ShutdownFindsEmptyRoster'
  BY <1>2 DEF RosterInv, OneLeaverAtATime, ShutdownFindsEmptyRoster
<1>5. ShutdownIsLast'
  <2> SUFFICES ASSUME NEW j \in Goroutines
               PROVE  /\ chatState[j] = "unborn" => memberList[j] = {} /\ todo[j] = <<>>
                      /\ HasShutdown(inbox'[j]) =>
                            \A d \in memberList[j] : ExitTaken(j, d)'
    BY <1>2 DEF ShutdownIsLast
  <2>1. CASE j = i
    <3>1. HasShutdown(inbox'[i]) => m.op = "Shutdown"
      BY <1>1 DEF HasShutdown
    <3> QED
      BY <1>1, <2>1, <3>1, ShutdownSent
  <2>2. CASE j # i
    BY <1>1, <1>2, <2>2 DEF RosterInv, ShutdownIsLast, ExitTaken
  <2> QED
    BY <2>1, <2>2
<1> QED
  BY <1>3, <1>4, <1>5 DEF RosterInv

LEMMA SendKeepsRely ==
    ASSUME TypeInv, EntryInv, RosterInv, RelyInv, CountCoversDue,
           NEW m, NEW i, SendsOn(m, i)
    PROVE  RelyInv'
<1> DEFINE b == m.chan
<1>1. UNCHANGED <<masterQ, denialQ, status, chatID, callback, todo, chatIn>>
  BY DEF SendsOn, doppVars
<1>2. /\ b \in Channels /\ running[b] = i /\ i \in Goroutines /\ running[b] # NoGoroutine
      /\ running \in [Channels -> Goroutines \cup {NoGoroutine}]
  BY SendsOnParts, TypeInvFacts
<1>3. CASE m.op # "Shutdown"
  <2>1. running' = running
    BY <1>3 DEF SendsOn, AfterMasterSend
  <2> QED
    BY <1>1, <2>1 DEF RelyInv, HoldersKeepTheirChannel, VerdictsStand, InCharge
<1>4. CASE m.op = "Shutdown"
  <2>1. /\ Due(b) = 0 /\ running' = [running EXCEPT ![b] = NoGoroutine]
    BY <1>4, ShutdownSent
  <2>2. \A c \in Channels : c # b => running'[c] = running[c]
    BY <1>2, <2>1
  <2>3. /\ \A n \in ToSet(todo[i]) : n \notin Verdicts
        /\ \A n \in ToSet(denialQ) : n \notin DenialsBy(b)
        /\ \A n \in ToSet(masterQ) : n \notin ExitRequests(b)
        /\ Holders(b) = {} /\ Hearing(i) = {}
    BY <1>2, <2>1, NothingDue
  <2>4. \A j \in Goroutines : j # i /\ InCharge(j) => InCharge(j)'
    BY <1>2, <2>2 DEF InCharge
  <2> HIDE DEF b
  <2>5. ASSUME NEW d \in Doppelgangers, chatID[d] \in Channels, status[d] # "returned"
        PROVE  /\ running'[chatID[d]] # NoGoroutine
               /\ running'[chatID[d]] = callback[d]
    <3>1. chatID[d] # b
      BY <2>3, <2>5 DEF Holders
    <3> QED
      BY <2>2, <2>5, <3>1 DEF RelyInv, HoldersKeepTheirChannel
  <2>6. ASSUME NEW n \in ToSet(masterQ), n.op = "Exit", n.chan \in Channels
        PROVE  running'[n.chan] # NoGoroutine
    <3>1. n \in ToMaster
      BY MailTypes, ToSetType
    <3>2. n \in ExitRequests(n.chan)
      BY <2>6, <3>1 DEF ToMaster, ExitRequests
    <3>3. n.chan # b
      BY <2>3, <3>2
    <3> QED
      BY <2>2, <2>6, <3>3 DEF RelyInv, HoldersKeepTheirChannel
  <2>7. ASSUME NEW j \in Goroutines, NEW n \in ToSet(todo[j]), n.op \in {"Joined", "Denial"}
        PROVE  InCharge(j)'
    <3>1. todo[j] \in Seq(ChatSends)
      BY MailTypes
    <3>2. n \in ChatSends
      BY <3>1, ToSetType
    <3>3. n.leaving = Nobody
      BY <2>7 DEF RosterInv, OneLeaverAtATime
    <3>4. n \in Verdicts
      BY <2>7, <3>2, <3>3 DEF ChatSends, Verdicts
    <3> QED
      BY <2>3, <2>4, <2>7, <3>4 DEF RelyInv, VerdictsStand
  <2>8. ASSUME NEW d \in Doppelgangers, NEW n \in ToSet(chatIn[d]), n.op = "Joined"
        PROVE  InCharge(n.by)'
    <3>1. chatIn[d] \in Seq(ToDoppelganger)
      BY MailTypes
    <3>2. n.by \in Goroutines
      <4>1. n \in ToDoppelganger
        BY <3>1, ToSetType
      <4> QED
        BY <4>1 DEF ToDoppelganger
    <3>3. n.by # i
      BY <2>3, <2>8 DEF Hearing
    <3> QED
      BY <2>4, <2>8, <3>2, <3>3 DEF RelyInv, VerdictsStand
  <2>9. ASSUME NEW n \in ToSet(denialQ)
        PROVE  running'[n.chan] # NoGoroutine
    <3>1. n \in Denials
      BY MailTypes, ToSetType
    <3>2. n.chan \in Channels /\ n \in DenialsBy(n.chan)
      BY <3>1 DEF Denials, DenialsBy
    <3>3. n.chan # b
      BY <2>3, <3>2
    <3> QED
      BY <2>2, <3>2, <3>3 DEF RelyInv, VerdictsStand
  <2> QED
    BY <1>1, <2>5, <2>6, <2>7, <2>8, <2>9
    DEF RelyInv, HoldersKeepTheirChannel, VerdictsStand
<1> QED
  BY <1>3, <1>4

LEMMA SendKeepsAccounts ==
    ASSUME TypeInv, TypeInv', EntryInv, RosterInv, RelyInv, CountCoversDue,
           MasterSendsToChat
    PROVE  RosterInv' /\ RelyInv' /\ CountCoversDue'
<1> DEFINE m == Head(masterTodo)
           i == running[m.chan]
<1>1. SendsOn(m, i)
  <2>1. chatState[i] # "returned" /\ masterTodo # <<>>
    BY TheQueuedSend DEF MasterSendsToChat
  <2> QED
    BY <2>1 DEF MasterSendsToChat, SendsOn
<1> HIDE DEF m, i
<1> QED
  BY <1>1, SendKeepsCounts, SendKeepsRosters, SendKeepsRely
=============================================================================
