----------------------- MODULE ChatMembershipProofs -----------------------
(***************************************************************************)
(* The chat implements Membership, where users are patient: proved for any *)
(* number of them, of channels and of goroutines and any sizes.            *)
(*                                                                         *)
(* PatientInv says that of each user one join or exit is under way at      *)
(* most, so that the sets the refinement mapping collects from the go      *)
(* channels have one element or none.  A step of a goroutine then moves a  *)
(* wish or a word of one user from one go channel to the next, which       *)
(* leaves what the mapping says of him as it was, or it decides on the     *)
(* wish, or it is the user's hearing of the word; and it leaves the other  *)
(* users alone.                                                            *)
(***************************************************************************)
EXTENDS ChatPatienceProofs, ChatMembership

-----------------------------------------------------------------------------
(***************************************************************************)
(* What d has asked for and is to be told, place by place.                 *)
(***************************************************************************)
AsksFor(m) == IF m.op = "Join" THEN m.chan ELSE Leave

WishQueued(d, x) == \E m \in ToSet(masterQ) : m.op # "Who" /\ m.from = d /\ x = AsksFor(m)
WishHeld(d, x) == \E m \in ToSet(masterTodo) : m.op \in Kinds /\ m.who = d /\ x = AsksFor(m)
WishPosted(i, d, x) ==
    \E m \in ToSet(inbox[i]) :
        m.op \in Kinds /\ m.who = d /\ x = IF m.op = "Join" THEN chanOf[i] ELSE Leave

Wishes(d, x) == WishQueued(d, x) \/ WishHeld(d, x) \/ \E i \in Goroutines : WishPosted(i, d, x)

Word(d, m, v) ==
    \/ v = "in" /\ m.op = "Joined"
    \/ v = "refused" /\ m.op = "JoinDenied"
    \/ v = "out" /\ m.op = "TextExit" /\ m.leaving = d

WordSpoken(i, d, v) == \E m \in ToSet(todo[i]) : m.to = d /\ Word(d, m, v)
WordMailed(d, v) == \E m \in ToSet(chatIn[d]) : Word(d, m, v)
WordReplied(d, v) == v = "refused" /\ (d \in ToSet(masterReplies) \/ replyIn[d] > 0)

Words(d, v) == WordMailed(d, v) \/ WordReplied(d, v) \/ \E i \in Goroutines : WordSpoken(i, d, v)

LEMMA WishesAre ==
    \A d \in Doppelgangers : \A x : x \in requestOf[d] <=> Wishes(d, x)
<1> SUFFICES ASSUME NEW d \in Doppelgangers, NEW x
             PROVE  x \in requestOf[d] <=> Wishes(d, x)
    OBVIOUS
<1>1. requestOf[d] = AskedOfMaster(d) \cup UNION { AskedOfChat(d, i) : i \in Goroutines }
    BY DEF requestOf
<1>2. x \in AskedOfMaster(d) <=> WishQueued(d, x) \/ WishHeld(d, x)
    BY DEF AskedOfMaster, WishQueued, WishHeld, AsksFor, Kinds
<1>3. \A i \in Goroutines : x \in AskedOfChat(d, i) <=> WishPosted(i, d, x)
    BY DEF AskedOfChat, WishPosted, Kinds
<1> QED
    BY <1>1, <1>2, <1>3 DEF Wishes

LEMMA WordsAre ==
    \A d \in Doppelgangers : \A v : v \in verdictOf[d] <=> Words(d, v)
<1> SUFFICES ASSUME NEW d \in Doppelgangers, NEW v
             PROVE  v \in verdictOf[d] <=> Words(d, v)
    OBVIOUS
<1>1. verdictOf[d] =
        AnswersTo(d, ToSet(chatIn[d]))
        \cup (IF d \in ToSet(masterReplies) \/ replyIn[d] > 0 THEN {"refused"} ELSE {})
        \cup UNION { AnswersTo(d, { x \in ToSet(todo[i]) : x.to = d }) : i \in Goroutines }
    BY DEF verdictOf
<1>2. \A ms : v \in AnswersTo(d, ms) <=> \E m \in ms : Word(d, m, v)
    BY DEF AnswersTo, Word
<1>3. \A i \in Goroutines :
        v \in AnswersTo(d, { x \in ToSet(todo[i]) : x.to = d }) <=> WordSpoken(i, d, v)
    BY <1>2 DEF WordSpoken
<1>4. v \in AnswersTo(d, ToSet(chatIn[d])) <=> WordMailed(d, v)
    BY <1>2 DEF WordMailed
<1> QED
    BY <1>1, <1>3, <1>4 DEF Words, WordReplied

LEMMA LedgerNext ==
    /\ \A d \in Doppelgangers : \A x : x \in requestOf'[d] <=> Wishes(d, x)'
    /\ \A d \in Doppelgangers : \A v : v \in verdictOf'[d] <=> Words(d, v)'
<1>1. (\A d \in Doppelgangers : \A x : x \in requestOf[d] <=> Wishes(d, x))'
    BY WishesAre, PTL
<1>2. (\A d \in Doppelgangers : \A v : v \in verdictOf[d] <=> Words(d, v))'
    BY WordsAre, PTL
<1> QED
    BY <1>1, <1>2
-----------------------------------------------------------------------------
(***************************************************************************)
(* A wish is a matter on its way to be decided, a word one that has been.  *)
(* As a matter is in one place, and there once, a user has one wish or one *)
(* word, and not both.                                                     *)
(***************************************************************************)
KindOfWish(x) == IF x = Leave THEN "Exit" ELSE "Join"
KindOfWord(v) == IF v = "out" THEN "Exit" ELSE "Join"

LEMMA WishPlaced ==
    ASSUME PatientInv, NEW d \in Doppelgangers, NEW x
    PROVE  /\ WishQueued(d, x) => MatterAt(KindOfWish(x), d, "queue", NoGoroutine)
           /\ WishHeld(d, x) =>
                MatterAt(KindOfWish(x), d, "master", NoGoroutine) /\ masterReplies = <<>>
           /\ \A i \in Goroutines :
                WishPosted(i, d, x) => MatterAt(KindOfWish(x), d, "inbox", i)
<1>1. /\ TypeInv /\ EntryInv /\ NothingBehind
      /\ masterQ \in Seq(ToMaster) /\ masterTodo \in Seq(MasterSends)
      /\ inbox \in [Goroutines -> Seq(ToChat)]
    BY PatientParts, MailTypes, TypeInvFacts
<1>2. Leave \notin Channels /\ Leave # Nowhere
    BY LeaveAssumption
<1>3. ASSUME WishQueued(d, x)
      PROVE  MatterAt(KindOfWish(x), d, "queue", NoGoroutine)
    <2>1. PICK m \in ToSet(masterQ) : m.op # "Who" /\ m.from = d /\ x = AsksFor(m)
        BY <1>3 DEF WishQueued
    <2>2. m \in ToMaster
        BY <1>1, <2>1, ToSetType
    <2>3. m.op = KindOfWish(x)
        BY <1>2, <2>1, <2>2 DEF ToMaster, AsksFor, KindOfWish
    <2> QED
        BY <2>1, <2>3 DEF MatterAt, QueuedFor
<1>4. ASSUME WishHeld(d, x)
      PROVE  MatterAt(KindOfWish(x), d, "master", NoGoroutine) /\ masterReplies = <<>>
    <2>1. PICK m \in ToSet(masterTodo) : m.op \in Kinds /\ m.who = d /\ x = AsksFor(m)
        BY <1>4 DEF WishHeld
    <2>2. m \in MasterSends
        BY <1>1, <2>1, ToSetType
    <2>3. m.op = KindOfWish(x)
        BY <1>2, <2>1, <2>2 DEF MasterSends, AsksFor, KindOfWish, Kinds
    <2>4. masterTodo # <<>>
        BY <2>1, ToSetOfEmpty
    <2> QED
        BY <1>1, <2>1, <2>3, <2>4 DEF MatterAt, HeldFor, NothingBehind
<1>5. ASSUME NEW i \in Goroutines, WishPosted(i, d, x)
      PROVE  MatterAt(KindOfWish(x), d, "inbox", i)
    <2>1. PICK m \in ToSet(inbox[i]) :
            m.op \in Kinds /\ m.who = d /\ x = IF m.op = "Join" THEN chanOf[i] ELSE Leave
        BY <1>5 DEF WishPosted
    <2>2. inbox[i] # <<>>
        BY <2>1, ToSetOfEmpty
    <2>3. chatState[i] # "unborn"
        BY <1>1, <2>2 DEF EntryInv, UnbornAreUnused
    <2>4. chanOf[i] \in Channels
        BY <1>1, <2>3, TypeInvFacts
    <2>5. m.op = KindOfWish(x)
        BY <1>2, <2>1, <2>4 DEF KindOfWish, Kinds
    <2> QED
        BY <2>1, <2>5 DEF MatterAt, PostedFor
<1> QED
    BY <1>3, <1>4, <1>5

LEMMA WordPlaced ==
    ASSUME PatientInv, NEW d \in Doppelgangers, NEW v
    PROVE  /\ WordMailed(d, v) => MatterAt(KindOfWord(v), d, "mail", NoGoroutine)
           /\ WordReplied(d, v) =>
                \/ MatterAt("Join", d, "reply", NoGoroutine)
                \/ MatterAt("Join", d, "master", NoGoroutine) /\ masterReplies # <<>>
           /\ \A i \in Goroutines :
                WordSpoken(i, d, v) => MatterAt(KindOfWord(v), d, "handler", i)
<1>1. ASSUME NEW m, Word(d, m, v)
      PROVE  Ends(KindOfWord(v), d, m)
    BY <1>1 DEF Word, Ends, KindOfWord
<1>2. WordMailed(d, v) => MatterAt(KindOfWord(v), d, "mail", NoGoroutine)
    BY <1>1 DEF WordMailed, MatterAt, MailedTo
<1>3. \A i \in Goroutines : WordSpoken(i, d, v) => MatterAt(KindOfWord(v), d, "handler", i)
    BY <1>1 DEF WordSpoken, MatterAt, HandledFor
<1>4. d \in ToSet(masterReplies) =>
        MatterAt("Join", d, "master", NoGoroutine) /\ masterReplies # <<>>
    BY ToSetOfEmpty DEF MatterAt, HeldFor
<1>5. replyIn[d] > 0 => MatterAt("Join", d, "reply", NoGoroutine)
    BY DEF MatterAt, RepliedTo
<1> QED
    BY <1>2, <1>3, <1>4, <1>5 DEF WordReplied

\* A matter of d in two places is the same one.
LEMMA SameMatter ==
    ASSUME OneMatter, NEW d \in Doppelgangers, NEW o \in Kinds, NEW o2 \in Kinds,
           NEW p \in Places, NEW p2 \in Places, NEW i \in Whereabouts, NEW i2 \in Whereabouts,
           MatterAt(o, d, p, i), MatterAt(o2, d, p2, i2)
    PROVE  o2 = o /\ p2 = p /\ i2 = i
BY DEF OneMatter

LEMMA SetOfOne ==
    ASSUME NEW T, NEW s \in Seq(T), Len(s) <= 1, NEW m \in ToSet(s), NEW n \in ToSet(s)
    PROVE  m = n
<1>1. s # <<>>
    BY ToSetOfEmpty
<1> QED
    BY <1>1, TailOfOne

LEMMA OneInPlace ==
    ASSUME PatientInv, NEW d \in Doppelgangers, NEW x, NEW y
    PROVE  /\ WishQueued(d, x) /\ WishQueued(d, y) => x = y
           /\ WishHeld(d, x) /\ WishHeld(d, y) => x = y
           /\ \A i \in Goroutines : WishPosted(i, d, x) /\ WishPosted(i, d, y) => x = y
           /\ WordMailed(d, x) /\ WordMailed(d, y) => x = y
           /\ WordReplied(d, x) /\ WordReplied(d, y) => x = y
           /\ \A i \in Goroutines : WordSpoken(i, d, x) /\ WordSpoken(i, d, y) => x = y
<1>1. /\ EntryInv /\ RosterInv /\ NothingBehind
      /\ masterQ \in Seq(ToMaster) /\ masterTodo \in Seq(MasterSends)
      /\ inbox \in [Goroutines -> Seq(ToChat)]
      /\ chatIn \in [Doppelgangers -> Seq(ToDoppelganger)]
      /\ todo \in [Goroutines -> Seq(ChatSends)]
    BY PatientParts, MailTypes, TypeInvFacts
<1>2. ASSUME WishQueued(d, x), WishQueued(d, y)
      PROVE  x = y
    <2>1. PICK m \in ToSet(masterQ) : m.op # "Who" /\ m.from = d /\ x = AsksFor(m)
        BY <1>2 DEF WishQueued
    <2>2. PICK n \in ToSet(masterQ) : n.op # "Who" /\ n.from = d /\ y = AsksFor(n)
        BY <1>2 DEF WishQueued
    <2>3. PICK k \in DOMAIN masterQ : masterQ[k] = m
        BY DEF ToSet
    <2>4. PICK l \in DOMAIN masterQ : masterQ[l] = n
        BY DEF ToSet
    <2>5. ~(k < l) /\ ~(l < k)
        BY <1>1, <2>1, <2>2, <2>3, <2>4 DEF NothingBehind, NoneBehind
    <2>6. k \in Int /\ l \in Int
        BY <1>1
    <2> QED
        BY <2>1, <2>2, <2>3, <2>4, <2>5, <2>6
<1>3. ASSUME WishHeld(d, x), WishHeld(d, y)
      PROVE  x = y
    <2>1. Len(masterTodo) <= 1
        BY <1>1 DEF EntryInv, OneSendAtATime
    <2> QED
        BY <1>1, <1>3, <2>1, SetOfOne DEF WishHeld
<1>4. ASSUME NEW i \in Goroutines, WishPosted(i, d, x), WishPosted(i, d, y)
      PROVE  x = y
    <2>1. Len(inbox[i]) <= 1 /\ inbox[i] \in Seq(ToChat)
        BY <1>1 DEF RosterInv, OneMessageOfBuffer
    <2> QED
        BY <1>4, <2>1, SetOfOne DEF WishPosted
<1>5. \A m : Word(d, m, x) /\ Word(d, m, y) => x = y
    BY DEF Word
<1>6. ASSUME WordMailed(d, x), WordMailed(d, y)
      PROVE  x = y
    <2>1. Len(chatIn[d]) <= 1 /\ chatIn[d] \in Seq(ToDoppelganger)
        BY <1>1 DEF RosterInv, OneMessageOfBuffer
    <2> QED
        BY <1>5, <1>6, <2>1, SetOfOne DEF WordMailed
<1>7. ASSUME NEW i \in Goroutines, WordSpoken(i, d, x), WordSpoken(i, d, y)
      PROVE  x = y
    <2>1. PICK m \in ToSet(todo[i]) : m.to = d /\ Word(d, m, x)
        BY <1>7 DEF WordSpoken
    <2>2. PICK n \in ToSet(todo[i]) : n.to = d /\ Word(d, n, y)
        BY <1>7 DEF WordSpoken
    <2>3. PICK k \in DOMAIN todo[i] : todo[i][k] = m
        BY DEF ToSet
    <2>4. PICK l \in DOMAIN todo[i] : todo[i][l] = n
        BY DEF ToSet
    <2>5. MatterAt(KindOfWord(x), d, "handler", i) /\ MatterAt(KindOfWord(y), d, "handler", i)
        BY <1>7, WordPlaced
    <2>6. KindOfWord(x) = KindOfWord(y) /\ KindOfWord(x) \in Kinds
        BY <2>5, PatientParts, SameMatter DEF KindOfWord, Kinds, Places, Whereabouts
    <2>7. Ends(KindOfWord(x), d, m) /\ Ends(KindOfWord(x), d, n)
        BY <2>1, <2>2, <2>6 DEF Word, Ends, KindOfWord
    <2>8. ~(k < l) /\ ~(l < k)
        BY <1>1, <2>1, <2>2, <2>3, <2>4, <2>6, <2>7 DEF NothingBehind, OneEnding
    <2>9. k \in Int /\ l \in Int
        BY <1>1
    <2> QED
        BY <1>5, <2>1, <2>2, <2>3, <2>4, <2>8, <2>9
<1>8. WordReplied(d, x) /\ WordReplied(d, y) => x = y
    BY DEF WordReplied
<1> QED
    BY <1>2, <1>3, <1>4, <1>6, <1>7, <1>8

LEMMA OneOfEach ==
    ASSUME PatientInv, NEW d \in Doppelgangers
    PROVE  /\ \A x, y : Wishes(d, x) /\ Wishes(d, y) => x = y
           /\ \A v, w : Words(d, v) /\ Words(d, w) => v = w
           /\ \A x, v : ~(Wishes(d, x) /\ Words(d, v))
<1> DEFINE At(o, p, i) == MatterAt(o, d, p, i)
<1>1. OneMatter
    BY PatientParts
<1>2. \A x : KindOfWish(x) \in Kinds /\ KindOfWord(x) \in Kinds
    BY DEF KindOfWish, KindOfWord, Kinds
<1>3. /\ {"queue", "master", "inbox", "handler", "reply", "mail"} \subseteq Places
      /\ Goroutines \subseteq Whereabouts /\ NoGoroutine \in Whereabouts
    BY DEF Places, Whereabouts
<1>4. ASSUME NEW o \in Kinds, NEW o2 \in Kinds, NEW p \in Places, NEW p2 \in Places,
             NEW i \in Whereabouts, NEW i2 \in Whereabouts, At(o, p, i), At(o2, p2, i2)
      PROVE  o2 = o /\ p2 = p /\ i2 = i
    BY <1>1, <1>4, SameMatter
<1>5. \A x :
        /\ WishQueued(d, x) => At(KindOfWish(x), "queue", NoGoroutine)
        /\ WishHeld(d, x) => At(KindOfWish(x), "master", NoGoroutine) /\ masterReplies = <<>>
        /\ \A i \in Goroutines : WishPosted(i, d, x) => At(KindOfWish(x), "inbox", i)
    BY WishPlaced
<1>6. \A v :
        /\ WordMailed(d, v) => At(KindOfWord(v), "mail", NoGoroutine)
        /\ WordReplied(d, v) =>
                \/ At("Join", "reply", NoGoroutine)
                \/ At("Join", "master", NoGoroutine) /\ masterReplies # <<>>
        /\ \A i \in Goroutines : WordSpoken(i, d, v) => At(KindOfWord(v), "handler", i)
    BY WordPlaced
<1>7. "Join" \in Kinds
    BY DEF Kinds
<1> HIDE DEF At
<1>8. ASSUME NEW x, NEW y, Wishes(d, x), Wishes(d, y)
      PROVE  x = y
    BY <1>2, <1>3, <1>4, <1>5, <1>8, OneInPlace DEF Wishes
<1>9. ASSUME NEW v, NEW w, Words(d, v), Words(d, w)
      PROVE  v = w
    BY <1>2, <1>3, <1>4, <1>6, <1>7, <1>9, OneInPlace DEF Words
<1>10. ASSUME NEW x, NEW v, Wishes(d, x), Words(d, v)
       PROVE  FALSE
    <2>1. PICK o \in Kinds, p \in {"queue", "master", "inbox"}, i \in Whereabouts :
            At(o, p, i) /\ (p = "master" => masterReplies = <<>>)
        BY <1>2, <1>3, <1>5, <1>10 DEF Wishes
    <2>2. PICK o2 \in Kinds, p2 \in {"handler", "reply", "mail", "master"}, j \in Whereabouts :
            At(o2, p2, j) /\ (p2 = "master" => masterReplies # <<>>)
        BY <1>2, <1>3, <1>6, <1>7, <1>10 DEF Words
    <2>3. p = p2
        BY <1>3, <1>4, <2>1, <2>2
    <2> QED
        BY <2>1, <2>2, <2>3
<1> QED
    BY <1>8, <1>9, <1>10
-----------------------------------------------------------------------------
(***************************************************************************)
(* The steps of Membership, entry by entry: what changes of d, and that    *)
(* nothing does of the others.                                             *)
(***************************************************************************)
StaysFor(e) ==
    /\ requestOf'[e] = requestOf[e] /\ verdictOf'[e] = verdictOf[e]
    /\ view'[e] = view[e] /\ droppedOf'[e] = droppedOf[e]

StayFor(es) == \A e \in es : StaysFor(e)
Others(d) == Doppelgangers \ {d}

SeatsStill(cs) == \A c \in cs : rosterOf'[c] = rosterOf[c]

LEMMA Ledgers ==
    /\ requestOf = [d \in Doppelgangers |-> requestOf[d]]
    /\ verdictOf = [d \in Doppelgangers |-> verdictOf[d]]
    /\ droppedOf = [d \in Doppelgangers |-> droppedOf[d]]
    /\ rosterOf = [c \in Channels |-> rosterOf[c]]
BY DEF requestOf, verdictOf, droppedOf, rosterOf

LEMMA LedgersNext ==
    /\ requestOf' = [d \in Doppelgangers |-> requestOf'[d]]
    /\ verdictOf' = [d \in Doppelgangers |-> verdictOf'[d]]
    /\ droppedOf' = [d \in Doppelgangers |-> droppedOf'[d]]
    /\ rosterOf' = [c \in Channels |-> rosterOf'[c]]
BY DEF requestOf, verdictOf, droppedOf, rosterOf

LEMMA SameEntries ==
    ASSUME NEW S, NEW f, NEW g, f = [x \in S |-> f[x]], g = [x \in S |-> g[x]],
           NEW x \in S, \A y \in S \ {x} : g[y] = f[y]
    PROVE  g = [f EXCEPT ![x] = g[x]]
<1>1. \A y \in S : g[y] = [f EXCEPT ![x] = g[x]][y]
    OBVIOUS
<1>2. [f EXCEPT ![x] = g[x]] = [y \in S |-> [f EXCEPT ![x] = g[x]][y]]
    OBVIOUS
<1> QED
    BY <1>1, <1>2

LEMMA EntryOf ==
    ASSUME TypeInv, TypeInv', NEW d \in Doppelgangers, StayFor(Others(d))
    PROVE  /\ requestOf' = [requestOf EXCEPT ![d] = requestOf'[d]]
           /\ verdictOf' = [verdictOf EXCEPT ![d] = verdictOf'[d]]
           /\ droppedOf' = [droppedOf EXCEPT ![d] = droppedOf'[d]]
           /\ view' = [view EXCEPT ![d] = view'[d]]
<1>1. view = [e \in Doppelgangers |-> view[e]] /\ view' = [e \in Doppelgangers |-> view'[e]]
    BY TypeInvParts DEF TelnetTypeOK
<1>2. \A e \in Doppelgangers \ {d} :
        /\ requestOf'[e] = requestOf[e] /\ verdictOf'[e] = verdictOf[e]
        /\ view'[e] = view[e] /\ droppedOf'[e] = droppedOf[e]
    BY DEF StayFor, Others, StaysFor
<1> QED
    BY <1>1, <1>2, Ledgers, LedgersNext, SameEntries

LEMMA SeatOf ==
    ASSUME NEW c \in Channels, SeatsStill(Channels \ {c})
    PROVE  rosterOf' = [rosterOf EXCEPT ![c] = rosterOf'[c]]
BY Ledgers, LedgersNext, SameEntries DEF SeatsStill

LEMMA SeatsAsBefore ==
    ASSUME SeatsStill(Channels)
    PROVE  rosterOf' = rosterOf
BY Ledgers, LedgersNext DEF SeatsStill

\* An entry that is what it was.
LEMMA EntryAsBefore ==
    ASSUME TypeInv, TypeInv', NEW d \in Doppelgangers, StayFor(Others(d))
    PROVE  /\ requestOf'[d] = requestOf[d] => requestOf' = requestOf
           /\ verdictOf'[d] = verdictOf[d] => verdictOf' = verdictOf
           /\ droppedOf'[d] = droppedOf[d] => droppedOf' = droppedOf
           /\ view'[d] = view[d] => view' = view
<1>1. view = [e \in Doppelgangers |-> view[e]]
    BY TypeInvParts DEF TelnetTypeOK
<1>2. ASSUME NEW f, f = [e \in Doppelgangers |-> f[e]]
      PROVE  [f EXCEPT ![d] = f[d]] = f
    BY <1>2
<1> QED
    BY <1>1, <1>2, EntryOf, Ledgers
-----------------------------------------------------------------------------
Promised == [Promise!Next]_(Promise!vars)

LEMMA PromisedTypes ==
    ASSUME TypeInv, TypeInv', NEW d \in Doppelgangers, StayFor(Others(d)), SeatsStill(Channels),
           requestOf'[d] = requestOf[d], verdictOf'[d] = verdictOf[d],
           droppedOf'[d] = droppedOf[d], view[d] # "asked", view'[d] = "asked"
    PROVE  Promised
<1>1. Promise!Types(d)
    BY EntryOf, EntryAsBefore, SeatsAsBefore DEF Promise!Types
<1> QED
    BY <1>1 DEF Promised, Promise!Next

LEMMA PromisedDrop ==
    ASSUME TypeInv, TypeInv', NEW d \in Doppelgangers, StayFor(Others(d)), SeatsStill(Channels),
           requestOf'[d] = requestOf[d], verdictOf'[d] = verdictOf[d],
           view'[d] = view[d], ~droppedOf[d], droppedOf'[d] = TRUE
    PROVE  Promised
<1>1. Promise!Drops(d)
    BY EntryOf, EntryAsBefore, SeatsAsBefore DEF Promise!Drops
<1> QED
    BY <1>1 DEF Promised, Promise!Next

LEMMA PromisedJoin ==
    ASSUME TypeInv, TypeInv', NEW d \in Doppelgangers, StayFor(Others(d)), SeatsStill(Channels),
           NEW c \in Channels \cup {Nowhere},
           requestOf[d] = {}, verdictOf[d] = {}, requestOf'[d] = {c}, verdictOf'[d] = {},
           droppedOf'[d] = droppedOf[d], view[d] = "asked", view'[d] = view[d],
           \A b \in Channels : d \notin rosterOf[b]
    PROVE  Promised
<1>1. Promise!AsksToJoin(d, c)
    BY EntryOf, EntryAsBefore, SeatsAsBefore
    DEF Promise!AsksToJoin, Promise!Unoccupied, Promise!OnSomeChannel
<1> QED
    BY <1>1 DEF Promised, Promise!Next

LEMMA PromisedLeave ==
    ASSUME TypeInv, TypeInv', NEW d \in Doppelgangers, StayFor(Others(d)), SeatsStill(Channels),
           NEW c \in Channels,
           requestOf[d] = {}, verdictOf[d] = {}, requestOf'[d] = {Leave}, verdictOf'[d] = {},
           droppedOf'[d] = droppedOf[d], view[d] = "asked" \/ droppedOf[d], view'[d] = view[d],
           d \in rosterOf[c]
    PROVE  Promised
<1>1. Promise!AsksToLeave(d)
    BY EntryOf, EntryAsBefore, SeatsAsBefore
    DEF Promise!AsksToLeave, Promise!Unoccupied, Promise!OnSomeChannel
<1> QED
    BY <1>1 DEF Promised, Promise!Next

LEMMA SameCount == \A S : Promise!Cardinality(S) = Cardinality(S)
BY DEF Promise!Cardinality, Cardinality

LEMMA PromisedAdmits ==
    ASSUME TypeInv, TypeInv', NEW d \in Doppelgangers, StayFor(Others(d)),
           NEW c \in Channels, SeatsStill(Channels \ {c}),
           rosterOf'[c] = rosterOf[c] \cup {d}, ~(Cardinality(rosterOf[c]) >= MaxMembers),
           requestOf[d] = {c}, requestOf'[d] = {}, verdictOf'[d] = {"in"},
           droppedOf'[d] = droppedOf[d], view'[d] = view[d]
    PROVE  Promised
<1>1. rosterOf' = [rosterOf EXCEPT ![c] = @ \cup {d}]
    <2>1. rosterOf' = [rosterOf EXCEPT ![c] = rosterOf'[c]]
        BY SeatOf
    <2> QED
        BY <2>1
<1>2. Promise!Admits(d, c)
    BY <1>1, EntryOf, EntryAsBefore, SameCount DEF Promise!Admits, Promise!Full, Promise!Decides
<1> QED
    BY <1>2 DEF Promised, Promise!Next

LEMMA PromisedRefuses ==
    ASSUME TypeInv, TypeInv', NEW d \in Doppelgangers, StayFor(Others(d)), SeatsStill(Channels),
           NEW c, requestOf[d] = {c},
           c = Nowhere \/ (c \in Channels /\ Cardinality(rosterOf[c]) >= MaxMembers),
           requestOf'[d] = {}, verdictOf'[d] = {"refused"},
           droppedOf'[d] = droppedOf[d], view'[d] = view[d]
    PROVE  Promised
<1>1. Promise!Refuses(d)
    BY EntryOf, EntryAsBefore, SeatsAsBefore, SameCount
    DEF Promise!Refuses, Promise!Full, Promise!Decides
<1> QED
    BY <1>1 DEF Promised, Promise!Next

LEMMA PromisedReleases ==
    ASSUME TypeInv, TypeInv', NEW d \in Doppelgangers, StayFor(Others(d)),
           NEW c \in Channels, SeatsStill(Channels \ {c}),
           d \in rosterOf[c], rosterOf'[c] = rosterOf[c] \ {d},
           requestOf[d] = {Leave}, requestOf'[d] = {}, verdictOf'[d] = {"out"},
           droppedOf'[d] = droppedOf[d], view'[d] = view[d]
    PROVE  Promised
<1>1. rosterOf' = [rosterOf EXCEPT ![c] = @ \ {d}]
    <2>1. rosterOf' = [rosterOf EXCEPT ![c] = rosterOf'[c]]
        BY SeatOf
    <2> QED
        BY <2>1
<1>2. Promise!Releases(d, c)
    BY <1>1, EntryOf, EntryAsBefore DEF Promise!Releases, Promise!Decides
<1> QED
    BY <1>2 DEF Promised, Promise!Next

LEMMA PromisedHears ==
    ASSUME TypeInv, TypeInv', NEW d \in Doppelgangers, StayFor(Others(d)), SeatsStill(Channels),
           NEW v, verdictOf[d] = {v}, requestOf[d] = {}, verdictOf'[d] = {},
           droppedOf'[d] = droppedOf[d], view'[d] = IF v = "in" THEN "on" ELSE "off",
           \/ requestOf'[d] = {}
           \/ v = "in" /\ droppedOf[d] /\ requestOf'[d] = {Leave}
    PROVE  Promised
<1>1. view' = [view EXCEPT ![d] = IF verdictOf[d] = {"in"} THEN "on" ELSE "off"]
    <2>1. view' = [view EXCEPT ![d] = view'[d]]
        BY EntryOf
    <2>2. view'[d] = IF verdictOf[d] = {"in"} THEN "on" ELSE "off"
        OBVIOUS
    <2> QED
        BY <2>1, <2>2
<1>2. Promise!Hears(d)
    BY <1>1, EntryOf, EntryAsBefore, SeatsAsBefore DEF Promise!Hears
<1>3. CASE requestOf'[d] = {}
    <2>1. Promise!HearsOnly(d)
        BY <1>2, <1>3, EntryAsBefore DEF Promise!HearsOnly
    <2> QED
        BY <2>1 DEF Promised, Promise!Next
<1>4. CASE v = "in" /\ droppedOf[d] /\ requestOf'[d] = {Leave}
    <2>1. Promise!HearsAndLeaves(d)
        BY <1>2, <1>4, EntryOf DEF Promise!HearsAndLeaves
    <2> QED
        BY <2>1 DEF Promised, Promise!Next
<1> QED
    BY <1>3, <1>4

LEMMA PromisedNothing ==
    ASSUME TypeInv, TypeInv', NEW d \in Doppelgangers, StayFor(Others(d)), StaysFor(d),
           SeatsStill(Channels)
    PROVE  Promised
<1>1. UNCHANGED Promise!vars
    BY EntryAsBefore, SeatsAsBefore DEF Promise!vars, StaysFor
<1> QED
    BY <1>1 DEF Promised
-----------------------------------------------------------------------------
(***************************************************************************)
(* A doppelganger that takes its user to be gone is right.                 *)
(***************************************************************************)
DropsAreKnown ==
    \A d \in Doppelgangers :
        /\ gone[d] => droppedOf[d]
        /\ telnet[d] = "closed" => conn[d] = "down"

LEMMA DroppedIs ==
    \A d \in Doppelgangers :
        /\ droppedOf[d] = (\/ conn[d] = "down" \/ telnet[d] = "quit"
                           \/ line[d] # <<>> /\ line[d][1].cmd = "quit")
        /\ droppedOf'[d] = (\/ conn'[d] = "down" \/ telnet'[d] = "quit"
                            \/ line'[d] # <<>> /\ line'[d][1].cmd = "quit")
BY DEF droppedOf

LEMMA LoopKnows ==
    ASSUME PatientInv, DropsAreKnown, NEW d \in Doppelgangers, NEW g \in BOOLEAN,
           g => droppedOf[d], NEW id, NEW ce, NEW q, NEW prompt,
           EndOfLoop(d, g, id, ce, q, prompt)
    PROVE  \A e \in Doppelgangers : gone'[e] => droppedOf[e]
<1>1. gone \in [Doppelgangers -> BOOLEAN]
    BY PatientParts, TypeInvParts DEF LoopInv, LoopTypeOK
<1>2. \E x \in BOOLEAN : gone' = [gone EXCEPT ![d] = x] /\ (x => droppedOf[d])
    <2>1. CASE g
        BY <2>1 DEF EndOfLoop, WaitsForExit, LeavesChannel, Returns, Settles
    <2>2. CASE ~g
        <3>1. StaysWithUser(d, id, ce, q, prompt)
            BY <2>2 DEF EndOfLoop
        <3>2. PICK lost \in (IF prompt THEN WriteFails(d) ELSE {FALSE}) :
                gone' = [gone EXCEPT ![d] = lost]
            BY <3>1 DEF StaysWithUser, Settles
        <3>3. lost \in BOOLEAN /\ (lost => conn[d] = "down")
            BY <3>2 DEF WriteFails
        <3> QED
            BY <3>2, <3>3, DroppedIs
    <2> QED
        BY <2>1, <2>2
<1> QED
    BY <1>1, <1>2 DEF DropsAreKnown

\* What a failed write says.
LEMMA FailsKnown ==
    ASSUME PatientInv, DropsAreKnown, NEW d \in Doppelgangers, NEW fails \in WriteFails(d)
    PROVE  /\ fails \in BOOLEAN /\ gone[d] \in BOOLEAN /\ (gone[d] \/ fails) \in BOOLEAN
           /\ gone[d] \/ fails => droppedOf[d]
<1>1. gone \in [Doppelgangers -> BOOLEAN]
    BY PatientParts, TypeInvParts DEF LoopInv, LoopTypeOK
<1>2. fails \in BOOLEAN /\ (fails => conn[d] = "down")
    BY DEF WriteFails
<1> QED
    BY <1>1, <1>2, DroppedIs DEF DropsAreKnown

LEMMA WritesKnow ==
    ASSUME PatientInv, DropsAreKnown, NEW d \in Doppelgangers, NEW g \in BOOLEAN,
           g => droppedOf[d], NEW prompt, OnlyWrites(d, g, prompt)
    PROVE  \A e \in Doppelgangers : gone'[e] => droppedOf[e]
<1>1. EndOfLoop(d, g, chatID[d], cantExit[d], masterQ, prompt)
    BY DEF OnlyWrites
<1> QED
    BY <1>1, LoopKnows

\* A line that is taken, or left, does not say more than was known.
LEMMA LineDropsNobody ==
    ASSUME PatientInv, NEW d \in Doppelgangers, conn' = conn,
           \/ line' = line /\ telnet' = telnet
           \/ /\ line[d] # <<>> /\ line' = [line EXCEPT ![d] = <<>>]
              /\ \/ Head(line[d]).cmd # "quit" /\ telnet' = telnet
                 \/ Head(line[d]).cmd = "quit" /\ telnet' = [telnet EXCEPT ![d] = "quit"]
    PROVE  /\ \A e \in Doppelgangers : droppedOf'[e] = droppedOf[e]
           /\ \A e \in Doppelgangers :
                telnet'[e] = "closed" => telnet[e] = "closed" /\ conn'[e] = conn[e]
<1>1. /\ line \in [Doppelgangers -> Seq(Lines)]
      /\ telnet \in [Doppelgangers -> {"reading", "closed", "quit"}]
    BY PatientParts, TypeInvParts DEF TelnetTypeOK
<1>2. CASE line' = line /\ telnet' = telnet
    BY <1>2, DroppedIs
<1>3. CASE /\ line[d] # <<>> /\ line' = [line EXCEPT ![d] = <<>>]
           /\ \/ Head(line[d]).cmd # "quit" /\ telnet' = telnet
              \/ Head(line[d]).cmd = "quit" /\ telnet' = [telnet EXCEPT ![d] = "quit"]
    <2>1. Head(line[d]) = line[d][1]
        BY <1>1, <1>3, HeadTailProperties
    <2>2. line'[d] = <<>> /\ \A e \in Doppelgangers \ {d} : line'[e] = line[e]
        BY <1>1, <1>3
    <2>3. \A e \in Doppelgangers \ {d} : telnet'[e] = telnet[e]
        BY <1>1, <1>3
    <2>4. \A e \in Doppelgangers \ {d} : droppedOf'[e] = droppedOf[e]
        BY <2>2, <2>3, DroppedIs
    <2>5. CASE Head(line[d]).cmd # "quit" /\ telnet' = telnet
        BY <1>3, <2>1, <2>2, <2>4, <2>5, DroppedIs
    <2>6. CASE Head(line[d]).cmd = "quit" /\ telnet' = [telnet EXCEPT ![d] = "quit"]
        BY <1>1, <1>3, <2>1, <2>2, <2>4, <2>6, DroppedIs
    <2> QED
        BY <1>3, <2>5, <2>6
<1> QED
    BY <1>2, <1>3
LEMMA StepTakesLine ==
    ASSUME PatientInv, NEW d \in Doppelgangers, DoppStep(d)
    PROVE  /\ conn' = conn
           /\ \/ line' = line /\ telnet' = telnet
              \/ /\ line[d] # <<>> /\ line' = [line EXCEPT ![d] = <<>>]
                 /\ \/ Head(line[d]).cmd # "quit" /\ telnet' = telnet
                    \/ Head(line[d]).cmd = "quit" /\ telnet' = [telnet EXCEPT ![d] = "quit"]
<1>1. CASE \/ DoppJoin(d) \/ DoppWho(d) \/ DoppExit(d) \/ DoppSay(d) \/ DoppQuit(d)
    BY <1>1 DEF DoppJoin, DoppWho, DoppExit, DoppSay, DoppQuit, HasLine, TakeLine
<1>2. CASE \/ DoppEchoFails(d) \/ DoppUnblocks(d) \/ DoppSeesClosed(d) \/ DoppRefusedByMaster(d)
           \/ DoppRefusedByChat(d) \/ DoppJoined(d) \/ DoppText(d) \/ DoppHearsExit(d)
           \/ DoppOwnExit(d)
    BY <1>2 DEF DoppEchoFails, DoppUnblocks, DoppSeesClosed, DoppRefusedByMaster,
                DoppRefusedByChat, DoppJoined, DoppText, DoppHearsExit, DoppOwnExit,
                TakeFromChat, telnetVars, Panic
<1> QED
    BY <1>1, <1>2 DEF DoppStep

LEMMA StepKnows ==
    ASSUME PatientInv, DropsAreKnown, NEW d \in Doppelgangers, DoppStep(d)
    PROVE  \A e \in Doppelgangers : gone'[e] => droppedOf[e]
<1>1. /\ gone \in [Doppelgangers -> BOOLEAN] /\ gone[d] \in BOOLEAN
      /\ line[d] \in Seq(Lines)
    BY PatientParts, TypeInvParts DEF LoopInv, LoopTypeOK, TelnetTypeOK
<1>2. \A e \in Doppelgangers : gone[e] => droppedOf[e]
    BY DEF DropsAreKnown
<1>3. CASE DoppEchoFails(d)
    <2>1. droppedOf[d]
        BY <1>2, <1>3, DroppedIs DEF DoppEchoFails
    <2> QED
        BY <1>3, <2>1, WritesKnow DEF DoppEchoFails
<1>4. CASE DoppJoin(d)
    <2>1. CASE \E fails \in WriteFails(d) : OnlyWrites(d, gone[d] \/ fails, TRUE)
        BY <2>1, FailsKnown, WritesKnow
    <2>2. CASE EndOfLoop(d, gone[d], Joining, cantExit[d],
                Append(masterQ, Request("Join", d, Head(line[d]).chan)), FALSE)
        BY <1>1, <1>2, <2>2, LoopKnows
    <2> QED
        BY <1>4, <2>1, <2>2 DEF DoppJoin
<1>5. CASE DoppWho(d)
    <2>1. PICK fails \in WriteFails(d) :
            \/ OnlyWrites(d, gone[d] \/ fails, TRUE)
            \/ EndOfLoop(d, gone[d], chatID[d], cantExit[d],
                    Append(masterQ, Request("Who", d, chatID[d])), TRUE)
        BY <1>5 DEF DoppWho
    <2>2. CASE OnlyWrites(d, gone[d] \/ fails, TRUE)
        BY <2>2, FailsKnown, WritesKnow
    <2>3. CASE EndOfLoop(d, gone[d], chatID[d], cantExit[d],
                    Append(masterQ, Request("Who", d, chatID[d])), TRUE)
        BY <1>1, <1>2, <2>3, LoopKnows
    <2> QED
        BY <2>1, <2>2, <2>3
<1>6. CASE DoppExit(d)
    <2>1. PICK fails \in WriteFails(d) :
            \/ OnlyWrites(d, gone[d] \/ fails, TRUE)
            \/ EndOfLoop(d, gone[d], NoChannel, TRUE,
                    Append(masterQ, Request("Exit", d, chatID[d])), TRUE)
        BY <1>6 DEF DoppExit
    <2>2. CASE OnlyWrites(d, gone[d] \/ fails, TRUE)
        BY <2>2, FailsKnown, WritesKnow
    <2>3. CASE EndOfLoop(d, gone[d], NoChannel, TRUE,
                    Append(masterQ, Request("Exit", d, chatID[d])), TRUE)
        BY <1>1, <1>2, <2>3, LoopKnows
    <2> QED
        BY <2>1, <2>2, <2>3
<1>7. CASE DoppSay(d)
    <2>1. PICK fails \in WriteFails(d) :
            \/ OnlyWrites(d, gone[d] \/ fails, chatID[d] = NoChannel)
            \/ gone' = gone
            \/ OnlyWrites(d, gone[d], FALSE)
        BY <1>7 DEF DoppSay
    <2>2. CASE OnlyWrites(d, gone[d] \/ fails, chatID[d] = NoChannel)
        BY <2>2, FailsKnown, WritesKnow
    <2>3. CASE gone' = gone
        BY <1>2, <2>3
    <2>4. CASE OnlyWrites(d, gone[d], FALSE)
        BY <1>1, <1>2, <2>4, WritesKnow
    <2> QED
        BY <2>1, <2>2, <2>3, <2>4
<1>8. CASE DoppUnblocks(d)
    <2>1. gone' = gone \/ OnlyWrites(d, gone[d], FALSE)
        BY <1>8 DEF DoppUnblocks, Panic, doppVars
    <2>2. CASE gone' = gone
        BY <1>2, <2>2
    <2>3. CASE OnlyWrites(d, gone[d], FALSE)
        BY <1>1, <1>2, <2>3, WritesKnow
    <2> QED
        BY <2>1, <2>2, <2>3
<1>9. CASE DoppQuit(d)
    <2>1. line[d] # <<>> /\ Head(line[d]).cmd = "quit" /\ OnlyWrites(d, TRUE, FALSE)
        BY <1>9 DEF DoppQuit, HasLine
    <2>2. Head(line[d]) = line[d][1]
        BY <1>1, <2>1, HeadTailProperties
    <2>3. droppedOf[d]
        BY <2>1, <2>2, DroppedIs
    <2> QED
        BY <2>1, <2>3, WritesKnow
<1>10. CASE DoppSeesClosed(d)
    <2>1. droppedOf[d]
        BY <1>10, DroppedIs DEF DoppSeesClosed, DropsAreKnown
    <2> QED
        BY <1>10, <2>1, WritesKnow DEF DoppSeesClosed
<1>11. CASE DoppRefusedByMaster(d)
    <2>1. PICK fails \in WriteFails(d) :
            EndOfLoop(d, gone[d] \/ fails, NoChannel, cantExit[d] /\ ~(gone[d] \/ fails),
                      masterQ, TRUE)
        BY <1>11 DEF DoppRefusedByMaster
    <2> QED
        BY <2>1, FailsKnown, LoopKnows
<1>12. CASE DoppRefusedByChat(d) \/ DoppText(d) \/ DoppHearsExit(d)
    <2>1. PICK fails \in WriteFails(d) : OnlyWrites(d, gone[d] \/ fails, TRUE)
        BY <1>12 DEF DoppRefusedByChat, DoppText, DoppHearsExit
    <2> QED
        BY <2>1, FailsKnown, WritesKnow
<1>13. CASE DoppJoined(d)
    <2>1. PICK fails \in WriteFails(d) :
            EndOfLoop(d, gone[d] \/ fails, chanOf[Head(chatIn[d]).by],
                      cantExit[d] /\ ~(gone[d] \/ fails), masterQ, TRUE)
        BY <1>13 DEF DoppJoined
    <2> QED
        BY <2>1, FailsKnown, LoopKnows
<1>14. CASE DoppOwnExit(d)
    <2>1. CASE gone[d] /\ gone' = [gone EXCEPT ![d] = TRUE]
        BY <1>1, <1>2, <2>1
    <2>2. CASE \E fails \in WriteFails(d) : EndOfLoop(d, fails, NoChannel, FALSE, masterQ, TRUE)
        <3>1. PICK fails \in WriteFails(d) : EndOfLoop(d, fails, NoChannel, FALSE, masterQ, TRUE)
            BY <2>2
        <3>2. fails \in BOOLEAN /\ (fails => droppedOf[d])
            BY FailsKnown
        <3> QED
            BY <3>1, <3>2, LoopKnows
    <2> QED
        BY <1>14, <2>1, <2>2 DEF DoppOwnExit, Settles
<1> QED
    BY <1>3, <1>4, <1>5, <1>6, <1>7, <1>8, <1>9, <1>10, <1>11, <1>12, <1>13, <1>14 DEF DoppStep

LEMMA StepDropsNobody ==
    ASSUME PatientInv, DropsAreKnown, NEW d \in Doppelgangers, DoppStep(d)
    PROVE  DropsAreKnown' /\ \A e \in Doppelgangers : droppedOf'[e] = droppedOf[e]
<1>1. /\ \A e \in Doppelgangers : droppedOf'[e] = droppedOf[e]
      /\ \A e \in Doppelgangers : telnet'[e] = "closed" => telnet[e] = "closed" /\ conn'[e] = conn[e]
    BY StepTakesLine, LineDropsNobody
<1>2. \A e \in Doppelgangers : gone'[e] => droppedOf[e]
    BY StepKnows
<1>3. \A e \in Doppelgangers : telnet[e] = "closed" => conn[e] = "down"
    BY DEF DropsAreKnown
<1>4. \A e \in Doppelgangers :
        (gone'[e] => droppedOf'[e]) /\ (telnet'[e] = "closed" => conn'[e] = "down")
    BY <1>1, <1>2, <1>3
<1> QED
    BY <1>1, <1>4 DEF DropsAreKnown

LEMMA OthersDropNobody ==
    ASSUME DropsAreKnown, UNCHANGED <<gone, telnetVars>>
    PROVE  DropsAreKnown' /\ \A e \in Doppelgangers : droppedOf'[e] = droppedOf[e]
<1>1. \A e \in Doppelgangers : droppedOf'[e] = droppedOf[e]
    BY DroppedIs DEF telnetVars
<1>2. \A e \in Doppelgangers :
        (gone'[e] => droppedOf'[e]) /\ (telnet'[e] = "closed" => conn'[e] = "down")
    BY <1>1 DEF DropsAreKnown, telnetVars
<1> QED
    BY <1>1, <1>2 DEF DropsAreKnown

LEMMA InitDrops == Init => DropsAreKnown
BY DEF Init, DropsAreKnown
-----------------------------------------------------------------------------
(***************************************************************************)
(* A user's ledger, before a step and after it, from one wish or one word. *)
(***************************************************************************)
OneEntry(d) ==
    /\ \A x, y : Wishes(d, x) /\ Wishes(d, y) => x = y
    /\ \A v, w : Words(d, v) /\ Words(d, w) => v = w
    /\ \A x, v : ~(Wishes(d, x) /\ Words(d, v))

LEMMA OneEntries == PatientInv => \A d \in Doppelgangers : OneEntry(d)
BY OneOfEach DEF OneEntry

LEMMA OneEntriesNext ==
    ASSUME PatientInv'
    PROVE  \A d \in Doppelgangers : OneEntry(d)'
<1>1. (PatientInv => \A d \in Doppelgangers : OneEntry(d))'
    BY OneEntries, PTL
<1> QED
    BY <1>1

LEMMA EntryIs ==
    ASSUME PatientInv, NEW d \in Doppelgangers
    PROVE  /\ \A x : Wishes(d, x) => requestOf[d] = {x} /\ verdictOf[d] = {}
           /\ \A v : Words(d, v) => verdictOf[d] = {v} /\ requestOf[d] = {}
           /\ (\A x : ~Wishes(d, x)) => requestOf[d] = {}
           /\ (\A v : ~Words(d, v)) => verdictOf[d] = {}
<1>1. /\ \A x : x \in requestOf[d] <=> Wishes(d, x)
      /\ \A v : v \in verdictOf[d] <=> Words(d, v)
    BY WishesAre, WordsAre
<1>2. OneEntry(d)
    BY OneEntries
<1> QED
    BY <1>1, <1>2 DEF OneEntry

LEMMA EntryWillBe ==
    ASSUME PatientInv', NEW d \in Doppelgangers
    PROVE  /\ \A x : Wishes(d, x)' => requestOf'[d] = {x} /\ verdictOf'[d] = {}
           /\ \A v : Words(d, v)' => verdictOf'[d] = {v} /\ requestOf'[d] = {}
           /\ (\A x : ~Wishes(d, x)') => requestOf'[d] = {}
           /\ (\A v : ~Words(d, v)') => verdictOf'[d] = {}
<1>1. /\ \A x : x \in requestOf'[d] <=> Wishes(d, x)'
      /\ \A v : v \in verdictOf'[d] <=> Words(d, v)'
    BY LedgerNext
<1>2. OneEntry(d)'
    BY OneEntriesNext
<1>3. /\ \A x, y : Wishes(d, x)' /\ Wishes(d, y)' => x = y
      /\ \A v, w : Words(d, v)' /\ Words(d, w)' => v = w
      /\ \A x, v : ~(Wishes(d, x)' /\ Words(d, v)')
    BY <1>2 DEF OneEntry
<1> QED
    BY <1>1, <1>3

LEMMA EntryStays ==
    ASSUME NEW d \in Doppelgangers
    PROVE  /\ (\A x : Wishes(d, x)' <=> Wishes(d, x)) => requestOf'[d] = requestOf[d]
           /\ (\A v : Words(d, v)' <=> Words(d, v)) => verdictOf'[d] = verdictOf[d]
<1>1. /\ \A x : x \in requestOf[d] <=> Wishes(d, x)
      /\ \A v : v \in verdictOf[d] <=> Words(d, v)
    BY WishesAre, WordsAre
<1>2. /\ \A x : x \in requestOf'[d] <=> Wishes(d, x)'
      /\ \A v : v \in verdictOf'[d] <=> Words(d, v)'
    BY LedgerNext
<1>3. requestOf[d] = { x \in requestOf[d] : TRUE } /\ requestOf'[d] = { x \in requestOf'[d] : TRUE }
    BY DEF requestOf
<1>4. verdictOf[d] = { x \in verdictOf[d] : TRUE } /\ verdictOf'[d] = { x \in verdictOf'[d] : TRUE }
    BY DEF verdictOf
<1> QED
    BY <1>1, <1>2, <1>3, <1>4

-----------------------------------------------------------------------------
(***************************************************************************)
(* The seats: who is on the roster of a goroutine, or about to be, and is  *)
(* not being taken off.                                                    *)
(***************************************************************************)
IsHailed(i, d) == \E m \in ToSet(todo[i]) : m.op = "Joined" /\ m.to = d
Seated(i, d) == (d \in memberList[i] \/ IsHailed(i, d)) /\ ~TakenOff(i, d)

LEMMA SeatsAre ==
    \A c \in Channels : \A d :
        d \in rosterOf[c] <=> running[c] # NoGoroutine /\ Seated(running[c], d)
<1>1. \A i, d : /\ d \in Entering(i) <=> IsHailed(i, d)
                /\ d \in Leaving(i) <=> TakenOff(i, d)
    BY DEF Entering, Leaving, IsHailed, TakenOff
<1> QED
    BY <1>1 DEF rosterOf, Seated

LEMMA SeatsWillBe ==
    \A c \in Channels : \A d :
        d \in rosterOf'[c] <=> running'[c] # NoGoroutine /\ Seated(running[c], d)'
<1>1. (\A c \in Channels : \A d :
        d \in rosterOf[c] <=> running[c] # NoGoroutine /\ Seated(running[c], d))'
    BY SeatsAre, PTL
<1> QED
    BY <1>1

LEMMA SeatStays ==
    ASSUME NEW c \in Channels
    PROVE  /\ (\A d : d \in rosterOf'[c] <=> d \in rosterOf[c]) => rosterOf'[c] = rosterOf[c]
           /\ \A d : (\A e : e \in rosterOf'[c] <=> e \in rosterOf[c] \/ e = d)
                        => rosterOf'[c] = rosterOf[c] \cup {d}
           /\ \A d : (\A e : e \in rosterOf'[c] <=> e \in rosterOf[c] /\ e # d)
                        => rosterOf'[c] = rosterOf[c] \ {d}
<1>1. rosterOf[c] = { x \in rosterOf[c] : TRUE } /\ rosterOf'[c] = { x \in rosterOf'[c] : TRUE }
    BY DEF rosterOf
<1> QED
    BY <1>1

LEMMA RostersUntouched ==
    ASSUME UNCHANGED <<running, memberList, todo>>
    PROVE  SeatsStill(Channels)
BY DEF SeatsStill, rosterOf, Entering, Leaving

\* Whoever is seated has a reason to be.
LEMMA SeatedBelong ==
    ASSUME PatientInv, NEW i \in Goroutines, NEW d \in Doppelgangers
    PROVE  Seated(i, d) <=> Belongs(i, d) \/ IsHailed(i, d)
<1>1. /\ d \in memberList[i] /\ ~TakenOff(i, d) <=> Belongs(i, d)
    BY PatientParts DEF SeatsAreTaken
<1>2. IsHailed(i, d) => ~TakenOff(i, d)
    <2>1. \A m \in ToSet(todo[i]) :
            /\ m.op = "TextExit" <=> m.leaving # Nobody
            /\ \A n \in ToSet(todo[i]) : n.leaving = m.leaving
        BY PatientParts DEF RosterInv, OneLeaverAtATime
    <2> QED
        BY <2>1, IdsAssumption DEF IdsAssumption, IsHailed, TakenOff
<1> QED
    BY <1>1, <1>2 DEF Seated
LEMMA SeatOfHolder ==
    ASSUME PatientInv, NEW d \in Doppelgangers, status[d] # "returned", chatID[d] \in Channels
    PROVE  d \in rosterOf[chatID[d]]
<1> DEFINE c == chatID[d]
<1>1. running[c] # NoGoroutine /\ running[c] \in Goroutines /\ c \in Channels
    BY PatientParts, TypeInvFacts DEF RelyInv, HoldersKeepTheirChannel
<1>2. Belongs(running[c], d)
    BY <1>1 DEF Belongs, Counts, Holders
<1> QED
    BY <1>1, <1>2, SeatedBelong, SeatsAre

LEMMA NoSeat ==
    ASSUME PatientInv, NEW d \in Doppelgangers, chatID[d] \notin Channels,
           \A x : ~Wishes(d, x), \A v : ~Words(d, v)
    PROVE  \A c \in Channels : d \notin rosterOf[c]
<1> SUFFICES ASSUME NEW c \in Channels, d \in rosterOf[c]
             PROVE  FALSE
    OBVIOUS
<1>1. running[c] # NoGoroutine /\ running[c] \in Goroutines /\ Seated(running[c], d)
    BY SeatsAre, PatientParts, TypeInvFacts
<1>2. /\ ~IsHailed(running[c], d)
      /\ d \notin Hearing(running[c])
    <2>1. \A m : m.op = "Joined" => Word(d, m, "in")
        BY DEF Word
    <2> QED
        BY <1>1, <2>1 DEF IsHailed, Hearing, Words, WordSpoken, WordMailed
<1>3. ~PostedFor("Exit", running[c], d)
    BY <1>1 DEF PostedFor, Wishes, WishPosted, Kinds
<1>4. \A b \in Channels : ~ExitAsked(b, d)
    BY DEF ExitAsked, Wishes, WishQueued, WishHeld, Kinds
<1>5. \A b \in Channels : d \notin Holders(b)
    BY DEF Holders
<1> QED
    BY <1>1, <1>2, <1>3, <1>4, <1>5, SeatedBelong DEF Belongs, Counts

-----------------------------------------------------------------------------
(***************************************************************************)
(* The steps of a doppelganger.                                            *)
(***************************************************************************)
LEMMA WishIsUnderWay ==
    ASSUME PatientInv, NEW d \in Doppelgangers, NEW x, Wishes(d, x)
    PROVE  UnderWay("Join", d) \/ UnderWay("Exit", d)
<1>1. /\ KindOfWish(x) \in {"Join", "Exit"}
      /\ {"queue", "master", "inbox"} \subseteq Places
      /\ Goroutines \subseteq Whereabouts /\ NoGoroutine \in Whereabouts
    BY DEF KindOfWish, Places, Whereabouts
<1>2. UnderWay(KindOfWish(x), d)
    BY <1>1, WishPlaced DEF Wishes, UnderWay
<1> QED
    BY <1>1, <1>2

LEMMA WordIsUnderWay ==
    ASSUME PatientInv, NEW d \in Doppelgangers, NEW v, Words(d, v)
    PROVE  UnderWay("Join", d) \/ UnderWay("Exit", d)
<1>1. /\ KindOfWord(v) \in {"Join", "Exit"}
      /\ {"mail", "master", "reply", "handler"} \subseteq Places
      /\ Goroutines \subseteq Whereabouts /\ NoGoroutine \in Whereabouts
    BY DEF KindOfWord, Places, Whereabouts
<1>2. UnderWay(KindOfWord(v), d) \/ UnderWay("Join", d)
    BY <1>1, WordPlaced DEF Words, UnderWay
<1> QED
    BY <1>1, <1>2

LEMMA AllPlaced ==
    PatientInv => \A y : \A e \in Doppelgangers :
         /\ WishHeld(e, y) => MatterAt(KindOfWish(y), e, "master", NoGoroutine)
         /\ \A i \in Goroutines : WishPosted(i, e, y) => MatterAt(KindOfWish(y), e, "inbox", i)
         /\ WordMailed(e, y) => MatterAt(KindOfWord(y), e, "mail", NoGoroutine)
         /\ WordReplied(e, y) =>
                \/ MatterAt("Join", e, "reply", NoGoroutine)
                \/ MatterAt("Join", e, "master", NoGoroutine)
         /\ \A i \in Goroutines : WordSpoken(i, e, y) => MatterAt(KindOfWord(y), e, "handler", i)
BY WishPlaced, WordPlaced

\* Where a wish or a word is that is not in the channel master's queue.
LEMMA ElsewhereNext ==
    ASSUME PatientInv', NEW d \in Doppelgangers, NEW x,
           \/ WishHeld(d, x)' \/ (\E i \in Goroutines : WishPosted(i, d, x)')
           \/ Words(d, x)'
    PROVE  Elsewhere("Join", d) \/ Elsewhere("Exit", d)
<1>1. /\ KindOfWish(x) \in {"Join", "Exit"} /\ KindOfWord(x) \in {"Join", "Exit"}
      /\ {"mail", "master", "reply", "handler", "inbox"} \subseteq Places \ {"queue"}
      /\ Goroutines \subseteq Whereabouts /\ NoGoroutine \in Whereabouts
    BY DEF KindOfWish, KindOfWord, Places, Whereabouts
<1>2. (PatientInv => \A y : \A e \in Doppelgangers :
         /\ WishHeld(e, y) => MatterAt(KindOfWish(y), e, "master", NoGoroutine)
         /\ \A i \in Goroutines : WishPosted(i, e, y) => MatterAt(KindOfWish(y), e, "inbox", i)
         /\ WordMailed(e, y) => MatterAt(KindOfWord(y), e, "mail", NoGoroutine)
         /\ WordReplied(e, y) =>
                \/ MatterAt("Join", e, "reply", NoGoroutine)
                \/ MatterAt("Join", e, "master", NoGoroutine)
         /\ \A i \in Goroutines : WordSpoken(i, e, y) => MatterAt(KindOfWord(y), e, "handler", i))'
    BY AllPlaced, PTL
<1> QED
    BY <1>1, <1>2 DEF Words, Elsewhere
-----------------------------------------------------------------------------
\* What a doppelganger hears in a step, for its user and of its own join or exit.
HearsNothing(d) == view'[d] = view[d] /\ \A v : Words(d, v)' <=> Words(d, v)

HearsWord(d, v) ==
    /\ Words(d, v) /\ \A w : ~Words(d, w)'
    /\ view'[d] = IF v = "in" THEN "on" ELSE "off"

LEMMA SameWords ==
    ASSUME NEW d \in Doppelgangers, UNCHANGED <<todo, masterReplies>>, replyIn'[d] = replyIn[d],
           \A v : WordMailed(d, v)' <=> WordMailed(d, v), view'[d] = view[d]
    PROVE  HearsNothing(d)
BY DEF HearsNothing, Words, WordReplied, WordSpoken

\* A letter that is of no concern to the user is read.
LEMMA ReadsIdly ==
    ASSUME PatientInv, NEW d \in Doppelgangers, NEW op, TakeFromChat(d, op),
           UNCHANGED view, \A v : ~Word(d, Head(chatIn[d]), v)
    PROVE  HearsNothing(d)
<1>1. ToSet(chatIn[d]) = {Head(chatIn[d])} /\ ToSet(chatIn'[d]) = {}
    BY TakesMail
<1>2. \A v : ~WordMailed(d, v) /\ ~WordMailed(d, v)'
    BY <1>1 DEF WordMailed
<1>3. UNCHANGED <<todo, masterReplies, replyIn>>
    BY DEF TakeFromChat, restOfMaster, chatVars
<1> QED
    BY <1>2, <1>3, SameWords

\* And one that is.
LEMMA ReadsWord ==
    ASSUME PatientInv, NEW d \in Doppelgangers, NEW op, TakeFromChat(d, op),
           \A e \in Doppelgangers \ {d} : view'[e] = view[e],
           NEW v, Word(d, Head(chatIn[d]), v), view'[d] = IF v = "in" THEN "on" ELSE "off"
    PROVE  HearsWord(d, v)
<1>1. ToSet(chatIn[d]) = {Head(chatIn[d])} /\ ToSet(chatIn'[d]) = {}
    BY TakesMail
<1>2. WordMailed(d, v) /\ \A w : ~WordMailed(d, w)'
    BY <1>1 DEF WordMailed
<1>3. UNCHANGED <<todo, masterReplies, replyIn>>
    BY DEF TakeFromChat, restOfMaster, chatVars
<1>4. /\ MatterAt(KindOfWord(v), d, "mail", NoGoroutine) /\ OneMatter
      /\ \A w : KindOfWord(w) \in Kinds
    BY <1>2, WordPlaced, PatientParts DEF KindOfWord, Kinds
<1>5. \A w : ~WordReplied(d, w) /\ \A i \in Goroutines : ~WordSpoken(i, d, w)
    <2>1. ASSUME NEW w, WordReplied(d, w)
          PROVE  FALSE
        <3>1. PICK p \in {"reply", "master"} : MatterAt("Join", d, p, NoGoroutine)
            BY <2>1, WordPlaced
        <3> QED
            BY <1>4, <3>1, SameMatter DEF Kinds, Places, Whereabouts
    <2>2. ASSUME NEW w, NEW i \in Goroutines, WordSpoken(i, d, w)
          PROVE  FALSE
        <3>1. MatterAt(KindOfWord(w), d, "handler", i)
            BY <2>2, WordPlaced
        <3> QED
            BY <1>4, <3>1, SameMatter DEF Places, Whereabouts
    <2> QED
        BY <2>1, <2>2
<1>6. \A w : ~WordReplied(d, w)' /\ \A i \in Goroutines : ~WordSpoken(i, d, w)'
    BY <1>3, <1>5 DEF WordReplied, WordSpoken
<1> QED
    BY <1>2, <1>6 DEF HearsWord, Words

LEMMA ReadsReply ==
    ASSUME PatientInv, NEW d \in Doppelgangers, DoppRefusedByMaster(d), view'[d] = "off"
    PROVE  HearsWord(d, "refused")
<1>1. /\ replyIn[d] > 0 /\ replyIn' = [replyIn EXCEPT ![d] = @ - 1]
      /\ UNCHANGED <<todo, masterReplies, chatIn>>
    BY DEF DoppRefusedByMaster, restOfMaster, chatVars
<1>2. replyIn'[d] = 0
    BY <1>1, PatientParts, TypeInvParts DEF MailTypeOK
<1>3. MatterAt("Join", d, "reply", NoGoroutine) /\ OneMatter /\ "Join" \in Kinds
    BY <1>1, PatientParts DEF MatterAt, RepliedTo, Kinds
<1>4. /\ \A w : ~WordMailed(d, w) /\ \A i \in Goroutines : ~WordSpoken(i, d, w)
      /\ d \notin ToSet(masterReplies)
    <2>1. ASSUME NEW w, WordMailed(d, w)
          PROVE  FALSE
        BY <1>3, <2>1, WordPlaced, SameMatter DEF KindOfWord, Kinds, Places, Whereabouts
    <2>2. ASSUME NEW w, NEW i \in Goroutines, WordSpoken(i, d, w)
          PROVE  FALSE
        <3>1. MatterAt(KindOfWord(w), d, "handler", i) /\ KindOfWord(w) \in Kinds
            BY <2>2, WordPlaced DEF KindOfWord, Kinds
        <3> QED
            BY <1>3, <3>1, SameMatter DEF Places, Whereabouts
    <2>3. ASSUME d \in ToSet(masterReplies)
          PROVE  FALSE
        <3>1. MatterAt("Join", d, "master", NoGoroutine)
            BY <2>3 DEF MatterAt, HeldFor
        <3> QED
            BY <1>3, <3>1, SameMatter DEF Places, Whereabouts
    <2> QED
        BY <2>1, <2>2, <2>3
<1>5. \A w : /\ ~WordMailed(d, w)' /\ ~WordReplied(d, w)'
             /\ \A i \in Goroutines : ~WordSpoken(i, d, w)'
    BY <1>1, <1>2, <1>4 DEF WordMailed, WordReplied, WordSpoken
<1>6. Words(d, "refused")
    BY <1>1 DEF Words, WordReplied
<1> QED
    BY <1>5, <1>6 DEF HearsWord, Words

LEMMA StepHears ==
    ASSUME PatientInv, PatientUsers, NEW d \in Doppelgangers, DoppStep(d)
    PROVE  HearsNothing(d) \/ \E v : HearsWord(d, v)
<1>1. CASE \/ DoppEchoFails(d) \/ DoppJoin(d) \/ DoppWho(d) \/ DoppExit(d) \/ DoppSay(d)
           \/ DoppUnblocks(d) \/ DoppQuit(d) \/ DoppSeesClosed(d)
    <2>1. UNCHANGED <<chatIn, replyIn, todo, masterReplies, view>>
        BY <1>1 DEF DoppEchoFails, DoppJoin, DoppWho, DoppExit, DoppSay, DoppUnblocks, DoppQuit,
                    DoppSeesClosed, TakeLine, restOfMaster, restOfChat, chatVars, telnetVars,
                    Panic, masterVars, doppVars
    <2> QED
        BY <2>1, SameWords DEF WordMailed
<1>2. CASE DoppRefusedByMaster(d)
    <2>1. view'[d] = "off"
        BY <1>2, ViewAfter DEF DoppRefusedByMaster
    <2> QED
        BY <1>2, <2>1, ReadsReply
<1>3. CASE DoppRefusedByChat(d)
    <2>1. /\ TakeFromChat(d, "JoinDenied") /\ Head(chatIn[d]).op = "JoinDenied"
          /\ view'[d] = "off" /\ \A e \in Doppelgangers \ {d} : view'[e] = view[e]
        BY <1>3, ViewAfter DEF DoppRefusedByChat, TakeFromChat
    <2>2. HearsWord(d, "refused")
        BY <2>1, ReadsWord DEF Word
    <2> QED
        BY <2>2
<1>4. CASE DoppJoined(d)
    <2>1. /\ TakeFromChat(d, "Joined") /\ Head(chatIn[d]).op = "Joined"
          /\ view'[d] = "on" /\ \A e \in Doppelgangers \ {d} : view'[e] = view[e]
        BY <1>4, ViewAfter DEF DoppJoined, TakeFromChat
    <2>2. HearsWord(d, "in")
        BY <2>1, ReadsWord DEF Word
    <2> QED
        BY <2>2
<1>5. CASE DoppText(d)
    <2>1. TakeFromChat(d, "Text") /\ Head(chatIn[d]).op = "Text" /\ UNCHANGED view
        BY <1>5 DEF DoppText, TakeFromChat
    <2> QED
        BY <2>1, ReadsIdly DEF Word
<1>6. CASE DoppHearsExit(d)
    <2>1. /\ TakeFromChat(d, "TextExit") /\ Head(chatIn[d]).op = "TextExit" /\ UNCHANGED view
          /\ Head(chatIn[d]).leaving # d
        BY <1>6 DEF DoppHearsExit, TakeFromChat
    <2> QED
        BY <2>1, ReadsIdly DEF Word
<1>7. CASE DoppOwnExit(d)
    <2>1. /\ TakeFromChat(d, "TextExit") /\ Head(chatIn[d]).op = "TextExit"
          /\ Head(chatIn[d]).leaving = d
          /\ view'[d] = "off" /\ \A e \in Doppelgangers \ {d} : view'[e] = view[e]
        BY <1>7, ViewAfter DEF DoppOwnExit, TakeFromChat
    <2>2. HearsWord(d, "out")
        BY <2>1, ReadsWord DEF Word
    <2> QED
        BY <2>2
<1> QED
    BY <1>1, <1>2, <1>3, <1>4, <1>5, <1>6, <1>7 DEF DoppStep
-----------------------------------------------------------------------------
WishIn(q, d, x) == \E m \in ToSet(q) : m.op # "Who" /\ m.from = d /\ x = AsksFor(m)

LEMMA WishAppended ==
    ASSUME NEW q \in Seq(ToMaster), NEW r \in ToMaster, NEW d, r.from = d
    PROVE  \A x : WishIn(Append(q, r), d, x) <=>
                WishIn(q, d, x) \/ (r.op # "Who" /\ x = AsksFor(r))
<1>1. ToSet(Append(q, r)) = ToSet(q) \cup {r}
    BY ToSetOfAppend
<1> QED
    BY <1>1 DEF WishIn

LEMMA TurnOthers ==
    ASSUME PatientInv, DropsAreKnown, NEW d \in Doppelgangers, DoppStep(d), NEW g, NEW id, NEW ce,
           NEW q, NEW join, NEW exit, Handler(d, g, id, ce, q, join, exit)
    PROVE  StayFor(Others(d)) /\ SeatsStill(Channels) /\ droppedOf'[d] = droppedOf[d]
<1>1. /\ UNCHANGED <<running, masterTodo, masterReplies, inbox, memberList, todo>>
      /\ \A e \in Doppelgangers \ {d} :
            chatIn'[e] = chatIn[e] /\ replyIn'[e] = replyIn[e] /\ view'[e] = view[e]
      /\ ToSet(masterQ) \subseteq ToSet(masterQ')
      /\ \A m \in ToSet(masterQ') \ ToSet(masterQ) : m.from = d
    BY HandlerFacts
<1>2. UNCHANGED chanOf
    BY DEF Handler, DoppMoves, restOfChat
<1>3. \A e \in Doppelgangers : droppedOf'[e] = droppedOf[e]
    BY StepDropsNobody
<1>4. ASSUME NEW e \in Doppelgangers \ {d}
      PROVE  StaysFor(e)
    <2>1. \A x : WishQueued(e, x)' <=> WishQueued(e, x)
        BY <1>1, <1>4 DEF WishQueued, AsksFor
    <2>2. \A x : WishHeld(e, x)' <=> WishHeld(e, x)
        BY <1>1 DEF WishHeld, AsksFor
    <2>3. \A x : \A i \in Goroutines : WishPosted(i, e, x)' <=> WishPosted(i, e, x)
        BY <1>1, <1>2 DEF WishPosted
    <2>4. \A x : Wishes(e, x)' <=> Wishes(e, x)
        BY <2>1, <2>2, <2>3 DEF Wishes
    <2>5. \A v : Words(e, v)' <=> Words(e, v)
        BY <1>1 DEF Words, WordMailed, WordReplied, WordSpoken
    <2> QED
        BY <1>1, <1>3, <2>4, <2>5, EntryStays DEF StaysFor
<1> QED
    BY <1>1, <1>3, <1>4, RostersUntouched DEF StayFor, Others

\* What d's turn does to its wishes is what it does to the queue.
LEMMA TurnWishes ==
    ASSUME PatientInv, NEW d \in Doppelgangers, NEW g, NEW id, NEW ce,
           NEW q, NEW join, NEW exit, Handler(d, g, id, ce, q, join, exit)
    PROVE  /\ \A x : Wishes(d, x) <=> WishIn(masterQ, d, x) \/ WishHeld(d, x)
                        \/ \E i \in Goroutines : WishPosted(i, d, x)
           /\ \A x : Wishes(d, x)' <=> WishIn(masterQ', d, x) \/ WishHeld(d, x)
                        \/ \E i \in Goroutines : WishPosted(i, d, x)
           /\ \A x : WishHeld(d, x)' <=> WishHeld(d, x)
           /\ \A x : \A i \in Goroutines : WishPosted(i, d, x)' <=> WishPosted(i, d, x)
<1>1. UNCHANGED <<masterTodo, inbox, chanOf>>
    BY HandlerFacts DEF Handler, DoppMoves, restOfChat
<1>2. \A x : WishQueued(d, x) <=> WishIn(masterQ, d, x)
    BY DEF WishQueued, WishIn
<1>3. \A x : WishQueued(d, x)' <=> WishIn(masterQ', d, x)
    BY DEF WishQueued, WishIn, AsksFor
<1>4. \A x : WishHeld(d, x)' <=> WishHeld(d, x)
    BY <1>1 DEF WishHeld, AsksFor
<1>5. \A x : \A i \in Goroutines : WishPosted(i, d, x)' <=> WishPosted(i, d, x)
    BY <1>1 DEF WishPosted
<1> QED
    BY <1>2, <1>3, <1>4, <1>5 DEF Wishes

LEMMA NextTypes ==
    ASSUME PatientInv'
    PROVE  TypeInv' /\ EntryInv' /\ RosterInv' /\ RelyInv' /\ NoCrash'
BY Steps DEF PatientInv

\* A turn in which the user hears of his join or his exit.
LEMMA HearingTurn ==
    ASSUME PatientInv, PatientInv', DropsAreKnown, NEW d \in Doppelgangers, DoppStep(d),
           NEW g, NEW id, NEW ce, NEW q, NEW join, NEW exit,
           Handler(d, g, id, ce, q, join, exit), Outcome(d, g, id, ce, q),
           NEW v, HearsWord(d, v)
    PROVE  Promised
<1>1. TypeInv /\ TypeInv' /\ masterQ \in Seq(ToMaster)
    BY PatientParts, NextTypes, MailTypes
<1>2. StayFor(Others(d)) /\ SeatsStill(Channels) /\ droppedOf'[d] = droppedOf[d]
    BY TurnOthers
<1>3. /\ Words(d, v) /\ verdictOf[d] = {v} /\ requestOf[d] = {}
      /\ verdictOf'[d] = {} /\ view'[d] = IF v = "in" THEN "on" ELSE "off"
    BY EntryIs, EntryWillBe DEF HearsWord
<1>4. q = masterQ
    BY <1>3, WordIsUnderWay DEF Handler, AsksFreely
<1>5. CASE masterQ' = masterQ
    <2>1. requestOf'[d] = requestOf[d]
        BY <1>5, TurnWishes, EntryStays
    <2> QED
        BY <1>1, <1>2, <1>3, <2>1, PromisedHears
<1>6. CASE Leaves(d, id, ce, q) /\ id \in Channels /\ masterQ' = Append(q, Request("Exit", d, id))
    <2>1. PICK r : r = Request("Exit", d, id)
        OBVIOUS
    <2>2. r \in ToMaster /\ r.from = d /\ r.op = "Exit"
        BY <1>6, <2>1 DEF Request, ToMaster
    <2>3. WishIn(masterQ', d, Leave)
        BY <1>1, <1>4, <1>6, <2>1, <2>2, WishAppended DEF AsksFor
    <2>4. requestOf'[d] = {Leave}
        BY <2>3, TurnWishes, EntryWillBe
    <2>5. droppedOf[d]
        BY <1>6, StepKnows DEF Leaves
    <2>6. Knows(id, ce, g, view'[d], line'[d], join, exit)
        BY <1>6 DEF Handler, Quits, Leaves
    <2>7. v = "in"
        BY <1>3, <1>6, <2>6 DEF Knows
    <2> QED
        BY <1>1, <1>2, <1>3, <2>4, <2>5, <2>7, PromisedHears
<1> QED
    BY <1>4, <1>5, <1>6 DEF Outcome, Stays, Leaves, Quits

\* The seat of a doppelganger that asks to leave.
LEMMA AskingToLeave ==
    ASSUME PatientInv, PatientInv', DropsAreKnown, NEW d \in Doppelgangers, DoppStep(d),
           NEW g, NEW id, NEW ce, NEW q, NEW join, NEW exit,
           Handler(d, g, id, ce, q, join, exit), HearsNothing(d),
           \A x : ~Wishes(d, x), \A v : ~Words(d, v), WishIn(masterQ', d, Leave),
           status[d] # "returned", chatID[d] \in Channels,
           view'[d] = "asked" \/ gone'[d]
    PROVE  Promised
<1>1. TypeInv /\ TypeInv'
    BY PatientParts, NextTypes
<1>2. StayFor(Others(d)) /\ SeatsStill(Channels) /\ droppedOf'[d] = droppedOf[d]
    BY TurnOthers
<1>3. requestOf[d] = {} /\ verdictOf[d] = {} /\ requestOf'[d] = {Leave} /\ verdictOf'[d] = {}
    BY EntryIs, EntryWillBe, TurnWishes
<1>4. view'[d] = view[d]
    BY DEF HearsNothing
<1>5. view[d] = "asked" \/ droppedOf[d]
    BY <1>4, StepKnows
<1>6. d \in rosterOf[chatID[d]]
    BY SeatOfHolder
<1> QED
    BY <1>1, <1>2, <1>3, <1>4, <1>5, <1>6, PromisedLeave

LEMMA IdleTurn ==
    ASSUME PatientInv, PatientInv', DropsAreKnown, NEW d \in Doppelgangers, DoppStep(d),
           NEW g, NEW id, NEW ce, NEW q, NEW join, NEW exit,
           Handler(d, g, id, ce, q, join, exit), HearsNothing(d),
           \A x : WishIn(masterQ', d, x) <=> WishIn(masterQ, d, x)
    PROVE  Promised
<1>1. TypeInv /\ TypeInv'
    BY PatientParts, NextTypes
<1>2. StayFor(Others(d)) /\ SeatsStill(Channels) /\ droppedOf'[d] = droppedOf[d]
    BY TurnOthers
<1>3. \A x : Wishes(d, x)' <=> Wishes(d, x)
    BY TurnWishes
<1>4. StaysFor(d)
    BY <1>2, <1>3, EntryStays DEF StaysFor, HearsNothing
<1> QED
    BY <1>1, <1>2, <1>4, PromisedNothing

\* What is left of d's matters when the handler has run.
LEMMA NothingLeftOver ==
    ASSUME PatientInv, PatientInv', NEW d \in Doppelgangers,
           NEW g, NEW id, NEW ce, NEW q, NEW join, NEW exit,
           Handler(d, g, id, ce, q, join, exit), HearsNothing(d),
           ~Left("Join", d, q), ~Left("Exit", d, q)
    PROVE  (\A x : ~Wishes(d, x)) /\ \A v : ~Words(d, v)
<1>1. ~Elsewhere("Join", d) /\ ~Elsewhere("Exit", d)
    BY DEF Left
<1>2. masterQ \in Seq(ToMaster)
    BY PatientParts, MailTypes
<1>3. ToSet(masterQ) \subseteq ToSet(q)
    <2>1. CASE q = masterQ
        BY <2>1
    <2>2. CASE q # masterQ
        <3>1. PICK r \in ToMaster : q = Append(masterQ, r)
            BY <2>2 DEF Handler, AsksFreely
        <3> QED
            BY <1>2, <3>1, ToSetOfAppend
    <2> QED
        BY <2>1, <2>2
<1>4. \A x : ~WishIn(masterQ, d, x)
    <2> SUFFICES ASSUME NEW x, WishIn(masterQ, d, x)
                 PROVE  FALSE
        OBVIOUS
    <2>1. PICK m \in ToSet(masterQ) : m.op # "Who" /\ m.from = d
        BY DEF WishIn
    <2>2. m \in ToMaster
        BY <1>2, <2>1, ToSetType
    <2>3. m.op = "Join" \/ m.op = "Exit"
        BY <2>1, <2>2 DEF ToMaster
    <2> QED
        BY <1>3, <2>1, <2>3 DEF Left
<1>5. \A x : ~WishHeld(d, x) /\ \A i \in Goroutines : ~WishPosted(i, d, x)
    BY <1>1, TurnWishes, ElsewhereNext
<1>6. \A v : ~Words(d, v)
    BY <1>1, ElsewhereNext DEF HearsNothing
<1> QED
    BY <1>4, <1>5, <1>6, TurnWishes

LEMMA LeavingTurn ==
    ASSUME PatientInv, PatientInv', DropsAreKnown, NEW d \in Doppelgangers, DoppStep(d),
           NEW g, NEW id, NEW ce, NEW q, NEW join, NEW exit,
           Handler(d, g, id, ce, q, join, exit), HearsNothing(d),
           Leaves(d, id, ce, q), id \in Channels, masterQ' = Append(q, Request("Exit", d, id))
    PROVE  Promised
<1>1. Knows(id, ce, g, view'[d], line'[d], join, exit)
    BY DEF Handler, Quits, Leaves
<1>2. ~Left("Join", d, q) /\ ~Left("Exit", d, q)
    BY <1>1 DEF Knows, Handler
<1>3. (\A x : ~Wishes(d, x)) /\ \A v : ~Words(d, v)
    BY <1>2, NothingLeftOver
<1>4. id = chatID[d]
    <2> SUFFICES ASSUME id # chatID[d]
                 PROVE  FALSE
        OBVIOUS
    <2>1. running[id] # NoGoroutine /\ d \in Hearing(running[id])
        BY DEF Handler, DoppMoves, Onto
    <2>2. running[id] \in Goroutines
        BY <2>1, PatientParts, TypeInvFacts
    <2>3. \A m : m.op = "Joined" => Word(d, m, "in")
        BY DEF Word
    <2>4. Words(d, "in")
        BY <2>1, <2>2, <2>3 DEF Hearing, Words, WordSpoken, WordMailed
    <2> QED
        BY <1>3, <2>4
<1>5. PICK r : r = Request("Exit", d, id)
    OBVIOUS
<1>6. r \in ToMaster /\ r.from = d /\ r.op = "Exit"
    BY <1>5 DEF Request, ToMaster
<1>7. q \in Seq(ToMaster)
    BY HandlerFacts
<1>8. WishIn(masterQ', d, Leave)
    BY <1>5, <1>6, <1>7, WishAppended DEF AsksFor
<1>9. gone'[d] /\ status[d] # "returned"
    BY DEF Leaves, Handler, DoppMoves
<1> QED
    BY <1>3, <1>4, <1>8, <1>9, AskingToLeave

LEMMA JoiningTurn ==
    ASSUME PatientInv, PatientInv', DropsAreKnown, NEW d \in Doppelgangers, DoppStep(d),
           NEW g, NEW id, NEW ce, NEW q, NEW join, NEW exit,
           Handler(d, g, id, ce, q, join, exit), HearsNothing(d), masterQ' = q,
           NEW r \in ToMaster, r.from = d, q = Append(masterQ, r), r.op = "Join",
           ~UnderWay("Join", d), ~UnderWay("Exit", d)
    PROVE  Promised
<1>1. TypeInv /\ TypeInv' /\ masterQ \in Seq(ToMaster)
    BY PatientParts, NextTypes, MailTypes
<1>2. StayFor(Others(d)) /\ SeatsStill(Channels) /\ droppedOf'[d] = droppedOf[d]
    BY TurnOthers
<1>3. (\A x : ~Wishes(d, x)) /\ \A v : ~Words(d, v)
    BY WishIsUnderWay, WordIsUnderWay
<1>4. ToSet(q) = ToSet(masterQ) \cup {r}
    BY <1>1, ToSetOfAppend
<1>5. Left("Join", d, q)
    BY <1>4 DEF Left
<1>6. join /\ Knows(id, ce, g, view'[d], line'[d], join, exit)
    BY <1>5 DEF Handler, Quits
<1>7. id \notin Channels /\ view'[d] # "on" /\ view'[d] # "off"
    BY <1>6 DEF Knows
<1>8. view'[d] = "asked" /\ view[d] = "asked"
    <2>1. view' \in [Doppelgangers -> {"off", "asked", "on"}]
        BY <1>1, TypeInvParts DEF TelnetTypeOK
    <2> QED
        BY <1>7, <2>1 DEF HearsNothing
<1>9. chatID[d] \notin Channels
    <2> SUFFICES ASSUME chatID[d] \in Channels
                 PROVE  FALSE
        OBVIOUS
    <2>1. PICK m \in ToSet(q) : m.op = "Exit" /\ m.from = d
        BY <1>7 DEF Handler, KeepsSeat
    <2>2. QueuedFor("Exit", d)
        BY <1>4, <2>1 DEF QueuedFor
    <2> QED
        BY <2>2 DEF UnderWay, MatterAt, Places, Whereabouts
<1>10. \A b \in Channels : d \notin rosterOf[b]
    BY <1>3, <1>9, NoSeat
<1>11. r.chan \in Channels \cup {Nowhere}
    BY DEF ToMaster
<1>12. WishIn(masterQ', d, r.chan)
    BY <1>1, WishAppended DEF AsksFor
<1>13. /\ requestOf[d] = {} /\ verdictOf[d] = {}
       /\ requestOf'[d] = {r.chan} /\ verdictOf'[d] = {}
    BY <1>3, <1>12, EntryIs, EntryWillBe, TurnWishes
<1> QED
    BY <1>1, <1>2, <1>8, <1>10, <1>11, <1>13, PromisedJoin

LEMMA AskingTurn ==
    ASSUME PatientInv, PatientInv', DropsAreKnown, NEW d \in Doppelgangers, DoppStep(d),
           NEW g, NEW id, NEW ce, NEW q, NEW join, NEW exit,
           Handler(d, g, id, ce, q, join, exit), HearsNothing(d), masterQ' = q,
           Stays(d, g, id, ce, q) \/ Leaves(d, id, ce, q) \/ Quits(d, id, q), q # masterQ
    PROVE  Promised
<1>1. masterQ \in Seq(ToMaster)
    BY PatientParts, MailTypes
<1>2. PICK r \in ToMaster :
        /\ r.from = d /\ q = Append(masterQ, r)
        /\ ~UnderWay("Join", d) /\ ~UnderWay("Exit", d)
        /\ r.op # "Join" => r.chan = chatID[d] /\ r.chan \in Channels
        /\ r.op # "Exit" \/ id = NoChannel
    BY DEF Handler, AsksFreely
<1>3. r.op \in {"Join", "Who", "Exit"}
    BY DEF ToMaster
<1>4. CASE r.op = "Join"
    BY <1>2, <1>4, JoiningTurn
<1>5. CASE r.op = "Who"
    <2>1. \A x : WishIn(masterQ', d, x) <=> WishIn(masterQ, d, x)
        BY <1>1, <1>2, <1>5, WishAppended
    <2> QED
        BY <2>1, IdleTurn
<1>6. CASE r.op = "Exit"
    <2>1. (\A x : ~Wishes(d, x)) /\ \A v : ~Words(d, v)
        BY <1>2, WishIsUnderWay, WordIsUnderWay
    <2>2. WishIn(masterQ', d, Leave)
        BY <1>1, <1>2, <1>6, WishAppended DEF AsksFor
    <2>3. Left("Exit", d, q)
        BY <1>1, <1>2, <1>6, ToSetOfAppend DEF Left
    <2>4. exit /\ Knows(id, ce, g, view'[d], line'[d], join, exit)
        BY <2>3 DEF Handler, Quits
    <2>5. view'[d] = "asked" \/ g
        <3>1. view' \in [Doppelgangers -> {"off", "asked", "on"}]
            BY NextTypes, TypeInvParts DEF TelnetTypeOK
        <3> QED
            BY <2>4, <3>1 DEF Knows
    <2>6. g => gone'[d]
        BY <1>2, <1>6, <2>3, IdsDiffer, IdsAssumption DEF Stays, Leaves, Quits
    <2>7. status[d] # "returned" /\ chatID[d] \in Channels
        BY <1>2, <1>6 DEF Handler, DoppMoves
    <2> QED
        BY <2>1, <2>2, <2>5, <2>6, <2>7, AskingToLeave
<1> QED
    BY <1>3, <1>4, <1>5, <1>6

LEMMA DoppPromised ==
    ASSUME PatientInv, PatientInv', PatientUsers, DropsAreKnown,
           NEW d \in Doppelgangers, DoppStep(d)
    PROVE  Promised
<1>1. PICK g, ce, join, exit, id, q :
        Handler(d, g, id, ce, q, join, exit) /\ Outcome(d, g, id, ce, q)
    BY DoppTurn DEF TakesTurn
<1>2. CASE \E v : HearsWord(d, v)
    BY <1>1, <1>2, HearingTurn
<1>3. CASE HearsNothing(d)
    <2>1. Stays(d, g, id, ce, q) \/ Leaves(d, id, ce, q) \/ Quits(d, id, q)
        BY <1>1 DEF Outcome
    <2>2. CASE Leaves(d, id, ce, q) /\ id \in Channels /\ masterQ' = Append(q, Request("Exit", d, id))
        BY <1>1, <1>3, <2>2, LeavingTurn
    <2>3. CASE masterQ' = q /\ q = masterQ
        BY <1>1, <1>3, <2>3, IdleTurn
    <2>4. CASE masterQ' = q /\ q # masterQ
        BY <1>1, <1>3, <2>1, <2>4, AskingTurn
    <2> QED
        BY <2>1, <2>2, <2>3, <2>4 DEF Stays, Leaves, Quits
<1> QED
    BY <1>2, <1>3, StepHears

-----------------------------------------------------------------------------
(***************************************************************************)
(* The steps of the other goroutines.                                      *)
(***************************************************************************)
LEMMA StayWhere ==
    ASSUME DropsAreKnown, UNCHANGED <<gone, telnetVars>>, NEW es \in SUBSET Doppelgangers,
           \A e \in es : \A x : (Wishes(e, x)' <=> Wishes(e, x)) /\ (Words(e, x)' <=> Words(e, x))
    PROVE  StayFor(es) /\ \A e \in Doppelgangers : droppedOf'[e] = droppedOf[e] /\ view'[e] = view[e]
<1>1. \A e \in Doppelgangers : droppedOf'[e] = droppedOf[e] /\ view'[e] = view[e]
    BY OthersDropNobody DEF telnetVars
<1>2. ASSUME NEW e \in es
      PROVE  StaysFor(e)
    BY <1>1, EntryStays DEF StaysFor
<1> QED
    BY <1>1, <1>2 DEF StayFor

LEMMA NobodyPromised ==
    ASSUME PatientInv, PatientInv', DropsAreKnown, UNCHANGED <<gone, telnetVars>>,
           SeatsStill(Channels),
           \A e \in Doppelgangers : \A x :
               (Wishes(e, x)' <=> Wishes(e, x)) /\ (Words(e, x)' <=> Words(e, x))
    PROVE  Promised
<1>1. StayFor(Doppelgangers)
    BY StayWhere
<1>2. view = [e \in Doppelgangers |-> view[e]] /\ view' = [e \in Doppelgangers |-> view'[e]]
    BY PatientParts, NextTypes, TypeInvParts DEF TelnetTypeOK
<1>3. \A e \in Doppelgangers :
        /\ requestOf'[e] = requestOf[e] /\ verdictOf'[e] = verdictOf[e]
        /\ view'[e] = view[e] /\ droppedOf'[e] = droppedOf[e]
    BY <1>1 DEF StayFor, StaysFor
<1>4. requestOf' = requestOf /\ verdictOf' = verdictOf /\ view' = view /\ droppedOf' = droppedOf
    BY <1>2, <1>3, Ledgers, LedgersNext
<1>5. UNCHANGED Promise!vars
    BY <1>4, SeatsAsBefore DEF Promise!vars
<1> QED
    BY <1>5 DEF Promised

-----------------------------------------------------------------------------
\* The channel master.

LEMMA RequestHandled ==
    ASSUME PatientInv, MasterRefusesName \/ MasterForwardsJoin \/ MasterWho \/ MasterExit
    PROVE  \E h : /\ Handles(h) /\ UNCHANGED telnetVars
                  /\ (Refuses(h) /\ h.chan = Nowhere) \/ Drops(h) \/ Passes(h)
<1> DEFINE h == Head(masterQ)
<1>1. ASSUME NEW op, HeadIs(op), TakeRequest, UNCHANGED <<running, othersOfMaster>>
      PROVE  TakesRequest(h) /\ masterReplies = <<>> /\ h.op = op /\ UNCHANGED telnetVars
    <2>1. masterTodo = <<>> /\ masterReplies = <<>> /\ masterQ # <<>> /\ h.op = op
        BY <1>1 DEF HeadIs, MasterIdle
    <2>2. masterQ' = Tail(masterQ) /\ UNCHANGED <<denialQ, running, chatVars, doppVars, telnetVars>>
        BY <1>1 DEF TakeRequest, othersOfMaster
    <2> QED
        BY <2>1, <2>2 DEF TakesRequest
<1>2. CASE MasterRefusesName
    <2>1. /\ TakesRequest(h) /\ masterReplies = <<>> /\ UNCHANGED telnetVars
          /\ Refuses(h) /\ h.chan = Nowhere
        BY <1>1, <1>2 DEF MasterRefusesName, HeadIs, MasterIdle, Refuses
    <2> QED
        BY <2>1 DEF Handles
<1>3. CASE MasterForwardsJoin
    <2>1. /\ TakesRequest(h) /\ masterReplies = <<>> /\ UNCHANGED telnetVars /\ h.op = "Join"
          /\ UNCHANGED masterReplies /\ HasEntry(h.chan)
          /\ masterTodo' = <<[op |-> "Join", who |-> h.from, chan |-> h.chan]>>
        BY <1>1, <1>3 DEF MasterForwardsJoin
    <2>2. Passes(h)
        BY <2>1 DEF Passes, HasEntry
    <2> QED
        BY <2>1, <2>2 DEF Handles
<1>4. CASE MasterWho
    <2>1. /\ TakesRequest(h) /\ masterReplies = <<>> /\ UNCHANGED telnetVars /\ h.op = "Who"
          /\ UNCHANGED masterReplies
          /\ masterTodo' = IF HasEntry(h.chan)
                           THEN <<[op |-> "Who", who |-> h.from, chan |-> h.chan]>>
                           ELSE <<>>
        BY <1>1, <1>4 DEF MasterWho
    <2>2. Passes(h) \/ Drops(h)
        BY <2>1 DEF Passes, Drops, HasEntry
    <2> QED
        BY <2>1, <2>2 DEF Handles
<1>5. CASE MasterExit
    <2>1. /\ TakesRequest(h) /\ masterReplies = <<>> /\ UNCHANGED telnetVars /\ h.op = "Exit"
          /\ UNCHANGED masterReplies /\ HasEntry(h.chan)
          /\ masterTodo' = <<[op |-> "Exit", who |-> h.from, chan |-> h.chan]>>
        BY <1>1, <1>5 DEF MasterExit
    <2>2. Passes(h)
        BY <2>1 DEF Passes, HasEntry
    <2> QED
        BY <2>1, <2>2 DEF Handles
<1> QED
    BY <1>2, <1>3, <1>4, <1>5

LEMMA RequestPromised ==
    ASSUME PatientInv, PatientInv', DropsAreKnown,
           MasterRefusesName \/ MasterForwardsJoin \/ MasterWho \/ MasterExit
    PROVE  Promised
<1>1. PICK h : /\ Handles(h) /\ UNCHANGED telnetVars
               /\ (Refuses(h) /\ h.chan = Nowhere) \/ Drops(h) \/ Passes(h)
    BY RequestHandled
<1>2. /\ h \in ToMaster /\ h.from \in Doppelgangers
      /\ ToSet(masterQ) = {h} \cup ToSet(masterQ')
      /\ masterTodo = <<>> /\ ToSet(masterTodo) = {} /\ ToSet(masterReplies) = {}
      /\ UNCHANGED <<running, chanOf, inbox, memberList, todo, gone, replyIn, chatIn>>
      /\ \/ Refuses(h) /\ ToSet(masterTodo') = {} /\ ToSet(masterReplies') = {h.from}
         \/ Drops(h) /\ ToSet(masterTodo') = {} /\ ToSet(masterReplies') = {}
         \/ /\ Passes(h) /\ ToSet(masterReplies') = {}
            /\ ToSet(masterTodo') = {[op |-> h.op, who |-> h.from, chan |-> h.chan]}
    BY <1>1, HandlesParts
<1>3. SeatsStill(Channels)
    BY <1>2, RostersUntouched
<1>4. \A e \in Doppelgangers : \A x :
        /\ \A i \in Goroutines : WishPosted(i, e, x)' <=> WishPosted(i, e, x)
        /\ WishQueued(e, x) <=>
              WishQueued(e, x)' \/ (h.op # "Who" /\ e = h.from /\ x = AsksFor(h))
        /\ ~WishHeld(e, x)
    BY <1>2 DEF WishQueued, WishHeld, WishPosted, AsksFor
<1>5. \A e \in Doppelgangers : \A v :
        /\ WordMailed(e, v)' <=> WordMailed(e, v)
        /\ \A i \in Goroutines : WordSpoken(i, e, v)' <=> WordSpoken(i, e, v)
        /\ WordReplied(e, v) <=> v = "refused" /\ replyIn[e] > 0
        /\ WordReplied(e, v)' <=> v = "refused" /\ (e \in ToSet(masterReplies') \/ replyIn[e] > 0)
    BY <1>2 DEF WordMailed, WordSpoken, WordReplied, Word
<1>6. CASE Drops(h) \/ Passes(h)
    <2>1. \A e \in Doppelgangers : \A x :
            WishHeld(e, x)' <=> h.op # "Who" /\ e = h.from /\ x = AsksFor(h)
        <3>1. CASE Drops(h)
            <4>1. ToSet(masterTodo') = {} /\ h.op = "Who"
                BY <3>1, ToSetOfEmpty DEF Drops
            <4> QED
                BY <4>1 DEF WishHeld
        <3>2. CASE Passes(h)
            <4>1. PICK r : r = [op |-> h.op, who |-> h.from, chan |-> h.chan]
                OBVIOUS
            <4>2. ToSet(masterTodo') = {r} /\ r.op = h.op /\ r.who = h.from /\ r.chan = h.chan
                BY <3>2, <4>1, ToSetOfOne DEF Passes
            <4>3. h.op \in {"Join", "Who", "Exit"}
                BY <1>2 DEF ToMaster
            <4> QED
                BY <4>2, <4>3 DEF WishHeld, AsksFor, Kinds
        <3> QED
            BY <1>6, <3>1, <3>2
    <2>2. \A e \in Doppelgangers : \A x : Wishes(e, x)' <=> Wishes(e, x)
        BY <1>4, <2>1 DEF Wishes
    <2>3. ToSet(masterReplies') = {}
        BY <1>6, ToSetOfEmpty DEF Drops, Passes
    <2>4. \A e \in Doppelgangers : \A v : Words(e, v)' <=> Words(e, v)
        BY <1>5, <2>3 DEF Words
    <2> QED
        BY <1>1, <1>2, <1>3, <2>2, <2>4, NobodyPromised
<1>7. CASE Refuses(h) /\ h.chan = Nowhere
    <2>1. PICK d \in Doppelgangers : d = h.from
        BY <1>2
    <2>2. ToSet(masterTodo') = {} /\ ToSet(masterReplies') = {d} /\ h.op = "Join"
        BY <1>7, <2>1, ToSetOfEmpty, ToSetOfOne DEF Refuses
    <2>3. \A e \in Doppelgangers : \A x : ~WishHeld(e, x)'
        BY <2>2 DEF WishHeld
    <2>4. \A e \in Doppelgangers \ {d} : \A x :
            (Wishes(e, x)' <=> Wishes(e, x)) /\ (Words(e, x)' <=> Words(e, x))
        BY <1>4, <1>5, <2>1, <2>2, <2>3 DEF Wishes, Words
    <2>5. /\ StayFor(Others(d))
          /\ droppedOf'[d] = droppedOf[d] /\ view'[d] = view[d]
        BY <1>1, <1>2, <2>4, StayWhere DEF Others
    <2>6. Wishes(d, Nowhere) /\ Words(d, "refused")'
        BY <1>4, <1>5, <1>7, <2>1, <2>2 DEF Wishes, Words, AsksFor
    <2>7. requestOf[d] = {Nowhere} /\ requestOf'[d] = {} /\ verdictOf'[d] = {"refused"}
        BY <2>6, EntryIs, EntryWillBe
    <2> QED
        BY <1>3, <2>5, <2>7, PatientParts, NextTypes, PromisedRefuses
<1> QED
    BY <1>1, <1>6, <1>7

LEMMA DenialPromised ==
    ASSUME PatientInv, PatientInv', DropsAreKnown, MasterTakesDenial
    PROVE  Promised
<1>1. HasEntry(Head(denialQ).chan)
    <2>1. crash' = "none"
        BY NextTypes DEF NoCrash
    <2> QED
        BY <2>1 DEF MasterTakesDenial, Panic
<1>2. /\ masterTodo = <<>>
      /\ UNCHANGED <<masterQ, running, masterReplies, chanOf, inbox, memberList, todo, gone, replyIn,
                     chatIn, telnetVars>>
      /\ \/ masterTodo' = <<>>
         \/ masterTodo' = <<[op |-> "Shutdown", who |-> Head(denialQ).from,
                             chan |-> Head(denialQ).chan]>>
    BY <1>1 DEF MasterTakesDenial, MasterIdle, othersOfMaster, chatVars, doppVars
<1>3. ToSet(masterTodo) = {} /\ \A m \in ToSet(masterTodo') : m.op = "Shutdown"
    BY <1>2, ToSetOfEmpty, ToSetOfOne
<1>4. \A e \in Doppelgangers : \A x :
        /\ WishQueued(e, x)' <=> WishQueued(e, x)
        /\ ~WishHeld(e, x) /\ ~WishHeld(e, x)'
        /\ \A i \in Goroutines : WishPosted(i, e, x)' <=> WishPosted(i, e, x)
    BY <1>2, <1>3 DEF WishQueued, WishHeld, WishPosted, AsksFor, Kinds
<1>5. \A e \in Doppelgangers : \A v :
        /\ WordMailed(e, v)' <=> WordMailed(e, v)
        /\ WordReplied(e, v)' <=> WordReplied(e, v)
        /\ \A i \in Goroutines : WordSpoken(i, e, v)' <=> WordSpoken(i, e, v)
    BY <1>2 DEF WordMailed, WordSpoken, WordReplied
<1>6. \A e \in Doppelgangers : \A x :
        (Wishes(e, x)' <=> Wishes(e, x)) /\ (Words(e, x)' <=> Words(e, x))
    BY <1>4, <1>5 DEF Wishes, Words
<1> QED
    BY <1>2, <1>6, RostersUntouched, NobodyPromised

LEMMA ReplyPromised ==
    ASSUME PatientInv, PatientInv', DropsAreKnown, MasterReplies
    PROVE  Promised
<1>1. masterReplies \in Seq(Doppelgangers) /\ masterReplies # <<>> /\ Len(masterReplies) <= 1
    BY PatientParts, TypeInvParts DEF NothingBehind, MasterReplies, MasterTypeOK
<1>2. PICK d \in Doppelgangers :
        /\ Tail(masterReplies) = <<>> /\ ToSet(masterReplies) = {d} /\ d = Head(masterReplies)
    <2>1. Tail(masterReplies) = <<>> /\ ToSet(masterReplies) = {Head(masterReplies)}
        BY <1>1, TailOfOne
    <2>2. Head(masterReplies) \in Doppelgangers
        BY <1>1, ToSetType
    <2> QED
        BY <2>1, <2>2
<1>3. crash' = "none"
    BY NextTypes DEF NoCrash
<1>4. /\ replyIn' = [replyIn EXCEPT ![d] = @ + 1] /\ masterReplies' = <<>>
      /\ UNCHANGED <<masterQ, running, masterTodo, chanOf, inbox, memberList, todo, gone, chatIn,
                     telnetVars>>
    BY <1>2, <1>3 DEF MasterReplies, chatVars, Panic
<1>5. /\ \A e \in Doppelgangers \ {d} : replyIn'[e] = replyIn[e]
      /\ replyIn'[d] > 0 /\ ToSet(masterReplies') = {}
    <2>1. replyIn \in [Doppelgangers -> 0 .. 1]
        BY PatientParts, TypeInvParts DEF MailTypeOK
    <2> QED
        BY <1>4, <2>1, ToSetOfEmpty
<1>6. \A e \in Doppelgangers : \A x :
        /\ WishQueued(e, x)' <=> WishQueued(e, x)
        /\ WishHeld(e, x)' <=> WishHeld(e, x)
        /\ \A i \in Goroutines : WishPosted(i, e, x)' <=> WishPosted(i, e, x)
    BY <1>4 DEF WishQueued, WishHeld, WishPosted, AsksFor
<1>7. \A e \in Doppelgangers : \A v :
        /\ WordMailed(e, v)' <=> WordMailed(e, v)
        /\ WordReplied(e, v)' <=> WordReplied(e, v)
        /\ \A i \in Goroutines : WordSpoken(i, e, v)' <=> WordSpoken(i, e, v)
    BY <1>2, <1>4, <1>5 DEF WordMailed, WordSpoken, WordReplied
<1>8. \A e \in Doppelgangers : \A x :
        (Wishes(e, x)' <=> Wishes(e, x)) /\ (Words(e, x)' <=> Words(e, x))
    BY <1>6, <1>7 DEF Wishes, Words
<1> QED
    BY <1>4, <1>8, RostersUntouched, NobodyPromised

\* Whoever is on the roster of a goroutine that is sent its Shutdown is being taken off.
LEMMA ShutdownLeavesNobody ==
    ASSUME PatientInv, NEW m, NEW i, SendsOn(m, i), m.op = "Shutdown"
    PROVE  \A d : ~Seated(i, d)
<1>1. /\ TypeInv /\ EntryInv /\ CountCoversDue
      /\ m.chan \in Channels /\ i \in Goroutines /\ running[m.chan] = i /\ i # NoGoroutine
      /\ todo' = todo /\ ToSet(inbox'[i]) = {Posted(m)} /\ Posted(m).op = "Shutdown"
    BY PatientParts, SendsFacts
<1>2. Due(m.chan) = 0 /\ \A d \in memberList[i] : ExitTaken(i, d)'
    BY <1>1, ShutdownSent
<1>3. \A d \in memberList[i] : TakenOff(i, d)
    BY <1>1, <1>2 DEF ExitTaken, TakenOff
<1>4. \A d : ~IsHailed(i, d)
    <2> SUFFICES ASSUME NEW n \in ToSet(todo[i]), n.op = "Joined"
                 PROVE  FALSE
        BY DEF IsHailed
    <2>1. n \in ChatSends /\ n.leaving = Nobody
        <3>1. todo[i] \in Seq(ChatSends)
            BY <1>1, MailTypes
        <3>2. n.op = "TextExit" <=> n.leaving # Nobody
            BY <1>1, PatientParts DEF RosterInv, OneLeaverAtATime
        <3> QED
            BY <3>1, <3>2, ToSetType
    <2>2. n \notin Verdicts
        BY <1>1, <1>2, NothingDue
    <2> QED
        BY <2>1, <2>2 DEF ChatSends, Verdicts
<1> QED
    BY <1>3, <1>4 DEF Seated

LEMMA SendPromised ==
    ASSUME PatientInv, PatientInv', DropsAreKnown, MasterSendsToChat
    PROVE  Promised
<1>1. chatState[running[Head(masterTodo).chan]] # "returned" /\ masterTodo # <<>>
    <2>1. crash' = "none"
        BY NextTypes DEF NoCrash
    <2> QED
        BY <2>1 DEF MasterSendsToChat, Panic
<1>2. PICK m, i : m = Head(masterTodo) /\ i = running[m.chan]
    OBVIOUS
<1>3. SendsOn(m, i) /\ UNCHANGED <<masterReplies, chanOf, telnetVars>>
    BY <1>1, <1>2 DEF MasterSendsToChat, SendsOn
<1>4. /\ m \in MasterSends /\ m.chan \in Channels
      /\ i \in Goroutines /\ running[m.chan] = i /\ i # NoGoroutine
      /\ ToSet(masterTodo) = {m}
      /\ \A n \in ToSet(masterTodo') : n.op = "Shutdown"
      /\ ToSet(inbox[i]) = {} /\ ToSet(inbox'[i]) = {Posted(m)}
      /\ Posted(m).op = m.op /\ Posted(m).who = m.who
      /\ \A j \in Goroutines \ {i} : inbox'[j] = inbox[j]
      /\ \A c \in Channels : c # m.chan => running'[c] = running[c]
      /\ m.op # "Shutdown" => running' = running
      /\ UNCHANGED <<masterQ, memberList, todo, gone, replyIn, chatIn>>
    BY <1>3, SendsFacts
<1>5. chanOf[i] = m.chan
    BY <1>4, PatientParts DEF EntryInv, EntryIsLive
<1>6. \A e \in Doppelgangers : \A x :
        /\ WishQueued(e, x)' <=> WishQueued(e, x)
        /\ WishHeld(e, x) <=> m.op \in Kinds /\ m.who = e /\ x = AsksFor(m)
        /\ ~WishHeld(e, x)' /\ ~WishPosted(i, e, x)
        /\ WishPosted(i, e, x)' <=> m.op \in Kinds /\ m.who = e /\ x = AsksFor(m)
        /\ \A j \in Goroutines \ {i} : WishPosted(j, e, x)' <=> WishPosted(j, e, x)
    BY <1>3, <1>4, <1>5 DEF WishQueued, WishHeld, WishPosted, AsksFor, Kinds
<1>7. \A e \in Doppelgangers : \A v :
        /\ WordMailed(e, v)' <=> WordMailed(e, v)
        /\ WordReplied(e, v)' <=> WordReplied(e, v)
        /\ \A j \in Goroutines : WordSpoken(j, e, v)' <=> WordSpoken(j, e, v)
    BY <1>3, <1>4 DEF WordMailed, WordSpoken, WordReplied
<1>8. \A e \in Doppelgangers : \A x :
        (Wishes(e, x)' <=> Wishes(e, x)) /\ (Words(e, x)' <=> Words(e, x))
    BY <1>4, <1>6, <1>7 DEF Wishes, Words
<1>9. SeatsStill(Channels)
    <2>1. CASE m.op # "Shutdown"
        BY <1>4, <2>1, RostersUntouched
    <2>2. CASE m.op = "Shutdown"
        <3>1. \A d : d \notin rosterOf[m.chan]
            BY <1>3, <1>4, <2>2, ShutdownLeavesNobody, SeatsAre
        <3>2. running'[m.chan] = NoGoroutine
            <4>1. running' = [running EXCEPT ![m.chan] = NoGoroutine]
                BY <1>3, <2>2, PatientParts, ShutdownSent
            <4>2. running \in [Channels -> Goroutines \cup {NoGoroutine}]
                BY PatientParts, TypeInvFacts
            <4> QED
                BY <1>4, <4>1, <4>2
        <3>3. \A d : d \notin rosterOf'[m.chan]
            BY <1>4, <3>2, SeatsWillBe
        <3>4. rosterOf'[m.chan] = rosterOf[m.chan]
            BY <1>4, <3>1, <3>3, SeatStays
        <3>5. \A c \in Channels \ {m.chan} : rosterOf'[c] = rosterOf[c]
            BY <1>4 DEF rosterOf, Entering, Leaving
        <3> QED
            BY <3>4, <3>5 DEF SeatsStill
    <2> QED
        BY <2>1, <2>2
<1> QED
    BY <1>3, <1>4, <1>8, <1>9, NobodyPromised
-----------------------------------------------------------------------------
\* The chat channels: who is addressed by what their handlers say.

LEMMA BroadcastReaches ==
    ASSUME NEW ds \in SUBSET Doppelgangers, NEW op, NEW leaving,
           NEW s \in Broadcasts(op, ds, leaving), NEW d \in ds
    PROVE  \E m \in ToSet(s) : m.to = d
<1>1. PICK f \in SetToSeqs(ds) : s = [k \in DOMAIN f |-> SendTo(op, f[k], leaving)]
    BY DEF Broadcasts
<1>2. PICK n : n = Cardinality(ds)
    OBVIOUS
<1>3. IsFiniteSet(ds) /\ n \in Nat
    BY <1>2, IdsAssumption, FS_Subset, FS_CardinalityType DEF IdsAssumption
<1>4. f \in [1 .. n -> ds] /\ \A k, l \in 1 .. n : k # l => f[k] # f[l]
    BY <1>2 DEF SetToSeqs
<1>5. f \in Injection(1 .. n, ds)
    BY <1>4 DEF Injection, IsInjective
<1>6. Cardinality(1 .. n) = n
    BY <1>3, FS_Interval
<1>7. f \in Surjection(1 .. n, ds)
    BY <1>2, <1>3, <1>5, <1>6, FS_Injection
<1>8. PICK k \in 1 .. n : f[k] = d
    BY <1>7 DEF Surjection
<1>9. k \in DOMAIN s /\ s[k].to = d
    BY <1>1, <1>4, <1>8 DEF SendTo
<1> QED
    BY <1>9 DEF ToSet

LEMMA JoinIsAnswered ==
    ASSUME NEW d \in Doppelgangers, NEW members \in SUBSET Doppelgangers,
           NEW s \in AnswersToJoin(d, members)
    PROVE  /\ Cardinality(members) >= MaxMembers =>
                /\ \E m \in ToSet(s) : m.op = "JoinDenied" /\ m.to = d
                /\ \A m \in ToSet(s) : m.op # "Joined"
           /\ ~(Cardinality(members) >= MaxMembers) =>
                \E m \in ToSet(s) : m.op = "Joined" /\ m.to = d
<1> DEFINE one(op) == SendTo(op, d, Nobody)
<1>1. \A op \in {"Joined", "Denial", "JoinDenied", "Text"} : one(op).op = op /\ one(op).to = d
    BY DEF SendTo
<1>2. CASE Cardinality(members) >= MaxMembers
    <2>1. s = <<one("Denial"), one("JoinDenied")>>
        BY <1>2 DEF AnswersToJoin, RefusalOf
    <2> HIDE DEF one
    <2>2. DOMAIN s = {1, 2} /\ s[1] = one("Denial") /\ s[2] = one("JoinDenied")
        BY <2>1
    <2> QED
        BY <1>1, <1>2, <2>2 DEF ToSet
<1>3. CASE ~(Cardinality(members) >= MaxMembers)
    <2> DEFINE others == {m \in members : UserOf[m] # UserOf[d]}
               welcome == <<one("Joined"), one("Text")>>
    <2>1. PICK b \in Broadcasts("Text", others, Nobody) : s = welcome \o b
        BY <1>3 DEF AnswersToJoin, WelcomesOf
    <2>2. b \in Seq(ChatSends)
        <3>1. others \in SUBSET Doppelgangers
            OBVIOUS
        <3> HIDE DEF others
        <3> QED
            BY <2>1, <3>1, BroadcastFacts
    <2> HIDE DEF others, one
    <2>3. /\ welcome \in Seq({one("Joined"), one("Text")}) /\ Len(welcome) = 2
          /\ welcome[1] = one("Joined")
        OBVIOUS
    <2> HIDE DEF welcome
    <2>4. s[1] = one("Joined") /\ 1 \in DOMAIN s
        <3> DEFINE T == {one("Joined"), one("Text")} \cup ChatSends
        <3>1. welcome \in Seq(T) /\ b \in Seq(T)
            BY <2>2, <2>3
        <3> HIDE DEF T
        <3>2. /\ s \in Seq(T) /\ Len(s) = Len(welcome) + Len(b)
              /\ \A k \in 1 .. Len(welcome) : s[k] = welcome[k]
            BY <2>1, <3>1, ConcatProperties
        <3>3. Len(b) \in Nat /\ DOMAIN s = 1 .. Len(s)
            BY <2>2, <3>2, LenProperties
        <3> QED
            BY <2>3, <3>2, <3>3
    <2> QED
        BY <1>1, <1>3, <2>4 DEF ToSet
<1> QED
    BY <1>2, <1>3

-----------------------------------------------------------------------------
\* One channel's roster from the seats of its goroutine.

LEMMA RosterIs ==
    ASSUME TypeInv, TypeInv', NEW c \in Channels, NEW i \in Goroutines,
           running[c] = i, running'[c] = i
    PROVE  /\ (\A e \in Doppelgangers : Seated(i, e)' <=> Seated(i, e))
                => rosterOf'[c] = rosterOf[c]
           /\ \A d \in Doppelgangers :
                /\ (\A e \in Doppelgangers : Seated(i, e)' <=> Seated(i, e) \/ e = d)
                     => rosterOf'[c] = rosterOf[c] \cup {d}
                /\ (\A e \in Doppelgangers : Seated(i, e)' <=> Seated(i, e) /\ e # d)
                     => rosterOf'[c] = rosterOf[c] \ {d}
<1>1. i # NoGoroutine
    BY TypeInvFacts
<1>2. /\ \A e : e \in rosterOf[c] <=> Seated(i, e)
      /\ \A e : e \in rosterOf'[c] <=> Seated(running[c], e)'
    BY <1>1, SeatsAre, SeatsWillBe
<1>3. \A e : Seated(running[c], e)' <=> Seated(i, e)'
    BY DEF Seated, IsHailed, TakenOff
<1>4. \A e : (Seated(i, e) \/ Seated(i, e)') => e \in Doppelgangers
    <2>1. /\ memberList[i] \in SUBSET Doppelgangers /\ memberList'[i] \in SUBSET Doppelgangers
          /\ todo[i] \in Seq(ChatSends) /\ todo'[i] \in Seq(ChatSends)
        BY TypeInvParts DEF ChatTypeOK
    <2>2. \A m \in ToSet(todo[i]) \cup ToSet(todo'[i]) : m \in ChatSends
        BY <2>1, ToSetType
    <2> QED
        BY <2>1, <2>2 DEF Seated, IsHailed, ChatSends
<1> QED
    BY <1>2, <1>3, <1>4, SeatStays
-----------------------------------------------------------------------------
(***************************************************************************)
(* What the handler of a chat channel takes from the wishes, adds to the   *)
(* words and does to the seats.                                            *)
(***************************************************************************)
WordIn(s, d, v) == \E m \in ToSet(s) : m.to = d /\ Word(d, m, v)

LEMMA TurnWords ==
    ASSUME PatientInv, NEW i \in Goroutines, NEW op, NEW who, NEW s, Turns(i, op, who, s),
           Says(i, op, who, s)
    PROVE  \A e \in Doppelgangers : \A v :
               /\ Words(e, v)' <=> Words(e, v) \/ WordIn(s, e, v)
               /\ WordIn(s, e, v) =>
                    /\ e = who
                    /\ \/ op = "Join" /\ v \in {"in", "refused"}
                       \/ op = "Exit" /\ v = "out"
<1>1. /\ ToSet(todo[i]) = {} /\ todo'[i] = s
      /\ \A j \in Goroutines \ {i} : todo'[j] = todo[j]
      /\ UNCHANGED <<masterReplies, replyIn, chatIn>>
    BY TurnsFacts
<1>2. \A e \in Doppelgangers : \A v :
        /\ WordMailed(e, v)' <=> WordMailed(e, v)
        /\ WordReplied(e, v)' <=> WordReplied(e, v)
        /\ \A j \in Goroutines \ {i} : WordSpoken(j, e, v)' <=> WordSpoken(j, e, v)
        /\ ~WordSpoken(i, e, v)
        /\ WordSpoken(i, e, v)' <=> WordIn(s, e, v)
    BY <1>1 DEF WordMailed, WordReplied, WordSpoken, WordIn
<1>3. \A e \in Doppelgangers : \A v : Words(e, v)' <=> Words(e, v) \/ WordIn(s, e, v)
    BY <1>2 DEF Words
<1>4. ASSUME NEW e \in Doppelgangers, NEW v, NEW m \in ToSet(s), m.to = e, Word(e, m, v)
      PROVE  e = who /\ ((op = "Join" /\ v \in {"in", "refused"}) \/ (op = "Exit" /\ v = "out"))
    <2>1. /\ m.op = "TextExit" => op = "Exit"
          /\ m.leaving = IF op = "Exit" THEN who ELSE Nobody
          /\ m.op \in {"Joined", "JoinDenied"} => op = "Join" /\ m.to = who
        BY <1>4 DEF Says
    <2> QED
        BY <1>4, <2>1 DEF Word
<1>5. \A e \in Doppelgangers : \A v : WordIn(s, e, v) =>
        e = who /\ ((op = "Join" /\ v \in {"in", "refused"}) \/ (op = "Exit" /\ v = "out"))
    BY <1>4 DEF WordIn
<1> QED
    BY <1>3, <1>5

LEMMA TurnTakes ==
    ASSUME PatientInv, NEW i \in Goroutines, NEW op, NEW who, NEW s, Turns(i, op, who, s),
           Answered(i, op, who, s)
    PROVE  /\ op \notin Kinds =>
                \A e \in Doppelgangers : \A x : Wishes(e, x)' <=> Wishes(e, x)
           /\ op \in Kinds =>
                /\ who \in Doppelgangers
                /\ chanOf[i] \in Channels /\ running[chanOf[i]] = i
                /\ Wishes(who, IF op = "Join" THEN chanOf[i] ELSE Leave)
                /\ \A e \in Doppelgangers \ {who} : \A x : Wishes(e, x)' <=> Wishes(e, x)
<1>1. /\ \A j \in Goroutines \ {i} : inbox'[j] = inbox[j]
      /\ \/ op = "Speech" /\ inbox'[i] = inbox[i]
         \/ /\ op # "Speech" /\ who \in Doppelgangers /\ ToSet(inbox'[i]) = {}
            /\ \E m \in ToSet(inbox[i]) :
                   m.op = op /\ m.who = who /\ ToSet(inbox[i]) = {m} /\ inbox[i] = <<m>>
      /\ UNCHANGED <<masterQ, masterTodo>>
    BY TurnsFacts
<1>2. chatState[i] = "running" /\ chanOf' = chanOf
    BY DEF Answered
<1>3. \A e \in Doppelgangers : \A x :
        /\ WishQueued(e, x)' <=> WishQueued(e, x)
        /\ WishHeld(e, x)' <=> WishHeld(e, x)
        /\ \A j \in Goroutines \ {i} : WishPosted(j, e, x)' <=> WishPosted(j, e, x)
    BY <1>1, <1>2 DEF WishQueued, WishHeld, WishPosted, AsksFor
<1>4. CASE op = "Speech"
    <2>1. \A e \in Doppelgangers : \A x : WishPosted(i, e, x)' <=> WishPosted(i, e, x)
        BY <1>1, <1>2, <1>4 DEF WishPosted
    <2> QED
        BY <1>3, <1>4, <2>1 DEF Wishes, Kinds
<1>5. CASE op # "Speech"
    <2>1. PICK m \in ToSet(inbox[i]) :
            m.op = op /\ m.who = who /\ ToSet(inbox[i]) = {m} /\ inbox[i] = <<m>>
        BY <1>1, <1>5
    <2>2. /\ who \in Doppelgangers
          /\ \A e \in Doppelgangers : \A x :
                /\ ~WishPosted(i, e, x)'
                /\ WishPosted(i, e, x) <=>
                       op \in Kinds /\ e = who /\ x = IF op = "Join" THEN chanOf[i] ELSE Leave
        BY <1>1, <1>5, <2>1 DEF WishPosted
    <2>3. \A e \in Doppelgangers : \A x : op \notin Kinds \/ e # who =>
            (Wishes(e, x)' <=> Wishes(e, x))
        BY <1>3, <2>2 DEF Wishes
    <2>4. op \in Kinds => Wishes(who, IF op = "Join" THEN chanOf[i] ELSE Leave)
        BY <2>2 DEF Wishes
    <2>5. op \in Kinds => chanOf[i] \in Channels /\ running[chanOf[i]] = i
        <3> SUFFICES ASSUME op \in Kinds
                     PROVE  chanOf[i] \in Channels /\ running[chanOf[i]] = i
            OBVIOUS
        <3>1. ~HasShutdown(inbox[i])
            <4>1. m.op # "Shutdown" /\ DOMAIN inbox[i] = {1} /\ inbox[i][1] = m
                BY <2>1 DEF Kinds
            <4> QED
                BY <4>1 DEF HasShutdown
        <3> QED
            BY <1>2, <3>1, PatientParts, TypeInvFacts DEF EntryInv, OneLiveGoroutinePerChannel
    <2> QED
        BY <2>2, <2>3, <2>4, <2>5
<1> QED
    BY <1>4, <1>5

LEMMA TurnSeats ==
    ASSUME PatientInv, NEW i \in Goroutines, NEW op, NEW who, NEW s, Turns(i, op, who, s),
           Says(i, op, who, s)
    PROVE  /\ \A e : Seated(i, e) <=> e \in memberList[i]
           /\ \A e \in Doppelgangers : Seated(i, e)' <=>
                /\ e \in memberList[i] \/ \E m \in ToSet(s) : m.op = "Joined" /\ m.to = e
                /\ ~(op = "Exit" /\ e = who /\ ToSet(s) # {})
           /\ \A c \in Channels : running'[c] = running[c]
           /\ \A c \in Channels : running[c] # i => rosterOf'[c] = rosterOf[c]
<1>1. /\ ToSet(todo[i]) = {} /\ todo'[i] = s
      /\ \A j \in Goroutines \ {i} : todo'[j] = todo[j]
      /\ UNCHANGED <<running, memberList>>
    BY TurnsFacts
<1>2. \A e : Seated(i, e) <=> e \in memberList[i]
    BY <1>1 DEF Seated, IsHailed, TakenOff
<1>3. \A e \in Doppelgangers : TakenOff(i, e)' <=> op = "Exit" /\ e = who /\ ToSet(s) # {}
    <2>1. \A m \in ToSet(s) : m.leaving = IF op = "Exit" THEN who ELSE Nobody
        BY DEF Says
    <2> QED
        BY <1>1, <2>1, IdsAssumption DEF TakenOff, IdsAssumption
<1>4. \A e \in Doppelgangers : Seated(i, e)' <=>
        /\ e \in memberList[i] \/ \E m \in ToSet(s) : m.op = "Joined" /\ m.to = e
        /\ ~(op = "Exit" /\ e = who /\ ToSet(s) # {})
    BY <1>1, <1>3 DEF Seated, IsHailed
<1>5. ASSUME NEW c \in Channels, running[c] # i
      PROVE  rosterOf'[c] = rosterOf[c]
    <2>1. running[c] \in Goroutines \cup {NoGoroutine}
        BY PatientParts, TypeInvFacts
    <2>2. running'[c] = running[c] /\ memberList' = memberList
        BY <1>1
    <2>3. running[c] # NoGoroutine => todo'[running[c]] = todo[running[c]]
        BY <1>1, <1>5, <2>1
    <2> QED
        BY <2>2, <2>3 DEF rosterOf, Entering, Leaving
<1> QED
    BY <1>1, <1>2, <1>4, <1>5

\* What a handler that decides on the join or the exit of who leaves as it is.
LEMMA DecidingTurn ==
    ASSUME PatientInv, PatientInv', DropsAreKnown, NEW i \in Goroutines, NEW op \in Kinds,
           NEW who, NEW s, Turns(i, op, who, s), Says(i, op, who, s), Answered(i, op, who, s),
           NEW c, c = chanOf[i]
    PROVE  /\ c \in Channels /\ running[c] = i /\ running'[c] = i /\ who \in Doppelgangers
           /\ requestOf[who] = {IF op = "Join" THEN c ELSE Leave}
           /\ StayFor(Others(who)) /\ SeatsStill(Channels \ {c})
           /\ droppedOf'[who] = droppedOf[who] /\ view'[who] = view[who]
           /\ memberList[i] \in SUBSET Doppelgangers /\ rosterOf[c] = memberList[i]
<1>1. /\ who \in Doppelgangers /\ c \in Channels /\ running[c] = i
      /\ Wishes(who, IF op = "Join" THEN c ELSE Leave)
      /\ \A e \in Doppelgangers \ {who} : \A x : Wishes(e, x)' <=> Wishes(e, x)
    BY TurnTakes
<1>2. \A e \in Doppelgangers \ {who} : \A v : Words(e, v)' <=> Words(e, v)
    BY TurnWords
<1>3. UNCHANGED <<gone, telnetVars>>
    BY TurnsFacts DEF Turns
<1>4. /\ StayFor(Others(who))
      /\ droppedOf'[who] = droppedOf[who] /\ view'[who] = view[who]
    BY <1>1, <1>2, <1>3, StayWhere DEF Others
<1>5. running'[c] = i /\ \A b \in Channels : running[b] # i => rosterOf'[b] = rosterOf[b]
    BY <1>1, TurnSeats
<1>6. i # NoGoroutine /\ memberList[i] \in SUBSET Doppelgangers
    BY PatientParts, TypeInvFacts, MailTypes
<1>7. \A b \in Channels : running[b] = i => b = c
    BY <1>6, PatientParts DEF EntryInv, EntryIsLive
<1>8. SeatsStill(Channels \ {c})
    BY <1>5, <1>7 DEF SeatsStill
<1>9. \A e : e \in rosterOf[c] <=> e \in memberList[i]
    BY <1>1, <1>6, SeatsAre, TurnSeats
<1>10. rosterOf[c] = memberList[i]
    BY <1>9
<1>11. requestOf[who] = {IF op = "Join" THEN c ELSE Leave}
    BY <1>1, EntryIs
<1> QED
    BY <1>1, <1>4, <1>5, <1>6, <1>8, <1>10, <1>11

LEMMA JoinDecided ==
    ASSUME PatientInv, PatientInv', DropsAreKnown, NEW i \in Goroutines, NEW who, NEW s,
           Turns(i, "Join", who, s), Says(i, "Join", who, s), Answered(i, "Join", who, s)
    PROVE  Promised
<1>1. PICK c : c = chanOf[i]
    OBVIOUS
<1>2. "Join" \in Kinds
    BY DEF Kinds
<1>3. /\ c \in Channels /\ running[c] = i /\ running'[c] = i /\ who \in Doppelgangers
      /\ requestOf[who] = {c}
      /\ StayFor(Others(who)) /\ SeatsStill(Channels \ {c})
      /\ droppedOf'[who] = droppedOf[who] /\ view'[who] = view[who]
      /\ memberList[i] \in SUBSET Doppelgangers /\ rosterOf[c] = memberList[i]
    BY <1>1, <1>2, DecidingTurn
<1>4. TypeInv /\ TypeInv'
    BY PatientParts, NextTypes
<1>5. s \in AnswersToJoin(who, memberList[i])
    BY DEF Answered
<1>6. \A v : WordIn(s, who, v) => requestOf'[who] = {} /\ verdictOf'[who] = {v}
    BY <1>3, TurnWords, EntryWillBe
<1>7. \A e \in Doppelgangers : Seated(i, e)' <=>
        Seated(i, e) \/ \E m \in ToSet(s) : m.op = "Joined" /\ m.to = e
    BY TurnSeats
<1>8. CASE Cardinality(rosterOf[c]) >= MaxMembers
    <2>1. PICK m \in ToSet(s) : m.op = "JoinDenied" /\ m.to = who
        BY <1>3, <1>5, <1>8, JoinIsAnswered
    <2>2. WordIn(s, who, "refused")
        BY <2>1 DEF WordIn, Word
    <2>3. \A n \in ToSet(s) : n.op # "Joined"
        BY <1>3, <1>5, <1>8, JoinIsAnswered
    <2>4. rosterOf'[c] = rosterOf[c]
        BY <1>3, <1>4, <1>7, <2>3, RosterIs
    <2>5. SeatsStill(Channels)
        BY <1>3, <2>4 DEF SeatsStill
    <2> QED
        BY <1>3, <1>4, <1>6, <1>8, <2>2, <2>5, PromisedRefuses
<1>9. CASE ~(Cardinality(rosterOf[c]) >= MaxMembers)
    <2>1. PICK m \in ToSet(s) : m.op = "Joined" /\ m.to = who
        BY <1>3, <1>5, <1>9, JoinIsAnswered
    <2>2. WordIn(s, who, "in")
        BY <2>1 DEF WordIn, Word
    <2>3. \A n \in ToSet(s) : n.op = "Joined" => n.to = who
        BY DEF Says
    <2>4. \A e \in Doppelgangers : Seated(i, e)' <=> Seated(i, e) \/ e = who
        BY <1>7, <2>1, <2>3
    <2>5. rosterOf'[c] = rosterOf[c] \cup {who}
        BY <1>3, <1>4, <2>4, RosterIs
    <2> QED
        BY <1>3, <1>4, <1>6, <1>9, <2>2, <2>5, PromisedAdmits
<1> QED
    BY <1>8, <1>9

LEMMA ExitDecided ==
    ASSUME PatientInv, PatientInv', DropsAreKnown, NEW i \in Goroutines, NEW who, NEW s,
           Turns(i, "Exit", who, s), Says(i, "Exit", who, s), Answered(i, "Exit", who, s)
    PROVE  Promised
<1>1. PICK c : c = chanOf[i]
    OBVIOUS
<1>2. "Exit" \in Kinds
    BY DEF Kinds
<1>3. /\ c \in Channels /\ running[c] = i /\ running'[c] = i /\ who \in Doppelgangers
      /\ requestOf[who] = {Leave}
      /\ StayFor(Others(who)) /\ SeatsStill(Channels \ {c})
      /\ droppedOf'[who] = droppedOf[who] /\ view'[who] = view[who]
      /\ memberList[i] \in SUBSET Doppelgangers /\ rosterOf[c] = memberList[i]
    BY <1>1, <1>2, DecidingTurn
<1>4. TypeInv /\ TypeInv'
    BY PatientParts, NextTypes
<1>5. who \in memberList[i]
    <2>1. PostedFor("Exit", i, who)
        BY TurnsPosts
    <2>2. Belongs(i, who)
        BY <2>1 DEF Belongs
    <2> QED
        BY <1>3, <2>2, PatientParts DEF SeatsAreTaken
<1>6. PICK m \in ToSet(s) : m.to = who
    BY <1>3, <1>5, BroadcastReaches DEF Answered
<1>7. m.op = "TextExit" /\ m.leaving = who /\ \A n \in ToSet(s) : n.op # "Joined"
    BY <1>6 DEF Says
<1>8. WordIn(s, who, "out")
    BY <1>6, <1>7 DEF WordIn, Word
<1>9. requestOf'[who] = {} /\ verdictOf'[who] = {"out"}
    BY <1>3, <1>8, TurnWords, EntryWillBe
<1>10. \A e \in Doppelgangers : Seated(i, e)' <=> Seated(i, e) /\ e # who
    BY <1>6, <1>7, TurnSeats
<1>11. rosterOf'[c] = rosterOf[c] \ {who}
    BY <1>3, <1>4, <1>10, RosterIs
<1> QED
    BY <1>3, <1>4, <1>5, <1>9, <1>11, PromisedReleases

LEMMA TakePromised ==
    ASSUME PatientInv, PatientInv', DropsAreKnown, NEW i \in Goroutines,
           ChatJoin(i) \/ ChatWho(i) \/ ChatExit(i) \/ ChatShutdown(i) \/ ChatSpeech(i)
    PROVE  Promised
<1>1. PICK op, who, s :
        Turns(i, op, who, s) /\ Says(i, op, who, s) /\ Answered(i, op, who, s)
    BY TakesTurns
<1>2. CASE op \notin Kinds
    <2>1. UNCHANGED <<gone, telnetVars>>
        BY <1>1, TurnsFacts DEF Turns
    <2>2. \A e \in Doppelgangers : \A x :
            (Wishes(e, x)' <=> Wishes(e, x)) /\ (Words(e, x)' <=> Words(e, x))
        <3>1. op # "Join" /\ op # "Exit"
            BY <1>2 DEF Kinds
        <3>2. \A e \in Doppelgangers : \A x : ~WordIn(s, e, x)
            BY <1>1, <3>1, TurnWords
        <3> QED
            BY <1>1, <1>2, <3>2, TurnTakes, TurnWords
    <2>3. ASSUME NEW c \in Channels, running[c] = i
          PROVE  rosterOf'[c] = rosterOf[c]
        <3>1. running'[c] = i
            BY <1>1, <2>3, TurnSeats
        <3>2. op # "Exit" /\ \A m \in ToSet(s) : m.op # "Joined"
            BY <1>1, <1>2 DEF Says, Kinds
        <3>3. \A e \in Doppelgangers : Seated(i, e)' <=> Seated(i, e)
            BY <1>1, <3>2, TurnSeats
        <3> QED
            BY <2>3, <3>1, <3>3, RosterIs, PatientParts, NextTypes
    <2>4. SeatsStill(Channels)
        BY <1>1, <2>3, TurnSeats DEF SeatsStill
    <2> QED
        BY <2>1, <2>2, <2>4, NobodyPromised
<1>3. CASE op = "Join"
    BY <1>1, <1>3, JoinDecided
<1>4. CASE op = "Exit"
    BY <1>1, <1>4, ExitDecided
<1> QED
    BY <1>2, <1>3, <1>4 DEF Kinds

LEMMA LaunchPromised ==
    ASSUME PatientInv, PatientInv', DropsAreKnown, NEW i \in Goroutines, Launch(i)
    PROVE  Promised
<1>0. PICK h \in ToMaster : \E s :
        /\ Opens(i, h, s) /\ Says(i, "Join", h.from, s)
        /\ s \in AnswersToJoin(h.from, {}) /\ chanOf' = [chanOf EXCEPT ![i] = h.chan]
        /\ UNCHANGED telnetVars
    BY LaunchOpens
<1>1. PICK s :
        /\ Opens(i, h, s) /\ Says(i, "Join", h.from, s)
        /\ s \in AnswersToJoin(h.from, {}) /\ chanOf' = [chanOf EXCEPT ![i] = h.chan]
        /\ UNCHANGED telnetVars
    BY <1>0
<1>2. PICK d \in Doppelgangers, c \in Channels : d = h.from /\ c = h.chan
    BY <1>1, OpensFacts
<1>3. /\ running[c] = NoGoroutine /\ running'[c] = i /\ i # NoGoroutine
      /\ \A b \in Channels : running[b] # i
      /\ \A b \in Channels : b # c => running'[b] = running[b]
      /\ memberList[i] = {} /\ ToSet(inbox[i]) = {} /\ ToSet(todo[i]) = {}
      /\ UNCHANGED <<masterTodo, inbox, memberList, gone, replyIn, chatIn>>
    BY <1>1, <1>2, OpensFacts
<1>4. /\ h.op = "Join" /\ todo'[i] = s /\ \A j \in Goroutines \ {i} : todo'[j] = todo[j]
      /\ ToSet(masterQ) = {h} \cup ToSet(masterQ')
      /\ \A m \in ToSet(masterQ') : m.from # d
      /\ masterReplies' = masterReplies
    BY <1>1, <1>2 DEF Opens
<1>5. \A m \in ToSet(s) :
        /\ m.op # "TextExit" /\ m.leaving = Nobody
        /\ m.op \in {"Joined", "JoinDenied"} => m.to = d
    BY <1>1, <1>2 DEF Says
<1>6. ~(Cardinality({}) >= MaxMembers)
    BY FS_EmptySet, SizesAssumption DEF SizesAssumption
<1>7. PICK m \in ToSet(s) : m.op = "Joined" /\ m.to = d
    BY <1>1, <1>2, <1>6, JoinIsAnswered
<1>8. \A e \in Doppelgangers : \A x :
        /\ WishQueued(e, x) <=> WishQueued(e, x)' \/ (e = d /\ x = c)
        /\ WishHeld(e, x)' <=> WishHeld(e, x)
    BY <1>2, <1>3, <1>4 DEF WishQueued, WishHeld, AsksFor
<1>9. \A e \in Doppelgangers : \A x : \A j \in Goroutines :
        WishPosted(j, e, x)' <=> WishPosted(j, e, x)
    <2>1. \A j \in Goroutines \ {i} : chanOf'[j] = chanOf[j]
        BY <1>1, PatientParts, TypeInvFacts
    <2>2. inbox' = inbox /\ ToSet(inbox[i]) = {}
        BY <1>3
    <2> QED
        BY <2>1, <2>2 DEF WishPosted
<1>10. \A e \in Doppelgangers \ {d} : \A x : Wishes(e, x)' <=> Wishes(e, x)
    BY <1>8, <1>9 DEF Wishes
<1>11. Wishes(d, c)
    BY <1>8 DEF Wishes
<1>12. \A e \in Doppelgangers : \A v :
        /\ WordMailed(e, v)' <=> WordMailed(e, v)
        /\ WordReplied(e, v)' <=> WordReplied(e, v)
        /\ \A j \in Goroutines \ {i} : WordSpoken(j, e, v)' <=> WordSpoken(j, e, v)
        /\ ~WordSpoken(i, e, v)
        /\ WordSpoken(i, e, v)' <=> WordIn(s, e, v)
    BY <1>3, <1>4 DEF WordMailed, WordReplied, WordSpoken, WordIn
<1>13. \A e \in Doppelgangers \ {d} : \A v : Words(e, v)' <=> Words(e, v)
    <2>1. \A e \in Doppelgangers \ {d} : \A v : ~WordIn(s, e, v)
        BY <1>5 DEF WordIn, Word
    <2> QED
        BY <1>12, <2>1 DEF Words
<1>14. Words(d, "in")'
    <2>1. WordIn(s, d, "in")
        BY <1>7 DEF WordIn, Word
    <2> QED
        BY <1>12, <2>1 DEF Words
<1>15. /\ StayFor(Others(d))
       /\ droppedOf'[d] = droppedOf[d] /\ view'[d] = view[d]
    BY <1>1, <1>3, <1>10, <1>13, StayWhere DEF Others
<1>16. requestOf[d] = {c} /\ requestOf'[d] = {} /\ verdictOf'[d] = {"in"}
    BY <1>11, <1>14, EntryIs, EntryWillBe
<1>17. rosterOf[c] = {}
    <2>1. \A e : e \notin rosterOf[c]
        BY <1>3, SeatsAre
    <2> QED
        BY <2>1
<1>18. rosterOf'[c] = rosterOf[c] \cup {d}
    <2>1. \A e : Seated(running[c], e)' <=> e = d
        <3>1. d # Nobody
            BY IdsAssumption DEF IdsAssumption
        <3>2. memberList'[i] = {}
            BY <1>3
        <3> QED
            BY <1>3, <1>4, <1>5, <1>7, <3>1, <3>2 DEF Seated, IsHailed, TakenOff
    <2>2. \A e : e \in rosterOf'[c] <=> e = d
        BY <1>3, <2>1, SeatsWillBe
    <2> QED
        BY <1>17, <2>2, SeatStays
<1>19. ASSUME NEW b \in Channels \ {c}
       PROVE  rosterOf'[b] = rosterOf[b]
    <2>1. running[b] \in Goroutines \cup {NoGoroutine}
        BY PatientParts, TypeInvFacts
    <2>2. running'[b] = running[b] /\ memberList' = memberList
        BY <1>3
    <2>3. running[b] # NoGoroutine => todo'[running[b]] = todo[running[b]]
        BY <1>3, <1>4, <2>1
    <2> QED
        BY <2>2, <2>3 DEF rosterOf, Entering, Leaving
<1>20. SeatsStill(Channels \ {c})
    BY <1>19 DEF SeatsStill
<1>21. ~(Cardinality(rosterOf[c]) >= MaxMembers)
    BY <1>6, <1>17
<1> QED
    BY <1>15, <1>16, <1>18, <1>20, <1>21, PatientParts, NextTypes, PromisedAdmits

LEMMA TellPromised ==
    ASSUME PatientInv, PatientInv', DropsAreKnown, NEW i \in Goroutines, ChatTellsMaster(i)
    PROVE  Promised
<1>1. PICK m \in ChatSends, b \in Channels, msg \in Denials :
        /\ m.op = "Denial" /\ m.leaving = Nobody
        /\ ToSet(todo[i]) = {m} \cup ToSet(todo'[i])
        /\ todo[i] \in Seq(ChatSends) /\ todo[i] # <<>>
        /\ m = Head(todo[i]) /\ todo'[i] = Tail(todo[i])
        /\ \A j \in Goroutines \ {i} : todo'[j] = todo[j]
        /\ OneEnding(todo'[i]) /\ DenialsAreTold(todo'[i])
        /\ \A c \in Channels : running[c] = i <=> c = b
        /\ denialQ' = Append(denialQ, msg)
        /\ \A c \in Channels : msg \in DenialsBy(c) <=> c = b
        /\ UNCHANGED <<masterQ, memberCount, running, masterTodo, masterReplies, masterUp,
                       inbox, memberList, status, chatID, callback, gone, cantExit,
                       replyIn, chatIn, view, line, crash>>
    BY TellFacts
<1>2. UNCHANGED <<chanOf, telnetVars>>
    BY DEF ChatTellsMaster
<1>3. \A e \in Doppelgangers : \A x : Wishes(e, x)' <=> Wishes(e, x)
    BY <1>1, <1>2 DEF Wishes, WishQueued, WishHeld, WishPosted, AsksFor
<1>4. \A e \in Doppelgangers : \A v :
        /\ WordMailed(e, v)' <=> WordMailed(e, v)
        /\ WordReplied(e, v)' <=> WordReplied(e, v)
        /\ \A j \in Goroutines \ {i} : WordSpoken(j, e, v)' <=> WordSpoken(j, e, v)
    BY <1>1 DEF WordMailed, WordReplied, WordSpoken
<1>5. \A e \in Doppelgangers : \A v : WordSpoken(i, e, v)' <=> WordSpoken(i, e, v)
    BY <1>1 DEF WordSpoken, Word
<1>6. \A e \in Doppelgangers : \A v : Words(e, v)' <=> Words(e, v)
    BY <1>4, <1>5 DEF Words
<1>7. \A e \in Doppelgangers : Seated(i, e)' <=> Seated(i, e)
    BY <1>1, IdsAssumption DEF Seated, IsHailed, TakenOff, IdsAssumption
<1>8. ASSUME NEW c \in Channels
      PROVE  rosterOf'[c] = rosterOf[c]
    <2>1. CASE running[c] = i
        BY <1>1, <1>7, <2>1, RosterIs, PatientParts, NextTypes
    <2>2. CASE running[c] # i
        <3>1. running[c] \in Goroutines \cup {NoGoroutine}
            BY PatientParts, TypeInvFacts
        <3>2. running'[c] = running[c] /\ memberList' = memberList
            BY <1>1
        <3>3. running[c] # NoGoroutine => todo'[running[c]] = todo[running[c]]
            BY <1>1, <2>2, <3>1
        <3> QED
            BY <3>2, <3>3 DEF rosterOf, Entering, Leaving
    <2> QED
        BY <2>1, <2>2
<1> QED
    BY <1>1, <1>2, <1>3, <1>6, <1>8, NobodyPromised DEF SeatsStill

LEMMA DeliveryPromised ==
    ASSUME PatientInv, PatientInv', DropsAreKnown, NEW i \in Goroutines,
           ChatTellsDoppelganger(i)
    PROVE  Promised
<1>1. PICK m : /\ Delivers(i, m)
               /\ UNCHANGED <<masterReplies, replyIn, gone>>
    BY ChatDelivers
<1>2. UNCHANGED <<chanOf, telnetVars>>
    <2>1. crash' = "none"
        BY NextTypes DEF NoCrash
    <2> QED
        BY <2>1 DEF ChatTellsDoppelganger, Panic
<1>3. /\ m.to \in Doppelgangers /\ ToSet(todo[i]) = {m} \cup ToSet(todo'[i])
      /\ \A j \in Goroutines \ {i} : todo'[j] = todo[j] /\ memberList'[j] = memberList[j]
      /\ ToSet(chatIn[m.to]) = {} /\ ToSet(chatIn'[m.to]) = {Heard(i, m)}
      /\ Heard(i, m).op = m.op /\ Heard(i, m).leaving = m.leaving
      /\ \A d \in Doppelgangers \ {m.to} : chatIn'[d] = chatIn[d]
      /\ UNCHANGED <<masterQ, masterTodo, running, inbox>>
    BY <1>1, DeliversFacts
<1>4. \A e \in Doppelgangers : \A x : Wishes(e, x)' <=> Wishes(e, x)
    BY <1>2, <1>3 DEF Wishes, WishQueued, WishHeld, WishPosted, AsksFor
<1>5. \A e \in Doppelgangers : \A v :
        /\ WordReplied(e, v)' <=> WordReplied(e, v)
        /\ \A j \in Goroutines \ {i} : WordSpoken(j, e, v)' <=> WordSpoken(j, e, v)
        /\ WordSpoken(i, e, v) <=> WordSpoken(i, e, v)' \/ (e = m.to /\ Word(e, m, v))
        /\ WordMailed(e, v)' <=> WordMailed(e, v) \/ (e = m.to /\ Word(e, m, v))
    BY <1>1, <1>3 DEF WordMailed, WordReplied, WordSpoken, Word
<1>6. \A e \in Doppelgangers : \A v : Words(e, v)' <=> Words(e, v)
    BY <1>5 DEF Words
<1>7. /\ \A e \in Doppelgangers : TakenOff(i, e) <=> e = m.leaving
      /\ \A e \in Doppelgangers : TakenOff(i, e)' <=> e = m.leaving /\ ToSet(todo'[i]) # {}
      /\ m.op = "TextExit" <=> m.leaving \in Doppelgangers
      /\ m.op = "Joined" => memberList'[i] = memberList[i] \cup {m.to}
      /\ m.op = "TextExit" /\ ToSet(todo'[i]) = {} => memberList'[i] = memberList[i] \ {m.leaving}
      /\ m.op # "Joined" /\ (m.op = "TextExit" => ToSet(todo'[i]) # {}) =>
            memberList'[i] = memberList[i]
    BY <1>1, DeliversLeaver
<1>8. \A e \in Doppelgangers :
        IsHailed(i, e) <=> IsHailed(i, e)' \/ (m.op = "Joined" /\ m.to = e)
    BY <1>3 DEF IsHailed
<1>9. ASSUME NEW e \in Doppelgangers
      PROVE  Seated(i, e)' <=> Seated(i, e)
    <2>1. CASE m.op = "Joined"
        BY <1>7, <1>8, <2>1 DEF Seated
    <2>2. CASE m.op = "TextExit" /\ ToSet(todo'[i]) = {}
        <3>1. ~IsHailed(i, e)'
            BY <2>2 DEF IsHailed
        <3> QED
            BY <1>7, <1>8, <2>2, <3>1 DEF Seated
    <2>3. CASE m.op = "TextExit" /\ ToSet(todo'[i]) # {}
        BY <1>7, <1>8, <2>3 DEF Seated
    <2>4. CASE m.op # "Joined" /\ m.op # "TextExit"
        BY <1>7, <1>8, <2>4 DEF Seated
    <2> QED
        BY <2>1, <2>2, <2>3, <2>4
<1>10. ASSUME NEW c \in Channels
       PROVE  rosterOf'[c] = rosterOf[c]
    <2>1. CASE running[c] = i
        BY <1>3, <1>9, <2>1, RosterIs, PatientParts, NextTypes
    <2>2. CASE running[c] # i
        <3>1. running[c] \in Goroutines \cup {NoGoroutine}
            BY PatientParts, TypeInvFacts
        <3>2. running'[c] = running[c]
            BY <1>3
        <3>3. running[c] # NoGoroutine =>
                /\ todo'[running[c]] = todo[running[c]]
                /\ memberList'[running[c]] = memberList[running[c]]
            BY <1>3, <2>2, <3>1
        <3> QED
            BY <3>2, <3>3 DEF rosterOf, Entering, Leaving
    <2> QED
        BY <2>1, <2>2
<1> QED
    BY <1>1, <1>2, <1>4, <1>6, <1>10, NobodyPromised DEF SeatsStill

-----------------------------------------------------------------------------
(***************************************************************************)
(* The user, the network and the Telnet goroutine, which touch no ledger.  *)
(***************************************************************************)
TouchesOnly(d) ==
    /\ UNCHANGED <<masterVars, chatVars, doppVars>>
    /\ \A e \in Doppelgangers \ {d} :
        view'[e] = view[e] /\ line'[e] = line[e] /\ conn'[e] = conn[e] /\ telnet'[e] = telnet[e]

LEMMA LedgersStay ==
    ASSUME NEW d \in Doppelgangers, TouchesOnly(d)
    PROVE  /\ StayFor(Others(d)) /\ SeatsStill(Channels)
           /\ requestOf'[d] = requestOf[d] /\ verdictOf'[d] = verdictOf[d]
           /\ \A e \in Others(d) : droppedOf'[e] = droppedOf[e]
<1>1. UNCHANGED <<masterVars, chatVars, doppVars>>
    BY DEF TouchesOnly
<1>2. UNCHANGED <<masterQ, masterTodo, masterReplies, running, inbox, chanOf, memberList, todo,
                  replyIn, chatIn>>
    BY <1>1 DEF masterVars, chatVars, doppVars
<1>3. \A e \in Doppelgangers : \A x :
        (Wishes(e, x)' <=> Wishes(e, x)) /\ (Words(e, x)' <=> Words(e, x))
    BY <1>2 DEF Wishes, WishQueued, WishHeld, WishPosted, AsksFor, Words, WordMailed,
       WordReplied, WordSpoken
<1>4. \A e \in Doppelgangers : requestOf'[e] = requestOf[e] /\ verdictOf'[e] = verdictOf[e]
    BY <1>3, EntryStays
<1>5. \A e \in Others(d) : droppedOf'[e] = droppedOf[e] /\ view'[e] = view[e]
    BY DroppedIs DEF TouchesOnly, Others
<1> QED
    BY <1>2, <1>4, <1>5, RostersUntouched DEF StayFor, StaysFor, Others

LEMMA DropsStayKnown ==
    ASSUME DropsAreKnown, NEW d \in Doppelgangers, TouchesOnly(d),
           droppedOf[d] => droppedOf'[d], telnet'[d] = "closed" => conn'[d] = "down"
    PROVE  DropsAreKnown'
<1>1. gone' = gone
    BY DEF TouchesOnly, doppVars
<1>2. ASSUME NEW e \in Doppelgangers
      PROVE  (gone'[e] => droppedOf'[e]) /\ (telnet'[e] = "closed" => conn'[e] = "down")
    <2>1. CASE e = d
        BY <1>1, <2>1 DEF DropsAreKnown
    <2>2. CASE e # d
        <3>1. droppedOf'[e] = droppedOf[e]
            BY <2>2, LedgersStay DEF Others
        <3> QED
            BY <1>1, <2>2, <3>1 DEF DropsAreKnown, TouchesOnly
    <2> QED
        BY <2>1, <2>2
<1> QED
    BY <1>2 DEF DropsAreKnown

LEMMA TypingPromised ==
    ASSUME PatientInv, PatientInv', PatientUsers, DropsAreKnown, NEW d \in Doppelgangers,
           UserTypes(d)
    PROVE  DropsAreKnown' /\ Promised
<1>1. PICK l \in Offered :
        /\ MayType(d, l) /\ line' = [line EXCEPT ![d] = <<l>>]
        /\ view' = [view EXCEPT ![d] = IF l.cmd \in {"join", "exit"} THEN "asked" ELSE @]
    BY DEF UserTypes, PatientUsers
<1>2. /\ telnet[d] = "reading" /\ line[d] = <<>>
      /\ UNCHANGED <<telnet, conn, masterVars, chatVars, doppVars>>
    BY DEF UserTypes, othersOfTelnet
<1>3. TypeInv /\ TypeInv'
    BY PatientParts, NextTypes
<1>4. /\ line \in [Doppelgangers -> Seq(Lines)]
      /\ view \in [Doppelgangers -> {"off", "asked", "on"}]
    BY <1>3, TypeInvParts DEF TelnetTypeOK
<1>5. /\ line'[d] = <<l>> /\ line'[d] # <<>> /\ line'[d][1] = l
      /\ \A e \in Doppelgangers \ {d} : line'[e] = line[e] /\ view'[e] = view[e]
      /\ view'[d] = IF l.cmd \in {"join", "exit"} THEN "asked" ELSE view[d]
    BY <1>1, <1>4
<1>6. TouchesOnly(d)
    BY <1>2, <1>5 DEF TouchesOnly
<1>7. /\ l.cmd = "join" => view[d] = "off"
      /\ l.cmd = "exit" => view[d] = "on"
    BY <1>1 DEF MayType, PatientUsers
<1>8. /\ droppedOf[d] = (conn[d] = "down")
      /\ droppedOf'[d] = (conn[d] = "down" \/ l.cmd = "quit")
    BY <1>2, <1>5, DroppedIs
<1>9. DropsAreKnown'
    BY <1>2, <1>6, <1>8, DropsStayKnown
<1>10. /\ StayFor(Others(d)) /\ SeatsStill(Channels)
       /\ requestOf'[d] = requestOf[d] /\ verdictOf'[d] = verdictOf[d]
    BY <1>6, LedgersStay
<1>11. CASE l.cmd \in {"join", "exit"}
    BY <1>3, <1>5, <1>7, <1>8, <1>9, <1>10, <1>11, PromisedTypes
<1>12. CASE l.cmd = "quit" /\ conn[d] # "down"
    BY <1>3, <1>5, <1>8, <1>9, <1>10, <1>12, PromisedDrop
<1>13. CASE l.cmd \notin {"join", "exit"} /\ (l.cmd = "quit" => conn[d] = "down")
    <2>1. StaysFor(d)
        BY <1>5, <1>8, <1>10, <1>13 DEF StaysFor
    <2> QED
        BY <1>3, <1>9, <1>10, <2>1, PromisedNothing
<1> QED
    BY <1>11, <1>12, <1>13

LEMMA LinePromised ==
    ASSUME PatientInv, PatientInv', DropsAreKnown, NEW d \in Doppelgangers,
           ConnectionDrops(d) \/ ReadFails(d) \/ ServerClosesConnection(d)
    PROVE  DropsAreKnown' /\ Promised
<1>1. TypeInv /\ TypeInv'
    BY PatientParts, NextTypes
<1>2. /\ telnet \in [Doppelgangers -> {"reading", "closed", "quit"}]
      /\ conn \in [Doppelgangers -> {"up", "down"}]
    BY <1>1, TypeInvParts DEF TelnetTypeOK
<1>3. UNCHANGED <<line, view, masterVars, chatVars, doppVars>>
    BY DEF ConnectionDrops, ReadFails, ServerClosesConnection, othersOfTelnet
<1>4. /\ conn'[d] = "down"
      /\ \A e \in Doppelgangers \ {d} : telnet'[e] = telnet[e] /\ conn'[e] = conn[e]
    BY <1>2 DEF ConnectionDrops, ReadFails, ServerClosesConnection
<1>5. TouchesOnly(d)
    BY <1>3, <1>4 DEF TouchesOnly
<1>6. droppedOf'[d] = TRUE
    BY <1>4, DroppedIs
<1>7. DropsAreKnown'
    BY <1>4, <1>5, <1>6, DropsStayKnown
<1>8. /\ StayFor(Others(d)) /\ SeatsStill(Channels)
      /\ requestOf'[d] = requestOf[d] /\ verdictOf'[d] = verdictOf[d] /\ view'[d] = view[d]
    BY <1>3, <1>5, LedgersStay
<1>9. CASE ~droppedOf[d]
    BY <1>1, <1>6, <1>7, <1>8, <1>9, PromisedDrop
<1>10. CASE droppedOf[d]
    <2>1. droppedOf[d] \in BOOLEAN
        BY DroppedIs
    <2>2. StaysFor(d)
        BY <1>6, <1>8, <1>10, <2>1 DEF StaysFor
    <2> QED
        BY <1>1, <1>7, <1>8, <2>2, PromisedNothing
<1> QED
    BY <1>9, <1>10

LEMMA QuietPromised ==
    ASSUME PatientInv, PatientInv', DropsAreKnown, UNCHANGED vars
    PROVE  DropsAreKnown' /\ Promised
<1>1. UNCHANGED <<gone, telnetVars, masterQ, masterTodo, masterReplies, running, inbox, chanOf,
                  memberList, todo, replyIn, chatIn>>
    BY DEF vars, masterVars, chatVars, doppVars
<1>2. \A e \in Doppelgangers : \A x :
        (Wishes(e, x)' <=> Wishes(e, x)) /\ (Words(e, x)' <=> Words(e, x))
    BY <1>1 DEF Wishes, WishQueued, WishHeld, WishPosted, AsksFor, Words, WordMailed,
       WordReplied, WordSpoken
<1> QED
    BY <1>1, <1>2, OthersDropNobody, RostersUntouched, NobodyPromised

-----------------------------------------------------------------------------
LEMMA OthersLeave ==
    ASSUME MasterStep \/ \E i \in Goroutines : ChatStep(i)
    PROVE  UNCHANGED <<gone, telnetVars>>
<1>1. ASSUME UNCHANGED othersOfMaster
      PROVE  UNCHANGED <<gone, telnetVars>>
    BY <1>1 DEF othersOfMaster, doppVars
<1>2. CASE MasterRefusesName \/ MasterLookupFails \/ MasterForwardsJoin \/ MasterWho
           \/ MasterExit \/ MasterReturns
    BY <1>1, <1>2 DEF MasterRefusesName, MasterLookupFails, MasterForwardsJoin, MasterWho,
       MasterExit, MasterReturns
<1>3. CASE MasterTakesDenial
    BY <1>3 DEF MasterTakesDenial, othersOfMaster, doppVars, Panic
<1>4. CASE MasterSendsToChat
    BY <1>4 DEF MasterSendsToChat, othersOfMaster, doppVars, Panic
<1>5. CASE MasterReplies
    BY <1>5 DEF MasterReplies, doppVars, Panic
<1>6. ASSUME NEW i \in Goroutines, Launch(i)
      PROVE  UNCHANGED <<gone, telnetVars>>
    BY <1>6 DEF Launch, doppVars
<1>7. ASSUME NEW i \in Goroutines, ChatStep(i)
      PROVE  UNCHANGED <<gone, telnetVars>>
    BY <1>7 DEF ChatStep, ChatJoin, ChatWho, ChatExit, ChatShutdown, ChatSpeech, TakeFromMaster,
       ChatTellsMaster, ChatTellsDoppelganger, Panic, doppVars
<1> QED
    BY <1>2, <1>3, <1>4, <1>5, <1>6, <1>7 DEF MasterStep

LEMMA InitPromised == Init => Promise!Init
<1> SUFFICES ASSUME Init PROVE Promise!Init
    OBVIOUS
<1>1. ASSUME NEW d \in Doppelgangers
      PROVE  (\A x : ~Wishes(d, x)) /\ \A v : ~Words(d, v)
    <2>1. /\ masterQ = <<>> /\ masterTodo = <<>> /\ masterReplies = <<>>
          /\ \A i \in Goroutines : inbox[i] = <<>> /\ todo[i] = <<>>
          /\ replyIn[d] = 0 /\ chatIn[d] = <<>>
        BY DEF Init
    <2> QED
        BY <2>1, ToSetOfEmpty DEF Wishes, WishQueued, WishHeld, WishPosted, Words, WordMailed,
           WordReplied, WordSpoken
<1>2. \A d \in Doppelgangers : requestOf[d] = {} /\ verdictOf[d] = {}
    <2>1. \A d \in Doppelgangers : \A x : x \notin requestOf[d] /\ x \notin verdictOf[d]
        BY <1>1, WishesAre, WordsAre
    <2> QED
        BY <2>1
<1>3. \A d \in Doppelgangers : droppedOf[d] = FALSE
    BY DroppedIs DEF Init
<1>4. rosterOf = [c \in Channels |-> {}]
    BY DEF Init, rosterOf
<1>5. /\ requestOf = [d \in Doppelgangers |-> {}] /\ verdictOf = [d \in Doppelgangers |-> {}]
      /\ droppedOf = [d \in Doppelgangers |-> FALSE]
    BY <1>2, <1>3, Ledgers
<1>6. view = [d \in Doppelgangers |-> "off"]
    BY DEF Init
<1> QED
    BY <1>4, <1>5, <1>6 DEF Promise!Init

LEMMA NextPromised ==
    ASSUME PatientUsers, PatientInv, PatientInv', DropsAreKnown, [Next]_vars
    PROVE  DropsAreKnown' /\ Promised
<1>1. CASE MasterStep
    <2>1. DropsAreKnown'
        BY <1>1, OthersLeave, OthersDropNobody
    <2>2. ~MasterLookupFails /\ ~MasterReturns
        BY MasterNeverReturns DEF MasterLookupFails, PatientUsers
    <2> QED
        BY <1>1, <2>1, <2>2, RequestPromised, DenialPromised, SendPromised, ReplyPromised,
           LaunchPromised DEF MasterStep
<1>2. ASSUME NEW i \in Goroutines, ChatStep(i)
      PROVE  DropsAreKnown' /\ Promised
    <2>1. DropsAreKnown'
        BY <1>2, OthersLeave, OthersDropNobody
    <2> QED
        BY <1>2, <2>1, TakePromised, TellPromised, DeliveryPromised DEF ChatStep
<1>3. ASSUME NEW d \in Doppelgangers, DoppStep(d)
      PROVE  DropsAreKnown' /\ Promised
    BY <1>3, StepDropsNobody, DoppPromised
<1>4. ASSUME NEW d \in Doppelgangers, TelnetStep(d) \/ Environment(d)
      PROVE  DropsAreKnown' /\ Promised
    BY <1>4, TypingPromised, LinePromised DEF TelnetStep, Environment
<1>5. CASE StaysIdle \/ UNCHANGED vars
    BY <1>5, QuietPromised DEF StaysIdle
<1> QED
    BY <1>1, <1>2, <1>3, <1>4, <1>5 DEF Next

(***************************************************************************)
(* README.md:486-526.  For any number of doppelgangers, channels and       *)
(* goroutines, any buffers and seats: where users wait for their answers,  *)
(* look-ups do not fail and messages are in time, every step of the        *)
(* goroutines is one of Membership or none.  A join is admitted once, to   *)
(* a channel with a free seat, or refused once; whoever is on a channel is *)
(* there until he asked to leave or dropped; and he is told of each        *)
(* decision once.                                                          *)
(***************************************************************************)
THEOREM PatientPromiseKept == PatientUsers => (Spec => KeepsPromise)
<1> SUFFICES ASSUME PatientUsers PROVE Spec => KeepsPromise
    OBVIOUS
<1>1. Init => DropsAreKnown /\ Promise!Init
    BY InitDrops, InitPromised
<1>2. PatientInv /\ PatientInv' /\ DropsAreKnown /\ [Next]_vars
        => DropsAreKnown' /\ [Promise!Next]_(Promise!vars)
    BY NextPromised DEF Promised
<1>3. Spec => []PatientInv
    BY PatienceKept
<1> QED
    BY <1>1, <1>2, <1>3, PTL DEF Spec, KeepsPromise, Promise!Spec
=============================================================================
