------------------------- MODULE ChatPatienceProofs -------------------------
(***************************************************************************)
(* The chat with patient users, for any number of them, of channels and of *)
(* goroutines and any sizes: PatientInv is inductive, and with it nothing  *)
(* is sent to a doppelganger that has returned, the counts are exact and   *)
(* nothing panics.                                                         *)
(***************************************************************************)
EXTENDS ChatRosters, ChatPatience

-----------------------------------------------------------------------------
(***************************************************************************)
(* A step moves the one matter of d, if it does not leave it where it is,  *)
(* and leaves those of the others.                                         *)
(***************************************************************************)
NoNewMatter(d) ==
    \A o \in Kinds, p \in Places, i \in Whereabouts :
        MatterAt(o, d, p, i)' => MatterAt(o, d, p, i)

OnlyMatter(o, d, p, i) ==
    \A o2 \in Kinds, p2 \in Places, i2 \in Whereabouts :
        MatterAt(o2, d, p2, i2)' => o2 = o /\ p2 = p /\ i2 = i

LEMMA MattersStay ==
    ASSUME OneMatter, \A d \in Doppelgangers : NoNewMatter(d)
    PROVE  /\ OneMatter'
           /\ \A d \in Doppelgangers, o \in Kinds : UnderWay(o, d)' => UnderWay(o, d)
  BY DEF OneMatter, NoNewMatter, UnderWay

LEMMA MatterMoves ==
    ASSUME OneMatter, NEW d \in Doppelgangers, NEW o \in Kinds, NEW p, NEW i,
           OnlyMatter(o, d, p, i), \A e \in Doppelgangers \ {d} : NoNewMatter(e)
    PROVE  /\ OneMatter'
           /\ \A e \in Doppelgangers, o2 \in Kinds :
                UnderWay(o2, e)' => UnderWay(o2, e) \/ (e = d /\ o2 = o)
<1>1. ASSUME NEW e \in Doppelgangers, NEW o1 \in Kinds, NEW p1 \in Places,
             NEW i1 \in Whereabouts, MatterAt(o1, e, p1, i1)',
             NEW o2 \in Kinds, NEW p2 \in Places, NEW i2 \in Whereabouts,
             MatterAt(o2, e, p2, i2)'
      PROVE  o2 = o1 /\ p2 = p1 /\ i2 = i1
  <2>1. CASE e = d
    BY <1>1, <2>1 DEF OnlyMatter
  <2>2. CASE e # d
    BY <1>1, <2>2 DEF NoNewMatter, OneMatter
  <2> QED
    BY <2>1, <2>2
<1>2. OneMatter'
  BY <1>1 DEF OneMatter
<1> QED
  BY <1>2 DEF OnlyMatter, NoNewMatter, UnderWay

LEMMA MatterGoes ==
    ASSUME OneMatter, NEW d \in Doppelgangers, NEW o \in Kinds,
           NEW p \in Places, NEW i \in Whereabouts, MatterAt(o, d, p, i), NEW q, NEW j,
           \A o2 \in Kinds, p2 \in Places, i2 \in Whereabouts :
               MatterAt(o2, d, p2, i2)' =>
                   \/ MatterAt(o2, d, p2, i2) /\ ~(p2 = p /\ i2 = i)
                   \/ o2 = o /\ p2 = q /\ i2 = j
    PROVE  OnlyMatter(o, d, q, j)
  BY DEF OneMatter, OnlyMatter

LEMMA PlacesShrink ==
    ASSUME NEW d \in Doppelgangers,
           \A o \in Kinds :
               /\ QueuedFor(o, d)' => QueuedFor(o, d)
               /\ HeldFor(o, d)' => HeldFor(o, d)
               /\ RepliedTo(o, d)' => RepliedTo(o, d)
               /\ MailedTo(o, d)' => MailedTo(o, d)
               /\ \A i \in Goroutines :
                    /\ PostedFor(o, i, d)' => PostedFor(o, i, d)
                    /\ HandledFor(o, i, d)' => HandledFor(o, i, d)
    PROVE  NoNewMatter(d)
  BY DEF NoNewMatter, MatterAt

-----------------------------------------------------------------------------
\* What is left of a queue when its head has been taken.

LEMMA QueueTail ==
    ASSUME NEW s \in Seq(ToMaster), s # <<>>, NoneBehind(s)
    PROVE  /\ Head(s) \in ToMaster /\ Head(s) \in ToSet(s)
           /\ ToSet(s) = {Head(s)} \cup ToSet(Tail(s))
           /\ Head(s).op # "Who" => \A m \in ToSet(Tail(s)) : m.from # Head(s).from
           /\ NoneBehind(Tail(s))
<1>1. /\ Head(s) \in ToMaster /\ Head(s) \in ToSet(s)
      /\ ToSet(s) = {Head(s)} \cup ToSet(Tail(s))
  BY ToSetType, ToSetOfTail
<1>2. /\ DOMAIN s = 1 .. Len(s) /\ DOMAIN Tail(s) = 1 .. Len(s) - 1 /\ Head(s) = s[1]
      /\ Len(s) \in Nat \ {0} /\ \A k \in 1 .. Len(s) - 1 : Tail(s)[k] = s[k + 1]
  BY TailParts
<1> DEFINE t == Tail(s)
<1> HIDE DEF t
<1>3. ASSUME NEW k \in DOMAIN t, NEW l \in DOMAIN t, k < l, t[k].op # "Who"
      PROVE  t[l].from # t[k].from
  <2>1. /\ k + 1 \in DOMAIN s /\ l + 1 \in DOMAIN s /\ k + 1 < l + 1
        /\ t[k] = s[k + 1] /\ t[l] = s[l + 1]
    BY <1>2, <1>3 DEF t
  <2> QED
    BY <1>3, <2>1 DEF NoneBehind
<1>4. ASSUME Head(s).op # "Who", NEW m \in ToSet(t)
      PROVE  m.from # Head(s).from
  <2>1. PICK l \in DOMAIN t : t[l] = m
    BY <1>4 DEF ToSet
  <2>2. 1 \in DOMAIN s /\ l + 1 \in DOMAIN s /\ 1 < l + 1 /\ m = s[l + 1]
    BY <1>2, <2>1 DEF t
  <2> QED
    BY <1>2, <1>4, <2>2 DEF NoneBehind
<1> QED
  BY <1>1, <1>3, <1>4 DEF NoneBehind, t

LEMMA QueueAppend ==
    ASSUME NEW s \in Seq(ToMaster), NEW m \in ToMaster, NoneBehind(s),
           \A n \in ToSet(s) : n.op # "Who" => n.from # m.from
    PROVE  NoneBehind(Append(s, m))
<1> DEFINE t == Append(s, m)
<1>1. /\ DOMAIN s = 1 .. Len(s) /\ Len(s) \in Nat /\ DOMAIN t = 1 .. Len(s) + 1
      /\ \A k \in 1 .. Len(s) : t[k] = s[k] /\ s[k] \in ToSet(s)
      /\ t[Len(s) + 1] = m
  BY AppendProperties, LenProperties DEF ToSet
<1> HIDE DEF t
<1>2. ASSUME NEW k \in DOMAIN t, NEW l \in DOMAIN t, k < l, t[k].op # "Who"
      PROVE  t[l].from # t[k].from
  <2>1. k \in DOMAIN s /\ t[k] = s[k] /\ s[k] \in ToSet(s)
    BY <1>1, <1>2
  <2>2. CASE l \in DOMAIN s
    BY <1>1, <1>2, <2>1, <2>2 DEF NoneBehind
  <2>3. CASE l = Len(s) + 1
    <3>1. t[l] = m
      BY <1>1, <2>3
    <3> QED
      BY <1>2, <2>1, <3>1
  <2> QED
    BY <1>1, <2>2, <2>3
<1> QED
  BY <1>2 DEF NoneBehind, t

LEMMA SendsTail ==
    ASSUME NEW s \in Seq(ChatSends), s # <<>>, OneEnding(s), DenialsAreTold(s)
    PROVE  /\ Head(s) \in ChatSends /\ Head(s) \in ToSet(s)
           /\ ToSet(s) = {Head(s)} \cup ToSet(Tail(s))
           /\ \A o \in Kinds : Ends(o, Head(s).to, Head(s)) =>
                \A m \in ToSet(Tail(s)) :
                    m.to = Head(s).to => ~Ends(o, m.to, m)
           /\ OneEnding(Tail(s)) /\ DenialsAreTold(Tail(s))
<1>1. /\ Head(s) \in ChatSends /\ Head(s) \in ToSet(s)
      /\ ToSet(s) = {Head(s)} \cup ToSet(Tail(s))
  BY ToSetType, ToSetOfTail
<1>2. /\ DOMAIN s = 1 .. Len(s) /\ DOMAIN Tail(s) = 1 .. Len(s) - 1 /\ Head(s) = s[1]
      /\ Len(s) \in Nat \ {0} /\ \A k \in 1 .. Len(s) - 1 : Tail(s)[k] = s[k + 1]
  BY TailParts
<1> DEFINE t == Tail(s)
<1>3. \A k \in DOMAIN t : k \in Nat /\ k + 1 \in DOMAIN s /\ t[k] = s[k + 1]
  BY <1>2
<1> HIDE DEF t
<1>4. OneEnding(t)
  <2> SUFFICES ASSUME NEW k \in DOMAIN t, NEW l \in DOMAIN t, NEW o \in Kinds,
                      k < l, Ends(o, t[k].to, t[k]), t[l].to = t[k].to
               PROVE  ~Ends(o, t[l].to, t[l])
    BY DEF OneEnding
  <2>1. k + 1 \in DOMAIN s /\ l + 1 \in DOMAIN s /\ k + 1 < l + 1
    BY <1>3
  <2> QED
    BY <1>3, <2>1 DEF OneEnding
<1>5. DenialsAreTold(t)
  <2> SUFFICES ASSUME NEW k \in DOMAIN t, t[k].op = "Denial"
               PROVE  \E l \in DOMAIN t :
                        k < l /\ t[l].op = "JoinDenied" /\ t[l].to = t[k].to
    BY DEF DenialsAreTold
  <2>1. PICK l \in DOMAIN s :
          k + 1 < l /\ s[l].op = "JoinDenied" /\ s[l].to = s[k + 1].to
    BY <1>3 DEF DenialsAreTold
  <2>2. l - 1 \in DOMAIN t /\ k < l - 1 /\ t[l - 1] = s[l]
    BY <1>2, <1>3, <2>1 DEF t
  <2> QED
    BY <1>3, <2>1, <2>2
<1>6. ASSUME NEW o \in Kinds, Ends(o, Head(s).to, Head(s)), NEW m \in ToSet(t),
             m.to = Head(s).to
      PROVE  ~Ends(o, m.to, m)
  <2>1. PICK l \in DOMAIN t : t[l] = m
    BY <1>6 DEF ToSet
  <2>2. 1 \in DOMAIN s /\ l + 1 \in DOMAIN s /\ 1 < l + 1 /\ m = s[l + 1] /\ Head(s) = s[1]
    BY <1>2, <2>1 DEF t
  <2> QED
    BY <1>6, <2>2 DEF OneEnding
<1> QED
  BY <1>1, <1>4, <1>5, <1>6 DEF t

-----------------------------------------------------------------------------
LEMMA PatientParts ==
    ASSUME PatientInv
    PROVE  /\ TypeInv /\ EntryInv /\ MasterNeverSendsOnClosed
           /\ RosterInv /\ RelyInv /\ CountCoversDue
           /\ OneMatter /\ NothingBehind /\ SessionsKnow /\ SeatsAreTaken
           /\ RepliesReach /\ CountMatchesRoster /\ EntriesCount
           /\ masterUp /\ NoCrash
  BY AccountsInvParts DEF PatientInv

LEMMA Steps ==
    ASSUME AccountsInv'
    PROVE  TypeInv' /\ EntryInv' /\ RosterInv' /\ RelyInv' /\ CountCoversDue'
  BY AccountsInvParts

\* Where sessions and screens are as before, nobody knows of more than is under way.
LEMMA SessionsStay ==
    ASSUME SessionsKnow, UNCHANGED <<status, chatID, cantExit, gone, view, line>>,
           \A d \in Doppelgangers, o \in Kinds : UnderWay(o, d)' => UnderWay(o, d)
    PROVE  SessionsKnow'
<1> SUFFICES ASSUME NEW d \in Doppelgangers
             PROVE  IF status[d] = "returned"
                    THEN ~UnderWay("Join", d)' /\ ~UnderWay("Exit", d)'
                    ELSE /\ Knows(chatID[d], cantExit[d], gone[d], view[d], line[d],
                                  UnderWay("Join", d)', UnderWay("Exit", d)')
                         /\ status[d] = "blocked" => chatID[d] \in Channels
  BY DEF SessionsKnow
<1>1. /\ UnderWay("Join", d)' => UnderWay("Join", d)
      /\ UnderWay("Exit", d)' => UnderWay("Exit", d)
  BY DEF Kinds
<1> QED
  BY <1>1 DEF SessionsKnow, Knows

-----------------------------------------------------------------------------
(***************************************************************************)
(* The channel master has taken the request h, and is going to refuse it,  *)
(* to drop it or to pass it on.                                            *)
(***************************************************************************)
Refuses(h) == h.op = "Join" /\ masterTodo' = <<>> /\ masterReplies' = <<h.from>>
Drops(h)   == h.op = "Who" /\ masterTodo' = <<>> /\ masterReplies' = <<>>
Passes(h)  ==
    /\ h.chan \in Channels /\ running[h.chan] # NoGoroutine
    /\ masterTodo' = <<[op |-> h.op, who |-> h.from, chan |-> h.chan]>>
    /\ masterReplies' = <<>>

Handles(h) ==
    /\ TakesRequest(h) /\ masterReplies = <<>>
    /\ Refuses(h) \/ Drops(h) \/ Passes(h)

LEMMA HandlesParts ==
    ASSUME PatientInv, NEW h, Handles(h)
    PROVE  /\ h \in ToMaster /\ h.from \in Doppelgangers /\ h \in ToSet(masterQ)
           /\ ToSet(masterQ) = {h} \cup ToSet(masterQ')
           /\ h.op # "Who" => \A m \in ToSet(masterQ') : m.from # h.from
           /\ NoneBehind(masterQ')
           /\ masterTodo = <<>> /\ masterReplies = <<>>
           /\ ToSet(masterTodo) = {} /\ ToSet(masterReplies) = {}
           /\ \/ Refuses(h) /\ ToSet(masterTodo') = {} /\ ToSet(masterReplies') = {h.from}
              \/ Drops(h) /\ ToSet(masterTodo') = {} /\ ToSet(masterReplies') = {}
              \/ /\ Passes(h) /\ ToSet(masterReplies') = {}
                 /\ ToSet(masterTodo') = {[op |-> h.op, who |-> h.from, chan |-> h.chan]}
           /\ UNCHANGED <<running, denialQ, chatState, chanOf, inbox, memberList, todo,
                          status, chatID, callback, gone, cantExit, replyIn, chatIn>>
<1>1. masterQ \in Seq(ToMaster) /\ NoneBehind(masterQ)
  BY PatientParts, MailTypes DEF NothingBehind
<1>2. /\ masterQ # <<>> /\ h = Head(masterQ) /\ masterQ' = Tail(masterQ)
      /\ masterTodo = <<>> /\ masterReplies = <<>>
  BY DEF Handles, TakesRequest
<1>3. /\ h \in ToMaster /\ h \in ToSet(masterQ)
      /\ ToSet(masterQ) = {h} \cup ToSet(masterQ')
      /\ h.op # "Who" => \A m \in ToSet(masterQ') : m.from # h.from
      /\ NoneBehind(masterQ')
  BY <1>1, <1>2, QueueTail
<1>4. h.from \in Doppelgangers
  BY <1>3 DEF ToMaster
<1>5. \/ Refuses(h) /\ ToSet(masterTodo') = {} /\ ToSet(masterReplies') = {h.from}
      \/ Drops(h) /\ ToSet(masterTodo') = {} /\ ToSet(masterReplies') = {}
      \/ /\ Passes(h) /\ ToSet(masterReplies') = {}
         /\ ToSet(masterTodo') = {[op |-> h.op, who |-> h.from, chan |-> h.chan]}
  <2>1. CASE Refuses(h)
    BY <2>1, ToSetOfEmpty, ToSetOfOne DEF Refuses
  <2>2. CASE Drops(h)
    BY <2>2, ToSetOfEmpty DEF Drops
  <2>3. CASE Passes(h)
    BY <2>3, ToSetOfEmpty, ToSetOfOne DEF Passes
  <2> QED
    BY <2>1, <2>2, <2>3 DEF Handles
<1> QED
  BY <1>2, <1>3, <1>4, <1>5, ToSetOfEmpty DEF Handles, TakesRequest, chatVars, doppVars

LEMMA HandlesMatters ==
    ASSUME PatientInv, NEW h, Handles(h)
    PROVE  /\ OneMatter' /\ NothingBehind'
           /\ \A d \in Doppelgangers, o \in Kinds : UnderWay(o, d)' => UnderWay(o, d)
<1> DEFINE d == h.from
<1>1. /\ \A e \in Doppelgangers, o \in Kinds : QueuedFor(o, e)' => QueuedFor(o, e)
      /\ \A e \in Doppelgangers, o \in Kinds : HeldFor(o, e)' => e = d /\ o = h.op
      /\ h.op # "Who" => \A o \in Kinds : ~QueuedFor(o, d)'
  BY HandlesParts DEF QueuedFor, HeldFor, Refuses, Kinds
<1>2. \A e \in Doppelgangers, o \in Kinds :
        /\ RepliedTo(o, e)' => RepliedTo(o, e)
        /\ MailedTo(o, e)' => MailedTo(o, e)
        /\ \A i \in Goroutines :
            /\ PostedFor(o, i, e)' => PostedFor(o, i, e)
            /\ HandledFor(o, i, e)' => HandledFor(o, i, e)
  BY HandlesParts DEF RepliedTo, MailedTo, PostedFor, HandledFor
<1>3. d \in Doppelgangers /\ OneMatter
  BY HandlesParts, PatientParts
<1>4. NothingBehind'
  <2>1. Len(masterReplies') <= 1
    <3>1. masterReplies' = <<>> \/ masterReplies' = <<d>>
      BY DEF Handles, Refuses, Drops, Passes
    <3> HIDE DEF d
    <3> QED
      BY <3>1
  <2>2. masterReplies' # <<>> => masterTodo' = <<>>
    BY DEF Handles, Refuses, Drops, Passes
  <2> QED
    BY <2>1, <2>2, HandlesParts, PatientParts DEF NothingBehind
<1> HIDE DEF d
<1>5. \A e \in Doppelgangers \ {d} : NoNewMatter(e)
  BY <1>1, <1>2, PlacesShrink
<1>6. CASE h.op = "Who"
  <2>1. NoNewMatter(d)
    BY <1>1, <1>2, <1>3, <1>6, PlacesShrink DEF Kinds
  <2> QED
    BY <1>3, <1>4, <1>5, <2>1, MattersStay
<1>7. CASE h.op # "Who"
  <2> DEFINE o == h.op
  <2>1. o \in Kinds /\ QueuedFor(o, d)
    BY <1>7, HandlesParts DEF ToMaster, Kinds, QueuedFor, d
  <2> HIDE DEF o
  <2>2. MatterAt(o, d, "queue", NoGoroutine)
    BY <2>1 DEF MatterAt
  <2>3. ASSUME NEW o2 \in Kinds, NEW p2 \in Places, NEW i2 \in Whereabouts,
               MatterAt(o2, d, p2, i2)'
        PROVE  \/ MatterAt(o2, d, p2, i2) /\ ~(p2 = "queue" /\ i2 = NoGoroutine)
               \/ o2 = o /\ p2 = "master" /\ i2 = NoGoroutine
    BY <1>1, <1>2, <1>3, <1>7, <2>3 DEF MatterAt, o
  <2>4. "queue" \in Places /\ NoGoroutine \in Whereabouts
    BY DEF Places, Whereabouts
  <2>5. OnlyMatter(o, d, "master", NoGoroutine)
    BY <1>3, <2>1, <2>2, <2>3, <2>4, MatterGoes
  <2>6. UnderWay(o, d)
    BY <2>2, <2>4 DEF UnderWay
  <2> QED
    BY <1>3, <1>4, <1>5, <2>1, <2>5, <2>6, MatterMoves
<1> QED
  BY <1>6, <1>7

(***************************************************************************)
(* Where rosters and mail are as before, so are the seats if the exits     *)
(* that are asked for are, and the replies reach if there are no fewer.    *)
(***************************************************************************)
LEMMA SeatsStay ==
    ASSUME SeatsAreTaken,
           UNCHANGED <<running, inbox, memberList, todo, status, chatID, chatIn>>,
           \A c \in Channels, d \in Doppelgangers :
               running[c] \in Goroutines => (ExitAsked(c, d)' <=> ExitAsked(c, d))
    PROVE  SeatsAreTaken'
<1>1. \A c \in Channels, i \in Goroutines, d \in Doppelgangers :
        running[c] = i => (Counts(c, d)' <=> Counts(c, d))
  BY DEF Counts, Holders
<1>2. \A i \in Goroutines, d \in Doppelgangers :
        (Belongs(i, d)' <=> Belongs(i, d)) /\ (TakenOff(i, d)' <=> TakenOff(i, d))
  BY <1>1 DEF Belongs, TakenOff, Hearing, PostedFor
<1> QED
  BY <1>2 DEF SeatsAreTaken

LEMMA RepliesStay ==
    ASSUME RepliesReach, UNCHANGED <<running, inbox, memberList, todo, masterQ, status, chatID>>,
           \A m \in ToSet(masterTodo') : m.op # "Who" \/ m \in ToSet(masterTodo),
           \A c \in Channels : \A d : ExitAsked(c, d) => ExitAsked(c, d)'
    PROVE  RepliesReach'
<1>1. \A c, d : AsksWho(d, c)' <=> AsksWho(d, c)
  BY DEF AsksWho, Holders
<1>2. \A c \in Channels : \A d : Counts(c, d) => Counts(c, d)'
  BY DEF Counts, Holders
<1> QED
  BY <1>1, <1>2 DEF RepliesReach

LEMMA HandlesSeats ==
    ASSUME PatientInv, NEW h, Handles(h)
    PROVE  SeatsAreTaken'
<1> DEFINE sent == [op |-> h.op, who |-> h.from, chan |-> h.chan]
<1>1. ASSUME NEW c, running[c] # NoGoroutine, NEW d
      PROVE  ExitAsked(c, d)' <=> ExitAsked(c, d)
  <2>1. /\ ToSet(masterQ) = {h} \cup ToSet(masterQ') /\ ToSet(masterTodo) = {}
        /\ \/ h.op # "Exit" /\ ToSet(masterTodo') = {}
           \/ ToSet(masterTodo') = {sent}
    BY HandlesParts DEF Refuses, Drops
  <2>2. sent.op = h.op /\ sent.who = h.from /\ sent.chan = h.chan
    OBVIOUS
  <2> HIDE DEF sent
  <2> QED
    BY <2>1, <2>2 DEF ExitAsked
<1>2. NoGoroutine \notin Goroutines
  BY PatientParts, TypeInvFacts
<1> QED
  BY <1>1, <1>2, HandlesParts, PatientParts, SeatsStay

LEMMA HandlesReplies ==
    ASSUME PatientInv, NEW h, Handles(h)
    PROVE  RepliesReach'
<1> DEFINE sent == [op |-> h.op, who |-> h.from, chan |-> h.chan]
<1>1. UNCHANGED <<running, inbox, memberList, todo, status, chatID>>
  BY HandlesParts
<1>2. /\ ToSet(masterQ) = {h} \cup ToSet(masterQ') /\ ToSet(masterTodo) = {}
      /\ h.op # "Who" => \A m \in ToSet(masterQ') : m.from # h.from
      /\ ToSet(masterTodo') \subseteq {sent}
      /\ h.op = "Exit" => ToSet(masterTodo') = {sent}
  BY HandlesParts DEF Refuses, Drops
<1>3. \A m \in ToSet(masterQ) : (m.op # "Join" => m.chan \in Channels)
                                /\ (m.op = "Who" => AsksWho(m.from, m.chan))
  BY PatientParts DEF RepliesReach
<1>4. sent.op = h.op /\ sent.who = h.from /\ sent.chan = h.chan
  OBVIOUS
<1> HIDE DEF sent
<1>5. ASSUME NEW c, NEW d, d # h.from \/ h.op = "Who", AsksWho(d, c)
      PROVE  AsksWho(d, c)'
  <2>1. CASE d \in Holders(c)
    BY <1>1, <2>1 DEF AsksWho, Holders
  <2>2. CASE \E m \in ToSet(masterQ) : m.op = "Exit" /\ m.from = d /\ m.chan = c
    BY <1>2, <1>5, <2>2 DEF AsksWho
  <2> QED
    BY <1>5, <2>1, <2>2 DEF AsksWho
<1>6. \A m \in ToSet(masterQ') : (m.op # "Join" => m.chan \in Channels)
                                 /\ (m.op = "Who" => AsksWho(m.from, m.chan)')
  BY <1>2, <1>3, <1>5
<1>7. \A m \in ToSet(masterTodo') : m.op = "Who" => AsksWho(m.who, m.chan)'
  BY <1>2, <1>3, <1>4, <1>5
<1>8. \A c \in Channels : \A d : Counts(c, d) => Counts(c, d)'
  BY <1>1, <1>2, <1>4 DEF Counts, Holders, ExitAsked
<1> QED
  BY <1>1, <1>6, <1>7, <1>8, PatientParts DEF RepliesReach

-----------------------------------------------------------------------------
\* The count of c and what it stands for, before and after a step.

AccountTyped(c) ==
    /\ memberCount[c] \in Int
    /\ Cardinality(memberList[running[c]]) \in Nat
    /\ JoinsUnderWay(c) \in Nat
    /\ ExitsUnderWay(c) \in Nat
    /\ HowMany(inbox[running[c]], Posts("Exit")) \in Nat
    /\ HowMany(todo[running[c]], Farewells) \in Nat

LEMMA AccountIsTyped ==
    TypeInv => \A c \in Channels : running[c] # NoGoroutine => AccountTyped(c)
<1> SUFFICES ASSUME TypeInv, NEW c \in Channels, running[c] # NoGoroutine
             PROVE  AccountTyped(c)
  OBVIOUS
<1>1. running[c] \in Goroutines
  BY TypeInvFacts
<1>2. /\ inbox[running[c]] \in Seq(ToChat) /\ todo[running[c]] \in Seq(ChatSends)
      /\ memberList[running[c]] \in SUBSET Doppelgangers /\ memberCount[c] \in Int
  BY <1>1, TypeInvFacts, MailTypes
<1>3. /\ HowMany(inbox[running[c]], Posts("Exit")) \in Nat
      /\ HowMany(todo[running[c]], Farewells) \in Nat
  BY <1>2, HowManyType
<1>4. Cardinality(memberList[running[c]]) \in Nat
  BY <1>2, IdsAssumption, FS_Subset, FS_CardinalityType DEF IdsAssumption
<1>5. JoinsUnderWay(c) \in Nat
  BY DueTypes DEF DueTyped
<1>6. ExitsUnderWay(c) \in Nat
  BY <1>3 DEF ExitsUnderWay
<1> QED
  BY <1>2, <1>3, <1>4, <1>5, <1>6 DEF AccountTyped

LEMMA AccountTypes ==
    /\ TypeInv => \A c \in Channels : running[c] # NoGoroutine => AccountTyped(c)
    /\ TypeInv' => \A c \in Channels : running'[c] # NoGoroutine => AccountTyped(c)'
<1>1. (TypeInv => \A c \in Channels : running[c] # NoGoroutine => AccountTyped(c))'
  BY AccountIsTyped, PTL
<1> QED
  BY <1>1, AccountIsTyped

\* By how much the parts of the account of c change, if its entry stays.
Changes(c, count, members, joins, exits) ==
    /\ memberCount'[c] = memberCount[c] + count
    /\ Cardinality(memberList'[running[c]]) = Cardinality(memberList[running[c]]) + members
    /\ JoinsUnderWay(c)' = JoinsUnderWay(c) + joins
    /\ ExitsUnderWay(c)' = ExitsUnderWay(c) + exits

LEMMA CountKept ==
    ASSUME TypeInv, TypeInv', CountMatchesRoster, NEW c \in Channels,
           running[c] # NoGoroutine, running'[c] = running[c],
           NEW v \in Int, NEW x \in Int, NEW y \in Int, NEW z \in Int,
           Changes(c, v, x, y, z), v + z = x + y
    PROVE  memberCount'[c] = Accounted(c)'
<1> DEFINE m == Cardinality(memberList[running[c]])
           j == JoinsUnderWay(c)
           e == ExitsUnderWay(c)
<1>1. memberCount[c] = m + (j - e)
  BY AccountedOf DEF CountMatchesRoster
<1>2. memberCount[c] \in Int /\ m \in Nat /\ j \in Nat /\ e \in Nat
  BY AccountTypes DEF AccountTyped
<1>3. Accounted(c)' = Cardinality(memberList'[running[c]])
                      + (JoinsUnderWay(c)' - ExitsUnderWay(c)')
  BY DEF Accounted
<1>4. /\ memberCount'[c] = memberCount[c] + v
      /\ Accounted(c)' = (m + x) + ((j + y) - (e + z))
  BY <1>3 DEF Changes
<1> HIDE DEF m, j, e
<1> QED
  BY <1>1, <1>2, <1>4

LEMMA JoinsChange ==
    ASSUME TypeInv, TypeInv', NEW c \in Channels,
           running[c] # NoGoroutine, running'[c] = running[c],
           NEW v \in Int, NEW x \in Int, NEW y \in Int, NEW z \in Int,
           HowMany(masterTodo', SendsTo(c, "Join")) = HowMany(masterTodo, SendsTo(c, "Join")) + v,
           HowMany(inbox'[running[c]], Posts("Join"))
             = HowMany(inbox[running[c]], Posts("Join")) + x,
           HowMany(todo'[running[c]], Verdicts) = HowMany(todo[running[c]], Verdicts) + y,
           HowMany(denialQ', DenialsBy(c)) = HowMany(denialQ, DenialsBy(c)) + z
    PROVE  JoinsUnderWay(c)' = JoinsUnderWay(c) + (((v + x) + y) + z)
<1> DEFINE n1 == HowMany(masterTodo, SendsTo(c, "Join"))
           n2 == HowMany(inbox[running[c]], Posts("Join"))
           n3 == HowMany(todo[running[c]], Verdicts)
           n4 == HowMany(denialQ, DenialsBy(c))
<1>1. n1 \in Nat /\ n2 \in Nat /\ n3 \in Nat /\ n4 \in Nat
  BY DueTypes DEF DueTyped
<1>2. JoinsUnderWay(c) = n1 + n2 + n3 + n4
  BY DEF JoinsUnderWay
<1>3. JoinsUnderWay(c)' = (n1 + v) + (n2 + x) + (n3 + y) + (n4 + z)
  BY DEF JoinsUnderWay
<1> HIDE DEF n1, n2, n3, n4
<1> QED
  BY <1>1, <1>2, <1>3

-----------------------------------------------------------------------------
LEMMA HandlesCounts ==
    ASSUME PatientInv, AccountsInv', NEW h, Handles(h),
           \A c \in Channels : memberCount'[c] = memberCount[c] +
               IF h.op = "Join" /\ Passes(h) /\ h.chan = c THEN 1 ELSE 0
    PROVE  CountMatchesRoster' /\ EntriesCount'
<1> DEFINE sent == [op |-> h.op, who |-> h.from, chan |-> h.chan]
           delta(c) == IF h.op = "Join" /\ Passes(h) /\ h.chan = c THEN 1 ELSE 0
<1>1. /\ UNCHANGED <<running, denialQ, inbox, memberList, todo>>
      /\ masterTodo = <<>> /\ h \in ToMaster /\ h.from \in Doppelgangers
      /\ \/ masterTodo' = <<>> /\ ~Passes(h)
         \/ masterTodo' = <<sent>> /\ Passes(h)
  <2>1. ~(<<sent>> = <<>>)
    OBVIOUS
  <2> HIDE DEF sent
  <2>2. \/ masterTodo' = <<>> /\ ~Passes(h)
        \/ masterTodo' = <<sent>> /\ Passes(h)
    BY <2>1 DEF Handles, Refuses, Drops, Passes, sent
  <2> QED
    BY <2>2, HandlesParts
<1>2. TypeInv /\ TypeInv' /\ CountMatchesRoster
  BY PatientParts, Steps
<1>3. ASSUME NEW c \in Channels, running[c] # NoGoroutine
      PROVE  memberCount'[c] = Accounted(c)'
  <2>1. sent \in SendsTo(c, "Join") <=> h.op = "Join" /\ h.chan = c
    BY <1>1 DEF SendsTo
  <2>2. /\ HowMany(masterTodo, SendsTo(c, "Join")) = 0
        /\ HowMany(masterTodo', SendsTo(c, "Join")) = delta(c)
    <3> HIDE DEF sent
    <3> QED
      BY <1>1, <2>1, HowManyOfEmpty, HowManyOfOne
  <2>3. ExitsUnderWay(c)' = ExitsUnderWay(c) + 0
    <3>1. ExitsUnderWay(c) \in Nat
      BY <1>2, <1>3, AccountTypes DEF AccountTyped
    <3> QED
      BY <1>1, <3>1 DEF ExitsUnderWay
  <2>4. delta(c) \in Int /\ memberCount'[c] = memberCount[c] + delta(c)
    OBVIOUS
  <2> HIDE DEF delta, sent
  <2>5. JoinsUnderWay(c)' = JoinsUnderWay(c) + (((delta(c) + 0) + 0) + 0)
    <3>1. /\ HowMany(inbox[running[c]], Posts("Join")) \in Nat
          /\ HowMany(todo[running[c]], Verdicts) \in Nat
          /\ HowMany(denialQ, DenialsBy(c)) \in Nat
      BY <1>2, <1>3, DueTypes DEF DueTyped
    <3>2. /\ HowMany(inbox'[running[c]], Posts("Join"))
               = HowMany(inbox[running[c]], Posts("Join")) + 0
          /\ HowMany(todo'[running[c]], Verdicts) = HowMany(todo[running[c]], Verdicts) + 0
          /\ HowMany(denialQ', DenialsBy(c)) = HowMany(denialQ, DenialsBy(c)) + 0
      BY <1>1, <3>1
    <3>3. HowMany(masterTodo', SendsTo(c, "Join"))
            = HowMany(masterTodo, SendsTo(c, "Join")) + delta(c)
      BY <2>2, <2>4
    <3>4. running'[c] = running[c]
      BY <1>1
    <3> QED
      BY <1>2, <1>3, <2>4, <3>2, <3>3, <3>4, JoinsChange
  <2>6. Cardinality(memberList'[running[c]]) = Cardinality(memberList[running[c]]) + 0
    <3>1. Cardinality(memberList[running[c]]) \in Nat
      BY <1>2, <1>3, AccountTypes DEF AccountTyped
    <3> QED
      BY <1>1, <3>1
  <2>7. Changes(c, delta(c), 0, delta(c), 0)
    BY <2>3, <2>4, <2>5, <2>6 DEF Changes
  <2> QED
    BY <1>1, <1>2, <1>3, <2>4, <2>7, CountKept
<1>4. ASSUME NEW c \in Channels, running[c] = NoGoroutine
      PROVE  memberCount'[c] = Accounted(c)'
  <2>1. memberCount[c] = 0 /\ delta(c) = 0
    BY <1>2, <1>4 DEF CountMatchesRoster, Accounted, Passes
  <2> QED
    BY <1>1, <1>4, <2>1 DEF Accounted
<1>5. ASSUME NEW c \in Channels, running'[c] # NoGoroutine
      PROVE  memberCount'[c] > 0
  <2>1. memberCount[c] > 0
    BY <1>1, <1>5, PatientParts, ToSetOfEmpty DEF EntriesCount
  <2>2. memberCount[c] \in Int
    BY <1>2, MailTypes
  <2> QED
    BY <2>1, <2>2
<1> QED
  BY <1>3, <1>4, <1>5 DEF CountMatchesRoster, EntriesCount

(***************************************************************************)
(* The parts of PatientInv but AccountsInv, for the steps to keep.         *)
(***************************************************************************)
PatientRest ==
    /\ OneMatter /\ NothingBehind /\ SessionsKnow /\ SeatsAreTaken
    /\ RepliesReach /\ CountMatchesRoster /\ EntriesCount
    /\ masterUp /\ NoCrash

LEMMA HandlesKeeps ==
    ASSUME PatientInv, AccountsInv', NEW h, Handles(h),
           UNCHANGED <<view, line, masterUp, crash>>,
           \A c \in Channels : memberCount'[c] = memberCount[c] +
               IF h.op = "Join" /\ Passes(h) /\ h.chan = c THEN 1 ELSE 0
    PROVE  PatientRest'
<1>1. /\ OneMatter' /\ NothingBehind'
      /\ \A d \in Doppelgangers, o \in Kinds : UnderWay(o, d)' => UnderWay(o, d)
  BY HandlesMatters
<1>2. SessionsKnow'
  BY <1>1, HandlesParts, PatientParts, SessionsStay
<1>3. masterUp' /\ NoCrash'
  BY PatientParts DEF NoCrash
<1> QED
  BY <1>1, <1>2, <1>3, HandlesSeats, HandlesReplies, HandlesCounts DEF PatientRest

\* The exits that are queued find their entry, so the channel master does not return.
LEMMA MasterNeverReturns ==
    ASSUME PatientInv, MasterReturns
    PROVE  FALSE
<1> DEFINE h == Head(masterQ)
<1>1. masterQ # <<>> /\ h.op = "Exit" /\ ~HasEntry(h.chan)
  BY DEF MasterReturns, HeadIs
<1>2. h \in ToSet(masterQ)
  BY <1>1, PatientParts, MailTypes, ToSetType
<1> HIDE DEF h
<1>3. h.chan \in Channels
  BY <1>1, <1>2, PatientParts DEF RepliesReach
<1>4. running[h.chan] # NoGoroutine
  BY <1>1, <1>2, <1>3, PatientParts DEF RelyInv, HoldersKeepTheirChannel
<1> QED
  BY <1>1, <1>3, <1>4 DEF HasEntry

LEMMA RequestKeepsPatience ==
    ASSUME PatientInv, AccountsInv', PatientUsers,
           \/ MasterRefusesName \/ MasterLookupFails \/ MasterForwardsJoin
           \/ MasterWho \/ MasterExit \/ MasterReturns
    PROVE  PatientRest'
<1> DEFINE h == Head(masterQ)
           sent == [op |-> h.op, who |-> h.from, chan |-> h.chan]
<1>1. TypeInv /\ memberCount \in [Channels -> Int]
  BY PatientParts, MailTypes
<1>2. ASSUME UNCHANGED othersOfMaster, TakeRequest
      PROVE  UNCHANGED <<view, line, masterUp, crash>>
  BY <1>2 DEF othersOfMaster, telnetVars, TakeRequest
<1>3. ASSUME NEW op, HeadIs(op), TakeRequest, UNCHANGED <<running, othersOfMaster>>
      PROVE  TakesRequest(h) /\ masterReplies = <<>> /\ h.op = op /\ h \in ToMaster
  BY <1>1, <1>3, TakesRequestParts DEF HeadIs, MasterIdle
<1>4. ASSUME memberCount' = memberCount, h.op # "Join" \/ ~Passes(h)
      PROVE  \A c \in Channels : memberCount'[c] = memberCount[c] +
                IF h.op = "Join" /\ Passes(h) /\ h.chan = c THEN 1 ELSE 0
  BY <1>1, <1>4
<1>5. CASE MasterRefusesName
  <2>1. /\ TakesRequest(h) /\ masterReplies = <<>> /\ TakeRequest
        /\ Refuses(h) /\ UNCHANGED <<memberCount, othersOfMaster>>
    BY <1>3, <1>5 DEF MasterRefusesName, HeadIs, MasterIdle, Refuses
  <2>2. ~Passes(h)
    BY <1>5, IdsAssumption DEF MasterRefusesName, Passes, IdsAssumption
  <2>3. Handles(h)
    BY <2>1 DEF Handles
  <2> QED
    BY <1>2, <1>4, <2>1, <2>2, <2>3, HandlesKeeps
<1>6. CASE MasterForwardsJoin
  <2>1. /\ HeadIs("Join") /\ TakeRequest /\ UNCHANGED <<running, masterReplies, othersOfMaster>>
        /\ HasEntry(h.chan) /\ memberCount' = [memberCount EXCEPT ![h.chan] = @ + 1]
        /\ masterTodo' = <<[op |-> "Join", who |-> h.from, chan |-> h.chan]>>
    BY <1>6 DEF MasterForwardsJoin
  <2>2. TakesRequest(h) /\ masterReplies = <<>> /\ h.op = "Join"
    BY <1>3, <2>1
  <2>3. Passes(h)
    BY <2>1, <2>2 DEF Passes, HasEntry
  <2>4. Handles(h)
    BY <2>2, <2>3 DEF Handles
  <2>5. \A c \in Channels : memberCount'[c] = memberCount[c] +
            IF h.op = "Join" /\ Passes(h) /\ h.chan = c THEN 1 ELSE 0
    <3> HIDE DEF h
    <3> QED
      BY <1>1, <2>1, <2>2, <2>3 DEF HasEntry
  <2> QED
    BY <1>2, <2>1, <2>4, <2>5, HandlesKeeps
<1>7. CASE MasterWho
  <2>1. /\ HeadIs("Who") /\ TakeRequest
        /\ UNCHANGED <<memberCount, running, masterReplies, othersOfMaster>>
        /\ masterTodo' = IF HasEntry(h.chan)
                         THEN <<[op |-> "Who", who |-> h.from, chan |-> h.chan]>>
                         ELSE <<>>
    BY <1>7 DEF MasterWho
  <2>2. TakesRequest(h) /\ masterReplies = <<>> /\ h.op = "Who"
    BY <1>3, <2>1
  <2>3. Passes(h) \/ Drops(h)
    BY <2>1, <2>2 DEF Passes, Drops, HasEntry
  <2>4. Handles(h)
    BY <2>2, <2>3 DEF Handles
  <2> QED
    BY <1>2, <1>4, <2>1, <2>2, <2>4, HandlesKeeps
<1>8. CASE MasterExit
  <2>1. /\ HeadIs("Exit") /\ TakeRequest
        /\ UNCHANGED <<memberCount, running, masterReplies, othersOfMaster>>
        /\ HasEntry(h.chan)
        /\ masterTodo' = <<[op |-> "Exit", who |-> h.from, chan |-> h.chan]>>
    BY <1>8 DEF MasterExit
  <2>2. TakesRequest(h) /\ masterReplies = <<>> /\ h.op = "Exit"
    BY <1>3, <2>1
  <2>3. Passes(h)
    BY <2>1, <2>2 DEF Passes, HasEntry
  <2>4. Handles(h)
    BY <2>2, <2>3 DEF Handles
  <2> QED
    BY <1>2, <1>4, <2>1, <2>2, <2>4, HandlesKeeps
<1>9. CASE MasterLookupFails
  BY <1>9 DEF MasterLookupFails, PatientUsers
<1> QED
  BY <1>5, <1>6, <1>7, <1>8, <1>9, MasterNeverReturns

-----------------------------------------------------------------------------
\* The master learns of a refused join.

LEMMA DenialCounts ==
    ASSUME PatientInv, AccountsInv', MasterTakesDenial
    PROVE  CountMatchesRoster' /\ EntriesCount'
<1> DEFINE m == Head(denialQ)
           b == m.chan
<1>1. TypeInv /\ TypeInv' /\ CountMatchesRoster /\ denialQ \in Seq(Denials)
      /\ memberCount \in [Channels -> Int]
  BY PatientParts, Steps, MailTypes
<1>2. /\ denialQ # <<>> /\ m \in Denials /\ m \in ToSet(denialQ)
      /\ b \in Channels /\ running[b] # NoGoroutine
  <2>1. denialQ # <<>> /\ m \in Denials /\ m \in ToSet(denialQ)
    BY <1>1, ToSetType DEF MasterTakesDenial
  <2> HIDE DEF m
  <2> QED
    BY <2>1, PatientParts DEF RelyInv, VerdictsStand, Denials
<1>3. /\ memberCount' = [memberCount EXCEPT ![b] = @ - 1]
      /\ denialQ' = Tail(denialQ) /\ masterTodo = <<>>
      /\ \/ memberCount[b] # 1 /\ masterTodo' = <<>>
         \/ masterTodo' = <<[op |-> "Shutdown", who |-> m.from, chan |-> b]>>
      /\ UNCHANGED <<running, inbox, memberList, todo>>
  BY <1>2 DEF MasterTakesDenial, HasEntry, MasterIdle, othersOfMaster, chatVars
<1> DEFINE shutdown == [op |-> "Shutdown", who |-> m.from, chan |-> b]
<1>4. shutdown.op = "Shutdown" /\ shutdown.chan = b
  OBVIOUS
<1>5. \A c : m \in DenialsBy(c) <=> b = c
  BY <1>2 DEF Denials, DenialsBy
<1> HIDE DEF m, b, shutdown
<1>6. ASSUME NEW c \in Channels, running[c] # NoGoroutine
      PROVE  memberCount'[c] = Accounted(c)'
  <2> DEFINE x == IF c = b THEN 0 - 1 ELSE 0
  <2>1. /\ HowMany(masterTodo, SendsTo(c, "Join")) = 0
        /\ HowMany(masterTodo', SendsTo(c, "Join")) = 0
    <3>1. shutdown \notin SendsTo(c, "Join")
      BY <1>4 DEF SendsTo
    <3> QED
      BY <1>3, <3>1, HowManyOfEmpty, HowManyOfOne DEF shutdown
  <2>2. /\ HowMany(inbox[running[c]], Posts("Join")) \in Nat
        /\ HowMany(todo[running[c]], Verdicts) \in Nat
        /\ HowMany(denialQ, DenialsBy(c)) \in Nat
        /\ Cardinality(memberList[running[c]]) \in Nat
        /\ ExitsUnderWay(c) \in Nat
    BY <1>1, <1>6, DueTypes, AccountTypes DEF DueTyped, AccountTyped
  <2>3. HowMany(denialQ, DenialsBy(c))
          = HowMany(denialQ', DenialsBy(c)) + IF b = c THEN 1 ELSE 0
    <3>1. HowMany(denialQ, DenialsBy(c))
            = HowMany(Tail(denialQ), DenialsBy(c)) + IF Head(denialQ) \in DenialsBy(c) THEN 1 ELSE 0
      BY <1>1, <1>2, HowManyOfTail
    <3> QED
      BY <1>3, <1>5, <3>1 DEF m
  <2>4. HowMany(denialQ', DenialsBy(c)) \in Nat
    BY <1>1, <1>3, <1>6, DueTypes DEF DueTyped
  <2>5. x \in Int /\ HowMany(denialQ', DenialsBy(c)) = HowMany(denialQ, DenialsBy(c)) + x
    BY <2>2, <2>3, <2>4
  <2>6. memberCount'[c] = memberCount[c] + x
    BY <1>1, <1>2, <1>3
  <2> HIDE DEF x
  <2>7. JoinsUnderWay(c)' = JoinsUnderWay(c) + (((0 + 0) + 0) + x)
    <3>1. /\ HowMany(masterTodo', SendsTo(c, "Join"))
               = HowMany(masterTodo, SendsTo(c, "Join")) + 0
          /\ HowMany(inbox'[running[c]], Posts("Join"))
               = HowMany(inbox[running[c]], Posts("Join")) + 0
          /\ HowMany(todo'[running[c]], Verdicts) = HowMany(todo[running[c]], Verdicts) + 0
      BY <1>3, <2>1, <2>2
    <3>2. running'[c] = running[c] /\ x \in Int /\ 0 \in Int /\ TypeInv /\ TypeInv'
      BY <1>1, <1>3, <2>5
    <3>3. HowMany(denialQ', DenialsBy(c)) = HowMany(denialQ, DenialsBy(c)) + x
      BY <2>5
    <3> QED
      BY <1>6, <3>1, <3>2, <3>3, JoinsChange
  <2>8. /\ ExitsUnderWay(c)' = ExitsUnderWay(c) + 0
        /\ Cardinality(memberList'[running[c]]) = Cardinality(memberList[running[c]]) + 0
    BY <1>3, <2>2 DEF ExitsUnderWay
  <2>9. Changes(c, x, 0, x, 0)
    BY <2>5, <2>6, <2>7, <2>8 DEF Changes
  <2> QED
    BY <1>1, <1>3, <1>6, <2>5, <2>9, CountKept
<1>7. ASSUME NEW c \in Channels, running[c] = NoGoroutine
      PROVE  memberCount'[c] = Accounted(c)'
  <2>1. memberCount[c] = 0 /\ c # b
    BY <1>1, <1>2, <1>7 DEF CountMatchesRoster, Accounted
  <2> QED
    BY <1>1, <1>2, <1>3, <1>7, <2>1 DEF Accounted
<1>8. ASSUME NEW c \in Channels, running'[c] # NoGoroutine
      PROVE  memberCount'[c] > 0 \/ \E n \in ToSet(masterTodo') : n.op = "Shutdown" /\ n.chan = c
  <2>1. memberCount[c] > 0 /\ memberCount[c] \in Int
    BY <1>1, <1>3, <1>8, PatientParts, ToSetOfEmpty DEF EntriesCount
  <2>2. CASE masterTodo' = <<shutdown>> /\ c = b
    BY <1>4, <2>2, ToSetOfOne
  <2>3. CASE c # b
    BY <1>1, <1>2, <1>3, <2>1, <2>3
  <2>4. CASE memberCount[b] # 1 /\ c = b
    BY <1>1, <1>2, <1>3, <2>1, <2>4
  <2> QED
    BY <1>3, <2>2, <2>3, <2>4 DEF shutdown
<1> QED
  BY <1>6, <1>7, <1>8 DEF CountMatchesRoster, EntriesCount

LEMMA DenialKeepsPatience ==
    ASSUME PatientInv, AccountsInv', MasterTakesDenial
    PROVE  PatientRest'
<1>1. HasEntry(Head(denialQ).chan)
  <2> DEFINE m == Head(denialQ)
  <2>1. m \in ToSet(denialQ) /\ m \in Denials
    BY PatientParts, MailTypes, ToSetType DEF MasterTakesDenial
  <2> HIDE DEF m
  <2>2. m.chan \in Channels /\ running[m.chan] # NoGoroutine
    BY <2>1, PatientParts DEF RelyInv, VerdictsStand, Denials
  <2> QED
    BY <2>2 DEF HasEntry, m
<1>2. /\ masterTodo = <<>> /\ masterReplies' = <<>> /\ masterReplies = <<>>
      /\ UNCHANGED <<masterQ, running, masterUp, crash, chatState, chanOf, inbox, memberList,
                     todo, status, chatID, callback, gone, cantExit, replyIn, chatIn, view, line>>
      /\ \/ masterTodo' = <<>>
         \/ masterTodo' = <<[op |-> "Shutdown", who |-> Head(denialQ).from,
                             chan |-> Head(denialQ).chan]>>
  BY <1>1 DEF MasterTakesDenial, MasterIdle, othersOfMaster, chatVars, doppVars, telnetVars
<1>3. ToSet(masterTodo) = {} /\ \A m \in ToSet(masterTodo') : m.op = "Shutdown"
  BY <1>2, ToSetOfEmpty, ToSetOfOne
<1>4. \A d \in Doppelgangers : NoNewMatter(d)
  <2>1. ASSUME NEW d \in Doppelgangers, NEW o \in Kinds
        PROVE  /\ QueuedFor(o, d)' => QueuedFor(o, d)
               /\ HeldFor(o, d)' => HeldFor(o, d)
               /\ RepliedTo(o, d)' => RepliedTo(o, d)
               /\ MailedTo(o, d)' => MailedTo(o, d)
               /\ \A i \in Goroutines :
                    /\ PostedFor(o, i, d)' => PostedFor(o, i, d)
                    /\ HandledFor(o, i, d)' => HandledFor(o, i, d)
    BY <1>2, <1>3 DEF QueuedFor, HeldFor, RepliedTo, MailedTo, PostedFor, HandledFor, Kinds
  <2> QED
    BY <2>1, PlacesShrink
<1>5. /\ OneMatter'
      /\ \A d \in Doppelgangers, o \in Kinds : UnderWay(o, d)' => UnderWay(o, d)
  BY <1>4, MattersStay, PatientParts
<1>6. NothingBehind'
  BY <1>2, PatientParts DEF NothingBehind
<1>7. \A c, d : ExitAsked(c, d)' <=> ExitAsked(c, d)
  BY <1>2, <1>3 DEF ExitAsked
<1>8. SessionsKnow' /\ SeatsAreTaken' /\ RepliesReach'
  BY <1>2, <1>3, <1>5, <1>7, PatientParts, SessionsStay, SeatsStay, RepliesStay
<1>9. masterUp' /\ NoCrash'
  BY <1>2, PatientParts DEF NoCrash
<1> QED
  BY <1>5, <1>6, <1>8, <1>9, DenialCounts DEF PatientRest

-----------------------------------------------------------------------------
LEMMA AccountsStay ==
    ASSUME CountMatchesRoster, EntriesCount,
           UNCHANGED <<memberCount, running, memberList, masterTodo, inbox, todo, denialQ>>
    PROVE  CountMatchesRoster' /\ EntriesCount'
  BY DEF CountMatchesRoster, EntriesCount, Accounted, JoinsUnderWay, ExitsUnderWay

\* The master's reply finds its doppelganger, which waits for it.
LEMMA ReplyKeepsPatience ==
    ASSUME PatientInv, MasterReplies
    PROVE  PatientRest'
<1>1. /\ masterReplies \in Seq(Doppelgangers) /\ masterReplies # <<>>
      /\ Len(masterReplies) <= 1 /\ masterTodo = <<>> /\ ToSet(masterTodo) = {}
  <2>1. masterReplies \in Seq(Doppelgangers)
    BY PatientParts, TypeInvParts DEF MasterTypeOK
  <2> QED
    BY <2>1, PatientParts, ToSetOfEmpty DEF NothingBehind, MasterReplies
<1>2. PICK d \in Doppelgangers :
        /\ Tail(masterReplies) = <<>> /\ ToSet(masterReplies) = {d}
        /\ d = Head(masterReplies)
  <2>1. Tail(masterReplies) = <<>> /\ ToSet(masterReplies) = {Head(masterReplies)}
    BY <1>1, TailOfOne
  <2>2. Head(masterReplies) \in Doppelgangers
    BY <1>1, ToSetType
  <2> QED
    BY <2>1, <2>2
<1>3. HeldFor("Join", d)
  BY <1>2 DEF HeldFor
<1>4. MatterAt("Join", d, "master", NoGoroutine)
  BY <1>3 DEF MatterAt
<1>5. "Join" \in Kinds /\ "master" \in Places /\ NoGoroutine \in Whereabouts
  BY DEF Kinds, Places, Whereabouts
<1>6. UnderWay("Join", d)
  BY <1>4, <1>5 DEF UnderWay
<1>7. status[d] # "returned"
  BY <1>2, <1>6, PatientParts DEF SessionsKnow
<1>8. /\ replyIn' = [replyIn EXCEPT ![d] = @ + 1] /\ masterReplies' = <<>>
      /\ UNCHANGED <<masterQ, denialQ, memberCount, running, masterTodo, masterUp, crash,
                     chatState, chanOf, inbox, memberList, todo, status, chatID, callback,
                     gone, cantExit, chatIn, view, line>>
  BY <1>2, <1>7 DEF MasterReplies, chatVars, telnetVars
<1>9. /\ \A e \in Doppelgangers \ {d} : replyIn'[e] = replyIn[e]
      /\ ToSet(masterReplies') = {}
  <2>1. replyIn \in [Doppelgangers -> 0 .. 1]
    BY PatientParts, TypeInvParts DEF MailTypeOK
  <2> QED
    BY <1>8, <2>1, ToSetOfEmpty
<1>10. \A e \in Doppelgangers, o \in Kinds :
        /\ QueuedFor(o, e)' => QueuedFor(o, e)
        /\ ~HeldFor(o, e)'
        /\ RepliedTo(o, e)' => RepliedTo(o, e) \/ (e = d /\ o = "Join")
        /\ MailedTo(o, e)' => MailedTo(o, e)
        /\ \A i \in Goroutines :
            /\ PostedFor(o, i, e)' => PostedFor(o, i, e)
            /\ HandledFor(o, i, e)' => HandledFor(o, i, e)
  BY <1>1, <1>8, <1>9 DEF QueuedFor, HeldFor, RepliedTo, MailedTo, PostedFor, HandledFor
<1>11. \A e \in Doppelgangers \ {d} : NoNewMatter(e)
  BY <1>10, PlacesShrink
<1>12. OnlyMatter("Join", d, "reply", NoGoroutine)
  <2>1. ASSUME NEW o2 \in Kinds, NEW p2 \in Places, NEW i2 \in Whereabouts,
               MatterAt(o2, d, p2, i2)'
        PROVE  \/ MatterAt(o2, d, p2, i2) /\ ~(p2 = "master" /\ i2 = NoGoroutine)
               \/ o2 = "Join" /\ p2 = "reply" /\ i2 = NoGoroutine
    <3>1. /\ QueuedFor(o2, d)' => QueuedFor(o2, d)
          /\ ~HeldFor(o2, d)'
          /\ RepliedTo(o2, d)' => RepliedTo(o2, d) \/ o2 = "Join"
          /\ MailedTo(o2, d)' => MailedTo(o2, d)
          /\ \A i \in Goroutines :
                /\ PostedFor(o2, i, d)' => PostedFor(o2, i, d)
                /\ HandledFor(o2, i, d)' => HandledFor(o2, i, d)
      BY <1>2, <1>10
    <3> QED
      BY <2>1, <3>1 DEF MatterAt
  <2>2. OneMatter
    BY PatientParts
  <2> QED
    BY <1>2, <1>4, <1>5, <2>1, <2>2, MatterGoes
<1>13. /\ OneMatter'
       /\ \A e \in Doppelgangers, o \in Kinds : UnderWay(o, e)' => UnderWay(o, e)
  BY <1>2, <1>5, <1>6, <1>11, <1>12, PatientParts, MatterMoves
<1>14. NothingBehind'
  BY <1>8, PatientParts DEF NothingBehind
<1>15. \A c, e : ExitAsked(c, e)' <=> ExitAsked(c, e)
  BY <1>8 DEF ExitAsked
<1>16. SessionsKnow' /\ SeatsAreTaken' /\ RepliesReach'
  BY <1>8, <1>13, <1>15, PatientParts, SessionsStay, SeatsStay, RepliesStay
<1>17. masterUp' /\ NoCrash' /\ CountMatchesRoster' /\ EntriesCount'
  BY <1>8, PatientParts, AccountsStay DEF NoCrash
<1> QED
  BY <1>13, <1>14, <1>16, <1>17 DEF PatientRest

-----------------------------------------------------------------------------
\* The master's send of m to the chat channel i.

LEMMA SendsFacts ==
    ASSUME PatientInv, NEW m, NEW i, SendsOn(m, i)
    PROVE  /\ m \in MasterSends /\ m.who \in Doppelgangers /\ m.chan \in Channels
           /\ i \in Goroutines /\ running[m.chan] = i /\ i # NoGoroutine
           /\ \A c \in Channels : running[c] = i => c = m.chan
           /\ masterTodo = <<m>> /\ ToSet(masterTodo) = {m} /\ masterReplies = <<>>
           /\ \A n \in ToSet(masterTodo') : n.op = "Shutdown"
           /\ inbox[i] = <<>> /\ ToSet(inbox[i]) = {}
           /\ inbox'[i] = <<Posted(m)>> /\ ToSet(inbox'[i]) = {Posted(m)}
           /\ Posted(m).op = m.op /\ Posted(m).who = m.who
           /\ \A j \in Goroutines \ {i} : inbox'[j] = inbox[j]
           /\ \A c \in Channels : c # m.chan => running'[c] = running[c]
           /\ m.op # "Shutdown" => running' = running
           /\ UNCHANGED <<masterQ, denialQ, chatState, memberList, todo, status, chatID,
                          callback, gone, cantExit, replyIn, chatIn>>
<1>1. /\ m \in MasterSends /\ m.who \in Doppelgangers /\ m.chan \in Channels
      /\ i \in Goroutines /\ running[m.chan] = i /\ masterTodo = <<m>>
      /\ inbox[i] = <<>> /\ inbox'[i] = <<Posted(m)>>
      /\ Posted(m).op = m.op /\ Posted(m).who = m.who
      /\ \A j \in Goroutines \ {i} : inbox'[j] = inbox[j]
      /\ \A c \in Channels : running[c] = i => c = m.chan
  BY PatientParts, SendsOnParts
<1>2. i # NoGoroutine /\ running \in [Channels -> Goroutines \cup {NoGoroutine}]
  BY <1>1, PatientParts, TypeInvFacts
<1>3. masterTodo # <<>> /\ masterReplies = <<>> /\ Tail(masterTodo) = <<>>
  <2>1. masterTodo # <<>>
    BY DEF SendsOn
  <2> QED
    BY <2>1, PatientParts, TheQueuedSend DEF NothingBehind
<1>4. \A n \in ToSet(masterTodo') : n.op = "Shutdown"
  <2>1. masterTodo' = <<>> \/ masterTodo' = <<[m EXCEPT !.op = "Shutdown"]>>
    BY <1>3 DEF SendsOn, AfterMasterSend
  <2>2. [m EXCEPT !.op = "Shutdown"].op = "Shutdown"
    BY <1>1 DEF MasterSends
  <2> DEFINE shutdown == [m EXCEPT !.op = "Shutdown"]
  <2> HIDE DEF shutdown
  <2>3. ToSet(masterTodo') \subseteq {shutdown}
    BY <2>1, ToSetOfEmpty, ToSetOfOne DEF shutdown
  <2> QED
    BY <2>2, <2>3 DEF shutdown
<1>5. /\ \A c \in Channels : c # m.chan => running'[c] = running[c]
      /\ m.op # "Shutdown" => running' = running
  BY <1>2 DEF SendsOn, AfterMasterSend
<1>6. UNCHANGED <<masterQ, denialQ, chatState, memberList, todo, status, chatID,
                  callback, gone, cantExit, replyIn, chatIn>>
  BY DEF SendsOn, doppVars
<1> QED
  BY <1>1, <1>2, <1>3, <1>4, <1>5, <1>6, ToSetOfEmpty, ToSetOfOne

LEMMA SendMatters ==
    ASSUME PatientInv, NEW m, NEW i, SendsOn(m, i), masterReplies' = masterReplies
    PROVE  /\ OneMatter'
           /\ \A d \in Doppelgangers, o \in Kinds : UnderWay(o, d)' => UnderWay(o, d)
<1> DEFINE d == m.who
<1>1. \A e \in Doppelgangers, o \in Kinds :
        /\ QueuedFor(o, e)' => QueuedFor(o, e)
        /\ RepliedTo(o, e)' => RepliedTo(o, e)
        /\ MailedTo(o, e)' => MailedTo(o, e)
        /\ \A j \in Goroutines : HandledFor(o, j, e)' => HandledFor(o, j, e)
        /\ \A j \in Goroutines :
            PostedFor(o, j, e)' => PostedFor(o, j, e) \/ (j = i /\ e = d /\ o = m.op)
  BY SendsFacts DEF QueuedFor, RepliedTo, MailedTo, HandledFor, PostedFor
<1>2. \A e \in Doppelgangers, o \in Kinds : ~HeldFor(o, e)'
  BY SendsFacts, ToSetOfEmpty DEF HeldFor, Kinds
<1>3. d \in Doppelgangers /\ i \in Goroutines /\ OneMatter
  BY SendsFacts, PatientParts
<1> HIDE DEF d
<1>4. \A e \in Doppelgangers \ {d} : NoNewMatter(e)
  BY <1>1, <1>2, PlacesShrink
<1>5. CASE m.op \notin Kinds
  <2>1. NoNewMatter(d)
    BY <1>1, <1>2, <1>3, <1>5, PlacesShrink
  <2> QED
    BY <1>3, <1>4, <2>1, MattersStay
<1>6. CASE m.op \in Kinds
  <2> DEFINE o == m.op
  <2>1. HeldFor(o, d)
    BY SendsFacts DEF HeldFor, d
  <2>2. o \in Kinds
    BY <1>6
  <2> HIDE DEF o
  <2>3. MatterAt(o, d, "master", NoGoroutine)
    BY <2>1 DEF MatterAt
  <2>4. "master" \in Places /\ NoGoroutine \in Whereabouts
    BY DEF Places, Whereabouts
  <2>5. ASSUME NEW o2 \in Kinds, NEW p2 \in Places, NEW i2 \in Whereabouts,
               MatterAt(o2, d, p2, i2)'
        PROVE  \/ MatterAt(o2, d, p2, i2) /\ ~(p2 = "master" /\ i2 = NoGoroutine)
               \/ o2 = o /\ p2 = "inbox" /\ i2 = i
    <3>1. /\ QueuedFor(o2, d)' => QueuedFor(o2, d)
          /\ ~HeldFor(o2, d)'
          /\ RepliedTo(o2, d)' => RepliedTo(o2, d)
          /\ MailedTo(o2, d)' => MailedTo(o2, d)
          /\ \A j \in Goroutines :
                /\ PostedFor(o2, j, d)' => PostedFor(o2, j, d) \/ (j = i /\ o2 = o)
                /\ HandledFor(o2, j, d)' => HandledFor(o2, j, d)
      BY <1>1, <1>2, <1>3 DEF o
    <3> QED
      BY <2>5, <3>1 DEF MatterAt
  <2>6. OnlyMatter(o, d, "inbox", i)
    BY <1>3, <2>2, <2>3, <2>4, <2>5, MatterGoes
  <2>7. UnderWay(o, d)
    BY <2>3, <2>4 DEF UnderWay
  <2> QED
    BY <1>3, <1>4, <2>2, <2>6, <2>7, MatterMoves
<1> QED
  BY <1>5, <1>6

LEMMA SendSeats ==
    ASSUME PatientInv, NEW m, NEW i, SendsOn(m, i)
    PROVE  SeatsAreTaken'
<1> DEFINE b == m.chan
<1>1. UNCHANGED <<masterQ, memberList, todo, status, chatID, chatIn>>
  BY SendsFacts
<1>2. b \in Channels /\ i \in Goroutines /\ running[b] = i /\ m \in MasterSends
  BY SendsFacts
<1>3. /\ ToSet(masterTodo) = {m} /\ \A n \in ToSet(masterTodo') : n.op = "Shutdown"
      /\ ToSet(inbox[i]) = {} /\ ToSet(inbox'[i]) = {Posted(m)}
      /\ Posted(m).op = m.op /\ Posted(m).who = m.who
      /\ \A j \in Goroutines \ {i} : inbox'[j] = inbox[j]
  BY SendsFacts
<1>4. /\ \A c \in Channels : running[c] = i => c = b
      /\ \A c \in Channels : c # b => running'[c] = running[c]
      /\ m.op # "Shutdown" => running' = running
  BY SendsFacts
<1> HIDE DEF b
<1>5. m.op = "Shutdown" => \A d \in Doppelgangers : ~Counts(b, d)
  <2> SUFFICES ASSUME m.op = "Shutdown", NEW d \in Doppelgangers, Counts(b, d) PROVE FALSE
    OBVIOUS
  <2>1. /\ Holders(b) = {} /\ \A n \in ToSet(masterQ) : n \notin ExitRequests(b)
    BY <1>2, PatientParts, ShutdownSent, NothingDue, SendsFacts DEF b
  <2>2. PICK n \in ToSet(masterQ) : n.op = "Exit" /\ n.chan = b /\ n.from = d
    BY <1>3, <2>1 DEF Counts, ExitAsked
  <2>3. n \in ToMaster
    BY PatientParts, MailTypes, ToSetType
  <2> QED
    BY <2>1, <2>2, <2>3 DEF ToMaster, ExitRequests
<1>6. m.op = "Shutdown" => running'[b] = NoGoroutine
  <2>1. running \in [Channels -> Goroutines \cup {NoGoroutine}]
    BY PatientParts, TypeInvFacts
  <2> QED
    BY <1>2, <2>1 DEF SendsOn, AfterMasterSend, b
<1>7. \A j \in Goroutines, d \in Doppelgangers :
        /\ TakenOff(j, d)' <=> TakenOff(j, d)
        /\ d \in Hearing(j)' <=> d \in Hearing(j)
        /\ PostedFor("Exit", j, d)' <=>
              PostedFor("Exit", j, d) \/ (j = i /\ m.op = "Exit" /\ d = m.who)
  BY <1>1, <1>3 DEF TakenOff, Hearing, PostedFor
<1>8. \A c \in Channels, d \in Doppelgangers :
        Counts(c, d) <=> Counts(c, d)' \/ (m.op = "Exit" /\ c = b /\ d = m.who)
  BY <1>1, <1>3 DEF Counts, Holders, ExitAsked, b
<1>9. ASSUME NEW j \in Goroutines, NEW d \in Doppelgangers
      PROVE  Belongs(j, d)' <=> Belongs(j, d)
  <2>1. CASE m.op = "Shutdown"
    <3>1. NoGoroutine \notin Goroutines
      BY PatientParts, TypeInvFacts
    <3>2. \A c \in Channels : running'[c] = j /\ Counts(c, d)' <=> running[c] = j /\ Counts(c, d)
      BY <1>2, <1>4, <1>5, <1>6, <1>8, <2>1, <3>1
    <3> QED
      BY <1>7, <2>1, <3>2 DEF Belongs
  <2>2. CASE m.op # "Shutdown" /\ ~(m.op = "Exit" /\ d = m.who)
    BY <1>4, <1>7, <1>8, <2>2 DEF Belongs
  <2>3. CASE m.op = "Exit" /\ d = m.who /\ j = i
    <3>1. Belongs(i, d)'
      BY <1>2, <1>7, <2>3 DEF Belongs
    <3>2. Belongs(i, d)
      BY <1>2, <1>8, <2>3 DEF Belongs
    <3> QED
      BY <2>3, <3>1, <3>2
  <2>4. CASE m.op = "Exit" /\ d = m.who /\ j # i
    <3>1. \A c \in Channels : running[c] = j => c # b
      BY <1>2, <2>4
    <3> QED
      BY <1>4, <1>7, <1>8, <2>4, <3>1 DEF Belongs
  <2> QED
    BY <2>1, <2>2, <2>3, <2>4
<1> QED
  BY <1>1, <1>7, <1>9, PatientParts DEF SeatsAreTaken

LEMMA SendReplies ==
    ASSUME PatientInv, NEW m, NEW i, SendsOn(m, i)
    PROVE  RepliesReach'
<1> DEFINE b == m.chan
<1>1. UNCHANGED <<masterQ, memberList, todo, status, chatID>>
  BY SendsFacts
<1>2. b \in Channels /\ i \in Goroutines /\ running[b] = i
  BY SendsFacts
<1>3. /\ ToSet(masterTodo) = {m} /\ \A n \in ToSet(masterTodo') : n.op = "Shutdown"
      /\ ToSet(inbox[i]) = {} /\ ToSet(inbox'[i]) = {Posted(m)}
      /\ Posted(m).op = m.op /\ Posted(m).who = m.who
      /\ \A j \in Goroutines \ {i} : inbox'[j] = inbox[j]
  BY SendsFacts
<1>4. /\ \A c \in Channels : c # b => running'[c] = running[c]
      /\ m.op # "Shutdown" => running' = running
  BY SendsFacts
<1>5. m.op = "Who" => AsksWho(m.who, b)
  BY <1>3, PatientParts DEF RepliesReach
<1> HIDE DEF b
<1>6. \A c, d : AsksWho(d, c)' <=> AsksWho(d, c)
  BY <1>1 DEF AsksWho, Holders
<1>7. \A d : AsksWho(d, b) => Counts(b, d)'
  BY <1>1 DEF AsksWho, Counts, Holders, ExitAsked
<1>8. \A c \in Channels : \A d : c # b /\ Counts(c, d) => Counts(c, d)'
  BY <1>1, <1>3 DEF Counts, Holders, ExitAsked, b
<1>9. ASSUME NEW j \in Goroutines, NEW n \in ToSet(inbox'[j]), n.op = "Who"
      PROVE  \E c \in Channels : running'[c] = j /\ Counts(c, n.who)'
  <2>1. CASE j = i
    BY <1>2, <1>3, <1>4, <1>5, <1>7, <1>9, <2>1
  <2>2. CASE j # i
    <3>1. PICK c \in Channels : running[c] = j /\ Counts(c, n.who)
      BY <1>3, <1>9, <2>2, PatientParts DEF RepliesReach
    <3>2. c # b
      BY <1>2, <2>2, <3>1
    <3> QED
      BY <1>4, <1>8, <3>1, <3>2
  <2> QED
    BY <2>1, <2>2
<1> QED
  BY <1>1, <1>3, <1>6, <1>9, PatientParts DEF RepliesReach

LEMMA SendCounts ==
    ASSUME PatientInv, AccountsInv', NEW m, NEW i, SendsOn(m, i)
    PROVE  CountMatchesRoster' /\ EntriesCount'
<1> DEFINE b == m.chan
           shutdown == [m EXCEPT !.op = "Shutdown"]
<1>1. /\ TypeInv /\ TypeInv' /\ CountMatchesRoster /\ memberCount \in [Channels -> Int]
      /\ running \in [Channels -> Goroutines \cup {NoGoroutine}]
  BY PatientParts, Steps, MailTypes, TypeInvFacts
<1>2. /\ m \in MasterSends /\ m.who \in Doppelgangers /\ b \in Channels
      /\ i \in Goroutines /\ running[b] = i /\ i # NoGoroutine /\ masterTodo = <<m>>
      /\ \A c \in Channels : running[c] = i => c = b
  BY SendsFacts
<1>3. /\ inbox[i] = <<>> /\ inbox'[i] = <<Posted(m)>>
      /\ Posted(m).op = m.op /\ Posted(m).who = m.who
      /\ \A j \in Goroutines \ {i} : inbox'[j] = inbox[j]
      /\ \A c \in Channels : c # b => running'[c] = running[c]
      /\ m.op # "Shutdown" => running' = running
      /\ UNCHANGED <<denialQ, memberList, todo>>
  BY SendsFacts
<1>4. /\ shutdown.op = "Shutdown" /\ shutdown.chan = b
      /\ memberCount' = IF m.op = "Exit" THEN [memberCount EXCEPT ![b] = @ - 1] ELSE memberCount
      /\ masterTodo' = IF m.op = "Exit" /\ memberCount[b] = 1 THEN <<shutdown>> ELSE <<>>
      /\ m.op = "Shutdown" => running' = [running EXCEPT ![b] = NoGoroutine]
  <2>1. shutdown.op = "Shutdown" /\ shutdown.chan = b
    BY <1>2 DEF MasterSends
  <2>2. masterTodo # <<>> /\ Tail(masterTodo) = <<>>
    BY <1>1, <1>2, PatientParts, TheQueuedSend DEF SendsOn
  <2> QED
    BY <2>1, <2>2 DEF SendsOn, AfterMasterSend
<1>5. /\ \A c \in Channels : m \in SendsTo(c, "Join") <=> m.op = "Join" /\ b = c
      /\ \A c : shutdown \notin SendsTo(c, "Join")
      /\ \A op : Posted(m) \in Posts(op) <=> m.op = op
  <2>1. \A c \in Channels : m \in SendsTo(c, "Join") <=> m.op = "Join" /\ b = c
    BY <1>2 DEF MasterSends, SendsTo
  <2>2. \A c : shutdown \notin SendsTo(c, "Join")
    BY <1>4 DEF SendsTo
  <2>3. \A op : Posted(m) \in Posts(op) <=> m.op = op
    BY <1>2 DEF Posted, Posts
  <2> QED
    BY <2>1, <2>2, <2>3
<1> HIDE DEF b, shutdown
<1>6. ASSUME NEW c \in Channels, running[c] # NoGoroutine, running'[c] = running[c]
      PROVE  memberCount'[c] = Accounted(c)'
  <2> DEFINE v == IF m.op = "Exit" /\ c = b THEN 0 - 1 ELSE 0
             j == IF m.op = "Join" /\ c = b THEN 1 ELSE 0
             e == IF m.op = "Exit" /\ c = b THEN 1 ELSE 0
             k == running[c]
             lost == 0 - j
  <2>1. /\ v \in Int /\ j \in Nat /\ e \in Nat /\ lost \in Int /\ 0 \in Int
        /\ v + e = 0 /\ ((lost + j) + 0) + 0 = 0
    OBVIOUS
  <2>2. memberCount'[c] = memberCount[c] + v
    BY <1>1, <1>2, <1>4
  <2>3. k \in Goroutines
    BY <1>1, <1>6
  <2>4. /\ HowMany(masterTodo, SendsTo(c, "Join")) = j
        /\ HowMany(masterTodo', SendsTo(c, "Join")) = 0
    <3>1. HowMany(masterTodo, SendsTo(c, "Join")) = j
      BY <1>2, <1>5, HowManyOfOne
    <3>2. HowMany(masterTodo', SendsTo(c, "Join")) = 0
      BY <1>4, <1>5, HowManyOfEmpty, HowManyOfOne
    <3> QED
      BY <3>1, <3>2
  <2>5. /\ HowMany(inbox'[k], Posts("Join")) = HowMany(inbox[k], Posts("Join")) + j
        /\ HowMany(inbox'[k], Posts("Exit")) = HowMany(inbox[k], Posts("Exit")) + e
    <3>1. CASE c = b
      <4>1. HowMany(inbox[i], Posts("Join")) = 0 /\ HowMany(inbox[i], Posts("Exit")) = 0
        BY <1>3, HowManyOfEmpty
      <4>2. HowMany(inbox'[i], Posts("Join")) = j
        BY <1>3, <1>5, <3>1, HowManyOfOne
      <4>3. HowMany(inbox'[i], Posts("Exit")) = e
        BY <1>3, <1>5, <3>1, HowManyOfOne
      <4> QED
        BY <1>2, <2>1, <3>1, <4>1, <4>2, <4>3
    <3>2. CASE c # b
      <4>1. k # i
        BY <1>2, <3>2
      <4>2. inbox'[k] = inbox[k]
        BY <1>3, <2>3, <4>1
      <4>3. HowMany(inbox[k], Posts("Join")) \in Nat /\ HowMany(inbox[k], Posts("Exit")) \in Nat
        <5>1. inbox[k] \in Seq(ToChat)
          BY <1>1, <2>3, TypeInvFacts
        <5> QED
          BY <5>1, HowManyType
      <4> QED
        BY <3>2, <4>2, <4>3
    <3> QED
      BY <3>1, <3>2
  <2>6. /\ HowMany(todo[k], Verdicts) \in Nat /\ HowMany(denialQ, DenialsBy(c)) \in Nat
        /\ HowMany(inbox[k], Posts("Exit")) \in Nat
        /\ Cardinality(memberList[k]) \in Nat /\ JoinsUnderWay(c) \in Nat
        /\ HowMany(todo[k], Farewells) \in Nat
    BY <1>1, <1>6, DueTypes, AccountTypes DEF DueTyped, AccountTyped
  <2>7. ExitsUnderWay(c)' = ExitsUnderWay(c) + e
    <3> DEFINE n == HowMany(inbox[k], Posts("Exit"))
               f == IF HowMany(todo[k], Farewells) > 0 THEN 1 ELSE 0
    <3>1. ExitsUnderWay(c) = n + f
      BY DEF ExitsUnderWay
    <3>2. ExitsUnderWay(c)' = (n + e) + f
      BY <1>3, <1>6, <2>5 DEF ExitsUnderWay
    <3>3. n \in Nat /\ f \in Nat
      BY <2>6
    <3> HIDE DEF n, f, e
    <3> QED
      BY <2>1, <3>1, <3>2, <3>3
  <2> HIDE DEF v, j, e, lost
  <2>8. JoinsUnderWay(c)' = JoinsUnderWay(c) + 0
    <3>1. HowMany(masterTodo', SendsTo(c, "Join"))
            = HowMany(masterTodo, SendsTo(c, "Join")) + lost
      BY <2>1, <2>4 DEF lost
    <3>2. /\ HowMany(inbox'[running[c]], Posts("Join"))
               = HowMany(inbox[running[c]], Posts("Join")) + j
          /\ HowMany(todo'[running[c]], Verdicts) = HowMany(todo[running[c]], Verdicts) + 0
          /\ HowMany(denialQ', DenialsBy(c)) = HowMany(denialQ, DenialsBy(c)) + 0
      BY <1>3, <2>5, <2>6
    <3>3. lost \in Int /\ j \in Int /\ 0 \in Int /\ TypeInv /\ TypeInv'
      BY <1>1, <2>1
    <3>4. JoinsUnderWay(c)' = JoinsUnderWay(c) + (((lost + j) + 0) + 0)
      BY <1>6, <3>1, <3>2, <3>3, JoinsChange
    <3> QED
      BY <2>1, <3>4
  <2>9. Changes(c, v, 0, 0, e)
    BY <1>3, <2>2, <2>6, <2>7, <2>8 DEF Changes
  <2>10. v \in Int /\ e \in Int /\ 0 \in Int /\ v + e = 0 + 0
    BY <2>1
  <2> QED
    BY <1>1, <1>6, <2>9, <2>10, CountKept
<1>7. ASSUME NEW c \in Channels, running[c] = NoGoroutine
      PROVE  memberCount'[c] = Accounted(c)'
  <2>1. memberCount[c] = 0 /\ c # b
    BY <1>1, <1>2, <1>7 DEF CountMatchesRoster, Accounted
  <2> QED
    BY <1>1, <1>2, <1>3, <1>4, <1>7, <2>1 DEF Accounted
<1>8. ASSUME NEW c \in Channels, running'[c] # running[c]
      PROVE  memberCount'[c] = Accounted(c)'
  <2>1. c = b /\ m.op = "Shutdown"
    BY <1>3, <1>8
  <2>2. memberCount[b] = 0
    <3>1. m \in ToSet(masterTodo)
      BY SendsFacts
    <3> QED
      BY <2>1, <3>1, PatientParts DEF CountCoversDue, b
  <2> QED
    BY <1>1, <1>2, <1>4, <2>1, <2>2 DEF Accounted
<1>9. ASSUME NEW c \in Channels, running'[c] # NoGoroutine
      PROVE  memberCount'[c] > 0 \/ \E n \in ToSet(masterTodo') : n.op = "Shutdown" /\ n.chan = c
  <2>1. ~(m.op = "Shutdown" /\ c = b) /\ running'[c] = running[c]
    BY <1>1, <1>2, <1>3, <1>4, <1>9
  <2>2. memberCount[c] > 0 /\ memberCount[c] \in Int
    <3>1. ToSet(masterTodo) = {m}
      BY SendsFacts
    <3> QED
      BY <1>1, <1>9, <2>1, <3>1, PatientParts DEF EntriesCount, b
  <2>3. CASE m.op = "Exit" /\ c = b /\ memberCount[b] = 1
    BY <1>4, <2>3, ToSetOfOne
  <2>4. CASE m.op = "Exit" /\ c = b /\ memberCount[b] # 1
    BY <1>1, <1>2, <1>4, <2>2, <2>4
  <2>5. CASE ~(m.op = "Exit" /\ c = b)
    BY <1>1, <1>2, <1>4, <2>2, <2>5
  <2> QED
    BY <2>3, <2>4, <2>5
<1> QED
  BY <1>6, <1>7, <1>8, <1>9 DEF CountMatchesRoster, EntriesCount

LEMMA SendKeepsPatience ==
    ASSUME PatientInv, AccountsInv', MasterSendsToChat
    PROVE  PatientRest'
<1>1. chatState[running[Head(masterTodo).chan]] # "returned" /\ masterTodo # <<>>
  BY PatientParts, TheQueuedSend DEF MasterSendsToChat
<1>2. PICK m, i : m = Head(masterTodo) /\ i = running[m.chan]
  OBVIOUS
<1>3. SendsOn(m, i) /\ UNCHANGED <<masterReplies, masterUp, crash, view, line>>
  BY <1>1, <1>2 DEF MasterSendsToChat, SendsOn, telnetVars
<1>4. /\ OneMatter'
      /\ \A d \in Doppelgangers, o \in Kinds : UnderWay(o, d)' => UnderWay(o, d)
  BY <1>3, SendMatters
<1>5. NothingBehind'
  <2>1. masterReplies = <<>> /\ UNCHANGED <<masterQ, todo>>
    BY <1>3, SendsFacts
  <2> QED
    BY <1>3, <2>1, PatientParts DEF NothingBehind
<1>6. SessionsKnow'
  <2>1. UNCHANGED <<status, chatID, cantExit, gone, view, line>>
    BY <1>3, SendsFacts
  <2> QED
    BY <1>4, <2>1, PatientParts, SessionsStay
<1>7. masterUp' /\ NoCrash'
  BY <1>3, PatientParts DEF NoCrash
<1> QED
  BY <1>3, <1>4, <1>5, <1>6, <1>7, SendSeats, SendReplies, SendCounts DEF PatientRest

-----------------------------------------------------------------------------
\* What the handlers of a chat channel queue: nobody gets two answers.

LEMMA BroadcastOnce ==
    ASSUME NEW ds \in SUBSET Doppelgangers, NEW op, op \in {"Text", "TextExit"},
           NEW leaving, leaving \in Doppelgangers \cup {Nobody},
           NEW s, s \in Broadcasts(op, ds, leaving)
    PROVE  /\ \A m \in ToSet(s) : m.to \in ds
           /\ \A k, l \in DOMAIN s : k # l => s[k].to # s[l].to
           /\ OneEnding(s) /\ DenialsAreTold(s)
<1>1. PICK f \in SetToSeqs(ds) : s = [k \in DOMAIN f |-> SendTo(op, f[k], leaving)]
  BY DEF Broadcasts
<1> DEFINE D == 1 .. Cardinality(ds)
<1>2. f \in [D -> ds] /\ \A k, l \in D : k # l => f[k] # f[l]
  BY DEF SetToSeqs
<1> HIDE DEF D
<1>3. DOMAIN s = D /\ \A k \in D : s[k].to = f[k] /\ s[k].op = op
  BY <1>1, <1>2 DEF SendTo
<1>4. \A k, l \in DOMAIN s : k # l => s[k].to # s[l].to
  BY <1>2, <1>3
<1>5. \A m \in ToSet(s) : m.to \in ds
  BY <1>2, <1>3 DEF ToSet
<1>6. OneEnding(s)
  <2>1. \A k, l \in DOMAIN s : k < l => k # l
    <3>1. DOMAIN s \subseteq Nat
      <4>1. Cardinality(ds) \in Nat
        BY IdsAssumption, FS_Subset, FS_CardinalityType DEF IdsAssumption
      <4> QED
        BY <1>3, <4>1 DEF D
    <3> QED
      BY <3>1
  <2> QED
    BY <1>4, <2>1 DEF OneEnding
<1>7. DenialsAreTold(s)
  BY <1>3 DEF DenialsAreTold
<1> QED
  BY <1>4, <1>5, <1>6, <1>7

LEMMA JoinAnswers ==
    ASSUME NEW d \in Doppelgangers, NEW members \in SUBSET Doppelgangers,
           NEW s \in AnswersToJoin(d, members)
    PROVE  /\ OneEnding(s) /\ DenialsAreTold(s)
           /\ \A m \in ToSet(s) : m.op \in {"Joined", "JoinDenied"} => m.to = d
           /\ \A m \in ToSet(s) : m.op \in {"Text", "TextExit"} =>
                \/ m.to \in members
                \/ \E n \in ToSet(s) : n.op = "Joined" /\ n.to = m.to
<1> DEFINE one(op) == SendTo(op, d, Nobody)
           Ending(m) == m.op \in {"Joined", "JoinDenied"}
<1>0. s \in Seq(ChatSends) /\ \A m \in ToSet(s) : m.leaving = Nobody
  BY AnswerFacts
<1>1. \A op \in {"Joined", "Denial", "JoinDenied", "Text"} : one(op).op = op /\ one(op).to = d
  BY DEF SendTo
<1>2. ASSUME NEW n, \A k \in DOMAIN s : Ending(s[k]) => k = n, DOMAIN s \subseteq Nat
      PROVE  OneEnding(s)
  <2> SUFFICES ASSUME NEW k \in DOMAIN s, NEW l \in DOMAIN s, NEW o \in Kinds, k < l,
                      Ends(o, s[k].to, s[k]), s[l].to = s[k].to, Ends(o, s[l].to, s[l])
               PROVE  FALSE
    BY DEF OneEnding
  <2>1. s[k] \in ToSet(s) /\ s[l] \in ToSet(s)
    BY DEF ToSet
  <2>2. s[k].leaving = Nobody /\ s[k].to \in Doppelgangers
    <3>1. s[k] \in ChatSends
      BY <1>0
    <3> QED
      BY <1>0, <2>1, <3>1 DEF ChatSends
  <2>3. o = "Join"
    BY <2>2, IdsAssumption DEF Ends, IdsAssumption, Kinds
  <2>4. k = n /\ l = n
    BY <1>2, <2>3 DEF Ends
  <2> QED
    BY <1>2, <2>4
<1>3. CASE Cardinality(members) >= MaxMembers
  <2>1. s = <<one("Denial"), one("JoinDenied")>>
    BY <1>3 DEF AnswersToJoin, RefusalOf
  <2> HIDE DEF one
  <2>2. DOMAIN s = {1, 2} /\ s[1] = one("Denial") /\ s[2] = one("JoinDenied")
    BY <2>1
  <2>3. \A m \in ToSet(s) : m = one("Denial") \/ m = one("JoinDenied")
    BY <2>2 DEF ToSet
  <2>4. OneEnding(s)
    BY <1>1, <1>2, <2>2
  <2>5. DenialsAreTold(s)
    <3>1. 1 < 2 /\ 2 \in DOMAIN s /\ s[2].op = "JoinDenied" /\ s[1].to = d /\ s[2].to = d
      BY <1>1, <2>2
    <3>2. \A k \in DOMAIN s : s[k].op = "Denial" => k = 1
      BY <1>1, <2>2
    <3> QED
      BY <3>1, <3>2 DEF DenialsAreTold
  <2> QED
    BY <1>1, <2>3, <2>4, <2>5
<1>4. CASE ~(Cardinality(members) >= MaxMembers)
  <2> DEFINE others == {m \in members : UserOf[m] # UserOf[d]}
             welcome == <<one("Joined"), one("Text")>>
  <2>1. PICK b \in Broadcasts("Text", others, Nobody) : s = welcome \o b
    BY <1>4 DEF AnswersToJoin, WelcomesOf
  <2>2. /\ b \in Seq(ChatSends) /\ \A m \in ToSet(b) : m.op = "Text" /\ m.to \in members
    <3>1. others \in SUBSET Doppelgangers /\ others \subseteq members
      OBVIOUS
    <3> HIDE DEF others
    <3> QED
      BY <2>1, <3>1, BroadcastFacts, BroadcastOnce
  <2> HIDE DEF others, one
  <2>3. welcome \in Seq({one("Joined"), one("Text")}) /\ Len(welcome) = 2
        /\ welcome[1] = one("Joined") /\ welcome[2] = one("Text")
    OBVIOUS
  <2> HIDE DEF welcome
  <2>4. /\ Len(s) = 2 + Len(b) /\ Len(b) \in Nat
        /\ s[1] = one("Joined") /\ s[2] = one("Text")
        /\ \A k \in (2 + 1) .. (2 + Len(b)) : s[k] = b[k - 2]
    <3> DEFINE T == {one("Joined"), one("Text")} \cup ChatSends
    <3>1. welcome \in Seq(T) /\ b \in Seq(T)
      BY <2>2, <2>3
    <3> HIDE DEF T
    <3>2. /\ Len(s) = Len(welcome) + Len(b)
          /\ \A k \in 1 .. Len(welcome) : s[k] = welcome[k]
          /\ \A k \in (Len(welcome) + 1) .. (Len(welcome) + Len(b)) : s[k] = b[k - Len(welcome)]
      BY <2>1, <3>1, ConcatProperties
    <3>3. Len(b) \in Nat
      BY <2>2, LenProperties
    <3> QED
      BY <2>3, <3>2, <3>3
  <2>5. DOMAIN s = 1 .. (2 + Len(b)) /\ DOMAIN b = 1 .. Len(b)
    BY <1>0, <2>2, <2>4, LenProperties
  <2>6. ASSUME NEW k \in DOMAIN s \ {1, 2}
        PROVE  s[k] \in ToSet(b)
    <3>1. k - 2 \in DOMAIN b /\ s[k] = b[k - 2]
      BY <2>4, <2>5
    <3> QED
      BY <3>1 DEF ToSet
  <2>7. 1 \in DOMAIN s
    BY <2>4, <2>5
  <2>8. /\ s[1].op = "Joined" /\ s[1].to = d /\ s[2].op = "Text" /\ s[2].to = d
        /\ \A k \in DOMAIN s \ {1, 2} : s[k].op = "Text" /\ s[k].to \in members
    BY <1>1, <2>2, <2>4, <2>6
  <2>9. OneEnding(s)
    <3>1. DOMAIN s \subseteq Nat
      BY <2>4, <2>5
    <3>2. \A k \in DOMAIN s : Ending(s[k]) => k = 1
      BY <2>8
    <3> QED
      BY <1>2, <3>1, <3>2
  <2>10. DenialsAreTold(s)
    BY <2>8 DEF DenialsAreTold
  <2>11. s[1] \in ToSet(s)
    BY <2>7 DEF ToSet
  <2>12. \A m \in ToSet(s) : m.op \in {"Joined", "JoinDenied"} => m.to = d
    BY <2>8 DEF ToSet
  <2>13. \A m \in ToSet(s) : m.to = d \/ m.to \in members
    BY <2>8 DEF ToSet
  <2> QED
    BY <2>8, <2>9, <2>10, <2>11, <2>12, <2>13
<1> QED
  BY <1>3, <1>4

-----------------------------------------------------------------------------
(***************************************************************************)
(* A turn of the chat channel i: it takes the message op about who, or     *)
(* something that was said, and queues s.                                  *)
(***************************************************************************)
Turns(i, op, who, s) ==
    /\ todo[i] = <<>> /\ todo' = [todo EXCEPT ![i] = s]
    /\ \/ op = "Speech" /\ who = Nobody /\ inbox' = inbox
       \/ /\ op # "Speech" /\ inbox[i] # <<>>
          /\ op = Head(inbox[i]).op /\ who = Head(inbox[i]).who
          /\ inbox' = [inbox EXCEPT ![i] = Tail(@)]
    /\ UNCHANGED <<masterVars, memberList, doppVars, telnetVars, crash>>

Says(i, op, who, s) ==
    /\ s \in Seq(ChatSends) /\ OneEnding(s) /\ DenialsAreTold(s)
    /\ HowMany(s, Verdicts) = IF op = "Join" THEN 1 ELSE 0
    /\ op = "Exit" /\ memberList[i] # {} => ToSet(s) # {}
    /\ \A m \in ToSet(s) :
        /\ m.op = "TextExit" <=> op = "Exit"
        /\ m.leaving = IF op = "Exit" THEN who ELSE Nobody
        /\ m.op \in {"Joined", "JoinDenied"} => op = "Join" /\ m.to = who
        /\ m.op \in {"Text", "TextExit"} =>
            \/ m.to \in memberList[i]
            \/ \E n \in ToSet(s) : n.op = "Joined" /\ n.to = m.to

LEMMA TurnsFacts ==
    ASSUME PatientInv, NEW i \in Goroutines, NEW op, NEW who, NEW s, Turns(i, op, who, s)
    PROVE  /\ todo[i] = <<>> /\ ToSet(todo[i]) = {} /\ todo'[i] = s
           /\ \A j \in Goroutines \ {i} : todo'[j] = todo[j] /\ inbox'[j] = inbox[j]
           /\ \/ op = "Speech" /\ who = Nobody /\ inbox'[i] = inbox[i]
              \/ /\ op # "Speech" /\ who \in Doppelgangers
                 /\ \E m \in ToSet(inbox[i]) :
                        /\ m \in ToChat /\ m.op = op /\ m.who = who
                        /\ ToSet(inbox[i]) = {m} /\ inbox[i] = <<m>>
                 /\ ToSet(inbox'[i]) = {} /\ inbox'[i] = <<>>
           /\ UNCHANGED <<masterQ, denialQ, memberCount, running, masterTodo, masterReplies,
                          masterUp, memberList, status, chatID, callback, gone, cantExit,
                          replyIn, chatIn, view, line, crash>>
<1>1. /\ todo \in [Goroutines -> Seq(ChatSends)] /\ inbox \in [Goroutines -> Seq(ToChat)]
      /\ inbox[i] \in Seq(ToChat) /\ Len(inbox[i]) <= 1
  BY PatientParts, MailTypes, TypeInvFacts DEF RosterInv, OneMessageOfBuffer
<1>2. CASE op # "Speech"
  <2> DEFINE m == Head(inbox[i])
  <2>1. inbox[i] # <<>> /\ m.op = op /\ m.who = who /\ inbox' = [inbox EXCEPT ![i] = Tail(@)]
    BY <1>2 DEF Turns
  <2>2. Tail(inbox[i]) = <<>> /\ ToSet(inbox[i]) = {m} /\ inbox[i] = <<m>>
    BY <1>1, <2>1, TailOfOne
  <2>3. m \in ToChat
    BY <1>1, <2>1, ToSetType
  <2>4. inbox'[i] = <<>> /\ \A j \in Goroutines \ {i} : inbox'[j] = inbox[j]
    BY <1>1, <2>1, <2>2
  <2> HIDE DEF m
  <2>5. who \in Doppelgangers
    BY <2>1, <2>3 DEF ToChat
  <2>6. /\ who \in Doppelgangers /\ ToSet(inbox'[i]) = {} /\ inbox'[i] = <<>>
        /\ m \in ToSet(inbox[i]) /\ m \in ToChat /\ m.op = op /\ m.who = who
        /\ ToSet(inbox[i]) = {m} /\ inbox[i] = <<m>>
    BY <2>1, <2>2, <2>3, <2>4, <2>5, ToSetOfEmpty
  <2> QED
    BY <1>1, <1>2, <2>4, <2>6, ToSetOfEmpty DEF Turns, masterVars, doppVars, telnetVars
<1>3. CASE op = "Speech"
  BY <1>1, <1>3, ToSetOfEmpty DEF Turns, masterVars, doppVars, telnetVars
<1> QED
  BY <1>2, <1>3

\* The messages in the inboxes, and what is handled afterwards.
LEMMA TurnsPosts ==
    ASSUME PatientInv, NEW i \in Goroutines, NEW op, NEW who, NEW s, Turns(i, op, who, s),
           Says(i, op, who, s)
    PROVE  /\ \A j \in Goroutines : \A o, d :
                /\ PostedFor(o, j, d)' => PostedFor(o, j, d)
                /\ PostedFor(o, j, d) /\ ~PostedFor(o, j, d)' => j = i /\ o = op /\ d = who
           /\ op # "Speech" => PostedFor(op, i, who) /\ \A o, d : ~PostedFor(o, i, d)'
           /\ \A j \in Goroutines, o \in Kinds, d \in Doppelgangers :
                HandledFor(o, j, d)' =>
                    \/ j # i /\ HandledFor(o, j, d)
                    \/ j = i /\ o = op /\ d = who
<1>1. \A j \in Goroutines : \A o, d :
        /\ PostedFor(o, j, d)' => PostedFor(o, j, d)
        /\ PostedFor(o, j, d) /\ ~PostedFor(o, j, d)' => j = i /\ o = op /\ d = who
  BY TurnsFacts DEF PostedFor
<1>2. op # "Speech" => PostedFor(op, i, who) /\ \A o, d : ~PostedFor(o, i, d)'
  BY TurnsFacts DEF PostedFor
<1>3. ASSUME NEW j \in Goroutines, NEW o \in Kinds, NEW d \in Doppelgangers, HandledFor(o, j, d)'
      PROVE  (j # i /\ HandledFor(o, j, d)) \/ (j = i /\ o = op /\ d = who)
  <2>1. CASE j # i
    BY <1>3, <2>1, TurnsFacts DEF HandledFor
  <2>2. CASE j = i
    <3>1. PICK m \in ToSet(s) : m.to = d /\ Ends(o, d, m)
      BY <1>3, <2>2, TurnsFacts DEF HandledFor
    <3>2. CASE o = "Join"
      BY <2>2, <3>1, <3>2 DEF Ends, Says
    <3>3. CASE o = "Exit"
      BY <2>2, <3>1, <3>3, IdsAssumption DEF Ends, Says, IdsAssumption
    <3> QED
      BY <3>2, <3>3 DEF Kinds
  <2> QED
    BY <2>1, <2>2
<1> QED
  BY <1>1, <1>2, <1>3

LEMMA TurnsMatters ==
    ASSUME PatientInv, NEW i \in Goroutines, NEW op, NEW who, NEW s, Turns(i, op, who, s),
           Says(i, op, who, s)
    PROVE  /\ OneMatter' /\ NothingBehind'
           /\ \A d \in Doppelgangers, o \in Kinds : UnderWay(o, d)' => UnderWay(o, d)
<1>1. \A e \in Doppelgangers, o \in Kinds :
        /\ QueuedFor(o, e)' => QueuedFor(o, e)
        /\ HeldFor(o, e)' => HeldFor(o, e)
        /\ RepliedTo(o, e)' => RepliedTo(o, e)
        /\ MailedTo(o, e)' => MailedTo(o, e)
        /\ \A j \in Goroutines : PostedFor(o, j, e)' => PostedFor(o, j, e)
        /\ \A j \in Goroutines : HandledFor(o, j, e)' =>
                (j # i /\ HandledFor(o, j, e)) \/ (j = i /\ o = op /\ e = who)
  BY TurnsFacts, TurnsPosts DEF QueuedFor, HeldFor, RepliedTo, MailedTo
<1>2. OneMatter
  BY PatientParts
<1>3. NothingBehind'
  <2>1. OneEnding(s)
    BY DEF Says
  <2>2. /\ todo'[i] = s /\ \A j \in Goroutines \ {i} : todo'[j] = todo[j]
        /\ UNCHANGED <<masterQ, masterTodo, masterReplies>>
    BY TurnsFacts
  <2>3. \A j \in Goroutines : OneEnding(todo'[j])
    BY <2>1, <2>2, PatientParts DEF NothingBehind
  <2> QED
    BY <2>2, <2>3, PatientParts DEF NothingBehind
<1>4. CASE op \notin Kinds
  <2>1. \A e \in Doppelgangers : NoNewMatter(e)
    BY <1>1, <1>4, PlacesShrink
  <2> QED
    BY <1>2, <1>3, <2>1, MattersStay
<1>5. CASE op \in Kinds
  <2>1. who \in Doppelgangers /\ PostedFor(op, i, who) /\ \A o, d : ~PostedFor(o, i, d)'
    BY <1>5, TurnsFacts, TurnsPosts DEF Kinds
  <2>2. MatterAt(op, who, "inbox", i)
    BY <2>1 DEF MatterAt
  <2>3. "inbox" \in Places /\ i \in Whereabouts
    BY DEF Places, Whereabouts
  <2>4. \A e \in Doppelgangers \ {who} : NoNewMatter(e)
    BY <1>1, PlacesShrink
  <2>5. ASSUME NEW o2 \in Kinds, NEW p2 \in Places, NEW i2 \in Whereabouts,
               MatterAt(o2, who, p2, i2)'
        PROVE  \/ MatterAt(o2, who, p2, i2) /\ ~(p2 = "inbox" /\ i2 = i)
               \/ o2 = op /\ p2 = "handler" /\ i2 = i
    <3>1. /\ QueuedFor(o2, who)' => QueuedFor(o2, who)
          /\ HeldFor(o2, who)' => HeldFor(o2, who)
          /\ RepliedTo(o2, who)' => RepliedTo(o2, who)
          /\ MailedTo(o2, who)' => MailedTo(o2, who)
          /\ \A j \in Goroutines : PostedFor(o2, j, who)' => PostedFor(o2, j, who)
          /\ ~PostedFor(o2, i, who)'
          /\ \A j \in Goroutines : HandledFor(o2, j, who)' =>
                (j # i /\ HandledFor(o2, j, who)) \/ (j = i /\ o2 = op)
      BY <1>1, <2>1
    <3> QED
      BY <2>5, <3>1 DEF MatterAt
  <2>6. OnlyMatter(op, who, "handler", i)
    BY <1>2, <1>5, <2>1, <2>2, <2>3, <2>5, MatterGoes
  <2>7. UnderWay(op, who)
    BY <2>2, <2>3 DEF UnderWay
  <2> QED
    BY <1>2, <1>3, <1>5, <2>1, <2>4, <2>6, <2>7, MatterMoves
<1> QED
  BY <1>4, <1>5

\* Who has a matter under way claims nothing else.
LEMMA NoClaims ==
    ASSUME PatientInv, NEW d \in Doppelgangers, NEW o \in Kinds, NEW p \in Places,
           NEW i \in Whereabouts, MatterAt(o, d, p, i)
    PROVE  /\ \A c \in Channels : d \notin Holders(c)
           /\ p \notin {"queue", "master"} => \A c \in Channels : ~ExitAsked(c, d)
           /\ p # "mail" => \A j \in Goroutines : d \notin Hearing(j)
           /\ \A j \in Goroutines : PostedFor("Exit", j, d) => p = "inbox" /\ i = j
           /\ status[d] # "returned"
<1>1. UnderWay(o, d)
  BY DEF UnderWay
<1>2. status[d] # "returned" /\ chatID[d] \notin Channels
  BY <1>1, PatientParts DEF SessionsKnow, Knows, Kinds
<1>3. \A c \in Channels : d \notin Holders(c)
  BY <1>2 DEF Holders
<1>4. \A o2 \in Kinds, p2 \in Places, i2 \in Whereabouts :
        MatterAt(o2, d, p2, i2) => p2 = p /\ i2 = i
  BY PatientParts DEF OneMatter
<1>5. ASSUME NEW c \in Channels, ExitAsked(c, d)
      PROVE  p \in {"queue", "master"}
  <2>1. QueuedFor("Exit", d) \/ HeldFor("Exit", d)
    BY <1>5 DEF ExitAsked, QueuedFor, HeldFor
  <2>2. MatterAt("Exit", d, "queue", NoGoroutine) \/ MatterAt("Exit", d, "master", NoGoroutine)
    BY <2>1 DEF MatterAt
  <2> QED
    BY <1>4, <2>2 DEF Kinds, Places, Whereabouts
<1>6. ASSUME NEW j \in Goroutines, d \in Hearing(j)
      PROVE  p = "mail"
  <2>1. MailedTo("Join", d)
    BY <1>6 DEF Hearing, MailedTo, Ends
  <2>2. MatterAt("Join", d, "mail", NoGoroutine)
    BY <2>1 DEF MatterAt
  <2> QED
    BY <1>4, <2>2 DEF Kinds, Places, Whereabouts
<1>7. ASSUME NEW j \in Goroutines, PostedFor("Exit", j, d)
      PROVE  p = "inbox" /\ i = j
  <2>1. MatterAt("Exit", d, "inbox", j)
    BY <1>7 DEF MatterAt
  <2> QED
    BY <1>4, <2>1 DEF Kinds, Places, Whereabouts
<1> QED
  BY <1>2, <1>3, <1>5, <1>6, <1>7

LEMMA TurnsSeats ==
    ASSUME PatientInv, NEW i \in Goroutines, NEW op, NEW who, NEW s, Turns(i, op, who, s),
           Says(i, op, who, s)
    PROVE  SeatsAreTaken'
<1>1. /\ ToSet(todo[i]) = {} /\ todo'[i] = s
      /\ \A j \in Goroutines \ {i} : todo'[j] = todo[j]
      /\ op = "Speech" => inbox'[i] = inbox[i]
      /\ op # "Speech" => who \in Doppelgangers
      /\ UNCHANGED <<masterQ, masterTodo, running, memberList, status, chatID, chatIn>>
  BY TurnsFacts
<1>2. \A j \in Goroutines, d \in Doppelgangers :
        /\ PostedFor("Exit", j, d)' => PostedFor("Exit", j, d)
        /\ PostedFor("Exit", j, d) /\ ~PostedFor("Exit", j, d)' =>
                j = i /\ op = "Exit" /\ d = who
  BY TurnsPosts
<1>3. \A c, d : Counts(c, d)' <=> Counts(c, d)
  BY <1>1 DEF Counts, Holders, ExitAsked
<1>4. \A j, d : d \in Hearing(j)' <=> d \in Hearing(j)
  BY <1>1 DEF Hearing
<1>5. \A j \in Goroutines \ {i}, d \in Doppelgangers : TakenOff(j, d)' <=> TakenOff(j, d)
  BY <1>1 DEF TakenOff
<1>6. \A d \in Doppelgangers : ~TakenOff(i, d)
  BY <1>1 DEF TakenOff
<1>7. \A d \in Doppelgangers : TakenOff(i, d)' => op = "Exit" /\ d = who
  <2>1. \A m \in ToSet(s) : m.leaving = IF op = "Exit" THEN who ELSE Nobody
    BY DEF Says
  <2> QED
    BY <1>1, <2>1, IdsAssumption DEF TakenOff, IdsAssumption
<1>8. op = "Exit" => who \in memberList[i] /\ TakenOff(i, who)' /\ ~Belongs(i, who)'
  <2> SUFFICES ASSUME op = "Exit"
               PROVE  who \in memberList[i] /\ TakenOff(i, who)' /\ ~Belongs(i, who)'
    OBVIOUS
  <2>1. PostedFor("Exit", i, who) /\ ~PostedFor("Exit", i, who)' /\ who \in Doppelgangers
    BY <1>1, TurnsPosts
  <2>2. Belongs(i, who)
    BY <2>1 DEF Belongs
  <2>3. who \in memberList[i]
    BY <2>1, <2>2, PatientParts DEF SeatsAreTaken
  <2>4. ToSet(s) # {} /\ \A m \in ToSet(s) : m.leaving = who
    BY <2>3 DEF Says
  <2>5. TakenOff(i, who)'
    BY <1>1, <2>4 DEF TakenOff
  <2>6. MatterAt("Exit", who, "inbox", i)
    BY <2>1 DEF MatterAt
  <2>7. /\ \A c \in Channels : who \notin Holders(c) /\ ~ExitAsked(c, who)
        /\ who \notin Hearing(i)
    <3>1. "Exit" \in Kinds /\ "inbox" \in Places /\ i \in Whereabouts
      BY DEF Kinds, Places, Whereabouts
    <3> QED
      BY <2>1, <2>6, <3>1, NoClaims
  <2>8. ~Belongs(i, who)'
    BY <1>1, <1>3, <1>4, <2>1, <2>7 DEF Belongs, Counts
  <2> QED
    BY <2>3, <2>5, <2>8
<1>9. \A j \in Goroutines, d \in Doppelgangers :
        ~(j = i /\ op = "Exit" /\ d = who) => (Belongs(j, d)' <=> Belongs(j, d))
  BY <1>1, <1>2, <1>3, <1>4 DEF Belongs
<1>10. ASSUME NEW j \in Goroutines, NEW d \in Doppelgangers
       PROVE  /\ d \in memberList'[j] /\ ~TakenOff(j, d)' <=> Belongs(j, d)'
              /\ TakenOff(j, d)' => d \in memberList'[j]
  <2>1. CASE j = i /\ op = "Exit" /\ d = who
    BY <1>1, <1>8, <2>1
  <2>2. CASE j = i /\ ~(op = "Exit" /\ d = who)
    BY <1>1, <1>6, <1>7, <1>9, <2>2, PatientParts DEF SeatsAreTaken
  <2>3. CASE j # i
    BY <1>1, <1>5, <1>9, <2>3, PatientParts DEF SeatsAreTaken
  <2> QED
    BY <2>1, <2>2, <2>3
<1> QED
  BY <1>10 DEF SeatsAreTaken

LEMMA TurnsReplies ==
    ASSUME PatientInv, NEW i \in Goroutines, NEW op, NEW who, NEW s, Turns(i, op, who, s),
           Says(i, op, who, s)
    PROVE  RepliesReach'
<1>1. /\ todo'[i] = s
      /\ \A j \in Goroutines \ {i} : todo'[j] = todo[j] /\ inbox'[j] = inbox[j]
      /\ inbox'[i] = inbox[i] \/ ToSet(inbox'[i]) = {}
      /\ UNCHANGED <<masterQ, masterTodo, running, memberList, status, chatID>>
  BY TurnsFacts
<1>2. \A c, d : Counts(c, d)' <=> Counts(c, d)
  BY <1>1 DEF Counts, Holders, ExitAsked
<1>3. \A c, d : AsksWho(d, c)' <=> AsksWho(d, c)
  BY <1>1 DEF AsksWho, Holders
<1>4. \A j \in Goroutines : \A m \in ToSet(inbox'[j]) : m.op = "Who" =>
        \E c \in Channels : running'[c] = j /\ Counts(c, m.who)'
  <2>1. \A j \in Goroutines : \A m \in ToSet(inbox'[j]) : m \in ToSet(inbox[j])
    BY <1>1
  <2> QED
    BY <1>1, <1>2, <2>1, PatientParts DEF RepliesReach
<1>5. /\ DenialsAreTold(s)
      /\ \A m \in ToSet(s) : m.op \in {"Text", "TextExit"} =>
            \/ m.to \in memberList[i]
            \/ \E n \in ToSet(s) : n.op = "Joined" /\ n.to = m.to
  BY DEF Says
<1>6. \A j \in Goroutines :
        /\ \A m \in ToSet(todo'[j]) : m.op \in {"Text", "TextExit"} =>
            \/ m.to \in memberList[j]
            \/ \E n \in ToSet(todo'[j]) : n.op = "Joined" /\ n.to = m.to
        /\ DenialsAreTold(todo'[j])
  BY <1>1, <1>5, PatientParts DEF RepliesReach
<1> QED
  BY <1>1, <1>3, <1>4, <1>6, PatientParts DEF RepliesReach

LEMMA TurnsCounts ==
    ASSUME PatientInv, AccountsInv', NEW i \in Goroutines, NEW op, NEW who, NEW s,
           Turns(i, op, who, s), Says(i, op, who, s)
    PROVE  CountMatchesRoster' /\ EntriesCount'
<1> DEFINE j == IF op = "Join" THEN 1 ELSE 0
           e == IF op = "Exit" THEN 1 ELSE 0
<1>1. /\ TypeInv /\ TypeInv' /\ CountMatchesRoster
      /\ running \in [Channels -> Goroutines \cup {NoGoroutine}]
  BY PatientParts, Steps, TypeInvFacts
<1>2. /\ todo[i] = <<>> /\ todo'[i] = s
      /\ \A k \in Goroutines \ {i} : todo'[k] = todo[k] /\ inbox'[k] = inbox[k]
      /\ UNCHANGED <<denialQ, memberCount, running, masterTodo, memberList>>
  BY TurnsFacts
<1>3. /\ HowMany(inbox[i], Posts("Join")) = HowMany(inbox'[i], Posts("Join")) + j
      /\ HowMany(inbox[i], Posts("Exit")) = HowMany(inbox'[i], Posts("Exit")) + e
      /\ HowMany(inbox'[i], Posts("Join")) \in Nat /\ HowMany(inbox'[i], Posts("Exit")) \in Nat
  <2>1. CASE op = "Speech"
    <3>1. inbox'[i] = inbox[i] /\ inbox[i] \in Seq(ToChat)
      BY <1>1, <2>1, TurnsFacts, TypeInvFacts
    <3>2. HowMany(inbox[i], Posts("Join")) \in Nat /\ HowMany(inbox[i], Posts("Exit")) \in Nat
      BY <3>1, HowManyType
    <3> QED
      BY <2>1, <3>1, <3>2
  <2>2. CASE op # "Speech"
    <3>1. PICK m \in ToChat : m.op = op /\ inbox[i] = <<m>> /\ inbox'[i] = <<>>
      BY <2>2, TurnsFacts
    <3>2. (m \in Posts("Join") <=> op = "Join") /\ (m \in Posts("Exit") <=> op = "Exit")
      BY <3>1 DEF ToChat, Posts
    <3> QED
      BY <3>1, <3>2, HowManyOfOne, HowManyOfEmpty
  <2> QED
    BY <2>1, <2>2
<1>4. /\ HowMany(todo[i], Verdicts) = 0 /\ HowMany(s, Verdicts) = j
      /\ HowMany(todo[i], Farewells) = 0
  BY <1>2, HowManyOfEmpty DEF Says
<1>5. IF HowMany(s, Farewells) > 0 THEN e = 1 ELSE e = 0
  <2>1. s \in Seq(ChatSends) /\ \A m \in ToSet(s) : m.op = "TextExit" <=> op = "Exit"
    BY DEF Says
  <2>2. HowMany(s, Farewells) \in Nat /\ (HowMany(s, Farewells) = 0 <=>
            \A m \in ToSet(s) : m \notin Farewells)
    BY <2>1, HowManyType
  <2>3. CASE op # "Exit"
    <3>1. \A m \in ToSet(s) : m \notin Farewells
      BY <2>1, <2>3 DEF Farewells
    <3> QED
      BY <2>2, <2>3, <3>1
  <2>4. CASE op = "Exit"
    <3>1. who \in Doppelgangers /\ PostedFor("Exit", i, who)
      BY <2>4, TurnsFacts, TurnsPosts
    <3>2. who \in memberList[i]
      BY <3>1, PatientParts DEF SeatsAreTaken, Belongs
    <3>3. PICK m : m \in ToSet(s)
      BY <2>4, <3>2 DEF Says
    <3>4. m.op = "TextExit" /\ m.leaving = who
      BY <2>4, <3>3 DEF Says
    <3>5. m \in Farewells
      <4>1. m \in ChatSends
        BY <2>1, <3>3, ToSetType
      <4> QED
        BY <3>1, <3>4, <4>1 DEF ChatSends, Farewells
    <3> QED
      BY <2>2, <2>4, <3>3, <3>5
  <2> QED
    BY <2>3, <2>4
<1> HIDE DEF j, e
<1>6. j \in Nat /\ e \in Nat
  BY DEF j, e
<1>7. ASSUME NEW c \in Channels, running[c] # NoGoroutine
      PROVE  memberCount'[c] = Accounted(c)'
  <2> DEFINE k == running[c]
             back == 0 - j
  <2>1. /\ k \in Goroutines /\ memberCount[c] \in Int
        /\ HowMany(masterTodo, SendsTo(c, "Join")) \in Nat
        /\ HowMany(inbox[k], Posts("Join")) \in Nat /\ HowMany(todo[k], Verdicts) \in Nat
        /\ HowMany(denialQ, DenialsBy(c)) \in Nat
        /\ Cardinality(memberList[k]) \in Nat /\ JoinsUnderWay(c) \in Nat
        /\ ExitsUnderWay(c) \in Nat
    BY <1>1, <1>7, DueTypes, AccountTypes DEF DueTyped, AccountTyped
  <2>2. ASSUME k = i
        PROVE  JoinsUnderWay(c)' = JoinsUnderWay(c) + 0 /\ ExitsUnderWay(c)' = ExitsUnderWay(c) + 0
    <3>1. JoinsUnderWay(c)' = JoinsUnderWay(c) + 0
      <4>1. /\ HowMany(masterTodo', SendsTo(c, "Join"))
                 = HowMany(masterTodo, SendsTo(c, "Join")) + 0
            /\ HowMany(inbox'[running[c]], Posts("Join"))
                 = HowMany(inbox[running[c]], Posts("Join")) + back
            /\ HowMany(todo'[running[c]], Verdicts) = HowMany(todo[running[c]], Verdicts) + j
            /\ HowMany(denialQ', DenialsBy(c)) = HowMany(denialQ, DenialsBy(c)) + 0
        BY <1>2, <1>3, <1>4, <1>6, <2>1, <2>2
      <4>2. 0 \in Int /\ back \in Int /\ j \in Int /\ ((0 + back) + j) + 0 = 0
            /\ TypeInv /\ TypeInv' /\ running'[c] = running[c]
        BY <1>1, <1>2, <1>6
      <4> HIDE DEF back
      <4>3. JoinsUnderWay(c)' = JoinsUnderWay(c) + (((0 + back) + j) + 0)
        BY <1>7, <4>1, <4>2, JoinsChange
      <4> QED
        BY <4>2, <4>3
    <3>2. ExitsUnderWay(c)' = ExitsUnderWay(c) + 0
      <4>1. ExitsUnderWay(c) = HowMany(inbox[i], Posts("Exit"))
        BY <1>3, <1>4, <1>6, <2>2 DEF ExitsUnderWay
      <4>2. ExitsUnderWay(c)' = HowMany(inbox'[i], Posts("Exit")) + e
        BY <1>2, <1>3, <1>5, <2>2 DEF ExitsUnderWay
      <4> QED
        BY <1>3, <2>1, <4>1, <4>2
    <3> QED
      BY <3>1, <3>2
  <2>3. ASSUME k # i
        PROVE  JoinsUnderWay(c)' = JoinsUnderWay(c) + 0 /\ ExitsUnderWay(c)' = ExitsUnderWay(c) + 0
    <3>1. inbox'[k] = inbox[k] /\ todo'[k] = todo[k]
      BY <1>2, <2>1, <2>3
    <3>2. JoinsUnderWay(c)' = JoinsUnderWay(c) /\ ExitsUnderWay(c)' = ExitsUnderWay(c)
      BY <1>2, <3>1 DEF JoinsUnderWay, ExitsUnderWay
    <3> QED
      BY <2>1, <3>2
  <2>4. Changes(c, 0, 0, 0, 0)
    BY <1>2, <2>1, <2>2, <2>3 DEF Changes
  <2> QED
    BY <1>1, <1>2, <1>7, <2>4, CountKept
<1>8. ASSUME NEW c \in Channels, running[c] = NoGoroutine
      PROVE  memberCount'[c] = Accounted(c)'
  BY <1>1, <1>2, <1>8 DEF CountMatchesRoster, Accounted
<1>9. EntriesCount'
  BY <1>2, PatientParts DEF EntriesCount
<1> QED
  BY <1>7, <1>8, <1>9 DEF CountMatchesRoster

LEMMA TurnsKeep ==
    ASSUME PatientInv, AccountsInv', NEW i \in Goroutines, NEW op, NEW who, NEW s,
           Turns(i, op, who, s), Says(i, op, who, s)
    PROVE  PatientRest'
<1>1. /\ OneMatter' /\ NothingBehind'
      /\ \A d \in Doppelgangers, o \in Kinds : UnderWay(o, d)' => UnderWay(o, d)
  BY TurnsMatters
<1>2. UNCHANGED <<masterUp, crash, status, chatID, cantExit, gone, view, line>>
  BY TurnsFacts
<1>3. SessionsKnow'
  BY <1>1, <1>2, PatientParts, SessionsStay
<1>4. masterUp' /\ NoCrash'
  BY <1>2, PatientParts DEF NoCrash
<1> QED
  BY <1>1, <1>3, <1>4, TurnsSeats, TurnsReplies, TurnsCounts DEF PatientRest

LEMMA OneSendSays ==
    ASSUME NEW m \in ChatSends, m.op # "Denial"
    PROVE  OneEnding(<<m>>) /\ DenialsAreTold(<<m>>)
<1> DEFINE s == <<m>>
<1>1. DOMAIN s = {1} /\ s[1] = m
  OBVIOUS
<1> HIDE DEF s
<1>2. OneEnding(s) /\ DenialsAreTold(s)
  BY <1>1 DEF OneEnding, DenialsAreTold
<1> QED
  BY <1>2 DEF s

LEMMA NothingSaid ==
    /\ <<>> \in Seq(ChatSends) /\ ToSet(<<>>) = {} /\ HowMany(<<>>, Verdicts) = 0
    /\ OneEnding(<<>>) /\ DenialsAreTold(<<>>)
<1>1. <<>> \in Seq(ChatSends) /\ DOMAIN <<>> = {}
  OBVIOUS
<1> QED
  BY <1>1, ToSetOfEmpty, HowManyOfEmpty DEF OneEnding, DenialsAreTold

LEMMA NoVerdicts ==
    ASSUME NEW s \in Seq(ChatSends), \A m \in ToSet(s) : m.op \in {"Text", "TextExit"}
    PROVE  HowMany(s, Verdicts) = 0
<1>1. \A m \in ToSet(s) : m \notin Verdicts
  BY DEF Verdicts
<1> QED
  BY <1>1, HowManyType

\* What the handler of i makes of what it has taken.
Answered(i, op, who, s) ==
    /\ chatState[i] = "running" /\ chanOf' = chanOf
    /\ op = "Join" => s \in AnswersToJoin(who, memberList[i])
    /\ op = "Exit" => s \in Broadcasts("TextExit", memberList[i], who)

LEMMA TakesTurns ==
    ASSUME PatientInv, NEW i \in Goroutines,
           ChatJoin(i) \/ ChatWho(i) \/ ChatExit(i) \/ ChatShutdown(i) \/ ChatSpeech(i)
    PROVE  \E op, who, s :
               Turns(i, op, who, s) /\ Says(i, op, who, s) /\ Answered(i, op, who, s)
<1>0. chatState[i] = "running" /\ chanOf' = chanOf
  BY DEF ChatJoin, ChatWho, ChatExit, ChatShutdown, ChatSpeech, TakeFromMaster, ChatIdle
<1>1. /\ inbox \in [Goroutines -> Seq(ToChat)] /\ memberList[i] \in SUBSET Doppelgangers
      /\ todo \in [Goroutines -> Seq(ChatSends)]
  BY PatientParts, MailTypes, TypeInvFacts
<1>2. ASSUME NEW op, TakeFromMaster(i, op), NEW s, UNCHANGED <<memberList, crash>>,
             todo' = [todo EXCEPT ![i] = s], op # "Speech"
      PROVE  Turns(i, op, Head(inbox[i]).who, s)
  BY <1>2 DEF TakeFromMaster, ChatIdle, Turns
<1>3. ASSUME NEW op, TakeFromMaster(i, op)
      PROVE  /\ Head(inbox[i]).who \in Doppelgangers /\ Head(inbox[i]).op = op
             /\ Head(inbox[i]) \in ToSet(inbox[i]) /\ todo[i] = <<>>
  <2>1. inbox[i] # <<>> /\ Head(inbox[i]).op = op /\ todo[i] = <<>>
    BY <1>3 DEF TakeFromMaster, ChatIdle
  <2>2. Head(inbox[i]) \in ToChat /\ Head(inbox[i]) \in ToSet(inbox[i])
    BY <1>1, <2>1, ToSetType
  <2> QED
    BY <2>1, <2>2 DEF ToChat
<1>4. CASE ChatJoin(i)
  <2>1. TakeFromMaster(i, "Join") /\ UNCHANGED <<memberList, crash>>
    BY <1>4 DEF ChatJoin
  <2>2. PICK who, members, s :
          /\ who = Head(inbox[i]).who /\ members = memberList[i]
          /\ s \in AnswersToJoin(who, members) /\ todo' = [todo EXCEPT ![i] = s]
    BY <1>4 DEF ChatJoin
  <2>3. who \in Doppelgangers /\ members \in SUBSET Doppelgangers
    BY <1>1, <1>3, <2>1, <2>2
  <2>4. Turns(i, "Join", who, s)
    BY <1>2, <2>1, <2>2
  <2>5. /\ s \in Seq(ChatSends) /\ HowMany(s, Verdicts) = 1
        /\ \A m \in ToSet(s) : m.op # "TextExit" /\ m.leaving = Nobody
    BY <2>2, <2>3, AnswerFacts
  <2>6. /\ OneEnding(s) /\ DenialsAreTold(s)
        /\ \A m \in ToSet(s) : m.op \in {"Joined", "JoinDenied"} => m.to = who
        /\ \A m \in ToSet(s) : m.op \in {"Text", "TextExit"} =>
             \/ m.to \in members
             \/ \E n \in ToSet(s) : n.op = "Joined" /\ n.to = m.to
    BY <2>2, <2>3, JoinAnswers
  <2>7. Says(i, "Join", who, s)
    BY <2>2, <2>5, <2>6 DEF Says
  <2>8. Answered(i, "Join", who, s)
    BY <1>0, <2>2 DEF Answered
  <2> QED
    BY <2>4, <2>7, <2>8
<1>5. CASE ChatWho(i)
  <2> DEFINE who == Head(inbox[i]).who
             text == SendTo("Text", who, Nobody)
  <2>1. TakeFromMaster(i, "Who")
    BY <1>5 DEF ChatWho
  <2>2. who \in memberList[i]
    <3>1. PICK c \in Channels : running[c] = i /\ Counts(c, who)
      BY <1>3, <2>1, PatientParts DEF RepliesReach
    <3>2. who \in Doppelgangers
      BY <1>3, <2>1
    <3> HIDE DEF who
    <3>3. Belongs(i, who)
      BY <3>1 DEF Belongs
    <3> QED
      BY <3>2, <3>3, PatientParts DEF SeatsAreTaken
  <2>3. todo' = [todo EXCEPT ![i] = <<text>>] /\ UNCHANGED <<memberList, crash>>
    BY <1>5, <2>2 DEF ChatWho
  <2>4. who \in Doppelgangers /\ Turns(i, "Who", who, <<text>>)
    BY <1>2, <1>3, <2>1, <2>3
  <2> HIDE DEF who
  <2>5. text \in ChatSends /\ text.op = "Text" /\ text.to = who /\ text.leaving = Nobody
    BY <2>4 DEF SendTo, ChatSends
  <2> DEFINE s == <<text>>
  <2> HIDE DEF text
  <2>6. s \in Seq(ChatSends) /\ ToSet(s) = {text} /\ OneEnding(s) /\ DenialsAreTold(s)
    BY <2>5, OneSendSays, ToSetOfOne
  <2>7. Turns(i, "Who", who, s)
    BY <2>4 DEF text
  <2> HIDE DEF s
  <2>8. HowMany(s, Verdicts) = 0
    BY <2>5, <2>6, NoVerdicts
  <2>9. Says(i, "Who", who, s)
    BY <2>2, <2>5, <2>6, <2>8 DEF Says
  <2>10. Answered(i, "Who", who, s)
    BY <1>0 DEF Answered
  <2> QED
    BY <2>7, <2>9, <2>10
<1>6. CASE ChatExit(i)
  <2>1. TakeFromMaster(i, "Exit") /\ UNCHANGED <<memberList, crash>>
    BY <1>6 DEF ChatExit
  <2>2. PICK who, ds, s :
          /\ who = Head(inbox[i]).who /\ ds = memberList[i]
          /\ s \in Broadcasts("TextExit", ds, who) /\ todo' = [todo EXCEPT ![i] = s]
    BY <1>6 DEF ChatExit
  <2>3. who \in Doppelgangers /\ ds \in SUBSET Doppelgangers
    BY <1>1, <1>3, <2>1, <2>2
  <2>4. Turns(i, "Exit", who, s)
    BY <1>2, <2>1, <2>2
  <2>5. /\ s \in Seq(ChatSends) /\ \A m \in ToSet(s) : m.op = "TextExit" /\ m.leaving = who
        /\ ds # {} => ToSet(s) # {}
    BY <2>2, <2>3, FarewellFacts
  <2>6. (\A m \in ToSet(s) : m.to \in ds) /\ OneEnding(s) /\ DenialsAreTold(s)
    BY <2>2, <2>3, BroadcastOnce
  <2>7. HowMany(s, Verdicts) = 0
    BY <2>5, NoVerdicts
  <2>8. Says(i, "Exit", who, s)
    BY <2>2, <2>5, <2>6, <2>7 DEF Says
  <2>9. Answered(i, "Exit", who, s)
    BY <1>0, <2>2 DEF Answered
  <2> QED
    BY <2>4, <2>8, <2>9
<1>7. CASE ChatShutdown(i)
  <2>1. TakeFromMaster(i, "Shutdown") /\ UNCHANGED <<memberList, todo, crash>>
    BY <1>7 DEF ChatShutdown
  <2>2. todo' = [todo EXCEPT ![i] = <<>>]
    BY <1>1, <1>3, <2>1
  <2>3. Turns(i, "Shutdown", Head(inbox[i]).who, <<>>)
    BY <1>2, <2>1, <2>2
  <2>4. Says(i, "Shutdown", Head(inbox[i]).who, <<>>)
    BY NothingSaid DEF Says
  <2>5. Answered(i, "Shutdown", Head(inbox[i]).who, <<>>)
    BY <1>0 DEF Answered
  <2> QED
    BY <2>3, <2>4, <2>5
<1>8. CASE ChatSpeech(i)
  <2>1. PICK s \in Broadcasts("Text", memberList[i], Nobody) : todo' = [todo EXCEPT ![i] = s]
    BY <1>8 DEF ChatSpeech
  <2>2. Turns(i, "Speech", Nobody, s)
    BY <1>8, <2>1 DEF ChatSpeech, ChatIdle, Turns
  <2>3. /\ s \in Seq(ChatSends) /\ \A m \in ToSet(s) : m.op = "Text" /\ m.leaving = Nobody
    BY <1>1, <2>1, BroadcastFacts
  <2>4. (\A m \in ToSet(s) : m.to \in memberList[i]) /\ OneEnding(s) /\ DenialsAreTold(s)
    BY <1>1, <2>1, BroadcastOnce
  <2>5. HowMany(s, Verdicts) = 0
    BY <2>3, NoVerdicts
  <2>6. Says(i, "Speech", Nobody, s)
    BY <2>3, <2>4, <2>5 DEF Says
  <2>7. Answered(i, "Speech", Nobody, s)
    BY <1>0 DEF Answered
  <2> QED
    BY <2>2, <2>6, <2>7
<1> QED
  BY <1>4, <1>5, <1>6, <1>7, <1>8

LEMMA TakeKeepsPatience ==
    ASSUME PatientInv, AccountsInv', NEW i \in Goroutines,
           ChatJoin(i) \/ ChatWho(i) \/ ChatExit(i) \/ ChatShutdown(i) \/ ChatSpeech(i)
    PROVE  PatientRest'
  BY TakesTurns, TurnsKeep

-----------------------------------------------------------------------------
\* The launch of the goroutine i for the join h, which it answers with s.

Opens(i, h, s) ==
    /\ h.op = "Join" /\ NotLaunched(i, h.chan) /\ Launches(i, h.chan, s)
    /\ todo[i] = <<>> /\ todo'[i] = s
    /\ \A j \in Goroutines \ {i} : todo'[j] = todo[j]
    /\ ToSet(masterQ) = {h} \cup ToSet(masterQ')
    /\ \A m \in ToSet(masterQ') : m.from # h.from
    /\ NoneBehind(masterQ')
    /\ UNCHANGED <<masterReplies, masterUp, view, line, crash>>

LEMMA LaunchOpens ==
    ASSUME PatientInv, NEW i \in Goroutines, Launch(i)
    PROVE  \E h \in ToMaster : \E s :
               /\ Opens(i, h, s) /\ Says(i, "Join", h.from, s)
               /\ s \in AnswersToJoin(h.from, {}) /\ chanOf' = [chanOf EXCEPT ![i] = h.chan]
               /\ UNCHANGED telnetVars
<1>1. /\ masterQ \in Seq(ToMaster) /\ todo \in [Goroutines -> Seq(ChatSends)]
      /\ TypeInv /\ EntryInv /\ RosterInv /\ NoneBehind(masterQ)
  BY PatientParts, MailTypes DEF NothingBehind
<1>2. PICK h : h = Head(masterQ)
  OBVIOUS
<1>3. /\ masterQ # <<>> /\ h.op = "Join" /\ h.chan \in Channels
      /\ running[h.chan] = NoGoroutine
      /\ running' = [running EXCEPT ![h.chan] = i]
      /\ memberCount' = [memberCount EXCEPT ![h.chan] = 1]
      /\ chatState[i] = "unborn" /\ MasterIdle
      /\ chatState' = [chatState EXCEPT ![i] = "running"]
      /\ masterQ' = Tail(masterQ)
      /\ UNCHANGED <<denialQ, masterTodo, masterReplies, masterUp, inbox, memberList,
                     doppVars, view, line, crash>>
  BY <1>2 DEF Launch, telnetVars
<1>4. PICK s \in AnswersToJoin(h.from, {}) : todo' = [todo EXCEPT ![i] = s]
  BY <1>2 DEF Launch
<1>5. /\ h \in ToMaster /\ ToSet(masterQ) = {h} \cup ToSet(masterQ')
      /\ \A m \in ToSet(masterQ') : m.from # h.from
      /\ NoneBehind(masterQ')
  BY <1>1, <1>2, <1>3, QueueTail
<1>6. h.from \in Doppelgangers
  BY <1>5 DEF ToMaster
<1>7. /\ inbox[i] = <<>> /\ memberList[i] = {} /\ todo[i] = <<>>
      /\ \A c \in Channels : running[c] # i
  <2>1. \A c \in Channels : running[c] # i
    BY <1>1, <1>3, TypeInvFacts DEF EntryInv, EntryIsLive
  <2> QED
    BY <1>1, <1>3, <2>1 DEF EntryInv, UnbornAreUnused, RosterInv, ShutdownIsLast
<1>8. NotLaunched(i, h.chan)
  BY <1>2, <1>3, <1>5, <1>7 DEF NotLaunched, MasterIdle
<1>9. Launches(i, h.chan, s)
  BY <1>3, <1>4 DEF Launches
<1>10. todo'[i] = s /\ \A j \in Goroutines \ {i} : todo'[j] = todo[j]
  BY <1>1, <1>4
<1>11. Opens(i, h, s)
  BY <1>3, <1>5, <1>7, <1>8, <1>9, <1>10 DEF Opens
<1>12. /\ s \in Seq(ChatSends) /\ HowMany(s, Verdicts) = 1
       /\ \A m \in ToSet(s) : m.op # "TextExit" /\ m.leaving = Nobody
  BY <1>4, <1>6, AnswerFacts
<1>13. /\ OneEnding(s) /\ DenialsAreTold(s)
       /\ \A m \in ToSet(s) : m.op \in {"Joined", "JoinDenied"} => m.to = h.from
       /\ \A m \in ToSet(s) : m.op \in {"Text", "TextExit"} =>
            \/ m.to \in {}
            \/ \E n \in ToSet(s) : n.op = "Joined" /\ n.to = m.to
  BY <1>4, <1>6, JoinAnswers
<1>14. Says(i, "Join", h.from, s)
  BY <1>12, <1>13 DEF Says
<1>15. chanOf' = [chanOf EXCEPT ![i] = h.chan] /\ UNCHANGED telnetVars
  BY <1>2 DEF Launch
<1> QED
  BY <1>4, <1>5, <1>11, <1>14, <1>15

LEMMA OpensFacts ==
    ASSUME PatientInv, NEW i \in Goroutines, NEW h \in ToMaster, NEW s, Opens(i, h, s)
    PROVE  /\ h.from \in Doppelgangers /\ h.chan \in Channels
           /\ running[h.chan] = NoGoroutine /\ running'[h.chan] = i /\ i # NoGoroutine
           /\ \A c \in Channels : running[c] # i
           /\ \A c \in Channels : c # h.chan => running'[c] = running[c]
           /\ memberCount'[h.chan] = 1
           /\ \A c \in Channels : c # h.chan => memberCount'[c] = memberCount[c]
           /\ memberList[i] = {} /\ ToSet(inbox[i]) = {} /\ inbox[i] = <<>>
           /\ masterTodo = <<>> /\ ToSet(masterTodo) = {} /\ ToSet(todo[i]) = {}
           /\ UNCHANGED <<denialQ, masterTodo, inbox, memberList, status, chatID,
                          callback, gone, cantExit, replyIn, chatIn>>
<1>1. /\ TypeInv /\ memberCount \in [Channels -> Int]
      /\ running \in [Channels -> Goroutines \cup {NoGoroutine}]
      /\ i # NoGoroutine
  BY PatientParts, MailTypes, TypeInvFacts
<1>2. h.from \in Doppelgangers
  BY DEF ToMaster
<1>3. NotLaunched(i, h.chan) /\ Launches(i, h.chan, s) /\ todo[i] = <<>>
  BY DEF Opens
<1> QED
  BY <1>1, <1>2, <1>3, ToSetOfEmpty DEF NotLaunched, Launches, doppVars

LEMMA OpensMatters ==
    ASSUME PatientInv, NEW i \in Goroutines, NEW h \in ToMaster, NEW s, Opens(i, h, s),
           Says(i, "Join", h.from, s)
    PROVE  /\ OneMatter' /\ NothingBehind'
           /\ \A d \in Doppelgangers, o \in Kinds : UnderWay(o, d)' => UnderWay(o, d)
<1>1. PICK d \in Doppelgangers : d = h.from
  BY OpensFacts
<1>2. /\ h.op = "Join" /\ todo'[i] = s /\ \A j \in Goroutines \ {i} : todo'[j] = todo[j]
      /\ ToSet(masterQ) = {h} \cup ToSet(masterQ')
      /\ \A m \in ToSet(masterQ') : m.from # h.from
      /\ NoneBehind(masterQ') /\ masterReplies' = masterReplies
  BY DEF Opens
<1>3. UNCHANGED <<masterTodo, inbox, replyIn, chatIn>>
  BY OpensFacts
<1>4. \A e \in Doppelgangers, o \in Kinds :
        /\ QueuedFor(o, e)' => QueuedFor(o, e) /\ e # d
        /\ HeldFor(o, e)' => HeldFor(o, e)
        /\ RepliedTo(o, e)' => RepliedTo(o, e)
        /\ MailedTo(o, e)' => MailedTo(o, e)
        /\ \A j \in Goroutines : PostedFor(o, j, e)' => PostedFor(o, j, e)
  BY <1>1, <1>2, <1>3 DEF QueuedFor, HeldFor, RepliedTo, MailedTo, PostedFor
<1>5. ASSUME NEW j \in Goroutines, NEW o \in Kinds, NEW e \in Doppelgangers,
             HandledFor(o, j, e)'
      PROVE  (j # i /\ HandledFor(o, j, e)) \/ (j = i /\ o = "Join" /\ e = d)
  <2>1. CASE j # i
    BY <1>2, <1>5, <2>1 DEF HandledFor
  <2>2. CASE j = i
    <3>1. PICK m \in ToSet(s) : m.to = e /\ Ends(o, e, m)
      BY <1>2, <1>5, <2>2 DEF HandledFor
    <3>2. m.leaving = Nobody /\ (m.op \in {"Joined", "JoinDenied"} => m.to = d)
      BY <1>1, <3>1 DEF Says
    <3>3. o = "Join"
      BY <3>1, <3>2, IdsAssumption DEF Ends, Kinds, IdsAssumption
    <3> QED
      BY <2>2, <3>1, <3>2, <3>3 DEF Ends
  <2> QED
    BY <2>1, <2>2
<1>6. OneMatter
  BY PatientParts
<1>7. NothingBehind'
  <2>1. OneEnding(s)
    BY DEF Says
  <2>2. \A j \in Goroutines : OneEnding(todo'[j])
    BY <1>2, <2>1, PatientParts DEF NothingBehind
  <2> QED
    BY <1>2, <1>3, <2>2, PatientParts DEF NothingBehind
<1>8. QueuedFor("Join", d)
  BY <1>1, <1>2 DEF QueuedFor
<1>9. MatterAt("Join", d, "queue", NoGoroutine)
  BY <1>8 DEF MatterAt
<1>10. /\ "Join" \in Kinds /\ "queue" \in Places /\ NoGoroutine \in Whereabouts
  BY DEF Kinds, Places, Whereabouts
<1>11. \A e \in Doppelgangers \ {d} : NoNewMatter(e)
  BY <1>4, <1>5, PlacesShrink
<1>12. ASSUME NEW o2 \in Kinds, NEW p2 \in Places, NEW i2 \in Whereabouts,
              MatterAt(o2, d, p2, i2)'
       PROVE  \/ MatterAt(o2, d, p2, i2) /\ ~(p2 = "queue" /\ i2 = NoGoroutine)
              \/ o2 = "Join" /\ p2 = "handler" /\ i2 = i
  <2>1. /\ ~QueuedFor(o2, d)'
        /\ HeldFor(o2, d)' => HeldFor(o2, d)
        /\ RepliedTo(o2, d)' => RepliedTo(o2, d)
        /\ MailedTo(o2, d)' => MailedTo(o2, d)
        /\ \A j \in Goroutines : PostedFor(o2, j, d)' => PostedFor(o2, j, d)
        /\ \A j \in Goroutines : HandledFor(o2, j, d)' =>
              (j # i /\ HandledFor(o2, j, d)) \/ (j = i /\ o2 = "Join")
    BY <1>4, <1>5
  <2> QED
    BY <1>12, <2>1 DEF MatterAt
<1>13. OnlyMatter("Join", d, "handler", i)
  BY <1>6, <1>9, <1>10, <1>12, MatterGoes
<1>14. UnderWay("Join", d)
  BY <1>9, <1>10 DEF UnderWay
<1> QED
  BY <1>6, <1>7, <1>10, <1>11, <1>13, <1>14, MatterMoves

\* Nobody counts for a channel that has no entry, and nobody has heard of its goroutine.
LEMMA OpensSeats ==
    ASSUME PatientInv, NEW i \in Goroutines, NEW h \in ToMaster, NEW s, Opens(i, h, s),
           Says(i, "Join", h.from, s)
    PROVE  SeatsAreTaken' /\ RepliesReach'
<1>1. PICK b \in Channels : b = h.chan
  BY OpensFacts
<1>2. /\ running[b] = NoGoroutine /\ running'[b] = i /\ i # NoGoroutine
      /\ \A c \in Channels : running[c] # i
      /\ \A c \in Channels : c # b => running'[c] = running[c]
      /\ memberList[i] = {} /\ ToSet(inbox[i]) = {} /\ ToSet(masterTodo) = {}
      /\ UNCHANGED <<masterTodo, inbox, memberList, status, chatID, chatIn>>
  BY <1>1, OpensFacts
<1>3. /\ h.op = "Join" /\ todo'[i] = s /\ \A j \in Goroutines \ {i} : todo'[j] = todo[j]
      /\ ToSet(masterQ) = {h} \cup ToSet(masterQ')
  BY DEF Opens
<1>4. /\ DenialsAreTold(s) /\ \A m \in ToSet(s) : m.leaving = Nobody
      /\ \A m \in ToSet(s) : m.op \in {"Text", "TextExit"} =>
            \/ m.to \in memberList[i]
            \/ \E n \in ToSet(s) : n.op = "Joined" /\ n.to = m.to
  BY DEF Says
<1>5. \A c, d : (ExitAsked(c, d)' <=> ExitAsked(c, d)) /\ (Counts(c, d)' <=> Counts(c, d))
                /\ (AsksWho(d, c)' <=> AsksWho(d, c))
  BY <1>2, <1>3 DEF ExitAsked, Counts, Holders, AsksWho
<1>6. ASSUME NEW d \in Doppelgangers
      PROVE  ~Counts(b, d)
  <2>1. d \notin Holders(b)
    BY <1>2, PatientParts DEF Holders, RelyInv, HoldersKeepTheirChannel
  <2>2. ~ExitAsked(b, d)
    BY <1>2, PatientParts DEF ExitAsked, RelyInv, HoldersKeepTheirChannel
  <2> QED
    BY <2>1, <2>2 DEF Counts
<1>7. \A j \in Goroutines, d \in Doppelgangers :
        /\ d \in Hearing(j)' <=> d \in Hearing(j)
        /\ PostedFor("Exit", j, d)' <=> PostedFor("Exit", j, d)
        /\ j # i => (TakenOff(j, d)' <=> TakenOff(j, d))
  BY <1>2, <1>3 DEF Hearing, PostedFor, TakenOff
<1>8. ASSUME NEW j \in Goroutines, j # i, NEW d \in Doppelgangers
      PROVE  Belongs(j, d)' <=> Belongs(j, d)
  <2>1. NoGoroutine \notin Goroutines
    BY PatientParts, TypeInvFacts
  <2>2. \A c \in Channels : running'[c] = j <=> running[c] = j
    BY <1>2, <1>8, <2>1
  <2> QED
    BY <1>5, <1>7, <2>2 DEF Belongs
<1>9. ASSUME NEW d \in Doppelgangers
      PROVE  ~Belongs(i, d)' /\ ~TakenOff(i, d)'
  <2>1. ~TakenOff(i, d)'
    BY <1>3, <1>4, IdsAssumption DEF TakenOff, IdsAssumption
  <2>2. d \notin Hearing(i)
    BY <1>2, PatientParts DEF Hearing, RelyInv, VerdictsStand, InCharge
  <2>3. ~PostedFor("Exit", i, d)
    BY <1>2 DEF PostedFor
  <2>4. \A c \in Channels : running'[c] = i => c = b
    BY <1>2
  <2> QED
    BY <1>5, <1>6, <1>7, <2>1, <2>2, <2>3, <2>4 DEF Belongs
<1>10. ASSUME NEW j \in Goroutines, NEW d \in Doppelgangers
       PROVE  /\ d \in memberList'[j] /\ ~TakenOff(j, d)' <=> Belongs(j, d)'
              /\ TakenOff(j, d)' => d \in memberList'[j]
  <2>1. CASE j = i
    BY <1>2, <1>9, <2>1
  <2>2. CASE j # i
    BY <1>2, <1>7, <1>8, <2>2, PatientParts DEF SeatsAreTaken
  <2> QED
    BY <2>1, <2>2
<1>11. ASSUME NEW j \in Goroutines, NEW m \in ToSet(inbox'[j]), m.op = "Who"
       PROVE  \E c \in Channels : running'[c] = j /\ Counts(c, m.who)'
  <2>1. PICK c \in Channels : running[c] = j /\ Counts(c, m.who)
    BY <1>2, <1>11, PatientParts DEF RepliesReach
  <2>2. c # b
    <3>1. NoGoroutine \notin Goroutines
      BY PatientParts, TypeInvFacts
    <3> QED
      BY <1>2, <2>1, <3>1
  <2> QED
    BY <1>2, <1>5, <2>1, <2>2
<1>12. \A j \in Goroutines :
        /\ \A m \in ToSet(todo'[j]) : m.op \in {"Text", "TextExit"} =>
            \/ m.to \in memberList'[j]
            \/ \E n \in ToSet(todo'[j]) : n.op = "Joined" /\ n.to = m.to
        /\ DenialsAreTold(todo'[j])
  BY <1>2, <1>3, <1>4, PatientParts DEF RepliesReach
<1>13. /\ \A m \in ToSet(masterQ') :
            /\ m.op # "Join" => m.chan \in Channels
            /\ m.op = "Who" => AsksWho(m.from, m.chan)'
       /\ \A m \in ToSet(masterTodo') : m.op = "Who" => AsksWho(m.who, m.chan)'
  BY <1>2, <1>3, <1>5, PatientParts DEF RepliesReach
<1> QED
  BY <1>10, <1>11, <1>12, <1>13 DEF SeatsAreTaken, RepliesReach

LEMMA OpensCounts ==
    ASSUME PatientInv, AccountsInv', NEW i \in Goroutines, NEW h \in ToMaster, NEW s,
           Opens(i, h, s), Says(i, "Join", h.from, s)
    PROVE  CountMatchesRoster' /\ EntriesCount'
<1>1. PICK b \in Channels : b = h.chan
  BY OpensFacts
<1>2. /\ running[b] = NoGoroutine /\ running'[b] = i /\ i # NoGoroutine
      /\ \A c \in Channels : running[c] # i
      /\ \A c \in Channels : c # b => running'[c] = running[c]
      /\ memberCount'[b] = 1
      /\ \A c \in Channels : c # b => memberCount'[c] = memberCount[c]
      /\ memberList[i] = {} /\ inbox[i] = <<>> /\ masterTodo = <<>>
      /\ UNCHANGED <<denialQ, masterTodo, inbox, memberList>>
  BY <1>1, OpensFacts
<1>3. todo'[i] = s /\ \A j \in Goroutines \ {i} : todo'[j] = todo[j]
  BY DEF Opens
<1>4. TypeInv /\ running \in [Channels -> Goroutines \cup {NoGoroutine}]
      /\ denialQ \in Seq(Denials) /\ CountMatchesRoster
  BY PatientParts, MailTypes, TypeInvFacts
<1>5. memberCount'[b] = Accounted(b)'
  <2>1. /\ HowMany(masterTodo', SendsTo(b, "Join")) = 0
        /\ HowMany(inbox'[i], Posts("Join")) = 0
        /\ HowMany(inbox'[i], Posts("Exit")) = 0
        /\ HowMany(todo'[i], Verdicts) = 1
    BY <1>2, <1>3, HowManyOfEmpty DEF Says
  <2>2. HowMany(denialQ', DenialsBy(b)) = 0
    <3>1. \A m \in ToSet(denialQ) : running[m.chan] # NoGoroutine
      BY PatientParts DEF RelyInv, VerdictsStand
    <3>2. \A m \in ToSet(denialQ) : m \notin DenialsBy(b)
      BY <1>2, <3>1 DEF DenialsBy
    <3> QED
      BY <1>2, <1>4, <3>2, HowManyType
  <2>3. HowMany(todo'[i], Farewells) = 0
    <3>1. s \in Seq(ChatSends) /\ \A m \in ToSet(s) : m \notin Farewells
      BY DEF Says, Farewells
    <3> QED
      BY <1>3, <3>1, HowManyType
  <2>4. JoinsUnderWay(b)' = 1 /\ ExitsUnderWay(b)' = 0
    BY <1>2, <2>1, <2>2, <2>3 DEF JoinsUnderWay, ExitsUnderWay
  <2>5. Cardinality(memberList'[i]) = 0
    BY <1>2, FS_EmptySet
  <2> QED
    BY <1>2, <2>4, <2>5 DEF Accounted
<1>6. ASSUME NEW c \in Channels, c # b
      PROVE  memberCount'[c] = Accounted(c)'
  <2>1. CASE running[c] = NoGoroutine
    BY <1>2, <1>4, <1>6, <2>1 DEF CountMatchesRoster, Accounted
  <2>2. CASE running[c] # NoGoroutine
    <3>1. todo'[running[c]] = todo[running[c]]
      BY <1>2, <1>3, <1>4, <2>2
    <3> QED
      BY <1>2, <1>4, <1>6, <3>1 DEF CountMatchesRoster, Accounted, JoinsUnderWay, ExitsUnderWay
  <2> QED
    BY <2>1, <2>2
<1>7. EntriesCount'
  <2>1. \A c \in Channels : running'[c] # NoGoroutine => memberCount'[c] > 0
    BY <1>2, PatientParts, ToSetOfEmpty DEF EntriesCount
  <2> QED
    BY <2>1 DEF EntriesCount
<1> QED
  BY <1>5, <1>6, <1>7 DEF CountMatchesRoster

LEMMA LaunchKeepsPatience ==
    ASSUME PatientInv, AccountsInv', NEW i \in Goroutines, Launch(i)
    PROVE  PatientRest'
<1>0. PICK h \in ToMaster : \E s : Opens(i, h, s) /\ Says(i, "Join", h.from, s)
  BY LaunchOpens
<1>1. PICK s : Opens(i, h, s) /\ Says(i, "Join", h.from, s)
  BY <1>0
<1>2. /\ OneMatter' /\ NothingBehind'
      /\ \A d \in Doppelgangers, o \in Kinds : UnderWay(o, d)' => UnderWay(o, d)
  BY <1>1, OpensMatters
<1>3. UNCHANGED <<masterUp, crash, status, chatID, cantExit, gone, view, line>>
  BY <1>1, OpensFacts DEF Opens
<1>4. SessionsKnow'
  BY <1>2, <1>3, PatientParts, SessionsStay
<1>5. masterUp' /\ NoCrash'
  BY <1>3, PatientParts DEF NoCrash
<1> QED
  BY <1>1, <1>2, <1>4, <1>5, OpensSeats, OpensCounts DEF PatientRest

-----------------------------------------------------------------------------
\* The chat channel i tells the master of a refused join.

LEMMA TellFacts ==
    ASSUME PatientInv, NEW i \in Goroutines, ChatTellsMaster(i)
    PROVE  \E m \in ChatSends, b \in Channels, msg \in Denials :
             /\ m.op = "Denial" /\ m.leaving = Nobody
             /\ ToSet(todo[i]) = {m} \cup ToSet(todo'[i])
             /\ todo[i] \in Seq(ChatSends) /\ todo[i] # <<>>
             /\ m = Head(todo[i]) /\ todo'[i] = Tail(todo[i])
             /\ \A j \in Goroutines \ {i} : todo'[j] = todo[j]
             /\ OneEnding(todo'[i]) /\ DenialsAreTold(todo'[i])
             /\ \A c \in Channels : running[c] = i <=> c = b
             /\ denialQ' = Append(denialQ, msg)
             /\ \A c \in Channels : msg \in DenialsBy(c) <=> c = b
             /\ UNCHANGED <<masterQ, memberCount, running, masterTodo, masterReplies, masterUp,
                            inbox, memberList, status, chatID, callback, gone, cantExit,
                            replyIn, chatIn, view, line, crash>>
<1>1. PICK m : m = Head(todo[i])
  OBVIOUS
<1>2. PICK b : b = chanOf[i]
  OBVIOUS
<1>3. PICK msg : msg = [from |-> m.to, chan |-> b]
  OBVIOUS
<1>4. /\ todo[i] # <<>> /\ m.op = "Denial" /\ denialQ' = Append(denialQ, msg)
      /\ todo' = [todo EXCEPT ![i] = Tail(@)]
      /\ UNCHANGED <<masterQ, memberCount, running, masterTodo, masterReplies, masterUp,
                     inbox, memberList, doppVars, view, line, crash>>
  BY <1>1, <1>2, <1>3 DEF ChatTellsMaster, telnetVars
<1>5. /\ todo \in [Goroutines -> Seq(ChatSends)] /\ todo[i] \in Seq(ChatSends)
      /\ OneEnding(todo[i]) /\ DenialsAreTold(todo[i])
  BY PatientParts, MailTypes DEF NothingBehind, RepliesReach
<1>6. /\ todo'[i] = Tail(todo[i]) /\ \A j \in Goroutines \ {i} : todo'[j] = todo[j]
  BY <1>4, <1>5
<1>7. /\ m \in ChatSends /\ m \in ToSet(todo[i])
      /\ ToSet(todo[i]) = {m} \cup ToSet(todo'[i])
      /\ OneEnding(todo'[i]) /\ DenialsAreTold(todo'[i])
  BY <1>1, <1>4, <1>5, <1>6, SendsTail
<1>8. m.leaving = Nobody
  BY <1>4, <1>7, PatientParts DEF RosterInv, OneLeaverAtATime
<1>9. b \in Channels /\ \A c \in Channels : running[c] = i <=> c = b
  <2>1. InCharge(i)
    BY <1>4, <1>7, PatientParts DEF RelyInv, VerdictsStand
  <2>2. \A c \in Channels : running[c] = i => c = b
    BY <1>2, PatientParts, TypeInvFacts DEF EntryInv, EntryIsLive
  <2> QED
    BY <2>1, <2>2 DEF InCharge
<1>10. msg \in Denials /\ \A c \in Channels : msg \in DenialsBy(c) <=> c = b
  BY <1>3, <1>7, <1>9 DEF ChatSends, Denials, DenialsBy
<1> QED
  BY <1>1, <1>4, <1>5, <1>6, <1>7, <1>8, <1>9, <1>10 DEF doppVars

LEMMA TellKeepsPatience ==
    ASSUME PatientInv, AccountsInv', NEW i \in Goroutines, ChatTellsMaster(i)
    PROVE  PatientRest'
<1>1. PICK m \in ChatSends, b \in Channels, msg \in Denials :
        /\ m.op = "Denial" /\ m.leaving = Nobody
        /\ ToSet(todo[i]) = {m} \cup ToSet(todo'[i])
        /\ todo[i] \in Seq(ChatSends) /\ todo[i] # <<>>
        /\ m = Head(todo[i]) /\ todo'[i] = Tail(todo[i])
        /\ \A j \in Goroutines \ {i} : todo'[j] = todo[j]
        /\ OneEnding(todo'[i]) /\ DenialsAreTold(todo'[i])
        /\ \A c \in Channels : running[c] = i <=> c = b
        /\ denialQ' = Append(denialQ, msg)
        /\ \A c \in Channels : msg \in DenialsBy(c) <=> c = b
        /\ UNCHANGED <<masterQ, memberCount, running, masterTodo, masterReplies, masterUp,
                       inbox, memberList, status, chatID, callback, gone, cantExit,
                       replyIn, chatIn, view, line, crash>>
  BY TellFacts
<1>2. \A e \in Doppelgangers, o \in Kinds :
        /\ QueuedFor(o, e)' => QueuedFor(o, e)
        /\ HeldFor(o, e)' => HeldFor(o, e)
        /\ RepliedTo(o, e)' => RepliedTo(o, e)
        /\ MailedTo(o, e)' => MailedTo(o, e)
        /\ \A j \in Goroutines : PostedFor(o, j, e)' => PostedFor(o, j, e)
        /\ \A j \in Goroutines : HandledFor(o, j, e)' => HandledFor(o, j, e)
  BY <1>1 DEF QueuedFor, HeldFor, RepliedTo, MailedTo, PostedFor, HandledFor
<1>3. \A e \in Doppelgangers : NoNewMatter(e)
  BY <1>2, PlacesShrink
<1>4. /\ OneMatter'
      /\ \A d \in Doppelgangers, o \in Kinds : UnderWay(o, d)' => UnderWay(o, d)
  BY <1>3, MattersStay, PatientParts
<1>5. NothingBehind'
  <2>1. \A j \in Goroutines : OneEnding(todo'[j])
    BY <1>1, PatientParts DEF NothingBehind
  <2> QED
    BY <1>1, <2>1, PatientParts DEF NothingBehind
<1>6. SessionsKnow'
  BY <1>1, <1>4, PatientParts, SessionsStay
<1>7. \A c, d : (ExitAsked(c, d)' <=> ExitAsked(c, d)) /\ (Counts(c, d)' <=> Counts(c, d))
                /\ (AsksWho(d, c)' <=> AsksWho(d, c))
  BY <1>1 DEF ExitAsked, Counts, Holders, AsksWho
<1>8. SeatsAreTaken'
  <2>1. \A j \in Goroutines, d \in Doppelgangers : Belongs(j, d)' <=> Belongs(j, d)
    BY <1>1, <1>7 DEF Belongs, Hearing, PostedFor
  <2>2. \A j \in Goroutines, d \in Doppelgangers : TakenOff(j, d)' <=> TakenOff(j, d)
    BY <1>1, IdsAssumption DEF TakenOff, IdsAssumption
  <2> QED
    BY <1>1, <2>1, <2>2, PatientParts DEF SeatsAreTaken
<1>9. RepliesReach'
  <2>1. \A j \in Goroutines :
            /\ \A n \in ToSet(todo'[j]) : n.op \in {"Text", "TextExit"} =>
                \/ n.to \in memberList'[j]
                \/ \E k \in ToSet(todo'[j]) : k.op = "Joined" /\ k.to = n.to
            /\ DenialsAreTold(todo'[j])
    BY <1>1, PatientParts DEF RepliesReach
  <2>2. \A j \in Goroutines : \A n \in ToSet(inbox'[j]) : n.op = "Who" =>
            \E c \in Channels : running'[c] = j /\ Counts(c, n.who)'
    BY <1>1, <1>7, PatientParts DEF RepliesReach
  <2> QED
    BY <1>1, <1>7, <2>1, <2>2, PatientParts DEF RepliesReach
<1>10. TypeInv /\ TypeInv' /\ CountMatchesRoster /\ denialQ \in Seq(Denials)
       /\ running \in [Channels -> Goroutines \cup {NoGoroutine}]
  BY PatientParts, Steps, MailTypes, TypeInvFacts
<1>11. /\ HowMany(todo[i], Verdicts) = HowMany(todo'[i], Verdicts) + 1
       /\ HowMany(todo[i], Farewells) = HowMany(todo'[i], Farewells)
  <2>1. m \in Verdicts /\ m \notin Farewells
    BY <1>1 DEF ChatSends, Verdicts, Farewells
  <2>2. todo'[i] \in Seq(ChatSends)
    BY <1>10, MailTypes, TypeInvFacts, <1>1
  <2>3. HowMany(todo'[i], Farewells) \in Nat
    BY <2>2, HowManyType
  <2>4. /\ HowMany(todo[i], Verdicts) = HowMany(todo'[i], Verdicts) + 1
        /\ HowMany(todo[i], Farewells) = HowMany(todo'[i], Farewells) + 0
    BY <1>1, <2>1, HowManyOfTail
  <2> QED
    BY <2>3, <2>4
<1>12. ASSUME NEW c \in Channels, running[c] # NoGoroutine
       PROVE  memberCount'[c] = Accounted(c)'
  <2> DEFINE k == running[c]
             x == IF c = b THEN 1 ELSE 0
             y == 0 - x
  <2>1. /\ k \in Goroutines /\ memberCount[c] \in Int
        /\ HowMany(masterTodo, SendsTo(c, "Join")) \in Nat
        /\ HowMany(inbox[k], Posts("Join")) \in Nat /\ HowMany(todo[k], Verdicts) \in Nat
        /\ HowMany(denialQ, DenialsBy(c)) \in Nat
        /\ Cardinality(memberList[k]) \in Nat /\ JoinsUnderWay(c) \in Nat
        /\ ExitsUnderWay(c) \in Nat
    BY <1>10, <1>12, DueTypes, AccountTypes DEF DueTyped, AccountTyped
  <2>2. HowMany(denialQ', DenialsBy(c)) = HowMany(denialQ, DenialsBy(c)) + x
    BY <1>1, <1>10, HowManyOfAppend
  <2>3. /\ HowMany(todo'[k], Verdicts) = HowMany(todo[k], Verdicts) + y
        /\ HowMany(todo'[k], Farewells) = HowMany(todo[k], Farewells)
    <3>1. CASE c = b
      <4>1. k = i /\ running'[c] = i
        BY <1>1, <3>1
      <4>2. HowMany(todo'[i], Verdicts) \in Nat
        BY <1>10, <1>12, <4>1, DueTypes DEF DueTyped
      <4>3. HowMany(todo'[i], Verdicts) = HowMany(todo[i], Verdicts) + y
        BY <1>11, <3>1, <4>2
      <4> QED
        BY <1>11, <4>1, <4>3
    <3>2. CASE c # b
      <4>1. todo'[k] = todo[k]
        BY <1>1, <2>1, <3>2
      <4> QED
        BY <2>1, <3>2, <4>1
    <3> QED
      BY <3>1, <3>2
  <2>4. x \in Int /\ y \in Int /\ 0 \in Int /\ ((0 + 0) + y) + x = 0
    OBVIOUS
  <2> HIDE DEF x, y
  <2>5. JoinsUnderWay(c)' = JoinsUnderWay(c) + 0
    <3>1. /\ HowMany(masterTodo', SendsTo(c, "Join"))
               = HowMany(masterTodo, SendsTo(c, "Join")) + 0
          /\ HowMany(inbox'[running[c]], Posts("Join"))
               = HowMany(inbox[running[c]], Posts("Join")) + 0
          /\ HowMany(todo'[running[c]], Verdicts) = HowMany(todo[running[c]], Verdicts) + y
          /\ HowMany(denialQ', DenialsBy(c)) = HowMany(denialQ, DenialsBy(c)) + x
      BY <1>1, <2>1, <2>2, <2>3
    <3>2. /\ TypeInv /\ TypeInv' /\ running'[c] = running[c] /\ running[c] # NoGoroutine
          /\ x \in Int /\ y \in Int /\ 0 \in Int
      BY <1>1, <1>10, <1>12, <2>4
    <3>3. JoinsUnderWay(c)' = JoinsUnderWay(c) + (((0 + 0) + y) + x)
      BY <3>1, <3>2, JoinsChange
    <3> QED
      BY <2>4, <3>3
  <2>6. /\ ExitsUnderWay(c)' = ExitsUnderWay(c) + 0
        /\ Cardinality(memberList'[running[c]]) = Cardinality(memberList[running[c]]) + 0
        /\ memberCount'[c] = memberCount[c] + 0
    <3>1. ExitsUnderWay(c)' = ExitsUnderWay(c)
      BY <1>1, <2>3 DEF ExitsUnderWay
    <3> QED
      BY <1>1, <2>1, <3>1
  <2>7. Changes(c, 0, 0, 0, 0)
    BY <2>5, <2>6 DEF Changes
  <2> QED
    BY <1>1, <1>10, <1>12, <2>7, CountKept
<1>13. ASSUME NEW c \in Channels, running[c] = NoGoroutine
       PROVE  memberCount'[c] = Accounted(c)'
  BY <1>1, <1>10, <1>13 DEF CountMatchesRoster, Accounted
<1>14. CountMatchesRoster' /\ EntriesCount'
  BY <1>1, <1>12, <1>13, PatientParts DEF CountMatchesRoster, EntriesCount
<1>15. masterUp' /\ NoCrash'
  BY <1>1, PatientParts DEF NoCrash
<1> QED
  BY <1>4, <1>5, <1>6, <1>8, <1>9, <1>14, <1>15 DEF PatientRest

-----------------------------------------------------------------------------
(***************************************************************************)
(* The chat channel i sends m to a doppelganger, which has not returned:   *)
(* the message ends a matter of its own, or it belongs to the channel.     *)
(***************************************************************************)
LEMMA BelongsHere ==
    ASSUME PatientInv, NEW i \in Goroutines, NEW d \in Doppelgangers, Belongs(i, d)
    PROVE  status[d] # "returned"
<1>1. CASE d \in Hearing(i)
  <2>1. MailedTo("Join", d)
    BY <1>1 DEF Hearing, MailedTo, Ends
  <2>2. MatterAt("Join", d, "mail", NoGoroutine)
    BY <2>1 DEF MatterAt
  <2> QED
    BY <2>2, NoClaims DEF Kinds, Places, Whereabouts
<1>2. CASE PostedFor("Exit", i, d)
  <2>1. MatterAt("Exit", d, "inbox", i)
    BY <1>2 DEF MatterAt
  <2> QED
    BY <2>1, NoClaims DEF Kinds, Places, Whereabouts
<1>3. CASE \E c \in Channels : Counts(c, d)
  <2>1. PICK c \in Channels : Counts(c, d)
    BY <1>3
  <2>2. CASE d \in Holders(c)
    BY <2>2 DEF Holders
  <2>3. CASE ExitAsked(c, d)
    <3>1. QueuedFor("Exit", d) \/ HeldFor("Exit", d)
      BY <2>3 DEF ExitAsked, QueuedFor, HeldFor
    <3>2. MatterAt("Exit", d, "queue", NoGoroutine) \/ MatterAt("Exit", d, "master", NoGoroutine)
      BY <3>1 DEF MatterAt
    <3>3. /\ "Exit" \in Kinds /\ "queue" \in Places /\ "master" \in Places
          /\ NoGoroutine \in Whereabouts
      BY DEF Kinds, Places, Whereabouts
    <3> QED
      BY <3>2, <3>3, NoClaims
  <2> QED
    BY <2>1, <2>2, <2>3 DEF Counts
<1> QED
  BY <1>1, <1>2, <1>3 DEF Belongs

LEMMA Addressed ==
    ASSUME PatientInv, NEW i \in Goroutines, NEW m \in ToSet(todo[i]), m.op # "Denial"
    PROVE  status[m.to] # "returned"
<1>1. PICK d \in Doppelgangers : d = m.to
  <2>1. m \in ChatSends
    BY PatientParts, MailTypes, ToSetType
  <2> QED
    BY <2>1 DEF ChatSends
<1>2. m \in ChatSends
  BY PatientParts, MailTypes, ToSetType
<1>3. ASSUME NEW o \in Kinds, HandledFor(o, i, d)
      PROVE  status[d] # "returned"
  <2>1. MatterAt(o, d, "handler", i)
    BY <1>3 DEF MatterAt
  <2> QED
    BY <2>1, NoClaims DEF Places, Whereabouts
<1>4. CASE m.op \in {"Joined", "JoinDenied"}
  <2>1. HandledFor("Join", i, d)
    BY <1>1, <1>4 DEF HandledFor, Ends
  <2> QED
    BY <1>1, <1>3, <2>1 DEF Kinds
<1>5. CASE m.op \in {"Text", "TextExit"}
  <2>1. CASE \E n \in ToSet(todo[i]) : n.op = "Joined" /\ n.to = d
    <3>1. HandledFor("Join", i, d)
      BY <2>1 DEF HandledFor, Ends
    <3> QED
      BY <1>1, <1>3, <3>1 DEF Kinds
  <2>2. CASE TakenOff(i, d)
    <3>1. m.leaving = d
      BY <2>2, PatientParts DEF TakenOff, RosterInv, OneLeaverAtATime
    <3>2. HandledFor("Exit", i, d)
      BY <1>1, <3>1 DEF HandledFor, Ends
    <3> QED
      BY <1>1, <1>3, <3>2 DEF Kinds
  <2>3. CASE d \in memberList[i] /\ ~TakenOff(i, d)
    <3>1. Belongs(i, d)
      BY <2>3, PatientParts DEF SeatsAreTaken
    <3> QED
      BY <1>1, <3>1, BelongsHere
  <2> QED
    BY <1>1, <1>5, <2>1, <2>2, <2>3, PatientParts DEF RepliesReach
<1> QED
  BY <1>2, <1>4, <1>5 DEF ChatSends

LEMMA ChatDelivers ==
    ASSUME PatientInv, NEW i \in Goroutines, ChatTellsDoppelganger(i)
    PROVE  \E m : /\ Delivers(i, m)
                  /\ UNCHANGED <<masterReplies, masterUp, replyIn, gone, cantExit,
                                 view, line, crash>>
<1>1. PICK m : m = Head(todo[i])
  OBVIOUS
<1>2. m \in ToSet(todo[i]) /\ m.op # "Denial"
  BY <1>1, PatientParts, MailTypes, ToSetType DEF ChatTellsDoppelganger
<1>3. status[m.to] # "returned"
  BY <1>2, Addressed
<1> QED
  BY <1>1, <1>3 DEF ChatTellsDoppelganger, Delivers, masterVars, telnetVars

LEMMA DeliversFacts ==
    ASSUME PatientInv, NEW i \in Goroutines, NEW m, Delivers(i, m)
    PROVE  /\ m \in ToSet(todo[i]) /\ m.to \in Doppelgangers /\ m \in ChatSends
           /\ ToSet(todo[i]) = {m} \cup ToSet(todo'[i])
           /\ OneEnding(todo'[i]) /\ DenialsAreTold(todo'[i])
           /\ \A o \in Kinds : Ends(o, m.to, m) =>
                \A n \in ToSet(todo'[i]) : n.to = m.to => ~Ends(o, n.to, n)
           /\ \A j \in Goroutines \ {i} : todo'[j] = todo[j] /\ memberList'[j] = memberList[j]
           /\ ToSet(chatIn[m.to]) = {} /\ ToSet(chatIn'[m.to]) = {Heard(i, m)}
           /\ Heard(i, m).op = m.op /\ Heard(i, m).by = i /\ Heard(i, m).leaving = m.leaving
           /\ \A d \in Doppelgangers \ {m.to} : chatIn'[d] = chatIn[d]
           /\ UNCHANGED <<masterQ, denialQ, masterTodo, running, memberCount, inbox, status,
                          chatID, callback>>
<1>1. /\ m \in ToSet(todo[i]) /\ m.to \in Doppelgangers /\ m \in ChatSends
      /\ ToSet(todo[i]) = {m} \cup ToSet(todo'[i])
      /\ \A j \in Goroutines \ {i} : todo'[j] = todo[j] /\ memberList'[j] = memberList[j]
      /\ chatIn[m.to] = <<>> /\ chatIn'[m.to] = <<Heard(i, m)>>
      /\ Heard(i, m).op = m.op /\ Heard(i, m).by = i
      /\ \A d \in Doppelgangers \ {m.to} : chatIn'[d] = chatIn[d]
      /\ todo[i] \in Seq(ChatSends) /\ todo'[i] = Tail(todo[i])
      /\ todo[i] # <<>> /\ m = Head(todo[i])
      /\ UNCHANGED <<masterQ, denialQ, masterTodo, running, memberCount, inbox, status,
                     chatID, callback>>
  BY PatientParts, DeliversParts
<1>2. OneEnding(todo[i]) /\ DenialsAreTold(todo[i])
  BY PatientParts DEF NothingBehind, RepliesReach
<1>3. /\ OneEnding(todo'[i]) /\ DenialsAreTold(todo'[i])
      /\ \A o \in Kinds : Ends(o, m.to, m) =>
           \A n \in ToSet(todo'[i]) : n.to = m.to => ~Ends(o, n.to, n)
  BY <1>1, <1>2, SendsTail
<1>4. Heard(i, m).leaving = m.leaving
  BY DEF Heard
<1>5. ToSet(chatIn[m.to]) = {} /\ ToSet(chatIn'[m.to]) = {Heard(i, m)}
  BY <1>1, ToSetOfEmpty, ToSetOfOne
<1> QED
  BY <1>1, <1>3, <1>4, <1>5

LEMMA DeliversMatters ==
    ASSUME PatientInv, NEW i \in Goroutines, NEW m, Delivers(i, m),
           UNCHANGED <<masterReplies, replyIn>>
    PROVE  /\ OneMatter' /\ NothingBehind'
           /\ \A d \in Doppelgangers, o \in Kinds : UnderWay(o, d)' => UnderWay(o, d)
<1>1. PICK d \in Doppelgangers : d = m.to
  BY DeliversFacts
<1>2. /\ m \in ToSet(todo[i]) /\ ToSet(todo[i]) = {m} \cup ToSet(todo'[i])
      /\ \A o \in Kinds : Ends(o, d, m) =>
           \A n \in ToSet(todo'[i]) : n.to = d => ~Ends(o, d, n)
      /\ \A j \in Goroutines \ {i} : todo'[j] = todo[j]
      /\ ToSet(chatIn'[d]) = {Heard(i, m)}
      /\ Heard(i, m).op = m.op /\ Heard(i, m).leaving = m.leaving
      /\ \A e \in Doppelgangers \ {d} : chatIn'[e] = chatIn[e]
      /\ UNCHANGED <<masterQ, masterTodo, inbox>>
  BY <1>1, DeliversFacts
<1>3. \A e \in Doppelgangers, o \in Kinds :
        /\ QueuedFor(o, e)' => QueuedFor(o, e)
        /\ HeldFor(o, e)' => HeldFor(o, e)
        /\ RepliedTo(o, e)' => RepliedTo(o, e)
        /\ e # d => (MailedTo(o, e)' => MailedTo(o, e))
        /\ \A j \in Goroutines : PostedFor(o, j, e)' => PostedFor(o, j, e)
        /\ \A j \in Goroutines : HandledFor(o, j, e)' => HandledFor(o, j, e)
  BY <1>2 DEF QueuedFor, HeldFor, RepliedTo, MailedTo, PostedFor, HandledFor
<1>4. \A o \in Kinds : MailedTo(o, d)' => Ends(o, d, m)
  BY <1>2 DEF MailedTo, Ends
<1>5. \A o \in Kinds : Ends(o, d, m) => HandledFor(o, i, d) /\ ~HandledFor(o, i, d)'
  BY <1>1, <1>2 DEF HandledFor
<1>6. OneMatter
  BY PatientParts
<1>7. NothingBehind'
  <2>1. \A j \in Goroutines : OneEnding(todo'[j])
    BY <1>2, DeliversFacts, PatientParts DEF NothingBehind
  <2> QED
    BY <1>2, <2>1, PatientParts DEF NothingBehind
<1>8. \A e \in Doppelgangers \ {d} : NoNewMatter(e)
  BY <1>3, PlacesShrink
<1>9. CASE \A o \in Kinds : ~Ends(o, d, m)
  <2>1. NoNewMatter(d)
    BY <1>3, <1>4, <1>9, PlacesShrink
  <2> QED
    BY <1>6, <1>7, <1>8, <2>1, MattersStay
<1>10. ASSUME NEW o \in Kinds, Ends(o, d, m)
       PROVE  /\ OneMatter'
              /\ \A e \in Doppelgangers, o2 \in Kinds : UnderWay(o2, e)' => UnderWay(o2, e)
  <2>1. MatterAt(o, d, "handler", i)
    BY <1>5, <1>10 DEF MatterAt
  <2>2. "handler" \in Places /\ i \in Whereabouts
    BY DEF Places, Whereabouts
  <2>3. \A o2 \in Kinds, j \in Goroutines : HandledFor(o2, j, d) => o2 = o /\ j = i
    <3>1. \A o2 \in Kinds, j \in Goroutines :
            HandledFor(o2, j, d) => MatterAt(o2, d, "handler", j) /\ j \in Whereabouts
      BY DEF MatterAt, Whereabouts
    <3> QED
      BY <1>6, <2>1, <2>2, <3>1 DEF OneMatter
  <2>4. ASSUME NEW o2 \in Kinds, NEW p2 \in Places, NEW i2 \in Whereabouts,
               MatterAt(o2, d, p2, i2)'
        PROVE  \/ MatterAt(o2, d, p2, i2) /\ ~(p2 = "handler" /\ i2 = i)
               \/ o2 = o /\ p2 = "mail" /\ i2 = NoGoroutine
    <3>1. /\ QueuedFor(o2, d)' => QueuedFor(o2, d)
          /\ HeldFor(o2, d)' => HeldFor(o2, d)
          /\ RepliedTo(o2, d)' => RepliedTo(o2, d)
          /\ MailedTo(o2, d)' => o2 = o
          /\ \A j \in Goroutines : PostedFor(o2, j, d)' => PostedFor(o2, j, d)
          /\ \A j \in Goroutines : ~HandledFor(o2, j, d)'
      BY <1>3, <1>4, <1>5, <1>10, <2>3
    <3> QED
      BY <2>4, <3>1 DEF MatterAt
  <2>5. OnlyMatter(o, d, "mail", NoGoroutine)
    BY <1>6, <2>1, <2>2, <2>4, MatterGoes
  <2>6. UnderWay(o, d)
    BY <2>1, <2>2 DEF UnderWay
  <2> QED
    BY <1>6, <1>8, <2>5, <2>6, MatterMoves
<1> QED
  BY <1>7, <1>9, <1>10

\* Who is being taken off, before and after; and the roster after the send.
LEMMA DeliversLeaver ==
    ASSUME PatientInv, NEW i \in Goroutines, NEW m, Delivers(i, m)
    PROVE  /\ \A e \in Doppelgangers : TakenOff(i, e) <=> e = m.leaving
           /\ \A e \in Doppelgangers : TakenOff(i, e)' <=> e = m.leaving /\ ToSet(todo'[i]) # {}
           /\ m.op = "TextExit" <=> m.leaving \in Doppelgangers
           /\ m.op = "Joined" => memberList'[i] = memberList[i] \cup {m.to}
           /\ m.op = "TextExit" /\ ToSet(todo'[i]) = {} =>
                memberList'[i] = memberList[i] \ {m.leaving}
           /\ m.op # "Joined" /\ (m.op = "TextExit" => ToSet(todo'[i]) # {}) =>
                memberList'[i] = memberList[i]
<1>1. /\ m \in ToSet(todo[i]) /\ m \in ChatSends /\ ToSet(todo[i]) = {m} \cup ToSet(todo'[i])
      /\ todo[i] \in Seq(ChatSends) /\ todo[i] # <<>> /\ todo'[i] = Tail(todo[i])
  BY PatientParts, DeliversParts
<1>2. /\ m.op = "TextExit" <=> m.leaving # Nobody
      /\ \A n \in ToSet(todo[i]) : n.leaving = m.leaving
  BY <1>1, PatientParts DEF RosterInv, OneLeaverAtATime
<1>3. /\ \A e \in Doppelgangers : TakenOff(i, e) <=> e = m.leaving
      /\ \A e \in Doppelgangers : TakenOff(i, e)' <=> e = m.leaving /\ ToSet(todo'[i]) # {}
  BY <1>1, <1>2 DEF TakenOff
<1>4. m.op = "TextExit" <=> m.leaving \in Doppelgangers
  BY <1>1, <1>2, IdsAssumption DEF ChatSends, IdsAssumption
<1>5. ToSet(todo'[i]) = {} <=> Len(todo[i]) = 1
  <2> DEFINE t == Tail(todo[i])
  <2>1. Len(todo[i]) \in Nat \ {0} /\ DOMAIN t = 1 .. Len(todo[i]) - 1
    BY <1>1, TailParts
  <2>2. ToSet(t) = {} <=> DOMAIN t = {}
    BY DEF ToSet
  <2> HIDE DEF t
  <2>3. PICK n \in Nat \ {0} : n = Len(todo[i])
    BY <2>1
  <2>4. 1 .. n - 1 = {} <=> n = 1
    <3>1. n # 1 => 1 \in 1 .. n - 1
      OBVIOUS
    <3>2. n = 1 => 1 .. n - 1 = {}
      OBVIOUS
    <3> QED
      BY <3>1, <3>2
  <2>5. ToSet(t) = {} <=> Len(todo[i]) = 1
    BY <2>1, <2>2, <2>3, <2>4
  <2> QED
    BY <1>1, <2>5 DEF t
<1>6. /\ m.op = "Joined" => memberList'[i] = memberList[i] \cup {m.to}
      /\ m.op = "TextExit" /\ Len(todo[i]) = 1 =>
           memberList'[i] = memberList[i] \ {m.leaving}
      /\ m.op # "Joined" /\ m.op # "TextExit" => memberList'[i] = memberList[i]
      /\ Len(todo[i]) # 1 /\ m.op # "Joined" => memberList'[i] = memberList[i]
  BY PatientParts, RosterAfterDelivery
<1> QED
  BY <1>3, <1>4, <1>5, <1>6

LEMMA DeliversSeats ==
    ASSUME PatientInv, NEW i \in Goroutines, NEW m, Delivers(i, m)
    PROVE  SeatsAreTaken'
<1>1. PICK d \in Doppelgangers : d = m.to
  BY DeliversFacts
<1>2. /\ \A j \in Goroutines \ {i} : todo'[j] = todo[j] /\ memberList'[j] = memberList[j]
      /\ ToSet(chatIn[d]) = {} /\ ToSet(chatIn'[d]) = {Heard(i, m)}
      /\ Heard(i, m).op = m.op /\ Heard(i, m).by = i
      /\ \A e \in Doppelgangers \ {d} : chatIn'[e] = chatIn[e]
      /\ UNCHANGED <<masterQ, masterTodo, running, inbox, status, chatID>>
  BY <1>1, DeliversFacts
<1>3. \A j \in Goroutines, e \in Doppelgangers :
        e \in Hearing(j)' <=> e \in Hearing(j) \/ (j = i /\ e = d /\ m.op = "Joined")
  BY <1>2 DEF Hearing
<1>4. \A c, e : Counts(c, e)' <=> Counts(c, e)
  BY <1>2 DEF Counts, Holders, ExitAsked
<1>5. \A j \in Goroutines, e \in Doppelgangers :
        Belongs(j, e)' <=> Belongs(j, e) \/ (j = i /\ e = d /\ m.op = "Joined")
  BY <1>2, <1>3, <1>4 DEF Belongs, PostedFor
<1>6. \A j \in Goroutines \ {i}, e \in Doppelgangers : TakenOff(j, e)' <=> TakenOff(j, e)
  BY <1>2 DEF TakenOff
<1>7. /\ \A e \in Doppelgangers : TakenOff(i, e) <=> e = m.leaving
      /\ \A e \in Doppelgangers : TakenOff(i, e)' <=> e = m.leaving /\ ToSet(todo'[i]) # {}
      /\ m.op = "TextExit" <=> m.leaving \in Doppelgangers
      /\ m.op = "Joined" => memberList'[i] = memberList[i] \cup {d}
      /\ m.op = "TextExit" /\ ToSet(todo'[i]) = {} =>
           memberList'[i] = memberList[i] \ {m.leaving}
      /\ m.op # "Joined" /\ (m.op = "TextExit" => ToSet(todo'[i]) # {}) =>
           memberList'[i] = memberList[i]
  BY <1>1, DeliversLeaver
<1>8. ASSUME NEW e \in Doppelgangers
      PROVE  /\ e \in memberList'[i] /\ ~TakenOff(i, e)' <=> Belongs(i, e)'
             /\ TakenOff(i, e)' => e \in memberList'[i]
  <2>1. /\ e \in memberList[i] /\ ~TakenOff(i, e) <=> Belongs(i, e)
        /\ TakenOff(i, e) => e \in memberList[i]
    BY PatientParts DEF SeatsAreTaken
  <2>2. CASE m.op = "Joined"
    BY <1>5, <1>7, <2>1, <2>2
  <2>3. CASE m.op = "TextExit" /\ ToSet(todo'[i]) = {}
    BY <1>5, <1>7, <2>1, <2>3
  <2>4. CASE m.op # "Joined" /\ (m.op = "TextExit" => ToSet(todo'[i]) # {})
    BY <1>5, <1>7, <2>1, <2>4
  <2> QED
    BY <2>2, <2>3, <2>4
<1>9. ASSUME NEW j \in Goroutines, j # i, NEW e \in Doppelgangers
      PROVE  /\ e \in memberList'[j] /\ ~TakenOff(j, e)' <=> Belongs(j, e)'
             /\ TakenOff(j, e)' => e \in memberList'[j]
  BY <1>2, <1>5, <1>6, <1>9, PatientParts DEF SeatsAreTaken
<1> QED
  BY <1>8, <1>9 DEF SeatsAreTaken

LEMMA DeliversReplies ==
    ASSUME PatientInv, NEW i \in Goroutines, NEW m, Delivers(i, m)
    PROVE  RepliesReach'
<1>1. /\ \A j \in Goroutines \ {i} : todo'[j] = todo[j] /\ memberList'[j] = memberList[j]
      /\ ToSet(todo[i]) = {m} \cup ToSet(todo'[i]) /\ DenialsAreTold(todo'[i])
      /\ UNCHANGED <<masterQ, masterTodo, running, inbox, status, chatID>>
  BY DeliversFacts
<1>2. \A c, e : (Counts(c, e)' <=> Counts(c, e)) /\ (AsksWho(e, c)' <=> AsksWho(e, c))
  BY <1>1 DEF Counts, Holders, ExitAsked, AsksWho
<1>3. /\ m.op = "Joined" => memberList'[i] = memberList[i] \cup {m.to}
      /\ m.op # "Joined" /\ ToSet(todo'[i]) # {} => memberList'[i] = memberList[i]
  BY DeliversLeaver
<1>4. ASSUME NEW n \in ToSet(todo'[i]), n.op \in {"Text", "TextExit"}
      PROVE  \/ n.to \in memberList'[i]
             \/ \E k \in ToSet(todo'[i]) : k.op = "Joined" /\ k.to = n.to
  <2>1. n.to \in memberList[i] => n.to \in memberList'[i]
    BY <1>3, <1>4
  <2>2. \/ n.to \in memberList[i]
        \/ \E k \in ToSet(todo[i]) : k.op = "Joined" /\ k.to = n.to
    BY <1>1, <1>4, PatientParts DEF RepliesReach
  <2> QED
    BY <1>1, <1>3, <2>1, <2>2
<1>5. \A j \in Goroutines :
        /\ \A n \in ToSet(todo'[j]) : n.op \in {"Text", "TextExit"} =>
            \/ n.to \in memberList'[j]
            \/ \E k \in ToSet(todo'[j]) : k.op = "Joined" /\ k.to = n.to
        /\ DenialsAreTold(todo'[j])
  BY <1>1, <1>4, PatientParts DEF RepliesReach
<1>6. \A j \in Goroutines : \A n \in ToSet(inbox'[j]) : n.op = "Who" =>
        \E c \in Channels : running'[c] = j /\ Counts(c, n.who)'
  BY <1>1, <1>2, PatientParts DEF RepliesReach
<1>7. /\ \A n \in ToSet(masterQ') :
            /\ n.op # "Join" => n.chan \in Channels
            /\ n.op = "Who" => AsksWho(n.from, n.chan)'
      /\ \A n \in ToSet(masterTodo') : n.op = "Who" => AsksWho(n.who, n.chan)'
  BY <1>1, <1>2, PatientParts DEF RepliesReach
<1> QED
  BY <1>5, <1>6, <1>7 DEF RepliesReach

\* Who is told that he has joined was not on the roster before.
LEMMA JoinsAfresh ==
    ASSUME PatientInv, NEW i \in Goroutines, NEW m, Delivers(i, m), m.op = "Joined"
    PROVE  m.to \notin memberList[i]
<1>1. PICK d \in Doppelgangers : d = m.to
  BY DeliversFacts
<1>2. HandledFor("Join", i, d)
  BY <1>1, DeliversFacts DEF HandledFor, Ends
<1>3. MatterAt("Join", d, "handler", i)
  BY <1>2 DEF MatterAt
<1>4. /\ \A c \in Channels : d \notin Holders(c) /\ ~ExitAsked(c, d)
      /\ d \notin Hearing(i) /\ ~PostedFor("Exit", i, d)
  <2>1. "Join" \in Kinds /\ "handler" \in Places /\ i \in Whereabouts
    BY DEF Kinds, Places, Whereabouts
  <2> QED
    BY <1>3, <2>1, NoClaims
<1>5. ~Belongs(i, d)
  BY <1>4 DEF Belongs, Counts
<1>6. ~TakenOff(i, d)
  BY DeliversLeaver
<1> QED
  BY <1>1, <1>5, <1>6, PatientParts DEF SeatsAreTaken

LEMMA DeliversChanges ==
    ASSUME PatientInv, NEW i \in Goroutines, NEW m, Delivers(i, m), TypeInv'
    PROVE  \E x \in Int, y \in Int, z \in Int :
             /\ x + y = z
             /\ Cardinality(memberList'[i]) = Cardinality(memberList[i]) + x
             /\ HowMany(todo'[i], Verdicts) = HowMany(todo[i], Verdicts) + y
             /\ (IF HowMany(todo'[i], Farewells) > 0 THEN 1 ELSE 0)
                  = (IF HowMany(todo[i], Farewells) > 0 THEN 1 ELSE 0) + z
<1>1. /\ m \in ToSet(todo[i]) /\ m \in ChatSends /\ m.to \in Doppelgangers /\ m.op # "Denial"
      /\ todo[i] \in Seq(ChatSends) /\ todo'[i] = Tail(todo[i]) /\ todo[i] # <<>>
      /\ m = Head(todo[i]) /\ ToSet(todo[i]) = {m} \cup ToSet(todo'[i])
  BY PatientParts, DeliversParts
<1>2. \A n \in ToSet(todo[i]) : n.leaving = m.leaving /\ (n.op = "TextExit" <=> n.leaving # Nobody)
  BY <1>1, PatientParts DEF RosterInv, OneLeaverAtATime
<1>3. todo'[i] \in Seq(ChatSends)
  BY MailTypes, TypeInvFacts, <1>1
<1>4. /\ HowMany(todo[i], Verdicts) \in Nat /\ HowMany(todo'[i], Verdicts) \in Nat
      /\ HowMany(todo[i], Farewells) \in Nat /\ HowMany(todo'[i], Farewells) \in Nat
      /\ HowMany(todo[i], Verdicts) = HowMany(todo'[i], Verdicts) + IF m \in Verdicts THEN 1 ELSE 0
      /\ HowMany(todo[i], Farewells) = 0 <=> \A n \in ToSet(todo[i]) : n \notin Farewells
      /\ HowMany(todo'[i], Farewells) = 0 <=> \A n \in ToSet(todo'[i]) : n \notin Farewells
  BY <1>1, <1>3, HowManyType, HowManyOfTail
<1>5. m \in Verdicts <=> m.op = "Joined"
  BY <1>1, <1>2 DEF Verdicts, ChatSends
<1>6. \A n \in ToSet(todo[i]) : n \in Farewells <=> m.op = "TextExit"
  <2>1. \A n \in ToSet(todo[i]) : n \in ChatSends
    BY <1>1, ToSetType
  <2>2. \A n \in ToSet(todo[i]) : n.op = "TextExit" <=> m.op = "TextExit"
    BY <1>1, <1>2
  <2> QED
    BY <1>2, <2>1, <2>2, IdsAssumption DEF Farewells, ChatSends, IdsAssumption
<1>7. memberList[i] \in SUBSET Doppelgangers /\ IsFiniteSet(memberList[i])
      /\ Cardinality(memberList[i]) \in Nat
  <2>1. memberList[i] \in SUBSET Doppelgangers
    BY PatientParts, MailTypes
  <2> QED
    BY <2>1, IdsAssumption, FS_Subset, FS_CardinalityType DEF IdsAssumption
<1>8. CASE m.op = "Joined"
  <2>1. /\ memberList'[i] = memberList[i] \cup {m.to} /\ m.to \notin memberList[i]
    BY <1>8, DeliversLeaver, JoinsAfresh
  <2>2. Cardinality(memberList'[i]) = Cardinality(memberList[i]) + 1
    BY <1>7, <2>1, FS_AddElement
  <2>3. HowMany(todo'[i], Verdicts) = HowMany(todo[i], Verdicts) + (0 - 1)
    BY <1>4, <1>5, <1>8
  <2>4. HowMany(todo[i], Farewells) = 0 /\ HowMany(todo'[i], Farewells) = 0
    BY <1>1, <1>4, <1>6, <1>8
  <2>5. /\ 1 + (0 - 1) = 0 /\ 1 \in Int /\ 0 - 1 \in Int /\ 0 \in Int
        /\ (IF HowMany(todo'[i], Farewells) > 0 THEN 1 ELSE 0)
             = (IF HowMany(todo[i], Farewells) > 0 THEN 1 ELSE 0) + 0
    BY <2>4
  <2> QED
    BY <2>2, <2>3, <2>5
<1>9. CASE m.op = "TextExit" /\ ToSet(todo'[i]) = {}
  <2>1. memberList'[i] = memberList[i] \ {m.leaving} /\ m.leaving \in memberList[i]
    BY <1>9, DeliversLeaver, PatientParts DEF SeatsAreTaken
  <2>2. Cardinality(memberList'[i]) = Cardinality(memberList[i]) + (0 - 1)
    <3>1. /\ Cardinality(memberList[i] \ {m.leaving}) \in Nat
          /\ Cardinality(memberList[i])
               = Cardinality(memberList[i] \ {m.leaving}) + IF m.leaving \in memberList[i] THEN 1 ELSE 0
      BY <1>7, CountWithout
    <3> QED
      BY <1>7, <2>1, <3>1
  <2>3. HowMany(todo'[i], Verdicts) = HowMany(todo[i], Verdicts) + 0
    BY <1>4, <1>5, <1>9
  <2>4. HowMany(todo[i], Farewells) > 0 /\ ~(HowMany(todo'[i], Farewells) > 0)
    <3>1. m \in ToSet(todo[i]) /\ m \in Farewells
      BY <1>1, <1>6, <1>9
    <3>2. HowMany(todo[i], Farewells) # 0
      BY <1>4, <3>1
    <3>3. HowMany(todo'[i], Farewells) = 0
      BY <1>4, <1>9
    <3> QED
      BY <1>4, <3>2, <3>3
  <2>5. /\ (0 - 1) + 0 = 0 - 1 /\ 0 - 1 \in Int /\ 0 \in Int
        /\ (IF HowMany(todo'[i], Farewells) > 0 THEN 1 ELSE 0)
             = (IF HowMany(todo[i], Farewells) > 0 THEN 1 ELSE 0) + (0 - 1)
    BY <2>4
  <2> QED
    BY <2>2, <2>3, <2>5
<1>10. CASE m.op # "Joined" /\ (m.op = "TextExit" => ToSet(todo'[i]) # {})
  <2>1. memberList'[i] = memberList[i]
    BY <1>10, DeliversLeaver
  <2>2. HowMany(todo'[i], Verdicts) = HowMany(todo[i], Verdicts) + 0
    BY <1>4, <1>5, <1>10
  <2>3. HowMany(todo[i], Farewells) > 0 <=> HowMany(todo'[i], Farewells) > 0
    BY <1>1, <1>4, <1>6, <1>10
  <2>4. /\ 0 + 0 = 0 /\ 0 \in Int
        /\ Cardinality(memberList'[i]) = Cardinality(memberList[i]) + 0
        /\ (IF HowMany(todo'[i], Farewells) > 0 THEN 1 ELSE 0)
             = (IF HowMany(todo[i], Farewells) > 0 THEN 1 ELSE 0) + 0
    BY <1>7, <2>1, <2>3
  <2> QED
    BY <2>2, <2>4
<1> QED
  BY <1>8, <1>9, <1>10

LEMMA DeliversCounts ==
    ASSUME PatientInv, AccountsInv', NEW i \in Goroutines, NEW m, Delivers(i, m)
    PROVE  CountMatchesRoster' /\ EntriesCount'
<1>1. /\ TypeInv /\ TypeInv' /\ CountMatchesRoster
      /\ running \in [Channels -> Goroutines \cup {NoGoroutine}]
  BY PatientParts, Steps, TypeInvFacts
<1>2. /\ \A j \in Goroutines \ {i} : todo'[j] = todo[j] /\ memberList'[j] = memberList[j]
      /\ UNCHANGED <<denialQ, masterTodo, running, memberCount, inbox>>
  BY DeliversFacts
<1>3. PICK x \in Int, y \in Int, z \in Int :
        /\ x + y = z
        /\ Cardinality(memberList'[i]) = Cardinality(memberList[i]) + x
        /\ HowMany(todo'[i], Verdicts) = HowMany(todo[i], Verdicts) + y
        /\ (IF HowMany(todo'[i], Farewells) > 0 THEN 1 ELSE 0)
             = (IF HowMany(todo[i], Farewells) > 0 THEN 1 ELSE 0) + z
  BY <1>1, DeliversChanges
<1>4. ASSUME NEW c \in Channels, running[c] # NoGoroutine
      PROVE  memberCount'[c] = Accounted(c)'
  <2> DEFINE k == running[c]
  <2>1. /\ k \in Goroutines /\ memberCount[c] \in Int
        /\ HowMany(masterTodo, SendsTo(c, "Join")) \in Nat
        /\ HowMany(inbox[k], Posts("Join")) \in Nat /\ HowMany(todo[k], Verdicts) \in Nat
        /\ HowMany(inbox[k], Posts("Exit")) \in Nat
        /\ HowMany(denialQ, DenialsBy(c)) \in Nat
        /\ Cardinality(memberList[k]) \in Nat /\ JoinsUnderWay(c) \in Nat
        /\ ExitsUnderWay(c) \in Nat
    BY <1>1, <1>4, DueTypes, AccountTypes DEF DueTyped, AccountTyped
  <2>2. CASE k = i
    <3>1. JoinsUnderWay(c)' = JoinsUnderWay(c) + y
      <4>1. /\ HowMany(masterTodo', SendsTo(c, "Join"))
                 = HowMany(masterTodo, SendsTo(c, "Join")) + 0
            /\ HowMany(inbox'[running[c]], Posts("Join"))
                 = HowMany(inbox[running[c]], Posts("Join")) + 0
            /\ HowMany(todo'[running[c]], Verdicts) = HowMany(todo[running[c]], Verdicts) + y
            /\ HowMany(denialQ', DenialsBy(c)) = HowMany(denialQ, DenialsBy(c)) + 0
        BY <1>2, <1>3, <2>1, <2>2
      <4>2. /\ TypeInv /\ TypeInv' /\ running'[c] = running[c] /\ running[c] # NoGoroutine
            /\ y \in Int /\ 0 \in Int /\ ((0 + 0) + y) + 0 = y
        BY <1>1, <1>2, <1>4
      <4>3. JoinsUnderWay(c)' = JoinsUnderWay(c) + (((0 + 0) + y) + 0)
        BY <4>1, <4>2, JoinsChange
      <4> QED
        BY <4>2, <4>3
    <3>2. ExitsUnderWay(c)' = ExitsUnderWay(c) + z
      <4> DEFINE n == HowMany(inbox[i], Posts("Exit"))
                 f == IF HowMany(todo[i], Farewells) > 0 THEN 1 ELSE 0
      <4>1. ExitsUnderWay(c) = n + f
        BY <2>2 DEF ExitsUnderWay
      <4>2. ExitsUnderWay(c)' = n + (f + z)
        BY <1>2, <1>3, <2>2 DEF ExitsUnderWay
      <4>3. n \in Nat /\ f \in Nat
        BY <2>1, <2>2
      <4> HIDE DEF n, f
      <4> QED
        BY <4>1, <4>2, <4>3
    <3>3. Changes(c, 0, x, y, z)
      BY <1>2, <1>3, <2>1, <2>2, <3>1, <3>2 DEF Changes
    <3>4. /\ TypeInv /\ TypeInv' /\ CountMatchesRoster /\ running'[c] = running[c]
          /\ 0 \in Int /\ x \in Int /\ y \in Int /\ z \in Int /\ 0 + z = x + y
      BY <1>1, <1>2, <1>3
    <3> QED
      BY <1>4, <3>3, <3>4, CountKept
  <2>3. CASE k # i
    <3>1. /\ memberList'[k] = memberList[k] /\ todo'[k] = todo[k] /\ running'[c] = k
      BY <1>2, <2>1, <2>3
    <3>2. Accounted(c)' = Accounted(c)
      BY <1>2, <3>1 DEF Accounted, JoinsUnderWay, ExitsUnderWay
    <3> QED
      BY <1>1, <1>2, <3>2 DEF CountMatchesRoster
  <2> QED
    BY <2>2, <2>3
<1>5. ASSUME NEW c \in Channels, running[c] = NoGoroutine
      PROVE  memberCount'[c] = Accounted(c)'
  BY <1>1, <1>2, <1>5 DEF CountMatchesRoster, Accounted
<1> QED
  BY <1>2, <1>4, <1>5, PatientParts DEF CountMatchesRoster, EntriesCount

LEMMA DeliveryKeepsPatience ==
    ASSUME PatientInv, AccountsInv', NEW i \in Goroutines, ChatTellsDoppelganger(i)
    PROVE  PatientRest'
<1>1. PICK m : /\ Delivers(i, m)
               /\ UNCHANGED <<masterReplies, masterUp, replyIn, gone, cantExit, view, line, crash>>
  BY ChatDelivers
<1>2. /\ OneMatter' /\ NothingBehind'
      /\ \A d \in Doppelgangers, o \in Kinds : UnderWay(o, d)' => UnderWay(o, d)
  BY <1>1, DeliversMatters
<1>3. SessionsKnow'
  <2>1. UNCHANGED <<status, chatID, cantExit, gone, view, line>>
    BY <1>1, DeliversFacts
  <2> QED
    BY <1>2, <2>1, PatientParts, SessionsStay
<1>4. masterUp' /\ NoCrash'
  BY <1>1, PatientParts DEF NoCrash
<1> QED
  BY <1>1, <1>2, <1>3, <1>4, DeliversSeats, DeliversReplies, DeliversCounts DEF PatientRest

-----------------------------------------------------------------------------
(***************************************************************************)
(* A turn of doppelganger d.  Its handler leaves it with the values of     *)
(* EndOfLoop; join and exit say what may then be under way, its request to *)
(* the channel master in the queue q included.                             *)
(***************************************************************************)
Elsewhere(o, d) ==
    \E p \in Places \ {"queue"}, i \in Whereabouts : MatterAt(o, d, p, i)'

Left(o, d, q) == (\E m \in ToSet(q) : m.op = o /\ m.from = d) \/ Elsewhere(o, d)

\* It asks for a join or an exit only while nothing is under way.
AsksFreely(d, id, q) ==
    \/ q = masterQ
    \/ \E r \in ToMaster :
        /\ r.from = d /\ q = Append(masterQ, r)
        /\ ~UnderWay("Join", d) /\ ~UnderWay("Exit", d)
        /\ r.op # "Join" => r.chan = chatID[d] /\ r.chan \in Channels
        /\ r.op # "Exit" \/ id = NoChannel

\* It gives up the seat it has with a request, or takes the one it hears of.
KeepsSeat(d, id, q) ==
    /\ chatID[d] \in Channels =>
        \/ id = chatID[d]
        \/ \E m \in ToSet(q) : m.op = "Exit" /\ m.from = d /\ m.chan = chatID[d]
    /\ \A i \in Goroutines : d \in Hearing(i) =>
        d \in Hearing(i)' \/ (id \in Channels /\ running[id] = i)

\* How the turn ends.
Stays(d, g, id, ce, q) ==
    /\ status'[d] = "selecting" \/ (status'[d] = "blocked" /\ id \in Channels)
    /\ chatID'[d] = id /\ cantExit'[d] = ce /\ (g => gone'[d]) /\ masterQ' = q

Leaves(d, id, ce, q) ==
    /\ status'[d] = "selecting" /\ ~ce
    /\ chatID'[d] = NoChannel /\ cantExit'[d] = TRUE /\ gone'[d] = TRUE
    /\ \/ id = Joining /\ masterQ' = q
       \/ id \in Channels /\ masterQ' = Append(q, Request("Exit", d, id))

Quits(d, id, q) ==
    /\ status'[d] = "returned" /\ masterQ' = q /\ id \notin Channels
    /\ ~Left("Join", d, q) /\ ~Left("Exit", d, q)

Outcome(d, g, id, ce, q) ==
    /\ Stays(d, g, id, ce, q) \/ Leaves(d, id, ce, q) \/ Quits(d, id, q)
    /\ \A e \in Doppelgangers \ {d} : gone'[e] = gone[e] /\ cantExit'[e] = cantExit[e]

Handler(d, g, id, ce, q, join, exit) ==
    /\ DoppMoves(d, id, q) /\ AsksFreely(d, id, q) /\ KeepsSeat(d, id, q)
    /\ Knows(id, ce, g, view'[d], line'[d], join, exit) \/ Quits(d, id, q)
    /\ Left("Join", d, q) => join
    /\ Left("Exit", d, q) => exit
    /\ replyIn'[d] > 0 => replyIn[d] > 0
    /\ \A e \in Doppelgangers \ {d} :
        replyIn'[e] = replyIn[e] /\ view'[e] = view[e] /\ line'[e] = line[e]
    /\ crash' = crash

LEMMA KnowsStays ==
    ASSUME NEW id, NEW ce \in BOOLEAN, NEW g \in BOOLEAN, NEW v, NEW l,
           NEW join \in BOOLEAN, NEW exit \in BOOLEAN,
           Knows(id, ce, g, v, l, join, exit),
           NEW g2 \in BOOLEAN, g => g2, NEW j2 \in BOOLEAN, j2 => join,
           NEW e2 \in BOOLEAN, e2 => exit
    PROVE  Knows(id, ce, g2, v, l, j2, e2)
  BY DEF Knows

LEMMA IdsDiffer == NoChannel # Joining
<1> SUFFICES ASSUME NoChannel = Joining
             PROVE  FALSE
  OBVIOUS
<1> DEFINE S == {Nowhere}
<1>1. IsFiniteSet(S) /\ Cardinality(S) = 1
  BY FS_Singleton
<1>2. S \cup {NoChannel} = {NoChannel, Joining, Nowhere}
  OBVIOUS
<1>3. Cardinality(S \cup {NoChannel}) <= 2
  BY <1>1, FS_AddElement
<1> QED
  BY <1>2, <1>3, IdsAssumption DEF IdsAssumption

LEMMA HandlerFacts ==
    ASSUME PatientInv, NEW d \in Doppelgangers, NEW g, NEW id, NEW ce, NEW q,
           NEW join, NEW exit, Handler(d, g, id, ce, q, join, exit)
    PROVE  /\ UNCHANGED <<denialQ, memberCount, running, masterTodo, masterReplies, masterUp,
                          inbox, memberList, todo>>
           /\ \A e \in Doppelgangers \ {d} :
                /\ status'[e] = status[e] /\ chatID'[e] = chatID[e] /\ chatIn'[e] = chatIn[e]
                /\ replyIn'[e] = replyIn[e] /\ view'[e] = view[e] /\ line'[e] = line[e]
           /\ chatIn'[d] = chatIn[d] \/ ToSet(chatIn'[d]) = {}
           /\ q \in Seq(ToMaster) /\ NoneBehind(q)
           /\ ToSet(masterQ) \subseteq ToSet(masterQ')
           /\ \A m \in ToSet(masterQ') \ ToSet(masterQ) : m.from = d
           /\ status[d] # "returned"
<1>1. TypeInv /\ RosterInv /\ DoppMoves(d, id, q)
  BY PatientParts DEF Handler
<1>2. UNCHANGED <<denialQ, memberCount, running, masterTodo, masterReplies, masterUp,
                  inbox, memberList, todo>>
  BY <1>1 DEF DoppMoves, restOfMaster, restOfChat
<1>3. /\ q \in Seq(ToMaster)
      /\ ToSet(masterQ) \subseteq ToSet(masterQ')
      /\ \A m \in ToSet(masterQ') \ ToSet(masterQ) : m.from = d
  BY <1>1, MovesQueue
<1>4. /\ \A e \in Doppelgangers \ {d} :
            status'[e] = status[e] /\ chatID'[e] = chatID[e] /\ chatIn'[e] = chatIn[e]
      /\ chatIn'[d] = chatIn[d] \/ ToSet(chatIn'[d]) = {}
  BY <1>1, MovesParts, ToSetOfEmpty
<1>5. NoneBehind(masterQ) /\ masterQ \in Seq(ToMaster)
  BY <1>1, PatientParts, MailTypes DEF NothingBehind
<1>6. NoneBehind(q)
  <2>1. CASE q = masterQ
    BY <1>5, <2>1
  <2>2. ASSUME NEW r \in ToMaster, r.from = d, q = Append(masterQ, r),
               ~UnderWay("Join", d), ~UnderWay("Exit", d)
        PROVE  NoneBehind(q)
    <3>1. ~QueuedFor("Join", d) /\ ~QueuedFor("Exit", d)
      <4>1. \A o \in Kinds : QueuedFor(o, d) => UnderWay(o, d)
        BY DEF UnderWay, MatterAt, Places, Whereabouts
      <4> QED
        BY <2>2, <4>1 DEF Kinds
    <3>2. \A n \in ToSet(masterQ) : n \in ToMaster
      BY <1>5, ToSetType
    <3>3. \A n \in ToSet(masterQ) : n.op # "Who" => n.from # d
      BY <3>1, <3>2 DEF QueuedFor, ToMaster
    <3> QED
      BY <1>5, <2>2, <3>3, QueueAppend
  <2> QED
    BY <2>1, <2>2 DEF Handler, AsksFreely
<1>7. /\ \A e \in Doppelgangers \ {d} :
            replyIn'[e] = replyIn[e] /\ view'[e] = view[e] /\ line'[e] = line[e]
      /\ status[d] # "returned"
  BY DEF Handler, DoppMoves
<1> QED
  BY <1>2, <1>3, <1>4, <1>6, <1>7

LEMMA HandlerMatters ==
    ASSUME PatientInv, NEW d \in Doppelgangers, NEW g, NEW id, NEW ce, NEW q,
           NEW join \in BOOLEAN, NEW exit \in BOOLEAN,
           Handler(d, g, id, ce, q, join, exit), Outcome(d, g, id, ce, q)
    PROVE  /\ OneMatter' /\ NothingBehind'
           /\ \A e \in Doppelgangers \ {d}, o \in Kinds : UnderWay(o, e)' => UnderWay(o, e)
           /\ masterQ' = q => \A o \in Kinds : UnderWay(o, d)' => Left(o, d, q)
           /\ id \in Channels /\ masterQ' = Append(q, Request("Exit", d, id)) => ~UnderWay("Join", d)'
<1>1. /\ UNCHANGED <<masterTodo, masterReplies, inbox, todo>>
      /\ \A e \in Doppelgangers \ {d} : chatIn'[e] = chatIn[e] /\ replyIn'[e] = replyIn[e]
      /\ chatIn'[d] = chatIn[d] \/ ToSet(chatIn'[d]) = {}
      /\ q \in Seq(ToMaster) /\ NoneBehind(q)
      /\ \A m \in ToSet(masterQ') \ ToSet(masterQ) : m.from = d
  BY HandlerFacts
<1>2. replyIn'[d] > 0 => replyIn[d] > 0
  BY DEF Handler
<1>3. \A e \in Doppelgangers, o \in Kinds :
        /\ HeldFor(o, e)' => HeldFor(o, e)
        /\ RepliedTo(o, e)' => RepliedTo(o, e)
        /\ MailedTo(o, e)' => MailedTo(o, e)
        /\ \A i \in Goroutines :
            /\ PostedFor(o, i, e)' => PostedFor(o, i, e)
            /\ HandledFor(o, i, e)' => HandledFor(o, i, e)
        /\ e # d => (QueuedFor(o, e)' => QueuedFor(o, e))
  BY <1>1, <1>2 DEF HeldFor, RepliedTo, MailedTo, PostedFor, HandledFor, QueuedFor
<1>4. \A e \in Doppelgangers \ {d} : NoNewMatter(e)
  BY <1>3, PlacesShrink
<1>5. \A o \in Kinds, p \in Places \ {"queue"}, i \in Whereabouts :
        MatterAt(o, d, p, i)' => MatterAt(o, d, p, i)
  BY <1>3 DEF MatterAt, Places
<1>6. OneMatter
  BY PatientParts
<1>7. ASSUME NEW o \in Kinds,
             \A o2 \in Kinds : QueuedFor(o2, d)' => o2 = o,
             \A o2 \in Kinds : ~Elsewhere(o2, d)
      PROVE  OneMatter'
  <2>1. OnlyMatter(o, d, "queue", NoGoroutine)
    BY <1>7 DEF OnlyMatter, MatterAt, Elsewhere
  <2> QED
    BY <1>4, <1>6, <2>1, MatterMoves
<1>8. ASSUME \A o \in Kinds : QueuedFor(o, d)' => QueuedFor(o, d)
      PROVE  OneMatter'
  <2>1. NoNewMatter(d)
    BY <1>3, <1>8, PlacesShrink
  <2> QED
    BY <1>4, <1>6, <2>1, MattersStay
<1>9. \A o \in Kinds : UnderWay(o, d)' => Elsewhere(o, d) \/ QueuedFor(o, d)'
  BY DEF UnderWay, Elsewhere, MatterAt, Places
<1>10. CASE masterQ' = q
  <2>1. \A o \in Kinds : UnderWay(o, d)' => Left(o, d, q)
    BY <1>9, <1>10 DEF Left, QueuedFor
  <2>2. OneMatter'
    <3>1. CASE q = masterQ
      BY <1>8, <1>10, <3>1 DEF QueuedFor
    <3>2. ASSUME NEW r \in ToMaster, r.from = d, q = Append(masterQ, r),
                 ~UnderWay("Join", d), ~UnderWay("Exit", d)
          PROVE  OneMatter'
      <4>1. ToSet(q) = ToSet(masterQ) \cup {r}
        BY <3>2, PatientParts, MailTypes, ToSetOfAppend
      <4>2. \A o \in Kinds : QueuedFor(o, d)' => QueuedFor(o, d) \/ r.op = o
        BY <1>10, <4>1 DEF QueuedFor
      <4>3. CASE r.op = "Who"
        BY <1>8, <4>2, <4>3 DEF Kinds
      <4>4. CASE r.op \in Kinds
        <5>1. \A o \in Kinds : ~UnderWay(o, d)
          BY <3>2 DEF Kinds
        <5>2. \A o \in Kinds : ~QueuedFor(o, d)
          BY <5>1 DEF UnderWay, MatterAt, Places, Whereabouts
        <5>3. \A o \in Kinds : ~Elsewhere(o, d)
          BY <1>5, <5>1 DEF Elsewhere, UnderWay
        <5> QED
          BY <1>7, <4>2, <4>4, <5>2, <5>3
      <4> QED
        BY <4>3, <4>4 DEF ToMaster, Kinds
    <3> QED
      BY <3>1, <3>2 DEF Handler, AsksFreely
  <2>3. masterQ' # Append(q, Request("Exit", d, id))
    <3>1. Len(Append(q, Request("Exit", d, id))) = Len(q) + 1 /\ Len(q) \in Nat
      BY <1>1, AppendProperties, LenProperties
    <3> QED
      BY <1>10, <3>1
  <2>4. NothingBehind'
    BY <1>1, <1>10, PatientParts DEF NothingBehind
  <2> QED
    BY <1>4, <2>1, <2>2, <2>3, <2>4 DEF NoNewMatter, UnderWay
<1>11. CASE masterQ' = Append(q, Request("Exit", d, id)) /\ id \in Channels /\ masterQ' # q
  <2>1. PICK r \in ToMaster : r = Request("Exit", d, id) /\ r.op = "Exit" /\ r.from = d
    BY <1>11 DEF Request, ToMaster
  <2>2. ToSet(masterQ') = ToSet(q) \cup {r}
    BY <1>1, <1>11, <2>1, ToSetOfAppend
  <2>3. ~Left("Join", d, q) /\ ~Left("Exit", d, q)
    BY <1>11 DEF Handler, Knows, Quits
  <2>4. \A o \in Kinds : ~Left(o, d, q)
    BY <2>3 DEF Kinds
  <2>5. \A o \in Kinds : ~Elsewhere(o, d) /\ (QueuedFor(o, d)' => o = "Exit")
    BY <2>1, <2>2, <2>4 DEF Left, QueuedFor
  <2>6. OneMatter'
    BY <1>7, <2>5 DEF Kinds
  <2>7. ~UnderWay("Join", d)'
    BY <1>9, <2>5 DEF Kinds
  <2>8. NoneBehind(masterQ')
    <3>1. \A n \in ToSet(q) : n \in ToMaster
      BY <1>1, ToSetType
    <3>2. \A n \in ToSet(q) : n.op # "Who" => n.from # d
      BY <2>4, <3>1 DEF Left, Kinds, ToMaster
    <3> QED
      BY <1>1, <1>11, <2>1, <3>2, QueueAppend
  <2>9. NothingBehind'
    BY <1>1, <2>8, PatientParts DEF NothingBehind
  <2> QED
    BY <1>4, <1>11, <2>6, <2>7, <2>9 DEF NoNewMatter, UnderWay
<1> QED
  BY <1>10, <1>11 DEF Outcome, Stays, Leaves, Quits

LEMMA HandlerSessions ==
    ASSUME PatientInv, TypeInv', NEW d \in Doppelgangers, NEW g \in BOOLEAN, NEW id,
           NEW ce \in BOOLEAN, NEW q, NEW join \in BOOLEAN, NEW exit \in BOOLEAN,
           Handler(d, g, id, ce, q, join, exit), Outcome(d, g, id, ce, q)
    PROVE  SessionsKnow'
<1>1. /\ \A e \in Doppelgangers \ {d}, o \in Kinds : UnderWay(o, e)' => UnderWay(o, e)
      /\ masterQ' = q => \A o \in Kinds : UnderWay(o, d)' => Left(o, d, q)
      /\ id \in Channels /\ masterQ' = Append(q, Request("Exit", d, id)) => ~UnderWay("Join", d)'
  BY HandlerMatters
<1>2. /\ \A e \in Doppelgangers \ {d} :
            /\ status'[e] = status[e] /\ chatID'[e] = chatID[e] /\ gone'[e] = gone[e]
            /\ cantExit'[e] = cantExit[e] /\ view'[e] = view[e] /\ line'[e] = line[e]
  BY HandlerFacts DEF Outcome
<1>3. /\ Knows(id, ce, g, view'[d], line'[d], join, exit) \/ Quits(d, id, q)
      /\ (Left("Join", d, q) => join) /\ (Left("Exit", d, q) => exit)
  BY DEF Handler
<1>4. PICK j2 \in BOOLEAN, e2 \in BOOLEAN : (j2 <=> UnderWay("Join", d)') /\ (e2 <=> UnderWay("Exit", d)')
  OBVIOUS
<1>5. masterQ' = q => (j2 => join) /\ (e2 => exit)
  BY <1>1, <1>3, <1>4 DEF Kinds
<1>6. ASSUME NEW e \in Doppelgangers, e # d
      PROVE  IF status'[e] = "returned"
             THEN ~UnderWay("Join", e)' /\ ~UnderWay("Exit", e)'
             ELSE /\ Knows(chatID'[e], cantExit'[e], gone'[e], view'[e], line'[e],
                           UnderWay("Join", e)', UnderWay("Exit", e)')
                  /\ status'[e] = "blocked" => chatID'[e] \in Channels
  <2>1. /\ UnderWay("Join", e)' => UnderWay("Join", e)
        /\ UnderWay("Exit", e)' => UnderWay("Exit", e)
    BY <1>1, <1>6 DEF Kinds
  <2>2. IF status[e] = "returned"
        THEN ~UnderWay("Join", e) /\ ~UnderWay("Exit", e)
        ELSE /\ Knows(chatID[e], cantExit[e], gone[e], view[e], line[e],
                      UnderWay("Join", e), UnderWay("Exit", e))
             /\ status[e] = "blocked" => chatID[e] \in Channels
    BY PatientParts DEF SessionsKnow
  <2> QED
    BY <1>2, <1>6, <2>1, <2>2 DEF Knows
<1>7. gone'[d] \in BOOLEAN
  BY TypeInvParts DEF LoopInv, LoopTypeOK
<1>8. IF status'[d] = "returned"
      THEN ~j2 /\ ~e2
      ELSE /\ Knows(chatID'[d], cantExit'[d], gone'[d], view'[d], line'[d], j2, e2)
           /\ status'[d] = "blocked" => chatID'[d] \in Channels
  <2>1. CASE Stays(d, g, id, ce, q)
    <3>0. Knows(id, ce, g, view'[d], line'[d], join, exit)
      BY <1>3, <2>1 DEF Stays, Quits
    <3>1. Knows(id, ce, gone'[d], view'[d], line'[d], j2, e2)
      BY <1>4, <1>5, <1>7, <2>1, <3>0, KnowsStays DEF Stays
    <3> QED
      BY <2>1, <3>1 DEF Stays
  <2>2. CASE Leaves(d, id, ce, q)
    <3>1. /\ ~ce /\ cantExit'[d] /\ gone'[d] /\ cantExit'[d] \in BOOLEAN
          /\ \/ id = Joining /\ (j2 => join) /\ (e2 => exit)
             \/ id \in Channels /\ ~j2
      BY <1>1, <1>4, <1>5, <2>2 DEF Leaves
    <3>2. Knows(NoChannel, cantExit'[d], gone'[d], view'[d], line'[d], j2, e2)
      <4>1. Knows(id, ce, g, view'[d], line'[d], join, exit)
        BY <1>3, <2>2 DEF Leaves, Quits
      <4> QED
        BY <1>4, <1>7, <3>1, <4>1, IdsAssumption, IdsDiffer DEF Knows, IdsAssumption
    <3> QED
      BY <2>2, <3>2 DEF Leaves
  <2>3. CASE Quits(d, id, q)
    BY <1>1, <1>4, <2>3 DEF Quits, Kinds
  <2> QED
    BY <2>1, <2>2, <2>3 DEF Outcome
<1>9. IF status'[d] = "returned"
      THEN ~UnderWay("Join", d)' /\ ~UnderWay("Exit", d)'
      ELSE /\ Knows(chatID'[d], cantExit'[d], gone'[d], view'[d], line'[d],
                    UnderWay("Join", d)', UnderWay("Exit", d)')
           /\ status'[d] = "blocked" => chatID'[d] \in Channels
  BY <1>4, <1>8 DEF Knows
<1> QED
  BY <1>6, <1>9 DEF SessionsKnow

LEMMA HandlerSeated ==
    ASSUME PatientInv, TypeInv', NEW d \in Doppelgangers, NEW g, NEW id, NEW ce, NEW q,
           NEW join, NEW exit,
           Handler(d, g, id, ce, q, join, exit), Outcome(d, g, id, ce, q)
    PROVE  /\ id \in Channels => AsksWho(d, id)'
           /\ \A c \in Channels, e \in Doppelgangers : AsksWho(e, c) => AsksWho(e, c)'
           /\ \A c \in Channels, e \in Doppelgangers : Counts(c, e) => Counts(c, e)'
<1>1. /\ \A e \in Doppelgangers \ {d} : status'[e] = status[e] /\ chatID'[e] = chatID[e]
      /\ q \in Seq(ToMaster) /\ UNCHANGED masterTodo
      /\ ToSet(masterQ) \subseteq ToSet(masterQ')
  BY HandlerFacts
<1>0. PICK r : r = Request("Exit", d, id)
  OBVIOUS
<1>2. r = Request("Exit", d, id) /\ r.op = "Exit" /\ r.from = d /\ r.chan = id
  BY <1>0 DEF Request
<1>3. \/ masterQ' = q
      \/ id \in Channels /\ masterQ' = Append(q, r)
  BY <1>2 DEF Outcome, Stays, Leaves, Quits
<1>4. /\ ToSet(q) \subseteq ToSet(masterQ')
      /\ masterQ' = q \/ r \in ToSet(masterQ')
  <2>1. CASE masterQ' = q
    BY <2>1
  <2>2. CASE id \in Channels /\ masterQ' = Append(q, r)
    <3>1. r \in ToMaster
      BY <1>2, <2>2 DEF Request, ToMaster
    <3> QED
      BY <1>1, <2>2, <3>1, ToSetOfAppend
  <2> QED
    BY <1>3, <2>1, <2>2
<1>5. id \in Channels => AsksWho(d, id)'
  <2> SUFFICES ASSUME id \in Channels
               PROVE  AsksWho(d, id)'
    OBVIOUS
  <2>1. CASE Stays(d, g, id, ce, q)
    BY <2>1 DEF Stays, AsksWho, Holders
  <2>2. CASE Leaves(d, id, ce, q)
    <3>1. r \in ToSet(masterQ')
      <4>1. id # Joining
        BY IdsAssumption DEF IdsAssumption
      <4>2. masterQ' = Append(q, r)
        BY <1>2, <2>2, <4>1 DEF Leaves
      <4>3. r \in ToMaster
        BY <1>2 DEF Request, ToMaster
      <4> QED
        BY <1>1, <4>2, <4>3, ToSetOfAppend
    <3> QED
      BY <1>2, <3>1 DEF AsksWho
  <2> QED
    BY <2>1, <2>2 DEF Outcome, Quits
<1>6. \A c \in Channels, e \in Doppelgangers : AsksWho(e, c) => AsksWho(e, c)'
  <2> SUFFICES ASSUME NEW c \in Channels, NEW e \in Doppelgangers, e \in Holders(c)
               PROVE  AsksWho(e, c)'
    BY <1>1 DEF AsksWho
  <2>1. CASE e # d
    BY <1>1, <2>1 DEF AsksWho, Holders
  <2>2. CASE e = d
    <3>1. chatID[d] = c
      BY <2>2 DEF Holders
    <3>2. CASE id = c
      BY <1>5, <2>2, <3>2
    <3>3. CASE \E m \in ToSet(q) : m.op = "Exit" /\ m.from = d /\ m.chan = c
      BY <1>4, <2>2, <3>3 DEF AsksWho
    <3> QED
      BY <3>1, <3>2, <3>3 DEF Handler, KeepsSeat
  <2> QED
    BY <2>1, <2>2
<1>7. \A c \in Channels, e \in Doppelgangers : Counts(c, e) => Counts(c, e)'
  <2> SUFFICES ASSUME NEW c \in Channels, NEW e \in Doppelgangers, e \in Holders(c)
               PROVE  Counts(c, e)'
    BY <1>1 DEF Counts, ExitAsked
  <2>1. AsksWho(e, c)'
    BY <1>6 DEF AsksWho
  <2> QED
    BY <2>1 DEF AsksWho, Counts, ExitAsked
<1> QED
  BY <1>5, <1>6, <1>7

LEMMA HandlerSeats ==
    ASSUME PatientInv, TypeInv', NEW d \in Doppelgangers, NEW g, NEW id, NEW ce, NEW q,
           NEW join, NEW exit,
           Handler(d, g, id, ce, q, join, exit), Outcome(d, g, id, ce, q)
    PROVE  SeatsAreTaken'
<1>1. /\ UNCHANGED <<running, masterTodo, inbox, memberList, todo>>
      /\ \A e \in Doppelgangers \ {d} :
            status'[e] = status[e] /\ chatID'[e] = chatID[e] /\ chatIn'[e] = chatIn[e]
      /\ chatIn'[d] = chatIn[d] \/ ToSet(chatIn'[d]) = {}
      /\ \A m \in ToSet(masterQ') \ ToSet(masterQ) : m.from = d
      /\ status[d] # "returned"
  BY HandlerFacts
<1>2. \A i, e : (TakenOff(i, e)' <=> TakenOff(i, e)) /\ (PostedFor("Exit", i, e)' <=> PostedFor("Exit", i, e))
  BY <1>1 DEF TakenOff, PostedFor
<1>3. \A i \in Goroutines, e \in Doppelgangers : e \in Hearing(i)' => e \in Hearing(i)
  BY <1>1 DEF Hearing
<1>4. TypeInv /\ RosterInv /\ DoppMoves(d, id, q)
  BY PatientParts DEF Handler
<1>5. ASSUME NEW i \in Goroutines, NEW e \in Doppelgangers, Belongs(i, e)
      PROVE  Belongs(i, e)'
  <2>1. CASE PostedFor("Exit", i, e)
    BY <1>2, <2>1 DEF Belongs
  <2>2. CASE \E c \in Channels : running[c] = i /\ Counts(c, e)
    <3>1. PICK c \in Channels : running'[c] = i /\ Counts(c, e)'
      BY <1>1, <2>2, HandlerSeated
    <3> QED
      BY <3>1 DEF Belongs
  <2>3. CASE e \in Hearing(i)
    <3>1. CASE e \in Hearing(i)'
      BY <3>1 DEF Belongs
    <3>2. CASE e = d /\ id \in Channels /\ running[id] = i
      <4>1. AsksWho(d, id)'
        BY <3>2, HandlerSeated
      <4>2. Counts(id, d)'
        BY <4>1 DEF AsksWho, Counts, ExitAsked
      <4> QED
        BY <1>1, <3>2, <4>2 DEF Belongs
    <3>3. e # d => e \in Hearing(i)'
      BY <1>1, <2>3 DEF Hearing
    <3> QED
      BY <2>3, <3>1, <3>2, <3>3 DEF Handler, KeepsSeat
  <2> QED
    BY <1>5, <2>1, <2>2, <2>3 DEF Belongs
<1>6. \A c \in Channels : id = c => d \in Holders(c) \/ d \in Hearing(running[c])
  BY <1>1, <1>4 DEF DoppMoves, Onto, Holders
<1>7. ASSUME NEW i \in Goroutines, NEW e \in Doppelgangers, Belongs(i, e)'
      PROVE  Belongs(i, e)
  <2>1. CASE PostedFor("Exit", i, e)'
    BY <1>2, <2>1 DEF Belongs
  <2>2. CASE e \in Hearing(i)'
    BY <1>3, <2>2 DEF Belongs
  <2>3. ASSUME NEW c \in Channels, running[c] = i, Counts(c, e)'
        PROVE  Belongs(i, e)
    <3>1. CASE e # d
      <4>1. Counts(c, e)
        BY <1>1, <2>3, <3>1 DEF Counts, Holders, ExitAsked
      <4> QED
        BY <2>3, <4>1 DEF Belongs
    <3>2. CASE e = d
      <4>1. ExitAsked(c, d) \/ id = c \/ chatID[d] = c
        <5>1. CASE d \in Holders(c)'
          <6>1. chatID'[d] = c
            BY <5>1 DEF Holders
          <6>2. chatID'[d] \in {id, NoChannel}
            BY <1>4, MovesParts
          <6> QED
            BY <6>1, <6>2, IdsAssumption DEF IdsAssumption
        <5>2. ASSUME NEW m \in ToSet(masterQ'), m.op = "Exit", m.chan = c, m.from = d
              PROVE  ExitAsked(c, d) \/ id = c \/ chatID[d] = c
          <6>1. CASE m \in ToSet(masterQ)
            BY <5>2, <6>1 DEF ExitAsked
          <6>2. CASE m \in ToSet(masterQ') \ ToSet(masterQ)
            <7>1. m.chan \in {id, chatID[d]}
              BY <1>4, <5>2, <6>2, MovesQueue
            <7> QED
              BY <5>2, <7>1
          <6> QED
            BY <5>2, <6>1, <6>2
        <5>3. CASE \E m \in ToSet(masterTodo) : m.op = "Exit" /\ m.chan = c /\ m.who = d
          BY <5>3 DEF ExitAsked
        <5> QED
          BY <1>1, <2>3, <3>2, <5>1, <5>2, <5>3 DEF Counts, ExitAsked
      <4>2. chatID[d] = c => d \in Holders(c)
        BY <1>1 DEF Holders
      <4>3. Counts(c, d) \/ d \in Hearing(i)
        BY <1>6, <2>3, <4>1, <4>2 DEF Counts
      <4> QED
        BY <2>3, <3>2, <4>3 DEF Belongs
    <3> QED
      BY <3>1, <3>2
  <2> QED
    BY <1>1, <1>7, <2>1, <2>2, <2>3 DEF Belongs
<1> QED
  BY <1>1, <1>2, <1>5, <1>7, PatientParts DEF SeatsAreTaken

LEMMA HandlerReplies ==
    ASSUME PatientInv, TypeInv', NEW d \in Doppelgangers, NEW g, NEW id, NEW ce, NEW q,
           NEW join, NEW exit,
           Handler(d, g, id, ce, q, join, exit), Outcome(d, g, id, ce, q)
    PROVE  RepliesReach'
<1>1. /\ UNCHANGED <<running, masterTodo, inbox, memberList, todo>>
      /\ status[d] # "returned" /\ q \in Seq(ToMaster)
  BY HandlerFacts
<1>2. /\ \A c \in Channels, e \in Doppelgangers : AsksWho(e, c) => AsksWho(e, c)'
      /\ \A c \in Channels, e \in Doppelgangers : Counts(c, e) => Counts(c, e)'
  BY HandlerSeated
<1>3. RepliesReach /\ TypeInv
  BY PatientParts
<1>4. /\ \A m \in ToSet(masterQ') : m \in ToMaster
      /\ \A m \in ToSet(masterQ) : m \in ToMaster
      /\ \A m \in ToSet(masterTodo) : m \in MasterSends
      /\ \A i \in Goroutines : \A m \in ToSet(inbox[i]) : m \in ToChat
  <2>1. /\ masterQ \in Seq(ToMaster) /\ masterTodo \in Seq(MasterSends)
        /\ inbox \in [Goroutines -> Seq(ToChat)]
    BY <1>3, MailTypes, TypeInvFacts
  <2>2. masterQ' \in Seq(ToMaster)
    BY TypeInvParts DEF LoopInv, LoopTypeOK
  <2>3. \A i \in Goroutines : inbox[i] \in Seq(ToChat)
    BY <2>1
  <2> QED
    BY <2>1, <2>2, <2>3, ToSetType
<1>5. ASSUME NEW m \in ToSet(masterQ')
      PROVE  /\ m.op # "Join" => m.chan \in Channels
             /\ m.op = "Who" => AsksWho(m.from, m.chan)'
  <2>1. CASE m \in ToSet(masterQ)
    <3>1. m \in ToMaster /\ m.from \in Doppelgangers
      BY <1>4, <2>1 DEF ToMaster
    <3> QED
      BY <1>2, <1>3, <2>1, <3>1 DEF RepliesReach
  <2>2. ASSUME NEW r \in ToMaster, r.from = d, r.op # "Join" => r.chan = chatID[d] /\ r.chan \in Channels,
               m = r
        PROVE  /\ m.op # "Join" => m.chan \in Channels
               /\ m.op = "Who" => AsksWho(m.from, m.chan)'
    <3>1. m.op = "Who" => m.chan \in Channels /\ d \in Holders(m.chan)
      BY <1>1, <2>2 DEF Holders
    <3> QED
      BY <1>2, <2>2, <3>1 DEF AsksWho
  <2>3. CASE m = Request("Exit", d, id) /\ id \in Channels
    BY <2>3 DEF Request
  <2>4. ToSet(masterQ') \subseteq ToSet(q) \cup {Request("Exit", d, id)}
    <3>1. CASE masterQ' = q
      BY <3>1
    <3>2. CASE id \in Channels /\ masterQ' = Append(q, Request("Exit", d, id))
      <4>1. Request("Exit", d, id) \in ToMaster
        BY <3>2 DEF Request, ToMaster
      <4> QED
        BY <1>1, <3>2, <4>1, ToSetOfAppend
    <3> QED
      BY <3>1, <3>2 DEF Outcome, Stays, Leaves, Quits
  <2>5. m \in ToSet(q) \/ (m = Request("Exit", d, id) /\ id \in Channels)
    BY <2>4 DEF Outcome, Stays, Leaves, Quits
  <2>6. CASE m \in ToSet(q)
    <3>1. CASE q = masterQ
      BY <2>1, <2>6, <3>1
    <3>2. ASSUME NEW r \in ToMaster, r.from = d, q = Append(masterQ, r),
                 r.op # "Join" => r.chan = chatID[d] /\ r.chan \in Channels
          PROVE  m \in ToSet(masterQ) \/ m = r
      BY <1>3, <2>6, <3>2, MailTypes, ToSetOfAppend
    <3> QED
      BY <2>1, <2>2, <3>1, <3>2 DEF Handler, AsksFreely
  <2> QED
    BY <2>3, <2>5, <2>6
<1>6. ASSUME NEW m \in ToSet(masterTodo'), m.op = "Who"
      PROVE  AsksWho(m.who, m.chan)'
  <2>1. m \in ToSet(masterTodo) /\ m.who \in Doppelgangers /\ m.chan \in Channels
    BY <1>1, <1>4 DEF MasterSends
  <2> QED
    BY <1>2, <1>3, <1>6, <2>1 DEF RepliesReach
<1>7. ASSUME NEW i \in Goroutines, NEW m \in ToSet(inbox'[i]), m.op = "Who"
      PROVE  \E c \in Channels : running'[c] = i /\ Counts(c, m.who)'
  <2>1. m \in ToSet(inbox[i]) /\ m.who \in Doppelgangers
    BY <1>1, <1>4 DEF ToChat
  <2> QED
    BY <1>1, <1>2, <1>3, <1>7, <2>1 DEF RepliesReach
<1> QED
  BY <1>1, <1>3, <1>5, <1>6, <1>7 DEF RepliesReach

LEMMA HandlerKeeps ==
    ASSUME PatientInv, AccountsInv', NEW d \in Doppelgangers, NEW g \in BOOLEAN, NEW id,
           NEW ce \in BOOLEAN, NEW q, NEW join \in BOOLEAN, NEW exit \in BOOLEAN,
           Handler(d, g, id, ce, q, join, exit), Outcome(d, g, id, ce, q)
    PROVE  PatientRest'
<1>1. UNCHANGED <<denialQ, memberCount, running, masterTodo, masterUp, inbox, memberList, todo>>
  BY HandlerFacts
<1>2. TypeInv'
  BY Steps
<1>3. CountMatchesRoster' /\ EntriesCount'
  BY <1>1, PatientParts, AccountsStay
<1>4. crash' = crash
  BY DEF Handler
<1>5. masterUp' /\ NoCrash'
  BY <1>1, <1>4, PatientParts DEF NoCrash
<1> QED
  BY <1>2, <1>3, <1>5, HandlerMatters, HandlerSessions, HandlerSeats, HandlerReplies
     DEF PatientRest

\* What the handler of d leaves alone.
OnlyOf(d) ==
    /\ replyIn'[d] > 0 => replyIn[d] > 0
    /\ \A e \in Doppelgangers \ {d} :
        replyIn'[e] = replyIn[e] /\ view'[e] = view[e] /\ line'[e] = line[e]
    /\ crash' = crash

LEMMA PlacesLeft ==
    ASSUME PatientInv, NEW d \in Doppelgangers, NEW id, NEW q, DoppMoves(d, id, q), OnlyOf(d)
    PROVE  /\ \A o \in Kinds, p \in Places \ {"queue"}, i \in Whereabouts :
                MatterAt(o, d, p, i)' => MatterAt(o, d, p, i)
           /\ \A o \in Kinds : Elsewhere(o, d) => UnderWay(o, d)
           /\ q = masterQ => \A o \in Kinds : Left(o, d, q) => UnderWay(o, d)
<1>1. /\ UNCHANGED <<masterTodo, masterReplies, inbox, todo>>
      /\ chatIn'[d] = chatIn[d] \/ ToSet(chatIn'[d]) = {}
  BY PatientParts, MovesParts, ToSetOfEmpty DEF DoppMoves, restOfMaster
<1>2. \A o \in Kinds :
        /\ HeldFor(o, d)' => HeldFor(o, d)
        /\ RepliedTo(o, d)' => RepliedTo(o, d)
        /\ MailedTo(o, d)' => MailedTo(o, d)
        /\ \A i \in Goroutines :
            /\ PostedFor(o, i, d)' => PostedFor(o, i, d)
            /\ HandledFor(o, i, d)' => HandledFor(o, i, d)
  BY <1>1 DEF OnlyOf, HeldFor, RepliedTo, MailedTo, PostedFor, HandledFor
<1>3. \A o \in Kinds, p \in Places \ {"queue"}, i \in Whereabouts :
        MatterAt(o, d, p, i)' => MatterAt(o, d, p, i)
  BY <1>2 DEF MatterAt, Places
<1>4. \A o \in Kinds : Elsewhere(o, d) => UnderWay(o, d)
  BY <1>3 DEF Elsewhere, UnderWay
<1>5. \A o \in Kinds : QueuedFor(o, d) => UnderWay(o, d)
  BY DEF UnderWay, MatterAt, Places, Whereabouts
<1> QED
  BY <1>3, <1>4, <1>5 DEF Left, QueuedFor

\* The handler has taken the answer that was waiting for d: nothing is left.
LEMMA NothingLeft ==
    ASSUME PatientInv, NEW d \in Doppelgangers, NEW id, DoppMoves(d, id, masterQ), OnlyOf(d),
           NEW o \in Kinds, NEW p \in {"reply", "mail"}, MatterAt(o, d, p, NoGoroutine),
           ~MatterAt(o, d, p, NoGoroutine)'
    PROVE  ~Left("Join", d, masterQ) /\ ~Left("Exit", d, masterQ)
<1>1. \A o2 \in Kinds, p2 \in Places, i2 \in Whereabouts :
        MatterAt(o2, d, p2, i2) => o2 = o /\ p2 = p /\ i2 = NoGoroutine
  BY PatientParts DEF OneMatter, Places, Whereabouts
<1>2. \A o2 \in Kinds, p2 \in Places \ {"queue"}, i2 \in Whereabouts :
        MatterAt(o2, d, p2, i2)' => MatterAt(o2, d, p2, i2)
  BY PlacesLeft
<1>3. \A o2 \in Kinds : ~Elsewhere(o2, d)
  BY <1>1, <1>2 DEF Elsewhere
<1>4. \A o2 \in Kinds : ~QueuedFor(o2, d)
  BY <1>1 DEF MatterAt, Places, Whereabouts
<1> QED
  BY <1>3, <1>4 DEF Left, QueuedFor, Kinds

LEMMA QuietLeft ==
    ASSUME PatientInv, NEW d \in Doppelgangers, NEW id, DoppMoves(d, id, masterQ), OnlyOf(d),
           Quiet(d)
    PROVE  ~Left("Join", d, masterQ) /\ ~Left("Exit", d, masterQ)
<1>1. /\ \A m \in ToSet(masterQ) : m.from # d
      /\ \A m \in ToSet(masterTodo) : m.who # d
      /\ d \notin ToSet(masterReplies)
      /\ replyIn[d] = 0 /\ ToSet(chatIn[d]) = {}
      /\ \A i \in Goroutines :
          /\ \A m \in ToSet(inbox[i]) : m.who # d
          /\ \A m \in ToSet(todo[i]) : m.to # d /\ m.leaving # d
  BY ToSetOfEmpty DEF Quiet, ToSet
<1>2. \A o \in Kinds :
        /\ ~QueuedFor(o, d) /\ ~HeldFor(o, d) /\ ~RepliedTo(o, d) /\ ~MailedTo(o, d)
        /\ \A i \in Goroutines : ~PostedFor(o, i, d) /\ ~HandledFor(o, i, d)
  BY <1>1 DEF QueuedFor, HeldFor, RepliedTo, MailedTo, PostedFor, HandledFor
<1>3. \A o \in Kinds : ~UnderWay(o, d)
  BY <1>2 DEF UnderWay, MatterAt
<1> QED
  BY <1>3, PlacesLeft DEF Kinds

LEMMA LoopOutcome ==
    ASSUME PatientInv, PatientUsers, NEW d \in Doppelgangers, NEW g \in BOOLEAN, NEW id,
           NEW ce \in BOOLEAN, NEW q, NEW join, NEW exit, NEW prompt,
           Handler(d, g, id, ce, q, join, exit), EndOfLoop(d, g, id, ce, q, prompt),
           Knows(id, ce, g, view'[d], line'[d], join, exit)
    PROVE  Outcome(d, g, id, ce, q)
<1>1. /\ status \in [Doppelgangers -> {"selecting", "blocked", "returned"}]
      /\ chatID \in [Doppelgangers -> Channels \cup {NoChannel, Joining}]
      /\ gone \in [Doppelgangers -> BOOLEAN]
      /\ cantExit \in [Doppelgangers -> BOOLEAN]
      /\ cantExitCount \in [Doppelgangers -> 0 .. CantExitLimit]
  BY PatientParts, TypeInvParts DEF LoopInv, LoopTypeOK
<1>2. ASSUME NEW st, NEW lost, NEW last, NEW waits, NEW n, NEW asked,
             Settles(d, st, lost, last, waits, n, asked)
      PROVE  /\ status'[d] = st /\ gone'[d] = lost /\ chatID'[d] = last
             /\ cantExit'[d] = waits /\ masterQ' = asked
             /\ \A e \in Doppelgangers \ {d} : gone'[e] = gone[e] /\ cantExit'[e] = cantExit[e]
  BY <1>1, <1>2 DEF Settles
<1>3. /\ id \in Channels \cup {NoChannel, Joining} /\ status[d] # "returned"
      /\ DoppMoves(d, id, q) /\ OnlyOf(d)
      /\ Knows(id, ce, g, view'[d], line'[d], join, exit)
      /\ (Left("Join", d, q) => join) /\ (Left("Exit", d, q) => exit)
  BY DEF Handler, DoppMoves, OnlyOf
<1>4. CASE ~g /\ StaysWithUser(d, id, ce, q, prompt)
  BY <1>2, <1>4 DEF StaysWithUser, Outcome, Stays
<1>5. CASE g /\ ce /\ WaitsForExit(d, id, q)
  <2> DEFINE n == Waited(d, q)
  <2>1. Settles(d, IF n >= CantExitLimit THEN "returned" ELSE "selecting", TRUE, id, TRUE, n, q)
    BY <1>5 DEF WaitsForExit
  <2>2. CASE ~(n >= CantExitLimit)
    BY <1>2, <1>5, <2>1, <2>2 DEF Outcome, Stays
  <2>3. CASE n >= CantExitLimit
    <3>1. Quiet(d) /\ q = masterQ
      <4>1. cantExitCount[d] \in Nat /\ CantExitLimit \in Nat \ {0} /\ Timely
        BY <1>1, SizesAssumption DEF SizesAssumption, PatientUsers
      <4>2. ~(Quiet(d) /\ q = masterQ) => n < CantExitLimit
        BY <4>1 DEF Waited
      <4>3. n \in Int
        BY <4>1 DEF Waited
      <4> QED
        BY <2>3, <4>1, <4>2, <4>3
    <3>2. ~Left("Join", d, q) /\ ~Left("Exit", d, q)
      BY <1>3, <3>1, QuietLeft
    <3>3. id \notin Channels
      BY <1>3, <1>5 DEF Knows
    <3> QED
      BY <1>2, <2>1, <2>3, <3>2, <3>3 DEF Outcome, Quits
  <2> QED
    BY <2>2, <2>3
<1>6. CASE g /\ ~ce /\ id # NoChannel /\ LeavesChannel(d, id, q)
  <2>1. IF id = Joining THEN masterQ' = q
                        ELSE id \in Channels /\ masterQ' = Append(q, Request("Exit", d, id))
    BY <1>2, <1>3, <1>6 DEF LeavesChannel
  <2> QED
    BY <1>2, <1>6, <2>1 DEF LeavesChannel, Outcome, Leaves
<1>7. CASE g /\ ~ce /\ id = NoChannel /\ Returns(d, q)
  <2>1. ~join /\ ~exit
    BY <1>3, <1>7, IdsDiffer DEF Knows
  <2>2. id \notin Channels
    BY <1>7, IdsAssumption DEF IdsAssumption
  <2> QED
    BY <1>2, <1>3, <1>7, <2>1, <2>2 DEF Returns, Outcome, Quits
<1> QED
  BY <1>4, <1>5, <1>6, <1>7 DEF EndOfLoop

\* A handler runs, and ends in one of these ways.
TakesTurn(d) ==
    \E g \in BOOLEAN, ce \in BOOLEAN, join \in BOOLEAN, exit \in BOOLEAN : \E id, q :
        Handler(d, g, id, ce, q, join, exit) /\ Outcome(d, g, id, ce, q)

LEMMA HandlerEnds ==
    ASSUME PatientInv, PatientUsers, NEW d \in Doppelgangers, NEW g \in BOOLEAN,
           NEW id, NEW ce \in BOOLEAN, NEW q, NEW join \in BOOLEAN, NEW exit \in BOOLEAN,
           NEW prompt,
           Handler(d, g, id, ce, q, join, exit), EndOfLoop(d, g, id, ce, q, prompt),
           Knows(id, ce, g, view'[d], line'[d], join, exit)
    PROVE  TakesTurn(d)
  BY LoopOutcome DEF TakesTurn

LEMMA SessionKnows ==
    ASSUME PatientInv, NEW d \in Doppelgangers, status[d] # "returned"
    PROVE  /\ Knows(chatID[d], cantExit[d], gone[d], view[d], line[d],
                    UnderWay("Join", d), UnderWay("Exit", d))
           /\ gone[d] \in BOOLEAN /\ cantExit[d] \in BOOLEAN
           /\ chatID[d] \in Channels \cup {NoChannel, Joining}
           /\ Commands(<<>>) = {}
           /\ line[d] # <<>> => Head(line[d]).cmd \in Commands(line[d])
<1>1. /\ gone \in [Doppelgangers -> BOOLEAN] /\ cantExit \in [Doppelgangers -> BOOLEAN]
      /\ chatID \in [Doppelgangers -> Channels \cup {NoChannel, Joining}]
      /\ line \in [Doppelgangers -> Seq(Lines)]
  BY PatientParts, TypeInvParts DEF LoopInv, LoopTypeOK, TelnetTypeOK
<1>2. Commands(<<>>) = {}
  BY ToSetOfEmpty DEF Commands
<1>3. line[d] # <<>> => Head(line[d]) \in ToSet(line[d])
  BY <1>1, ToSetType
<1> QED
  BY <1>1, <1>2, <1>3, PatientParts DEF SessionsKnow, Commands

\* A handler that may only write to the user, or send to its chat channel.
LEMMA WriteHandler ==
    ASSUME PatientInv, NEW d \in Doppelgangers, NEW g \in BOOLEAN, gone[d] => g,
           DoppMoves(d, chatID[d], masterQ), OnlyOf(d),
           view'[d] = view[d], line'[d] = line[d] \/ line'[d] = <<>>,
           \A i \in Goroutines : d \in Hearing(i) => d \in Hearing(i)'
    PROVE  \E join \in BOOLEAN, exit \in BOOLEAN :
               /\ Handler(d, g, chatID[d], cantExit[d], masterQ, join, exit)
               /\ Knows(chatID[d], cantExit[d], g, view'[d], line'[d], join, exit)
<1>1. PICK join \in BOOLEAN, exit \in BOOLEAN :
        (join <=> UnderWay("Join", d)) /\ (exit <=> UnderWay("Exit", d))
  OBVIOUS
<1>2. status[d] # "returned"
  BY DEF DoppMoves
<1>3. Knows(chatID[d], cantExit[d], g, view'[d], line'[d], join, exit)
  <2>1. CASE line'[d] = line[d]
    BY <1>1, <1>2, <2>1, SessionKnows DEF Knows
  <2>2. CASE line'[d] = <<>>
    BY <1>1, <1>2, <2>2, SessionKnows DEF Knows
  <2> QED
    BY <2>1, <2>2
<1>4. (Left("Join", d, masterQ) => join) /\ (Left("Exit", d, masterQ) => exit)
  BY <1>1, PlacesLeft DEF Kinds
<1>5. AsksFreely(d, chatID[d], masterQ) /\ KeepsSeat(d, chatID[d], masterQ)
  BY DEF AsksFreely, KeepsSeat
<1> QED
  BY <1>1, <1>3, <1>4, <1>5 DEF Handler, OnlyOf

LEMMA WriteTurn ==
    ASSUME PatientInv, PatientUsers, NEW d \in Doppelgangers,
           NEW g \in BOOLEAN, gone[d] => g, NEW prompt, OnlyWrites(d, g, prompt),
           DoppMoves(d, chatID[d], masterQ), OnlyOf(d),
           view'[d] = view[d], line'[d] = line[d] \/ line'[d] = <<>>,
           \A i \in Goroutines : d \in Hearing(i) => d \in Hearing(i)'
    PROVE  TakesTurn(d)
<1>1. status[d] # "returned"
  BY DEF DoppMoves
<1>2. cantExit[d] \in BOOLEAN
  BY <1>1, SessionKnows
<1>3. PICK join \in BOOLEAN, exit \in BOOLEAN :
        /\ Handler(d, g, chatID[d], cantExit[d], masterQ, join, exit)
        /\ Knows(chatID[d], cantExit[d], g, view'[d], line'[d], join, exit)
  BY WriteHandler
<1> QED
  BY <1>2, <1>3, HandlerEnds DEF OnlyWrites

\* A handler that asks the channel master for something.
LEMMA AskTurn ==
    ASSUME PatientInv, PatientUsers, NEW d \in Doppelgangers,
           NEW id, NEW ce \in BOOLEAN, NEW r \in ToMaster, NEW prompt,
           r.from = d, ~UnderWay("Join", d), ~UnderWay("Exit", d),
           r.op # "Join" => r.chan = chatID[d] /\ r.chan \in Channels,
           r.op # "Exit" => id = chatID[d] \/ chatID[d] \notin Channels,
           r.op = "Exit" => id = NoChannel,
           DoppMoves(d, id, Append(masterQ, r)), OnlyOf(d), UNCHANGED chatIn,
           Knows(id, ce, gone[d], view'[d], line'[d], r.op = "Join", r.op = "Exit"),
           EndOfLoop(d, gone[d], id, ce, Append(masterQ, r), prompt)
    PROVE  TakesTurn(d)
<1>1. PICK q : q = Append(masterQ, r)
  OBVIOUS
<1>2. PICK join \in BOOLEAN, exit \in BOOLEAN : (join <=> r.op = "Join") /\ (exit <=> r.op = "Exit")
  OBVIOUS
<1>3. masterQ \in Seq(ToMaster) /\ ToSet(q) = ToSet(masterQ) \cup {r} /\ r \in ToSet(q)
  BY <1>1, PatientParts, MailTypes, ToSetOfAppend
<1>4. AsksFreely(d, id, q)
  BY <1>1 DEF AsksFreely
<1>5. KeepsSeat(d, id, q)
  <2>1. chatID[d] \in Channels =>
            \/ id = chatID[d]
            \/ \E m \in ToSet(q) : m.op = "Exit" /\ m.from = d /\ m.chan = chatID[d]
    BY <1>3 DEF ToMaster
  <2>2. \A i \in Goroutines : d \in Hearing(i) => d \in Hearing(i)'
    BY DEF Hearing
  <2> QED
    BY <2>1, <2>2 DEF KeepsSeat
<1>6. \A o \in Kinds : Left(o, d, q) => r.op = o
  <2>1. \A o \in Kinds : ~UnderWay(o, d)
    BY DEF Kinds
  <2>2. \A o \in Kinds : ~Elsewhere(o, d)
    BY <2>1, PlacesLeft
  <2>3. \A o \in Kinds : ~QueuedFor(o, d)
    BY <2>1 DEF UnderWay, MatterAt, Places, Whereabouts
  <2> QED
    BY <1>3, <2>2, <2>3 DEF Left, QueuedFor
<1>7. (Left("Join", d, q) => join) /\ (Left("Exit", d, q) => exit)
  BY <1>2, <1>6 DEF Kinds
<1>8. Knows(id, ce, gone[d], view'[d], line'[d], join, exit)
  BY <1>2 DEF Knows
<1>9. gone[d] \in BOOLEAN
  BY SessionKnows DEF DoppMoves
<1>10. Handler(d, gone[d], id, ce, q, join, exit)
  BY <1>1, <1>4, <1>5, <1>7, <1>8 DEF Handler, OnlyOf
<1> QED
  BY <1>1, <1>8, <1>9, <1>10, HandlerEnds

\* A handler that takes the answer d has been waiting for.
LEMMA AnswerHandler ==
    ASSUME PatientInv, NEW d \in Doppelgangers, NEW g \in BOOLEAN, NEW id,
           NEW ce \in BOOLEAN, NEW o \in Kinds, NEW p \in {"reply", "mail"},
           MatterAt(o, d, p, NoGoroutine), ~MatterAt(o, d, p, NoGoroutine)',
           DoppMoves(d, id, masterQ), OnlyOf(d),
           Knows(id, ce, g, view'[d], line'[d], FALSE, FALSE) \/ Quits(d, id, masterQ),
           \A i \in Goroutines : d \in Hearing(i) =>
               d \in Hearing(i)' \/ (id \in Channels /\ running[id] = i)
    PROVE  Handler(d, g, id, ce, masterQ, FALSE, FALSE)
<1>1. ~Left("Join", d, masterQ) /\ ~Left("Exit", d, masterQ)
  BY NothingLeft
<1>2. chatID[d] \notin Channels
  <2>1. UnderWay(o, d)
    BY DEF UnderWay, Places, Whereabouts
  <2>2. status[d] # "returned"
    BY DEF DoppMoves
  <2> QED
    BY <2>1, <2>2, SessionKnows DEF Knows, Kinds
<1>3. KeepsSeat(d, id, masterQ) /\ AsksFreely(d, id, masterQ)
  BY <1>2 DEF KeepsSeat, AsksFreely
<1> QED
  BY <1>1, <1>3 DEF Handler, OnlyOf

LEMMA AnswerTurn ==
    ASSUME PatientInv, PatientUsers, NEW d \in Doppelgangers, NEW g \in BOOLEAN,
           NEW id, NEW ce \in BOOLEAN, NEW o \in Kinds, NEW p \in {"reply", "mail"}, NEW prompt,
           MatterAt(o, d, p, NoGoroutine), ~MatterAt(o, d, p, NoGoroutine)',
           DoppMoves(d, id, masterQ), OnlyOf(d),
           Knows(id, ce, g, view'[d], line'[d], FALSE, FALSE),
           \A i \in Goroutines : d \in Hearing(i) =>
               d \in Hearing(i)' \/ (id \in Channels /\ running[id] = i),
           EndOfLoop(d, g, id, ce, masterQ, prompt)
    PROVE  TakesTurn(d)
<1>1. Handler(d, g, id, ce, masterQ, FALSE, FALSE)
  BY AnswerHandler
<1> QED
  BY <1>1, HandlerEnds

LEMMA TakesLine ==
    ASSUME PatientInv, NEW d \in Doppelgangers, HasLine(d, Head(line[d]).cmd), TakeLine(d),
           UNCHANGED <<view, crash>>
    PROVE  /\ OnlyOf(d) /\ view'[d] = view[d] /\ line'[d] = <<>> /\ TakesOrLeaves(d)
           /\ UNCHANGED <<callback, chatIn, restOfMaster, restOfChat>>
           /\ status[d] = "selecting" /\ Head(line[d]).cmd \in Commands(line[d])
           /\ \A i \in Goroutines : d \in Hearing(i) => d \in Hearing(i)'
<1>1. line \in [Doppelgangers -> Seq(Lines)]
  BY PatientParts, TypeInvParts DEF TelnetTypeOK
<1>2. /\ status[d] = "selecting" /\ line[d] # <<>>
      /\ line' = [line EXCEPT ![d] = <<>>]
      /\ UNCHANGED <<callback, chatIn, restOfMaster, restOfChat, replyIn>>
  BY DEF HasLine, TakeLine
<1>3. Head(line[d]).cmd \in Commands(line[d])
  BY <1>2, SessionKnows
<1>4. OnlyOf(d) /\ line'[d] = <<>> /\ TakesOrLeaves(d)
  BY <1>1, <1>2 DEF OnlyOf, TakesOrLeaves
<1> QED
  BY <1>2, <1>3, <1>4 DEF Hearing

LEMMA TakenWrites ==
    ASSUME PatientInv, PatientUsers, NEW d \in Doppelgangers,
           HasLine(d, Head(line[d]).cmd), TakeLine(d), UNCHANGED <<view, crash>>,
           NEW g \in BOOLEAN, gone[d] => g, NEW prompt, OnlyWrites(d, g, prompt)
    PROVE  TakesTurn(d)
<1>1. /\ OnlyOf(d) /\ view'[d] = view[d] /\ line'[d] = <<>> /\ TakesOrLeaves(d)
      /\ UNCHANGED <<callback, restOfMaster, restOfChat>> /\ status[d] # "returned"
      /\ \A i \in Goroutines : d \in Hearing(i) => d \in Hearing(i)'
  BY TakesLine
<1>2. DoppMoves(d, chatID[d], masterQ)
  BY <1>1, PatientParts, WriteMoves
<1> QED
  BY <1>1, <1>2, WriteTurn

LEMMA WriteFailsIs ==
    ASSUME PatientInv, NEW d \in Doppelgangers, status[d] # "returned",
           NEW fails \in WriteFails(d)
    PROVE  (gone[d] \/ fails) \in BOOLEAN /\ (gone[d] => (gone[d] \/ fails))
  BY SessionKnows, WriteFailsType

LEMMA JoinTurn ==
    ASSUME PatientInv, PatientUsers, NEW d \in Doppelgangers, DoppJoin(d)
    PROVE  TakesTurn(d)
<1>1. /\ HasLine(d, Head(line[d]).cmd) /\ TakeLine(d) /\ UNCHANGED <<view, crash>>
      /\ Head(line[d]).cmd = "join" /\ status[d] # "returned"
  BY DEF DoppJoin, HasLine
<1>2. CASE \E fails \in WriteFails(d) : OnlyWrites(d, gone[d] \/ fails, TRUE)
  BY <1>1, <1>2, WriteFailsIs, TakenWrites
<1>3. CASE EndOfLoop(d, gone[d], Joining, cantExit[d],
                     Append(masterQ, Request("Join", d, Head(line[d]).chan)), FALSE)
  <2>1. PICK r : r = Request("Join", d, Head(line[d]).chan)
    OBVIOUS
  <2>2. r \in ToMaster /\ r.from = d /\ r.op = "Join"
    <3>1. Head(line[d]).chan \in Channels \cup {Nowhere}
      <4>1. line[d] \in Seq(Lines) /\ line[d] # <<>>
        BY <1>1, PatientParts, TypeInvParts DEF TelnetTypeOK, HasLine
      <4> QED
        BY <4>1 DEF Lines
    <3> QED
      BY <2>1, <3>1 DEF Request, ToMaster
  <2>3. EndOfLoop(d, gone[d], Joining, cantExit[d], Append(masterQ, r), FALSE)
    BY <1>3, <2>1
  <2>4. /\ OnlyOf(d) /\ view'[d] = view[d] /\ line'[d] = <<>>
        /\ UNCHANGED <<callback, chatIn, restOfMaster, restOfChat>>
        /\ "join" \in Commands(line[d])
    BY <1>1, TakesLine
  <2>5. DoppMoves(d, Joining, Append(masterQ, r))
    BY <1>1, <2>2, <2>3, <2>4, PatientParts, RequestMoves
  <2>6. /\ ~UnderWay("Join", d) /\ ~UnderWay("Exit", d) /\ chatID[d] \notin Channels
        /\ cantExit[d] \in BOOLEAN
    BY <1>1, <2>4, SessionKnows DEF Knows
  <2>7. Knows(Joining, cantExit[d], gone[d], view'[d], line'[d], r.op = "Join", r.op = "Exit")
    BY <1>1, <2>2, <2>4, SessionKnows, IdsAssumption DEF Knows, IdsAssumption
  <2> QED
    BY <2>2, <2>3, <2>4, <2>5, <2>6, <2>7, AskTurn
<1> QED
  BY <1>2, <1>3 DEF DoppJoin

LEMMA WhoTurn ==
    ASSUME PatientInv, PatientUsers, NEW d \in Doppelgangers, DoppWho(d)
    PROVE  TakesTurn(d)
<1>1. /\ HasLine(d, Head(line[d]).cmd) /\ TakeLine(d) /\ UNCHANGED <<view, crash>>
      /\ Head(line[d]).cmd = "who" /\ status[d] # "returned"
  BY DEF DoppWho, HasLine
<1>2. CASE \E fails \in WriteFails(d) : OnlyWrites(d, gone[d] \/ fails, TRUE)
  BY <1>1, <1>2, WriteFailsIs, TakenWrites
<1>3. CASE /\ chatID[d] # NoChannel
           /\ EndOfLoop(d, gone[d], chatID[d], cantExit[d],
                        Append(masterQ, Request("Who", d, chatID[d])), TRUE)
  <2>1. PICK r : r = Request("Who", d, chatID[d])
    OBVIOUS
  <2>2. /\ OnlyOf(d) /\ view'[d] = view[d] /\ line'[d] = <<>>
        /\ UNCHANGED <<callback, chatIn, restOfMaster, restOfChat>>
        /\ "who" \in Commands(line[d])
    BY <1>1, TakesLine
  <2>3. chatID[d] \in Channels /\ cantExit[d] \in BOOLEAN
    BY <1>1, <1>3, <2>2, SessionKnows DEF Knows
  <2>4. r \in ToMaster /\ r.from = d /\ r.op = "Who" /\ r.chan = chatID[d]
    BY <2>1, <2>3 DEF Request, ToMaster
  <2>5. EndOfLoop(d, gone[d], chatID[d], cantExit[d], Append(masterQ, r), TRUE)
    BY <1>3, <2>1
  <2>6. DoppMoves(d, chatID[d], Append(masterQ, r))
    BY <1>1, <2>2, <2>4, <2>5, PatientParts, RequestMoves
  <2>7. ~UnderWay("Join", d) /\ ~UnderWay("Exit", d)
    BY <1>1, <2>3, SessionKnows DEF Knows
  <2>8. Knows(chatID[d], cantExit[d], gone[d], view'[d], line'[d], r.op = "Join", r.op = "Exit")
    BY <1>1, <2>2, <2>4, SessionKnows DEF Knows
  <2> QED
    BY <2>2, <2>3, <2>4, <2>5, <2>6, <2>7, <2>8, AskTurn
<1> QED
  BY <1>2, <1>3 DEF DoppWho

LEMMA ExitTurn ==
    ASSUME PatientInv, PatientUsers, NEW d \in Doppelgangers, DoppExit(d)
    PROVE  TakesTurn(d)
<1>1. /\ HasLine(d, Head(line[d]).cmd) /\ TakeLine(d) /\ UNCHANGED <<view, crash>>
      /\ Head(line[d]).cmd = "exit" /\ status[d] # "returned"
  BY DEF DoppExit, HasLine
<1>2. CASE \E fails \in WriteFails(d) : OnlyWrites(d, gone[d] \/ fails, TRUE)
  BY <1>1, <1>2, WriteFailsIs, TakenWrites
<1>3. CASE /\ chatID[d] # NoChannel
           /\ EndOfLoop(d, gone[d], NoChannel, TRUE,
                        Append(masterQ, Request("Exit", d, chatID[d])), TRUE)
  <2>1. PICK r : r = Request("Exit", d, chatID[d])
    OBVIOUS
  <2>2. /\ OnlyOf(d) /\ view'[d] = view[d] /\ line'[d] = <<>>
        /\ UNCHANGED <<callback, chatIn, restOfMaster, restOfChat>>
        /\ "exit" \in Commands(line[d])
    BY <1>1, TakesLine
  <2>3. chatID[d] \in Channels
    BY <1>1, <1>3, <2>2, SessionKnows DEF Knows
  <2>4. r \in ToMaster /\ r.from = d /\ r.op = "Exit" /\ r.chan = chatID[d]
    BY <2>1, <2>3 DEF Request, ToMaster
  <2>5. EndOfLoop(d, gone[d], NoChannel, TRUE, Append(masterQ, r), TRUE)
    BY <1>3, <2>1
  <2>6. DoppMoves(d, NoChannel, Append(masterQ, r))
    BY <1>1, <2>2, <2>4, <2>5, PatientParts, RequestMoves
  <2>7. ~UnderWay("Join", d) /\ ~UnderWay("Exit", d)
    BY <1>1, <2>3, SessionKnows DEF Knows
  <2>8. Knows(NoChannel, TRUE, gone[d], view'[d], line'[d], r.op = "Join", r.op = "Exit")
    BY <1>1, <2>2, <2>3, <2>4, SessionKnows, IdsAssumption DEF Knows, IdsAssumption
  <2> QED
    BY <2>2, <2>3, <2>4, <2>5, <2>6, <2>7, <2>8, AskTurn
<1> QED
  BY <1>2, <1>3 DEF DoppExit

\* Who is on a channel talks to a goroutine that has not closed its go channels.
LEMMA SpeaksToOpen ==
    ASSUME PatientInv, NEW d \in Doppelgangers, status[d] # "returned", chatID[d] \in Channels
    PROVE  callback[d] \in Goroutines /\ chatState[callback[d]] = "running"
<1>1. running[chatID[d]] # NoGoroutine /\ running[chatID[d]] = callback[d]
  BY PatientParts DEF RelyInv, HoldersKeepTheirChannel
<1> QED
  BY <1>1, PatientParts, InChargeOf

LEMMA SayTurn ==
    ASSUME PatientInv, PatientUsers, NEW d \in Doppelgangers, DoppSay(d)
    PROVE  TakesTurn(d)
<1>1. /\ HasLine(d, Head(line[d]).cmd) /\ TakeLine(d) /\ UNCHANGED view
      /\ Head(line[d]).cmd = "say" /\ status[d] # "returned"
  BY DEF DoppSay, HasLine
<1>2. chatID[d] \in Channels \/ chatID[d] = NoChannel
  <2>1. line[d] # <<>>
    BY <1>1 DEF HasLine
  <2> QED
    BY <1>1, <2>1, SessionKnows DEF Knows
<1>3. gone[d] \in BOOLEAN /\ cantExit[d] \in BOOLEAN
  BY <1>1, SessionKnows
<1>4. PICK fails \in WriteFails(d) :
        \/ OnlyWrites(d, gone[d] \/ fails, chatID[d] = NoChannel) /\ UNCHANGED crash
        \/ chatID[d] # NoChannel /\ chatState[callback[d]] = "returned"
        \/ /\ chatID[d] # NoChannel /\ status' = [status EXCEPT ![d] = "blocked"]
           /\ UNCHANGED <<masterQ, gone, chatID, cantExit, crash>>
        \/ OnlyWrites(d, gone[d], FALSE) /\ UNCHANGED crash
  BY DEF DoppSay
<1>5. CASE OnlyWrites(d, gone[d] \/ fails, chatID[d] = NoChannel) /\ UNCHANGED crash
  BY <1>1, <1>5, WriteFailsIs, TakenWrites
<1>6. CASE chatID[d] # NoChannel /\ chatState[callback[d]] = "returned"
  BY <1>1, <1>2, <1>6, SpeaksToOpen
<1>7. CASE OnlyWrites(d, gone[d], FALSE) /\ UNCHANGED crash
  BY <1>1, <1>3, <1>7, TakenWrites
<1>8. CASE /\ chatID[d] # NoChannel /\ status' = [status EXCEPT ![d] = "blocked"]
           /\ UNCHANGED <<masterQ, gone, chatID, cantExit, crash>>
  <2>1. /\ OnlyOf(d) /\ view'[d] = view[d] /\ line'[d] = <<>> /\ TakesOrLeaves(d)
        /\ UNCHANGED <<callback, restOfMaster, restOfChat>>
        /\ \A i \in Goroutines : d \in Hearing(i) => d \in Hearing(i)'
    BY <1>1, <1>8, TakesLine
  <2>2. DoppMoves(d, chatID[d], masterQ)
    <3>1. chatID' = [chatID EXCEPT ![d] = chatID[d]]
      BY <1>8, PatientParts, MailTypes
    <3>2. LoopEnds(d, chatID[d], masterQ) /\ Asks(d, chatID[d], masterQ)
      BY <1>8, <3>1 DEF LoopEnds, Asks
    <3> QED
      BY <1>1, <2>1, <3>2, PatientParts, HandlerMoves
  <2>3. PICK join \in BOOLEAN, exit \in BOOLEAN :
          Handler(d, gone[d], chatID[d], cantExit[d], masterQ, join, exit)
    BY <1>3, <2>1, <2>2, WriteHandler
  <2>4. Outcome(d, gone[d], chatID[d], cantExit[d], masterQ)
    <3>1. status'[d] = "blocked"
      BY <1>8, PatientParts, MailTypes
    <3> QED
      BY <1>2, <1>8, <3>1 DEF Outcome, Stays
  <2> QED
    BY <1>3, <2>3, <2>4 DEF TakesTurn
<1> QED
  BY <1>4, <1>5, <1>6, <1>7, <1>8

\* Handlers that take no line and no message.
LEMMA ElseWrites ==
    ASSUME PatientInv, PatientUsers, NEW d \in Doppelgangers,
           status[d] # "returned",
           UNCHANGED <<callback, restOfMaster, restOfChat, replyIn, chatIn, telnetVars, crash>>,
           NEW g \in BOOLEAN, gone[d] => g, NEW prompt, OnlyWrites(d, g, prompt)
    PROVE  TakesTurn(d)
<1>1. OnlyOf(d) /\ view'[d] = view[d] /\ line'[d] = line[d] /\ TakesOrLeaves(d)
      /\ \A i \in Goroutines : d \in Hearing(i) => d \in Hearing(i)'
  BY DEF OnlyOf, TakesOrLeaves, telnetVars, Hearing
<1>2. DoppMoves(d, chatID[d], masterQ)
  BY <1>1, PatientParts, WriteMoves
<1> QED
  BY <1>1, <1>2, WriteTurn

LEMMA UnblockTurn ==
    ASSUME PatientInv, PatientUsers, NEW d \in Doppelgangers, DoppUnblocks(d)
    PROVE  TakesTurn(d)
<1>1. status[d] = "blocked"
  BY DEF DoppUnblocks
<1>2. chatID[d] \in Channels
  BY <1>1, PatientParts DEF SessionsKnow
<1>3. chatState[callback[d]] = "running" /\ gone[d] \in BOOLEAN
  BY <1>1, <1>2, SpeaksToOpen, SessionKnows
<1>4. /\ OnlyWrites(d, gone[d], FALSE)
      /\ UNCHANGED <<callback, restOfMaster, restOfChat, replyIn, chatIn, telnetVars, crash>>
  BY <1>3 DEF DoppUnblocks
<1> QED
  BY <1>1, <1>3, <1>4, ElseWrites

LEMMA ClosedTurn ==
    ASSUME PatientInv, PatientUsers, NEW d \in Doppelgangers,
           DoppEchoFails(d) \/ DoppSeesClosed(d)
    PROVE  TakesTurn(d)
<1>1. /\ status[d] # "returned" /\ OnlyWrites(d, TRUE, FALSE)
      /\ UNCHANGED <<callback, restOfMaster, restOfChat, replyIn, chatIn, telnetVars, crash>>
  BY DEF DoppEchoFails, DoppSeesClosed, chatVars, restOfChat
<1> QED
  BY <1>1, ElseWrites

LEMMA QuitTurn ==
    ASSUME PatientInv, PatientUsers, NEW d \in Doppelgangers, DoppQuit(d)
    PROVE  TakesTurn(d)
<1>1. /\ HasLine(d, Head(line[d]).cmd) /\ TakeLine(d) /\ UNCHANGED <<view, crash>>
      /\ OnlyWrites(d, TRUE, FALSE)
  BY DEF DoppQuit, HasLine
<1> QED
  BY <1>1, TakenWrites

\* The reply of the channel master, and the messages of chat channels.
LEMMA RefusalTurn ==
    ASSUME PatientInv, PatientUsers, NEW d \in Doppelgangers,
           DoppRefusedByMaster(d)
    PROVE  TakesTurn(d)
<1>1. /\ status[d] # "returned" /\ replyIn[d] > 0
      /\ replyIn' = [replyIn EXCEPT ![d] = @ - 1]
      /\ Sees(d, "off")
      /\ UNCHANGED <<callback, restOfMaster, restOfChat, chatIn, line, crash>>
  BY DEF DoppRefusedByMaster, chatVars, restOfChat
<1>2. /\ replyIn \in [Doppelgangers -> 0 .. 1]
      /\ view \in [Doppelgangers -> {"off", "asked", "on"}]
  BY PatientParts, TypeInvParts DEF MailTypeOK, TelnetTypeOK
<1>3. view'[d] = "off" /\ OnlyOf(d) /\ replyIn'[d] = 0 /\ TakesOrLeaves(d)
  BY <1>1, <1>2 DEF Sees, PatientUsers, OnlyOf, TakesOrLeaves
<1>4. PICK fails \in WriteFails(d) :
        EndOfLoop(d, gone[d] \/ fails, NoChannel, cantExit[d] /\ ~(gone[d] \/ fails), masterQ, TRUE)
  BY DEF DoppRefusedByMaster
<1>5. DoppMoves(d, NoChannel, masterQ)
  <2>1. LoopEnds(d, NoChannel, masterQ) /\ Asks(d, NoChannel, masterQ)
    BY <1>4, EndOfLoopEnds DEF Asks
  <2> QED
    BY <1>1, <1>3, <2>1, PatientParts, HandlerMoves
<1>6. /\ MatterAt("Join", d, "reply", NoGoroutine)
      /\ ~MatterAt("Join", d, "reply", NoGoroutine)' /\ "Join" \in Kinds
  BY <1>1, <1>3 DEF MatterAt, RepliedTo, Kinds
<1>7. UnderWay("Join", d)
  BY <1>6 DEF UnderWay, Places, Whereabouts
<1>8. PICK g \in BOOLEAN, ce \in BOOLEAN :
        /\ g = (gone[d] \/ fails) /\ ce = (cantExit[d] /\ ~(gone[d] \/ fails))
  OBVIOUS
<1>9. Knows(NoChannel, ce, g, view'[d], line'[d], FALSE, FALSE)
  BY <1>1, <1>3, <1>7, <1>8, SessionKnows, IdsAssumption DEF Knows, IdsAssumption
<1>10. \A i \in Goroutines : d \in Hearing(i) => d \in Hearing(i)'
  BY <1>1 DEF Hearing
<1> QED
  BY <1>3, <1>4, <1>5, <1>6, <1>8, <1>9, <1>10, AnswerTurn

LEMMA TakesMail ==
    ASSUME PatientInv, NEW d \in Doppelgangers, NEW op, TakeFromChat(d, op),
           \A e \in Doppelgangers \ {d} : view'[e] = view[e]
    PROVE  /\ status[d] # "returned" /\ OnlyOf(d) /\ TakesOrLeaves(d)
           /\ Head(chatIn[d]).op = op /\ Head(chatIn[d]) \in ToDoppelganger
           /\ chatIn[d] # <<>> /\ chatIn'[d] = Tail(chatIn[d])
           /\ ToSet(chatIn[d]) = {Head(chatIn[d])} /\ ToSet(chatIn'[d]) = {}
           /\ line'[d] = line[d]
           /\ UNCHANGED <<restOfMaster, restOfChat, running>>
<1>1. /\ chatIn \in [Doppelgangers -> Seq(ToDoppelganger)] /\ chatIn[d] \in Seq(ToDoppelganger)
      /\ Len(chatIn[d]) <= 1
  BY PatientParts, MailTypes DEF RosterInv, OneMessageOfBuffer
<1>2. /\ status[d] # "returned" /\ chatIn[d] # <<>> /\ Head(chatIn[d]).op = op
      /\ chatIn' = [chatIn EXCEPT ![d] = Tail(@)]
      /\ UNCHANGED <<restOfMaster, restOfChat, replyIn, line, crash>>
  BY DEF TakeFromChat, chatVars, restOfChat
<1>3. Tail(chatIn[d]) = <<>> /\ ToSet(chatIn[d]) = {Head(chatIn[d])}
  BY <1>1, <1>2, TailOfOne
<1>4. Head(chatIn[d]) \in ToDoppelganger
  BY <1>1, <1>2
<1>5. chatIn'[d] = Tail(chatIn[d]) /\ ToSet(chatIn'[d]) = {}
  BY <1>1, <1>2, <1>3, ToSetOfEmpty
<1> QED
  BY <1>2, <1>3, <1>4, <1>5 DEF OnlyOf, TakesOrLeaves, restOfMaster

LEMMA MailWrites ==
    ASSUME PatientInv, NEW d \in Doppelgangers, NEW op, TakeFromChat(d, op),
           \A e \in Doppelgangers \ {d} : view'[e] = view[e], UNCHANGED callback,
           NEW g, NEW prompt, OnlyWrites(d, g, prompt)
    PROVE  DoppMoves(d, chatID[d], masterQ)
  BY TakesMail, PatientParts, WriteMoves

LEMMA MailOf ==
    ASSUME PatientInv, NEW d \in Doppelgangers, NEW op, TakeFromChat(d, op),
           \A e \in Doppelgangers \ {d} : view'[e] = view[e],
           NEW o \in Kinds, Ends(o, d, Head(chatIn[d]))
    PROVE  /\ MatterAt(o, d, "mail", NoGoroutine) /\ ~MatterAt(o, d, "mail", NoGoroutine)'
           /\ UnderWay(o, d) /\ chatID[d] \notin Channels
           /\ \A o2 \in Kinds : UnderWay(o2, d) => o2 = o
<1>1. ToSet(chatIn[d]) = {Head(chatIn[d])} /\ ToSet(chatIn'[d]) = {} /\ status[d] # "returned"
  BY TakesMail
<1>2. MatterAt(o, d, "mail", NoGoroutine) /\ ~MatterAt(o, d, "mail", NoGoroutine)'
  BY <1>1 DEF MatterAt, MailedTo
<1>3. UnderWay(o, d)
  BY <1>2 DEF UnderWay, Places, Whereabouts
<1>4. chatID[d] \notin Channels
  BY <1>1, <1>3, SessionKnows DEF Knows, Kinds
<1>5. \A o2 \in Kinds : UnderWay(o2, d) => o2 = o
  BY <1>2, PatientParts DEF OneMatter, UnderWay, Places, Whereabouts
<1> QED
  BY <1>2, <1>3, <1>4, <1>5

LEMMA TextTurn ==
    ASSUME PatientInv, PatientUsers, NEW d \in Doppelgangers,
           DoppText(d) \/ DoppHearsExit(d)
    PROVE  TakesTurn(d)
<1>1. PICK op \in {"Text", "TextExit"}, fails \in WriteFails(d) :
        TakeFromChat(d, op) /\ OnlyWrites(d, gone[d] \/ fails, TRUE)
  BY DEF DoppText, DoppHearsExit
<1>2. UNCHANGED <<callback, view>>
  BY DEF DoppText, DoppHearsExit
<1>3. /\ status[d] # "returned" /\ OnlyOf(d) /\ Head(chatIn[d]).op = op
      /\ ToSet(chatIn[d]) = {Head(chatIn[d])} /\ line'[d] = line[d]
  BY <1>1, <1>2, TakesMail
<1>4. DoppMoves(d, chatID[d], masterQ)
  BY <1>1, <1>2, MailWrites
<1>5. \A i \in Goroutines : d \notin Hearing(i)
  BY <1>1, <1>3 DEF Hearing
<1> QED
  BY <1>1, <1>2, <1>3, <1>4, <1>5, WriteFailsIs, WriteTurn

LEMMA ViewAfter ==
    ASSUME PatientInv, PatientUsers, NEW d \in Doppelgangers, NEW what, Sees(d, what)
    PROVE  view'[d] = what /\ \A e \in Doppelgangers \ {d} : view'[e] = view[e]
<1>1. view \in [Doppelgangers -> {"off", "asked", "on"}]
  BY PatientParts, TypeInvParts DEF TelnetTypeOK
<1> QED
  BY <1>1 DEF Sees, PatientUsers

LEMMA DeniedTurn ==
    ASSUME PatientInv, PatientUsers, NEW d \in Doppelgangers,
           DoppRefusedByChat(d)
    PROVE  TakesTurn(d)
<1>1. /\ TakeFromChat(d, "JoinDenied") /\ UNCHANGED callback
      /\ view'[d] = "off" /\ \A e \in Doppelgangers \ {d} : view'[e] = view[e]
  BY ViewAfter DEF DoppRefusedByChat
<1>2. PICK fails \in WriteFails(d) : OnlyWrites(d, gone[d] \/ fails, TRUE)
  BY DEF DoppRefusedByChat
<1>3. /\ status[d] # "returned" /\ OnlyOf(d) /\ Head(chatIn[d]).op = "JoinDenied"
      /\ ToSet(chatIn[d]) = {Head(chatIn[d])} /\ line'[d] = line[d]
  BY <1>1, TakesMail
<1>4. DoppMoves(d, chatID[d], masterQ)
  BY <1>1, <1>2, MailWrites
<1>5. "Join" \in Kinds /\ Ends("Join", d, Head(chatIn[d]))
  BY <1>3 DEF Kinds, Ends
<1>6. /\ MatterAt("Join", d, "mail", NoGoroutine) /\ ~MatterAt("Join", d, "mail", NoGoroutine)'
      /\ UnderWay("Join", d) /\ chatID[d] \notin Channels
  BY <1>1, <1>5, MailOf
<1>7. PICK g \in BOOLEAN : g = (gone[d] \/ fails) /\ (gone[d] => g)
  BY <1>3, WriteFailsIs
<1>8. Knows(chatID[d], cantExit[d], g, view'[d], line'[d], FALSE, FALSE)
  BY <1>1, <1>3, <1>6, <1>7, SessionKnows DEF Knows
<1>9. \A i \in Goroutines : d \notin Hearing(i)
  BY <1>3 DEF Hearing
<1>10. cantExit[d] \in BOOLEAN /\ EndOfLoop(d, g, chatID[d], cantExit[d], masterQ, TRUE)
  BY <1>2, <1>3, <1>7, SessionKnows DEF OnlyWrites
<1> QED
  BY <1>3, <1>4, <1>5, <1>6, <1>8, <1>9, <1>10, AnswerTurn

LEMMA JoinedTurn ==
    ASSUME PatientInv, PatientUsers, NEW d \in Doppelgangers, DoppJoined(d)
    PROVE  TakesTurn(d)
<1>1. /\ TakeFromChat(d, "Joined")
      /\ view'[d] = "on" /\ \A e \in Doppelgangers \ {d} : view'[e] = view[e]
      /\ callback' = [callback EXCEPT ![d] = Head(chatIn[d]).by]
  BY ViewAfter DEF DoppJoined
<1>2. PICK m \in ToDoppelganger, i \in Goroutines : m = Head(chatIn[d]) /\ i = m.by
  BY <1>1, TakesMail DEF ToDoppelganger
<1>3. /\ status[d] # "returned" /\ OnlyOf(d) /\ TakesOrLeaves(d) /\ m.op = "Joined"
      /\ ToSet(chatIn[d]) = {m} /\ line'[d] = line[d]
      /\ chatIn[d] # <<>> /\ chatIn'[d] = Tail(chatIn[d])
      /\ UNCHANGED <<restOfMaster, restOfChat, running>>
  BY <1>1, <1>2, TakesMail
<1>4. PICK c \in Channels : running[c] = i /\ i # NoGoroutine /\ chanOf[i] = c
  <2>1. InCharge(i)
    BY <1>2, <1>3, PatientParts DEF RelyInv, VerdictsStand
  <2>2. i # NoGoroutine
    BY PatientParts, TypeInvFacts
  <2> QED
    BY <2>1, <2>2, PatientParts, InChargeOf DEF InCharge
<1>5. PICK fails \in WriteFails(d) :
        EndOfLoop(d, gone[d] \/ fails, c, cantExit[d] /\ ~(gone[d] \/ fails), masterQ, TRUE)
  BY <1>2, <1>4 DEF DoppJoined
<1>6. DoppMoves(d, c, masterQ)
  <2>1. callback'[d] = i /\ \A e \in Doppelgangers \ {d} : callback'[e] = callback[e]
    BY <1>1, <1>2, PatientParts, MailTypes
  <2>2. d \in Hearing(i)
    BY <1>2, <1>3 DEF Hearing
  <2>3. Onto(d, c)
    BY <1>3, <1>4, <2>1, <2>2 DEF Onto
  <2>4. LoopEnds(d, c, masterQ) /\ Asks(d, c, masterQ)
    BY <1>5, EndOfLoopEnds DEF Asks
  <2>5. \A e \in Doppelgangers \ {d} : chatIn'[e] = chatIn[e]
    BY <1>3, PatientParts, TakesOrLeavesParts
  <2> QED
    BY <1>3, <2>1, <2>3, <2>4, <2>5 DEF DoppMoves
<1>7. "Join" \in Kinds /\ Ends("Join", d, Head(chatIn[d]))
  BY <1>2, <1>3 DEF Kinds, Ends
<1>8. /\ MatterAt("Join", d, "mail", NoGoroutine) /\ ~MatterAt("Join", d, "mail", NoGoroutine)'
      /\ UnderWay("Join", d)
  BY <1>1, <1>7, MailOf
<1>9. PICK g \in BOOLEAN, ce \in BOOLEAN :
        /\ g = (gone[d] \/ fails) /\ ce = (cantExit[d] /\ ~(gone[d] \/ fails))
  OBVIOUS
<1>10. Knows(c, ce, g, view'[d], line'[d], FALSE, FALSE)
  BY <1>1, <1>3, <1>8, <1>9, SessionKnows, IdsAssumption DEF Knows, IdsAssumption
<1>11. \A j \in Goroutines : d \in Hearing(j) => c \in Channels /\ running[c] = j
  BY <1>2, <1>3, <1>4 DEF Hearing
<1> QED
  BY <1>3, <1>5, <1>6, <1>7, <1>8, <1>9, <1>10, <1>11, AnswerTurn

LEMMA OwnExitTurn ==
    ASSUME PatientInv, PatientUsers, NEW d \in Doppelgangers, DoppOwnExit(d)
    PROVE  TakesTurn(d)
<1>1. /\ TakeFromChat(d, "TextExit") /\ UNCHANGED callback /\ Head(chatIn[d]).leaving = d
      /\ view'[d] = "off" /\ \A e \in Doppelgangers \ {d} : view'[e] = view[e]
  BY ViewAfter DEF DoppOwnExit
<1>2. /\ status[d] # "returned" /\ OnlyOf(d) /\ TakesOrLeaves(d)
      /\ Head(chatIn[d]).op = "TextExit"
      /\ ToSet(chatIn[d]) = {Head(chatIn[d])} /\ line'[d] = line[d]
      /\ UNCHANGED <<restOfMaster, restOfChat, callback>>
  BY <1>1, TakesMail
<1>3. "Exit" \in Kinds /\ "Join" \in Kinds /\ Ends("Exit", d, Head(chatIn[d]))
  BY <1>1 DEF Kinds, Ends
<1>4. /\ MatterAt("Exit", d, "mail", NoGoroutine) /\ ~MatterAt("Exit", d, "mail", NoGoroutine)'
      /\ UnderWay("Exit", d) /\ chatID[d] \notin Channels /\ ~UnderWay("Join", d)
  BY <1>1, <1>3, MailOf DEF Kinds
<1>5. \A i \in Goroutines : d \notin Hearing(i)
  BY <1>2 DEF Hearing
<1>6. CASE gone[d] /\ Settles(d, "returned", TRUE, chatID[d], cantExit[d], cantExitCount[d], masterQ)
  <2>1. DoppMoves(d, chatID[d], masterQ)
    <3>1. LoopEnds(d, chatID[d], masterQ) /\ Asks(d, chatID[d], masterQ)
      BY <1>6 DEF Settles, LoopEnds, Asks
    <3> QED
      BY <1>2, <3>1, PatientParts, HandlerMoves
  <2>2. ~Left("Join", d, masterQ) /\ ~Left("Exit", d, masterQ)
    BY <1>2, <1>3, <1>4, <2>1, NothingLeft
  <2>3. /\ status'[d] = "returned" /\ masterQ' = masterQ
        /\ \A e \in Doppelgangers \ {d} : gone'[e] = gone[e] /\ cantExit'[e] = cantExit[e]
    <3>1. /\ status \in [Doppelgangers -> {"selecting", "blocked", "returned"}]
          /\ gone \in [Doppelgangers -> BOOLEAN] /\ cantExit \in [Doppelgangers -> BOOLEAN]
      BY PatientParts, TypeInvParts DEF LoopInv, LoopTypeOK
    <3> QED
      BY <1>6, <3>1 DEF Settles
  <2>4. Quits(d, chatID[d], masterQ)
    BY <1>4, <2>2, <2>3 DEF Quits
  <2>5. cantExit[d] \in BOOLEAN /\ gone[d] \in BOOLEAN
    BY <1>2, SessionKnows
  <2>6. Handler(d, gone[d], chatID[d], cantExit[d], masterQ, FALSE, FALSE)
    BY <1>2, <1>3, <1>4, <1>5, <2>1, <2>4, <2>5, AnswerHandler
  <2>7. Outcome(d, gone[d], chatID[d], cantExit[d], masterQ)
    BY <2>3, <2>4 DEF Outcome
  <2> QED
    BY <2>5, <2>6, <2>7 DEF TakesTurn
<1>7. ASSUME ~gone[d], NEW fails \in WriteFails(d),
             EndOfLoop(d, fails, NoChannel, FALSE, masterQ, TRUE)
      PROVE  TakesTurn(d)
  <2>1. DoppMoves(d, NoChannel, masterQ)
    <3>1. LoopEnds(d, NoChannel, masterQ) /\ Asks(d, NoChannel, masterQ)
      BY <1>7, EndOfLoopEnds DEF Asks
    <3> QED
      BY <1>2, <3>1, PatientParts, HandlerMoves
  <2>2. fails \in BOOLEAN
    BY <1>7, WriteFailsType
  <2>3. Knows(NoChannel, FALSE, fails, view'[d], line'[d], FALSE, FALSE)
    BY <1>1, <1>2, <1>4, <1>7, SessionKnows, IdsAssumption DEF Knows, IdsAssumption
  <2> QED
    BY <1>2, <1>3, <1>4, <1>5, <1>7, <2>1, <2>2, <2>3, AnswerTurn
<1> QED
  BY <1>6, <1>7 DEF DoppOwnExit

LEMMA DoppTurn ==
    ASSUME PatientInv, PatientUsers, NEW d \in Doppelgangers, DoppStep(d)
    PROVE  TakesTurn(d)
  BY ClosedTurn, JoinTurn, WhoTurn, ExitTurn, SayTurn, UnblockTurn, QuitTurn,
     RefusalTurn, DeniedTurn, JoinedTurn, TextTurn, OwnExitTurn DEF DoppStep

LEMMA DoppStepKeepsPatience ==
    ASSUME PatientInv, PatientUsers, AccountsInv', NEW d \in Doppelgangers, DoppStep(d)
    PROVE  PatientRest'
  BY DoppTurn, HandlerKeeps DEF TakesTurn

-----------------------------------------------------------------------------
(***************************************************************************)
(* The steps of the Telnet goroutine, of the user and of the network touch *)
(* no goroutine of the chat, only what a user has typed and waits for.     *)
(***************************************************************************)
LEMMA ChatStays ==
    ASSUME PatientInv, UNCHANGED <<masterVars, chatVars, doppVars, crash>>
    PROVE  /\ SessionsKnow' => PatientRest'
           /\ \A d \in Doppelgangers, o \in Kinds : UnderWay(o, d)' => UnderWay(o, d)
<1>1. UNCHANGED <<masterQ, denialQ, memberCount, running, masterTodo, masterReplies, masterUp,
                  inbox, memberList, todo, status, chatID, callback, replyIn, chatIn, crash>>
  BY DEF masterVars, chatVars, doppVars
<1>2. \A d \in Doppelgangers : NoNewMatter(d)
  <2>1. \A d \in Doppelgangers, o \in Kinds :
            /\ QueuedFor(o, d)' => QueuedFor(o, d)
            /\ HeldFor(o, d)' => HeldFor(o, d)
            /\ RepliedTo(o, d)' => RepliedTo(o, d)
            /\ MailedTo(o, d)' => MailedTo(o, d)
            /\ \A i \in Goroutines :
                /\ PostedFor(o, i, d)' => PostedFor(o, i, d)
                /\ HandledFor(o, i, d)' => HandledFor(o, i, d)
    BY <1>1 DEF QueuedFor, HeldFor, RepliedTo, MailedTo, PostedFor, HandledFor
  <2> QED
    BY <2>1, PlacesShrink
<1>3. /\ OneMatter'
      /\ \A d \in Doppelgangers, o \in Kinds : UnderWay(o, d)' => UnderWay(o, d)
  BY <1>2, PatientParts, MattersStay
<1>4. NothingBehind'
  BY <1>1, PatientParts DEF NothingBehind
<1>5. \A c, d : ExitAsked(c, d)' <=> ExitAsked(c, d)
  BY <1>1 DEF ExitAsked
<1>6. SeatsAreTaken' /\ RepliesReach'
  BY <1>1, <1>5, PatientParts, SeatsStay, RepliesStay
<1>7. masterUp' /\ NoCrash' /\ CountMatchesRoster' /\ EntriesCount'
  BY <1>1, PatientParts, AccountsStay DEF NoCrash
<1> QED
  BY <1>3, <1>4, <1>6, <1>7 DEF PatientRest

\* Where only the network and the counts of lines change, sessions know what they did.
LEMMA ElsewhereKeeps ==
    ASSUME PatientInv, UNCHANGED <<masterVars, chatVars, doppVars, crash, view, line>>
    PROVE  PatientRest'
<1>1. UNCHANGED <<status, chatID, cantExit, gone, view, line>>
  BY DEF doppVars
<1> QED
  BY <1>1, PatientParts, SessionsStay, ChatStays

(***************************************************************************)
(* A patient user types a join only when on no channel and an exit, /who   *)
(* or speech only when on one, and so with nothing under way.              *)
(***************************************************************************)
LEMMA TypingKeeps ==
    ASSUME PatientInv, PatientUsers, NEW d \in Doppelgangers, UserTypes(d)
    PROVE  PatientRest'
<1>1. PICK l \in Offered :
        /\ MayType(d, l) /\ line' = [line EXCEPT ![d] = <<l>>]
        /\ view' = [view EXCEPT ![d] = IF l.cmd \in {"join", "exit"} THEN "asked" ELSE @]
  BY DEF UserTypes, PatientUsers
<1>2. UNCHANGED <<masterVars, chatVars, doppVars, crash>>
  BY DEF UserTypes, othersOfTelnet
<1>3. /\ line \in [Doppelgangers -> Seq(Lines)]
      /\ view \in [Doppelgangers -> {"off", "asked", "on"}]
      /\ cantExit \in [Doppelgangers -> BOOLEAN] /\ gone \in [Doppelgangers -> BOOLEAN]
  BY PatientParts, TypeInvParts DEF LoopInv, LoopTypeOK, TelnetTypeOK
<1>4. /\ line'[d] = <<l>> /\ Commands(<<l>>) = {l.cmd}
      /\ \A e \in Doppelgangers \ {d} : line'[e] = line[e] /\ view'[e] = view[e]
      /\ view'[d] = IF l.cmd \in {"join", "exit"} THEN "asked" ELSE view[d]
  <2>1. ToSet(<<l>>) = {l}
    BY ToSetOfOne
  <2> QED
    BY <1>1, <1>3, <2>1 DEF Commands
<1>5. /\ l.cmd \in {"join", "exit", "who", "say", "quit"}
      /\ \/ l.cmd = "quit"
         \/ l.cmd = "join" /\ view[d] = "off"
         \/ l.cmd \in {"exit", "who", "say"} /\ view[d] = "on"
  BY <1>1, OfferedAssumption DEF OfferedAssumption, MayType, PatientUsers, Lines
<1>6. UNCHANGED <<status, chatID, cantExit, gone>>
  BY <1>2 DEF doppVars
<1>7. \A e \in Doppelgangers, o \in Kinds : UnderWay(o, e)' => UnderWay(o, e)
  BY <1>2, ChatStays
<1>8. ASSUME NEW e \in Doppelgangers
      PROVE  IF status[e] = "returned"
             THEN ~UnderWay("Join", e)' /\ ~UnderWay("Exit", e)'
             ELSE /\ Knows(chatID[e], cantExit[e], gone[e], view'[e], line'[e],
                           UnderWay("Join", e)', UnderWay("Exit", e)')
                  /\ status[e] = "blocked" => chatID[e] \in Channels
  <2>1. /\ UnderWay("Join", e)' => UnderWay("Join", e)
        /\ UnderWay("Exit", e)' => UnderWay("Exit", e)
    BY <1>7 DEF Kinds
  <2>2. CASE e # d \/ status[e] = "returned"
    BY <1>4, <2>1, <2>2, PatientParts DEF SessionsKnow, Knows
  <2>3. CASE e = d /\ status[d] # "returned"
    <3>1. /\ Knows(chatID[d], cantExit[d], gone[d], view[d], line[d],
                   UnderWay("Join", d), UnderWay("Exit", d))
          /\ status[d] = "blocked" => chatID[d] \in Channels
      BY <2>3, PatientParts DEF SessionsKnow
    <3>2. CASE l.cmd = "quit"
      BY <1>4, <2>1, <2>3, <3>1, <3>2 DEF Knows
    <3>3. CASE l.cmd = "join" /\ view[d] = "off"
      BY <1>4, <2>1, <2>3, <3>1, <3>3 DEF Knows
    <3>4. CASE l.cmd = "exit" /\ view[d] = "on"
      BY <1>4, <2>1, <2>3, <3>1, <3>4 DEF Knows
    <3>5. CASE l.cmd \in {"who", "say"} /\ view[d] = "on"
      BY <1>4, <2>1, <2>3, <3>1, <3>5 DEF Knows
    <3> QED
      BY <1>5, <3>2, <3>3, <3>4, <3>5
  <2> QED
    BY <2>2, <2>3
<1>9. SessionsKnow'
  BY <1>6, <1>8 DEF SessionsKnow
<1> QED
  BY <1>2, <1>9, ChatStays

-----------------------------------------------------------------------------
LEMMA InitPatience == Init => PatientInv
<1> SUFFICES ASSUME Init PROVE PatientInv
  OBVIOUS
<1>1. AccountsInv
  BY InitAccounts
<1>2. /\ \A i \in Goroutines : inbox[i] = <<>> /\ todo[i] = <<>> /\ memberList[i] = {}
      /\ \A d \in Doppelgangers :
            /\ chatIn[d] = <<>> /\ chatID[d] = NoChannel /\ status[d] = "selecting"
            /\ replyIn[d] = 0 /\ cantExit[d] = FALSE /\ gone[d] = FALSE
            /\ line[d] = <<>> /\ view[d] = "off"
      /\ \A c \in Channels : running[c] = NoGoroutine /\ memberCount[c] = 0
      /\ masterQ = <<>> /\ masterTodo = <<>> /\ masterReplies = <<>>
      /\ masterUp /\ crash = "none"
  BY DEF Init
<1>3. \A d \in Doppelgangers, o \in Kinds : \A p, i : ~MatterAt(o, d, p, i)
  <2>1. \A d \in Doppelgangers, o \in Kinds :
            /\ ~QueuedFor(o, d) /\ ~HeldFor(o, d) /\ ~RepliedTo(o, d) /\ ~MailedTo(o, d)
            /\ \A i \in Goroutines : ~PostedFor(o, i, d) /\ ~HandledFor(o, i, d)
    BY <1>2, ToSetOfEmpty DEF QueuedFor, HeldFor, RepliedTo, MailedTo, PostedFor, HandledFor
  <2> QED
    BY <2>1 DEF MatterAt
<1>4. OneMatter /\ \A d \in Doppelgangers, o \in Kinds : ~UnderWay(o, d)
  BY <1>3 DEF OneMatter, UnderWay
<1>5. NothingBehind
  BY <1>2, NothingSaid DEF NothingBehind, NoneBehind
<1>6. SessionsKnow
  <2>1. ASSUME NEW d \in Doppelgangers
        PROVE  Knows(chatID[d], cantExit[d], gone[d], view[d], line[d],
                     UnderWay("Join", d), UnderWay("Exit", d))
    <3>1. ~UnderWay("Join", d) /\ ~UnderWay("Exit", d) /\ Commands(line[d]) = {}
      BY <1>2, <1>4, ToSetOfEmpty DEF Kinds, Commands
    <3>2. chatID[d] \notin Channels /\ chatID[d] # Joining
      BY <1>2, IdsAssumption, IdsDiffer DEF IdsAssumption
    <3> QED
      BY <1>2, <3>1, <3>2 DEF Knows
  <2> QED
    BY <1>2, <2>1 DEF SessionsKnow
<1>7. NoGoroutine \notin Goroutines
  BY DEF NoGoroutine, Goroutines
<1>8. SeatsAreTaken
  <2>1. \A i \in Goroutines, d \in Doppelgangers : ~Belongs(i, d) /\ ~TakenOff(i, d)
    BY <1>2, <1>7, ToSetOfEmpty DEF Belongs, Hearing, PostedFor, TakenOff
  <2> QED
    BY <1>2, <2>1 DEF SeatsAreTaken
<1>9. RepliesReach
  BY <1>2, ToSetOfEmpty, NothingSaid DEF RepliesReach
<1>10. CountMatchesRoster /\ EntriesCount
  BY <1>2 DEF CountMatchesRoster, EntriesCount, Accounted
<1> QED
  BY <1>1, <1>2, <1>4, <1>5, <1>6, <1>8, <1>9, <1>10 DEF PatientInv, NoCrash

LEMMA NextPatience == PatientUsers /\ PatientInv /\ [Next]_vars => PatientInv'
<1> SUFFICES ASSUME PatientUsers, PatientInv, [Next]_vars PROVE PatientInv'
  OBVIOUS
<1>1. AccountsInv'
  BY NextAccounts DEF PatientInv
<1>2. PatientRest'
  <2>1. CASE MasterStep
    BY <1>1, <2>1, RequestKeepsPatience, DenialKeepsPatience, SendKeepsPatience,
       ReplyKeepsPatience, LaunchKeepsPatience DEF MasterStep
  <2>2. ASSUME NEW i \in Goroutines, ChatStep(i)
        PROVE  PatientRest'
    BY <1>1, <2>2, TakeKeepsPatience, TellKeepsPatience, DeliveryKeepsPatience DEF ChatStep
  <2>3. ASSUME NEW d \in Doppelgangers, DoppStep(d)
        PROVE  PatientRest'
    BY <1>1, <2>3, DoppStepKeepsPatience
  <2>4. ASSUME NEW d \in Doppelgangers, TelnetStep(d) \/ Environment(d)
        PROVE  PatientRest'
    <3>1. CASE UserTypes(d)
      BY <3>1, TypingKeeps
    <3>2. CASE ReadFails(d) \/ ServerClosesConnection(d) \/ ConnectionDrops(d)
      <4>1. UNCHANGED <<masterVars, chatVars, doppVars, crash, view, line>>
        BY <3>2 DEF ReadFails, ServerClosesConnection, ConnectionDrops, othersOfTelnet
      <4> QED
        BY <4>1, ElsewhereKeeps
    <3> QED
      BY <2>4, <3>1, <3>2 DEF TelnetStep, Environment
  <2>5. CASE StaysIdle \/ UNCHANGED vars
    <3>1. UNCHANGED <<masterVars, chatVars, doppVars, crash, view, line>>
      BY <2>5 DEF StaysIdle, vars, telnetVars
    <3> QED
      BY <3>1, ElsewhereKeeps
  <2> QED
    BY <2>1, <2>2, <2>3, <2>4, <2>5 DEF Next
<1> QED
  BY <1>1, <1>2 DEF PatientInv, PatientRest

(***************************************************************************)
(* For any number of doppelgangers, channels and goroutines, any buffers   *)
(* and seats: where users wait for their answers, look-ups do not fail and *)
(* messages are in time, of each doppelganger one join or exit is under    *)
(* way at most, the rosters are of those who are on the channels, and the  *)
(* counts are exact.                                                       *)
(***************************************************************************)
THEOREM PatienceKept == PatientUsers => (Spec => []PatientInv)
<1> SUFFICES ASSUME PatientUsers PROVE Spec => []PatientInv
  OBVIOUS
<1>1. Init => PatientInv
  BY InitPatience
<1>2. PatientInv /\ [Next]_vars => PatientInv'
  BY NextPatience
<1> QED
  BY <1>1, <1>2, PTL DEF Spec

-----------------------------------------------------------------------------
\* Who has returned has nothing under way and no seat.
LEMMA ReturnedIsQuiet ==
    ASSUME PatientInv, NEW d \in Doppelgangers, status[d] = "returned"
    PROVE  /\ \A o \in Kinds :
                /\ ~QueuedFor(o, d) /\ ~HeldFor(o, d)
                /\ \A i \in Goroutines : ~PostedFor(o, i, d)
           /\ \A c \in Channels : ~Counts(c, d) /\ ~AsksWho(d, c)
           /\ \A i \in Goroutines : ~Belongs(i, d)
<1>1. ASSUME NEW o \in Kinds, NEW p \in Places, NEW i \in Whereabouts, MatterAt(o, d, p, i)
      PROVE  FALSE
  BY <1>1, NoClaims
<1>2. ASSUME NEW o \in Kinds
      PROVE  /\ ~QueuedFor(o, d) /\ ~HeldFor(o, d)
             /\ \A i \in Goroutines : ~PostedFor(o, i, d)
  BY <1>1 DEF MatterAt, Places, Whereabouts
<1>3. \A c \in Channels : d \notin Holders(c) /\ ~ExitAsked(c, d) /\ ~AsksWho(d, c)
  <2>1. ~QueuedFor("Exit", d) /\ ~HeldFor("Exit", d)
    BY <1>2 DEF Kinds
  <2> QED
    BY <2>1 DEF Holders, ExitAsked, AsksWho, QueuedFor, HeldFor
<1>4. \A i \in Goroutines : ~Belongs(i, d)
  BY BelongsHere
<1> QED
  BY <1>2, <1>3, <1>4 DEF Counts

LEMMA NothingIsSentToReturned == PatientInv => NothingSentToReturned
<1> SUFFICES ASSUME PatientInv, NEW d \in Doppelgangers, status[d] = "returned"
             PROVE  /\ \A k \in DOMAIN masterQ :
                        masterQ[k].from # d \/ masterQ[k].op = "Exit"
                    /\ \A k \in DOMAIN masterTodo :
                        masterTodo[k].who # d \/ masterTodo[k].op = "Shutdown"
                    /\ \A k \in DOMAIN masterReplies : masterReplies[k] # d
                    /\ \A i \in Goroutines :
                        /\ chatState[i] = "running" /\ d \in memberList[i] =>
                            \E k \in DOMAIN todo[i] : todo[i][k].leaving = d
                        /\ \A k \in DOMAIN inbox[i] :
                            inbox[i][k].who # d \/ inbox[i][k].op = "Shutdown"
                        /\ \A k \in DOMAIN todo[i] : todo[i][k].to # d
  BY DEF NothingSentToReturned
<1>1. /\ \A o \in {"Join", "Exit"} :
            /\ ~QueuedFor(o, d) /\ ~HeldFor(o, d)
            /\ \A i \in Goroutines : ~PostedFor(o, i, d)
      /\ \A c \in Channels : ~Counts(c, d) /\ ~AsksWho(d, c)
      /\ \A i \in Goroutines : ~Belongs(i, d)
  BY ReturnedIsQuiet DEF Kinds
<1>2. /\ masterQ \in Seq(ToMaster) /\ masterTodo \in Seq(MasterSends)
      /\ inbox \in [Goroutines -> Seq(ToChat)] /\ todo \in [Goroutines -> Seq(ChatSends)]
  BY PatientParts, MailTypes, TypeInvFacts
<1>3. ASSUME NEW k \in DOMAIN masterQ, masterQ[k].from = d
      PROVE  masterQ[k].op = "Exit"
  <2>1. masterQ[k] \in ToSet(masterQ) /\ masterQ[k] \in ToMaster
    BY <1>2, ToSetType DEF ToSet
  <2>2. masterQ[k].op \in {"Join", "Who", "Exit"}
    BY <2>1 DEF ToMaster
  <2>3. masterQ[k].op # "Join"
    BY <1>1, <1>3, <2>1 DEF QueuedFor
  <2>4. masterQ[k].op # "Who"
    BY <1>1, <1>3, <2>1, PatientParts DEF RepliesReach
  <2> QED
    BY <2>2, <2>3, <2>4
<1>4. ASSUME NEW k \in DOMAIN masterTodo, masterTodo[k].who = d
      PROVE  masterTodo[k].op = "Shutdown"
  <2>1. masterTodo[k] \in ToSet(masterTodo) /\ masterTodo[k] \in MasterSends
    BY <1>2, ToSetType DEF ToSet
  <2>2. /\ masterTodo[k].op \in {"Join", "Who", "Exit", "Shutdown"}
        /\ masterTodo[k].chan \in Channels
    BY <2>1 DEF MasterSends
  <2>3. masterTodo[k].op # "Join" /\ masterTodo[k].op # "Exit"
    BY <1>1, <1>4, <2>1 DEF HeldFor
  <2>4. masterTodo[k].op # "Who"
    BY <1>1, <1>4, <2>1, <2>2, PatientParts DEF RepliesReach
  <2> QED
    BY <2>2, <2>3, <2>4
<1>5. \A k \in DOMAIN masterReplies : masterReplies[k] # d
  BY <1>1 DEF HeldFor, ToSet
<1>6. ASSUME NEW i \in Goroutines, d \in memberList[i]
      PROVE  \E k \in DOMAIN todo[i] : todo[i][k].leaving = d
  BY <1>1, <1>6, PatientParts DEF SeatsAreTaken, TakenOff, ToSet
<1>7. ASSUME NEW i \in Goroutines, NEW k \in DOMAIN inbox[i], inbox[i][k].who = d
      PROVE  inbox[i][k].op = "Shutdown"
  <2>1. inbox[i][k] \in ToSet(inbox[i]) /\ inbox[i][k] \in ToChat
    BY <1>2, ToSetType DEF ToSet
  <2>2. inbox[i][k].op \in {"Join", "Who", "Exit", "Shutdown"}
    BY <2>1 DEF ToChat
  <2>3. inbox[i][k].op # "Join" /\ inbox[i][k].op # "Exit"
    BY <1>1, <1>7, <2>1 DEF PostedFor
  <2>4. inbox[i][k].op # "Who"
    BY <1>1, <1>7, <2>1, PatientParts DEF RepliesReach
  <2> QED
    BY <2>2, <2>3, <2>4
<1>8. ASSUME NEW i \in Goroutines, NEW k \in DOMAIN todo[i], todo[i][k].to = d
      PROVE  FALSE
  <2>1. \A l \in DOMAIN todo[i] : todo[i][l] \in ToSet(todo[i])
    BY DEF ToSet
  <2>2. todo[i][k].op = "Denial"
    BY <1>8, <2>1, Addressed
  <2>3. PICK l \in DOMAIN todo[i] : todo[i][l].op = "JoinDenied" /\ todo[i][l].to = d
    BY <1>8, <2>2, PatientParts DEF RepliesReach, DenialsAreTold
  <2> QED
    BY <2>1, <2>3, Addressed
<1> QED
  BY <1>3, <1>4, <1>5, <1>6, <1>7, <1>8

LEMMA SettledAgree == PatientInv => SettledViewsAgree
<1> SUFFICES ASSUME PatientInv, NEW d \in Doppelgangers, Settled(d),
                    NEW i \in Goroutines, chatState[i] = "running"
             PROVE  d \in memberList[i] <=> chatID[d] = chanOf[i] /\ callback[d] = i
  BY DEF SettledViewsAgree
<1>1. /\ status[d] = "selecting" /\ chanOf[i] \in Channels
      /\ \A c \in Channels : running[c] # NoGoroutine => chanOf[running[c]] = c
      /\ chatID[d] \in Channels =>
            running[chatID[d]] # NoGoroutine /\ running[chatID[d]] = callback[d]
      /\ i # NoGoroutine
  <2>1. chatState[i] # "unborn"
    OBVIOUS
  <2>2. chanOf[i] \in Channels
    BY <2>1, PatientParts, TypeInvParts DEF ChatTypeOK
  <2>3. i # NoGoroutine
    BY DEF Goroutines, NoGoroutine
  <2>4. status[d] = "selecting" /\ status[d] # "returned"
    BY DEF Settled
  <2> QED
    BY <2>2, <2>3, <2>4, PatientParts
       DEF EntryInv, EntryIsLive, RelyInv, HoldersKeepTheirChannel
<1>2. ~TakenOff(i, d) /\ ~PostedFor("Exit", i, d) /\ d \notin Hearing(i)
  BY ToSetOfEmpty DEF Settled, TakenOff, PostedFor, Hearing, ToSet
<1>3. \A c \in Channels : ~ExitAsked(c, d)
  BY DEF Settled, ExitAsked, ToSet
<1>4. d \in memberList[i] <=> \E c \in Channels : running[c] = i /\ chatID[d] = c
  <2>1. \A c \in Channels : Counts(c, d) <=> chatID[d] = c
    BY <1>1, <1>3 DEF Counts, Holders
  <2> QED
    BY <1>2, <2>1, PatientParts DEF SeatsAreTaken, Belongs
<1> QED
  BY <1>1, <1>4

LEMMA EmptyIsClean == PatientInv => EmptyServerIsClean
<1> SUFFICES ASSUME PatientInv, Idle, \A d \in Doppelgangers : status[d] = "returned"
             PROVE  /\ \A i \in Goroutines : chatState[i] # "running"
                    /\ \A c \in Channels : running[c] = NoGoroutine
  BY DEF EmptyServerIsClean
<1>1. /\ masterTodo = <<>> /\ denialQ = <<>>
      /\ \A i \in Goroutines : chatState[i] = "running" => todo[i] = <<>> /\ inbox[i] = <<>>
  BY PatientParts DEF Idle, MasterIdle
<1>2. \A i \in Goroutines, d \in Doppelgangers : ~Belongs(i, d)
  BY ReturnedIsQuiet
<1>3. ASSUME NEW c \in Channels, running[c] # NoGoroutine
      PROVE  FALSE
  <2>1. PICK i \in Goroutines : i = running[c]
    BY <1>3, PatientParts, TypeInvFacts
  <2>2. todo[i] = <<>> /\ inbox[i] = <<>>
    BY <1>1, <1>3, <2>1, PatientParts DEF EntryInv, EntryIsLive
  <2>3. memberList[i] = {}
    <3>1. \A d \in Doppelgangers : ~TakenOff(i, d)
      BY <2>2, ToSetOfEmpty DEF TakenOff
    <3>2. memberList[i] \subseteq Doppelgangers
      BY PatientParts, MailTypes
    <3> QED
      BY <1>2, <3>1, <3>2, PatientParts DEF SeatsAreTaken
  <2>4. Accounted(c) = 0
    <3>1. /\ HowMany(masterTodo, SendsTo(c, "Join")) = 0 /\ HowMany(denialQ, DenialsBy(c)) = 0
          /\ HowMany(inbox[i], Posts("Join")) = 0 /\ HowMany(todo[i], Verdicts) = 0
          /\ HowMany(inbox[i], Posts("Exit")) = 0 /\ HowMany(todo[i], Farewells) = 0
      BY <1>1, <2>2, HowManyOfEmpty
    <3>2. JoinsUnderWay(c) = 0 /\ ExitsUnderWay(c) = 0
      BY <2>1, <3>1 DEF JoinsUnderWay, ExitsUnderWay
    <3>3. Cardinality(memberList[i]) = 0
      BY <2>3, FS_EmptySet
    <3> QED
      BY <1>3, <2>1, <3>2, <3>3 DEF Accounted
  <2>5. memberCount[c] > 0
    BY <1>1, <1>3, ToSetOfEmpty, PatientParts DEF EntriesCount
  <2> QED
    BY <2>4, <2>5, PatientParts DEF CountMatchesRoster
<1>4. ASSUME NEW i \in Goroutines, chatState[i] = "running"
      PROVE  FALSE
  <2>1. inbox[i] = <<>> /\ chanOf[i] \in Channels /\ i # NoGoroutine
    <3>1. chatState[i] # "unborn"
      BY <1>4
    <3> QED
      BY <1>1, <1>4, <3>1, PatientParts, TypeInvParts DEF ChatTypeOK, Goroutines, NoGoroutine
  <2>2. HasShutdown(inbox[i])
    BY <1>3, <1>4, <2>1, PatientParts DEF EntryInv, OneLiveGoroutinePerChannel
  <2>3. \E m \in ToSet(inbox[i]) : m.op = "Shutdown"
    BY <2>2 DEF HasShutdown, ToSet
  <2> QED
    BY <2>1, <2>3, ToSetOfEmpty
<1> QED
  BY <1>3, <1>4

(***************************************************************************)
(* README.md:486-498: patient users are never sent anything after their    *)
(* doppelgangers have returned, and are on no roster then.                 *)
(***************************************************************************)
THEOREM PatientAreNotSentTo == PatientUsers => (Spec => []NothingSentToReturned)
<1> SUFFICES ASSUME PatientUsers PROVE Spec => []NothingSentToReturned
  OBVIOUS
<1>1. Spec => []PatientInv
  BY PatienceKept
<1> QED
  BY <1>1, NothingIsSentToReturned, PTL

(***************************************************************************)
(* README.md:486-498, 693: with patient users no goroutine sends on a      *)
(* closed go channel, and none panics otherwise.                           *)
(***************************************************************************)
THEOREM PatientCauseNoCrash == PatientUsers => (Spec => []NoCrash)
<1> SUFFICES ASSUME PatientUsers PROVE Spec => []NoCrash
  OBVIOUS
<1>1. Spec => []PatientInv
  BY PatienceKept
<1>2. PatientInv => NoCrash
  BY DEF PatientInv
<1> QED
  BY <1>1, <1>2, PTL

(***************************************************************************)
(* channelmaster.go:290-296: with patient users the exit that ends the     *)
(* channel master's goroutine never comes.                                 *)
(***************************************************************************)
THEOREM PatientKeepMasterUp == PatientUsers => (Spec => []MasterStaysUp)
<1> SUFFICES ASSUME PatientUsers PROVE Spec => []MasterStaysUp
  OBVIOUS
<1>1. Spec => []PatientInv
  BY PatienceKept
<1>2. PatientInv => MasterStaysUp
  BY DEF PatientInv, MasterStaysUp
<1> QED
  BY <1>1, <1>2, PTL

(***************************************************************************)
(* README.md:511-516: with patient users the channel master's counts are   *)
(* in sync with the rosters, messages under way taken into account.        *)
(***************************************************************************)
THEOREM PatientCountsMatch == PatientUsers => (Spec => []CountMatchesRoster)
<1> SUFFICES ASSUME PatientUsers PROVE Spec => []CountMatchesRoster
  OBVIOUS
<1>1. Spec => []PatientInv
  BY PatienceKept
<1>2. PatientInv => CountMatchesRoster
  BY DEF PatientInv
<1> QED
  BY <1>1, <1>2, PTL

(***************************************************************************)
(* README.md:448-455: with patient users a doppelganger and the chat       *)
(* channels agree on where it is once nothing about it is on its way.      *)
(***************************************************************************)
THEOREM PatientViewsAgree == PatientUsers => (Spec => []SettledViewsAgree)
<1> SUFFICES ASSUME PatientUsers PROVE Spec => []SettledViewsAgree
  OBVIOUS
<1>1. Spec => []PatientInv
  BY PatienceKept
<1> QED
  BY <1>1, SettledAgree, PTL

(***************************************************************************)
(* README.md:311-316, 691-694: where patient users have all gone and the   *)
(* server is idle, every chat channel goroutine has returned.              *)
(***************************************************************************)
THEOREM PatientLeaveNothing == PatientUsers => (Spec => []EmptyServerIsClean)
<1> SUFFICES ASSUME PatientUsers PROVE Spec => []EmptyServerIsClean
  OBVIOUS
<1>1. Spec => []PatientInv
  BY PatienceKept
<1> QED
  BY <1>1, EmptyIsClean, PTL
=============================================================================
