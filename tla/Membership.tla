----------------------------- MODULE Membership -----------------------------
(***************************************************************************)
(* What the chat server promises the people on it, whatever goroutines it  *)
(* is made of: who is on which chat channel, what he has asked for, and    *)
(* what he has yet to hear.  A join is granted only while there is room    *)
(* and refused only when there is none; nobody is taken off a channel who  *)
(* did not ask for it or drop his connection; and every request gets one   *)
(* answer, which says what was decided.                                    *)
(***************************************************************************)
EXTENDS Integers, FiniteSets

CONSTANTS
    Users,       \* the people, one connection each
    Channels,    \* the chat channels
    Nowhere,     \* a name that is no chat channel's
    Leave,       \* the request to be taken off one's channel
    MaxMembers   \* how many there is room for on a channel

VARIABLES
    roster,      \* who is on a channel
    request,     \* the request of a user that is yet to be decided, if any
    verdict,     \* the decision he is yet to hear of, if any
    view,        \* what he knows: he is on or off a channel, or has asked
    dropped      \* has he closed the connection or lost it?

vars == <<roster, request, verdict, view, dropped>>

Init ==
    /\ roster = [c \in Channels |-> {}]
    /\ request = [d \in Users |-> {}]
    /\ verdict = [d \in Users |-> {}]
    /\ view = [d \in Users |-> "off"]
    /\ dropped = [d \in Users |-> FALSE]

OnSomeChannel(d) == \E c \in Channels : d \in roster[c]

Full(c) == Cardinality(roster[c]) >= MaxMembers

Unoccupied(d) == request[d] = {} /\ verdict[d] = {}

-----------------------------------------------------------------------------
\* The user types a /join or an /exit, and waits.
Types(d) ==
    /\ view[d] # "asked"
    /\ view' = [view EXCEPT ![d] = "asked"]
    /\ UNCHANGED <<roster, request, verdict, dropped>>

Drops(d) ==
    /\ ~dropped[d]
    /\ dropped' = [dropped EXCEPT ![d] = TRUE]
    /\ UNCHANGED <<roster, request, verdict, view>>

AsksToJoin(d, c) ==
    /\ view[d] = "asked"
    /\ Unoccupied(d)
    /\ ~OnSomeChannel(d)
    /\ request' = [request EXCEPT ![d] = {c}]
    /\ UNCHANGED <<roster, verdict, view, dropped>>

\* The /exit of the user, or one in his name once he has dropped.
AsksToLeave(d) ==
    /\ view[d] = "asked" \/ dropped[d]
    /\ Unoccupied(d)
    /\ OnSomeChannel(d)
    /\ request' = [request EXCEPT ![d] = {Leave}]
    /\ UNCHANGED <<roster, verdict, view, dropped>>

Decides(d, what) ==
    /\ request' = [request EXCEPT ![d] = {}]
    /\ verdict' = [verdict EXCEPT ![d] = {what}]
    /\ UNCHANGED <<view, dropped>>

Admits(d, c) ==
    /\ request[d] = {c}
    /\ ~Full(c)
    /\ roster' = [roster EXCEPT ![c] = @ \cup {d}]
    /\ Decides(d, "in")

Refuses(d) ==
    /\ \/ request[d] = {Nowhere}
       \/ \E c \in Channels : request[d] = {c} /\ Full(c)
    /\ Decides(d, "refused")
    /\ UNCHANGED roster

Releases(d, c) ==
    /\ request[d] = {Leave}
    /\ d \in roster[c]
    /\ roster' = [roster EXCEPT ![c] = @ \ {d}]
    /\ Decides(d, "out")

Hears(d) ==
    /\ verdict[d] # {}
    /\ verdict' = [verdict EXCEPT ![d] = {}]
    /\ view' = [view EXCEPT ![d] = IF verdict[d] = {"in"} THEN "on" ELSE "off"]
    /\ UNCHANGED <<roster, dropped>>

\* A user who dropped while his join was decided is taken off again at once.
HearsAndLeaves(d) ==
    /\ verdict[d] = {"in"}
    /\ dropped[d]
    /\ Hears(d)
    /\ request' = [request EXCEPT ![d] = {Leave}]

HearsOnly(d) == Hears(d) /\ UNCHANGED request

-----------------------------------------------------------------------------
Next ==
    \E d \in Users :
        \/ Types(d)
        \/ Drops(d)
        \/ \E c \in Channels \cup {Nowhere} : AsksToJoin(d, c)
        \/ AsksToLeave(d)
        \/ \E c \in Channels : Admits(d, c) \/ Releases(d, c)
        \/ Refuses(d)
        \/ HearsOnly(d)
        \/ HearsAndLeaves(d)

Spec == Init /\ [][Next]_vars
=============================================================================
