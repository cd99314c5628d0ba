----------------------------- MODULE Broadcast -----------------------------
(***************************************************************************)
(* What event.Feed promises, without its locks and lists: values are       *)
(* published one at a time; each goes to every member exactly once, and    *)
(* the next one is published only when nobody is still owed the last.  A   *)
(* channel joins between two values and leaves at any time; from then on   *)
(* nothing is put into it.                                                 *)
(***************************************************************************)
EXTENDS Naturals, Sequences

CONSTANT Channels

VARIABLES
  sent,     \* how many values were published; the n-th value is n
  members,  \* the channels that receive what is published
  owed,     \* the members that have not received the last value
  left,     \* the channels that unsubscribed
  log       \* the values put into each channel

vars == <<sent, members, owed, left, log>>

Init ==
  /\ sent = 0
  /\ members = {} /\ owed = {} /\ left = {}
  /\ log = [c \in Channels |-> <<>>]

\* A value is published to the members and to newcomers.
Publish(joined) ==
  /\ owed = {}
  /\ sent' = sent + 1
  /\ members' = members \cup joined
  /\ owed' = members'
  /\ UNCHANGED <<left, log>>

Deliver(c) ==
  /\ c \in owed
  /\ log' = [log EXCEPT ![c] = Append(@, sent)]
  /\ owed' = owed \ {c}
  /\ UNCHANGED <<sent, members, left>>

Leave(c) ==
  /\ members' = members \ {c}
  /\ owed' = owed \ {c}
  /\ left' = left \cup {c}
  /\ UNCHANGED <<sent, log>>

Next ==
  \/ \E joined \in SUBSET (Channels \ (members \cup left)) : Publish(joined)
  \/ \E c \in Channels : Deliver(c)
  \/ \E c \in Channels : Leave(c)

Spec == Init /\ [][Next]_vars

=============================================================================
