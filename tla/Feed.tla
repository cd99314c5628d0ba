-------------------------------- MODULE Feed --------------------------------
(***************************************************************************)
(* event.Feed (event/feed.go): Send, Subscribe and Unsubscribe called from *)
(* any number of goroutines.                                               *)
(*                                                                         *)
(* sendLock admits one Send at a time, so one set of variables describes   *)
(* the Send in progress.  sendCases leaves out its first entry, the case   *)
(* that receives from removeSub; `cases', in the code a prefix of the same *)
(* slice, is the length of that prefix.  A subscription is identified with *)
(* its channel, so no channel is subscribed twice.                         *)
(*                                                                         *)
(* room[c] is how many values channel c accepts without blocking: its free *)
(* buffer space, or for an unbuffered channel the receivers that wait.     *)
(***************************************************************************)
EXTENDS Integers, Sequences, Functions

CONSTANTS
  Channels,
  Capacity,   \* the largest value of room
  MaxSends    \* bound: how often Send is called

ASSUME FeedAssumption == Capacity \in Nat \ {0} /\ MaxSends \in Nat

VARIABLES
  inbox,      \* new subscriptions that no Send has seen yet
  sendCases,  \* the subscriptions Send selects from
  cases,      \* how many of them have yet to receive the value
  i,          \* the loop variable of the non-blocking pass
  phase,      \* where the holder of sendLock is; "idle" if there is none
  sub,        \* per channel: "new", "on", "removing" (in remove), "off"
  room,
  panicked,   \* delete was called with the index -1
  sent,       \* history: how many values were sent; the n-th value is n
  log         \* history: the values put into each channel

sendVars == <<sendCases, cases, i, phase>>
vars == <<inbox, sendVars, sub, room, panicked, sent, log>>

Init ==
  /\ inbox = <<>>
  /\ sendCases = <<>> /\ cases = 0 /\ i = 1 /\ phase = "idle"
  /\ sub = [c \in Channels |-> "new"]
  /\ room \in [Channels -> 0..Capacity]
  /\ panicked = FALSE
  /\ sent = 0
  /\ log = [c \in Channels |-> <<>>]

-----------------------------------------------------------------------------
(* Lists of cases                                                          *)

\* The index of a channel, 0 if it is not there.  No list holds a channel twice.
find(list, c) ==
  IF c \in Range(list) THEN CHOOSE k \in DOMAIN list : list[k] = c ELSE 0

\* The entries behind the deleted one move up.
delete(list, index) ==
  [k \in 1..(Len(list) - 1) |-> IF k < index THEN list[k] ELSE list[k + 1]]

Exchange(list, a, b) == [list EXCEPT ![a] = list[b], ![b] = list[a]]

\* The case moves behind the active prefix, which shrinks by one.
deactivate(index) ==
  /\ sendCases' = Exchange(sendCases, index, cases)
  /\ cases' = cases - 1

-----------------------------------------------------------------------------
(* Subscriptions                                                           *)

Subscribe(c) ==
  /\ sub[c] = "new"
  /\ inbox' = Append(inbox, c)
  /\ sub' = [sub EXCEPT ![c] = "on"]
  /\ UNCHANGED <<sendVars, room, panicked, sent, log>>

\* Mutant: the inbox is not looked at.
InboxIgnored(c) == FALSE

InInbox(c) == find(inbox, c) # 0

\* remove, up to its select.
Unsubscribe(c) ==
  /\ sub[c] = "on"
  /\ \/ /\ InInbox(c)
        /\ inbox' = delete(inbox, find(inbox, c))
        /\ sub' = [sub EXCEPT ![c] = "off"]
     \/ /\ ~InInbox(c)
        /\ sub' = [sub EXCEPT ![c] = "removing"]
        /\ UNCHANGED inbox
  /\ UNCHANGED <<sendVars, room, panicked, sent, log>>

\* Deleting a case of which find knows nothing panics.
DeleteCase(c) ==
  IF find(sendCases, c) = 0
  THEN panicked' = TRUE /\ UNCHANGED <<sendCases, sub>>
  ELSE /\ sendCases' = delete(sendCases, find(sendCases, c))
       /\ sub' = [sub EXCEPT ![c] = "off"]
       /\ UNCHANGED panicked

\* remove gets the send lock, deletes the case and gives the lock back.
RemoveIdle(c) ==
  /\ sub[c] = "removing" /\ phase = "idle"
  /\ DeleteCase(c)
  /\ UNCHANGED <<inbox, cases, i, phase, room, sent, log>>

-----------------------------------------------------------------------------
(* Send                                                                    *)

TakeLock ==
  /\ phase = "idle"
  /\ sent < MaxSends
  /\ phase' = "locked"
  /\ UNCHANGED <<inbox, sendCases, cases, i, sub, room, panicked, sent, log>>

InboxEmptied == <<>>

AddCases ==
  /\ phase = "locked"
  /\ sendCases' = sendCases \o inbox
  /\ inbox' = InboxEmptied
  /\ cases' = Len(sendCases')
  /\ i' = 1
  /\ phase' = "trying"
  /\ sent' = sent + 1
  /\ UNCHANGED <<sub, room, panicked, log>>

Accepts(c) == room[c] > 0

Put(c) ==
  /\ room' = [room EXCEPT ![c] = @ - 1]
  /\ log' = [log EXCEPT ![c] = Append(@, sent)]

\* One iteration of the non-blocking pass.
TrySend ==
  /\ phase = "trying" /\ i <= cases
  /\ \/ /\ Accepts(sendCases[i])
        /\ Put(sendCases[i])
        /\ deactivate(i)
        /\ UNCHANGED i
     \/ /\ ~Accepts(sendCases[i])
        /\ i' = i + 1
        /\ UNCHANGED <<sendCases, cases, room, log>>
  /\ UNCHANGED <<inbox, phase, sub, panicked, sent>>

\* Mutant: the case of removeSub is counted among the subscribers.
AllServedMiscounted == cases = -1

AllServed == cases = 0

\* The pass is over: Send returns the lock, or blocks in the select.
EndPass ==
  /\ phase = "trying" /\ i > cases
  /\ phase' = IF AllServed THEN "idle" ELSE "blocked"
  /\ UNCHANGED <<inbox, sendCases, cases, i, sub, room, panicked, sent, log>>

\* Select chose a receiver.
SelectSend ==
  /\ phase = "blocked"
  /\ \E k \in 1..cases :
       /\ Accepts(sendCases[k])
       /\ Put(sendCases[k])
       /\ deactivate(k)
  /\ phase' = "trying" /\ i' = 1
  /\ UNCHANGED <<inbox, sub, panicked, sent>>

\* Mutant: a blocked Send does not listen to removeSub.
DeafToRemovals == FALSE

Interruptible == phase = "blocked"

\* Mutant: the active prefix shrinks whatever was removed.
ShrinkAlways(index) == cases - 1

\* The prefix shrinks if the removed case was still active.
Shrink(index) == IF index <= cases THEN cases - 1 ELSE cases

\* Select received a channel from a goroutine in remove.
SelectRemove(c) ==
  /\ sub[c] = "removing" /\ Interruptible
  /\ DeleteCase(c)
  /\ cases' = Shrink(find(sendCases, c))
  /\ phase' = "trying" /\ i' = 1
  /\ UNCHANGED <<inbox, room, sent, log>>

\* The owner of a channel makes room in it.
Receive(c) ==
  /\ room[c] < Capacity
  /\ room' = [room EXCEPT ![c] = @ + 1]
  /\ UNCHANGED <<inbox, sendVars, sub, panicked, sent, log>>

-----------------------------------------------------------------------------
SendStep == AddCases \/ TrySend \/ EndPass \/ SelectSend

RemoveStep(c) == RemoveIdle(c) \/ SelectRemove(c)

Next ==
  \/ TakeLock
  \/ SendStep
  \/ \E c \in Channels : Subscribe(c)
  \/ \E c \in Channels : Unsubscribe(c)
  \/ \E c \in Channels : RemoveIdle(c)
  \/ \E c \in Channels : SelectRemove(c)
  \/ \E c \in Channels : Receive(c)

Spec == Init /\ [][Next]_vars

\* A Send and a remove that can go on do.  Nothing is assumed of callers and
\* receivers.
FairSpec == Spec /\ WF_vars(SendStep) /\ \A c \in Channels : WF_vars(RemoveStep(c))

-----------------------------------------------------------------------------
(* Properties                                                              *)

\* The lists and counters have their types; the active prefix is a prefix
\* (Send), and no value is put into a full channel.
TypeOK ==
  /\ inbox \in Seq(Channels) /\ sendCases \in Seq(Channels)
  /\ cases \in 0..Len(sendCases) /\ i \in 1..Len(sendCases) + 1
  /\ phase \in {"idle", "locked", "trying", "blocked"}
  /\ sub \in [Channels -> {"new", "on", "removing", "off"}]
  /\ room \in [Channels -> 0..Capacity]
  /\ panicked \in BOOLEAN
  /\ sent \in 0..MaxSends
  /\ log \in [Channels -> Seq(1..MaxSends)]

\* remove always finds its case, in the inbox or in sendCases, even when a Send
\* takes over the inbox between remove's look into it and its select.
NoPanic == ~panicked

\* A channel that is subscribed, or about to be removed, is in exactly one of
\* inbox and sendCases, once; no other channel is in either (Subscribe, remove,
\* Send).
CasesMatch ==
  /\ IsInjective(inbox) /\ IsInjective(sendCases)
  /\ Range(inbox) \cap Range(sendCases) = {}
  /\ Range(inbox) \cup Range(sendCases) = {c \in Channels : sub[c] \in {"on", "removing"}}

\* The channels of the first n cases.
Prefix(list, n) == {list[k] : k \in 1..n}

B == INSTANCE Broadcast WITH
       members <- Range(sendCases),
       owed <- Prefix(sendCases, cases),
       left <- {c \in Channels : sub[c] = "off"}

\* Feed is a broadcast: the shuffling of cases, the interrupted selects and the
\* inbox deliver every value exactly once and in one order to every channel that
\* is subscribed, and nothing after Unsubscribe returned.
Implements == B!Spec

\* Unsubscribe returns, also while a Send is blocked and no receiver ever makes
\* room (the removeSub case of Send's select).
UnsubscribeEnds == \A c \in Channels : (sub[c] = "removing") ~> (sub[c] = "off")

\* Send returns if every subscriber makes room again and again or unsubscribes
\* ("Slow subscribers are not dropped").
SendEnds ==
  (\A c \in Channels : []<>(room[c] > 0 \/ sub[c] = "off"))
    => (phase # "idle") ~> (phase = "idle")

=============================================================================
