--------------------------- MODULE P2PServerProofs ---------------------------
(***************************************************************************)
(* Proofs about P2PServer, for any nodes, lanes and limits.                *)
(***************************************************************************)
EXTENDS P2PServer, FiniteSetTheorems, TLAPS

\* Nodes with a dial task, nodes whose dial may still give a peer, and that no
\* node has two tasks, when the goroutines are at stg.
DialedAt(stg) == {n \in Nodes : stg[<<n, Static>>] # "none" \/ stg[<<n, Dynamic>>] # "none"}
PendingAt(stg) ==
  {n \in Nodes : stg[<<n, Static>>] \notin {"none", "ending"} \/ stg[<<n, Dynamic>>] \notin {"none", "ending"}}
SingleAt(stg) == \A n \in Nodes : stg[<<n, Static>>] = "none" \/ stg[<<n, Dynamic>>] = "none"

\* What the scheduler's loop keeps, of its own state and of the goroutines.
Scheduled(pl, dl, dp, hs, stg, cn, st) ==
  /\ dl \in SUBSET Nodes /\ hs \in SUBSET Nodes /\ cn \in SUBSET Nodes /\ st \in SUBSET Nodes
  /\ dp \in Nat /\ stg \in [Conns -> Stages] /\ SingleAt(stg)
  /\ dl = DialedAt(stg)
  /\ pl = {n \in st : checkDial(n, dl, cn, hs)}

\* The slots are not exceeded.
Slots(dp, dl, stg) ==
  /\ dp + Cardinality(PendingAt(stg)) <= 2 * MaxDialPeers
  /\ Cardinality(dl) <= MaxActiveDials

\* Candidates are read only if no static dial waits and a slot is free.
Reading(pl, dl, dp, op) == op => pl = {} /\ freeDialSlots(dp, dl) > 0

\* What the main loop is telling the scheduler.
Handing ==
  /\ hand # None <=> srv \in {"adding", "removing", "unstatic"}
  /\ srv = "adding" => stage[hand] = "add" /\ peers[hand[1]] = hand[2]
  /\ srv = "removing" => peers[hand[1]] = None
  /\ sched # "loop" => srv \in {"closing", "stopped"}
  /\ leaving \subseteq Peered

PeersLimited ==
  /\ Cardinality(Peered \ vip) <= MaxPeers
  /\ Cardinality({n \in Peered \ vip : peers[n] \in Inbounds}) <= maxInboundConns

\* What holds of the scheduler, whether it loops or has stopped.
SchedulerOK ==
  /\ SingleAt(stage)
  /\ sched = "loop" => Scheduled(pool, dialing, dialPeers, history, stage, connected, static)
  /\ sched = "loop" => Reading(pool, dialing, dialPeers, open)
  /\ sched # "loop" => left = Cardinality(DialedAt(stage))
  /\ Slots(dialPeers, dialing, stage)

\* The inductive invariant.
IInv == TypeOK /\ SchedulerOK /\ Handing /\ CountsExact /\ PeersLimited

-----------------------------------------------------------------------------
(* Finite sets of nodes                                                    *)

\* A set of nodes has a size, and its subsets are no larger.
LEMMA NodesFinite ==
  ASSUME NEW S \in SUBSET Nodes
  PROVE  /\ IsFiniteSet(S) /\ Cardinality(S) \in Nat
         /\ \A T \in SUBSET S : /\ IsFiniteSet(T) /\ Cardinality(T) \in Nat
                                /\ Cardinality(T) <= Cardinality(S)
                                /\ Cardinality(T) = Cardinality(S) => T = S
<1>1. IsFiniteSet(S)
  BY FS_Subset, P2PAssumption
<1>2. Cardinality(S) \in Nat
  BY <1>1, FS_CardinalityType
<1>3. ASSUME NEW T \in SUBSET S
      PROVE  /\ IsFiniteSet(T) /\ Cardinality(T) \in Nat
             /\ Cardinality(T) <= Cardinality(S)
             /\ Cardinality(T) = Cardinality(S) => T = S
  <2>1. IsFiniteSet(T) /\ Cardinality(T) <= Cardinality(S) /\ (Cardinality(S) = Cardinality(T) => S = T)
    BY <1>1, FS_Subset
  <2>2. Cardinality(T) \in Nat
    BY <2>1, FS_CardinalityType
  <2> QED
    BY <2>1, <2>2
<1> QED
  BY <1>1, <1>2, <1>3

\* The size of a union of nodes is at most the sum of the sizes, and is the sum
\* if they are disjoint.
LEMMA NodesUnion ==
  ASSUME NEW S \in SUBSET Nodes, NEW T \in SUBSET Nodes
  PROVE  /\ Cardinality(S \cup T) <= Cardinality(S) + Cardinality(T)
         /\ S \cap T = {} => Cardinality(S \cup T) = Cardinality(S) + Cardinality(T)
<1>1. IsFiniteSet(S) /\ IsFiniteSet(T) /\ Cardinality(S) \in Nat /\ Cardinality(T) \in Nat
  BY NodesFinite
<1>2. Cardinality(S \cup T) = Cardinality(S) + Cardinality(T) - Cardinality(S \cap T)
  BY <1>1, FS_Union
<1>3. Cardinality(S \cap T) \in Nat
  <2>1. S \cap T \in SUBSET Nodes
    OBVIOUS
  <2> QED
    BY <2>1, NodesFinite
<1>4. S \cap T = {} => Cardinality(S \cap T) = 0
  BY FS_EmptySet
<1>5. ASSUME NEW a \in Nat, NEW b \in Nat, NEW c \in Nat
      PROVE  a + b - c <= a + b /\ (c = 0 => a + b - c = a + b)
  OBVIOUS
<1> QED
  BY <1>1, <1>2, <1>3, <1>4, <1>5

\* A node more, and a node less.
LEMMA NodesStep ==
  ASSUME NEW S \in SUBSET Nodes, NEW n \in Nodes
  PROVE  /\ Cardinality(S \cup {n}) = IF n \in S THEN Cardinality(S) ELSE Cardinality(S) + 1
         /\ Cardinality(S \ {n}) = IF n \in S THEN Cardinality(S) - 1 ELSE Cardinality(S)
<1>1. IsFiniteSet(S)
  BY NodesFinite
<1> QED
  BY Zenon, <1>1, FS_AddElement, FS_RemoveElement

-----------------------------------------------------------------------------
(* The scheduler                                                           *)

\* Free slots are a number, and as many fewer as there are more tasks.
LEMMA SlotsType ==
  ASSUME NEW dp \in Nat, NEW dl \in SUBSET Nodes
  PROVE  /\ freeDialSlots(dp, dl) \in Int
         /\ freeDialSlots(dp, dl) <= MaxActiveDials - Cardinality(dl)
         /\ freeDialSlots(dp, dl) <= 2 * (MaxDialPeers - dp) - Cardinality(dl)
         /\ \A T \in SUBSET Nodes : dl \cap T = {} =>
              freeDialSlots(dp, dl \cup T) = freeDialSlots(dp, dl) - Cardinality(T)
<1>1. /\ Cardinality(dl) \in Nat
      /\ \A T \in SUBSET Nodes : /\ Cardinality(T) \in Nat
                                 /\ dl \cap T = {} => Cardinality(dl \cup T) = Cardinality(dl) + Cardinality(T)
  BY Zenon, NodesFinite, NodesUnion
<1>2. MaxDialPeers \in Nat /\ MaxActiveDials \in Nat
  BY P2PAssumption
<1>3. /\ freeDialSlots(dp, dl) \in Int
      /\ freeDialSlots(dp, dl) <= MaxActiveDials - Cardinality(dl)
      /\ freeDialSlots(dp, dl) <= 2 * (MaxDialPeers - dp) - Cardinality(dl)
  BY <1>1, <1>2 DEF freeDialSlots
<1>4. ASSUME NEW T \in SUBSET Nodes, dl \cap T = {}
      PROVE  freeDialSlots(dp, dl \cup T) = freeDialSlots(dp, dl) - Cardinality(T)
  <2>1. Cardinality(T) \in Nat /\ Cardinality(dl \cup T) = Cardinality(dl) + Cardinality(T)
    BY Zenon, <1>1, <1>4
  <2> QED
    BY <1>1, <1>2, <2>1 DEF freeDialSlots
<1> QED
  BY <1>3, <1>4

\* The goroutines once static dials of S are started.
StartedAt(stg, S) == [c \in Conns |-> IF c[2] = Static /\ c[1] \in S THEN "dial" ELSE stg[c]]

\* startStaticDials keeps what the scheduler keeps, and leaves the pool empty
\* if slots remain.
LEMMA LaunchStep ==
  ASSUME NEW pl, NEW dl, NEW dp, NEW hs, NEW stg, NEW cn, NEW st,
         Scheduled(pl, dl, dp, hs, stg, cn, st), Slots(dp, dl, stg), Launch(pl, dl, dp, hs, stg)
  PROVE  /\ Scheduled(pool', dialing', dialPeers', history', stage', cn, st)
         /\ Slots(dialPeers', dialing', stage')
         /\ Reading(pool', dialing', dialPeers', open')
         /\ dialPeers' = dp /\ open' \in BOOLEAN
         /\ \A c \in Conns : c[2] \notin Dials => stage'[c] = stg[c]
         /\ \A c \in Conns : stg[c] # "none" => stage'[c] = stg[c]
<1>0. PICK S \in SUBSET pl :
        /\ Cardinality(S) = Launched(freeDialSlots(dp, dl), pl)
        /\ pool' = pl \ S
        /\ dialing' = dl \cup S
        /\ history' = hs \cup S
        /\ stage' = StartedAt(stg, S)
        /\ open' = (freeDialSlots(dp, dl) > Cardinality(S))
        /\ dialPeers' = dp
  BY DEF Launch, StartedAt
<1> DEFINE free == freeDialSlots(dp, dl)
           stg2 == StartedAt(stg, S)
<1>1. /\ pl \in SUBSET Nodes /\ dl \in SUBSET Nodes /\ S \in SUBSET Nodes
      /\ hs \in SUBSET Nodes /\ cn \in SUBSET Nodes /\ st \in SUBSET Nodes
      /\ dp \in Nat /\ stg \in [Conns -> Stages] /\ dl \cap S = {}
  BY <1>0 DEF Scheduled, checkDial
<1>2. /\ Cardinality(S) \in Nat /\ Cardinality(pl) \in Nat /\ Cardinality(dl) \in Nat
      /\ Cardinality(S) <= Cardinality(pl) /\ (Cardinality(S) = Cardinality(pl) => S = pl)
  BY <1>1, NodesFinite
<1>3. free \in Int
  BY <1>1, SlotsType
<1>4. Cardinality(S) > 0 => Cardinality(S) <= free
  BY <1>0, <1>2, <1>3 DEF Launched
<1>5. free > Cardinality(S) => S = pl
  BY <1>0, <1>2, <1>3 DEF Launched
<1>6. Cardinality(S) = 0 => S = {}
  <2>1. IsFiniteSet(S)
    BY <1>1, NodesFinite
  <2> QED
    BY <2>1, FS_EmptySet
<1>7. /\ stg2 \in [Conns -> Stages]
      /\ \A n \in Nodes : /\ stg2[<<n, Static>>] = IF n \in S THEN "dial" ELSE stg[<<n, Static>>]
                          /\ stg2[<<n, Dynamic>>] = stg[<<n, Dynamic>>]
  BY <1>1 DEF StartedAt, Conns, Lanes, Dials, Static, Dynamic, Stages
<1>8. \A n \in S : stg[<<n, Static>>] = "none" /\ stg[<<n, Dynamic>>] = "none"
  BY Zenon, <1>1 DEF Scheduled, DialedAt
<1>9. SingleAt(stg2)
  BY Zenon, <1>1, <1>7, <1>8 DEF SingleAt, Scheduled
<1>10. DialedAt(stg2) = dl \cup S
  BY <1>1, <1>7 DEF DialedAt, Scheduled
<1>11. PendingAt(stg2) = PendingAt(stg) \cup S
  BY <1>1, <1>7, <1>8 DEF PendingAt
<1>12. pl \ S = {n \in st : checkDial(n, dl \cup S, cn, hs \cup S)}
  BY <1>1 DEF Scheduled, checkDial
<1>13. Scheduled(pl \ S, dl \cup S, dp, hs \cup S, stg2, cn, st)
  BY <1>1, <1>7, <1>9, <1>10, <1>12 DEF Scheduled
<1>14. Slots(dp, dl \cup S, stg2)
  <2>1. CASE S = {}
    <3>1. PendingAt(stg2) = PendingAt(stg) /\ dl \cup S = dl
      BY <2>1, <1>11
    <3> QED
      BY <3>1 DEF Slots
  <2>2. CASE S # {}
    <3>1. Cardinality(S) <= free
      BY <2>2, <1>2, <1>4, <1>6
    <3>2. Cardinality(dl \cup S) = Cardinality(dl) + Cardinality(S)
      BY <1>1, NodesUnion
    <3>3. /\ free <= MaxActiveDials - Cardinality(dl)
          /\ free <= 2 * (MaxDialPeers - dp) - Cardinality(dl)
      BY <1>1, SlotsType
    <3>4. PendingAt(stg2) \subseteq dl \cup S /\ dl \cup S \in SUBSET Nodes
      BY <1>1, <1>11 DEF Scheduled, PendingAt, DialedAt
    <3>5. /\ Cardinality(PendingAt(stg2)) \in Nat
          /\ Cardinality(PendingAt(stg2)) <= Cardinality(dl \cup S)
      BY <3>4, NodesFinite
    <3>6. MaxDialPeers \in Nat /\ MaxActiveDials \in Nat
      BY P2PAssumption
    <3> QED
      BY <1>1, <1>2, <1>3, <3>1, <3>2, <3>3, <3>5, <3>6 DEF Slots
  <2> QED
    BY <2>1, <2>2
<1>15. free > Cardinality(S) => pl \ S = {} /\ freeDialSlots(dp, dl \cup S) > 0
  <2>1. freeDialSlots(dp, dl \cup S) = free - Cardinality(S)
    BY <1>1, SlotsType
  <2> QED
    BY <2>1, <1>2, <1>3, <1>5
<1>16. ASSUME NEW c \in Conns, c[2] \notin Dials \/ stg[c] # "none"
       PROVE  stg2[c] = stg[c]
  <2>1. c = <<c[1], c[2]>>
    BY DEF Conns
  <2>2. ~(c[2] = Static /\ c[1] \in S)
    BY Zenon, <2>1, <1>8, <1>16 DEF Dials
  <2> QED
    BY <2>2 DEF StartedAt
<1>17. Reading(pool', dialing', dialPeers', open')
  BY Zenon, <1>0, <1>15 DEF Reading
<1>18. Scheduled(pool', dialing', dialPeers', history', stage', cn, st) /\ Slots(dialPeers', dialing', stage')
  BY <1>0, <1>13, <1>14
<1> QED
  BY <1>0, <1>16, <1>17, <1>18

\* A goroutine that goes on, or ends, still has its task, and no dial gets
\* further than it was.
LEMMA StageKeeps ==
  ASSUME NEW stg \in [Conns -> Stages], NEW c \in Conns, NEW s \in Stages \ {"none"},
         stg[c] # "none", s # "ending" => stg[c] # "ending",
         NEW stg2, stg2 = [stg EXCEPT ![c] = s], SingleAt(stg)
  PROVE  /\ stg2 \in [Conns -> Stages] /\ SingleAt(stg2)
         /\ DialedAt(stg2) = DialedAt(stg)
         /\ PendingAt(stg2) \subseteq PendingAt(stg)
<1>1. \A d \in Conns : (stg2[d] = "none" <=> stg[d] = "none") /\ (stg[d] = "ending" => stg2[d] = "ending")
  OBVIOUS
<1>2. \A n \in Nodes : <<n, Static>> \in Conns /\ <<n, Dynamic>> \in Conns
  BY DEF Conns, Lanes, Dials
<1> QED
  BY <1>1, <1>2 DEF SingleAt, DialedAt, PendingAt

\* An inbound connection is no dial.
LEMMA InboundKeeps ==
  ASSUME NEW stg \in [Conns -> Stages], NEW c \in Conns, NEW s \in Stages, c[2] \in Inbounds,
         NEW stg2, stg2 = [stg EXCEPT ![c] = s], SingleAt(stg)
  PROVE  /\ stg2 \in [Conns -> Stages] /\ SingleAt(stg2)
         /\ DialedAt(stg2) = DialedAt(stg)
         /\ PendingAt(stg2) \subseteq PendingAt(stg)
<1>1. \A n \in Nodes : /\ <<n, Static>> \in Conns /\ <<n, Dynamic>> \in Conns
                       /\ <<n, Static>> # c /\ <<n, Dynamic>> # c
  BY P2PAssumption DEF Conns, Lanes, Dials
<1>2. \A n \in Nodes : stg2[<<n, Static>>] = stg[<<n, Static>>] /\ stg2[<<n, Dynamic>>] = stg[<<n, Dynamic>>]
  BY Zenon, <1>1
<1> QED
  BY <1>2 DEF SingleAt, DialedAt, PendingAt

\* The scheduler does not notice a step that leaves its state alone and gives
\* no node a task, nor takes it away.
LEMMA SchedulerRests ==
  ASSUME TypeOK, SchedulerOK, UNCHANGED schedVars,
         stage' \in [Conns -> Stages], SingleAt(stage'),
         DialedAt(stage') = DialedAt(stage), PendingAt(stage') \subseteq PendingAt(stage)
  PROVE  SchedulerOK'
<1>1. sched' = "loop" => Scheduled(pool, dialing, dialPeers, history, stage, connected, static)'
  BY DEF SchedulerOK, Scheduled, schedVars
<1>2. sched' = "loop" => Reading(pool, dialing, dialPeers, open)'
  BY DEF SchedulerOK, Reading, schedVars, freeDialSlots
<1>3. Slots(dialPeers, dialing, stage)'
  <2>1. PendingAt(stage) \in SUBSET Nodes
    BY DEF PendingAt
  <2>2. /\ Cardinality(PendingAt(stage')) \in Nat /\ Cardinality(PendingAt(stage)) \in Nat
        /\ Cardinality(PendingAt(stage')) <= Cardinality(PendingAt(stage))
    BY <2>1, NodesFinite
  <2>3. MaxDialPeers \in Nat /\ dialPeers \in Nat /\ dialPeers' = dialPeers /\ dialing' = dialing
    BY P2PAssumption DEF TypeOK, schedVars
  <2> QED
    BY <2>2, <2>3 DEF SchedulerOK, Slots
<1>4. sched' # "loop" => left' = Cardinality(DialedAt(stage'))
  BY DEF SchedulerOK, schedVars
<1> QED
  BY <1>1, <1>2, <1>3, <1>4 DEF SchedulerOK

\* The same of the invariant: after a message that leaves the loop with these
\* values, launching static dials re-establishes it.
LEMMA LaunchScheduler ==
  ASSUME NEW pl, NEW dl, NEW dp, NEW hs, NEW stg, TypeOK,
         Scheduled(pl, dl, dp, hs, stg, connected', static'), Slots(dp, dl, stg),
         Launch(pl, dl, dp, hs, stg), sched = "loop", sched' = sched
  PROVE  /\ SchedulerOK'
         /\ dialing' \in SUBSET Nodes /\ connected' \in SUBSET Nodes /\ history' \in SUBSET Nodes
         /\ static' \in SUBSET Nodes /\ pool' \in SUBSET Nodes /\ dialPeers' \in Nat
         /\ open' \in BOOLEAN /\ stage' \in [Conns -> Stages]
<1>1. /\ Scheduled(pool', dialing', dialPeers', history', stage', connected', static')
      /\ Slots(dialPeers', dialing', stage')
      /\ Reading(pool', dialing', dialPeers', open')
      /\ open' \in BOOLEAN
  BY LaunchStep
<1>2. SchedulerOK'
  BY <1>1 DEF SchedulerOK, Scheduled
<1> QED
  BY <1>1, <1>2 DEF Scheduled

\* Peers that are counted as before are counted right.
LEMMA CountsRest ==
  ASSUME CountsExact, connected' = connected, dialPeers' = dialPeers, inboundCount' = inboundCount,
         \A n \in Nodes : Known(n)' = Known(n),
         srv \in {"spin", "closing", "stopped"} => srv' \in {"spin", "closing", "stopped"}
  PROVE  CountsExact'
  BY DEF CountsExact

\* A step of the scheduler that the main loop has no part in.
LEMMA SchedulerStep ==
  ASSUME NEW pl, NEW dl, NEW hs, NEW stg, IInv,
         Scheduled(pl, dl, dialPeers, hs, stg, connected', static'), Slots(dialPeers, dl, stg),
         Launch(pl, dl, dialPeers, hs, stg), sched = "loop",
         UNCHANGED <<connected, sched, left, srvVars>>,
         \A c \in Conns : stage[c] = "add" => stg[c] = "add"
  PROVE  IInv'
<1>1. /\ SchedulerOK'
      /\ dialing' \in SUBSET Nodes /\ connected' \in SUBSET Nodes /\ history' \in SUBSET Nodes
      /\ static' \in SUBSET Nodes /\ pool' \in SUBSET Nodes /\ dialPeers' \in Nat
      /\ open' \in BOOLEAN /\ stage' \in [Conns -> Stages]
  BY LaunchScheduler DEF IInv
<1>2. dialPeers' = dialPeers /\ \A c \in Conns : stg[c] # "none" => stage'[c] = stg[c]
  BY LaunchStep
<1>3. TypeOK'
  BY <1>1 DEF IInv, TypeOK, srvVars
<1>4. Handing'
  <2>1. srv = "adding" => stage'[hand] = "add"
    BY <1>2 DEF IInv, Handing, TypeOK
  <2> QED
    BY <2>1 DEF IInv, Handing, srvVars, Peered
<1>5. CountsExact'
  <2>1. \A n \in Nodes : Known(n)' = Known(n)
    BY DEF Known, srvVars
  <2> QED
    BY <2>1, <1>2, CountsRest DEF IInv, srvVars
<1>6. PeersLimited'
  BY DEF IInv, PeersLimited, srvVars, Peered
<1> QED
  BY <1>1, <1>3, <1>4, <1>5, <1>6 DEF IInv

-----------------------------------------------------------------------------
(* The steps of the scheduler                                              *)

\* A dial that starts: candidates are read only while the pool is empty and a
\* slot is free.
LEMMA CandidateStep ==
  ASSUME IInv, NEW n \in Nodes, Candidate(n)
  PROVE  IInv'
<1>1. /\ Scheduled(pool, dialing, dialPeers, history, stage, connected, static)
      /\ Reading(pool, dialing, dialPeers, open) /\ Slots(dialPeers, dialing, stage)
      /\ sched = "loop" /\ open
      /\ UNCHANGED <<connected, static, sched, left, srvVars>>
  BY Zenon DEF IInv, SchedulerOK, Candidate
<1>2. CASE ~checkDial(n, dialing, connected, history)
  <2>1. Launch(pool, dialing, dialPeers, history, stage)
    BY <1>2 DEF Candidate
  <2>2. Scheduled(pool, dialing, dialPeers, history, stage, connected', static')
    BY <1>1
  <2> QED
    BY <1>1, <2>1, <2>2, SchedulerStep
<1>3. CASE checkDial(n, dialing, connected, history)
  <2> DEFINE dl == dialing \cup {n}
             hs == history \cup {n}
             stg == [stage EXCEPT ![<<n, Dynamic>>] = "dial"]
  <2>1. Launch(pool, dl, dialPeers, hs, stg)
    BY <1>3 DEF Candidate
  <2>2. /\ dialing \in SUBSET Nodes /\ history \in SUBSET Nodes /\ stage \in [Conns -> Stages]
        /\ dialPeers \in Nat /\ n \notin dialing /\ pool = {} /\ freeDialSlots(dialPeers, dialing) > 0
    BY <1>1, <1>3 DEF Scheduled, Reading, checkDial
  <2>3. stage[<<n, Static>>] = "none" /\ stage[<<n, Dynamic>>] = "none" /\ <<n, Dynamic>> \in Conns
    BY <1>1, <2>2 DEF Scheduled, DialedAt, Conns, Lanes, Dials
  <2>4. /\ stg \in [Conns -> Stages] /\ stg[<<n, Dynamic>>] = "dial"
        /\ \A c \in Conns : c # <<n, Dynamic>> => stg[c] = stage[c]
    BY <2>2, <2>3 DEF Stages
  <2>5. \A m \in Nodes : /\ stg[<<m, Static>>] = stage[<<m, Static>>]
                         /\ stg[<<m, Dynamic>>] = IF m = n THEN "dial" ELSE stage[<<m, Dynamic>>]
    BY <2>4 DEF Conns, Lanes, Dials, Static, Dynamic
  <2>6. SingleAt(stg)
    BY Zenon, <1>1, <2>3, <2>5 DEF SingleAt, Scheduled
  <2>7. DialedAt(stg) = dl
    BY <1>1, <2>5 DEF DialedAt, Scheduled
  <2>8. pool = {m \in static : checkDial(m, dl, connected, hs)}
    BY <1>1, <2>2 DEF Scheduled, checkDial
  <2>9. Scheduled(pool, dl, dialPeers, hs, stg, connected', static')
    BY Zenon, <1>1, <2>2, <2>4, <2>6, <2>7, <2>8 DEF Scheduled
  <2>10. Slots(dialPeers, dl, stg)
    <3>1. PendingAt(stg) \in SUBSET dl /\ dl \in SUBSET Nodes
      BY <2>2, <2>7 DEF PendingAt, DialedAt
    <3>2. /\ Cardinality(PendingAt(stg)) \in Nat /\ Cardinality(dialing) \in Nat
          /\ Cardinality(PendingAt(stg)) <= Cardinality(dl)
      BY Zenon, <2>2, <3>1, NodesFinite
    <3>3. Cardinality(dl) = Cardinality(dialing) + 1
      BY <2>2, NodesStep
    <3>4. /\ freeDialSlots(dialPeers, dialing) \in Int
          /\ freeDialSlots(dialPeers, dialing) <= MaxActiveDials - Cardinality(dialing)
          /\ freeDialSlots(dialPeers, dialing) <= 2 * (MaxDialPeers - dialPeers) - Cardinality(dialing)
      BY <2>2, SlotsType
    <3>5. MaxDialPeers \in Nat /\ MaxActiveDials \in Nat
      BY P2PAssumption
    <3> QED
      BY <2>2, <3>2, <3>3, <3>4, <3>5 DEF Slots
  <2>11. \A c \in Conns : stage[c] = "add" => stg[c] = "add"
    BY <2>3, <2>4
  <2> HIDE DEF dl, hs, stg
  <2> QED
    BY <1>1, <2>1, <2>9, <2>10, <2>11, SchedulerStep
<1> QED
  BY <1>2, <1>3

\* A dial task that ends.
LEMMA DoneStep ==
  ASSUME IInv, NEW n \in Nodes, NEW k \in Dials, Done(n, k)
  PROVE  IInv'
<1> DEFINE dl == dialing \ {n}
           stg == [stage EXCEPT ![<<n, k>>] = "none"]
           pl == updateStaticPool({n}, pool, static, dl, connected, history)
<1>1. /\ Scheduled(pool, dialing, dialPeers, history, stage, connected, static)
      /\ Slots(dialPeers, dialing, stage)
      /\ sched = "loop" /\ stage[<<n, k>>] = "ending"
      /\ UNCHANGED <<connected, static, sched, left, srvVars>>
      /\ Launch(pl, dl, dialPeers, history, stg)
  BY DEF IInv, SchedulerOK, Done
<1>2. /\ dialing \in SUBSET Nodes /\ stage \in [Conns -> Stages] /\ dialPeers \in Nat
      /\ <<n, k>> \in Conns
  BY <1>1 DEF Scheduled, Conns, Lanes
<1>3. /\ stg \in [Conns -> Stages] /\ stg[<<n, k>>] = "none"
      /\ \A c \in Conns : c # <<n, k>> => stg[c] = stage[c]
  BY <1>2 DEF Stages
<1>4. \A m \in Nodes, l \in Dials : stg[<<m, l>>] = IF m = n /\ l = k THEN "none" ELSE stage[<<m, l>>]
  BY <1>2, <1>3 DEF Conns, Lanes
<1>5. Static \in Dials /\ Dynamic \in Dials /\ (k = Static \/ k = Dynamic) /\ Static # Dynamic
  BY DEF Dials, Static, Dynamic
<1>6. stg[<<n, Static>>] = "none" /\ stg[<<n, Dynamic>>] = "none"
  <2>1. stage[<<n, Static>>] = "none" \/ stage[<<n, Dynamic>>] = "none"
    BY <1>1 DEF SingleAt, Scheduled
  <2>2. CASE k = Static
    BY <1>1, <1>4, <1>5, <2>1, <2>2
  <2>3. CASE k = Dynamic
    BY <1>1, <1>4, <1>5, <2>1, <2>3
  <2> QED
    BY <1>5, <2>2, <2>3
<1>7. \A m \in Nodes : m # n => stg[<<m, Static>>] = stage[<<m, Static>>] /\ stg[<<m, Dynamic>>] = stage[<<m, Dynamic>>]
  BY <1>4, <1>5
<1> HIDE DEF stg
<1>8. SingleAt(stg)
  BY Zenon, <1>1, <1>6, <1>7 DEF SingleAt, Scheduled
<1>9. DialedAt(stg) = dl
  BY <1>1, <1>6, <1>7 DEF DialedAt, Scheduled
<1>10. pl = {m \in static : checkDial(m, dl, connected, history)}
  BY <1>1 DEF Scheduled, checkDial, updateStaticPool
<1>11. Scheduled(pl, dl, dialPeers, history, stg, connected', static')
  BY <1>1, <1>2, <1>3, <1>8, <1>9, <1>10 DEF Scheduled
<1>12. Slots(dialPeers, dl, stg)
  <2>1. PendingAt(stg) \in SUBSET PendingAt(stage) /\ PendingAt(stage) \in SUBSET Nodes /\ dl \in SUBSET dialing
    BY <1>6, <1>7 DEF PendingAt
  <2>2. /\ Cardinality(PendingAt(stg)) \in Nat /\ Cardinality(PendingAt(stage)) \in Nat
        /\ Cardinality(PendingAt(stg)) <= Cardinality(PendingAt(stage))
    BY <2>1, NodesFinite
  <2>3. Cardinality(dl) \in Nat /\ Cardinality(dialing) \in Nat /\ Cardinality(dl) <= Cardinality(dialing)
    BY <1>2, <2>1, NodesFinite
  <2>4. MaxDialPeers \in Nat /\ MaxActiveDials \in Nat
    BY P2PAssumption
  <2> QED
    BY <1>1, <1>2, <2>2, <2>3, <2>4 DEF Slots
<1>13. \A c \in Conns : stage[c] = "add" => stg[c] = "add"
  BY <1>1, <1>3
<1> HIDE DEF dl, pl
<1> QED
  BY <1>1, <1>11, <1>12, <1>13, SchedulerStep

\* A static node, unless it is one already.
LEMMA addStaticStep ==
  ASSUME IInv, NEW n \in Nodes, addStatic(n)
  PROVE  IInv'
<1> DEFINE pl == IF n \in static THEN pool ELSE updateStaticPool({n}, pool, {n}, dialing, connected, history)
<1>1. /\ Scheduled(pool, dialing, dialPeers, history, stage, connected, static)
      /\ Slots(dialPeers, dialing, stage)
      /\ sched = "loop" /\ static' = static \cup {n}
      /\ UNCHANGED <<connected, sched, left, srvVars>>
      /\ Launch(pl, dialing, dialPeers, history, stage)
  BY DEF IInv, SchedulerOK, addStatic
<1>2. pl = {m \in static' : checkDial(m, dialing, connected', history)}
  BY <1>1 DEF Scheduled, updateStaticPool
<1>3. Scheduled(pl, dialing, dialPeers, history, stage, connected', static')
  BY <1>1, <1>2 DEF Scheduled
<1> HIDE DEF pl
<1> QED
  BY <1>1, <1>3, SchedulerStep

\* Recent dials that expire.
LEMMA expireHistoryStep ==
  ASSUME IInv, NEW S \in SUBSET history, expireHistory(S)
  PROVE  IInv'
<1> DEFINE hs == history \ S
           pl == updateStaticPool(S, pool, static, dialing, connected, hs)
<1>1. /\ Scheduled(pool, dialing, dialPeers, history, stage, connected, static)
      /\ Slots(dialPeers, dialing, stage)
      /\ sched = "loop"
      /\ UNCHANGED <<connected, static, sched, left, srvVars>>
      /\ Launch(pl, dialing, dialPeers, hs, stage)
  BY DEF IInv, SchedulerOK, expireHistory
<1>2. pl = {m \in static : checkDial(m, dialing, connected, hs)}
  BY <1>1 DEF Scheduled, updateStaticPool, checkDial
<1>3. Scheduled(pl, dialing, dialPeers, hs, stage, connected', static')
  BY <1>1, <1>2 DEF Scheduled
<1> HIDE DEF pl, hs
<1> QED
  BY <1>1, <1>3, SchedulerStep

\* A static node that is removed.
LEMMA removeStaticStep ==
  ASSUME IInv, removeStatic
  PROVE  IInv'
<1> DEFINE pl == pool \ {hand[1]}
<1>1. /\ Scheduled(pool, dialing, dialPeers, history, stage, connected, static)
      /\ Slots(dialPeers, dialing, stage) /\ Launch(pl, dialing, dialPeers, history, stage)
      /\ sched = "loop" /\ srv = "unstatic" /\ static' = static \ {hand[1]}
      /\ srv' = "loop" /\ hand' = None
      /\ UNCHANGED <<connected, sched, left, flagged, peers, inboundCount, trusted, vip, leaving, quit>>
  BY DEF IInv, SchedulerOK, removeStatic
<1>2. pl = {m \in static' : checkDial(m, dialing, connected', history)}
  BY <1>1 DEF Scheduled, checkDial
<1>3. Scheduled(pl, dialing, dialPeers, history, stage, connected', static')
  BY <1>1, <1>2 DEF Scheduled
<1> HIDE DEF pl
<1>4. /\ SchedulerOK'
      /\ dialing' \in SUBSET Nodes /\ connected' \in SUBSET Nodes /\ history' \in SUBSET Nodes
      /\ static' \in SUBSET Nodes /\ pool' \in SUBSET Nodes /\ dialPeers' \in Nat
      /\ open' \in BOOLEAN /\ stage' \in [Conns -> Stages]
  BY <1>1, <1>3, LaunchScheduler DEF IInv
<1>5. dialPeers' = dialPeers
  BY <1>1, <1>3, LaunchStep
<1>6. TypeOK'
  BY <1>1, <1>4 DEF IInv, TypeOK
<1>7. Handing'
  BY <1>1 DEF IInv, Handing, Peered
<1>8. CountsExact'
  <2>1. \A n \in Nodes : Known(n)' = Known(n)
    BY <1>1 DEF Known
  <2> QED
    BY <2>1, <1>1, <1>5, CountsRest DEF IInv
<1>9. PeersLimited'
  BY <1>1 DEF IInv, PeersLimited, Peered
<1> QED
  BY <1>4, <1>6, <1>7, <1>8, <1>9 DEF IInv

\* A peer the scheduler hears of: its dial is pending no more.
LEMMA peerAddedStep ==
  ASSUME IInv, peerAdded
  PROVE  IInv'
<1>0. PICK h \in Nodes, l \in Lanes : hand = <<h, l>>
  <2>1. hand \in Conns
    BY DEF IInv, Handing, TypeOK, peerAdded
  <2> QED
    BY <2>1 DEF Conns
<1> DEFINE pl == pool \ {h}
           dp == IF l \in Dials THEN dialPeers + 1 ELSE dialPeers
           stg == [stage EXCEPT ![hand] = "ending"]
<1>1. /\ Scheduled(pool, dialing, dialPeers, history, stage, connected, static)
      /\ Slots(dialPeers, dialing, stage) /\ Launch(pl, dialing, dp, history, stg)
      /\ sched = "loop" /\ srv = "adding" /\ connected' = connected \cup {h}
      /\ inboundCount' = IF l \in Inbounds THEN inboundCount + 1 ELSE inboundCount
      /\ srv' = "loop" /\ hand' = None
      /\ UNCHANGED <<static, sched, left, flagged, peers, trusted, vip, leaving, quit>>
  BY <1>0 DEF IInv, SchedulerOK, peerAdded
<1>2. /\ hand \in Conns /\ hand # None
      /\ stage[hand] = "add" /\ peers[h] = l /\ None \notin Lanes /\ Inbounds \cap Dials = {}
      /\ dialPeers \in Nat /\ inboundCount \in Nat /\ stage \in [Conns -> Stages]
      /\ SingleAt(stage) /\ connected \in SUBSET Nodes
  BY <1>0, <1>1, P2PAssumption DEF IInv, Handing, TypeOK, Conns, SchedulerOK
<1>3. /\ stg \in [Conns -> Stages] /\ SingleAt(stg)
      /\ DialedAt(stg) = DialedAt(stage) /\ PendingAt(stg) \subseteq PendingAt(stage)
  BY Zenon, <1>2, StageKeeps DEF Stages
<1>4. pl = {m \in static' : checkDial(m, dialing, connected', history)}
  BY <1>1 DEF Scheduled, checkDial
<1>5. dp \in Nat
  BY <1>2
<1>6. Scheduled(pl, dialing, dp, history, stg, connected', static')
  BY Zenon, <1>1, <1>2, <1>3, <1>4, <1>5 DEF Scheduled
<1>7. Slots(dp, dialing, stg)
  <2>1. /\ Cardinality(PendingAt(stg)) \in Nat /\ Cardinality(PendingAt(stage)) \in Nat
        /\ Cardinality(PendingAt(stg)) <= Cardinality(PendingAt(stage))
    <3>1. PendingAt(stage) \in SUBSET Nodes /\ PendingAt(stg) \in SUBSET PendingAt(stage)
      BY <1>3 DEF PendingAt
    <3> QED
      BY Zenon, <3>1, NodesFinite
  <2>2. /\ MaxDialPeers \in Nat /\ dialPeers \in Nat
        /\ dialPeers + Cardinality(PendingAt(stage)) <= 2 * MaxDialPeers
        /\ Cardinality(dialing) <= MaxActiveDials
    <3>1. Slots(dialPeers, dialing, stage) /\ dialPeers \in Nat
      BY <1>1, <1>2
    <3> HIDE DEF dp, stg, pl
    <3>2. /\ dialPeers + Cardinality(PendingAt(stage)) <= 2 * MaxDialPeers
          /\ Cardinality(dialing) <= MaxActiveDials
      BY <3>1 DEF Slots
    <3> QED
      BY <3>1, <3>2, P2PAssumption
  <2>3. CASE l \notin Dials
    <3>1. dp = dialPeers
      BY <2>3
    <3> HIDE DEF dp, stg
    <3> QED
      BY <2>1, <2>2, <3>1 DEF Slots
  <2>4. CASE l \in Dials
    <3>1. h \in PendingAt(stage)
      BY <1>0, <1>2, <2>4 DEF PendingAt, Dials
    <3>2. \A m \in Nodes : \A x \in Dials : <<m, x>> \in Conns /\ stg[<<m, x>>] = IF <<m, x>> = hand THEN "ending" ELSE stage[<<m, x>>]
      BY <1>2 DEF Conns, Lanes
    <3>3. stg[<<h, Static>>] \in {"none", "ending"} /\ stg[<<h, Dynamic>>] \in {"none", "ending"}
      BY <1>0, <1>2, <2>4, <3>2 DEF SingleAt, Dials
    <3>4. PendingAt(stg) \in SUBSET (PendingAt(stage) \ {h})
      BY <1>3, <3>3 DEF PendingAt
    <3>5. Cardinality(PendingAt(stage) \ {h}) = Cardinality(PendingAt(stage)) - 1
      <4>1. PendingAt(stage) \in SUBSET Nodes
        BY DEF PendingAt
      <4> QED
        BY <1>2, <3>1, <4>1, NodesStep
    <3>6. Cardinality(PendingAt(stg)) <= Cardinality(PendingAt(stage) \ {h})
      <4>1. PendingAt(stage) \ {h} \in SUBSET Nodes
        BY DEF PendingAt
      <4> QED
        BY Zenon, <3>4, <4>1, NodesFinite
    <3>7. dp = dialPeers + 1
      BY <2>4
    <3> HIDE DEF dp, stg
    <3> QED
      BY <2>1, <2>2, <3>5, <3>6, <3>7 DEF Slots
  <2> QED
    BY <2>3, <2>4
<1>8. Known(h) = None /\ Known(h)' = l /\ \A n \in Nodes \ {h} : Known(n) = peers[n] /\ Known(n)' = peers[n]
  BY <1>0, <1>1, <1>2 DEF Known
<1>9. CountsExact /\ srv \notin {"spin", "closing", "stopped"} /\ IInv
  BY <1>1 DEF IInv
<1> HIDE DEF pl, stg, dp
<1>10. /\ SchedulerOK'
       /\ dialing' \in SUBSET Nodes /\ connected' \in SUBSET Nodes /\ history' \in SUBSET Nodes
       /\ static' \in SUBSET Nodes /\ pool' \in SUBSET Nodes /\ dialPeers' \in Nat
       /\ open' \in BOOLEAN /\ stage' \in [Conns -> Stages]
  BY <1>1, <1>6, <1>7, LaunchScheduler DEF IInv
<1>11. dialPeers' = dp
  BY <1>1, <1>6, <1>7, LaunchStep
<1>12. TypeOK'
  <2>1. inboundCount' \in Nat
    <3>1. inboundCount \in Nat /\ inboundCount' \in {inboundCount, inboundCount + 1}
      BY Zenon, <1>1, <1>2
    <3> QED
      BY <3>1
  <2> QED
    BY <1>1, <1>10, <2>1 DEF IInv, TypeOK
<1>13. Handing'
  BY <1>1 DEF IInv, Handing, Peered
<1>14. CountsExact'
  <2> DEFINE D == {n \in Nodes : Known(n) \in Dials}
             E == {n \in Nodes : Known(n) \in Inbounds}
  <2>1. connected' = {n \in Nodes : Known(n)' # None}
    <3>1. connected = {n \in Nodes : Known(n) # None}
      BY <1>9 DEF CountsExact
    <3> QED
      BY <1>1, <1>2, <1>8, <3>1
  <2>2. None \notin Dials /\ None \notin Inbounds
    BY <1>2 DEF Lanes
  <2>3. {n \in Nodes : Known(n)' \in Dials} = (IF l \in Dials THEN D \cup {h} ELSE D) /\ h \notin D
    BY <1>2, <1>8, <2>2
  <2>4. {n \in Nodes : Known(n)' \in Inbounds} = (IF l \in Inbounds THEN E \cup {h} ELSE E) /\ h \notin E
    BY <1>2, <1>8, <2>2
  <2>5. D \in SUBSET Nodes /\ E \in SUBSET Nodes /\ dialPeers = Cardinality(D) /\ inboundCount = Cardinality(E)
    BY <1>9 DEF CountsExact
  <2> HIDE DEF D, E
  <2>6. Cardinality(D \cup {h}) = Cardinality(D) + 1 /\ Cardinality(E \cup {h}) = Cardinality(E) + 1
    BY <1>2, <2>3, <2>4, <2>5, NodesStep
  <2>7. dialPeers' = Cardinality({n \in Nodes : Known(n)' \in Dials})
    BY <1>11, <2>3, <2>5, <2>6 DEF dp
  <2>8. inboundCount' = Cardinality({n \in Nodes : Known(n)' \in Inbounds})
    BY <1>1, <2>4, <2>5, <2>6
  <2> QED
    BY <2>1, <2>7, <2>8 DEF CountsExact
<1>15. PeersLimited'
  BY <1>1 DEF IInv, PeersLimited, Peered
<1> QED
  BY <1>10, <1>12, <1>13, <1>14, <1>15 DEF IInv

\* A peer that is gone.
LEMMA peerRemovedStep ==
  ASSUME IInv, peerRemoved
  PROVE  IInv'
<1>0. PICK h \in Nodes, l \in Lanes : hand = <<h, l>>
  <2>1. hand \in Conns
    BY DEF IInv, Handing, TypeOK, peerRemoved
  <2> QED
    BY <2>1 DEF Conns
<1> DEFINE cn == connected \ {h}
           pl == updateStaticPool({h}, pool, static, dialing, cn, history)
           dp == IF l \in Dials THEN dialPeers - 1 ELSE dialPeers
<1>1. /\ Scheduled(pool, dialing, dialPeers, history, stage, connected, static)
      /\ Slots(dialPeers, dialing, stage) /\ Launch(pl, dialing, dp, history, stage)
      /\ sched = "loop" /\ srv = "removing" /\ connected' = cn
      /\ inboundCount' = IF l \in Inbounds THEN inboundCount - 1 ELSE inboundCount
      /\ srv' = "loop" /\ hand' = None
      /\ UNCHANGED <<static, sched, left, flagged, peers, trusted, vip, leaving, quit>>
  BY <1>0 DEF IInv, SchedulerOK, peerRemoved
<1>2. /\ hand # None /\ peers[h] = None /\ None \notin Lanes /\ Inbounds \cap Dials = {}
      /\ dialPeers \in Nat /\ inboundCount \in Nat /\ connected \in SUBSET Nodes
  BY <1>0, <1>1, P2PAssumption DEF IInv, Handing, TypeOK
<1>3. None \notin Dials /\ None \notin Inbounds
  BY <1>2 DEF Lanes
<1>4. Known(h) = l /\ Known(h)' = None /\ \A n \in Nodes \ {h} : Known(n) = peers[n] /\ Known(n)' = peers[n]
  BY <1>0, <1>1, <1>2 DEF Known
<1> DEFINE D == {n \in Nodes : Known(n) \in Dials}
           E == {n \in Nodes : Known(n) \in Inbounds}
<1>5. /\ D \in SUBSET Nodes /\ E \in SUBSET Nodes /\ dialPeers = Cardinality(D) /\ inboundCount = Cardinality(E)
      /\ connected = {n \in Nodes : Known(n) # None}
  BY <1>1 DEF IInv, CountsExact
<1>6. /\ {n \in Nodes : Known(n)' \in Dials} = IF l \in Dials THEN D \ {h} ELSE D
      /\ {n \in Nodes : Known(n)' \in Inbounds} = IF l \in Inbounds THEN E \ {h} ELSE E
      /\ l \in Dials => h \in D
      /\ l \in Inbounds => h \in E
  BY <1>3, <1>4
<1>7. connected' = {n \in Nodes : Known(n)' # None}
  BY <1>1, <1>2, <1>4, <1>5
<1> HIDE DEF D, E
<1>8. /\ l \in Dials => Cardinality(D \ {h}) = Cardinality(D) - 1 /\ Cardinality(D \ {h}) \in Nat
      /\ l \in Inbounds => Cardinality(E \ {h}) = Cardinality(E) - 1 /\ Cardinality(E \ {h}) \in Nat
  <2>1. D \ {h} \in SUBSET Nodes /\ E \ {h} \in SUBSET Nodes
    BY <1>5
  <2> QED
    BY <2>1, <1>5, <1>6, NodesStep, NodesFinite
<1>9. dp \in Nat /\ dp <= dialPeers /\ inboundCount' \in Nat
  <2>1. /\ dialPeers \in Nat /\ inboundCount \in Nat
        /\ dialPeers = Cardinality(D) /\ inboundCount = Cardinality(E)
    BY <1>2, <1>5
  <2>2. inboundCount' = IF l \in Inbounds THEN inboundCount - 1 ELSE inboundCount
    BY <1>1
  <2> HIDE DEF pl, cn
  <2>3. dp \in Nat /\ dp <= dialPeers
    BY <1>8, <2>1
  <2>4. inboundCount' \in Nat
    BY <1>8, <2>1, <2>2
  <2> QED
    BY <2>3, <2>4
<1>10. pl = {m \in static' : checkDial(m, dialing, connected', history)}
  BY <1>1 DEF Scheduled, checkDial, updateStaticPool
<1>11. Scheduled(pl, dialing, dp, history, stage, connected', static')
  BY Zenon, <1>1, <1>9, <1>10 DEF Scheduled
<1>12. Slots(dp, dialing, stage)
  <2>1. PendingAt(stage) \in SUBSET Nodes
    BY DEF PendingAt
  <2>2. Cardinality(PendingAt(stage)) \in Nat /\ MaxDialPeers \in Nat
    BY <2>1, NodesFinite, P2PAssumption
  <2> QED
    BY <1>1, <1>2, <1>9, <2>2 DEF Slots
<1>13. dialPeers' = dp /\ SchedulerOK'
       /\ dialing' \in SUBSET Nodes /\ connected' \in SUBSET Nodes /\ history' \in SUBSET Nodes
       /\ static' \in SUBSET Nodes /\ pool' \in SUBSET Nodes /\ dialPeers' \in Nat
       /\ open' \in BOOLEAN /\ stage' \in [Conns -> Stages]
  <2> HIDE DEF pl, dp, cn
  <2>1. dialPeers' = dp
    BY Zenon, <1>1, <1>11, <1>12, LaunchStep
  <2>2. /\ SchedulerOK'
        /\ dialing' \in SUBSET Nodes /\ connected' \in SUBSET Nodes /\ history' \in SUBSET Nodes
        /\ static' \in SUBSET Nodes /\ pool' \in SUBSET Nodes /\ dialPeers' \in Nat
        /\ open' \in BOOLEAN /\ stage' \in [Conns -> Stages]
    BY <1>1, <1>11, <1>12, LaunchScheduler DEF IInv
  <2> QED
    BY <2>1, <2>2
<1>14. TypeOK'
  BY <1>1, <1>9, <1>13 DEF IInv, TypeOK
<1>15. Handing'
  BY Zenon, <1>1 DEF IInv, Handing, Peered
<1>16. CountsExact'
  <2>1. dialPeers' = Cardinality({n \in Nodes : Known(n)' \in Dials})
    BY Zenon, <1>5, <1>6, <1>8, <1>13
  <2>2. inboundCount' = Cardinality({n \in Nodes : Known(n)' \in Inbounds})
    BY Zenon, <1>1, <1>5, <1>6, <1>8
  <2> QED
    BY <1>7, <2>1, <2>2 DEF CountsExact
<1>17. PeersLimited'
  BY <1>1 DEF IInv, PeersLimited, Peered
<1> QED
  BY <1>13, <1>14, <1>15, <1>16, <1>17 DEF IInv

\* The loop that stops, the tasks it waits for, and its end.
LEMMA StoppingStep ==
  ASSUME IInv, cancelDials \/ stopDials \/ \E n \in Nodes, k \in Dials : drainDial(n, k)
  PROVE  IInv'
<1>1. CASE cancelDials
  <2>1. /\ sched = "loop" /\ srv = "closing" /\ sched' = "drain" /\ left' = Cardinality(dialing)
        /\ UNCHANGED <<dialing, connected, dialPeers, static, pool, history, open, stage, srvVars>>
    BY <1>1 DEF cancelDials
  <2>2. dialing = DialedAt(stage) /\ dialing \in SUBSET Nodes
    BY <2>1 DEF IInv, SchedulerOK, Scheduled
  <2>3. left' \in Nat
    BY <2>1, <2>2, NodesFinite
  <2>4. TypeOK'
    BY <2>1, <2>3 DEF IInv, TypeOK, srvVars
  <2>5. SchedulerOK'
    BY <2>1, <2>2 DEF IInv, SchedulerOK, Slots
  <2>6. Handing' /\ PeersLimited'
    BY <2>1 DEF IInv, Handing, Peered, PeersLimited, srvVars
  <2>7. CountsExact'
    BY <2>1 DEF CountsExact, srvVars
  <2> QED
    BY <2>4, <2>5, <2>6, <2>7 DEF IInv
<1>2. CASE stopDials
  <2>1. /\ sched = "drain" /\ sched' = "off" /\ srv' = "stopped"
        /\ UNCHANGED <<dialing, connected, dialPeers, static, pool, history, open, left, stage,
                       flagged, peers, inboundCount, trusted, vip, leaving, hand, quit>>
    BY <1>2 DEF stopDials
  <2>2. TypeOK'
    BY <2>1 DEF IInv, TypeOK
  <2>3. SchedulerOK'
    BY <2>1 DEF IInv, SchedulerOK, Slots
  <2>4. Handing' /\ PeersLimited'
    BY <2>1 DEF IInv, Handing, Peered, PeersLimited
  <2>5. CountsExact'
    BY <2>1 DEF CountsExact
  <2> QED
    BY <2>2, <2>3, <2>4, <2>5 DEF IInv
<1>3. ASSUME NEW n \in Nodes, NEW k \in Dials, drainDial(n, k)
      PROVE  IInv'
  <2>1. /\ sched = "drain" /\ left > 0 /\ stage[<<n, k>>] = "ending"
        /\ stage' = [stage EXCEPT ![<<n, k>>] = "none"] /\ left' = left - 1
        /\ UNCHANGED <<dialing, connected, dialPeers, static, pool, history, open, sched, srvVars>>
    BY <1>3 DEF drainDial
  <2>2. /\ stage \in [Conns -> Stages] /\ <<n, k>> \in Conns /\ left \in Nat /\ dialPeers \in Nat
        /\ SingleAt(stage) /\ Slots(dialPeers, dialing, stage) /\ left = Cardinality(DialedAt(stage))
    BY <2>1 DEF IInv, TypeOK, SchedulerOK, Conns, Lanes
  <2>3. stage' \in [Conns -> Stages]
    BY <2>1, <2>2 DEF Stages
  <2>4. \A m \in Nodes, x \in Dials : stage'[<<m, x>>] = IF m = n /\ x = k THEN "none" ELSE stage[<<m, x>>]
    BY <2>1, <2>2 DEF Conns, Lanes
  <2>5. Static \in Dials /\ Dynamic \in Dials /\ (k = Static \/ k = Dynamic) /\ Static # Dynamic
    BY DEF Dials, Static, Dynamic
  <2>6. stage'[<<n, Static>>] = "none" /\ stage'[<<n, Dynamic>>] = "none"
    <3>1. stage[<<n, Static>>] = "none" \/ stage[<<n, Dynamic>>] = "none"
      BY <2>2 DEF SingleAt
    <3>2. CASE k = Static
      BY <2>1, <2>4, <2>5, <3>1, <3>2
    <3>3. CASE k = Dynamic
      BY <2>1, <2>4, <2>5, <3>1, <3>3
    <3> QED
      BY <2>5, <3>2, <3>3
  <2>7. \A m \in Nodes : m # n => stage'[<<m, Static>>] = stage[<<m, Static>>] /\ stage'[<<m, Dynamic>>] = stage[<<m, Dynamic>>]
    BY <2>4, <2>5
  <2>8. SingleAt(stage')
    BY Zenon, <2>2, <2>6, <2>7 DEF SingleAt
  <2>9. DialedAt(stage') = DialedAt(stage) \ {n} /\ n \in DialedAt(stage)
    BY <2>1, <2>5, <2>6, <2>7 DEF DialedAt
  <2>10. left' = Cardinality(DialedAt(stage')) /\ left' \in Nat
    <3>1. DialedAt(stage) \in SUBSET Nodes
      BY DEF DialedAt
    <3>2. Cardinality(DialedAt(stage) \ {n}) = Cardinality(DialedAt(stage)) - 1
      BY <2>9, <3>1, NodesStep
    <3>3. Cardinality(DialedAt(stage')) = Cardinality(DialedAt(stage)) - 1
      BY <2>9, <3>2
    <3> QED
      BY <2>1, <2>2, <3>3
  <2>11. Slots(dialPeers', dialing', stage')
    <3>1. PendingAt(stage') \in SUBSET PendingAt(stage) /\ PendingAt(stage) \in SUBSET Nodes
      BY <2>6, <2>7 DEF PendingAt
    <3>2. /\ Cardinality(PendingAt(stage')) \in Nat /\ Cardinality(PendingAt(stage)) \in Nat
          /\ Cardinality(PendingAt(stage')) <= Cardinality(PendingAt(stage))
      BY <3>1, NodesFinite
    <3>3. MaxDialPeers \in Nat /\ dialPeers' = dialPeers /\ dialing' = dialing
      BY <2>1, P2PAssumption
    <3> QED
      BY <2>2, <3>2, <3>3 DEF Slots
  <2>12. TypeOK'
    BY <2>1, <2>3, <2>10 DEF IInv, TypeOK, srvVars
  <2>13. SchedulerOK'
    BY <2>1, <2>8, <2>10, <2>11 DEF SchedulerOK
  <2>14. Handing' /\ PeersLimited'
    BY <2>1 DEF IInv, Handing, Peered, PeersLimited, srvVars
  <2>15. CountsExact'
    BY <2>1 DEF IInv, Handing, CountsExact, srvVars
  <2> QED
    BY <2>12, <2>13, <2>14, <2>15 DEF IInv
<1> QED
  BY <1>1, <1>2, <1>3

-----------------------------------------------------------------------------
(* The steps of the goroutines and of the main loop                        *)

\* A goroutine goes on by itself.
LEMMA SetupStep ==
  ASSUME IInv, NEW c \in Conns,
         Handshake(c) \/ Abort(c) \/ Return(c) \/ (c[2] \in Inbounds /\ Accept(c))
  PROVE  IInv'
<1>1. /\ UNCHANGED <<schedVars, peers, inboundCount, trusted, vip, leaving, srv, hand, quit>>
      /\ flagged' \in SUBSET Conns
  BY DEF IInv, TypeOK, Handshake, Abort, Return, Accept, srvVars
<1>2. stage \in [Conns -> Stages] /\ SingleAt(stage)
  BY DEF IInv, TypeOK, SchedulerOK
<1>3. /\ stage' \in [Conns -> Stages] /\ SingleAt(stage')
      /\ DialedAt(stage') = DialedAt(stage) /\ PendingAt(stage') \subseteq PendingAt(stage)
  <2>1. CASE Handshake(c)
    <3>1. PICK s \in {"post", "add"} : stage' = [stage EXCEPT ![c] = s] /\ stage[c] \in {"dial", "proto"}
      BY Zenon, <2>1 DEF Handshake
    <3> QED
      BY Zenon, <1>2, <3>1, StageKeeps DEF Stages
  <2>2. CASE Abort(c)
    <3>1. stage' = [stage EXCEPT ![c] = "ending"] /\ stage[c] \notin {"none", "ending"}
      BY <2>2 DEF Abort
    <3> QED
      BY Zenon, <1>2, <3>1, StageKeeps DEF Stages
  <2>3. CASE Return(c)
    <3>1. stage' = [stage EXCEPT ![c] = "none"] /\ c[2] \in Inbounds
      BY <2>3 DEF Return
    <3>2. "none" \in Stages
      BY DEF Stages
    <3> QED
      BY Zenon, <1>2, <3>1, <3>2, InboundKeeps
  <2>4. CASE Accept(c)
    <3>1. stage' = [stage EXCEPT ![c] = "dial"] /\ c[2] \in Inbounds
      BY <2>4 DEF Accept
    <3>2. "dial" \in Stages
      BY DEF Stages
    <3> QED
      BY Zenon, <1>2, <3>1, <3>2, InboundKeeps
  <2> QED
    BY <2>1, <2>2, <2>3, <2>4
<1>4. TypeOK'
  BY <1>1, <1>3 DEF IInv, TypeOK, schedVars
<1>5. SchedulerOK'
  BY <1>1, <1>3, SchedulerRests DEF IInv
<1>6. srv = "adding" => stage'[hand] = "add"
  <2> SUFFICES ASSUME srv = "adding" PROVE stage'[hand] = "add"
    OBVIOUS
  <2>1. hand \in Conns /\ stage[hand] = "add"
    BY DEF IInv, Handing, TypeOK
  <2>2. hand # c /\ \E s : stage' = [stage EXCEPT ![c] = s]
    BY <2>1 DEF Handshake, Abort, Return, Accept, Running
  <2> QED
    BY <1>2, <2>1, <2>2
<1>7. Handing'
  BY Zenon, <1>1, <1>6 DEF IInv, Handing, Peered, schedVars
<1>8. CountsExact'
  <2>1. \A n \in Nodes : Known(n)' = Known(n)
    BY <1>1 DEF Known
  <2> QED
    BY <2>1, <1>1, CountsRest DEF IInv, schedVars
<1>9. PeersLimited'
  BY <1>1 DEF IInv, PeersLimited, Peered
<1> QED
  BY <1>4, <1>5, <1>7, <1>8, <1>9 DEF IInv

\* The main loop looks at a connection that does not become a peer, or does not
\* yet: only its goroutine and its flag change.
LEMMA CheckedStep ==
  ASSUME IInv, NEW c \in Conns, NEW s \in {"proto", "ending"}, srv = "loop",
         stage[c] \in {"post", "add"}, stage' = [stage EXCEPT ![c] = s], flagged' \in SUBSET Conns,
         UNCHANGED <<schedVars, peers, inboundCount, trusted, vip, leaving, srv, hand, quit>>
  PROVE  IInv'
<1>1. stage \in [Conns -> Stages] /\ SingleAt(stage)
  BY DEF IInv, TypeOK, SchedulerOK
<1>2. /\ stage' \in [Conns -> Stages] /\ SingleAt(stage')
      /\ DialedAt(stage') = DialedAt(stage) /\ PendingAt(stage') \subseteq PendingAt(stage)
  BY Zenon, <1>1, StageKeeps DEF Stages
<1>3. TypeOK'
  BY Zenon, <1>2 DEF IInv, TypeOK, schedVars
<1>4. SchedulerOK'
  BY Zenon, <1>2, SchedulerRests DEF IInv
<1>5. Handing'
  BY DEF IInv, Handing, Peered, schedVars
<1>6. CountsExact'
  <2>1. \A n \in Nodes : Known(n)' = Known(n)
    BY DEF Known
  <2> QED
    BY <2>1, CountsRest DEF IInv, schedVars
<1>7. PeersLimited'
  BY DEF IInv, PeersLimited, Peered
<1> QED
  BY <1>3, <1>4, <1>5, <1>6, <1>7 DEF IInv

\* The scheduler does not notice a step of the main loop.
LEMMA SchedulerStill ==
  ASSUME IInv, UNCHANGED <<schedVars, stage>>
  PROVE  SchedulerOK'
  BY SchedulerRests DEF IInv, TypeOK, SchedulerOK

\* A connection that becomes a peer passed the checks with the counts as they
\* are, since the main loop has told the scheduler of all the others.
LEMMA AddPeerStep ==
  ASSUME IInv, NEW c \in Conns, NEW shared \in BOOLEAN, AddPeer(c, shared)
  PROVE  IInv'
<1>1. PICK n \in Nodes, l \in Lanes : c = <<n, l>>
  BY DEF Conns
<1>2. CASE ~(shared /\ postHandshakeChecks(c, flagged))
  <2>1. /\ srv = "loop" /\ stage[c] = "add" /\ stage' = [stage EXCEPT ![c] = "ending"]
        /\ flagged' = flagged \ {c}
        /\ UNCHANGED <<schedVars, peers, inboundCount, trusted, vip, leaving, srv, hand, quit>>
    BY <1>2 DEF AddPeer
  <2>2. flagged' \in SUBSET Conns
    BY <2>1 DEF IInv, TypeOK
  <2> QED
    BY Zenon, <2>1, <2>2, CheckedStep
<1>3. CASE shared /\ postHandshakeChecks(c, flagged)
  <2>1. /\ srv = "loop" /\ stage[c] = "add" /\ peers[n] = None
        /\ peers' = [peers EXCEPT ![n] = l]
        /\ vip' = (IF c \in flagged THEN vip \cup {n} ELSE vip)
        /\ srv' = "adding" /\ hand' = c
        /\ UNCHANGED <<schedVars, stage, flagged, inboundCount, trusted, leaving, quit>>
    BY <1>1, <1>3 DEF AddPeer, postHandshakeChecks
  <2>2. /\ c \in flagged \/ Cardinality(Peered) < MaxPeers
        /\ c \in flagged \/ l \notin Inbounds \/ inboundCount < maxInboundConns
    BY <1>1, <1>3 DEF postHandshakeChecks
  <2>3. /\ peers \in [Nodes -> Lanes \cup {None}] /\ None \notin Lanes /\ None \notin Conns /\ hand = None
        /\ leaving \subseteq Peered /\ vip \in SUBSET Nodes /\ sched = "loop"
    BY <2>1, P2PAssumption DEF IInv, TypeOK, Handing
  <2>4. peers' \in [Nodes -> Lanes \cup {None}] /\ peers'[n] = l /\ \A m \in Nodes \ {n} : peers'[m] = peers[m]
    BY Zenon, <2>1, <2>3
  <2>5. Peered' = Peered \cup {n} /\ n \notin Peered /\ Peered \in SUBSET Nodes
    BY Zenon, <2>1, <2>3, <2>4 DEF Peered
  <2>6. TypeOK'
    BY <2>1, <2>4 DEF IInv, TypeOK, schedVars
  <2>7. SchedulerOK'
    BY <2>1, SchedulerStill
  <2>8. Handing'
    BY <1>1, <2>1, <2>3, <2>4, <2>5 DEF Handing, schedVars
  <2>9. CountsExact'
    <3>1. \A m \in Nodes : Known(m)' = Known(m)
      BY <1>1, <2>1, <2>3, <2>4 DEF Known
    <3> QED
      BY <3>1, <2>1, CountsRest DEF IInv, schedVars
  <2>10. PeersLimited'
    <3> DEFINE P == Peered \ vip
               I == {m \in Peered \ vip : peers[m] \in Inbounds}
    <3>1. /\ P \in SUBSET Peered /\ I \in SUBSET Peered /\ P \in SUBSET Nodes /\ I \in SUBSET Nodes
          /\ Cardinality(P) <= MaxPeers /\ Cardinality(I) <= maxInboundConns
      BY <2>5 DEF IInv, PeersLimited
    <3>2. CASE c \in flagged
      <4>1. (Peered \ vip)' \in SUBSET P /\ {m \in Peered \ vip : peers[m] \in Inbounds}' \in SUBSET I
        BY <2>1, <2>4, <2>5, <3>2
      <4> HIDE DEF P, I
      <4>2. /\ Cardinality((Peered \ vip)') \in Nat /\ Cardinality(P) \in Nat
            /\ Cardinality((Peered \ vip)') <= Cardinality(P)
        BY <3>1, <4>1, NodesFinite
      <4>3. /\ Cardinality({m \in Peered \ vip : peers[m] \in Inbounds}') \in Nat /\ Cardinality(I) \in Nat
            /\ Cardinality({m \in Peered \ vip : peers[m] \in Inbounds}') <= Cardinality(I)
        BY <3>1, <4>1, NodesFinite
      <4>4. MaxPeers \in Nat /\ maxInboundConns \in Int
        BY P2PAssumption DEF maxInboundConns
      <4> QED
        BY <3>1, <4>2, <4>3, <4>4 DEF PeersLimited, maxInboundConns
    <3>3. CASE c \notin flagged
      <4> DEFINE E == {m \in Nodes : Known(m) \in Inbounds}
      <4>1. (Peered \ vip)' \in SUBSET (Peered \cup {n}) /\ Peered \cup {n} \in SUBSET Nodes
        BY <2>1, <2>5
      <4>2. /\ Cardinality((Peered \ vip)') \in Nat /\ Cardinality(Peered) \in Nat
            /\ Cardinality((Peered \ vip)') <= Cardinality(Peered \cup {n})
            /\ Cardinality(Peered \cup {n}) = Cardinality(Peered) + 1
        BY <2>5, <4>1, NodesFinite, NodesStep
      <4>3. Cardinality((Peered \ vip)') <= MaxPeers
        BY <2>2, <3>3, <4>2, P2PAssumption
      <4>4. /\ E \in SUBSET Nodes /\ E = {m \in Nodes : peers[m] \in Inbounds} /\ inboundCount = Cardinality(E)
        BY <2>1, <2>3 DEF IInv, CountsExact, Known
      <4>5. I \subseteq E
        BY <2>5, <4>4
      <4>6. CASE l \notin Inbounds
        <5>1. {m \in Peered \ vip : peers[m] \in Inbounds}' \in SUBSET I
          BY <2>1, <2>4, <2>5, <3>3, <4>6
        <5> HIDE DEF I
        <5>2. /\ Cardinality({m \in Peered \ vip : peers[m] \in Inbounds}') \in Nat /\ Cardinality(I) \in Nat
              /\ Cardinality({m \in Peered \ vip : peers[m] \in Inbounds}') <= Cardinality(I)
          BY <3>1, <5>1, NodesFinite
        <5>3. maxInboundConns \in Int
          BY P2PAssumption DEF maxInboundConns
        <5> QED
          BY <3>1, <4>3, <5>2, <5>3 DEF PeersLimited, maxInboundConns
      <4>7. CASE l \in Inbounds
        <5>1. {m \in Peered \ vip : peers[m] \in Inbounds}' \in SUBSET (E \cup {n}) /\ n \notin E
          BY <2>1, <2>3, <2>4, <2>5, <3>3, <4>4, P2PAssumption DEF Lanes
        <5> HIDE DEF E
        <5>2. Cardinality(E) \in Nat /\ Cardinality(E \cup {n}) = Cardinality(E) + 1 /\ E \cup {n} \in SUBSET Nodes
          BY <4>4, <5>1, NodesFinite, NodesStep
        <5>3. /\ Cardinality({m \in Peered \ vip : peers[m] \in Inbounds}') \in Nat
              /\ Cardinality({m \in Peered \ vip : peers[m] \in Inbounds}') <= Cardinality(E \cup {n})
          BY <5>1, <5>2, NodesFinite
        <5>4. maxInboundConns \in Int /\ Cardinality(E) < maxInboundConns
          <6>1. maxInboundConns \in Int
            BY P2PAssumption DEF maxInboundConns
          <6>2. inboundCount < maxInboundConns
            BY <2>2, <3>3, <4>7
          <6> QED
            BY <4>4, <6>1, <6>2
        <5>5. Cardinality({m \in Peered \ vip : peers[m] \in Inbounds}') <= maxInboundConns
          BY <5>2, <5>3, <5>4
        <5> QED
          BY <4>3, <5>5 DEF PeersLimited, maxInboundConns
      <4> QED
        BY <4>6, <4>7
    <3> QED
      BY <3>2, <3>3
  <2> QED
    BY <2>6, <2>7, <2>8, <2>9, <2>10 DEF IInv
<1> QED
  BY <1>2, <1>3

\* The limits hold of fewer peers, too.
LEMMA FewerPeers ==
  ASSUME IInv, NEW n \in Nodes, peers' = [peers EXCEPT ![n] = None], vip' = vip \ {n}
  PROVE  PeersLimited'
<1> DEFINE P == Peered \ vip
           I == {m \in Peered \ vip : peers[m] \in Inbounds}
           Q == {m \in Peered \ vip : peers[m] \in Inbounds}'
<1>1. peers \in [Nodes -> Lanes \cup {None}] /\ Peered \in SUBSET Nodes /\ Peered' = Peered \ {n}
  BY DEF IInv, TypeOK, Peered
<1>2. (Peered \ vip)' \in SUBSET P /\ Q \in SUBSET I /\ P \in SUBSET Nodes /\ I \in SUBSET Nodes
  BY <1>1
<1>3. Cardinality(P) <= MaxPeers /\ Cardinality(I) <= maxInboundConns
  BY DEF IInv, PeersLimited
<1>4. MaxPeers \in Nat /\ maxInboundConns \in Int
  BY P2PAssumption DEF maxInboundConns
<1>5. Cardinality((Peered \ vip)') <= MaxPeers /\ Cardinality(Q) <= maxInboundConns => PeersLimited'
  BY DEF PeersLimited, maxInboundConns
<1> HIDE DEF P, I, Q
<1>6. /\ Cardinality((Peered \ vip)') \in Nat /\ Cardinality(P) \in Nat
      /\ Cardinality((Peered \ vip)') <= Cardinality(P)
  BY <1>2, NodesFinite
<1>7. Cardinality(Q) \in Nat /\ Cardinality(I) \in Nat /\ Cardinality(Q) <= Cardinality(I)
  BY <1>2, NodesFinite
<1>8. Cardinality((Peered \ vip)') <= MaxPeers /\ Cardinality(Q) <= maxInboundConns
  BY <1>3, <1>4, <1>6, <1>7
<1> QED
  BY <1>5, <1>8

\* A peer that is gone is removed before the scheduler hears of it.
LEMMA DelPeerStep ==
  ASSUME IInv, NEW n \in Nodes, DelPeer(n) \/ DelPeerSpinning(n)
  PROVE  IInv'
<1>1. /\ n \in leaving /\ peers' = [peers EXCEPT ![n] = None] /\ leaving' = leaving \ {n}
      /\ vip' = vip \ {n} /\ flagged' = flagged \ {<<n, peers[n]>>}
      /\ UNCHANGED <<schedVars, stage, inboundCount, trusted, quit>>
      /\ \/ srv = "loop" /\ srv' = "removing" /\ hand' = <<n, peers[n]>>
         \/ srv = "spin" /\ srv' = "spin" /\ hand' = hand
  BY DEF DelPeer, DelPeerSpinning
<1>2. /\ peers \in [Nodes -> Lanes \cup {None}] /\ None \notin Conns /\ leaving \subseteq Peered
      /\ (srv = "loop" => hand = None /\ sched = "loop") /\ (srv = "spin" => hand = None /\ sched = "loop")
  BY P2PAssumption DEF IInv, TypeOK, Handing
<1>3. peers[n] # None /\ <<n, peers[n]>> \in Conns /\ <<n, peers[n]>> # None
  <2>1. n \in Peered
    BY Zenon, <1>1, <1>2
  <2>2. peers[n] # None
    BY <2>1 DEF Peered
  <2>3. peers[n] \in Lanes
    BY <1>2, <2>2
  <2>4. <<n, peers[n]>> \in Conns
    BY <2>3 DEF Conns
  <2> QED
    BY <1>2, <2>2, <2>4
<1>4. /\ peers' \in [Nodes -> Lanes \cup {None}] /\ peers'[n] = None
      /\ \A m \in Nodes \ {n} : peers'[m] = peers[m]
  BY <1>1, <1>2
<1>5. TypeOK'
  BY Zenon, <1>1, <1>3, <1>4 DEF IInv, TypeOK, schedVars
<1>6. SchedulerOK'
  BY <1>1, SchedulerStill
<1>7. Handing'
  <2>1. leaving' \subseteq Peered'
    BY <1>1, <1>2, <1>4 DEF Peered
  <2>2. sched' = "loop"
    BY Zenon, <1>1, <1>2 DEF schedVars
  <2>3. CASE srv = "spin"
    BY Zenon, <1>1, <1>2, <2>1, <2>2, <2>3 DEF Handing
  <2>4. CASE srv = "loop"
    <3>1. srv' = "removing" /\ hand' # None /\ hand'[1] = n
      <4>1. srv' = "removing" /\ hand' = <<n, peers[n]>>
        BY <1>1, <2>4
      <4> QED
        BY <1>3, <4>1
    <3>2. peers'[hand'[1]] = None
      BY <1>4, <3>1
    <3> QED
      BY Zenon, <2>1, <2>2, <3>1, <3>2 DEF Handing
  <2> QED
    BY <1>1, <2>3, <2>4
<1>8. CountsExact'
  <2>1. CASE srv = "spin"
    BY <1>1, <2>1 DEF CountsExact
  <2>2. CASE srv = "loop"
    <3>1. /\ srv' = "removing" /\ hand' # None /\ hand'[1] = n /\ hand'[2] = peers[n] /\ hand = None
      <4>1. srv' = "removing" /\ hand' = <<n, peers[n]>> /\ hand = None
        BY <1>1, <1>2, <2>2
      <4> QED
        BY <1>3, <4>1
    <3>2. \A m \in Nodes : Known(m) = peers[m]
      BY <3>1 DEF Known
    <3>3. \A m \in Nodes : Known(m)' = peers[m]
      BY <1>4, <3>1 DEF Known
    <3> QED
      BY <3>1, <3>2, <3>3, <1>1, <2>2, CountsRest DEF IInv, schedVars
  <2> QED
    BY <1>1, <2>1, <2>2
<1>9. PeersLimited'
  BY Zenon, <1>1, FewerPeers
<1> QED
  BY <1>5, <1>6, <1>7, <1>8, <1>9 DEF IInv

\* The other steps change neither a peer nor a connection.
LEMMA OtherStep ==
  ASSUME IInv,
         \/ \E n \in Nodes : \/ PeerLeaves(n) \/ RemovePeer(n)
                             \/ AddTrustedPeer(n) \/ RemoveTrustedPeer(n)
         \/ Stop \/ SpinDown \/ Close
  PROVE  IInv'
<1>1. UNCHANGED <<schedVars, stage, peers, inboundCount, vip>>
  BY DEF PeerLeaves, RemovePeer, AddTrustedPeer, RemoveTrustedPeer, Stop, SpinDown, Close
<1>2. peers \in [Nodes -> Lanes \cup {None}] /\ None \notin Conns /\ Static \in Lanes
  BY P2PAssumption DEF IInv, TypeOK, Lanes, Dials
<1>3. \A n \in Peered : <<n, peers[n]>> \in Conns
  BY <1>2 DEF Peered, Conns
<1>4. flagged' \in SUBSET Conns /\ trusted' \in SUBSET Nodes /\ quit' \in BOOLEAN
  BY Zenon, <1>3 DEF IInv, TypeOK, PeerLeaves, RemovePeer, AddTrustedPeer, RemoveTrustedPeer, Stop, SpinDown, Close
<1>5. leaving' \in SUBSET Nodes /\ leaving' \subseteq Peered
  BY DEF IInv, TypeOK, Handing, Peered, PeerLeaves, RemovePeer, AddTrustedPeer, RemoveTrustedPeer, Stop, SpinDown, Close
<1>6. \/ UNCHANGED <<srv, hand>>
      \/ srv = "loop" /\ srv' = "unstatic" /\ hand' \in Conns
      \/ srv = "loop" /\ srv' = "spin" /\ hand' = hand
      \/ srv = "spin" /\ srv' = "closing" /\ hand' = hand
  <2>1. \A n \in Nodes : <<n, Static>> \in Conns
    BY <1>2 DEF Conns
  <2>2. ASSUME NEW n \in Nodes, PeerLeaves(n) \/ AddTrustedPeer(n) \/ RemoveTrustedPeer(n)
        PROVE  UNCHANGED <<srv, hand>>
    BY <2>2 DEF PeerLeaves, AddTrustedPeer, RemoveTrustedPeer
  <2>3. ASSUME NEW n \in Nodes, RemovePeer(n)
        PROVE  srv = "loop" /\ srv' = "unstatic" /\ hand' \in Conns
    BY <2>1, <2>3 DEF RemovePeer
  <2>4. CASE Stop \/ SpinDown \/ Close
    BY <2>4 DEF Stop, SpinDown, Close
  <2> QED
    BY <2>2, <2>3, <2>4
<1>7. TypeOK'
  BY <1>1, <1>4, <1>5, <1>6 DEF IInv, TypeOK, schedVars
<1>8. SchedulerOK'
  BY <1>1, SchedulerStill
<1>9. Handing'
  BY Zenon, <1>1, <1>2, <1>5, <1>6 DEF IInv, Handing, Peered, schedVars
<1>10. CountsExact'
  <2>1. \A n \in Nodes : Known(n)' = Known(n)
    BY <1>1, <1>6 DEF IInv, Handing, Known
  <2> QED
    BY <2>1, <1>1, <1>6, CountsRest DEF IInv, schedVars
<1>11. PeersLimited'
  BY <1>1 DEF IInv, PeersLimited, Peered
<1> QED
  BY <1>7, <1>8, <1>9, <1>10, <1>11 DEF IInv

-----------------------------------------------------------------------------
(* The theorems                                                            *)

\* The server starts with no task, no peer and an empty pool.
LEMMA InitIInv ==
  ASSUME Init
  PROVE  IInv
<1>1. /\ Cardinality({}) = 0 /\ MaxDialPeers \in 0..MaxPeers /\ MaxPeers \in Nat /\ MaxActiveDials \in Nat
      /\ Friends \in SUBSET Nodes /\ None \notin Lanes
  BY FS_EmptySet, P2PAssumption
<1>2. TypeOK
  <2>1. open \in BOOLEAN
    BY DEF Init
  <2>2. stage \in [Conns -> Stages] /\ peers \in [Nodes -> Lanes \cup {None}] /\ trusted \in SUBSET Nodes
    BY <1>1 DEF Init, Stages
  <2>3. /\ dialing = {} /\ connected = {} /\ history = {} /\ static = {} /\ pool = {} /\ flagged = {}
        /\ vip = {} /\ leaving = {} /\ dialPeers = 0 /\ inboundCount = 0 /\ left = 0 /\ sched = "loop"
        /\ srv = "loop" /\ hand = None /\ quit = FALSE
    BY DEF Init
  <2> QED
    BY Zenon, <2>1, <2>2, <2>3 DEF TypeOK
<1>3. \A n \in Nodes : stage[<<n, Static>>] = "none" /\ stage[<<n, Dynamic>>] = "none"
  BY DEF Init, Conns, Lanes, Dials
<1>4. SingleAt(stage) /\ DialedAt(stage) = {} /\ PendingAt(stage) = {}
  BY <1>3 DEF SingleAt, DialedAt, PendingAt
<1>5. Scheduled(pool, dialing, dialPeers, history, stage, connected, static)
  BY <1>2, <1>4 DEF Init, Scheduled, TypeOK
<1>6. Reading(pool, dialing, dialPeers, open)
  BY Zenon DEF Init, Reading
<1>7. Slots(dialPeers, dialing, stage)
  BY <1>1, <1>4 DEF Init, Slots
<1>8. SchedulerOK
  BY <1>4, <1>5, <1>6, <1>7 DEF Init, SchedulerOK
<1>9. Peered = {}
  BY DEF Init, Peered
<1>10. Handing
  BY <1>9 DEF Init, Handing
<1>11. CountsExact
  <2>1. \A n \in Nodes : Known(n) = None
    BY DEF Init, Known
  <2>2. /\ {n \in Nodes : Known(n) # None} = {} /\ {n \in Nodes : Known(n) \in Dials} = {}
        /\ {n \in Nodes : Known(n) \in Inbounds} = {}
    BY <1>1, <2>1 DEF Lanes
  <2> QED
    BY <1>1, <2>2 DEF Init, CountsExact
<1>12. PeersLimited
  <2>1. Peered \ vip = {} /\ {n \in Peered \ vip : peers[n] \in Inbounds} = {}
    BY <1>9
  <2>2. 0 <= MaxPeers /\ 0 <= maxInboundConns
    BY <1>1 DEF maxInboundConns
  <2> QED
    BY <1>1, <2>1, <2>2 DEF PeersLimited
<1> QED
  BY <1>2, <1>8, <1>10, <1>11, <1>12 DEF IInv

\* Every step keeps the invariant.
LEMMA NextIInv ==
  ASSUME IInv, [Next]_vars
  PROVE  IInv'
<1>1. CASE UNCHANGED vars
  <2>1. UNCHANGED <<schedVars, stage>>
    BY <1>1 DEF vars
  <2>2. SchedulerOK'
    BY <2>1, SchedulerStill
  <2>3. TypeOK' /\ Handing' /\ PeersLimited'
    BY Zenon, <1>1 DEF IInv, TypeOK, Handing, PeersLimited, Peered, vars, schedVars, srvVars
  <2>4. CountsExact'
    <3>1. \A n \in Nodes : Known(n)' = Known(n)
      BY <1>1 DEF Known, vars, srvVars
    <3> QED
      BY <1>1, <3>1, CountsRest DEF IInv, vars, schedVars, srvVars
  <2> QED
    BY <2>2, <2>3, <2>4 DEF IInv
<1>2. ASSUME NEW n \in Nodes, Candidate(n) PROVE IInv'
  BY <1>2, CandidateStep
<1>3. ASSUME NEW n \in Nodes, NEW k \in Dials, Done(n, k) PROVE IInv'
  BY <1>3, DoneStep
<1>4. ASSUME NEW n \in Friends, addStatic(n) PROVE IInv'
  BY <1>4, addStaticStep, P2PAssumption
<1>5. ASSUME NEW S \in SUBSET history, expireHistory(S) PROVE IInv'
  BY <1>5, expireHistoryStep
<1>6. CASE removeStatic \/ peerAdded \/ peerRemoved
  BY <1>6, removeStaticStep, peerAddedStep, peerRemovedStep
<1>7. CASE cancelDials \/ stopDials \/ \E n \in Nodes, k \in Dials : drainDial(n, k)
  BY <1>7, StoppingStep
<1>8. ASSUME NEW n \in Callers, NEW k \in Inbounds, Accept(<<n, k>>) PROVE IInv'
  <2>1. <<n, k>> \in Conns
    BY P2PAssumption DEF Conns, Lanes
  <2>2. <<n, k>>[2] \in Inbounds
    OBVIOUS
  <2> QED
    BY <1>8, <2>1, <2>2, SetupStep
<1>9. ASSUME NEW c \in Conns, Return(c) \/ Handshake(c) \/ Abort(c) PROVE IInv'
  BY <1>9, SetupStep
<1>10. ASSUME NEW c \in Conns, PostHandshake(c) PROVE IInv'
  <2>1. PICK s \in {"proto", "ending"} :
          /\ stage' = [stage EXCEPT ![c] = s] /\ srv = "loop" /\ stage[c] = "post"
          /\ flagged' \in SUBSET Conns
          /\ UNCHANGED <<schedVars, peers, inboundCount, trusted, vip, leaving, srv, hand, quit>>
    BY <1>10 DEF PostHandshake, IInv, TypeOK
  <2> QED
    BY Zenon, <2>1, CheckedStep
<1>11. ASSUME NEW c \in Conns, NEW shared \in BOOLEAN, AddPeer(c, shared) PROVE IInv'
  BY <1>11, AddPeerStep
<1>12. ASSUME NEW n \in Nodes, DelPeer(n) \/ DelPeerSpinning(n) PROVE IInv'
  BY <1>12, DelPeerStep
<1>13. CASE \/ \E n \in Nodes : \/ PeerLeaves(n) \/ RemovePeer(n)
                                \/ AddTrustedPeer(n) \/ RemoveTrustedPeer(n)
            \/ Stop \/ SpinDown \/ Close
  BY <1>13, OtherStep
<1>14. Friends \subseteq Nodes
  BY P2PAssumption
<1> QED
  BY Zenon, <1>1, <1>2, <1>3, <1>4, <1>5, <1>6, <1>7, <1>8, <1>9, <1>10, <1>11, <1>12, <1>13, <1>14 DEF Next

\* The invariant holds always.
LEMMA Invariant == Spec => []IInv
  BY InitIInv, NextIInv, PTL DEF Spec

\* Dials as the specification's properties name them.
LEMMA DialsAt == Dialed = DialedAt(stage) /\ Pending = PendingAt(stage)
  BY DEF Dialed, DialedAt, Pending, PendingAt, Running, Dials

\* Both loops stay where they can be, and everything has its type: dialPeers and
\* inboundCount never fall below zero.
THEOREM TypesCorrect == Spec => []TypeOK
<1>1. IInv => TypeOK
  BY DEF IInv
<1> QED
  BY <1>1, Invariant, PTL

\* For any nodes and limits, a node is dialed by one task at a time, the
\* scheduler knows which nodes are dialed, and a stopped scheduler waits for as
\* many tasks as there are.
THEOREM DialsSingle == Spec => []OneDial
<1>1. ASSUME IInv PROVE OneDial
  <2>1. \A n \in Nodes : ~(Running(<<n, Static>>) /\ Running(<<n, Dynamic>>))
    BY Zenon, <1>1 DEF IInv, SchedulerOK, SingleAt, Running
  <2>2. sched = "loop" => dialing = Dialed
    BY <1>1, DialsAt DEF IInv, SchedulerOK, Scheduled
  <2>3. sched # "loop" => left = Cardinality(Dialed)
    BY <1>1, DialsAt DEF IInv, SchedulerOK
  <2> QED
    BY <2>1, <2>2, <2>3 DEF OneDial
<1> QED
  BY <1>1, Invariant, PTL

\* For any nodes and limits, the pool holds just the static nodes that may be
\* dialed.
THEOREM PoolKept == Spec => []PoolExact
<1>1. IInv => PoolExact
  BY DEF IInv, SchedulerOK, Scheduled, PoolExact
<1> QED
  BY <1>1, Invariant, PTL

\* For any nodes and limits, the scheduler and the main loop agree on the peers
\* and count them right.
THEOREM CountsKept == Spec => []CountsExact
<1>1. IInv => CountsExact
  BY DEF IInv
<1> QED
  BY <1>1, Invariant, PTL

\* For any nodes and limits, dials and peers stay within their limits.
THEOREM LimitsHold == Spec => []LimitsKept
<1>1. IInv => LimitsKept
  BY DialsAt DEF IInv, SchedulerOK, Slots, PeersLimited, LimitsKept
<1> QED
  BY <1>1, Invariant, PTL

=============================================================================
