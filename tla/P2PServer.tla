------------------------------ MODULE P2PServer ------------------------------
(***************************************************************************)
(* Connections of p2p: the main loop of the server (server.go), the dial   *)
(* scheduler (dial.go), and the goroutines that set up a connection, for   *)
(* an inbound one or for a dial task.                                      *)
(*                                                                         *)
(* Both loops handle one message per step.  The main loop tells the        *)
(* scheduler of peers over channels without a buffer and waits until it    *)
(* listens; a step of the scheduler ends with what it does at the top of   *)
(* its loop, launching static dials.                                       *)
(*                                                                         *)
(* A connection is a pair of a node and a lane: its static dial, its       *)
(* dynamic dial, or one of its inbound connections.  Handshakes succeed or *)
(* fail.  The static pool is a set, its order being random; any recent     *)
(* dials may expire together.  The endpoint of a node stays what it is.    *)
(***************************************************************************)
EXTENDS Integers, FiniteSets

CONSTANTS
  Nodes, Self,
  Barred,           \* nodes outside NetRestrict
  Portless,         \* nodes with an address but no TCP port
  Friends, Callers, \* nodes that users name, and nodes that call
  Inbounds,         \* lanes: a node's simultaneous inbound connections
  MaxPeers,
  MaxDialPeers,     \* maxDialedConns()
  MaxActiveDials,   \* dialConfig.maxActiveDials
  MaxPendingPeers,  \* tokens of listenLoop
  None

Static == "static"
Dynamic == "dynamic"
Dials == {Static, Dynamic}
Lanes == Dials \cup Inbounds
Conns == Nodes \X Lanes

ASSUME P2PAssumption ==
  /\ IsFiniteSet(Nodes) /\ IsFiniteSet(Inbounds)
  /\ Friends \subseteq Nodes /\ Callers \subseteq Nodes
  /\ Inbounds \cap Dials = {} /\ None \notin Lanes \cup Conns
  /\ MaxPeers \in Nat /\ MaxDialPeers \in 0..MaxPeers
  /\ MaxActiveDials \in Nat \ {0} /\ MaxPendingPeers \in Nat \ {0}

VARIABLES
  dialing,       \* dialScheduler.dialing: nodes with a dial task
  connected,     \* dialScheduler.peers
  dialPeers,
  static,
  pool,          \* dialScheduler.staticPool
  history,       \* nodes dialed recently
  open,          \* the scheduler reads candidates: nodesCh is not nil
  sched,         \* where the scheduler is: "loop", "drain", "off"
  left,          \* tasks it still waits for when it stops
  stage,         \* where the goroutine of each connection is
  flagged,       \* connections with trustedConn set
  peers,         \* Server.run's peers: the lane of each node's peer, or None
  inboundCount,
  trusted,
  vip,           \* nodes whose peer had trustedConn set when it was added
  leaving,       \* nodes whose peer's run has returned
  srv,           \* where the main loop is
  hand,          \* the connection it tells the scheduler of
  quit           \* Server.quit is closed

schedVars == <<dialing, connected, dialPeers, static, pool, history, open, sched, left>>
srvVars == <<flagged, peers, inboundCount, trusted, vip, leaving, srv, hand, quit>>
vars == <<schedVars, stage, srvVars>>

Stages == {"none", "dial", "post", "proto", "add", "ending"}

Running(c) == stage[c] # "none"

Peered == {n \in Nodes : peers[n] # None}

-----------------------------------------------------------------------------
(* The dial scheduler                                                      *)

\* Mutant: running dials are not looked at.
checkDialAgain(n, dl, cn, hs) ==
  n # Self /\ n \notin Portless /\ n \notin cn /\ n \notin Barred /\ n \notin hs

\* Whether n may be dialed, with tasks dl, peers cn and history hs.
checkDial(n, dl, cn, hs) ==
  /\ n # Self /\ n \notin Portless /\ n \notin dl
  /\ n \notin cn /\ n \notin Barred /\ n \notin hs

freeDialSlots(dp, dl) ==
  LET slots == 2 * (MaxDialPeers - dp)
  IN  (IF slots > MaxActiveDials THEN MaxActiveDials ELSE slots) - Cardinality(dl)

\* Mutant: they need not be dialable.
updateStaticPoolBlindly(N, pl, st, dl, cn, hs) == pl \cup (N \cap st)

\* The nodes of N that are static and may be dialed go to the pool.
updateStaticPool(N, pl, st, dl, cn, hs) == pl \cup {n \in N \cap st : checkDial(n, dl, cn, hs)}

\* How many static dials there are slots for.
Launched(free, pl) ==
  IF free <= 0 THEN 0 ELSE IF free < Cardinality(pl) THEN free ELSE Cardinality(pl)

\* startStaticDials at the top of the loop, given the state the message left.
Launch(pl, dl, dp, hs, stg) ==
  \E S \in SUBSET pl :
    /\ Cardinality(S) = Launched(freeDialSlots(dp, dl), pl)
    /\ pool' = pl \ S
    /\ dialing' = dl \cup S
    /\ history' = hs \cup S
    /\ stage' = [c \in Conns |-> IF c[2] = Static /\ c[1] \in S THEN "dial" ELSE stg[c]]
    /\ open' = (freeDialSlots(dp, dl) > Cardinality(S))
    /\ dialPeers' = dp

\* A candidate from the iterator; it is dropped if it may not be dialed.
Candidate(n) ==
  /\ sched = "loop" /\ open
  /\ IF checkDial(n, dialing, connected, history)
     THEN Launch(pool, dialing \cup {n}, dialPeers, history \cup {n}, [stage EXCEPT ![<<n, Dynamic>>] = "dial"])
     ELSE Launch(pool, dialing, dialPeers, history, stage)
  /\ UNCHANGED <<connected, static, sched, left, srvVars>>

Done(n, k) ==
  /\ sched = "loop" /\ stage[<<n, k>>] = "ending"
  /\ LET dl == dialing \ {n}
     IN  Launch(updateStaticPool({n}, pool, static, dl, connected, history), dl, dialPeers, history,
                [stage EXCEPT ![<<n, k>>] = "none"])
  /\ UNCHANGED <<connected, static, sched, left, srvVars>>

addStatic(n) ==
  /\ sched = "loop"
  /\ static' = static \cup {n}
  /\ Launch(IF n \in static THEN pool ELSE updateStaticPool({n}, pool, {n}, dialing, connected, history),
            dialing, dialPeers, history, stage)
  /\ UNCHANGED <<connected, sched, left, srvVars>>

\* The main loop runs RemovePeer's function, which waits for the scheduler.
removeStatic ==
  /\ sched = "loop" /\ srv = "unstatic"
  /\ static' = static \ {hand[1]}
  /\ Launch(pool \ {hand[1]}, dialing, dialPeers, history, stage)
  /\ srv' = "loop" /\ hand' = None
  /\ UNCHANGED <<connected, sched, left, flagged, peers, inboundCount, trusted, vip, leaving, quit>>

\* Entries S of the history expire.
expireHistory(S) ==
  /\ sched = "loop" /\ S # {}
  /\ Launch(updateStaticPool(S, pool, static, dialing, connected, history \ S), dialing, dialPeers,
            history \ S, stage)
  /\ UNCHANGED <<connected, static, sched, left, srvVars>>

\* The scheduler hears of a new peer; the main loop counts it and lets the
\* goroutine that set it up go.
peerAdded ==
  /\ sched = "loop" /\ srv = "adding"
  /\ connected' = connected \cup {hand[1]}
  /\ Launch(pool \ {hand[1]}, dialing, IF hand[2] \in Dials THEN dialPeers + 1 ELSE dialPeers, history,
            [stage EXCEPT ![hand] = "ending"])
  /\ inboundCount' = IF hand[2] \in Inbounds THEN inboundCount + 1 ELSE inboundCount
  /\ srv' = "loop" /\ hand' = None
  /\ UNCHANGED <<static, sched, left, flagged, peers, trusted, vip, leaving, quit>>

\* Mutant: a dialed peer that leaves stays counted.
peerRemovedUncounted ==
  /\ sched = "loop" /\ srv = "removing"
  /\ connected' = connected \ {hand[1]}
  /\ Launch(updateStaticPool({hand[1]}, pool, static, dialing, connected \ {hand[1]}, history), dialing,
            dialPeers, history, stage)
  /\ inboundCount' = IF hand[2] \in Inbounds THEN inboundCount - 1 ELSE inboundCount
  /\ srv' = "loop" /\ hand' = None
  /\ UNCHANGED <<static, sched, left, flagged, peers, trusted, vip, leaving, quit>>

peerRemoved ==
  /\ sched = "loop" /\ srv = "removing"
  /\ connected' = connected \ {hand[1]}
  /\ Launch(updateStaticPool({hand[1]}, pool, static, dialing, connected \ {hand[1]}, history), dialing,
            IF hand[2] \in Dials THEN dialPeers - 1 ELSE dialPeers, history, stage)
  /\ inboundCount' = IF hand[2] \in Inbounds THEN inboundCount - 1 ELSE inboundCount
  /\ srv' = "loop" /\ hand' = None
  /\ UNCHANGED <<static, sched, left, flagged, peers, trusted, vip, leaving, quit>>

\* The context is cancelled: the loop ends and waits for its tasks.
cancelDials ==
  /\ sched = "loop" /\ srv = "closing"
  /\ sched' = "drain" /\ left' = Cardinality(dialing)
  /\ UNCHANGED <<dialing, connected, dialPeers, static, pool, history, open, stage, srvVars>>

drainDial(n, k) ==
  /\ sched = "drain" /\ left > 0 /\ stage[<<n, k>>] = "ending"
  /\ stage' = [stage EXCEPT ![<<n, k>>] = "none"]
  /\ left' = left - 1
  /\ UNCHANGED <<dialing, connected, dialPeers, static, pool, history, open, sched, srvVars>>

\* stop returns, and with it the main loop.
stopDials ==
  /\ sched = "drain" /\ left = 0
  /\ sched' = "off" /\ srv' = "stopped"
  /\ UNCHANGED <<dialing, connected, dialPeers, static, pool, history, open, left, stage,
                 flagged, peers, inboundCount, trusted, vip, leaving, hand, quit>>

-----------------------------------------------------------------------------
(* Setting up a connection                                                 *)

\* listenLoop has a token and accepts.
Accept(c) ==
  /\ ~quit /\ c[2] \in Inbounds /\ c[1] \notin Barred
  /\ ~Running(c) /\ peers[c[1]] # c[2]
  /\ Cardinality({d \in Conns : d[2] \in Inbounds /\ Running(d)}) < MaxPendingPeers
  /\ stage' = [stage EXCEPT ![c] = "dial"]
  /\ UNCHANGED <<schedVars, srvVars>>

\* The goroutine of an inbound connection ends and gives its token back.
Return(c) ==
  /\ c[2] \in Inbounds /\ stage[c] = "ending"
  /\ stage' = [stage EXCEPT ![c] = "none"]
  /\ UNCHANGED <<schedVars, srvVars>>

\* The dial and the RLPx handshake, or the protocol handshake, succeed.
Handshake(c) ==
  /\ stage[c] \in {"dial", "proto"}
  /\ stage' = [stage EXCEPT ![c] = IF stage[c] = "dial" THEN "post" ELSE "add"]
  /\ UNCHANGED <<schedVars, srvVars>>

\* They fail, or a checkpoint finds the server stopped.
Abort(c) ==
  /\ stage[c] \in {"dial", "proto"} \/ (quit /\ stage[c] \in {"post", "add"} /\ hand # c)
  /\ stage' = [stage EXCEPT ![c] = "ending"]
  /\ flagged' = flagged \ {c}
  /\ UNCHANGED <<schedVars, peers, inboundCount, trusted, vip, leaving, srv, hand, quit>>

-----------------------------------------------------------------------------
(* The main loop                                                           *)

maxInboundConns == MaxPeers - MaxDialPeers

\* Mutant: no limit on inbound peers.
postHandshakeChecksTotal(c, F) ==
  /\ c \in F \/ Cardinality(Peered) < MaxPeers
  /\ peers[c[1]] = None
  /\ c[1] # Self

\* Whether c, with trustedConn set for the connections in F, may become a peer.
postHandshakeChecks(c, F) ==
  /\ c \in F \/ Cardinality(Peered) < MaxPeers
  /\ c \in F \/ c[2] \notin Inbounds \/ inboundCount < maxInboundConns
  /\ peers[c[1]] = None
  /\ c[1] # Self

PostHandshake(c) ==
  LET F == IF c[1] \in trusted THEN flagged \cup {c} ELSE flagged
  IN  /\ srv = "loop" /\ stage[c] = "post"
      /\ IF postHandshakeChecks(c, F)
         THEN stage' = [stage EXCEPT ![c] = "proto"] /\ flagged' = F
         ELSE stage' = [stage EXCEPT ![c] = "ending"] /\ flagged' = F \ {c}
      /\ UNCHANGED <<schedVars, peers, inboundCount, trusted, vip, leaving, srv, hand, quit>>

\* The checks are repeated, and the peer is started if it shares a protocol.
AddPeer(c, shared) ==
  /\ srv = "loop" /\ stage[c] = "add"
  /\ IF shared /\ postHandshakeChecks(c, flagged)
     THEN /\ peers' = [peers EXCEPT ![c[1]] = c[2]]
          /\ vip' = IF c \in flagged THEN vip \cup {c[1]} ELSE vip
          /\ srv' = "adding" /\ hand' = c
          /\ UNCHANGED <<stage, flagged>>
     ELSE /\ stage' = [stage EXCEPT ![c] = "ending"]
          /\ flagged' = flagged \ {c}
          /\ UNCHANGED <<peers, vip, srv, hand>>
  /\ UNCHANGED <<schedVars, inboundCount, trusted, leaving, quit>>

\* Peer.run returns, for whatever reason.
PeerLeaves(n) ==
  /\ n \in Peered \ leaving
  /\ leaving' = leaving \cup {n}
  /\ UNCHANGED <<schedVars, stage, flagged, peers, inboundCount, trusted, vip, srv, hand, quit>>

DelPeer(n) ==
  /\ srv = "loop" /\ n \in leaving
  /\ peers' = [peers EXCEPT ![n] = None]
  /\ leaving' = leaving \ {n}
  /\ vip' = vip \ {n}
  /\ flagged' = flagged \ {<<n, peers[n]>>}
  /\ srv' = "removing" /\ hand' = <<n, peers[n]>>
  /\ UNCHANGED <<schedVars, stage, inboundCount, trusted, quit>>

RemovePeer(n) ==
  /\ srv = "loop"
  /\ srv' = "unstatic" /\ hand' = <<n, Static>>
  /\ UNCHANGED <<schedVars, stage, flagged, peers, inboundCount, trusted, vip, leaving, quit>>

AddTrustedPeer(n) ==
  /\ srv = "loop"
  /\ trusted' = trusted \cup {n}
  /\ flagged' = IF n \in Peered THEN flagged \cup {<<n, peers[n]>>} ELSE flagged
  /\ UNCHANGED <<schedVars, stage, peers, inboundCount, vip, leaving, srv, hand, quit>>

RemoveTrustedPeer(n) ==
  /\ srv = "loop"
  /\ trusted' = trusted \ {n}
  /\ flagged' = IF n \in Peered THEN flagged \ {<<n, peers[n]>>} ELSE flagged
  /\ UNCHANGED <<schedVars, stage, peers, inboundCount, vip, leaving, srv, hand, quit>>

Stop ==
  /\ ~quit /\ quit' = TRUE
  /\ UNCHANGED <<schedVars, stage, flagged, peers, inboundCount, trusted, vip, leaving, srv, hand>>

\* The main loop sees that, and then receives from the peers it disconnected.
SpinDown ==
  /\ srv = "loop" /\ quit
  /\ srv' = "spin"
  /\ UNCHANGED <<schedVars, stage, flagged, peers, inboundCount, trusted, vip, leaving, hand, quit>>

DelPeerSpinning(n) ==
  /\ srv = "spin" /\ n \in leaving
  /\ peers' = [peers EXCEPT ![n] = None]
  /\ leaving' = leaving \ {n}
  /\ vip' = vip \ {n}
  /\ flagged' = flagged \ {<<n, peers[n]>>}
  /\ UNCHANGED <<schedVars, stage, inboundCount, trusted, srv, hand, quit>>

Close ==
  /\ srv = "spin" /\ Peered = {}
  /\ srv' = "closing"
  /\ UNCHANGED <<schedVars, stage, flagged, peers, inboundCount, trusted, vip, leaving, hand, quit>>

Init ==
  /\ dialing = {} /\ connected = {} /\ dialPeers = 0
  /\ static = {} /\ pool = {} /\ history = {}
  /\ open = (freeDialSlots(0, {}) > 0)
  /\ sched = "loop" /\ left = 0
  /\ stage = [c \in Conns |-> "none"]
  /\ flagged = {} /\ trusted \in SUBSET Friends /\ vip = {} /\ leaving = {}
  /\ peers = [n \in Nodes |-> None] /\ inboundCount = 0
  /\ srv = "loop" /\ hand = None /\ quit = FALSE

Next ==
  \/ \E n \in Nodes : Candidate(n)
  \/ \E n \in Nodes, k \in Dials : Done(n, k)
  \/ \E n \in Friends : addStatic(n)
  \/ removeStatic
  \/ \E S \in SUBSET history : expireHistory(S)
  \/ peerAdded
  \/ peerRemoved
  \/ cancelDials
  \/ \E n \in Nodes, k \in Dials : drainDial(n, k)
  \/ stopDials
  \/ \E n \in Callers, k \in Inbounds : Accept(<<n, k>>)
  \/ \E c \in Conns : Return(c)
  \/ \E c \in Conns : Handshake(c)
  \/ \E c \in Conns : Abort(c)
  \/ \E c \in Conns : PostHandshake(c)
  \/ \E c \in Conns, shared \in BOOLEAN : AddPeer(c, shared)
  \/ \E n \in Nodes : PeerLeaves(n)
  \/ \E n \in Nodes : DelPeer(n)
  \/ \E n \in Friends : RemovePeer(n)
  \/ \E n \in Friends : AddTrustedPeer(n)
  \/ \E n \in Friends : RemoveTrustedPeer(n)
  \/ Stop
  \/ SpinDown
  \/ \E n \in Nodes : DelPeerSpinning(n)
  \/ Close

Spec == Init /\ [][Next]_vars

-----------------------------------------------------------------------------
(* Properties                                                              *)

\* Connections are known, nobody is a peer through a lane that does not exist,
\* and both loops are somewhere.
TypeOK ==
  /\ dialing \in SUBSET Nodes /\ connected \in SUBSET Nodes /\ history \in SUBSET Nodes
  /\ static \in SUBSET Nodes /\ pool \in SUBSET Nodes
  /\ dialPeers \in Nat /\ inboundCount \in Nat /\ left \in Nat /\ open \in BOOLEAN
  /\ sched \in {"loop", "drain", "off"}
  /\ stage \in [Conns -> Stages] /\ flagged \in SUBSET Conns
  /\ peers \in [Nodes -> Lanes \cup {None}]
  /\ trusted \in SUBSET Nodes /\ vip \in SUBSET Nodes /\ leaving \in SUBSET Nodes
  /\ srv \in {"loop", "adding", "removing", "unstatic", "spin", "closing", "stopped"}
  /\ hand \in Conns \cup {None} /\ quit \in BOOLEAN

\* Nodes with a dial task.
Dialed == {n \in Nodes : \E k \in Dials : Running(<<n, k>>)}

\* A node is dialed by one task at a time, and dialing holds just the nodes
\* with a task: a dynamic dial does not look at the pool, and would be doubled
\* if candidates were read while a static dial is waiting.  So the loop, once
\* stopped, waits for as many tasks as there are.
OneDial ==
  /\ \A n \in Nodes : ~(Running(<<n, Static>>) /\ Running(<<n, Dynamic>>))
  /\ sched = "loop" => dialing = Dialed
  /\ sched # "loop" => left = Cardinality(Dialed)

\* "The subset of usable static dial tasks (i.e. those passing checkDial) is
\* kept in staticPool": none of them is forgotten when its task, its peer or
\* its entry in the history goes, in whatever order.
PoolExact ==
  sched = "loop" => pool = {n \in static : checkDial(n, dialing, connected, history)}

\* The lane of n's peer as far as the scheduler was told.
Known(n) ==
  IF hand # None /\ n = hand[1] /\ srv = "adding" THEN None
  ELSE IF hand # None /\ n = hand[1] /\ srv = "removing" THEN hand[2]
  ELSE peers[n]

\* The scheduler knows the peers of the main loop, but for the one it is being
\* told of, and both count those that were dialed and those that came in, until
\* the main loop stops.
CountsExact ==
  srv \notin {"spin", "closing", "stopped"} =>
    /\ connected = {n \in Nodes : Known(n) # None}
    /\ dialPeers = Cardinality({n \in Nodes : Known(n) \in Dials})
    /\ inboundCount = Cardinality({n \in Nodes : Known(n) \in Inbounds})

\* Nodes whose dial may still give a peer.
Pending == {n \in Nodes : \E k \in Dials : stage[<<n, k>>] \notin {"none", "ending"}}

\* The slots for dials are twice what is missing, so that more peers than
\* maxDialPeers may be dialed, but no more than twice as many.  Peers that were
\* not trusted when they were added stay within the server's limits, although
\* others come in between the two checks.
LimitsKept ==
  /\ dialPeers + Cardinality(Pending) <= 2 * MaxDialPeers
  /\ Cardinality(dialing) <= MaxActiveDials
  /\ Cardinality(Peered \ vip) <= MaxPeers
  /\ Cardinality({n \in Peered \ vip : peers[n] \in Inbounds}) <= maxInboundConns

=============================================================================
