----------------------------- MODULE TxFetcher -----------------------------
(***************************************************************************)
(* The transaction fetcher of eth/fetcher/tx_fetcher.go: the event loop    *)
(* that turns transaction announcements into retrieval requests.  A hash   *)
(* goes through three stages: it waits for a broadcast (waitlist), it is   *)
(* queued for retrieval (announced), it is being retrieved (fetching).     *)
(*                                                                         *)
(* One action per case of the select in loop(), each the whole case with   *)
(* the scheduleFetches/reschedule calls at its end.  A Go map from hashes  *)
(* or peers to sets is a total function whose value {} stands for a        *)
(* missing key.  What the environment sends (announcements, deliveries,    *)
(* disconnects) is arbitrary.                                              *)
(*                                                                         *)
(* Time: waittime and the request timestamps are abstracted to whether     *)
(* the timeout (less txGatherSlack) has passed.  A timer that is armed may *)
(* fire at any moment, so early and stale triggers are included.           *)
(***************************************************************************)
EXTENDS Naturals, FiniteSets

CONSTANTS
  Peers,            \* peer identifiers
  Hashes,           \* transaction hashes
  NoPeer,           \* "no key" in the fetching map
  MaxTxAnnounces,   \* maxTxAnnounces: announcements tracked per peer
  MaxTxRetrievals   \* maxTxRetrievals: hashes per request

ASSUME NoPeerAssumption == NoPeer \notin Peers
ASSUME LimitAssumption ==
  /\ MaxTxAnnounces \in Nat \ {0}
  /\ MaxTxRetrievals \in Nat \ {0}

VARIABLES
  waitlist,         \* [Hashes -> SUBSET Peers]  stage 1, origins per hash
  waittime,         \* [Hashes -> {"none", "fresh", "expired"}]
  waitslots,        \* [Peers -> SUBSET Hashes]  stage 1, hashes per peer
  announces,        \* [Peers -> SUBSET Hashes]  stages 2 and 3, per peer
  announced,        \* [Hashes -> SUBSET Peers]  stage 2, origins per hash
  fetching,         \* [Hashes -> Peers or NoPeer]  stage 3
  requests,         \* [Peers -> Request]  in-flight retrievals
  alternates,       \* [Hashes -> SUBSET Peers]  stage 3, origins per hash
  waitTimer,        \* the wait timer is armed
  waitTrigger,      \* its trigger channel holds a token
  timeoutTimer,     \* the request timer is armed
  timeoutTrigger,   \* its trigger channel holds a token
  panicked          \* a panic() or a nil dereference was executed

waitVars    == <<waitlist, waittime, waitslots>>
fetchVars   == <<announces, announced, fetching, requests, alternates>>
timerVars   == <<waitTimer, waitTrigger, timeoutTimer, timeoutTrigger>>
vars        == <<waitVars, fetchVars, timerVars, panicked>>

(***************************************************************************)
(* A request is "pending" until txFetchTimeout passes, then "overdue", and *)
(* "dangling" (hashes = nil) once the timeout was handled.                 *)
(***************************************************************************)
Request ==
  [status : {"none", "pending", "overdue", "dangling"},
   hashes : SUBSET Hashes,
   stolen : SUBSET Hashes]

NoRequest == [status |-> "none", hashes |-> {}, stolen |-> {}]

TypeOK ==
  /\ waitlist \in [Hashes -> SUBSET Peers]
  /\ waittime \in [Hashes -> {"none", "fresh", "expired"}]
  /\ waitslots \in [Peers -> SUBSET Hashes]
  /\ announces \in [Peers -> SUBSET Hashes]
  /\ announced \in [Hashes -> SUBSET Peers]
  /\ fetching \in [Hashes -> Peers \cup {NoPeer}]
  /\ requests \in [Peers -> Request]
  /\ alternates \in [Hashes -> SUBSET Peers]
  /\ waitTimer \in BOOLEAN
  /\ waitTrigger \in BOOLEAN
  /\ timeoutTimer \in BOOLEAN
  /\ timeoutTrigger \in BOOLEAN
  /\ panicked \in BOOLEAN

Init ==
  /\ waitlist = [h \in Hashes |-> {}]
  /\ waittime = [h \in Hashes |-> "none"]
  /\ waitslots = [p \in Peers |-> {}]
  /\ announces = [p \in Peers |-> {}]
  /\ announced = [h \in Hashes |-> {}]
  /\ fetching = [h \in Hashes |-> NoPeer]
  /\ requests = [p \in Peers |-> NoRequest]
  /\ alternates = [h \in Hashes |-> {}]
  /\ waitTimer = FALSE
  /\ waitTrigger = FALSE
  /\ timeoutTimer = FALSE
  /\ timeoutTrigger = FALSE
  /\ panicked = FALSE

-----------------------------------------------------------------------------
(***************************************************************************)
(* scheduleFetches.  It visits the idle peers among actives in the order   *)
(* Go's map iteration gives (any rank), and lets each take up to           *)
(* maxTxRetrievals of its announced hashes that nobody is fetching.  An    *)
(* allocation maps each hash to the peer that takes it: a peer below its   *)
(* limit leaves no hash that was still free when its turn came.            *)
(***************************************************************************)
Free(p, ann, fet) == {h \in ann[p] : fet[h] = NoPeer}

Taken(alloc, p) == {h \in Hashes : alloc[h] = p}

Rankings(S) ==
  {rank \in [S -> 1 .. Cardinality(S)] :
     \A p, q \in S : rank[p] = rank[q] => p = q}

Allocations(actives, ann, fet, req) ==
  LET idle == {p \in actives : req[p].status = "none"}
  IN  {alloc \in [Hashes -> idle \cup {NoPeer}] :
         /\ \A h \in Hashes :
              alloc[h] # NoPeer => h \in Free(alloc[h], ann, fet)
         /\ \E rank \in Rankings(idle) : \A p \in idle :
              LET n == Cardinality(Taken(alloc, p))
              IN  \/ n = MaxTxRetrievals
                  \/ /\ n < MaxTxRetrievals
                     /\ \A h \in Free(p, ann, fet) :
                          alloc[h] # NoPeer /\ rank[alloc[h]] <= rank[p]}

BusyFirst(req) == \E p \in Peers : req[p].status # "none"   \* fault: negated
NoneInFlight(req) == \A p \in Peers : req[p].status = "none"

(***************************************************************************)
(* The effect of scheduleFetches(actives) on the tables an event case has  *)
(* computed (ann, annd, fet, req, alt), with rearm the timer's state if no *)
(* first request is fired.                                                 *)
(***************************************************************************)
ScheduleFetches(actives, ann, annd, fet, req, alt, rearm, bad) ==
  \E alloc \in Allocations(actives, ann, fet, req) :
    LET Got(p) == Taken(alloc, p)
    IN  /\ announces' = ann
        /\ fetching' = [h \in Hashes |->
             IF alloc[h] # NoPeer THEN alloc[h] ELSE fet[h]]
        /\ alternates' = [h \in Hashes |->
             IF alloc[h] # NoPeer THEN annd[h] ELSE alt[h]]
        /\ announced' = [h \in Hashes |->
             IF alloc[h] # NoPeer THEN {} ELSE annd[h]]
        /\ requests' = [p \in Peers |->
             IF Got(p) # {}
             THEN [status |-> "pending", hashes |-> Got(p), stolen |-> {}]
             ELSE req[p]]
        /\ timeoutTimer' =
             (rearm \/ (NoneInFlight(req) /\ \E h \in Hashes : alloc[h] # NoPeer))
        /\ panicked' =
             (bad \/ \E h \in Hashes : alloc[h] # NoPeer /\ alt[h] # {})

\* The default whitelist: every peer with tracked announcements.
Announcers(ann) == {p \in Peers : ann[p] # {}}

OwedWithStolen(req, p) == req[p].hashes   \* fault: stolen is not consulted

\* The hashes a request still owes: the others were delivered by someone else.
Owed(req, p) == req[p].hashes \ req[p].stolen

-----------------------------------------------------------------------------
(***************************************************************************)
(* case ann := <-f.notify.  Hashes over the cap are cut off the list; the  *)
(* order of the list is the announcing peer's, so any subset may be kept.  *)
(***************************************************************************)
Used(p) == Cardinality(waitslots[p]) + Cardinality(announces[p])

Kept(p, S) ==
  LET want == Used(p) + Cardinality(S)
  IN  IF want > MaxTxAnnounces
      THEN {K \in SUBSET S : Cardinality(K) = want - MaxTxAnnounces}
      ELSE {S}

AddOrigin(table, S, p) ==
  [h \in Hashes |-> IF h \in S THEN table[h] \cup {p} ELSE table[h]]

DownloadingUnchecked(K) == {}   \* fault: alternates is not consulted
Downloading(K) == {h \in K : alternates[h] # {}}

IdleWaitNegated == \E h \in Hashes : waittime[h] # "none"   \* fault: negated
IdleWait == \A h \in Hashes : waittime[h] = "none"

Notify(p, S) ==
  /\ Used(p) < MaxTxAnnounces
  /\ \E K \in Kept(p, S) :
       LET downloading == Downloading(K)
           queued      == {h \in K \ downloading : announced[h] # {}}
           waiting     == K \ (downloading \cup queued)
           fresh       == {h \in waiting : waitlist[h] = {}}
           ann         == [announces EXCEPT ![p] = @ \cup downloading \cup queued]
           annd        == AddOrigin(announced, queued, p)
           alt         == AddOrigin(alternates, downloading, p)
           newPeer     == announces[p] = {}
       IN  /\ waitlist' = AddOrigin(waitlist, waiting, p)
           /\ waitslots' = [waitslots EXCEPT ![p] = @ \cup waiting]
           /\ waittime' = [h \in Hashes |->
                IF h \in fresh THEN "fresh" ELSE waittime[h]]
           /\ waitTimer' = (waitTimer \/ (IdleWait /\ fresh # {}))
           /\ \/ /\ newPeer /\ ann[p] # {}
                 /\ ScheduleFetches({p}, ann, annd, fetching, requests, alt,
                                    timeoutTimer, panicked)
              \/ /\ ~(newPeer /\ ann[p] # {})
                 /\ announces' = ann
                 /\ announced' = annd
                 /\ alternates' = alt
                 /\ UNCHANGED <<fetching, requests, timeoutTimer, panicked>>
  /\ UNCHANGED <<waitTrigger, timeoutTrigger>>

(***************************************************************************)
(* case <-waitTrigger: what waited long enough is queued for retrieval.    *)
(***************************************************************************)
WaitTrigger ==
  LET moved   == {h \in Hashes : waittime[h] = "expired"}
      actives == {p \in Peers : \E h \in moved : p \in waitlist[h]}
      ann     == [p \in Peers |->
                   announces[p] \cup {h \in moved : p \in waitlist[h]}]
      annd    == [h \in Hashes |->
                   IF h \in moved THEN waitlist[h] ELSE announced[h]]
      bad     == panicked \/ \E h \in moved : announced[h] # {}
  IN  /\ waitTrigger
      /\ waitTrigger' = FALSE
      /\ waitlist' = [h \in Hashes |-> IF h \in moved THEN {} ELSE waitlist[h]]
      /\ waittime' = [h \in Hashes |-> IF h \in moved THEN "none" ELSE waittime[h]]
      /\ waitslots' = [p \in Peers |-> waitslots[p] \ moved]
      /\ waitTimer' = (waitTimer \/ \E h \in Hashes : waittime[h] = "fresh")
      /\ \/ /\ actives # {}
            /\ ScheduleFetches(actives, ann, annd, fetching, requests,
                               alternates, timeoutTimer, bad)
         \/ /\ actives = {}
            /\ announces' = ann
            /\ announced' = annd
            /\ panicked' = bad
            /\ UNCHANGED <<fetching, requests, alternates, timeoutTimer>>
      /\ UNCHANGED timeoutTrigger

(***************************************************************************)
(* case <-timeoutTrigger: overdue requests hand their hashes back to the   *)
(* queue for the other origins, and stay behind as dangling.               *)
(***************************************************************************)
TimeoutTrigger ==
  LET overdue == {p \in Peers : requests[p].status = "overdue"}
      lost    == UNION {Owed(requests, p) : p \in overdue}
      Late(h) == {p \in overdue : h \in Owed(requests, p)}
      ann     == [p \in Peers |->
                   IF p \in overdue THEN announces[p] \ Owed(requests, p)
                                    ELSE announces[p]]
      annd    == [h \in Hashes |->
                   IF h \in lost THEN alternates[h] \ Late(h) ELSE announced[h]]
      fet     == [h \in Hashes |-> IF h \in lost THEN NoPeer ELSE fetching[h]]
      alt     == [h \in Hashes |-> IF h \in lost THEN {} ELSE alternates[h]]
      req     == [p \in Peers |->
                   IF p \in overdue
                   THEN [requests[p] EXCEPT !.status = "dangling", !.hashes = {}]
                   ELSE requests[p]]
      bad     == panicked \/ \E h \in lost : announced[h] # {}
  IN  /\ timeoutTrigger
      /\ timeoutTrigger' = FALSE
      /\ ScheduleFetches(Announcers(ann), ann, annd, fet, req, alt, TRUE, bad)
      /\ UNCHANGED <<waitVars, waitTimer, waitTrigger>>

(***************************************************************************)
(* case delivery := <-f.cleanup.  S was delivered by o, in reply to a      *)
(* request (direct) or as a broadcast.                                     *)
(***************************************************************************)
InWait(S)   == {h \in S : waitlist[h] # {}}
NotWaiting(S) == S \ InWait(S)
Stolen(o, S, direct) ==
  {h \in NotWaiting(S) : fetching[h] # NoPeer /\ (fetching[h] # o \/ ~direct)}

ForgetWaiting(S) ==
  /\ waitlist' = [h \in Hashes |-> IF h \in InWait(S) THEN {} ELSE waitlist[h]]
  /\ waittime' = [h \in Hashes |->
                    IF h \in InWait(S) THEN "none" ELSE waittime[h]]
  /\ waitslots' = [p \in Peers |-> waitslots[p] \ InWait(S)]

Cleared(table, S, none) ==
  [h \in Hashes |-> IF h \in S THEN none ELSE table[h]]

MarkNothing(o, S, direct) == requests   \* fault: stolen hashes are not marked

MarkStolen(o, S, direct) ==
  [p \in Peers |->
     [requests[p] EXCEPT !.stolen =
        @ \cup {h \in Stolen(o, S, direct) : fetching[h] = p}]]

\* f.requests[origin].stolen dereferences the request of every thief's victim.
NilRequest(o, S, direct) ==
  \E h \in Stolen(o, S, direct) : requests[fetching[h]].status = "none"

(***************************************************************************)
(* A direct reply closes the request of its origin: what was asked before  *)
(* the last hash that came is gone from o (skipped), what was asked after  *)
(* it may still be retried from o.  The order of req.hashes is Go's map    *)
(* iteration order and is used only here, so skipped is any such subset.   *)
(***************************************************************************)
Skipped(o, S, req) ==
  LET missing == Owed(req, o) \ S
  IN  IF req[o].hashes \cap S = {} THEN {missing} ELSE SUBSET missing

ReleasedNever(S) == announces   \* fault: the peers' allowance is not released
Released(S) == [p \in Peers |-> announces[p] \ S]

CleanUp(o, S, direct) ==
  LET gone == NotWaiting(S)
  IN  /\ ForgetWaiting(S)
      /\ announces' = Released(gone)
      /\ announced' = Cleared(announced, gone, {})
      /\ alternates' = Cleared(alternates, gone, {})
      /\ fetching' = Cleared(fetching, gone, NoPeer)
      /\ requests' = MarkStolen(o, S, direct)
      /\ panicked' = (panicked \/ NilRequest(o, S, direct))
      /\ UNCHANGED timerVars

Broadcast(o, S) == CleanUp(o, S, FALSE)

\* A direct delivery nobody asked for ends after the clean-up.
UnexpectedReply(o, S) ==
  /\ requests[o].status = "none"
  /\ CleanUp(o, S, TRUE)

Reply(o, S) ==
  LET gone    == NotWaiting(S)
      req1    == MarkStolen(o, S, TRUE)
      owed    == Owed(req1, o)
      missing == owed \ S
      annd1   == Cleared(announced, gone, {})
      alt1    == Cleared(alternates, gone, {})
      fet     == Cleared(fetching, gone \cup owed, NoPeer)
      alt     == Cleared(alternates, gone \cup owed, {})
      req     == [req1 EXCEPT ![o] = NoRequest]
  IN  /\ requests[o].status # "none"
      /\ ForgetWaiting(S)
      /\ \E skipped \in Skipped(o, S, req1) :
           LET Left(h) == IF h \in skipped THEN alt1[h] \ {o} ELSE alt1[h]
               back    == {h \in missing : Left(h) # {}}
               ann     == [Released(gone) EXCEPT ![o] = @ \ skipped]
               annd    == [h \in Hashes |->
                            IF h \in back THEN Left(h) ELSE annd1[h]]
               bad     == \/ panicked
                          \/ NilRequest(o, S, TRUE)
                          \/ \E h \in back : annd1[h] # {}
           IN  ScheduleFetches(Announcers(ann), ann, annd, fet, req, alt,
                               timeoutTimer, bad)
      /\ UNCHANGED <<waitTimer, waitTrigger, timeoutTrigger>>

(***************************************************************************)
(* case drop := <-f.drop: a peer disconnected, or a request to it failed.  *)
(***************************************************************************)
Drop(p) ==
  LET slots == waitslots[p]
      wl    == [h \in Hashes |->
                 IF h \in slots THEN waitlist[h] \ {p} ELSE waitlist[h]]
      owed  == Owed(requests, p)
      open  == requests[p].status # "none"
      annd1 == [h \in Hashes |->
                 IF h \in owed /\ alternates[h] \ {p} # {}
                 THEN alternates[h] \ {p} ELSE announced[h]]
      annd  == [h \in Hashes |->
                 IF h \in announces[p] THEN annd1[h] \ {p} ELSE annd1[h]]
      ann   == [announces EXCEPT ![p] = {}]
      fet   == Cleared(fetching, owed, NoPeer)
      alt   == Cleared(alternates, owed, {})
      req   == [requests EXCEPT ![p] = NoRequest]
  IN  /\ waitlist' = wl
      /\ waittime' = [h \in Hashes |->
           IF h \in slots /\ wl[h] = {} THEN "none" ELSE waittime[h]]
      /\ waitslots' = [waitslots EXCEPT ![p] = {}]
      /\ waitTimer' =
           (waitTimer \/ (slots # {} /\ \E h \in Hashes : wl[h] # {}))
      /\ \/ /\ open
            /\ ScheduleFetches(Announcers(ann), ann, annd, fet, req, alt,
                               TRUE, panicked)
         \/ /\ ~open
            /\ announces' = ann
            /\ announced' = annd
            /\ UNCHANGED <<fetching, requests, alternates, timeoutTimer, panicked>>
      /\ UNCHANGED <<waitTrigger, timeoutTrigger>>

-----------------------------------------------------------------------------
(***************************************************************************)
(* The clock: a waiting hash or a pending request passes its timeout, and  *)
(* an armed timer pushes a token into its trigger channel of capacity 1.   *)
(***************************************************************************)
WaitExpires(h) ==
  /\ waittime[h] = "fresh"
  /\ waittime' = [waittime EXCEPT ![h] = "expired"]
  /\ UNCHANGED <<waitlist, waitslots, fetchVars, timerVars, panicked>>

RequestExpires(p) ==
  /\ requests[p].status = "pending"
  /\ requests' = [requests EXCEPT ![p].status = "overdue"]
  /\ UNCHANGED <<waitVars, announces, announced, fetching, alternates,
                 timerVars, panicked>>

WaitTimerFires ==
  /\ waitTimer /\ ~waitTrigger
  /\ waitTimer' = FALSE
  /\ waitTrigger' = TRUE
  /\ UNCHANGED <<waitVars, fetchVars, timeoutTimer, timeoutTrigger, panicked>>

TimeoutTimerFires ==
  /\ timeoutTimer /\ ~timeoutTrigger
  /\ timeoutTimer' = FALSE
  /\ timeoutTrigger' = TRUE
  /\ UNCHANGED <<waitVars, fetchVars, waitTimer, waitTrigger, panicked>>

Next ==
  \/ \E p \in Peers, S \in (SUBSET Hashes) \ {{}} : Notify(p, S)
  \/ WaitTrigger
  \/ TimeoutTrigger
  \/ \E p \in Peers, S \in SUBSET Hashes : Broadcast(p, S)
  \/ \E p \in Peers, S \in SUBSET Hashes : UnexpectedReply(p, S)
  \/ \E p \in Peers, S \in SUBSET Hashes : Reply(p, S)
  \/ \E p \in Peers : Drop(p)
  \/ \E h \in Hashes : WaitExpires(h)
  \/ \E p \in Peers : RequestExpires(p)
  \/ WaitTimerFires
  \/ TimeoutTimerFires

Spec == Init /\ [][Next]_vars

(***************************************************************************)
(* The loop goroutine keeps selecting and the clock keeps running: timers  *)
(* fire, their tokens are taken, and what waits passes its timeout.        *)
(***************************************************************************)
Fairness ==
  /\ WF_vars(WaitTrigger)
  /\ WF_vars(TimeoutTrigger)
  /\ WF_vars(WaitTimerFires)
  /\ WF_vars(TimeoutTimerFires)
  /\ \A h \in Hashes : WF_vars(WaitExpires(h))
  /\ \A p \in Peers : WF_vars(RequestExpires(p))

FairSpec == Spec /\ Fairness

-----------------------------------------------------------------------------
(***************************************************************************)
(* No event sequence makes the loop panic: neither one of the explicit     *)
(* panics ("announce tracker already contains waitlist item" and the like) *)
(* nor the dereference of a missing request when a hash is stolen.         *)
(***************************************************************************)
NoPanic == ~panicked

(***************************************************************************)
(* A hash is in at most one of the three stages, as the comment on the     *)
(* TxFetcher type requires.                                                *)
(***************************************************************************)
OneStage ==
  \A h \in Hashes :
    /\ waitlist[h] # {} => announced[h] = {} /\ fetching[h] = NoPeer
    /\ announced[h] # {} => fetching[h] = NoPeer

(***************************************************************************)
(* A hash is being fetched from a peer exactly when that peer's in-flight  *)
(* request still owes it, so no two requests owe the same hash.            *)
(***************************************************************************)
FetchingIsOwed ==
  \A h \in Hashes, p \in Peers :
    fetching[h] = p <=> h \in Owed(requests, p)

(***************************************************************************)
(* The hashes with alternate origins are the hashes being fetched: when a  *)
(* retrieval fails there is always a list to fall back on.                 *)
(***************************************************************************)
FetchingHasAlternates ==
  \A h \in Hashes : fetching[h] # NoPeer <=> alternates[h] # {}

(***************************************************************************)
(* The per-peer and the per-hash views of the wait list agree, and a       *)
(* timestamp is kept exactly for the hashes that wait.                     *)
(***************************************************************************)
WaitViewsAgree ==
  /\ \A h \in Hashes, p \in Peers : h \in waitslots[p] <=> p \in waitlist[h]
  /\ \A h \in Hashes : waittime[h] = "none" <=> waitlist[h] = {}

(***************************************************************************)
(* Every announcement charged to a peer's allowance is one the scheduler   *)
(* can still use: the peer is an origin of the queued or fetched hash.     *)
(***************************************************************************)
AnnouncesTracked ==
  \A p \in Peers : \A h \in announces[p] :
    p \in announced[h] \cup alternates[h]

(***************************************************************************)
(* A waiting hash leaves the wait list: it is delivered, dropped with its  *)
(* last origin, or queued when the arrival timeout has passed.             *)
(***************************************************************************)
WaitEnds == \A h \in Hashes : waitlist[h] # {} ~> waitlist[h] = {}

(***************************************************************************)
(* A retrieval does not hang on a silent peer: a hash fetched from p is    *)
(* eventually not fetched from p any more.                                 *)
(***************************************************************************)
FetchEnds ==
  \A h \in Hashes, p \in Peers : fetching[h] = p ~> fetching[h] # p

=============================================================================
