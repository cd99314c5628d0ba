-------------------------- MODULE TxFetcherProofs --------------------------
(***************************************************************************)
(* Proofs about TxFetcher, for any sets of peers and hashes and any        *)
(* limits.  The tables of stages 2 and 3 change in two phases, an event    *)
(* case followed by scheduleFetches, so the invariant on them is stated    *)
(* for arbitrary tables (FetchInv) and every event case is shown to        *)
(* establish it for the tables it hands to the scheduler.                  *)
(***************************************************************************)
EXTENDS TxFetcher, TLAPS

FetchType(ann, annd, fet, req, alt) ==
  /\ ann \in [Peers -> SUBSET Hashes]
  /\ annd \in [Hashes -> SUBSET Peers]
  /\ fet \in [Hashes -> Peers \cup {NoPeer}]
  /\ req \in [Peers -> Request]
  /\ alt \in [Hashes -> SUBSET Peers]

FetchInv(ann, annd, fet, req, alt) ==
  /\ \A h \in Hashes : annd[h] # {} => fet[h] = NoPeer
  /\ \A h \in Hashes, p \in Peers : fet[h] = p <=> h \in Owed(req, p)
  /\ \A h \in Hashes : fet[h] # NoPeer <=> alt[h] # {}
  /\ \A p \in Peers : \A h \in ann[p] : p \in annd[h] \cup alt[h]
  /\ \A p \in Peers :
       req[p].status \in {"none", "dangling"} => req[p].hashes = {}

\* The hashes in stage 2 or 3.
InFlight(annd, fet) == {h \in Hashes : annd[h] # {} \/ fet[h] # NoPeer}

\* A request without hashes: no request, or one that timed out.
RequestShape ==
  \A p \in Peers :
    requests[p].status \in {"none", "dangling"} => requests[p].hashes = {}

(***************************************************************************)
(* The inductive invariant.  The invariants of TxFetcher that it contains  *)
(* hold each other up: AnnouncesTracked and FetchingHasAlternates keep the *)
(* scheduler from overwriting alternates, OneStage keeps the wait list out *)
(* of its way, and FetchingIsOwed with RequestShape makes every victim of  *)
(* a steal have a request.                                                 *)
(***************************************************************************)
IInv ==
  /\ TypeOK
  /\ OneStage
  /\ FetchingIsOwed
  /\ FetchingHasAlternates
  /\ WaitViewsAgree
  /\ AnnouncesTracked
  /\ RequestShape
  /\ NoPanic

-----------------------------------------------------------------------------
(***************************************************************************)
(* scheduleFetches keeps FetchInv, panics only if the event case did, and  *)
(* leaves every hash in the stages the event case put it in or takes it    *)
(* from the queue into the fetching stage.                                 *)
(***************************************************************************)
LEMMA ScheduleKeeps ==
  ASSUME NEW actives \in SUBSET Peers,
         NEW ann, NEW annd, NEW fet, NEW req, NEW alt,
         NEW rearm \in BOOLEAN, NEW bad \in BOOLEAN,
         FetchType(ann, annd, fet, req, alt),
         FetchInv(ann, annd, fet, req, alt),
         ScheduleFetches(actives, ann, annd, fet, req, alt, rearm, bad)
  PROVE  /\ FetchType(announces', announced', fetching', requests', alternates')
         /\ FetchInv(announces', announced', fetching', requests', alternates')
         /\ InFlight(announced', fetching') = InFlight(annd, fet)
         /\ timeoutTimer' \in BOOLEAN
         /\ panicked' = bad
<1>1. PICK alloc \in Allocations(actives, ann, fet, req) :
        /\ announces' = ann
        /\ fetching' = [h \in Hashes |->
             IF alloc[h] # NoPeer THEN alloc[h] ELSE fet[h]]
        /\ alternates' = [h \in Hashes |->
             IF alloc[h] # NoPeer THEN annd[h] ELSE alt[h]]
        /\ announced' = [h \in Hashes |->
             IF alloc[h] # NoPeer THEN {} ELSE annd[h]]
        /\ requests' = [p \in Peers |->
             IF Taken(alloc, p) # {}
             THEN [status |-> "pending", hashes |-> Taken(alloc, p), stolen |-> {}]
             ELSE req[p]]
        /\ timeoutTimer' \in BOOLEAN
        /\ panicked' =
             (bad \/ \E h \in Hashes : alloc[h] # NoPeer /\ alt[h] # {})
  BY Zenon DEF ScheduleFetches
<1>2. /\ alloc \in [Hashes -> Peers \cup {NoPeer}]
      /\ \A h \in Hashes : alloc[h] # NoPeer =>
           /\ alloc[h] \in Peers
           /\ req[alloc[h]].status = "none"
           /\ h \in ann[alloc[h]]
           /\ fet[h] = NoPeer
  BY <1>1 DEF Allocations, Free
<1>3. \A h \in Hashes : alloc[h] # NoPeer =>
        /\ alt[h] = {}
        /\ alloc[h] \in annd[h]
        /\ req[alloc[h]].hashes = {}
  BY <1>2 DEF FetchInv, FetchType
<1>4. panicked' = bad
  BY <1>1, <1>3
<1>5. FetchType(announces', announced', fetching', requests', alternates')
  <2>1. \A p \in Peers : Taken(alloc, p) \in SUBSET Hashes
    BY DEF Taken
  <2>2. requests' \in [Peers -> Request]
    BY <1>1, <2>1 DEF FetchType, Request
  <2> QED
    BY <1>1, <1>2, <2>2 DEF FetchType
<1>6. \A h \in Hashes, p \in Peers :
        fetching'[h] = p <=> h \in Owed(requests', p)
  <2> SUFFICES ASSUME NEW h \in Hashes, NEW p \in Peers
               PROVE  fetching'[h] = p <=> h \in Owed(requests', p)
    OBVIOUS
  <2>1. p # NoPeer
    BY NoPeerAssumption
  <2>2. CASE Taken(alloc, p) # {}
    <3>1. Owed(requests', p) = Taken(alloc, p)
      BY <1>1, <2>2 DEF Owed
    <3>2. req[p].hashes = {}
      BY <1>3, <2>1, <2>2 DEF Taken
    <3>3. fet[h] # p
      BY <3>2 DEF FetchInv, Owed
    <3> QED
      BY <1>1, <2>1, <3>1, <3>3 DEF Taken
  <2>3. CASE Taken(alloc, p) = {}
    <3>1. Owed(requests', p) = Owed(req, p)
      BY <1>1, <2>3 DEF Owed
    <3>2. alloc[h] # p
      BY <2>3 DEF Taken
    <3>3. alloc[h] # NoPeer => fet[h] # p
      BY <1>2, <2>1
    <3> QED
      BY <1>1, <3>1, <3>2, <3>3 DEF FetchInv
  <2> QED
    BY <2>2, <2>3
<1>7. \A p \in Peers :
        requests'[p].status \in {"none", "dangling"} => requests'[p].hashes = {}
  <2> SUFFICES ASSUME NEW p \in Peers,
                      requests'[p].status \in {"none", "dangling"}
               PROVE  requests'[p].hashes = {}
    OBVIOUS
  <2>1. requests'[p] = req[p]
    BY <1>1
  <2> QED
    BY <2>1 DEF FetchInv
<1>8. FetchInv(announces', announced', fetching', requests', alternates')
  <2>1. \A h \in Hashes : announced'[h] # {} => fetching'[h] = NoPeer
    BY <1>1 DEF FetchInv
  <2>2. \A h \in Hashes : fetching'[h] # NoPeer <=> alternates'[h] # {}
    BY <1>1, <1>3 DEF FetchInv
  <2>3. \A p \in Peers : \A h \in announces'[p] :
          p \in announced'[h] \cup alternates'[h]
    BY <1>1, <1>3 DEF FetchInv, FetchType
  <2> QED
    BY <1>6, <1>7, <2>1, <2>2, <2>3 DEF FetchInv
<1>9. InFlight(announced', fetching') = InFlight(annd, fet)
  BY <1>1, <1>3 DEF InFlight
<1> QED
  BY <1>1, <1>4, <1>5, <1>8, <1>9

-----------------------------------------------------------------------------
\* The wait list's variables have their types and its two views agree.
WaitOK ==
  /\ waitlist \in [Hashes -> SUBSET Peers]
  /\ waittime \in [Hashes -> {"none", "fresh", "expired"}]
  /\ waitslots \in [Peers -> SUBSET Hashes]
  /\ WaitViewsAgree

TimersOK ==
  /\ waitTimer \in BOOLEAN
  /\ waitTrigger \in BOOLEAN
  /\ timeoutTimer \in BOOLEAN
  /\ timeoutTrigger \in BOOLEAN

(***************************************************************************)
(* The invariant in the form the scheduler's lemma works with.             *)
(***************************************************************************)
LEMMA Split ==
  IInv <=>
    /\ WaitOK
    /\ TimersOK
    /\ FetchType(announces, announced, fetching, requests, alternates)
    /\ FetchInv(announces, announced, fetching, requests, alternates)
    /\ \A h \in Hashes : waitlist[h] # {} => h \notin InFlight(announced, fetching)
    /\ panicked = FALSE
BY Zenon DEF IInv, TypeOK, OneStage, FetchingIsOwed, FetchingHasAlternates,
       WaitViewsAgree, AnnouncesTracked, RequestShape, NoPanic,
       WaitOK, TimersOK, FetchType, FetchInv, InFlight

(***************************************************************************)
(* The invariant of the next state, likewise.                              *)
(***************************************************************************)
LEMMA Assemble ==
  ASSUME WaitOK', TimersOK',
         FetchType(announces', announced', fetching', requests', alternates'),
         FetchInv(announces', announced', fetching', requests', alternates'),
         \A h \in Hashes :
           waitlist'[h] # {} => h \notin InFlight(announced', fetching'),
         panicked' = FALSE
  PROVE  IInv'
BY Zenon DEF IInv, TypeOK, OneStage, FetchingIsOwed, FetchingHasAlternates,
       WaitViewsAgree, AnnouncesTracked, RequestShape, NoPanic,
       WaitOK, TimersOK, FetchType, FetchInv, InFlight, Owed

(***************************************************************************)
(* The initial state satisfies the invariant.                              *)
(***************************************************************************)
LEMMA InitEstablishes == Init => IInv
<1> SUFFICES ASSUME Init PROVE IInv
  OBVIOUS
<1>1. NoRequest \in Request
  BY DEF NoRequest, Request
<1>2. TypeOK
  BY Zenon, <1>1 DEF Init, TypeOK
<1>3. RequestShape /\ \A p \in Peers : Owed(requests, p) = {}
  BY DEF Init, RequestShape, NoRequest, Owed
<1>4. OneStage /\ FetchingHasAlternates /\ WaitViewsAgree /\ AnnouncesTracked
  BY DEF Init, OneStage, FetchingHasAlternates, WaitViewsAgree, AnnouncesTracked
<1>5. FetchingIsOwed
  BY <1>3, NoPeerAssumption DEF Init, FetchingIsOwed
<1>6. NoPanic
  BY DEF Init, NoPanic
<1> QED
  BY <1>2, <1>3, <1>4, <1>5, <1>6 DEF IInv

(***************************************************************************)
(* case <-waitTrigger.                                                     *)
(***************************************************************************)
LEMMA WaitTriggerKeeps == IInv /\ WaitTrigger => IInv'
<1> SUFFICES ASSUME IInv, WaitTrigger PROVE IInv'
  OBVIOUS
<1> DEFINE moved   == {h \in Hashes : waittime[h] = "expired"}
           actives == {p \in Peers : \E h \in moved : p \in waitlist[h]}
           ann     == [p \in Peers |->
                        announces[p] \cup {h \in moved : p \in waitlist[h]}]
           annd    == [h \in Hashes |->
                        IF h \in moved THEN waitlist[h] ELSE announced[h]]
           bad     == panicked \/ \E h \in moved : announced[h] # {}
<1>0. /\ WaitOK /\ TimersOK /\ panicked = FALSE
      /\ FetchType(announces, announced, fetching, requests, alternates)
      /\ FetchInv(announces, announced, fetching, requests, alternates)
      /\ \A h \in Hashes :
           waitlist[h] # {} => announced[h] = {} /\ fetching[h] = NoPeer
  BY Split DEF InFlight
<1>1. /\ waitlist' = [h \in Hashes |-> IF h \in moved THEN {} ELSE waitlist[h]]
      /\ waittime' = [h \in Hashes |-> IF h \in moved THEN "none" ELSE waittime[h]]
      /\ waitslots' = [p \in Peers |-> waitslots[p] \ moved]
  BY DEF WaitTrigger
<1>2. \A h \in moved : waitlist[h] # {}
  BY <1>0 DEF WaitOK, WaitViewsAgree
<1>3. WaitOK'
  BY <1>0, <1>1 DEF WaitOK, WaitViewsAgree
<1>4. FetchType(ann, annd, fetching, requests, alternates)
  BY <1>0 DEF FetchType, WaitOK
<1>5. FetchInv(ann, annd, fetching, requests, alternates)
  BY <1>0, <1>2 DEF FetchInv, FetchType, WaitOK
<1>6. bad = FALSE
  BY <1>0, <1>2
<1>7. /\ FetchType(announces', announced', fetching', requests', alternates')
      /\ FetchInv(announces', announced', fetching', requests', alternates')
      /\ InFlight(announced', fetching') = InFlight(annd, fetching)
      /\ timeoutTimer' \in BOOLEAN
      /\ panicked' = bad
  <2>1. CASE /\ actives # {}
             /\ ScheduleFetches(actives, ann, annd, fetching, requests,
                                alternates, timeoutTimer, bad)
    <3>1. actives \in SUBSET Peers /\ timeoutTimer \in BOOLEAN /\ bad \in BOOLEAN
      BY <1>0, <1>6 DEF TimersOK
    <3> HIDE DEF actives, ann, annd, bad
    <3> QED
      BY <2>1, <3>1, <1>4, <1>5, ScheduleKeeps
  <2>2. CASE /\ announces' = ann
             /\ announced' = annd
             /\ panicked' = bad
             /\ UNCHANGED <<fetching, requests, alternates, timeoutTimer>>
    <3>1. timeoutTimer \in BOOLEAN
      BY <1>0 DEF TimersOK
    <3> HIDE DEF ann, annd, bad
    <3> QED
      BY <2>2, <3>1, <1>4, <1>5
  <2> QED
    BY <2>1, <2>2 DEF WaitTrigger
<1>8. TimersOK'
  BY Zenon, <1>0, <1>7 DEF TimersOK, WaitTrigger
<1>9. \A h \in Hashes :
        waitlist'[h] # {} => h \notin InFlight(announced', fetching')
  BY Zenon, <1>0, <1>1, <1>7 DEF InFlight
<1> QED
  BY Zenon, <1>3, <1>6, <1>7, <1>8, <1>9, Assemble

(***************************************************************************)
(* case ann := <-f.notify.                                                 *)
(***************************************************************************)
LEMMA NotifyKeeps ==
  ASSUME NEW p \in Peers, NEW S \in SUBSET Hashes, IInv, Notify(p, S)
  PROVE  IInv'
<1>0. /\ WaitOK /\ TimersOK /\ panicked = FALSE
      /\ FetchType(announces, announced, fetching, requests, alternates)
      /\ FetchInv(announces, announced, fetching, requests, alternates)
      /\ \A h \in Hashes :
           waitlist[h] # {} => announced[h] = {} /\ fetching[h] = NoPeer
  BY Split DEF InFlight
<1>a. PICK K \in Kept(p, S) :
        LET downloading == Downloading(K)
            queued      == {h \in K \ downloading : announced[h] # {}}
            waiting     == K \ (downloading \cup queued)
            fresh       == {h \in waiting : waitlist[h] = {}}
            ann         == [announces EXCEPT ![p] = @ \cup downloading \cup queued]
            annd        == AddOrigin(announced, queued, p)
            alt         == AddOrigin(alternates, downloading, p)
            newPeer     == announces[p] = {}
        IN  /\ waitlist' = AddOrigin(waitlist, waiting, p)
            /\ waitslots' = [waitslots EXCEPT ![p] = @ \cup waiting]
            /\ waittime' = [h \in Hashes |->
                 IF h \in fresh THEN "fresh" ELSE waittime[h]]
            /\ waitTimer' = (waitTimer \/ (IdleWait /\ fresh # {}))
            /\ \/ /\ newPeer /\ ann[p] # {}
                  /\ ScheduleFetches({p}, ann, annd, fetching, requests, alt,
                                     timeoutTimer, panicked)
               \/ /\ ~(newPeer /\ ann[p] # {})
                  /\ announces' = ann
                  /\ announced' = annd
                  /\ alternates' = alt
                  /\ UNCHANGED <<fetching, requests, timeoutTimer, panicked>>
  BY Zenon DEF Notify
<1>b. K \in SUBSET Hashes
  BY <1>a DEF Kept
<1> DEFINE downloading == {h \in K : alternates[h] # {}}
           queued      == {h \in K \ downloading : announced[h] # {}}
           waiting     == K \ (downloading \cup queued)
           fresh       == {h \in waiting : waitlist[h] = {}}
           ann         == [announces EXCEPT ![p] = @ \cup downloading \cup queued]
           annd        == AddOrigin(announced, queued, p)
           alt         == AddOrigin(alternates, downloading, p)
<1>1. /\ waitlist' = AddOrigin(waitlist, waiting, p)
      /\ waitslots' = [waitslots EXCEPT ![p] = @ \cup waiting]
      /\ waittime' = [h \in Hashes |->
           IF h \in fresh THEN "fresh" ELSE waittime[h]]
      /\ waitTimer' \in BOOLEAN
  BY <1>a, <1>0 DEF TimersOK, Downloading
<1>2. \A h \in waiting : announced[h] = {} /\ fetching[h] = NoPeer
  BY <1>0, <1>b DEF FetchInv
<1>3. WaitOK'
  <2>1. waiting \subseteq Hashes
    BY <1>b
  <2> HIDE DEF waiting
  <2>2. /\ waitlist' \in [Hashes -> SUBSET Peers]
        /\ waitslots' \in [Peers -> SUBSET Hashes]
        /\ waittime' \in [Hashes -> {"none", "fresh", "expired"}]
    BY <1>0, <1>1, <2>1 DEF WaitOK, AddOrigin
  <2>3. \A h \in Hashes, q \in Peers : h \in waitslots'[q] <=> q \in waitlist'[h]
    BY <1>0, <1>1, <2>1 DEF WaitOK, WaitViewsAgree, AddOrigin
  <2>4. \A h \in Hashes : waittime'[h] = "none" <=> waitlist'[h] = {}
    BY <1>0, <1>1, <2>1 DEF WaitOK, WaitViewsAgree, AddOrigin
  <2> QED
    BY <2>2, <2>3, <2>4 DEF WaitOK, WaitViewsAgree
<1>4. FetchType(ann, annd, fetching, requests, alt)
  BY <1>0, <1>b DEF FetchType, AddOrigin
<1>5. FetchInv(ann, annd, fetching, requests, alt)
  <2>1. \A h \in Hashes : annd[h] # {} => fetching[h] = NoPeer
    BY <1>0 DEF FetchInv, AddOrigin
  <2>2. \A h \in Hashes : fetching[h] # NoPeer <=> alt[h] # {}
    BY <1>0 DEF FetchInv, AddOrigin
  <2>3. \A q \in Peers : \A h \in ann[q] : q \in annd[h] \cup alt[h]
    BY <1>0, <1>b DEF FetchInv, FetchType, AddOrigin
  <2> QED
    BY Zenon, <1>0, <2>1, <2>2, <2>3 DEF FetchInv
<1>6. /\ FetchType(announces', announced', fetching', requests', alternates')
      /\ FetchInv(announces', announced', fetching', requests', alternates')
      /\ InFlight(announced', fetching') = InFlight(annd, fetching)
      /\ timeoutTimer' \in BOOLEAN
      /\ panicked' = FALSE
  <2>1. CASE ScheduleFetches({p}, ann, annd, fetching, requests, alt,
                             timeoutTimer, panicked)
    <3>1. {p} \in SUBSET Peers /\ timeoutTimer \in BOOLEAN /\ panicked \in BOOLEAN
      BY Zenon, <1>0 DEF TimersOK
    <3> HIDE DEF ann, annd, alt
    <3>2. panicked' = panicked
      BY <2>1, <3>1, <1>4, <1>5, ScheduleKeeps
    <3> QED
      BY <2>1, <3>1, <3>2, <1>0, <1>4, <1>5, ScheduleKeeps
  <2>2. CASE /\ announces' = ann
             /\ announced' = annd
             /\ alternates' = alt
             /\ UNCHANGED <<fetching, requests, timeoutTimer, panicked>>
    <3>1. timeoutTimer \in BOOLEAN /\ panicked = FALSE
      BY <1>0 DEF TimersOK
    <3> HIDE DEF ann, annd, alt
    <3> QED
      BY <2>2, <3>1, <1>4, <1>5
  <2> QED
    BY Zenon, <1>a, <2>1, <2>2 DEF Downloading
<1>7. TimersOK'
  BY <1>0, <1>1, <1>6 DEF TimersOK, Notify
<1>8. \A h \in Hashes :
        waitlist'[h] # {} => h \notin InFlight(announced', fetching')
  BY Zenon, <1>0, <1>1, <1>2, <1>6 DEF InFlight, AddOrigin
<1> QED
  BY Zenon, <1>3, <1>6, <1>7, <1>8, Assemble

(***************************************************************************)
(* case <-timeoutTrigger.                                                  *)
(***************************************************************************)
LEMMA TimeoutTriggerKeeps == IInv /\ TimeoutTrigger => IInv'
<1> SUFFICES ASSUME IInv, TimeoutTrigger PROVE IInv'
  OBVIOUS
<1> DEFINE overdue == {p \in Peers : requests[p].status = "overdue"}
           lost    == UNION {Owed(requests, p) : p \in overdue}
           Late(h) == {p \in overdue : h \in Owed(requests, p)}
           ann     == [p \in Peers |->
                        IF p \in overdue THEN announces[p] \ Owed(requests, p)
                                         ELSE announces[p]]
           annd    == [h \in Hashes |->
                        IF h \in lost THEN alternates[h] \ Late(h)
                                      ELSE announced[h]]
           fet     == [h \in Hashes |->
                        IF h \in lost THEN NoPeer ELSE fetching[h]]
           alt     == [h \in Hashes |-> IF h \in lost THEN {} ELSE alternates[h]]
           req     == [p \in Peers |->
                        IF p \in overdue
                        THEN [requests[p] EXCEPT !.status = "dangling",
                                                 !.hashes = {}]
                        ELSE requests[p]]
           bad     == panicked \/ \E h \in lost : announced[h] # {}
<1>0. /\ WaitOK /\ TimersOK /\ panicked = FALSE
      /\ FetchType(announces, announced, fetching, requests, alternates)
      /\ FetchInv(announces, announced, fetching, requests, alternates)
      /\ \A h \in Hashes :
           waitlist[h] # {} => announced[h] = {} /\ fetching[h] = NoPeer
  BY Split DEF InFlight
<1>1. /\ ScheduleFetches(Announcers(ann), ann, annd, fet, req, alt, TRUE, bad)
      /\ UNCHANGED <<waitVars, waitTimer, waitTrigger>>
      /\ timeoutTrigger' = FALSE
  BY Zenon DEF TimeoutTrigger
<1>2. /\ \A h \in Hashes : h \in lost <=> fetching[h] \in overdue
      /\ lost \subseteq Hashes
  <2>1. \A p \in overdue : Owed(requests, p) \subseteq Hashes
    BY <1>0 DEF FetchType, Request, Owed
  <2>2. \A h \in Hashes, p \in overdue : h \in Owed(requests, p) <=> fetching[h] = p
    BY <1>0 DEF FetchInv
  <2> QED
    BY <2>1, <2>2
<1>3. \A h \in Hashes, p \in Peers :
        h \in Owed(requests, p) <=> fetching[h] = p
  BY <1>0 DEF FetchInv
<1>4. FetchType(ann, annd, fet, req, alt)
  <2>1. req \in [Peers -> Request]
    <3>1. \A p \in Peers : /\ requests[p] \in Request
                           /\ [requests[p] EXCEPT !.status = "dangling",
                                                  !.hashes = {}] \in Request
      BY Zenon, <1>0 DEF FetchType, Request
    <3> HIDE DEF overdue
    <3> QED
      BY Zenon, <3>1
  <2>2. ann \in [Peers -> SUBSET Hashes]
    <3>1. announces \in [Peers -> SUBSET Hashes]
      BY <1>0 DEF FetchType
    <3> HIDE DEF overdue
    <3> QED
      BY <3>1
  <2>3. annd \in [Hashes -> SUBSET Peers]
    BY <1>0 DEF FetchType
  <2>4. fet \in [Hashes -> Peers \cup {NoPeer}] /\ alt \in [Hashes -> SUBSET Peers]
    <3> HIDE DEF lost
    <3> QED
      BY <1>0 DEF FetchType
  <2> HIDE DEF ann, annd, fet, req, alt
  <2> QED
    BY <2>1, <2>2, <2>3, <2>4 DEF FetchType
<1>5. FetchInv(ann, annd, fet, req, alt)
  <2>1. \A h \in Hashes : annd[h] # {} => fet[h] = NoPeer
    BY <1>0 DEF FetchInv
  <2>2. \A h \in Hashes, p \in Peers : fet[h] = p <=> h \in Owed(req, p)
    <3> SUFFICES ASSUME NEW h \in Hashes, NEW p \in Peers
                 PROVE  fet[h] = p <=> h \in Owed(req, p)
      BY Zenon
    <3>1. CASE p \in overdue
      <4>1. Owed(req, p) = {}
        BY <3>1, <1>0 DEF Owed, FetchType, Request
      <4> QED
        BY Zenon, <4>1, <3>1, <1>2, NoPeerAssumption
    <3>2. CASE p \notin overdue
      <4>1. Owed(req, p) = Owed(requests, p)
        BY <3>2 DEF Owed
      <4> QED
        BY Zenon, <4>1, <3>2, <1>2, <1>3, NoPeerAssumption
    <3> QED
      BY Zenon, <3>1, <3>2
  <2>3. \A h \in Hashes : fet[h] # NoPeer <=> alt[h] # {}
    BY <1>0 DEF FetchInv
  <2>4. \A p \in Peers : \A h \in ann[p] : p \in annd[h] \cup alt[h]
    <3> SUFFICES ASSUME NEW p \in Peers, NEW h \in ann[p]
                 PROVE  p \in annd[h] \cup alt[h]
      BY Zenon
    <3>1. h \in Hashes /\ h \in announces[p] /\ p \in announced[h] \cup alternates[h]
      BY <1>0 DEF FetchType, FetchInv
    <3>2. CASE h \in lost
      <4>1. fetching[h] # NoPeer
        BY <3>1, <3>2, <1>2, NoPeerAssumption
      <4>2. p \in alternates[h]
        BY <3>1, <4>1, <1>0 DEF FetchInv
      <4>3. p \notin Late(h)
        OBVIOUS
      <4> QED
        BY <3>1, <3>2, <4>2, <4>3
    <3>3. CASE h \notin lost
      BY <3>1, <3>3
    <3> QED
      BY <3>2, <3>3
  <2>5. \A p \in Peers :
          req[p].status \in {"none", "dangling"} => req[p].hashes = {}
    BY <1>0 DEF FetchInv, FetchType, Request
  <2> QED
    BY Zenon, <2>1, <2>2, <2>3, <2>4, <2>5 DEF FetchInv
<1>6. bad = FALSE
  BY <1>0, <1>2, NoPeerAssumption DEF FetchInv
<1>7. /\ FetchType(announces', announced', fetching', requests', alternates')
      /\ FetchInv(announces', announced', fetching', requests', alternates')
      /\ InFlight(announced', fetching') = InFlight(annd, fet)
      /\ timeoutTimer' \in BOOLEAN
      /\ panicked' = bad
  <2>1. Announcers(ann) \in SUBSET Peers
    BY DEF Announcers
  <2>2. bad \in BOOLEAN
    BY <1>6
  <2> HIDE DEF ann, annd, fet, req, alt, bad
  <2> QED
    BY Zenon, <1>1, <1>4, <1>5, <2>1, <2>2, ScheduleKeeps
<1>8. WaitOK' /\ TimersOK'
  BY Zenon, <1>0, <1>1, <1>7 DEF WaitOK, WaitViewsAgree, TimersOK, waitVars
<1>9. \A h \in Hashes :
        waitlist'[h] # {} => h \notin InFlight(announced', fetching')
  <2>1. \A h \in Hashes : h \in InFlight(annd, fet) => h \in InFlight(announced, fetching)
    BY <1>2, NoPeerAssumption DEF InFlight
  <2> QED
    BY Zenon, <2>1, <1>0, <1>1, <1>7 DEF waitVars, InFlight
<1> QED
  BY Zenon, <1>6, <1>7, <1>8, <1>9, Assemble

\* The requests after a delivery, and where its hashes can be.
AfterDelivery(o, S, direct) ==
  /\ ~NilRequest(o, S, direct)
  /\ MarkStolen(o, S, direct) \in [Peers -> Request]
  /\ \A p \in Peers :
       /\ MarkStolen(o, S, direct)[p].status = requests[p].status
       /\ MarkStolen(o, S, direct)[p].hashes = requests[p].hashes
  /\ \A p \in Peers, h \in Hashes :
       h \in Owed(MarkStolen(o, S, direct), p) <=>
         fetching[h] = p /\ ~(h \in S /\ (p # o \/ ~direct))
  /\ \A h \in S : h \notin NotWaiting(S) =>
       announced[h] = {} /\ fetching[h] = NoPeer

(***************************************************************************)
(* What the first half of case delivery := <-f.cleanup does: stolen hashes *)
(* are booked on requests that exist, and the tables without the delivered *)
(* hashes satisfy FetchInv, apart from the delivered hashes that o's own   *)
(* request owes when the delivery is its reply.                            *)
(***************************************************************************)
LEMMA DeliveryFacts ==
  ASSUME IInv, NEW o \in Peers, NEW S \in SUBSET Hashes, NEW direct \in BOOLEAN
  PROVE  AfterDelivery(o, S, direct)
<1> DEFINE req == MarkStolen(o, S, direct)
<1>0. /\ FetchType(announces, announced, fetching, requests, alternates)
      /\ FetchInv(announces, announced, fetching, requests, alternates)
      /\ \A h \in Hashes :
           waitlist[h] # {} => announced[h] = {} /\ fetching[h] = NoPeer
  BY Split DEF InFlight
<1>1. \A h \in S : h \notin NotWaiting(S) =>
        announced[h] = {} /\ fetching[h] = NoPeer
  BY <1>0 DEF NotWaiting, InWait
<1>2. \A h \in Hashes : h \in Stolen(o, S, direct) <=>
        h \in S /\ fetching[h] # NoPeer /\ (fetching[h] # o \/ ~direct)
  BY <1>1 DEF Stolen, NotWaiting
<1>3. Stolen(o, S, direct) \subseteq Hashes
  BY DEF Stolen, NotWaiting
<1> DEFINE Add(p) == {h \in Stolen(o, S, direct) : fetching[h] = p}
<1>3a. req = [p \in Peers |-> [requests[p] EXCEPT !.stolen = @ \cup Add(p)]]
  BY DEF MarkStolen
<1>3b. \A p \in Peers : Add(p) \in SUBSET Hashes
  BY <1>3
<1>4. ASSUME NEW p \in Peers
      PROVE  /\ req[p] \in Request
             /\ req[p].status = requests[p].status
             /\ req[p].hashes = requests[p].hashes
             /\ req[p].stolen = requests[p].stolen \cup Add(p)
  <2>1. requests[p] \in Request
    BY <1>0 DEF FetchType
  <2>2. req[p] = [requests[p] EXCEPT !.stolen = @ \cup Add(p)]
    BY <1>3a
  <2>3. Add(p) \in SUBSET Hashes
    BY <1>3b
  <2> HIDE DEF req, Add
  <2> QED
    BY <2>1, <2>2, <2>3 DEF Request
<1>5. req \in [Peers -> Request]
  <2> HIDE DEF Add
  <2>1. \A p \in Peers : [requests[p] EXCEPT !.stolen = @ \cup Add(p)] \in Request
    BY Zenon, <1>3a, <1>4
  <2> HIDE DEF req
  <2> QED
    BY Zenon, <1>3a, <2>1
<1>6. \A p \in Peers, h \in Hashes :
        h \in Owed(req, p) <=> fetching[h] = p /\ ~(h \in S /\ (p # o \/ ~direct))
  <2> SUFFICES ASSUME NEW p \in Peers, NEW h \in Hashes
               PROVE  h \in Owed(req, p) <=>
                        fetching[h] = p /\ ~(h \in S /\ (p # o \/ ~direct))
    OBVIOUS
  <2>1. h \in Owed(req, p) <=>
          h \in Owed(requests, p) /\ ~(h \in Stolen(o, S, direct) /\ fetching[h] = p)
    <3>1. /\ req[p].hashes = requests[p].hashes
          /\ req[p].stolen = requests[p].stolen \cup Add(p)
      BY <1>4
    <3> HIDE DEF req
    <3> QED
      BY <3>1 DEF Owed
  <2>2. h \in Owed(requests, p) <=> fetching[h] = p
    BY <1>0 DEF FetchInv
  <2> QED
    BY <1>2, <2>1, <2>2, NoPeerAssumption
<1>7. ~NilRequest(o, S, direct)
  <2> SUFFICES ASSUME NEW h \in Stolen(o, S, direct)
               PROVE  requests[fetching[h]].status # "none"
    BY DEF NilRequest
  <2>1. h \in Hashes /\ fetching[h] \in Peers
    BY <1>0, <1>2, <1>3 DEF FetchType
  <2>2. h \in Owed(requests, fetching[h])
    BY <2>1, <1>0 DEF FetchInv
  <2>3. requests[fetching[h]].hashes # {}
    BY <2>2 DEF Owed
  <2> QED
    BY <2>1, <2>3, <1>0 DEF FetchInv
<1> QED
  BY <1>1, <1>4, <1>5, <1>6, <1>7 DEF AfterDelivery

(***************************************************************************)
(* ForgetWaiting keeps the two views of the wait list in agreement.        *)
(***************************************************************************)
LEMMA ForgetWaitingKeeps ==
  ASSUME WaitOK, NEW S \in SUBSET Hashes, ForgetWaiting(S)
  PROVE  /\ WaitOK'
         /\ \A h \in Hashes : waitlist'[h] # {} => waitlist[h] # {} /\ h \notin S
BY DEF WaitOK, WaitViewsAgree, ForgetWaiting, InWait

(***************************************************************************)
(* case delivery := <-f.cleanup without a request to close.                *)
(***************************************************************************)
LEMMA CleanUpKeeps ==
  ASSUME IInv, NEW o \in Peers, NEW S \in SUBSET Hashes, NEW direct \in BOOLEAN,
         CleanUp(o, S, direct), direct => requests[o].status = "none"
  PROVE  IInv'
<1> DEFINE gone == NotWaiting(S)
           req  == MarkStolen(o, S, direct)
<1>0. /\ WaitOK /\ TimersOK /\ panicked = FALSE
      /\ FetchType(announces, announced, fetching, requests, alternates)
      /\ FetchInv(announces, announced, fetching, requests, alternates)
      /\ \A h \in Hashes :
           waitlist[h] # {} => announced[h] = {} /\ fetching[h] = NoPeer
  BY Split DEF InFlight
<1>1. /\ ForgetWaiting(S)
      /\ announces' = Released(gone)
      /\ announced' = Cleared(announced, gone, {})
      /\ alternates' = Cleared(alternates, gone, {})
      /\ fetching' = Cleared(fetching, gone, NoPeer)
      /\ requests' = req
      /\ panicked' = (panicked \/ NilRequest(o, S, direct))
      /\ UNCHANGED timerVars
  BY DEF CleanUp
<1>2. /\ ~NilRequest(o, S, direct)
      /\ req \in [Peers -> Request]
      /\ \A p \in Peers : /\ req[p].status = requests[p].status
                          /\ req[p].hashes = requests[p].hashes
      /\ \A p \in Peers, h \in Hashes :
           h \in Owed(req, p) <=>
             fetching[h] = p /\ ~(h \in S /\ (p # o \/ ~direct))
      /\ \A h \in S : h \notin gone => announced[h] = {} /\ fetching[h] = NoPeer
  <2>1. AfterDelivery(o, S, direct)
    BY DeliveryFacts
  <2> QED
    BY <2>1 DEF AfterDelivery
<1>3. gone \subseteq S
  BY DEF NotWaiting
<1>4. direct => \A h \in Hashes : fetching[h] # o
  BY <1>0 DEF FetchInv, Owed
<1>5. \A p \in Peers, h \in Hashes :
        fetching'[h] = p <=> h \in Owed(requests', p)
  <2> SUFFICES ASSUME NEW p \in Peers, NEW h \in Hashes
               PROVE  fetching'[h] = p <=> h \in Owed(req, p)
    BY <1>1
  <2>1. p # NoPeer
    BY NoPeerAssumption
  <2>2. fetching'[h] = p <=> fetching[h] = p /\ h \notin gone
    BY <1>1, <2>1 DEF Cleared
  <2>3. fetching[h] = p => (h \in gone <=> h \in S)
    BY <1>2, <1>3, <2>1
  <2> HIDE DEF req, gone
  <2> QED
    BY <1>2, <1>4, <2>2, <2>3
<1>6. FetchType(announces', announced', fetching', requests', alternates')
  <2> HIDE DEF req, gone
  <2> QED
    BY <1>0, <1>1, <1>2 DEF FetchType, Cleared, Released
<1>7. FetchInv(announces', announced', fetching', requests', alternates')
  <2> HIDE DEF req, gone
  <2>1. \A h \in Hashes : announced'[h] # {} => fetching'[h] = NoPeer
    BY <1>0, <1>1 DEF FetchInv, Cleared
  <2>2. \A h \in Hashes : fetching'[h] # NoPeer <=> alternates'[h] # {}
    BY <1>0, <1>1 DEF FetchInv, Cleared
  <2>3. \A p \in Peers : \A h \in announces'[p] :
          p \in announced'[h] \cup alternates'[h]
    BY <1>0, <1>1 DEF FetchInv, FetchType, Cleared, Released
  <2>4. \A p \in Peers :
          requests'[p].status \in {"none", "dangling"} => requests'[p].hashes = {}
    BY <1>0, <1>1, <1>2 DEF FetchInv
  <2> QED
    BY <1>5, <2>1, <2>2, <2>3, <2>4 DEF FetchInv
<1>8. /\ WaitOK'
      /\ \A h \in Hashes : waitlist'[h] # {} => waitlist[h] # {} /\ h \notin S
  BY <1>0, <1>1, ForgetWaitingKeeps
<1>9. \A h \in Hashes :
        waitlist'[h] # {} => h \notin InFlight(announced', fetching')
  BY <1>0, <1>1, <1>3, <1>8 DEF InFlight, Cleared
<1>10. TimersOK' /\ panicked' = FALSE
  BY Zenon, <1>0, <1>1, <1>2 DEF TimersOK, timerVars
<1> QED
  BY Zenon, <1>6, <1>7, <1>8, <1>9, <1>10, Assemble

(***************************************************************************)
(* case delivery := <-f.cleanup with a reply to an open request.           *)
(***************************************************************************)
LEMMA ReplyKeeps ==
  ASSUME IInv, NEW o \in Peers, NEW S \in SUBSET Hashes, Reply(o, S)
  PROVE  IInv'
<1> DEFINE gone    == NotWaiting(S)
           req1    == MarkStolen(o, S, TRUE)
           owed    == Owed(req1, o)
           missing == owed \ S
           annd1   == Cleared(announced, gone, {})
           alt1    == Cleared(alternates, gone, {})
           fet     == Cleared(fetching, gone \cup owed, NoPeer)
           alt     == Cleared(alternates, gone \cup owed, {})
           req     == [req1 EXCEPT ![o] = NoRequest]
<1>0. /\ WaitOK /\ TimersOK /\ panicked = FALSE
      /\ FetchType(announces, announced, fetching, requests, alternates)
      /\ FetchInv(announces, announced, fetching, requests, alternates)
      /\ \A h \in Hashes :
           waitlist[h] # {} => announced[h] = {} /\ fetching[h] = NoPeer
  BY Zenon, Split DEF InFlight
<1>a. PICK skipped \in Skipped(o, S, req1) :
        LET Left(h) == IF h \in skipped THEN alt1[h] \ {o} ELSE alt1[h]
            back    == {h \in missing : Left(h) # {}}
            ann     == [Released(gone) EXCEPT ![o] = @ \ skipped]
            annd    == [h \in Hashes |->
                         IF h \in back THEN Left(h) ELSE annd1[h]]
            bad     == \/ panicked
                       \/ NilRequest(o, S, TRUE)
                       \/ \E h \in back : annd1[h] # {}
        IN  ScheduleFetches(Announcers(ann), ann, annd, fet, req, alt,
                            timeoutTimer, bad)
  BY Zenon DEF Reply
<1> DEFINE Left(h) == IF h \in skipped THEN alt1[h] \ {o} ELSE alt1[h]
           back    == {h \in missing : Left(h) # {}}
           ann     == [Released(gone) EXCEPT ![o] = @ \ skipped]
           annd    == [h \in Hashes |->
                        IF h \in back THEN Left(h) ELSE annd1[h]]
           bad     == \/ panicked
                      \/ NilRequest(o, S, TRUE)
                      \/ \E h \in back : annd1[h] # {}
<1>1. /\ ScheduleFetches(Announcers(ann), ann, annd, fet, req, alt,
                         timeoutTimer, bad)
      /\ ForgetWaiting(S)
      /\ UNCHANGED <<waitTimer, waitTrigger, timeoutTrigger>>
  BY Zenon, <1>a DEF Reply
<1>2. /\ ~NilRequest(o, S, TRUE)
      /\ req1 \in [Peers -> Request]
      /\ \A p \in Peers : /\ req1[p].status = requests[p].status
                          /\ req1[p].hashes = requests[p].hashes
      /\ \A p \in Peers, h \in Hashes :
           h \in Owed(req1, p) <=> fetching[h] = p /\ ~(h \in S /\ p # o)
      /\ \A h \in S : h \notin gone => announced[h] = {} /\ fetching[h] = NoPeer
  <2>1. AfterDelivery(o, S, TRUE)
    BY Zenon, DeliveryFacts
  <2> QED
    BY Zenon, <2>1 DEF AfterDelivery
<1>3. /\ gone \subseteq S
      /\ owed \subseteq Hashes
      /\ \A h \in Hashes : h \in owed <=> fetching[h] = o
      /\ skipped \subseteq missing
  <2>1. gone \subseteq S
    BY DEF NotWaiting
  <2>2. owed \subseteq Hashes
    BY Zenon, <1>2 DEF Owed, Request
  <2>3. \A h \in Hashes : h \in owed <=> fetching[h] = o
    <3> HIDE DEF req1
    <3> QED BY <1>2
  <2>4. skipped \subseteq missing
    BY Zenon, <1>a DEF Skipped
  <2> QED
    BY Zenon, <2>1, <2>2, <2>3, <2>4
<1>4. \A h \in missing : announced[h] = {} /\ alternates[h] # {} /\ h \notin gone
  <2> HIDE DEF gone, owed
  <2> QED
    BY <1>0, <1>3, NoPeerAssumption DEF FetchInv
<1>5. FetchType(ann, annd, fet, req, alt)
  <2>1. req \in [Peers -> Request]
    <3>1. NoRequest \in Request
      BY DEF NoRequest, Request
    <3> HIDE DEF req1
    <3> QED
      BY <1>2, <3>1
  <2> HIDE DEF gone, owed, req
  <2> QED
    BY <1>0, <2>1 DEF FetchType, Cleared, Released
<1>6. FetchInv(ann, annd, fet, req, alt)
  <2>1. \A h \in Hashes : annd[h] # {} => fet[h] = NoPeer
    <3> HIDE DEF gone, owed
    <3> QED
      BY <1>0, <1>3 DEF FetchInv, Cleared
  <2>2. \A h \in Hashes, p \in Peers : fet[h] = p <=> h \in Owed(req, p)
    <3> SUFFICES ASSUME NEW h \in Hashes, NEW p \in Peers
                 PROVE  fet[h] = p <=> h \in Owed(req, p)
      BY Zenon
    <3>1. p # NoPeer
      BY NoPeerAssumption
    <3>2. fet[h] = p <=> fetching[h] = p /\ h \notin gone /\ h \notin owed
      BY Zenon, <3>1 DEF Cleared
    <3>3. CASE p = o
      <4>1. Owed(req, p) = {}
        <5>1. req[o] = NoRequest
          BY Zenon, <1>2
        <5> HIDE DEF req
        <5> QED
          BY <3>3, <5>1 DEF Owed, NoRequest
      <4> HIDE DEF gone, owed, req
      <4> QED
        BY <3>2, <3>3, <4>1, <1>3
    <3>4. CASE p # o
      <4>1. Owed(req, p) = Owed(req1, p)
        <5>1. req[p] = req1[p]
          <6> HIDE DEF req1
          <6> QED
            BY <3>4, <1>2
        <5> HIDE DEF req, req1
        <5> QED
          BY <5>1 DEF Owed
      <4>2. fetching[h] = p => (h \in gone <=> h \in S)
        <5> HIDE DEF gone
        <5> QED
          BY <1>2, <1>3, <3>1
      <4>3. h \in Owed(req1, p) <=> fetching[h] = p /\ h \notin S
        <5> HIDE DEF gone, req1
        <5> QED
          BY <3>4, <1>2
      <4>4. h \in owed <=> fetching[h] = o
        <5> HIDE DEF gone, owed
        <5> QED
          BY <1>3
      <4> HIDE DEF gone, owed, fet, req, req1
      <4> QED
        BY <3>2, <3>4, <4>1, <4>2, <4>3, <4>4
    <3> QED
      BY <3>3, <3>4
  <2>3. \A h \in Hashes : fet[h] # NoPeer <=> alt[h] # {}
    <3> HIDE DEF gone, owed
    <3> QED
      BY Zenon, <1>0 DEF FetchInv, Cleared
  <2>4. \A p \in Peers : \A h \in ann[p] : p \in annd[h] \cup alt[h]
    <3> SUFFICES ASSUME NEW p \in Peers, NEW h \in ann[p]
                 PROVE  p \in annd[h] \cup alt[h]
      BY Zenon
    <3>1. /\ h \in Hashes /\ h \in announces[p] /\ h \notin gone
          /\ p \in announced[h] \cup alternates[h]
          /\ p = o => h \notin skipped
      <4> HIDE DEF gone
      <4> QED
        BY <1>0 DEF FetchType, FetchInv, Released
    <3>2. CASE h \in owed
      <4>1. h \notin S /\ p \in alternates[h]
        <5>1. fetching[h] # NoPeer
          BY Zenon, <3>1, <3>2, <1>3, NoPeerAssumption
        <5> HIDE DEF owed
        <5> QED
          BY <5>1, <3>1, <1>0, <1>2 DEF FetchInv
      <4>2. p \in Left(h)
        <5> HIDE DEF gone
        <5> QED
          BY <3>1, <4>1 DEF Cleared
      <4> HIDE DEF owed, Left
      <4> QED
        BY <3>1, <3>2, <4>1, <4>2
    <3>3. CASE h \notin owed
      <4> HIDE DEF gone, owed
      <4> QED
        BY <3>1, <3>3 DEF Cleared
    <3> QED
      BY Zenon, <3>2, <3>3
  <2>5. \A p \in Peers :
          req[p].status \in {"none", "dangling"} => req[p].hashes = {}
    <3> SUFFICES ASSUME NEW p \in Peers, req[p].status \in {"none", "dangling"}
                 PROVE  req[p].hashes = {}
      BY Zenon
    <3> HIDE DEF req1
    <3>1. CASE p = o
      BY <3>1, <1>2 DEF NoRequest
    <3>2. CASE p # o
      <4>1. req[p] = req1[p]
        BY <3>2, <1>2
      <4>2. requests[p].status \in {"none", "dangling"} => requests[p].hashes = {}
        BY <1>0 DEF FetchInv
      <4> HIDE DEF req
      <4> QED
        BY <4>1, <4>2, <1>2
    <3> QED
      BY <3>1, <3>2
  <2> HIDE DEF ann, annd, fet, req, alt
  <2> QED
    BY <2>1, <2>2, <2>3, <2>4, <2>5 DEF FetchInv
<1>7. bad = FALSE
  <2>1. \A h \in back : annd1[h] = {}
    <3> HIDE DEF gone, owed, Left
    <3> QED
      BY <1>3, <1>4 DEF Cleared
  <2> HIDE DEF back, annd1
  <2> QED
    BY Zenon, <2>1, <1>0, <1>2
<1>8. /\ FetchType(announces', announced', fetching', requests', alternates')
      /\ FetchInv(announces', announced', fetching', requests', alternates')
      /\ InFlight(announced', fetching') = InFlight(annd, fet)
      /\ timeoutTimer' \in BOOLEAN
      /\ panicked' = bad
  <2>1. Announcers(ann) \in SUBSET Peers
    BY DEF Announcers
  <2>2. bad \in BOOLEAN /\ timeoutTimer \in BOOLEAN
    BY <1>0, <1>7 DEF TimersOK
  <2> HIDE DEF ann, annd, fet, req, alt, bad
  <2> QED
    BY <1>1, <1>5, <1>6, <2>1, <2>2, ScheduleKeeps
<1>9. /\ WaitOK'
      /\ \A h \in Hashes : waitlist'[h] # {} => waitlist[h] # {} /\ h \notin S
  BY Zenon, <1>0, <1>1, ForgetWaitingKeeps
<1>10. TimersOK' /\ panicked' = FALSE
  <2> HIDE DEF bad
  <2> QED
    BY Zenon, <1>0, <1>1, <1>7, <1>8 DEF TimersOK
<1>11. \A h \in Hashes :
        waitlist'[h] # {} => h \notin InFlight(announced', fetching')
  <2>1. \A h \in Hashes :
          h \in InFlight(annd, fet) => h \in InFlight(announced, fetching)
    <3>1. \A h \in back : fetching[h] # NoPeer
      BY Zenon, <1>3, NoPeerAssumption
    <3> HIDE DEF gone, owed, back, Left
    <3> QED
      BY <3>1 DEF InFlight, Cleared
  <2> HIDE DEF annd, fet
  <2> QED
    BY Zenon, <2>1, <1>0, <1>8, <1>9 DEF InFlight
<1> QED
  BY Zenon, <1>8, <1>9, <1>10, <1>11, Assemble

(***************************************************************************)
(* case drop := <-f.drop.                                                  *)
(***************************************************************************)
LEMMA DropKeeps ==
  ASSUME IInv, NEW p \in Peers, Drop(p)
  PROVE  IInv'
<1> DEFINE slots == waitslots[p]
           wl    == [h \in Hashes |->
                      IF h \in slots THEN waitlist[h] \ {p} ELSE waitlist[h]]
           owed  == Owed(requests, p)
           open  == requests[p].status # "none"
           annd1 == [h \in Hashes |->
                      IF h \in owed /\ alternates[h] \ {p} # {}
                      THEN alternates[h] \ {p} ELSE announced[h]]
           annd  == [h \in Hashes |->
                      IF h \in announces[p] THEN annd1[h] \ {p} ELSE annd1[h]]
           ann   == [announces EXCEPT ![p] = {}]
           fet   == Cleared(fetching, owed, NoPeer)
           alt   == Cleared(alternates, owed, {})
           req   == [requests EXCEPT ![p] = NoRequest]
<1>0. /\ WaitOK /\ TimersOK /\ panicked = FALSE
      /\ FetchType(announces, announced, fetching, requests, alternates)
      /\ FetchInv(announces, announced, fetching, requests, alternates)
      /\ \A h \in Hashes :
           waitlist[h] # {} => announced[h] = {} /\ fetching[h] = NoPeer
  BY Split DEF InFlight
<1>1. /\ waitlist' = wl
      /\ waittime' = [h \in Hashes |->
           IF h \in slots /\ wl[h] = {} THEN "none" ELSE waittime[h]]
      /\ waitslots' = [waitslots EXCEPT ![p] = {}]
      /\ waitTimer' \in BOOLEAN
      /\ UNCHANGED <<waitTrigger, timeoutTrigger>>
  BY <1>0 DEF Drop, TimersOK
<1>2. /\ owed \subseteq Hashes
      /\ \A h \in Hashes : h \in owed <=> fetching[h] = p
      /\ p # NoPeer
  BY <1>0, NoPeerAssumption DEF FetchType, FetchInv, Request, Owed
<1>3. WaitOK'
  <2>1. /\ waitlist' \in [Hashes -> SUBSET Peers]
        /\ waittime' \in [Hashes -> {"none", "fresh", "expired"}]
        /\ waitslots' \in [Peers -> SUBSET Hashes]
    BY <1>0, <1>1 DEF WaitOK
  <2>2. \A h \in Hashes, q \in Peers : h \in waitslots'[q] <=> q \in waitlist'[h]
    BY <1>0, <1>1 DEF WaitOK, WaitViewsAgree
  <2>3. \A h \in Hashes : waittime'[h] = "none" <=> waitlist'[h] = {}
    BY <1>0, <1>1 DEF WaitOK, WaitViewsAgree
  <2> QED
    BY <2>1, <2>2, <2>3 DEF WaitOK, WaitViewsAgree
<1>4. FetchType(ann, annd, fet, req, alt)
  <2>1. NoRequest \in Request
    BY DEF NoRequest, Request
  <2> HIDE DEF owed
  <2> QED
    BY <1>0, <2>1 DEF FetchType, Cleared, Released
<1>5. FetchInv(ann, annd, fet, req, alt)
  <2>1. \A h \in Hashes : annd[h] # {} => fet[h] = NoPeer
    <3> HIDE DEF owed
    <3> QED
      BY <1>0 DEF FetchInv, Cleared
  <2>2. \A h \in Hashes, q \in Peers : fet[h] = q <=> h \in Owed(req, q)
    <3> SUFFICES ASSUME NEW h \in Hashes, NEW q \in Peers
                 PROVE  fet[h] = q <=> h \in Owed(req, q)
      BY Zenon
    <3>1. CASE q = p
      <4>1. req[p].hashes = {} /\ req[p].stolen = {}
        BY <1>0 DEF FetchType, NoRequest
      <4>2. Owed(req, q) = {}
        <5> HIDE DEF req
        <5> QED
          BY <3>1, <4>1 DEF Owed
      <4> HIDE DEF owed, req
      <4> QED
        BY <3>1, <4>2, <1>2 DEF Cleared
    <3>2. CASE q # p
      <4>1. Owed(req, q) = Owed(requests, q)
        BY <3>2, <1>0 DEF Owed, FetchType
      <4>2. h \in Owed(requests, q) <=> fetching[h] = q
        BY <1>0 DEF FetchInv
      <4>3. q # NoPeer
        BY NoPeerAssumption
      <4> HIDE DEF owed, req
      <4> QED
        BY <3>2, <4>1, <4>2, <4>3, <1>2 DEF Cleared
    <3> QED
      BY <3>1, <3>2
  <2>3. \A h \in Hashes : fet[h] # NoPeer <=> alt[h] # {}
    <3> HIDE DEF owed
    <3> QED
      BY <1>0 DEF FetchInv, Cleared
  <2>4. \A q \in Peers : \A h \in ann[q] : q \in annd[h] \cup alt[h]
    <3> SUFFICES ASSUME NEW q \in Peers, NEW h \in ann[q]
                 PROVE  q \in annd[h] \cup alt[h]
      OBVIOUS
    <3>1. /\ q # p /\ h \in Hashes /\ h \in announces[q]
          /\ q \in announced[h] \cup alternates[h]
      BY <1>0 DEF FetchType, FetchInv
    <3>2. CASE h \in owed
      <4>1. q \in alternates[h]
        <5>1. fetching[h] = p /\ p # NoPeer
          BY <3>1, <3>2, <1>2, NoPeerAssumption
        <5>2. announced[h] # {} => fetching[h] = NoPeer
          BY <3>1, <1>0 DEF FetchInv
        <5> HIDE DEF owed
        <5> QED
          BY <3>1, <5>1, <5>2
      <4> HIDE DEF owed
      <4> QED
        BY <3>1, <3>2, <4>1
    <3>3. CASE h \notin owed
      <4> HIDE DEF owed
      <4> QED
        BY <3>1, <3>3 DEF Cleared
    <3> QED
      BY <3>2, <3>3
  <2>5. \A q \in Peers :
          req[q].status \in {"none", "dangling"} => req[q].hashes = {}
    <3> SUFFICES ASSUME NEW q \in Peers, req[q].status \in {"none", "dangling"}
                 PROVE  req[q].hashes = {}
      OBVIOUS
    <3>1. CASE q = p
      BY <3>1, <1>0 DEF FetchType, NoRequest
    <3>2. CASE q # p
      <4>1. req[q] = requests[q]
        BY <3>2, <1>0 DEF FetchType
      <4> HIDE DEF req
      <4> QED
        BY <4>1, <1>0 DEF FetchInv
    <3> QED
      BY <3>1, <3>2
  <2> HIDE DEF ann, annd, fet, req, alt
  <2> QED
    BY <2>1, <2>2, <2>3, <2>4, <2>5 DEF FetchInv
<1>6. /\ FetchType(announces', announced', fetching', requests', alternates')
      /\ FetchInv(announces', announced', fetching', requests', alternates')
      /\ InFlight(announced', fetching') = InFlight(annd, fet)
      /\ timeoutTimer' \in BOOLEAN
      /\ panicked' = FALSE
  <2>1. CASE ScheduleFetches(Announcers(ann), ann, annd, fet, req, alt,
                             TRUE, panicked)
    <3>1. Announcers(ann) \in SUBSET Peers /\ panicked \in BOOLEAN
      BY Zenon, <1>0 DEF Announcers
    <3> HIDE DEF ann, annd, fet, req, alt
    <3>2. panicked' = panicked
      BY Zenon, <2>1, <3>1, <1>4, <1>5, ScheduleKeeps
    <3> QED
      BY Zenon, <2>1, <3>1, <3>2, <1>0, <1>4, <1>5, ScheduleKeeps
  <2>2. CASE /\ ~open
             /\ announces' = ann
             /\ announced' = annd
             /\ UNCHANGED <<fetching, requests, alternates, timeoutTimer, panicked>>
    <3>1. requests[p].hashes = {}
      BY <2>2, <1>0 DEF FetchInv
    <3>2. owed = {}
      BY <3>1 DEF Owed
    <3>3. fet = fetching /\ alt = alternates
      <4> HIDE DEF owed
      <4> QED
        BY <3>2, <1>0 DEF Cleared, FetchType
    <3>4. FetchInv(ann, annd, fetching, requests, alternates)
      <4>1. \A h \in Hashes, q \in Peers :
              fetching[h] = q <=> h \in Owed(requests, q)
        BY <1>0 DEF FetchInv
      <4>2. \A q \in Peers : requests[q].status \in {"none", "dangling"}
              => requests[q].hashes = {}
        BY <1>0 DEF FetchInv
      <4> HIDE DEF ann, annd, fet, alt, req, owed
      <4> QED
        BY <1>5, <3>3, <4>1, <4>2 DEF FetchInv
    <3>5. FetchType(ann, annd, fetching, requests, alternates)
      <4> HIDE DEF ann, annd, fet, alt, req, owed
      <4> QED
        BY <1>0, <1>4 DEF FetchType
    <3>6. timeoutTimer \in BOOLEAN /\ panicked = FALSE
      BY <1>0 DEF TimersOK
    <3> HIDE DEF ann, annd, fet, alt, req, owed
    <3> QED
      BY <2>2, <3>3, <3>4, <3>5, <3>6
  <2> QED
    BY Zenon, <2>1, <2>2 DEF Drop
<1>7. TimersOK'
  BY <1>0, <1>1, <1>6 DEF TimersOK
<1>8. \A h \in Hashes :
        waitlist'[h] # {} => h \notin InFlight(announced', fetching')
  <2>1. \A h \in Hashes :
          h \in InFlight(annd, fet) => h \in InFlight(announced, fetching)
    <3> HIDE DEF owed
    <3> QED
      BY <1>2 DEF InFlight, Cleared
  <2>2. \A h \in Hashes : waitlist'[h] # {} => waitlist[h] # {}
    BY <1>1
  <2> HIDE DEF annd, fet
  <2> QED
    BY <2>1, <2>2, <1>0, <1>6 DEF InFlight
<1> QED
  BY Zenon, <1>3, <1>6, <1>7, <1>8, Assemble

(***************************************************************************)
(* The clock and the timers.                                               *)
(***************************************************************************)
LEMMA ClockKeeps ==
  ASSUME IInv,
         \/ \E h \in Hashes : WaitExpires(h)
         \/ \E p \in Peers : RequestExpires(p)
         \/ WaitTimerFires
         \/ TimeoutTimerFires
  PROVE  IInv'
<1>0. /\ WaitOK /\ TimersOK /\ panicked = FALSE
      /\ FetchType(announces, announced, fetching, requests, alternates)
      /\ FetchInv(announces, announced, fetching, requests, alternates)
      /\ \A h \in Hashes : waitlist[h] # {} => h \notin InFlight(announced, fetching)
  BY Split
<1>1. ASSUME NEW h \in Hashes, WaitExpires(h) PROVE IInv'
  <2>1. WaitOK'
    BY <1>0, <1>1 DEF WaitOK, WaitViewsAgree, WaitExpires
  <2>2. /\ UNCHANGED <<waitlist, announces, announced, fetching, requests,
                       alternates, panicked>>
        /\ UNCHANGED <<waitTimer, waitTrigger, timeoutTimer, timeoutTrigger>>
    BY <1>1 DEF WaitExpires, fetchVars, timerVars
  <2>3. TimersOK'
    BY <1>0, <2>2 DEF TimersOK
  <2> QED
    BY Zenon, <1>0, <2>1, <2>2, <2>3, Assemble
<1>2. ASSUME NEW p \in Peers, RequestExpires(p) PROVE IInv'
  <2>1. /\ requests' \in [Peers -> Request]
        /\ \A q \in Peers : /\ requests'[q].hashes = requests[q].hashes
                            /\ requests'[q].stolen = requests[q].stolen
        /\ \A q \in Peers : requests'[q].status # requests[q].status =>
             requests'[q].status = "overdue"
    BY <1>0, <1>2 DEF RequestExpires, FetchType, Request
  <2>2. /\ UNCHANGED <<waitlist, waittime, waitslots, announces, announced,
                       fetching, alternates, panicked>>
        /\ UNCHANGED <<waitTimer, waitTrigger, timeoutTimer, timeoutTrigger>>
    BY <1>2 DEF RequestExpires, waitVars, timerVars
  <2>3. FetchType(announces', announced', fetching', requests', alternates')
    BY <1>0, <2>1, <2>2 DEF FetchType
  <2>4. FetchInv(announces', announced', fetching', requests', alternates')
    <3>1. \A q \in Peers : Owed(requests', q) = Owed(requests, q)
      BY <2>1 DEF Owed
    <3>2. \A q \in Peers : requests'[q].status \in {"none", "dangling"}
            => requests'[q].hashes = {}
      BY Zenon, <1>0, <2>1 DEF FetchInv
    <3> QED
      BY Zenon, <1>0, <2>2, <3>1, <3>2 DEF FetchInv
  <2>5. WaitOK' /\ TimersOK'
    BY <1>0, <2>2 DEF WaitOK, WaitViewsAgree, TimersOK
  <2> QED
    BY Zenon, <1>0, <2>2, <2>3, <2>4, <2>5, Assemble
<1>3. ASSUME WaitTimerFires \/ TimeoutTimerFires PROVE IInv'
  <2>1. UNCHANGED <<waitlist, waittime, waitslots, announces, announced,
                    fetching, requests, alternates, panicked>>
    BY <1>3 DEF WaitTimerFires, TimeoutTimerFires, waitVars, fetchVars
  <2>2. TimersOK'
    BY Zenon, <1>0, <1>3 DEF WaitTimerFires, TimeoutTimerFires, TimersOK
  <2>3. WaitOK'
    BY <1>0, <2>1 DEF WaitOK, WaitViewsAgree
  <2> QED
    BY Zenon, <1>0, <2>1, <2>2, <2>3, Assemble
<1> QED
  BY <1>1, <1>2, <1>3

-----------------------------------------------------------------------------
(***************************************************************************)
(* IInv is an invariant: it holds initially and every case of the event    *)
(* loop, and the clock, keep it.                                           *)
(***************************************************************************)
THEOREM Invariance == Spec => []IInv
<1>1. Init => IInv
  BY InitEstablishes
<1>2. IInv /\ [Next]_vars => IInv'
  <2> SUFFICES ASSUME IInv, [Next]_vars PROVE IInv'
    OBVIOUS
  <2>1. ASSUME NEW p \in Peers, NEW S \in (SUBSET Hashes) \ {{}}, Notify(p, S)
        PROVE  IInv'
    BY <2>1, NotifyKeeps
  <2>2. CASE WaitTrigger
    BY <2>2, WaitTriggerKeeps
  <2>3. CASE TimeoutTrigger
    BY <2>3, TimeoutTriggerKeeps
  <2>4. ASSUME NEW p \in Peers, NEW S \in SUBSET Hashes, Broadcast(p, S)
        PROVE  IInv'
    <3>1. CleanUp(p, S, FALSE)
      BY Zenon, <2>4 DEF Broadcast
    <3> QED
      BY Zenon, <3>1, CleanUpKeeps
  <2>5. ASSUME NEW p \in Peers, NEW S \in SUBSET Hashes, UnexpectedReply(p, S)
        PROVE  IInv'
    <3>1. CleanUp(p, S, TRUE) /\ requests[p].status = "none"
      BY Zenon, <2>5 DEF UnexpectedReply
    <3> QED
      BY Zenon, <3>1, CleanUpKeeps
  <2>6. ASSUME NEW p \in Peers, NEW S \in SUBSET Hashes, Reply(p, S)
        PROVE  IInv'
    BY <2>6, ReplyKeeps
  <2>7. ASSUME NEW p \in Peers, Drop(p) PROVE IInv'
    BY <2>7, DropKeeps
  <2>8. CASE \/ \E h \in Hashes : WaitExpires(h)
             \/ \E p \in Peers : RequestExpires(p)
             \/ WaitTimerFires
             \/ TimeoutTimerFires
    BY <2>8, ClockKeeps
  <2>9. CASE UNCHANGED vars
    <3>0. UNCHANGED <<waitlist, waittime, waitslots, announces, announced,
                      fetching, requests, alternates, waitTimer, waitTrigger,
                      timeoutTimer, timeoutTrigger, panicked>>
      BY <2>9 DEF vars, waitVars, fetchVars, timerVars
    <3>1. TypeOK'
      BY <3>0 DEF IInv, TypeOK
    <3>2. OneStage' /\ FetchingHasAlternates' /\ NoPanic'
      BY <3>0 DEF IInv, OneStage, FetchingHasAlternates, NoPanic
    <3>3. FetchingIsOwed' /\ RequestShape'
      BY <3>0 DEF IInv, FetchingIsOwed, RequestShape
    <3>4. WaitViewsAgree' /\ AnnouncesTracked'
      BY <3>0 DEF IInv, WaitViewsAgree, AnnouncesTracked
    <3> QED
      BY <3>1, <3>2, <3>3, <3>4 DEF IInv
  <2> QED
    BY <2>1, <2>2, <2>3, <2>4, <2>5, <2>6, <2>7, <2>8, <2>9 DEF Next
<1> QED
  BY <1>1, <1>2, PTL DEF Spec

(***************************************************************************)
(* Every variable keeps its type.                                          *)
(***************************************************************************)
THEOREM TypeCorrect == Spec => []TypeOK
<1>1. IInv => TypeOK
  BY DEF IInv
<1> QED
  BY <1>1, Invariance, PTL

(***************************************************************************)
(* Whatever peers announce, deliver and drop, in any order, the loop never *)
(* reaches a panic or the dereference of a missing request.                *)
(***************************************************************************)
THEOREM NeverPanics == Spec => []NoPanic
<1>1. IInv => NoPanic
  BY DEF IInv
<1> QED
  BY <1>1, Invariance, PTL

(***************************************************************************)
(* A hash is in one stage at a time: waiting for a broadcast, queued, or   *)
(* being fetched.                                                          *)
(***************************************************************************)
THEOREM StagesExclusive == Spec => []OneStage
<1>1. IInv => OneStage
  BY DEF IInv
<1> QED
  BY <1>1, Invariance, PTL

(***************************************************************************)
(* A hash is in the last stage exactly when one in-flight request owes it. *)
(***************************************************************************)
THEOREM FetchesOwed == Spec => []FetchingIsOwed
<1>1. IInv => FetchingIsOwed
  BY DEF IInv
<1> QED
  BY <1>1, Invariance, PTL

(***************************************************************************)
(* No announcement is charged to a peer without being schedulable.         *)
(***************************************************************************)
THEOREM AnnouncementsUsable == Spec => []AnnouncesTracked
<1>1. IInv => AnnouncesTracked
  BY DEF IInv
<1> QED
  BY <1>1, Invariance, PTL
=============================================================================
