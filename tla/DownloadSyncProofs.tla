------------------------- MODULE DownloadSyncProofs -------------------------
(***************************************************************************)
(* Further proofs about DownloadQueue: what Results hands out, who is      *)
(* busy, and how the sync ends.                                            *)
(***************************************************************************)
EXTENDS DownloadQueueProofs

-----------------------------------------------------------------------------
(* What Results hands out                                                  *)

\* Signal moves a waiting consumer on, and changes nothing else of it.
LEMMA SignalFacts ==
  ASSUME NEW r \in Consumers, NEW wanted \in BOOLEAN
  PROVE  /\ Signal(r, wanted) \in Consumers
         /\ Signal(r, wanted).got = r.got
         /\ Signal(r, wanted).at = IF wanted /\ r.at = "waiting" THEN "woken" ELSE r.at
  BY Zenon DEF Signal, Consumers

\* An answer completes results, and takes none away; if it completes one, the
\* consumer does not stay waiting.
LEMMA DeliverStore ==
  ASSUME QInv, results \in Consumers, NEW k \in Kinds, NEW msg, NEW good, NEW bad,
         Deliver(k, msg, good, bad)
  PROVE  /\ results' \in Consumers /\ results'.got = results.got
         /\ store'.offset = store.offset
         /\ HasCompletedItems(store) => HasCompletedItems(store')
         /\ HasCompletedItems(store') => HasCompletedItems(store) \/ results'.at # "waiting"
         /\ results'.at \in {results.at, "woken"}
<1>1. CASE msg.peer \notin peers \/ pend[k][msg.peer] = {}
  BY Zenon, <1>1 DEF Deliver
<1>2. CASE msg.peer \in peers /\ pend[k][msg.peer] # {}
  <2> DEFINE p == msg.peer
             accepted == AcceptedItems(pend[k][p], good)
             t == Reconstruct(k, accepted)
             wanted == accepted # {}
  <2>1. store' = t /\ results' = Signal(results, wanted)
    BY Zenon, <1>2 DEF Deliver
  <2>2. p \in Peers /\ accepted \in SUBSET pend[k][p]
    BY Zenon, <1>2 DEF QInv, TypeOK, AcceptedItems
  <2>d. t = Reconstruct(k, accepted) /\ (~wanted => accepted = {})
    BY Zenon
  <2>b. wanted \in BOOLEAN
    BY Zenon
  <2> HIDE DEF p, accepted, t, wanted
  <2>3. /\ accepted \in SUBSET Headers /\ StoreOK(store)
        /\ \A h \in accepted : Index(store, h) \in 0..(CacheSize - 1) /\ Slot(store, h) # None
    BY <2>2 DEF QInv, TypeOK, KInv, Slotted
  <2>4. /\ t.offset = store.offset
        /\ \A i \in 1..CacheSize :
             /\ t.items[i] = None <=> store.items[i] = None
             /\ (store.offset + i) - 1 \notin accepted => t.items[i] = store.items[i]
             /\ (store.offset + i) - 1 \in accepted => t.items[i].pending = store.items[i].pending \ {k}
    BY <2>3, <2>d, DoneFacts
  <2>5. 1 \in 1..CacheSize
    BY Constants
  <2>6. HasCompletedItems(store) => HasCompletedItems(t)
    BY Zenon, <2>4, <2>5 DEF HasCompletedItems, AllDone
  <2>7. ~wanted => (HasCompletedItems(t) => HasCompletedItems(store))
    BY Zenon, <2>4, <2>5, <2>d DEF HasCompletedItems, AllDone
  <2>8. /\ results' \in Consumers /\ results'.got = results.got
        /\ results'.at = IF wanted /\ results.at = "waiting" THEN "woken" ELSE results.at
    BY Zenon, <2>1, <2>b, SignalFacts
  <2> QED
    BY Zenon, <2>1, <2>4, <2>6, <2>7, <2>8
<1> QED
  BY Zenon, <1>1, <1>2

\* A reservation creates results, some of them complete, and takes none away.
LEMMA AssignStore ==
  ASSUME QInv, results \in Consumers, NEW k \in Kinds, NEW p, NEW count \in Counts, Assign(k, p, count)
  PROVE  /\ results' \in Consumers /\ results'.got = results.got
         /\ store'.offset = store.offset
         /\ HasCompletedItems(store) => HasCompletedItems(store')
         /\ HasCompletedItems(store') => HasCompletedItems(store) \/ results'.at # "waiting"
         /\ results'.at \in {results.at, "woken"}
<1> DEFINE r == reserveHeaders(k, p, count)
           rest == Asking(k, p, r.send)
           empty == Queued(tasks[k]) = {} \/ pend[k][p] # {}
           t == r.store
           wanted == Queued(tasks[k]) # {} /\ pend[k][p] = {} /\ HasCompletedItems(t)
<1>1. Reserved(k, p, r) /\ p \in fetcher[k].todo
  BY Zenon DEF Assign
<1>2. p \in Peers /\ count \in Nat
  BY Zenon, <1>1, DownloadQueueAssumption DEF QInv, TypeOK, Fetchers
<1>3. store' = t /\ results' = Signal(results, wanted)
  BY Zenon, <1>1 DEF Reserved
<1>4. empty => t = store
  BY Zenon DEF reserveHeaders
<1>5. wanted <=> ~empty /\ HasCompletedItems(t)
  BY Zenon
<1>d. r = reserveHeaders(k, p, count) /\ rest = Asking(k, p, r.send) /\ t = r.store
  BY Zenon
<1>b. wanted \in BOOLEAN
  BY Zenon
<1> HIDE DEF r, rest, empty, wanted
<1>6. /\ r.store.offset = store.offset
      /\ \A i \in 1..CacheSize : store.items[i] # None => r.store.items[i] = store.items[i]
  BY <1>2, <1>d, ReserveFacts
<1>7. t.offset = store.offset /\ (store.items[1] # None => t.items[1] = store.items[1])
  BY <1>6, Constants
<1> HIDE DEF t
<1>8. HasCompletedItems(store) => HasCompletedItems(t)
  BY Zenon, <1>7 DEF HasCompletedItems, AllDone
<1>9. /\ results' \in Consumers /\ results'.got = results.got
      /\ results'.at = IF wanted /\ results.at = "waiting" THEN "woken" ELSE results.at
  BY Zenon, <1>3, <1>b, SignalFacts
<1> QED
  BY Zenon, <1>3, <1>4, <1>5, <1>7, <1>8, <1>9

\* What any other step than taking results does to them.
LEMMA ConsumerStep ==
  ASSUME QInv, results \in Consumers, [Next]_vars, ~TakeAny
  PROVE  /\ results' \in Consumers /\ results'.got = results.got
         /\ store'.offset = store.offset
         /\ HasCompletedItems(store) => HasCompletedItems(store')
         /\ HasCompletedItems(store') => HasCompletedItems(store) \/ results'.at # "waiting"
<1> DEFINE Goal == /\ results' \in Consumers /\ results'.got = results.got
                   /\ store'.offset = store.offset
                   /\ HasCompletedItems(store) => HasCompletedItems(store')
                   /\ HasCompletedItems(store') => HasCompletedItems(store) \/ results'.at # "waiting"
<1> SUFFICES Goal
  BY Zenon
<1>1. ASSUME UNCHANGED <<results, store>> PROVE Goal
  BY Zenon, <1>1
<1>2. ASSUME NEW at \in {"check", "lock", "waiting", "woken", "take"},
             results' = [results EXCEPT !.at = at], UNCHANGED store
      PROVE  Goal
  BY Zenon, <1>2 DEF Consumers
<1>3. CASE UNCHANGED vars
  BY Zenon, <1>1, <1>3 DEF vars
<1>4. CASE CheckResults \/ LockResults \/ Woken
  BY Zenon, <1>2, <1>4 DEF CheckResults, LockResults, Woken
<1>5. CASE CloseQueue
  <2>1. results' = Signal(results, TRUE) /\ UNCHANGED store
    BY Zenon, <1>5 DEF CloseQueue
  <2> QED
    BY Zenon, <2>1, SignalFacts
<1>6. CASE \/ ProcessHeaders \/ CancelHeaders
           \/ \E k \in Kinds : EndHeaders(k) \/ CancelFetch(k) \/ Wake(k) \/ Drained(k)
  BY Zenon, <1>1, <1>6 DEF ProcessHeaders, ProcessChunk, CancelHeaders, EndHeaders, CancelFetch, Wake, Drained
<1>7. ASSUME NEW k \in Kinds, DeliverAny(k) PROVE Goal
  BY Zenon, <1>7, DeliverStore DEF DeliverAny
<1>8. ASSUME NEW k \in Kinds, NEW E \in SUBSET InFlight(k), NEW D \in SUBSET E, Update(k, E, D) PROVE Goal
  BY Zenon, <1>1, <1>8 DEF Update
<1>9. ASSUME NEW k \in Kinds, NEW p \in fetcher[k].todo, NEW n \in Counts, Assign(k, p, n) PROVE Goal
  BY Zenon, <1>9, AssignStore
<1>10. ASSUME NEW p, Unregister(p) \/ Revoke(p) PROVE Goal
  BY Zenon, <1>1, <1>10 DEF Unregister, Revoke
<1> HIDE DEF Goal
<1> QED
  BY Zenon, <1>3, <1>4, <1>5, <1>6, <1>7, <1>8, <1>9, <1>10 DEF Next

\* Taking results hands out the next blocks, complete; with none to take, the
\* consumer is done.
LEMMA TakeGot ==
  ASSUME QInv, RInv, NEW threshold \in Thresholds, NEW c \in 0..CacheSize, TakeResults(threshold, c)
  PROVE  RInv' /\ results'.at \in {"check", "done"} /\ (results'.at = "done" => ~HasCompletedItems(store'))
<1> DEFINE o == store.offset
           items == store.items
           n == Min({MaxResults, c})
           t == SetThrottleThreshold(GetCompleted(store, c, MaxResults), threshold)
           got == results.got
           more == SubSeq(items, 1, n)
<1>c. CacheSize \in Nat /\ CacheSize >= 1 /\ None \notin Results /\ Len(Needs) \in Nat /\ Headers = 1..Len(Needs)
  BY Zenon, Constants
<1>1. StoreOK(store) /\ threshold \in Nat \ {0} /\ countCompleted(store, c)
  BY Zenon, DownloadQueueAssumption DEF QInv, TakeResults
<1>2. /\ o \in Nat /\ items \in [1..CacheSize -> Results \cup {None}]
      /\ \A i \in 1..CacheSize : items[i] # None => items[i].header = (o + i) - 1
  BY Zenon, <1>1 DEF StoreOK, Stores
<1>3. got \in Seq(Results) /\ Len(got) = o - 1 /\ \A i \in DOMAIN got : got[i] = [header |-> i, pending |-> {}]
  BY Zenon DEF RInv, InOrder, Consumers
<1>4. c \in Nat /\ c <= CacheSize /\ (\A i \in 1..c : AllDone(items[i])) /\ (c < CacheSize => ~AllDone(items[c + 1]))
  BY Zenon, <1>1, CountFacts
<1>5. /\ n \in Nat /\ n <= c /\ n <= CacheSize /\ (n = 0 <=> c = 0)
      /\ GetCompleted(store, c, MaxResults).offset = o + n /\ t.offset = o + n
      /\ \A i \in 1..CacheSize : t.items[i] = IF i + n <= CacheSize THEN items[i + n] ELSE None
  <2> DEFINE m == n
             u == t
  <2>1. m = Min({MaxResults, c}) /\ u = SetThrottleThreshold(GetCompleted(store, c, MaxResults), threshold)
    BY Zenon
  <2> HIDE DEF m, u
  <2>2. /\ m \in Nat /\ m <= c /\ m <= CacheSize /\ (m = 0 <=> c = 0)
        /\ GetCompleted(store, c, MaxResults).offset = store.offset + m /\ u.offset = store.offset + m
        /\ \A i \in 1..CacheSize : u.items[i] = IF i + m <= CacheSize THEN store.items[i + m] ELSE None
    BY <1>1, <2>1, TakeFacts
  <2> QED
    BY Zenon, <2>2 DEF m, u
<1>6. store' = t /\ results' = [at |-> IF n = 0 THEN "done" ELSE "check", got |-> got \o more]
  <2>1. GetCompleted(store, c, MaxResults).offset - store.offset = n
    <3> HIDE DEF n
    <3> QED
      BY <1>2, <1>5
  <2>2. /\ store' = SetThrottleThreshold(GetCompleted(store, c, MaxResults), threshold)
        /\ results' = [at |-> IF GetCompleted(store, c, MaxResults).offset - store.offset = 0 THEN "done" ELSE "check",
                       got |-> results.got \o SubSeq(store.items, 1, GetCompleted(store, c, MaxResults).offset - store.offset)]
    BY Zenon DEF TakeResults
  <2> QED
    BY Zenon, <2>1, <2>2
<1> HIDE DEF n, t, o, items, got
<1>7. \A i \in 1..n : items[i] \in Results
  BY <1>2, <1>4, <1>5, <1>c DEF AllDone
<1>8. \A i \in 1..n : items[i] = [header |-> (o + i) - 1, pending |-> {}]
  <2> TAKE i \in 1..n
  <2>1. i \in 1..CacheSize /\ i \in 1..c
    BY <1>4, <1>5, <1>c
  <2>2. items[i] # None /\ items[i].pending = {}
    BY Zenon, <1>4, <2>1 DEF AllDone
  <2>3. items[i] \in Results /\ items[i].header = (o + i) - 1
    BY Zenon, <1>2, <2>1, <2>2
  <2> DEFINE it == items[i]
             hd == (o + i) - 1
  <2>4. it \in Results /\ it.header = hd /\ it.pending = {}
    BY Zenon, <2>2, <2>3
  <2> HIDE DEF it, hd
  <2>5. it = [header |-> hd, pending |-> {}]
    BY Zenon, <2>4 DEF Results
  <2> QED
    BY Zenon, <2>5 DEF it, hd
<1> DEFINE all == got \o more
<1>d. all = got \o SubSeq(items, 1, n)
  BY Zenon
<1>l. got \in Seq(Results) /\ Len(got) = o - 1 /\ n \in Nat
  BY Zenon, <1>3, <1>5
<1> HIDE DEF all
<1>9. /\ all \in Seq(Results) /\ Len(all) = Len(got) + n
      /\ \A i \in 1..(Len(got) + n) : all[i] = IF i <= Len(got) THEN got[i] ELSE items[i - Len(got)]
  BY <1>7, <1>d, <1>l, HandedOut
<1>10. ASSUME NEW i \in 1..(Len(got) + n)
       PROVE  all[i] = [header |-> i, pending |-> {}]
  <2>1. CASE i <= Len(got)
    <3>1. i \in DOMAIN got
      BY <1>l, <2>1
    <3> QED
      BY Zenon, <1>3, <1>9, <2>1, <3>1
  <2>2. CASE ~(i <= Len(got))
    <3> DEFINE j == i - Len(got)
    <3>1. j \in 1..n /\ (o + j) - 1 = i
      BY <1>2, <1>l, <2>2
    <3>2. all[i] = items[j]
      BY Zenon, <1>9, <2>2
    <3> HIDE DEF j
    <3> QED
      BY Zenon, <1>8, <3>1, <3>2
  <2> QED
    BY Zenon, <2>1, <2>2
<1>a. results' = [at |-> IF n = 0 THEN "done" ELSE "check", got |-> all]
  BY Zenon, <1>6 DEF all
<1>11. results'.at = (IF n = 0 THEN "done" ELSE "check") /\ results'.got = all /\ results' \in Consumers
  BY Zenon, <1>9, <1>a DEF Consumers
<1>12. Len(results'.got) = store'.offset - 1
  <2>1. store'.offset = o + n /\ Len(results'.got) = (o - 1) + n
    BY Zenon, <1>5, <1>6, <1>9, <1>11, <1>l
  <2> QED
    BY <1>2, <1>5, <2>1
<1>13. InOrder'
  <2>1. DOMAIN results'.got = 1..(Len(got) + n)
    BY <1>9, <1>11
  <2> QED
    BY Zenon, <1>10, <1>11, <2>1 DEF InOrder
<1>14. n = 0 => ~HasCompletedItems(store')
  <2> HAVE n = 0
  <2>1. ~AllDone(items[1]) /\ 1 + n <= CacheSize /\ 1 + n = 1
    BY <1>4, <1>5, <1>c
  <2>2. t.items[1] = items[1]
    BY <1>5, <1>c, <2>1
  <2> QED
    BY Zenon, <1>6, <2>1, <2>2 DEF HasCompletedItems
<1> QED
  BY Zenon, <1>11, <1>12, <1>13, <1>14 DEF RInv

\* What was handed out, at the start and at every step.
LEMMA ResultsInit == Init => RInv
  BY DEF Init, RInv, Consumers, InOrder

LEMMA ResultsStep == QInv /\ RInv /\ [Next]_vars => RInv'
<1> SUFFICES ASSUME QInv, RInv, [Next]_vars PROVE RInv'
  BY Zenon
<1>1. CASE TakeAny
  BY Zenon, <1>1, TakeGot DEF TakeAny
<1>2. CASE ~TakeAny
  <2>1. results \in Consumers
    BY Zenon DEF RInv
  <2>2. results' \in Consumers /\ results'.got = results.got /\ store'.offset = store.offset
    BY Zenon, <1>2, <2>1, ConsumerStep
  <2> QED
    BY Zenon, <2>2 DEF RInv, InOrder
<1> QED
  BY Zenon, <1>1, <1>2

\* Results has handed out the blocks up to the offset of the store, complete.
THEOREM ResultsInvariance == Spec => []RInv
  BY ResultsInit, ResultsStep, QueueInvariance, PTL DEF Spec

\* Results hands out every block once, in order and complete.
THEOREM HandedOutInOrder == Spec => []InOrder
<1>1. RInv => InOrder
  BY Zenon DEF RInv
<1> QED
  BY <1>1, ResultsInvariance, PTL

\* Nobody waits in Results while there is something to take, or once the queue
\* is closed: every step that makes it so signals.
THEOREM WakeupsNotLost == Spec => []NoLostWakeup
<1>1. Init => NoLostWakeup
  BY DEF Init, NoLostWakeup
<1>2. QInv /\ RInv /\ NoLostWakeup /\ [Next]_vars => NoLostWakeup'
  <2> SUFFICES ASSUME QInv, RInv, NoLostWakeup, [Next]_vars PROVE NoLostWakeup'
    BY Zenon
  <2>0. results \in Consumers
    BY Zenon DEF RInv
  <2>1. CASE TakeAny
    <3>1. results'.at \in {"check", "done"}
      BY Zenon, <2>1, TakeGot DEF TakeAny
    <3> QED
      BY Zenon, <3>1 DEF NoLostWakeup
  <2>2. CASE CheckResults \/ LockResults \/ Woken
    BY Zenon, <2>0, <2>2 DEF CheckResults, LockResults, Woken, NoLostWakeup, Consumers
  <2>3. CASE CloseQueue
    <3>1. results'.at # "waiting"
      BY Zenon, <2>0, <2>3, SignalFacts DEF CloseQueue
    <3> QED
      BY Zenon, <3>1 DEF NoLostWakeup
  <2>4. ASSUME NEW k \in Kinds, NEW msg, NEW good, NEW bad, Deliver(k, msg, good, bad)
        PROVE  NoLostWakeup'
    <3>1. /\ HasCompletedItems(store') => HasCompletedItems(store) \/ results'.at # "waiting"
          /\ results'.at \in {results.at, "woken"}
      BY Zenon, <2>0, <2>4, DeliverStore
    <3>2. closed' = closed
      BY Zenon, <2>4 DEF Deliver
    <3> QED
      BY Zenon, <3>1, <3>2 DEF NoLostWakeup
  <2>5. ASSUME NEW k \in Kinds, NEW p, NEW n \in Counts, Assign(k, p, n)
        PROVE  NoLostWakeup'
    <3>1. /\ HasCompletedItems(store') => HasCompletedItems(store) \/ results'.at # "waiting"
          /\ results'.at \in {results.at, "woken"}
      BY Zenon, <2>0, <2>5, AssignStore
    <3>2. closed' = closed
      BY Zenon, <2>5 DEF Assign, Reserved
    <3> QED
      BY Zenon, <3>1, <3>2 DEF NoLostWakeup
  <2>6. CASE UNCHANGED <<results, store, closed>>
    BY Zenon, <2>6 DEF NoLostWakeup
  <2>7. CASE UNCHANGED vars
    BY Zenon, <2>6, <2>7 DEF vars
  <2>8. CASE \/ ProcessHeaders \/ CancelHeaders
             \/ \E k \in Kinds : EndHeaders(k) \/ CancelFetch(k) \/ Wake(k) \/ Drained(k)
    BY Zenon, <2>6, <2>8 DEF ProcessHeaders, ProcessChunk, CancelHeaders, EndHeaders, CancelFetch, Wake, Drained
  <2>9. ASSUME NEW k \in Kinds, NEW E, NEW D, Update(k, E, D) PROVE NoLostWakeup'
    BY Zenon, <2>6, <2>9 DEF Update
  <2>10. ASSUME NEW p, Unregister(p) \/ Revoke(p) PROVE NoLostWakeup'
    BY Zenon, <2>6, <2>10 DEF Unregister, Revoke
  <2>11. ASSUME NEW k \in Kinds, DeliverAny(k) PROVE NoLostWakeup'
    BY Zenon, <2>4, <2>11 DEF DeliverAny
  <2> QED
    BY Zenon, <2>1, <2>2, <2>3, <2>5, <2>7, <2>8, <2>9, <2>10, <2>11 DEF Next
<1> QED
  BY <1>1, <1>2, QueueInvariance, ResultsInvariance, PTL DEF Spec

-----------------------------------------------------------------------------
(* Busy peers                                                              *)

\* The first part of a round: a peer whose request timed out is set idle or
\* dropped, unless the fetcher returns an error.
LEMMA UpdateBusy ==
  ASSUME QInv, BInv, NEW k \in Kinds, NEW E \in SUBSET InFlight(k), NEW D \in SUBSET E, Update(k, E, D)
  PROVE  BInv'
<1> DEFINE slow == {p \in D \cap peers : Cardinality(pend[k][p]) > MinFetch}
           stall == (D \cap peers) \ slow
<1>1. /\ busy' = [busy EXCEPT ![k] = busy[k] \ slow]
      /\ dropped' = dropped \cup stall
      /\ pend' = [pend EXCEPT ![k] = Unpend(pend[k], E)]
      /\ D = E \/ Master \in stall
      /\ UNCHANGED <<peers, revoking>>
  BY Zenon DEF Update
<1>2. Master \in stall => failed'
  <2> HAVE Master \in stall
  <2> DEFINE next == [Rest(k) EXCEPT !.at = "done"]
  <2>1. failed' = (failed \/ next.at = "done")
    BY Zenon DEF Update
  <2>2. next.at = "done"
    BY Zenon, RestType DEF QInv, TypeOK, Fetching
  <2> HIDE DEF next
  <2> QED
    BY Zenon, <2>1, <2>2
<1>3. failed => failed'
  BY Zenon DEF Update
<1>t. /\ busy \in [Kinds -> SUBSET Peers] /\ revoking \in SUBSET Peers /\ revoking \cap peers = {}
      /\ pend \in [Kinds -> [Peers -> SUBSET Headers]] /\ E \in SUBSET Peers /\ peers \in SUBSET Peers
  BY Zenon DEF QInv, BInv, TypeOK, InFlight
<1>s. D \cap peers = slow \cup stall
  BY Zenon
<1> HIDE DEF slow, stall
<1>4. ASSUME ~failed', NEW j \in Kinds, NEW p \in busy'[j] \cap peers'
      PROVE  pend'[j][p] # {} \/ p \in dropped'
  <2>1. p \in busy[j] /\ p \in peers /\ (j = k => p \notin slow)
    BY Zenon, <1>1, <1>4, <1>t
  <2>2. pend[j][p] # {} \/ p \in dropped
    BY Zenon, <1>3, <1>4, <2>1 DEF BInv, BusyHasRequest
  <2>3. CASE j = k /\ p \in E
    <3>1. p \in stall
      BY Zenon, <1>1, <1>2, <1>4, <1>s, <2>1, <2>3
    <3> QED
      BY Zenon, <1>1, <3>1
  <2>4. CASE ~(j = k /\ p \in E)
    <3>1. pend'[j][p] = pend[j][p]
      BY Zenon, <1>1, <1>t, <2>1, <2>4 DEF Unpend
    <3> QED
      BY Zenon, <1>1, <2>2, <3>1
  <2> QED
    BY Zenon, <2>3, <2>4
<1>5. busy' \in [Kinds -> SUBSET Peers] /\ revoking' \in SUBSET Peers /\ revoking' \cap peers' = {}
  BY Zenon, <1>1, <1>t
<1> QED
  BY Zenon, <1>4, <1>5 DEF BInv, BusyHasRequest

\* Busy peers, at the start and at every step.
LEMMA BusyInit == Init => BInv
  BY Zenon DEF Init, BInv, BusyHasRequest

LEMMA BusyStep == QInv /\ BInv /\ [Next]_vars => BInv'
<1> SUFFICES ASSUME QInv, BInv, [Next]_vars PROVE BInv'
  BY Zenon
<1>t. /\ busy \in [Kinds -> SUBSET Peers] /\ revoking \in SUBSET Peers /\ revoking \cap peers = {}
      /\ pend \in [Kinds -> [Peers -> SUBSET Headers]] /\ peers \in SUBSET Peers
  BY Zenon DEF QInv, BInv, TypeOK
<1>b. ~failed => \A k \in Kinds : \A p \in busy[k] \cap peers : pend[k][p] # {} \/ p \in dropped
  BY Zenon DEF BInv, BusyHasRequest
<1>1. ASSUME UNCHANGED <<pend, busy, peers, dropped, revoking>>, failed => failed' PROVE BInv'
  BY Zenon, <1>1 DEF BInv, BusyHasRequest
<1>2. CASE UNCHANGED vars
  BY Zenon, <1>1, <1>2 DEF vars
<1>3. CASE CheckResults \/ LockResults \/ Woken \/ TakeAny
  BY Zenon, <1>1, <1>3 DEF CheckResults, LockResults, Woken, TakeAny, TakeResults, queueVars, syncVars, peerVars
<1>4. CASE ProcessHeaders \/ CancelHeaders \/ CloseQueue \/ \E k \in Kinds : EndHeaders(k)
  BY Zenon, <1>1, <1>4 DEF ProcessHeaders, ProcessChunk, CancelHeaders, CloseQueue, EndHeaders, queueVars, peerVars
<1>5. CASE \E k \in Kinds : CancelFetch(k) \/ Wake(k) \/ Drained(k)
  BY <1>1, <1>5 DEF CancelFetch, Wake, Drained, queueVars, syncVars, peerVars
<1>6. ASSUME NEW k \in Kinds, NEW msg, NEW good, NEW bad, Deliver(k, msg, good, bad) PROVE BInv'
  <2> DEFINE p == msg.peer
  <2>0. UNCHANGED <<failed, peers, dropped, revoking>>
    BY Zenon, <1>6 DEF Deliver, syncVars
  <2>1. CASE p \notin peers
    BY Zenon, <1>1, <1>6, <2>0, <2>1 DEF Deliver, queueVars
  <2>2. CASE p \in peers
    <3>1. busy' = [busy EXCEPT ![k] = busy[k] \ {p}]
      BY Zenon, <1>6, <2>2 DEF Deliver, SetsIdle
    <3>2. pend' = pend \/ pend' = [pend EXCEPT ![k] = Unpend(pend[k], {p})]
      BY Zenon, <1>6, <2>2 DEF Deliver, queueVars
    <3> HIDE DEF p
    <3>3. \A j \in Kinds : \A q \in busy'[j] : q \in busy[j] /\ (j = k => q # p)
      BY Zenon, <1>t, <3>1
    <3>4. \A j \in Kinds, q \in Peers : (j = k => q # p) => pend'[j][q] = pend[j][q]
      BY <1>t, <3>2 DEF Unpend
    <3>5. busy' \in [Kinds -> SUBSET Peers]
      BY Zenon, <1>t, <3>1
    <3> QED
      BY <1>b, <1>t, <2>0, <3>3, <3>4, <3>5 DEF BInv, BusyHasRequest
  <2> QED
    BY Zenon, <2>1, <2>2
<1>7. ASSUME NEW k \in Kinds, DeliverAny(k) PROVE BInv'
  BY Zenon, <1>6, <1>7 DEF DeliverAny
<1>8. ASSUME NEW k \in Kinds, NEW E \in SUBSET InFlight(k), NEW D \in SUBSET E, Update(k, E, D) PROVE BInv'
  BY Zenon, <1>8, UpdateBusy
<1>9. ASSUME NEW k \in Kinds, NEW p \in fetcher[k].todo, NEW n \in Counts, Assign(k, p, n) PROVE BInv'
  <2> DEFINE r == reserveHeaders(k, p, n)
             send == r.send
  <2>1. Reserved(k, p, r) /\ p \in Peers
    BY Zenon, <1>9 DEF Assign, QInv, TypeOK, Fetchers
  <2> HIDE DEF r
  <2>2. UNCHANGED <<peers, dropped, revoking>> /\ (failed => failed')
    BY Zenon, <2>1 DEF Reserved
  <2>3. CASE send = {}
    BY Zenon, <1>1, <2>1, <2>2, <2>3 DEF Reserved
  <2>4. CASE send # {}
    <3>1. pend' = [pend EXCEPT ![k][p] = send] /\ busy' = [busy EXCEPT ![k] = busy[k] \cup {p}]
      BY Zenon, <2>1, <2>4 DEF Reserved
    <3> HIDE DEF send
    <3>2. \A j \in Kinds, q \in Peers : pend'[j][q] = IF j = k /\ q = p THEN send ELSE pend[j][q]
      BY Zenon, <1>t, <2>1, <3>1
    <3>3. \A j \in Kinds : \A q \in busy'[j] : q \in busy[j] \/ (j = k /\ q = p)
      BY Zenon, <1>t, <3>1
    <3>4. busy' \in [Kinds -> SUBSET Peers]
      BY Zenon, <1>t, <2>1, <3>1
    <3> QED
      BY <1>b, <1>t, <2>2, <2>4, <3>2, <3>3, <3>4 DEF BInv, BusyHasRequest
  <2> QED
    BY Zenon, <2>3, <2>4
<1>10. ASSUME NEW p \in peers, Unregister(p) PROVE BInv'
  <2>1. /\ peers' = peers \ {p} /\ dropped' = dropped \ {p} /\ revoking' = revoking \cup {p}
        /\ UNCHANGED <<pend, busy, failed>>
    BY Zenon, <1>10 DEF Unregister, queueVars, syncVars
  <2> QED
    BY Zenon, <1>b, <1>t, <2>1 DEF BInv, BusyHasRequest
<1>11. ASSUME NEW p \in revoking, Revoke(p) PROVE BInv'
  <2>1. /\ revoking' = revoking \ {p}
        /\ pend' = [k \in Kinds |-> Unpend(pend[k], InFlight(k) \cap {p})]
        /\ UNCHANGED <<busy, failed, peers, dropped>>
    BY Zenon, <1>11 DEF Revoke, syncVars
  <2>2. \A k \in Kinds, q \in Peers : q # p => pend'[k][q] = pend[k][q]
    BY Zenon, <2>1 DEF Unpend
  <2> QED
    BY Zenon, <1>b, <1>t, <2>1, <2>2 DEF BInv, BusyHasRequest
<1> QED
  BY <1>2, <1>3, <1>4, <1>5, <1>7, <1>8, <1>9, <1>10, <1>11 DEF Next

\* A peer is busy with a request it was sent, or is on its way out, whatever
\* deliveries, timeouts and departures come in between.
THEOREM BusyInvariance == Spec => []BInv
  BY BusyInit, BusyStep, QueueInvariance, PTL DEF Spec

\* While no fetcher has failed, a registered peer that counts as busy has a
\* request pending or is being dropped.
THEOREM BusyPeersHaveRequests == Spec => []BusyHasRequest
<1>1. BInv => BusyHasRequest
  BY Zenon DEF BInv
<1> QED
  BY <1>1, BusyInvariance, PTL

-----------------------------------------------------------------------------
(* The end of the sync                                                     *)

\* What Assign does to the fetchers.
LEMMA AssignForms ==
  ASSUME QInv, NEW k \in Kinds, NEW p, NEW count \in Counts, Assign(k, p, count)
  PROVE  /\ fetcher' \in [Kinds -> Fetchers]
         /\ \A j \in Kinds \ {k} : fetcher'[j] = fetcher[j]
         /\ fetcher'[k].finished = fetcher[k].finished
         /\ fetcher'[k].at # "drained"
         /\ failed' = (failed \/ fetcher'[k].at = "done")
<1> DEFINE r == reserveHeaders(k, p, count)
           rest == Asking(k, p, r.send)
<1>1. fetcher[k].at = "assign" /\ Reserved(k, p, r) /\ p \in fetcher[k].todo
  BY Zenon DEF Assign
<1>2. p \in Peers /\ count \in Nat /\ Fetching
  BY Zenon, <1>1, DownloadQueueAssumption DEF QInv, TypeOK, Fetchers, Fetching
<1>d. r = reserveHeaders(k, p, count) /\ rest = Asking(k, p, r.send)
  BY Zenon
<1> HIDE DEF r, rest
<1>3. Flagged(r)
  BY Zenon, <1>2, <1>d, ReserveFacts DEF Flagged
<1> QED
  BY Zenon, <1>1, <1>2, <1>3, AssignForm

\* The end of the headers reaches the fetchers after all were scheduled.
LEMMA FinishingInit == Init => Finishing
<1> SUFFICES ASSUME Init PROVE Finishing
  BY Zenon
<1>1. wake = [k \in Kinds |-> None] /\ fetcher = [k \in Kinds |-> Resting] /\ cancelled = FALSE
  BY Zenon DEF Init
<1>2. Resting.finished = FALSE
  BY Zenon DEF Resting
<1> QED
  BY Zenon, <1>1, <1>2 DEF Finishing

LEMMA FinishingStep == QInv /\ Finishing /\ [Next]_vars => Finishing'
<1> SUFFICES ASSUME QInv, Finishing, [Next]_vars PROVE Finishing'
  BY Zenon
<1>0. Fetching /\ fetcher \in [Kinds -> Fetchers] /\ scheduled \in 0..Len(Needs) /\ Len(Needs) \in Nat
  BY Zenon, Constants DEF QInv, TypeOK, Fetching
<1>f. /\ wake \in [Kinds -> BOOLEAN \cup {None}]
      /\ cancelled => failed
      /\ \A k \in Kinds : (wake[k] # None /\ wake[k] = FALSE) \/ fetcher[k].finished => scheduled = Len(Needs)
  BY Zenon DEF Finishing
<1>1. ASSUME UNCHANGED <<wake, scheduled>>, \A k \in Kinds : fetcher'[k].finished = fetcher[k].finished,
             cancelled' => failed'
      PROVE  Finishing'
  BY Zenon, <1>1, <1>f DEF Finishing
<1>2. ASSUME UNCHANGED <<wake, scheduled, fetcher>>, cancelled' => failed'
      PROVE  Finishing'
  BY Zenon, <1>1, <1>2
<1>3. CASE UNCHANGED vars
  BY Zenon, <1>2, <1>3, <1>f DEF vars
<1>4. CASE CheckResults \/ LockResults \/ Woken \/ TakeAny
  BY Zenon, <1>2, <1>4, <1>f DEF CheckResults, LockResults, Woken, TakeAny, TakeResults, syncVars
<1>5. CASE CancelHeaders \/ CloseQueue
  BY Zenon, <1>2, <1>5, <1>f DEF CancelHeaders, CloseQueue
<1>6. CASE ProcessHeaders
  <2>1. scheduled # Len(Needs)
    BY <1>0, <1>6 DEF ProcessHeaders, ProcessChunk
  <2>2. \A k \in Kinds : ~(wake[k] # None /\ wake[k] = FALSE) /\ ~fetcher[k].finished
    BY Zenon, <1>f, <2>1
  <2>3. wake' = [k \in Kinds |-> IF wake[k] = None THEN TRUE ELSE wake[k]]
        /\ UNCHANGED <<fetcher, failed, cancelled>>
    BY Zenon, <1>6 DEF ProcessHeaders, ProcessChunk
  <2>4. \A k \in Kinds : ~(wake'[k] # None /\ wake'[k] = FALSE)
    BY Zenon, <2>2, <2>3
  <2>5. wake' \in [Kinds -> BOOLEAN \cup {None}]
    BY Zenon, <1>f, <2>3
  <2> QED
    BY Zenon, <1>f, <2>2, <2>3, <2>4, <2>5 DEF Finishing
<1>7. ASSUME NEW k \in Kinds, EndHeaders(k) PROVE Finishing'
  <2>1. scheduled' = Len(Needs) /\ UNCHANGED <<failed, cancelled>>
    BY Zenon, <1>7 DEF EndHeaders
  <2>2. wake' = wake \/ wake' = [wake EXCEPT ![k] = FALSE]
    BY Zenon, <1>7 DEF EndHeaders
  <2>3. wake' \in [Kinds -> BOOLEAN \cup {None}]
    BY Zenon, <1>f, <2>2
  <2> QED
    BY Zenon, <1>f, <2>1, <2>3 DEF Finishing
<1>8. ASSUME NEW k \in Kinds, CancelFetch(k) \/ Drained(k) PROVE Finishing'
  <2> DEFINE g == [Rest(k) EXCEPT !.at = "done"]
  <2>1. Rest(k).finished = fetcher[k].finished /\ g.finished = fetcher[k].finished
    BY Zenon, <1>0, RestType
  <2>2. fetcher' = [fetcher EXCEPT ![k] = g] \/ fetcher' = [fetcher EXCEPT ![k] = Rest(k)]
    BY Zenon, <1>8 DEF CancelFetch, Drained
  <2> HIDE DEF g
  <2>3. \A j \in Kinds : fetcher'[j].finished = fetcher[j].finished
    BY Zenon, <1>0, <2>1, <2>2
  <2>4. UNCHANGED <<wake, scheduled, failed, cancelled>>
    BY Zenon, <1>8 DEF CancelFetch, Drained, syncVars
  <2> QED
    BY Zenon, <1>1, <1>f, <2>3, <2>4
<1>9. ASSUME NEW k \in Kinds, Wake(k) PROVE Finishing'
  <2> DEFINE now == (fetcher[k].finished \/ wake[k] = FALSE)
             g == [fetcher[k] EXCEPT !.finished = now]
  <2>1. fetcher[k] \in Fetchers /\ wake[k] # None
    BY Zenon, <1>0, <1>9 DEF Wake
  <2>2. fetcher' = [fetcher EXCEPT ![k] = g] /\ wake' = [wake EXCEPT ![k] = None]
        /\ UNCHANGED <<scheduled, failed, cancelled>>
    BY Zenon, <1>9 DEF Wake
  <2>3. now => scheduled = Len(Needs)
    BY Zenon, <1>f, <2>1
  <2> HIDE DEF now
  <2>4. g.finished = now
    BY Zenon, <2>1 DEF Fetchers
  <2> HIDE DEF g
  <2>5. \A j \in Kinds : IF j = k THEN fetcher'[j].finished = now /\ wake'[j] = None
                                  ELSE fetcher'[j] = fetcher[j] /\ wake'[j] = wake[j]
    BY Zenon, <1>0, <1>f, <2>2, <2>4
  <2>6. wake' \in [Kinds -> BOOLEAN \cup {None}]
    BY Zenon, <1>f, <2>2
  <2> QED
    BY Zenon, <1>f, <2>2, <2>3, <2>5, <2>6 DEF Finishing
<1>10. ASSUME NEW k \in Kinds, DeliverAny(k) PROVE Finishing'
  BY <1>2, <1>10, <1>f DEF DeliverAny, Deliver, syncVars
<1>11. ASSUME NEW k \in Kinds, NEW E \in SUBSET InFlight(k), NEW D \in SUBSET E, Update(k, E, D)
       PROVE  Finishing'
  <2>1. /\ \A j \in Kinds \ {k} : fetcher'[j] = fetcher[j]
        /\ fetcher'[k].finished = fetcher[k].finished
        /\ cancelled' => cancelled \/ failed'
        /\ failed' = (failed \/ fetcher'[k].at = "done")
    BY Zenon, <1>0, <1>11, UpdateForm
  <2>2. UNCHANGED <<wake, scheduled>>
    BY Zenon, <1>11 DEF Update
  <2>3. \A j \in Kinds : fetcher'[j].finished = fetcher[j].finished
    BY Zenon, <2>1
  <2> QED
    BY Zenon, <1>1, <1>f, <2>1, <2>2, <2>3
<1>12. ASSUME NEW k \in Kinds, NEW p \in fetcher[k].todo, NEW n \in Counts, Assign(k, p, n)
       PROVE  Finishing'
  <2>1. /\ \A j \in Kinds \ {k} : fetcher'[j] = fetcher[j]
        /\ fetcher'[k].finished = fetcher[k].finished
        /\ failed' = (failed \/ fetcher'[k].at = "done")
    BY Zenon, <1>12, AssignForms
  <2>2. UNCHANGED <<wake, scheduled, cancelled>>
    BY Zenon, <1>12 DEF Assign, Reserved
  <2>3. \A j \in Kinds : fetcher'[j].finished = fetcher[j].finished
    BY Zenon, <2>1
  <2> QED
    BY Zenon, <1>1, <1>f, <2>1, <2>2, <2>3
<1>13. ASSUME NEW p, Unregister(p) \/ Revoke(p) PROVE Finishing'
  BY Zenon, <1>2, <1>13, <1>f DEF Unregister, Revoke, syncVars
<1> QED
  BY <1>3, <1>4, <1>5, <1>6, <1>7, <1>8, <1>9, <1>10, <1>11, <1>12, <1>13 DEF Next

\* Without errors and departures, a fetcher leaves nothing behind.
LEMMA EmptyingInit == Init => Emptying
<1> SUFFICES ASSUME Init, NEW k \in Kinds PROVE Emptied(k)
  BY Zenon DEF Emptying
<1>1. fetcher[k] = Resting /\ Resting.at = "select"
  BY Zenon DEF Init, Resting
<1> QED
  BY Zenon, <1>1 DEF Emptied

LEMMA EmptyingStep == QInv /\ BInv /\ Finishing /\ Emptying /\ [Next]_vars => Emptying'
<1> SUFFICES ASSUME QInv, BInv, Finishing, Emptying, [Next]_vars, ~failed', peers' = Peers, NEW j \in Kinds
             PROVE  Emptied(j)'
  BY Zenon DEF Emptying
<1>0. /\ Fetching /\ fetcher \in [Kinds -> Fetchers] /\ scheduled \in 0..Len(Needs) /\ Len(Needs) \in Nat
      /\ tasks \in [Kinds -> [Headers -> Nat]] /\ pend \in [Kinds -> [Peers -> SUBSET Headers]]
      /\ peers \in SUBSET Peers
  BY Zenon, Constants DEF QInv, TypeOK, Fetching
<1>e. ~failed /\ peers = Peers => Emptied(j)
  BY Zenon DEF Emptying
<1>1. ASSUME ~failed, peers = Peers, tasks'[j] = tasks[j], pend'[j] = pend[j], fetcher'[j] = fetcher[j]
      PROVE  Emptied(j)'
  BY Zenon, <1>1, <1>e DEF Emptied, InFlight
<1>2. ASSUME fetcher'[j].at \notin {"drained", "done"} PROVE Emptied(j)'
  BY Zenon, <1>2 DEF Emptied
<1>3. CASE UNCHANGED vars
  BY <1>1, <1>3 DEF vars
<1>4. CASE CheckResults \/ LockResults \/ Woken \/ TakeAny
  BY Zenon, <1>1, <1>4 DEF CheckResults, LockResults, Woken, TakeAny, TakeResults, queueVars, syncVars, peerVars
<1>5. CASE CancelHeaders \/ CloseQueue \/ \E k \in Kinds : EndHeaders(k)
  BY Zenon, <1>1, <1>5 DEF CancelHeaders, CloseQueue, EndHeaders, queueVars, peerVars
<1>6. CASE ProcessHeaders
  <2>1. UNCHANGED <<fetcher, failed, peers>> /\ scheduled # Len(Needs)
    BY <1>0, <1>6 DEF ProcessHeaders, ProcessChunk, peerVars
  <2>2. ~fetcher[j].finished
    BY Zenon, <2>1 DEF Finishing
  <2>3. fetcher[j].at \notin {"drained", "done"}
    BY Zenon, <1>e, <2>1, <2>2 DEF Emptied
  <2> QED
    BY Zenon, <1>2, <2>1, <2>3
<1>7. ASSUME NEW k \in Kinds, CancelFetch(k) PROVE Emptied(j)'
  <2>1. failed'
    BY Zenon, <1>7 DEF CancelFetch, Finishing, syncVars
  <2> QED
    BY Zenon, <2>1
<1>8. ASSUME NEW k \in Kinds, Wake(k) PROVE Emptied(j)'
  <2>0. UNCHANGED <<tasks, pend, failed, peers>> /\ fetcher[k].at = "select"
    BY Zenon, <1>8 DEF Wake, queueVars, peerVars
  <2> DEFINE g == [fetcher[k] EXCEPT !.finished = (fetcher[k].finished \/ wake[k] = FALSE)]
  <2>1. fetcher' = [fetcher EXCEPT ![k] = g]
    BY Zenon, <1>8 DEF Wake
  <2>2. fetcher[k] \in Fetchers
    BY Zenon, <1>0
  <2>3. g.at = "select"
    BY Zenon, <2>0, <2>2 DEF Fetchers
  <2> HIDE DEF g
  <2>4. fetcher'[j] = IF j = k THEN g ELSE fetcher[j]
    BY Zenon, <1>0, <2>1
  <2> QED
    BY Zenon, <1>1, <1>2, <2>0, <2>3, <2>4
<1>9. ASSUME NEW k \in Kinds, Drained(k) PROVE Emptied(j)'
  <2>0. UNCHANGED <<tasks, pend, failed, peers>> /\ fetcher[k].at = "drained"
    BY Zenon, <1>9 DEF Drained, queueVars, syncVars, peerVars
  <2> DEFINE g == [Rest(k) EXCEPT !.at = "done"]
             f == Rest(k)
  <2>1. f.at = "select" /\ g.at = "done" /\ g.finished = fetcher[k].finished
    BY Zenon, <1>0, RestType
  <2>2. \/ InFlight(k) = {} /\ fetcher' = [fetcher EXCEPT ![k] = g]
        \/ fetcher' = [fetcher EXCEPT ![k] = f]
    BY Zenon, <1>9 DEF Drained
  <2> HIDE DEF f, g
  <2>3. CASE j # k
    <3>1. fetcher'[j] = fetcher[j]
      BY Zenon, <1>0, <2>2, <2>3
    <3> QED
      BY Zenon, <1>1, <2>0, <3>1
  <2>4. CASE j = k /\ fetcher'[k] = f
    BY Zenon, <1>2, <2>1, <2>4
  <2>5. CASE j = k /\ InFlight(k) = {} /\ fetcher'[k] = g
    <3>1. Emptied(k)
      BY Zenon, <1>e, <2>0, <2>5
    <3>2. fetcher[k].finished /\ Queued(tasks[k]) = {}
      BY Zenon, <2>0, <3>1 DEF Emptied
    <3>3. InFlight(k)' = {}
      BY Zenon, <2>0, <2>5 DEF InFlight
    <3> QED
      BY Zenon, <2>0, <2>1, <2>5, <3>2, <3>3 DEF Emptied
  <2>6. fetcher'[k] = f \/ (InFlight(k) = {} /\ fetcher'[k] = g)
    BY Zenon, <1>0, <2>2
  <2> QED
    BY Zenon, <2>3, <2>4, <2>5, <2>6
<1>10. ASSUME NEW k \in Kinds, NEW msg, NEW good, NEW bad, Deliver(k, msg, good, bad) PROVE Emptied(j)'
  <2>1. UNCHANGED <<fetcher, failed, peers>> /\ fetcher[k].at = "select"
    BY Zenon, <1>10 DEF Deliver, syncVars
  <2>2. CASE j = k
    BY Zenon, <1>2, <2>1, <2>2
  <2>3. CASE j # k
    <3>1. tasks' = tasks \/ \E b : tasks' = [tasks EXCEPT ![k] = b]
      BY Zenon, <1>10 DEF Deliver, queueVars
    <3>2. pend' = pend \/ \E a : pend' = [pend EXCEPT ![k] = a]
      BY Zenon, <1>10 DEF Deliver, queueVars
    <3>3. tasks'[j] = tasks[j] /\ pend'[j] = pend[j]
      BY Zenon, <1>0, <2>3, <3>1, <3>2
    <3> QED
      BY Zenon, <1>1, <2>1, <3>3
  <2> QED
    BY Zenon, <2>2, <2>3
<1>11. ASSUME NEW k \in Kinds, DeliverAny(k) PROVE Emptied(j)'
  BY Zenon, <1>10, <1>11 DEF DeliverAny
<1>12. ASSUME NEW k \in Kinds, NEW E \in SUBSET InFlight(k), NEW D \in SUBSET E, Update(k, E, D)
       PROVE  Emptied(j)'
  <2>1. /\ \A i \in Kinds \ {k} : fetcher'[i] = fetcher[i]
        /\ fetcher'[k].finished = fetcher[k].finished
        /\ fetcher'[k].at = "drained" => fetcher[k].finished /\ Queued(ReturnTasks(tasks[k], pend[k], E)) = {}
        /\ failed' = (failed \/ fetcher'[k].at = "done")
    BY Zenon, <1>0, <1>12, UpdateForm
  <2>2. /\ tasks' = [tasks EXCEPT ![k] = ReturnTasks(tasks[k], pend[k], E)]
        /\ pend' = [pend EXCEPT ![k] = Unpend(pend[k], E)]
        /\ UNCHANGED peers
    BY Zenon, <1>12 DEF Update
  <2>3. CASE j # k
    <3>1. tasks'[j] = tasks[j] /\ pend'[j] = pend[j] /\ fetcher'[j] = fetcher[j]
      BY Zenon, <1>0, <2>1, <2>2, <2>3
    <3> QED
      BY Zenon, <1>1, <2>1, <2>2, <3>1
  <2>4. CASE j = k
    <3>1. fetcher'[k].at # "done"
      BY Zenon, <2>1
    <3>2. tasks'[k] = ReturnTasks(tasks[k], pend[k], E)
      BY Zenon, <1>0, <2>2
    <3> QED
      BY Zenon, <2>1, <2>4, <3>1, <3>2 DEF Emptied
  <2> QED
    BY Zenon, <2>3, <2>4
<1>13. ASSUME NEW k \in Kinds, NEW p \in fetcher[k].todo, NEW n \in Counts, Assign(k, p, n)
       PROVE  Emptied(j)'
  <2>1. /\ \A i \in Kinds \ {k} : fetcher'[i] = fetcher[i]
        /\ fetcher'[k].at # "drained"
        /\ failed' = (failed \/ fetcher'[k].at = "done")
    BY Zenon, <1>13, AssignForms
  <2>2. CASE j = k
    BY Zenon, <1>2, <2>1, <2>2
  <2>3. CASE j # k
    <3> DEFINE r == reserveHeaders(k, p, n)
    <3>1. Reserved(k, p, r)
      BY Zenon, <1>13 DEF Assign
    <3> HIDE DEF r
    <3>2. /\ tasks' = [tasks EXCEPT ![k] = r.tasks] /\ UNCHANGED peers
          /\ pend' = pend \/ pend' = [pend EXCEPT ![k][p] = r.send]
      BY Zenon, <3>1 DEF Reserved
    <3>3. tasks'[j] = tasks[j] /\ pend'[j] = pend[j]
      BY Zenon, <1>0, <2>3, <3>2
    <3> QED
      BY Zenon, <1>1, <2>1, <2>3, <3>2, <3>3
  <2> QED
    BY Zenon, <2>2, <2>3
<1>14. ASSUME NEW p \in peers, Unregister(p) PROVE Emptied(j)'
  <2>1. p \notin peers' /\ p \in Peers
    BY Zenon, <1>0, <1>14 DEF Unregister
  <2> QED
    BY Zenon, <2>1
<1>15. ASSUME NEW p \in revoking, Revoke(p) PROVE Emptied(j)'
  <2>1. p \in Peers /\ p \notin peers /\ peers' = peers
    BY Zenon, <1>15 DEF Revoke, BInv
  <2> QED
    BY Zenon, <2>1
<1> QED
  BY <1>3, <1>4, <1>5, <1>6, <1>7, <1>8, <1>9, <1>11, <1>12, <1>13, <1>14, <1>15 DEF Next

\* A fetcher that has returned does nothing more, and an error stays.
LEMMA DoneStays ==
  ASSUME QInv, [Next]_vars
  PROVE  /\ failed => failed'
         /\ closed => closed'
         /\ \A k \in Kinds : fetcher[k].at = "done" => fetcher'[k].at = "done"
         /\ (\A k \in Kinds : fetcher[k].at = "done") => UNCHANGED store \/ TakeAny
<1> DEFINE Goal == /\ failed => failed'
                   /\ closed => closed'
                   /\ \A k \in Kinds : fetcher[k].at = "done" => fetcher'[k].at = "done"
                   /\ (\A k \in Kinds : fetcher[k].at = "done") => UNCHANGED store \/ TakeAny
<1> SUFFICES Goal
  BY Zenon
<1>0. Fetching /\ fetcher \in [Kinds -> Fetchers]
  BY Zenon DEF QInv, TypeOK, Fetching
<1>1. ASSUME UNCHANGED <<failed, fetcher>>, UNCHANGED store \/ TakeAny, closed => closed' PROVE Goal
  BY Zenon, <1>1
<1>2. ASSUME NEW k \in Kinds, fetcher[k].at # "done", \A j \in Kinds \ {k} : fetcher'[j] = fetcher[j],
             failed => failed', closed => closed'
      PROVE  Goal
  BY Zenon, <1>2
<1> HIDE DEF Goal
<1>3. CASE UNCHANGED vars
  BY Zenon, <1>1, <1>3 DEF vars
<1>4. CASE CheckResults \/ LockResults \/ Woken
  BY Zenon, <1>1, <1>4 DEF CheckResults, LockResults, Woken, syncVars
<1>5. CASE TakeAny
  <2>1. PICK d \in Thresholds, c \in 0..CacheSize : TakeResults(d, c)
    BY Zenon, <1>5 DEF TakeAny
  <2>2. UNCHANGED <<failed, fetcher, closed>>
    BY Zenon, <2>1 DEF TakeResults, syncVars
  <2> QED
    BY Zenon, <1>1, <1>5, <2>2
<1>6. CASE CancelHeaders \/ CloseQueue \/ ProcessHeaders \/ \E k \in Kinds : EndHeaders(k)
  BY Zenon, <1>1, <1>6 DEF CancelHeaders, CloseQueue, ProcessHeaders, ProcessChunk, EndHeaders
<1>7. ASSUME NEW k \in Kinds, CancelFetch(k) \/ Wake(k) \/ Drained(k) PROVE Goal
  <2>1. fetcher[k].at # "done" /\ UNCHANGED <<failed, closed>>
    BY Zenon, <1>7 DEF CancelFetch, Wake, Drained, syncVars
  <2>2. \A j \in Kinds \ {k} : fetcher'[j] = fetcher[j]
    BY Zenon, <1>0, <1>7 DEF CancelFetch, Wake, Drained
  <2> QED
    BY Zenon, <1>2, <2>1, <2>2
<1>8. ASSUME NEW k \in Kinds, DeliverAny(k) PROVE Goal
  <2>1. UNCHANGED <<failed, closed, fetcher>> /\ fetcher[k].at # "done"
    BY <1>8 DEF DeliverAny, Deliver, syncVars
  <2> QED
    BY Zenon, <1>2, <2>1
<1>9. ASSUME NEW k \in Kinds, NEW E \in SUBSET InFlight(k), NEW D \in SUBSET E, Update(k, E, D) PROVE Goal
  <2>1. (\A j \in Kinds \ {k} : fetcher'[j] = fetcher[j]) /\ failed' = (failed \/ fetcher'[k].at = "done")
    BY Zenon, <1>0, <1>9, UpdateForm
  <2>2. fetcher[k].at # "done" /\ UNCHANGED closed
    BY Zenon, <1>9 DEF Update
  <2> QED
    BY Zenon, <1>2, <2>1, <2>2
<1>10. ASSUME NEW k \in Kinds, NEW p \in fetcher[k].todo, NEW n \in Counts, Assign(k, p, n) PROVE Goal
  <2>1. (\A j \in Kinds \ {k} : fetcher'[j] = fetcher[j]) /\ failed' = (failed \/ fetcher'[k].at = "done")
    BY Zenon, <1>10, AssignForms
  <2>2. fetcher[k].at # "done" /\ UNCHANGED closed
    BY Zenon, <1>10 DEF Assign, Reserved
  <2> QED
    BY Zenon, <1>2, <2>1, <2>2
<1>11. ASSUME NEW p, Unregister(p) \/ Revoke(p) PROVE Goal
  BY Zenon, <1>1, <1>11 DEF Unregister, Revoke, syncVars
<1> QED
  BY Zenon, <1>3, <1>4, <1>5, <1>6, <1>7, <1>8, <1>9, <1>10, <1>11 DEF Next

\* Results takes nothing only if there is nothing complete.
LEMMA TakeNothing ==
  ASSUME QInv, RInv, NEW threshold \in Thresholds, NEW c \in 0..CacheSize, TakeResults(threshold, c), results'.at = "done"
  PROVE  ~HasCompletedItems(store)
<1> DEFINE n == Min({MaxResults, c})
           t == SetThrottleThreshold(GetCompleted(store, c, MaxResults), threshold)
<1>1. StoreOK(store) /\ threshold \in Nat \ {0} /\ store.offset \in Nat /\ countCompleted(store, c)
  BY Zenon, DownloadQueueAssumption DEF QInv, StoreOK, Stores, TakeResults
<1>d. n = Min({MaxResults, c}) /\ t = SetThrottleThreshold(GetCompleted(store, c, MaxResults), threshold)
  BY Zenon
<1> HIDE DEF n, t
<1>2. n \in Nat /\ (n = 0 <=> c = 0) /\ GetCompleted(store, c, MaxResults).offset = store.offset + n
  BY <1>1, <1>d, TakeFacts
<1>3. results'.at = IF GetCompleted(store, c, MaxResults).offset - store.offset = 0 THEN "done" ELSE "check"
  BY Zenon DEF TakeResults
<1>4. GetCompleted(store, c, MaxResults).offset - store.offset = n
  BY <1>1, <1>2
<1>5. c = 0
  BY Zenon, <1>2, <1>3, <1>4
<1>6. c < CacheSize => ~AllDone(store.items[c + 1])
  BY Zenon, <1>1, CountFacts
<1> QED
  BY <1>5, <1>6, Constants DEF HasCompletedItems

\* A step of anyone else leaves the consumer where it is, or wakes it.
LEMMA OtherStep ==
  ASSUME QInv, results \in Consumers, [Next]_vars, ~TakeAny, ~(CheckResults \/ LockResults \/ Woken)
  PROVE  results'.at \in {results.at, "woken"}
<1>1. ASSUME UNCHANGED results PROVE results'.at \in {results.at, "woken"}
  BY Zenon, <1>1
<1>2. CASE UNCHANGED vars
  BY Zenon, <1>1, <1>2 DEF vars
<1>3. CASE CloseQueue
  BY Zenon, <1>3, SignalFacts DEF CloseQueue
<1>4. CASE \/ ProcessHeaders \/ CancelHeaders
           \/ \E k \in Kinds : EndHeaders(k) \/ CancelFetch(k) \/ Wake(k) \/ Drained(k)
  BY Zenon, <1>1, <1>4 DEF ProcessHeaders, ProcessChunk, CancelHeaders, EndHeaders, CancelFetch, Wake, Drained
<1>5. ASSUME NEW k \in Kinds, DeliverAny(k) PROVE results'.at \in {results.at, "woken"}
  BY Zenon, <1>5, DeliverStore DEF DeliverAny
<1>6. ASSUME NEW k \in Kinds, NEW E, NEW D, Update(k, E, D) PROVE results'.at \in {results.at, "woken"}
  BY Zenon, <1>1, <1>6 DEF Update
<1>7. ASSUME NEW k \in Kinds, NEW p \in fetcher[k].todo, NEW n \in Counts, Assign(k, p, n)
      PROVE  results'.at \in {results.at, "woken"}
  BY Zenon, <1>7, AssignStore
<1>8. ASSUME NEW p, Unregister(p) \/ Revoke(p) PROVE results'.at \in {results.at, "woken"}
  BY Zenon, <1>1, <1>8 DEF Unregister, Revoke
<1> QED
  BY <1>2, <1>3, <1>4, <1>5, <1>6, <1>7, <1>8 DEF Next

\* Once the queue is closed the consumer drains it.
LEMMA ClosingInit == Init => Closing
  BY DEF Init, Closing

LEMMA ClosingStep == QInv /\ RInv /\ Closing /\ [Next]_vars => Closing'
<1> SUFFICES ASSUME QInv, RInv, Closing, [Next]_vars PROVE Closing'
  BY Zenon
<1>c. /\ closed /\ ~failed => \A k \in Kinds : fetcher[k].at = "done"
      /\ results.at = "take" => HasCompletedItems(store) \/ closed
      /\ results.at = "done" => closed /\ (failed \/ ~HasCompletedItems(store))
  BY Zenon DEF Closing
<1>r. results \in Consumers
  BY Zenon DEF RInv
<1>1. /\ failed => failed'
      /\ closed => closed'
      /\ \A k \in Kinds : fetcher[k].at = "done" => fetcher'[k].at = "done"
      /\ (\A k \in Kinds : fetcher[k].at = "done") => UNCHANGED store \/ TakeAny
  BY Zenon, DoneStays
<1>2. closed' /\ ~failed' => \A k \in Kinds : fetcher'[k].at = "done"
  <2>1. CASE CloseQueue
    BY Zenon, <2>1 DEF CloseQueue
  <2>2. CASE ~CloseQueue
    <3>1. closed' = closed
      <4>1. CASE UNCHANGED vars
        BY Zenon, <4>1 DEF vars
      <4>2. CASE CheckResults \/ LockResults \/ Woken
        BY Zenon, <4>2 DEF CheckResults, LockResults, Woken
      <4>3. CASE TakeAny
        BY Zenon, <4>3 DEF TakeAny, TakeResults
      <4>4. CASE ProcessHeaders \/ CancelHeaders \/ \E k \in Kinds : EndHeaders(k)
        BY Zenon, <4>4 DEF ProcessHeaders, ProcessChunk, CancelHeaders, EndHeaders
      <4>5. CASE \E k \in Kinds : CancelFetch(k) \/ Wake(k) \/ Drained(k)
        BY Zenon, <4>5 DEF CancelFetch, Wake, Drained
      <4>6. CASE \E k \in Kinds : DeliverAny(k)
        BY <4>6 DEF DeliverAny, Deliver
      <4>7. CASE \E k \in Kinds : \E E \in SUBSET InFlight(k) : \E D \in SUBSET E : Update(k, E, D)
        BY <4>7 DEF Update
      <4>8. CASE \E k \in Kinds : \E p \in fetcher[k].todo, n \in Counts : Assign(k, p, n)
        BY <4>8 DEF Assign, Reserved
      <4>9. CASE (\E p \in peers : Unregister(p)) \/ \E p \in revoking : Revoke(p)
        BY Zenon, <4>9 DEF Unregister, Revoke
      <4> QED
        BY <2>2, <4>1, <4>2, <4>3, <4>4, <4>5, <4>6, <4>7, <4>8, <4>9 DEF Next
    <3> QED
      BY Zenon, <1>1, <1>c, <3>1
  <2> QED
    BY Zenon, <2>1, <2>2
<1>3. CASE TakeAny
  <2>1. PICK t \in Thresholds, c \in 0..CacheSize : TakeResults(t, c)
    BY Zenon, <1>3 DEF TakeAny
  <2>2. results.at = "take" /\ UNCHANGED <<closed, failed>>
    BY Zenon, <2>1 DEF TakeResults, syncVars
  <2>3. results'.at \in {"check", "done"} /\ (results'.at = "done" => ~HasCompletedItems(store'))
    BY Zenon, <2>1, TakeGot
  <2>4. results'.at = "done" => closed'
    BY Zenon, <1>c, <2>1, <2>2, <2>3, TakeNothing
  <2> QED
    BY Zenon, <1>2, <2>3, <2>4 DEF Closing
<1>4. CASE ~TakeAny
  <2>1. HasCompletedItems(store) => HasCompletedItems(store')
    BY Zenon, <1>4, <1>r, ConsumerStep
  <2>2. results'.at = "take" => HasCompletedItems(store') \/ closed'
    <3>1. CASE CheckResults \/ LockResults \/ Woken
      BY <1>r, <3>1 DEF CheckResults, LockResults, Woken, Consumers
    <3>2. CASE ~(CheckResults \/ LockResults \/ Woken)
      <4>1. results'.at \in {results.at, "woken"}
        BY Zenon, <1>4, <1>r, <3>2, OtherStep
      <4> QED
        BY Zenon, <1>1, <1>c, <2>1, <4>1
    <3> QED
      BY Zenon, <3>1, <3>2
  <2>3. results'.at = "done" => closed' /\ (failed' \/ ~HasCompletedItems(store'))
    <3>1. CASE CheckResults \/ LockResults \/ Woken
      BY Zenon, <1>r, <3>1 DEF CheckResults, LockResults, Woken, Consumers
    <3>2. CASE ~(CheckResults \/ LockResults \/ Woken)
      <4>1. results'.at \in {results.at, "woken"}
        BY Zenon, <1>4, <1>r, <3>2, OtherStep
      <4> QED
        BY <1>1, <1>4, <1>c, <4>1
    <3> QED
      BY Zenon, <3>1, <3>2
  <2> QED
    BY Zenon, <1>2, <2>2, <2>3 DEF Closing
<1> QED
  BY Zenon, <1>3, <1>4

\* What holds when the sync comes to an end.
THEOREM EndInvariance == Spec => [](Finishing /\ Emptying /\ Closing)
<1>1. Init => Finishing /\ Emptying /\ Closing
  BY Zenon, FinishingInit, EmptyingInit, ClosingInit
<1>2. QInv /\ RInv /\ BInv /\ (Finishing /\ Emptying /\ Closing) /\ [Next]_vars
        => (Finishing /\ Emptying /\ Closing)'
  BY Zenon, FinishingStep, EmptyingStep, ClosingStep
<1> QED
  BY <1>1, <1>2, QueueInvariance, ResultsInvariance, BusyInvariance, PTL DEF Spec

\* Without an error and with all peers still there, the sync ends with every
\* block handed out.
THEOREM SyncComplete == Spec => []CompleteWithPeers
<1>1. QInv /\ RInv /\ (Finishing /\ Emptying /\ Closing) => CompleteWithPeers
  <2> SUFFICES ASSUME QInv, RInv, Finishing, Emptying, Closing, results.at = "done", ~failed, peers = Peers
               PROVE  Len(results.got) = Len(Needs)
    BY Zenon DEF CompleteWithPeers
  <2> DEFINE o == store.offset
             N == Len(Needs)
             item == store.items[1]
  <2>1. ~AllDone(item) /\ \A k \in Kinds : fetcher[k].at = "done"
    BY Zenon DEF Closing, HasCompletedItems
  <2>2. \A k \in Kinds : fetcher[k].finished /\ Queued(tasks[k]) = {} /\ InFlight(k) = {}
    BY Zenon, <2>1 DEF Emptying, Emptied
  <2>3. scheduled = N
    BY Zenon, <2>2 DEF Finishing, Kinds
  <2>4. ASSUME NEW k \in Kinds PROVE taskPool[k] = {}
    <3>1. \A h \in Headers : ~(tasks[k][h] > 0)
      BY Zenon, <2>2 DEF Queued
    <3>2. \A p \in Peers : pend[k][p] = {}
      BY Zenon, <2>2 DEF InFlight
    <3>3. taskPool[k] \in SUBSET Headers /\ Tasked(tasks[k], taskPool[k], pend[k])
      BY Zenon DEF QInv, KInv, TypeOK
    <3>4. \A h \in taskPool[k] : tasks[k][h] = 1
      BY Zenon, <3>2, <3>3 DEF Tasked
    <3> QED
      BY <3>1, <3>3, <3>4
  <2>5. /\ N \in Nat /\ CacheSize \in Nat /\ CacheSize >= 1 /\ o \in Nat /\ o >= 1 /\ o <= N + 1
        /\ item \in Results \cup {None} /\ Len(results.got) = o - 1 /\ None \notin Results
    <3>1. store \in Stores /\ store.offset <= N + 1 /\ Len(results.got) = store.offset - 1
      BY Zenon DEF QInv, StoreOK, RInv
    <3>2. N \in Nat /\ CacheSize \in Nat /\ CacheSize >= 1 /\ None \notin Results
      BY Zenon, Constants
    <3> QED
      BY <3>1, <3>2 DEF Stores
  <2>6. ASSUME NEW k \in Kinds
        PROVE  /\ (item # None /\ k \in item.pending) => o \in {}
               /\ \A h \in Scheduled(k, 1..N) :
                    (h >= o /\ (h - o < CacheSize => store.items[(h - o) + 1] = None)) => h \in {}
    <3>1. Owed(k, {}, store, N)
      BY Zenon, <2>3, <2>4 DEF QInv, KInv
    <3>2. 1 \in 1..CacheSize /\ (o + 1) - 1 = o
      <4> HIDE DEF o
      <4> QED
        BY <2>5
    <3> QED
      BY Zenon, <3>1, <3>2 DEF Owed, Index, Slot
  <2>7. item # None => item.pending = {}
    <3>1. item # None => item.pending \in SUBSET Kinds
      BY Zenon, <2>5 DEF Results
    <3> QED
      BY Zenon, <2>6, <3>1
  <2>8. item = None
    BY Zenon, <2>1, <2>7 DEF AllDone
  <2>9. ~(o <= N)
    <3> SUFFICES ASSUME o <= N PROVE FALSE
      BY Zenon
    <3>1. o \in 1..N /\ o >= o /\ (o - o) + 1 = 1
      <4> HIDE DEF o, N
      <4> QED
        BY <2>5
    <3>2. o \in Scheduled(Body, 1..N) /\ Body \in Kinds
      BY Zenon, <3>1 DEF Scheduled, Kinds
    <3>3. store.items[(o - o) + 1] = None
      BY Zenon, <2>8, <3>1
    <3> QED
      BY Zenon, <2>6, <3>1, <3>2, <3>3
  <2> HIDE DEF o, N
  <2>10. Len(results.got) = N
    BY <2>5, <2>9
  <2> QED
    BY Zenon, <2>10 DEF N
<1> QED
  BY <1>1, QueueInvariance, ResultsInvariance, EndInvariance, PTL


=============================================================================
