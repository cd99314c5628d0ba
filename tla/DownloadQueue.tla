---------------------------- MODULE DownloadQueue ----------------------------
(***************************************************************************)
(* The content download of eth/downloader: the queue of bodies and         *)
(* receipts (queue.go), its result store (resultstore.go), and the         *)
(* goroutines of downloader.go around it: processHeaders, one fetchParts   *)
(* per kind of content, the consumer of Results, and spawnSync.            *)
(*                                                                         *)
(* A method of the queue runs under its lock and is one step.  Results     *)
(* takes what is complete without that lock; while another method runs it  *)
(* takes what it could take afterwards, or less.  fetchParts calls several *)
(* methods in one round, and steps of others come between them.            *)
(*                                                                         *)
(* A header is its number, content is the header it belongs to.  Headers   *)
(* come checked and in order; skeletons, the ancestor search, the pivot    *)
(* and the import of results are not modelled, and peers do not return.    *)
(***************************************************************************)
EXTENDS Integers, FiniteSets, FiniteSetsExt, Sequences

CONSTANTS
  Peers, Master,   \* Master is cancelPeer
  Ends,            \* the last header of each chunk that processHeaders schedules
  Needs,           \* the content each header has: a set of kinds
  FastSync,        \* q.mode == FastSync
  CacheSize,       \* blockCacheLimit
  Thresholds,      \* throttle thresholds Results may arrive at
  Counts,          \* capacities of peers
  MinFetch,        \* a timed out request of at most so many items costs the peer
  MaxResults,      \* maxResultsProcess
  MaxQueued,       \* maxQueuedHeaders
  MaxFaults,       \* bound on bad and late answers (some never come) and departures
  None

Body == "body"
Receipt == "receipt"
Kinds == {Body, Receipt}
Headers == DOMAIN Needs

ASSUME DownloadQueueAssumption ==
  /\ Master \in Peers
  /\ Needs \in Seq(SUBSET Kinds) /\ FastSync \in BOOLEAN
  /\ Ends \subseteq Headers /\ \A h \in Headers : \E e \in Ends : h <= e
  /\ CacheSize \in Nat \ {0} /\ MaxResults \in Nat \ {0} /\ MaxQueued \in Nat \ {0}
  /\ Thresholds \subseteq Nat \ {0} /\ Counts \subseteq Nat /\ MinFetch \in Nat
  /\ None \notin [header : Headers, pending : SUBSET Kinds]

VARIABLES
  tasks,      \* how often a header is on each kind's task queue
  taskPool,   \* blockTaskPool and receiptTaskPool
  pend,       \* blockPendPool and receiptPendPool: what each peer is asked for
  store,      \* the result store: items, offset, incomplete, threshold
  closed,     \* q.closed
  results,    \* the consumer: where it is in Results, and how much it has
  fetcher,    \* the fetchParts goroutine of each kind
  wake,       \* bodyWakeCh and receiptWakeCh: None, TRUE or FALSE
  scheduled,  \* how many headers processHeaders has scheduled
  ending,     \* the wake channels processHeaders has yet to send FALSE to
  peers,      \* registered peers
  dropped,    \* peers being disconnected
  revoking,   \* peers unregistered whose requests are not revoked yet
  busy,       \* peers with blockIdle, or receiptIdle, set to 1
  lacking,    \* what each peer is known to lack
  net,        \* requests under way to a peer, or their answers
  failed,     \* a fetcher returned an error
  cancelled,  \* cancelCh is closed
  faults      \* how many faults there were

vars == <<tasks, taskPool, pend, store, closed, results, fetcher, wake, scheduled, ending,
          peers, dropped, revoking, busy, lacking, net, failed, cancelled, faults>>

queueVars == <<tasks, taskPool, pend>>
peerVars == <<peers, dropped, revoking, busy, lacking, net>>
syncVars == <<wake, scheduled, ending, failed, cancelled>>

-----------------------------------------------------------------------------
(* The result store                                                        *)

Item(h) ==
  [header |-> h, pending |-> {k \in Needs[h] : k = Body \/ FastSync}]

\* Mutant: a result counts as complete as soon as it is in the store.
AllDoneOnceAdded(item) == item # None

AllDone(item) == item # None /\ item.pending = {}

Index(s, h) == h - s.offset

\* getFetchResult: whether h was delivered, or is beyond the threshold.
Stale(s, h) == Index(s, h) < 0
Throttled(s, h) == Index(s, h) >= s.threshold

Slot(s, h) == s.items[Index(s, h) + 1]

\* The result AddFetch returns for h, and the store once it was called for all of hs.
Fetched(s, h) == IF Slot(s, h) = None THEN Item(h) ELSE Slot(s, h)

AddFetch(s, hs) ==
  [s EXCEPT !.items = [i \in 1..CacheSize |->
     IF (s.offset + i) - 1 \in hs THEN Fetched(s, (s.offset + i) - 1) ELSE s.items[i]]]

HasCompletedItems(s) == AllDone(s.items[1])

\* c is the length of the complete prefix, of which the known part is not
\* looked at again.
countCompleted(s, c) ==
  /\ s.incomplete <= c
  /\ \A i \in (s.incomplete + 1)..c : AllDone(s.items[i])
  /\ c < CacheSize => ~AllDone(s.items[c + 1])

\* The first n items are taken out of the store.
Shifted(items, n) == [i \in 1..CacheSize |-> IF i + n <= CacheSize THEN items[i + n] ELSE None]

\* Mutant: the known prefix is not moved with the items.
GetCompletedKeeping(s, c, limit) ==
  LET n == Min({limit, c})
  IN  [s EXCEPT !.items = Shifted(s.items, n), !.offset = @ + n,
                !.incomplete = Min({c, CacheSize - 1})]

\* With c items complete.
GetCompleted(s, c, limit) ==
  LET n == Min({limit, c})
  IN  [s EXCEPT !.items = Shifted(s.items, n), !.offset = @ + n, !.incomplete = c - n]

SetThrottleThreshold(s, threshold) == [s EXCEPT !.threshold = Min({threshold, CacheSize})]

SetDone(item, k) == [item EXCEPT !.pending = @ \ {k}]

-----------------------------------------------------------------------------
(* The queue                                                               *)

Queued(bag) == {h \in Headers : bag[h] > 0}

\* Of hs, each header is pushed once.
PushAll(bag, hs) == [h \in Headers |-> bag[h] + (IF h \in hs THEN 1 ELSE 0)]

PopAll(bag, hs) == [h \in Headers |-> bag[h] - (IF h \in hs THEN 1 ELSE 0)]

InFlight(k) == {p \in Peers : pend[k][p] # {}}

Schedule(bag, pool, hs) == [tasks |-> PushAll(bag, hs \ pool), pool |-> pool \cup hs]

\* The headers Schedule takes up for kind k; a body task creates the result.
Scheduled(k, hs) == {h \in hs : k = Body \/ (FastSync /\ Receipt \in Needs[h])}

\* The tasks that have a slot in the result store and content to ask for.
Wanted(k) ==
  {h \in Queued(tasks[k]) : /\ ~Stale(store, h) /\ ~Throttled(store, h)
                            /\ k \in Fetched(store, h).pending}

\* The tasks the loop of reserveHeaders takes off the queue: it goes by number,
\* until count headers of `able' are found or one is throttled.
Popped(k, able, count) ==
  {h \in Queued(tasks[k]) : /\ ~Throttled(store, h)
                            /\ Cardinality({x \in able : x < h}) < count}

\* What the loop leaves: a wanted task that the peer lacks is put back, and one
\* that is not wanted is done with.
Reserving(k, p, count, wanted, popped) ==
  LET send == popped \cap (wanted \ lacking[p])
      skip == popped \cap wanted \cap lacking[p]
  IN  [tasks |-> PopAll(tasks[k], popped \ skip),
       pool |-> taskPool[k] \ (popped \ wanted),
       store |-> AddFetch(store, {h \in popped : ~Stale(store, h)}),
       send |-> send,
       progress |-> popped \ wanted # {},
       throttled |-> /\ Cardinality(send) < count /\ skip = {}
                     /\ \E h \in Queued(tasks[k]) : Throttled(store, h)]

reserveHeaders(k, p, count) ==
  IF Queued(tasks[k]) = {} \/ pend[k][p] # {}
  THEN [tasks |-> tasks[k], pool |-> taskPool[k], store |-> store, send |-> {},
        progress |-> FALSE, throttled |-> Queued(tasks[k]) = {}]
  ELSE Reserving(k, p, count, Wanted(k), Popped(k, Wanted(k) \ lacking[p], count))

\* Requests of the peers in E go back to the task queue.
ReturnTasks(bag, asked, E) ==
  [h \in Headers |-> bag[h] + Cardinality({p \in E : h \in asked[p]})]

Unpend(asked, E) == [p \in Peers |-> IF p \in E THEN {} ELSE asked[p]]

\* What deliver accepts of an answer that begins with the content of `good':
\* request and answer both go by number and are compared up to a difference.
AcceptedItems(request, good) ==
  {h \in request \cap good : \A x \in request \cup good : x < h => x \in request \cap good}

Reconstruct(k, hs) ==
  [store EXCEPT !.items = [i \in 1..CacheSize |->
     IF (store.offset + i) - 1 \in hs THEN SetDone(store.items[i], k) ELSE store.items[i]]]

\* Mutant: the items not accepted are forgotten.
LeftoverLost(request, accepted) == {}

Leftover(request, accepted) == request \ accepted

-----------------------------------------------------------------------------
(* The consumer of Results                                                 *)

\* Mutant: no Signal.
SignalNever(r, wanted) == r

\* q.active.Signal()
Signal(r, wanted) == IF wanted /\ r.at = "waiting" THEN [r EXCEPT !.at = "woken"] ELSE r

\* The test without the lock.
CheckResults ==
  /\ results.at = "check"
  /\ results' = [results EXCEPT !.at = IF HasCompletedItems(store) THEN "take" ELSE "lock"]
  /\ UNCHANGED <<queueVars, store, closed, fetcher, syncVars, peerVars, faults>>

\* The test under the lock, and Wait.
LockResults ==
  /\ results.at = "lock"
  /\ results' = [results EXCEPT
                   !.at = IF HasCompletedItems(store) \/ closed THEN "take" ELSE "waiting"]
  /\ UNCHANGED <<queueVars, store, closed, fetcher, syncVars, peerVars, faults>>

Woken ==
  /\ results.at = "woken"
  /\ results' = [results EXCEPT !.at = IF closed THEN "take" ELSE "check"]
  /\ UNCHANGED <<queueVars, store, closed, fetcher, syncVars, peerVars, faults>>

\* GetCompleted; the consumer ends when it gets nothing.
TakeResults(threshold, c) ==
  LET s == GetCompleted(store, c, MaxResults)
      n == s.offset - store.offset
  IN  /\ results.at = "take"
      /\ countCompleted(store, c)
      /\ store' = SetThrottleThreshold(s, threshold)
      /\ results' = [at |-> IF n = 0 THEN "done" ELSE "check",
                     got |-> results.got \o SubSeq(store.items, 1, n)]
      /\ UNCHANGED <<queueVars, closed, fetcher, syncVars, peerVars, faults>>

-----------------------------------------------------------------------------
(* processHeaders and spawnSync                                            *)

\* A chunk is scheduled once few enough headers are queued, and the fetchers
\* are woken unless a wake is waiting.
ProcessChunk(last) ==
  LET new(k) == Schedule(tasks[k], taskPool[k], Scheduled(k, (scheduled + 1)..last))
  IN  /\ ending # <<>> /\ scheduled < Len(Needs) /\ ~cancelled
      /\ scheduled < last /\ \A e \in Ends : scheduled < e => last <= e
      /\ \A k \in Kinds : Cardinality(Queued(tasks[k])) < MaxQueued
      /\ tasks' = [k \in Kinds |-> new(k).tasks]
      /\ taskPool' = [k \in Kinds |-> new(k).pool]
      /\ wake' = [k \in Kinds |-> IF wake[k] = None THEN TRUE ELSE wake[k]]
      /\ scheduled' = last
      /\ UNCHANGED <<pend, store, closed, results, fetcher, ending, failed, cancelled, peerVars, faults>>

ProcessHeaders == \E last \in Ends : ProcessChunk(last)

\* All headers are processed: FALSE to the body channel, then to the other.
EndHeaders(k) ==
  /\ scheduled = Len(Needs) /\ ending # <<>> /\ Head(ending) = k
  /\ \/ wake[k] = None /\ wake' = [wake EXCEPT ![k] = FALSE]
     \/ cancelled /\ UNCHANGED wake
  /\ ending' = Tail(ending)
  /\ UNCHANGED <<queueVars, store, closed, results, fetcher, scheduled, failed, cancelled, peerVars, faults>>

\* processHeaders leaves on cancelCh.
CancelHeaders ==
  /\ cancelled /\ ending # <<>> /\ scheduled < Len(Needs)
  /\ ending' = <<>>
  /\ UNCHANGED <<queueVars, store, closed, results, fetcher, wake, scheduled, failed, cancelled, peerVars, faults>>

HeadersDone == ending = <<>>

\* spawnSync closes the queue when only the consumer is left, or on an error,
\* which also cancels the others.
CloseQueue ==
  /\ ~closed
  /\ failed \/ (HeadersDone /\ \A k \in Kinds : fetcher[k].at = "done")
  /\ closed' = TRUE
  /\ cancelled' = (cancelled \/ failed)
  /\ results' = Signal(results, TRUE)
  /\ UNCHANGED <<queueVars, store, fetcher, wake, scheduled, ending, failed, peerVars, faults>>

-----------------------------------------------------------------------------
(* fetchParts                                                              *)

Resting == [at |-> "select", finished |-> FALSE, todo |-> {}, progressed |-> FALSE,
            throttled |-> FALSE, running |-> FALSE, all |-> FALSE]

\* Back to the select, with `finished' kept.
Rest(k) == [Resting EXCEPT !.finished = fetcher[k].finished]

CanFault == faults < MaxFaults

\* Requests that no answer is on its way to.
Unanswered(k) ==
  {p \in InFlight(k) : ~\E msg \in net : msg.kind = k /\ msg.peer = p /\ ~msg.late}

\* What peers in E still answer will not be to their present requests.
Outdated(k, E) == {IF msg.kind = k /\ msg.peer \in E THEN [msg EXCEPT !.late = TRUE] ELSE msg : msg \in net}

\* fetchParts leaves on cancelCh.
CancelFetch(k) ==
  /\ fetcher[k].at = "select" /\ cancelled
  /\ fetcher' = [fetcher EXCEPT ![k] = [Rest(k) EXCEPT !.at = "done"]]
  /\ UNCHANGED <<queueVars, store, closed, results, syncVars, peerVars, faults>>

Wake(k) ==
  /\ fetcher[k].at = "select" /\ wake[k] # None
  /\ wake' = [wake EXCEPT ![k] = None]
  /\ fetcher' = [fetcher EXCEPT ![k].finished = @ \/ wake[k] = FALSE]
  /\ UNCHANGED <<queueVars, store, closed, results, scheduled, ending, failed, cancelled, peerVars, faults>>

\* Mutant: a peer whose answer does not fit is not set idle, as the comment has it.
IdleIfFitting(fits) == fits

\* Whether a delivery sets its peer idle.  deliver wraps the error of the
\* validation and not errStaleDelivery, so that it always does.
SetsIdle(fits) == TRUE

\* An answer with the content of `good', followed by a bad item if `bad'.
Deliver(k, msg, good, bad) ==
  LET request  == pend[k][msg.peer]
      wanted   == request # {}
      accepted == AcceptedItems(request, good)
      empty    == good = {} /\ ~bad
  IN  /\ fetcher[k].at = "select"
      /\ msg \in net /\ msg.kind = k
      /\ bad => CanFault /\ good # msg.headers
      /\ faults' = IF bad THEN faults + 1 ELSE faults
      /\ net' = Outdated(k, {msg.peer}) \ {[msg EXCEPT !.late = TRUE]}
      /\ IF msg.peer \notin peers
         THEN UNCHANGED <<queueVars, store, results, busy, lacking>>
         ELSE /\ busy' = IF SetsIdle(accepted # {} \/ empty \/ ~wanted)
                         THEN [busy EXCEPT ![k] = @ \ {msg.peer}] ELSE busy
              /\ IF ~wanted
                 THEN UNCHANGED <<queueVars, store, results, lacking>>
                 ELSE /\ pend' = [pend EXCEPT ![k] = Unpend(pend[k], {msg.peer})]
                      /\ lacking' = IF empty THEN [lacking EXCEPT ![msg.peer] = @ \cup request]
                                             ELSE lacking
                      /\ store' = Reconstruct(k, accepted)
                      /\ taskPool' = [taskPool EXCEPT ![k] = @ \ accepted]
                      /\ tasks' = [tasks EXCEPT ![k] = PushAll(@, Leftover(request, accepted))]
                      /\ results' = Signal(results, accepted # {})
      /\ UNCHANGED <<closed, fetcher, syncVars, peers, dropped, revoking>>

\* At the end of a round: nobody has what is left.
Unavailable(f) == f.todo = {} /\ ~f.progressed /\ ~f.throttled /\ ~f.running /\ f.all

\* The loop over idle peers goes on, or ends the round.
Continue(f, bag) ==
  IF f.todo # {} /\ ~f.throttled /\ Queued(bag) # {} THEN f
  ELSE [Resting EXCEPT !.finished = f.finished, !.at = IF Unavailable(f) THEN "done" ELSE "select"]

\* The first part of a round: the requests of the peers in E time out, and the
\* task queue is looked at.  The peers in D are dealt with before fetchParts
\* returns, on account of the master peer.
Update(k, E, D) ==
  LET late  == E \ Unanswered(k)
      slow  == {p \in D \cap peers : Cardinality(pend[k][p]) > MinFetch}
      stall == (D \cap peers) \ slow
      new   == ReturnTasks(tasks[k], pend[k], E)
      idles == peers \ (busy[k] \ slow)
      begun == [Rest(k) EXCEPT !.at = "assign", !.todo = idles, !.all = (idles = peers),
                               !.running = (InFlight(k) \ E # {})]
      next  == IF peers = {} \/ Master \in stall THEN [Rest(k) EXCEPT !.at = "done"]
               ELSE IF Queued(new) # {} THEN Continue(begun, new)
               ELSE [Rest(k) EXCEPT !.at = IF fetcher[k].finished THEN "drained" ELSE "select"]
  IN  /\ fetcher[k].at = "select"
      /\ E \subseteq InFlight(k) /\ (peers = {} => E = {})
      /\ D = E \/ Master \in stall
      /\ faults + Cardinality(late) <= MaxFaults
      /\ faults' = faults + Cardinality(late)
      /\ net' = Outdated(k, E)
      /\ tasks' = [tasks EXCEPT ![k] = new]
      /\ pend' = [pend EXCEPT ![k] = Unpend(pend[k], E)]
      /\ busy' = [busy EXCEPT ![k] = @ \ slow]
      /\ dropped' = dropped \cup stall
      /\ fetcher' = [fetcher EXCEPT ![k] = next]
      /\ failed' = (failed \/ next.at = "done")
      /\ cancelled' = (cancelled \/ Master \in stall)
      /\ UNCHANGED <<taskPool, store, closed, results, wake, scheduled, ending, peers, revoking, lacking>>

\* Mutant: requests in flight are not waited for.
DrainedAtOnce(k) ==
  /\ fetcher[k].at = "drained"
  /\ fetcher' = [fetcher EXCEPT ![k] = [Rest(k) EXCEPT !.at = "done"]]
  /\ UNCHANGED <<queueVars, store, closed, results, syncVars, peerVars, faults>>

\* Nothing was queued; now inFlight is asked.
Drained(k) ==
  /\ fetcher[k].at = "drained"
  /\ fetcher' = [fetcher EXCEPT ![k] =
       IF InFlight(k) = {} /\ fetcher[k].finished THEN [Rest(k) EXCEPT !.at = "done"] ELSE Rest(k)]
  /\ UNCHANGED <<queueVars, store, closed, results, syncVars, peerVars, faults>>

\* The loop over idle peers after reserveHeaders gave r for peer p.
Reserved(k, p, r) ==
  LET f    == fetcher[k]
      next == Continue([f EXCEPT !.todo = @ \ {p}, !.progressed = @ \/ r.progress,
                                 !.throttled = r.throttled, !.running = @ \/ r.send # {}], r.tasks)
  IN  /\ tasks' = [tasks EXCEPT ![k] = r.tasks]
      /\ taskPool' = [taskPool EXCEPT ![k] = r.pool]
      /\ store' = r.store
      /\ results' = Signal(results, Queued(tasks[k]) # {} /\ pend[k][p] = {} /\ HasCompletedItems(r.store))
      /\ fetcher' = [fetcher EXCEPT ![k] = next]
      /\ failed' = (failed \/ next.at = "done")
      /\ IF r.send # {}
         THEN /\ pend' = [pend EXCEPT ![k][p] = r.send]
              /\ busy' = [busy EXCEPT ![k] = @ \cup {p}]
              /\ net' = net \cup {[kind |-> k, peer |-> p, headers |-> r.send, late |-> FALSE]}
         ELSE UNCHANGED <<pend, busy, net>>
      /\ UNCHANGED <<closed, wake, scheduled, ending, cancelled, peers, dropped, revoking, lacking, faults>>

\* One idle peer of the round gets a request, and is sent it.
Assign(k, p, count) ==
  /\ fetcher[k].at = "assign" /\ p \in fetcher[k].todo
  /\ Reserved(k, p, reserveHeaders(k, p, count))

-----------------------------------------------------------------------------
(* Peers                                                                   *)

\* The first part of UnregisterPeer.
Unregister(p) ==
  /\ p \in peers
  /\ p \in dropped \/ CanFault
  /\ faults' = IF p \in dropped THEN faults ELSE faults + 1
  /\ peers' = peers \ {p}
  /\ dropped' = dropped \ {p}
  /\ revoking' = revoking \cup {p}
  /\ UNCHANGED <<queueVars, store, closed, results, fetcher, syncVars, busy, lacking, net>>

\* The second part.
Revoke(p) ==
  LET asked(k) == InFlight(k) \cap {p}
  IN  /\ p \in revoking
      /\ revoking' = revoking \ {p}
      /\ tasks' = [k \in Kinds |-> ReturnTasks(tasks[k], pend[k], asked(k))]
      /\ pend' = [k \in Kinds |-> Unpend(pend[k], asked(k))]
      /\ UNCHANGED <<taskPool, store, closed, results, fetcher, syncVars, peers, dropped, busy,
                     lacking, net, faults>>

Init ==
  /\ tasks = [k \in Kinds |-> [h \in Headers |-> 0]]
  /\ taskPool = [k \in Kinds |-> {}]
  /\ pend = [k \in Kinds |-> [p \in Peers |-> {}]]
  /\ \E t \in Thresholds :
       store = [items |-> [i \in 1..CacheSize |-> None], offset |-> 1, incomplete |-> 0,
                threshold |-> Min({t, CacheSize})]
  /\ closed = FALSE
  /\ results = [at |-> "check", got |-> <<>>]
  /\ fetcher = [k \in Kinds |-> Resting]
  /\ wake = [k \in Kinds |-> None]
  /\ scheduled = 0
  /\ ending = <<Body, Receipt>>
  /\ peers = Peers
  /\ dropped = {} /\ revoking = {} /\ net = {}
  /\ busy = [k \in Kinds |-> {}]
  /\ lacking = [p \in Peers |-> {}]
  /\ failed = FALSE /\ cancelled = FALSE /\ faults = 0

\* What an answer to a request for hs may begin with.
Beginnings(hs) == {{x \in hs : x < h} : h \in hs} \cup {hs}

DeliverAny(k) ==
  \E msg \in net, bad \in BOOLEAN : \E good \in Beginnings(msg.headers) : Deliver(k, msg, good, bad)

TakeAny == \E t \in Thresholds, c \in 0..CacheSize : TakeResults(t, c)

Next ==
  \/ CheckResults \/ LockResults \/ Woken
  \/ TakeAny
  \/ ProcessHeaders \/ CancelHeaders \/ CloseQueue
  \/ \E k \in Kinds : EndHeaders(k)
  \/ \E k \in Kinds : CancelFetch(k)
  \/ \E k \in Kinds : Wake(k)
  \/ \E k \in Kinds : DeliverAny(k)
  \/ \E k \in Kinds : \E E \in SUBSET InFlight(k) : \E D \in SUBSET E : Update(k, E, D)
  \/ \E k \in Kinds : Drained(k)
  \/ \E k \in Kinds : \E p \in fetcher[k].todo, n \in Counts : Assign(k, p, n)
  \/ \E p \in peers : Unregister(p)
  \/ \E p \in revoking : Revoke(p)

Spec == Init /\ [][Next]_vars

Consume == CheckResults \/ LockResults \/ Woken \/ TakeAny

Lead == ProcessHeaders \/ CancelHeaders \/ CloseQueue \/ \E k \in Kinds : EndHeaders(k)

Leave == \E p \in Peers : (p \in dropped /\ Unregister(p)) \/ Revoke(p)

Receive ==
  \E k \in Kinds :
    \/ CancelFetch(k) \/ Wake(k)
    \/ \E msg \in net : ~msg.late /\ \E good \in Beginnings(msg.headers) : Deliver(k, msg, good, FALSE)

\* Unanswered requests are all looked at, unless nobody is left.
Tick ==
  \E k \in Kinds :
    LET E == IF peers = {} THEN {} ELSE Unanswered(k)
    IN  Update(k, E, E)

\* Every goroutine goes on and a round of fetchParts ends, for it has finitely
\* many steps.  A select does not forever prefer its ticker to a channel that
\* is ready, or the other way round; answers arrive unless they are late, and
\* requests without one time out.  A dropped peer is unregistered.
Fairness ==
  /\ WF_vars(Consume) /\ WF_vars(Lead) /\ WF_vars(Leave)
  /\ \A k \in Kinds : []<>(fetcher[k].at \in {"select", "done"})
  /\ SF_vars(Receive) /\ SF_vars(Tick)

FairSpec == Spec /\ Fairness

-----------------------------------------------------------------------------
(* Properties                                                              *)

\* Content still to be fetched is queued once or asked of one peer, and of no
\* more: timeouts, departures, short, bad and late answers lose and double none.
TasksExact ==
  \A k \in Kinds, h \in Headers :
    tasks[k][h] + Cardinality({p \in InFlight(k) : h \in pend[k][p]})
      = IF h \in taskPool[k] THEN 1 ELSE 0

\* deliver finds the result of every item asked for still in the store and
\* waiting for it: with a stale one reconstruct would follow a nil pointer.
InFlightHasSlot ==
  \A k \in Kinds : \A p \in InFlight(k) : \A h \in pend[k][p] :
    /\ Index(store, h) \in 0..(CacheSize - 1)
    /\ Slot(store, h) # None
    /\ k \in Slot(store, h).pending

\* Results hands out each block once, in order and complete, although
\* countCompleted does not look again at what it found complete before.
InOrder == \A i \in DOMAIN results.got : results.got[i] = [header |-> i, pending |-> {}]

\* Who waits in Results has been woken if there is something to take, be it an
\* empty block completed by a reservation, or if the queue is closed.
NoLostWakeup == results.at = "waiting" => ~HasCompletedItems(store) /\ ~closed

\* While no fetcher has failed, a registered peer that counts as busy has a
\* request pending or is being dropped: otherwise nothing would ever make it
\* idle again, and fetchParts would neither use it nor count it as failing.
BusyHasRequest ==
  ~failed => \A k \in Kinds : \A p \in busy[k] \cap peers : pend[k][p] # {} \/ p \in dropped

\* Without an error and with all peers still there, the sync ends with all
\* blocks handed out.
CompleteWithPeers ==
  (results.at = "done" /\ ~failed /\ peers = Peers) => Len(results.got) = Len(Needs)

\* Whatever is lost, late or bad, and whoever leaves, the sync comes to an end:
\* complete, or with an error.
SyncEnds == <>(results.at = "done")

\* Without an error, the sync ends with all blocks handed out: fetchParts uses
\* inFlight to "wait for all active downloads to finish".
Complete == (results.at = "done" /\ ~failed) => Len(results.got) = Len(Needs)

=============================================================================
