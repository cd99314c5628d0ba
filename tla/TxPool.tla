------------------------------- MODULE TxPool -------------------------------
(***************************************************************************)
(* The transaction pool of core/tx_pool.go with its lists (tx_list.go),    *)
(* virtual nonces (tx_noncer.go) and journal (tx_journal.go).              *)
(*                                                                         *)
(* `pool' is what TxPool.mu protects.  A map from accounts to lists is the *)
(* set of the transactions in the lists: the code deletes a list as soon   *)
(* as it is empty, so a missing list and an empty one are the same.  The   *)
(* methods that run under the lock are operators from pools to pools; an   *)
(* action applies one of them.  Around the lock run the callers of addTxs, *)
(* the main loop, scheduleReorgLoop (`sched') and one runReorg goroutine   *)
(* (`run'), which works under the lock first and announces afterwards.     *)
(*                                                                         *)
(* Transactions are those that pass the checks of validateTx on size,      *)
(* type, signature and gas; gas limits act like costs and are left out, as *)
(* are I/O errors of the journal, the metrics and Stop.                    *)
(***************************************************************************)
EXTENDS Integers, FiniteSets, FiniteSetsExt, SequencesExt, Functions

CONSTANTS
  Accounts,
  Tx,            \* transactions by hash: from, nonce, feeCap, tip, cost, slots
  Blocks,
  Genesis,
  Parent,        \* the parent of each block but Genesis
  Number,        \* the height of each block
  Included,      \* the transactions of each block, in order
  Balance,       \* the balance of each account after each block
  BaseFee,       \* misc.CalcBaseFee for the child of each block
  London,        \* chainconfig.IsLondon
  Prices,        \* the thresholds SetGasPrice is called with
  PriceLimit, PriceBump, AccountSlots, GlobalSlots, AccountQueue, GlobalQueue,
  Lost,          \* the sets of blocks that SetHead may have deleted
  MaxReorgDepth, \* 64 in reset
  Remotely,      \* the batches AddRemotes is called with
  Locally,       \* the batches AddLocals is called with
  MaxInputs,     \* bound: calls, ticks, ChainHeadEvents and crashes
  MaxCallers,    \* bound: addTxs calls that have not requested promotion
  None           \* no request, no base fee

Txs == DOMAIN Tx

ASSUME TxPoolAssumption ==
  /\ \A t \in Txs : Tx[t].from \in Accounts /\ Tx[t].slots \in Nat \ {0}
  /\ \A t, u \in Txs :
       (<<Tx[t].feeCap, Tx[t].tip, Tx[t].nonce>> = <<Tx[u].feeCap, Tx[u].tip, Tx[u].nonce>>) => t = u
  /\ PriceLimit > 0 /\ PriceBump > 0 /\ AccountSlots > 0 /\ GlobalSlots > 0
  /\ AccountQueue > 0 /\ GlobalQueue > 0

VARIABLES
  pool,       \* the fields of TxPool, the journal file, and queuedEvents
  asking,     \* dirty sets that addTxs is about to send to reqPromoteCh
  head,       \* the head block known to the main loop
  sched,      \* launchNextRun, reset and dirtyAccounts of scheduleReorgLoop
  run,        \* the runReorg goroutine
  announced,  \* history: transactions sent to txFeed since they came
  spoiled,    \* history: a reset failed or did not reinject a transaction
  inputs,     \* how many calls, ticks, ChainHeadEvents and crashes there were
  restarts    \* how often the process was restarted

vars == <<pool, asking, head, sched, run, announced, spoiled, inputs, restarts>>

-----------------------------------------------------------------------------
(* The chain                                                               *)

BranchOf[b \in Blocks] == IF b = Genesis THEN {b} ELSE {b} \cup BranchOf[Parent[b]]

MinedBy == [b \in Blocks |-> UNION {ToSet(Included[c]) : c \in BranchOf[b]}]

NonceAfter ==
  [b \in Blocks |-> [a \in Accounts |-> Cardinality({t \in MinedBy[b] : Tx[t].from = a})]]

GetNonce(b, a) == NonceAfter[b][a]

GetBalance(b, a) == Balance[b][a]

-----------------------------------------------------------------------------
(* Lists of transactions                                                   *)

Of(list, a) == {t \in list : Tx[t].from = a}

Overlaps(list, t) == {o \in list : Tx[o].from = Tx[t].from /\ Tx[o].nonce = Tx[t].nonce}

ByNonce(list) == SetToSortSeq(list, LAMBDA t, u : Tx[t].nonce < Tx[u].nonce)

Bumped(price) == (price * (100 + PriceBump)) \div 100

\* Whether txList.Add inserts t.
Accepts(list, t) ==
  \A o \in Overlaps(list, t) :
    /\ Tx[o].feeCap < Tx[t].feeCap /\ Tx[o].tip < Tx[t].tip
    /\ Tx[t].feeCap >= Bumped(Tx[o].feeCap) /\ Tx[t].tip >= Bumped(Tx[o].tip)

Put(list, t) == (list \ Overlaps(list, t)) \cup {t}

Forward(list, threshold) == {t \in list : Tx[t].nonce < threshold}

Lowest(list) == Min({Tx[t].nonce : t \in list})

\* Mutant: a run may start above the next nonce.
ReadyAnywhere(list, start) ==
  {t \in list : \A n \in Lowest(list)..Tx[t].nonce : \E u \in list : Tx[u].nonce = n}

Ready(list, start) ==
  IF list = {} \/ (list # {} /\ Lowest(list) > start) THEN {}
  ELSE {t \in list : \A n \in Lowest(list)..Tx[t].nonce : \E u \in list : Tx[u].nonce = n}

Cap(list, threshold) ==
  {t \in list : Cardinality({u \in list : Tx[u].nonce < Tx[t].nonce}) >= threshold}

\* Mutant: costcap is not raised by a new transaction.
CapsKept(caps, t) == caps

\* costcap of every list after txList.Add of t to one of them.
Capped(caps, t) == [caps EXCEPT ![Tx[t].from] = Max({@, Tx[t].cost})]

\* The transactions txList.Filter removes, with the short circuit on costcap.
Unpayable(list, costcap, costLimit) ==
  IF costcap <= costLimit THEN {} ELSE {t \in list : Tx[t].cost > costLimit}

-----------------------------------------------------------------------------
(* The lookup set and the price heaps                                      *)

All(p) == p.locals \cup p.remotes

SlotsOf(S) == Cardinality(UNION {{t} \X (1..Tx[t].slots) : t \in S})

Lookup(p, t, local) ==
  IF local THEN [p EXCEPT !.locals = @ \cup {t}]
           ELSE [p EXCEPT !.remotes = @ \cup {t}]

Forget(p, S) == [p EXCEPT !.locals = @ \ S, !.remotes = @ \ S]

EmptyHeap == [t \in Txs |-> 0]

Size(heap) == Cardinality(UNION {{t} \X (1..heap[t]) : t \in Txs})

Held(heap) == {t \in Txs : heap[t] > 0}

EffectiveTip(t, fee) == Min({Tx[t].tip, Tx[t].feeCap - fee})

\* priceHeap.cmp: the keys of a and b, most significant first.
PriceKey(t, fee) ==
  IF fee = None THEN <<Tx[t].feeCap, Tx[t].tip>> ELSE <<EffectiveTip(t, fee), Tx[t].feeCap, Tx[t].tip>>

Below(k, l) ==
  \E i \in DOMAIN k : k[i] < l[i] /\ \A j \in 1..(i - 1) : k[j] = l[j]

Before(k, l, tie) == Below(k, l) \/ (k = l /\ tie)

Less(t, u, fee) == Before(PriceKey(t, fee), PriceKey(u, fee), Tx[t].nonce > Tx[u].nonce)

Cheapest(S, fee) == CHOOSE t \in S : \A u \in S \ {t} : Less(t, u, fee)

Pop(heap, t) == [heap EXCEPT ![t] = @ - 1]

Push(heap, t) == [heap EXCEPT ![t] = @ + 1]

Heaped(p, floating) ==
  [p EXCEPT
     !.stales   = 0,
     !.urgent   = [t \in Txs |-> IF t \in p.remotes \ floating THEN 1 ELSE 0],
     !.floating = [t \in Txs |-> IF t \in floating THEN 1 ELSE 0]]

\* The cheapest fifth goes to floating.
Reheap(p) ==
  Heaped(p, {t \in p.remotes : Cardinality({u \in p.remotes : Less(u, t, p.baseFee)})
                                 < Cardinality(p.remotes) \div 5})

ReheapIfStale(p) ==
  IF p.stales <= (Size(p.urgent) + Size(p.floating)) \div 4 THEN p ELSE Reheap(p)

Removed(p, count) == ReheapIfStale([p EXCEPT !.stales = @ + count])

PricedPut(p, t, local) == IF local THEN p ELSE [p EXCEPT !.urgent = Push(@, t)]

\* underpricedFor drops stale entries from the top of a heap first.
RECURSIVE Skim(_, _, _)
Skim(p, heap, fee) ==
  LET t == Cheapest(Held(heap), fee)
  IN  IF Held(heap) = {} \/ t \in p.remotes THEN heap ELSE Skim(p, Pop(heap, t), fee)

\* In a heap that is skimmed; an empty one says nothing against t.
WorseThan(t, heap, fee) ==
  Held(heap) = {} \/ ~Below(PriceKey(Cheapest(Held(heap), fee), fee), PriceKey(t, fee))

Swept(p, urgent, floating) ==
  [p EXCEPT
     !.urgent   = urgent,
     !.floating = floating,
     !.stales   = @ - (Size(p.urgent) - Size(urgent)) - (Size(p.floating) - Size(floating))]

\* Underpriced looks at floating only if urgent does not decide.
SkimmedAfter(p, t, urgent) ==
  Swept(p, urgent, IF WorseThan(t, urgent, p.baseFee) THEN Skim(p, p.floating, None) ELSE p.floating)

\* The heaps after Underpriced.
Skimmed(p, t) == SkimmedAfter(p, t, Skim(p, p.urgent, p.baseFee))

Underpriced(p, t) ==
  /\ Held(p.urgent) \cup Held(p.floating) # {}
  /\ WorseThan(t, p.urgent, p.baseFee) /\ WorseThan(t, p.floating, None)

\* One transaction of the loop of Discard; d holds the pool, the slots still
\* wanted and the drops.
DiscardUrgent(d, t) ==
  LET q == [d.pool EXCEPT !.urgent = Pop(@, t)]
  IN  IF t \notin q.remotes THEN [d EXCEPT !.pool = [q EXCEPT !.stales = @ - 1]]
      ELSE [d EXCEPT !.pool = [q EXCEPT !.floating = Push(@, t)]]

DiscardFloating(d, t) ==
  LET q == [d.pool EXCEPT !.floating = Pop(@, t)]
  IN  IF t \notin q.remotes THEN [d EXCEPT !.pool = [q EXCEPT !.stales = @ - 1]]
      ELSE [pool |-> q, slots |-> d.slots - Tx[t].slots, drop |-> Append(d.drop, t)]

DiscardNext(d, p) ==
  IF Size(p.urgent) > 4 * Size(p.floating)
  THEN DiscardUrgent(d, Cheapest(Held(p.urgent), p.baseFee))
  ELSE DiscardFloating(d, Cheapest(Held(p.floating), None))

\* The loop.
RECURSIVE Discarding(_)
Discarding(d) ==
  IF d.slots <= 0 \/ Size(d.pool.urgent) + Size(d.pool.floating) = 0 THEN d
  ELSE Discarding(DiscardNext(d, d.pool))

\* Without force what was found is put back if it is not enough.
Concluded(d, force) ==
  IF d.slots > 0 /\ ~force
  THEN [pool |-> [d.pool EXCEPT !.urgent = FoldLeft(Push, @, d.drop)],
        drop |-> <<>>, success |-> FALSE]
  ELSE [pool |-> d.pool, drop |-> d.drop, success |-> TRUE]

Discard(p, slots, force) ==
  Concluded(Discarding([pool |-> p, slots |-> slots, drop |-> <<>>]), force)

-----------------------------------------------------------------------------
(* Moving transactions between the lists                                   *)

\* An account's last heartbeat is its place in the order of heartbeats.
Beat(beats, a) == Append(Remove(beats, a), a)

\* What goes with a queue list that became empty.
Vacate(p, a) ==
  IF Of(p.queue, a) # {} THEN p
  ELSE [p EXCEPT !.beats = Remove(@, a), !.queueCap[a] = 0]

Unlist(p, a) == IF Of(p.pending, a) # {} THEN p ELSE [p EXCEPT !.pendingCap[a] = 0]

\* The transactions that a new one replaced go.
Supersede(p, old) == IF old = {} THEN p ELSE Removed(Forget(p, old), 1)

\* A transaction is entered in the lookup set and the price heaps.
Enter(p, t, local) == PricedPut(Lookup(p, t, local), t, local)

FirstBeat(p, a) == IF Contains(p.beats, a) THEN p ELSE [p EXCEPT !.beats = Beat(@, a)]

enqueueTx(p, t, local, addAll) ==
  LET q == Supersede([p EXCEPT !.queue = Put(@, t), !.queueCap = Capped(@, t)], Overlaps(p.queue, t))
  IN  IF ~Accepts(p.queue, t) THEN p
      ELSE FirstBeat(IF addAll THEN Enter(q, t, local) ELSE q, Tx[t].from)

\* Mutant: transactions that are no longer executable are dropped from the lists.
PostponeNone(p, list) == p

\* The internal shuffle of transactions that are no longer executable.
Postpone(p, list) == FoldLeft(LAMBDA q, t : enqueueTx(q, t, FALSE, FALSE), p, ByNonce(list))

setIfLower(p, a, nonce) == IF p.nonces[a] <= nonce THEN p ELSE [p EXCEPT !.nonces[a] = nonce]

removeTx(p, t, outofbound) ==
  LET q        == IF outofbound THEN Removed(Forget(p, {t}), 1) ELSE Forget(p, {t})
      invalids == {i \in Of(p.pending, Tx[t].from) : Tx[i].nonce > Tx[t].nonce}
      kept     == [q EXCEPT !.pending = @ \ (Overlaps(@, t) \cup invalids)]
  IN  IF t \notin All(p) THEN p
      ELSE IF Overlaps(p.pending, t) # {}
      THEN setIfLower(Postpone(Unlist(kept, Tx[t].from), invalids), Tx[t].from, Tx[t].nonce)
      ELSE IF Of(p.queue, Tx[t].from) = {} THEN q
      ELSE Vacate([q EXCEPT !.queue = @ \ Overlaps(@, t)], Tx[t].from)

RemoveEach(p, txs, outofbound) == FoldLeft(LAMBDA q, t : removeTx(q, t, outofbound), p, txs)

promoteTx(p, t) ==
  IF ~Accepts(p.pending, t) THEN Removed(Forget(p, {t}), 1)
  ELSE [Supersede(p, Overlaps(p.pending, t)) EXCEPT
          !.pending = Put(@, t), !.pendingCap = Capped(@, t),
          !.nonces[Tx[t].from] = Tx[t].nonce + 1, !.beats = Beat(@, Tx[t].from)]

-----------------------------------------------------------------------------
(* Adding a transaction                                                    *)

validateTx(p, t, local) ==
  /\ local \/ Tx[t].tip >= p.gasPrice
  /\ GetNonce(p.state, Tx[t].from) <= Tx[t].nonce
  /\ Tx[t].cost <= GetBalance(p.state, Tx[t].from)

Full(p, t) == SlotsOf(All(p)) + Tx[t].slots > GlobalSlots + GlobalQueue

journalTx(p, t) == IF Tx[t].from \in p.accounts THEN [p EXCEPT !.journal = @ \cup {t}] ELSE p

\* Mutant: a replacement is not announced.
QueueNoEvent(p, t) == p

\* queueTxEvent: queuedEvents has one transaction per account and nonce.
queueTxEvent(p, t) == [p EXCEPT !.queued = Put(@, t)]

\* The account of a local transaction becomes local with all it has.
Whitelist(p, a) ==
  LET migrated == Of(p.remotes, a)
  IN  IF a \in p.accounts THEN p
      ELSE Removed([p EXCEPT !.accounts = @ \cup {a}, !.locals = @ \cup migrated,
                             !.remotes = @ \ migrated], Cardinality(migrated))

\* Results of add: the pool, whether it took t and whether t replaced another.
Refused(p) == [pool |-> p, added |-> FALSE, replaced |-> FALSE]

\* add replaces a pending transaction, ...
InsertPending(p, t, isLocal) ==
  LET q == Supersede([p EXCEPT !.pending = Put(@, t), !.pendingCap = Capped(@, t)],
                     Overlaps(p.pending, t))
      r == journalTx(Enter(q, t, isLocal), t)
  IN  IF ~Accepts(p.pending, t) THEN Refused(p)
      ELSE [pool |-> queueTxEvent([r EXCEPT !.beats = Beat(@, Tx[t].from)], t),
            added |-> TRUE, replaced |-> TRUE]

\* ... or puts the new one into the queue.
InsertQueue(p, t, local, isLocal) ==
  LET q == enqueueTx(p, t, isLocal, TRUE)
  IN  IF ~Accepts(p.queue, t) THEN Refused(p)
      ELSE [pool |-> journalTx(IF local THEN Whitelist(q, Tx[t].from) ELSE q, t),
            added |-> TRUE, replaced |-> Overlaps(p.queue, t) # {}]

\* The part of add after room was made.
Insert(p, t, local, isLocal) ==
  IF Overlaps(p.pending, t) # {} THEN InsertPending(p, t, isLocal)
  ELSE InsertQueue(p, t, local, isLocal)

\* Room was made by dropping room.drop, or was not found.
Replace(room, t, local, isLocal) ==
  IF ~isLocal /\ ~room.success THEN Refused(room.pool)
  ELSE Insert(RemoveEach(room.pool, room.drop, FALSE), t, local, isLocal)

Displace(p, t, local, isLocal) ==
  Replace(Discard(p, SlotsOf(All(p)) + Tx[t].slots - GlobalSlots - GlobalQueue, isLocal),
          t, local, isLocal)

\* add of a remote transaction to a full pool p, whose heaps are skimmed.
Compete(p, t) == IF Underpriced(p, t) THEN Refused(p) ELSE Displace(p, t, FALSE, FALSE)

add(p, t, local) ==
  LET isLocal == local \/ Tx[t].from \in p.accounts
  IN  IF t \in All(p) \/ ~validateTx(p, t, isLocal) THEN Refused(p)
      ELSE IF ~Full(p, t) THEN Insert(p, t, local, isLocal)
      ELSE IF isLocal THEN Displace(p, t, local, TRUE)
      ELSE Compete(Skimmed(p, t), t)

\* The accounts to promote, which add left dirty.
Dirtied(dirty, t, result) ==
  [pool |-> result.pool,
   dirty |-> dirty \cup IF result.added /\ ~result.replaced THEN {Tx[t].from} ELSE {}]

addTxsLocked(p, txs, local) ==
  FoldLeft(LAMBDA r, t : Dirtied(r.dirty, t, add(r.pool, t, local)), [pool |-> p, dirty |-> {}], txs)

-----------------------------------------------------------------------------
(* Reorganising the pool                                                   *)

Distance(n, m) == IF n > m THEN n - m ELSE m - n

\* discarded of reset, from the old head down to the common ancestor.
RECURSIVE Discarded(_, _)
Discarded(old, new) ==
  IF old \in BranchOf[new] THEN <<>> ELSE Included[old] \o Discarded(Parent[old], new)

reinject(old, new) == SelectSeq(Discarded(old, new), LAMBDA t : t \notin MinedBy[new])

\* The blocks reset asks for, the new head aside.
Walked(old, new) ==
  LET apart == (BranchOf[old] \ BranchOf[new]) \cup (BranchOf[new] \ BranchOf[old])
  IN  (apart \cup {Parent[b] : b \in apart \ {Genesis}}) \ {new}

NeedsWalk(old, new) ==
  /\ new = Genesis \/ (new # Genesis /\ old # Parent[new])
  /\ Distance(Number[old], Number[new]) <= MaxReorgDepth

\* reset returns early: blocks in `lost' are not found, or the state is not.
ResetFails(old, new, lost, stateLost) ==
  \/ /\ NeedsWalk(old, new)
     /\ IF old \in lost THEN Number[new] >= Number[old] ELSE Walked(old, new) \cap lost # {}
  \/ stateLost

Reinjected(old, new, lost) ==
  IF NeedsWalk(old, new) /\ old \notin lost THEN reinject(old, new) ELSE <<>>

reset(p, old, new, lost, stateLost) ==
  IF ResetFails(old, new, lost, stateLost) THEN p
  ELSE addTxsLocked([p EXCEPT !.state = new, !.nonces = NonceAfter[new]],
                    Reinjected(old, new, lost), FALSE).pool

promote(p, a) ==
  LET balance  == GetBalance(p.state, a)
      list     == Of(p.queue, a)
      forwards == Forward(list, GetNonce(p.state, a))
      drops    == Unpayable(list \ forwards, p.queueCap[a], balance)
      payable  == list \ (forwards \cup drops)
      readies  == Ready(payable, p.nonces[a])
      caps     == IF a \in p.accounts THEN {} ELSE Cap(payable \ readies, AccountQueue)
      q        == Forget([p EXCEPT !.queue = @ \ (forwards \cup drops \cup readies),
                                   !.queueCap[a] = Min({@, balance})], forwards \cup drops)
      r        == FoldLeft(promoteTx, q, ByNonce(readies))
      s        == Forget([r EXCEPT !.queue = @ \ caps], caps)
  IN  IF list = {} THEN p
      ELSE Vacate(Removed(s, Cardinality(forwards) + Cardinality(drops) + Cardinality(caps)), a)

promoteExecutables(p, addrs) == FoldLeft(promote, p, addrs)

demote(p, a) ==
  LET nonce    == GetNonce(p.state, a)
      balance  == GetBalance(p.state, a)
      list     == Of(p.pending, a)
      olds     == Forward(list, nonce)
      drops    == Unpayable(list \ olds, p.pendingCap[a], balance)
      payable  == list \ (olds \cup drops)
      invalids == IF drops = {} THEN {} ELSE {t \in payable : Tx[t].nonce > Lowest(drops)}
      valid    == payable \ invalids
      gapped   == IF \E t \in valid : Tx[t].nonce = nonce THEN {} ELSE valid
      q        == Forget([p EXCEPT !.pending = @ \ (list \ (valid \ gapped)),
                                   !.pendingCap[a] = Min({@, balance})], olds \cup drops)
  IN  IF list = {} THEN p ELSE Unlist(Postpone(q, invalids \cup gapped), a)

demoteUnexecutables(p, order) == FoldLeft(demote, p, order)

SetBaseFee(p, fee) == Reheap([p EXCEPT !.baseFee = fee])

Listed(p, a) == Cardinality(Of(p.pending, a))

\* One transaction less for each of the offenders.
RECURSIVE Reduce(_, _, _)
Reduce(p, offenders, threshold) ==
  LET shave(q, a) ==
        LET caps == Cap(Of(q.pending, a), Listed(q, a) - 1)
        IN  Removed(setIfLower(Forget([q EXCEPT !.pending = @ \ caps], caps), a, Lowest(caps)), 1)
  IN  IF Cardinality(p.pending) > GlobalSlots /\ Listed(p, Last(offenders)) > threshold
      THEN Reduce(FoldLeft(shave, p, offenders), offenders, threshold)
      ELSE p

\* The largest transactor; `order' decides between equals.
Largest(p, spammers, order) ==
  LET most == {a \in spammers : \A b \in spammers : Listed(p, a) >= Listed(p, b)}
  IN  Head(SelectSeq(order, LAMBDA a : a \in most))

\* The largest transactors first, each batch cut down to the next one's size.
RECURSIVE Penalize(_, _, _, _)
Penalize(p, offenders, spammers, order) ==
  LET next == Largest(p, spammers, order)
      q    == IF offenders = <<>> THEN p ELSE Reduce(p, offenders, Listed(p, next))
  IN  IF Cardinality(p.pending) > GlobalSlots /\ spammers # {}
      THEN Penalize(q, Append(offenders, next), spammers \ {next}, order)
      ELSE IF offenders = <<>> THEN p
      ELSE Reduce(p, offenders, AccountSlots)

\* Mutant: accounts at the allowance plus one are spared.
TruncateFew(p, order) ==
  Penalize(p, <<>>, {a \in Accounts \ p.accounts : Listed(p, a) > AccountSlots + 1}, order)

truncatePending(p, order) ==
  Penalize(p, <<>>, {a \in Accounts \ p.accounts : Listed(p, a) > AccountSlots}, order)

\* The loop of truncateQueue.
RECURSIVE Drop(_, _, _)
Drop(p, addresses, drop) ==
  LET list == Of(p.queue, Last(addresses))
      size == Cardinality(list)
      cut  == IF size <= drop THEN list ELSE Cap(list, size - drop)
  IN  IF drop <= 0 \/ addresses = <<>> THEN p
      ELSE Drop(RemoveEach(p, Reverse(ByNonce(cut)), TRUE), Front(addresses), drop - size)

\* Mutant: local accounts are not exempt.
TruncateAll(p) ==
  Drop(p, SetToSeq({Tx[t].from : t \in p.queue}), Cardinality(p.queue) - GlobalQueue)

\* Ascending by heartbeat; an account with none comes first.
truncateQueue(p) ==
  LET remote   == {Tx[t].from : t \in p.queue} \ p.accounts
      silent   == SetToSeq({a \in remote : ~Contains(p.beats, a)})
      byBeat   == silent \o SelectSeq(p.beats, LAMBDA a : a \in remote)
  IN  Drop(p, byBeat, Cardinality(p.queue) - GlobalQueue)

LatestNonces(p) ==
  [p EXCEPT !.nonces = [a \in Accounts |->
     IF Of(p.pending, a) = {} THEN @[a] ELSE Max({Tx[t].nonce : t \in Of(p.pending, a)}) + 1]]

-----------------------------------------------------------------------------
(* The goroutines                                                          *)

Idle == [phase |-> "none", reset |-> None, dirty |-> {}, events |-> {}]

NoRequest == [launch |-> FALSE, reset |-> None, dirty |-> {}]

NewPool(b) ==
  [pending |-> {}, queue |-> {}, pendingCap |-> [a \in Accounts |-> 0],
   queueCap |-> [a \in Accounts |-> 0], locals |-> {}, remotes |-> {}, accounts |-> {},
   urgent |-> EmptyHeap, floating |-> EmptyHeap, stales |-> 0, baseFee |-> None,
   nonces |-> NonceAfter[b], state |-> b, beats |-> <<>>, gasPrice |-> PriceLimit,
   journal |-> {}, queued |-> {}]

Init ==
  /\ pool = NewPool(Genesis)
  /\ asking = {}
  /\ head = Genesis
  /\ sched = NoRequest
  /\ run = Idle
  /\ announced = {}
  /\ restarts = 0 /\ inputs = 0
  /\ spoiled = FALSE

\* The top of scheduleReorgLoop's loop, after the request s and with pool p.
Schedule(s, r, p) ==
  IF r.phase = "none" /\ s.launch
  THEN /\ run' = [phase |-> "start", reset |-> s.reset, events |-> p.queued,
                  dirty |-> IF s.reset = None THEN s.dirty ELSE {}]
       /\ sched' = NoRequest
       /\ pool' = [p EXCEPT !.queued = {}]
  ELSE /\ run' = r /\ sched' = s /\ pool' = p

\* A transaction that left the pool has to be announced again when it returns.
StillKnown == announced' = announced \cap All(pool')

\* What comes from outside is counted.
Counted == inputs < MaxInputs /\ inputs' = inputs + 1

\* addTxs up to the request for promotion.
addTxs(txs, local) ==
  LET news == SelectSeq(txs, LAMBDA t : t \notin All(pool))
  IN  /\ news # <<>> /\ Counted
      /\ \E result \in {addTxsLocked(pool, news, local)} :
           /\ Cardinality(asking \cup {result.dirty}) <= MaxCallers
           /\ pool' = result.pool
           /\ asking' = asking \cup {result.dirty}
      /\ StillKnown
      /\ UNCHANGED <<head, sched, run, spoiled, restarts>>

requestPromoteExecutables(dirty) ==
  /\ dirty \in asking
  /\ asking' = asking \ {dirty}
  /\ Schedule([sched EXCEPT !.launch = TRUE, !.dirty = @ \cup dirty], run, pool)
  /\ UNCHANGED <<head, announced, spoiled, inputs, restarts>>

\* The main loop on a ChainHeadEvent.
requestReset(b) ==
  LET request == IF sched.reset = None THEN [old |-> head, new |-> b]
                                       ELSE [sched.reset EXCEPT !.new = b]
  IN  /\ b # head /\ Counted
      /\ head' = b
      /\ Schedule([sched EXCEPT !.launch = TRUE, !.reset = request], run, pool)
      /\ UNCHANGED <<asking, announced, spoiled, restarts>>

\* runReorg under the lock: the pool reset, if there is a request for it, ...
Refreshed(p, request, lost, stateLost) ==
  IF request = None THEN p ELSE reset(p, request.old, request.new, lost, stateLost)

\* ... its transactions promoted; `order' is the order of iteration over the maps, ...
Promoted(p, request, dirty, order) ==
  LET addrs == IF request = None THEN dirty ELSE {Tx[t].from : t \in p.queue}
  IN  promoteExecutables(p, SelectSeq(order, LAMBDA a : a \in addrs))

\* ... after a reset demoted, and the heaps rebuilt under London rules, ...
Demoted(p, request, order) ==
  IF request = None THEN p
  ELSE IF ~London THEN demoteUnexecutables(p, order)
  ELSE SetBaseFee(demoteUnexecutables(p, order), BaseFee[request.new])

\* ... and brought within the limits.
Settled(p, request, order) ==
  LatestNonces(truncateQueue(truncatePending(Demoted(p, request, order), order)))

\* Orders of iteration over a map by account.
Orders == SetToSeqs(Accounts)

\* Which blocks and whether the state of the new head are gone by now.
ChainFaults ==
  IF run.reset = None THEN {<<{}, FALSE>>}
  ELSE {l \in Lost : run.reset.new \notin l} \X BOOLEAN

Spoils(request, p, lost, stateLost) ==
  /\ request # None
  /\ \/ ResetFails(request.old, request.new, lost, stateLost)
     \/ ~ToSet(reinject(request.old, request.new)) \subseteq All(p)

runReorg(order, lost, stateLost) ==
  /\ run.phase = "start"
  /\ \E fresh \in {Refreshed(pool, run.reset, lost, stateLost)} :
     \E promoted \in {Promoted(fresh, run.reset, run.dirty, order)} :
       LET events == {t \in run.events : run.reset = None \/ Tx[t].nonce >= fresh.nonces[Tx[t].from]}
       IN  /\ pool' = Settled(promoted, run.reset, order)
           /\ run' = [Idle EXCEPT !.phase = "unlocked",
                        !.events = FoldLeft(Put, events, SetToSeq(promoted.pending \ fresh.pending))]
           /\ spoiled' = (spoiled \/ Spoils(run.reset, fresh, lost, stateLost))
  /\ StillKnown
  /\ UNCHANGED <<asking, head, sched, inputs, restarts>>

\* The feed is served, done is closed and the loop sees curDone.
announce ==
  /\ run.phase = "unlocked"
  /\ announced' = (announced \cup run.events) \cap All(pool)
  /\ Schedule(sched, Idle, pool)
  /\ UNCHANGED <<asking, head, spoiled, inputs, restarts>>

\* The eviction tick: heartbeats older than Lifetime are the first ones.
evict(n, order) ==
  LET expired == {a \in Accounts \ pool.accounts :
                    \/ ~Contains(pool.beats, a)
                    \/ \E i \in 1..n : pool.beats[i] = a}
      gone    == {t \in pool.queue : Tx[t].from \in expired}
  IN  /\ gone # {} /\ Counted
      /\ pool' = FoldLeft(LAMBDA p, a : RemoveEach(p, ByNonce(Of(gone, a)), TRUE), pool, order)
      /\ StillKnown
      /\ UNCHANGED <<asking, head, sched, run, spoiled, restarts>>

local(p) == {t \in p.pending \cup p.queue : Tx[t].from \in p.accounts}

Rotated(p) == [p EXCEPT !.journal = local(p)]

\* The journal tick.
rotate ==
  /\ Counted
  /\ pool' = Rotated(pool)
  /\ UNCHANGED <<asking, head, sched, run, announced, spoiled, restarts>>

\* What is below the price is dropped in any order.
SetGasPrice(price) ==
  LET q    == [pool EXCEPT !.gasPrice = price]
      drop == {t \in pool.remotes : Tx[t].tip < price}
  IN  /\ price # pool.gasPrice /\ Counted
      /\ IF price <= pool.gasPrice THEN pool' = q
         ELSE \E txs \in SetToSeqs(drop) :
                pool' = Removed(RemoveEach(q, txs, FALSE), Cardinality(drop))
      /\ StillKnown
      /\ UNCHANGED <<asking, head, sched, run, spoiled, restarts>>

\* The process dies and NewTxPool loads the journal, in any order, with its
\* writer discarding; AddLocals waits for the reorganisation; rotate follows.
Restart(order) ==
  /\ Counted /\ restarts' = restarts + 1
  /\ \E txs \in SetToSeqs(pool.journal) :
       LET loaded == addTxsLocked(NewPool(head), txs, TRUE).pool
       IN  pool' = [Rotated(Settled(Promoted(loaded, None, Accounts, order), None, order))
                      EXCEPT !.queued = {}]
  /\ asking' = {}
  /\ sched' = NoRequest
  /\ run' = Idle
  /\ announced' = pool'.pending
  /\ spoiled' = FALSE
  /\ UNCHANGED head

Next ==
  \/ \E txs \in Remotely : addTxs(txs, FALSE)
  \/ \E txs \in Locally : addTxs(txs, TRUE)
  \/ \E dirty \in asking : requestPromoteExecutables(dirty)
  \/ \E b \in Blocks : requestReset(b)
  \/ \E order \in Orders, f \in ChainFaults : runReorg(order, f[1], f[2])
  \/ announce
  \/ \E n \in 0..Len(pool.beats), order \in Orders : evict(n, order)
  \/ rotate
  \/ \E price \in Prices : SetGasPrice(price)
  \/ \E order \in Orders : Restart(order)

Spec == Init /\ [][Next]_vars

-----------------------------------------------------------------------------
(* Properties                                                              *)

\* The tables agree, whatever add, removeTx, promoteExecutables,
\* demoteUnexecutables and the truncations move around: pool.all is exactly
\* pending and queue, a transaction is in one of them, and an account has one
\* transaction per nonce.  Under London rules a remote transaction is on one of
\* the two price heaps, once, so that Discard neither misses it nor counts it
\* twice.  An account with queued transactions has a heartbeat, without which
\* the next eviction tick would drop its queue whatever its age.
LookupExact ==
  /\ All(pool) = pool.pending \cup pool.queue
  /\ pool.locals \cap pool.remotes = {}
  /\ pool.pending \cap pool.queue = {}
  /\ \A t, u \in All(pool) : Tx[t].from = Tx[u].from /\ Tx[t].nonce = Tx[u].nonce => t = u
  /\ London => \A t \in pool.remotes : pool.urgent[t] + pool.floating[t] = 1
  /\ \A t \in pool.queue : Contains(pool.beats, Tx[t].from)

\* No transaction in the pool is below its account's nonce or beyond its
\* balance in the state the pool was last reset to, although Filter skips
\* lists by their cached costcap.
AllValid ==
  \A t \in All(pool) :
    /\ Tx[t].nonce >= GetNonce(pool.state, Tx[t].from)
    /\ Tx[t].cost <= GetBalance(pool.state, Tx[t].from)

\* pending holds every nonce from the account's to the one before the next
\* virtual nonce, and none beyond it, unless a reset failed or add refused a
\* transaction that reset wanted to reinject.
Executable ==
  ~spoiled =>
    \A a \in Accounts :
      {Tx[t].nonce : t \in Of(pool.pending, a)}
        = GetNonce(pool.state, a)..(pool.nonces[a] - 1)

\* Over GlobalSlots, only local accounts have more than AccountSlots pending:
\* truncatePending reaches its aim, and nothing adds to pending after it.
PendingBounded ==
  \/ Cardinality(pool.pending) <= GlobalSlots
  \/ \A a \in Accounts \ pool.accounts : Listed(pool, a) <= AccountSlots

\* A pending transaction has been announced since it came, or waits in
\* queuedEvents or in a runReorg, unless a reset failed.
Announced == ~spoiled => pool.pending \subseteq announced \cup pool.queued \cup run.events

Replaced(t) == Overlaps(All(pool'), t) # {}

\* A transaction of a local account leaves the pool only when it is replaced,
\* mined or no longer payable; a crash loses it only if it was not journaled.
LocalsKept ==
  [][ \A t \in All(pool) \ All(pool') : Tx[t].from \in pool.accounts =>
        \/ Replaced(t)
        \/ Tx[t].nonce < GetNonce(pool'.state, Tx[t].from)
        \/ Tx[t].cost > GetBalance(pool'.state, Tx[t].from)
        \/ restarts' # restarts /\ t \notin pool.journal ]_vars

=============================================================================
