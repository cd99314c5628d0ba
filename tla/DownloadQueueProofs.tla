------------------------ MODULE DownloadQueueProofs ------------------------
(***************************************************************************)
(* Proofs about DownloadQueue, for every number of peers and headers, all  *)
(* contents of blocks, and all sizes, thresholds and capacities: each task *)
(* is queued or asked for once, and has its slot in the result store.      *)
(***************************************************************************)
EXTENDS DownloadQueue, TLAPS

(* Types                                                                   *)

Results == [header : Headers, pending : SUBSET Kinds]

Fetchers ==
  [at : {"select", "assign", "drained", "done"}, finished : BOOLEAN, todo : SUBSET Peers,
   progressed : BOOLEAN, throttled : BOOLEAN, running : BOOLEAN, all : BOOLEAN]

Consumers == [at : {"check", "lock", "waiting", "woken", "take", "done"}, got : Seq(Results)]

Stores ==
  [items : [1..CacheSize -> Results \cup {None}], offset : Nat \ {0},
   incomplete : 0..CacheSize, threshold : 1..CacheSize]

TypeOK ==
  /\ tasks \in [Kinds -> [Headers -> Nat]]
  /\ taskPool \in [Kinds -> SUBSET Headers]
  /\ pend \in [Kinds -> [Peers -> SUBSET Headers]]
  /\ store \in Stores
  /\ fetcher \in [Kinds -> Fetchers]
  /\ scheduled \in 0..Len(Needs)
  /\ peers \in SUBSET Peers

(* What the queue keeps                                                    *)

\* A slot holds its own header, with no more to fetch than that header has; the
\* known prefix is complete; and no slot before the offset is left.
StoreOK(s) ==
  /\ s \in Stores
  /\ s.offset <= Len(Needs) + 1
  /\ \A i \in 1..CacheSize : s.items[i] # None =>
       /\ s.items[i].header = (s.offset + i) - 1
       /\ s.items[i].pending \subseteq Item((s.offset + i) - 1).pending
  /\ \A i \in 1..s.incomplete : AllDone(s.items[i])

\* A task of the pool is queued once or asked of one peer, and no other is.
Tasked(bag, pool, asked) ==
  /\ \A h \in Headers : bag[h] \in {0, 1}
  /\ \A h \in Headers : bag[h] = 1 => h \in pool /\ \A p \in Peers : h \notin asked[p]
  /\ \A p, q \in Peers : \A h \in asked[p] : h \in pool /\ (h \in asked[q] => p = q)
  /\ \A h \in pool : bag[h] = 1 \/ \E p \in Peers : h \in asked[p]

\* What is asked for has a slot that waits for it.
Slotted(k, asked, s) ==
  \A p \in Peers : \A h \in asked[p] :
    /\ Index(s, h) \in 0..(CacheSize - 1)
    /\ Slot(s, h) # None /\ k \in Slot(s, h).pending

\* What a slot waits for, and what was scheduled and has no slot yet, is in the
\* pool; what was not scheduled is not.
Owed(k, pool, s, n) ==
  /\ \A h \in pool : h <= n
  /\ \A i \in 1..CacheSize :
       (s.items[i] # None /\ k \in s.items[i].pending) => (s.offset + i) - 1 \in pool
  /\ \A h \in Scheduled(k, 1..n) :
       (h >= s.offset /\ (Index(s, h) < CacheSize => Slot(s, h) = None)) => h \in pool

KInv(k) ==
  /\ Tasked(tasks[k], taskPool[k], pend[k])
  /\ Slotted(k, pend[k], store)
  /\ Owed(k, taskPool[k], store, scheduled)

QInv == TypeOK /\ StoreOK(store) /\ \A k \in Kinds : KInv(k)

\* What was handed out are the blocks up to the offset.
RInv ==
  /\ results \in Consumers
  /\ Len(results.got) = store.offset - 1
  /\ InOrder

\* A peer whose requests are to be revoked is not registered.
BInv ==
  /\ busy \in [Kinds -> SUBSET Peers]
  /\ revoking \in SUBSET Peers /\ revoking \cap peers = {}
  /\ BusyHasRequest

\* A fetcher of kind k has nothing left to do, if peers neither fail nor leave.
Emptied(k) ==
  /\ fetcher[k].at \in {"drained", "done"} => fetcher[k].finished /\ Queued(tasks[k]) = {}
  /\ fetcher[k].at = "done" => InFlight(k) = {}

\* A fetcher is told that there is no more only when all headers are scheduled.
Finishing ==
  /\ wake \in [Kinds -> BOOLEAN \cup {None}]
  /\ cancelled => failed
  /\ \A k \in Kinds : (wake[k] # None /\ wake[k] = FALSE) \/ fetcher[k].finished => scheduled = Len(Needs)

Emptying == ~failed /\ peers = Peers => \A k \in Kinds : Emptied(k)

\* Results finds nothing to take only once the queue is closed, and then, without
\* an error, nobody completes a result any more.
Closing ==
  /\ closed /\ ~failed => \A k \in Kinds : fetcher[k].at = "done"
  /\ results.at = "take" => HasCompletedItems(store) \/ closed
  /\ results.at = "done" => closed /\ (failed \/ ~HasCompletedItems(store))

-----------------------------------------------------------------------------
(* Lemmas on the operators                                                 *)

\* What the constants are.
LEMMA Constants ==
  /\ Len(Needs) \in Nat
  /\ Headers = 1..Len(Needs)
  /\ \A h \in Headers : Needs[h] \in SUBSET Kinds
  /\ CacheSize \in Nat /\ CacheSize >= 1
  /\ MaxResults \in Nat /\ MaxResults >= 1
  /\ None \notin Results
  /\ FastSync \in BOOLEAN
  BY DownloadQueueAssumption DEF Headers, Results

\* A header of the chain has a result, with the kinds of content to fetch.
LEMMA ItemType ==
  ASSUME NEW h \in Headers
  PROVE  /\ Item(h) \in Results /\ Item(h) # None
         /\ Item(h).header = h
         /\ Item(h).pending = {k \in Needs[h] : k = Body \/ FastSync}
  BY Constants DEF Item, Results

\* The lesser of two numbers.
LEMMA MinOfTwo ==
  ASSUME NEW a \in Nat, NEW b \in Nat
  PROVE  /\ Min({a, b}) \in Nat
         /\ Min({a, b}) = IF a <= b THEN a ELSE b
<1> DEFINE m == IF a <= b THEN a ELSE b
<1>1. m \in {a, b} /\ \A y \in {a, b} : m <= y
  OBVIOUS
<1>2. \A x \in {a, b} : (\A y \in {a, b} : x <= y) => x = m
  OBVIOUS
<1> HIDE DEF m
<1>3. Min({a, b}) = m
  BY Zenon, <1>1, <1>2 DEF Min
<1> QED
  BY Zenon, <1>3 DEF m

\* countCompleted: what it counts is complete, and it stops at what is not.
LEMMA CountFacts ==
  ASSUME NEW s, StoreOK(s), NEW c \in 0..CacheSize, countCompleted(s, c)
  PROVE  /\ c \in Nat
         /\ s.incomplete <= c /\ c <= CacheSize
         /\ \A i \in 1..c : AllDone(s.items[i])
         /\ c < CacheSize => ~AllDone(s.items[c + 1])
<1> DEFINE known == s.incomplete
<1>0. /\ known \in Nat /\ CacheSize \in Nat
      /\ \A i \in 1..known : AllDone(s.items[i])
  BY Constants DEF StoreOK, Stores
<1>1. /\ known <= c /\ \A i \in (known + 1)..c : AllDone(s.items[i])
      /\ c < CacheSize => ~AllDone(s.items[c + 1])
  BY Zenon DEF countCompleted
<1> HIDE DEF known
<1>2. \A i \in 1..c : i \in 1..known \/ i \in (known + 1)..c
  BY <1>0
<1> QED
  BY <1>0, <1>1, <1>2 DEF known

\* GetCompleted takes complete results only, and the store stays in order.
LEMMA TakeFacts ==
  ASSUME NEW s, StoreOK(s), NEW threshold \in Nat \ {0},
         NEW c \in 0..CacheSize, countCompleted(s, c),
         NEW n, n = Min({MaxResults, c}),
         NEW t, t = SetThrottleThreshold(GetCompleted(s, c, MaxResults), threshold)
  PROVE  /\ n \in Nat /\ n <= c /\ n <= CacheSize
         /\ (n = 0 <=> c = 0)
         /\ GetCompleted(s, c, MaxResults).offset = s.offset + n
         /\ t.offset = s.offset + n
         /\ \A i \in 1..CacheSize :
              t.items[i] = IF i + n <= CacheSize THEN s.items[i + n] ELSE None
         /\ StoreOK(t)
<1>0. /\ c \in Nat /\ s.incomplete <= c /\ c <= CacheSize
      /\ \A i \in 1..c : AllDone(s.items[i])
  BY Zenon, CountFacts
<1>c. CacheSize \in Nat /\ CacheSize >= 1 /\ MaxResults \in Nat /\ MaxResults >= 1 /\ Len(Needs) \in Nat
  BY Zenon, Constants
<1>1. n \in Nat /\ n <= c /\ (n = 0 <=> c = 0)
  BY <1>0, <1>c, MinOfTwo
<1>2. /\ s \in [items : [1..CacheSize -> Results \cup {None}], offset : Nat \ {0},
                incomplete : 0..CacheSize, threshold : 1..CacheSize]
      /\ s.offset <= Len(Needs) + 1
      /\ \A i \in 1..CacheSize : s.items[i] # None =>
           /\ s.items[i].header = (s.offset + i) - 1
           /\ s.items[i].pending \subseteq Item((s.offset + i) - 1).pending
  BY Zenon DEF StoreOK, Stores
<1> DEFINE m == Min({threshold, CacheSize})
           items == Shifted(s.items, n)
<1>3. m \in 1..CacheSize
  BY <1>c, MinOfTwo
<1>4. t = [items |-> items, offset |-> s.offset + n, incomplete |-> c - n, threshold |-> m]
  BY Zenon, <1>2 DEF SetThrottleThreshold, GetCompleted
<1>5. GetCompleted(s, c, MaxResults).offset = s.offset + n
  BY Zenon, <1>2 DEF GetCompleted
<1>6. /\ items \in [1..CacheSize -> Results \cup {None}]
      /\ \A i \in 1..CacheSize :
           items[i] = IF i + n <= CacheSize THEN s.items[i + n] ELSE None
  <2>1. s.items \in [1..CacheSize -> Results \cup {None}]
    BY Zenon, <1>2
  <2>2. \A i \in 1..CacheSize : i + n <= CacheSize => i + n \in 1..CacheSize
    BY <1>1, <1>c
  <2> QED
    BY Zenon, <2>1, <2>2 DEF Shifted
<1> HIDE DEF m, items
<1>f. t.items = items /\ t.offset = s.offset + n /\ t.incomplete = c - n
  BY <1>4
<1>7. t \in Stores
  <2> DEFINE o == s.offset + n
             d == c - n
  <2>1. s.offset \in Nat \ {0}
    BY Zenon, <1>2
  <2>2. o \in Nat \ {0}
    BY <1>1, <2>1
  <2>3. d \in 0..CacheSize
    BY <1>0, <1>1, <1>c
  <2>4. t = [items |-> items, offset |-> o, incomplete |-> d, threshold |-> m]
    BY Zenon, <1>4
  <2> HIDE DEF o, d
  <2> QED
    BY <1>3, <1>6, <2>2, <2>3, <2>4 DEF Stores
<1>8. s.offset + n <= Len(Needs) + 1
  <2>1. CASE n = 0
    BY <1>2, <2>1
  <2>2. CASE n > 0
    <3>1. n \in 1..c /\ n \in 1..CacheSize
      BY <1>0, <1>1, <1>c, <2>2
    <3>2. s.items[n] # None
      BY Zenon, <1>0, <3>1 DEF AllDone
    <3>3. s.items[n] \in Results
      BY Zenon, <1>2, <3>1, <3>2
    <3>4. s.items[n].header \in 1..Len(Needs)
      BY Zenon, <3>3, Constants DEF Results
    <3>5. s.items[n].header = (s.offset + n) - 1
      BY Zenon, <1>2, <3>1, <3>2
    <3> DEFINE o == s.offset
    <3>6. o \in Nat /\ (o + n) - 1 \in 1..Len(Needs)
      BY Zenon, <1>2, <3>4, <3>5
    <3> HIDE DEF o
    <3>7. o + n <= Len(Needs) + 1
      BY <1>1, <1>c, <3>6
    <3> QED
      BY Zenon, <3>7 DEF o
  <2> QED
    BY <1>1, <2>1, <2>2
<1>9. ASSUME NEW i \in 1..CacheSize, items[i] # None
      PROVE  /\ items[i].header = ((s.offset + n) + i) - 1
             /\ items[i].pending \subseteq Item(((s.offset + n) + i) - 1).pending
  <2>1. i + n <= CacheSize /\ items[i] = s.items[i + n]
    BY Zenon, <1>6, <1>9
  <2>2. i + n \in 1..CacheSize /\ (s.offset + (i + n)) - 1 = ((s.offset + n) + i) - 1
    <3> DEFINE o == s.offset
    <3>1. o \in Nat
      BY Zenon, <1>2
    <3> HIDE DEF o
    <3>2. i + n \in 1..CacheSize /\ (o + (i + n)) - 1 = ((o + n) + i) - 1
      BY <1>1, <1>c, <2>1, <3>1
    <3> QED
      BY Zenon, <3>2 DEF o
  <2> QED
    BY Zenon, <1>2, <1>9, <2>1, <2>2
<1>10. ASSUME NEW i \in 1..(c - n)
       PROVE  AllDone(items[i])
  <2>1. i \in 1..CacheSize /\ i + n \in 1..c /\ i + n <= CacheSize
    BY <1>0, <1>1, <1>c
  <2> QED
    BY Zenon, <1>0, <1>6, <2>1
<1>11. StoreOK(t)
  BY Zenon, <1>f, <1>7, <1>8, <1>9, <1>10 DEF StoreOK
<1>12. n <= CacheSize
  BY <1>0, <1>1, <1>c
<1> QED
  BY Zenon, <1>1, <1>f, <1>5, <1>6, <1>11, <1>12

\* The first n results are handed out after the ones handed out before.
LEMMA HandedOut ==
  ASSUME NEW got \in Seq(Results), NEW items, NEW n \in Nat, \A i \in 1..n : items[i] \in Results,
         NEW all, all = got \o SubSeq(items, 1, n)
  PROVE  /\ all \in Seq(Results) /\ Len(all) = Len(got) + n
         /\ \A i \in 1..(Len(got) + n) : all[i] = IF i <= Len(got) THEN got[i] ELSE items[i - Len(got)]
<1> DEFINE more == SubSeq(items, 1, n)
<1>1. more \in Seq(Results) /\ Len(more) = n /\ \A i \in 1..n : more[i] = items[i]
  OBVIOUS
<1>2. all = got \o more
  BY Zenon
<1> HIDE DEF more
<1>3. /\ all \in Seq(Results) /\ Len(all) = Len(got) + Len(more)
      /\ \A i \in 1..(Len(got) + Len(more)) : all[i] = IF i <= Len(got) THEN got[i] ELSE more[i - Len(got)]
  BY <1>1, <1>2
<1>4. ASSUME NEW i \in 1..(Len(got) + n)
      PROVE  all[i] = IF i <= Len(got) THEN got[i] ELSE items[i - Len(got)]
  <2>1. Len(got) \in Nat
    OBVIOUS
  <2>2. all[i] = IF i <= Len(got) THEN got[i] ELSE more[i - Len(got)]
    BY Zenon, <1>1, <1>3
  <2>3. ~(i <= Len(got)) => i - Len(got) \in 1..n
    BY <2>1
  <2> QED
    BY Zenon, <1>1, <2>2, <2>3
<1> QED
  BY Zenon, <1>1, <1>3, <1>4

\* Taking results leaves what is asked for and what is owed in place.
LEMMA TakeKeeps ==
  ASSUME NEW s, StoreOK(s), NEW t, t.offset \in Int, NEW n \in Nat,
         n <= CacheSize, t.offset = s.offset + n,
         \A i \in 1..n : AllDone(s.items[i]),
         \A i \in 1..CacheSize : t.items[i] = IF i + n <= CacheSize THEN s.items[i + n] ELSE None,
         NEW k \in Kinds, NEW pool \in SUBSET Headers, NEW asked \in [Peers -> SUBSET Headers],
         NEW m \in 0..Len(Needs),
         Slotted(k, asked, s), Owed(k, pool, s, m)
  PROVE  Slotted(k, asked, t) /\ Owed(k, pool, t, m)
<1>c. CacheSize \in Nat /\ CacheSize >= 1 /\ Len(Needs) \in Nat /\ Headers = 1..Len(Needs)
  BY Zenon, Constants
<1>0. s.offset \in Nat
  BY Zenon DEF StoreOK, Stores
<1> DEFINE so == s.offset
           to == t.offset
<1>o. so \in Nat /\ to = so + n
  BY Zenon, <1>0
<1>i. \A h : /\ Index(s, h) = h - so /\ Slot(s, h) = s.items[(h - so) + 1]
             /\ Index(t, h) = h - to /\ Slot(t, h) = t.items[(h - to) + 1]
  BY Zenon DEF Index, Slot
<1> HIDE DEF so, to
<1>1. ASSUME NEW p \in Peers, NEW h \in asked[p]
      PROVE  /\ Index(t, h) \in 0..(CacheSize - 1)
             /\ Slot(t, h) # None /\ k \in Slot(t, h).pending
  <2> DEFINE i == (h - so) + 1
  <2>1. h \in Int
    BY <1>c
  <2>0. Index(s, h) \in 0..(CacheSize - 1) /\ Slot(s, h) # None /\ k \in Slot(s, h).pending
    BY Zenon DEF Slotted
  <2>2. i \in 1..CacheSize /\ s.items[i] # None /\ k \in s.items[i].pending
    <3>1. h - so \in 0..(CacheSize - 1) /\ s.items[i] # None /\ k \in s.items[i].pending
      BY Zenon, <1>i, <2>0
    <3>2. i \in 1..CacheSize
      BY <1>o, <1>c, <2>1, <3>1
    <3> QED
      BY Zenon, <3>1, <3>2
  <2>3. ~AllDone(s.items[i])
    BY Zenon, <2>2 DEF AllDone
  <2>a. i \in Int /\ h - to = (i - n) - 1
    BY <1>o, <2>1
  <2> HIDE DEF i
  <2>4. i > n
    BY <2>2, <2>3, <2>a
  <2>5. /\ Index(t, h) = (i - n) - 1
        /\ i - n \in 1..CacheSize
        /\ (i - n) + n = i
    BY <1>i, <1>c, <2>a, <2>2, <2>4
  <2>6. Slot(t, h) = t.items[i - n]
    BY <1>i, <2>5, <2>a, <2>2
  <2>7. t.items[i - n] = s.items[i]
    BY <2>2, <2>5
  <2>8. (i - n) - 1 \in 0..(CacheSize - 1)
    BY <1>c, <2>2, <2>5
  <2> QED
    BY Zenon, <2>2, <2>5, <2>6, <2>7, <2>8
<1>2. ASSUME NEW i \in 1..CacheSize, t.items[i] # None, k \in t.items[i].pending
      PROVE  (t.offset + i) - 1 \in pool
  <2>1. i + n <= CacheSize /\ t.items[i] = s.items[i + n]
    BY Zenon, <1>2
  <2>2. i + n \in 1..CacheSize
    BY <1>c, <2>1
  <2>3. (s.offset + (i + n)) - 1 \in pool
    BY Zenon, <1>2, <2>1, <2>2 DEF Owed
  <2> QED
    BY <1>0, <1>c, <2>3
<1>3. ASSUME NEW h \in Scheduled(k, 1..m), h >= t.offset,
             Index(t, h) < CacheSize => Slot(t, h) = None
      PROVE  h \in pool
  <2>1. h \in Int
    BY DEF Scheduled
  <2>2. h >= to /\ h >= so /\ h >= s.offset
    BY <1>o, <1>0, <1>3, <2>1 DEF so, to
  <2>3. ASSUME Index(s, h) < CacheSize
        PROVE  Slot(s, h) = None
    <3> DEFINE i == (h - so) + 1
    <3>0. h - so < CacheSize
      BY Zenon, <1>i, <2>3
    <3>1. i \in 1..CacheSize /\ i - n \in 1..CacheSize /\ (i - n) + n = i /\ h - to = (i - n) - 1
      BY <1>o, <1>c, <2>1, <2>2, <3>0
    <3>5. Slot(s, h) = s.items[i]
      BY Zenon, <1>i
    <3> HIDE DEF i
    <3>2. Index(t, h) = (i - n) - 1 /\ Index(t, h) < CacheSize
      BY <1>i, <1>c, <3>1
    <3>3. Slot(t, h) = t.items[i - n]
      BY <1>i, <3>1
    <3>4. t.items[i - n] = s.items[i]
      BY <3>1
    <3> QED
      BY Zenon, <1>3, <3>2, <3>3, <3>4, <3>5
  <2> QED
    BY Zenon, <2>2, <2>3 DEF Owed
<1>4. \A h \in pool : h <= m
  BY Zenon DEF Owed
<1>5. Slotted(k, asked, t)
  BY Zenon, <1>1 DEF Slotted
<1>6. Owed(k, pool, t, m)
  BY Zenon, <1>2, <1>3, <1>4 DEF Owed
<1> QED
  BY Zenon, <1>5, <1>6

\* AddFetch gives each header a result, and touches no result that is there.
LEMMA AddFacts ==
  ASSUME NEW s, StoreOK(s), NEW hs \in SUBSET Headers,
         \A h \in hs : Index(s, h) \in 0..(CacheSize - 1),
         NEW t, t = AddFetch(s, hs)
  PROVE  /\ StoreOK(t)
         /\ t.offset = s.offset
         /\ \A i \in 1..CacheSize : t.items[i] =
              IF (s.offset + i) - 1 \in hs /\ s.items[i] = None THEN Item((s.offset + i) - 1) ELSE s.items[i]
         /\ \A h \in hs : Slot(t, h) = Fetched(s, h) /\ Slot(t, h) # None
<1>c. CacheSize \in Nat /\ CacheSize >= 1 /\ Len(Needs) \in Nat /\ Headers = 1..Len(Needs)
  BY Zenon, Constants
<1>0. /\ s \in [items : [1..CacheSize -> Results \cup {None}], offset : Nat \ {0},
                incomplete : 0..CacheSize, threshold : 1..CacheSize]
      /\ s.offset <= Len(Needs) + 1
      /\ \A i \in 1..CacheSize : s.items[i] # None =>
           /\ s.items[i].header = (s.offset + i) - 1
           /\ s.items[i].pending \subseteq Item((s.offset + i) - 1).pending
      /\ \A i \in 1..s.incomplete : AllDone(s.items[i])
  BY Zenon DEF StoreOK, Stores
<1> DEFINE items == [i \in 1..CacheSize |->
                       IF (s.offset + i) - 1 \in hs THEN Fetched(s, (s.offset + i) - 1) ELSE s.items[i]]
<1>1. t = [items |-> items, offset |-> s.offset, incomplete |-> s.incomplete, threshold |-> s.threshold]
  BY Zenon, <1>0 DEF AddFetch
<1>2. ASSUME NEW i \in 1..CacheSize
      PROVE  Slot(s, (s.offset + i) - 1) = s.items[i]
  <2>1. (((s.offset + i) - 1) - s.offset) + 1 = i
    BY <1>0, <1>c
  <2> QED
    BY Zenon, <2>1 DEF Slot, Index
<1>3. ASSUME NEW i \in 1..CacheSize
      PROVE  items[i] = IF (s.offset + i) - 1 \in hs /\ s.items[i] = None
                        THEN Item((s.offset + i) - 1) ELSE s.items[i]
  BY Zenon, <1>2 DEF Fetched
<1>4. items \in [1..CacheSize -> Results \cup {None}]
  <2>1. ASSUME NEW i \in 1..CacheSize PROVE items[i] \in Results \cup {None}
    <3>1. s.items[i] \in Results \cup {None}
      BY Zenon, <1>0
    <3>2. (s.offset + i) - 1 \in hs => Item((s.offset + i) - 1) \in Results
      BY Zenon, ItemType
    <3> HIDE DEF items
    <3> QED
      BY Zenon, <1>3, <3>1, <3>2
  <2> QED
    BY Zenon, <2>1
<1>5. DOMAIN items = 1..CacheSize
  BY Zenon
<1> HIDE DEF items
<1>6. t \in Stores
  BY <1>0, <1>1, <1>4 DEF Stores
<1>7. ASSUME NEW i \in 1..CacheSize, items[i] # None
      PROVE  /\ items[i].header = (s.offset + i) - 1
             /\ items[i].pending \subseteq Item((s.offset + i) - 1).pending
  BY <1>0, <1>3, <1>7, ItemType
<1>8. ASSUME NEW i \in 1..s.incomplete
      PROVE  AllDone(items[i])
  <2>1. i \in 1..CacheSize /\ s.items[i] # None
    BY <1>0, <1>c DEF AllDone
  <2> QED
    BY Zenon, <1>0, <1>3, <2>1
<1>9. StoreOK(t)
  BY <1>0, <1>1, <1>6, <1>7, <1>8 DEF StoreOK
<1>10. ASSUME NEW h \in hs
       PROVE  Slot(t, h) = Fetched(s, h) /\ Slot(t, h) # None
  <2> DEFINE i == (h - s.offset) + 1
  <2>1. h \in Int /\ i \in 1..CacheSize /\ (s.offset + i) - 1 = h
    BY <1>0, <1>c DEF Index
  <2>2. Slot(t, h) = items[i]
    BY <1>1 DEF Slot, Index
  <2>3. items[i] = IF s.items[i] = None THEN Item(h) ELSE s.items[i]
    BY Zenon, <1>3, <2>1
  <2>4. Slot(s, h) = s.items[i]
    BY Zenon DEF Slot, Index
  <2>5. Item(h) # None
    BY Zenon, ItemType
  <2> QED
    BY Zenon, <2>2, <2>3, <2>4, <2>5 DEF Fetched
<1> QED
  BY <1>1, <1>3, <1>9, <1>10

\* A new result waits for nothing that is not owed, for its header was scheduled.
LEMMA AddKeeps ==
  ASSUME NEW s, StoreOK(s), NEW hs \in SUBSET Headers,
         \A h \in hs : Index(s, h) \in 0..(CacheSize - 1),
         NEW t, t = AddFetch(s, hs),
         NEW k \in Kinds, NEW pool \in SUBSET Headers, NEW asked \in [Peers -> SUBSET Headers],
         NEW m \in 0..Len(Needs), \A h \in hs : h <= m,
         Slotted(k, asked, s), Owed(k, pool, s, m)
  PROVE  Slotted(k, asked, t) /\ Owed(k, pool, t, m)
<1>c. CacheSize \in Nat /\ CacheSize >= 1 /\ Len(Needs) \in Nat /\ Headers = 1..Len(Needs)
  BY Zenon, Constants
<1>0. /\ t.offset = s.offset
      /\ \A i \in 1..CacheSize : t.items[i] =
           IF (s.offset + i) - 1 \in hs /\ s.items[i] = None THEN Item((s.offset + i) - 1) ELSE s.items[i]
  BY AddFacts
<1>o. s.offset \in Nat
  BY Zenon DEF StoreOK, Stores
<1> DEFINE o == s.offset
<1>i. \A h : /\ Index(s, h) = h - o /\ Slot(s, h) = s.items[(h - o) + 1]
             /\ Index(t, h) = h - o /\ Slot(t, h) = t.items[(h - o) + 1]
  BY Zenon, <1>0 DEF Index, Slot
<1>1. ASSUME NEW p \in Peers, NEW h \in asked[p]
      PROVE  /\ Index(t, h) \in 0..(CacheSize - 1)
             /\ Slot(t, h) # None /\ k \in Slot(t, h).pending
  <2>1. Index(s, h) \in 0..(CacheSize - 1) /\ Slot(s, h) # None /\ k \in Slot(s, h).pending
    BY Zenon DEF Slotted
  <2>2. (h - o) + 1 \in 1..CacheSize /\ s.items[(h - o) + 1] # None
    BY <1>c, <1>i, <1>o, <2>1
  <2>3. t.items[(h - o) + 1] = s.items[(h - o) + 1]
    BY Zenon, <1>0, <2>2
  <2> QED
    BY Zenon, <1>i, <2>1, <2>3
<1>2. ASSUME NEW i \in 1..CacheSize, t.items[i] # None, k \in t.items[i].pending
      PROVE  (o + i) - 1 \in pool
  <2> DEFINE h == (o + i) - 1
  <2>1. h \in Int /\ (h - o) + 1 = i /\ h >= o
    BY <1>c, <1>o
  <2>2. CASE h \in hs /\ s.items[i] = None
    <3>1. h \in Headers /\ h \in 1..m
      BY <1>c, <2>1, <2>2
    <3>2. t.items[i] = Item(h)
      BY Zenon, <1>0, <2>2
    <3>3. k \in Needs[h] /\ (k = Body \/ FastSync)
      BY <1>2, <3>1, <3>2, ItemType
    <3>4. h \in Scheduled(k, 1..m)
      BY Zenon, <3>1, <3>3 DEF Scheduled, Kinds
    <3>5. Slot(s, h) = None
      BY Zenon, <1>i, <2>1, <2>2
    <3> HIDE DEF h
    <3>6. h \in pool
      BY Zenon, <2>1, <3>4, <3>5 DEF Owed
    <3> QED
      BY Zenon, <3>6 DEF h
  <2>3. CASE ~(h \in hs /\ s.items[i] = None)
    <3>1. t.items[i] = s.items[i]
      BY Zenon, <1>0, <2>3
    <3> QED
      BY Zenon, <1>2, <3>1 DEF Owed
  <2> QED
    BY Zenon, <2>2, <2>3
<1>3. ASSUME NEW h \in Scheduled(k, 1..m), h >= o, Index(t, h) < CacheSize => Slot(t, h) = None
      PROVE  h \in pool
  <2>1. h \in Int
    BY DEF Scheduled
  <2>2. ASSUME Index(s, h) < CacheSize PROVE Slot(s, h) = None
    <3>1. (h - o) + 1 \in 1..CacheSize
      BY <1>3, <1>c, <1>i, <1>o, <2>1, <2>2
    <3>2. t.items[(h - o) + 1] = None
      BY Zenon, <1>3, <1>i, <2>2
    <3>3. (o + ((h - o) + 1)) - 1 = h
      BY <1>o, <2>1
    <3>4. h \in hs => Item(h) # None
      BY Zenon, ItemType
    <3>5. s.items[(h - o) + 1] = None
      BY Zenon, <1>0, <3>1, <3>2, <3>3, <3>4
    <3> QED
      BY Zenon, <1>i, <3>5
  <2> QED
    BY Zenon, <1>3, <2>2 DEF Owed
<1>4. \A h \in pool : h <= m
  BY Zenon DEF Owed
<1>5. Slotted(k, asked, t)
  BY Zenon, <1>1 DEF Slotted
<1>6. Owed(k, pool, t, m)
  BY Zenon, <1>0, <1>2, <1>3, <1>4 DEF Owed
<1> QED
  BY Zenon, <1>5, <1>6

\* A task may go once its header was handed out or its slot does not wait for it.
LEMMA OwedShrinks ==
  ASSUME NEW s, StoreOK(s), NEW k \in Kinds, NEW pool \in SUBSET Headers,
         NEW m \in 0..Len(Needs), Owed(k, pool, s, m), NEW gone,
         \A h \in gone : \/ Index(s, h) < 0
                         \/ /\ Index(s, h) \in 0..(CacheSize - 1)
                            /\ Slot(s, h) # None /\ k \notin Slot(s, h).pending
  PROVE  Owed(k, pool \ gone, s, m)
<1>c. CacheSize \in Nat /\ CacheSize >= 1 /\ s.offset \in Nat
  BY Zenon, Constants DEF StoreOK, Stores
<1>1. ASSUME NEW i \in 1..CacheSize, s.items[i] # None, k \in s.items[i].pending
      PROVE  (s.offset + i) - 1 \notin gone
  <2> DEFINE h == (s.offset + i) - 1
  <2>1. Index(s, h) = i - 1 /\ Slot(s, h) = s.items[i]
    <3>1. h - s.offset = i - 1 /\ (h - s.offset) + 1 = i
      BY <1>c
    <3> QED
      BY Zenon, <3>1 DEF Index, Slot
  <2>2. i - 1 >= 0
    BY <1>c
  <2> HIDE DEF h
  <2>3. h \notin gone
    BY <1>1, <2>1, <2>2
  <2> QED
    BY Zenon, <2>3 DEF h
<1>2. ASSUME NEW h \in Scheduled(k, 1..m), h >= s.offset,
             Index(s, h) < CacheSize => Slot(s, h) = None
      PROVE  h \notin gone
  <2>1. h \in Int /\ Index(s, h) = h - s.offset
    BY DEF Scheduled, Index
  <2>2. ~(Index(s, h) < 0)
    BY <1>2, <1>c, <2>1
  <2> QED
    BY <1>2, <1>c, <2>2
<1> QED
  BY Zenon, <1>1, <1>2 DEF Owed

\* What deliver does to the store: the items accepted no longer wait for k.
LEMMA DoneFacts ==
  ASSUME StoreOK(store), NEW k \in Kinds, NEW hs \in SUBSET Headers,
         \A h \in hs : Index(store, h) \in 0..(CacheSize - 1) /\ Slot(store, h) # None,
         NEW t, t = Reconstruct(k, hs)
  PROVE  /\ StoreOK(t)
         /\ t.offset = store.offset
         /\ \A i \in 1..CacheSize :
              /\ t.items[i] = None <=> store.items[i] = None
              /\ (store.offset + i) - 1 \notin hs => t.items[i] = store.items[i]
              /\ (store.offset + i) - 1 \in hs => t.items[i].pending = store.items[i].pending \ {k}
<1>c. CacheSize \in Nat /\ CacheSize >= 1 /\ Len(Needs) \in Nat /\ Headers = 1..Len(Needs)
  BY Zenon, Constants
<1> DEFINE s == store
<1>0. /\ s \in [items : [1..CacheSize -> Results \cup {None}], offset : Nat \ {0},
                incomplete : 0..CacheSize, threshold : 1..CacheSize]
      /\ s.offset <= Len(Needs) + 1
      /\ \A i \in 1..CacheSize : s.items[i] # None =>
           /\ s.items[i].header = (s.offset + i) - 1
           /\ s.items[i].pending \subseteq Item((s.offset + i) - 1).pending
      /\ \A i \in 1..s.incomplete : AllDone(s.items[i])
  BY Zenon DEF StoreOK, Stores
<1> DEFINE items == [i \in 1..CacheSize |->
                       IF (s.offset + i) - 1 \in hs THEN SetDone(s.items[i], k) ELSE s.items[i]]
<1>1. t = [items |-> items, offset |-> s.offset, incomplete |-> s.incomplete, threshold |-> s.threshold]
  BY Zenon, <1>0 DEF Reconstruct
<1>2. ASSUME NEW i \in 1..CacheSize, (s.offset + i) - 1 \in hs
      PROVE  s.items[i] # None /\ s.items[i] \in Results
  <2>1. (((s.offset + i) - 1) - s.offset) + 1 = i
    BY <1>0, <1>c
  <2>2. Slot(s, (s.offset + i) - 1) = s.items[i]
    BY Zenon, <2>1 DEF Slot, Index
  <2>3. s.items[i] # None
    BY Zenon, <1>2, <2>2
  <2> QED
    BY Zenon, <1>0, <2>3
<1>3. ASSUME NEW x \in Results
      PROVE  /\ SetDone(x, k) \in Results /\ SetDone(x, k) # None
             /\ SetDone(x, k).header = x.header /\ SetDone(x, k).pending = x.pending \ {k}
  BY Constants DEF Results, SetDone
<1>4. ASSUME NEW i \in 1..CacheSize
      PROVE  /\ (s.offset + i) - 1 \in hs => items[i] = SetDone(s.items[i], k)
             /\ (s.offset + i) - 1 \notin hs => items[i] = s.items[i]
  BY Zenon
<1>5. items \in [1..CacheSize -> Results \cup {None}]
  <2>1. ASSUME NEW i \in 1..CacheSize PROVE items[i] \in Results \cup {None}
    <3>1. s.items[i] \in Results \cup {None}
      BY Zenon, <1>0
    <3> HIDE DEF items
    <3> QED
      BY <1>2, <1>3, <1>4, <3>1
  <2> QED
    BY Zenon, <2>1
<1> HIDE DEF items
<1>f. t.items = items /\ t.offset = s.offset /\ t.incomplete = s.incomplete
  BY <1>1
<1>6. t \in Stores
  BY <1>0, <1>1, <1>5 DEF Stores
<1>7. ASSUME NEW i \in 1..CacheSize, items[i] # None
      PROVE  /\ items[i].header = (s.offset + i) - 1
             /\ items[i].pending \subseteq Item((s.offset + i) - 1).pending
  <2>1. CASE (s.offset + i) - 1 \in hs
    <3>1. s.items[i] # None /\ s.items[i] \in Results
      BY Zenon, <1>2, <2>1
    <3>2. items[i].header = s.items[i].header /\ items[i].pending = s.items[i].pending \ {k}
      BY Zenon, <1>3, <1>4, <2>1, <3>1
    <3> QED
      BY Zenon, <1>0, <3>1, <3>2
  <2>2. CASE (s.offset + i) - 1 \notin hs
    BY Zenon, <1>0, <1>4, <1>7, <2>2
  <2> QED
    BY Zenon, <2>1, <2>2
<1>8. ASSUME NEW i \in 1..s.incomplete
      PROVE  AllDone(items[i])
  <2>1. i \in 1..CacheSize /\ AllDone(s.items[i])
    BY <1>0, <1>c
  <2>2. CASE (s.offset + i) - 1 \in hs
    BY <1>2, <1>3, <1>4, <2>1, <2>2 DEF AllDone
  <2>3. CASE (s.offset + i) - 1 \notin hs
    BY Zenon, <1>4, <2>1, <2>3
  <2> QED
    BY Zenon, <2>2, <2>3
<1>9. StoreOK(t)
  BY Zenon, <1>0, <1>f, <1>6, <1>7, <1>8 DEF StoreOK
<1>10. ASSUME NEW i \in 1..CacheSize
       PROVE  /\ items[i] = None <=> s.items[i] = None
              /\ (s.offset + i) - 1 \notin hs => items[i] = s.items[i]
              /\ (s.offset + i) - 1 \in hs => items[i].pending = s.items[i].pending \ {k}
  BY Zenon, <1>2, <1>3, <1>4
<1> QED
  BY Zenon, <1>f, <1>9, <1>10

\* What other requests ask for is not accepted with this one, so that their
\* slots go on waiting.
LEMMA DoneKeeps ==
  ASSUME StoreOK(store), NEW k \in Kinds, NEW hs \in SUBSET Headers,
         \A h \in hs : Index(store, h) \in 0..(CacheSize - 1) /\ Slot(store, h) # None,
         NEW t, t = Reconstruct(k, hs),
         NEW j \in Kinds, NEW pool \in SUBSET Headers, NEW asked \in [Peers -> SUBSET Headers],
         NEW rest \in [Peers -> SUBSET Headers],
         \A p \in Peers : \A h \in rest[p] : h \in asked[p] /\ (j = k => h \notin hs),
         NEW m \in 0..Len(Needs),
         Slotted(j, asked, store), Owed(j, pool, store, m)
  PROVE  Slotted(j, rest, t) /\ Owed(j, pool, t, m)
<1>c. CacheSize \in Nat /\ CacheSize >= 1 /\ Len(Needs) \in Nat /\ Headers = 1..Len(Needs)
  BY Zenon, Constants
<1>0. /\ t.offset = store.offset
      /\ \A i \in 1..CacheSize :
           /\ t.items[i] = None <=> store.items[i] = None
           /\ (store.offset + i) - 1 \notin hs => t.items[i] = store.items[i]
           /\ (store.offset + i) - 1 \in hs => t.items[i].pending = store.items[i].pending \ {k}
  BY DoneFacts
<1>o. store.offset \in Nat
  BY Zenon DEF StoreOK, Stores
<1> DEFINE o == store.offset
<1>i. \A h : /\ Index(store, h) = h - o /\ Slot(store, h) = store.items[(h - o) + 1]
             /\ Index(t, h) = h - o /\ Slot(t, h) = t.items[(h - o) + 1]
  BY Zenon, <1>0 DEF Index, Slot
<1>1. ASSUME NEW p \in Peers, NEW h \in rest[p]
      PROVE  /\ Index(t, h) \in 0..(CacheSize - 1)
             /\ Slot(t, h) # None /\ j \in Slot(t, h).pending
  <2>1. /\ Index(store, h) \in 0..(CacheSize - 1)
        /\ Slot(store, h) # None /\ j \in Slot(store, h).pending
        /\ j = k => h \notin hs
    BY Zenon DEF Slotted
  <2>2. h \in Int
    BY <1>c
  <2>3. (h - o) + 1 \in 1..CacheSize /\ (o + ((h - o) + 1)) - 1 = h
    <3>1. h - o \in 0..(CacheSize - 1) /\ o \in Nat
      BY Zenon, <1>i, <1>o, <2>1
    <3> HIDE DEF o
    <3> QED
      BY <1>c, <2>2, <3>1
  <2>4. store.items[(h - o) + 1] # None /\ j \in store.items[(h - o) + 1].pending
    BY Zenon, <1>i, <2>1
  <2>5. t.items[(h - o) + 1] # None /\ j \in t.items[(h - o) + 1].pending
    BY <1>0, <2>1, <2>3, <2>4
  <2> QED
    BY Zenon, <1>i, <2>1, <2>5
<1>2. ASSUME NEW i \in 1..CacheSize, t.items[i] # None, j \in t.items[i].pending
      PROVE  (o + i) - 1 \in pool
  <2>1. store.items[i] # None /\ j \in store.items[i].pending
    BY Zenon, <1>0, <1>2
  <2> QED
    BY Zenon, <2>1 DEF Owed
<1>3. ASSUME NEW h \in Scheduled(j, 1..m), h >= o, Index(t, h) < CacheSize => Slot(t, h) = None
      PROVE  h \in pool
  <2>1. h \in Int
    BY DEF Scheduled
  <2>2. ASSUME Index(store, h) < CacheSize PROVE Slot(store, h) = None
    <3>1. (h - o) + 1 \in 1..CacheSize
      BY <1>3, <1>c, <1>i, <1>o, <2>1, <2>2
    <3>2. t.items[(h - o) + 1] = None
      BY Zenon, <1>3, <1>i, <2>2
    <3> QED
      BY Zenon, <1>0, <1>i, <3>1, <3>2
  <2> QED
    BY Zenon, <1>3, <2>2 DEF Owed
<1>4. \A h \in pool : h <= m
  BY Zenon DEF Owed
<1>5. Slotted(j, rest, t)
  BY Zenon, <1>1 DEF Slotted
<1>6. Owed(j, pool, t, m)
  BY Zenon, <1>0, <1>2, <1>3, <1>4 DEF Owed
<1> QED
  BY Zenon, <1>5, <1>6

\* The cardinality of the empty set and of a set of one element.
LEMMA CountNone == Cardinality({}) = 0
<1> DEFINE F(f) == [T \in SUBSET {} |-> IF T = {} THEN 0 ELSE 1 + f[T \ {CHOOSE y : y \in T}]]
           g == [T \in SUBSET {} |-> 0]
           cs == CHOOSE f : f = F(f)
<1>1. g = F(g)
  BY Zenon
<1>2. cs = F(cs)
  <2> HIDE DEF F, g
  <2> QED
    BY Zenon, <1>1
<1>3. Cardinality({}) = cs[{}]
  BY Zenon DEF Cardinality
<1> HIDE DEF cs
<1> QED
  BY Zenon, <1>2, <1>3

LEMMA CountOne ==
  ASSUME NEW x
  PROVE  Cardinality({x}) = 1
<1> DEFINE F(f) == [T \in SUBSET {x} |-> IF T = {} THEN 0 ELSE 1 + f[T \ {CHOOSE y : y \in T}]]
           g == [T \in SUBSET {x} |-> IF T = {} THEN 0 ELSE 1]
           cs == CHOOSE f : f = F(f)
<1>0. \A T \in SUBSET {x} : T # {} => T = {x} /\ T \ {CHOOSE y : y \in T} = {}
  <2>1. (CHOOSE y : y \in {x}) = x
    BY Zenon
  <2>2. \A T \in SUBSET {x} : T # {} => T = {x}
    BY Zenon
  <2> QED
    BY <2>1, <2>2
<1>1. g = F(g)
  BY <1>0
<1>2. cs = F(cs)
  <2> HIDE DEF F, g
  <2> QED
    BY Zenon, <1>1
<1>3. Cardinality({x}) = cs[{x}]
  BY Zenon DEF Cardinality
<1> HIDE DEF cs
<1>4. cs[{}] = 0
  BY Zenon, <1>2
<1>5. cs[{x}] = 1 + cs[{}]
  BY <1>0, <1>2
<1> QED
  BY <1>3, <1>4, <1>5

\* A task is asked of one peer at most, so that it is counted once.
LEMMA AskedOnce ==
  ASSUME NEW bag, NEW pool, NEW asked, Tasked(bag, pool, asked),
         NEW E \in SUBSET Peers, NEW h
  PROVE  Cardinality({p \in E : h \in asked[p]}) = IF \E p \in E : h \in asked[p] THEN 1 ELSE 0
<1>1. CASE \E p \in E : h \in asked[p]
  <2>1. PICK p \in E : h \in asked[p]
    BY Zenon, <1>1
  <2>2. {q \in E : h \in asked[q]} = {p}
    BY <2>1 DEF Tasked
  <2>3. Cardinality({p}) = 1
    BY Zenon, CountOne
  <2> QED
    BY Zenon, <1>1, <2>2, <2>3
<1>2. CASE ~\E p \in E : h \in asked[p]
  <2>1. {q \in E : h \in asked[q]} = {}
    BY Zenon, <1>2
  <2>2. Cardinality({}) = 0
    BY Zenon, CountNone
  <2> QED
    BY Zenon, <1>2, <2>1, <2>2
<1> QED
  BY Zenon, <1>1, <1>2

\* expire and Revoke: tasks go back to the queue with the requests they leave.
LEMMA ReturnTasked ==
  ASSUME NEW bag \in [Headers -> Nat], NEW pool \in SUBSET Headers,
         NEW asked \in [Peers -> SUBSET Headers], Tasked(bag, pool, asked),
         NEW E \in SUBSET Peers
  PROVE  /\ ReturnTasks(bag, asked, E) \in [Headers -> Nat]
         /\ Unpend(asked, E) \in [Peers -> SUBSET Headers]
         /\ Tasked(ReturnTasks(bag, asked, E), pool, Unpend(asked, E))
<1> DEFINE new == ReturnTasks(bag, asked, E)
           rest == Unpend(asked, E)
<1>1. \A p \in Peers : rest[p] = IF p \in E THEN {} ELSE asked[p]
  BY Zenon DEF Unpend
<1>2. rest \in [Peers -> SUBSET Headers]
  BY Zenon DEF Unpend
<1>3. ASSUME NEW h \in Headers
      PROVE  new[h] = bag[h] + (IF \E p \in E : h \in asked[p] THEN 1 ELSE 0)
  <2>1. Cardinality({p \in E : h \in asked[p]}) = IF \E p \in E : h \in asked[p] THEN 1 ELSE 0
    BY AskedOnce
  <2> QED
    BY Zenon, <2>1 DEF ReturnTasks
<1>4. new \in [Headers -> Nat]
  <2>1. new = [h \in Headers |-> new[h]]
    BY Zenon DEF ReturnTasks
  <2>2. \A h \in Headers : new[h] \in Nat
    BY <1>3
  <2> QED
    BY Zenon, <2>1, <2>2
<1> HIDE DEF new, rest
<1>5. ASSUME NEW h \in Headers
      PROVE  /\ new[h] \in {0, 1}
             /\ new[h] = 1 => h \in pool /\ \A p \in Peers : h \notin rest[p]
  <2>1. CASE \E p \in E : h \in asked[p]
    <3>1. PICK p \in E : h \in asked[p]
      BY Zenon, <2>1
    <3>2. h \in pool /\ bag[h] = 0 /\ \A q \in Peers : h \in asked[q] => q = p
      BY Zenon, <3>1 DEF Tasked
    <3> QED
      BY <1>1, <1>3, <2>1, <3>1, <3>2
  <2>2. CASE ~\E p \in E : h \in asked[p]
    <3>1. new[h] = bag[h]
      BY <1>3, <2>2
    <3> QED
      BY Zenon, <1>1, <3>1 DEF Tasked
  <2> QED
    BY Zenon, <2>1, <2>2
<1>6. \A p, q \in Peers : \A h \in rest[p] : h \in pool /\ (h \in rest[q] => p = q)
  BY Zenon, <1>1 DEF Tasked
<1>7. ASSUME NEW h \in pool
      PROVE  new[h] = 1 \/ \E p \in Peers : h \in rest[p]
  <2>1. CASE bag[h] = 1
    <3>1. ~\E p \in E : h \in asked[p]
      BY Zenon, <2>1 DEF Tasked
    <3> QED
      BY <1>3, <2>1, <3>1
  <2>2. CASE \E p \in E : h \in asked[p]
    <3>1. bag[h] = 0
      BY <2>2 DEF Tasked
    <3> QED
      BY <1>3, <2>2, <3>1
  <2>3. CASE \E p \in Peers \ E : h \in asked[p]
    BY Zenon, <1>1, <2>3
  <2> QED
    BY Zenon, <2>1, <2>2, <2>3 DEF Tasked
<1>8. Tasked(new, pool, rest)
  BY Zenon, <1>5, <1>6, <1>7 DEF Tasked
<1> QED
  BY Zenon, <1>1, <1>2, <1>4, <1>8 DEF new, rest

\* deliver: what is accepted leaves the pool, the rest goes back to the queue.
LEMMA DeliverTasked ==
  ASSUME NEW bag \in [Headers -> Nat], NEW pool \in SUBSET Headers,
         NEW asked \in [Peers -> SUBSET Headers], Tasked(bag, pool, asked),
         NEW p \in Peers, NEW accepted \in SUBSET asked[p],
         NEW rest, rest = [asked EXCEPT ![p] = {}]
  PROVE  /\ PushAll(bag, asked[p] \ accepted) \in [Headers -> Nat]
         /\ Tasked(PushAll(bag, asked[p] \ accepted), pool \ accepted, rest)
<1>r. \A q \in Peers : rest[q] = IF q = p THEN {} ELSE asked[q]
  BY Zenon
<1> DEFINE new == PushAll(bag, asked[p] \ accepted)
<1>1. \A h \in Headers : new[h] = bag[h] + (IF h \in asked[p] \ accepted THEN 1 ELSE 0)
  BY Zenon DEF PushAll
<1>2. new \in [Headers -> Nat]
  BY DEF PushAll
<1> HIDE DEF new
<1>3. ASSUME NEW h \in Headers
      PROVE  /\ new[h] \in {0, 1}
             /\ new[h] = 1 => h \in pool \ accepted /\ \A q \in Peers : h \notin rest[q]
  <2>1. CASE h \in asked[p]
    <3>1. h \in pool /\ bag[h] = 0 /\ \A q \in Peers : h \in asked[q] => q = p
      BY Zenon, <2>1 DEF Tasked
    <3> QED
      BY <1>1, <1>r, <2>1, <3>1
  <2>2. CASE h \notin asked[p]
    <3>1. new[h] = bag[h] /\ h \notin accepted
      BY <1>1, <2>2
    <3> QED
      BY Zenon, <1>r, <3>1 DEF Tasked
  <2> QED
    BY Zenon, <2>1, <2>2
<1>4. \A q, r \in Peers : \A h \in rest[q] : h \in pool \ accepted /\ (h \in rest[r] => q = r)
  BY <1>r DEF Tasked
<1>5. ASSUME NEW h \in pool \ accepted
      PROVE  new[h] = 1 \/ \E q \in Peers : h \in rest[q]
  <2>1. CASE bag[h] = 1
    <3>1. h \notin asked[p]
      BY Zenon, <2>1 DEF Tasked
    <3> QED
      BY <1>1, <2>1, <3>1
  <2>2. CASE h \in asked[p]
    <3>1. bag[h] = 0
      BY <2>2 DEF Tasked
    <3> QED
      BY <1>1, <2>2, <3>1
  <2>3. CASE \E q \in Peers \ {p} : h \in asked[q]
    BY Zenon, <1>r, <2>3
  <2> QED
    BY Zenon, <2>1, <2>2, <2>3 DEF Tasked
<1>6. Tasked(new, pool \ accepted, rest)
  BY Zenon, <1>3, <1>4, <1>5 DEF Tasked
<1> QED
  BY Zenon, <1>2, <1>6 DEF new

\* reserveHeaders: a task taken off the queue is sent, or leaves the pool.
LEMMA ReserveTasked ==
  ASSUME NEW bag \in [Headers -> Nat], NEW pool \in SUBSET Headers,
         NEW asked \in [Peers -> SUBSET Headers], Tasked(bag, pool, asked),
         NEW p \in Peers, asked[p] = {},
         NEW send \in SUBSET Headers, NEW gone \in SUBSET Headers, send \cap gone = {},
         send \cup gone \subseteq Queued(bag),
         NEW rest, rest = [asked EXCEPT ![p] = send]
  PROVE  /\ PopAll(bag, send \cup gone) \in [Headers -> Nat]
         /\ Tasked(PopAll(bag, send \cup gone), pool \ gone, rest)
<1> DEFINE new == PopAll(bag, send \cup gone)
<1>1. \A h \in Headers : new[h] = bag[h] - (IF h \in send \cup gone THEN 1 ELSE 0)
  BY Zenon DEF PopAll
<1>q. \A h \in send \cup gone : bag[h] > 0
  BY Zenon DEF Queued
<1>2. new \in [Headers -> Nat]
  BY <1>q DEF PopAll
<1>0. \A h \in send \cup gone : bag[h] = 1 /\ h \in pool /\ \A q \in Peers : h \notin asked[q]
  BY DEF Tasked, Queued
<1>r. \A q \in Peers : rest[q] = IF q = p THEN send ELSE asked[q]
  BY Zenon
<1> HIDE DEF new
<1>3. ASSUME NEW h \in Headers
      PROVE  /\ new[h] \in {0, 1}
             /\ new[h] = 1 => h \in pool \ gone /\ \A q \in Peers : h \notin rest[q]
  <2>1. CASE h \in send \cup gone
    BY <1>0, <1>1, <2>1
  <2>2. CASE h \notin send \cup gone
    <3>1. new[h] = bag[h]
      BY <1>1, <2>2
    <3> QED
      BY Zenon, <1>r, <2>2, <3>1 DEF Tasked
  <2> QED
    BY Zenon, <2>1, <2>2
<1>4. ASSUME NEW q \in Peers, NEW r \in Peers, NEW h \in rest[q]
      PROVE  h \in pool \ gone /\ (h \in rest[r] => q = r)
  <2>1. CASE q = p
    BY Zenon, <1>0, <1>r, <2>1
  <2>2. CASE q # p
    <3>1. h \in asked[q] /\ h \in pool /\ h \notin send \cup gone
      BY Zenon, <1>0, <1>r, <2>2 DEF Tasked
    <3> QED
      BY Zenon, <1>r, <2>2, <3>1 DEF Tasked
  <2> QED
    BY Zenon, <2>1, <2>2
<1>5. ASSUME NEW h \in pool \ gone
      PROVE  new[h] = 1 \/ \E q \in Peers : h \in rest[q]
  <2>1. CASE h \in send
    BY Zenon, <1>r, <2>1
  <2>2. CASE h \notin send /\ bag[h] = 1
    BY <1>1, <2>2
  <2>3. CASE \E q \in Peers : h \in asked[q]
    BY Zenon, <1>r, <2>3
  <2> QED
    BY Zenon, <2>1, <2>2, <2>3 DEF Tasked
<1>6. Tasked(new, pool \ gone, rest)
  BY Zenon, <1>3, <1>4, <1>5 DEF Tasked
<1> QED
  BY Zenon, <1>2, <1>6 DEF new

\* Schedule: a task that is not in the pool is added to it and queued.
LEMMA ScheduleTasked ==
  ASSUME NEW bag \in [Headers -> Nat], NEW pool \in SUBSET Headers,
         NEW asked \in [Peers -> SUBSET Headers], Tasked(bag, pool, asked),
         NEW hs \in SUBSET Headers, hs \cap pool = {}
  PROVE  /\ PushAll(bag, hs \ pool) \in [Headers -> Nat]
         /\ Tasked(PushAll(bag, hs \ pool), pool \cup hs, asked)
<1> DEFINE new == PushAll(bag, hs \ pool)
<1>1. \A h \in Headers : new[h] = bag[h] + (IF h \in hs THEN 1 ELSE 0)
  BY Zenon DEF PushAll
<1>2. new \in [Headers -> Nat]
  BY DEF PushAll
<1> HIDE DEF new
<1>3. \A h \in hs : bag[h] = 0 /\ \A p \in Peers : h \notin asked[p]
  BY DEF Tasked
<1>4. \A h \in Headers : /\ new[h] \in {0, 1}
                         /\ new[h] = 1 => h \in pool \cup hs /\ \A p \in Peers : h \notin asked[p]
  BY <1>1, <1>3 DEF Tasked
<1>5. \A h \in pool \cup hs : new[h] = 1 \/ \E p \in Peers : h \in asked[p]
  BY <1>1, <1>3 DEF Tasked
<1>6. Tasked(new, pool \cup hs, asked)
  BY Zenon, <1>4, <1>5 DEF Tasked
<1> QED
  BY Zenon, <1>2, <1>6 DEF new

\* The headers of a chunk were not scheduled before.
LEMMA ScheduleOwed ==
  ASSUME NEW k \in Kinds, NEW pool \in SUBSET Headers, NEW s,
         NEW n \in 0..Len(Needs), NEW last \in 0..Len(Needs), n < last, Owed(k, pool, s, n)
  PROVE  /\ Scheduled(k, (n + 1)..last) \in SUBSET Headers
         /\ Scheduled(k, (n + 1)..last) \cap pool = {}
         /\ Owed(k, pool \cup Scheduled(k, (n + 1)..last), s, last)
<1> DEFINE hs == Scheduled(k, (n + 1)..last)
<1>c. Len(Needs) \in Nat /\ Headers = 1..Len(Needs)
  BY Zenon, Constants
<1>0. hs \in SUBSET Headers /\ hs \cap pool = {}
  <2>1. ASSUME NEW h \in hs PROVE h \in Headers /\ h \notin pool
    <3>1. h \in (n + 1)..last
      BY Zenon DEF Scheduled
    <3>2. h \in Int /\ h > n /\ h \in Headers
      BY <1>c, <3>1
    <3>3. \A x \in pool : x <= n
      BY Zenon DEF Owed
    <3> QED
      BY <1>c, <3>2, <3>3
  <2> QED
    BY Zenon, <2>1
<1>7. ASSUME NEW h \in Scheduled(k, 1..last), h >= s.offset,
             Index(s, h) < CacheSize => Slot(s, h) = None
      PROVE  h \in pool \cup hs
  <2>1. h \in 1..last
    BY Zenon DEF Scheduled
  <2>2. CASE h <= n
    <3>1. h \in 1..n
      BY <2>1, <2>2
    <3>2. h \in Scheduled(k, 1..n)
      BY Zenon, <3>1 DEF Scheduled
    <3> QED
      BY Zenon, <1>7, <3>2 DEF Owed
  <2>3. CASE h > n
    <3>1. h \in (n + 1)..last
      BY <2>1, <2>3
    <3> QED
      BY Zenon, <3>1 DEF Scheduled
  <2> QED
    BY <2>1, <2>2, <2>3
<1>8. \A h \in pool \cup hs : h <= last
  <2>1. \A h \in pool : h <= n /\ h \in Int
    BY <1>c DEF Owed
  <2>2. \A h \in hs : h <= last
    BY DEF Scheduled
  <2> QED
    BY <2>1, <2>2
<1>9. Owed(k, pool \cup hs, s, last)
  BY Zenon, <1>7, <1>8 DEF Owed
<1> QED
  BY Zenon, <1>0, <1>9

\* What the peers are asked for once p was sent a request for hs, if hs is not empty.
Asking(k, p, hs) == IF hs # {} THEN [pend[k] EXCEPT ![p] = hs] ELSE pend[k]

\* reserveHeaders keeps the tasks, the slots and what is owed, for the kind it
\* reserves and for the other, whose results it may create.
LEMMA ReserveFacts ==
  ASSUME QInv, NEW k \in Kinds, NEW p \in Peers, NEW count \in Nat,
         NEW r, r = reserveHeaders(k, p, count),
         NEW rest, rest = Asking(k, p, r.send)
  PROVE  /\ r.tasks \in [Headers -> Nat] /\ r.pool \in SUBSET Headers
         /\ rest \in [Peers -> SUBSET Headers]
         /\ r.progress \in BOOLEAN /\ r.throttled \in BOOLEAN
         /\ StoreOK(r.store)
         /\ Tasked(r.tasks, r.pool, rest)
         /\ Slotted(k, rest, r.store) /\ Owed(k, r.pool, r.store, scheduled)
         /\ \A j \in Kinds \ {k} : Slotted(j, pend[j], r.store) /\ Owed(j, taskPool[j], r.store, scheduled)
         /\ r.store.offset = store.offset
         /\ \A i \in 1..CacheSize : store.items[i] # None => r.store.items[i] = store.items[i]
<1>0. /\ tasks[k] \in [Headers -> Nat] /\ StoreOK(store) /\ scheduled \in 0..Len(Needs)
      /\ \A j \in Kinds : /\ taskPool[j] \in SUBSET Headers /\ pend[j] \in [Peers -> SUBSET Headers]
                          /\ Slotted(j, pend[j], store) /\ Owed(j, taskPool[j], store, scheduled)
      /\ Tasked(tasks[k], taskPool[k], pend[k])
  BY Zenon DEF QInv, KInv, TypeOK
<1>c. CacheSize \in Nat /\ CacheSize >= 1 /\ Len(Needs) \in Nat /\ Headers = 1..Len(Needs)
  BY Zenon, Constants
<1>1. CASE Queued(tasks[k]) = {} \/ pend[k][p] # {}
  <2>1. r = [tasks |-> tasks[k], pool |-> taskPool[k], store |-> store, send |-> {},
             progress |-> FALSE, throttled |-> Queued(tasks[k]) = {}]
    BY Zenon, <1>1 DEF reserveHeaders
  <2>2. /\ r.tasks = tasks[k] /\ r.pool = taskPool[k] /\ r.store = store /\ r.send = {}
        /\ r.progress \in BOOLEAN /\ r.throttled \in BOOLEAN
    BY <2>1
  <2>3. rest = pend[k]
    BY Zenon, <2>2 DEF Asking
  <2> QED
    BY Zenon, <1>0, <2>2, <2>3
<1>2. CASE ~(Queued(tasks[k]) = {} \/ pend[k][p] # {})
  <2> DEFINE W == Wanted(k)
             P == Popped(k, W \ lacking[p], count)
             send == P \cap (W \ lacking[p])
             skip == P \cap W \cap lacking[p]
             gone == P \ W
             hs == {h \in P : ~Stale(store, h)}
             t == AddFetch(store, hs)
  <2>1. r = Reserving(k, p, count, W, P)
    BY Zenon, <1>2 DEF reserveHeaders
  <2>2. /\ r.tasks = PopAll(tasks[k], P \ skip) /\ r.pool = taskPool[k] \ gone
        /\ r.store = t /\ r.send = send
        /\ r.progress \in BOOLEAN /\ r.throttled \in BOOLEAN
    <3> DEFINE full == /\ Cardinality(send) < count /\ skip = {}
                       /\ \E h \in Queued(tasks[k]) : Throttled(store, h)
    <3>1. r = [tasks |-> PopAll(tasks[k], P \ skip), pool |-> taskPool[k] \ gone, store |-> t,
               send |-> send, progress |-> gone # {}, throttled |-> full]
      BY Zenon, <2>1 DEF Reserving
    <3>2. full \in BOOLEAN
      BY Zenon
    <3> HIDE DEF P, W, send, skip, gone, hs, t, full
    <3> QED
      BY <3>1, <3>2
  <2>3. /\ P \in SUBSET Headers
        /\ \A h \in P : tasks[k][h] > 0 /\ ~Throttled(store, h)
    BY Zenon DEF Popped, Queued
  <2>4. \A h \in P : h \in W <=> ~Stale(store, h) /\ k \in Fetched(store, h).pending
    BY Zenon, <2>3 DEF Wanted, Queued
  <2> HIDE DEF P, W
  <2>5. P \ skip = send \cup gone /\ send \cap gone = {} /\ send \in SUBSET Headers /\ gone \in SUBSET Headers
    BY Zenon, <2>3
  <2>6. hs \in SUBSET Headers /\ send \subseteq hs
    BY Zenon, <2>3, <2>4
  <2>7. ASSUME NEW h \in hs
        PROVE  Index(store, h) \in 0..(CacheSize - 1) /\ h <= scheduled
    <3>1. h \in Headers /\ ~Stale(store, h) /\ ~Throttled(store, h) /\ tasks[k][h] > 0
      BY Zenon, <2>3
    <3>2. store.threshold \in 1..CacheSize /\ store.offset \in Nat
      BY Zenon, <1>0 DEF StoreOK, Stores
    <3>3. Index(store, h) \in Int
      BY <1>c, <3>1, <3>2 DEF Index
    <3>4. Index(store, h) >= 0 /\ Index(store, h) < store.threshold
      BY <3>1, <3>2, <3>3 DEF Stale, Throttled
    <3>5. h \in taskPool[k]
      <4>1. tasks[k][h] \in {0, 1} /\ (tasks[k][h] = 1 => h \in taskPool[k])
        BY Zenon, <1>0, <3>1 DEF Tasked
      <4> QED
        BY <3>1, <4>1
    <3>6. h <= scheduled
      BY Zenon, <1>0, <3>5 DEF Owed
    <3> QED
      BY <1>c, <3>2, <3>3, <3>4, <3>6
  <2>8. /\ StoreOK(t) /\ t.offset = store.offset
        /\ \A i \in 1..CacheSize : t.items[i] =
             IF (store.offset + i) - 1 \in hs /\ store.items[i] = None
             THEN Item((store.offset + i) - 1) ELSE store.items[i]
        /\ \A h \in hs : Slot(t, h) = Fetched(store, h) /\ Slot(t, h) # None
    <3> HIDE DEF hs
    <3>1. StoreOK(store)
      BY Zenon, <1>0
    <3>2. \A h \in hs : Index(store, h) \in 0..(CacheSize - 1)
      BY Zenon, <2>7
    <3>3. hs \in SUBSET Headers
      BY Zenon, <2>6
    <3> HIDE DEF t
    <3>4. t = AddFetch(store, hs)
      BY Zenon DEF t
    <3> QED
      BY <3>1, <3>2, <3>3, <3>4, AddFacts
  <2>9. \A j \in Kinds : Slotted(j, pend[j], t) /\ Owed(j, taskPool[j], t, scheduled)
    <3> HIDE DEF hs
    <3> SUFFICES ASSUME NEW j \in Kinds
                 PROVE  Slotted(j, pend[j], t) /\ Owed(j, taskPool[j], t, scheduled)
      BY Zenon
    <3>1. /\ taskPool[j] \in SUBSET Headers /\ pend[j] \in [Peers -> SUBSET Headers]
          /\ Slotted(j, pend[j], store) /\ Owed(j, taskPool[j], store, scheduled)
      BY Zenon, <1>0
    <3>2. StoreOK(store) /\ scheduled \in 0..Len(Needs)
      BY Zenon, <1>0
    <3> HIDE DEF t
    <3>3. t = AddFetch(store, hs)
      BY Zenon DEF t
    <3> QED
      BY Zenon, <2>6, <2>7, <3>1, <3>2, <3>3, AddKeeps
  <2> HIDE DEF t
  <2>10. \A h : Index(t, h) = Index(store, h)
    BY Zenon, <2>8 DEF Index
  <2>11. ASSUME NEW h \in gone
         PROVE  \/ Index(t, h) < 0
                \/ /\ Index(t, h) \in 0..(CacheSize - 1)
                   /\ Slot(t, h) # None /\ k \notin Slot(t, h).pending
    <3>1. CASE Stale(store, h)
      BY Zenon, <2>10, <3>1 DEF Stale
    <3>2. CASE ~Stale(store, h)
      <4>1. h \in hs /\ k \notin Fetched(store, h).pending
        BY Zenon, <2>4, <3>2
      <4> QED
        BY Zenon, <2>7, <2>8, <2>10, <4>1
    <3> QED
      BY Zenon, <3>1, <3>2
  <2>12. Owed(k, taskPool[k] \ gone, t, scheduled)
    <3> HIDE DEF gone
    <3> QED
      BY Zenon, <1>0, <2>8, <2>9, <2>11, OwedShrinks
  <2>13. \A q \in Peers : rest[q] = IF q = p THEN send ELSE pend[k][q]
    <3>1. pend[k][p] = {}
      BY Zenon, <1>2
    <3> QED
      BY Zenon, <1>0, <2>2, <3>1 DEF Asking
  <2>14. rest \in [Peers -> SUBSET Headers]
    BY Zenon, <1>0, <2>2, <2>5 DEF Asking
  <2>15. /\ PopAll(tasks[k], send \cup gone) \in [Headers -> Nat]
         /\ Tasked(PopAll(tasks[k], send \cup gone), taskPool[k] \ gone, rest)
    <3> DEFINE bag == tasks[k]
               pool == taskPool[k]
               asked == pend[k]
    <3>1. asked[p] = {}
      BY Zenon, <1>2
    <3>2. send \cup gone \subseteq Queued(bag)
      BY Zenon, <2>3 DEF Queued
    <3>3. bag \in [Headers -> Nat]
      BY Zenon, <1>0
    <3>4. pool \in SUBSET Headers
      BY Zenon, <1>0
    <3>5. asked \in [Peers -> SUBSET Headers]
      BY Zenon, <1>0
    <3>6. Tasked(bag, pool, asked)
      BY Zenon, <1>0
    <3>7. send \cap gone = {} /\ send \in SUBSET Headers /\ gone \in SUBSET Headers
      BY Zenon, <2>5
    <3>8. rest = [asked EXCEPT ![p] = send]
      BY Zenon, <2>2, <3>1, <3>5 DEF Asking
    <3> HIDE DEF send, gone, bag, pool, asked
    <3>9. /\ PopAll(bag, send \cup gone) \in [Headers -> Nat]
          /\ Tasked(PopAll(bag, send \cup gone), pool \ gone, rest)
      BY Zenon, <3>1, <3>2, <3>3, <3>4, <3>5, <3>6, <3>7, <3>8, ReserveTasked
    <3> QED
      BY Zenon, <3>9 DEF bag, pool
  <2>16. Slotted(k, rest, t)
    <3>1. ASSUME NEW q \in Peers, NEW h \in rest[q]
          PROVE  /\ Index(t, h) \in 0..(CacheSize - 1)
                 /\ Slot(t, h) # None /\ k \in Slot(t, h).pending
      <4>1. CASE q = p
        <5>1. h \in hs /\ k \in Fetched(store, h).pending
          <6>1. h \in send
            BY Zenon, <2>13, <4>1
          <6> QED
            BY Zenon, <2>4, <2>6, <6>1
        <5> QED
          BY Zenon, <2>7, <2>8, <2>10, <5>1
      <4>2. CASE q # p
        <5>1. h \in pend[k][q]
          BY Zenon, <2>13, <4>2
        <5> QED
          BY Zenon, <2>9, <5>1 DEF Slotted
      <4> QED
        BY Zenon, <4>1, <4>2
    <3> QED
      BY Zenon, <3>1 DEF Slotted
  <2> HIDE DEF send, gone, hs, skip
  <2> QED
    BY Zenon, <2>2, <2>5, <2>8, <2>9, <2>12, <2>14, <2>15, <2>16, <1>0
<1> QED
  BY Zenon, <1>1, <1>2

-----------------------------------------------------------------------------
(* The fetchers                                                            *)

Fetching == fetcher \in [Kinds -> Fetchers] /\ peers \in SUBSET Peers

LEMMA RestType ==
  ASSUME Fetching, NEW k \in Kinds
  PROVE  /\ Rest(k) \in Fetchers /\ Rest(k).at = "select"
         /\ Rest(k).finished = fetcher[k].finished
         /\ \A at \in {"select", "assign", "drained", "done"} :
              /\ [Rest(k) EXCEPT !.at = at] \in Fetchers
              /\ [Rest(k) EXCEPT !.at = at].at = at
              /\ [Rest(k) EXCEPT !.at = at].finished = fetcher[k].finished
<1>1. fetcher[k] \in Fetchers
  BY Zenon DEF Fetching
<1>2. fetcher[k].finished \in BOOLEAN
  BY Zenon, <1>1 DEF Fetchers
<1> DEFINE b == fetcher[k].finished
<1>3. Rest(k) = [Resting EXCEPT !.finished = b]
  BY Zenon DEF Rest
<1> HIDE DEF b
<1>4. b \in BOOLEAN /\ b = fetcher[k].finished
  BY Zenon, <1>2 DEF b
<1>5. Rest(k) = [at |-> "select", finished |-> b, todo |-> {}, progressed |-> FALSE,
                 throttled |-> FALSE, running |-> FALSE, all |-> FALSE]
  BY Zenon, <1>3 DEF Resting
<1>6. Rest(k) \in Fetchers
  BY <1>4, <1>5 DEF Fetchers
<1>7. Rest(k).at = "select" /\ Rest(k).finished = b
  BY <1>5
<1>8. ASSUME NEW at \in {"select", "assign", "drained", "done"}
      PROVE  /\ [Rest(k) EXCEPT !.at = at] \in Fetchers
             /\ [Rest(k) EXCEPT !.at = at].at = at
             /\ [Rest(k) EXCEPT !.at = at].finished = b
  <2> DEFINE g == [Rest(k) EXCEPT !.at = at]
  <2>1. g = [at |-> at, finished |-> b, todo |-> {}, progressed |-> FALSE,
             throttled |-> FALSE, running |-> FALSE, all |-> FALSE]
    <3>1. g = [[at |-> "select", finished |-> b, todo |-> {}, progressed |-> FALSE,
                throttled |-> FALSE, running |-> FALSE, all |-> FALSE] EXCEPT !.at = at]
      BY Zenon, <1>5
    <3> HIDE DEF g
    <3> QED
      BY Zenon, <3>1
  <2> HIDE DEF g
  <2>2. g \in Fetchers /\ g.at = at /\ g.finished = b
    BY Zenon, <1>4, <2>1 DEF Fetchers
  <2> QED
    BY Zenon, <2>2 DEF g
<1> QED
  BY Zenon, <1>4, <1>6, <1>7, <1>8

LEMMA ContinueType ==
  ASSUME NEW f \in Fetchers, NEW bag
  PROVE  /\ Continue(f, bag) \in Fetchers
         /\ Continue(f, bag).finished = f.finished
         /\ Continue(f, bag).at \in {f.at, "select", "done"}
<1>1. CASE f.todo # {} /\ ~f.throttled /\ Queued(bag) # {}
  BY Zenon, <1>1 DEF Continue
<1>2. CASE ~(f.todo # {} /\ ~f.throttled /\ Queued(bag) # {})
  <2> DEFINE b == f.finished
             at == IF Unavailable(f) THEN "done" ELSE "select"
  <2>1. b \in BOOLEAN /\ at \in {"done", "select"}
    BY Zenon DEF Fetchers
  <2>2. Continue(f, bag) = [at |-> at, finished |-> b, todo |-> {}, progressed |-> FALSE,
                            throttled |-> FALSE, running |-> FALSE, all |-> FALSE]
    BY Zenon, <1>2 DEF Continue, Resting
  <2> HIDE DEF b, at
  <2>3. Continue(f, bag) \in Fetchers /\ Continue(f, bag).finished = b /\ Continue(f, bag).at = at
    BY <2>1, <2>2 DEF Fetchers
  <2> QED
    BY Zenon, <2>1, <2>3 DEF b
<1> QED
  BY Zenon, <1>1, <1>2

\* The first part of a round of fetchParts: it goes on to assign, or asks
\* inFlight when nothing is queued and no more is to come, or fails, or rests.
LEMMA UpdateForm ==
  ASSUME Fetching, NEW k \in Kinds, NEW E \in SUBSET InFlight(k), NEW D \in SUBSET E,
         Update(k, E, D)
  PROVE  /\ fetcher' \in [Kinds -> Fetchers]
         /\ \A j \in Kinds \ {k} : fetcher'[j] = fetcher[j]
         /\ fetcher'[k].finished = fetcher[k].finished
         /\ fetcher'[k].at = "drained" => fetcher[k].finished /\ Queued(ReturnTasks(tasks[k], pend[k], E)) = {}
         /\ failed' = (failed \/ fetcher'[k].at = "done")
         /\ cancelled' => cancelled \/ failed'
<1> DEFINE slow  == {p \in D \cap peers : Cardinality(pend[k][p]) > MinFetch}
           stall == (D \cap peers) \ slow
           new   == ReturnTasks(tasks[k], pend[k], E)
           idles == peers \ (busy[k] \ slow)
           running == InFlight(k) \ E # {}
           all   == idles = peers
           begun == [Rest(k) EXCEPT !.at = "assign", !.todo = idles, !.all = (idles = peers),
                                    !.running = (InFlight(k) \ E # {})]
           next  == IF peers = {} \/ Master \in stall THEN [Rest(k) EXCEPT !.at = "done"]
                    ELSE IF Queued(new) # {} THEN Continue(begun, new)
                    ELSE [Rest(k) EXCEPT !.at = IF fetcher[k].finished THEN "drained" ELSE "select"]
<1>1. /\ fetcher' = [fetcher EXCEPT ![k] = next]
      /\ failed' = (failed \/ next.at = "done")
      /\ cancelled' = (cancelled \/ Master \in stall)
  BY Zenon DEF Update
<1>2. begun \in Fetchers /\ begun.at = "assign" /\ begun.finished = fetcher[k].finished
  <2> DEFINE a == [Rest(k) EXCEPT !.at = "assign"]
  <2>1. a \in Fetchers /\ a.at = "assign" /\ a.finished = fetcher[k].finished
    BY Zenon, RestType
  <2>2. begun = [a EXCEPT !.todo = idles, !.all = all, !.running = running]
    BY Zenon, RestType DEF Fetchers
  <2>3. idles \in SUBSET Peers /\ all \in BOOLEAN /\ running \in BOOLEAN
    BY Zenon DEF Fetching
  <2> HIDE DEF a, idles, all, running
  <2>4. /\ [a EXCEPT !.todo = idles, !.all = all, !.running = running] \in Fetchers
        /\ [a EXCEPT !.todo = idles, !.all = all, !.running = running].at = a.at
        /\ [a EXCEPT !.todo = idles, !.all = all, !.running = running].finished = a.finished
    BY Zenon, <2>1, <2>3 DEF Fetchers
  <2> HIDE DEF begun
  <2> QED
    BY Zenon, <2>1, <2>2, <2>4
<1> HIDE DEF begun, idles, all, running, slow, stall
<1>3. /\ next \in Fetchers /\ next.finished = fetcher[k].finished
      /\ next.at = "drained" => fetcher[k].finished /\ Queued(new) = {}
      /\ Master \in stall => next.at = "done"
  <2>1. CASE peers = {} \/ Master \in stall
    <3>1. next = [Rest(k) EXCEPT !.at = "done"]
      BY Zenon, <2>1
    <3> HIDE DEF next
    <3> QED
      BY Zenon, <3>1, RestType
  <2>2. CASE ~(peers = {} \/ Master \in stall) /\ Queued(new) # {}
    <3>1. next = Continue(begun, new)
      BY Zenon, <2>2
    <3> HIDE DEF next
    <3> QED
      BY Zenon, <1>2, <2>2, <3>1, ContinueType
  <2>3. CASE ~(peers = {} \/ Master \in stall) /\ Queued(new) = {}
    <3> DEFINE at == IF fetcher[k].finished THEN "drained" ELSE "select"
    <3>1. next = [Rest(k) EXCEPT !.at = at]
      BY Zenon, <2>3
    <3>2. at \in {"select", "assign", "drained", "done"} /\ (at = "drained" => fetcher[k].finished)
      BY Zenon
    <3> HIDE DEF next, at
    <3>3. next \in Fetchers /\ next.finished = fetcher[k].finished /\ next.at = at
      BY Zenon, <3>1, <3>2, RestType
    <3> QED
      BY Zenon, <2>3, <3>2, <3>3
  <2> QED
    BY Zenon, <2>1, <2>2, <2>3
<1> HIDE DEF next
<1>4. fetcher'[k] = next /\ \A j \in Kinds \ {k} : fetcher'[j] = fetcher[j]
  BY Zenon, <1>1 DEF Fetching
<1>5. fetcher' \in [Kinds -> Fetchers]
  BY Zenon, <1>1, <1>3 DEF Fetching
<1> QED
  BY Zenon, <1>1, <1>3, <1>4, <1>5

\* reserveHeaders' flags are flags.
Flagged(r) == r.progress \in BOOLEAN /\ r.throttled \in BOOLEAN

\* The loop over idle peers goes on, or ends the round.
LEMMA AssignForm ==
  ASSUME Fetching, NEW k \in Kinds, NEW p, NEW r, Flagged(r),
         fetcher[k].at = "assign", Reserved(k, p, r)
  PROVE  /\ fetcher' \in [Kinds -> Fetchers]
         /\ \A j \in Kinds \ {k} : fetcher'[j] = fetcher[j]
         /\ fetcher'[k].finished = fetcher[k].finished
         /\ fetcher'[k].at # "drained"
         /\ failed' = (failed \/ fetcher'[k].at = "done")
<1> DEFINE f == fetcher[k]
           todo == f.todo \ {p}
           progressed == f.progressed \/ r.progress
           throttled == r.throttled
           running == f.running \/ r.send # {}
           g == [f EXCEPT !.todo = @ \ {p}, !.progressed = @ \/ r.progress,
                          !.throttled = r.throttled, !.running = @ \/ r.send # {}]
           next == Continue(g, r.tasks)
<1>1. fetcher' = [fetcher EXCEPT ![k] = next] /\ failed' = (failed \/ next.at = "done")
  BY Zenon DEF Reserved
<1>2. f \in Fetchers
  BY Zenon DEF Fetching
<1>3. g = [f EXCEPT !.todo = todo, !.progressed = progressed, !.throttled = throttled, !.running = running]
  BY Zenon, <1>2 DEF Fetchers
<1>4. todo \in SUBSET Peers /\ progressed \in BOOLEAN /\ throttled \in BOOLEAN /\ running \in BOOLEAN
  BY Zenon, <1>2 DEF Fetchers, Flagged
<1>5. f.at = "assign" /\ f.finished = fetcher[k].finished
  BY Zenon
<1> HIDE DEF f, todo, progressed, throttled, running
<1>6. g \in Fetchers /\ g.at = f.at /\ g.finished = f.finished
  <2> HIDE DEF g
  <2> QED
    BY Zenon, <1>2, <1>3, <1>4 DEF Fetchers
<1> HIDE DEF g
<1>7. next \in Fetchers /\ next.finished = f.finished /\ next.at \in {"assign", "select", "done"}
  BY Zenon, <1>5, <1>6, ContinueType
<1> HIDE DEF next
<1>8. fetcher'[k] = next /\ \A j \in Kinds \ {k} : fetcher'[j] = fetcher[j]
  BY Zenon, <1>1 DEF Fetching
<1>9. fetcher' \in [Kinds -> Fetchers]
  BY Zenon, <1>1, <1>7 DEF Fetching
<1> QED
  BY Zenon, <1>1, <1>5, <1>7, <1>8, <1>9

-----------------------------------------------------------------------------
(* Every step keeps the queue                                              *)

\* A step that changes neither the queue nor the store.
LEMMA QuietStep ==
  ASSUME QInv, Fetching', UNCHANGED <<tasks, taskPool, pend, store, scheduled>>
  PROVE  QInv'
<1>1. TypeOK'
  BY Zenon DEF QInv, TypeOK, Fetching
<1> QED
  BY Zenon, <1>1 DEF QInv, KInv

\* Results takes complete results, which nobody is asked for any more.
LEMMA TakeStep ==
  ASSUME QInv, NEW threshold \in Thresholds, NEW c \in 0..CacheSize, TakeResults(threshold, c)
  PROVE  QInv'
<1> DEFINE n == Min({MaxResults, c})
           t == SetThrottleThreshold(GetCompleted(store, c, MaxResults), threshold)
<1>0. /\ store' = t
      /\ UNCHANGED <<tasks, taskPool, pend, scheduled, fetcher, peers>>
  BY Zenon DEF TakeResults, queueVars, syncVars, peerVars
<1>1. TypeOK /\ StoreOK(store) /\ \A k \in Kinds : KInv(k)
  BY Zenon DEF QInv
<1>2. StoreOK(store) /\ threshold \in Nat \ {0} /\ countCompleted(store, c)
  BY Zenon, <1>1, DownloadQueueAssumption DEF TakeResults
<1> HIDE DEF n, t
<1>d. n = Min({MaxResults, c}) /\ t = SetThrottleThreshold(GetCompleted(store, c, MaxResults), threshold)
  BY Zenon DEF n, t
<1>3. /\ n \in Nat /\ n <= c /\ n <= CacheSize
      /\ t.offset = store.offset + n
      /\ \A i \in 1..CacheSize : t.items[i] = IF i + n <= CacheSize THEN store.items[i + n] ELSE None
      /\ StoreOK(t)
  BY <1>2, <1>d, TakeFacts
<1>4. \A i \in 1..n : AllDone(store.items[i])
  <2>1. c \in Nat /\ \A i \in 1..c : AllDone(store.items[i])
    BY Zenon, <1>2, CountFacts
  <2> QED
    BY <1>3, <2>1
<1>5. t.offset \in Int
  BY <1>3 DEF StoreOK, Stores
<1>6. ASSUME NEW k \in Kinds
      PROVE  Slotted(k, pend[k], t) /\ Owed(k, taskPool[k], t, scheduled)
  <2> DEFINE pool == taskPool[k]
             asked == pend[k]
  <2>1. /\ pool \in SUBSET Headers /\ asked \in [Peers -> SUBSET Headers]
        /\ Slotted(k, asked, store) /\ Owed(k, pool, store, scheduled) /\ scheduled \in 0..Len(Needs)
    BY Zenon, <1>1 DEF KInv, TypeOK
  <2> HIDE DEF pool, asked
  <2>2. Slotted(k, asked, t) /\ Owed(k, pool, t, scheduled)
    BY Zenon, <1>2, <1>3, <1>4, <1>5, <2>1, TakeKeeps
  <2> QED
    BY Zenon, <2>2 DEF pool, asked
<1>7. \A k \in Kinds : KInv(k)'
  BY Zenon, <1>0, <1>1, <1>6 DEF KInv
<1>8. TypeOK'
  BY Zenon, <1>0, <1>1, <1>3 DEF TypeOK, StoreOK
<1> QED
  BY Zenon, <1>0, <1>3, <1>7, <1>8 DEF QInv

\* The tasks of a chunk of headers are new to the queue.
LEMMA ProcessStep ==
  ASSUME QInv, NEW last \in Ends, ProcessChunk(last)
  PROVE  QInv'
<1> DEFINE hs(k) == Scheduled(k, (scheduled + 1)..last)
<1>c. Len(Needs) \in Nat /\ Headers = 1..Len(Needs)
  BY Zenon, Constants
<1>1. TypeOK /\ StoreOK(store) /\ \A k \in Kinds : KInv(k)
  BY Zenon DEF QInv
<1>2. scheduled \in 0..Len(Needs) /\ scheduled < Len(Needs)
  BY Zenon, <1>1 DEF TypeOK, ProcessChunk
<1>4. last \in 0..Len(Needs) /\ scheduled < last
  <2>1. last \in Headers /\ scheduled < last
    BY Zenon, DownloadQueueAssumption DEF ProcessChunk
  <2> QED
    BY <1>2, <1>c, <2>1
<1>5. /\ tasks' = [k \in Kinds |-> PushAll(tasks[k], hs(k) \ taskPool[k])]
      /\ taskPool' = [k \in Kinds |-> taskPool[k] \cup hs(k)]
      /\ scheduled' = last
      /\ UNCHANGED <<pend, store, fetcher, peers>>
  BY Zenon DEF ProcessChunk, Schedule, peerVars
<1>6. ASSUME NEW k \in Kinds
      PROVE  KInv(k)' /\ tasks'[k] \in [Headers -> Nat] /\ taskPool'[k] \in SUBSET Headers
  <2> DEFINE bag == tasks[k]
             pool == taskPool[k]
             asked == pend[k]
             h == hs(k)
  <2>1. /\ bag \in [Headers -> Nat] /\ pool \in SUBSET Headers /\ asked \in [Peers -> SUBSET Headers]
        /\ Tasked(bag, pool, asked) /\ Slotted(k, asked, store) /\ Owed(k, pool, store, scheduled)
    BY Zenon, <1>1 DEF KInv, TypeOK
  <2>3. /\ tasks'[k] = PushAll(bag, h \ pool) /\ taskPool'[k] = pool \cup h /\ pend'[k] = asked
    BY Zenon, <1>5
  <2>4. h \in SUBSET Headers /\ h \cap pool = {} /\ Owed(k, pool \cup h, store, last)
    BY Zenon, <1>2, <1>4, <2>1, ScheduleOwed
  <2> HIDE DEF bag, pool, asked, h
  <2>5. /\ PushAll(bag, h \ pool) \in [Headers -> Nat]
        /\ Tasked(PushAll(bag, h \ pool), pool \cup h, asked)
    BY Zenon, <2>1, <2>4, ScheduleTasked
  <2> QED
    BY Zenon, <1>5, <2>1, <2>3, <2>4, <2>5 DEF KInv
<1>7. TypeOK'
  <2>1. tasks' \in [Kinds -> [Headers -> Nat]] /\ taskPool' \in [Kinds -> SUBSET Headers]
    BY Zenon, <1>5, <1>6
  <2> QED
    BY Zenon, <1>1, <1>4, <1>5, <2>1 DEF TypeOK
<1> QED
  BY Zenon, <1>1, <1>5, <1>6, <1>7 DEF QInv

\* What is accepted of an answer leaves the pool: its results are complete in
\* this kind, and the slots and what is owed of the others stay.
LEMMA AcceptFacts ==
  ASSUME StoreOK(store), NEW k \in Kinds, NEW accepted \in SUBSET Headers,
         \A h \in accepted : Index(store, h) \in 0..(CacheSize - 1) /\ Slot(store, h) # None,
         NEW t, t = Reconstruct(k, accepted),
         NEW pool \in SUBSET Headers, NEW asked \in [Peers -> SUBSET Headers],
         NEW rest \in [Peers -> SUBSET Headers],
         \A p \in Peers : \A h \in rest[p] : h \in asked[p] /\ h \notin accepted,
         NEW m \in 0..Len(Needs),
         Slotted(k, asked, store), Owed(k, pool, store, m)
  PROVE  StoreOK(t) /\ Slotted(k, rest, t) /\ Owed(k, pool \ accepted, t, m)
<1>1. /\ StoreOK(t)
      /\ t.offset = store.offset
      /\ \A i \in 1..CacheSize :
           /\ t.items[i] = None <=> store.items[i] = None
           /\ (store.offset + i) - 1 \in accepted => t.items[i].pending = store.items[i].pending \ {k}
  BY DoneFacts
<1>2. Slotted(k, rest, t) /\ Owed(k, pool, t, m)
  BY DoneKeeps
<1>3. \A h \in accepted : Index(t, h) \in 0..(CacheSize - 1) /\ Slot(t, h) # None /\ k \notin Slot(t, h).pending
  <2> TAKE h \in accepted
  <2>1. /\ h \in Int /\ store.offset \in Int /\ CacheSize \in Nat
    BY Constants DEF StoreOK, Stores
  <2> DEFINE o == store.offset
             i == (h - o) + 1
  <2>2. Index(t, h) = h - o /\ Index(store, h) = h - o
    BY Zenon, <1>1 DEF Index
  <2>3. h - o \in 0..(CacheSize - 1) /\ store.items[i] # None
    BY Zenon, <2>2 DEF Slot
  <2>4. o \in Int
    BY Zenon, <2>1
  <2>5. i \in 1..CacheSize /\ (o + i) - 1 = h
    <3> HIDE DEF o
    <3> QED
      BY <2>1, <2>3, <2>4
  <2>6. Slot(t, h) = t.items[i]
    BY Zenon, <2>2 DEF Slot
  <2> HIDE DEF i
  <2> QED
    BY Zenon, <1>1, <2>2, <2>3, <2>5, <2>6
<1>4. Owed(k, pool \ accepted, t, m)
  BY Zenon, <1>1, <1>2, <1>3, OwedShrinks
<1> QED
  BY Zenon, <1>1, <1>2, <1>4

\* An answer from a peer with a request: what is accepted leaves the pool, and
\* the rest of the request goes back to the task queue.
LEMMA AcceptStep ==
  ASSUME QInv, NEW k \in Kinds, NEW p \in Peers, NEW accepted \in SUBSET pend[k][p],
         pend' = [pend EXCEPT ![k] = Unpend(pend[k], {p})],
         store' = Reconstruct(k, accepted),
         taskPool' = [taskPool EXCEPT ![k] = taskPool[k] \ accepted],
         tasks' = [tasks EXCEPT ![k] = PushAll(tasks[k], pend[k][p] \ accepted)],
         UNCHANGED <<scheduled, fetcher, peers>>
  PROVE  QInv'
<1> DEFINE bag == tasks[k]
           pool == taskPool[k]
           asked == pend[k]
           rest == [asked EXCEPT ![p] = {}]
           t == Reconstruct(k, accepted)
<1>1. TypeOK /\ StoreOK(store) /\ \A j \in Kinds : KInv(j)
  BY Zenon DEF QInv
<1>2. /\ bag \in [Headers -> Nat] /\ pool \in SUBSET Headers /\ asked \in [Peers -> SUBSET Headers]
      /\ scheduled \in 0..Len(Needs) /\ accepted \in SUBSET Headers /\ accepted \in SUBSET asked[p]
      /\ Tasked(bag, pool, asked) /\ Slotted(k, asked, store) /\ Owed(k, pool, store, scheduled)
  BY <1>1 DEF KInv, TypeOK
<1>3. \A j \in Kinds : /\ taskPool[j] \in SUBSET Headers /\ pend[j] \in [Peers -> SUBSET Headers]
                       /\ tasks[j] \in [Headers -> Nat]
                       /\ Slotted(j, pend[j], store) /\ Owed(j, taskPool[j], store, scheduled)
  BY Zenon, <1>1 DEF KInv, TypeOK
<1>4. Unpend(pend[k], {p}) = rest
  BY Zenon, <1>2 DEF Unpend
<1>5. store' = t /\ t = Reconstruct(k, accepted)
  BY Zenon
<1>6. \A h \in accepted : /\ Index(store, h) \in 0..(CacheSize - 1)
                          /\ Slot(store, h) # None /\ k \in Slot(store, h).pending
  BY Zenon, <1>2 DEF Slotted
<1>7. rest \in [Peers -> SUBSET Headers]
      /\ \A q \in Peers : \A h \in rest[q] : h \in asked[q] /\ h \notin accepted
  BY Zenon, <1>2 DEF Tasked
<1>8. /\ pend'[k] = rest /\ taskPool'[k] = pool \ accepted /\ tasks'[k] = PushAll(bag, asked[p] \ accepted)
      /\ \A j \in Kinds \ {k} : pend'[j] = pend[j] /\ taskPool'[j] = taskPool[j] /\ tasks'[j] = tasks[j]
  BY Zenon, <1>1, <1>4 DEF TypeOK
<1>d. rest = [asked EXCEPT ![p] = {}] /\ asked = pend[k]
  BY Zenon
<1> HIDE DEF bag, pool, asked, rest, t
<1>9. StoreOK(t) /\ Slotted(k, rest, t) /\ Owed(k, pool \ accepted, t, scheduled)
  BY Zenon, <1>1, <1>2, <1>5, <1>6, <1>7, AcceptFacts
<1>10. PushAll(bag, asked[p] \ accepted) \in [Headers -> Nat]
       /\ Tasked(PushAll(bag, asked[p] \ accepted), pool \ accepted, rest)
  BY Zenon, <1>2, <1>d, DeliverTasked
<1>11. ASSUME NEW j \in Kinds \ {k}
       PROVE  Slotted(j, pend[j], t) /\ Owed(j, taskPool[j], t, scheduled)
  <2> DEFINE ask == pend[j]
             owe == taskPool[j]
  <2>1. /\ j \in Kinds /\ j # k /\ ask \in [Peers -> SUBSET Headers] /\ owe \in SUBSET Headers
        /\ Slotted(j, ask, store) /\ Owed(j, owe, store, scheduled)
    BY Zenon, <1>3
  <2>2. \A q \in Peers : \A h \in ask[q] : h \in ask[q] /\ (j = k => h \notin accepted)
    BY Zenon, <2>1
  <2> HIDE DEF ask, owe
  <2>3. Slotted(j, ask, t) /\ Owed(j, owe, t, scheduled)
    BY Zenon, <1>1, <1>2, <1>5, <1>6, <2>1, <2>2, DoneKeeps
  <2> QED
    BY Zenon, <2>3 DEF ask, owe
<1>12. KInv(k)'
  BY Zenon, <1>5, <1>8, <1>9, <1>10 DEF KInv
<1>13. ASSUME NEW j \in Kinds \ {k} PROVE KInv(j)'
  <2>1. Tasked(tasks[j], taskPool[j], pend[j])
    BY Zenon, <1>1 DEF KInv
  <2> QED
    BY Zenon, <1>5, <1>8, <1>11, <2>1 DEF KInv
<1>14. TypeOK'
  <2>1. pool \ accepted \in SUBSET Headers
    BY Zenon, <1>2
  <2>2. \A j \in Kinds : /\ tasks'[j] \in [Headers -> Nat] /\ taskPool'[j] \in SUBSET Headers
                         /\ pend'[j] \in [Peers -> SUBSET Headers]
    BY Zenon, <1>3, <1>7, <1>8, <1>10, <2>1
  <2>3. /\ tasks' = [j \in Kinds |-> tasks'[j]] /\ taskPool' = [j \in Kinds |-> taskPool'[j]]
        /\ pend' = [j \in Kinds |-> pend'[j]]
    BY Zenon, <1>1 DEF TypeOK
  <2>4. /\ tasks' \in [Kinds -> [Headers -> Nat]] /\ taskPool' \in [Kinds -> SUBSET Headers]
        /\ pend' \in [Kinds -> [Peers -> SUBSET Headers]]
    BY Zenon, <2>2, <2>3
  <2> QED
    BY Zenon, <1>1, <1>5, <1>9, <2>4 DEF TypeOK, StoreOK
<1> QED
  BY Zenon, <1>5, <1>9, <1>12, <1>13, <1>14 DEF QInv

\* A delivery, of an answer that was asked for or not, keeps the queue.
LEMMA DeliverStep ==
  ASSUME QInv, NEW k \in Kinds, NEW msg, NEW good, NEW bad, Deliver(k, msg, good, bad)
  PROVE  QInv'
<1>0. UNCHANGED <<scheduled, fetcher, peers>>
  BY Zenon DEF Deliver, syncVars
<1>1. CASE msg.peer \notin peers \/ pend[k][msg.peer] = {}
  <2>1. UNCHANGED <<tasks, taskPool, pend, store>>
    BY Zenon, <1>1 DEF Deliver, queueVars
  <2>2. Fetching'
    BY Zenon, <1>0 DEF QInv, TypeOK, Fetching
  <2> QED
    BY Zenon, <1>0, <2>1, <2>2, QuietStep
<1>2. CASE msg.peer \in peers /\ pend[k][msg.peer] # {}
  <2> DEFINE p == msg.peer
             accepted == AcceptedItems(pend[k][p], good)
  <2>1. /\ pend' = [pend EXCEPT ![k] = Unpend(pend[k], {p})]
        /\ store' = Reconstruct(k, accepted)
        /\ taskPool' = [taskPool EXCEPT ![k] = taskPool[k] \ accepted]
        /\ tasks' = [tasks EXCEPT ![k] = PushAll(tasks[k], pend[k][p] \ accepted)]
    BY Zenon, <1>2 DEF Deliver, Leftover
  <2>2. p \in Peers
    BY Zenon, <1>2 DEF QInv, TypeOK
  <2>3. accepted \in SUBSET pend[k][p]
    BY Zenon DEF AcceptedItems
  <2> HIDE DEF p, accepted
  <2> QED
    BY Zenon, <1>0, <2>1, <2>2, <2>3, AcceptStep
<1> QED
  BY Zenon, <1>1, <1>2

\* The requests of the peers in E go back to the task queue of kind k.
LEMMA ReturnKind ==
  ASSUME TypeOK, NEW k \in Kinds, KInv(k), NEW E \in SUBSET Peers,
         tasks'[k] = ReturnTasks(tasks[k], pend[k], E), pend'[k] = Unpend(pend[k], E),
         UNCHANGED <<taskPool, store, scheduled>>
  PROVE  KInv(k)' /\ tasks'[k] \in [Headers -> Nat] /\ pend'[k] \in [Peers -> SUBSET Headers]
<1> DEFINE pool == taskPool[k]
           bag == tasks[k]
           asked == pend[k]
           new == ReturnTasks(bag, asked, E)
           rest == Unpend(asked, E)
<1>1. /\ pool \in SUBSET Headers /\ bag \in [Headers -> Nat] /\ asked \in [Peers -> SUBSET Headers]
      /\ Tasked(bag, pool, asked)
  BY Zenon DEF KInv, TypeOK
<1>2. Slotted(k, asked, store) /\ Owed(k, pool, store, scheduled)
  BY Zenon DEF KInv
<1>4. tasks'[k] = new /\ pend'[k] = rest /\ taskPool'[k] = pool
  BY Zenon
<1> HIDE DEF pool, bag, asked
<1>3. new \in [Headers -> Nat] /\ rest \in [Peers -> SUBSET Headers] /\ Tasked(new, pool, rest)
  BY Zenon, <1>1, ReturnTasked
<1>5. \A p \in Peers : rest[p] = IF p \in E THEN {} ELSE asked[p]
  BY Zenon DEF Unpend
<1> HIDE DEF new, rest
<1>6. Slotted(k, rest, store)
  BY Zenon, <1>2, <1>5 DEF Slotted
<1> QED
  BY Zenon, <1>2, <1>3, <1>4, <1>6 DEF KInv

\* The requests of some peers go back to the task queues.
LEMMA ReturnStep ==
  ASSUME QInv, Fetching', UNCHANGED <<taskPool, store, scheduled>>,
         tasks' = [k \in Kinds |-> tasks'[k]], pend' = [k \in Kinds |-> pend'[k]],
         \A k \in Kinds : \/ tasks'[k] = tasks[k] /\ pend'[k] = pend[k]
                          \/ \E E \in SUBSET Peers : /\ tasks'[k] = ReturnTasks(tasks[k], pend[k], E)
                                                   /\ pend'[k] = Unpend(pend[k], E)
  PROVE  QInv'
<1>1. TypeOK /\ StoreOK(store) /\ \A k \in Kinds : KInv(k)
  BY Zenon DEF QInv
<1>2. ASSUME NEW k \in Kinds
      PROVE  KInv(k)' /\ tasks'[k] \in [Headers -> Nat] /\ pend'[k] \in [Peers -> SUBSET Headers]
  <2>1. CASE tasks'[k] = tasks[k] /\ pend'[k] = pend[k]
    <3>1. tasks[k] \in [Headers -> Nat] /\ pend[k] \in [Peers -> SUBSET Headers]
      BY Zenon, <1>1 DEF TypeOK
    <3> QED
      BY Zenon, <1>1, <2>1, <3>1 DEF KInv
  <2>2. ASSUME NEW E \in SUBSET Peers, tasks'[k] = ReturnTasks(tasks[k], pend[k], E), pend'[k] = Unpend(pend[k], E)
        PROVE  KInv(k)' /\ tasks'[k] \in [Headers -> Nat] /\ pend'[k] \in [Peers -> SUBSET Headers]
    BY Zenon, <1>1, <2>2, ReturnKind
  <2> QED
    BY Zenon, <2>1, <2>2
<1>3. TypeOK'
  <2>1. tasks' \in [Kinds -> [Headers -> Nat]] /\ pend' \in [Kinds -> [Peers -> SUBSET Headers]]
    BY Zenon, <1>2
  <2> QED
    BY Zenon, <1>1, <2>1 DEF TypeOK, Fetching
<1> QED
  BY Zenon, <1>1, <1>2, <1>3 DEF QInv

\* So does an update of fetchParts, which expires requests, ...
LEMMA UpdateStep ==
  ASSUME QInv, NEW k \in Kinds, NEW E \in SUBSET InFlight(k), NEW D \in SUBSET E, Update(k, E, D)
  PROVE  QInv'
<1>1. /\ tasks' = [tasks EXCEPT ![k] = ReturnTasks(tasks[k], pend[k], E)]
      /\ pend' = [pend EXCEPT ![k] = Unpend(pend[k], E)]
      /\ UNCHANGED <<taskPool, store, scheduled, peers>>
  BY Zenon DEF Update
<1>2. Fetching /\ tasks \in [Kinds -> [Headers -> Nat]] /\ pend \in [Kinds -> [Peers -> SUBSET Headers]]
  BY Zenon DEF QInv, TypeOK, Fetching
<1>3. fetcher' \in [Kinds -> Fetchers]
  BY Zenon, <1>2, UpdateForm
<1>4. Fetching'
  BY Zenon, <1>1, <1>2, <1>3 DEF Fetching
<1>5. E \in SUBSET Peers
  BY Zenon DEF InFlight
<1>6. /\ tasks' = [j \in Kinds |-> tasks'[j]] /\ pend' = [j \in Kinds |-> pend'[j]]
  BY Zenon, <1>1, <1>2
<1>7. /\ tasks'[k] = ReturnTasks(tasks[k], pend[k], E) /\ pend'[k] = Unpend(pend[k], E)
      /\ \A j \in Kinds \ {k} : tasks'[j] = tasks[j] /\ pend'[j] = pend[j]
  BY Zenon, <1>1, <1>2
<1>8. \A j \in Kinds : \/ tasks'[j] = tasks[j] /\ pend'[j] = pend[j]
                       \/ \E F \in SUBSET Peers : /\ tasks'[j] = ReturnTasks(tasks[j], pend[j], F)
                                                /\ pend'[j] = Unpend(pend[j], F)
  BY Zenon, <1>5, <1>7
<1> QED
  BY Zenon, <1>1, <1>4, <1>6, <1>8, ReturnStep

\* ... the departure of a peer, ...
LEMMA RevokeStep ==
  ASSUME QInv, NEW p, Revoke(p)
  PROVE  QInv'
<1>1. /\ tasks' = [k \in Kinds |-> ReturnTasks(tasks[k], pend[k], InFlight(k) \cap {p})]
      /\ pend' = [k \in Kinds |-> Unpend(pend[k], InFlight(k) \cap {p})]
      /\ UNCHANGED <<taskPool, store, scheduled, fetcher, peers>>
  BY Zenon DEF Revoke, syncVars
<1>2. Fetching'
  BY Zenon, <1>1 DEF QInv, TypeOK, Fetching
<1>3. \A k \in Kinds : InFlight(k) \cap {p} \in SUBSET Peers
  BY Zenon DEF InFlight
<1>4. \A k \in Kinds :
        \E E \in SUBSET Peers : tasks'[k] = ReturnTasks(tasks[k], pend[k], E) /\ pend'[k] = Unpend(pend[k], E)
  BY Zenon, <1>1, <1>3
<1>5. /\ tasks' = [j \in Kinds |-> tasks'[j]] /\ pend' = [j \in Kinds |-> pend'[j]]
  BY Zenon, <1>1
<1> QED
  BY Zenon, <1>1, <1>2, <1>4, <1>5, ReturnStep

\* ... and a request sent to a peer.
LEMMA AssignStep ==
  ASSUME QInv, NEW k \in Kinds, NEW p, NEW count \in Counts, Assign(k, p, count)
  PROVE  QInv'
<1> DEFINE r == reserveHeaders(k, p, count)
           rest == Asking(k, p, r.send)
<1>1. TypeOK /\ StoreOK(store) /\ \A j \in Kinds : KInv(j)
  BY Zenon DEF QInv
<1>2. fetcher[k].at = "assign" /\ Reserved(k, p, r) /\ p \in fetcher[k].todo
  BY Zenon DEF Assign
<1>3. p \in Peers /\ count \in Nat /\ Fetching
  BY Zenon, <1>1, <1>2, DownloadQueueAssumption DEF TypeOK, Fetchers, Fetching
<1>d. r = reserveHeaders(k, p, count) /\ rest = Asking(k, p, r.send)
  BY Zenon
<1> HIDE DEF r
<1>4. /\ r.tasks \in [Headers -> Nat] /\ r.pool \in SUBSET Headers
      /\ rest \in [Peers -> SUBSET Headers]
      /\ r.progress \in BOOLEAN /\ r.throttled \in BOOLEAN
      /\ StoreOK(r.store)
      /\ Tasked(r.tasks, r.pool, rest)
      /\ Slotted(k, rest, r.store) /\ Owed(k, r.pool, r.store, scheduled)
      /\ \A j \in Kinds \ {k} : Slotted(j, pend[j], r.store) /\ Owed(j, taskPool[j], r.store, scheduled)
  <2> HIDE DEF rest
  <2> QED
    BY Zenon, <1>3, <1>d, ReserveFacts
<1>5. /\ tasks' = [tasks EXCEPT ![k] = r.tasks]
      /\ taskPool' = [taskPool EXCEPT ![k] = r.pool]
      /\ store' = r.store
      /\ UNCHANGED <<scheduled, peers>>
  BY Zenon, <1>2 DEF Reserved
<1>6. pend' = [pend EXCEPT ![k] = rest]
  <2>1. CASE r.send # {}
    BY Zenon, <1>2, <2>1 DEF Reserved, Asking
  <2>2. CASE r.send = {}
    <3>1. pend' = pend
      BY Zenon, <1>2, <2>2 DEF Reserved
    <3>2. pend \in [Kinds -> [Peers -> SUBSET Headers]]
      BY Zenon, <1>1 DEF TypeOK
    <3>3. pend = [pend EXCEPT ![k] = pend[k]]
      BY Zenon, <3>2
    <3> QED
      BY Zenon, <2>2, <3>1, <3>3 DEF Asking
  <2> QED
    BY Zenon, <2>1, <2>2
<1> HIDE DEF rest
<1>7. fetcher' \in [Kinds -> Fetchers]
  <2>1. Flagged(r)
    BY Zenon, <1>4 DEF Flagged
  <2> QED
    BY Zenon, <1>2, <1>3, <2>1, AssignForm
<1>8. /\ tasks'[k] = r.tasks /\ taskPool'[k] = r.pool /\ pend'[k] = rest
      /\ \A j \in Kinds \ {k} : tasks'[j] = tasks[j] /\ taskPool'[j] = taskPool[j] /\ pend'[j] = pend[j]
  BY Zenon, <1>1, <1>5, <1>6 DEF TypeOK
<1>9. KInv(k)'
  BY Zenon, <1>4, <1>5, <1>8 DEF KInv
<1>10. ASSUME NEW j \in Kinds \ {k} PROVE KInv(j)'
  <2>1. Tasked(tasks[j], taskPool[j], pend[j])
    BY Zenon, <1>1 DEF KInv
  <2> QED
    BY Zenon, <1>4, <1>5, <1>8, <2>1 DEF KInv
<1>11. TypeOK'
  <2>1. /\ tasks' \in [Kinds -> [Headers -> Nat]] /\ taskPool' \in [Kinds -> SUBSET Headers]
        /\ pend' \in [Kinds -> [Peers -> SUBSET Headers]]
    BY Zenon, <1>1, <1>4, <1>5, <1>6 DEF TypeOK
  <2>2. store' \in Stores
    BY Zenon, <1>4, <1>5 DEF StoreOK
  <2> QED
    BY Zenon, <1>1, <1>5, <1>7, <2>1, <2>2 DEF TypeOK
<1> QED
  BY Zenon, <1>4, <1>5, <1>9, <1>10, <1>11 DEF QInv

\* The fetchers' own steps, and a peer that leaves.
LEMMA FetchingStep ==
  ASSUME Fetching, NEW k \in Kinds, CancelFetch(k) \/ Wake(k) \/ Drained(k)
  PROVE  Fetching'
<1>1. ASSUME NEW f \in Fetchers, fetcher' = [fetcher EXCEPT ![k] = f], UNCHANGED peers
      PROVE  Fetching'
  BY Zenon, <1>1 DEF Fetching
<1>2. Rest(k) \in Fetchers /\ [Rest(k) EXCEPT !.at = "done"] \in Fetchers
  BY Zenon, RestType
<1>3. CASE CancelFetch(k)
  BY Zenon, <1>1, <1>2, <1>3 DEF CancelFetch, peerVars
<1>4. CASE Wake(k)
  <2> DEFINE now == (fetcher[k].finished \/ wake[k] = FALSE)
             f == [fetcher[k] EXCEPT !.finished = now]
  <2>1. fetcher[k] \in Fetchers /\ now \in BOOLEAN
    BY Zenon DEF Fetching
  <2>2. fetcher' = [fetcher EXCEPT ![k] = f] /\ UNCHANGED peers
    BY Zenon, <1>4 DEF Wake, peerVars
  <2> HIDE DEF now
  <2>3. f \in Fetchers
    BY Zenon, <2>1 DEF Fetchers
  <2> HIDE DEF f
  <2> QED
    BY Zenon, <1>1, <2>2, <2>3
<1>5. CASE Drained(k)
  BY Zenon, <1>1, <1>2, <1>5 DEF Drained, peerVars
<1> QED
  BY Zenon, <1>3, <1>4, <1>5

\* The queue at the start of a sync, and at every step.
LEMMA QueueInit == Init => QInv
<1> SUFFICES ASSUME Init PROVE QInv
  BY Zenon
<1>c. /\ CacheSize \in Nat /\ CacheSize >= 1 /\ Len(Needs) \in Nat /\ Thresholds \subseteq Nat \ {0}
      /\ Headers = 1..Len(Needs)
  BY Zenon, Constants, DownloadQueueAssumption
<1>1. PICK t \in Thresholds :
        store = [items |-> [i \in 1..CacheSize |-> None], offset |-> 1, incomplete |-> 0,
                 threshold |-> Min({t, CacheSize})]
  BY Zenon DEF Init
<1>2. Min({t, CacheSize}) \in 1..CacheSize
  <2>1. t \in Nat /\ t >= 1
    BY <1>c
  <2>2. Min({t, CacheSize}) = IF t <= CacheSize THEN t ELSE CacheSize
    BY Zenon, <1>c, <2>1, MinOfTwo
  <2> QED
    BY <1>c, <2>1, <2>2
<1>3. /\ store \in Stores /\ store.offset = 1 /\ store.incomplete = 0
      /\ \A i \in 1..CacheSize : store.items[i] = None
  <2> DEFINE m == Min({t, CacheSize})
  <2> HIDE DEF m
  <2>1. m \in 1..CacheSize
    BY Zenon, <1>2 DEF m
  <2>2. store = [items |-> [i \in 1..CacheSize |-> None], offset |-> 1, incomplete |-> 0, threshold |-> m]
    BY Zenon, <1>1 DEF m
  <2> QED
    BY <1>c, <2>1, <2>2 DEF Stores
<1>4. StoreOK(store)
  BY <1>3, <1>c DEF StoreOK
<1>5. ASSUME NEW k \in Kinds PROVE KInv(k)
  <2>1. tasks[k] = [h \in Headers |-> 0] /\ taskPool[k] = {} /\ pend[k] = [p \in Peers |-> {}] /\ scheduled = 0
    BY Zenon DEF Init
  <2>2. Tasked(tasks[k], taskPool[k], pend[k]) /\ Slotted(k, pend[k], store)
    <3>1. /\ \A h \in Headers : tasks[k][h] \in {0, 1} /\ tasks[k][h] # 1
          /\ \A p \in Peers : pend[k][p] = {}
      BY <2>1
    <3> QED
      BY Zenon, <2>1, <3>1 DEF Tasked, Slotted
  <2>3. Scheduled(k, 1..0) = {}
    BY DEF Scheduled
  <2>4. Owed(k, {}, store, 0)
    BY Zenon, <1>3, <2>3 DEF Owed
  <2> QED
    BY Zenon, <2>1, <2>2, <2>4 DEF KInv
<1>6. TypeOK
  <2>1. Resting \in Fetchers
    BY Zenon DEF Resting, Fetchers
  <2>2. /\ tasks = [k \in Kinds |-> [h \in Headers |-> 0]]
        /\ taskPool = [k \in Kinds |-> {}]
        /\ pend = [k \in Kinds |-> [p \in Peers |-> {}]]
        /\ fetcher = [k \in Kinds |-> Resting] /\ scheduled = 0 /\ peers = Peers
    BY Zenon DEF Init
  <2>3. tasks \in [Kinds -> [Headers -> Nat]] /\ taskPool \in [Kinds -> SUBSET Headers]
        /\ pend \in [Kinds -> [Peers -> SUBSET Headers]]
    BY Zenon, <2>2
  <2>4. fetcher \in [Kinds -> Fetchers]
    BY Zenon, <2>1, <2>2
  <2>5. scheduled \in 0..Len(Needs) /\ peers \in SUBSET Peers
    BY <1>c, <2>2
  <2> QED
    BY Zenon, <1>3, <2>3, <2>4, <2>5 DEF TypeOK
<1> QED
  BY Zenon, <1>4, <1>5, <1>6 DEF QInv

LEMMA QueueStep == QInv /\ [Next]_vars => QInv'
<1> SUFFICES ASSUME QInv, [Next]_vars PROVE QInv'
  BY Zenon
<1>0. Fetching
  BY Zenon DEF QInv, TypeOK, Fetching
<1>1. ASSUME UNCHANGED <<tasks, taskPool, pend, store, scheduled, fetcher, peers>> PROVE QInv'
  <2>1. Fetching'
    BY Zenon, <1>0, <1>1 DEF Fetching
  <2> QED
    BY Zenon, <1>1, <2>1, QuietStep
<1>2. CASE UNCHANGED vars
  BY Zenon, <1>1, <1>2 DEF vars
<1>3. CASE CheckResults \/ LockResults \/ Woken
  BY Zenon, <1>1, <1>3 DEF CheckResults, LockResults, Woken, queueVars, syncVars, peerVars
<1>4. CASE TakeAny
  BY Zenon, <1>4, TakeStep DEF TakeAny
<1>5. CASE ProcessHeaders
  BY Zenon, <1>5, ProcessStep DEF ProcessHeaders
<1>6. CASE CancelHeaders \/ CloseQueue \/ \E k \in Kinds : EndHeaders(k)
  BY Zenon, <1>1, <1>6 DEF CancelHeaders, CloseQueue, EndHeaders, queueVars, peerVars
<1>7. ASSUME NEW k \in Kinds, CancelFetch(k) \/ Wake(k) \/ Drained(k) PROVE QInv'
  <2>1. Fetching'
    BY Zenon, <1>0, <1>7, FetchingStep
  <2>2. UNCHANGED <<tasks, taskPool, pend, store, scheduled>>
    BY Zenon, <1>7 DEF CancelFetch, Wake, Drained, queueVars, syncVars
  <2> QED
    BY Zenon, <2>1, <2>2, QuietStep
<1>8. ASSUME NEW k \in Kinds, DeliverAny(k) PROVE QInv'
  BY Zenon, <1>8, DeliverStep DEF DeliverAny
<1>9. ASSUME NEW k \in Kinds, NEW E \in SUBSET InFlight(k), NEW D \in SUBSET E, Update(k, E, D) PROVE QInv'
  BY Zenon, <1>9, UpdateStep
<1>10. ASSUME NEW k \in Kinds, NEW p \in fetcher[k].todo, NEW n \in Counts, Assign(k, p, n) PROVE QInv'
  BY Zenon, <1>10, AssignStep
<1>11. ASSUME NEW p \in peers, Unregister(p) PROVE QInv'
  <2>1. peers' = peers \ {p} /\ UNCHANGED <<tasks, taskPool, pend, store, scheduled, fetcher>>
    BY Zenon, <1>11 DEF Unregister, queueVars, syncVars
  <2>2. Fetching'
    BY Zenon, <1>0, <2>1 DEF Fetching
  <2> QED
    BY Zenon, <2>1, <2>2, QuietStep
<1>12. ASSUME NEW p \in revoking, Revoke(p) PROVE QInv'
  BY Zenon, <1>12, RevokeStep
<1> QED
  BY Zenon, <1>2, <1>3, <1>4, <1>5, <1>6, <1>7, <1>8, <1>9, <1>10, <1>11, <1>12 DEF Next

\* What the queue keeps holds at every step, whatever the peers do: every task
\* of a pool is queued or asked of one peer, what is asked for has a slot that
\* waits for it, and what a slot waits for is in the pool.
THEOREM QueueInvariance == Spec => []QInv
  BY QueueInit, QueueStep, PTL DEF Spec

\* Content still to be fetched is queued once or asked of one peer, for every
\* interleaving of deliveries, timeouts and departures.
THEOREM TasksAlwaysExact == Spec => []TasksExact
<1>1. QInv => TasksExact
  <2> SUFFICES ASSUME QInv, NEW k \in Kinds, NEW h \in Headers
               PROVE  tasks[k][h] + Cardinality({p \in InFlight(k) : h \in pend[k][p]})
                        = IF h \in taskPool[k] THEN 1 ELSE 0
    BY Zenon DEF TasksExact
  <2> DEFINE bag == tasks[k]
             pool == taskPool[k]
             asked == pend[k]
             E == InFlight(k)
  <2>1. Tasked(bag, pool, asked) /\ bag \in [Headers -> Nat]
    BY Zenon DEF QInv, KInv, TypeOK
  <2>2. E \in SUBSET Peers /\ \A p \in Peers : h \in asked[p] => p \in E
    BY Zenon DEF InFlight
  <2> HIDE DEF bag, pool, asked, E
  <2>3. Cardinality({p \in E : h \in asked[p]}) = IF \E p \in E : h \in asked[p] THEN 1 ELSE 0
    BY Zenon, <2>1, <2>2, AskedOnce
  <2>4. bag[h] + (IF \E p \in E : h \in asked[p] THEN 1 ELSE 0) = IF h \in pool THEN 1 ELSE 0
    BY <2>1, <2>2 DEF Tasked
  <2> QED
    BY Zenon, <2>3, <2>4 DEF bag, pool, asked, E
<1> QED
  BY <1>1, QueueInvariance, PTL

\* deliver finds a slot in the result store for all it was asked for, although
\* Results moves the store on meanwhile.
THEOREM RequestsKeepSlots == Spec => []InFlightHasSlot
<1>1. QInv => InFlightHasSlot
  BY Zenon DEF QInv, KInv, Slotted, InFlightHasSlot, InFlight
<1> QED
  BY <1>1, QueueInvariance, PTL

=============================================================================
