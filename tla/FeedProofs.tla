----------------------------- MODULE FeedProofs -----------------------------
(***************************************************************************)
(* Feed keeps its lists in order and implements Broadcast, for any set of  *)
(* channels, any buffers and any number of sends.                          *)
(***************************************************************************)
EXTENDS Feed, TLAPS

\* Nobody is owed a value while no Send is past its first steps, and a channel
\* whose remove is past its look into the inbox is among the cases.
SendShape ==
  /\ phase \in {"idle", "locked"} => cases = 0
  /\ phase = "locked" => sent < MaxSends
  /\ phase \in {"trying", "blocked"} => sent > 0
  /\ i <= cases + 1
  /\ \A c \in Channels : sub[c] = "removing" => c \in Range(sendCases)

IInv == TypeOK /\ CasesMatch /\ NoPanic /\ SendShape

-----------------------------------------------------------------------------
(* Lists                                                                   *)

\* caseList.find returns an index of the channel exactly when it is listed.
LEMMA FindFacts ==
  ASSUME NEW list \in Seq(Channels), NEW c
  PROVE  /\ find(list, c) = 0 <=> c \notin Range(list)
         /\ c \in Range(list) => find(list, c) \in 1..Len(list) /\ list[find(list, c)] = c
<1>1. CASE c \in Range(list)
  <2>1. \E k \in DOMAIN list : list[k] = c
    BY <1>1 DEF Range
  <2>2. find(list, c) \in DOMAIN list /\ list[find(list, c)] = c
    BY <1>1, <2>1 DEF find
  <2>3. DOMAIN list = 1..Len(list) /\ Len(list) \in Nat
    OBVIOUS
  <2> QED
    BY <1>1, <2>2, <2>3
<1>2. CASE c \notin Range(list)
  BY <1>2 DEF find
<1> QED
  BY <1>1, <1>2

\* caseList.delete removes one entry and keeps the others.
LEMMA DeleteFacts ==
  ASSUME NEW list \in Seq(Channels), IsInjective(list), NEW k \in 1..Len(list)
  PROVE  /\ delete(list, k) \in Seq(Channels)
         /\ Len(delete(list, k)) = Len(list) - 1
         /\ IsInjective(delete(list, k))
         /\ Range(delete(list, k)) = Range(list) \ {list[k]}
<1> DEFINE d == delete(list, k)
<1>1. /\ Len(list) \in Nat /\ DOMAIN list = 1..Len(list)
      /\ \A j \in 1..Len(list) : list[j] \in Channels
  OBVIOUS
<1>2. d = [j \in 1..(Len(list) - 1) |-> IF j < k THEN list[j] ELSE list[j + 1]]
  BY DEF delete
<1>3. \A j \in 1..(Len(list) - 1) : d[j] \in Channels
  BY <1>1, <1>2
<1>4. d \in Seq(Channels) /\ Len(d) = Len(list) - 1
  <2>1. Len(list) - 1 \in Nat
    BY <1>1
  <2>2. d \in [1..(Len(list) - 1) -> Channels]
    BY <1>2, <1>3
  <2> QED
    BY <2>1, <2>2
<1>5. DOMAIN d = 1..(Len(list) - 1)
  BY <1>2
<1>6. IsInjective(d)
  <2> SUFFICES ASSUME NEW a \in 1..(Len(list) - 1), NEW b \in 1..(Len(list) - 1), d[a] = d[b]
               PROVE  a = b
    BY <1>5 DEF IsInjective
  <2>1. \A x, y \in 1..Len(list) : list[x] = list[y] => x = y
    BY <1>1 DEF IsInjective
  <2> QED
    BY <1>1, <1>2, <2>1
<1>7. Range(d) = Range(list) \ {list[k]}
  <2>1. \A x, y \in 1..Len(list) : list[x] = list[y] => x = y
    BY <1>1 DEF IsInjective
  <2>2. ASSUME NEW a \in 1..(Len(list) - 1)
        PROVE  d[a] \in Range(list) \ {list[k]}
    <3>1. CASE a < k
      <4>1. d[a] = list[a] /\ a \in 1..Len(list) /\ a # k
        BY <1>1, <1>2, <3>1
      <4> QED
        BY <4>1, <2>1, <1>1 DEF Range
    <3>2. CASE ~(a < k)
      <4>1. d[a] = list[a + 1] /\ a + 1 \in 1..Len(list) /\ a + 1 # k
        BY <1>1, <1>2, <3>2
      <4> QED
        BY <4>1, <2>1, <1>1 DEF Range
    <3> QED
      BY <3>1, <3>2
  <2>3. ASSUME NEW a \in 1..Len(list), a # k
        PROVE  list[a] \in Range(d)
    <3>1. CASE a < k
      <4>1. d[a] = list[a] /\ a \in 1..(Len(list) - 1)
        BY <1>1, <1>2, <3>1
      <4> QED
        BY <4>1, <1>5 DEF Range
    <3>2. CASE a > k
      <4>1. d[a - 1] = list[a] /\ a - 1 \in 1..(Len(list) - 1)
        BY <1>1, <1>2, <3>2
      <4> QED
        BY <4>1, <1>5 DEF Range
    <3> QED
      BY <3>1, <3>2, <2>3, <1>1
  <2> HIDE DEF d
  <2> QED
    BY <1>1, <1>5, <2>2, <2>3 DEF Range
<1> QED
  BY <1>4, <1>6, <1>7

\* Deleting behind a prefix keeps the prefix; deleting inside it takes the entry
\* out of it (the two cases of Send after an interrupted select).
LEMMA DeletePrefix ==
  ASSUME NEW list \in Seq(Channels), IsInjective(list), NEW k \in 1..Len(list),
         NEW n \in 0..Len(list)
  PROVE  LET m == IF k <= n THEN n - 1 ELSE n
         IN Prefix(delete(list, k), m) = Prefix(list, n) \ {list[k]}
<1> DEFINE d == delete(list, k)
           m == IF k <= n THEN n - 1 ELSE n
<1>1. /\ Len(list) \in Nat /\ n \in Nat /\ k \in Nat
      /\ \A x, y \in 1..Len(list) : list[x] = list[y] => x = y
  BY DEF IsInjective
<1>2. \A j \in 1..(Len(list) - 1) : d[j] = IF j < k THEN list[j] ELSE list[j + 1]
  BY DEF delete
<1>3. m \in 0..(Len(list) - 1)
  BY <1>1
<1> HIDE DEF d
<1>4. ASSUME NEW j \in 1..m
      PROVE  d[j] \in {list[x] : x \in 1..n} \ {list[k]}
  <2>1. PICK x \in 1..n : x # k /\ d[j] = list[x]
    <3>1. CASE j < k
      BY <3>1, <1>1, <1>2, <1>3
    <3>2. CASE ~(j < k)
      <4>1. d[j] = list[j + 1] /\ j + 1 \in 1..n /\ j + 1 # k
        BY <3>2, <1>1, <1>2, <1>3
      <4> QED
        BY <4>1
    <3> QED
      BY <3>1, <3>2
  <2> QED
    BY <2>1, <1>1
<1>5. ASSUME NEW x \in 1..n, x # k
      PROVE  list[x] \in {d[j] : j \in 1..m}
  <2>1. CASE x < k
    <3>1. x \in 1..m /\ d[x] = list[x]
      BY <2>1, <1>1, <1>2, <1>3
    <3> QED
      BY <3>1
  <2>2. CASE x > k
    <3>1. x - 1 \in 1..m /\ d[x - 1] = list[x]
      BY <2>2, <1>1, <1>2, <1>3
    <3> QED
      BY <3>1
  <2> QED
    BY <2>1, <2>2, <1>5, <1>1
<1> HIDE DEF m
<1>6. {d[j] : j \in 1..m} = {list[j] : j \in 1..n} \ {list[k]}
  BY <1>4, <1>5
<1> QED
  BY Zenon, <1>6 DEF d, m, Prefix

\* The first 0 cases are none, all of them are the list's, any are among them.
LEMMA PrefixFacts ==
  ASSUME NEW list \in Seq(Channels)
  PROVE  /\ Prefix(list, 0) = {}
         /\ Prefix(list, Len(list)) = Range(list)
         /\ \A n \in 0..Len(list) : Prefix(list, n) \subseteq Range(list)
<1>1. DOMAIN list = 1..Len(list) /\ Len(list) \in Nat
  OBVIOUS
<1>2. Prefix(list, 0) = {}
  BY DEF Prefix
<1>3. Prefix(list, Len(list)) = Range(list)
  BY <1>1 DEF Prefix, Range
<1>4. ASSUME NEW n \in 0..Len(list) PROVE Prefix(list, n) \subseteq Range(list)
  <2>1. \A k \in 1..n : k \in DOMAIN list
    BY <1>1
  <2> QED
    BY <2>1 DEF Prefix, Range
<1> QED
  BY <1>2, <1>3, <1>4

\* caseList.deactivate exchanges two entries; the prefix loses the exchanged one.
LEMMA SwapFacts ==
  ASSUME NEW list \in Seq(Channels), IsInjective(list),
         NEW n \in 1..Len(list), NEW a \in 1..n
  PROVE  /\ Exchange(list, a, n) \in Seq(Channels)
         /\ Len(Exchange(list, a, n)) = Len(list)
         /\ IsInjective(Exchange(list, a, n))
         /\ Range(Exchange(list, a, n)) = Range(list)
         /\ Prefix(Exchange(list, a, n), n - 1) = Prefix(list, n) \ {list[a]}
<1> DEFINE swapped == Exchange(list, a, n)
<1>1. /\ Len(list) \in Nat /\ DOMAIN list = 1..Len(list)
      /\ n \in 1..Len(list) /\ a \in 1..Len(list) /\ a <= n
      /\ \A j \in 1..Len(list) : list[j] \in Channels
      /\ \A x, y \in 1..Len(list) : list[x] = list[y] => x = y
  BY DEF IsInjective
<1>2. /\ DOMAIN swapped = 1..Len(list)
      /\ \A j \in 1..Len(list) :
           swapped[j] = IF j = n THEN list[a] ELSE IF j = a THEN list[n] ELSE list[j]
  BY <1>1 DEF Exchange
<1>3. swapped \in Seq(Channels) /\ Len(swapped) = Len(list)
  BY <1>1 DEF Exchange
<1> HIDE DEF swapped
<1>4. IsInjective(swapped)
  BY <1>1, <1>2 DEF IsInjective
<1>5. Range(swapped) = Range(list)
  <2>1. ASSUME NEW j \in 1..Len(list) PROVE swapped[j] \in {list[x] : x \in 1..Len(list)}
    BY <1>1, <1>2
  <2>2. ASSUME NEW j \in 1..Len(list)
        PROVE  list[j] \in {swapped[x] : x \in 1..Len(list)}
    <3>1. list[j] = swapped[IF j = n THEN a ELSE IF j = a THEN n ELSE j]
      BY <1>1, <1>2
    <3> QED
      BY <3>1, <1>1
  <2>3. /\ Range(swapped) = {swapped[x] : x \in 1..Len(list)}
        /\ Range(list) = {list[x] : x \in 1..Len(list)}
    BY <1>1, <1>2 DEF Range
  <2>4. Range(swapped) \subseteq Range(list)
    BY <2>1, <2>3
  <2>5. Range(list) \subseteq Range(swapped)
    BY <2>2, <2>3
  <2> QED
    BY Zenon, <2>4, <2>5
<1>6. ASSUME NEW j \in 1..(n - 1)
      PROVE  swapped[j] \in {list[x] : x \in 1..n} \ {list[a]}
  <2>1. j \in 1..n /\ j # n /\ j \in 1..Len(list) /\ n \in 1..n
    BY <1>1
  <2>2. CASE j = a
    BY <2>1, <2>2, <1>1, <1>2
  <2>3. CASE j # a
    BY <2>1, <2>3, <1>1, <1>2
  <2> QED
    BY <2>2, <2>3
<1>7. ASSUME NEW x \in 1..n, x # a
      PROVE  list[x] \in {swapped[j] : j \in 1..(n - 1)}
  <2>1. CASE x = n
    <3>1. a \in 1..(n - 1) /\ swapped[a] = list[n]
      BY <2>1, <1>1, <1>2, <1>7
    <3> QED
      BY <3>1, <2>1
  <2>2. CASE x # n
    <3>1. x \in 1..(n - 1) /\ swapped[x] = list[x]
      BY <2>2, <1>1, <1>2, <1>7
    <3> QED
      BY <3>1
  <2> QED
    BY <2>1, <2>2
<1>8. {swapped[j] : j \in 1..(n - 1)} = {list[j] : j \in 1..n} \ {list[a]}
  BY Zenon, <1>6, <1>7
<1> QED
  BY Zenon, <1>3, <1>4, <1>5, <1>8 DEF Prefix, swapped

\* What Send's append of the inbox yields.
LEMMA AppendFacts ==
  ASSUME NEW s \in Seq(Channels), NEW t \in Seq(Channels),
         IsInjective(s), IsInjective(t), Range(s) \cap Range(t) = {}
  PROVE  /\ s \o t \in Seq(Channels)
         /\ Len(s \o t) \in Nat
         /\ IsInjective(s \o t)
         /\ Range(s \o t) = Range(s) \cup Range(t)
<1> DEFINE u == s \o t
<1>1. /\ u \in Seq(Channels) /\ Len(u) = Len(s) + Len(t)
      /\ Len(s) \in Nat /\ Len(t) \in Nat
      /\ DOMAIN u = 1..(Len(s) + Len(t)) /\ DOMAIN s = 1..Len(s) /\ DOMAIN t = 1..Len(t)
  OBVIOUS
<1>2. \A j \in 1..(Len(s) + Len(t)) : u[j] = IF j <= Len(s) THEN s[j] ELSE t[j - Len(s)]
  OBVIOUS
<1> HIDE DEF u
<1>3. ASSUME NEW j \in 1..(Len(s) + Len(t))
      PROVE  /\ j <= Len(s) => j \in 1..Len(s) /\ u[j] = s[j] /\ u[j] \in Range(s)
             /\ j > Len(s) => j - Len(s) \in 1..Len(t) /\ u[j] = t[j - Len(s)] /\ u[j] \in Range(t)
  <2>1. CASE j <= Len(s)
    BY <2>1, <1>1, <1>2 DEF Range
  <2>2. CASE j > Len(s)
    <3>1. j - Len(s) \in 1..Len(t) /\ u[j] = t[j - Len(s)]
      BY <2>2, <1>1, <1>2
    <3> QED
      BY <3>1, <2>2, <1>1 DEF Range
  <2> QED
    BY <2>1, <2>2, <1>1
<1>4. IsInjective(u)
  <2> SUFFICES ASSUME NEW x \in 1..(Len(s) + Len(t)), NEW y \in 1..(Len(s) + Len(t)),
                      u[x] = u[y]
               PROVE  x = y
    BY <1>1 DEF IsInjective
  <2>1. CASE x <= Len(s) /\ y <= Len(s)
    BY <2>1, <1>1, <1>3 DEF IsInjective
  <2>2. CASE x > Len(s) /\ y > Len(s)
    <3>1. x - Len(s) = y - Len(s)
      BY <2>2, <1>1, <1>3 DEF IsInjective
    <3> QED
      BY <3>1, <1>1
  <2>3. CASE ~(x <= Len(s) <=> y <= Len(s))
    <3>1. \/ u[x] \in Range(s) /\ u[y] \in Range(t)
          \/ u[y] \in Range(s) /\ u[x] \in Range(t)
      BY <2>3, <1>1, <1>3
    <3> QED
      BY <3>1
  <2> QED
    BY <2>1, <2>2, <2>3, <1>1
<1>5. Range(u) = Range(s) \cup Range(t)
  <2>1. ASSUME NEW j \in 1..(Len(s) + Len(t)) PROVE u[j] \in Range(s) \cup Range(t)
    BY <1>1, <1>3
  <2>2. ASSUME NEW j \in 1..Len(s) PROVE s[j] \in Range(u)
    <3>1. j \in 1..(Len(s) + Len(t)) /\ u[j] = s[j]
      BY <1>1, <1>2
    <3> QED
      BY <3>1, <1>1 DEF Range
  <2>3. ASSUME NEW j \in 1..Len(t) PROVE t[j] \in Range(u)
    <3>1. j + Len(s) \in 1..(Len(s) + Len(t)) /\ u[j + Len(s)] = t[j]
      BY <1>1, <1>2
    <3> QED
      BY <3>1, <1>1 DEF Range
  <2> QED
    BY Zenon, <1>1, <2>1, <2>2, <2>3 DEF Range
<1> QED
  BY <1>1, <1>4, <1>5 DEF u

\* What Subscribe's append to the inbox yields.
LEMMA PushFacts ==
  ASSUME NEW s \in Seq(Channels), IsInjective(s), NEW c \in Channels, c \notin Range(s)
  PROVE  /\ Append(s, c) \in Seq(Channels)
         /\ IsInjective(Append(s, c))
         /\ Range(Append(s, c)) = Range(s) \cup {c}
<1> DEFINE u == Append(s, c)
<1>1. /\ u \in Seq(Channels) /\ Len(s) \in Nat
      /\ DOMAIN u = 1..(Len(s) + 1) /\ DOMAIN s = 1..Len(s)
      /\ u[Len(s) + 1] = c /\ \A j \in 1..Len(s) : u[j] = s[j]
  OBVIOUS
<1> HIDE DEF u
<1>2. \A j \in 1..Len(s) : s[j] # c
  BY <1>1 DEF Range
<1>3. \A x, y \in 1..Len(s) : s[x] = s[y] => x = y
  BY <1>1 DEF IsInjective
<1>4. \A j \in 1..(Len(s) + 1) : j \in 1..Len(s) \/ j = Len(s) + 1
  BY <1>1
<1>5. IsInjective(u)
  BY <1>1, <1>2, <1>3, <1>4 DEF IsInjective
<1>6. Range(u) = Range(s) \cup {c}
  <2>1. /\ Range(u) = {u[j] : j \in 1..(Len(s) + 1)}
        /\ Range(s) = {s[j] : j \in 1..Len(s)}
    BY <1>1 DEF Range
  <2>2. \A j \in 1..Len(s) : j \in 1..(Len(s) + 1)
    BY <1>1
  <2>3. Len(s) + 1 \in 1..(Len(s) + 1)
    BY <1>1
  <2> QED
    BY <1>1, <1>4, <2>1, <2>2, <2>3
<1> QED
  BY <1>1, <1>5, <1>6 DEF u

-----------------------------------------------------------------------------
(* The steps                                                               *)

\* A fresh feed has no subscriptions, no Send and no value owed.
LEMMA FeedInit ==
  ASSUME Init
  PROVE  IInv /\ B!Init
<1>1. <<>> \in Seq(Channels) /\ Len(<<>>) = 0 /\ Range(<<>>) = {} /\ IsInjective(<<>>)
      /\ <<>> \in Seq(1..MaxSends)
  BY DEF Range, IsInjective
<1>2. TypeOK
  <2>1. log \in [Channels -> Seq(1..MaxSends)]
    BY <1>1 DEF Init
  <2>2. cases \in 0..Len(sendCases) /\ i \in 1..Len(sendCases) + 1 /\ sent \in 0..MaxSends
    BY <1>1, FeedAssumption DEF Init
  <2> QED
    BY Zenon, <1>1, <2>1, <2>2 DEF Init, TypeOK
<1>3. CasesMatch /\ NoPanic
  BY <1>1 DEF Init, CasesMatch, NoPanic
<1>4. SendShape
  BY DEF Init, SendShape
<1>5. B!Init
  BY Zenon, <1>1, PrefixFacts DEF Init, B!Init
<1> QED
  BY <1>2, <1>3, <1>4, <1>5 DEF IInv

\* Subscribe puts a channel that is nowhere into the inbox; the broadcast does
\* not notice until the next Send.
LEMMA SubscribeKeeps ==
  ASSUME IInv, NEW c \in Channels, Subscribe(c)
  PROVE  IInv' /\ UNCHANGED B!vars
<1>1. c \notin Range(inbox) /\ c \notin Range(sendCases)
  BY DEF IInv, CasesMatch, Subscribe
<1>2. /\ inbox' \in Seq(Channels) /\ IsInjective(inbox')
      /\ Range(inbox') = Range(inbox) \cup {c}
  BY <1>1, PushFacts DEF IInv, TypeOK, CasesMatch, Subscribe
<1>3. /\ sub' = [sub EXCEPT ![c] = "on"] /\ sub[c] = "new"
      /\ UNCHANGED <<sendCases, cases, i, phase, room, panicked, sent, log>>
  BY DEF Subscribe, sendVars
<1>4. TypeOK'
  BY <1>2, <1>3 DEF IInv, TypeOK
<1>5. CasesMatch'
  BY <1>1, <1>2, <1>3 DEF IInv, TypeOK, CasesMatch
<1>6. SendShape' /\ NoPanic'
  BY <1>3 DEF IInv, TypeOK, SendShape, NoPanic
<1>7. UNCHANGED B!vars
  BY <1>3 DEF IInv, TypeOK, B!vars
<1> QED
  BY <1>4, <1>5, <1>6, <1>7 DEF IInv

\* A subscription found in the inbox is gone at once; otherwise it is among the
\* cases, where the rest of remove will find it.
LEMMA UnsubscribeKeeps ==
  ASSUME IInv, NEW c \in Channels, Unsubscribe(c)
  PROVE  IInv' /\ (B!Leave(c) \/ UNCHANGED B!vars)
<1>0. /\ inbox \in Seq(Channels) /\ sendCases \in Seq(Channels)
      /\ IsInjective(inbox)
      /\ sub \in [Channels -> {"new", "on", "removing", "off"}] /\ sub[c] = "on"
      /\ UNCHANGED <<sendCases, cases, i, phase, room, panicked, sent, log>>
  BY DEF IInv, TypeOK, CasesMatch, Unsubscribe, sendVars
<1>1. CASE /\ InInbox(c)
           /\ inbox' = delete(inbox, find(inbox, c))
           /\ sub' = [sub EXCEPT ![c] = "off"]
  <2>1. find(inbox, c) \in 1..Len(inbox) /\ inbox[find(inbox, c)] = c /\ c \in Range(inbox)
    BY <1>0, <1>1, FindFacts DEF InInbox
  <2>2. /\ inbox' \in Seq(Channels) /\ IsInjective(inbox')
        /\ Range(inbox') = Range(inbox) \ {c}
    BY <1>0, <1>1, <2>1, DeleteFacts
  <2>3. c \notin Range(sendCases)
    BY <2>1 DEF IInv, CasesMatch
  <2>4. TypeOK'
    BY <1>0, <1>1, <2>2 DEF IInv, TypeOK
  <2>5. CasesMatch'
    BY <1>0, <1>1, <2>2, <2>3 DEF IInv, CasesMatch
  <2>6. SendShape' /\ NoPanic'
    BY <1>0, <1>1 DEF IInv, SendShape, NoPanic
  <2>7. B!Leave(c)
    <3>1. cases \in 0..Len(sendCases)
      BY DEF IInv, TypeOK
    <3>2. Prefix(sendCases, cases) = Prefix(sendCases, cases) \ {c}
      BY <1>0, <2>3, <3>1, PrefixFacts
    <3>3. {d \in Channels : sub'[d] = "off"} = {d \in Channels : sub[d] = "off"} \cup {c}
      BY <1>0, <1>1
    <3> QED
      BY <1>0, <2>3, <3>2, <3>3 DEF B!Leave
  <2> QED
    BY <2>4, <2>5, <2>6, <2>7 DEF IInv
<1>2. CASE /\ ~InInbox(c)
           /\ sub' = [sub EXCEPT ![c] = "removing"]
           /\ UNCHANGED inbox
  <2>1. c \in Range(sendCases)
    BY <1>0, <1>2, FindFacts DEF IInv, CasesMatch, InInbox
  <2>2. TypeOK'
    BY <1>0, <1>2 DEF IInv, TypeOK
  <2>3. CasesMatch'
    BY <1>0, <1>2 DEF IInv, CasesMatch
  <2>4. SendShape' /\ NoPanic'
    BY <1>0, <1>2, <2>1 DEF IInv, SendShape, NoPanic
  <2>5. UNCHANGED B!vars
    BY <1>0, <1>2 DEF B!vars
  <2> QED
    BY <2>2, <2>3, <2>4, <2>5 DEF IInv
<1> QED
  BY <1>1, <1>2 DEF Unsubscribe

\* Whoever finishes a remove finds the case and takes exactly it out.
LEMMA DeleteCaseFacts ==
  ASSUME IInv, NEW c \in Channels, sub[c] = "removing", DeleteCase(c), UNCHANGED inbox
  PROVE  /\ find(sendCases, c) \in 1..Len(sendCases)
         /\ sendCases[find(sendCases, c)] = c
         /\ sendCases' = delete(sendCases, find(sendCases, c))
         /\ sendCases' \in Seq(Channels)
         /\ Len(sendCases') = Len(sendCases) - 1 /\ Len(sendCases) \in Nat
         /\ Range(sendCases') = Range(sendCases) \ {c}
         /\ sub' = [sub EXCEPT ![c] = "off"]
         /\ sub' \in [Channels -> {"new", "on", "removing", "off"}]
         /\ {d \in Channels : sub'[d] = "off"} = {d \in Channels : sub[d] = "off"} \cup {c}
         /\ \A d \in Channels : sub'[d] = "removing" => d \in Range(sendCases')
         /\ CasesMatch' /\ NoPanic' /\ UNCHANGED panicked
<1>1. /\ sendCases \in Seq(Channels) /\ IsInjective(sendCases) /\ Len(sendCases) \in Nat
      /\ sub \in [Channels -> {"new", "on", "removing", "off"}]
      /\ \A d \in Channels : sub[d] = "removing" => d \in Range(sendCases)
  BY DEF IInv, TypeOK, CasesMatch, SendShape
<1>2. find(sendCases, c) \in 1..Len(sendCases) /\ sendCases[find(sendCases, c)] = c
      /\ find(sendCases, c) # 0
  BY <1>1, FindFacts
<1>3. /\ sendCases' = delete(sendCases, find(sendCases, c))
      /\ sub' = [sub EXCEPT ![c] = "off"] /\ UNCHANGED panicked
  BY <1>2 DEF DeleteCase
<1>4. /\ sendCases' \in Seq(Channels) /\ Len(sendCases') = Len(sendCases) - 1
      /\ IsInjective(sendCases') /\ Range(sendCases') = Range(sendCases) \ {c}
  BY <1>1, <1>2, <1>3, DeleteFacts
<1>5. CasesMatch'
  <2>1. c \notin Range(inbox)
    BY <1>1 DEF IInv, CasesMatch
  <2> QED
    BY <1>1, <1>3, <1>4, <2>1 DEF IInv, CasesMatch
<1>6. NoPanic'
  BY <1>3 DEF IInv, NoPanic
<1>7. /\ sub' \in [Channels -> {"new", "on", "removing", "off"}]
      /\ {d \in Channels : sub'[d] = "off"} = {d \in Channels : sub[d] = "off"} \cup {c}
      /\ \A d \in Channels : sub'[d] = "removing" => d \in Range(sendCases')
  BY <1>1, <1>3, <1>4
<1> QED
  BY <1>1, <1>2, <1>3, <1>4, <1>5, <1>6, <1>7

\* remove with the send lock: nobody is owed a value.
LEMMA RemoveIdleKeeps ==
  ASSUME IInv, NEW c \in Channels, RemoveIdle(c)
  PROVE  IInv' /\ B!Leave(c)
<1>1. /\ sub[c] = "removing" /\ phase = "idle" /\ DeleteCase(c)
      /\ UNCHANGED <<inbox, cases, i, phase, room, sent, log>>
  BY DEF RemoveIdle
<1>2. cases = 0 /\ i = 1
  BY <1>1 DEF IInv, TypeOK, SendShape
<1>3. /\ sendCases' \in Seq(Channels) /\ Len(sendCases') \in Nat
      /\ Range(sendCases') = Range(sendCases) \ {c}
      /\ sub' \in [Channels -> {"new", "on", "removing", "off"}]
      /\ {d \in Channels : sub'[d] = "off"} = {d \in Channels : sub[d] = "off"} \cup {c}
      /\ \A d \in Channels : sub'[d] = "removing" => d \in Range(sendCases')
      /\ CasesMatch' /\ NoPanic' /\ UNCHANGED panicked
  BY <1>1, DeleteCaseFacts
<1>4. TypeOK'
  BY <1>1, <1>2, <1>3 DEF IInv, TypeOK
<1>5. SendShape'
  BY <1>1, <1>2, <1>3 DEF IInv, SendShape
<1>6. B!Leave(c)
  <2>1. Prefix(sendCases, cases) = {} /\ Prefix(sendCases', cases') = {}
    BY <1>1, <1>2 DEF Prefix
  <2> QED
    BY <1>1, <1>3, <2>1 DEF B!Leave
<1> QED
  BY <1>3, <1>4, <1>5, <1>6 DEF IInv

\* A blocked Send takes a case out of its own list: the prefix it has yet to
\* serve loses that case or nothing.
LEMMA SelectRemoveKeeps ==
  ASSUME IInv, NEW c \in Channels, SelectRemove(c)
  PROVE  IInv' /\ B!Leave(c)
<1> DEFINE at == find(sendCases, c)
<1>1. /\ sub[c] = "removing" /\ phase = "blocked" /\ DeleteCase(c)
      /\ cases' = IF at <= cases THEN cases - 1 ELSE cases
      /\ phase' = "trying" /\ i' = 1
      /\ UNCHANGED <<inbox, room, sent, log>>
  BY DEF SelectRemove, Interruptible, Shrink
<1>2. /\ at \in 1..Len(sendCases) /\ sendCases[at] = c
      /\ sendCases' = delete(sendCases, at)
      /\ sendCases' \in Seq(Channels)
      /\ Len(sendCases') = Len(sendCases) - 1 /\ Len(sendCases) \in Nat
      /\ Range(sendCases') = Range(sendCases) \ {c}
      /\ sub' \in [Channels -> {"new", "on", "removing", "off"}]
      /\ {d \in Channels : sub'[d] = "off"} = {d \in Channels : sub[d] = "off"} \cup {c}
      /\ \A d \in Channels : sub'[d] = "removing" => d \in Range(sendCases')
      /\ CasesMatch' /\ NoPanic' /\ UNCHANGED panicked
  BY <1>1, DeleteCaseFacts
<1> HIDE DEF at
<1>3. /\ sendCases \in Seq(Channels) /\ IsInjective(sendCases)
      /\ cases \in 0..Len(sendCases)
  BY DEF IInv, TypeOK, CasesMatch
<1>4. cases' \in 0..Len(sendCases') /\ i' \in 1..Len(sendCases') + 1 /\ i' <= cases' + 1
  BY <1>1, <1>2, <1>3
<1>5. TypeOK'
  BY Zenon, <1>1, <1>2, <1>4 DEF IInv, TypeOK
<1>6. SendShape'
  BY <1>1, <1>2, <1>4 DEF IInv, SendShape
<1>7. B!Leave(c)
  <2>1. Prefix(sendCases', cases') = Prefix(sendCases, cases) \ {c}
    <3>1. Prefix(delete(sendCases, at), IF at <= cases THEN cases - 1 ELSE cases)
            = Prefix(sendCases, cases) \ {sendCases[at]}
      BY <1>2, <1>3, DeletePrefix
    <3> QED
      BY <1>1, <1>2, <3>1
  <2> QED
    BY <1>1, <1>2, <2>1 DEF B!Leave
<1> QED
  BY <1>2, <1>5, <1>6, <1>7 DEF IInv

\* A Send takes the lock.
LEMMA TakeLockKeeps ==
  ASSUME IInv, TakeLock
  PROVE  IInv' /\ UNCHANGED B!vars
<1>1. /\ phase = "idle" /\ sent < MaxSends /\ phase' = "locked"
      /\ UNCHANGED <<inbox, sendCases, cases, i, sub, room, panicked, sent, log>>
  BY DEF TakeLock
<1>2. TypeOK'
  BY <1>1 DEF IInv, TypeOK
<1>3. CasesMatch' /\ NoPanic'
  BY <1>1 DEF IInv, CasesMatch, NoPanic
<1>4. SendShape'
  BY <1>1 DEF IInv, SendShape
<1>5. UNCHANGED B!vars
  BY <1>1 DEF B!vars
<1> QED
  BY <1>2, <1>3, <1>4, <1>5 DEF IInv

\* Send takes over the inbox: the value is published to the old members and to
\* the newcomers.
LEMMA AddCasesKeeps ==
  ASSUME IInv, AddCases
  PROVE  /\ IInv'
         /\ B!Publish(Range(inbox))
         /\ Range(inbox) \subseteq
              Channels \ (Range(sendCases) \cup {c \in Channels : sub[c] = "off"})
<1>1. /\ phase = "locked" /\ phase' = "trying" /\ i' = 1
      /\ sendCases' = sendCases \o inbox /\ inbox' = <<>>
      /\ cases' = Len(sendCases') /\ sent' = sent + 1
      /\ UNCHANGED <<sub, room, panicked, log>>
  BY DEF AddCases, InboxEmptied
<1>2. /\ inbox \in Seq(Channels) /\ sendCases \in Seq(Channels)
      /\ IsInjective(inbox) /\ IsInjective(sendCases)
      /\ Range(inbox) \cap Range(sendCases) = {}
      /\ sent \in 0..MaxSends /\ sent < MaxSends /\ MaxSends \in Nat /\ cases = 0
  BY <1>1, FeedAssumption DEF IInv, TypeOK, CasesMatch, SendShape
<1>3. /\ sendCases' \in Seq(Channels) /\ Len(sendCases') \in Nat
      /\ IsInjective(sendCases')
      /\ Range(sendCases') = Range(sendCases) \cup Range(inbox)
  BY <1>1, <1>2, AppendFacts
<1>4. /\ <<>> \in Seq(Channels) /\ IsInjective(<<>>) /\ Range(<<>>) = {}
  BY DEF Range, IsInjective
<1>5. sent' \in 0..MaxSends /\ sent' > 0 /\ i' \in 1..Len(sendCases') + 1
      /\ cases' \in 0..Len(sendCases') /\ i' <= cases' + 1
  BY <1>1, <1>2, <1>3
<1>6. TypeOK'
  BY <1>1, <1>3, <1>4, <1>5 DEF IInv, TypeOK
<1>7. CasesMatch' /\ NoPanic'
  BY <1>1, <1>3, <1>4 DEF IInv, CasesMatch, NoPanic
<1>8. SendShape'
  BY <1>1, <1>3, <1>5 DEF IInv, SendShape
<1>9. B!Publish(Range(inbox))
  <2>1. Prefix(sendCases, cases) = {}
    BY <1>2, PrefixFacts
  <2>2. Prefix(sendCases', cases') = Range(sendCases')
    BY Zenon, <1>1, <1>3, PrefixFacts
  <2> QED
    BY <1>1, <1>3, <2>1, <2>2 DEF B!Publish
<1>10. Range(inbox) \subseteq
         Channels \ (Range(sendCases) \cup {c \in Channels : sub[c] = "off"})
  BY DEF IInv, CasesMatch
<1> QED
  BY <1>6, <1>7, <1>8, <1>9, <1>10 DEF IInv

\* A value put into the channel of an active case, in the non-blocking pass or
\* by the select, is a delivery to a member that was owed it.
LEMMA DeliverKeeps ==
  ASSUME IInv, NEW k \in 1..cases,
         Accepts(sendCases[k]), Put(sendCases[k]), deactivate(k),
         phase \in {"trying", "blocked"}, phase' = "trying",
         i' \in Nat, i' >= 1, i' <= k \/ i' = 1,
         UNCHANGED <<inbox, sub, panicked, sent>>
  PROVE  IInv' /\ sendCases[k] \in Channels /\ B!Deliver(sendCases[k])
<1> DEFINE c == sendCases[k]
<1>0. /\ room \in [Channels -> 0..Capacity] /\ Capacity \in Nat
      /\ sent \in 1..MaxSends /\ log \in [Channels -> Seq(1..MaxSends)]
  <2>1. /\ room \in [Channels -> 0..Capacity] /\ Capacity \in Nat /\ MaxSends \in Nat
        /\ log \in [Channels -> Seq(1..MaxSends)] /\ sent \in 0..MaxSends
    BY Zenon, FeedAssumption DEF IInv, TypeOK
  <2>2. sent > 0
    BY DEF IInv, SendShape
  <2>3. sent \in 1..MaxSends
    BY <2>1, <2>2
  <2> QED
    BY <2>1, <2>3
<1>1. /\ sendCases \in Seq(Channels) /\ IsInjective(sendCases)
      /\ cases \in 1..Len(sendCases) /\ Len(sendCases) \in Nat
      /\ k \in 1..Len(sendCases) /\ k <= cases /\ c \in Channels
  <2>1. /\ sendCases \in Seq(Channels) /\ IsInjective(sendCases)
        /\ cases \in 0..Len(sendCases)
    BY DEF IInv, TypeOK, CasesMatch
  <2>2. Len(sendCases) \in Nat
    BY <2>1
  <2>3. cases \in 1..Len(sendCases) /\ k \in 1..Len(sendCases) /\ k <= cases
    BY <2>1, <2>2
  <2> QED
    BY <2>1, <2>2, <2>3
<1>2. /\ sendCases' = Exchange(sendCases, k, cases)
      /\ cases' = cases - 1
  BY DEF deactivate
<1>3. /\ sendCases' \in Seq(Channels) /\ Len(sendCases') = Len(sendCases)
      /\ IsInjective(sendCases') /\ Range(sendCases') = Range(sendCases)
      /\ Prefix(sendCases', cases - 1) = Prefix(sendCases, cases) \ {c}
  BY Zenon, <1>1, <1>2, SwapFacts
<1>4. room' \in [Channels -> 0..Capacity]
  <2>1. room[c] \in 0..Capacity /\ room[c] > 0
    BY <1>0, <1>1 DEF Accepts
  <2>2. room' = [room EXCEPT ![c] = room[c] - 1]
    BY DEF Put
  <2> HIDE DEF c
  <2>3. room[c] - 1 \in 0..Capacity
    BY <1>0, <2>1
  <2> QED
    BY <1>0, <1>1, <2>2, <2>3
<1>5. log' \in [Channels -> Seq(1..MaxSends)]
  <2>1. Append(log[c], sent) \in Seq(1..MaxSends)
    BY <1>0, <1>1
  <2> QED
    BY <1>0, <1>1, <2>1 DEF Put
<1>6. cases' \in 0..Len(sendCases') /\ i' \in 1..Len(sendCases') + 1 /\ i' <= cases' + 1
  BY <1>1, <1>2, <1>3
<1>7. TypeOK'
  BY Zenon, <1>3, <1>4, <1>5, <1>6 DEF IInv, TypeOK
<1>8. CasesMatch' /\ NoPanic'
  BY <1>3 DEF IInv, CasesMatch, NoPanic
<1>9. SendShape'
  BY Zenon, <1>0, <1>3, <1>6 DEF IInv, SendShape
<1>10. B!Deliver(c)
  <2>1. c \in Prefix(sendCases, cases)
    BY DEF Prefix
  <2> QED
    BY <1>2, <1>3, <2>1 DEF B!Deliver, Put
<1> QED
  BY <1>1, <1>7, <1>8, <1>9, <1>10 DEF IInv

\* One iteration of the non-blocking pass.
LEMMA TrySendKeeps ==
  ASSUME IInv, TrySend
  PROVE  IInv' /\ ((\E c \in Channels : B!Deliver(c)) \/ UNCHANGED B!vars)
<1>1. /\ phase = "trying" /\ i <= cases
      /\ i \in Nat /\ i >= 1 /\ cases \in Nat /\ cases <= Len(sendCases)
      /\ sendCases \in Seq(Channels) /\ Len(sendCases) \in Nat
      /\ UNCHANGED <<inbox, phase, sub, panicked, sent>>
  BY DEF IInv, TypeOK, TrySend
<1>2. CASE Accepts(sendCases[i]) /\ Put(sendCases[i]) /\ deactivate(i) /\ UNCHANGED i
  <2>1. i \in 1..cases
    BY <1>1
  <2>2. IInv' /\ sendCases[i] \in Channels /\ B!Deliver(sendCases[i])
    BY <1>1, <1>2, <2>1, DeliverKeeps
  <2> QED
    BY <2>2
<1>3. CASE i' = i + 1 /\ UNCHANGED <<sendCases, cases, room, log>>
  <2>1. i' \in 1..Len(sendCases) + 1 /\ i' <= cases + 1
    BY <1>1, <1>3
  <2>2. TypeOK'
    BY <1>1, <1>3, <2>1 DEF IInv, TypeOK
  <2>3. CasesMatch' /\ NoPanic'
    BY <1>1, <1>3 DEF IInv, CasesMatch, NoPanic
  <2>4. SendShape'
    BY <1>1, <1>3, <2>1 DEF IInv, SendShape
  <2>5. UNCHANGED B!vars
    BY <1>1, <1>3 DEF B!vars
  <2> QED
    BY <2>2, <2>3, <2>4, <2>5 DEF IInv
<1> QED
  BY <1>2, <1>3 DEF TrySend

\* Select chose a receiver.
LEMMA SelectSendKeeps ==
  ASSUME IInv, SelectSend
  PROVE  IInv' /\ \E c \in Channels : B!Deliver(c)
<1>1. PICK k \in 1..cases : Accepts(sendCases[k]) /\ Put(sendCases[k]) /\ deactivate(k)
  BY DEF SelectSend
<1>2. /\ phase = "blocked" /\ phase' = "trying" /\ i' = 1
      /\ UNCHANGED <<inbox, sub, panicked, sent>>
  BY DEF SelectSend
<1>3. IInv' /\ sendCases[k] \in Channels /\ B!Deliver(sendCases[k])
  BY <1>1, <1>2, DeliverKeeps
<1> QED
  BY <1>3

\* The end of a pass, and a receiver that makes room, are no steps of the
\* broadcast.  Send gives up the lock only when nobody is owed the value.
LEMMA QuietKeeps ==
  ASSUME IInv, EndPass \/ (\E c \in Channels : Receive(c)) \/ UNCHANGED vars
  PROVE  IInv' /\ UNCHANGED B!vars
<1>1. /\ UNCHANGED <<inbox, sendCases, cases, i, sub, panicked, sent, log>>
      /\ \/ phase' = phase
         \/ phase = "trying" /\ phase' = "blocked"
         \/ phase = "trying" /\ phase' = "idle" /\ cases = 0
  BY DEF EndPass, Receive, AllServed, vars, sendVars
<1>2. room' \in [Channels -> 0..Capacity]
  <2>1. room \in [Channels -> 0..Capacity] /\ Capacity \in Nat
    BY FeedAssumption DEF IInv, TypeOK
  <2>2. ASSUME NEW c \in Channels, Receive(c) PROVE room' \in [Channels -> 0..Capacity]
    <3>1. room[c] \in 0..Capacity /\ room[c] < Capacity
      BY <2>1, <2>2 DEF Receive
    <3>2. room[c] + 1 \in 0..Capacity
      BY <2>1, <3>1
    <3> QED
      BY <2>1, <2>2, <3>2 DEF Receive
  <2> QED
    BY <2>1, <2>2 DEF EndPass, vars
<1>3. TypeOK'
  BY <1>1, <1>2 DEF IInv, TypeOK
<1>4. CasesMatch' /\ NoPanic'
  BY <1>1 DEF IInv, CasesMatch, NoPanic
<1>5. SendShape'
  BY <1>1 DEF IInv, SendShape
<1>6. UNCHANGED B!vars
  BY <1>1 DEF B!vars
<1> QED
  BY <1>3, <1>4, <1>5, <1>6 DEF IInv

-----------------------------------------------------------------------------
(* The theorems                                                            *)

\* Every step of the feed keeps the invariant and is a step of the broadcast or
\* none.
LEMMA FeedStep ==
  ASSUME IInv, [Next]_vars
  PROVE  IInv' /\ [B!Next]_B!vars
<1>1. CASE TakeLock
  BY <1>1, TakeLockKeeps
<1>2. CASE AddCases
  BY <1>2, AddCasesKeeps DEF B!Next
<1>3. CASE TrySend
  BY <1>3, TrySendKeeps DEF B!Next
<1>4. CASE SelectSend
  BY <1>4, SelectSendKeeps DEF B!Next
<1>5. CASE EndPass \/ (\E c \in Channels : Receive(c)) \/ UNCHANGED vars
  BY <1>5, QuietKeeps
<1>6. CASE \E c \in Channels : Subscribe(c)
  BY <1>6, SubscribeKeeps
<1>7. CASE \E c \in Channels : Unsubscribe(c)
  BY <1>7, UnsubscribeKeeps DEF B!Next
<1>8. CASE \E c \in Channels : RemoveIdle(c)
  BY <1>8, RemoveIdleKeeps DEF B!Next
<1>9. CASE \E c \in Channels : SelectRemove(c)
  BY <1>9, SelectRemoveKeeps DEF B!Next
<1> QED
  BY <1>1, <1>2, <1>3, <1>4, <1>5, <1>6, <1>7, <1>8, <1>9 DEF Next, SendStep

\* IInv is an inductive invariant of the feed.
THEOREM FeedInvariance == Spec => []IInv
<1>1. Init => IInv
  BY FeedInit
<1>2. IInv /\ [Next]_vars => IInv'
  BY FeedStep
<1> QED
  BY <1>1, <1>2, PTL DEF Spec

\* The lists and counters of the feed keep their types.
THEOREM FeedTypeCorrect == Spec => []TypeOK
BY FeedInvariance, PTL DEF IInv

\* remove always finds its case, so delete never panics.
THEOREM RemoveFindsCase == Spec => []NoPanic
BY FeedInvariance, PTL DEF IInv

\* A subscribed channel is in exactly one of inbox and sendCases, once.
THEOREM ListsAreExact == Spec => []CasesMatch
BY FeedInvariance, PTL DEF IInv

\* The feed implements the broadcast: every value goes exactly once, in the order
\* of the sends, to every channel subscribed when it was sent, and none to a
\* channel whose Unsubscribe has returned.
THEOREM FeedImplements == Spec => Implements
<1>1. Init => B!Init
  BY FeedInit
<1>2. IInv /\ [Next]_vars => [B!Next]_B!vars
  BY FeedStep
<1> QED
  BY <1>1, <1>2, FeedInvariance, PTL DEF Spec, Implements, B!Spec

=============================================================================
