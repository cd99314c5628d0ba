-------------------------- MODULE CliqueVoteProofs --------------------------
(***************************************************************************)
(* What the stages of Snapshot.apply in Clique do to the votes of a        *)
(* snapshot and to their tally: each keeps the tally the count of the      *)
(* votes.                                                                  *)
(***************************************************************************)
EXTENDS Clique, FiniteSetTheorems, TLAPS

\* The types of votes, of entries of the recent list and of snapshots.
Ballots == [signer : Addresses, block : Nat \ {0}, address : Accounts, authorize : BOOLEAN]

Signatures == [block : Nat \ {0}, signer : Addresses]

Tallies == [authorize : BOOLEAN, votes : Nat]

Snapshots ==
  [number : Nat, signers : SUBSET Accounts, recents : SUBSET Signatures,
   votes : SUBSET Ballots, tally : [Accounts -> Tallies]]

\* What every snapshot satisfies: votes and recent signatures are not from the
\* future, and the tally is the count of the votes.
SnapshotOK(s) ==
  /\ s \in Snapshots
  /\ IsFiniteSet(s.votes)
  /\ \A v \in s.votes : v.block <= s.number
  /\ \A r \in s.recents : r.block <= s.number
  /\ Tallied(s)

\* A header as far as apply reads it.
HeaderOK(h) == h.signer \in Addresses /\ h.coinbase \in Accounts /\ h.authorize \in BOOLEAN

-----------------------------------------------------------------------------
(* Votes and tallies *)

\* Accounts are finitely many, and so are the signers of a snapshot.
LEMMA AccountsFinite ==
  /\ IsFiniteSet(Accounts)
  /\ \A S \in SUBSET Accounts : IsFiniteSet(S) /\ Cardinality(S) \in Nat
<1>1. IsFiniteSet(Accounts)
  BY CliqueAssumption, FS_AddElement DEF Accounts
<1>2. QED
  BY <1>1, FS_Subset, FS_CardinalityType

\* An account's votes are finitely many; it has none exactly when its count is
\* zero.
LEMMA VotesOnFinite ==
  ASSUME NEW s, SnapshotOK(s), NEW a \in Accounts
  PROVE  /\ VotesOn(s, a) \subseteq s.votes
         /\ IsFiniteSet(VotesOn(s, a)) /\ Cardinality(VotesOn(s, a)) \in Nat
         /\ s.tally[a].votes = Cardinality(VotesOn(s, a))
         /\ Cardinality(VotesOn(s, a)) = 0 <=> VotesOn(s, a) = {}
<1>1. VotesOn(s, a) \subseteq s.votes
  BY DEF VotesOn
<1>2. IsFiniteSet(VotesOn(s, a))
  BY <1>1, FS_Subset DEF SnapshotOK
<1>3. QED
  BY <1>1, <1>2, FS_CardinalityType, FS_EmptySet DEF SnapshotOK, Tallied

\* The header is authorised: at a checkpoint the votes go, and with them the
\* tallies.
LEMMA EnterFacts ==
  ASSUME NEW s \in Snapshots, NEW h, HeaderOK(h)
  PROVE  LET e == Enter(s, h)
         IN /\ e \in Snapshots
            /\ e.number = s.number + 1 /\ e.signers = s.signers
            /\ e.recents = ShiftRecents(s.recents, s.number + 1, s.signers)
                             \cup {[block |-> s.number + 1, signer |-> h.signer]}
            /\ e.votes = IF Checkpoint(s.number + 1) THEN {} ELSE s.votes
            /\ e.tally = IF Checkpoint(s.number + 1) THEN [a \in Accounts |-> NoTally] ELSE s.tally
<1> DEFINE R == ShiftRecents(s.recents, s.number + 1, s.signers)
                  \cup {[block |-> s.number + 1, signer |-> h.signer]}
           m == RemoveVotes(s, s.number + 1)
<1>1. R \subseteq Signatures
  BY DEF ShiftRecents, Snapshots, Signatures, HeaderOK
<1>2. [a \in Accounts |-> NoTally] \in [Accounts -> Tallies]
  BY DEF NoTally, Tallies
<1>3. /\ m \in Snapshots /\ m.number = s.number /\ m.signers = s.signers
      /\ m.recents = s.recents
      /\ m.votes = IF Checkpoint(s.number + 1) THEN {} ELSE s.votes
      /\ m.tally = IF Checkpoint(s.number + 1) THEN [a \in Accounts |-> NoTally] ELSE s.tally
  BY Zenon, <1>2 DEF RemoveVotes, Snapshots
<1>4. Enter(s, h) = [m EXCEPT !.number = m.number + 1,
                              !.recents = ShiftRecents(m.recents, s.number + 1, s.signers)
                                            \cup {[block |-> s.number + 1, signer |-> h.signer]}]
  BY DEF Enter
<1> HIDE DEF m
<1>5. Enter(s, h) = [m EXCEPT !.number = s.number + 1, !.recents = R]
  BY <1>3, <1>4
<1> HIDE DEF R
<1> DEFINE e == Enter(s, h)
<1>6. s.number + 1 \in Nat
  BY DEF Snapshots
<1>7. e \in Snapshots
  BY Zenon, <1>1, <1>3, <1>5, <1>6 DEF Snapshots
<1>8. /\ e.number = s.number + 1 /\ e.recents = R
      /\ e.signers = m.signers /\ e.votes = m.votes /\ e.tally = m.tally
  BY <1>3, <1>5 DEF Snapshots
<1>9. QED
  BY <1>3, <1>7, <1>8 DEF R

\* Entering a header keeps the counts.
LEMMA EnterKeeps ==
  ASSUME NEW s, SnapshotOK(s), NEW h, HeaderOK(h)
  PROVE  SnapshotOK(Enter(s, h))
<1> DEFINE e == Enter(s, h)
<1>1. /\ e \in Snapshots /\ s \in Snapshots
      /\ e.number = s.number + 1 /\ e.signers = s.signers
      /\ e.recents = ShiftRecents(s.recents, s.number + 1, s.signers)
                       \cup {[block |-> s.number + 1, signer |-> h.signer]}
      /\ e.votes = IF Checkpoint(s.number + 1) THEN {} ELSE s.votes
      /\ e.tally = IF Checkpoint(s.number + 1) THEN [a \in Accounts |-> NoTally] ELSE s.tally
  BY EnterFacts DEF SnapshotOK
<1>2. s.number \in Nat /\ s.recents \subseteq Signatures /\ s.votes \subseteq Ballots
  BY <1>1 DEF Snapshots
<1> HIDE DEF e
<1>3. \A r \in e.recents : r.block <= e.number
  <2>1. \A r \in s.recents : r.block \in Nat /\ r.block <= s.number + 1
    BY <1>2 DEF SnapshotOK, Signatures
  <2>2. QED
    BY <1>1, <1>2, <2>1 DEF ShiftRecents
<1>4. CASE Checkpoint(s.number + 1)
  <2>1. e.votes = {} /\ e.tally = [a \in Accounts |-> NoTally]
    BY <1>1, <1>4
  <2>2. \A a \in Accounts : VotesOn(e, a) = {} /\ e.tally[a].votes = 0
    BY <2>1 DEF VotesOn, NoTally
  <2>3. Tallied(e)
    BY <2>1, <2>2, FS_EmptySet DEF Tallied
  <2>4. QED
    BY <1>1, <1>3, <2>1, <2>3, FS_EmptySet DEF SnapshotOK, e
<1>5. CASE ~Checkpoint(s.number + 1)
  <2>1. e.votes = s.votes /\ e.tally = s.tally
    BY <1>1, <1>5
  <2>2. Tallied(e)
    BY Zenon, <1>1, <2>1 DEF SnapshotOK, Tallied, VotesOn
  <2>3. \A v \in e.votes : v.block <= e.number
    <3>1. \A v \in s.votes : v.block \in Nat /\ v.block <= s.number
      BY <1>2 DEF SnapshotOK, Ballots
    <3>2. QED
      BY <1>1, <1>2, <2>1, <3>1
  <2>4. QED
    BY <1>1, <1>3, <2>1, <2>2, <2>3 DEF SnapshotOK, e
<1>6. QED
  BY <1>4, <1>5
\* uncast of a vote that the tally counts.
LEMMA UncastFacts ==
  ASSUME NEW t \in [Accounts -> Tallies], NEW c \in Accounts, t[c].votes > 0
  PROVE  LET u == uncast(t, c, t[c].authorize)
         IN /\ u \in [Accounts -> Tallies]
            /\ \A a \in Accounts \ {c} : u[a] = t[a]
            /\ u[c].votes = t[c].votes - 1
            /\ u[c].votes > 0 => u[c].authorize = t[c].authorize
<1> DEFINE x == IF t[c].votes > 1
                THEN [authorize |-> t[c].authorize, votes |-> t[c].votes - 1] ELSE NoTally
<1>1. t[c] \in Tallies /\ t[c].votes \in Nat /\ t[c].authorize \in BOOLEAN
  BY DEF Tallies
<1>2. uncast(t, c, t[c].authorize) = [t EXCEPT ![c] = x]
  BY <1>1 DEF uncast
<1>3. /\ x \in Tallies /\ x.votes = t[c].votes - 1
      /\ x.votes > 0 => x.authorize = t[c].authorize
  <2>1. CASE t[c].votes > 1
    BY <1>1, <2>1 DEF Tallies
  <2>2. CASE ~(t[c].votes > 1)
    <3>1. t[c].votes = 1
      BY <1>1, <2>2
    <3>2. QED
      BY <2>2, <3>1 DEF NoTally, Tallies
  <2>3. QED
    BY <2>1, <2>2
<1> HIDE DEF x
<1>4. QED
  BY <1>2, <1>3

\* After a signer's previous vote on the account is discarded there is none.
LEMMA DiscardKeeps ==
  ASSUME NEW s, SnapshotOK(s), NEW signer \in Addresses, NEW c \in Accounts
  PROVE  LET d == DiscardPrevious(s, signer, c)
         IN /\ SnapshotOK(d)
            /\ d.number = s.number /\ d.signers = s.signers /\ d.recents = s.recents
            /\ d.votes = s.votes \ (VotesBy(s, signer) \cap VotesOn(s, c))
<1> DEFINE same == VotesBy(s, signer) \cap VotesOn(s, c)
           d == DiscardPrevious(s, signer, c)
           first == CHOOSE v \in same : \A u \in same : v.block <= u.block
<1>1. /\ s \in Snapshots /\ s.number \in Nat /\ s.signers \in SUBSET Accounts
      /\ s.recents \in SUBSET Signatures
      /\ s.votes \in SUBSET Ballots /\ s.tally \in [Accounts -> Tallies]
  BY DEF SnapshotOK, Snapshots
<1>2. CASE same = {}
  <2>1. d = s
    BY <1>2 DEF DiscardPrevious
  <2>2. QED
    BY <1>2, <2>1
<1>3. CASE same # {}
  <2>1. PICK w \in same : TRUE
    BY <1>3
  <2>2. w \in s.votes /\ w.signer = signer /\ w.address = c /\ w.block \in Nat
    BY <1>1, <2>1 DEF VotesBy, VotesOn, Ballots
  <2>3. same = {w}
    <3>1. \A v \in same : v \in s.votes /\ v.signer = signer /\ v.address = c
      BY DEF VotesBy, VotesOn
    <3>2. QED
      BY <2>1, <2>2, <3>1 DEF SnapshotOK, Tallied
  <2>4. first = w
    BY <2>2, <2>3
  <2>5. d = [s EXCEPT !.votes = s.votes \ {w}, !.tally = uncast(s.tally, c, w.authorize)]
    BY Zenon, <1>3, <2>4 DEF DiscardPrevious
  <2>6. VotesOn(s, c) \subseteq s.votes /\ w \in VotesOn(s, c)
    BY <2>2 DEF VotesOn
  <2>7. w.authorize = s.tally[c].authorize
    BY <2>6 DEF SnapshotOK, Tallied
  <2>8. /\ IsFiniteSet(VotesOn(s, c)) /\ Cardinality(VotesOn(s, c)) \in Nat
        /\ s.tally[c].votes = Cardinality(VotesOn(s, c)) /\ s.tally[c].votes > 0
    <3>1. /\ IsFiniteSet(VotesOn(s, c)) /\ Cardinality(VotesOn(s, c)) \in Nat
          /\ s.tally[c].votes = Cardinality(VotesOn(s, c))
          /\ Cardinality(VotesOn(s, c)) # 0
      BY <2>6, VotesOnFinite
    <3>2. QED
      BY <3>1
  <2> DEFINE u == uncast(s.tally, c, s.tally[c].authorize)
  <2>9. /\ u \in [Accounts -> Tallies]
        /\ \A a \in Accounts \ {c} : u[a] = s.tally[a]
        /\ u[c].votes = s.tally[c].votes - 1
        /\ u[c].votes > 0 => u[c].authorize = s.tally[c].authorize
    BY <1>1, <2>8, UncastFacts
  <2>10. d = [s EXCEPT !.votes = s.votes \ {w}, !.tally = u]
    BY <2>5, <2>7
  <2> HIDE DEF d, u
  <2>11. /\ d \in Snapshots /\ d.number = s.number /\ d.signers = s.signers
         /\ d.recents = s.recents /\ d.votes = s.votes \ {w} /\ d.tally = u
    BY Zenon, <1>1, <2>9, <2>10 DEF Snapshots
  <2>12. Tallied(d)
    <3>1. ASSUME NEW a \in Accounts
          PROVE  /\ d.tally[a].votes = Cardinality(VotesOn(d, a))
                 /\ \A v \in VotesOn(d, a) : v.authorize = d.tally[a].authorize
      <4>1. CASE a = c
        <5>1. VotesOn(d, c) = VotesOn(s, c) \ {w}
          BY <2>11 DEF VotesOn
        <5>2. Cardinality(VotesOn(d, c)) = Cardinality(VotesOn(s, c)) - 1
          BY Zenon, <2>6, <2>8, <5>1, FS_RemoveElement
        <5>3. d.tally[c].votes = Cardinality(VotesOn(d, c))
          BY <2>8, <2>9, <2>11, <5>2
        <5>4. ASSUME NEW v \in VotesOn(d, c) PROVE v.authorize = d.tally[c].authorize
          <6>1. v \in VotesOn(s, c) /\ v.authorize = s.tally[c].authorize
            BY <5>1 DEF SnapshotOK, Tallied
          <6>2. IsFiniteSet(VotesOn(d, c)) /\ Cardinality(VotesOn(d, c)) \in Nat
            BY <2>8, <5>1, FS_Subset, FS_CardinalityType
          <6>3. Cardinality(VotesOn(d, c)) # 0
            BY <6>2, FS_EmptySet
          <6>4. d.tally[c].votes > 0
            BY <5>3, <6>2, <6>3
          <6>5. QED
            BY <2>9, <2>11, <6>1, <6>4
        <5>5. QED
          BY <4>1, <5>3, <5>4
      <4>2. CASE a # c
        <5>1. VotesOn(d, a) = VotesOn(s, a)
          BY <2>2, <2>11, <4>2 DEF VotesOn
        <5>2. d.tally[a] = s.tally[a]
          BY <2>9, <2>11, <4>2
        <5>3. QED
          BY <5>1, <5>2 DEF SnapshotOK, Tallied
      <4>3. QED
        BY <4>1, <4>2
    <3>2. \A v \in d.votes : v.signer \in d.signers /\ validVote(d.signers, v.address, v.authorize)
      BY <2>11 DEF SnapshotOK, Tallied
    <3>3. \A v, x \in d.votes : v.signer = x.signer /\ v.address = x.address => v = x
      BY <2>11 DEF SnapshotOK, Tallied
    <3>4. QED
      BY <3>1, <3>2, <3>3 DEF Tallied
  <2>13. IsFiniteSet(d.votes)
    BY <2>11, FS_Subset DEF SnapshotOK
  <2>14. SnapshotOK(d)
    BY <2>11, <2>12, <2>13 DEF SnapshotOK
  <2>15. QED
    BY <2>3, <2>11, <2>14 DEF d
<1>4. QED
  BY <1>2, <1>3

\* cast counts one more vote, for the outcome the tally has or, if it has
\* none, for the vote's own.
LEMMA CastFacts ==
  ASSUME NEW t \in [Accounts -> Tallies], NEW c \in Accounts, NEW b \in BOOLEAN
  PROVE  LET u == cast(t, c, b)
         IN /\ u \in [Accounts -> Tallies]
            /\ \A a \in Accounts \ {c} : u[a] = t[a]
            /\ u[c].votes = t[c].votes + 1
            /\ u[c].authorize = IF t[c].votes > 0 THEN t[c].authorize ELSE b
<1> DEFINE x == IF t[c].votes > 0
                THEN [authorize |-> t[c].authorize, votes |-> t[c].votes + 1]
                ELSE [authorize |-> b, votes |-> 1]
<1>1. t[c] \in Tallies /\ t[c].votes \in Nat /\ t[c].authorize \in BOOLEAN
  BY DEF Tallies
<1>2. cast(t, c, b) = [t EXCEPT ![c] = x]
  BY DEF cast
<1>3. /\ x \in Tallies /\ x.votes = t[c].votes + 1
      /\ x.authorize = IF t[c].votes > 0 THEN t[c].authorize ELSE b
  <2>1. CASE t[c].votes > 0
    BY <1>1, <2>1 DEF Tallies
  <2>2. CASE ~(t[c].votes > 0)
    <3>1. t[c].votes = 0
      BY <1>1, <2>2
    <3>2. QED
      BY <2>2, <3>1 DEF Tallies
  <2>3. QED
    BY <2>1, <2>2
<1> HIDE DEF x
<1>4. QED
  BY <1>2, <1>3

\* Two meaningful votes on one account ask for the same.
LEMMA SameOutcome ==
  ASSUME NEW S, NEW a, NEW b \in BOOLEAN, NEW c \in BOOLEAN,
         validVote(S, a, b), validVote(S, a, c)
  PROVE  b = c
BY DEF validVote

\* Casting the vote of a signer that has none on the account.
LEMMA CastKeeps ==
  ASSUME NEW s, SnapshotOK(s), NEW h, HeaderOK(h), h.signer \in s.signers, s.number > 0,
         VotesBy(s, h.signer) \cap VotesOn(s, h.coinbase) = {}
  PROVE  LET d == CastVote(s, h)
             w == [signer |-> h.signer, block |-> s.number,
                   address |-> h.coinbase, authorize |-> h.authorize]
         IN /\ SnapshotOK(d)
            /\ d.number = s.number /\ d.signers = s.signers /\ d.recents = s.recents
            /\ d.votes \subseteq s.votes \cup {w}
            /\ ~validVote(s.signers, h.coinbase, h.authorize) => d = s
<1> DEFINE d == CastVote(s, h)
           c == h.coinbase
           w == [signer |-> h.signer, block |-> s.number,
                 address |-> h.coinbase, authorize |-> h.authorize]
           u == cast(s.tally, c, h.authorize)
<1>1. /\ s \in Snapshots /\ s.number \in Nat /\ s.signers \in SUBSET Accounts
      /\ s.recents \in SUBSET Signatures
      /\ s.votes \in SUBSET Ballots /\ s.tally \in [Accounts -> Tallies]
      /\ c \in Accounts /\ h.authorize \in BOOLEAN /\ h.signer \in Addresses
  BY DEF SnapshotOK, Snapshots, HeaderOK
<1>2. CASE ~validVote(s.signers, c, h.authorize)
  <2>1. d = s
    BY <1>2 DEF CastVote
  <2>2. QED
    BY <1>2, <2>1
<1>3. CASE validVote(s.signers, c, h.authorize)
  <2>1. d = [s EXCEPT !.tally = u, !.votes = s.votes \cup {w}]
    BY <1>3 DEF CastVote
  <2>2. w \in Ballots /\ w.signer = h.signer /\ w.address = c /\ w.authorize = h.authorize
        /\ w.block = s.number
    BY <1>1 DEF Ballots
  <2>3. /\ u \in [Accounts -> Tallies]
        /\ \A a \in Accounts \ {c} : u[a] = s.tally[a]
        /\ u[c].votes = s.tally[c].votes + 1
        /\ u[c].authorize = IF s.tally[c].votes > 0 THEN s.tally[c].authorize ELSE h.authorize
    BY <1>1, CastFacts
  <2> HIDE DEF d, u, w
  <2>4. /\ d \in Snapshots /\ d.number = s.number /\ d.signers = s.signers
        /\ d.recents = s.recents /\ d.votes = s.votes \cup {w} /\ d.tally = u
    BY Zenon, <1>1, <2>1, <2>2, <2>3 DEF Snapshots
  <2>5. \A v \in s.votes : ~(v.signer = h.signer /\ v.address = c)
    BY DEF VotesBy, VotesOn
  <2>6. w \notin s.votes
    BY <2>2, <2>5
  <2>7. /\ IsFiniteSet(VotesOn(s, c)) /\ Cardinality(VotesOn(s, c)) \in Nat
        /\ s.tally[c].votes = Cardinality(VotesOn(s, c))
        /\ Cardinality(VotesOn(s, c)) = 0 <=> VotesOn(s, c) = {}
        /\ VotesOn(s, c) \subseteq s.votes
    BY <1>1, VotesOnFinite
  <2>8. \A v \in VotesOn(s, c) : v.authorize = h.authorize
    <3>1. ASSUME NEW v \in VotesOn(s, c) PROVE v.authorize = h.authorize
      <4>1. v \in s.votes /\ v.address = c /\ v.authorize \in BOOLEAN
        BY <1>1 DEF VotesOn, Ballots
      <4>2. validVote(s.signers, c, v.authorize)
        BY <4>1 DEF SnapshotOK, Tallied
      <4>3. QED
        BY <1>1, <1>3, <4>1, <4>2, SameOutcome
    <3>2. QED
      BY <3>1
  <2>9. u[c].authorize = h.authorize
    <3>1. CASE VotesOn(s, c) = {}
      BY <2>3, <2>7, <3>1
    <3>2. CASE VotesOn(s, c) # {}
      <4>1. PICK v \in VotesOn(s, c) : TRUE
        BY <3>2
      <4>2. v.authorize = s.tally[c].authorize
        BY <1>1 DEF SnapshotOK, Tallied
      <4>3. QED
        BY <2>3, <2>8, <4>1, <4>2
    <3>3. QED
      BY <3>1, <3>2
  <2>10. VotesOn(d, c) = VotesOn(s, c) \cup {w} /\ w \notin VotesOn(s, c)
    BY <2>2, <2>4, <2>6 DEF VotesOn
  <2>11. Cardinality(VotesOn(d, c)) = Cardinality(VotesOn(s, c)) + 1
    BY Zenon, <2>7, <2>10, FS_AddElement
  <2>12. Tallied(d)
    <3>1. ASSUME NEW a \in Accounts
          PROVE  /\ d.tally[a].votes = Cardinality(VotesOn(d, a))
                 /\ \A v \in VotesOn(d, a) : v.authorize = d.tally[a].authorize
      <4>1. CASE a = c
        <5>1. d.tally[c].votes = Cardinality(VotesOn(d, c))
          BY <2>3, <2>4, <2>7, <2>11
        <5>2. \A v \in VotesOn(d, c) : v.authorize = d.tally[c].authorize
          BY <2>2, <2>4, <2>8, <2>9, <2>10
        <5>3. QED
          BY <4>1, <5>1, <5>2
      <4>2. CASE a # c
        <5>1. VotesOn(d, a) = VotesOn(s, a)
          BY <2>2, <2>4, <4>2 DEF VotesOn
        <5>2. d.tally[a] = s.tally[a]
          BY <2>3, <2>4, <4>2
        <5>3. QED
          BY <5>1, <5>2 DEF SnapshotOK, Tallied
      <4>3. QED
        BY <4>1, <4>2
    <3>2. \A v \in d.votes : v.signer \in d.signers /\ validVote(d.signers, v.address, v.authorize)
      BY <1>3, <2>2, <2>4 DEF SnapshotOK, Tallied
    <3>3. \A v, x \in d.votes : v.signer = x.signer /\ v.address = x.address => v = x
      BY <2>2, <2>4, <2>5 DEF SnapshotOK, Tallied
    <3>4. QED
      BY <3>1, <3>2, <3>3 DEF Tallied
  <2>13. IsFiniteSet(d.votes)
    BY <2>4, FS_AddElement DEF SnapshotOK
  <2>14. \A v \in d.votes : v.block <= d.number
    BY <1>1, <2>2, <2>4 DEF SnapshotOK
  <2>15. SnapshotOK(d)
    BY <2>4, <2>12, <2>13, <2>14 DEF SnapshotOK
  <2>16. QED
    BY <1>3, <2>4, <2>15 DEF d, w
<1>4. QED
  BY <1>2, <1>3

\* A proposal that passed has votes, and asks for a change of status.
LEMMA PassedFacts ==
  ASSUME NEW s, SnapshotOK(s), NEW c \in Accounts, Passed(s, c)
  PROVE  /\ VotesOn(s, c) # {}
         /\ s.tally[c].authorize \in BOOLEAN
         /\ validVote(s.signers, c, s.tally[c].authorize)
<1>1. /\ s.signers \in SUBSET Accounts /\ s.votes \in SUBSET Ballots
      /\ s.tally \in [Accounts -> Tallies]
  BY DEF SnapshotOK, Snapshots
<1>2. Cardinality(s.signers) \in Nat
  BY <1>1, AccountsFinite
<1>3. s.tally[c].votes > 0
  <2>1. s.tally[c].votes \in Nat
    BY <1>1 DEF Tallies
  <2>2. QED
    BY <1>2, <2>1 DEF Passed
<1>4. VotesOn(s, c) # {}
  BY <1>3, VotesOnFinite
<1>5. PICK v \in VotesOn(s, c) : TRUE
  BY <1>4
<1>6. v \in s.votes /\ v.address = c /\ v.authorize = s.tally[c].authorize
  BY Zenon, <1>5 DEF VotesOn, SnapshotOK, Tallied
<1>7. validVote(s.signers, c, s.tally[c].authorize)
  BY <1>6 DEF SnapshotOK, Tallied
<1>8. QED
  BY <1>1, <1>4, <1>7 DEF Tallies

\* Taking back the votes of a signer leaves the count of the others' votes.
LEMMA UncastAllFacts ==
  ASSUME NEW s, SnapshotOK(s), NEW c \in Accounts, NEW a \in Accounts
  PROVE  LET x == UncastAll(s.tally, VotesBy(s, c))[a]
             rest == VotesOn(s, a) \ VotesBy(s, c)
         IN /\ x \in Tallies
            /\ x.votes = Cardinality(rest)
            /\ \A v \in rest : v.authorize = x.authorize
<1> DEFINE x == UncastAll(s.tally, VotesBy(s, c))[a]
           B == {v \in VotesBy(s, c) : v.address = a /\ v.authorize = s.tally[a].authorize}
           rest == VotesOn(s, a) \ VotesBy(s, c)
           n == Cardinality(B)
<1>1. /\ s.votes \in SUBSET Ballots /\ s.tally[a] \in Tallies
      /\ s.tally[a].votes \in Nat /\ s.tally[a].authorize \in BOOLEAN
  BY DEF SnapshotOK, Snapshots, Tallies
<1>2. x = IF n = 0 THEN s.tally[a]
          ELSE IF n < s.tally[a].votes
               THEN [authorize |-> s.tally[a].authorize, votes |-> s.tally[a].votes - n]
               ELSE NoTally
  BY DEF UncastAll
<1>3. \A v \in VotesOn(s, a) : v.authorize = s.tally[a].authorize
  BY DEF SnapshotOK, Tallied
<1>4. B = VotesBy(s, c) \cap VotesOn(s, a)
  BY <1>3 DEF VotesBy, VotesOn
<1>5. /\ IsFiniteSet(VotesOn(s, a)) /\ Cardinality(VotesOn(s, a)) \in Nat
      /\ s.tally[a].votes = Cardinality(VotesOn(s, a))
  BY VotesOnFinite
<1> HIDE DEF x, B
<1>6. CASE B = {}
  <2>1. n = 0 /\ rest = VotesOn(s, a)
    BY <1>4, <1>6, FS_EmptySet
  <2>2. x = s.tally[a]
    BY <1>2, <2>1
  <2>3. QED
    BY <1>1, <1>3, <1>5, <2>1, <2>2 DEF x
<1>7. CASE B # {}
  <2>1. PICK w \in B : TRUE
    BY <1>7
  <2>2. \A v \in B : v = w
    BY <1>4, <2>1 DEF SnapshotOK, Tallied, VotesBy, VotesOn
  <2>3. B = {w}
    BY <2>1, <2>2
  <2>4. n = 1
    BY Zenon, <2>3, FS_Singleton
  <2>5. rest = VotesOn(s, a) \ {w} /\ w \in VotesOn(s, a)
    BY <1>4, <2>3
  <2>6. Cardinality(rest) = s.tally[a].votes - 1 /\ IsFiniteSet(rest)
    BY <1>5, <2>5, FS_RemoveElement
  <2>7. Cardinality(rest) \in Nat
    BY <2>6, FS_CardinalityType
  <2>8. CASE 1 < s.tally[a].votes
    <3>1. x = [authorize |-> s.tally[a].authorize, votes |-> s.tally[a].votes - 1]
      BY <1>2, <2>4, <2>8
    <3>2. x \in Tallies /\ x.votes = s.tally[a].votes - 1 /\ x.authorize = s.tally[a].authorize
      BY <1>1, <2>8, <3>1 DEF Tallies
    <3>3. QED
      BY <1>3, <2>6, <3>2 DEF x
  <2>9. CASE ~(1 < s.tally[a].votes)
    <3>1. x = NoTally
      BY <1>2, <2>4, <2>9
    <3>2. x \in Tallies /\ x.votes = 0
      BY <3>1 DEF NoTally, Tallies
    <3>3. Cardinality(rest) = 0
      BY <1>1, <2>6, <2>7, <2>9
    <3>4. rest = {}
      BY <2>6, <3>3, FS_EmptySet
    <3>5. QED
      BY <3>2, <3>3, <3>4 DEF x
  <2>10. QED
    BY <2>8, <2>9
<1>8. QED
  BY <1>6, <1>7

\* A passed proposal that adds a signer.
LEMMA AuthorizeKeeps ==
  ASSUME NEW s, SnapshotOK(s), NEW c \in Accounts, Passed(s, c), s.tally[c].authorize = TRUE
  PROVE  LET p == UpdateSigners(s, s.number, c)
         IN /\ SnapshotOK(p) /\ p.number = s.number
            /\ p.signers = s.signers \cup {c} /\ p.recents = s.recents
            /\ p.votes = s.votes \ VotesOn(s, c)
            /\ p.tally = [s.tally EXCEPT ![c] = NoTally]
<1> DEFINE p == UpdateSigners(s, s.number, c)
           t == [s.tally EXCEPT ![c] = NoTally]
           m == [s EXCEPT !.signers = s.signers \cup {c}]
<1>1. /\ s \in Snapshots /\ s.number \in Nat /\ s.signers \in SUBSET Accounts
      /\ s.recents \in SUBSET Signatures
      /\ s.votes \in SUBSET Ballots /\ s.tally \in [Accounts -> Tallies]
  BY DEF SnapshotOK, Snapshots
<1>2. p = [m EXCEPT !.votes = m.votes \ VotesOn(m, c), !.tally = [m.tally EXCEPT ![c] = NoTally]]
  BY Zenon DEF UpdateSigners, ForgetProposal
<1>3. /\ m \in Snapshots /\ m.number = s.number /\ m.signers = s.signers \cup {c}
      /\ m.recents = s.recents /\ m.votes = s.votes /\ m.tally = s.tally
  BY <1>1 DEF Snapshots
<1>4. VotesOn(m, c) = VotesOn(s, c)
  BY <1>3 DEF VotesOn
<1>5. /\ t \in [Accounts -> Tallies] /\ t[c] = NoTally
      /\ \A a \in Accounts \ {c} : t[a] = s.tally[a]
  BY <1>1 DEF NoTally, Tallies
<1> HIDE DEF m
<1>6. p = [m EXCEPT !.votes = s.votes \ VotesOn(s, c), !.tally = t]
  BY <1>2, <1>3, <1>4
<1> HIDE DEF p, t
<1>7. /\ p \in Snapshots /\ p.number = s.number /\ p.signers = s.signers \cup {c}
      /\ p.recents = s.recents /\ p.votes = s.votes \ VotesOn(s, c) /\ p.tally = t
  BY Zenon, <1>1, <1>3, <1>5, <1>6 DEF Snapshots
<1>8. Tallied(p)
  <2>1. ASSUME NEW a \in Accounts
        PROVE  /\ p.tally[a].votes = Cardinality(VotesOn(p, a))
               /\ \A v \in VotesOn(p, a) : v.authorize = p.tally[a].authorize
    <3>1. CASE a = c
      <4>1. VotesOn(p, c) = {} /\ p.tally[c].votes = 0
        BY <1>5, <1>7 DEF VotesOn, NoTally
      <4>2. QED
        BY <3>1, <4>1, FS_EmptySet
    <3>2. CASE a # c
      <4>1. VotesOn(p, a) = VotesOn(s, a) /\ p.tally[a] = s.tally[a]
        BY <1>5, <1>7, <3>2 DEF VotesOn
      <4>2. QED
        BY <4>1 DEF SnapshotOK, Tallied
    <3>3. QED
      BY <3>1, <3>2
  <2>2. ASSUME NEW v \in p.votes
        PROVE  v.signer \in p.signers /\ validVote(p.signers, v.address, v.authorize)
    <3>1. v \in s.votes /\ v.address # c /\ v.authorize \in BOOLEAN
      BY <1>1, <1>7 DEF VotesOn, Ballots
    <3>2. v.signer \in s.signers /\ validVote(s.signers, v.address, v.authorize)
      BY <3>1 DEF SnapshotOK, Tallied
    <3>3. QED
      BY <1>7, <3>1, <3>2 DEF validVote
  <2>3. \A v, x \in p.votes : v.signer = x.signer /\ v.address = x.address => v = x
    BY <1>7 DEF SnapshotOK, Tallied
  <2>4. QED
    BY <2>1, <2>2, <2>3 DEF Tallied
<1>9. IsFiniteSet(p.votes)
  BY <1>7, FS_Subset DEF SnapshotOK
<1>10. SnapshotOK(p)
  BY <1>7, <1>8, <1>9 DEF SnapshotOK
<1>11. QED
  BY <1>7, <1>10 DEF p, t

\* A passed proposal that removes a signer, with its votes and its place in the
\* window.
LEMMA DeauthorizeKeeps ==
  ASSUME NEW s, SnapshotOK(s), NEW c \in Accounts, Passed(s, c), s.tally[c].authorize = FALSE
  PROVE  LET p == UpdateSigners(s, s.number, c)
         IN /\ SnapshotOK(p) /\ p.number = s.number
            /\ p.signers = s.signers \ {c}
            /\ p.recents = ShiftRecents(s.recents, s.number, s.signers \ {c})
            /\ p.votes = (s.votes \ VotesBy(s, c)) \ VotesOn(s, c)
            /\ p.tally = [UncastAll(s.tally, VotesBy(s, c)) EXCEPT ![c] = NoTally]
<1> DEFINE p == UpdateSigners(s, s.number, c)
           r == ShiftRecents(s.recents, s.number, s.signers \ {c})
           u == UncastAll(s.tally, VotesBy(s, c))
           t == [u EXCEPT ![c] = NoTally]
           m == [s EXCEPT !.signers = s.signers \ {c}, !.recents = r,
                          !.votes = s.votes \ VotesBy(s, c), !.tally = u]
<1>1. /\ s \in Snapshots /\ s.number \in Nat /\ s.signers \in SUBSET Accounts
      /\ s.recents \in SUBSET Signatures
      /\ s.votes \in SUBSET Ballots /\ s.tally \in [Accounts -> Tallies]
  BY DEF SnapshotOK, Snapshots
<1>2. p = [m EXCEPT !.votes = m.votes \ VotesOn(m, c), !.tally = [m.tally EXCEPT ![c] = NoTally]]
  BY Zenon DEF UpdateSigners, Deauthorize, ForgetProposal
<1>3. r \subseteq s.recents
  BY DEF ShiftRecents
<1>4. ASSUME NEW a \in Accounts
      PROVE  /\ u[a] \in Tallies
             /\ u[a].votes = Cardinality(VotesOn(s, a) \ VotesBy(s, c))
             /\ \A v \in VotesOn(s, a) \ VotesBy(s, c) : v.authorize = u[a].authorize
  BY UncastAllFacts
<1>5. u \in [Accounts -> Tallies]
  <2>1. u = [a \in Accounts |-> u[a]]
    BY DEF UncastAll
  <2> HIDE DEF u
  <2>2. QED
    BY Zenon, <1>4, <2>1
<1> HIDE DEF u, r
<1>6. /\ m \in Snapshots /\ m.number = s.number /\ m.signers = s.signers \ {c}
      /\ m.recents = r /\ m.votes = s.votes \ VotesBy(s, c) /\ m.tally = u
  BY Zenon, <1>1, <1>3, <1>5 DEF Snapshots
<1>7. m.votes \ VotesOn(m, c) = (s.votes \ VotesBy(s, c)) \ VotesOn(s, c)
  BY <1>6 DEF VotesOn
<1>8. /\ t \in [Accounts -> Tallies] /\ t[c] = NoTally
      /\ \A a \in Accounts \ {c} : t[a] = u[a]
  BY <1>5 DEF NoTally, Tallies
<1> HIDE DEF m
<1>9. p = [m EXCEPT !.votes = (s.votes \ VotesBy(s, c)) \ VotesOn(s, c), !.tally = t]
  BY Zenon, <1>2, <1>6, <1>7
<1> HIDE DEF p, t
<1>10. /\ p \in Snapshots /\ p.number = s.number /\ p.signers = s.signers \ {c}
       /\ p.recents = r /\ p.votes = (s.votes \ VotesBy(s, c)) \ VotesOn(s, c) /\ p.tally = t
  BY Zenon, <1>1, <1>6, <1>8, <1>9 DEF Snapshots
<1>11. Tallied(p)
  <2>1. ASSUME NEW a \in Accounts
        PROVE  /\ p.tally[a].votes = Cardinality(VotesOn(p, a))
               /\ \A v \in VotesOn(p, a) : v.authorize = p.tally[a].authorize
    <3>1. CASE a = c
      <4>1. VotesOn(p, c) = {} /\ p.tally[c].votes = 0
        BY <1>8, <1>10 DEF VotesOn, NoTally
      <4>2. QED
        BY <3>1, <4>1, FS_EmptySet
    <3>2. CASE a # c
      <4>1. VotesOn(p, a) = VotesOn(s, a) \ VotesBy(s, c) /\ p.tally[a] = u[a]
        BY <1>8, <1>10, <3>2 DEF VotesOn
      <4>2. QED
        BY <1>4, <4>1
    <3>3. QED
      BY <3>1, <3>2
  <2>2. ASSUME NEW v \in p.votes
        PROVE  v.signer \in p.signers /\ validVote(p.signers, v.address, v.authorize)
    <3>1. v \in s.votes /\ v.address # c /\ v.signer # c /\ v.authorize \in BOOLEAN
      BY <1>1, <1>10 DEF VotesOn, VotesBy, Ballots
    <3>2. v.signer \in s.signers /\ validVote(s.signers, v.address, v.authorize)
      BY <3>1 DEF SnapshotOK, Tallied
    <3>3. QED
      BY <1>10, <3>1, <3>2 DEF validVote
  <2>3. \A v, x \in p.votes : v.signer = x.signer /\ v.address = x.address => v = x
    BY <1>10 DEF SnapshotOK, Tallied
  <2>4. QED
    BY <2>1, <2>2, <2>3 DEF Tallied
<1>12. IsFiniteSet(p.votes)
  BY <1>10, FS_Subset DEF SnapshotOK
<1>13. SnapshotOK(p)
  <2>1. \A q \in p.recents : q.block <= p.number
    BY <1>3, <1>10 DEF SnapshotOK
  <2>2. \A v \in p.votes : v.block <= p.number
    BY <1>10 DEF SnapshotOK
  <2>3. QED
    BY <1>10, <1>11, <1>12, <2>1, <2>2 DEF SnapshotOK
<1>14. QED
  BY <1>10, <1>13 DEF p, r, t, u

=============================================================================
