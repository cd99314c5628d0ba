---------------------------- MODULE CliqueProofs ----------------------------
(***************************************************************************)
(* What Clique guarantees for every set of accounts, every order of        *)
(* headers and votes, every epoch and every height: tallies count votes,   *)
(* signers change by majority only, sealed headers verify, verified        *)
(* headers apply, the window of recent signers is exact, and a node that   *)
(* starts from the signers a checkpoint header lists computes the          *)
(* snapshots of a node that applied every header.                          *)
(***************************************************************************)
EXTENDS CliqueVoteProofs

-----------------------------------------------------------------------------
(* Applying a header *)

\* The vote of the next header h on s, and the snapshot once it is counted.
Vote(s, h) ==
  [signer |-> h.signer, block |-> s.number + 1, address |-> h.coinbase, authorize |-> h.authorize]

Voted(s, h) == CastVote(DiscardPrevious(Enter(s, h), h.signer, h.coinbase), h)

\* The vote is counted on a snapshot that no longer has the signer's old one.
LEMMA VotedFacts ==
  ASSUME NEW s, SnapshotOK(s), NEW h, HeaderOK(h), h.signer \in s.signers
  PROVE  LET v == Voted(s, h)
         IN /\ SnapshotOK(v)
            /\ v.number = s.number + 1 /\ v.signers = s.signers
            /\ v.recents = ShiftRecents(s.recents, s.number + 1, s.signers)
                             \cup {[block |-> s.number + 1, signer |-> h.signer]}
            /\ v.votes \subseteq s.votes \cup {Vote(s, h)}
            /\ Checkpoint(s.number + 1) /\ ~validVote(s.signers, h.coinbase, h.authorize)
                 => v.votes = {}
<1> DEFINE e == Enter(s, h)
           d == DiscardPrevious(e, h.signer, h.coinbase)
           v == CastVote(d, h)
<1>1. s \in Snapshots /\ s.number \in Nat /\ h.signer \in Addresses /\ h.coinbase \in Accounts
  BY Zenon DEF SnapshotOK, Snapshots, HeaderOK
<1>2. /\ SnapshotOK(e) /\ e.number = s.number + 1 /\ e.signers = s.signers
      /\ e.recents = ShiftRecents(s.recents, s.number + 1, s.signers)
                       \cup {[block |-> s.number + 1, signer |-> h.signer]}
      /\ e.votes = IF Checkpoint(s.number + 1) THEN {} ELSE s.votes
  BY Zenon, <1>1, EnterFacts, EnterKeeps
<1> HIDE DEF e
<1>3. /\ SnapshotOK(d)
      /\ d.number = e.number /\ d.signers = e.signers /\ d.recents = e.recents
      /\ d.votes = e.votes \ (VotesBy(e, h.signer) \cap VotesOn(e, h.coinbase))
  BY <1>1, <1>2, DiscardKeeps
<1> HIDE DEF d
<1>4. VotesBy(d, h.signer) \cap VotesOn(d, h.coinbase) = {}
  BY Zenon, <1>3 DEF VotesBy, VotesOn
<1>5. h.signer \in d.signers /\ d.number > 0
  BY <1>1, <1>2, <1>3
<1>6. Vote(s, h) = [signer |-> h.signer, block |-> d.number,
                    address |-> h.coinbase, authorize |-> h.authorize]
  BY Zenon, <1>2, <1>3 DEF Vote
<1>7. /\ SnapshotOK(v)
      /\ v.number = d.number /\ v.signers = d.signers /\ v.recents = d.recents
      /\ v.votes \subseteq d.votes \cup {Vote(s, h)}
      /\ ~validVote(d.signers, h.coinbase, h.authorize) => v = d
  BY <1>3, <1>4, <1>5, <1>6, CastKeeps
<1>8. v = Voted(s, h)
  BY Zenon DEF Voted, d, e
<1> HIDE DEF v
<1>9. QED
  BY Zenon, <1>2, <1>3, <1>7, <1>8

\* What becomes of the signers after a vote on c.
LEMMA UpdateFacts ==
  ASSUME NEW v, SnapshotOK(v), NEW c \in Accounts
  PROVE  LET p == UpdateSigners(v, v.number, c)
         IN /\ SnapshotOK(p) /\ p.number = v.number /\ p.votes \subseteq v.votes
            /\ \/ ~Passed(v, c) /\ p = v
               \/ /\ Passed(v, c) /\ v.tally[c].authorize = TRUE /\ c \notin v.signers
                  /\ p.signers = v.signers \cup {c} /\ p.recents = v.recents
               \/ /\ Passed(v, c) /\ v.tally[c].authorize = FALSE /\ c \in v.signers
                  /\ p.signers = v.signers \ {c}
                  /\ p.recents = ShiftRecents(v.recents, v.number, v.signers \ {c})
<1> DEFINE p == UpdateSigners(v, v.number, c)
<1>1. CASE ~Passed(v, c)
  <2>1. p = v
    BY Zenon, <1>1 DEF UpdateSigners
  <2>2. QED
    BY Zenon, <1>1, <2>1
<1>2. CASE Passed(v, c) /\ v.tally[c].authorize = TRUE
  <2>1. validVote(v.signers, c, TRUE)
    BY Zenon, <1>2, PassedFacts
  <2>2. c \notin v.signers
    BY Zenon, <2>1 DEF validVote
  <2>3. /\ SnapshotOK(p) /\ p.number = v.number
        /\ p.signers = v.signers \cup {c} /\ p.recents = v.recents
        /\ p.votes = v.votes \ VotesOn(v, c)
        /\ p.tally = [v.tally EXCEPT ![c] = NoTally]
    BY <1>2, AuthorizeKeeps, Zenon
  <2> HIDE DEF p
  <2>4. QED
    BY Zenon, <1>2, <2>2, <2>3 DEF p
<1>3. CASE Passed(v, c) /\ v.tally[c].authorize = FALSE
  <2>1. validVote(v.signers, c, FALSE)
    BY Zenon, <1>3, PassedFacts
  <2>2. c \in v.signers
    BY Zenon, <2>1 DEF validVote
  <2>3. /\ SnapshotOK(p) /\ p.number = v.number /\ p.signers = v.signers \ {c}
        /\ p.recents = ShiftRecents(v.recents, v.number, v.signers \ {c})
        /\ p.votes = (v.votes \ VotesBy(v, c)) \ VotesOn(v, c)
    BY Zenon, <1>3, DeauthorizeKeeps
  <2> HIDE DEF p
  <2>4. QED
    BY Zenon, <1>3, <2>2, <2>3 DEF p
<1>4. QED
  BY Zenon, <1>1, <1>2, <1>3, PassedFacts

\* What apply makes of a snapshot.
LEMMA ApplyFacts ==
  ASSUME NEW s, SnapshotOK(s), NEW h, HeaderOK(h), h.signer \in s.signers
  PROVE  LET p == apply(s, h)
             v == Voted(s, h)
             c == h.coinbase
         IN /\ SnapshotOK(p) /\ p.number = s.number + 1 /\ p.votes \subseteq v.votes
            /\ \/ ~Passed(v, c) /\ p = v
               \/ /\ Passed(v, c) /\ v.tally[c].authorize = TRUE /\ c \notin s.signers
                  /\ p.signers = s.signers \cup {c} /\ p.recents = v.recents
               \/ /\ Passed(v, c) /\ v.tally[c].authorize = FALSE /\ c \in s.signers
                  /\ p.signers = s.signers \ {c}
                  /\ p.recents = ShiftRecents(v.recents, s.number + 1, s.signers \ {c})
<1> DEFINE v == Voted(s, h)
           c == h.coinbase
           p == apply(s, h)
<1>1. c \in Accounts
  BY Zenon DEF HeaderOK
<1>2. SnapshotOK(v) /\ v.number = s.number + 1 /\ v.signers = s.signers
  BY Zenon, VotedFacts
<1>3. p = UpdateSigners(v, v.number, c)
  BY Zenon, <1>2 DEF apply, Voted
<1> HIDE DEF v, c, p
<1>4. LET q == UpdateSigners(v, v.number, c)
      IN /\ SnapshotOK(q) /\ q.number = v.number /\ q.votes \subseteq v.votes
         /\ \/ ~Passed(v, c) /\ q = v
            \/ /\ Passed(v, c) /\ v.tally[c].authorize = TRUE /\ c \notin v.signers
               /\ q.signers = v.signers \cup {c} /\ q.recents = v.recents
            \/ /\ Passed(v, c) /\ v.tally[c].authorize = FALSE /\ c \in v.signers
               /\ q.signers = v.signers \ {c}
               /\ q.recents = ShiftRecents(v.recents, v.number, v.signers \ {c})
  BY Zenon, <1>1, <1>2, UpdateFacts
<1>5. QED
  BY Zenon, <1>2, <1>3, <1>4 DEF v, c, p

\* The votes that make a proposal pass come from as many signers.
LEMMA PassedByMajority ==
  ASSUME NEW s, SnapshotOK(s), NEW c \in Accounts, Passed(s, c),
         NEW voters, IsFiniteSet(voters),
         \A v \in VotesOn(s, c) : v.signer \in voters
  PROVE  2 * Cardinality(voters) > Cardinality(s.signers)
<1> DEFINE V == VotesOn(s, c)
           f == [v \in V |-> v.signer]
<1>1. IsFiniteSet(V) /\ Cardinality(V) \in Nat /\ s.tally[c].votes = Cardinality(V)
  BY Zenon, VotesOnFinite
<1>2. f \in Injection(V, voters)
  <2>1. f \in [V -> voters]
    BY Zenon
  <2>2. \A u, v \in V : f[u] = f[v] => u = v
    BY Zenon DEF SnapshotOK, Tallied, VotesOn
  <2>3. QED
    BY Zenon, <2>1, <2>2 DEF Injection, IsInjective
<1>3. Cardinality(V) <= Cardinality(voters)
  BY Zenon, <1>2, FS_Injection
<1>4. Cardinality(voters) \in Nat /\ Cardinality(s.signers) \in Nat
  BY Zenon, FS_CardinalityType, AccountsFinite DEF SnapshotOK, Snapshots
<1>5. Cardinality(V) > Cardinality(s.signers) \div 2
  BY Zenon, <1>1 DEF Passed
<1> HIDE DEF V
<1>6. QED
  BY <1>1, <1>3, <1>4, <1>5

-----------------------------------------------------------------------------
(* Steps *)

\* The invariant that needs no assumption on signers or votes.
CInv ==
  /\ SnapshotOK(snap)
  /\ sealers \subseteq Signatures

\* The limit of a set of signers, and how it follows the set.
LEMMA LimitFacts ==
  ASSUME NEW S \in SUBSET Accounts, NEW c \in Accounts
  PROVE  /\ Limit(S) \in Nat /\ Limit(S) >= 1
         /\ Limit(S \cup {c}) \in {Limit(S), Limit(S) + 1}
         /\ Limit(S \ {c}) \in {Limit(S), Limit(S) - 1}
         /\ Limit(S) <= Limit(Accounts) /\ Limit(Accounts) \in Nat
<1>1. /\ IsFiniteSet(S) /\ Cardinality(S) \in Nat
      /\ Cardinality(Accounts) \in Nat /\ Cardinality(S) <= Cardinality(Accounts)
  BY Zenon, AccountsFinite, FS_Subset
<1>2. Cardinality(S \cup {c}) \in {Cardinality(S), Cardinality(S) + 1}
  BY Zenon, <1>1, FS_AddElement
<1>3. /\ Cardinality(S \ {c}) \in {Cardinality(S), Cardinality(S) - 1}
      /\ Cardinality(S \ {c}) \in Nat
  <2>1. S \ {c} \in SUBSET Accounts
    BY Zenon
  <2>2. QED
    BY Zenon, <1>1, <2>1, AccountsFinite, FS_RemoveElement
<1>4. \A m, n \in Nat : /\ n \div 2 + 1 \in Nat /\ n \div 2 + 1 >= 1
                        /\ (n + 1) \div 2 + 1 \in {n \div 2 + 1, (n \div 2 + 1) + 1}
                        /\ n > 0 => (n - 1) \div 2 + 1 \in {n \div 2 + 1, (n \div 2 + 1) - 1}
                        /\ m <= n => m \div 2 + 1 <= n \div 2 + 1
  OBVIOUS
<1>5. Limit(S \cup {c}) \in {Limit(S), Limit(S) + 1}
  BY Zenon, <1>1, <1>2, <1>4 DEF Limit
<1>6. Limit(S \ {c}) \in {Limit(S), Limit(S) - 1}
  <2>1. CASE Cardinality(S \ {c}) = Cardinality(S)
    BY Zenon, <2>1 DEF Limit
  <2>2. CASE Cardinality(S \ {c}) = Cardinality(S) - 1
    <3>1. Cardinality(S) > 0
      BY <1>1, <1>3, <2>2
    <3>2. QED
      BY Zenon, <1>1, <1>4, <2>2, <3>1 DEF Limit
  <2>3. QED
    BY Zenon, <1>3, <2>1, <2>2
<1>7. QED
  BY Zenon, <1>1, <1>4, <1>5, <1>6 DEF Limit

\* Unsigned subtraction yields an integer, and the difference if it does not
\* wrap.
LEMMA MinusFacts ==
  ASSUME NEW a \in Int, NEW b \in Int
  PROVE  /\ Minus(a, b) \in Int
         /\ (a >= b /\ a - b < Wrap) => Minus(a, b) = a - b
<1>1. Wrap \in Nat /\ Wrap > 0
  BY CliqueAssumption
<1>2. \A d \in Int, w \in Nat : w > 0 => d % w \in Int /\ (d >= 0 /\ d < w => d % w = d)
  OBVIOUS
<1>3. a - b \in Int
  OBVIOUS
<1>4. QED
  BY <1>1, <1>2, <1>3 DEF Minus

\* What a node prepares and seals on a snapshot passes verifyHeader.
LEMMA PreparedVerifies ==
  ASSUME NEW s, SnapshotOK(s), NEW a, Seals(s, a), NEW c, NEW authorize \in BOOLEAN
  PROVE  verifyHeader(s, Prepare(s, a, c, authorize))
<1> DEFINE h == Prepare(s, a, c, authorize)
           proposes == ~Checkpoint(s.number + 1) /\ validVote(s.signers, c, authorize)
<1>1. /\ h.signer = a
      /\ h.coinbase = IF proposes THEN c ELSE Zero
      /\ h.authorize = (proposes /\ authorize)
      /\ h.difficulty = calcDifficulty(s, a)
      /\ h.extra = IF Checkpoint(s.number + 1) THEN s.signers ELSE {}
  BY Zenon DEF Prepare
<1>2. Checkpoint(s.number + 1) => h.coinbase = Zero /\ ~h.authorize
  BY Zenon, <1>1
<1>3. ~RecentlySigned(s, a)
  <2>1. /\ s.number + 1 \in Int /\ Limit(s.signers) \in Int
        /\ \A r \in s.recents : r.block \in Int
    <3>1. s.number \in Nat /\ s.signers \in SUBSET Accounts /\ s.recents \subseteq Signatures
      BY Zenon DEF SnapshotOK, Snapshots
    <3>2. Limit(s.signers) \in Nat
      BY Zenon, <3>1, LimitFacts, CliqueAssumption DEF Accounts
    <3>3. QED
      BY <3>1, <3>2 DEF Signatures
  <2>2. Minus(s.number + 1, Limit(s.signers)) \in Int
    BY Zenon, <2>1, MinusFacts
  <2>3. \A r \in s.recents : r.signer = a => r.block <= Minus(s.number + 1, Limit(s.signers))
    BY Zenon DEF Seals
  <2>4. QED
    BY <2>1, <2>2, <2>3 DEF RecentlySigned
<1> HIDE DEF h
<1>4. verifySeal(s, h)
  BY Zenon, <1>1, <1>3 DEF verifySeal, Seals
<1>5. QED
  BY Zenon, <1>1, <1>2, <1>4 DEF verifyHeader, h

\* A header that some node on the network may have built.
Valid(h) ==
  /\ HeaderOK(h)
  /\ h.authorize => h.coinbase \in Votable
  /\ verifyHeader(snap, h)

\* Every step accepts a header that verifyHeader passed, whether it came from
\* the network or was sealed here, or leaves the chain alone.
LEMMA StepForms ==
  ASSUME CInv, [Next]_vars
  PROVE  \/ \E h : Valid(h) /\ Running /\ Accept(h)
         \/ TrustCheckpoint
         \/ UNCHANGED <<snap, trusted, since, extra, stuck, sealers>>
<1>1. ASSUME NEW h \in Headers, VerifyHeader(h) PROVE Valid(h) /\ Running /\ Accept(h)
  <2>1. /\ h.signer \in Addresses /\ h.coinbase \in Votable \cup {Zero} /\ h.authorize \in BOOLEAN
        /\ h.coinbase \in Votable \/ ~h.authorize
    BY Zenon DEF Headers
  <2>2. HeaderOK(h)
    BY Zenon, <2>1, CliqueAssumption DEF HeaderOK, Accounts
  <2>3. QED
    BY Zenon, <1>1, <2>1, <2>2 DEF VerifyHeader, Valid
<1>2. ASSUME NEW signer \in Addresses, NEW coinbase \in Votable, NEW authorize \in BOOLEAN,
             Mine(signer, coinbase, authorize), snap.signers # {}
      PROVE  LET h == Prepare(snap, signer, coinbase, authorize)
             IN Valid(h) /\ Running /\ Accept(h)
  <2> DEFINE h == Prepare(snap, signer, coinbase, authorize)
  <2>1. Seals(snap, signer) /\ Running /\ Accept(h)
    BY Zenon, <1>2 DEF Mine
  <2>2. verifyHeader(snap, h)
    BY Zenon, <2>1, PreparedVerifies DEF CInv
  <2>3. /\ h.signer = signer /\ h.coinbase \in {coinbase, Zero} /\ h.authorize \in BOOLEAN
        /\ h.authorize => h.coinbase = coinbase
    BY Zenon DEF Prepare
  <2> HIDE DEF h
  <2>4. Valid(h)
    BY Zenon, <2>2, <2>3, CliqueAssumption DEF Valid, HeaderOK, Accounts
  <2>5. QED
    BY Zenon, <2>1, <2>4 DEF h
<1>3. ASSUME NEW signer \in Addresses, NEW coinbase \in Votable, NEW authorize \in BOOLEAN,
             Mine(signer, coinbase, authorize), snap.signers = {}
      PROVE  UNCHANGED <<snap, trusted, since, extra, stuck, sealers>>
  BY Zenon, <1>3 DEF Mine
<1>4. QED
  BY Zenon, <1>1, <1>2, <1>3 DEF Next, vars

\* Accepting a header keeps snapshot and history well-formed.
LEMMA AcceptKeeps ==
  ASSUME CInv, NEW h, HeaderOK(h), Accept(h)
  PROVE  CInv'
<1>1. snap.number \in Nat
  BY Zenon DEF CInv, SnapshotOK, Snapshots
<1>2. sealers' \subseteq sealers \cup {[block |-> snap.number + 1, signer |-> h.signer]}
  BY Zenon DEF Accept, Latest
<1>3. [block |-> snap.number + 1, signer |-> h.signer] \in Signatures
  BY <1>1 DEF Signatures, HeaderOK
<1>4. SnapshotOK(snap')
  <2>1. CASE Applies(snap, h)
    <3>1. snap' = apply(snap, h) /\ h.signer \in snap.signers
      BY Zenon, <2>1 DEF Accept, Applies
    <3>2. QED
      BY Zenon, <3>1, ApplyFacts DEF CInv
  <2>2. CASE ~Applies(snap, h)
    BY Zenon, <2>2 DEF Accept, CInv
  <2>3. QED
    BY Zenon, <2>1, <2>2
<1>5. QED
  BY Zenon, <1>2, <1>3, <1>4 DEF CInv

\* The genesis snapshot.
LEMMA InitEstablishesClique ==
  ASSUME Init
  PROVE  CInv
<1>1. snap = newSnapshot(0, Genesis) /\ sealers = {}
  BY Zenon DEF Init
<1>2. [a \in Accounts |-> NoTally] \in [Accounts -> Tallies]
  BY Zenon DEF NoTally, Tallies
<1>3. snap \in Snapshots /\ snap.votes = {} /\ snap.recents = {}
      /\ snap.tally = [a \in Accounts |-> NoTally]
  BY Zenon, <1>1, <1>2, CliqueAssumption DEF newSnapshot, Snapshots, Accounts
<1>4. \A a \in Accounts : VotesOn(snap, a) = {} /\ snap.tally[a].votes = 0
  BY <1>3 DEF VotesOn, NoTally
<1>5. Tallied(snap)
  BY Zenon, <1>3, <1>4, FS_EmptySet DEF Tallied
<1>6. QED
  BY Zenon, <1>1, <1>3, <1>5, FS_EmptySet DEF CInv, SnapshotOK

\* CInv is an inductive invariant.
THEOREM CliqueInvariance == Spec => []CInv
<1>1. Init => CInv
  BY Zenon, InitEstablishesClique
<1>2. CInv /\ [Next]_vars => CInv'
  <2> SUFFICES ASSUME CInv, [Next]_vars PROVE CInv'
    BY Zenon
  <2>1. ASSUME NEW h, Valid(h), Accept(h) PROVE CInv'
    BY Zenon, <2>1, AcceptKeeps DEF Valid
  <2>2. CASE UNCHANGED <<snap, sealers>>
    BY Zenon, <2>2 DEF CInv
  <2>3. QED
    BY Zenon, <2>1, <2>2, StepForms DEF TrustCheckpoint
<1>3. QED
  BY <1>1, <1>2, PTL DEF Spec

\* For any accounts, epochs and orders of votes the tally that apply maintains
\* is the count of the votes, each cast once, by a signer, for a change.
THEOREM TalliesCount == Spec => []VotesTallied
<1>1. CInv => VotesTallied
  BY Zenon DEF CInv, SnapshotOK, VotesTallied
<1>2. QED
  BY <1>1, CliqueInvariance, PTL

\* What a node prepares and seals passes verifyHeader, at every height and with
\* any window, also where the unsigned difference wraps.
THEOREM SealedHeadersVerify == Spec => []SealedVerifies
<1>1. CInv => SealedVerifies
  BY Zenon, PreparedVerifies DEF CInv, SealedVerifies
<1>2. QED
  BY <1>1, CliqueInvariance, PTL

\* An accepted header that changes the signers has a majority behind it.
LEMMA ChangeHasMajority ==
  ASSUME CInv, NEW h, HeaderOK(h), Accept(h), snap'.signers # snap.signers
  PROVE  \E a \in Accounts, authorize \in BOOLEAN :
           /\ validVote(snap.signers, a, authorize)
           /\ snap'.signers = IF authorize THEN snap.signers \cup {a} ELSE snap.signers \ {a}
           /\ LET voters == {r.signer : r \in {q \in sealers' : q.block = snap.number + 1}} \cup
                            {v.signer : v \in {u \in VotesOn(snap, a) : u.authorize = authorize}}
              IN 2 * Cardinality(voters \cap snap.signers) > Cardinality(snap.signers)
<1> DEFINE c == h.coinbase
           v == Voted(snap, h)
           b == v.tally[c].authorize
           voters == {r.signer : r \in {q \in sealers' : q.block = snap.number + 1}} \cup
                     {x.signer : x \in {u \in VotesOn(snap, c) : u.authorize = b}}
<1>1. Applies(snap, h) /\ snap' = apply(snap, h) /\ h.signer \in snap.signers
  BY Zenon DEF Accept, Applies
<1>2. /\ SnapshotOK(snap) /\ snap.number \in Nat /\ snap.signers \in SUBSET Accounts
      /\ c \in Accounts
  BY Zenon DEF CInv, SnapshotOK, Snapshots, HeaderOK
<1>3. SnapshotOK(v) /\ v.signers = snap.signers /\ v.votes \subseteq snap.votes \cup {Vote(snap, h)}
  BY Zenon, <1>1, <1>2, VotedFacts
<1>4. /\ Passed(v, c)
      /\ \/ b = TRUE /\ c \notin snap.signers /\ snap'.signers = snap.signers \cup {c}
         \/ b = FALSE /\ c \in snap.signers /\ snap'.signers = snap.signers \ {c}
  <2>1. LET p == apply(snap, h)
        IN \/ ~Passed(v, c) /\ p = v
           \/ /\ Passed(v, c) /\ b = TRUE /\ c \notin snap.signers
              /\ p.signers = snap.signers \cup {c}
           \/ /\ Passed(v, c) /\ b = FALSE /\ c \in snap.signers
              /\ p.signers = snap.signers \ {c}
    BY Zenon, <1>1, <1>2, ApplyFacts
  <2> HIDE DEF v, c, b
  <2>2. QED
    BY Zenon, <1>1, <1>3, <2>1
<1> HIDE DEF v, b
<1>5. validVote(snap.signers, c, b)
  BY Zenon, <1>4 DEF validVote
<1>6. [block |-> snap.number + 1, signer |-> h.signer] \in sealers'
  <2>1. Limit(Accounts) \in Nat /\ Limit(Accounts) >= 1
    BY Zenon, <1>2, LimitFacts
  <2>2. snap.number + 1 > (snap.number + 1) - Limit(Accounts)
    BY <1>2, <2>1
  <2>3. QED
    BY Zenon, <2>2 DEF Accept, Latest
<1>7. h.signer \in voters
  BY <1>6
<1>8. \A x \in VotesOn(v, c) : x.signer \in voters \cap snap.signers
  <2>1. ASSUME NEW x \in VotesOn(v, c) PROVE x.signer \in voters \cap snap.signers
    <3>1. x \in v.votes /\ x.address = c /\ x.authorize = b
      BY Zenon, <1>2, <1>3 DEF VotesOn, SnapshotOK, Tallied, b
    <3>2. x.signer \in snap.signers
      BY Zenon, <1>3, <3>1 DEF SnapshotOK, Tallied
    <3>3. CASE x = Vote(snap, h)
      BY Zenon, <1>7, <3>2, <3>3 DEF Vote
    <3>4. CASE x \in snap.votes
      BY Zenon, <3>1, <3>2, <3>4 DEF VotesOn
    <3>5. QED
      BY Zenon, <1>3, <3>1, <3>3, <3>4
  <2>2. QED
    BY Zenon, <2>1
<1>9. IsFiniteSet(voters \cap snap.signers)
  <2>1. voters \cap snap.signers \in SUBSET Accounts
    BY Zenon, <1>2
  <2>2. QED
    BY Zenon, <2>1, AccountsFinite
<1> HIDE DEF voters
<1>10. 2 * Cardinality(voters \cap snap.signers) > Cardinality(snap.signers)
  <2> DEFINE W == voters \cap snap.signers
  <2> HIDE DEF W
  <2>1. IsFiniteSet(W) /\ \A x \in VotesOn(v, c) : x.signer \in W
    BY Zenon, <1>8, <1>9 DEF W
  <2>2. 2 * Cardinality(W) > Cardinality(v.signers)
    BY Zenon, <1>2, <1>3, <1>4, <2>1, PassedByMajority
  <2>3. QED
    BY Zenon, <1>3, <2>2 DEF W
<1>11. b \in BOOLEAN /\ snap'.signers = IF b THEN snap.signers \cup {c} ELSE snap.signers \ {c}
  BY Zenon, <1>4
<1>12. QED
  BY Zenon, <1>2, <1>5, <1>10, <1>11 DEF voters

\* The signers change one at a time, and only when more than half of them voted
\* for that change.
THEOREM SignersChangeByMajority == Spec => MajorityChanges
<1>1. CInv /\ [Next]_vars =>
        [snap'.signers # snap.signers =>
           \E a \in Accounts, authorize \in BOOLEAN :
             /\ validVote(snap.signers, a, authorize)
             /\ snap'.signers = IF authorize THEN snap.signers \cup {a} ELSE snap.signers \ {a}
             /\ LET voters == {r.signer : r \in {q \in sealers' : q.block = snap.number + 1}} \cup
                              {v.signer : v \in {u \in VotesOn(snap, a) : u.authorize = authorize}}
                IN 2 * Cardinality(voters \cap snap.signers) > Cardinality(snap.signers)]_vars
  <2> SUFFICES ASSUME CInv, [Next]_vars, snap'.signers # snap.signers
               PROVE  \E a \in Accounts, authorize \in BOOLEAN :
                        /\ validVote(snap.signers, a, authorize)
                        /\ snap'.signers = IF authorize THEN snap.signers \cup {a}
                                                        ELSE snap.signers \ {a}
                        /\ LET voters == {r.signer : r \in {q \in sealers' : q.block = snap.number + 1}} \cup
                                         {v.signer : v \in {u \in VotesOn(snap, a) : u.authorize = authorize}}
                           IN 2 * Cardinality(voters \cap snap.signers) > Cardinality(snap.signers)
    BY Zenon
  <2>1. PICK h : Valid(h) /\ Accept(h)
    BY Zenon, StepForms DEF TrustCheckpoint
  <2>2. QED
    BY Zenon, <2>1, ChangeHasMajority DEF Valid
<1>2. QED
  BY <1>1, CliqueInvariance, PTL DEF Spec, MajorityChanges

-----------------------------------------------------------------------------
(* The window of recent signers *)

\* The recent list of s against the history H of headers: it has no signature
\* that has left the window of the header before, and all in the window of the
\* next one.
Window(s, H) ==
  /\ \A r \in s.recents : r.block > s.number - Limit(s.signers)
  /\ s.recents \subseteq H
  /\ \A q \in H : q.block <= s.number
  /\ \A q \in H : q.block > (s.number + 1) - Limit(s.signers) => q \in s.recents

WInv == CInv /\ (~stuck => Window(snap, sealers))

\* What ShiftRecents removes; below the limit there is nothing it could remove.
LEMMA ShiftFacts ==
  ASSUME NEW R \in SUBSET Signatures, NEW n \in Nat, NEW S \in SUBSET Accounts
  PROVE  \A r : r \in ShiftRecents(R, n, S) <=> r \in R /\ r.block # n - Limit(S)
<1>1. Limit(S) \in Nat
  BY Zenon, LimitFacts DEF Accounts
<1>2. \A r \in R : r.block \in Nat
  BY Zenon DEF Signatures
<1>3. CASE n >= Limit(S)
  BY Zenon, <1>3 DEF ShiftRecents
<1>4. CASE ~(n >= Limit(S))
  <2>1. \A k \in Nat : k # n - Limit(S)
    BY <1>1, <1>4
  <2>2. QED
    BY Zenon, <1>2, <1>4, <2>1 DEF ShiftRecents
<1>5. QED
  BY Zenon, <1>3, <1>4

\* One more header: the signature that has just left goes, the new one comes,
\* and a change of the limit by one is made up for.
LEMMA WindowStep ==
  ASSUME NEW s, SnapshotOK(s), NEW h, HeaderOK(h), h.signer \in s.signers,
         NEW H \in SUBSET Signatures, Window(s, H)
  PROVE  Window(apply(s, h),
                Latest(H \cup {[block |-> s.number + 1, signer |-> h.signer]}, s.number + 1))
<1> DEFINE n == s.number
           L == Limit(s.signers)
           c == h.coinbase
           new == [block |-> n + 1, signer |-> h.signer]
           G == Latest(H \cup {new}, n + 1)
           p == apply(s, h)
           R == Voted(s, h).recents
           K == Limit(p.signers)
<1>1. /\ n \in Nat /\ s.signers \in SUBSET Accounts /\ s.recents \subseteq Signatures
      /\ c \in Accounts
  BY Zenon DEF SnapshotOK, Snapshots, HeaderOK
<1>2. /\ SnapshotOK(p) /\ p.number = n + 1 /\ p.signers \in SUBSET Accounts
      /\ \/ p.signers = s.signers /\ p.recents = R
         \/ p.signers = s.signers \cup {c} /\ p.recents = R
         \/ p.signers = s.signers \ {c} /\ p.recents = ShiftRecents(R, n + 1, p.signers)
  <2> DEFINE v == Voted(s, h)
  <2>1. v.signers = s.signers
    BY Zenon, VotedFacts
  <2> HIDE DEF v
  <2>2. LET q == apply(s, h)
        IN /\ SnapshotOK(q) /\ q.number = s.number + 1
           /\ \/ q = v
              \/ q.signers = s.signers \cup {c} /\ q.recents = v.recents
              \/ /\ q.signers = s.signers \ {c}
                 /\ q.recents = ShiftRecents(v.recents, s.number + 1, s.signers \ {c})
    BY Zenon, ApplyFacts DEF v
  <2>3. p.signers \in SUBSET Accounts
    BY Zenon, <2>2 DEF SnapshotOK, Snapshots
  <2> HIDE DEF p, c
  <2>4. QED
    BY Zenon, <2>1, <2>2, <2>3 DEF v, p
<1>3. R = ShiftRecents(s.recents, n + 1, s.signers) \cup {new}
  BY Zenon, VotedFacts
<1>4. /\ L \in Nat /\ L >= 1 /\ K \in Nat /\ K >= 1
      /\ K <= Limit(Accounts) /\ Limit(Accounts) \in Nat
      /\ \/ K = L /\ p.recents = R
         \/ K = L + 1 /\ p.recents = R
         \/ K \in {L, L - 1} /\ p.recents = ShiftRecents(R, n + 1, p.signers)
  <2>1. /\ L \in Nat /\ L >= 1
        /\ Limit(s.signers \cup {c}) \in {L, L + 1} /\ Limit(s.signers \ {c}) \in {L, L - 1}
    BY Zenon, <1>1, LimitFacts
  <2>2. K \in Nat /\ K >= 1 /\ K <= Limit(Accounts) /\ Limit(Accounts) \in Nat
    BY Zenon, <1>1, <1>2, LimitFacts
  <2> HIDE DEF p, c, R
  <2>3. QED
    BY Zenon, <1>2, <2>1, <2>2
<1>0. /\ \A r : r \in ShiftRecents(s.recents, n + 1, s.signers)
                <=> r \in s.recents /\ r.block # (n + 1) - L
      /\ \A r : r \in ShiftRecents(R, n + 1, p.signers) <=> r \in R /\ r.block # (n + 1) - K
  <2>1. R \in SUBSET Signatures
    BY Zenon, VotedFacts DEF SnapshotOK, Snapshots
  <2> DEFINE m == n + 1
             S == p.signers
             T == s.recents
             U == s.signers
  <2>2. m \in Nat /\ S \in SUBSET Accounts /\ T \in SUBSET Signatures /\ U \in SUBSET Accounts
    BY <1>1, <1>2
  <2> HIDE DEF m, R, S, T, U
  <2>3. \A r : r \in ShiftRecents(R, m, S) <=> r \in R /\ r.block # m - Limit(S)
    BY Zenon, <2>1, <2>2, ShiftFacts
  <2>4. \A r : r \in ShiftRecents(T, m, U) <=> r \in T /\ r.block # m - Limit(U)
    BY Zenon, <2>2, ShiftFacts
  <2>5. QED
    BY Zenon, <2>3, <2>4 DEF m, S, T, U
<1> HIDE DEF p, R, L
<1>5. /\ \A r \in s.recents : r.block > n - L
      /\ s.recents \subseteq H
      /\ \A q \in H : q.block <= n
      /\ \A q \in H : q.block > (n + 1) - L => q \in s.recents
  BY Zenon DEF Window, L
<1>6. /\ \A r \in s.recents : r.block \in Nat /\ r.block > 0
      /\ \A q \in H : q.block \in Nat /\ q.block > 0
  BY <1>1 DEF Signatures
<1>7. /\ new \in R /\ new.block = n + 1
      /\ \A r \in R : r = new \/ r \in s.recents
      /\ \A r \in s.recents : r.block > (n + 1) - L => r \in R
  <2>1. \A r \in s.recents : r.block > (n + 1) - L => r.block # (n + 1) - L
    BY <1>1, <1>4, <1>6
  <2>2. /\ \A r \in s.recents : r.block > (n + 1) - L => r \in ShiftRecents(s.recents, n + 1, s.signers)
        /\ ShiftRecents(s.recents, n + 1, s.signers) \subseteq s.recents
    BY Zenon, <1>0, <2>1
  <2> HIDE DEF new
  <2>3. new.block = n + 1
    BY Zenon DEF new
  <2>4. QED
    BY Zenon, <1>3, <2>2, <2>3
<1>8. \A r \in R : r.block \in Nat /\ r.block > 0 /\ r.block > (n + 1) - L
  <2>1. ASSUME NEW r \in ShiftRecents(s.recents, n + 1, s.signers) PROVE r.block > (n + 1) - L
    <3>1. r \in s.recents /\ r.block # (n + 1) - L
      BY Zenon, <1>0, <2>1
    <3>2. r.block \in Nat /\ r.block > 0 /\ r.block > n - L
      BY Zenon, <1>5, <1>6, <3>1
    <3>3. QED
      BY <1>1, <1>4, <3>1, <3>2
  <2>2. new.block \in Nat /\ new.block > 0 /\ new.block > (n + 1) - L
    BY <1>1, <1>4
  <2> HIDE DEF new
  <2>3. QED
    BY Zenon, <1>3, <1>6, <1>7, <2>1, <2>2
<1> HIDE DEF new
<1>9. p.recents \subseteq R
  BY Zenon, <1>0, <1>4
<1>10. \A r \in p.recents : r.block > (n + 1) - K
  <2>1. ASSUME NEW r \in p.recents PROVE r.block > (n + 1) - K
    <3>1. r.block \in Nat /\ r.block > 0 /\ r.block > (n + 1) - L
      BY Zenon, <1>8, <1>9
    <3>2. CASE K = L \/ K = L + 1
      BY <1>1, <1>4, <3>1, <3>2
    <3>3. CASE K = L - 1 /\ p.recents = ShiftRecents(R, n + 1, p.signers)
      <4>1. r.block # (n + 1) - K
        BY Zenon, <1>0, <3>3
      <4>2. QED
        BY <1>1, <1>4, <3>1, <3>3, <4>1
    <3>4. QED
      BY Zenon, <1>1, <1>4, <3>2, <3>3
  <2>2. QED
    BY Zenon, <2>1
<1>11. ASSUME NEW q \in H \cup {new}, q.block > ((n + 1) + 1) - K PROVE q \in p.recents
  <2>1. q.block \in Nat /\ q.block > 0
    BY <1>1, <1>6, <1>7
  <2>2. q \in R
    <3>1. CASE q = new
      BY Zenon, <1>7, <3>1
    <3>2. CASE q \in H
      <4>1. q.block > (n + 1) - L
        BY <1>1, <1>4, <1>11, <2>1
      <4>2. QED
        BY Zenon, <1>5, <1>7, <3>2, <4>1
    <3>3. QED
      BY Zenon, <3>1, <3>2
  <2>3. CASE p.recents = R
    BY Zenon, <2>2, <2>3
  <2>4. CASE p.recents = ShiftRecents(R, n + 1, p.signers)
    <3>1. q.block # (n + 1) - K
      BY <1>1, <1>4, <1>11, <2>1
    <3>2. QED
      BY Zenon, <1>0, <2>2, <2>4, <3>1
  <2>5. QED
    BY Zenon, <1>4, <2>3, <2>4
<1>12. p.recents \subseteq G
  <2>1. ASSUME NEW r \in p.recents PROVE r \in G
    <3>1. r \in H \cup {new}
      BY Zenon, <1>5, <1>7, <1>9
    <3>2. r.block \in Nat /\ r.block > (n + 1) - K
      BY Zenon, <1>8, <1>9, <1>10
    <3>3. r.block > (n + 1) - Limit(Accounts)
      BY <1>1, <1>4, <3>2
    <3>4. QED
      BY Zenon, <3>1, <3>3 DEF Latest
  <2>2. QED
    BY Zenon, <2>1
<1>13. G \subseteq H \cup {new}
  BY Zenon DEF Latest
<1>14. \A q \in H \cup {new} : q.block <= n + 1
  BY <1>1, <1>5, <1>6, <1>7
<1> HIDE DEF G, n, K
<1>15. Window(p, G)
  BY Zenon, <1>2, <1>10, <1>11, <1>12, <1>13, <1>14 DEF Window, K
<1>16. QED
  BY Zenon, <1>15 DEF G, p, new, n

\* The window is kept until a header is accepted that has no snapshot.
THEOREM WindowInvariance == Spec => []WInv
<1>1. Init => WInv
  <2> SUFFICES ASSUME Init PROVE WInv
    BY Zenon
  <2>1. CInv
    BY Zenon, InitEstablishesClique
  <2>2. snap.recents = {} /\ sealers = {}
    BY Zenon DEF Init, newSnapshot
  <2>3. QED
    BY Zenon, <2>1, <2>2 DEF WInv, Window
<1>2. WInv /\ [Next]_vars => WInv'
  <2> SUFFICES ASSUME WInv, [Next]_vars PROVE WInv'
    BY Zenon
  <2>1. ASSUME NEW h, Valid(h), Running, Accept(h) PROVE WInv'
    <3>1. CInv' /\ HeaderOK(h)
      BY Zenon, <2>1, AcceptKeeps DEF Valid, WInv
    <3>2. CASE Applies(snap, h)
      <4>1. /\ snap' = apply(snap, h) /\ h.signer \in snap.signers
            /\ sealers' = Latest(sealers \cup {[block |-> snap.number + 1, signer |-> h.signer]},
                                 snap.number + 1)
        BY Zenon, <2>1, <3>2 DEF Accept, Applies
      <4>2. SnapshotOK(snap) /\ sealers \in SUBSET Signatures /\ Window(snap, sealers)
        BY Zenon, <2>1 DEF WInv, CInv, Running
      <4>3. Window(snap', sealers')
        BY Zenon, <3>1, <4>1, <4>2, WindowStep
      <4>4. QED
        BY Zenon, <3>1, <4>3 DEF WInv
    <3>3. CASE ~Applies(snap, h)
      BY Zenon, <2>1, <3>1, <3>3 DEF Accept, WInv
    <3>4. QED
      BY Zenon, <3>2, <3>3
  <2>2. CASE UNCHANGED <<snap, stuck, sealers>>
    BY Zenon, <2>2 DEF WInv, CInv
  <2>3. QED
    BY Zenon, <2>1, <2>2, StepForms DEF TrustCheckpoint, WInv
<1>3. QED
  BY <1>1, <1>2, PTL DEF Spec

\* Started by at most three signers, the chain has always been long enough for
\* the window of its signers: the unsigned difference does not wrap.
Covered(s) == Cardinality(s.signers) <= IF s.number = 0 THEN 3 ELSE 2 * s.number + 1

Fits == ~stuck /\ Covered(snap) /\ snap.number <= MaxNumber

GInv == WInv /\ Fits

\* The limit is reached by the next header, unless there is none yet.
LEMMA CoveredLimit ==
  ASSUME NEW s, SnapshotOK(s), Covered(s), s.number > 0, s.number <= MaxNumber
  PROVE  /\ Limit(s.signers) \in Nat /\ s.number \in Nat
         /\ s.number + 1 >= Limit(s.signers)
         /\ Minus(s.number + 1, Limit(s.signers)) = (s.number + 1) - Limit(s.signers)
<1>1. s.number \in Nat /\ s.signers \in SUBSET Accounts /\ Zero \in Accounts
  BY Zenon DEF SnapshotOK, Snapshots, Accounts
<1>2. Cardinality(s.signers) \in Nat
  BY Zenon, <1>1, AccountsFinite
<1>3. Limit(s.signers) \in Nat /\ Limit(s.signers) >= 1
  BY Zenon, <1>1, LimitFacts
<1>4. Cardinality(s.signers) <= 2 * s.number + 1
  BY <1>1 DEF Covered
<1>5. s.number + 1 >= Limit(s.signers)
  <2>1. \A k, m \in Nat : k <= 2 * m + 1 => m + 1 >= k \div 2 + 1
    OBVIOUS
  <2>2. QED
    BY Zenon, <1>1, <1>2, <1>4, <2>1 DEF Limit
<1>6. (s.number + 1) - Limit(s.signers) < Wrap
  BY <1>1, <1>3, CliqueAssumption
<1>7. s.number + 1 \in Int /\ Limit(s.signers) \in Int
  BY <1>1, <1>3
<1>8. Minus(s.number + 1, Limit(s.signers)) = (s.number + 1) - Limit(s.signers)
  <2> DEFINE a == s.number + 1
             b == Limit(s.signers)
  <2>1. a \in Int /\ b \in Int /\ a >= b /\ a - b < Wrap
    BY Zenon, <1>5, <1>6, <1>7
  <2> HIDE DEF a, b
  <2>2. Minus(a, b) = a - b
    BY Zenon, <2>1, MinusFacts
  <2>3. QED
    BY Zenon, <2>2 DEF a, b
<1>9. QED
  BY Zenon, <1>1, <1>3, <1>5, <1>8

\* A header adds at most one signer, and the first one adds none to two or three.
LEMMA CoveredStep ==
  ASSUME NEW s, SnapshotOK(s), NEW h, HeaderOK(h), h.signer \in s.signers, Covered(s)
  PROVE  Covered(apply(s, h))
<1> DEFINE p == apply(s, h)
           v == Voted(s, h)
           c == h.coinbase
<1>1. s.number \in Nat /\ s.signers \in SUBSET Accounts /\ c \in Accounts
  BY Zenon DEF SnapshotOK, Snapshots, HeaderOK
<1>2. Cardinality(s.signers) \in Nat /\ IsFiniteSet(s.signers)
  BY Zenon, <1>1, AccountsFinite
<1>3. SnapshotOK(v) /\ v.signers = s.signers /\ v.votes \subseteq s.votes \cup {Vote(s, h)}
  BY Zenon, VotedFacts
<1>4. /\ p.number = s.number + 1
      /\ \/ p.signers = s.signers
         \/ Passed(v, c) /\ p.signers = s.signers \cup {c}
         \/ p.signers = s.signers \ {c}
  <2> HIDE DEF v
  <2>1. LET q == apply(s, h)
        IN /\ q.number = s.number + 1
           /\ \/ q = v
              \/ Passed(v, c) /\ q.signers = s.signers \cup {c}
              \/ q.signers = s.signers \ {c}
    BY Zenon, ApplyFacts DEF v
  <2> HIDE DEF p, c
  <2>2. QED
    BY Zenon, <1>3, <2>1 DEF p
<1> HIDE DEF p, v
<1>5. /\ Cardinality(s.signers \ {c}) <= Cardinality(s.signers)
      /\ Cardinality(s.signers \ {c}) \in Nat
      /\ Cardinality(s.signers \cup {c}) <= Cardinality(s.signers) + 1
      /\ Cardinality(s.signers \cup {c}) \in Nat
  <2>1. s.signers \ {c} \in SUBSET Accounts /\ s.signers \cup {c} \in SUBSET Accounts
    BY Zenon, <1>1
  <2>2. Cardinality(s.signers \ {c}) \in Nat /\ Cardinality(s.signers \cup {c}) \in Nat
    BY Zenon, <2>1, AccountsFinite
  <2>3. Cardinality(s.signers \ {c}) <= Cardinality(s.signers)
    BY Zenon, <1>2, FS_Subset
  <2>4. Cardinality(s.signers \cup {c}) <= Cardinality(s.signers) + 1
    <3>1. \A d : Cardinality(s.signers \cup {d}) \in {Cardinality(s.signers), Cardinality(s.signers) + 1}
      BY Zenon, <1>2, FS_AddElement
    <3>2. QED
      BY <1>2, <3>1
  <2>5. QED
    BY Zenon, <2>2, <2>3, <2>4
<1> HIDE DEF c
<1>6. CASE s.number > 0
  <2>1. Cardinality(p.signers) \in Nat /\ Cardinality(p.signers) <= Cardinality(s.signers) + 1
    <3>1. p.signers \in {s.signers, s.signers \cup {c}, s.signers \ {c}}
      BY Zenon, <1>4
    <3>2. \A S \in {s.signers, s.signers \cup {c}, s.signers \ {c}} :
            Cardinality(S) \in Nat /\ Cardinality(S) <= Cardinality(s.signers) + 1
      BY <1>2, <1>5
    <3>3. QED
      BY Zenon, <3>1, <3>2
  <2>2. Cardinality(s.signers) <= 2 * s.number + 1 /\ p.number = s.number + 1
    BY <1>1, <1>4, <1>6 DEF Covered
  <2>3. Cardinality(p.signers) <= 2 * p.number + 1 /\ p.number # 0
    BY <1>1, <1>2, <2>1, <2>2
  <2>4. QED
    BY Zenon, <2>3 DEF Covered, p
<1>7. CASE s.number = 0
  <2>1. s.votes = {}
    <3>1. \A x \in s.votes : x.block \in Nat \ {0} /\ x.block <= 0
      BY Zenon, <1>7 DEF SnapshotOK, Snapshots, Ballots
    <3>2. QED
      BY <3>1
  <2>2. ASSUME Passed(v, c) PROVE Cardinality(s.signers) <= 1
    <3> DEFINE W == {h.signer}
    <3>1. IsFiniteSet(W) /\ Cardinality(W) = 1
      BY Zenon, FS_Singleton
    <3>2. \A x \in VotesOn(v, c) : x.signer \in W
      BY <1>3, <2>1 DEF VotesOn, Vote
    <3> HIDE DEF W
    <3>3. 2 * Cardinality(W) > Cardinality(v.signers)
      BY Zenon, <1>1, <1>3, <2>2, <3>1, <3>2, PassedByMajority
    <3>4. QED
      BY <1>2, <1>3, <3>1, <3>3
  <2>3. Cardinality(s.signers) <= 3
    BY Zenon, <1>7 DEF Covered
  <2>4. p.number = 1 /\ Cardinality(p.signers) <= 3
    <3>1. CASE p.signers = s.signers \/ p.signers = s.signers \ {c}
      BY <1>2, <1>4, <1>5, <1>7, <2>3, <3>1
    <3>2. CASE Passed(v, c) /\ p.signers = s.signers \cup {c}
      BY <1>2, <1>4, <1>5, <1>7, <2>2, <3>2
    <3>3. QED
      BY Zenon, <1>4, <3>1, <3>2
  <2>5. QED
    BY <2>4 DEF Covered, p
<1>8. QED
  BY <1>1, <1>6, <1>7 DEF p

\* On such a chain, apply accepts what verifySeal accepts.
LEMMA VerifiedHeaderApplies ==
  ASSUME NEW s, SnapshotOK(s), NEW H \in SUBSET Signatures, Window(s, H), Covered(s),
         s.number <= MaxNumber, NEW h, verifyHeader(s, h)
  PROVE  Applies(s, h)
<1>1. /\ s.number \in Nat /\ s.recents \subseteq Signatures
      /\ h.signer \in s.signers /\ ~RecentlySigned(s, h.signer)
  BY Zenon DEF SnapshotOK, Snapshots, verifyHeader, verifySeal
<1>0. \A r : r \in ShiftRecents(s.recents, s.number + 1, s.signers)
             <=> r \in s.recents /\ r.block # (s.number + 1) - Limit(s.signers)
  <2> DEFINE m == s.number + 1
             S == s.signers
             R == s.recents
  <2>1. m \in Nat /\ S \in SUBSET Accounts /\ R \in SUBSET Signatures
    BY <1>1 DEF SnapshotOK, Snapshots
  <2> HIDE DEF m, S, R
  <2>2. \A r : r \in ShiftRecents(R, m, S) <=> r \in R /\ r.block # m - Limit(S)
    BY Zenon, <2>1, ShiftFacts
  <2>3. QED
    BY Zenon, <2>2 DEF m, S, R
<1>2. ASSUME NEW r \in ShiftRecents(s.recents, s.number + 1, s.signers), r.signer = h.signer
      PROVE  FALSE
  <2>1. r \in s.recents /\ r.block \in Nat \ {0} /\ r.block <= s.number
    <3>1. r \in s.recents
      BY Zenon, <1>0
    <3>2. QED
      BY Zenon, <1>1, <3>1 DEF Signatures, SnapshotOK
  <2>2. s.number > 0
    BY <1>1, <2>1
  <2> DEFINE L == Limit(s.signers)
  <2>3. L \in Nat /\ s.number + 1 >= L /\ Minus(s.number + 1, L) = (s.number + 1) - L
    BY Zenon, <2>2, CoveredLimit
  <2>4. ~(r.block > Minus(s.number + 1, L))
    BY Zenon, <1>1, <1>2, <2>1 DEF RecentlySigned
  <2>5. r.block > s.number - L
    BY Zenon, <2>1 DEF Window
  <2>6. r.block # (s.number + 1) - L
    BY Zenon, <1>0
  <2> HIDE DEF L
  <2>7. QED
    BY <1>1, <2>1, <2>3, <2>4, <2>5, <2>6
<1>3. QED
  BY Zenon, <1>1, <1>2 DEF Applies, Recent

\* GInv is inductive.
THEOREM CoverInvariance ==
  ASSUME Cardinality(Genesis) <= 3
  PROVE  Spec => []GInv
<1>1. Init => Fits
  BY CliqueAssumption DEF Init, newSnapshot, Covered, Fits
<1>2. WInv /\ Fits /\ [Next]_vars => Fits'
  <2> SUFFICES ASSUME WInv, Fits, [Next]_vars
               PROVE  Fits'
    BY Zenon
  <2>1. /\ SnapshotOK(snap) /\ sealers \in SUBSET Signatures /\ Window(snap, sealers)
        /\ Covered(snap)
    BY Zenon DEF WInv, CInv, Fits
  <2>2. ASSUME NEW h, Valid(h), Running, Accept(h) PROVE Fits'
    <3>1. snap.number \in Nat /\ snap.number < MaxNumber /\ verifyHeader(snap, h) /\ HeaderOK(h)
      BY Zenon, <2>1, <2>2 DEF SnapshotOK, Snapshots, Running, Valid
    <3>2. Applies(snap, h)
      BY Zenon, <2>1, <3>1, VerifiedHeaderApplies DEF Fits
    <3>3. snap' = apply(snap, h) /\ ~stuck' /\ h.signer \in snap.signers
      BY Zenon, <2>2, <3>2 DEF Accept, Applies
    <3>4. snap'.number = snap.number + 1
      BY Zenon, <2>1, <3>1, <3>3, ApplyFacts
    <3>5. snap'.number <= MaxNumber
      BY <3>1, <3>4, CliqueAssumption
    <3>6. Covered(snap')
      BY Zenon, <2>1, <3>1, <3>3, CoveredStep
    <3>7. QED
      BY Zenon, <3>3, <3>5, <3>6 DEF Fits
  <2>3. CASE UNCHANGED <<snap, stuck>>
    BY Zenon, <2>3 DEF Fits
  <2>4. QED
    BY Zenon, <2>2, <2>3, StepForms DEF TrustCheckpoint, WInv
<1>3. QED
  BY <1>1, <1>2, WindowInvariance, PTL DEF Spec, GInv

\* Started by at most three signers, a chain only takes headers that have a
\* snapshot.  The bound is exact: with four signers the difference in verifySeal
\* wraps for the second header, which is then accepted from whoever signed the
\* first, and Snapshot.apply refuses it.
THEOREM VerifiedHeadersApply ==
  ASSUME Cardinality(Genesis) <= 3
  PROVE  Spec => []VerifiedApplies
<1>1. GInv => VerifiedApplies
  BY Zenon DEF GInv, Fits, VerifiedApplies
<1>2. QED
  BY <1>1, CoverInvariance, PTL

\* On such a chain verifySeal keeps out exactly the signers of the last
\* len(Signers)/2 headers, through every growth and shrinking of the signers.
THEOREM WindowIsExact ==
  ASSUME Cardinality(Genesis) <= 3
  PROVE  Spec => []WindowExact
<1>1. GInv => WindowExact
  <2> SUFFICES ASSUME GInv, NEW a \in snap.signers \cap Addresses
               PROVE  RecentlySigned(snap, a) <=> a \in InWindow
    BY Zenon DEF WindowExact
  <2> DEFINE n == snap.number
             L == Limit(snap.signers)
  <2>1. /\ SnapshotOK(snap) /\ Window(snap, sealers) /\ Covered(snap)
        /\ sealers \subseteq Signatures /\ n <= MaxNumber
    BY Zenon DEF GInv, Fits, WInv, CInv
  <2>2. n \in Nat
    BY Zenon, <2>1 DEF SnapshotOK, Snapshots
  <2>3. /\ snap.recents \subseteq sealers
        /\ \A q \in sealers : q.block \in Nat \ {0} /\ q.block <= n
        /\ \A q \in sealers : q.block > (n + 1) - L => q \in snap.recents
    BY Zenon, <2>1 DEF Window, Signatures
  <2>4. CASE n = 0
    <3>1. sealers = {} /\ snap.recents = {}
      BY <2>3, <2>4
    <3>2. QED
      BY Zenon, <3>1 DEF RecentlySigned, InWindow
  <2>5. CASE n > 0
    <3>1. Minus(n + 1, L) = (n + 1) - L
      BY Zenon, <2>1, <2>5, CoveredLimit
    <3>2. RecentlySigned(snap, a)
            <=> \E r \in snap.recents : r.signer = a /\ r.block > (n + 1) - L
      BY Zenon, <3>1 DEF RecentlySigned
    <3>3. a \in InWindow <=> \E q \in sealers : q.block > (n + 1) - L /\ q.signer = a
      BY Zenon DEF InWindow
    <3> HIDE DEF n, L
    <3>4. QED
      BY Zenon, <2>3, <3>2, <3>3
  <2>6. QED
    BY <2>2, <2>4, <2>5
<1>2. QED
  BY <1>1, CoverInvariance, PTL

-----------------------------------------------------------------------------
(* A node that started from a checkpoint *)

\* Snapshot t is s without what was signed up to block k.
Follows(t, s, k) ==
  /\ t \in Snapshots
  /\ t.number = s.number /\ t.signers = s.signers /\ t.votes = s.votes /\ t.tally = s.tally
  /\ t.recents = {r \in s.recents : r.block > k}

\* The zero address is no signer, and no vote asks for it.
ZeroUnsigned(s) ==
  /\ Zero \notin s.signers
  /\ \A v \in s.votes : v.authorize = TRUE => v.address \in Votable

\* The snapshot of a checkpoint is what its header lists, apart from the recent
\* signers.
CleanCheckpoint ==
  snap.number > 0 /\ Checkpoint(snap.number) =>
    extra = snap.signers /\ snap.votes = {} /\ snap.tally = [a \in Accounts |-> NoTally]

TInv ==
  /\ ZeroUnsigned(snap)
  /\ ~stuck => /\ CleanCheckpoint
               /\ trusted # NoSnapshot =>
                    since \in Nat /\ since <= snap.number /\ Follows(trusted, snap, since)

\* What follows a well-formed snapshot is one.
LEMMA FollowerOK ==
  ASSUME NEW s, SnapshotOK(s), NEW t, NEW k, Follows(t, s, k)
  PROVE  SnapshotOK(t)
<1>1. Tallied(t)
  BY DEF SnapshotOK, Follows, Tallied, VotesOn
<1>2. QED
  BY Zenon, <1>1 DEF SnapshotOK, Follows

\* Each stage of apply reads and changes both snapshots alike.
LEMMA EnterFollows ==
  ASSUME NEW s, SnapshotOK(s), NEW t, NEW k \in Nat, Follows(t, s, k), k <= s.number,
         NEW h, HeaderOK(h)
  PROVE  Follows(Enter(t, h), Enter(s, h), k)
<1> DEFINE new == [block |-> s.number + 1, signer |-> h.signer]
           d == Enter(t, h)
           e == Enter(s, h)
<1>1. /\ s \in Snapshots /\ t \in Snapshots /\ s.number \in Nat
      /\ t.number = s.number /\ t.signers = s.signers /\ t.votes = s.votes /\ t.tally = s.tally
      /\ t.recents = {r \in s.recents : r.block > k}
  BY Zenon DEF SnapshotOK, Follows, Snapshots
<1>2. /\ e.number = s.number + 1 /\ e.signers = s.signers
      /\ e.recents = ShiftRecents(s.recents, s.number + 1, s.signers) \cup {new}
      /\ e.votes = IF Checkpoint(s.number + 1) THEN {} ELSE s.votes
      /\ e.tally = IF Checkpoint(s.number + 1) THEN [a \in Accounts |-> NoTally] ELSE s.tally
  BY Zenon, <1>1, EnterFacts
<1>3. /\ d \in Snapshots /\ d.number = t.number + 1 /\ d.signers = t.signers
      /\ d.recents = ShiftRecents(t.recents, t.number + 1, t.signers)
                       \cup {[block |-> t.number + 1, signer |-> h.signer]}
      /\ d.votes = IF Checkpoint(t.number + 1) THEN {} ELSE t.votes
      /\ d.tally = IF Checkpoint(t.number + 1) THEN [a \in Accounts |-> NoTally] ELSE t.tally
  BY Zenon, <1>1, EnterFacts
<1>4. ShiftRecents(t.recents, s.number + 1, s.signers)
        = {r \in ShiftRecents(s.recents, s.number + 1, s.signers) : r.block > k}
  BY Zenon, <1>1 DEF ShiftRecents
<1>5. new.block > k
  BY <1>1
<1>6. d.recents = ShiftRecents(t.recents, s.number + 1, s.signers) \cup {new}
  BY Zenon, <1>1, <1>3
<1> HIDE DEF d, e, new
<1>7. d.recents = {r \in e.recents : r.block > k}
  BY Zenon, <1>2, <1>4, <1>5, <1>6
<1>8. d.number = e.number /\ d.signers = e.signers /\ d.votes = e.votes /\ d.tally = e.tally
  BY <1>1, <1>2, <1>3
<1>9. QED
  BY Zenon, <1>3, <1>7, <1>8 DEF Follows, d, e

LEMMA DiscardFollows ==
  ASSUME NEW s, SnapshotOK(s), NEW t, NEW k, Follows(t, s, k),
         NEW signer \in Addresses, NEW c \in Accounts
  PROVE  Follows(DiscardPrevious(t, signer, c), DiscardPrevious(s, signer, c), k)
<1> DEFINE same == VotesBy(s, signer) \cap VotesOn(s, c)
           first == CHOOSE v \in same : \A u \in same : v.block <= u.block
           d == DiscardPrevious(t, signer, c)
           e == DiscardPrevious(s, signer, c)
<1>1. /\ s \in Snapshots /\ t \in Snapshots
      /\ t.number = s.number /\ t.signers = s.signers /\ t.votes = s.votes /\ t.tally = s.tally
      /\ t.recents = {r \in s.recents : r.block > k}
  BY Zenon DEF SnapshotOK, Follows
<1>2. VotesBy(t, signer) \cap VotesOn(t, c) = same
  BY Zenon, <1>1 DEF VotesBy, VotesOn
<1>3. CASE same = {}
  <2>1. d = t /\ e = s
    BY Zenon, <1>2, <1>3 DEF DiscardPrevious
  <2>2. QED
    BY Zenon, <2>1
<1>4. CASE same # {}
  <2>1. e = [s EXCEPT !.votes = s.votes \ {first}, !.tally = uncast(s.tally, c, first.authorize)]
    BY Zenon, <1>4 DEF DiscardPrevious
  <2>2. d = [t EXCEPT !.votes = t.votes \ {first}, !.tally = uncast(t.tally, c, first.authorize)]
    BY Zenon, <1>2, <1>4 DEF DiscardPrevious
  <2>3. d \in Snapshots
    BY Zenon, FollowerOK, DiscardKeeps DEF SnapshotOK
  <2> HIDE DEF d, e, first
  <2>4. /\ e.number = s.number /\ e.signers = s.signers /\ e.recents = s.recents
        /\ e.votes = s.votes \ {first} /\ e.tally = uncast(s.tally, c, first.authorize)
    BY Zenon, <1>1, <2>1 DEF Snapshots
  <2>5. /\ d.number = t.number /\ d.signers = t.signers /\ d.recents = t.recents
        /\ d.votes = t.votes \ {first} /\ d.tally = uncast(t.tally, c, first.authorize)
    BY Zenon, <1>1, <2>2 DEF Snapshots
  <2>6. QED
    BY Zenon, <1>1, <2>3, <2>4, <2>5 DEF Follows, d, e
<1>5. QED
  BY Zenon, <1>3, <1>4

LEMMA CastFollows ==
  ASSUME NEW s, SnapshotOK(s), NEW t, NEW k, Follows(t, s, k),
         NEW h, HeaderOK(h), h.signer \in s.signers, s.number > 0,
         VotesBy(s, h.signer) \cap VotesOn(s, h.coinbase) = {}
  PROVE  Follows(CastVote(t, h), CastVote(s, h), k)
<1> DEFINE w == [signer |-> h.signer, block |-> s.number,
                 address |-> h.coinbase, authorize |-> h.authorize]
           u == cast(s.tally, h.coinbase, h.authorize)
           d == CastVote(t, h)
           e == CastVote(s, h)
<1>1. /\ s \in Snapshots /\ t \in Snapshots
      /\ t.number = s.number /\ t.signers = s.signers /\ t.votes = s.votes /\ t.tally = s.tally
      /\ t.recents = {r \in s.recents : r.block > k}
  BY Zenon DEF SnapshotOK, Follows
<1>2. CASE ~validVote(s.signers, h.coinbase, h.authorize)
  <2>1. d = t /\ e = s
    BY Zenon, <1>1, <1>2 DEF CastVote
  <2>2. QED
    BY Zenon, <2>1
<1>3. CASE validVote(s.signers, h.coinbase, h.authorize)
  <2>1. e = [s EXCEPT !.tally = u, !.votes = s.votes \cup {w}]
    BY Zenon, <1>3 DEF CastVote
  <2>2. d = [t EXCEPT !.tally = u, !.votes = t.votes \cup {w}]
    BY Zenon, <1>1, <1>3 DEF CastVote
  <2>3. d \in Snapshots
    <3>1. VotesBy(t, h.signer) \cap VotesOn(t, h.coinbase) = {}
      BY Zenon, <1>1 DEF VotesBy, VotesOn
    <3>2. SnapshotOK(t) /\ h.signer \in t.signers /\ t.number > 0
      BY Zenon, <1>1, FollowerOK
    <3>3. QED
      BY Zenon, <3>1, <3>2, CastKeeps DEF SnapshotOK
  <2> HIDE DEF d, e, u, w
  <2>4. /\ e.number = s.number /\ e.signers = s.signers /\ e.recents = s.recents
        /\ e.votes = s.votes \cup {w} /\ e.tally = u
    BY Zenon, <1>1, <2>1 DEF Snapshots
  <2>5. /\ d.number = t.number /\ d.signers = t.signers /\ d.recents = t.recents
        /\ d.votes = t.votes \cup {w} /\ d.tally = u
    BY Zenon, <1>1, <2>2 DEF Snapshots
  <2>6. QED
    BY Zenon, <1>1, <2>3, <2>4, <2>5 DEF Follows, d, e
<1>4. QED
  BY Zenon, <1>2, <1>3

LEMMA UpdateFollows ==
  ASSUME NEW s, SnapshotOK(s), NEW t, NEW k, Follows(t, s, k), NEW c \in Accounts
  PROVE  Follows(UpdateSigners(t, s.number, c), UpdateSigners(s, s.number, c), k)
<1> DEFINE d == UpdateSigners(t, t.number, c)
           e == UpdateSigners(s, s.number, c)
<1>0. SnapshotOK(t)
  BY Zenon, FollowerOK
<1>1. /\ s \in Snapshots /\ t \in Snapshots
      /\ t.number = s.number /\ t.signers = s.signers /\ t.votes = s.votes /\ t.tally = s.tally
      /\ t.recents = {r \in s.recents : r.block > k}
  BY Zenon DEF SnapshotOK, Follows
<1>2. Passed(t, c) <=> Passed(s, c)
  BY Zenon, <1>1 DEF Passed
<1>3. VotesOn(t, c) = VotesOn(s, c) /\ VotesBy(t, c) = VotesBy(s, c)
  BY Zenon, <1>1 DEF VotesOn, VotesBy
<1>4. CASE ~Passed(s, c)
  <2>1. d = t /\ e = s
    BY Zenon, <1>2, <1>4 DEF UpdateSigners
  <2>2. QED
    BY Zenon, <1>1, <2>1
<1>5. CASE Passed(s, c) /\ s.tally[c].authorize = TRUE
  <2>1. /\ SnapshotOK(e) /\ e.number = s.number
        /\ e.signers = s.signers \cup {c} /\ e.recents = s.recents
        /\ e.votes = s.votes \ VotesOn(s, c) /\ e.tally = [s.tally EXCEPT ![c] = NoTally]
    BY <1>5, AuthorizeKeeps, Zenon
  <2>2. Passed(t, c) /\ t.tally[c].authorize = TRUE
    BY Zenon, <1>1, <1>2, <1>5
  <2>3. /\ SnapshotOK(d) /\ d.number = t.number
        /\ d.signers = t.signers \cup {c} /\ d.recents = t.recents
        /\ d.votes = t.votes \ VotesOn(t, c) /\ d.tally = [t.tally EXCEPT ![c] = NoTally]
    BY Zenon, <1>0, <2>2, AuthorizeKeeps
  <2> HIDE DEF d, e
  <2>4. Follows(d, e, k)
    BY Zenon, <1>1, <1>3, <2>1, <2>3 DEF Follows, SnapshotOK
  <2>5. QED
    BY Zenon, <1>1, <2>4 DEF d, e
<1>6. CASE Passed(s, c) /\ s.tally[c].authorize = FALSE
  <2>1. /\ e.number = s.number /\ e.signers = s.signers \ {c}
        /\ e.recents = ShiftRecents(s.recents, s.number, s.signers \ {c})
        /\ e.votes = (s.votes \ VotesBy(s, c)) \ VotesOn(s, c)
        /\ e.tally = [UncastAll(s.tally, VotesBy(s, c)) EXCEPT ![c] = NoTally]
    BY Zenon, <1>6, DeauthorizeKeeps
  <2>2. Passed(t, c) /\ t.tally[c].authorize = FALSE
    BY Zenon, <1>1, <1>2, <1>6
  <2>3. /\ SnapshotOK(d) /\ d.number = t.number /\ d.signers = t.signers \ {c}
        /\ d.recents = ShiftRecents(t.recents, t.number, t.signers \ {c})
        /\ d.votes = (t.votes \ VotesBy(t, c)) \ VotesOn(t, c)
        /\ d.tally = [UncastAll(t.tally, VotesBy(t, c)) EXCEPT ![c] = NoTally]
    BY Zenon, <1>0, <2>2, DeauthorizeKeeps
  <2>4. ShiftRecents(t.recents, s.number, s.signers \ {c})
          = {r \in ShiftRecents(s.recents, s.number, s.signers \ {c}) : r.block > k}
    BY Zenon, <1>1 DEF ShiftRecents
  <2> HIDE DEF d, e
  <2>5. d.recents = {r \in e.recents : r.block > k}
    BY Zenon, <1>1, <2>1, <2>3, <2>4
  <2>6. d.number = e.number /\ d.signers = e.signers /\ d.votes = e.votes /\ d.tally = e.tally
    BY Zenon, <1>1, <1>3, <2>1, <2>3
  <2>7. Follows(d, e, k)
    BY Zenon, <2>3, <2>5, <2>6 DEF Follows, SnapshotOK
  <2>8. QED
    BY Zenon, <1>1, <2>7 DEF d, e
<1>7. QED
  BY Zenon, <1>4, <1>5, <1>6, PassedFacts

\* A header does the same to a snapshot and to what follows it.
LEMMA ApplyFollows ==
  ASSUME NEW s, SnapshotOK(s), NEW t, NEW k \in Nat, Follows(t, s, k), k <= s.number,
         NEW h, HeaderOK(h), h.signer \in s.signers
  PROVE  Follows(apply(t, h), apply(s, h), k)
<1> DEFINE e == Enter(s, h)
           f == Enter(t, h)
           d == DiscardPrevious(e, h.signer, h.coinbase)
           g == DiscardPrevious(f, h.signer, h.coinbase)
           v == CastVote(d, h)
           w == CastVote(g, h)
<1>1. /\ s \in Snapshots /\ s.number \in Nat /\ t.number = s.number
      /\ h.signer \in Addresses /\ h.coinbase \in Accounts
  BY Zenon DEF SnapshotOK, Snapshots, HeaderOK, Follows
<1>2. SnapshotOK(e) /\ e.number = s.number + 1 /\ e.signers = s.signers /\ Follows(f, e, k)
  BY Zenon, <1>1, EnterFacts, EnterKeeps, EnterFollows
<1> HIDE DEF e, f
<1>3. /\ SnapshotOK(d) /\ d.number = e.number /\ d.signers = e.signers
      /\ d.votes = e.votes \ (VotesBy(e, h.signer) \cap VotesOn(e, h.coinbase))
      /\ Follows(g, d, k)
  BY <1>1, <1>2, DiscardKeeps, DiscardFollows
<1> HIDE DEF d, g
<1>4. VotesBy(d, h.signer) \cap VotesOn(d, h.coinbase) = {}
  BY Zenon, <1>3 DEF VotesBy, VotesOn
<1>5. h.signer \in d.signers /\ d.number > 0
  BY <1>1, <1>2, <1>3
<1>6. SnapshotOK(v) /\ v.number = d.number /\ Follows(w, v, k)
  BY Zenon, <1>3, <1>4, <1>5, CastKeeps, CastFollows
<1> HIDE DEF v, w
<1>7. Follows(UpdateSigners(w, v.number, h.coinbase), UpdateSigners(v, v.number, h.coinbase), k)
  BY Zenon, <1>1, <1>6, UpdateFollows
<1>8. QED
  BY Zenon, <1>1, <1>2, <1>3, <1>6, <1>7 DEF apply, v, w, d, g, e, f

\* What follows a snapshot accepts the headers the snapshot accepts.
LEMMA FollowerAccepts ==
  ASSUME NEW s, NEW t, NEW k, Follows(t, s, k), NEW h, verifyHeader(s, h), Applies(s, h)
  PROVE  verifyHeader(t, h) /\ Applies(t, h)
<1>1. t.number = s.number /\ t.signers = s.signers /\ t.recents \subseteq s.recents
  BY Zenon DEF Follows
<1>2. ~RecentlySigned(t, h.signer)
  BY Zenon, <1>1 DEF RecentlySigned, verifyHeader, verifySeal
<1>3. calcDifficulty(t, h.signer) = calcDifficulty(s, h.signer)
  BY Zenon, <1>1 DEF calcDifficulty, inturn
<1>4. verifyHeader(t, h)
  BY Zenon, <1>1, <1>2, <1>3 DEF verifyHeader, verifySeal
<1>5. ShiftRecents(t.recents, s.number + 1, s.signers)
        \subseteq ShiftRecents(s.recents, s.number + 1, s.signers)
  BY Zenon, <1>1 DEF ShiftRecents
<1>6. Applies(t, h)
  BY Zenon, <1>1, <1>5 DEF Applies, Recent
<1>7. QED
  BY Zenon, <1>4, <1>6

\* A checkpoint header only enters its signer.
LEMMA CheckpointEnters ==
  ASSUME NEW s, SnapshotOK(s), NEW h, HeaderOK(h), verifyHeader(s, h), Checkpoint(s.number + 1),
         Zero \notin s.signers
  PROVE  apply(s, h) = Enter(s, h)
<1> DEFINE e == Enter(s, h)
           c == h.coinbase
<1>1. c = Zero /\ h.authorize = FALSE /\ c \in Accounts
  BY Zenon DEF verifyHeader, HeaderOK
<1>2. /\ s \in Snapshots /\ e.signers = s.signers /\ e.votes = {}
      /\ e.tally = [a \in Accounts |-> NoTally]
  BY Zenon, EnterFacts DEF SnapshotOK
<1> HIDE DEF e
<1>3. DiscardPrevious(e, h.signer, c) = e
  <2>1. VotesBy(e, h.signer) \cap VotesOn(e, c) = {}
    BY Zenon, <1>2 DEF VotesBy, VotesOn
  <2>2. QED
    BY Zenon, <2>1 DEF DiscardPrevious
<1>4. CastVote(e, h) = e
  BY Zenon, <1>1, <1>2 DEF CastVote, validVote
<1>5. ~Passed(e, c)
  <2>1. e.tally[c].votes = 0
    BY <1>1, <1>2 DEF NoTally
  <2>2. Cardinality(e.signers) \in Nat
    BY Zenon, <1>2, AccountsFinite DEF Snapshots
  <2>3. \A n \in Nat : ~(0 > n \div 2)
    OBVIOUS
  <2>4. QED
    BY Zenon, <2>1, <2>2, <2>3 DEF Passed
<1>6. QED
  BY Zenon, <1>3, <1>4, <1>5 DEF apply, UpdateSigners, e

\* The zero address does not become a signer unless headers may vote for it.
LEMMA ZeroStep ==
  ASSUME Zero \notin Votable, NEW s, SnapshotOK(s), ZeroUnsigned(s),
         NEW h, HeaderOK(h), h.signer \in s.signers, h.authorize => h.coinbase \in Votable
  PROVE  ZeroUnsigned(apply(s, h))
<1> DEFINE p == apply(s, h)
           v == Voted(s, h)
           c == h.coinbase
<1>1. SnapshotOK(v) /\ v.signers = s.signers /\ v.votes \subseteq s.votes \cup {Vote(s, h)}
  BY Zenon, VotedFacts
<1>2. /\ p.votes \subseteq v.votes
      /\ \/ p = v
         \/ /\ Passed(v, c) /\ v.tally[c].authorize = TRUE
            /\ p.signers = s.signers \cup {c}
         \/ p.signers = s.signers \ {c}
  <2> HIDE DEF v
  <2>1. LET q == apply(s, h)
        IN /\ q.votes \subseteq v.votes
           /\ \/ q = v
              \/ /\ Passed(v, c) /\ v.tally[c].authorize = TRUE
                 /\ q.signers = s.signers \cup {c}
              \/ q.signers = s.signers \ {c}
    BY Zenon, ApplyFacts DEF v
  <2> HIDE DEF p, c
  <2>2. QED
    BY Zenon, <2>1 DEF p
<1>3. \A x \in v.votes : x.authorize = TRUE => x.address \in Votable
  <2>1. Vote(s, h).authorize = h.authorize /\ Vote(s, h).address = h.coinbase
    BY Zenon DEF Vote
  <2>2. QED
    BY Zenon, <1>1, <2>1 DEF ZeroUnsigned
<1> HIDE DEF p, v
<1>4. ASSUME Passed(v, c), v.tally[c].authorize = TRUE PROVE c # Zero
  <2>1. c \in Accounts
    BY Zenon DEF HeaderOK
  <2>2. VotesOn(v, c) # {}
    BY Zenon, <1>1, <1>4, <2>1, PassedFacts
  <2>3. PICK x \in VotesOn(v, c) : TRUE
    BY Zenon, <2>2
  <2>4. x \in v.votes /\ x.address = c /\ x.authorize = TRUE
    BY Zenon, <1>1, <1>4, <2>1, <2>3 DEF VotesOn, SnapshotOK, Tallied
  <2>5. QED
    BY Zenon, <1>3, <2>4
<1>5. Zero \notin p.signers
  BY Zenon, <1>1, <1>2, <1>4 DEF ZeroUnsigned
<1>6. QED
  BY Zenon, <1>2, <1>3, <1>5 DEF ZeroUnsigned, p

\* TInv is inductive, given CInv.
THEOREM TrustInvariance ==
  ASSUME Zero \notin Votable
  PROVE  Spec => []TInv
<1>1. Init => TInv
  <2> SUFFICES ASSUME Init PROVE TInv
    BY Zenon
  <2>1. /\ snap.signers = Genesis /\ snap.votes = {} /\ snap.number = 0
        /\ trusted = NoSnapshot
    BY Zenon DEF Init, newSnapshot
  <2>2. Zero \notin Genesis
    BY Zenon, CliqueAssumption
  <2>3. QED
    BY <2>1, <2>2 DEF TInv, ZeroUnsigned, CleanCheckpoint
<1>2. CInv /\ TInv /\ [Next]_vars => TInv'
  <2> SUFFICES ASSUME CInv, TInv, [Next]_vars PROVE TInv'
    BY Zenon
  <2>1. SnapshotOK(snap) /\ snap.number \in Nat /\ ZeroUnsigned(snap)
    BY Zenon DEF CInv, TInv, SnapshotOK, Snapshots
  <2>2. ASSUME NEW h, Valid(h), Running, Accept(h) PROVE TInv'
    <3>1. HeaderOK(h) /\ verifyHeader(snap, h) /\ (h.authorize => h.coinbase \in Votable)
      BY Zenon, <2>2 DEF Valid
    <3>2. CASE ~Applies(snap, h)
      BY Zenon, <2>1, <2>2, <3>2 DEF Accept, TInv
    <3>3. CASE Applies(snap, h)
      <4>1. /\ snap' = apply(snap, h) /\ h.signer \in snap.signers /\ ~stuck
            /\ extra' = h.extra /\ since' = since
        BY Zenon, <2>2, <3>3 DEF Accept, Applies, Running
      <4>2. ZeroUnsigned(snap')
        BY Zenon, <2>1, <3>1, <4>1, ZeroStep
      <4>3. snap'.number = snap.number + 1
        BY Zenon, <2>1, <3>1, <4>1, ApplyFacts
      <4>4. CleanCheckpoint'
        <5> SUFFICES ASSUME Checkpoint(snap'.number)
                     PROVE  /\ extra' = snap'.signers /\ snap'.votes = {}
                            /\ snap'.tally = [a \in Accounts |-> NoTally]
          BY Zenon DEF CleanCheckpoint, Checkpoint
        <5>1. Checkpoint(snap.number + 1)
          BY Zenon, <4>3
        <5>2. snap' = Enter(snap, h)
          BY Zenon, <2>1, <3>1, <4>1, <5>1, CheckpointEnters DEF ZeroUnsigned
        <5>3. /\ snap'.signers = snap.signers /\ snap'.votes = {}
              /\ snap'.tally = [a \in Accounts |-> NoTally]
          BY Zenon, <2>1, <3>1, <5>1, <5>2, EnterFacts DEF SnapshotOK
        <5>4. h.extra = snap.signers
          BY Zenon, <3>1, <5>1 DEF verifyHeader
        <5>5. QED
          BY Zenon, <4>1, <5>3, <5>4
      <4>5. ASSUME trusted' # NoSnapshot
            PROVE  since' \in Nat /\ since' <= snap'.number /\ Follows(trusted', snap', since')
        <5>1. trusted # NoSnapshot
          BY Zenon, <2>2, <4>5 DEF Accept
        <5>2. since \in Nat /\ since <= snap.number /\ Follows(trusted, snap, since)
          BY Zenon, <4>1, <5>1 DEF TInv
        <5>3. verifyHeader(trusted, h) /\ Applies(trusted, h)
          BY Zenon, <3>1, <3>3, <5>2, FollowerAccepts
        <5>4. trusted' = apply(trusted, h)
          BY Zenon, <2>2, <5>1, <5>3 DEF Accept
        <5>5. Follows(trusted', snap', since)
          BY Zenon, <2>1, <3>1, <4>1, <5>2, <5>4, ApplyFollows
        <5>6. QED
          BY <2>1, <4>1, <4>3, <5>2, <5>5
      <4>6. QED
        BY Zenon, <4>2, <4>4, <4>5 DEF TInv
    <3>4. QED
      BY Zenon, <3>2, <3>3
  <2>3. CASE TrustCheckpoint
    <3>1. /\ ~stuck /\ snap.number > 0 /\ Checkpoint(snap.number)
          /\ trusted' = newSnapshot(snap.number, extra) /\ since' = snap.number
          /\ UNCHANGED <<snap, extra, stuck>>
      BY Zenon, <2>3 DEF TrustCheckpoint, Running
    <3>2. extra = snap.signers /\ snap.votes = {} /\ snap.tally = [a \in Accounts |-> NoTally]
      BY Zenon, <3>1 DEF TInv, CleanCheckpoint
    <3>3. {r \in snap.recents : r.block > snap.number} = {}
      <4>1. \A r \in snap.recents : r.block \in Nat /\ r.block <= snap.number
        BY Zenon, <2>1 DEF SnapshotOK, Snapshots, Signatures
      <4>2. QED
        BY <2>1, <4>1
    <3>4. trusted' = [number |-> snap.number, signers |-> snap.signers, recents |-> {},
                      votes |-> {}, tally |-> snap.tally]
      BY Zenon, <3>1, <3>2 DEF newSnapshot
    <3>5. trusted' \in Snapshots
      BY Zenon, <2>1, <3>4 DEF SnapshotOK, Snapshots
    <3>6. Follows(trusted', snap, snap.number)
      BY Zenon, <3>2, <3>3, <3>4, <3>5 DEF Follows
    <3>7. QED
      BY <2>1, <3>1, <3>6 DEF TInv, CleanCheckpoint
  <2>4. CASE UNCHANGED <<snap, trusted, since, extra, stuck>>
    BY Zenon, <2>4 DEF TInv, CleanCheckpoint
  <2>5. QED
    BY Zenon, <2>2, <2>3, <2>4, StepForms
<1>3. QED
  BY <1>1, <1>2, CliqueInvariance, PTL DEF Spec

\* As long as headers do not vote for the zero address, a node that trusts a
\* checkpoint computes the snapshots of a node that applied every header.  A
\* checkpoint header names the zero address and no vote; if that address were a
\* signer, Snapshot.apply would count it as a vote to remove it, which the node
\* that starts at the checkpoint does not see.
THEOREM CheckpointNodesAgree ==
  ASSUME Zero \notin Votable
  PROVE  Spec => []TrustedAgrees
<1>1. TInv => TrustedAgrees
  BY Zenon DEF TInv, TrustedAgrees, Follows
<1>2. QED
  BY <1>1, TrustInvariance, PTL

=============================================================================
