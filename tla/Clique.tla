------------------------------- MODULE Clique -------------------------------
(***************************************************************************)
(* The proof-of-authority engine of consensus/clique on one branch of      *)
(* headers: which signers may seal the next block, how the votes carried   *)
(* by headers change the set of signers, and when a header is accepted.    *)
(*                                                                         *)
(* The engine judges a header twice.  verifySeal compares it with the      *)
(* snapshot of its parent; Snapshot.apply folds it into the next snapshot  *)
(* and may refuse it on its own grounds.  A header that the first accepts  *)
(* and the second refuses is on the chain with no snapshot behind it, and  *)
(* nothing can be built on it: `stuck' records that.                       *)
(*                                                                         *)
(* A second snapshot, `trusted', is the one of a node that has no headers  *)
(* below a checkpoint (a light client, or a chain re-initialised from the  *)
(* freezer) and starts from the signers listed in the checkpoint's header. *)
(*                                                                         *)
(* Snapshot.Votes is a set: a vote carries the number of its block, no     *)
(* block casts two, and so the numbers give the order of the list.         *)
(*                                                                         *)
(* Timestamps, gas limits, fork hashes, signatures and the snapshot caches *)
(* are left out.  A nonce that is neither of the two votes is refused by   *)
(* verifyHeader and is not offered.                                        *)
(***************************************************************************)
EXTENDS Integers, FiniteSets

CONSTANTS
  Addresses,   \* the accounts that may be signers
  Zero,        \* common.Address{}, the beneficiary of a header with no vote
  Votable,     \* the accounts that headers vote on
  Genesis,     \* the signers listed by the genesis header
  Rank,        \* the ascending order of addresses
  Epoch,       \* config.Epoch
  Wrap,        \* 2^64, scaled down: the modulus of unsigned arithmetic
  MaxNumber,   \* bound: the height of the highest header
  NoSnapshot   \* no snapshot

ASSUME CliqueAssumption ==
  /\ Genesis \subseteq Addresses /\ Genesis # {} /\ IsFiniteSet(Addresses)
  /\ Zero \notin Addresses
  /\ Votable \subseteq Addresses \cup {Zero}
  /\ Rank \in [Addresses \cup {Zero} -> Nat]
  /\ \A a, b \in Addresses \cup {Zero} : Rank[a] = Rank[b] => a = b
  /\ Epoch \in Nat \ {0}
  /\ MaxNumber \in Nat /\ Wrap \in Nat /\ Wrap > MaxNumber + 1

VARIABLES
  snap,      \* the snapshot of the head header
  trusted,   \* the snapshot of a node that started from a checkpoint
  since,     \* the number of that checkpoint
  extra,     \* the signers listed by the head header
  stuck,     \* the head header was accepted but has no snapshot
  panicked,  \* the process divided by zero
  sealers    \* history: the latest headers, block and signer

vars == <<snap, trusted, since, extra, stuck, panicked, sealers>>

Accounts == Addresses \cup {Zero}

\* A missing entry of Snapshot.Tally has no votes.
NoTally == [authorize |-> FALSE, votes |-> 0]

newSnapshot(number, signers) ==
  [number |-> number, signers |-> signers, recents |-> {}, votes |-> {},
   tally |-> [a \in Accounts |-> NoTally]]

Checkpoint(number) == number % Epoch = 0

Limit(signers) == Cardinality(signers) \div 2 + 1

-----------------------------------------------------------------------------
(* Votes                                                                   *)

validVote(signers, address, authorize) ==
  (address \in signers /\ ~authorize) \/ (address \notin signers /\ authorize)

cast(tally, address, authorize) ==
  [tally EXCEPT ![address] =
     IF @.votes > 0 THEN [authorize |-> @.authorize, votes |-> @.votes + 1]
                    ELSE [authorize |-> authorize, votes |-> 1]]

uncast(tally, address, authorize) ==
  IF tally[address].votes = 0 \/ tally[address].authorize # authorize
  THEN tally
  ELSE [tally EXCEPT ![address] =
          IF @.votes > 1 THEN [authorize |-> authorize, votes |-> @.votes - 1]
                         ELSE NoTally]

\* Takes back every vote of a set: each is an uncast, and only those that agree
\* with the tally count.
UncastAll(tally, votes) ==
  [a \in Accounts |->
     LET n == Cardinality({v \in votes : v.address = a /\ v.authorize = tally[a].authorize})
     IN IF n = 0 THEN tally[a]
        ELSE IF n < tally[a].votes
             THEN [authorize |-> tally[a].authorize, votes |-> tally[a].votes - n]
             ELSE NoTally]

VotesBy(s, signer) == {v \in s.votes : v.signer = signer}

VotesOn(s, account) == {v \in s.votes : v.address = account}

\* The signer's earlier vote on the account, if any, is taken back.
DiscardPrevious(s, signer, coinbase) ==
  LET same == VotesBy(s, signer) \cap VotesOn(s, coinbase)
      first == CHOOSE v \in same : \A u \in same : v.block <= u.block
  IN IF same = {}
     THEN s
     ELSE [s EXCEPT !.votes = @ \ {first},
                    !.tally = uncast(@, coinbase, first.authorize)]

\* The header's own vote, on the snapshot that Enter has numbered already.
CastVote(s, h) ==
  IF validVote(s.signers, h.coinbase, h.authorize)
  THEN [s EXCEPT !.tally = cast(@, h.coinbase, h.authorize),
                 !.votes = @ \cup {[signer |-> h.signer, block |-> s.number,
                                    address |-> h.coinbase, authorize |-> h.authorize]}]
  ELSE s

\* The block that leaves the window may be signed over again.
ShiftRecents(recents, number, signers) ==
  IF number >= Limit(signers)
  THEN {r \in recents : r.block # number - Limit(signers)}
  ELSE recents

\* Mutant: a removed signer's votes on others stay.
DeauthorizeOnly(s, number, account) ==
  [s EXCEPT !.signers = @ \ {account},
            !.recents = ShiftRecents(@, number, s.signers \ {account})]

\* Mutant: the window is not adjusted to the smaller set of signers.
DeauthorizeKeepingRecents(s, number, account) ==
  [s EXCEPT !.signers = @ \ {account},
            !.votes = @ \ VotesBy(s, account),
            !.tally = UncastAll(@, VotesBy(s, account))]

Deauthorize(s, number, account) ==
  [s EXCEPT !.signers = @ \ {account},
            !.recents = ShiftRecents(@, number, s.signers \ {account}),
            !.votes = @ \ VotesBy(s, account),
            !.tally = UncastAll(@, VotesBy(s, account))]

\* Votes about an account whose status changed are dropped with its tally.
ForgetProposal(s, account) ==
  [s EXCEPT !.votes = @ \ VotesOn(s, account), !.tally[account] = NoTally]

\* Mutant: half of the signers is enough.
PassedByHalf(s, account) ==
  s.tally[account].votes > 0 /\ 2 * s.tally[account].votes >= Cardinality(s.signers)

Passed(s, account) == s.tally[account].votes > Cardinality(s.signers) \div 2

UpdateSigners(s, number, account) ==
  IF ~Passed(s, account)
  THEN s
  ELSE ForgetProposal(
         IF s.tally[account].authorize
         THEN [s EXCEPT !.signers = @ \cup {account}]
         ELSE Deauthorize(s, number, account),
         account)

-----------------------------------------------------------------------------
(* Snapshot.apply, one header                                              *)

RemoveVotes(s, number) ==
  IF Checkpoint(number)
  THEN [s EXCEPT !.votes = {}, !.tally = [a \in Accounts |-> NoTally]]
  ELSE s

\* The signers whose blocks are still in the window of header `number'.
Recent(s, number) ==
  {r.signer : r \in ShiftRecents(s.recents, number, s.signers)}

\* apply returns no error.
Applies(s, h) == h.signer \in s.signers \ Recent(s, s.number + 1)

\* The header is authorised: its signer enters the list of recent signers.
Enter(s, h) ==
  [RemoveVotes(s, s.number + 1) EXCEPT
     !.number = @ + 1,
     !.recents = ShiftRecents(@, s.number + 1, s.signers)
                   \cup {[block |-> s.number + 1, signer |-> h.signer]}]

apply(s, h) ==
  UpdateSigners(CastVote(DiscardPrevious(Enter(s, h), h.signer, h.coinbase), h),
                s.number + 1, h.coinbase)

-----------------------------------------------------------------------------
(* Verifying and sealing a header                                          *)

\* The index of a signer in the ascending list; the length if it is not there.
Offset(signers, signer) ==
  IF signer \in signers
  THEN Cardinality({t \in signers : Rank[t] < Rank[signer]})
  ELSE Cardinality(signers)

inturn(s, number, signer) ==
  number % Cardinality(s.signers) = Offset(s.signers, signer)

diffInTurn == 2

diffNoTurn == 1

calcDifficulty(s, signer) ==
  IF inturn(s, s.number + 1, signer) THEN diffInTurn ELSE diffNoTurn

\* Unsigned subtraction.
Minus(a, b) == (a - b) % Wrap

\* Mutant: a signer is kept out one block too long.
TooRecent(s, signer) ==
  \E r \in s.recents :
    r.signer = signer /\ r.block >= Minus(s.number + 1, Limit(s.signers))

\* verifySeal's reading of the window of the next header.
RecentlySigned(s, signer) ==
  \E r \in s.recents :
    r.signer = signer /\ r.block > Minus(s.number + 1, Limit(s.signers))

verifySeal(s, h) ==
  /\ h.signer \in s.signers
  /\ ~RecentlySigned(s, h.signer)
  /\ h.difficulty = calcDifficulty(s, h.signer)

\* Mutant: the signers listed by a checkpoint are not compared.
VerifyUnlisted(s, h) ==
  /\ Checkpoint(s.number + 1) => h.coinbase = Zero /\ ~h.authorize
  /\ verifySeal(s, h)

verifyHeader(s, h) ==
  /\ Checkpoint(s.number + 1) => h.coinbase = Zero /\ ~h.authorize
  /\ h.extra = IF Checkpoint(s.number + 1) THEN s.signers ELSE {}
  /\ verifySeal(s, h)

\* The header a node prepares when it draws the proposal (coinbase, authorize).
Prepare(s, signer, coinbase, authorize) ==
  LET proposes == ~Checkpoint(s.number + 1)
                  /\ validVote(s.signers, coinbase, authorize)
  IN [signer |-> signer,
      coinbase |-> IF proposes THEN coinbase ELSE Zero,
      authorize |-> proposes /\ authorize,
      difficulty |-> calcDifficulty(s, signer),
      extra |-> IF Checkpoint(s.number + 1) THEN s.signers ELSE {}]

\* Seal signs: the signer is authorised and need not wait for others.
Seals(s, signer) ==
  /\ signer \in s.signers
  /\ \A r \in s.recents :
       r.signer = signer =>
         /\ s.number + 1 >= Limit(s.signers)
         /\ r.block <= Minus(s.number + 1, Limit(s.signers))

-----------------------------------------------------------------------------
(* Steps                                                                   *)

Init ==
  /\ snap = newSnapshot(0, Genesis)
  /\ trusted = NoSnapshot
  /\ since = 0
  /\ extra = Genesis
  /\ stuck = FALSE
  /\ panicked = FALSE
  /\ sealers = {}

Running == ~stuck /\ ~panicked /\ snap.number < MaxNumber

\* As much of the history as the widest window covers.
Latest(history, number) == {r \in history : r.block > number - Limit(Accounts)}

\* A header that passed verifyHeader becomes the head; its snapshot is needed,
\* and computed, for whatever comes next.
Accept(h) ==
  /\ sealers' = Latest(sealers \cup {[block |-> snap.number + 1, signer |-> h.signer]},
                       snap.number + 1)
  /\ extra' = h.extra
  /\ IF Applies(snap, h)
     THEN snap' = apply(snap, h) /\ stuck' = FALSE
     ELSE stuck' = TRUE /\ UNCHANGED snap
  /\ trusted' = IF trusted # NoSnapshot /\ verifyHeader(trusted, h) /\ Applies(trusted, h)
                THEN apply(trusted, h) ELSE trusted
  /\ UNCHANGED <<since, panicked>>

\* A header from the network.
VerifyHeader(h) ==
  /\ Running
  /\ verifyHeader(snap, h)
  /\ Accept(h)

\* The local node prepares a header, and seals it if it may.  Preparing computes
\* a remainder by the number of signers.
Mine(signer, coinbase, authorize) ==
  /\ Running
  /\ IF snap.signers = {}
     THEN panicked' = TRUE /\ UNCHANGED <<snap, trusted, since, extra, stuck, sealers>>
     ELSE Seals(snap, signer) /\ Accept(Prepare(snap, signer, coinbase, authorize))

\* A node that has the checkpoint header but not its parent starts from the
\* signers the header lists.
TrustCheckpoint ==
  /\ Running
  /\ snap.number > 0 /\ Checkpoint(snap.number)
  /\ trusted' = newSnapshot(snap.number, extra)
  /\ since' = snap.number
  /\ UNCHANGED <<snap, extra, stuck, panicked, sealers>>

\* Headers of every signer with every vote.
Headers ==
  {h \in [signer : Addresses, coinbase : Votable \cup {Zero}, authorize : BOOLEAN,
          difficulty : {diffInTurn, diffNoTurn}, extra : {{}, snap.signers}] :
     h.coinbase \in Votable \/ ~h.authorize}

Next ==
  \/ \E h \in Headers : VerifyHeader(h)
  \/ \E signer \in Addresses, coinbase \in Votable, authorize \in BOOLEAN :
       Mine(signer, coinbase, authorize)
  \/ TrustCheckpoint

Spec == Init /\ [][Next]_vars

-----------------------------------------------------------------------------
(* Properties                                                              *)

\* The tally of a snapshot is the count of its votes, all for the same outcome.
\* Every vote was cast by someone who is a signer now, asks for a change that is
\* still meaningful, and is that signer's only one on the account.
Tallied(s) ==
  /\ \A a \in Accounts :
       /\ s.tally[a].votes = Cardinality(VotesOn(s, a))
       /\ \A v \in VotesOn(s, a) : v.authorize = s.tally[a].authorize
  /\ \A v \in s.votes :
       v.signer \in s.signers /\ validVote(s.signers, v.address, v.authorize)
  /\ \A u, v \in s.votes : u.signer = v.signer /\ u.address = v.address => u = v

\* Through replaced votes, removed signers, passed proposals and checkpoints, the
\* tally that Snapshot.apply maintains step by step is the count of the votes in
\* the chronological list, and no vote outlives its signer or its purpose.
VotesTallied == Tallied(snap)

\* The signers of the latest headers, as many as the window covers.
InWindow ==
  {r.signer : r \in {q \in sealers : q.block > (snap.number + 1) - Limit(snap.signers)}}

\* However the set of signers grew and shrank, the list of recent signers that
\* Snapshot.apply carries along keeps exactly those signers from the next header
\* who signed one of the last len(Signers)/2 headers (verifySeal).
WindowExact ==
  \A a \in snap.signers \cap Addresses : RecentlySigned(snap, a) <=> a \in InWindow

\* Every header that a node prepares and seals passes its own and the others'
\* verification (Prepare and Seal against verifyHeader).
SealedVerifies ==
  \A a \in snap.signers, c \in Votable, authorize \in BOOLEAN :
    Seals(snap, a) => verifyHeader(snap, Prepare(snap, a, c, authorize))

\* A header that verifySeal accepts is one that Snapshot.apply accepts, so that
\* the next header can be verified.  The comment on verifySeal's test: "Signer is
\* among recents, only fail if the current block doesn't shift it out".
VerifiedApplies == ~stuck

\* A header changes the status of at most one account, and only when more than
\* half of the signers asked for it, counting each once (Snapshot.apply).
MajorityChanges ==
  [][snap'.signers # snap.signers =>
       \E a \in Accounts, authorize \in BOOLEAN :
         /\ validVote(snap.signers, a, authorize)
         /\ snap'.signers = IF authorize THEN snap.signers \cup {a} ELSE snap.signers \ {a}
         /\ LET voters == {r.signer : r \in {q \in sealers' : q.block = snap.number + 1}} \cup
                          {v.signer : v \in {u \in VotesOn(snap, a) : u.authorize = authorize}}
            IN 2 * Cardinality(voters \cap snap.signers) > Cardinality(snap.signers)]_vars

\* A node that started from a checkpoint header agrees with one that applied
\* every header: it follows the chain, and has the same signers, votes and tally,
\* and the recent signers since the checkpoint (Clique.snapshot, newSnapshot).
TrustedAgrees ==
  trusted # NoSnapshot /\ ~stuck =>
    /\ trusted.number = snap.number
    /\ trusted.signers = snap.signers
    /\ trusted.votes = snap.votes
    /\ trusted.tally = snap.tally
    /\ trusted.recents = {r \in snap.recents : r.block > since}

=============================================================================
