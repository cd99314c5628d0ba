-------------------------- MODULE BlockChainProofs --------------------------
(***************************************************************************)
(* What BlockChain guarantees for every tree of blocks, every set of       *)
(* invalid blocks and every depth of the state cache: the canonical index  *)
(* follows the head block, the header marker stays on its branch, no       *)
(* invalid block becomes canonical, the database has no gaps and the head  *)
(* can be opened, between any two database writes and through any number   *)
(* of crashes; and a rewind deletes all it promises to.                    *)
(***************************************************************************)
EXTENDS BlockChain, TLAPS

\* The shape of the operation in progress: the deletions SetHead has in its
\* batch lie above both heads, and once reorg is through only the new head
\* itself is missing from the canonical branch.
OpShape ==
  /\ goal # NoBlock => op = "import"
  /\ (goal # NoBlock /\ swept) => NewChain \subseteq {goal}
  /\ phase = "side" => last \in Blocks
  /\ op # "rewind" => doomed = {}
  /\ \A n \in doomed : n > Number[currentHeader] /\ n > Number[currentBlock]

\* A state is computed only on top of the state of a valid parent.
StatesValid ==
  /\ \A b \in committed \cup triegc : Ancestors[b] \cap Invalid = {}
  /\ goal # NoBlock => Ancestors[goal] \cap Invalid = {}

IInv ==
  /\ TypeOK /\ HeadIndexed /\ HeadersOnBranch /\ HeadValid
  /\ OpShape /\ StatesValid

\* The index files every block under its own number; the new head of an import
\* is stored with its state; SetHead's batch covers every height above the
\* header marker, and the fast block marker is not above it.
StorageShape ==
  /\ \A n \in Heights : canonical[n] # NoBlock => Number[canonical[n]] = n
  /\ goal # NoBlock => HasBlockAndState(goal)
  /\ doomed # {} =>
       /\ Number[currentFastBlock] <= Number[currentHeader]
       /\ \A b \in stored : Number[b] > Number[currentHeader] => Number[b] \in doomed

\* HeadHasState between any two writes, but for those of a reorganisation:
\* that one passes over blocks without state and ends at one with state.
HeadOpens ==
  goal = NoBlock =>
    \/ HasState(currentBlock)
    \/ \E b \in triegc : Number[b] >= Number[currentBlock] + TriesInMemory

SInv == ChainUnbroken /\ StorageShape /\ HeadOpens

-----------------------------------------------------------------------------
(* The tree *)

\* A block other than genesis is one above its parent, which is one of its
\* ancestors.
LEMMA ParentFacts ==
  ASSUME NEW b \in Blocks \ {Genesis}
  PROVE  /\ Parent[b] \in Blocks
         /\ Number[b] = Number[Parent[b]] + 1
         /\ Number[b] \in Nat /\ Number[Parent[b]] \in Nat
         /\ Ancestors[b] = {b} \cup Ancestors[Parent[b]]
         /\ Parent[b] \in Ancestors[Parent[b]]
         /\ Parent[b] # b
BY TreeAssumption

\* Block numbers, and so the heights of the index, are natural numbers.
LEMMA NumberFacts ==
  /\ \A b \in Blocks : Number[b] \in Nat
  /\ Heights \subseteq Nat
BY TreeAssumption DEF Heights

\* Ancestors are blocks, include the block itself and are closed.
LEMMA AncestorFacts ==
  ASSUME NEW b \in Blocks, NEW a \in Ancestors[b]
  PROVE  /\ a \in Blocks
         /\ b \in Ancestors[b]
         /\ Ancestors[a] \subseteq Ancestors[b]
         /\ Number[a] \in Nat /\ Number[b] \in Nat
         /\ Number[a] <= Number[b]
         /\ Number[a] \in Heights
BY TreeAssumption DEF Heights

\* Two ancestors of a block are on one branch, ordered by their numbers.
LEMMA AncestorsLinear ==
  ASSUME NEW b \in Blocks, NEW a \in Ancestors[b], NEW c \in Ancestors[b],
         Number[a] <= Number[c]
  PROVE  a \in Ancestors[c]
BY TreeAssumption

\* At one height a branch has one block.
LEMMA AncestorsUnique ==
  ASSUME NEW b \in Blocks, NEW a \in Ancestors[b], NEW c \in Ancestors[b],
         Number[a] = Number[c]
  PROVE  a = c
<1>1. /\ a \in Blocks /\ c \in Blocks /\ Number[a] \in Nat /\ Number[c] \in Nat
  BY AncestorFacts
<1>2. a \in Ancestors[c]
  BY <1>1, AncestorsLinear
<1>3. CASE c = Genesis
  BY <1>2, <1>3, TreeAssumption
<1>4. CASE c # Genesis
  <2>1. Ancestors[c] = {c} \cup Ancestors[Parent[c]] /\ Parent[c] \in Blocks
        /\ Number[c] = Number[Parent[c]] + 1 /\ Number[Parent[c]] \in Nat
    BY <1>1, <1>4, ParentFacts
  <2>2. SUFFICES ASSUME a \in Ancestors[Parent[c]] PROVE FALSE
    BY <1>2, <2>1
  <2>3. Number[a] <= Number[Parent[c]]
    BY <2>1, <2>2, AncestorFacts
  <2>4. QED
    BY <1>1, <2>1, <2>3
<1>5. QED
  BY <1>3, <1>4

-----------------------------------------------------------------------------
(* Moving the heads *)

\* A block the index names at a height the header's branch covers is on that
\* branch.
LEMMA OnBranchAt ==
  ASSUME NEW h \in Blocks, NEW b \in Blocks,
         \A a \in Ancestors[h] : canonical[Number[a]] \in {a, NoBlock},
         canonical[Number[b]] = b,
         Number[b] <= Number[h]
  PROVE  b \in Ancestors[h]
<1>1. Number[b] \in 0..Number[h]
  BY TreeAssumption
<1>2. PICK a \in Ancestors[h] : Number[a] = Number[b]
  BY <1>1, TreeAssumption
<1>3. canonical[Number[b]] \in {a, NoBlock} /\ b # NoBlock
  BY <1>2, TreeAssumption
<1>4. QED
  BY <1>3

\* writeHeadBlock of a block whose parent is on the head's branch keeps the
\* index and both heads on one branch.
LEMMA WriteHeadKeeps ==
  ASSUME TypeOK, HeadIndexed, HeadersOnBranch,
         NEW b \in Blocks \ {Genesis},
         Parent[b] \in Ancestors[currentBlock],
         WriteHeadBlock(b)
  PROVE  /\ canonical' \in [Heights -> Blocks \cup {NoBlock}]
         /\ {currentBlock', currentHeader', currentFastBlock'} \subseteq Blocks
         /\ HeadIndexed' /\ HeadersOnBranch'
<1> DEFINE p == Parent[b]
<1>1. /\ p \in Blocks /\ Number[b] = Number[p] + 1
      /\ Number[b] \in Nat /\ Number[p] \in Nat
      /\ Ancestors[b] = {b} \cup Ancestors[p] /\ p \in Ancestors[p]
  BY ParentFacts
<1>2. /\ currentBlock \in Blocks /\ currentHeader \in Blocks /\ currentFastBlock \in Blocks
      /\ canonical \in [Heights -> Blocks \cup {NoBlock}]
  BY DEF TypeOK
<1>3. Number[b] \in Heights
  BY DEF Heights
<1>4. Ancestors[p] \subseteq Ancestors[currentBlock]
  BY <1>2, AncestorFacts
<1>5. \A a \in Ancestors[p] : /\ a \in Blocks /\ Number[a] \in Nat
                             /\ Number[a] # Number[b] /\ Number[a] \in Heights
                             /\ canonical[Number[a]] = a
  BY <1>1, <1>4, AncestorFacts DEF HeadIndexed
<1>6. /\ canonical' = [canonical EXCEPT ![Number[b]] = b]
      /\ currentBlock' = b
      /\ currentHeader' = IF UpdateHeads(b) THEN b ELSE currentHeader
      /\ currentFastBlock' = IF UpdateHeads(b) THEN b ELSE currentFastBlock
  BY DEF WriteHeadBlock
<1>7. \A a \in Ancestors[b] : canonical'[Number[a]] = a
  BY <1>1, <1>2, <1>3, <1>5, <1>6
<1>8. HeadIndexed'
  BY <1>6, <1>7 DEF HeadIndexed
<1>9. HeadersOnBranch'
  <2>1. CASE UpdateHeads(b)
    <3>1. currentHeader' = b
      BY <1>6, <2>1
    <3>2. b \in Ancestors[b]
      BY <1>1
    <3>3. QED
      BY <1>6, <1>7, <3>1, <3>2 DEF HeadersOnBranch
  <2>2. CASE ~UpdateHeads(b)
    <3>1. canonical[Number[b]] = b
      BY <2>2 DEF UpdateHeads
    <3>2. canonical' = canonical /\ currentHeader' = currentHeader
      BY <1>2, <1>3, <1>6, <2>2, <3>1
    <3>3. currentHeader \in Ancestors[b] \/ b \in Ancestors[currentHeader]
      <4> DEFINE h == currentHeader
      <4>1. Number[h] \in Nat /\ Number[currentBlock] \in Nat
        BY <1>2, AncestorFacts, TreeAssumption
      <4>2. CASE h \in Ancestors[currentBlock] /\ Number[h] <= Number[p]
        BY <1>1, <1>2, <4>2, AncestorsLinear
      <4>3. CASE h \in Ancestors[currentBlock] /\ Number[h] > Number[p]
        <5>1. h \in Ancestors[h] /\ p \in Ancestors[h]
          BY <1>1, <1>2, <4>1, <4>3, AncestorsLinear, AncestorFacts
        <5>2. Number[h] >= Number[b]
          BY <1>1, <4>1, <4>3
        <5>3. QED
          BY <1>1, <1>2, <3>1, <4>1, <5>1, <5>2, OnBranchAt DEF HeadersOnBranch
      <4>4. CASE currentBlock \in Ancestors[h]
        <5>1. p \in Ancestors[h] /\ h \in Ancestors[h]
          BY <1>2, <4>4, AncestorFacts
        <5>2. CASE Number[h] = Number[p]
          <6>1. h = p
            BY <1>2, <5>1, <5>2, AncestorsUnique
          <6>2. QED
            BY <1>1, <6>1
        <5>3. CASE Number[h] # Number[p]
          <6>1. Number[h] >= Number[b]
            BY <1>1, <1>2, <4>1, <5>1, <5>3, AncestorFacts
          <6>2. QED
            BY <1>2, <3>1, <6>1, OnBranchAt DEF HeadersOnBranch
        <5>4. QED
          BY <5>2, <5>3
      <4>5. QED
        BY <1>1, <4>1, <4>2, <4>3, <4>4 DEF HeadersOnBranch
    <3>4. QED
      BY <1>6, <3>2, <3>3 DEF HeadersOnBranch
  <2>3. QED
    BY <2>1, <2>2
<1>10. QED
  BY <1>1, <1>2, <1>3, <1>6, <1>8, <1>9

\* The head block falls back on its own branch.
LEMMA RetreatKeeps ==
  ASSUME TypeOK, HeadIndexed, HeadersOnBranch, HeadValid,
         currentBlock' \in Ancestors[currentBlock],
         UNCHANGED <<canonical, currentHeader>>
  PROVE  /\ currentBlock' \in Blocks
         /\ HeadIndexed' /\ HeadersOnBranch' /\ HeadValid'
<1>1. currentBlock \in Blocks /\ currentHeader \in Blocks
  BY DEF TypeOK
<1>2. currentBlock' \in Blocks /\ Ancestors[currentBlock'] \subseteq Ancestors[currentBlock]
  BY <1>1, AncestorFacts
<1>3. HeadIndexed' /\ HeadValid'
  BY <1>2 DEF HeadIndexed, HeadValid
<1>4. CASE currentBlock \in Ancestors[currentHeader]
  <2>1. currentBlock' \in Ancestors[currentHeader]
    BY <1>1, <1>4, AncestorFacts
  <2>2. QED
    BY <1>2, <1>3, <2>1 DEF HeadersOnBranch
<1>5. CASE currentHeader \in Ancestors[currentBlock]
  <2>1. Number[currentHeader] \in Nat /\ Number[currentBlock'] \in Nat
    BY <1>1, <1>2, TreeAssumption
  <2>2. currentHeader \in Ancestors[currentBlock'] \/ currentBlock' \in Ancestors[currentHeader]
    BY <1>1, <1>5, <2>1, AncestorsLinear
  <2>3. QED
    BY <1>2, <1>3, <2>2 DEF HeadersOnBranch
<1>6. QED
  BY <1>4, <1>5 DEF HeadersOnBranch

\* Steps that leave the heads and the index alone.
LEMMA HeadsAlone ==
  ASSUME HeadIndexed, HeadersOnBranch, HeadValid,
         UNCHANGED <<canonical, currentBlock, currentHeader>>
  PROVE  HeadIndexed' /\ HeadersOnBranch' /\ HeadValid'
BY DEF HeadIndexed, HeadersOnBranch, HeadValid

\* Adopt schedules a block: if reorg is skipped the block extends the head.
LEMMA AdoptFacts ==
  ASSUME NEW b \in Blocks \ {Genesis}, Adopt(b), UNCHANGED currentBlock
  PROVE  /\ goal' = b /\ goal' # NoBlock /\ swept' \in BOOLEAN
         /\ swept' => NewChain' \subseteq {goal'}
<1>1. goal' = b /\ swept' \in BOOLEAN /\ (swept' => Parent[b] = currentBlock)
  BY Zenon DEF Adopt
<1>2. b # NoBlock
  BY TreeAssumption
<1>3. Parent[b] = currentBlock => Ancestors[b] \ Ancestors[currentBlock] \subseteq {b}
  BY ParentFacts
<1>4. QED
  BY <1>1, <1>2, <1>3 DEF NewChain

-----------------------------------------------------------------------------
(* Imports *)

\* InsertChain only takes the lock and the batch.
LEMMA InsertChainKeeps ==
  ASSUME IInv, NEW b \in Blocks \ {Genesis}, InsertChain(b)
  PROVE  IInv'
<1>1. chain' \subseteq Blocks \ {Genesis}
  <2>1. PICK a \in Ancestors[b] \ {Genesis} : chain' = Ancestors[b] \ Ancestors[Parent[a]]
    BY DEF InsertChain
  <2>2. Ancestors[b] \subseteq Blocks /\ Parent[a] \in Blocks
    BY AncestorFacts, ParentFacts
  <2>3. Genesis \in Ancestors[Parent[a]]
    BY <2>2, TreeAssumption
  <2>4. QED
    BY <2>1, <2>2, <2>3
<1>2. TypeOK'
  BY <1>1 DEF IInv, TypeOK, InsertChain, disk
<1>3. OpShape' /\ StatesValid'
  BY DEF IInv, OpShape, StatesValid, NewChain, InsertChain, disk
<1>4. QED
  BY <1>2, <1>3, HeadsAlone DEF IInv, InsertChain, disk

\* Skipping a known block only shortens the batch.
LEMMA SkipKnownKeeps ==
  ASSUME IInv, SkipKnown
  PROVE  IInv'
<1>1. TypeOK'
  BY DEF IInv, TypeOK, SkipKnown, Advance, disk
<1>2. OpShape' /\ StatesValid'
  BY DEF IInv, OpShape, StatesValid, NewChain, SkipKnown, Importing, Advance, disk
<1>3. QED
  BY <1>1, <1>2, HeadsAlone DEF IInv, SkipKnown, disk

\* A known block has a state, so its branch is valid.
LEMMA WriteKnownKeeps ==
  ASSUME IInv, WriteKnownBlock
  PROVE  IInv'
<1>1. PICK b \in Offered : /\ ValidateBody(b) = "known"
                           /\ Adopt(b)
                           /\ Advance(b, IF phase = "main" THEN "main" ELSE "known")
  BY DEF WriteKnownBlock
<1>2. b \in Blocks \ {Genesis}
  BY DEF IInv, TypeOK, Offered
<1>3. HasState(b)
  BY <1>1 DEF ValidateBody, HasBlockAndState
<1>4. /\ goal' = b /\ goal' # NoBlock /\ swept' \in BOOLEAN
      /\ swept' => NewChain' \subseteq {goal'}
  BY <1>1, <1>2, AdoptFacts DEF WriteKnownBlock, disk
<1>5. TypeOK'
  BY <1>1, <1>2, <1>4 DEF IInv, TypeOK, WriteKnownBlock, Advance, disk
<1>6. OpShape'
  BY <1>1, <1>4 DEF IInv, OpShape, WriteKnownBlock, Importing, Advance, disk
<1>7. StatesValid'
  BY <1>3, <1>4 DEF IInv, StatesValid, HasState, WriteKnownBlock, disk
<1>8. QED
  BY <1>5, <1>6, <1>7, HeadsAlone DEF IInv, WriteKnownBlock, disk

\* writeBlockWithState of a valid block on a parent with state, up to the
\* fork choice: the new states are valid and the goal, if any, is the block.
LEMMA WriteStateKeeps ==
  ASSUME IInv, op' = "import", phase' = "main", goal = NoBlock,
         NEW b \in Blocks \ {Genesis},
         HasState(Parent[b]), ~ProcessFails(b),
         WriteBlockWithState(b), UNCHANGED doomed, doomed = {}
  PROVE  /\ stored' \subseteq Blocks /\ committed' \subseteq Blocks /\ triegc' \subseteq Blocks
         /\ goal' \in (Blocks \ {Genesis}) \cup {NoBlock} /\ swept' \in BOOLEAN
         /\ OpShape' /\ StatesValid'
         /\ HeadIndexed' /\ HeadersOnBranch' /\ HeadValid'
<1>1. UNCHANGED <<canonical, currentBlock, currentHeader, currentFastBlock>>
  BY DEF WriteBlockWithState
<1>2. Ancestors[b] \cap Invalid = {}
  <2>1. Ancestors[Parent[b]] \cap Invalid = {}
    BY DEF IInv, StatesValid, HasState
  <2>2. QED
    BY <2>1, ParentFacts DEF ProcessFails
<1>3. committed' \cup triegc' \subseteq committed \cup triegc \cup {b}
  BY DEF WriteBlockWithState, CollectGarbage
<1>4. stored' \subseteq Blocks /\ committed' \subseteq Blocks /\ triegc' \subseteq Blocks
  BY <1>3 DEF IInv, TypeOK, WriteBlockWithState
<1>5. CASE Adopt(b)
  <2>1. /\ goal' = b /\ goal' # NoBlock /\ swept' \in BOOLEAN
        /\ swept' => NewChain' \subseteq {goal'}
    BY <1>1, <1>5, AdoptFacts
  <2>2. OpShape'
    BY <2>1 DEF OpShape
  <2>3. StatesValid'
    BY <1>2, <1>3, <2>1 DEF IInv, StatesValid
  <2>4. QED
    BY <1>1, <1>4, <2>1, <2>2, <2>3, HeadsAlone DEF IInv
<1>6. CASE KeepHead
  <2>1. goal' = NoBlock /\ swept' \in BOOLEAN
    BY <1>6 DEF KeepHead, IInv, TypeOK
  <2>2. OpShape'
    BY <2>1 DEF OpShape
  <2>3. StatesValid'
    BY <1>2, <1>3, <2>1 DEF IInv, StatesValid
  <2>4. QED
    BY <1>1, <1>4, <2>1, <2>2, <2>3, HeadsAlone DEF IInv
<1>7. QED
  BY <1>5, <1>6 DEF WriteBlockWithState

\* Executing the next block of a batch.
LEMMA ProcessBlockKeeps ==
  ASSUME IInv, ProcessBlock
  PROVE  IInv'
<1>1. PICK b \in Offered : /\ ValidateBody(b) = "ok" /\ ~ProcessFails(b)
                           /\ WriteBlockWithState(b)
                           /\ Advance(b, "main")
  BY DEF ProcessBlock
<1>2. b \in Blocks \ {Genesis}
  BY DEF IInv, TypeOK, Offered
<1>3. HasState(Parent[b])
  BY <1>1 DEF ValidateBody, HasBlockAndState
<1>4. op' = "import" /\ phase' = "main" /\ goal = NoBlock /\ UNCHANGED doomed /\ doomed = {}
  BY DEF IInv, OpShape, ProcessBlock, Importing, Advance
<1>5. /\ stored' \subseteq Blocks /\ committed' \subseteq Blocks /\ triegc' \subseteq Blocks
      /\ goal' \in (Blocks \ {Genesis}) \cup {NoBlock} /\ swept' \in BOOLEAN
      /\ OpShape' /\ StatesValid'
      /\ HeadIndexed' /\ HeadersOnBranch' /\ HeadValid'
  BY <1>1, <1>2, <1>3, <1>4, WriteStateKeeps
<1>6. TypeOK'
  BY <1>1, <1>5 DEF IInv, TypeOK, ProcessBlock, Advance, WriteBlockWithState
<1>7. QED
  BY <1>5, <1>6 DEF IInv

\* Writing a block of the local miner.
LEMMA WriteMinedKeeps ==
  ASSUME IInv, NEW b \in Blocks \ {Genesis}, WriteMinedBlock(b)
  PROVE  IInv'
<1>1. op' = "import" /\ phase' = "main" /\ goal = NoBlock /\ UNCHANGED doomed /\ doomed = {}
  BY DEF IInv, OpShape, WriteMinedBlock
<1>2. HasState(Parent[b]) /\ ~ProcessFails(b) /\ WriteBlockWithState(b)
  BY DEF WriteMinedBlock, HasBlockAndState
<1>3. /\ stored' \subseteq Blocks /\ committed' \subseteq Blocks /\ triegc' \subseteq Blocks
      /\ goal' \in (Blocks \ {Genesis}) \cup {NoBlock} /\ swept' \in BOOLEAN
      /\ OpShape' /\ StatesValid'
      /\ HeadIndexed' /\ HeadersOnBranch' /\ HeadValid'
  BY <1>1, <1>2, WriteStateKeeps
<1>4. TypeOK'
  BY <1>3 DEF IInv, TypeOK, WriteMinedBlock, WriteBlockWithState
<1>5. QED
  BY <1>3, <1>4 DEF IInv

\* Storing a block without state changes no head.
LEMMA WriteSideKeeps ==
  ASSUME IInv, WriteSideBlock
  PROVE  IInv'
<1>1. PICK b \in Offered : stored' = stored \cup {b} /\ last' = b /\ Advance(b, "side")
  BY DEF WriteSideBlock
<1>2. b \in Blocks
  BY DEF IInv, TypeOK, Offered
<1>3. TypeOK'
  BY <1>1, <1>2 DEF IInv, TypeOK, WriteSideBlock, Advance
<1>4. OpShape' /\ StatesValid'
  BY <1>1, <1>2 DEF IInv, OpShape, StatesValid, NewChain, WriteSideBlock, Importing
<1>5. QED
  BY <1>3, <1>4, HeadsAlone DEF IInv, WriteSideBlock

\* Importing a side chain again only refills the batch.
LEMMA ReimportKeeps ==
  ASSUME IInv, ReimportSideChain
  PROVE  IInv'
<1>1. chain' \subseteq Blocks \ {Genesis}
  <2>1. PICK a \in Stateful(last) : chain' = Ancestors[last] \ Ancestors[a]
    BY DEF ReimportSideChain
  <2>2. CASE last \in Blocks
    <3>1. a \in Ancestors[last]
      BY <2>1 DEF Stateful
    <3>2. a \in Blocks /\ Ancestors[last] \subseteq Blocks
      BY <2>2, <3>1, AncestorFacts
    <3>3. QED
      BY <2>1, <3>2, TreeAssumption
  <2>3. QED
    BY <2>2 DEF IInv, OpShape, ReimportSideChain, Importing
<1>2. TypeOK'
  BY <1>1 DEF IInv, TypeOK, ReimportSideChain, disk
<1>3. OpShape' /\ StatesValid'
  BY DEF IInv, OpShape, StatesValid, NewChain, ReimportSideChain, Importing, disk
<1>4. QED
  BY <1>2, <1>3, HeadsAlone DEF IInv, ReimportSideChain, disk

\* Releasing chainmu clears the operation.
LEMMA FinishKeeps ==
  ASSUME TypeOK, StatesValid, Finish
  PROVE  /\ OpShape'
         /\ op' = "none" /\ phase' = "none" /\ chain' = {} /\ last' = NoBlock
         /\ goal' = NoBlock /\ swept' = FALSE /\ target' \in Heights /\ doomed' = {}
         /\ base' = NoBlock
<1>1. 0 \in Heights
  BY TreeAssumption DEF Heights
<1>2. QED
  BY <1>1 DEF Finish, OpShape

\* The two ends of an import.
LEMMA EndKeeps ==
  ASSUME IInv, EndImport \/ EndSideChain
  PROVE  IInv'
<1>1. Finish /\ UNCHANGED <<disk, triegc>>
  BY DEF EndImport, EndSideChain
<1>2. /\ OpShape'
      /\ op' = "none" /\ phase' = "none" /\ chain' = {} /\ last' = NoBlock
      /\ goal' = NoBlock /\ swept' = FALSE /\ target' \in Heights /\ doomed' = {}
      /\ base' = NoBlock
  BY <1>1, FinishKeeps DEF IInv
<1>3. TypeOK'
  BY Zenon, <1>1, <1>2 DEF IInv, TypeOK, disk
<1>4. StatesValid'
  BY <1>1, <1>2 DEF IInv, StatesValid, disk
<1>5. QED
  BY <1>1, <1>2, <1>3, <1>4, HeadsAlone DEF IInv, disk

-----------------------------------------------------------------------------
(* Reorganisation *)

\* reorg writes a block of the new branch whose parent is canonical.
LEMMA ReorgWriteKeeps ==
  ASSUME IInv, ReorgWriteHead
  PROVE  IInv'
<1>1. PICK b \in NewChain \ {goal} : Parent[b] \in Ancestors[currentBlock] /\ WriteHeadBlock(b)
  BY DEF ReorgWriteHead
<1>2. goal \in Blocks /\ currentBlock \in Blocks /\ goal # NoBlock
  BY DEF ReorgWriteHead, IInv, TypeOK
<1>3. b \in Ancestors[goal] /\ b \in Blocks \ {Genesis}
  BY <1>2, AncestorFacts, TreeAssumption DEF NewChain
<1>4. /\ canonical' \in [Heights -> Blocks \cup {NoBlock}]
      /\ {currentBlock', currentHeader', currentFastBlock'} \subseteq Blocks
      /\ HeadIndexed' /\ HeadersOnBranch'
  BY <1>1, <1>3, WriteHeadKeeps DEF IInv
<1>5. HeadValid'
  <2>1. Ancestors[b] \subseteq Ancestors[goal]
    BY <1>2, <1>3, AncestorFacts
  <2>2. QED
    BY <1>1, <1>2, <2>1 DEF HeadValid, IInv, StatesValid, WriteHeadBlock
<1>6. TypeOK'
  BY <1>4 DEF IInv, TypeOK, ReorgWriteHead, task
<1>7. OpShape' /\ StatesValid'
  BY DEF IInv, OpShape, StatesValid, ReorgWriteHead, task
<1>8. QED
  BY <1>4, <1>5, <1>6, <1>7 DEF IInv

\* Deleting canonical hashes above the head block leaves its branch indexed.
LEMMA ReorgDeleteKeeps ==
  ASSUME IInv, ReorgDeleteIndexes
  PROVE  IInv'
<1>1. /\ canonical' = [n \in Heights |-> IF n \in AboveHead THEN NoBlock ELSE canonical[n]]
      /\ UNCHANGED <<stored, currentBlock, currentHeader, currentFastBlock, committed, triegc>>
      /\ UNCHANGED <<op, phase, chain, last, goal, target, doomed, base>>
      /\ swept' = TRUE /\ NewChain \subseteq {goal}
  BY DEF ReorgDeleteIndexes
<1>2. currentBlock \in Blocks /\ currentHeader \in Blocks /\ Number[currentBlock] \in Nat
  BY TreeAssumption DEF IInv, TypeOK
<1>3. \A n \in AboveHead : n >= Number[currentBlock] + 1
  BY DEF AboveHead, RunFrom, Indexed
<1>4. HeadIndexed'
  <2>1. ASSUME NEW a \in Ancestors[currentBlock]
        PROVE  canonical'[Number[a]] = a
    <3>1. Number[a] \in Heights /\ Number[a] \in Nat /\ Number[a] <= Number[currentBlock]
      BY <1>2, AncestorFacts
    <3>2. Number[a] \notin AboveHead
      BY <1>2, <1>3, <3>1
    <3>3. QED
      BY <1>1, <3>1, <3>2 DEF IInv, HeadIndexed
  <2>2. QED
    BY <1>1, <2>1 DEF HeadIndexed
<1>5. HeadersOnBranch'
  <2>1. \A a \in Ancestors[currentHeader] : Number[a] \in Heights
    BY <1>2, AncestorFacts
  <2>2. QED
    BY <1>1, <2>1 DEF IInv, HeadersOnBranch
<1>6. TypeOK'
  BY <1>1 DEF IInv, TypeOK
<1>7. OpShape' /\ StatesValid' /\ HeadValid'
  BY <1>1 DEF IInv, OpShape, StatesValid, HeadValid, NewChain
<1>8. QED
  BY <1>4, <1>5, <1>6, <1>7 DEF IInv

\* The new head itself: its parent is on the head's branch by then.
LEMMA SetNewHeadKeeps ==
  ASSUME IInv, SetNewHead
  PROVE  IInv'
<1>1. goal \in Blocks \ {Genesis} /\ goal # NoBlock /\ swept /\ WriteHeadBlock(goal)
  BY DEF SetNewHead, IInv, TypeOK
<1>2. Parent[goal] \in Ancestors[currentBlock]
  <2>1. Parent[goal] \in Ancestors[goal] /\ Parent[goal] # goal
    BY <1>1, ParentFacts
  <2>2. QED
    BY <1>1, <2>1 DEF IInv, OpShape, NewChain
<1>3. /\ canonical' \in [Heights -> Blocks \cup {NoBlock}]
      /\ {currentBlock', currentHeader', currentFastBlock'} \subseteq Blocks
      /\ HeadIndexed' /\ HeadersOnBranch'
  BY <1>1, <1>2, WriteHeadKeeps DEF IInv
<1>4. HeadValid'
  BY <1>1 DEF HeadValid, IInv, StatesValid, WriteHeadBlock
<1>5. TypeOK'
  BY Zenon, <1>3 DEF IInv, TypeOK, SetNewHead
<1>6. OpShape' /\ StatesValid'
  BY <1>1 DEF IInv, OpShape, StatesValid, SetNewHead
<1>7. QED
  BY <1>3, <1>4, <1>5, <1>6 DEF IInv

-----------------------------------------------------------------------------
(* Rewinding and restarting *)

\* SetHead to the head's own number can only move the head down its branch.
LEMMA RepairKeeps ==
  ASSUME IInv, SetHeadRepair
  PROVE  IInv'
<1>1. currentBlock \in Blocks /\ currentFastBlock \in Blocks /\ Number[currentBlock] \in Nat
  BY TreeAssumption DEF IInv, TypeOK
<1>2. currentBlock' \in Ancestors[currentBlock] /\ currentFastBlock' \in Blocks
  BY <1>1 DEF SetHeadRepair, UpdateHeadBlocks, Stateful
<1>3. /\ currentBlock' \in Blocks
      /\ HeadIndexed' /\ HeadersOnBranch' /\ HeadValid'
  BY <1>2, RetreatKeeps DEF IInv, SetHeadRepair
<1>4. TypeOK'
  BY <1>2, <1>3 DEF IInv, TypeOK, SetHeadRepair, task
<1>5. OpShape' /\ StatesValid'
  BY DEF IInv, OpShape, StatesValid, SetHeadRepair, task
<1>6. QED
  BY <1>3, <1>4, <1>5 DEF IInv

\* SetHead only takes the lock.
LEMMA SetHeadKeeps ==
  ASSUME IInv, NEW n \in Heights, SetHead(n)
  PROVE  IInv'
<1>1. TypeOK'
  BY DEF IInv, TypeOK, SetHead, disk
<1>2. OpShape' /\ StatesValid'
  BY DEF IInv, OpShape, StatesValid, NewChain, SetHead, disk
<1>3. QED
  BY <1>1, <1>2, HeadsAlone DEF IInv, SetHead, disk

\* One iteration of the rewind: the parent header is on the head's branch, or
\* the head block is already below it, and what is to be deleted is above.
LEMMA RewindKeeps ==
  ASSUME IInv, RewindHeader
  PROVE  IInv'
<1> DEFINE h == currentHeader
           p == Parent[h]
           c == currentBlock
<1>1. /\ h \in Blocks /\ c \in Blocks /\ currentFastBlock \in Blocks /\ target \in Nat
      /\ Number[h] \in Nat /\ Number[c] \in Nat
  BY NumberFacts DEF IInv, TypeOK
<1>2. h # Genesis
  BY <1>1, TreeAssumption DEF RewindHeader, TargetReached
<1>3. /\ p \in Blocks /\ Number[h] = Number[p] + 1 /\ Number[p] \in Nat
      /\ Ancestors[h] = {h} \cup Ancestors[p] /\ p \in Ancestors[p]
  BY <1>1, <1>2, ParentFacts
<1>4. currentHeader' = p /\ UNCHANGED canonical
  BY DEF RewindHeader
<1>5. currentFastBlock' \in Blocks
  BY <1>1, <1>3 DEF RewindHeader, UpdateHeadBlocks
<1>6. doomed' = doomed \cup Doom(h)
  BY DEF RewindHeader
<1>7. \A n \in Doom(h) : n \in Heights /\ n >= Number[h]
  <2>1. Heights \subseteq Nat /\ Number[h] \in Heights
    BY <1>1, TreeAssumption DEF Heights
  <2>2. \A n \in Doom(h) : n = Number[h] \/ (n \in Heights /\ n >= Number[h] + 1)
    BY DEF Doom, RunFrom, Populated
  <2>3. ASSUME NEW n \in Doom(h)
        PROVE  n \in Heights /\ n >= Number[h]
    <3>1. n \in Nat /\ n \in Heights
      BY Zenon, <2>1, <2>2
    <3>2. n = Number[h] \/ n >= Number[h] + 1
      BY <2>2
    <3>3. QED
      BY <1>1, <3>1, <3>2
  <2>4. QED
    BY <2>3
<1>8. \A a \in Ancestors[p] : canonical[Number[a]] \in {a, NoBlock}
  BY <1>3 DEF IInv, HeadersOnBranch
<1>9. CASE Number[p] <= Number[c]
  <2>1. currentBlock' \in Ancestors[p]
    BY <1>9 DEF RewindHeader, UpdateHeadBlocks, Stateful
  <2>2. p \in Ancestors[c]
    <3>1. CASE h \in Ancestors[c]
      BY <1>1, <1>3, <3>1, AncestorFacts
    <3>2. CASE c \in Ancestors[h]
      <4>1. CASE c = h
        BY <1>3, <4>1
      <4>2. CASE c \in Ancestors[p]
        <5>1. Number[c] <= Number[p]
          BY <1>3, <4>2, AncestorFacts
        <5>2. c = p
          BY <1>1, <1>3, <1>9, <4>2, <5>1, AncestorsUnique
        <5>3. QED
          BY <1>3, <5>2
      <4>3. QED
        BY <1>3, <3>2, <4>1, <4>2
    <3>3. QED
      BY <3>1, <3>2 DEF IInv, HeadersOnBranch
  <2>3. currentBlock' \in Blocks /\ Ancestors[currentBlock'] \subseteq Ancestors[c]
        /\ Number[currentBlock'] \in Nat /\ Number[currentBlock'] <= Number[p]
    BY <1>1, <1>3, <2>1, <2>2, AncestorFacts
  <2>4. HeadIndexed' /\ HeadValid'
    BY <1>4, <2>3 DEF IInv, HeadIndexed, HeadValid
  <2>5. HeadersOnBranch'
    BY <1>4, <1>8, <2>1 DEF HeadersOnBranch
  <2>6. \A n \in doomed' : n > Number[currentHeader'] /\ n > Number[currentBlock']
    <3>1. \A n \in doomed : n \in Nat /\ n > Number[h]
      BY NumberFacts DEF IInv, OpShape, TypeOK
    <3>2. \A n \in Doom(h) : n \in Nat /\ n >= Number[h]
      BY Zenon, <1>7, NumberFacts
    <3>3. QED
      BY <1>1, <1>3, <1>4, <1>6, <2>3, <3>1, <3>2
  <2>7. OpShape' /\ StatesValid'
    BY <2>6 DEF IInv, OpShape, StatesValid, RewindHeader
  <2>8. TypeOK'
    BY <1>3, <1>4, <1>5, <1>6, <1>7, <2>3 DEF IInv, TypeOK, RewindHeader
  <2>9. QED
    BY <2>4, <2>5, <2>7, <2>8 DEF IInv
<1>10. CASE ~(Number[p] <= Number[c])
  <2>1. currentBlock' = c
    BY <1>10 DEF RewindHeader, UpdateHeadBlocks
  <2>2. HeadIndexed' /\ HeadValid'
    BY <1>4, <2>1 DEF IInv, HeadIndexed, HeadValid
  <2>3. c \in Ancestors[p]
    <3>1. CASE h \in Ancestors[c]
      BY <1>1, <1>3, <1>10, <3>1, AncestorFacts
    <3>2. CASE c \in Ancestors[h]
      BY <1>1, <1>3, <1>10, <3>2
    <3>3. QED
      BY <3>1, <3>2 DEF IInv, HeadersOnBranch
  <2>4. HeadersOnBranch'
    BY <1>4, <1>8, <2>1, <2>3 DEF HeadersOnBranch
  <2>5. \A n \in doomed' : n > Number[currentHeader'] /\ n > Number[currentBlock']
    <3>1. \A n \in doomed : n \in Nat /\ n > Number[h]
      BY NumberFacts DEF IInv, OpShape, TypeOK
    <3>2. \A n \in Doom(h) : n \in Nat /\ n >= Number[h]
      BY Zenon, <1>7, NumberFacts
    <3>3. QED
      BY <1>1, <1>3, <1>4, <1>6, <1>10, <2>1, <3>1, <3>2
  <2>6. OpShape' /\ StatesValid'
    BY <2>5 DEF IInv, OpShape, StatesValid, RewindHeader
  <2>7. TypeOK'
    BY Zenon, <1>1, <1>3, <1>4, <1>5, <1>6, <1>7, <2>1 DEF IInv, TypeOK, RewindHeader
  <2>8. QED
    BY <2>2, <2>4, <2>6, <2>7 DEF IInv
<1>11. QED
  BY <1>9, <1>10

\* The deletions reach no height of either head's branch.
LEMMA FlushKeeps ==
  ASSUME IInv, FlushRewind
  PROVE  IInv'
<1>1. /\ canonical' = [n \in Heights |-> IF n \in doomed THEN NoBlock ELSE canonical[n]]
      /\ UNCHANGED <<currentBlock, currentHeader, currentFastBlock, committed, triegc>>
      /\ stored' \subseteq stored /\ Finish
  BY DEF FlushRewind
<1>2. /\ currentBlock \in Blocks /\ currentHeader \in Blocks
      /\ Number[currentBlock] \in Nat /\ doomed \subseteq Nat
  BY NumberFacts DEF IInv, TypeOK
<1>3. \A a \in Ancestors[currentBlock] : /\ Number[a] \in Heights /\ Number[a] \in Nat
                                         /\ Number[a] <= Number[currentBlock]
  BY <1>2, AncestorFacts
<1>4. \A a \in Ancestors[currentBlock] : Number[a] \notin doomed
  BY <1>2, <1>3 DEF IInv, OpShape
<1>5. HeadIndexed' /\ HeadValid'
  BY <1>1, <1>3, <1>4 DEF IInv, HeadIndexed, HeadValid
<1>6. HeadersOnBranch'
  <2>1. \A a \in Ancestors[currentHeader] : Number[a] \in Heights
    BY <1>2, AncestorFacts
  <2>2. QED
    BY <1>1, <2>1 DEF IInv, HeadersOnBranch
<1>7. /\ OpShape'
      /\ op' = "none" /\ phase' = "none" /\ chain' = {} /\ last' = NoBlock
      /\ goal' = NoBlock /\ swept' = FALSE /\ target' \in Heights /\ doomed' = {}
      /\ base' = NoBlock
  BY <1>1, FinishKeeps DEF IInv
<1>8. TypeOK'
  BY Zenon, <1>1, <1>7 DEF IInv, TypeOK
<1>9. StatesValid'
  BY <1>1, <1>7 DEF IInv, StatesValid
<1>10. QED
  BY <1>5, <1>6, <1>7, <1>8, <1>9 DEF IInv

\* Starting up with the saved states: the head can only fall back.
LEMMA StartKeeps ==
  ASSUME IInv, NEW saved, saved \subseteq committed \cup triegc, NewBlockChain(saved)
  PROVE  IInv'
<1>1. /\ committed' = saved /\ triegc' = {} /\ Finish
      /\ UNCHANGED <<stored, canonical, currentHeader>>
  BY DEF NewBlockChain
<1>2. currentBlock \in Blocks /\ currentFastBlock \in Blocks
  BY DEF IInv, TypeOK
<1>3. currentBlock' \in Ancestors[currentBlock] /\ currentFastBlock' \in Blocks
  BY <1>2, TreeAssumption DEF NewBlockChain
<1>4. /\ currentBlock' \in Blocks
      /\ HeadIndexed' /\ HeadersOnBranch' /\ HeadValid'
  BY <1>1, <1>3, RetreatKeeps DEF IInv
<1>5. /\ OpShape'
      /\ op' = "none" /\ phase' = "none" /\ chain' = {} /\ last' = NoBlock
      /\ goal' = NoBlock /\ swept' = FALSE /\ target' \in Heights /\ doomed' = {}
      /\ base' = NoBlock
  BY <1>1, FinishKeeps DEF IInv
<1>6. TypeOK'
  BY Zenon, <1>1, <1>3, <1>4, <1>5 DEF IInv, TypeOK
<1>7. StatesValid'
  BY <1>1, <1>5 DEF IInv, StatesValid
<1>8. QED
  BY <1>4, <1>5, <1>6, <1>7 DEF IInv

-----------------------------------------------------------------------------
(* Storage and states *)

\* Ancestors of a stored block are stored blocks of lower numbers.
LEMMA StoredFacts ==
  ASSUME IInv, SInv, NEW b \in stored
  PROVE  /\ b \in Blocks /\ Number[b] \in Nat /\ Number[b] \in Heights
         /\ Ancestors[b] \subseteq stored
BY NumberFacts DEF IInv, TypeOK, SInv, ChainUnbroken, Heights

\* Steps that touch neither the database nor the states.
LEMMA StorageAlone ==
  ASSUME SInv, UNCHANGED <<disk, triegc, goal>>, doomed' \in {doomed, {}}
  PROVE  SInv'
<1>1. UNCHANGED <<stored, canonical, currentBlock, currentHeader, currentFastBlock,
                  committed, triegc, goal>>
  BY DEF disk
<1>2. ChainUnbroken'
  BY <1>1 DEF SInv, ChainUnbroken
<1>3. StorageShape'
  BY <1>1 DEF SInv, StorageShape, HasBlockAndState, HasState
<1>4. HeadOpens'
  BY <1>1 DEF SInv, HeadOpens, HasState
<1>5. QED
  BY <1>2, <1>3, <1>4 DEF SInv

\* A known block that becomes the goal is stored with its state.
LEMMA WriteKnownStores ==
  ASSUME IInv, SInv, WriteKnownBlock
  PROVE  SInv'
<1>1. PICK b \in Offered : ValidateBody(b) = "known" /\ Adopt(b)
  BY DEF WriteKnownBlock
<1>2. HasBlockAndState(b) /\ goal' = b
  BY <1>1 DEF ValidateBody, Adopt
<1>3. b # NoBlock
  BY TreeAssumption DEF IInv, TypeOK, Offered
<1>4. UNCHANGED <<stored, canonical, currentBlock, currentHeader, currentFastBlock,
                  committed, triegc, doomed>>
  BY DEF WriteKnownBlock, disk
<1>5. ChainUnbroken'
  BY <1>4 DEF SInv, ChainUnbroken
<1>6. StorageShape'
  BY <1>2, <1>4 DEF SInv, StorageShape, HasBlockAndState, HasState
<1>7. HeadOpens'
  BY <1>2, <1>3 DEF HeadOpens
<1>8. QED
  BY <1>5, <1>6, <1>7 DEF SInv

\* A block joins the database only when its parent is there.
LEMMA StoreChild ==
  ASSUME IInv, SInv, NEW b \in Blocks \ {Genesis}, Parent[b] \in stored,
         stored' = stored \cup {b},
         UNCHANGED <<canonical, currentBlock, currentHeader, currentFastBlock>>
  PROVE  ChainUnbroken'
<1>1. Ancestors[b] \subseteq stored'
  <2>1. Ancestors[b] = {b} \cup Ancestors[Parent[b]]
    BY ParentFacts
  <2>2. Ancestors[Parent[b]] \subseteq stored
    BY StoredFacts
  <2>3. QED
    BY <2>1, <2>2
<1>2. \A x \in stored' : Ancestors[x] \subseteq stored'
  BY <1>1 DEF SInv, ChainUnbroken
<1>3. QED
  BY <1>2 DEF SInv, ChainUnbroken

\* What writeBlockWithState does to the states in memory: the new block has
\* one, and a block that loses its state lies TriesInMemory below the new one.
LEMMA CollectFacts ==
  ASSUME IInv, NEW b \in Blocks, CollectGarbage(b)
  PROVE  /\ b \in triegc' /\ committed \subseteq committed'
         /\ \A x \in triegc : x \in triegc' \/ Number[b] >= Number[x] + TriesInMemory
<1>1. /\ Number[b] \in Nat /\ TriesInMemory \in Nat /\ TriesInMemory > 0
      /\ \A x \in triegc : Number[x] \in Nat
  BY NumberFacts, TriesAssumption DEF IInv, TypeOK
<1>2. committed \subseteq committed'
  BY DEF CollectGarbage
<1>3. CASE Chosen(b) <= 0
  <2>1. triegc' = triegc \cup {b}
    BY <1>1, <1>3 DEF CollectGarbage, Chosen
  <2>2. QED
    BY <1>2, <2>1
<1>4. CASE Chosen(b) > 0
  <2>1. triegc' = {x \in triegc \cup {b} : Number[x] > Chosen(b)}
    BY <1>1, <1>4 DEF CollectGarbage, Chosen
  <2>2. Number[b] > Chosen(b)
    BY <1>1 DEF Chosen
  <2>3. \A x \in triegc : ~(Number[x] > Chosen(b)) => Number[b] >= Number[x] + TriesInMemory
    BY <1>1 DEF Chosen
  <2>4. QED
    BY <1>2, <2>1, <2>2, <2>3
<1>5. QED
  BY <1>1, <1>3, <1>4 DEF Chosen

\* writeBlockWithState stores a block and its state on a stored parent.
LEMMA WriteStateStores ==
  ASSUME IInv, SInv, goal = NoBlock, doomed' = {},
         NEW b \in Blocks \ {Genesis}, Parent[b] \in stored,
         WriteBlockWithState(b)
  PROVE  SInv'
<1>1. /\ stored' = stored \cup {b}
      /\ UNCHANGED <<canonical, currentBlock, currentHeader, currentFastBlock>>
      /\ CollectGarbage(b)
      /\ goal' \in {b, NoBlock}
  BY DEF WriteBlockWithState, Adopt, KeepHead
<1>2. /\ b \in triegc' /\ committed \subseteq committed'
      /\ \A x \in triegc : x \in triegc' \/ Number[b] >= Number[x] + TriesInMemory
  BY <1>1, CollectFacts
<1>3. ChainUnbroken'
  BY <1>1, StoreChild
<1>4. StorageShape'
  BY <1>1, <1>2 DEF SInv, StorageShape, HasBlockAndState, HasState
<1>5. HeadOpens'
  <2>1. /\ Number[b] \in Nat /\ TriesInMemory \in Nat /\ Number[currentBlock] \in Nat
        /\ \A x \in triegc : Number[x] \in Nat
    BY NumberFacts, TriesAssumption DEF IInv, TypeOK
  <2>2. CASE currentBlock \in committed
    BY <1>1, <1>2, <2>2 DEF HeadOpens, HasState
  <2>3. CASE currentBlock \in triegc
    BY <1>1, <1>2, <2>3 DEF HeadOpens, HasState
  <2>4. CASE \E x \in triegc : Number[x] >= Number[currentBlock] + TriesInMemory
    <3>1. PICK x \in triegc : Number[x] >= Number[currentBlock] + TriesInMemory
      BY <2>4
    <3>2. x \in triegc' \/ Number[b] >= Number[x] + TriesInMemory
      BY <1>2
    <3>3. \A i, j, k, t \in Nat : i >= j + t /\ j >= k + t => i >= k + t
      OBVIOUS
    <3>4. x \in triegc' \/ Number[b] >= Number[currentBlock] + TriesInMemory
      BY <2>1, <3>1, <3>2, <3>3
    <3>5. QED
      BY <1>1, <1>2, <3>1, <3>4 DEF HeadOpens
  <2>5. QED
    BY <2>2, <2>3, <2>4 DEF SInv, HeadOpens, HasState
<1>6. QED
  BY <1>3, <1>4, <1>5 DEF SInv

\* Executing the next block of a batch.
LEMMA ProcessBlockStores ==
  ASSUME IInv, SInv, ProcessBlock
  PROVE  SInv'
<1>1. PICK b \in Offered : ValidateBody(b) = "ok" /\ WriteBlockWithState(b)
  BY DEF ProcessBlock
<1>2. b \in Blocks \ {Genesis}
  BY DEF IInv, TypeOK, Offered
<1>3. Parent[b] \in stored
  BY <1>1 DEF ValidateBody, HasBlockAndState
<1>4. goal = NoBlock /\ doomed' = {}
  BY DEF IInv, OpShape, ProcessBlock, Importing
<1>5. QED
  BY <1>1, <1>2, <1>3, <1>4, WriteStateStores

\* Writing a block of the local miner.
LEMMA WriteMinedStores ==
  ASSUME IInv, SInv, NEW b \in Blocks \ {Genesis}, WriteMinedBlock(b)
  PROVE  SInv'
<1>1. goal = NoBlock /\ doomed' = {}
  BY DEF IInv, OpShape, WriteMinedBlock
<1>2. Parent[b] \in stored /\ WriteBlockWithState(b)
  BY DEF WriteMinedBlock, HasBlockAndState
<1>3. QED
  BY <1>1, <1>2, WriteStateStores

\* insertSideChain stores a block without state, on a stored parent.
LEMMA WriteSideStores ==
  ASSUME IInv, SInv, WriteSideBlock
  PROVE  SInv'
<1>1. PICK b \in Offered : ValidateBody(b) = "pruned" /\ stored' = stored \cup {b}
  BY DEF WriteSideBlock
<1>2. b \in Blocks \ {Genesis}
  BY DEF IInv, TypeOK, Offered
<1>3. Parent[b] \in stored
  BY <1>1 DEF ValidateBody
<1>4. /\ UNCHANGED <<canonical, currentBlock, currentHeader, currentFastBlock>>
      /\ UNCHANGED <<committed, triegc, goal, doomed>> /\ doomed = {}
  BY DEF IInv, OpShape, WriteSideBlock, Importing
<1>5. ChainUnbroken'
  BY <1>1, <1>2, <1>3, <1>4, StoreChild
<1>6. StorageShape'
  BY <1>1, <1>4 DEF SInv, StorageShape, HasBlockAndState, HasState
<1>7. HeadOpens'
  BY <1>4 DEF SInv, HeadOpens, HasState
<1>8. QED
  BY <1>5, <1>6, <1>7 DEF SInv

\* writeHeadBlock of a stored block: heads and index name stored blocks.
LEMMA WriteHeadStores ==
  ASSUME IInv, SInv, NEW b \in stored, WriteHeadBlock(b), UNCHANGED stored
  PROVE  /\ ChainUnbroken'
         /\ \A n \in Heights : canonical'[n] # NoBlock => Number[canonical'[n]] = n
<1>1. canonical \in [Heights -> Blocks \cup {NoBlock}] /\ Number[b] \in Heights
  BY StoredFacts DEF IInv, TypeOK
<1>2. canonical' = [canonical EXCEPT ![Number[b]] = b]
  BY DEF WriteHeadBlock
<1>3. {currentBlock', currentHeader', currentFastBlock'} \subseteq stored
  BY DEF WriteHeadBlock, SInv, ChainUnbroken
<1>4. \A n \in Heights : canonical'[n] \in {b, canonical[n]}
  BY <1>1, <1>2
<1>5. ChainUnbroken'
  BY <1>3, <1>4 DEF SInv, ChainUnbroken
<1>6. \A n \in Heights : canonical'[n] # NoBlock => Number[canonical'[n]] = n
  BY <1>1, <1>2 DEF SInv, StorageShape
<1>7. QED
  BY <1>5, <1>6

\* reorg moves the head through ancestors of the goal, all of them stored.
LEMMA ReorgWriteStores ==
  ASSUME IInv, SInv, ReorgWriteHead
  PROVE  SInv'
<1>1. PICK b \in NewChain \ {goal} : WriteHeadBlock(b)
  BY DEF ReorgWriteHead
<1>2. /\ goal # NoBlock /\ goal \in stored
      /\ UNCHANGED <<stored, committed, triegc, goal, doomed>> /\ doomed = {}
  BY DEF ReorgWriteHead, task, IInv, OpShape, SInv, StorageShape, HasBlockAndState
<1>3. b \in stored
  BY <1>2, StoredFacts DEF NewChain
<1>4. /\ ChainUnbroken'
      /\ \A n \in Heights : canonical'[n] # NoBlock => Number[canonical'[n]] = n
  BY <1>1, <1>2, <1>3, WriteHeadStores
<1>5. StorageShape'
  BY <1>2, <1>4 DEF SInv, StorageShape, HasBlockAndState, HasState
<1>6. HeadOpens'
  BY <1>2 DEF HeadOpens
<1>7. QED
  BY <1>4, <1>5, <1>6 DEF SInv

\* reorg's last batch only removes index entries.
LEMMA ReorgDeleteStores ==
  ASSUME IInv, SInv, ReorgDeleteIndexes
  PROVE  SInv'
<1>1. /\ canonical' = [n \in Heights |-> IF n \in AboveHead THEN NoBlock ELSE canonical[n]]
      /\ UNCHANGED <<stored, currentBlock, currentHeader, currentFastBlock, committed, triegc,
                     goal, doomed>>
      /\ goal # NoBlock
  BY DEF ReorgDeleteIndexes
<1>2. \A n \in Heights : canonical'[n] \in {NoBlock, canonical[n]}
  BY <1>1
<1>3. ChainUnbroken'
  BY <1>1, <1>2 DEF SInv, ChainUnbroken
<1>4. StorageShape'
  BY <1>1, <1>2 DEF SInv, StorageShape, HasBlockAndState, HasState
<1>5. HeadOpens'
  BY <1>1 DEF HeadOpens
<1>6. QED
  BY <1>3, <1>4, <1>5 DEF SInv

\* The head that ends a reorganisation has its state.
LEMMA SetNewHeadStores ==
  ASSUME IInv, SInv, SetNewHead
  PROVE  SInv'
<1>1. /\ goal # NoBlock /\ WriteHeadBlock(goal) /\ goal' = NoBlock
      /\ UNCHANGED <<stored, committed, triegc, doomed>>
      /\ goal \in stored /\ HasState(goal) /\ doomed = {}
  BY DEF SetNewHead, IInv, OpShape, SInv, StorageShape, HasBlockAndState
<1>2. /\ ChainUnbroken'
      /\ \A n \in Heights : canonical'[n] # NoBlock => Number[canonical'[n]] = n
  BY <1>1, WriteHeadStores
<1>3. StorageShape'
  BY <1>1, <1>2 DEF StorageShape
<1>4. HeadOpens'
  BY <1>1 DEF HeadOpens, HasState, WriteHeadBlock
<1>5. QED
  BY <1>2, <1>3, <1>4 DEF SInv

\* SetHead to the head's own number leaves the head where a state is.
LEMMA RepairStores ==
  ASSUME IInv, SInv, SetHeadRepair
  PROVE  SInv'
<1>1. currentBlock \in Blocks /\ Number[currentBlock] \in Nat
  BY NumberFacts DEF IInv, TypeOK
<1>2. /\ UNCHANGED <<stored, canonical, currentHeader, committed, triegc, goal, doomed>>
      /\ goal = NoBlock /\ doomed = {}
  BY DEF SetHeadRepair, task, IInv, OpShape
<1>3. currentBlock' \in Ancestors[currentBlock] /\ HasState(currentBlock')
  BY <1>1 DEF SetHeadRepair, UpdateHeadBlocks, Stateful
<1>4. currentFastBlock' \in {currentBlock, currentFastBlock}
  BY DEF SetHeadRepair, UpdateHeadBlocks
<1>5. Ancestors[currentBlock] \subseteq stored
  BY DEF SInv, ChainUnbroken
<1>6. ChainUnbroken'
  BY <1>2, <1>3, <1>4, <1>5 DEF SInv, ChainUnbroken
<1>7. StorageShape'
  BY <1>2 DEF SInv, StorageShape
<1>8. HeadOpens'
  BY <1>2, <1>3 DEF HeadOpens, HasState
<1>9. QED
  BY <1>6, <1>7, <1>8 DEF SInv

\* The heights above a header that hold a block form one contiguous run, so
\* the first iteration of SetHead finds them all.
LEMMA RunReachesAll ==
  ASSUME IInv, SInv, NEW h \in Blocks, NEW b \in stored, Number[b] > Number[h]
  PROVE  Number[b] \in RunFrom(Number[h] + 1, Populated)
<1>1. /\ b \in Blocks /\ Number[b] \in Nat /\ Number[h] \in Nat
      /\ Number[b] \in Populated
  BY StoredFacts, NumberFacts DEF Populated
<1>2. ASSUME NEW m \in (Number[h] + 1)..Number[b]
      PROVE  m \in Populated
  <2>1. m \in 0..Number[b]
    BY <1>1
  <2>2. PICK a \in Ancestors[b] : Number[a] = m
    BY <1>1, <2>1, TreeAssumption
  <2>3. a \in stored
    BY StoredFacts
  <2>4. QED
    BY <2>2, <2>3, StoredFacts DEF Populated
<1>3. Number[b] >= Number[h] + 1
  BY <1>1
<1>4. QED
  BY <1>1, <1>2, <1>3 DEF RunFrom

\* One iteration of the rewind.
LEMMA RewindStores ==
  ASSUME IInv, SInv, RewindHeader
  PROVE  SInv'
<1> DEFINE h == currentHeader
           p == Parent[h]
<1>1. /\ h \in Blocks /\ h \in stored /\ target \in Nat /\ Number[h] \in Nat
      /\ currentFastBlock \in Blocks /\ Number[currentFastBlock] \in Nat
  BY NumberFacts DEF IInv, TypeOK, SInv, ChainUnbroken
<1>2. h # Genesis
  BY <1>1, TreeAssumption DEF RewindHeader, TargetReached
<1>3. /\ p \in Blocks /\ Number[h] = Number[p] + 1 /\ Number[p] \in Nat /\ p \in Ancestors[h]
  BY <1>1, <1>2, ParentFacts
<1>4. /\ UNCHANGED <<stored, canonical, committed, triegc, goal>>
      /\ goal = NoBlock /\ currentHeader' = p /\ doomed' = doomed \cup Doom(h)
  BY Zenon DEF RewindHeader, IInv, OpShape
<1>5. p \in stored /\ Ancestors[p] \subseteq stored
  BY <1>1, <1>3, StoredFacts DEF SInv, ChainUnbroken
<1>6. \/ currentBlock' \in Ancestors[p] /\ HasState(currentBlock')
      \/ currentBlock' = currentBlock
  BY DEF RewindHeader, UpdateHeadBlocks, Stateful
<1>7. currentFastBlock' \in {p, currentFastBlock} /\ Number[currentFastBlock'] <= Number[p]
  <2>1. currentFastBlock' = IF Number[p] < Number[currentFastBlock] THEN p ELSE currentFastBlock
    BY DEF RewindHeader, UpdateHeadBlocks
  <2>2. QED
    BY <1>1, <1>3, <2>1
<1>8. ChainUnbroken'
  BY <1>4, <1>5, <1>6, <1>7 DEF SInv, ChainUnbroken
<1>9. ASSUME NEW b \in stored, Number[b] > Number[p]
      PROVE  Number[b] \in doomed'
  <2>1. Number[b] \in Nat
    BY StoredFacts
  <2>2. CASE Number[b] = Number[h]
    BY <1>4, <2>2 DEF Doom
  <2>3. CASE Number[b] > Number[h] /\ doomed = {}
    BY <1>1, <1>4, <2>3, RunReachesAll DEF Doom
  <2>4. CASE Number[b] > Number[h] /\ doomed # {}
    BY <1>4, <2>4 DEF SInv, StorageShape
  <2>5. QED
    BY <1>1, <1>3, <1>9, <2>1, <2>2, <2>3, <2>4
<1>10. StorageShape'
  BY <1>4, <1>7, <1>9 DEF SInv, StorageShape
<1>11. HeadOpens'
  BY <1>4, <1>6 DEF SInv, HeadOpens, HasState
<1>12. QED
  BY <1>8, <1>10, <1>11 DEF SInv

\* What a flush with a batch leaves lies at or below the header marker.
LEMMA FlushLeaves ==
  ASSUME IInv, SInv, FlushRewind, doomed # {}
  PROVE  /\ \A b \in stored : Number[b] \notin doomed => Number[b] <= Number[currentHeader]
         /\ \A n \in Heights : n > Number[currentHeader] /\ n \notin doomed => canonical[n] = NoBlock
<1>1. Number[currentHeader] \in Nat /\ \A b \in stored : Number[b] \in Nat
  BY NumberFacts, StoredFacts DEF IInv, TypeOK
<1>2. \A b \in stored : Number[b] > Number[currentHeader] => Number[b] \in doomed
  BY DEF SInv, StorageShape
<1>3. \A n \in Heights : canonical[n] # NoBlock => canonical[n] \in stored /\ Number[canonical[n]] = n
  BY DEF SInv, ChainUnbroken, StorageShape
<1>4. \A b \in stored : Number[b] \notin doomed => Number[b] <= Number[currentHeader]
  BY <1>1, <1>2
<1>5. \A n \in Heights : n > Number[currentHeader] /\ n \notin doomed => canonical[n] = NoBlock
  BY <1>2, <1>3
<1>6. QED
  BY <1>4, <1>5

\* Whole heights go, from the lowest deleted one upwards, so that no
\* remaining block loses an ancestor.
LEMMA FlushStores ==
  ASSUME IInv, SInv, FlushRewind
  PROVE  SInv'
<1>1. /\ stored' = {b \in stored : Number[b] \notin doomed}
      /\ canonical' = [n \in Heights |-> IF n \in doomed THEN NoBlock ELSE canonical[n]]
      /\ UNCHANGED <<currentBlock, currentHeader, currentFastBlock, committed, triegc>>
      /\ goal' = NoBlock /\ goal = NoBlock /\ doomed' = {}
  BY DEF FlushRewind, Finish, IInv, OpShape
<1>2. CASE doomed = {}
  <2>1. stored' = stored /\ \A n \in Heights : canonical'[n] = canonical[n]
    BY <1>1, <1>2
  <2>2. ChainUnbroken'
    BY <1>1, <2>1 DEF SInv, ChainUnbroken
  <2>3. StorageShape' /\ HeadOpens'
    BY <1>1, <2>1 DEF SInv, StorageShape, HeadOpens, HasState
  <2>4. QED
    BY <2>2, <2>3 DEF SInv
<1>3. CASE doomed # {}
  <2>1. /\ \A n \in doomed : n \in Nat /\ n > Number[currentHeader] /\ n > Number[currentBlock]
        /\ Number[currentFastBlock] <= Number[currentHeader]
        /\ Number[currentHeader] \in Nat /\ Number[currentBlock] \in Nat
        /\ Number[currentFastBlock] \in Nat
    BY <1>3, NumberFacts DEF IInv, TypeOK, OpShape, SInv, StorageShape
  <2>2. \A b \in stored : Number[b] \notin doomed => Number[b] <= Number[currentHeader]
    BY <1>3, FlushLeaves
  <2>3. ASSUME NEW b \in stored, Number[b] \notin doomed, NEW a \in Ancestors[b]
        PROVE  a \in stored /\ Number[a] \notin doomed
    <3>1. b \in Blocks /\ a \in stored /\ Number[b] <= Number[currentHeader]
      BY <2>2, <2>3, StoredFacts
    <3>2. Number[a] \in Nat /\ Number[b] \in Nat /\ Number[a] <= Number[b]
      BY <3>1, AncestorFacts
    <3>3. QED
      BY <2>1, <3>1, <3>2
  <2>4. \A b \in stored' : Ancestors[b] \subseteq stored'
    BY <1>1, <2>3
  <2>5. {currentBlock', currentHeader', currentFastBlock'} \subseteq stored'
    <3>1. /\ Number[currentBlock] \notin doomed /\ Number[currentHeader] \notin doomed
          /\ Number[currentFastBlock] \notin doomed
      BY <2>1
    <3>2. QED
      BY <1>1, <3>1 DEF SInv, ChainUnbroken
  <2>6. \A n \in Heights : canonical'[n] # NoBlock =>
          n \notin doomed /\ canonical'[n] = canonical[n] /\ Number[canonical[n]] = n
    BY <1>1 DEF SInv, StorageShape
  <2>7. \A n \in Heights : canonical'[n] \in stored' \cup {NoBlock}
    BY <1>1, <2>6 DEF SInv, ChainUnbroken
  <2>8. ChainUnbroken'
    BY <2>4, <2>5, <2>7 DEF ChainUnbroken
  <2>9. StorageShape'
    BY <1>1, <2>6 DEF StorageShape
  <2>10. HeadOpens'
    BY <1>1 DEF SInv, HeadOpens, HasState
  <2>11. QED
    BY <2>8, <2>9, <2>10 DEF SInv
<1>4. QED
  BY <1>2, <1>3

\* Start-up ends at a head with a saved state, whatever was interrupted.
LEMMA StartStores ==
  ASSUME IInv, SInv, NEW saved, NewBlockChain(saved)
  PROVE  SInv'
<1>1. /\ committed' = saved /\ goal' = NoBlock /\ doomed' = {}
      /\ UNCHANGED <<stored, canonical, currentHeader>>
  BY DEF NewBlockChain, Finish
<1>2. currentBlock \in stored /\ currentBlock \in Ancestors[currentBlock]
  BY TreeAssumption DEF SInv, ChainUnbroken, IInv, TypeOK
<1>3. currentBlock' \in Ancestors[currentBlock] /\ currentBlock' \in saved
  BY <1>2 DEF NewBlockChain
<1>4. currentFastBlock' \in {currentBlock, currentFastBlock}
  BY DEF NewBlockChain
<1>5. ChainUnbroken'
  BY <1>1, <1>2, <1>3, <1>4 DEF SInv, ChainUnbroken
<1>6. StorageShape'
  BY <1>1 DEF SInv, StorageShape
<1>7. HeadOpens'
  BY <1>1, <1>3 DEF HeadOpens, HasState
<1>8. QED
  BY <1>5, <1>6, <1>7 DEF SInv

-----------------------------------------------------------------------------
(* The theorems *)

\* A fresh database holds the genesis block as every head.
LEMMA InitEstablishesChain ==
  ASSUME Init
  PROVE  IInv
<1>1. Ancestors[Genesis] = {Genesis} /\ Number[Genesis] = 0 /\ Genesis \in Blocks
      /\ Genesis \notin Invalid /\ 0 \in Heights
  BY TreeAssumption DEF Heights
<1>2. TypeOK
  BY Zenon, <1>1 DEF Init, TypeOK
<1>3. HeadIndexed /\ HeadersOnBranch /\ HeadValid
  BY <1>1 DEF Init, HeadIndexed, HeadersOnBranch, HeadValid
<1>4. OpShape /\ StatesValid
  BY <1>1 DEF Init, OpShape, StatesValid
<1>5. QED
  BY <1>2, <1>3, <1>4 DEF IInv

\* IInv is an inductive invariant of the block chain.
THEOREM ChainInvariance == Spec => []IInv
<1>1. Init => IInv
  BY InitEstablishesChain
<1>2. IInv /\ [Next]_vars => IInv'
  <2> SUFFICES ASSUME IInv, [Next]_vars PROVE IInv'
    OBVIOUS
  <2>1. CASE \E b \in Blocks \ {Genesis} : InsertChain(b) \/ WriteMinedBlock(b)
    BY <2>1, InsertChainKeeps, WriteMinedKeeps
  <2>2. CASE ImportStep
    BY <2>2, SkipKnownKeeps, WriteKnownKeeps, ProcessBlockKeeps, EndKeeps, WriteSideKeeps,
       ReimportKeeps, ReorgWriteKeeps, ReorgDeleteKeeps, SetNewHeadKeeps DEF ImportStep
  <2>3. CASE SetHeadRepair
    BY <2>3, RepairKeeps
  <2>4. CASE \E n \in Heights : SetHead(n)
    BY <2>4, SetHeadKeeps
  <2>5. CASE RewindStep
    BY <2>5, RewindKeeps, FlushKeeps DEF RewindStep
  <2>6. CASE Crash
    BY <2>6, StartKeeps DEF Crash
  <2>7. CASE StopAndStart
    <3>1. PICK b \in Ancestors[currentBlock] : NewBlockChain(committed \cup (Recent(b) \cap triegc))
      BY <2>7 DEF StopAndStart
    <3>2. committed \cup (Recent(b) \cap triegc) \subseteq committed \cup triegc
      OBVIOUS
    <3>3. QED
      BY <3>1, <3>2, StartKeeps
  <2>8. CASE UNCHANGED vars
    <3>1. TypeOK'
      BY <2>8 DEF IInv, TypeOK, vars, disk, task
    <3>2. HeadIndexed' /\ HeadersOnBranch' /\ HeadValid'
      BY Zenon, <2>8 DEF IInv, HeadIndexed, HeadersOnBranch, HeadValid, vars, disk
    <3>3. StatesValid'
      BY <2>8 DEF IInv, StatesValid, NewChain, vars, disk, task
    <3>4. OpShape'
      BY <2>8 DEF IInv, OpShape, NewChain, vars, disk, task
    <3>5. QED
      BY <3>1, <3>2, <3>3, <3>4 DEF IInv
  <2>9. QED
    BY <2>1, <2>2, <2>3, <2>4, <2>5, <2>6, <2>7, <2>8 DEF Next
<1>3. QED
  BY <1>1, <1>2, PTL DEF Spec

\* The database, the caches and the operation in progress keep their types.
THEOREM ChainTypeCorrect == Spec => []TypeOK
BY ChainInvariance, PTL DEF IInv

\* GetBlockByNumber follows the head block's branch down to genesis, between
\* any two writes of imports, reorgs and rewinds and after a crash in them.
THEOREM IndexFollowsHead == Spec => []HeadIndexed
BY ChainInvariance, PTL DEF IInv

\* The header marker and the head block stay on one branch.
THEOREM HeadsOnOneBranch == Spec => []HeadersOnBranch
BY ChainInvariance, PTL DEF IInv

\* No block that fails to execute becomes canonical, though it may have been
\* stored with a side chain.
THEOREM OnlyValidHeads == Spec => []HeadValid
BY ChainInvariance, PTL DEF IInv

\* A fresh database is unbroken.
LEMMA InitEstablishesStorage ==
  ASSUME Init
  PROVE  SInv
<1>1. Ancestors[Genesis] = {Genesis} /\ Number[Genesis] = 0
  BY TreeAssumption
<1>2. ChainUnbroken
  BY <1>1 DEF Init, ChainUnbroken
<1>3. StorageShape
  BY <1>1 DEF Init, StorageShape
<1>4. HeadOpens
  BY DEF Init, HeadOpens, HasState
<1>5. QED
  BY <1>2, <1>3, <1>4 DEF SInv

\* SInv is inductive relative to IInv: no step of an import, a rewind or a
\* restart leaves a gap in the database.
THEOREM StorageInvariance == Spec => []SInv
<1>1. Init => SInv
  BY InitEstablishesStorage
<1>2. IInv /\ SInv /\ [Next]_vars => SInv'
  <2> SUFFICES ASSUME IInv, SInv, [Next]_vars PROVE SInv'
    OBVIOUS
  <2>1. ASSUME NEW b \in Blocks \ {Genesis}, InsertChain(b) PROVE SInv'
    BY <2>1, StorageAlone DEF InsertChain
  <2>2. ASSUME NEW b \in Blocks \ {Genesis}, WriteMinedBlock(b) PROVE SInv'
    BY <2>2, WriteMinedStores
  <2>3. CASE SkipKnown \/ ReimportSideChain
    BY <2>3, StorageAlone DEF SkipKnown, ReimportSideChain
  <2>4. CASE EndImport \/ EndSideChain
    BY <2>4, StorageAlone DEF EndImport, EndSideChain, Importing, Finish
  <2>5. CASE WriteKnownBlock \/ ProcessBlock \/ WriteSideBlock
    BY <2>5, WriteKnownStores, ProcessBlockStores, WriteSideStores
  <2>6. CASE ReorgWriteHead \/ ReorgDeleteIndexes \/ SetNewHead
    BY <2>6, ReorgWriteStores, ReorgDeleteStores, SetNewHeadStores
  <2>7. CASE SetHeadRepair
    BY <2>7, RepairStores
  <2>8. ASSUME NEW n \in Heights, SetHead(n) PROVE SInv'
    BY <2>8, StorageAlone DEF SetHead
  <2>9. CASE RewindStep
    BY <2>9, RewindStores, FlushStores DEF RewindStep
  <2>10. CASE Crash \/ StopAndStart
    BY Zenon, <2>10, StartStores DEF Crash, StopAndStart
  <2>11. CASE UNCHANGED vars
    BY <2>11, StorageAlone DEF vars, task
  <2>12. QED
    BY <2>1, <2>2, <2>3, <2>4, <2>5, <2>6, <2>7, <2>8, <2>9, <2>10, <2>11 DEF Next, ImportStep
<1>3. QED
  BY <1>1, <1>2, ChainInvariance, PTL DEF Spec

\* From every stored block, every head marker and every index entry the
\* database leads back to genesis, between any two writes and across crashes.
THEOREM DatabaseUnbroken == Spec => []ChainUnbroken
BY StorageInvariance, PTL DEF SInv

\* Between operations the head's state can be opened, unless the garbage
\* collector passed the head because of a longer branch.
THEOREM HeadStateAvailable == Spec => []HeadHasState
<1>1. IInv /\ SInv => HeadHasState
  BY DEF IInv, OpShape, SInv, HeadOpens, HeadHasState
<1>2. QED
  BY <1>1, ChainInvariance, StorageInvariance, PTL

\* A SetHead that moves the header deletes every block and every index entry
\* above its target.
THEOREM SetHeadDeletesAbove == Spec => SetHeadErases
<1>1. IInv /\ SInv /\ [Next]_vars =>
        [FlushRewind /\ doomed # {} =>
           /\ \A b \in stored' : Number[b] <= target
           /\ \A n \in Heights : n > target => canonical'[n] = NoBlock]_vars
  <2> SUFFICES ASSUME IInv, SInv, FlushRewind, doomed # {}
               PROVE  /\ \A b \in stored' : Number[b] <= target
                      /\ \A n \in Heights : n > target => canonical'[n] = NoBlock
    OBVIOUS
  <2>1. /\ Number[currentHeader] <= target /\ Number[currentHeader] \in Nat /\ target \in Nat
        /\ Heights \subseteq Nat
    BY NumberFacts DEF FlushRewind, TargetReached, IInv, TypeOK
  <2>2. /\ \A b \in stored : Number[b] \notin doomed => Number[b] <= Number[currentHeader]
        /\ \A n \in Heights : n > Number[currentHeader] /\ n \notin doomed => canonical[n] = NoBlock
    BY FlushLeaves
  <2>3. \A b \in stored : Number[b] \in Nat
    BY StoredFacts
  <2>4. \A b \in stored' : Number[b] <= target
    BY <2>1, <2>2, <2>3 DEF FlushRewind
  <2>5. \A n \in Heights : n > target => canonical'[n] = NoBlock
    <3>1. \A n \in Heights : n > target => n > Number[currentHeader]
      BY <2>1
    <3>2. QED
      BY <2>2, <3>1 DEF FlushRewind
  <2>6. QED
    BY <2>4, <2>5
<1>2. QED
  BY <1>1, ChainInvariance, StorageInvariance, PTL DEF Spec, SetHeadErases

=============================================================================
