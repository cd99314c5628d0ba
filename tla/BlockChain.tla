----------------------------- MODULE BlockChain -----------------------------
(***************************************************************************)
(* The canonical chain of core/blockchain.go on a fully synced node whose  *)
(* blocks are all in the key-value store: block import with and without    *)
(* state, reorganisation, SetHead, shutdown, crash and start-up.           *)
(*                                                                         *)
(* chainmu serialises the writers, so one operation is in progress at a    *)
(* time.  A step is one atomic database write with the memory updates that *)
(* follow it; a crash may fall between any two of them.  The in-memory     *)
(* head markers are stored right after the batch that persists them, so a  *)
(* single variable stands for a marker and its database copy.              *)
(*                                                                         *)
(* The tree of blocks the network may offer is a constant.  Block contents *)
(* are reduced to parent, number and total difficulty, and every block has *)
(* a state of its own.                                                     *)
(***************************************************************************)
EXTENDS Integers

CONSTANTS
  Blocks,         \* all blocks that may ever be seen, Genesis included
  Genesis,
  NoBlock,        \* nil, or the empty hash
  Parent,         \* [Blocks -> Blocks]
  Number,         \* [Blocks -> Nat]
  Td,             \* [Blocks -> Nat], the total difficulty up to the block
  Ancestors,      \* [Blocks -> SUBSET Blocks], each block and its ancestors
  Invalid,        \* blocks with a valid header whose execution fails
  TriesInMemory   \* how many recent heights keep their state in memory

\* Block hashes form a tree rooted at the genesis block, numbered by depth.
ASSUME TreeAssumption ==
  /\ Genesis \in Blocks /\ NoBlock \notin Blocks /\ Genesis \notin Invalid
  /\ Parent \in [Blocks -> Blocks]
  /\ Number \in [Blocks -> Nat]
  /\ Number[Genesis] = 0
  /\ \A b \in Blocks \ {Genesis} : Number[b] = Number[Parent[b]] + 1
  /\ Ancestors \in [Blocks -> SUBSET Blocks]
  /\ Ancestors[Genesis] = {Genesis}
  /\ \A b \in Blocks \ {Genesis} : Ancestors[b] = {b} \cup Ancestors[Parent[b]]
  /\ \A b \in Blocks : b \in Ancestors[b] /\ Genesis \in Ancestors[b]
  /\ \A b \in Blocks : \A n \in 0..Number[b] : \E a \in Ancestors[b] : Number[a] = n
  /\ \A b \in Blocks : \A a \in Ancestors[b] :
       /\ Ancestors[a] \subseteq Ancestors[b]
       /\ Number[a] <= Number[b]
       /\ \A c \in Ancestors[b] : Number[a] <= Number[c] => a \in Ancestors[c]

\* Every block adds a positive difficulty to its parent's total.
ASSUME DifficultyAssumption ==
  /\ Td \in [Blocks -> Nat]
  /\ \A b \in Blocks \ {Genesis} : Td[b] > Td[Parent[b]]

ASSUME TriesAssumption == TriesInMemory \in Nat \ {0}

Heights == {Number[b] : b \in Blocks}

VARIABLES
  stored,            \* blocks whose header, body and td are in the database
  canonical,         \* number -> canonical hash
  currentBlock,      \* head block marker (LastBlock)
  currentHeader,     \* head header marker (LastHeader)
  currentFastBlock,  \* head fast-sync block marker (LastFast)
  committed,         \* blocks whose state trie is on disk
  triegc,            \* blocks whose state trie is held in memory
  op,                \* holder of chainmu: "none", "import" or "rewind"
  phase,             \* how far insertChain has come
  chain,             \* blocks insertChain has yet to look at
  last,              \* the iterator's previous block, inside insertSideChain
  goal,              \* block about to become the head, NoBlock if none
  swept,             \* the stale part of the index has been dealt with
  target,            \* height SetHead rewinds to
  doomed,            \* heights whose deletion waits in SetHead's batch
  base               \* head block when the current operation started

disk == <<stored, canonical, currentBlock, currentHeader, currentFastBlock, committed>>
task == <<op, phase, chain, last, goal, swept, target, doomed, base>>
vars == <<disk, triegc, task>>

-----------------------------------------------------------------------------
(* Helpers *)

HasState(b) == b \in committed \cup triegc

HasBlockAndState(b) == b \in stored /\ HasState(b)

\* What the validator says of a block: ErrKnownBlock, no error,
\* ErrPrunedAncestor or ErrUnknownAncestor.
ValidateBody(b) ==
  CASE HasBlockAndState(b) -> "known"
    [] ~HasBlockAndState(b) /\ HasBlockAndState(Parent[b]) -> "ok"
    [] ~HasBlockAndState(b) /\ ~HasBlockAndState(Parent[b]) ->
         IF Parent[b] \in stored THEN "pruned" ELSE "unknown"

\* Mutant of Stateful: the rewind stops at the block it was given.
StatefulUnchecked(b) == {b}

\* The closest ancestor of b, b itself included, whose state is available
\* (one block, as a set).
Stateful(b) ==
  {a \in Ancestors[b] :
     /\ HasState(a)
     /\ \A c \in Ancestors[b] : HasState(c) => Number[c] <= Number[a]}

\* The heights of the contiguous run in S that starts at n.
RunFrom(n, S) == {h \in S : h >= n /\ n..h \subseteq S}

Indexed == {n \in Heights : canonical[n] # NoBlock}

\* Mutant of Populated: only canonical hashes are looked up.
PopulatedCanonical == Indexed

Populated == {n \in Heights : \E b \in stored : Number[b] = n}

-----------------------------------------------------------------------------
(* Writing the head *)

\* Mutant of UpdateHeads: only older heads follow.
UpdateHeadsOlder(b) == Number[currentHeader] < Number[b]

\* The other heads follow unless the block is already canonical.
UpdateHeads(b) == canonical[Number[b]] # b

WriteHeadBlock(b) ==
  /\ canonical' = [canonical EXCEPT ![Number[b]] = b]
  /\ currentBlock' = b
  /\ currentHeader' = IF UpdateHeads(b) THEN b ELSE currentHeader
  /\ currentFastBlock' = IF UpdateHeads(b) THEN b ELSE currentFastBlock

\* Blocks of goal's branch that are not on the branch of the current head.
NewChain == Ancestors[goal] \ Ancestors[currentBlock]

\* reorg, its loop: the new branch becomes canonical block by block, in
\* ascending order, all but the new head itself.
ReorgWriteHead ==
  /\ goal # NoBlock /\ ~swept
  /\ \E b \in NewChain \ {goal} :
       /\ Parent[b] \in Ancestors[currentBlock]
       /\ WriteHeadBlock(b)
  /\ UNCHANGED <<stored, committed, triegc, task>>

\* Mutant of AboveHead: the deletion starts at the head itself.
FromHead == RunFrom(Number[currentBlock], Indexed)

\* The heights above the head whose canonical hash reorg deletes.
AboveHead == RunFrom(Number[currentBlock] + 1, Indexed)

\* reorg, its last batch: canonical hashes above the current head block go.
ReorgDeleteIndexes ==
  /\ goal # NoBlock /\ ~swept
  /\ NewChain \subseteq {goal}
  /\ canonical' = [n \in Heights |-> IF n \in AboveHead THEN NoBlock ELSE canonical[n]]
  /\ swept' = TRUE
  /\ UNCHANGED <<stored, currentBlock, currentHeader, currentFastBlock, committed, triegc>>
  /\ UNCHANGED <<op, phase, chain, last, goal, target, doomed, base>>

\* The caller of reorg sets the new head.
SetNewHead ==
  /\ goal # NoBlock /\ swept
  /\ WriteHeadBlock(goal)
  /\ goal' = NoBlock /\ swept' = FALSE
  /\ UNCHANGED <<stored, committed, triegc>>
  /\ UNCHANGED <<op, phase, chain, last, target, doomed, base>>

\* b is to become the head; reorg runs first unless b extends the head.
Adopt(b) ==
  /\ goal' = b
  /\ swept' = (Parent[b] = currentBlock)

KeepHead == UNCHANGED <<goal, swept>>

-----------------------------------------------------------------------------
(* Importing blocks *)

\* writeBlockWithState is called with a block that was just executed.
Chosen(b) == Number[b] - TriesInMemory

\* The state is kept in memory; from the depth of TriesInMemory on, older
\* ones are dropped, after the one at the chosen height was flushed if the
\* time allowance is used up.
CollectGarbage(b) ==
  \/ /\ Chosen(b) <= 0
     /\ triegc' = triegc \cup {b}
     /\ UNCHANGED committed
  \/ /\ Chosen(b) > 0
     /\ triegc' = {x \in triegc \cup {b} : Number[x] > Chosen(b)}
     /\ \/ UNCHANGED committed
        \/ committed' = committed \cup ({canonical[Chosen(b)]} \cap triegc)

Heavier(b) == Td[b] > Td[currentBlock]

\* Equal weight: the lower number wins, at equal numbers it is a coin toss
\* unless the miner prefers its own block.
TieWinner(b) == Td[b] = Td[currentBlock] /\ Number[b] < Number[currentBlock]
TieToss(b)   == Td[b] = Td[currentBlock] /\ Number[b] = Number[currentBlock]

\* Block, td and receipts go to disk in one batch, the state to memory, and
\* the fork choice decides whether the block is to become the head.
WriteBlockWithState(b) ==
  /\ stored' = stored \cup {b}
  /\ CollectGarbage(b)
  /\ \/ (Heavier(b) \/ TieWinner(b) \/ TieToss(b)) /\ Adopt(b)
     \/ ~(Heavier(b) \/ TieWinner(b)) /\ KeepHead
  /\ UNCHANGED <<canonical, currentBlock, currentHeader, currentFastBlock>>

Importing(p) == op = "import" /\ phase \in p /\ goal = NoBlock

\* The batch is a segment of a branch, kept as a set; the iterator offers
\* its lowest block (one block, as a set).
Offered == {b \in chain : \A c \in chain : Number[b] <= Number[c]}

Advance(b, p) ==
  /\ chain' = chain \ {b}
  /\ phase' = p

Finish ==
  /\ op' = "none" /\ phase' = "none" /\ chain' = {} /\ last' = NoBlock
  /\ goal' = NoBlock /\ swept' = FALSE /\ target' = 0 /\ doomed' = {}
  /\ base' = NoBlock

\* InsertChain takes chainmu with a contiguous batch that ends in b and
\* whose first block has a stored parent.
InsertChain(b) ==
  /\ op = "none"
  /\ \E a \in Ancestors[b] \ {Genesis} :
       /\ Parent[a] \in stored
       /\ chain' = Ancestors[b] \ Ancestors[Parent[a]]
  /\ op' = "import" /\ phase' = "trim" /\ base' = currentBlock
  /\ UNCHANGED <<disk, triegc, last, goal, swept, target, doomed>>

\* insertChain skips the leading known blocks that weigh no more than the head.
SkipKnown ==
  /\ Importing({"trim"})
  /\ \E b \in Offered :
       /\ ValidateBody(b) = "known" /\ ~Heavier(b)
       /\ Advance(b, "trim")
  /\ UNCHANGED <<disk, triegc, op, last, goal, swept, target, doomed, base>>

\* insertChain adopts the known blocks that follow without executing them,
\* at the front of the batch and (a special case) in its middle.
WriteKnownBlock ==
  /\ Importing({"trim", "known", "main"})
  /\ \E b \in Offered :
       /\ ValidateBody(b) = "known"
       /\ phase = "trim" => Heavier(b)
       /\ Adopt(b)
       /\ Advance(b, IF phase = "main" THEN "main" ELSE "known")
  /\ UNCHANGED <<disk, triegc, op, last, target, doomed, base>>

\* Mutant of ProcessFails: the error is dropped.
ProcessErrorIgnored(b) == FALSE

\* Process or ValidateState reports an error.
ProcessFails(b) == b \in Invalid

\* insertChain executes the next block on its parent's state and writes both.
ProcessBlock ==
  /\ Importing({"trim", "known", "main"})
  /\ \E b \in Offered :
       /\ ValidateBody(b) = "ok" /\ ~ProcessFails(b)
       /\ WriteBlockWithState(b)
       /\ Advance(b, "main")
  /\ UNCHANGED <<op, last, target, doomed, base>>

\* insertChain returns: nothing is left, or a block fails.
EndImport ==
  /\ Importing({"trim", "known", "main"})
  /\ \/ chain = {}
     \/ \E b \in Offered : ValidateBody(b) = "ok" /\ ProcessFails(b)
  /\ Finish
  /\ UNCHANGED <<disk, triegc>>

\* insertSideChain writes blocks whose parent has no state, one by one.
WriteSideBlock ==
  /\ Importing({"trim", "known", "side"})
  /\ \E b \in Offered :
       /\ ValidateBody(b) = "pruned"
       /\ stored' = stored \cup {b}
       /\ last' = b
       /\ Advance(b, "side")
  /\ UNCHANGED <<canonical, currentBlock, currentHeader, currentFastBlock, committed>>
  /\ UNCHANGED <<triegc, op, goal, swept, target, doomed, base>>

SideLoopOver == \A b \in Offered : ValidateBody(b) # "pruned"

\* insertSideChain gives up on a branch lighter than the head.
EndSideChain ==
  /\ Importing({"side"}) /\ SideLoopOver
  /\ Td[currentBlock] > Td[last]
  /\ Finish
  /\ UNCHANGED <<disk, triegc>>

\* insertSideChain imports the branch again, from the first missing state on.
ReimportSideChain ==
  /\ Importing({"side"}) /\ SideLoopOver
  /\ Td[currentBlock] <= Td[last]
  /\ \E a \in Stateful(last) : chain' = Ancestors[last] \ Ancestors[a]
  /\ phase' = "trim" /\ last' = NoBlock
  /\ UNCHANGED <<disk, triegc, op, goal, swept, target, doomed, base>>

\* The miner's WriteBlockWithState: a sealed block on a known parent.
WriteMinedBlock(b) ==
  /\ op = "none"
  /\ b \notin stored /\ ~ProcessFails(b) /\ HasBlockAndState(Parent[b])
  /\ WriteBlockWithState(b)
  /\ op' = "import" /\ phase' = "main" /\ base' = currentBlock
  /\ UNCHANGED <<chain, last, target, doomed>>

-----------------------------------------------------------------------------
(* Rewinding *)

\* The callback of SetHeadBeyondRoot for header h: the head block falls back
\* to h or to an ancestor with state, the fast block to h.
UpdateHeadBlocks(h) ==
  /\ currentBlock' \in IF Number[h] <= Number[currentBlock] THEN Stateful(h) ELSE {currentBlock}
  /\ currentFastBlock' = IF Number[h] < Number[currentFastBlock] THEN h ELSE currentFastBlock

\* SetHead to the number of the head block only repairs the head markers.
SetHeadRepair ==
  /\ op = "none"
  /\ UpdateHeadBlocks(currentBlock)
  /\ UNCHANGED <<stored, canonical, currentHeader, committed, triegc, task>>

\* SetHead to another number takes chainmu.
SetHead(n) ==
  /\ op = "none"
  /\ n # Number[currentBlock]
  /\ op' = "rewind" /\ target' = n /\ base' = currentBlock
  /\ UNCHANGED <<disk, triegc, phase, chain, last, goal, swept, doomed>>

\* Mutant of TargetReached: the loop runs down to an exact match.
TargetHit == Number[currentHeader] = target

TargetReached == Number[currentHeader] <= target

\* Mutant of Doom: leftovers above are not looked for.
DoomOnly(h) == {Number[h]}

\* The heights one iteration of HeaderChain.SetHead adds to its batch.
Doom(h) ==
  {Number[h]} \cup (IF doomed = {} THEN RunFrom(Number[h] + 1, Populated) ELSE {})

\* One iteration: the markers move to the parent header in one batch.
RewindHeader ==
  /\ op = "rewind" /\ ~TargetReached
  /\ UpdateHeadBlocks(Parent[currentHeader])
  /\ currentHeader' = Parent[currentHeader]
  /\ doomed' = doomed \cup Doom(currentHeader)
  /\ UNCHANGED <<stored, canonical, committed, triegc>>
  /\ UNCHANGED <<op, phase, chain, last, goal, swept, target, base>>

\* The accumulated deletions are flushed, side forks included.
FlushRewind ==
  /\ op = "rewind" /\ TargetReached
  /\ stored' = {b \in stored : Number[b] \notin doomed}
  /\ canonical' = [n \in Heights |-> IF n \in doomed THEN NoBlock ELSE canonical[n]]
  /\ Finish
  /\ UNCHANGED <<currentBlock, currentHeader, currentFastBlock, committed, triegc>>

-----------------------------------------------------------------------------
(* Going down and coming up *)

\* NewBlockChain after the states in mem were lost and those in saved kept:
\* if the head has no state, the head block falls back to an ancestor that
\* has one, at or below the snapshot's disk layer where there is one.
NewBlockChain(saved) ==
  /\ committed' = saved
  /\ triegc' = {}
  /\ Finish
  /\ \/ currentBlock \in saved /\ UNCHANGED <<currentBlock, currentFastBlock>>
     \/ /\ currentBlock \notin saved
        /\ currentBlock' \in Ancestors[currentBlock] \cap saved
        /\ currentFastBlock' = IF Number[currentBlock] < Number[currentFastBlock]
                               THEN currentBlock ELSE currentFastBlock
  /\ UNCHANGED <<stored, canonical, currentHeader>>

\* The process dies between two writes and is started again.
Crash == NewBlockChain(committed)

\* The states Stop writes: of the head, its parent and the oldest one kept
\* in memory, found through the canonical index, and of the snapshot base.
Recent(base0) ==
  {base0} \cup
  {canonical[Number[currentBlock] - k] :
     k \in {j \in {0, 1, TriesInMemory - 1} : Number[currentBlock] > j}}

\* Stop waits for an import to break off between two blocks.
StopAndStart ==
  /\ op = "none" \/ Importing({"main"})
  /\ \E b \in Ancestors[currentBlock] : NewBlockChain(committed \cup (Recent(b) \cap triegc))

-----------------------------------------------------------------------------

Init ==
  /\ stored = {Genesis}
  /\ canonical = [n \in Heights |-> IF n = 0 THEN Genesis ELSE NoBlock]
  /\ currentBlock = Genesis /\ currentHeader = Genesis /\ currentFastBlock = Genesis
  /\ committed = {Genesis} /\ triegc = {}
  /\ op = "none" /\ phase = "none" /\ chain = {} /\ last = NoBlock
  /\ goal = NoBlock /\ swept = FALSE /\ target = 0 /\ doomed = {} /\ base = NoBlock

ImportStep ==
  \/ SkipKnown \/ WriteKnownBlock \/ ProcessBlock \/ EndImport
  \/ WriteSideBlock \/ EndSideChain \/ ReimportSideChain
  \/ ReorgWriteHead \/ ReorgDeleteIndexes \/ SetNewHead

RewindStep == RewindHeader \/ FlushRewind

Next ==
  \/ \E b \in Blocks \ {Genesis} : InsertChain(b) \/ WriteMinedBlock(b)
  \/ ImportStep
  \/ SetHeadRepair
  \/ \E n \in Heights : SetHead(n)
  \/ RewindStep
  \/ Crash
  \/ StopAndStart

Spec == Init /\ [][Next]_vars

\* The goroutine that holds chainmu keeps running unless the process dies.
FairSpec == Spec /\ WF_vars(ImportStep) /\ WF_vars(RewindStep)

-----------------------------------------------------------------------------
(* Properties *)

\* Type invariant of the database, of the state caches and of the operation
\* in progress.
TypeOK ==
  /\ stored \subseteq Blocks /\ committed \subseteq Blocks /\ triegc \subseteq Blocks
  /\ canonical \in [Heights -> Blocks \cup {NoBlock}]
  /\ {currentBlock, currentHeader, currentFastBlock} \subseteq Blocks
  /\ op \in {"none", "import", "rewind"}
  /\ phase \in {"none", "trim", "known", "main", "side"}
  /\ chain \subseteq Blocks \ {Genesis}
  /\ last \in Blocks \cup {NoBlock} /\ base \in Blocks \cup {NoBlock}
  /\ goal \in (Blocks \ {Genesis}) \cup {NoBlock}
  /\ swept \in BOOLEAN
  /\ target \in Heights /\ doomed \subseteq Heights

\* The canonical index names every ancestor of the head block at its number.
\* It holds between any two database writes, so GetBlockByNumber follows the
\* head's branch also in the middle of a reorg and after a crash there.
HeadIndexed ==
  \A a \in Ancestors[currentBlock] : canonical[Number[a]] = a

\* The header marker never leaves the head block's branch, and where the
\* index covers a height of the header's branch it names the branch's block.
HeadersOnBranch ==
  /\ currentHeader \in Ancestors[currentBlock] \/ currentBlock \in Ancestors[currentHeader]
  /\ \A a \in Ancestors[currentHeader] : canonical[Number[a]] \in {a, NoBlock}

\* The database has no gaps: every stored block, and every block a head
\* marker or the index names, can be followed back to genesis.  reorg,
\* SetHead and start-up walk these links and give up where one is missing.
ChainUnbroken ==
  /\ \A b \in stored : Ancestors[b] \subseteq stored
  /\ {currentBlock, currentHeader, currentFastBlock} \subseteq stored
  /\ \A n \in Heights : canonical[n] \in stored \cup {NoBlock}

\* When no operation is in progress the head block's state can be opened,
\* after an import, a rewind, and a crash in any of them.  The exception is
\* that of the garbage collector, which counts from the block just executed
\* and not from the head: a lighter branch that outgrew the head by
\* TriesInMemory blocks takes the head's state with it, and leaves its own
\* in memory (also after SetHead has deleted that branch).
HeadHasState ==
  op = "none" =>
    \/ HasState(currentBlock)
    \/ \E b \in triegc : Number[b] >= Number[currentBlock] + TriesInMemory

\* A block whose execution fails is never on the head's branch, even if it
\* was stored as part of a side chain before its state was needed.
HeadValid == Ancestors[currentBlock] \cap Invalid = {}

\* What SetHead promises ("Everything above the new head will be deleted"):
\* when it has moved the header, no block and no index entry above the
\* target is left, whatever side forks and stale entries were there before.
SetHeadErases ==
  [][FlushRewind /\ doomed # {} =>
       /\ \A b \in stored' : Number[b] <= target
       /\ \A n \in Heights : n > target => canonical'[n] = NoBlock]_vars

\* Whoever takes chainmu releases it: an import, with its side chains and
\* reorganisations, comes to an end, and a rewind finds the header it was asked
\* for.
OperationsEnd == (op # "none") ~> (op = "none")

\* reorg's last batch leaves no canonical number above the new head.
ReorgSweepsIndex ==
  [][ReorgDeleteIndexes =>
       \A n \in Heights : n > Number[goal] => canonical'[n] = NoBlock]_vars

=============================================================================
