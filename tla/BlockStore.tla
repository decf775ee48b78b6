----------------------------- MODULE BlockStore -----------------------------
(***************************************************************************)
(* How a BFT node applies the blocks that its engine or cold-join sync     *)
(* hands to it (NodeState::commit_block and set_head, aii-node), and what  *)
(* it finds again after a crash (NodeState::recover, the boot path of      *)
(* main.rs under --bft).                                                   *)
(*                                                                         *)
(* Every write that reaches the database on its own is a step, so that a   *)
(* crash may fall between any two of them, and every such write may fail:  *)
(* the code logs the failure and goes on (`failures`).  `applied` *)
(* counts how often the effect of a block is in a part of the state on     *)
(* disk: the accounts and stake tables that its transactions write, one by *)
(* one, and the subsidy.  Receipts, state roots, flush anchors and epoch   *)
(* records follow as one step.                                             *)
(*                                                                         *)
(* The engine hands over the block after its own head; it starts at the    *)
(* recovered head (boot_bft_engine_with_recovered_head), or at genesis     *)
(* when the head has no block in the cache.  The PoA and dev producers,    *)
(* which start at genesis after every restart, are not modelled here.      *)
(***************************************************************************)
EXTENDS Integers, Sequences, FiniteSets, Functions

CONSTANTS
    Ids,                    \* tells apart the blocks proposed for one height
    Touched,                \* accounts and tables that transactions write
    Prefunded,              \* those that the genesis file allocates
    MAX_BLOCKS_IN_MEMORY,   \* blocks the hot cache holds
    MaxHeight, MaxCrashes, MaxFailures  \* bounds

ASSUME StoreAssumption ==
    /\ MAX_BLOCKS_IN_MEMORY \in Nat /\ MAX_BLOCKS_IN_MEMORY >= 2
    /\ MaxHeight \in Nat /\ MaxCrashes \in Nat /\ MaxFailures \in Nat
    /\ Prefunded \subseteq Touched /\ "subsidy" \notin Touched

Blocks == [number : 1..MaxHeight, id : Ids]
Effects == Touched \cup {"subsidy"}

VARIABLES
    disk,       \* blocks, head (0: no marker), applied, records, forks
    failures,   \* writes that the database has refused
    missed,     \* a restart has read a database that lacks such a write
    order,      \* the hot cache: by_hash, by_number and order in one
    head,       \* the head in memory
    boot,       \* "sync" until the genesis allocation, then "run"
    engine,     \* the height of the BFT engine's head
    job,        \* the block being committed and the next step, or Idle
    crashes

storeVars == <<disk, failures, missed, order, head, boot, engine, job, crashes>>

Idle == [step |-> "idle"]

StoreInit ==
    /\ disk = [blocks |-> {}, head |-> 0, records |-> {}, forks |-> {},
               applied |-> [a \in Effects |-> [b \in Blocks |-> 0]]]
    /\ failures = 0 /\ missed = FALSE
    /\ order = << >> /\ head = 0 /\ job = Idle /\ crashes = 0
    /\ boot = "sync" /\ engine = 0

\* A write that the database performs, or refuses with an error that is
\* logged (or, in set_head, dropped).
Written(d) ==
    \/ disk' = d /\ UNCHANGED failures
    \/ failures < MaxFailures /\ failures' = failures + 1 /\ UNCHANGED disk

-----------------------------------------------------------------------------
(* commit_block and set_head. *)

ByNumber(n) == {b \in Range(order) : b.number = n}

\* A cache that holds one block too many, and one that drops the new block.
Cached_OneTooMany(b) ==
    LET all == Append(order, b)
        over == Len(all) - MAX_BLOCKS_IN_MEMORY - 1
    IN  IF over > 0 THEN SubSeq(all, over + 1, Len(all)) ELSE all
Cached_DropNew(b) == IF Len(order) < MAX_BLOCKS_IN_MEMORY THEN Append(order, b) ELSE order

\* The cache with b, the oldest blocks evicted beyond the cap.
Cached(b) ==
    LET all == Append(order, b)
        over == Len(all) - MAX_BLOCKS_IN_MEMORY
    IN  IF over > 0 THEN SubSeq(all, over + 1, Len(all)) ELSE all

Goto(step, b) == job' = [step |-> step, block |-> b, todo |-> {}]

\* A known block is skipped.  set_head follows in any case.
SkipKnown(b) ==
    /\ b \in Range(order)
    /\ Goto("head", b)
    /\ UNCHANGED <<disk, failures, order>>

RecordFork(b) ==
    /\ b \notin Range(order) /\ ByNumber(b.number) # {}
    /\ Written([disk EXCEPT !.forks = @ \cup {b}])
    /\ Goto("head", b)
    /\ UNCHANGED order

\* A commit that does not look for another block of the height.
IndexNovel_NoForkCheck(b) ==
    /\ b \notin Range(order)
    /\ order' = Cached(b)
    /\ Goto("persist", b)
    /\ UNCHANGED <<disk, failures>>

IndexNovel(b) ==
    /\ b \notin Range(order) /\ ByNumber(b.number) = {}
    /\ order' = Cached(b)
    /\ Goto("persist", b)
    /\ UNCHANGED <<disk, failures>>

CommitBlock(b) == SkipKnown(b) \/ RecordFork(b) \/ IndexNovel(b)

\* Cold-join sync commits the bootnode's block after the local head.
BootstrapSync(b) ==
    /\ job = Idle /\ boot = "sync" /\ b.number = head + 1
    /\ CommitBlock(b)
    /\ UNCHANGED <<head, boot, engine, crashes, missed>>

\* The host commits the block that its engine has harvested or adopted.
Harvest(b) ==
    /\ job = Idle /\ boot = "run" /\ b.number = engine + 1
    /\ engine' = engine + 1
    /\ CommitBlock(b)
    /\ UNCHANGED <<head, boot, crashes, missed>>

\* persist_block: header, body, number and transactions in one batch.
PersistBlock ==
    /\ job.step = "persist"
    /\ Written([disk EXCEPT !.blocks = @ \cup {job.block}])
    /\ job' = [step |-> "txs", block |-> job.block, todo |-> Touched]
    /\ UNCHANGED <<order, head, boot, engine, crashes, missed>>

Apply(a, b) == Written([disk EXCEPT !.applied[a][b] = @ + 1])

\* execute_block_txs: the transactions write one account or table after the
\* other, in the order of the body.
ExecuteTxs(a) ==
    /\ job.step = "txs" /\ a \in job.todo
    /\ Apply(a, job.block)
    /\ job' = [job EXCEPT !.todo = @ \ {a}]
    /\ UNCHANGED <<order, head, boot, engine, crashes, missed>>

CreditSubsidy ==
    /\ job.step = "txs" /\ job.todo = {}
    /\ Apply("subsidy", job.block)
    /\ Goto("records", job.block)
    /\ UNCHANGED <<order, head, boot, engine, crashes, missed>>

WriteRecords ==
    /\ job.step = "records"
    /\ Written([disk EXCEPT !.records = @ \cup {job.block}])
    /\ Goto("head", job.block)
    /\ UNCHANGED <<order, head, boot, engine, crashes, missed>>

SetHead ==
    /\ job.step = "head"
    /\ head' = job.block.number
    /\ Written([disk EXCEPT !.head = job.block.number])
    /\ job' = Idle
    /\ UNCHANGED <<order, boot, engine, crashes, missed>>

-----------------------------------------------------------------------------
(* Crash and restart. *)

\* The newest blocks that fit the cache, one for each number found on disk
\* (where two have the number, the scan's last one stays), oldest first.
Scans(blocks) ==
    LET numbers == {b.number : b \in blocks}
        kept == {n \in numbers :
                    Cardinality({m \in numbers : m > n}) < MAX_BLOCKS_IN_MEMORY}
    IN  {s \in [1..Cardinality(kept) -> blocks] :
            /\ {s[i].number : i \in DOMAIN s} = kept
            /\ \A i, j \in DOMAIN s : i < j => s[i].number < s[j].number}

\* A recovery that trusts the head marker and ignores what lies beyond it.
Recovered_UpToHead ==
    IF disk.head = 0 THEN {<< >>} ELSE Scans({b \in disk.blocks : b.number <= disk.head})

\* Without a head marker the node starts on an empty store.
Recovered == IF disk.head = 0 THEN {<< >>} ELSE Scans(disk.blocks)

Restart ==
    /\ crashes < MaxCrashes
    /\ crashes' = crashes + 1
    /\ order' \in Recovered
    /\ head' = disk.head
    /\ boot' = "sync" /\ engine' = 0
    /\ job' = Idle
    /\ missed' = (missed \/ failures > 0)
    /\ UNCHANGED <<disk, failures>>

\* The engine is booted on the head that recovery and sync have left, then
\* the genesis allocation is written, at every boot.  A write that fails
\* ends the process.
ApplyGenesisAlloc ==
    /\ boot = "sync" /\ job = Idle
    /\ engine' = IF ByNumber(head) # {} THEN head ELSE 0
    /\ disk' = [disk EXCEPT !.applied =
          [a \in Effects |-> IF a \in Prefunded THEN [b \in Blocks |-> 0] ELSE @[a]]]
    /\ boot' = "run"
    /\ UNCHANGED <<failures, missed, order, head, job, crashes>>

StoreNext ==
    \/ \E b \in Blocks : BootstrapSync(b) \/ Harvest(b)
    \/ \E a \in Touched : ExecuteTxs(a)
    \/ PersistBlock \/ CreditSubsidy \/ WriteRecords \/ SetHead
    \/ Restart \/ ApplyGenesisAlloc

StoreSpec == StoreInit /\ [][StoreNext]_storeVars

-----------------------------------------------------------------------------
Steps == {"persist", "txs", "records", "head"}

StoreTypeOK ==
    /\ disk.blocks \subseteq Blocks /\ disk.records \subseteq Blocks
    /\ disk.forks \subseteq Blocks
    /\ disk.head \in 0..MaxHeight /\ head \in 0..MaxHeight /\ engine \in 0..MaxHeight
    /\ disk.applied \in [Effects -> [Blocks -> Nat]]
    /\ failures \in 0..MaxFailures /\ missed \in BOOLEAN /\ boot \in {"sync", "run"}
    /\ Range(order) \subseteq Blocks /\ Len(order) <= MAX_BLOCKS_IN_MEMORY
    /\ job = Idle \/ job \in [step : Steps, block : Blocks, todo : SUBSET Touched]

(* The head can be resolved (head_block): its block is cached, and it is   *)
(* on disk unless a write has failed, so that a restart resumes the engine *)
(* there and not at genesis.  A restart on a database that lacks a write   *)
(* loses it: the code logs a failed write and goes on.                     *)
HeadResolvable ==
    ~missed /\ head > 0 => \E b \in ByNumber(head) : failures = 0 => b \in disk.blocks

(* commit_block skips a block it has applied before, also when the crash   *)
(* fell between applying it and moving the head, and when cold-join sync   *)
(* brings the block back: no effect of a block after the first is in the   *)
(* state twice, unless a restart has met a database that lacks a write.    *)
NeverTwice ==
    ~missed => \A a \in Effects, b \in Blocks : b.number > 1 => disk.applied[a][b] <= 1

(* A node that crashed in the middle of a block and is then handed another *)
(* block of that height, by consensus or by its bootnode, never applies    *)
(* both (fork detection), with the same exception.                         *)
NeverBothForks ==
    LET effective == {b \in Blocks : b.number > 1 /\ \E a \in Effects : disk.applied[a][b] > 0}
    IN  ~missed => \A b, d \in effective : b.number = d.number => b = d

\* The blocks that the node reports as its chain.
Chain == {b \in disk.blocks : b.number <= head}

(* "node1 and node2 each apply each finalised block exactly once"          *)
(* (lib.rs:739): between commits the effects of every block of the chain   *)
(* are in the state, once.  The subsidies alone are looked at here.        *)
ExactlyOnce ==
    job = Idle => \A b \in Chain : disk.applied["subsidy"][b] = 1

(* "State accounts are already on disk and need no replay" (lib.rs:583): a *)
(* boot leaves the accounts as they are.                                   *)
RestartKeepsAccounts ==
    [][boot' # boot => disk'.applied = disk.applied]_storeVars

=============================================================================
