----------------------------- MODULE BlockChain -----------------------------
(***************************************************************************)
(* core.BlockChain: the blocks, headers, difficulties, states and lookup   *)
(* entries in the database, the canonical numbering, the three heads (full *)
(* block, header, fast sync block) and the queue of future blocks.         *)
(*                                                                         *)
(* What an operation does under bc.mu is one step for the others, but it   *)
(* writes to the database one write (or one batch) after the other, and a  *)
(* crash keeps any prefix of these writes.  An operation is therefore a    *)
(* function on runs: the database, the memory, and every database the      *)
(* operation went through.  Coin tosses between branches of equal          *)
(* difficulty make an operation a set of runs.  InsertReceiptChain and     *)
(* FastSyncCommitHead look at the database before they take the lock: they *)
(* are several steps, and mem.job is where the downloader is in them and   *)
(* which block it brought last.                                            *)
(***************************************************************************)
EXTENDS ChainTree, SequencesExt

CONSTANTS
    Tx, txs,        \* the transactions, and those of every block
    Late,           \* blocks whose timestamp may be ahead of the clock
    maxFutureBlocks,\* the size of the queue of future blocks
    Envs,           \* the environments the node is looked at in
    Offered         \* the blocks that other nodes have, in each of them

ASSUME ChainAssumption ==
    /\ txs \in [Block -> SUBSET Tx] /\ txs[Genesis] = {} /\ Late \subseteq Block
    /\ maxFutureBlocks \in Nat \ {0}
    /\ Envs \subseteq SUBSET {"light", "late", "fast", "bare", "rewind", "rollback", "crash"}
    /\ Offered \in [Envs -> SUBSET Block]

VARIABLES
    db,             \* the database
    mem,            \* currentBlock, currentHeader, currentFastBlock, futureBlocks, the job;
                    \* history: what futureBlocks evicted, whether a rewind fell between the
                    \* check and the commit of a pivot
    fast,           \* whether the downloader has yet to commit a pivot
    halted,         \* "no", or how the process got stuck
    env             \* what may happen to this node: blocks that are "late", a "fast" sync,
                    \* one that resumes at a "bare" header, an operator that calls SetHead
                    \* ("rewind"), headers that the downloader gives up again ("rollback"),
                    \* a "crash" in the middle of a step; a "light" node keeps no blocks

blockVars == <<db, mem, fast, halted, env>>

EmptyDb ==
    [header |-> {Genesis}, body |-> {Genesis}, state |-> {Genesis}, td |-> {Genesis},
     canon |-> [n \in 0 .. MaxNumber |-> IF n = 0 THEN Genesis ELSE None],
     lookup |-> [t \in Tx |-> None],
     headBlock |-> Genesis, headHeader |-> Genesis, headFast |-> Genesis]

Idle == [at |-> "idle", block |-> None]

\* The memory of a process that has just started.
Started(b, h, f) == [block |-> b, header |-> h, fast |-> f, future |-> <<>>, evicted |-> {},
                     job |-> Idle, raced |-> FALSE]

BlockInit ==
    /\ db = EmptyDb
    /\ mem = Started(Genesis, Genesis, Genesis)
    /\ env \in Envs
    /\ fast = ("fast" \in env)
    /\ halted = "no"

-----------------------------------------------------------------------------
(* Runs *)

Run == [db |-> db, mem |-> mem, past |-> {db}, halted |-> "no"]

\* One write to the database: key f becomes v.
Put(s, f, v) ==
    LET d == [s.db EXCEPT ![f] = v]
    IN [s EXCEPT !.db = d, !.past = @ \cup {d}]

\* What GetBlock finds, and HasBlockAndState.
GetBlock(d, b) == b \in d.header /\ b \in d.body
HasBlockAndState(d, b) == GetBlock(d, b) /\ b \in d.state

\* Block b is deleted from the set of blocks under key f.
Delete(s, f, b) == Put(s, f, s.db[f] \ {b})

SetNumber(s, n, b) == Put(s, "canon", [s.db.canon EXCEPT ![n] = b])

SetCurrentHeader(s, b) == [Put(s, "headHeader", b) EXCEPT !.mem.header = b]

\* The numbers from hi down to lo, and up.
Down(hi, lo) == [i \in 1 .. (hi + 1) - lo |-> (hi + 1) - i]
Up(lo, hi) == [i \in 1 .. (hi + 1) - lo |-> (lo + i) - 1]

\* The branch of b above number n, newest first.
Branch(b, n) == [i \in 1 .. number[b] - n |-> line[b][(number[b] + 1) - i]]

\* The number of the last common ancestor.
ForkPoint(a, b) ==
    CHOOSE n \in 0 .. MaxNumber :
        /\ n <= number[a] /\ n <= number[b] /\ line[a][n] = line[b][n]
        /\ \A k \in n + 1 .. MaxNumber :
              (k <= number[a] /\ k <= number[b]) => line[a][k] # line[b][k]

\* The queue of future blocks, oldest first, without b.
Without(q, b) == SelectSeq(q, LAMBDA c : c # b)

-----------------------------------------------------------------------------
(* Importing blocks *)

insert(s, b) ==
    LET s1 == SetNumber(s, number[b], b)
        s2 == [Put(s1, "headBlock", b) EXCEPT !.mem.block = b]
        s3 == SetCurrentHeader(s2, b)
    IN IF s.db.canon[number[b]] = b THEN s2
       ELSE [Put(s3, "headFast", b) EXCEPT !.mem.fast = b]

WithLookups(d, b) == [t \in Tx |-> IF t \in txs[b] THEN b ELSE d.lookup[t]]

\* The blocks that reorg reads on its way to the common ancestor.
Reorgable(d, old, new) ==
    LET f == ForkPoint(old, new)
    IN /\ \A n \in f .. number[old] - 1 : GetBlock(d, line[old][n])
       /\ \A n \in f .. number[new] - 1 : GetBlock(d, line[new][n])

\* Mutant of Dropped: the transactions that the new branch has too are dropped as well.
DroppedAll(old, new) == UNION {txs[b] : b \in ToSet(Branch(old, ForkPoint(old, new)))}

Dropped(old, new) ==
    LET f == ForkPoint(old, new)
    IN UNION {txs[b] : b \in ToSet(Branch(old, f))} \ UNION {txs[b] : b \in ToSet(Branch(new, f))}

\* Mutant of reorg: the first block of the new branch is forgotten.
reorgShort(s, old, new) ==
    LET Step(t, b) == LET u == insert(t, b) IN Put(u, "lookup", WithLookups(u.db, b))
        s1 == FoldLeft(Step, s, Branch(new, ForkPoint(old, new) + 1))
    IN Put(s1, "lookup", [t \in Tx |-> IF t \in Dropped(old, new) THEN None ELSE s1.db.lookup[t]])

reorg(s, old, new) ==
    LET Step(t, b) == LET u == insert(t, b) IN Put(u, "lookup", WithLookups(u.db, b))
        s1 == FoldLeft(Step, s, Branch(new, ForkPoint(old, new)))
    IN Put(s1, "lookup", [t \in Tx |-> IF t \in Dropped(old, new) THEN None ELSE s1.db.lookup[t]])

\* The batch with block, state and receipts, and the lookups of a canonical block.
WriteBatch(s, b, canonical) ==
    LET d == [s.db EXCEPT !.header = @ \cup {b}, !.body = @ \cup {b}, !.state = @ \cup {b},
                          !.lookup = IF canonical THEN WithLookups(s.db, b) ELSE @]
    IN [s EXCEPT !.db = d, !.past = @ \cup {d}]

\* Mutant of Better: the longer branch wins.
Longer(cur, b) == IF number[b] # number[cur] THEN {number[b] > number[cur]} ELSE BOOLEAN

\* The fork choice: the heavier branch, of two equally heavy ones the shorter, else a toss.
Better(cur, b) ==
    IF Td[b] # Td[cur] THEN {Td[b] > Td[cur]}
    ELSE IF number[b] # number[cur] THEN {number[b] < number[cur]} ELSE BOOLEAN


\* The difficulty is written before it is compared with the head's, which has to be there.
WriteBlockAndState(s, b, canonical) ==
    LET cur == s.mem.block
        s1  == Put(s, "td", s.db.td \cup {b})
        s2  == IF canonical /\ parent[b] # cur THEN reorg(s1, cur, b) ELSE s1
        s3  == WriteBatch(s2, b, canonical)
        s4  == IF canonical THEN insert(s3, b) ELSE s3
    IN IF cur \notin s.db.td THEN [s1 EXCEPT !.halted = "panic"]
       ELSE IF canonical /\ parent[b] # cur /\ ~Reorgable(s.db, cur, b) THEN s1
       ELSE [s4 EXCEPT !.mem.future = Without(@, b)]

\* insertChain, for one block that is valid: known blocks are ignored, blocks without
\* their parent's state are refused.
InsertBlockRuns(b) ==
    IF ~fast /\ ~HasBlockAndState(db, b) /\ HasBlockAndState(db, parent[b]) /\ parent[b] \in db.td
    THEN {WriteBlockAndState(Run, b, c) : c \in Better(mem.block, b)}
    ELSE {}

\* futureBlocks.Add: b becomes the newest of the queue; a full queue gives up its oldest.
AddFuture(m, b) ==
    LET q == Append(Without(m.future, b), b)
    IN IF Len(q) <= maxFutureBlocks THEN [m EXCEPT !.future = q, !.evicted = @ \ {b}]
       ELSE [m EXCEPT !.future = Tail(q), !.evicted = (@ \cup {Head(q)}) \ {b}]

\* insertChain, for a block whose timestamp is ahead, or whose parent is queued.
FutureBlockRuns(b) ==
    IF /\ ~fast /\ ~HasBlockAndState(db, b)
       /\ \/ "late" \in env /\ b \in Late \ db.header /\ parent[b] \in db.header
          \/ ~HasBlockAndState(db, parent[b]) /\ parent[b] \in ToSet(mem.future)
    THEN {[Run EXCEPT !.mem = AddFuture(@, b)]}
    ELSE {}

-----------------------------------------------------------------------------
(* Fast sync: headers first, then bodies and receipts, then a head with state *)

\* HeaderChain.WriteHeader, when h becomes the head header.
WriteCanonicalHeader(s, h) ==
    LET n     == number[h]
        taken == {k \in n + 1 .. MaxNumber : \A i \in n + 1 .. k : s.db.canon[i] # None}
        joint == CHOOSE j \in 0 .. n - 1 : /\ s.db.canon[j] = line[h][j]
                                           /\ \A k \in j + 1 .. n - 1 : s.db.canon[k] # line[h][k]
        gaps  == {k \in joint + 1 .. n - 1 : line[h][k] \notin s.db.header}
        Clear(t, k) == SetNumber(t, k, None)
        Route(t, k) == SetNumber(t, k, line[h][k])
        s1 == FoldLeft(Clear, s, Up(n + 1, n + Cardinality(taken)))
        s2 == FoldLeft(Route, s1, Down(n - 1, IF gaps = {} THEN joint + 1 ELSE Max(gaps)))
    IN IF gaps = {} THEN SetCurrentHeader(SetNumber(s2, n, h), h)
       ELSE [s2 EXCEPT !.halted = "panic"]

WriteHeader(s, h, canonical) ==
    LET s1 == Put(s, "td", s.db.td \cup {h})
        s2 == Put(s1, "header", s1.db.header \cup {h})
    IN IF canonical THEN WriteCanonicalHeader(s2, h) ELSE s2

InsertHeaderRuns(h) ==
    IF "fast" \in env /\ h \notin db.header /\ parent[h] \in db.header /\ parent[h] \in db.td
    THEN IF mem.header = None THEN {[Run EXCEPT !.halted = "panic"]}
         ELSE {WriteHeader(Run, h, c) :
            c \in IF Td[h] = Td[mem.header] THEN BOOLEAN ELSE {Td[h] > Td[mem.header]}}
    ELSE {}

\* Where a sync may begin: at a header that is known, not above the head fast block.  Only
\* in a "bare" environment is it one whose body was never brought.
findAncestor(c) ==
    /\ c \in db.header /\ number[c] <= number[mem.fast]
    /\ "bare" \in env \/ GetBlock(db, c)

\* InsertReceiptChain, for one block, first looks at what is known, without the lock.  The
\* downloader brings bodies in the order of their numbers, from the ancestor upwards.
ReceiptRuns(b) ==
    IF /\ fast /\ mem.job.at = "idle" /\ b \in db.header \ {Genesis}
       /\ parent[b] = mem.job.block \/ findAncestor(parent[b])
    THEN {[Run EXCEPT !.mem.job = [at |-> IF GetBlock(db, b) THEN "head" ELSE "write", block |-> b]]}
    ELSE {}

\* Mutant of BatchRuns: the last, incomplete batch is not flushed.
BatchRunsUnflushed ==
    IF mem.job.at # "write" THEN {} ELSE {[Run EXCEPT !.mem.job.at = "head"]}

\* Then a batch with the body, the receipts and the lookups is written.
BatchRuns ==
    LET b == mem.job.block
        d == [db EXCEPT !.body = @ \cup {b}, !.lookup = WithLookups(db, b)]
    IN IF mem.job.at # "write" THEN {}
       ELSE {[Run EXCEPT !.db = d, !.past = @ \cup {d}, !.mem.job.at = "head"]}

\* The head fast block moves to b if that is heavier; b has no difficulty any more if a
\* rewind has occurred.
MoveFast(s, b) ==
    IF b \notin s.db.td THEN s
    ELSE IF s.mem.fast \notin s.db.td THEN [s EXCEPT !.halted = "panic"]
    ELSE IF Td[s.mem.fast] < Td[b] THEN [Put(s, "headFast", b) EXCEPT !.mem.fast = b] ELSE s

\* Then, under the lock, the head fast block moves.  The pivot, whose state was synced
\* before, is then to be committed.
FastHeadRuns ==
    IF mem.job.at # "head" THEN {}
    ELSE {[MoveFast(Run, mem.job.block) EXCEPT !.mem.job.at = p] :
            p \in {"idle"} \cup (IF mem.job.block \in db.state THEN {"pivot"} ELSE {})}

\* FastSyncCommitHead checks the pivot, without the lock, and then makes it the head block:
\* only the memory learns of it.
CheckHeadRuns ==
    IF mem.job.at # "pivot" THEN {}
    ELSE {[Run EXCEPT !.mem.job = IF HasBlockAndState(db, @.block) THEN [@ EXCEPT !.at = "commit"]
                                  ELSE Idle]}

CommitHeadRuns ==
    IF mem.job.at # "commit" THEN {}
    ELSE {[Run EXCEPT !.mem.block = mem.job.block, !.mem.job = Idle]}

\* The state of b has been downloaded, root last.  (downloader.stateSync)
StateRuns(b) ==
    IF fast /\ b \in db.header \ db.state
    THEN {Put(Run, "state", db.state \cup {b})} ELSE {}

-----------------------------------------------------------------------------
(* Rewinding *)

\* Mutant of LoadHeads: the head fast block is only set when there is one on disk.
LoadHeadsNoFast(s) ==
    LET b == s.db.headBlock
        h == IF s.db.headHeader \in s.db.header THEN s.db.headHeader ELSE b
        f == IF GetBlock(s.db, s.db.headFast) THEN s.db.headFast ELSE s.mem.fast
        t == SetCurrentHeader(s, h)
    IN [t EXCEPT !.mem.block = b, !.mem.fast = f]

\* loadLastState, when the head block and its state are there.
LoadHeads(s) ==
    LET b == s.db.headBlock
        h == IF s.db.headHeader \in s.db.header THEN s.db.headHeader ELSE b
        f == IF GetBlock(s.db, s.db.headFast) THEN s.db.headFast ELSE b
        t == SetCurrentHeader(s, h)
    IN [t EXCEPT !.mem.block = b, !.mem.fast = f]

\* HeaderChain.SetHead, with the callback that deletes the bodies.
RewindHeaders(s, n) ==
    LET cur  == s.mem.header
        top  == IF cur = None THEN 0 ELSE number[cur]
        gaps == {k \in n + 1 .. top : line[cur][k] \notin s.db.header}
        low  == IF gaps = {} THEN n + 1 ELSE Max(gaps) + 1
        Del(t, k) == Delete(Delete(Delete(t, "body", line[cur][k]), "header", line[cur][k]),
                            "td", line[cur][k])
        Clear(t, k) == SetNumber(t, k, None)
    IN SetCurrentHeader(FoldLeft(Clear, FoldLeft(Del, s, Down(top, low)), Down(top, n + 1)),
                        IF cur # None /\ top <= n THEN cur
                        ELSE IF cur # None /\ gaps = {} /\ line[cur][n] \in s.db.header
                             THEN line[cur][n] ELSE Genesis)

\* Mutant of Rewound: the state of the new head is not looked at.
RewoundStateless(d, h, b, stateful) ==
    LET c == IF b # None /\ number[h] < number[b] THEN (IF GetBlock(d, h) THEN h ELSE None) ELSE b
    IN IF c = None THEN Genesis ELSE c

\* Mutant of Rewound: the head block stays where it is.
RewoundNot(d, h, b, stateful) == IF b = None \/ (stateful /\ b \notin d.state) THEN Genesis ELSE b

\* The head that SetHead leaves: b, or the head header's block, or the genesis.
Rewound(d, h, b, stateful) ==
    LET c == IF b # None /\ number[h] < number[b] THEN (IF GetBlock(d, h) THEN h ELSE None) ELSE b
    IN IF c = None \/ (stateful /\ c \notin d.state) THEN Genesis ELSE c

\* loadLastState at the end of SetHead.  Were the new head not there, it would call Reset,
\* which takes the lock that SetHead holds.
ReloadHeads(s) ==
    IF HasBlockAndState(s.db, s.mem.block) THEN LoadHeads(s) ELSE [s EXCEPT !.halted = "deadlock"]

\* The head block and the head fast block follow the headers down.
RewindHeads(s) ==
    LET b == Rewound(s.db, s.mem.header, s.mem.block, TRUE)
        f == Rewound(s.db, s.mem.header, s.mem.fast, FALSE)
    IN [Put(Put(s, "headBlock", b), "headFast", f)
            EXCEPT !.mem.block = b, !.mem.fast = f, !.mem.future = <<>>, !.mem.evicted = {},
                   !.mem.raced = @ \/ s.mem.job.at = "commit"]

SetHeadRun(s, n) == ReloadHeads(RewindHeads(RewindHeaders(s, n)))

SetHeadRuns(n) == IF "rewind" \in env THEN {SetHeadRun(Run, n)} ELSE {}

\* Rollback gives b back: each of the three heads that is b goes to its parent.  A parent
\* block that is not there ends the process; a header that is not there is the new head.
RollbackHeader(s, b) ==
    IF s.mem.header # b THEN s
    ELSE SetCurrentHeader(s, IF parent[b] \in s.db.header THEN parent[b] ELSE None)

RollbackFast(s, b) ==
    IF s.mem.fast # b THEN s
    ELSE IF ~GetBlock(s.db, parent[b]) THEN [s EXCEPT !.halted = "panic"]
    ELSE [Put(s, "headFast", parent[b]) EXCEPT !.mem.fast = parent[b]]

RollbackHead(s, b) ==
    IF s.halted # "no" \/ s.mem.block # b THEN s
    ELSE IF ~GetBlock(s.db, parent[b]) THEN [s EXCEPT !.halted = "panic"]
    ELSE [Put(s, "headBlock", parent[b]) EXCEPT !.mem.block = parent[b]]

RollbackStep(s, b) ==
    IF s.halted # "no" THEN s
    ELSE RollbackHead(RollbackFast(RollbackHeader(s, b), b), b)

\* The headers of tip's branch from lo upwards are given back, newest first.
RollbackRuns(tip, lo) ==
    IF {"fast", "rollback"} \subseteq env /\ tip \in db.header /\ lo \in 1 .. number[tip]
    THEN {FoldLeft(RollbackStep, Run, Branch(tip, lo - 1))}
    ELSE {}

-----------------------------------------------------------------------------
(* Starting *)

\* NewBlockChain on database d.  Without the head block or its state the chain is reset:
\* the header chain starts from the head block's header, or else from the genesis.
Restart(d) ==
    LET h  == IF d.headBlock \in d.header THEN d.headBlock ELSE Genesis
        s  == [db |-> d, past |-> {d}, halted |-> "no", mem |-> Started(None, h, None)]
        s1 == SetCurrentHeader(insert(SetHeadRun(s, 0), Genesis), Genesis)
    IN IF HasBlockAndState(d, d.headBlock) THEN LoadHeads(s)
       ELSE [s1 EXCEPT !.mem.block = Genesis, !.mem.fast = Genesis]

-----------------------------------------------------------------------------
Finish(r) ==
    /\ halted = "no"
    /\ db' = r.db
    /\ mem' = r.mem
    /\ halted' = r.halted
    /\ UNCHANGED env

InsertBlock(b) == /\ \E r \in InsertBlockRuns(b) : Finish(r)
                  /\ UNCHANGED fast
FutureBlock(b) == /\ \E r \in FutureBlockRuns(b) : Finish(r)
                  /\ UNCHANGED fast
InsertHeader(b) == /\ \E r \in InsertHeaderRuns(b) : Finish(r)
                   /\ UNCHANGED fast
InsertReceipts(b) == /\ \E r \in ReceiptRuns(b) : Finish(r)
                     /\ UNCHANGED fast
ReceiptsWritten == /\ \E r \in BatchRuns : Finish(r)
                   /\ UNCHANGED fast
FastHeadMoved == /\ \E r \in FastHeadRuns : Finish(r)
                 /\ UNCHANGED fast
StateSynced(b) == /\ \E r \in StateRuns(b) : Finish(r)
                  /\ UNCHANGED fast
FastSyncCheckHead == /\ \E r \in CheckHeadRuns : Finish(r)
                     /\ UNCHANGED fast
FastSyncCommitHead == /\ \E r \in CommitHeadRuns : Finish(r)
                      /\ fast' = FALSE
SetHeadBlock(n) == /\ \E r \in SetHeadRuns(n) : Finish(r)
                   /\ UNCHANGED fast
RollbackBlocks(tip, lo) == /\ \E r \in RollbackRuns(tip, lo) : Finish(r)
                           /\ UNCHANGED fast

\* What the process may be in the middle of.
Interruptible ==
    UNION {InsertBlockRuns(b) \cup InsertHeaderRuns(b) : b \in Offered[env]} \cup FastHeadRuns
        \cup UNION {SetHeadRuns(n) : n \in 0 .. MaxNumber}
        \cup UNION {RollbackRuns(tip, lo) : tip \in Offered[env], lo \in 1 .. MaxNumber} \cup {Run}

\* The process dies, between or inside operations, and starts again.
Crash ==
    /\ "crash" \in env
    /\ \E d \in UNION {r.past : r \in Interruptible} : \E r \in {Restart(d)} :
         /\ Finish(r)
         /\ fast' = ("fast" \in env /\ r.mem.block = Genesis)

BlockNext ==
    \/ \E b \in Offered[env] : \/ InsertBlock(b) \/ FutureBlock(b) \/ InsertHeader(b)
                               \/ InsertReceipts(b) \/ StateSynced(b)
    \/ ReceiptsWritten \/ FastHeadMoved \/ FastSyncCheckHead \/ FastSyncCommitHead
    \/ \E n \in 0 .. MaxNumber : SetHeadBlock(n)
    \/ \E tip \in Offered[env], lo \in 1 .. MaxNumber : RollbackBlocks(tip, lo)
    \/ Crash

BlockSpec == BlockInit /\ [][BlockNext]_blockVars

-----------------------------------------------------------------------------
(* Properties *)

\* Type correctness of the chain's database and memory.  In particular the three heads,
\* pointers in the code, are never nil, whatever the database was when the node started.
\* (Rollback makes the head header nil after a rewind; no environment has both.)
BlockTypeOK ==
    /\ \A f \in {"header", "body", "state", "td"} : db[f] \subseteq Block
    /\ db.canon \in [0 .. MaxNumber -> Block \cup {None}]
    /\ db.lookup \in [Tx -> Block \cup {None}]
    /\ {db.headBlock, db.headHeader, db.headFast} \subseteq Block
    /\ {mem.block, mem.header, mem.fast} \subseteq Block
    /\ mem.future \in Seq(Block) /\ Len(mem.future) <= maxFutureBlocks
    /\ mem.evicted \subseteq Block /\ mem.raced \in BOOLEAN
    /\ mem.job.at \in {"idle", "write", "head", "pivot", "commit"}
    /\ mem.job.block \in Block \cup {None}
    /\ fast \in BOOLEAN /\ halted \in {"no", "panic", "deadlock"} /\ env \in Envs

\* The canonical numbers up to the head block spell the head block's chain, through every
\* reorg and rewind: GetBlockByNumber returns the blocks of one chain.  (Not while a fast
\* sync's headers number blocks of their own, and not after a crash inside a reorg.)
BlocksAreChain ==
    env \cap {"fast", "crash"} = {} =>
        \A n \in 0 .. number[mem.block] : db.canon[n] = line[mem.block][n]

\* The fork choice of WriteBlockAndState: in whatever order blocks come in, the head is one
\* of the heaviest blocks that were executed, and among those one of the shortest.
HeaviestBlock ==
    env \subseteq {"late"} =>
        \A b \in Block : HasBlockAndState(db, b) =>
            \/ Td[b] < Td[mem.block]
            \/ Td[b] = Td[mem.block] /\ number[b] >= number[mem.block]

\* A transaction's lookup entry leads to the canonical block that contains it, and there is
\* none for a transaction that no canonical block contains: reorg moves the entries of
\* transactions that are in both branches and deletes those of the ones it dropped.
LookupExact ==
    env \subseteq {"late"} =>
        \A t \in Tx : db.lookup[t] =
            LET in == {n \in 1 .. number[mem.block] : t \in txs[line[mem.block][n]]}
            IN IF in = {} THEN None ELSE line[mem.block][Max(in)]


\* The three heads are what the operations need them to be, also right after a crash or a
\* rewind.  The head header and the head fast block are known, with the difficulties that
\* WriteHeader and InsertReceiptChain compare: a rewind between the writing of bodies and
\* the moving of the head is noticed ("Rewind may have occurred, skip in that case").  The
\* head block also has its body and its state (SetHead: "ensuring we don't end up with a
\* stateless head block"), unless a rewind fell between the check and the commit of
\* FastSyncCommitHead, or Rollback moved the head, which does not look for the state.
HeadsUsable ==
    /\ \A b \in {mem.header, mem.fast} : b \in db.header /\ b \in db.td
    /\ ("rollback" \notin env /\ ~mem.raced) => HasBlockAndState(db, mem.block) /\ mem.block \in db.td

\* The chains below the head block and below the head fast block are stored without a hole,
\* bodies and difficulties, when every sync resumes at an ancestor that has its body.
\* (A rewind between the steps of a fast sync can take blocks away from under it.)
HeadsComplete ==
    ~({"fast", "rewind"} \subseteq env) /\ "bare" \notin env =>
        \A b \in {mem.block, mem.fast} : \A n \in 0 .. number[b] :
            GetBlock(db, line[b][n]) /\ line[b][n] \in db.td

\* No operation blocks on a lock it holds itself (SetHead through loadLastState and Reset)
\* or dereferences a block that is not there (Rollback, WriteHeader, WriteBlockAndState).
\* (Headers of a fast sync that a rewind or a reset leaves behind can make WriteHeader do
\* so, and a sync that resumes at a header without a body can make Rollback do so.)
NeverHalts ==
    (\A e \in {{"fast", "rewind"}, {"fast", "crash"}, {"bare", "rollback"}} : ~(e \subseteq env))
        => halted = "no"

\* blockchain.go:290 "Make sure that both the block as well at its state trie exists": the
\* block that FastSyncCommitHead makes the head is one that the database has.
CommittedHeadExists == HasBlockAndState(db, mem.block)

\* The database's head block is stored, with its state, after each single write: whenever
\* the process dies it starts again with the head it had or was about to have.
HeadAlwaysStored == \A r \in Interruptible : \A d \in r.past : HasBlockAndState(d, d.headBlock)

\* The head header and the head fast block are never behind the head block, and the head
\* block is on their chains.  (insert: they are reset to the new head "if they are older or
\* if they are on a different side chain")
HeaderNotBehind ==
    \A h \in {mem.header, mem.fast} : /\ number[h] >= number[mem.block]
                                      /\ line[h][number[mem.block]] = mem.block

=============================================================================
