------------------------------- MODULE TxPool -------------------------------
(***************************************************************************)
(* The transaction pool (core/tx_pool.go) and its journal of local         *)
(* transactions (core/tx_journal.go).                                      *)
(*                                                                         *)
(* Every entry point holds pool.mu from start to end, so each is one       *)
(* action.  The pool is a record that the code's methods transform:        *)
(*                                                                         *)
(*   pending, queue   the transactions of all the per account lists: list  *)
(*                    a of pending is Of(a, pending), present in the       *)
(*                    code's map exactly when it is not empty              *)
(*   all              the hash table of known transactions                 *)
(*   nonce            the virtual nonces of pendingState                   *)
(*   beats            the accounts with a heartbeat, least recent first    *)
(*   locals           the accounts exempt from eviction                    *)
(*   journal          the transactions in the journal file                 *)
(*                                                                         *)
(* Where the code depends on the order of a Go map or on a tie in a heap   *)
(* the operator returns the SET of the pools that can result.              *)
(***************************************************************************)
EXTENDS Integers, Sequences, FiniteSets, FiniteSetsExt, SequencesExt

CONSTANTS
    Account,        \* the sending accounts
    Config,         \* the pools that are explored; the constants below are functions of it
    AccountSlots, GlobalSlots, AccountQueue, GlobalQueue,       \* TxPoolConfig
    Tx,             \* the transactions there are: [from, nonce, price, cost]
    Batch,          \* the sequences of them that peers deliver
    LocalAccount,   \* the accounts whose transactions are submitted with AddLocal
    Mined,          \* the transactions that the explored blocks contain
    MaxHeight,      \* bound: length of the chains explored
    Price,          \* the thresholds SetGasPrice is called with
    Balance,        \* the balances that accounts can have: a set of functions
    PriceLimit, PriceBump,
    ReorgDepth      \* the depth beyond which reset reinjects nothing (64)

ASSUME TxAssumption ==
    \A k \in Config : \A t \in Tx[k] :
        t.from \in Account /\ t.nonce \in Nat /\ t.price \in Nat /\ t.cost \in Nat

ASSUME LimitAssumption ==
    /\ PriceLimit \in Nat \ {0} /\ PriceBump \in Nat \ {0}
    /\ \A f \in {AccountSlots, GlobalSlots} : f \in [Config -> Nat \ {0}]
    /\ \A f \in {AccountQueue, GlobalQueue, MaxHeight} : f \in [Config -> Nat]

VARIABLES
    pool,           \* the pool, see above
    chain,          \* the blocks below the pool's head, each a sequence of Tx
    balance,        \* the balances in the head state
    gasPrice,       \* the minimum price for remote transactions
    forked,         \* history: whether the chain left a branch for another
    config          \* pool.config, and with it the surroundings of the pool

vars == <<pool, chain, balance, gasPrice, forked, config>>

-----------------------------------------------------------------------------
(* Lists of transactions *)

Of(a, S) == {t \in S : t.from = a}

\* The transaction of S that has the sender and nonce of t, if there is one.
Slot(t, S) == {o \in S : o.from = t.from /\ o.nonce = t.nonce}

Nonces(S) == {t.nonce : t \in S}

\* The price check of txList.Add: t may take the place of o.
Bumps(t, o) == /\ t.price > o.price
               /\ t.price >= (o.price * (100 + PriceBump)) \div 100

Beaten(t, S) == \E o \in Slot(t, S) : ~Bumps(t, o)

\* Cap: the n transactions of a list with the lowest nonces.
Lowest(S, n) == {t \in S : Cardinality({o \in S : o.nonce < t.nonce}) < n}

\* Ready: the run of consecutive nonces at the front of a list, provided that it
\* starts no later than start.
Ready(S, start) ==
    {t \in S : /\ Min(Nonces(S)) <= start
               /\ Min(Nonces(S)) .. t.nonce \subseteq Nonces(S)}

\* Forward and Filter: what stays of a list in the state s.  The gas limit of the
\* head (currentMaxGas), which they and validateTx also compare with, is taken to
\* be high enough for every transaction.
Valid(S, s) == {t \in S : t.nonce >= s.nonce[t.from] /\ t.cost <= s.balance[t.from]}

\* Mutant: forgets that local accounts are exempt.
RemoteAll(p) == p.all

Remote(p) == {t \in p.all : t.from \notin p.locals}

\* Orders in which a heap of the prices of S can return its first n members.
RECURSIVE Cheapest(_, _)
Cheapest(S, n) ==
    IF n = 0 \/ S = {} THEN {<<>>}
    ELSE UNION {{<<t>> \o rest : rest \in Cheapest(S \ {t}, n - 1)} :
                   t \in {t \in S : \A o \in S : t.price <= o.price}}

-----------------------------------------------------------------------------
(* Moving transactions between the lists *)

beat(beats, a) == Append(Remove(beats, a), a)

\* Mutant: the replaced transaction stays in the queue.
enqueueBeside(p, S) ==
    LET in == {t \in S : ~Beaten(t, p.queue)}
    IN  [p EXCEPT !.queue = @ \cup in, !.all = @ \cup in]

\* enqueueTx for every member of S, which has one transaction per nonce.  One that
\* a queued transaction beats is not inserted, and nothing else happens to it.
enqueueTx(p, S) ==
    LET in  == {t \in S : ~Beaten(t, p.queue)}
        old == UNION {Slot(t, p.queue) : t \in in}
    IN  [p EXCEPT !.queue = (@ \ old) \cup in, !.all = (@ \ old) \cup in]

\* Mutant: the virtual nonce ends up one below the transaction that was removed.
LowerBelow(nonce, a, n) == [nonce EXCEPT ![a] = Min({@, n - 1})]

\* The virtual nonce of a falls back to n, the nonce of a transaction that was removed.
LowerTo(nonce, a, n) == [nonce EXCEPT ![a] = Min({@, n})]


\* removeTx postpones what follows t unless t is the first of the pending list.
removeTx(p, t) ==
    LET a     == t.from
        list  == Of(a, p.pending)
        above == {o \in list : o.nonce > t.nonce}
        rest  == {o \in list : o.nonce < t.nonce}
        q     == [p EXCEPT !.all = @ \ {t}]
        cut   == [q EXCEPT !.pending = rest \cup (@ \ list), !.nonce = LowerTo(@, a, t.nonce)]
    IN  CASE t \notin p.all -> p
          [] t \in p.all /\ Slot(t, list) = {} -> [q EXCEPT !.queue = @ \ Slot(t, @)]
          [] t \in p.all /\ Slot(t, list) # {} /\ rest = {} ->
                [cut EXCEPT !.beats = Remove(@, a)]
          [] OTHER -> enqueueTx(cut, above)

removeAll(p, txs) == FoldLeft(removeTx, p, txs)

\* The body of promoteExecutables' first loop, with the calls of promoteTx.
promoteAccount(p, s, a) ==
    LET list   == Of(a, p.queue)
        kept   == Valid(list, s)
        ready  == Ready(kept, p.nonce[a])
        up     == {t \in ready : ~Beaten(t, p.pending)}
        old    == UNION {Slot(t, p.pending) : t \in up}
        future == IF a \in p.locals THEN kept \ ready
                  ELSE Lowest(kept \ ready, AccountQueue[config])
    IN  [p EXCEPT !.queue   = (@ \ list) \cup future,
                  !.pending = (@ \ old) \cup up,
                  !.all     = @ \ (old \cup (list \ (up \cup future))),
                  !.nonce   = IF up = {} THEN @ ELSE [@ EXCEPT ![a] = Max(Nonces(up)) + 1],
                  !.beats   = IF up = {} THEN @ ELSE beat(@, a)]

-----------------------------------------------------------------------------
(* The limits on pending transactions and on queued ones *)

Shorten(len, A, n) == [a \in Account |-> IF a \in A THEN len[a] - n ELSE len[a]]

\* Mutant: cuts until the overflow is gone, whatever is guaranteed.
RoundsAll(over, k, gap) == (over + k - 1) \div k

\* How often each of k lists loses a transaction before the overflow is gone or the
\* lists are gap shorter.
Rounds(over, k, gap) == Min({gap, (over + k - 1) \div k})

\* The lengths of the pending lists after the offenders were cut.  The offenders so
\* far all have the same length; the next is the longest of the other spammers.
RECURSIVE Equalize(_, _, _)
Equalize(len, offenders, spammers) ==
    LET over  == MapThenSumSet(LAMBDA a : len[a], Account) - GlobalSlots[config]
        level == Max({len[a] : a \in offenders})
        cut(next) == IF offenders = {} THEN len
                     ELSE Shorten(len, offenders, Rounds(over, Cardinality(offenders), level - next))
    IN  CASE over <= 0 -> {len}
          [] over > 0 /\ spammers = {} -> {cut(AccountSlots[config])}
          [] OTHER -> UNION {Equalize(cut(len[a]), offenders \cup {a}, spammers \ {a}) :
                                a \in {a \in spammers : \A b \in spammers : len[b] <= len[a]}}

capPending(p) ==
    LET len == [a \in Account |-> Cardinality(Of(a, p.pending))]
        trim(new) ==
            LET drop == p.pending \ UNION {Lowest(Of(a, p.pending), new[a]) : a \in Account}
            IN  [p EXCEPT !.pending = @ \ drop, !.all = @ \ drop,
                          !.nonce = [a \in Account |-> Min({@[a]} \cup Nonces(Of(a, drop)))]]
    IN  {trim(new) : new \in Equalize(len, {}, {a \in Account \ p.locals : len[a] > AccountSlots[config]})}

\* Position of an account in the order of the heartbeats; none is the zero time.
Heartbeat(p, a) == IF a \in Range(p.beats) THEN CHOOSE i \in DOMAIN p.beats : p.beats[i] = a ELSE 0

\* The loop that drops queued transactions, from the end of the sorted accounts.
RECURSIVE dropQueued(_, _, _)
dropQueued(p, drop, addresses) ==
    LET last == {a \in addresses : \A b \in addresses : Heartbeat(p, b) <= Heartbeat(p, a)}
        list(a) == Of(a, p.queue)
        gone(a) == list(a) \ Lowest(list(a), Cardinality(list(a)) - drop)
        left(a) == drop - Cardinality(gone(a))
    IN  IF drop <= 0 \/ addresses = {} THEN {p}
        ELSE UNION {dropQueued(removeAll(p, SetToSeq(gone(a))), left(a), addresses \ {a}) : a \in last}

\* Mutant: one queued transaction too many.
capQueueLate(p) ==
    dropQueued(p, Cardinality(p.queue) - GlobalQueue[config] - 1,
               {t.from : t \in p.queue} \ p.locals)

capQueue(p) ==
    dropQueued(p, Cardinality(p.queue) - GlobalQueue[config],
               {t.from : t \in p.queue} \ p.locals)

\* The accounts are visited in any order, which the heartbeats show.
promoteExecutables(p, s, accounts) ==
    LET visit(order) == FoldLeft(LAMBDA q, a : promoteAccount(q, s, a), p, order)
    IN  UNION {UNION {capQueue(q) : q \in capPending(visit(order))} :
                  order \in SetToSeqs(accounts)}

-----------------------------------------------------------------------------
(* Adding transactions *)

\* Mutant: the pool is full one transaction later.
FullLate(p) == Cardinality(p.all) > GlobalSlots[config] + GlobalQueue[config]

Full(p) == Cardinality(p.all) >= GlobalSlots[config] + GlobalQueue[config]

\* The parts of validateTx that depend on the pool or on the chain.
validateTx(p, s, t, local) ==
    /\ local \/ t.from \in p.locals \/ gasPrice <= t.price
    /\ Valid({t}, s) # {}

Underpriced(p, t) == t.from \notin p.locals /\ \E o \in p.all : t.price <= o.price /\ \A x \in p.all : o.price <= x.price

\* Making room.  A demoted transaction has several points in the price heap, so
\* that fewer than count different transactions may be discarded.
Discard(p) ==
    LET count == Cardinality(p.all) - (GlobalSlots[config] + GlobalQueue[config] - 1)
    IN  UNION {{removeAll(p, drop) : drop \in Cheapest(Remote(p), n)} : n \in 1 .. count}

journalTx(p, t) == IF t.from \in p.locals THEN [p EXCEPT !.journal = @ \cup {t}] ELSE p

Replaced(p, t) ==
    journalTx([p EXCEPT !.pending = (@ \ Slot(t, @)) \cup {t},
                        !.all = (@ \ Slot(t, p.pending)) \cup {t}], t)

Enqueued(p, t, local) ==
    LET q == enqueueTx(p, {t})
    IN  journalTx(IF local THEN [q EXCEPT !.locals = @ \cup {t.from}] ELSE q, t)

\* The end of add: replace a pending transaction, or enqueue.  new says that the
\* sender needs promotion, err that the transaction was refused.
insert(p, t, local) ==
    LET direct == Slot(t, p.pending) # {}
    IN  CASE Beaten(t, IF direct THEN p.pending ELSE p.queue) ->
                [pool |-> p, new |-> FALSE, err |-> TRUE]
          [] direct /\ ~Beaten(t, p.pending) ->
                [pool |-> Replaced(p, t), new |-> FALSE, err |-> FALSE]
          [] OTHER ->
                [pool |-> Enqueued(p, t, local), new |-> Slot(t, p.queue) = {}, err |-> FALSE]

Refused(p) == [pool |-> p, new |-> FALSE, err |-> TRUE]

add(p, s, t, local) ==
    CASE t \in p.all \/ ~validateTx(p, s, t, local) -> {Refused(p)}
      [] t \notin p.all /\ Full(p) /\ Underpriced(p, t) -> {Refused(p)}
      [] OTHER -> {insert(q, t, local) : q \in IF Full(p) THEN Discard(p) ELSE {p}}

\* addTxsLocked; addTx is the case of one transaction.
addTxsLocked(p, s, txs, local) ==
    LET step(acc, t) ==
            UNION {{<<r.pool, x[2] \cup (IF r.new THEN {t.from} ELSE {})>> :
                       r \in add(x[1], s, t, local)} : x \in acc}
    IN  UNION {IF x[2] = {} THEN {x[1]} ELSE promoteExecutables(x[1], s, x[2]) :
                  x \in FoldLeft(step, {<<p, {}>>}, txs)}

-----------------------------------------------------------------------------
(* Following the chain *)

NonceAt(c, a) == Cardinality(Of(a, Range(FlattenSeq(c))))

\* The account state after the blocks of c, with balances b.
StateAt(c, b) == [nonce |-> [a \in Account |-> NonceAt(c, a)], balance |-> b]

State == StateAt(chain, balance)

\* Mutant: what follows an unpayable transaction stays pending.
demoteOnlyUnpayable(p, s, a) ==
    LET list  == Of(a, p.pending)
        front == Valid(list, s)
        stay  == IF s.nonce[a] \in Nonces(front) THEN front ELSE {}
        q     == [p EXCEPT !.pending = (@ \ list) \cup stay, !.all = @ \ (list \ front),
                           !.beats = IF list # {} /\ stay = {} THEN Remove(@, a) ELSE @]
    IN  enqueueTx(q, front \ stay)

\* Mutant: a list that starts above the account's nonce stays pending.
demoteNoGap(p, s, a) ==
    LET list   == Of(a, p.pending)
        fresh  == {t \in list : t.nonce >= s.nonce[a]}
        drops  == fresh \ Valid(fresh, s)
        after  == {t \in fresh \ drops : \E d \in drops : d.nonce < t.nonce}
        stay   == fresh \ (drops \cup after)
        q      == [p EXCEPT !.pending = (@ \ list) \cup stay,
                            !.all     = @ \ (list \ Valid(list, s)),
                            !.beats   = IF list # {} /\ stay = {} THEN Remove(@, a) ELSE @]
    IN  enqueueTx(q, after)

demoteAccount(p, s, a) ==
    LET list   == Of(a, p.pending)
        fresh  == {t \in list : t.nonce >= s.nonce[a]}
        drops  == fresh \ Valid(fresh, s)
        after  == {t \in fresh \ drops : \E d \in drops : d.nonce < t.nonce}
        front  == fresh \ (drops \cup after)
        gap    == front # {} /\ s.nonce[a] \notin Nonces(front)
        stay   == IF gap THEN {} ELSE front
        q      == [p EXCEPT !.pending = (@ \ list) \cup stay,
                            !.all     = @ \ (list \ Valid(list, s)),
                            !.beats   = IF list # {} /\ stay = {} THEN Remove(@, a) ELSE @]
    IN  enqueueTx(q, after \cup (front \ stay))

demoteUnexecutables(p, s) ==
    FoldLeft(LAMBDA q, a : demoteAccount(q, s, a), p, SetToSeq(Account))

\* Mutant: only the old head block is given back.
ReinjectHead(old, new) == IF old = <<>> THEN <<>> ELSE Last(old)

\* The transactions of the old branch, from its head down, that the new one lacks.
\* Every block and state of the two branches is taken to be stored: without one of
\* them reset returns early and the pool stays at its old state.
Reinject(old, new) ==
    LET ancestor  == Len(LongestCommonPrefix({old, new}))
        discarded == FlattenSeq(Reverse(SubSeq(old, ancestor + 1, Len(old))))
        included  == Range(FlattenSeq(SubSeq(new, ancestor + 1, Len(new))))
        deep      == Max({Len(old) - Len(new), Len(new) - Len(old)}) > ReorgDepth
        child     == Len(new) > 0 /\ Front(new) = old
    IN  IF child \/ deep THEN <<>> ELSE SelectSeq(discarded, LAMBDA t : t \notin included)

\* The pools after the reinjection and before the demotion.
Reinjected(p, s, txs) == addTxsLocked([p EXCEPT !.nonce = s.nonce], s, txs, FALSE)

UpdateNonces(p) ==
    [p EXCEPT !.nonce = [a \in Account |-> IF Of(a, p.pending) = {} THEN @[a]
                                           ELSE Max(Nonces(Of(a, p.pending))) + 1]]

\* Mutant: the queue is not looked at again.
resetNoPromote(p, s, txs) ==
    {UpdateNonces(demoteUnexecutables(q, s)) : q \in Reinjected(p, s, txs)}

reset(p, s, txs) ==
    UNION {LET r == UpdateNonces(demoteUnexecutables(q, s))
           IN  promoteExecutables(r, s, {t.from : t \in r.queue}) : q \in Reinjected(p, s, txs)}

\* The chains of the exploration: at most one transaction in a block.
Block(k) == {<<>>} \cup {<<t>> : t \in Mined[k]}

ValidChain(c) ==
    \A i \in 1 .. Len(c) : \A t \in Range(c[i]) :
        t.nonce = NonceAt(SubSeq(c, 1, i - 1), t.from)

Chains == [k \in Config |-> {c \in BoundedSeq(Block(k), MaxHeight[k]) : ValidChain(c)}]

-----------------------------------------------------------------------------
Empty(s) == [pending |-> {}, queue |-> {}, all |-> {}, nonce |-> s.nonce,
             beats |-> <<>>, locals |-> {}, journal |-> {}]

Init == /\ chain = <<>>
        /\ config \in Config
        /\ balance \in Balance[config]
        /\ gasPrice = PriceLimit
        /\ pool = Empty(StateAt(<<>>, balance))
        /\ forked = FALSE

AddLocal(t) == /\ pool' \in addTxsLocked(pool, State, <<t>>, TRUE)
               /\ UNCHANGED <<chain, balance, gasPrice, forked, config>>

AddRemotes(txs) == /\ pool' \in addTxsLocked(pool, State, txs, FALSE)
                   /\ UNCHANGED <<chain, balance, gasPrice, forked, config>>

SetGasPrice(price) ==
    LET under == {t \in Remote(pool) : t.price < price}
    IN  /\ gasPrice' = price
        /\ pool' \in {removeAll(pool, drop) : drop \in Cheapest(under, Cardinality(under))}
        /\ UNCHANGED <<chain, balance, forked, config>>

\* The eviction tick.  The n least recent heartbeats are older than Lifetime, and so
\* is the zero time that the code reads for an account without a heartbeat.
Evict(n) ==
    LET expired == {a \in Account \ pool.locals : Heartbeat(pool, a) <= n}
    IN  /\ pool' = removeAll(pool, SetToSeq({t \in pool.queue : t.from \in expired}))
        /\ UNCHANGED <<chain, balance, gasPrice, forked, config>>

local(p) == {t \in p.pending \cup p.queue : t.from \in p.locals}

RotateJournal == /\ pool' = [pool EXCEPT !.journal = local(pool)]
                 /\ UNCHANGED <<chain, balance, gasPrice, forked, config>>

\* A chain head event: the chain moved from chain to c, and the balances with it.
NewHead(c, b) ==
    /\ ~IsPrefix(c, chain)
    /\ chain' = c
    /\ balance' = b
    /\ pool' \in reset(pool, StateAt(c, b), Reinject(chain, c))
    /\ forked' = (forked \/ ~IsPrefix(chain, c))
    /\ UNCHANGED <<gasPrice, config>>

\* Mutant: the entries are added like a peer's.
LoadedRemote(p, s, txs) ==
    FoldLeft(LAMBDA acc, t : UNION {addTxsLocked(q, s, <<t>>, FALSE) : q \in acc}, {p}, txs)

\* The process stops at any moment and NewTxPool loads the journal, whose entries
\* each go through AddLocal, and rewrites it.
Loaded(p, s, txs) ==
    FoldLeft(LAMBDA acc, t : UNION {addTxsLocked(q, s, <<t>>, TRUE) : q \in acc}, {p}, txs)

Restart ==
    /\ gasPrice' = PriceLimit
    /\ \E txs \in SetToSeqs(pool.journal) :
          \E q \in Loaded(Empty(State), State, txs) : pool' = [q EXCEPT !.journal = local(q)]
    /\ UNCHANGED <<chain, balance, forked, config>>

Next == \/ \E a \in LocalAccount[config] : \E t \in Of(a, Tx[config]) : AddLocal(t)
        \/ \E txs \in Batch[config] : AddRemotes(txs)
        \/ \E price \in Price[config] : SetGasPrice(price)
        \/ \E n \in 0 .. Len(pool.beats) : Evict(n)
        \/ RotateJournal
        \/ \E c \in Chains[config], b \in Balance[config] : NewHead(c, b)
        \/ Restart

Spec == Init /\ [][Next]_vars

-----------------------------------------------------------------------------
(* Properties *)

\* The shape of the pool's data (TxPool struct).
TypeOK ==
    /\ config \in Config
    /\ \A S \in {pool.pending, pool.queue, pool.all, pool.journal} : S \subseteq Tx[config]
    /\ pool.locals \subseteq Account
    /\ pool.nonce \in [Account -> Nat]
    /\ Range(pool.beats) \subseteq Account /\ IsInjective(pool.beats)
    /\ chain \in Chains[config] /\ balance \in Balance[config]
    /\ gasPrice \in Nat /\ forked \in BOOLEAN

\* Whatever is listed is known, and no two listed transactions of an account compete
\* for a nonce, not even one pending and one queued: removeTx looks a transaction up
\* in the pending list by its nonce alone.  (It still removes the wrong one for a
\* transaction that is known and not listed, see KnownIsListed.)
OneTxPerNonce ==
    LET listed == pool.pending \cup pool.queue
    IN  /\ listed \subseteq pool.all
        /\ pool.pending \cap pool.queue = {}
        /\ \A t, u \in listed : t # u => (t.from # u.from \/ t.nonce # u.nonce)

\* What the miner takes from Pending() is executable as long as the chain only grew: an
\* account's pending nonces run without a gap from its nonce in the head state to its
\* virtual nonce.  (The lists of pending are "strict", tx_list.go:223.)
PendingExecutable ==
    ~forked => \A a \in Account :
                  Nonces(Of(a, pool.pending)) = State.nonce[a] .. (pool.nonce[a] - 1)

\* After a reorg too the miner can start on every pending list: it begins with the
\* account's nonce in the head state, an account without one is given no nonce above
\* that, and each transaction alone is payable (demoteUnexecutables, and the order of
\* the steps of reset).
PendingStarts ==
    /\ \A a \in Account :
          LET list == Of(a, pool.pending)
          IN  IF list = {} THEN pool.nonce[a] <= State.nonce[a]
              ELSE Min(Nonces(list)) = State.nonce[a]
    /\ \A t \in pool.pending : t.cost <= balance[t.from]

Senders(S) == {t.from : t \in S}


\* No limit of the pool can ever bind.
Roomy == \A limit \in {GlobalSlots, AccountQueue, GlobalQueue} : Cardinality(Tx[config]) <= limit[config]

\* No executable transaction is left behind in the queue: between two operations a
\* queued transaction waits for a nonce that neither the pool nor the head state has
\* (promoteExecutables).  Where the limits bind, only until the first reorg: when the
\* reinjection makes room by discarding a mined transaction, removeTx lowers the
\* virtual nonce below the new state's and nothing raises it again.
QueueWaits ==
    (Roomy \/ ~forked)
        => \A t \in pool.queue : t.nonce > Max({pool.nonce[t.from], State.nonce[t.from]})

\* The part of the pool that is not local never outgrows the two limits together,
\* whatever is demoted, replaced, reinjected or orphaned (add, Discard).
RemoteBound == Cardinality(Remote(pool)) <= GlobalSlots[config] + GlobalQueue[config]

\* Each reset and each new transaction leaves the limits of promoteExecutables in
\* force: too many queued ones are all local, and too many pending ones leave every
\* remote account at its guaranteed number of slots or below.
LimitsEnforced ==
    [][(chain' # chain \/ \E t \in pool'.all \ pool.all : Slot(t, pool.all) = {})
          => /\ \/ Cardinality(pool'.queue) <= GlobalQueue[config]
                \/ Senders(pool'.queue) \subseteq pool'.locals
             /\ \/ Cardinality(pool'.pending) <= GlobalSlots[config]
                \/ \A a \in Account \ pool'.locals : Cardinality(Of(a, pool'.pending)) <= AccountSlots[config]]_vars

\* The cut of the pending lists leaves every account the slots that it is guaranteed
\* (AccountSlots): where the price plays no part, arrivals never push an account
\* below them.
SlotsGuaranteed ==
    [][(chain' = chain /\ gasPrice' = gasPrice /\ Cardinality(pool.all) + 2 <= GlobalSlots[config] + GlobalQueue[config] /\ ~Restart)
          => \A a \in Account : Cardinality(Of(a, pool'.pending)) >= Min({AccountSlots[config], Cardinality(Of(a, pool.pending))})]_vars

\* A transaction of a local account leaves the pool only because it was mined or
\* outrun, because the account cannot pay for it, or for a better one of its nonce:
\* never for its price, its age or the limits (accountSet locals).
LocalsKept ==
    [][~Restart => \A t \in pool.all \ pool'.all :
          t.from \in pool.locals =>
              \/ Valid({t}, State') = {}
              \/ \E o \in Slot(t, pool'.all) : Bumps(o, t)]_vars

\* The journal does its work: local transactions that were written to it are in the
\* pool again after a restart, in whichever order they are read back, as long as
\* they fit into the pool (txJournal, "to survive node restarts").
LocalsSurviveRestart ==
    [][(Restart /\ Cardinality(pool.journal) <= GlobalSlots[config] + GlobalQueue[config])
          => local(pool) \cap pool.journal \subseteq pool'.all \cap pool'.journal]_vars

\* A reorg loses no transaction: one of the abandoned branch that the new branch
\* does not contain, is still valid and has an acceptable price, is in the pool
\* again, or a transaction of its nonce that it cannot replace is (reset, reinject;
\* within the depth limit, for a pool in which there is room for every transaction).
ReorgKeepsTxs ==
    [][(chain' # chain /\ Roomy) =>
          \A t \in Range(FlattenSeq(chain)) \ Range(FlattenSeq(chain')) :
              (Valid({t}, State') # {} /\ t.price >= gasPrice)
                  => \E o \in Slot(t, pool'.all) : o = t \/ ~Bumps(t, o)]_vars

-----------------------------------------------------------------------------
(* What comments of the code say and the code does not do *)

\* tx_pool.go:860 "removeTx removes a single transaction from the queue, moving all
\* subsequent transactions back to the future queue": every known transaction is
\* listed as pending or as queued.
KnownIsListed == pool.all = pool.pending \cup pool.queue

\* core/tx_pool_test.go:104 "Ensure the next nonce to assign is the correct one": the
\* virtual nonce of an account with pending transactions follows the last of them.
NextNonce ==
    \A a \in Senders(pool.pending) : pool.nonce[a] = Max(Nonces(Of(a, pool.pending))) + 1

=============================================================================
