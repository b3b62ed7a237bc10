------------------------------ MODULE Fetcher -------------------------------
(***************************************************************************)
(* zrm/fetcher: announced blocks are retrieved, header first, and whatever *)
(* blocks arrive are imported in the order of their numbers.               *)
(*                                                                         *)
(* The loop is one goroutine: it forgets overdue requests, reads the       *)
(* chain's height, imports what fits from the queue, and waits for one     *)
(* event; pc says where it is.  Every import is a goroutine of its own     *)
(* (importing), which changes the chain, and so do the downloader and the  *)
(* miner, between any two steps of the loop.  Headers and bodies are       *)
(* delivered by any peer at any time, asked for or not, or never, and a    *)
(* block is announced under any number.  Time is left out: a request is    *)
(* overdue, and an announcement due, whenever it pleases.  A timer is      *)
(* armed, or has fired, or is neither.                                     *)
(***************************************************************************)
EXTENDS ChainTree, FiniteSetsExt

CONSTANTS
    Peer,           \* the peers
    Announcer,      \* those that announce blocks; the others only send them
    Bodiless,       \* the blocks without transactions and uncles
    maxUncleDist, maxQueueDist, hashLimit, blockLimit,
    Mantissa,       \* the first number that float32 may round (2^24)
    Stored,         \* the blocks of the local chain at the start
    Offered,        \* bound: the blocks that peers announce and deliver
    MaxDrift        \* bound: how far the announce count of a peer that announces is behind

ASSUME FetcherAssumption ==
    /\ None \notin Peer /\ Announcer \subseteq Peer /\ Bodiless \subseteq Block
    /\ Genesis \in Stored /\ Stored \subseteq Block /\ {parent[b] : b \in Stored} \subseteq Stored
    /\ Offered \subseteq Block \ {Genesis}
    /\ {maxUncleDist, maxQueueDist, hashLimit, blockLimit, Mantissa, MaxDrift} \subseteq Nat

VARIABLES
    announces,      \* the announce count of every peer
    announced,      \* how often every peer announced a block that is to be fetched
    fetching,       \* the peer a block's header is requested from
    fetched,        \* the blocks of fetching whose header came, waiting for the body request
    completing,     \* the peer a block's body is requested from
    queue, queued,  \* the blocks to import, and who delivered those not yet done with
    queues,         \* the block count of every peer
    importing,      \* the goroutines: "no", "start", "insert" or "done"
    fetchTimer, completeTimer,
    pc, height,     \* "top", "import", "select" or "quit", and the height while it is in use
    chain, head     \* the blocks that the local chain has stored, and its head

annVars == <<announces, announced, fetching, fetched, completing>>
queueVars == <<queue, queued, queues>>
vars == <<announces, announced, fetching, fetched, completing, queue, queued, queues,
          importing, fetchTimer, completeTimer, pc, height, chain, head>>

Init ==
    /\ announces = [p \in Peer |-> 0]
    /\ announced = [b \in Block |-> [p \in Peer |-> 0]]
    /\ fetching = [b \in Block |-> None] /\ completing = [b \in Block |-> None]
    /\ fetched = {}
    /\ queue = {} /\ queued = [b \in Block |-> None] /\ queues = [p \in Peer |-> 0]
    /\ importing = [b \in Block |-> "no"]
    /\ fetchTimer = TRUE /\ completeTimer = TRUE
    /\ pc = "top" /\ height = 0
    /\ chain = Stored /\ head \in {b \in Stored : \A c \in Stored : Td[c] <= Td[b]}

-----------------------------------------------------------------------------
(* The callbacks *)

chainHeight == number[head]

\* A stored block is found whether or not it is on the branch of the head.
getBlock(b) == b \in chain

\* The heads that storing b can lead to: a heavier chain takes over, and one of the same
\* weight may.
HeadsWith(b) == {c \in {head, b} : \A d \in {head, b} : Td[d] <= Td[c]}

\* The block is too old, or too far ahead, to be of use.
Far(n) == n - chainHeight < -maxUncleDist \/ n - chainHeight > maxQueueDist

-----------------------------------------------------------------------------
(* Forgetting *)

Fetching == {b \in Block : fetching[b] # None}

Announced == {b \in Block : \E p \in Peer : announced[b][p] > 0}

\* What forgetHash takes off the count of p for b: every list that has p counts.
Owed(b, p) == announced[b][p] + (IF fetching[b] = p THEN 1 ELSE 0)
                  + (IF fetching[b] = p /\ b \in fetched THEN 1 ELSE 0)
                  + (IF completing[b] = p THEN 1 ELSE 0)

\* Mutant of Counts: only requests are taken off the counts.
CountsRequests(H) ==
    [p \in Peer |-> announces[p] - MapThenSumSet(LAMBDA b : Owed(b, p) - announced[b][p], H)]

\* The counts, and the maps f with z for a missing key, once the hashes of H are forgotten.
Counts(H) == [p \in Peer |-> announces[p] - MapThenSumSet(LAMBDA b : Owed(b, p), H)]
Without(f, H, z) == [b \in Block |-> IF b \in H THEN z ELSE f[b]]

NotAnnounced == [p \in Peer |-> 0]

forgetHash(H) ==
    /\ announces' = Counts(H)
    /\ announced' = Without(announced, H, NotAnnounced)
    /\ fetching' = Without(fetching, H, None)
    /\ fetched' = fetched \ H
    /\ completing' = Without(completing, H, None)

\* forgetBlock, for a block that is queued.
forgetBlock(b) ==
    /\ queued' = [queued EXCEPT ![b] = None]
    /\ queues' = [p \in Peer |-> IF p = queued[b] THEN queues[p] - 1 ELSE queues[p]]

-----------------------------------------------------------------------------
(* The top of the loop *)

Expire(H) ==
    /\ pc = "top" /\ pc' = "import"
    /\ H \subseteq Fetching
    /\ forgetHash(H)
    /\ height' = chainHeight
    /\ UNCHANGED <<importing, fetchTimer, completeTimer, chain, head>> /\ UNCHANGED queueVars

\* The conversion of a number to float32, up to 2 * Mantissa: halfway between two even
\* numbers it goes to the multiple of four.
Float32(n) == IF n < Mantissa THEN n ELSE 2 * ((n \div 2) + (IF n % 4 = 3 THEN 1 ELSE 0))

\* The queue returns a block of the highest priority, -float32(number).
Lowest(b) == b \in queue /\ \A c \in queue : Float32(number[b]) <= Float32(number[c])

\* Mutant of Drop: the peer's count is left as it is.
DropUncounted(b) ==
    /\ pc = "import" /\ Lowest(b) /\ number[b] <= height + 1
    /\ number[b] + maxUncleDist < height \/ getBlock(b)
    /\ queue' = queue \ {b} /\ queued' = [queued EXCEPT ![b] = None]
    /\ UNCHANGED queues
    /\ UNCHANGED <<importing, fetchTimer, completeTimer, pc, height, chain, head>> /\ UNCHANGED annVars

Drop(b) ==
    /\ pc = "import" /\ Lowest(b) /\ number[b] <= height + 1
    /\ number[b] + maxUncleDist < height \/ getBlock(b)
    /\ queue' = queue \ {b} /\ forgetBlock(b)
    /\ UNCHANGED <<importing, fetchTimer, completeTimer, pc, height, chain, head>> /\ UNCHANGED annVars

\* Mutant of insert: the block may be queued again once its import has started.
insertForgets(b) ==
    /\ pc = "import" /\ Lowest(b) /\ number[b] <= height + 1
    /\ ~(number[b] + maxUncleDist < height \/ getBlock(b))
    /\ queue' = queue \ {b} /\ forgetBlock(b)
    /\ importing' = [importing EXCEPT ![b] = "start"]
    /\ UNCHANGED <<fetchTimer, completeTimer, pc, height, chain, head>> /\ UNCHANGED annVars

insert(b) ==
    /\ pc = "import" /\ Lowest(b) /\ number[b] <= height + 1
    /\ ~(number[b] + maxUncleDist < height \/ getBlock(b))
    /\ queue' = queue \ {b}
    /\ importing' = [importing EXCEPT ![b] = "start"]
    /\ UNCHANGED <<queued, queues, fetchTimer, completeTimer, pc, height, chain, head>> /\ UNCHANGED annVars

\* Nothing is queued, or the block that comes first is too high and is put back.
Wait ==
    /\ pc = "import"
    /\ queue = {} \/ \E b \in queue : Lowest(b) /\ number[b] > height + 1
    /\ pc' = "select" /\ height' = 0
    /\ UNCHANGED <<importing, fetchTimer, completeTimer, chain, head>>
    /\ UNCHANGED annVars /\ UNCHANGED queueVars

-----------------------------------------------------------------------------
(* The events *)

\* The peer's scheduled announcements that its count misses.
Drift(p) == MapThenSumSet(LAMBDA b : announced[b][p], Block) - announces[p]

\* Mutant of Scheduled: a block whose body is requested may be announced.
ScheduledAgain(p, b, n) ==
    /\ announces[p] + 1 <= hashLimit
    /\ n > 0 => ~Far(n)
    /\ fetching[b] = None

\* The announcement of b under number n passes the checks and is scheduled; number zero
\* stands for an unknown one.
Scheduled(p, b, n) ==
    /\ announces[p] + 1 <= hashLimit
    /\ n > 0 => ~Far(n)
    /\ fetching[b] = None /\ completing[b] = None

\* Mutant of Notify: the timer is not set for a first announcement.
NotifyOnly(p, b, n) ==
    /\ pc = "select" /\ pc' = "top"
    /\ announces' = IF Scheduled(p, b, n) THEN [announces EXCEPT ![p] = @ + 1] ELSE announces
    /\ announced' = IF Scheduled(p, b, n) THEN [announced EXCEPT ![b][p] = @ + 1] ELSE announced
    /\ UNCHANGED <<fetching, fetched, completing, importing, fetchTimer, completeTimer, height, chain, head>>
    /\ UNCHANGED queueVars

Notify(p, b, n) ==
    /\ pc = "select" /\ pc' = "top"
    /\ announces' = IF Scheduled(p, b, n) THEN [announces EXCEPT ![p] = @ + 1] ELSE announces
    /\ announced' = IF Scheduled(p, b, n) THEN [announced EXCEPT ![b][p] = @ + 1] ELSE announced
    /\ fetchTimer' = (fetchTimer \/ (Scheduled(p, b, n) /\ Announced \subseteq {b}))
    /\ UNCHANGED <<fetching, fetched, completing, importing, completeTimer, height, chain, head>>
    /\ UNCHANGED queueVars

\* enqueue refuses the block of a peer that has too many, and blocks that are too far.
Refused(p, b) == queues[p] + 1 > blockLimit \/ Far(number[b])

\* What enqueue does to the queue, unless it refuses the block.
Push(p, b) ==
    IF queued[b] = None
    THEN /\ queue' = queue \cup {b}
         /\ queued' = [queued EXCEPT ![b] = p]
         /\ queues' = [queues EXCEPT ![p] = @ + 1]
    ELSE UNCHANGED queueVars

enqueue(p, b) ==
    IF Refused(p, b) THEN forgetHash({b}) /\ UNCHANGED queueVars
    ELSE Push(p, b) /\ UNCHANGED annVars

Enqueue(p, b) ==
    /\ pc = "select" /\ pc' = "top"
    /\ enqueue(p, b)
    /\ UNCHANGED <<importing, fetchTimer, completeTimer, height, chain, head>>

\* Mutant of Done: the queue is not looked at after an import.
DoneQuietly(b) ==
    /\ pc = "select" /\ importing[b] = "done"
    /\ importing' = [importing EXCEPT ![b] = "no"]
    /\ forgetHash({b}) /\ forgetBlock(b)
    /\ UNCHANGED <<queue, fetchTimer, completeTimer, pc, height, chain, head>>

Done(b) ==
    /\ pc = "select" /\ pc' = "top"
    /\ importing[b] = "done" /\ importing' = [importing EXCEPT ![b] = "no"]
    /\ forgetHash({b}) /\ forgetBlock(b)
    /\ UNCHANGED <<queue, fetchTimer, completeTimer, height, chain, head>>

\* The announcements of H are due: each block is requested from one of its announcers.
FetchTimer(H, from) ==
    /\ pc = "select" /\ pc' = "top" /\ fetchTimer
    /\ H \subseteq Announced /\ \A b \in H : announced[b][from[b]] > 0
    /\ announces' = Counts(H)
    /\ announced' = Without(announced, H, NotAnnounced)
    /\ fetching' = [b \in Block |-> IF b \in H THEN (IF getBlock(b) THEN None ELSE from[b]) ELSE fetching[b]]
    /\ fetched' = fetched \ H
    /\ completing' = Without(completing, H, None)
    /\ fetchTimer' = (Announced \ H # {})
    /\ UNCHANGED <<importing, completeTimer, height, chain, head>> /\ UNCHANGED queueVars

\* The bodies of all the fetched headers are requested.
CompleteTimer ==
    /\ pc = "select" /\ pc' = "top" /\ completeTimer
    /\ announces' = Counts(fetched)
    /\ announced' = Without(announced, fetched, NotAnnounced)
    /\ fetching' = Without(fetching, fetched, None)
    /\ fetched' = {}
    /\ completing' = [b \in Block |-> IF b \in fetched THEN (IF getBlock(b) THEN None ELSE fetching[b])
                                      ELSE completing[b]]
    /\ completeTimer' = FALSE
    /\ UNCHANGED <<importing, fetchTimer, height, chain, head>> /\ UNCHANGED queueVars

\* The header of b, from p, is one that the fetcher asked for.
Requested(p, b) ==
    fetching[b] = p /\ b \notin fetched /\ completing[b] = None /\ queued[b] = None

\* The header of a block without a body completes it: it moves to completing and is queued,
\* or forgotten there.
HeaderOnly(p, b) ==
    /\ announces' = (IF Refused(p, b) THEN [Counts({b}) EXCEPT ![p] = @ - 1] ELSE announces)
    /\ announced' = (IF Refused(p, b) THEN Without(announced, {b}, NotAnnounced) ELSE announced)
    /\ fetching' = (IF Refused(p, b) THEN [fetching EXCEPT ![b] = None] ELSE fetching)
    /\ completing' = (IF Refused(p, b) THEN completing ELSE [completing EXCEPT ![b] = p])
    /\ UNCHANGED fetched
    /\ IF Refused(p, b) THEN UNCHANGED queueVars ELSE Push(p, b)

\* promised: the header's number is the one that b was announced under.
FilterHeaders(p, b, promised) ==
    /\ pc = "select" /\ pc' = "top"
    /\ CASE ~Requested(p, b) -> UNCHANGED annVars /\ UNCHANGED queueVars /\ UNCHANGED completeTimer
         [] Requested(p, b) /\ (~promised \/ getBlock(b)) ->
                forgetHash({b}) /\ UNCHANGED queueVars /\ UNCHANGED completeTimer
         [] Requested(p, b) /\ promised /\ ~getBlock(b) /\ b \in Bodiless ->
                HeaderOnly(p, b) /\ UNCHANGED completeTimer
         [] OTHER -> /\ fetched' = fetched \cup {b}
                     /\ completeTimer' = (completeTimer \/ fetched = {})
                     /\ UNCHANGED <<announces, announced, fetching, completing>> /\ UNCHANGED queueVars
    /\ UNCHANGED <<importing, fetchTimer, height, chain, head>>

FilterBodies(p, b) ==
    /\ pc = "select" /\ pc' = "top"
    /\ CASE completing[b] # p \/ queued[b] # None -> UNCHANGED annVars /\ UNCHANGED queueVars
         [] completing[b] = p /\ queued[b] = None /\ getBlock(b) -> forgetHash({b}) /\ UNCHANGED queueVars
         [] OTHER -> enqueue(p, b)
    /\ UNCHANGED <<importing, fetchTimer, completeTimer, height, chain, head>>

Stop ==
    /\ pc = "select" /\ pc' = "quit"
    /\ UNCHANGED <<importing, fetchTimer, completeTimer, height, chain, head>>
    /\ UNCHANGED annVars /\ UNCHANGED queueVars

-----------------------------------------------------------------------------
(* The imports, and the rest of the node *)

Goroutine(b, from, to) ==
    /\ importing[b] = from /\ importing' = [importing EXCEPT ![b] = to]
    /\ UNCHANGED <<fetchTimer, completeTimer, pc, height>>
    /\ UNCHANGED annVars /\ UNCHANGED queueVars

\* The parent is unknown or the header is invalid, and the import ends; or it goes on.
VerifyFails(b) == Goroutine(b, "start", "done") /\ UNCHANGED <<chain, head>>
VerifyHeader(b) == parent[b] \in chain /\ Goroutine(b, "start", "insert") /\ UNCHANGED <<chain, head>>

\* The import fails, or the handler drops the block because a fast sync is running, or the
\* chain has the block already; or it is stored.
InsertFails(b) == Goroutine(b, "insert", "done") /\ UNCHANGED <<chain, head>>
InsertChain(b) ==
    /\ Goroutine(b, "insert", "done")
    /\ b \notin chain /\ chain' = chain \cup {b} /\ head' \in HeadsWith(b)

\* Another part of the node imports b.
ChainGrows(b) ==
    /\ parent[b] \in chain
    /\ b \notin chain /\ chain' = chain \cup {b} /\ head' \in HeadsWith(b)
    /\ UNCHANGED <<importing, fetchTimer, completeTimer, pc, height>>
    /\ UNCHANGED annVars /\ UNCHANGED queueVars

LoopTop == \/ \E H \in SUBSET Fetching : Expire(H)
           \/ \E b \in Offered : Drop(b) \/ insert(b)
           \/ Wait

Import(b) == VerifyFails(b) \/ VerifyHeader(b) \/ InsertFails(b) \/ InsertChain(b)

Next ==
    \/ LoopTop
    \/ \E b \in Offered :
          \/ \E p \in Announcer, n \in 0 .. MaxNumber + 1 : Drift(p) <= MaxDrift /\ Notify(p, b, n)
          \/ \E p \in Peer : Enqueue(p, b) \/ FilterBodies(p, b)
          \/ \E p \in Peer, promised \in BOOLEAN : FilterHeaders(p, b, promised)
    \/ \E H \in SUBSET Announced : \E from \in [H -> Peer] : FetchTimer(H, from)
    \/ CompleteTimer
    \/ \E b \in Offered : Done(b) \/ Import(b)
    \/ \E b \in Block : ChainGrows(b)
    \/ Stop

\* The goroutines run, and select chooses at random among the events that are ready, so
\* that a finished import is not passed over forever.  Peers promise nothing.
Fairness ==
    /\ WF_vars(LoopTop)
    /\ \A b \in Offered : WF_vars(Import(b)) /\ SF_vars(Done(b))

Spec == Init /\ [][Next]_vars
FairSpec == Spec /\ Fairness

-----------------------------------------------------------------------------
(* Properties *)

\* A block is remembered in queued exactly while it waits in the queue or while a goroutine
\* imports it, and never both: no block is imported twice at the same time, although it is
\* delivered by many peers while forgetHash and forgetBlock run (enqueue, insert, done).
QueueExact ==
    \A b \in Block : /\ queued[b] # None <=> (b \in queue \/ importing[b] # "no")
                     /\ ~(b \in queue /\ importing[b] # "no")

\* The count that enqueue limits is the number of blocks of that peer the fetcher holds.
QueueCount ==
    \A p \in Peer : /\ queues[p] = Cardinality({b \in Block : queued[b] = p})
                    /\ queues[p] <= blockLimit

\* No wake-up is lost: while blocks are announced the fetch timer is armed, and while
\* headers wait for their bodies the completion timer is (rescheduleFetch is only called
\* for the first announcement and after the timer fired).
TimersArmed ==
    /\ Announced # {} => fetchTimer
    /\ fetched # {} => completeTimer

\* A block is in one phase of its retrieval: it is not announced anew while its header or
\* body is requested, a fetched header is one that was requested, and its body is not
\* requested while it waits to be (Notify, and forgetHash in the two timer events).
OnePhase ==
    \A b \in Block :
        /\ b \in Announced => fetching[b] = None /\ completing[b] = None
        /\ b \in fetched => fetching[b] # None /\ completing[b] = None

\* The announce count never leaks upwards: a peer none of whose announcements are
\* scheduled any more is not refused for its earlier ones (forgetHash, fetch timer).
CountNeverLeaks ==
    \A p \in Peer : Drift(p) >= 0

\* Every import wakes the queue: a block that waits while another is imported is taken from
\* the queue, without any other event, unless its number is beyond the head's successor
\* (done, and the top of the loop).  It need not be the child that is taken: an import on
\* a branch that does not become the heaviest leaves the height where it is.
ImportWakesQueue ==
    \A b \in Offered :
        (b \in queue /\ \E c \in Offered : importing[c] # "no")
            ~> (b \notin queue \/ number[b] > chainHeight + 1 \/ pc = "quit")

-----------------------------------------------------------------------------
(* What a comment of the code says and the code does not do *)

\* fetcher.go:38 "Maximum number of unique blocks a peer may have announced": no peer has
\* more blocks scheduled than hashLimit.
HashLimited ==
    \A p \in Peer : Cardinality({b \in Block : announced[b][p] > 0}) <= hashLimit

=============================================================================
