---------------------------- MODULE FetcherProofs ---------------------------
(***************************************************************************)
(* For every tree of blocks, set of peers and limits: the import queue and *)
(* its counts are exact, a block is in one phase of its retrieval, and no  *)
(* timer is lost.                                                          *)
(*                                                                         *)
(* The two halves of the fetcher are proved apart.  QueueInv is about the  *)
(* queue and the imports and is inductive on its own; PhaseInv is about    *)
(* announcements and requests, which every forgetHash only takes away.     *)
(***************************************************************************)
EXTENDS Fetcher, FiniteSetTheorems, TLAPS

Stages == {"no", "start", "insert", "done"}

QueueTypes == /\ queue \subseteq Block
              /\ queued \in [Block -> Peer \cup {None}]
              /\ queues \in [Peer -> Int]
              /\ importing \in [Block -> Stages]

\* The blocks of p; their number is what queues counts.
Held(p) == {b \in Block : queued[b] = p}

HeldExact == \A p \in Peer : /\ IsFiniteSet(Held(p))
                             /\ queues[p] = Cardinality(Held(p))
                             /\ queues[p] <= blockLimit

QueueInv == QueueTypes /\ QueueExact /\ HeldExact

PhaseTypes == /\ announced \in [Block -> [Peer -> Nat]]
              /\ fetching \in [Block -> Peer \cup {None}]
              /\ completing \in [Block -> Peer \cup {None}]
              /\ fetched \subseteq Block
              /\ fetchTimer \in BOOLEAN /\ completeTimer \in BOOLEAN

PhaseInv == PhaseTypes /\ OnePhase /\ TimersArmed

-----------------------------------------------------------------------------
(* The queue *)

\* Push keeps the counts exact, and below the limit unless the block is refused.
LEMMA PushHeld ==
  ASSUME QueueTypes, HeldExact, NEW p \in Peer, NEW b \in Block, queued[b] = None,
         ~Refused(p, b),
         queued' = [queued EXCEPT ![b] = p], queues' = [queues EXCEPT ![p] = @ + 1]
  PROVE  HeldExact'
<1> SUFFICES ASSUME NEW r \in Peer
             PROVE  /\ IsFiniteSet(Held(r)') /\ queues'[r] = Cardinality(Held(r)')
                    /\ queues'[r] <= blockLimit
  BY DEF HeldExact
<1>1. IsFiniteSet(Held(r)) /\ queues[r] = Cardinality(Held(r)) /\ queues[r] <= blockLimit
  BY DEF HeldExact
<1>2. p # None /\ r # None
  BY FetcherAssumption
<1>3. CASE r = p
  <2>1. Held(r)' = Held(r) \cup {b} /\ b \notin Held(r)
    BY <1>3, <1>2 DEF Held, QueueTypes
  <2>2. IsFiniteSet(Held(r) \cup {b}) /\ Cardinality(Held(r) \cup {b}) = Cardinality(Held(r)) + 1
    BY <1>1, <2>1, FS_AddElement, Zenon
  <2>3. queues'[r] = queues[r] + 1
    BY <1>3 DEF QueueTypes
  <2>4. queues[r] + 1 <= blockLimit
    BY <1>3, FetcherAssumption DEF Refused, QueueTypes
  <2> QED BY <1>1, <2>1, <2>2, <2>3, <2>4
<1>4. CASE r # p
  <2>1. Held(r)' = Held(r)
    BY <1>4, <1>2 DEF Held, QueueTypes
  <2>2. queues'[r] = queues[r]
    BY <1>4 DEF QueueTypes
  <2> QED BY <1>1, <2>1, <2>2
<1> QED BY <1>3, <1>4

\* forgetBlock keeps the counts exact.
LEMMA ForgetHeld ==
  ASSUME QueueTypes, HeldExact, NEW b \in Block, queued[b] # None, forgetBlock(b)
  PROVE  HeldExact' /\ queued' \in [Block -> Peer \cup {None}] /\ queues' \in [Peer -> Int]
<1>1. queued' \in [Block -> Peer \cup {None}]
  BY DEF forgetBlock, QueueTypes
<1>2. queues' \in [Peer -> Int]
  BY DEF forgetBlock, QueueTypes
<1>3. ASSUME NEW r \in Peer
      PROVE  /\ IsFiniteSet(Held(r)') /\ queues'[r] = Cardinality(Held(r)')
             /\ queues'[r] <= blockLimit
  <2>1. IsFiniteSet(Held(r)) /\ queues[r] = Cardinality(Held(r)) /\ queues[r] <= blockLimit
    BY DEF HeldExact
  <2>2. r # None
    BY FetcherAssumption
  <2>3. CASE r = queued[b]
    <3>1. Held(r)' = Held(r) \ {b} /\ b \in Held(r)
      BY <2>3, <2>2 DEF Held, QueueTypes, forgetBlock
    <3>2. IsFiniteSet(Held(r) \ {b}) /\ Cardinality(Held(r) \ {b}) = Cardinality(Held(r)) - 1
      BY <2>1, <3>1, FS_RemoveElement, Zenon
    <3>3. queues'[r] = queues[r] - 1
      BY <2>3 DEF forgetBlock
    <3>4. queues[r] \in Int /\ blockLimit \in Int
      BY FetcherAssumption DEF QueueTypes
    <3> QED BY <2>1, <3>1, <3>2, <3>3, <3>4
  <2>4. CASE r # queued[b]
    <3>1. Held(r)' = Held(r)
      BY <2>4, <2>2 DEF Held, QueueTypes, forgetBlock
    <3>2. queues'[r] = queues[r]
      BY <2>4 DEF forgetBlock
    <3> QED BY <2>1, <3>1, <3>2
  <2> QED BY <2>3, <2>4
<1> QED BY <1>1, <1>2, <1>3 DEF HeldExact

\* What an event that leaves the imports alone and queues at most one block does.
LEMMA PushKeeps ==
  ASSUME QueueInv, NEW p \in Peer, NEW b \in Block, ~Refused(p, b), Push(p, b),
         UNCHANGED importing
  PROVE  QueueInv'
<1>1. CASE queued[b] = None
  <2>1. HeldExact'
    BY <1>1, PushHeld DEF QueueInv, Push
  <2>2. QueueTypes'
    BY <1>1 DEF QueueInv, QueueTypes, Push
  <2>3. QueueExact'
    BY <1>1, FetcherAssumption DEF QueueInv, QueueTypes, QueueExact, Push, Stages
  <2> QED BY <2>1, <2>2, <2>3 DEF QueueInv
<1>2. CASE queued[b] # None
  BY <1>2 DEF QueueInv, QueueTypes, QueueExact, HeldExact, Held, Push, queueVars
<1> QED BY <1>1, <1>2

\* A step that touches neither the queue nor the imports.
LEMMA QueueStutters ==
  ASSUME QueueInv, UNCHANGED queueVars, UNCHANGED importing
  PROVE  QueueInv'
BY DEF QueueInv, QueueTypes, QueueExact, HeldExact, Held, queueVars

LEMMA QueueKeeps ==
  ASSUME QueueInv, [Next]_vars
  PROVE  QueueInv'
<1>1. CASE UNCHANGED vars
  BY <1>1, QueueStutters DEF vars, queueVars
<1>2. ASSUME NEW H \in SUBSET Block, Expire(H) PROVE QueueInv'
  BY <1>2, QueueStutters DEF Expire
<1>3. ASSUME NEW b \in Block, Drop(b) PROVE QueueInv'
  <2>1. queued[b] # None /\ importing[b] = "no"
    BY <1>3 DEF Drop, Lowest, QueueInv, QueueExact
  <2>2. HeldExact' /\ queued' \in [Block -> Peer \cup {None}] /\ queues' \in [Peer -> Int]
    BY <1>3, <2>1, ForgetHeld DEF QueueInv, Drop
  <2>3. QueueTypes'
    BY <1>3, <2>2 DEF QueueInv, QueueTypes, Drop
  <2>4. QueueExact'
    BY <1>3, <2>1 DEF QueueInv, QueueTypes, QueueExact, Drop, forgetBlock
  <2> QED BY <2>2, <2>3, <2>4 DEF QueueInv
<1>4. ASSUME NEW b \in Block, insert(b) PROVE QueueInv'
  <2>1. HeldExact'
    BY <1>4 DEF insert, QueueInv, HeldExact, Held
  <2>2. QueueTypes'
    BY <1>4 DEF insert, QueueInv, QueueTypes, Stages
  <2>3. QueueExact'
    BY <1>4 DEF insert, Lowest, QueueInv, QueueTypes, QueueExact
  <2> QED BY <2>1, <2>2, <2>3 DEF QueueInv
<1>5. CASE Wait
  BY <1>5, QueueStutters DEF Wait
<1>6. ASSUME NEW p \in Announcer, NEW b \in Block, NEW n \in 0 .. MaxNumber + 1, Notify(p, b, n)
      PROVE  QueueInv'
  BY <1>6, QueueStutters DEF Notify
<1>7. ASSUME NEW p \in Peer, NEW b \in Block, enqueue(p, b), UNCHANGED importing PROVE QueueInv'
  BY <1>7, PushKeeps, QueueStutters DEF enqueue
<1>8. ASSUME NEW p \in Peer, NEW b \in Block, NEW promised \in BOOLEAN, FilterHeaders(p, b, promised)
      PROVE  QueueInv'
  <2>1. UNCHANGED importing
    BY <1>8 DEF FilterHeaders
  <2>2. UNCHANGED queueVars \/ HeaderOnly(p, b)
    BY <1>8 DEF FilterHeaders
  <2>3. UNCHANGED queueVars \/ (~Refused(p, b) /\ Push(p, b))
    BY <2>2 DEF HeaderOnly
  <2> QED BY <2>1, <2>3, PushKeeps, QueueStutters
<1>9. ASSUME NEW p \in Peer, NEW b \in Block, FilterBodies(p, b) PROVE QueueInv'
  <2>1. UNCHANGED importing
    BY <1>9 DEF FilterBodies
  <2>2. UNCHANGED queueVars \/ enqueue(p, b)
    BY <1>9 DEF FilterBodies
  <2> QED BY <2>1, <2>2, <1>7, QueueStutters
<1>10. ASSUME NEW H \in SUBSET Block, NEW from \in [H -> Peer], FetchTimer(H, from) PROVE QueueInv'
  BY <1>10, QueueStutters DEF FetchTimer
<1>11. CASE CompleteTimer
  BY <1>11, QueueStutters DEF CompleteTimer
<1>12. ASSUME NEW b \in Block, Done(b) PROVE QueueInv'
  <2>1. queued[b] # None /\ b \notin queue
    BY <1>12 DEF Done, QueueInv, QueueExact
  <2>2. HeldExact' /\ queued' \in [Block -> Peer \cup {None}] /\ queues' \in [Peer -> Int]
    BY <1>12, <2>1, ForgetHeld DEF QueueInv, Done
  <2>3. QueueTypes'
    BY <1>12, <2>2 DEF QueueInv, QueueTypes, Done, Stages
  <2>4. QueueExact'
    BY <1>12, <2>1 DEF QueueInv, QueueTypes, QueueExact, Done, forgetBlock
  <2> QED BY <2>2, <2>3, <2>4 DEF QueueInv
<1>13. ASSUME NEW b \in Block, Import(b) PROVE QueueInv'
  <2>1. PICK from \in {"start", "insert"}, to \in {"insert", "done"} : Goroutine(b, from, to)
    BY <1>13 DEF Import, VerifyFails, VerifyHeader, InsertFails, InsertChain
  <2>2. HeldExact'
    BY <2>1 DEF Goroutine, QueueInv, HeldExact, Held, queueVars
  <2>3. QueueTypes'
    BY <2>1 DEF Goroutine, QueueInv, QueueTypes, queueVars, Stages
  <2>4. QueueExact'
    BY <2>1 DEF Goroutine, QueueInv, QueueTypes, QueueExact, queueVars
  <2> QED BY <2>2, <2>3, <2>4 DEF QueueInv
<1>14. ASSUME NEW b \in Block, ChainGrows(b) PROVE QueueInv'
  BY <1>14, QueueStutters DEF ChainGrows
<1>15. CASE Stop
  BY <1>15, QueueStutters DEF Stop
<1>16. Offered \subseteq Block /\ Announced \subseteq Block /\ Fetching \subseteq Block
  BY FetcherAssumption DEF Announced, Fetching
<1> QED
  BY <1>1, <1>2, <1>3, <1>4, <1>5, <1>6, <1>7, <1>8, <1>9, <1>10, <1>11, <1>12, <1>13, <1>14, <1>15, <1>16
  DEF Next, LoopTop, Enqueue

LEMMA QueueInit == ASSUME Init PROVE QueueInv
<1>1. QueueTypes /\ QueueExact
  BY DEF Init, QueueTypes, QueueExact, Stages
<1>2. ASSUME NEW p \in Peer PROVE Held(p) = {}
  BY FetcherAssumption DEF Init, Held
<1>3. HeldExact
  BY <1>2, FS_EmptySet, FetcherAssumption DEF Init, HeldExact
<1> QED BY <1>1, <1>3 DEF QueueInv

\* The fetcher never holds a block twice, nor imports it while it is queued, whatever is
\* delivered while imports run (enqueue, insert, forgetBlock).
THEOREM QueueCorrect == Spec => []QueueExact
<1>1. QueueInv => QueueExact
  BY DEF QueueInv
<1> QED BY <1>1, QueueInit, QueueKeeps, PTL DEF Spec

\* The count that enqueue compares with blockLimit is exact, so no peer ever has more
\* blocks in the fetcher than the limit and none is refused for blocks long done with.
THEOREM QueueCountCorrect == Spec => []QueueCount
<1>1. QueueInv => QueueCount
  BY DEF QueueInv, HeldExact, Held, QueueCount
<1> QED BY <1>1, QueueInit, QueueKeeps, PTL DEF Spec

-----------------------------------------------------------------------------
(* Announcements and requests *)

\* forgetHash leaves every block it forgets in no phase, and the others as they were; the
\* timers may stay armed for nothing.
LEMMA ForgetPhase ==
  ASSUME PhaseInv, NEW H, forgetHash(H), UNCHANGED <<fetchTimer, completeTimer>>
  PROVE  PhaseInv'
<1>1. PhaseTypes'
  BY DEF PhaseInv, PhaseTypes, forgetHash, Without, NotAnnounced
<1>2. Announced' \subseteq Announced \ H
  BY DEF PhaseInv, PhaseTypes, forgetHash, Without, NotAnnounced, Announced
<1>3. OnePhase'
  BY <1>2 DEF PhaseInv, PhaseTypes, OnePhase, forgetHash, Without
<1>4. TimersArmed'
  BY <1>2 DEF PhaseInv, TimersArmed, forgetHash
<1> QED BY <1>1, <1>3, <1>4 DEF PhaseInv

LEMMA PhaseStutters ==
  ASSUME PhaseInv, UNCHANGED annVars, UNCHANGED <<fetchTimer, completeTimer>>
  PROVE  PhaseInv'
BY DEF PhaseInv, PhaseTypes, OnePhase, TimersArmed, Announced, annVars

LEMMA NotifyPhase ==
  ASSUME PhaseInv, NEW p \in Peer, NEW b \in Block, NEW n, Notify(p, b, n)
  PROVE  PhaseInv'
<1>1. CASE Scheduled(p, b, n)
  <2>1. announced' = [announced EXCEPT ![b][p] = @ + 1]
    BY <1>1 DEF Notify
  <2>2. announced' \in [Block -> [Peer -> Nat]]
    BY <2>1 DEF PhaseInv, PhaseTypes
  <2>3. \A c \in Block : c # b => announced'[c] = announced[c]
    BY <2>1 DEF PhaseInv, PhaseTypes
  <2>4. Announced' \subseteq Announced \cup {b}
    BY <2>3 DEF Announced
  <2>5. fetching[b] = None /\ completing[b] = None
    BY <1>1 DEF Scheduled
  <2>6. UNCHANGED <<fetching, fetched, completing, completeTimer>>
    BY DEF Notify
  <2>7. fetchTimer' \in BOOLEAN /\ (fetchTimer \/ Announced \subseteq {b} => fetchTimer')
    <3>1. fetchTimer' = (fetchTimer \/ (Scheduled(p, b, n) /\ Announced \subseteq {b}))
      BY DEF Notify
    <3> QED BY <1>1, <3>1, Zenon
  <2>8. OnePhase'
    BY <2>4, <2>5, <2>6 DEF PhaseInv, OnePhase
  <2>9. fetchTimer'
    <3>1. Announced # {} => fetchTimer
      BY DEF PhaseInv, TimersArmed
    <3>2. Announced = {} => Announced \subseteq {b}
      OBVIOUS
    <3> QED BY <2>7, <3>1, <3>2
  <2>10. TimersArmed'
    BY <2>6, <2>9 DEF PhaseInv, TimersArmed
  <2> QED BY <2>2, <2>6, <2>7, <2>8, <2>10 DEF PhaseInv, PhaseTypes
<1>2. CASE ~Scheduled(p, b, n)
  <2>1. UNCHANGED <<announced, fetching, fetched, completing, completeTimer>>
    BY <1>2 DEF Notify
  <2>2. fetchTimer' \in BOOLEAN /\ (fetchTimer => fetchTimer')
    BY Zenon DEF Notify
  <2> QED BY <2>1, <2>2 DEF PhaseInv, PhaseTypes, OnePhase, TimersArmed, Announced
<1> QED BY <1>1, <1>2

LEMMA FetchPhase ==
  ASSUME PhaseInv, NEW H \in SUBSET Block, NEW from \in [H -> Peer], FetchTimer(H, from)
  PROVE  PhaseInv'
<1>1. Announced' \subseteq Announced \ H
  <2>1. announced' = [b \in Block |-> IF b \in H THEN NotAnnounced ELSE announced[b]]
    BY DEF FetchTimer, Without
  <2> QED BY <2>1 DEF NotAnnounced, Announced
<1>2. fetchTimer' \in BOOLEAN /\ (Announced \ H # {} => fetchTimer')
  BY Zenon DEF FetchTimer
<1>3. UNCHANGED completeTimer /\ fetched' = fetched \ H
  BY DEF FetchTimer
<1>4. PhaseTypes'
  <2>1. announced' \in [Block -> [Peer -> Nat]]
    BY DEF PhaseInv, PhaseTypes, FetchTimer, Without, NotAnnounced
  <2>2. fetching' \in [Block -> Peer \cup {None}]
    BY DEF PhaseInv, PhaseTypes, FetchTimer
  <2>3. completing' \in [Block -> Peer \cup {None}]
    BY DEF PhaseInv, PhaseTypes, FetchTimer, Without
  <2>4. fetched' \subseteq Block
    BY <1>3 DEF PhaseInv, PhaseTypes
  <2> QED BY <1>2, <1>3, <2>1, <2>2, <2>3, <2>4, Zenon DEF PhaseInv, PhaseTypes
<1>5. OnePhase'
  BY <1>1, <1>3 DEF PhaseInv, PhaseTypes, OnePhase, FetchTimer, Without
<1>6. TimersArmed'
  BY <1>1, <1>2, <1>3 DEF PhaseInv, TimersArmed
<1> QED BY <1>4, <1>5, <1>6 DEF PhaseInv

LEMMA CompletePhase ==
  ASSUME PhaseInv, CompleteTimer
  PROVE  PhaseInv'
<1>1. Announced' \subseteq Announced \ fetched
  BY DEF PhaseInv, PhaseTypes, CompleteTimer, Without, NotAnnounced, Announced
<1>2. fetched' = {} /\ completeTimer' = FALSE /\ UNCHANGED fetchTimer
  BY DEF CompleteTimer
<1>3. PhaseTypes'
  BY <1>2 DEF PhaseInv, PhaseTypes, CompleteTimer, Without, NotAnnounced
<1>4. OnePhase'
  BY <1>1, <1>2 DEF PhaseInv, PhaseTypes, OnePhase, CompleteTimer, Without
<1>5. TimersArmed'
  BY <1>1, <1>2 DEF PhaseInv, TimersArmed
<1> QED BY <1>3, <1>4, <1>5 DEF PhaseInv

LEMMA HeaderPhase ==
  ASSUME PhaseInv, NEW p \in Peer, NEW b \in Block, NEW promised, FilterHeaders(p, b, promised)
  PROVE  PhaseInv'
<1>1. UNCHANGED fetchTimer /\ p # None
  BY FetcherAssumption DEF FilterHeaders
<1>2. CASE UNCHANGED annVars /\ UNCHANGED completeTimer
  BY <1>1, <1>2, PhaseStutters
<1>3. CASE forgetHash({b}) /\ UNCHANGED completeTimer
  BY <1>1, <1>3, ForgetPhase
<1>4. CASE Requested(p, b) /\ HeaderOnly(p, b) /\ UNCHANGED completeTimer
  <2>1. fetching[b] = p /\ b \notin fetched
    BY <1>4 DEF Requested
  <2>2. b \notin Announced
    BY <2>1, <1>1 DEF PhaseInv, OnePhase
  <2>3. Announced' \subseteq Announced /\ announced' \in [Block -> [Peer -> Nat]]
    BY <1>4 DEF HeaderOnly, PhaseInv, PhaseTypes, Announced, Without, NotAnnounced
  <2>4. fetched' = fetched
    BY <1>4 DEF HeaderOnly
  <2>5. \A c \in Block : c # b => fetching'[c] = fetching[c] /\ completing'[c] = completing[c]
    BY <1>4 DEF HeaderOnly, PhaseInv, PhaseTypes
  <2>6. PhaseTypes'
    BY <1>1, <1>4, <2>3, <2>4 DEF HeaderOnly, PhaseInv, PhaseTypes
  <2>7. OnePhase'
    BY <2>1, <2>2, <2>3, <2>4, <2>5 DEF PhaseInv, OnePhase
  <2>8. TimersArmed'
    BY <1>1, <1>4, <2>3, <2>4 DEF PhaseInv, TimersArmed
  <2> QED BY <2>6, <2>7, <2>8 DEF PhaseInv
<1>5. CASE /\ Requested(p, b) /\ fetched' = fetched \cup {b}
           /\ completeTimer' = (completeTimer \/ fetched = {})
           /\ UNCHANGED <<announces, announced, fetching, completing>>
  <2>1. fetching[b] = p /\ completing[b] = None
    BY <1>5 DEF Requested
  <2>2. completeTimer' \in BOOLEAN /\ (completeTimer \/ fetched = {} => completeTimer')
    BY <1>5, Zenon
  <2>3. completeTimer'
    BY <2>2 DEF PhaseInv, TimersArmed
  <2>4. Announced' = Announced
    BY <1>5 DEF Announced
  <2>5. PhaseTypes'
    BY <1>1, <1>5, <2>2 DEF PhaseInv, PhaseTypes
  <2>6. OnePhase'
    BY <1>1, <1>5, <2>1, <2>4 DEF PhaseInv, OnePhase
  <2>7. TimersArmed'
    BY <1>1, <2>3, <2>4 DEF PhaseInv, TimersArmed
  <2> QED BY <2>5, <2>6, <2>7 DEF PhaseInv
<1> QED BY <1>2, <1>3, <1>4, <1>5 DEF FilterHeaders

LEMMA PhaseKeeps ==
  ASSUME PhaseInv, [Next]_vars
  PROVE  PhaseInv'
<1>1. CASE UNCHANGED vars
  BY <1>1, PhaseStutters DEF vars, annVars
<1>2. ASSUME NEW H \in SUBSET Block, Expire(H) PROVE PhaseInv'
  BY <1>2, ForgetPhase DEF Expire
<1>3. ASSUME NEW b \in Block, Drop(b) \/ insert(b) \/ Import(b) \/ ChainGrows(b) PROVE PhaseInv'
  BY <1>3, PhaseStutters
  DEF Drop, insert, Import, VerifyFails, VerifyHeader, InsertFails, InsertChain, Goroutine, ChainGrows
<1>4. CASE Wait \/ Stop
  BY <1>4, PhaseStutters DEF Wait, Stop
<1>5. ASSUME NEW p \in Announcer, NEW b \in Block, NEW n \in 0 .. MaxNumber + 1, Notify(p, b, n)
      PROVE  PhaseInv'
  BY <1>5, NotifyPhase, FetcherAssumption
<1>6. ASSUME NEW p \in Peer, NEW b \in Block, enqueue(p, b), UNCHANGED <<fetchTimer, completeTimer>>
      PROVE  PhaseInv'
  BY <1>6, ForgetPhase, PhaseStutters DEF enqueue
<1>7. ASSUME NEW p \in Peer, NEW b \in Block, FilterBodies(p, b) PROVE PhaseInv'
  <2>1. UNCHANGED <<fetchTimer, completeTimer>>
    BY <1>7 DEF FilterBodies
  <2>2. UNCHANGED annVars \/ forgetHash({b}) \/ enqueue(p, b)
    BY <1>7 DEF FilterBodies
  <2> QED BY <2>1, <2>2, <1>6, ForgetPhase, PhaseStutters
<1>8. ASSUME NEW b \in Block, Done(b) PROVE PhaseInv'
  BY <1>8, ForgetPhase DEF Done
<1>9. Offered \subseteq Block /\ Announced \subseteq Block /\ Fetching \subseteq Block
  BY FetcherAssumption DEF Announced, Fetching
<1> QED
  BY <1>1, <1>2, <1>3, <1>4, <1>5, <1>6, <1>7, <1>8, <1>9, HeaderPhase, FetchPhase, CompletePhase
  DEF Next, LoopTop, Enqueue

LEMMA PhaseInit == ASSUME Init PROVE PhaseInv
<1>1. Announced = {}
  BY DEF Init, Announced
<1> QED BY <1>1 DEF Init, PhaseInv, PhaseTypes, OnePhase, TimersArmed

\* A block is never scheduled anew while its header or body is requested, and what waits for
\* its body has been requested once (Notify, the filters and the timers of the loop).
THEOREM OnePhaseCorrect == Spec => []OnePhase
<1>1. PhaseInv => OnePhase
  BY DEF PhaseInv
<1> QED BY <1>1, PhaseInit, PhaseKeeps, PTL DEF Spec

\* No wake-up is lost: resetting a timer for the first entry of a map only, and after it
\* fired, keeps it armed as long as the map has entries (rescheduleFetch, rescheduleComplete).
THEOREM TimersCorrect == Spec => []TimersArmed
<1>1. PhaseInv => TimersArmed
  BY DEF PhaseInv
<1> QED BY <1>1, PhaseInit, PhaseKeeps, PTL DEF Spec

=============================================================================
