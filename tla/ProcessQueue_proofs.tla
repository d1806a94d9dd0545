------------------------ MODULE ProcessQueue_proofs ------------------------
(***************************************************************************)
(* Proofs about ProcessQueue, for every value of its constants: the types, *)
(* and that one scheduler process never has more workers than the size of  *)
(* the pool.                                                               *)
(***************************************************************************)
EXTENDS ProcessQueue, FiniteSetTheorems, FunctionTheorems, TLAPS

\* There is a job, so that AnyJob is one.
LEMMA AnyJobIsJob == AnyJob \in Jobs
BY QueueAssumption DEF QueueAssumption, AnyJob

\* The helpers that change one component of the state keep its type.
LEMMA HelperTypes ==
  ASSUME TypeOK
  PROVE  /\ \A p \in Pids, l \in WorkerPC :
              Become(p, l) => wpc' \in [Pids -> WorkerPC] /\ wjob' \in [Pids -> Jobs]
         /\ \A j \in Jobs, st \in JobStatus \cup Pids :
              Record(j, st) => jobDict' \in [Jobs -> JobStatus \cup Pids]
         /\ \A ended : Reap(ended) \in [Pids -> WorkerPC]
         /\ \A l \in ClientPC :
              ClientGoes(l) => /\ cpc' \in ClientPC
                               /\ cjob' \in Jobs
                               /\ seen' \in JobStatus \cup Pids
<1>1. \A p \in Pids, l \in WorkerPC :
        Become(p, l) => wpc' \in [Pids -> WorkerPC] /\ wjob' \in [Pids -> Jobs]
  BY AnyJobIsJob DEF TypeOK, Become
<1>2. \A j \in Jobs, st \in JobStatus \cup Pids :
        Record(j, st) => jobDict' \in [Jobs -> JobStatus \cup Pids]
  BY DEF TypeOK, Record
<1>3. \A ended : Reap(ended) \in [Pids -> WorkerPC]
  BY DEF TypeOK, Reap, WorkerPC
<1>4. \A l \in ClientPC : ClientGoes(l) => /\ cpc' \in ClientPC
                                           /\ cjob' \in Jobs
                                           /\ seen' \in JobStatus \cup Pids
  BY AnyJobIsJob DEF TypeOK, ClientGoes, JobStatus
<1> QED BY <1>1, <1>2, <1>3, <1>4

\* No step of any process takes a variable out of its type.
LEMMA TypeStep == TypeOK /\ [Next]_vars => TypeOK'
<1> SUFFICES ASSUME TypeOK, [Next]_vars PROVE TypeOK' OBVIOUS
<1> USE QueueAssumption DEF QueueAssumption, clientVars, poolVars, workerVars, killVars, boundVars
<1>1. ASSUME NEW j \in Jobs, LookUp(j) PROVE TypeOK'
  BY <1>1 DEF LookUp, TypeOK, ClientPC
<1>2. ASSUME NEW j \in Jobs, KillJob(j) PROVE TypeOK'
  BY <1>2 DEF KillJob, TypeOK
<1>3. ASSUME EnqueueOrSkip PROVE TypeOK'
  BY <1>3, HelperTypes DEF EnqueueOrSkip, ClientGoes, TypeOK, ClientPC
<1>4. ASSUME Put PROVE TypeOK'
  BY <1>4, HelperTypes DEF Put, ClientGoes, TypeOK, ClientPC
<1>5. ASSUME RecordQueued PROVE TypeOK'
  <2>1. jobDict' \in [Jobs -> JobStatus \cup Pids]
    BY <1>5, HelperTypes DEF RecordQueued, TypeOK, JobStatus
  <2> QED BY <1>5, <2>1, HelperTypes DEF RecordQueued, ClientGoes, TypeOK, ClientPC
<1>6. ASSUME EnsurePool PROVE TypeOK'
  BY <1>6, AnyJobIsJob DEF EnsurePool, TypeOK, ClientPC, PoolPC, JobStatus
<1>7. ASSUME CleanUpOrKeep PROVE TypeOK'
  BY <1>7, HelperTypes DEF CleanUpOrKeep, ClientGoes, TypeOK, ClientPC
<1>8. ASSUME DeleteJob PROVE TypeOK'
  <2>1. jobDict' \in [Jobs -> JobStatus \cup Pids]
    BY <1>8, HelperTypes DEF DeleteJob, TypeOK, JobStatus
  <2> QED BY <1>8, <2>1, HelperTypes DEF DeleteJob, ClientGoes, TypeOK, ClientPC
<1>9. ASSUME Feed PROVE TypeOK'
  BY <1>9 DEF Feed, TypeOK
<1>10. ASSUME Restart PROVE TypeOK'
  BY <1>10, AnyJobIsJob DEF Restart, TypeOK, ClientPC, JobStatus
<1>11. ASSUME NEW q \in Pools, Prune(q) PROVE TypeOK'
  BY <1>11, HelperTypes DEF Prune, TypeOK, PoolPC
<1>12. ASSUME NEW q \in Pools, StartWorker(q) PROVE TypeOK'
  <2>1. PICK p \in Pids : /\ workers' = [workers EXCEPT ![q] = @ \cup {p}]
                          /\ wpc' = [Reap(workers[q] \ Live) EXCEPT ![p] = "started"]
    BY <1>12 DEF StartWorker
  <2>2. wpc' \in [Pids -> WorkerPC]
    BY <2>1, HelperTypes DEF WorkerPC
  <2> QED BY <1>12, <2>1, <2>2 DEF StartWorker, TypeOK
<1>13. ASSUME NEW q \in Pools, Sleep(q) PROVE TypeOK'
  BY <1>13 DEF Sleep, TypeOK, PoolPC
<1>14. ASSUME NEW q \in Pools, EndPool(q) PROVE TypeOK'
  BY <1>14 DEF EndPool, TypeOK, PoolPC
<1>15. ASSUME NEW p \in Pids, LookIntoQueue(p) PROVE TypeOK'
  BY <1>15, HelperTypes DEF LookIntoQueue, TypeOK, WorkerPC
<1>16. ASSUME NEW p \in Pids, GetJob(p) PROVE TypeOK'
  BY <1>16 DEF GetJob, TypeOK, WorkerPC
<1>17. ASSUME NEW p \in Pids, CheckQueued(p) PROVE TypeOK'
  BY <1>17, HelperTypes DEF CheckQueued, TypeOK, WorkerPC
<1>18. ASSUME NEW p \in Pids, ClaimJob(p) PROVE TypeOK'
  <2>1. jobDict' \in [Jobs -> JobStatus \cup Pids]
    BY <1>18, HelperTypes DEF ClaimJob, TypeOK
  <2> QED BY <1>18, <2>1, HelperTypes DEF ClaimJob, TypeOK, WorkerPC
<1>19. ASSUME NEW p \in Pids, FinishJob(p) PROVE TypeOK'
  <2>1. jobDict' \in [Jobs -> JobStatus \cup Pids]
    BY <1>19, HelperTypes DEF FinishJob, TypeOK, JobStatus
  <2> QED BY <1>19, <2>1, HelperTypes DEF FinishJob, TypeOK, WorkerPC
<1>20. ASSUME NEW p \in Pids, Crash(p) PROVE TypeOK'
  BY <1>20, HelperTypes DEF Crash, TypeOK, WorkerPC
<1>21. ASSUME Signal PROVE TypeOK'
  <2>1. wpc' \in [Pids -> WorkerPC] /\ wjob' \in [Pids -> Jobs]
    BY <1>21, HelperTypes DEF Signal, TypeOK, WorkerPC, Live
  <2> QED BY <1>21, <2>1 DEF Signal, TypeOK
<1>22. ASSUME MarkCancelled PROVE TypeOK'
  <2>1. jobDict' \in [Jobs -> JobStatus \cup Pids]
    BY <1>22, HelperTypes DEF MarkCancelled, TypeOK, JobStatus
  <2> QED BY <1>22, <2>1, AnyJobIsJob DEF MarkCancelled, TypeOK, JobStatus
<1>23. CASE UNCHANGED vars
  BY <1>23 DEF TypeOK, vars
<1> QED
  BY <1>1, <1>2, <1>3, <1>4, <1>5, <1>6, <1>7, <1>8, <1>9, <1>10, <1>11, <1>12,
     <1>13, <1>14, <1>15, <1>16, <1>17, <1>18, <1>19, <1>20, <1>21, <1>22, <1>23
     DEF Next, ClientStep, PoolStep, WorkerStep

\* Every variable keeps its type in every behaviour.
THEOREM QueueTypeCorrect == Spec => []TypeOK
<1>1. Init => TypeOK
  BY QueueAssumption, AnyJobIsJob
     DEF QueueAssumption, Init, TypeOK, ClientPC, PoolPC, WorkerPC, JobStatus
<1> QED BY <1>1, TypeStep, PTL DEF Spec

-----------------------------------------------------------------------------
(* The inductive invariant behind WithinConcurrency.                       *)

\* Pools that the client does not know of: each is of a scheduler that died.
Orphans == {q \in Pools \ {handle} : pool[q] # "off"}

FewOrphans == IsFiniteSet(Orphans) /\ Cardinality(Orphans) <= restarts

\* A pool leaves with an empty list.
LeavesEmpty == \A q \in Pools : pool[q] \in {"off", "leaving"} => workers[q] = {}

\* Every worker process is in the list of a pool.
Listed == \A p \in Live : \E q \in Pools : p \in workers[q]

\* No list is longer than the size of the pool.
ListsWithinSize ==
  \A q \in Pools : IsFiniteSet(workers[q]) /\ Cardinality(workers[q]) <= Size

QueueInv == FewOrphans /\ LeavesEmpty /\ Listed /\ ListsWithinSize

\* A set has as many seats as it has elements, or more.
LEMMA Seats ==
  ASSUME NEW S, IsFiniteSet(S), NEW n \in Nat, Cardinality(S) <= n
  PROVE  \E f \in [S -> 1..n] : \A x, y \in S : f[x] = f[y] => x = y
<1>1. Cardinality(S) \in Nat /\ ExistsBijection(1..Cardinality(S), S)
  BY FS_CardinalityType
<1>2. ExistsBijection(S, 1..Cardinality(S))
  BY <1>1, Fun_ExistsBijSymmetric
<1>3. PICK f \in Bijection(S, 1..Cardinality(S)) : TRUE
  BY <1>2 DEF ExistsBijection
<1>4. f \in [S -> 1..Cardinality(S)] /\ \A x, y \in S : f[x] = f[y] => x = y
  BY <1>3 DEF Bijection, Injection, IsInjective
<1>5. f \in [S -> 1..n]
  BY <1>1, <1>4
<1> QED BY <1>4, <1>5

\* What is in one of a number of lists, none of which is longer than n: give
\* each element a list that has it, and its seat in that list.
LEMMA ListsBound ==
  ASSUME NEW A, IsFiniteSet(A), NEW L, NEW W, NEW n \in Nat,
         \A q \in A : IsFiniteSet(W[q]) /\ Cardinality(W[q]) <= n,
         \A p \in L : \E q \in A : p \in W[q]
  PROVE  IsFiniteSet(L) /\ Cardinality(L) <= Cardinality(A) * n
<1> DEFINE Seat(q) == CHOOSE f \in [W[q] -> 1..n] :
                        \A x, y \in W[q] : f[x] = f[y] => x = y
           List(p) == CHOOSE q \in A : p \in W[q]
           place == [p \in L |-> <<List(p), Seat(List(p))[p]>>]
<1>1. ASSUME NEW q \in A
      PROVE  /\ Seat(q) \in [W[q] -> 1..n]
             /\ \A x, y \in W[q] : Seat(q)[x] = Seat(q)[y] => x = y
  BY Seats
<1>2. ASSUME NEW p \in L PROVE List(p) \in A /\ p \in W[List(p)]
  OBVIOUS
<1> HIDE DEF Seat, List
<1>3. place \in [L -> A \X (1..n)]
  BY <1>1, <1>2
<1>4. ASSUME NEW p \in L, NEW r \in L, place[p] = place[r] PROVE p = r
  <2>1. List(p) = List(r) /\ Seat(List(p))[p] = Seat(List(p))[r]
    BY <1>4
  <2> QED BY <1>1, <1>2, <2>1
<1>5. place \in Injection(L, A \X (1..n))
  BY <1>3, <1>4 DEF Injection, IsInjective
<1>6. IsFiniteSet(1..n) /\ Cardinality(1..n) = n
  BY FS_Interval
<1>7. IsFiniteSet(A \X (1..n)) /\ Cardinality(A \X (1..n)) = Cardinality(A) * n
  BY <1>6, FS_Product
<1> HIDE DEF place
<1> QED BY <1>5, <1>7, FS_Injection

\* Every worker process is in the list of the client's pool or of an orphan.
LEMMA LiveWithinSize ==
  ASSUME TypeOK, QueueInv
  PROVE  Cardinality(Live) <= Size * (restarts + 1)
<1> DEFINE all == Orphans \cup {handle}
<1>1. /\ IsFiniteSet(all \cap Pools)
      /\ Cardinality(all \cap Pools) \in Nat
      /\ Cardinality(all \cap Pools) <= restarts + 1
  <2>1. /\ IsFiniteSet(Orphans) /\ Cardinality(Orphans) \in Nat
        /\ Cardinality(Orphans) <= restarts
    BY FS_CardinalityType DEF QueueInv, FewOrphans
  <2>2. IsFiniteSet(all) /\ Cardinality(all) <= Cardinality(Orphans) + 1
    BY <2>1, FS_AddElement
  <2>3. IsFiniteSet(all \cap Pools) /\ Cardinality(all \cap Pools) <= Cardinality(all)
    BY <2>2, FS_Subset
  <2>4. restarts \in Nat
    BY QueueAssumption DEF TypeOK, QueueAssumption
  <2>5. Cardinality(all) \in Nat /\ Cardinality(all \cap Pools) \in Nat
    BY <2>2, <2>3, FS_CardinalityType
  <2> QED BY <2>1, <2>2, <2>3, <2>4, <2>5
<1>2. \A p \in Live : \E q \in all \cap Pools : p \in workers[q]
  BY DEF QueueInv, Listed, LeavesEmpty, Orphans
<1>3. \A q \in all \cap Pools : IsFiniteSet(workers[q]) /\ Cardinality(workers[q]) <= Size
  BY DEF QueueInv, ListsWithinSize
<1>4. Size \in Nat /\ restarts \in Nat
  BY QueueAssumption DEF TypeOK, QueueAssumption
<1> HIDE DEF all
<1>5. IsFiniteSet(Live) /\ Cardinality(Live) <= Cardinality(all \cap Pools) * Size
  BY <1>1, <1>2, <1>3, <1>4, ListsBound
<1>6. Cardinality(Live) \in Nat
  BY <1>5, FS_CardinalityType
<1>7. \A m, n, k \in Nat : m <= n => m * k <= k * n
  OBVIOUS
<1> QED BY <1>1, <1>4, <1>5, <1>6, <1>7

\* A step that changes no pool and adds no worker process keeps the invariant.
LEMMA QueueFrame ==
  ASSUME QueueInv, UNCHANGED <<pool, workers, handle, restarts>>, Live' \subseteq Live
  PROVE  QueueInv'
BY DEF QueueInv, FewOrphans, Orphans, LeavesEmpty, Listed, ListsWithinSize

\* A worker process that goes on, or ends, does not add to the others.
LEMMA BecomeLive ==
  ASSUME TypeOK, NEW p \in Live, NEW l \in WorkerPC, Become(p, l)
  PROVE  Live' \subseteq Live
BY DEF Become, Live, TypeOK

\* The pool process drops from its list only processes that have ended.
LEMMA PruneStep ==
  ASSUME TypeOK, QueueInv, NEW q \in Pools, Prune(q)
  PROVE  QueueInv'
<1> USE DEF TypeOK, Prune, clientVars, boundVars
<1>1. Live' \subseteq Live /\ \A p \in Live' : p \in Live
  BY DEF Live, Reap
<1>2. FewOrphans'
  <2>1. Orphans' = Orphans
    BY DEF Orphans
  <2> QED BY <2>1 DEF QueueInv, FewOrphans
<1>3. LeavesEmpty'
  BY DEF QueueInv, LeavesEmpty
<1>4. Listed'
  BY <1>1 DEF QueueInv, Listed
<1>5. ListsWithinSize'
  <2> SUFFICES ASSUME NEW r \in Pools
               PROVE  IsFiniteSet(workers'[r]) /\ Cardinality(workers'[r]) <= Size
    BY DEF ListsWithinSize
  <2>1. workers'[r] \subseteq workers[r]
    OBVIOUS
  <2>2. IsFiniteSet(workers[r]) /\ Cardinality(workers[r]) <= Size
    BY DEF QueueInv, ListsWithinSize
  <2>3. IsFiniteSet(workers'[r]) /\ Cardinality(workers'[r]) <= Cardinality(workers[r])
    BY <2>1, <2>2, FS_Subset
  <2> QED BY <2>2, <2>3, FS_CardinalityType, QueueAssumption DEF QueueAssumption
<1> QED BY <1>2, <1>3, <1>4, <1>5 DEF QueueInv

\* The pool process starts a worker only while its list is short enough.
LEMMA StartWorkerStep ==
  ASSUME TypeOK, QueueInv, NEW q \in Pools, StartWorker(q)
  PROVE  QueueInv'
<1>1. PICK p \in Pids : /\ workers' = [workers EXCEPT ![q] = @ \cup {p}]
                        /\ wpc' = [Reap(workers[q] \ Live) EXCEPT ![p] = "started"]
  BY DEF StartWorker
<1>2. /\ pool[q] = "fill" /\ Cardinality(workers[q]) < Size
      /\ UNCHANGED <<pool, handle, restarts>>
  BY DEF StartWorker, clientVars, boundVars
<1>3. Live' \subseteq Live \cup {p}
  BY <1>1 DEF Live, Reap
<1>4. FewOrphans'
  BY <1>2 DEF QueueInv, FewOrphans, Orphans
<1>5. LeavesEmpty'
  BY <1>1, <1>2 DEF TypeOK, QueueInv, LeavesEmpty
<1>6. Listed'
  BY <1>1, <1>3 DEF TypeOK, QueueInv, Listed
<1>7. ListsWithinSize'
  <2>1. IsFiniteSet(workers[q])
    BY DEF QueueInv, ListsWithinSize
  <2>2. /\ IsFiniteSet(workers[q] \cup {p})
        /\ Cardinality(workers[q] \cup {p}) <= Cardinality(workers[q]) + 1
    BY <2>1, FS_AddElement, FS_CardinalityType
  <2>3. Cardinality(workers[q] \cup {p}) <= Size
    BY <1>2, <2>1, <2>2, FS_CardinalityType, FS_AddElement, QueueAssumption
       DEF QueueAssumption
  <2>4. workers'[q] = workers[q] \cup {p} /\ \A r \in Pools \ {q} : workers'[r] = workers[r]
    BY <1>1 DEF TypeOK
  <2>5. \A r \in Pools \ {q} : IsFiniteSet(workers'[r]) /\ Cardinality(workers'[r]) <= Size
    BY <2>4 DEF QueueInv, ListsWithinSize
  <2> QED BY <2>2, <2>3, <2>4, <2>5 DEF ListsWithinSize
<1> QED BY <1>4, <1>5, <1>6, <1>7 DEF QueueInv

\* The client starts a pool only when the one it knows of has ended.
LEMMA EnsurePoolStep ==
  ASSUME TypeOK, QueueInv, EnsurePool
  PROVE  QueueInv'
<1>1. UNCHANGED <<workers, wpc, restarts>>
  BY DEF EnsurePool, workerVars, boundVars
<1>2. Listed' /\ ListsWithinSize'
  BY <1>1 DEF QueueInv, Listed, ListsWithinSize, Live
<1>3. CASE UNCHANGED <<handle, pool>>
  BY <1>1, <1>2, <1>3 DEF QueueInv, FewOrphans, Orphans, LeavesEmpty
<1>4. ASSUME ~PoolAlive, NEW q \in Pools, pool[q] = "off",
             pool' = [pool EXCEPT ![q] = "top"], handle' = q
      PROVE  QueueInv'
  <2>1. Orphans' = Orphans
    <3>1. \A r \in Pools : r = handle => pool[r] = "off"
      BY <1>4, QueueAssumption DEF QueueAssumption, PoolAlive
    <3> QED BY <1>4, <3>1 DEF TypeOK, Orphans
  <2>2. LeavesEmpty'
    BY <1>1, <1>4 DEF TypeOK, QueueInv, LeavesEmpty
  <2> QED BY <1>1, <1>2, <2>1, <2>2 DEF QueueInv, FewOrphans
<1> QED BY <1>3, <1>4 DEF EnsurePool

\* A restart leaves one more pool behind.
LEMMA RestartStep ==
  ASSUME TypeOK, QueueInv, Restart
  PROVE  QueueInv'
<1>1. UNCHANGED <<pool, workers, wpc>> /\ restarts' = restarts + 1
  BY DEF Restart, poolVars, workerVars
<1>2. Orphans' \subseteq Orphans \cup {handle}
  BY <1>1 DEF Orphans
<1>3. /\ IsFiniteSet(Orphans \cup {handle})
      /\ Cardinality(Orphans \cup {handle}) <= Cardinality(Orphans) + 1
      /\ Cardinality(Orphans) \in Nat /\ Cardinality(Orphans \cup {handle}) \in Nat
  BY FS_AddElement, FS_CardinalityType DEF QueueInv, FewOrphans
<1>4. IsFiniteSet(Orphans') /\ Cardinality(Orphans') <= Cardinality(Orphans \cup {handle})
  BY <1>2, <1>3, FS_Subset
<1>5. Cardinality(Orphans') \in Nat /\ restarts \in Nat
  BY <1>4, FS_CardinalityType, QueueAssumption DEF TypeOK, QueueAssumption
<1>6. FewOrphans'
  BY <1>1, <1>3, <1>4, <1>5 DEF QueueInv, FewOrphans
<1> QED
  BY <1>1, <1>6 DEF QueueInv, LeavesEmpty, Listed, ListsWithinSize, Live

\* A pool ends, or goes on to its next round.
LEMMA SleepOrEndStep ==
  ASSUME TypeOK, QueueInv, NEW q \in Pools, Sleep(q) \/ EndPool(q)
  PROVE  QueueInv'
<1>1. UNCHANGED <<handle, workers, wpc, restarts>>
  BY DEF Sleep, EndPool, clientVars, workerVars, boundVars
<1>2. Orphans' \subseteq Orphans
  BY <1>1 DEF Sleep, EndPool, TypeOK, Orphans
<1>3. IsFiniteSet(Orphans') /\ Cardinality(Orphans') <= Cardinality(Orphans)
  BY <1>2, FS_Subset DEF QueueInv, FewOrphans
<1>4. /\ Cardinality(Orphans') \in Nat /\ Cardinality(Orphans) \in Nat
      /\ restarts \in Nat
  BY <1>3, FS_CardinalityType, QueueAssumption
     DEF QueueInv, FewOrphans, TypeOK, QueueAssumption
<1>5. FewOrphans'
  BY <1>1, <1>3, <1>4 DEF QueueInv, FewOrphans
<1>6. LeavesEmpty'
  BY <1>1 DEF Sleep, EndPool, TypeOK, QueueInv, LeavesEmpty
<1> QED
  BY <1>1, <1>5, <1>6 DEF QueueInv, Listed, ListsWithinSize, Live

\* Every step keeps the invariant.
LEMMA QueueStep ==
  ASSUME TypeOK, QueueInv, [Next]_vars
  PROVE  QueueInv'
<1> USE DEF clientVars, poolVars, workerVars, killVars, boundVars
<1>1. ASSUME NEW j \in Jobs, LookUp(j) \/ KillJob(j) PROVE QueueInv'
  BY <1>1, QueueFrame DEF LookUp, KillJob, Live
<1>2. CASE EnqueueOrSkip \/ Put \/ RecordQueued \/ CleanUpOrKeep \/ DeleteJob
  BY <1>2, QueueFrame
     DEF EnqueueOrSkip, Put, RecordQueued, CleanUpOrKeep, DeleteJob, ClientGoes, Live
<1>3. CASE EnsurePool
  BY <1>3, EnsurePoolStep
<1>4. CASE Feed
  BY <1>4, QueueFrame DEF Feed, Live
<1>5. CASE Restart
  BY <1>5, RestartStep
<1>6. ASSUME NEW q \in Pools, Prune(q) PROVE QueueInv'
  BY <1>6, PruneStep
<1>7. ASSUME NEW q \in Pools, StartWorker(q) PROVE QueueInv'
  BY <1>7, StartWorkerStep
<1>8. ASSUME NEW q \in Pools, Sleep(q) \/ EndPool(q) PROVE QueueInv'
  BY <1>8, SleepOrEndStep
<1>9. ASSUME NEW p \in Pids, WorkerStep(p) \/ Crash(p) PROVE QueueInv'
  <2>1. p \in Live /\ UNCHANGED <<pool, workers, handle, restarts>>
    BY <1>9 DEF WorkerStep, LookIntoQueue, GetJob, CheckQueued, ClaimJob, FinishJob, Crash, Live
  <2>2. \E l \in WorkerPC : wpc' = [wpc EXCEPT ![p] = l]
    BY <1>9 DEF WorkerStep, LookIntoQueue, GetJob, CheckQueued, ClaimJob, FinishJob, Crash,
                Become, WorkerPC
  <2>3. Live' \subseteq Live
    BY <2>1, <2>2 DEF TypeOK, Live
  <2> QED BY <2>1, <2>3, QueueFrame
<1>10. CASE Signal
  BY <1>10, QueueFrame, BecomeLive DEF Signal, Live, WorkerPC
<1>11. CASE MarkCancelled \/ UNCHANGED vars
  BY <1>11, QueueFrame DEF MarkCancelled, vars, Live
<1> QED
  BY <1>1, <1>2, <1>3, <1>4, <1>5, <1>6, <1>7, <1>8, <1>9, <1>10, <1>11
     DEF Next, ClientStep, PoolStep

\* One scheduler process never has more workers than the size of the pool, and
\* every restart adds at most as many: whatever crashes, is killed or is enqueued,
\* and in whatever order the client, the pools and the workers take their steps.
THEOREM ConcurrencyRespected == Spec => []WithinConcurrency
<1>1. Init => QueueInv
  <2> SUFFICES ASSUME Init PROVE QueueInv
    OBVIOUS
  <2>1. Orphans = {} /\ Live = {} /\ restarts = 0
    BY DEF Init, Orphans, Live
  <2>2. FewOrphans
    BY <2>1, FS_EmptySet DEF FewOrphans
  <2>3. LeavesEmpty /\ Listed
    BY <2>1 DEF Init, LeavesEmpty, Listed
  <2>4. ListsWithinSize
    BY FS_EmptySet, QueueAssumption DEF QueueAssumption, Init, ListsWithinSize
  <2> QED BY <2>2, <2>3, <2>4 DEF QueueInv
<1>2. TypeOK /\ QueueInv /\ [Next]_vars => QueueInv'
  BY QueueStep
<1>3. TypeOK /\ QueueInv => WithinConcurrency
  BY LiveWithinSize DEF WithinConcurrency
<1> QED BY <1>1, <1>2, <1>3, QueueTypeCorrect, PTL DEF Spec
=============================================================================
