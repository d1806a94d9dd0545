-------------------------- MODULE DistributedLock --------------------------
(***************************************************************************)
(* The lock of mage_ai/orchestration/utils/distributed_lock.py: one key in *)
(* Redis, set with NX and an expiry, deleted on release.  The key stores   *)
(* the constant '1' and not its owner, so Redis knows only whether the     *)
(* lock is taken; `holders' is what the callers believe.                   *)
(***************************************************************************)

CONSTANTS
  Processes,    \* the processes that try to take the lock
  UsesRedis     \* whether REDIS_URL is configured

VARIABLES
  key,          \* whether the lock's key exists in Redis
  holders       \* the processes inside the section the lock guards

lockVars == <<key, holders>>

LockTypeOK ==
  /\ key \in BOOLEAN
  /\ holders \subseteq Processes

LockInit ==
  /\ key = FALSE
  /\ holders = {}

\* Broken variant: the key is set without NX.
AcquireAnyway(p) ==
  /\ key' = UsesRedis
  /\ holders' = holders \cup {p}

\* try_acquire_lock(): without Redis it always succeeds.
TryAcquire(p) ==
  /\ UsesRedis => ~key
  /\ key' = UsesRedis
  /\ holders' = holders \cup {p}

\* release_lock(): deletes the key, whoever set it.
Release(p) ==
  /\ key' = FALSE
  /\ holders' = holders \ {p}

\* The caller leaves the section and lets the key expire: schedule() never
\* releases the lock it took.
Leave(p) ==
  /\ holders' = holders \ {p}
  /\ UNCHANGED key

\* The expiry of the key, counted by Redis whatever its holder is doing.
Expire ==
  /\ key
  /\ key' = FALSE
  /\ UNCHANGED holders

(***************************************************************************)
(* What the lock is for, and what it needs to be that: a lease that does   *)
(* not run out while its holder is in the section.                         *)
(***************************************************************************)

OneHolder == \A p, q \in holders : p = q

KeyGuardsHolders == holders # {} => key
=============================================================================
