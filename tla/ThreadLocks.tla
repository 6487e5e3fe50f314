----------------------------- MODULE ThreadLocks ----------------------------
(***************************************************************************)
(* The named mutexes and their initialisation on first use (mapthread.c).  *)
(*                                                                         *)
(* msAcquireLock reads mutexes_initialized without a lock while another    *)
(* thread may be counting it up in msThreadInit.                           *)
(***************************************************************************)
EXTENDS Integers

CONSTANTS
    Threads,
    NoThread,
    TLOCK_STATIC_MAX,       \* how many mutexes there are
    NDEBUG                  \* the build has no assertions

ASSUME ThreadLocksAssumption ==
    /\ NoThread \notin Threads
    /\ TLOCK_STATIC_MAX \in Nat \ {0}
    /\ NDEBUG \in BOOLEAN

Locks == 0 .. TLOCK_STATIC_MAX - 1

VARIABLES
    mutexes_initialized,
    inits,                  \* how often pthread_mutex_init has seen a mutex
    core_lock,              \* who is inside of msThreadInit
    mutex_locks,            \* who holds a mutex, as the mutex itself knows
    pc,                     \* where a thread is
    call,                   \* the call it is in: msSetup or msAcquireLock
    lock                    \* the mutex it is about

vars == <<mutexes_initialized, inits, core_lock, mutex_locks, pc, call, lock>>

TypeOK ==
    /\ mutexes_initialized \in 0 .. TLOCK_STATIC_MAX
    /\ inits \in [Locks -> Nat]
    /\ core_lock \in Threads \cup {NoThread}
    /\ mutex_locks \in [Locks -> Threads \cup {NoThread}]
    /\ pc \in [Threads -> {"idle", "init", "loop", "count", "assert", "wait",
                           "inside", "aborted"}]
    /\ call \in [Threads -> {"setup", "acquire"}]
    /\ lock \in [Threads -> Locks]

Init ==
    /\ mutexes_initialized = 0
    /\ inits = [k \in Locks |-> 0]
    /\ core_lock = NoThread
    /\ mutex_locks = [k \in Locks |-> NoThread]
    /\ pc = [t \in Threads |-> "idle"]
    /\ call = [t \in Threads |-> "setup"]
    /\ lock = [t \in Threads |-> 0]

Goto(t, where) == pc' = [pc EXCEPT ![t] = where]

-----------------------------------------------------------------------------
\* msSetup calls msThreadInit.
Setup(t) ==
    /\ pc[t] = "idle"
    /\ Goto(t, "init")
    /\ call' = [call EXCEPT ![t] = "setup"]
    /\ UNCHANGED <<mutexes_initialized, inits, core_lock, mutex_locks, lock>>

\* msAcquireLock: only a thread that reads zero goes through msThreadInit.
AcquireLock(t, k) ==
    /\ pc[t] = "idle"
    /\ Goto(t, IF mutexes_initialized = 0 THEN "init" ELSE "assert")
    /\ call' = [call EXCEPT ![t] = "acquire"]
    /\ lock' = [lock EXCEPT ![t] = k]
    /\ UNCHANGED <<mutexes_initialized, inits, core_lock, mutex_locks>>

\* Slip: nothing keeps two threads from initialising at once.
InitEnterUnlocked(t) ==
    /\ pc[t] = "init"
    /\ core_lock' = t
    /\ Goto(t, "loop")
    /\ UNCHANGED <<mutexes_initialized, inits, mutex_locks, call, lock>>

InitEnter(t) ==
    /\ pc[t] = "init"
    /\ core_lock = NoThread
    /\ core_lock' = t
    /\ Goto(t, "loop")
    /\ UNCHANGED <<mutexes_initialized, inits, mutex_locks, call, lock>>

\* pthread_mutex_init: whoever held the mutex before, it is free now.
InitMutex(t) ==
    /\ pc[t] = "loop"
    /\ mutexes_initialized < TLOCK_STATIC_MAX
    /\ inits' = [inits EXCEPT ![mutexes_initialized] = @ + 1]
    /\ mutex_locks' = [mutex_locks EXCEPT ![mutexes_initialized] = NoThread]
    /\ Goto(t, "count")
    /\ UNCHANGED <<mutexes_initialized, core_lock, call, lock>>

InitCount(t) ==
    /\ pc[t] = "count"
    /\ mutexes_initialized' = mutexes_initialized + 1
    /\ Goto(t, "loop")
    /\ UNCHANGED <<inits, core_lock, mutex_locks, call, lock>>

InitLeave(t) ==
    /\ pc[t] = "loop"
    /\ mutexes_initialized >= TLOCK_STATIC_MAX
    /\ core_lock' = NoThread
    /\ Goto(t, IF call[t] = "setup" THEN "idle" ELSE "assert")
    /\ UNCHANGED <<mutexes_initialized, inits, mutex_locks, call, lock>>

Running == \A t \in Threads : pc[t] # "aborted"

\* Slip: the identifier is not checked.
AssertPassesAlways(t) ==
    /\ pc[t] = "assert"
    /\ Goto(t, "wait")
    /\ UNCHANGED <<mutexes_initialized, inits, core_lock, mutex_locks, call, lock>>

\* The assertion on the identifier; without assertions the thread goes on.
AssertPasses(t) ==
    /\ pc[t] = "assert"
    /\ NDEBUG \/ lock[t] < mutexes_initialized
    /\ Goto(t, "wait")
    /\ UNCHANGED <<mutexes_initialized, inits, core_lock, mutex_locks, call, lock>>

\* A failed assertion ends the process.
AssertFails(t) ==
    /\ pc[t] = "assert"
    /\ ~NDEBUG
    /\ lock[t] >= mutexes_initialized
    /\ Goto(t, "aborted")
    /\ UNCHANGED <<mutexes_initialized, inits, core_lock, mutex_locks, call, lock>>

\* pthread_mutex_lock.  A mutex nobody has initialised is all zeros, which on
\* Linux is a free mutex.
Lock(t) ==
    /\ pc[t] = "wait"
    /\ mutex_locks[lock[t]] = NoThread
    /\ mutex_locks' = [mutex_locks EXCEPT ![lock[t]] = t]
    /\ Goto(t, "inside")
    /\ UNCHANGED <<mutexes_initialized, inits, core_lock, call, lock>>

\* msReleaseLock: its assertions hold where those of msAcquireLock did.
ReleaseLock(t) ==
    /\ pc[t] = "inside"
    /\ mutex_locks' = [mutex_locks EXCEPT ![lock[t]] = NoThread]
    /\ Goto(t, "idle")
    /\ UNCHANGED <<mutexes_initialized, inits, core_lock, call, lock>>

Next ==
    /\ Running
    /\ \E t \in Threads :
          \/ Setup(t)
          \/ \E k \in Locks : AcquireLock(t, k)
          \/ InitEnter(t) \/ InitMutex(t) \/ InitCount(t) \/ InitLeave(t)
          \/ AssertPasses(t) \/ AssertFails(t)
          \/ Lock(t) \/ ReleaseLock(t)

Spec == Init /\ [][Next]_vars

-----------------------------------------------------------------------------
\* However many threads call msThreadInit, each mutex is initialised once.
InitOnce == \A k \in Locks : inits[k] <= 1

\* A thread waits for a mutex that another one holds (mapthread.c:52: "If it is
\* already held by another thread then this thread will block till the other
\* thread releases it").
MutualExclusion ==
    \A t, u \in Threads :
        pc[t] = "inside" /\ pc[u] = "inside" /\ lock[t] = lock[u] => t = u

\* Why the first holds: the counter counts the mutexes initialised, and only the
\* thread in msThreadInit moves it.
InitInv ==
    /\ TypeOK
    /\ \A t \in Threads : pc[t] \in {"loop", "count"} => core_lock = t
    /\ \A k \in Locks :
          inits[k] = IF \/ k < mutexes_initialized
                        \/ /\ k = mutexes_initialized
                           /\ core_lock # NoThread
                           /\ pc[core_lock] = "count"
                     THEN 1 ELSE 0
    /\ \A t \in Threads : pc[t] = "count" => mutexes_initialized < TLOCK_STATIC_MAX

\* Why the second holds: nobody gets to a mutex before it is initialised, and a
\* mutex that is held knows by whom.
LocksInv ==
    /\ InitInv
    /\ \A t \in Threads : pc[t] \in {"wait", "inside"} => lock[t] < mutexes_initialized
    /\ \A t \in Threads : pc[t] = "inside" => mutex_locks[lock[t]] = t
=============================================================================
