------------------------- MODULE ThreadLocksProofs --------------------------
(***************************************************************************)
(* For any threads and mutexes: every mutex is initialised once, and in a  *)
(* build with assertions nobody gets to one that is not initialised.       *)
(***************************************************************************)
EXTENDS ThreadLocks, TLAPS

\* The invariant holds before the first call.
LEMMA InitLocksInv == Init => LocksInv
  BY ThreadLocksAssumption DEF Init, InitInv, LocksInv, TypeOK, Locks

\* A step outside of msThreadInit moves one thread between phases.
LEMMA TypeStep ==
  ASSUME TypeOK, [Next]_vars,
         \A t \in Threads : pc[t] = "count" => mutexes_initialized < TLOCK_STATIC_MAX
  PROVE  TypeOK'
  <1> USE ThreadLocksAssumption
  <1>1. CASE UNCHANGED vars
    BY <1>1 DEF vars, TypeOK
  <1>2. ASSUME NEW t \in Threads, Setup(t) PROVE TypeOK'
    BY <1>2 DEF Setup, Goto, TypeOK
  <1>3. ASSUME NEW t \in Threads, NEW k \in Locks, AcquireLock(t, k) PROVE TypeOK'
    BY <1>3 DEF AcquireLock, Goto, TypeOK
  <1>4. ASSUME NEW t \in Threads, InitEnter(t) PROVE TypeOK'
    BY <1>4 DEF InitEnter, Goto, TypeOK
  <1>5. ASSUME NEW t \in Threads, InitMutex(t) PROVE TypeOK'
    <2>1. mutexes_initialized \in Locks
      BY <1>5 DEF InitMutex, TypeOK, Locks
    <2> QED
      BY <1>5, <2>1 DEF InitMutex, Goto, TypeOK
  <1>6. ASSUME NEW t \in Threads, InitCount(t) PROVE TypeOK'
    BY <1>6 DEF InitCount, Goto, TypeOK
  <1>7. ASSUME NEW t \in Threads, InitLeave(t) PROVE TypeOK'
    BY <1>7 DEF InitLeave, Goto, TypeOK
  <1>8. ASSUME NEW t \in Threads, AssertPasses(t) \/ AssertFails(t) PROVE TypeOK'
    BY <1>8 DEF AssertPasses, AssertFails, Goto, TypeOK
  <1>9. ASSUME NEW t \in Threads, Lock(t) \/ ReleaseLock(t) PROVE TypeOK'
    BY <1>9 DEF Lock, ReleaseLock, Goto, TypeOK
  <1> QED
    BY <1>1, <1>2, <1>3, <1>4, <1>5, <1>6, <1>7, <1>8, <1>9 DEF Next

\* Every step keeps the part about msThreadInit, in any build.
LEMMA StepInitInv ==
  ASSUME InitInv, [Next]_vars
  PROVE  InitInv'
  <1> USE ThreadLocksAssumption
  <1>0. TypeOK /\ TypeOK'
    BY TypeStep DEF InitInv
  <1>1. CASE UNCHANGED vars
    BY <1>0, <1>1 DEF vars, InitInv
  <1>2. ASSUME NEW t \in Threads, Setup(t) PROVE InitInv'
    BY <1>0, <1>2 DEF Setup, Goto, TypeOK, InitInv
  <1>3. ASSUME NEW t \in Threads, NEW k \in Locks, AcquireLock(t, k) PROVE InitInv'
    BY <1>0, <1>3 DEF AcquireLock, Goto, TypeOK, InitInv
  <1>4. ASSUME NEW t \in Threads, InitEnter(t) PROVE InitInv'
    BY <1>0, <1>4 DEF InitEnter, Goto, TypeOK, InitInv
  <1>5. ASSUME NEW t \in Threads, InitMutex(t) PROVE InitInv'
    BY <1>0, <1>5 DEF InitMutex, Goto, TypeOK, InitInv, Locks
  <1>6. ASSUME NEW t \in Threads, InitCount(t) PROVE InitInv'
    BY <1>0, <1>6 DEF InitCount, Goto, TypeOK, InitInv, Locks
  <1>7. ASSUME NEW t \in Threads, InitLeave(t) PROVE InitInv'
    BY <1>0, <1>7 DEF InitLeave, Goto, TypeOK, InitInv
  <1>8. ASSUME NEW t \in Threads, AssertPasses(t) \/ AssertFails(t) PROVE InitInv'
    BY <1>0, <1>8 DEF AssertPasses, AssertFails, Goto, TypeOK, InitInv
  <1>9. ASSUME NEW t \in Threads, Lock(t) PROVE InitInv'
    BY <1>0, <1>9 DEF Lock, Goto, TypeOK, InitInv
  <1>10. ASSUME NEW t \in Threads, ReleaseLock(t) PROVE InitInv'
    BY <1>0, <1>10 DEF ReleaseLock, Goto, TypeOK, InitInv
  <1> QED
    BY <1>1, <1>2, <1>3, <1>4, <1>5, <1>6, <1>7, <1>8, <1>9, <1>10 DEF Next

\* Every step keeps the whole when assertions are compiled in.
LEMMA StepLocksInv ==
  ASSUME LocksInv, [Next]_vars, ~NDEBUG
  PROVE  LocksInv'
  <1> USE ThreadLocksAssumption
  <1>0. InitInv /\ InitInv' /\ TypeOK /\ TypeOK'
    BY StepInitInv DEF LocksInv, InitInv
  <1>1. CASE UNCHANGED vars
    BY <1>0, <1>1 DEF vars, LocksInv
  <1>2. ASSUME NEW t \in Threads, Setup(t) PROVE LocksInv'
    BY <1>0, <1>2 DEF Setup, Goto, TypeOK, InitInv, LocksInv
  <1>3. ASSUME NEW t \in Threads, NEW k \in Locks, AcquireLock(t, k) PROVE LocksInv'
    BY <1>0, <1>3 DEF AcquireLock, Goto, TypeOK, InitInv, LocksInv
  <1>4. ASSUME NEW t \in Threads, InitEnter(t) PROVE LocksInv'
    BY <1>0, <1>4 DEF InitEnter, Goto, TypeOK, InitInv, LocksInv
  <1>5. ASSUME NEW t \in Threads, InitMutex(t) PROVE LocksInv'
    BY <1>0, <1>5 DEF InitMutex, Goto, TypeOK, InitInv, LocksInv, Locks
  <1>6. ASSUME NEW t \in Threads, InitCount(t) PROVE LocksInv'
    BY <1>0, <1>6 DEF InitCount, Goto, TypeOK, InitInv, LocksInv, Locks
  <1>7. ASSUME NEW t \in Threads, InitLeave(t) PROVE LocksInv'
    BY <1>0, <1>7 DEF InitLeave, Goto, TypeOK, InitInv, LocksInv
  <1>8. ASSUME NEW t \in Threads, AssertPasses(t) \/ AssertFails(t) PROVE LocksInv'
    BY <1>0, <1>8 DEF AssertPasses, AssertFails, Goto, TypeOK, InitInv, LocksInv
  <1>9. ASSUME NEW t \in Threads, Lock(t) PROVE LocksInv'
    BY <1>0, <1>9 DEF Lock, Goto, TypeOK, InitInv, LocksInv
  <1>10. ASSUME NEW t \in Threads, ReleaseLock(t) PROVE LocksInv'
    BY <1>0, <1>10 DEF ReleaseLock, Goto, TypeOK, InitInv, LocksInv
  <1> QED
    BY <1>1, <1>2, <1>3, <1>4, <1>5, <1>6, <1>7, <1>8, <1>9, <1>10 DEF Next

\* The inductive invariant of the lazy initialisation.
THEOREM LocksInvariance == ASSUME ~NDEBUG PROVE Spec => []LocksInv
  <1>1. Init => LocksInv
    BY InitLocksInv
  <1>2. LocksInv /\ [Next]_vars => LocksInv'
    BY StepLocksInv
  <1> QED
    BY <1>1, <1>2, PTL DEF Spec

\* However many threads race into msThreadInit, no mutex is initialised twice,
\* with or without assertions.
THEOREM InitialisedOnce == Spec => []InitOnce
  <1>1. Init => InitInv
    BY InitLocksInv DEF LocksInv
  <1>2. InitInv /\ [Next]_vars => InitInv'
    BY StepInitInv
  <1>3. InitInv => InitOnce
    BY DEF InitInv, InitOnce
  <1> QED
    BY <1>1, <1>2, <1>3, PTL DEF Spec

\* Two threads are never inside of the same mutex (msAcquireLock).
THEOREM LocksExclude == ASSUME ~NDEBUG PROVE Spec => []MutualExclusion
  <1>1. LocksInv => MutualExclusion
    BY DEF LocksInv, MutualExclusion
  <1> QED
    BY <1>1, LocksInvariance, PTL
=============================================================================
