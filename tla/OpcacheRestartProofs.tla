----------------------- MODULE OpcacheRestartProofs -----------------------
(* Theorems about OpcacheRestart, for any number of processes and scripts,  *)
(* any size of the segment and any number of restarts and crashes.          *)
EXTENDS OpcacheRestart, FiniteSetTheorems, TLAPS

\* Discarding a script marks at most the copy it was given, and moves no memory.
LEMMA DiscardFrame ==
    ASSUME NEW p \in Procs, NEW label, Discard(p, label)
    PROVE  /\ corrupted' \subseteq corrupted \cup {ptr[p]}
           /\ UNCHANGED <<hash, used>>
<1>1. corrupted' = corrupted \/ corrupted' = corrupted \cup {ptr[p]}
  BY Zenon DEF Discard, zend_accel_discard_script
<1>2. QED
  BY <1>1 DEF Discard

\* Type correctness of every operation of the cache and of the restart protocol.
THEOREM TypeCorrect == Spec => []TypeOK
<1> USE OpcacheAssumption DEF Positions, Named, PCs, RestartPCs, NotYetOn, SchedulePCs,
        CompilePCs, InvalidatePCs, Uncut, HalfDone
<1>1. Init => TypeOK
  <2> SUFFICES ASSUME Init PROVE TypeOK
    OBVIOUS
  <2>1. LockTypes
    BY DEF Init, LockTypes
  <2>2. FlagTypes
    BY DEF Init, FlagTypes
  <2>3. CounterTypes
    BY DEF Init, CounterTypes
  <2>4. MemoryTypes
    BY DEF Init, MemoryTypes
  <2>5. ControlTypes
    BY DEF Init, ControlTypes
  <2>6. PointerTypes
    BY DEF Init, PointerTypes
  <2>7. QED
    BY <2>1, <2>2, <2>3, <2>4, <2>5, <2>6 DEF TypeOK
<1>2. TypeOK /\ [Next]_vars => TypeOK'
  <2> SUFFICES ASSUME TypeOK, [Next]_vars PROVE TypeOK'
    OBVIOUS
  <2> USE DEF TypeOK, locks, flags, memory, local, ghost, pointers
  <2>1. CASE UNCHANGED vars
    BY <2>1 DEF LockTypes, FlagTypes, CounterTypes, MemoryTypes, ControlTypes, PointerTypes, vars
  <2>2. CASE Next
    <3> PICK p \in Procs : NextOf(p)
      BY <2>2 DEF Next
    <3> USE DEF Goto, Step, zend_shared_alloc_lock, zend_shared_alloc_unlock, MayBailOut
    <3>1. CASE RequestStart(p)
      BY <3>1 DEF RequestStart, LockTypes, FlagTypes, CounterTypes, MemoryTypes,
         ControlTypes, PointerTypes
    <3>2. CASE RestartLock(p)
      BY <3>2 DEF RestartLock, LockTypes, FlagTypes, CounterTypes, MemoryTypes,
         ControlTypes, PointerTypes
    <3>3. CASE RestartCheck(p)
      <4>1. LockTypes'
        BY <3>3 DEF RestartCheck, accel_is_inactive, LockTypes
      <4>2. FlagTypes'
        BY <3>3 DEF RestartCheck, accel_is_inactive, FlagTypes
      <4>3. CounterTypes'
        BY <3>3 DEF RestartCheck, accel_is_inactive, CounterTypes, ControlTypes, LockTypes
      <4>4. MemoryTypes'
        BY <3>3 DEF RestartCheck, accel_is_inactive, MemoryTypes, PointerTypes, LockTypes
      <4>5. ControlTypes'
        BY <3>3 DEF RestartCheck, accel_is_inactive, ControlTypes, FlagTypes, LockTypes
      <4>6. PointerTypes'
        BY <3>3 DEF RestartCheck, accel_is_inactive, PointerTypes, ControlTypes,
           MemoryTypes, CounterTypes, LockTypes
      <4>7. QED
        BY <4>1, <4>2, <4>3, <4>4, <4>5, <4>6
    <3>4. CASE accel_restart_enter(p)
      <4>1. LockTypes'
        BY <3>4 DEF accel_restart_enter, LockTypes
      <4>2. FlagTypes'
        BY <3>4 DEF accel_restart_enter, FlagTypes
      <4>3. CounterTypes'
        BY <3>4 DEF accel_restart_enter, CounterTypes, ControlTypes, LockTypes
      <4>4. MemoryTypes'
        BY <3>4 DEF accel_restart_enter, MemoryTypes, PointerTypes, LockTypes
      <4>5. ControlTypes'
        BY <3>4 DEF accel_restart_enter, ControlTypes, FlagTypes, LockTypes
      <4>6. PointerTypes'
        BY <3>4 DEF accel_restart_enter, PointerTypes, ControlTypes, MemoryTypes,
           CounterTypes, LockTypes
      <4>7. QED
        BY <4>1, <4>2, <4>3, <4>4, <4>5, <4>6
    <3>5. CASE RestartReset(p)
      <4>1. LockTypes'
        BY <3>5 DEF RestartReset, LockTypes
      <4>2. FlagTypes'
        BY <3>5 DEF RestartReset, FlagTypes
      <4>3. CounterTypes'
        BY <3>5 DEF RestartReset, CounterTypes, ControlTypes, LockTypes
      <4>4. MemoryTypes'
        BY <3>5 DEF RestartReset, MemoryTypes, PointerTypes, LockTypes
      <4>5. ControlTypes'
        BY <3>5 DEF RestartReset, ControlTypes, FlagTypes, LockTypes
      <4>6. PointerTypes'
        BY <3>5 DEF RestartReset, PointerTypes, ControlTypes, MemoryTypes, CounterTypes,
           LockTypes
      <4>7. QED
        BY <4>1, <4>2, <4>3, <4>4, <4>5, <4>6
    <3>6. CASE RestartClean(p)
      <4>1. LockTypes'
        BY <3>6 DEF RestartClean, LockTypes
      <4>2. FlagTypes'
        BY <3>6 DEF RestartClean, FlagTypes
      <4>3. CounterTypes'
        BY <3>6 DEF RestartClean, CounterTypes, ControlTypes, LockTypes
      <4>4. MemoryTypes'
        BY <3>6 DEF RestartClean, MemoryTypes, PointerTypes, LockTypes
      <4>5. ControlTypes'
        BY <3>6 DEF RestartClean, ControlTypes, FlagTypes, LockTypes
      <4>6. PointerTypes'
        BY <3>6 DEF RestartClean, PointerTypes, ControlTypes, MemoryTypes, CounterTypes,
           LockTypes
      <4>7. QED
        BY <4>1, <4>2, <4>3, <4>4, <4>5, <4>6
    <3>7. CASE RestartRestore(p)
      <4>1. LockTypes'
        BY <3>7 DEF RestartRestore, LockTypes
      <4>2. FlagTypes'
        BY <3>7 DEF RestartRestore, FlagTypes
      <4>3. CounterTypes'
        BY <3>7 DEF RestartRestore, CounterTypes, ControlTypes, LockTypes
      <4>4. MemoryTypes'
        BY <3>7 DEF RestartRestore, MemoryTypes, PointerTypes, LockTypes
      <4>5. ControlTypes'
        BY <3>7 DEF RestartRestore, ControlTypes, FlagTypes, LockTypes
      <4>6. PointerTypes'
        BY <3>7 DEF RestartRestore, PointerTypes, ControlTypes, MemoryTypes, CounterTypes,
           LockTypes
      <4>7. QED
        BY <4>1, <4>2, <4>3, <4>4, <4>5, <4>6
    <3>8. CASE RestartOn(p)
      BY <3>8 DEF RestartOn, LockTypes, FlagTypes, CounterTypes, MemoryTypes,
         ControlTypes, PointerTypes
    <3>9. CASE RestartStamp(p)
      <4>1. LockTypes'
        BY <3>9 DEF RestartStamp, LockTypes
      <4>2. FlagTypes'
        BY <3>9 DEF RestartStamp, FlagTypes
      <4>3. CounterTypes'
        BY <3>9 DEF RestartStamp, CounterTypes, ControlTypes, LockTypes
      <4>4. MemoryTypes'
        BY <3>9 DEF RestartStamp, MemoryTypes, PointerTypes, LockTypes
      <4>5. ControlTypes'
        BY <3>9 DEF RestartStamp, ControlTypes, FlagTypes, LockTypes
      <4>6. PointerTypes'
        BY <3>9 DEF RestartStamp, PointerTypes, ControlTypes, MemoryTypes, CounterTypes,
           LockTypes
      <4>7. QED
        BY <4>1, <4>2, <4>3, <4>4, <4>5, <4>6
    <3>10. CASE accel_restart_leave(p)
      <4>1. LockTypes'
        BY <3>10 DEF accel_restart_leave, LockTypes
      <4>2. FlagTypes'
        BY <3>10 DEF accel_restart_leave, FlagTypes
      <4>3. CounterTypes'
        BY <3>10 DEF accel_restart_leave, CounterTypes, ControlTypes, LockTypes
      <4>4. MemoryTypes'
        BY <3>10 DEF accel_restart_leave, MemoryTypes, PointerTypes, LockTypes
      <4>5. ControlTypes'
        BY <3>10 DEF accel_restart_leave, ControlTypes, FlagTypes, LockTypes
      <4>6. PointerTypes'
        BY <3>10 DEF accel_restart_leave, PointerTypes, ControlTypes, MemoryTypes,
           CounterTypes, LockTypes
      <4>7. QED
        BY <4>1, <4>2, <4>3, <4>4, <4>5, <4>6
    <3>11. CASE RestartUnlock(p)
      BY <3>11 DEF RestartUnlock, LockTypes, FlagTypes, CounterTypes, MemoryTypes,
         ControlTypes, PointerTypes
    <3>12. CASE RequestEnable(p)
      <4>1. LockTypes'
        BY <3>12 DEF RequestEnable, LockTypes
      <4>2. FlagTypes'
        BY <3>12 DEF RequestEnable, FlagTypes
      <4>3. CounterTypes'
        BY <3>12 DEF RequestEnable, CounterTypes, ControlTypes, LockTypes
      <4>4. MemoryTypes'
        BY <3>12 DEF RequestEnable, MemoryTypes, PointerTypes, LockTypes
      <4>5. ControlTypes'
        BY <3>12 DEF RequestEnable, ControlTypes, FlagTypes, LockTypes
      <4>6. PointerTypes'
        BY <3>12 DEF RequestEnable, PointerTypes, ControlTypes, MemoryTypes, CounterTypes,
           LockTypes
      <4>7. QED
        BY <4>1, <4>2, <4>3, <4>4, <4>5, <4>6
    <3>13. CASE RequestCaches(p)
      BY <3>13 DEF RequestCaches, LockTypes, FlagTypes, CounterTypes, MemoryTypes,
         ControlTypes, PointerTypes
    <3>14. CASE KillLocker(p)
      <4>1. LockTypes'
        BY <3>14 DEF KillLocker, Die, accel_unlock_all, Forget, LockTypes
      <4>2. FlagTypes'
        BY <3>14 DEF KillLocker, Die, accel_unlock_all, Forget, FlagTypes
      <4>3. CounterTypes'
        BY <3>14 DEF KillLocker, Die, accel_unlock_all, Forget, CounterTypes,
           ControlTypes, LockTypes
      <4>4. MemoryTypes'
        BY <3>14 DEF KillLocker, Die, accel_unlock_all, Forget, MemoryTypes, PointerTypes,
           LockTypes
      <4>5. ControlTypes'
        BY <3>14 DEF KillLocker, Die, accel_unlock_all, Forget, ControlTypes, FlagTypes,
           LockTypes
      <4>6. PointerTypes'
        BY <3>14 DEF KillLocker, Die, accel_unlock_all, Forget, PointerTypes,
           ControlTypes, MemoryTypes, CounterTypes, LockTypes
      <4>7. QED
        BY <4>1, <4>2, <4>3, <4>4, <4>5, <4>6
    <3>15. CASE KillDone(p)
      <4>1. LockTypes'
        BY <3>15 DEF KillDone, accel_is_inactive, accel_unlock_all, LockTypes
      <4>2. FlagTypes'
        BY <3>15 DEF KillDone, accel_is_inactive, accel_unlock_all, FlagTypes
      <4>3. CounterTypes'
        BY <3>15 DEF KillDone, accel_is_inactive, accel_unlock_all, CounterTypes,
           ControlTypes, LockTypes
      <4>4. MemoryTypes'
        BY <3>15 DEF KillDone, accel_is_inactive, accel_unlock_all, MemoryTypes,
           PointerTypes, LockTypes
      <4>5. ControlTypes'
        BY <3>15, ZenonT(60) DEF KillDone, accel_is_inactive, accel_unlock_all,
           ControlTypes, FlagTypes, LockTypes
      <4>6. PointerTypes'
        BY <3>15 DEF KillDone, accel_is_inactive, accel_unlock_all, PointerTypes,
           ControlTypes, MemoryTypes, CounterTypes, LockTypes
      <4>7. QED
        BY <4>1, <4>2, <4>3, <4>4, <4>5, <4>6
    <3>16. CASE ResetSchedule(p)
      <4>1. LockTypes'
        BY <3>16 DEF ResetSchedule, zend_accel_schedule_restart, UnlockAndGoto, LockTypes
      <4>2. FlagTypes'
        BY <3>16 DEF ResetSchedule, zend_accel_schedule_restart, UnlockAndGoto, FlagTypes
      <4>3. CounterTypes'
        BY <3>16 DEF ResetSchedule, zend_accel_schedule_restart, UnlockAndGoto,
           CounterTypes, ControlTypes, LockTypes
      <4>4. MemoryTypes'
        BY <3>16 DEF ResetSchedule, zend_accel_schedule_restart, UnlockAndGoto,
           MemoryTypes, PointerTypes, LockTypes
      <4>5. ControlTypes'
        BY <3>16 DEF ResetSchedule, zend_accel_schedule_restart, UnlockAndGoto,
           ControlTypes, FlagTypes, LockTypes
      <4>6. PointerTypes'
        BY <3>16 DEF ResetSchedule, zend_accel_schedule_restart, UnlockAndGoto,
           PointerTypes, ControlTypes, MemoryTypes, CounterTypes, LockTypes
      <4>7. QED
        BY <4>1, <4>2, <4>3, <4>4, <4>5, <4>6
    <3>17. CASE ScheduleSave(p)
      BY <3>17 DEF ScheduleSave, LockTypes, FlagTypes, CounterTypes, MemoryTypes,
         ControlTypes, PointerTypes
    <3>18. CASE ScheduleOff(p)
      <4>1. LockTypes'
        BY <3>18 DEF ScheduleOff, LockTypes
      <4>2. FlagTypes'
        BY <3>18 DEF ScheduleOff, FlagTypes
      <4>3. CounterTypes'
        BY <3>18 DEF ScheduleOff, CounterTypes, ControlTypes, LockTypes
      <4>4. MemoryTypes'
        BY <3>18 DEF ScheduleOff, MemoryTypes, PointerTypes, LockTypes
      <4>5. ControlTypes'
        BY <3>18 DEF ScheduleOff, ControlTypes, FlagTypes, LockTypes
      <4>6. PointerTypes'
        BY <3>18 DEF ScheduleOff, PointerTypes, ControlTypes, MemoryTypes, CounterTypes,
           LockTypes
      <4>7. QED
        BY <4>1, <4>2, <4>3, <4>4, <4>5, <4>6
    <3>19. CASE ScheduleForce(p)
      <4>1. LockTypes'
        BY <3>19 DEF ScheduleForce, UnlockAndGoto, LockTypes
      <4>2. FlagTypes'
        BY <3>19 DEF ScheduleForce, UnlockAndGoto, FlagTypes
      <4>3. CounterTypes'
        BY <3>19 DEF ScheduleForce, UnlockAndGoto, CounterTypes, ControlTypes, LockTypes
      <4>4. MemoryTypes'
        BY <3>19 DEF ScheduleForce, UnlockAndGoto, MemoryTypes, PointerTypes, LockTypes
      <4>5. ControlTypes'
        BY <3>19 DEF ScheduleForce, UnlockAndGoto, ControlTypes, FlagTypes, LockTypes
      <4>6. PointerTypes'
        BY <3>19 DEF ScheduleForce, UnlockAndGoto, PointerTypes, ControlTypes,
           MemoryTypes, CounterTypes, LockTypes
      <4>7. QED
        BY <4>1, <4>2, <4>3, <4>4, <4>5, <4>6
    <3>20. CASE DiscardCount(p)
      <4>1. LockTypes'
        BY <3>20 DEF DiscardCount, zend_accel_schedule_restart_if_necessary,
           zend_accel_schedule_restart, UnlockAndGoto, LockTypes
      <4>2. FlagTypes'
        BY <3>20 DEF DiscardCount, zend_accel_schedule_restart_if_necessary,
           zend_accel_schedule_restart, UnlockAndGoto, FlagTypes
      <4>3. CounterTypes'
        BY <3>20 DEF DiscardCount, zend_accel_schedule_restart_if_necessary,
           zend_accel_schedule_restart, UnlockAndGoto, CounterTypes, ControlTypes,
           LockTypes
      <4>4. MemoryTypes'
        BY <3>20 DEF DiscardCount, zend_accel_schedule_restart_if_necessary,
           zend_accel_schedule_restart, UnlockAndGoto, MemoryTypes, PointerTypes,
           LockTypes
      <4>5. ControlTypes'
        BY <3>20 DEF DiscardCount, zend_accel_schedule_restart_if_necessary,
           zend_accel_schedule_restart, UnlockAndGoto, ControlTypes, FlagTypes, LockTypes
      <4>6. PointerTypes'
        BY <3>20 DEF DiscardCount, zend_accel_schedule_restart_if_necessary,
           zend_accel_schedule_restart, UnlockAndGoto, PointerTypes, ControlTypes,
           MemoryTypes, CounterTypes, LockTypes
      <4>7. QED
        BY <4>1, <4>2, <4>3, <4>4, <4>5, <4>6
    <3>21. CASE CompileGetlk(p)
      <4>1. LockTypes'
        BY <3>21 DEF CompileGetlk, Forget, LockTypes
      <4>2. FlagTypes'
        BY <3>21 DEF CompileGetlk, Forget, FlagTypes
      <4>3. CounterTypes'
        BY <3>21 DEF CompileGetlk, Forget, CounterTypes, ControlTypes, LockTypes
      <4>4. MemoryTypes'
        BY <3>21 DEF CompileGetlk, Forget, MemoryTypes, PointerTypes, LockTypes
      <4>5. ControlTypes'
        BY <3>21 DEF CompileGetlk, Forget, ControlTypes, FlagTypes, LockTypes
      <4>6. PointerTypes'
        BY <3>21 DEF CompileGetlk, Forget, PointerTypes, ControlTypes, MemoryTypes,
           CounterTypes, LockTypes
      <4>7. QED
        BY <4>1, <4>2, <4>3, <4>4, <4>5, <4>6
    <3>22. CASE CompileClear(p)
      <4>1. LockTypes'
        BY <3>22 DEF CompileClear, LockTypes
      <4>2. FlagTypes'
        BY <3>22 DEF CompileClear, FlagTypes
      <4>3. CounterTypes'
        BY <3>22 DEF CompileClear, CounterTypes, ControlTypes, LockTypes
      <4>4. MemoryTypes'
        BY <3>22 DEF CompileClear, MemoryTypes, PointerTypes, LockTypes
      <4>5. ControlTypes'
        BY <3>22 DEF CompileClear, ControlTypes, FlagTypes, LockTypes
      <4>6. PointerTypes'
        BY <3>22 DEF CompileClear, PointerTypes, ControlTypes, MemoryTypes, CounterTypes,
           LockTypes
      <4>7. QED
        BY <4>1, <4>2, <4>3, <4>4, <4>5, <4>6
    <3>23. CASE CompileFind(p)
      <4>1. LockTypes'
        BY <3>23 DEF CompileFind, Find, LockTypes
      <4>2. FlagTypes'
        BY <3>23 DEF CompileFind, Find, FlagTypes
      <4>3. CounterTypes'
        BY <3>23 DEF CompileFind, Find, CounterTypes, ControlTypes, LockTypes
      <4>4. MemoryTypes'
        BY <3>23 DEF CompileFind, Find, MemoryTypes, PointerTypes, LockTypes
      <4>5. ControlTypes'
        BY <3>23 DEF CompileFind, Find, ControlTypes, FlagTypes, LockTypes
      <4>6. PointerTypes'
        BY <3>23 DEF CompileFind, Find, PointerTypes, ControlTypes, MemoryTypes,
           CounterTypes, LockTypes
      <4>7. QED
        BY <4>1, <4>2, <4>3, <4>4, <4>5, <4>6
    <3>24. CASE CompileAdd(p)
      BY <3>24 DEF CompileAdd, accel_activate_add, LockTypes, FlagTypes, CounterTypes,
         MemoryTypes, ControlTypes, PointerTypes
    <3>25. CASE CompileValidate(p)
      <4>1. LockTypes'
        BY <3>25 DEF CompileValidate, Executes, Spend, Forget, LockTypes
      <4>2. FlagTypes'
        BY <3>25 DEF CompileValidate, Executes, Spend, Forget, FlagTypes
      <4>3. CounterTypes'
        BY <3>25 DEF CompileValidate, Executes, Spend, Forget, CounterTypes, ControlTypes,
           LockTypes
      <4>4. MemoryTypes'
        BY <3>25 DEF CompileValidate, Executes, Spend, Forget, MemoryTypes, PointerTypes,
           LockTypes
      <4>5. ControlTypes'
        BY <3>25 DEF CompileValidate, Executes, Spend, Forget, ControlTypes, FlagTypes,
           LockTypes
      <4>6. PointerTypes'
        BY <3>25 DEF CompileValidate, Executes, Spend, Forget, PointerTypes, ControlTypes,
           MemoryTypes, CounterTypes, LockTypes
      <4>7. QED
        BY <4>1, <4>2, <4>3, <4>4, <4>5, <4>6
    <3>26. CASE CompileDiscard(p)
      <4>1. LockTypes'
        BY <3>26 DEF CompileDiscard, Discard, zend_accel_discard_script, UnlockAndGoto,
           LockTypes
      <4>2. FlagTypes'
        BY <3>26 DEF CompileDiscard, Discard, zend_accel_discard_script, UnlockAndGoto,
           FlagTypes
      <4>3. CounterTypes'
        BY <3>26 DEF CompileDiscard, Discard, zend_accel_discard_script, UnlockAndGoto,
           CounterTypes, ControlTypes, LockTypes
      <4>4. MemoryTypes'
        <5>1. Discard(p, "c_miss") /\ ptr[p] \in Positions
          BY <3>26 DEF CompileDiscard, PointerTypes
        <5>2. QED
          BY <5>1, DiscardFrame DEF MemoryTypes
      <4>5. ControlTypes'
        BY <3>26 DEF CompileDiscard, Discard, zend_accel_discard_script, UnlockAndGoto,
           ControlTypes, FlagTypes, LockTypes
      <4>6. PointerTypes'
        BY <3>26 DEF CompileDiscard, Discard, zend_accel_discard_script, UnlockAndGoto,
           PointerTypes, ControlTypes, MemoryTypes, CounterTypes, LockTypes
      <4>7. QED
        BY <4>1, <4>2, <4>3, <4>4, <4>5, <4>6
    <3>27. CASE CompileMiss(p)
      <4>1. LockTypes'
        BY <3>27 DEF CompileMiss, Forget, LockTypes
      <4>2. FlagTypes'
        BY <3>27 DEF CompileMiss, Forget, FlagTypes
      <4>3. CounterTypes'
        BY <3>27 DEF CompileMiss, Forget, CounterTypes, ControlTypes, LockTypes
      <4>4. MemoryTypes'
        BY <3>27 DEF CompileMiss, Forget, MemoryTypes, PointerTypes, LockTypes
      <4>5. ControlTypes'
        BY <3>27 DEF CompileMiss, Forget, ControlTypes, FlagTypes, LockTypes
      <4>6. PointerTypes'
        BY <3>27 DEF CompileMiss, Forget, PointerTypes, ControlTypes, MemoryTypes,
           CounterTypes, LockTypes
      <4>7. QED
        BY <4>1, <4>2, <4>3, <4>4, <4>5, <4>6
    <3>28. CASE CacheLock(p)
      BY <3>28 DEF CacheLock, LockTypes, FlagTypes, CounterTypes, MemoryTypes,
         ControlTypes, PointerTypes
    <3>29. CASE CacheAlloc(p)
      <4>1. LockTypes'
        BY <3>29 DEF CacheAlloc, HasRoom, Executes, Forget,
           zend_accel_schedule_restart_if_necessary, zend_accel_schedule_restart,
           UnlockAndGoto, LockTypes
      <4>2. FlagTypes'
        BY <3>29 DEF CacheAlloc, HasRoom, Executes, Forget,
           zend_accel_schedule_restart_if_necessary, zend_accel_schedule_restart,
           UnlockAndGoto, FlagTypes
      <4>3. CounterTypes'
        BY <3>29 DEF CacheAlloc, HasRoom, Executes, Forget,
           zend_accel_schedule_restart_if_necessary, zend_accel_schedule_restart,
           UnlockAndGoto, CounterTypes, ControlTypes, LockTypes
      <4>4. MemoryTypes'
        <5>1. \/ UNCHANGED <<corrupted, used>>
              \/ used < MemSize /\ used' = used + 1 /\ corrupted' = corrupted \ {used + 1}
          BY <3>29 DEF CacheAlloc, HasRoom
        <5>2. hash' = hash
          BY <3>29 DEF CacheAlloc
        <5>3. corrupted' \subseteq corrupted
          BY <5>1
        <5>4. used' \in Positions
          BY <5>1 DEF MemoryTypes
        <5>5. QED
          BY <5>2, <5>3, <5>4 DEF MemoryTypes
      <4>5. ControlTypes'
        BY <3>29 DEF CacheAlloc, HasRoom, Executes, Forget,
           zend_accel_schedule_restart_if_necessary, zend_accel_schedule_restart,
           UnlockAndGoto, ControlTypes, FlagTypes, LockTypes
      <4>6. PointerTypes'
        BY <3>29 DEF CacheAlloc, HasRoom, Executes, Forget,
           zend_accel_schedule_restart_if_necessary, zend_accel_schedule_restart,
           UnlockAndGoto, PointerTypes, ControlTypes, MemoryTypes, CounterTypes, LockTypes
      <4>7. QED
        BY <4>1, <4>2, <4>3, <4>4, <4>5, <4>6
    <3>30. CASE CachePublish(p)
      <4>1. LockTypes'
        BY <3>30 DEF CachePublish, Executes, Forget, LockTypes
      <4>2. FlagTypes'
        BY <3>30 DEF CachePublish, Executes, Forget, FlagTypes
      <4>3. CounterTypes'
        BY <3>30 DEF CachePublish, Executes, Forget, CounterTypes, ControlTypes, LockTypes
      <4>4. MemoryTypes'
        BY <3>30 DEF CachePublish, Executes, Forget, MemoryTypes, PointerTypes, LockTypes
      <4>5. ControlTypes'
        BY <3>30 DEF CachePublish, Executes, Forget, ControlTypes, FlagTypes, LockTypes
      <4>6. PointerTypes'
        BY <3>30 DEF CachePublish, Executes, Forget, PointerTypes, ControlTypes,
           MemoryTypes, CounterTypes, LockTypes
      <4>7. QED
        BY <4>1, <4>2, <4>3, <4>4, <4>5, <4>6
    <3>31. CASE ReadLockAdd(p)
      <4>1. LockTypes'
        BY <3>31 DEF ReadLockAdd, accel_activate_add, LockTypes
      <4>2. FlagTypes'
        BY <3>31 DEF ReadLockAdd, accel_activate_add, FlagTypes
      <4>3. CounterTypes'
        BY <3>31 DEF ReadLockAdd, accel_activate_add, CounterTypes, ControlTypes,
           LockTypes
      <4>4. MemoryTypes'
        BY <3>31 DEF ReadLockAdd, accel_activate_add, MemoryTypes, PointerTypes, LockTypes
      <4>5. ControlTypes'
        BY <3>31 DEF ReadLockAdd, accel_activate_add, ControlTypes, FlagTypes, LockTypes
      <4>6. PointerTypes'
        BY <3>31 DEF ReadLockAdd, accel_activate_add, PointerTypes, ControlTypes,
           MemoryTypes, CounterTypes, LockTypes
      <4>7. QED
        BY <4>1, <4>2, <4>3, <4>4, <4>5, <4>6
    <3>32. CASE ReadLockCheck(p)
      <4>1. LockTypes'
        BY <3>32 DEF ReadLockCheck, Forget, LockTypes
      <4>2. FlagTypes'
        BY <3>32 DEF ReadLockCheck, Forget, FlagTypes
      <4>3. CounterTypes'
        BY <3>32 DEF ReadLockCheck, Forget, CounterTypes, ControlTypes, LockTypes
      <4>4. MemoryTypes'
        BY <3>32 DEF ReadLockCheck, Forget, MemoryTypes, PointerTypes, LockTypes
      <4>5. ControlTypes'
        BY <3>32, ZenonT(60) DEF ReadLockCheck, Forget, ControlTypes, FlagTypes, LockTypes
      <4>6. PointerTypes'
        BY <3>32 DEF ReadLockCheck, Forget, PointerTypes, ControlTypes, MemoryTypes,
           CounterTypes, LockTypes
      <4>7. QED
        BY <4>1, <4>2, <4>3, <4>4, <4>5, <4>6
    <3>33. CASE InvalidateFind(p)
      <4>1. LockTypes'
        BY <3>33 DEF InvalidateFind, Find, Forget, LockTypes
      <4>2. FlagTypes'
        BY <3>33 DEF InvalidateFind, Find, Forget, FlagTypes
      <4>3. CounterTypes'
        BY <3>33 DEF InvalidateFind, Find, Forget, CounterTypes, ControlTypes, LockTypes
      <4>4. MemoryTypes'
        BY <3>33 DEF InvalidateFind, Find, Forget, MemoryTypes, PointerTypes, LockTypes
      <4>5. ControlTypes'
        BY <3>33 DEF InvalidateFind, Find, Forget, ControlTypes, FlagTypes, LockTypes
      <4>6. PointerTypes'
        BY <3>33 DEF InvalidateFind, Find, Forget, PointerTypes, ControlTypes,
           MemoryTypes, CounterTypes, LockTypes
      <4>7. QED
        BY <4>1, <4>2, <4>3, <4>4, <4>5, <4>6
    <3>34. CASE InvalidateDiscard(p)
      <4>1. LockTypes'
        BY <3>34 DEF InvalidateDiscard, Discard, zend_accel_discard_script, UnlockAndGoto,
           Forget, LockTypes
      <4>2. FlagTypes'
        BY <3>34 DEF InvalidateDiscard, Discard, zend_accel_discard_script, UnlockAndGoto,
           Forget, FlagTypes
      <4>3. CounterTypes'
        BY <3>34 DEF InvalidateDiscard, Discard, zend_accel_discard_script, UnlockAndGoto,
           Forget, CounterTypes, ControlTypes, LockTypes
      <4>4. MemoryTypes'
        <5>1. Discard(p, "run") /\ ptr[p] \in Positions
          BY <3>34 DEF InvalidateDiscard, PointerTypes
        <5>2. QED
          BY <5>1, DiscardFrame DEF MemoryTypes
      <4>5. ControlTypes'
        BY <3>34 DEF InvalidateDiscard, Discard, zend_accel_discard_script, UnlockAndGoto,
           Forget, ControlTypes, FlagTypes, LockTypes
      <4>6. PointerTypes'
        BY <3>34 DEF InvalidateDiscard, Discard, zend_accel_discard_script, UnlockAndGoto,
           Forget, PointerTypes, ControlTypes, MemoryTypes, CounterTypes, LockTypes
      <4>7. QED
        BY <4>1, <4>2, <4>3, <4>4, <4>5, <4>6
    <3>35. CASE InternString(p)
      BY <3>35 DEF InternString, accel_activate_add, Executes, LockTypes, FlagTypes,
         CounterTypes, MemoryTypes, ControlTypes, PointerTypes
    <3>36. CASE ResetStart(p)
      BY <3>36 DEF ResetStart, Spend, LockTypes, FlagTypes, CounterTypes, MemoryTypes,
         ControlTypes, PointerTypes
    <3>37. CASE RequestEnd(p)
      BY <3>37 DEF RequestEnd, accel_unlock_all, Forget, LockTypes, FlagTypes,
         CounterTypes, MemoryTypes, ControlTypes, PointerTypes
    <3>38. CASE Crash(p)
      <4>1. LockTypes'
        BY <3>38 DEF Crash, Die, accel_unlock_all, Forget, LockTypes
      <4>2. FlagTypes'
        BY <3>38 DEF Crash, Die, accel_unlock_all, Forget, FlagTypes
      <4>3. CounterTypes'
        BY <3>38 DEF Crash, Die, accel_unlock_all, Forget, CounterTypes, ControlTypes,
           LockTypes
      <4>4. MemoryTypes'
        BY <3>38 DEF Crash, Die, accel_unlock_all, Forget, MemoryTypes, PointerTypes,
           LockTypes
      <4>5. ControlTypes'
        BY <3>38 DEF Crash, Die, accel_unlock_all, Forget, ControlTypes, FlagTypes,
           LockTypes
      <4>6. PointerTypes'
        BY <3>38 DEF Crash, Die, accel_unlock_all, Forget, PointerTypes, ControlTypes,
           MemoryTypes, CounterTypes, LockTypes
      <4>7. QED
        BY <4>1, <4>2, <4>3, <4>4, <4>5, <4>6
    <3>39. CASE \E s \in Scripts : CompileStart(p, s)
      BY <3>39 DEF CompileStart, LockTypes, FlagTypes, CounterTypes, MemoryTypes,
         ControlTypes, PointerTypes
    <3>40. CASE \E s \in Scripts : InvalidateStart(p, s)
      BY <3>40 DEF InvalidateStart, Spend, LockTypes, FlagTypes, CounterTypes,
         MemoryTypes, ControlTypes, PointerTypes
    <3>41. QED
      BY <3>1, <3>2, <3>3, <3>4, <3>5, <3>6, <3>7, <3>8, <3>9, <3>10, <3>11, <3>12, <3>13,
         <3>14, <3>15, <3>16, <3>17, <3>18, <3>19, <3>20, <3>21, <3>22, <3>23, <3>24,
         <3>25, <3>26, <3>27, <3>28, <3>29, <3>30, <3>31, <3>32, <3>33, <3>34, <3>35,
         <3>36, <3>37, <3>38, <3>39, <3>40 DEF NextOf, Restarting, Scheduling, Compiling,
         Invalidating
  <2>3. QED
    BY <2>1, <2>2
<1>3. QED
  BY <1>1, <1>2, PTL DEF Spec

\* Every step keeps the locks in line with the control state.
LEMMA LocksStep ==
    ASSUME TypeOK, LocksMatchControl, NEW p \in Procs, NextOf(p)
    PROVE  LocksMatchControl'
<1> USE OpcacheAssumption DEF TypeOK, ControlTypes, LockTypes, LocksMatchControl, Goto,
   Step, zend_shared_alloc_lock, zend_shared_alloc_unlock, locks, flags, memory, local,
   ghost, pointers, PCs, Locked, RestartPCs, NotYetOn, SchedulePCs, CompilePCs,
   InvalidatePCs, Uncut, MayBailOut, InRequest
<1>1. CASE RequestStart(p)
  BY <1>1 DEF RequestStart
<1>2. CASE RestartLock(p)
  BY <1>2 DEF RestartLock
<1>3. CASE RestartCheck(p)
  BY <1>3 DEF RestartCheck, accel_is_inactive
<1>4. CASE accel_restart_enter(p)
  BY <1>4 DEF accel_restart_enter
<1>5. CASE RestartReset(p)
  BY <1>5 DEF RestartReset
<1>6. CASE RestartClean(p)
  BY <1>6 DEF RestartClean
<1>7. CASE RestartRestore(p)
  BY <1>7 DEF RestartRestore
<1>8. CASE RestartOn(p)
  BY <1>8 DEF RestartOn
<1>9. CASE RestartStamp(p)
  BY <1>9 DEF RestartStamp
<1>10. CASE accel_restart_leave(p)
  BY <1>10 DEF accel_restart_leave
<1>11. CASE RestartUnlock(p)
  BY <1>11 DEF RestartUnlock
<1>12. CASE RequestEnable(p)
  BY <1>12 DEF RequestEnable
<1>13. CASE RequestCaches(p)
  BY <1>13 DEF RequestCaches
<1>14. CASE KillLocker(p)
  BY <1>14 DEF KillLocker, Die, accel_unlock_all, Forget
<1>15. CASE KillDone(p)
  BY <1>15 DEF KillDone, accel_is_inactive, accel_unlock_all
<1>16. CASE ResetSchedule(p)
  BY <1>16 DEF ResetSchedule, zend_accel_schedule_restart, UnlockAndGoto
<1>17. CASE ScheduleSave(p)
  BY <1>17 DEF ScheduleSave
<1>18. CASE ScheduleOff(p)
  BY <1>18 DEF ScheduleOff
<1>19. CASE ScheduleForce(p)
  BY <1>19 DEF ScheduleForce, UnlockAndGoto
<1>20. CASE DiscardCount(p)
  BY <1>20 DEF DiscardCount, zend_accel_schedule_restart_if_necessary,
     zend_accel_schedule_restart, UnlockAndGoto
<1>21. CASE CompileGetlk(p)
  BY <1>21 DEF CompileGetlk, Forget
<1>22. CASE CompileClear(p)
  BY <1>22 DEF CompileClear
<1>23. CASE CompileFind(p)
  BY <1>23 DEF CompileFind, Find
<1>24. CASE CompileAdd(p)
  BY <1>24 DEF CompileAdd, accel_activate_add
<1>25. CASE CompileValidate(p)
  BY <1>25 DEF CompileValidate, Executes, Spend, Forget
<1>26. CASE CompileDiscard(p)
  BY <1>26 DEF CompileDiscard, Discard, zend_accel_discard_script, UnlockAndGoto
<1>27. CASE CompileMiss(p)
  BY <1>27 DEF CompileMiss, Forget
<1>28. CASE CacheLock(p)
  BY <1>28 DEF CacheLock
<1>29. CASE CacheAlloc(p)
  BY <1>29 DEF CacheAlloc, HasRoom, Executes, Forget,
     zend_accel_schedule_restart_if_necessary, zend_accel_schedule_restart, UnlockAndGoto
<1>30. CASE CachePublish(p)
  BY <1>30 DEF CachePublish, Executes, Forget
<1>31. CASE ReadLockAdd(p)
  BY <1>31 DEF ReadLockAdd, accel_activate_add
<1>32. CASE ReadLockCheck(p)
  BY <1>32 DEF ReadLockCheck, Forget
<1>33. CASE InvalidateFind(p)
  BY <1>33 DEF InvalidateFind, Find, Forget
<1>34. CASE InvalidateDiscard(p)
  BY <1>34 DEF InvalidateDiscard, Discard, zend_accel_discard_script, UnlockAndGoto,
     Forget
<1>35. CASE InternString(p)
  BY <1>35 DEF InternString, accel_activate_add, Executes
<1>36. CASE ResetStart(p)
  BY <1>36 DEF ResetStart, Spend
<1>37. CASE RequestEnd(p)
  BY <1>37 DEF RequestEnd, accel_unlock_all, Forget
<1>38. CASE Crash(p)
  BY <1>38 DEF Crash, Die, accel_unlock_all, Forget
<1>39. CASE \E s \in Scripts : CompileStart(p, s)
  BY <1>39 DEF CompileStart
<1>40. CASE \E s \in Scripts : InvalidateStart(p, s)
  BY <1>40 DEF InvalidateStart, Spend
<1>41. QED
  BY <1>1, <1>2, <1>3, <1>4, <1>5, <1>6, <1>7, <1>8, <1>9, <1>10, <1>11, <1>12, <1>13,
     <1>14, <1>15, <1>16, <1>17, <1>18, <1>19, <1>20, <1>21, <1>22, <1>23, <1>24, <1>25,
     <1>26, <1>27, <1>28, <1>29, <1>30, <1>31, <1>32, <1>33, <1>34, <1>35, <1>36, <1>37,
     <1>38, <1>39, <1>40 DEF NextOf, Restarting, Scheduling, Compiling, Invalidating

\* Allocation and publication keep cached scripts apart.
LEMMA SegmentStep ==
    ASSUME TypeOK, LocksMatchControl, PublishesNewest, RestoresEmpty, NoOverlap,
           NEW p \in Procs, NextOf(p)
    PROVE  PublishesNewest' /\ RestoresEmpty' /\ NoOverlap'
<1> USE OpcacheAssumption DEF TypeOK, ControlTypes, LockTypes, CounterTypes, MemoryTypes,
   PointerTypes, LocksMatchControl, PublishesNewest, RestoresEmpty, NoOverlap, Positions,
   Named, Goto, Step, zend_shared_alloc_lock, zend_shared_alloc_unlock, locks, flags,
   memory, local, ghost, pointers, PCs, Locked, RestartPCs, NotYetOn, SchedulePCs,
   CompilePCs, InvalidatePCs, Uncut, MayBailOut, InRequest
<1>1. CASE RequestStart(p)
  BY <1>1 DEF RequestStart
<1>2. CASE RestartLock(p)
  BY <1>2 DEF RestartLock
<1>3. CASE RestartCheck(p)
  BY <1>3 DEF RestartCheck, accel_is_inactive
<1>4. CASE accel_restart_enter(p)
  BY <1>4 DEF accel_restart_enter
<1>5. CASE RestartReset(p)
  BY <1>5 DEF RestartReset
<1>6. CASE RestartClean(p)
  BY <1>6 DEF RestartClean
<1>7. CASE RestartRestore(p)
  BY <1>7 DEF RestartRestore
<1>8. CASE RestartOn(p)
  BY <1>8 DEF RestartOn
<1>9. CASE RestartStamp(p)
  BY <1>9 DEF RestartStamp
<1>10. CASE accel_restart_leave(p)
  BY <1>10 DEF accel_restart_leave
<1>11. CASE RestartUnlock(p)
  BY <1>11 DEF RestartUnlock
<1>12. CASE RequestEnable(p)
  BY <1>12 DEF RequestEnable
<1>13. CASE RequestCaches(p)
  BY <1>13 DEF RequestCaches
<1>14. CASE KillLocker(p)
  BY <1>14 DEF KillLocker, Die, accel_unlock_all, Forget
<1>15. CASE KillDone(p)
  BY <1>15 DEF KillDone, accel_is_inactive, accel_unlock_all
<1>16. CASE ResetSchedule(p)
  BY <1>16 DEF ResetSchedule, zend_accel_schedule_restart, UnlockAndGoto
<1>17. CASE ScheduleSave(p)
  BY <1>17 DEF ScheduleSave
<1>18. CASE ScheduleOff(p)
  BY <1>18 DEF ScheduleOff
<1>19. CASE ScheduleForce(p)
  BY <1>19 DEF ScheduleForce, UnlockAndGoto
<1>20. CASE DiscardCount(p)
  BY <1>20 DEF DiscardCount, zend_accel_schedule_restart_if_necessary,
     zend_accel_schedule_restart, UnlockAndGoto
<1>21. CASE CompileGetlk(p)
  BY <1>21 DEF CompileGetlk, Forget
<1>22. CASE CompileClear(p)
  BY <1>22 DEF CompileClear
<1>23. CASE CompileFind(p)
  BY <1>23 DEF CompileFind, Find
<1>24. CASE CompileAdd(p)
  BY <1>24 DEF CompileAdd, accel_activate_add
<1>25. CASE CompileValidate(p)
  BY <1>25 DEF CompileValidate, Executes, Spend, Forget
<1>26. CASE CompileDiscard(p)
  BY <1>26 DEF CompileDiscard, Discard, zend_accel_discard_script, UnlockAndGoto
<1>27. CASE CompileMiss(p)
  BY <1>27 DEF CompileMiss, Forget
<1>28. CASE CacheLock(p)
  BY <1>28 DEF CacheLock
<1>29. CASE CacheAlloc(p)
  BY <1>29 DEF CacheAlloc, HasRoom, Executes, Forget,
     zend_accel_schedule_restart_if_necessary, zend_accel_schedule_restart, UnlockAndGoto
<1>30. CASE CachePublish(p)
  BY <1>30 DEF CachePublish, Executes, Forget
<1>31. CASE ReadLockAdd(p)
  BY <1>31 DEF ReadLockAdd, accel_activate_add
<1>32. CASE ReadLockCheck(p)
  BY <1>32 DEF ReadLockCheck, Forget
<1>33. CASE InvalidateFind(p)
  BY <1>33 DEF InvalidateFind, Find, Forget
<1>34. CASE InvalidateDiscard(p)
  BY <1>34 DEF InvalidateDiscard, Discard, zend_accel_discard_script, UnlockAndGoto,
     Forget
<1>35. CASE InternString(p)
  BY <1>35 DEF InternString, accel_activate_add, Executes
<1>36. CASE ResetStart(p)
  BY <1>36 DEF ResetStart, Spend
<1>37. CASE RequestEnd(p)
  BY <1>37 DEF RequestEnd, accel_unlock_all, Forget
<1>38. CASE Crash(p)
  BY <1>38 DEF Crash, Die, accel_unlock_all, Forget
<1>39. CASE \E s \in Scripts : CompileStart(p, s)
  BY <1>39 DEF CompileStart
<1>40. CASE \E s \in Scripts : InvalidateStart(p, s)
  BY <1>40 DEF InvalidateStart, Spend
<1>41. QED
  BY <1>1, <1>2, <1>3, <1>4, <1>5, <1>6, <1>7, <1>8, <1>9, <1>10, <1>11, <1>12, <1>13,
     <1>14, <1>15, <1>16, <1>17, <1>18, <1>19, <1>20, <1>21, <1>22, <1>23, <1>24, <1>25,
     <1>26, <1>27, <1>28, <1>29, <1>30, <1>31, <1>32, <1>33, <1>34, <1>35, <1>36, <1>37,
     <1>38, <1>39, <1>40 DEF NextOf, Restarting, Scheduling, Compiling, Invalidating

\* A restart saves a status that is on, and puts it back.
LEMMA SwitchStep ==
    ASSUME TypeOK, LocksMatchControl, RestoresOn, NeverLeftDisabled, NEW p \in Procs, NextOf(p)
    PROVE  RestoresOn' /\ NeverLeftDisabled'
<1> USE OpcacheAssumption DEF TypeOK, ControlTypes, LockTypes, FlagTypes,
   LocksMatchControl, RestoresOn, NeverLeftDisabled, DiedBefore, Unrecovered, HalfDone,
   Goto, Step, zend_shared_alloc_lock, zend_shared_alloc_unlock, locks, flags, memory,
   local, ghost, pointers, PCs, Locked, RestartPCs, NotYetOn, SchedulePCs, CompilePCs,
   InvalidatePCs, Uncut, MayBailOut, InRequest
<1>1. CASE RequestStart(p)
  BY <1>1 DEF RequestStart
<1>2. CASE RestartLock(p)
  BY <1>2 DEF RestartLock
<1>3. CASE RestartCheck(p)
  BY <1>3 DEF RestartCheck, accel_is_inactive
<1>4. CASE accel_restart_enter(p)
  BY <1>4 DEF accel_restart_enter
<1>5. CASE RestartReset(p)
  BY <1>5 DEF RestartReset
<1>6. CASE RestartClean(p)
  BY <1>6 DEF RestartClean
<1>7. CASE RestartRestore(p)
  BY <1>7 DEF RestartRestore
<1>8. CASE RestartOn(p)
  BY <1>8 DEF RestartOn
<1>9. CASE RestartStamp(p)
  BY <1>9 DEF RestartStamp
<1>10. CASE accel_restart_leave(p)
  BY <1>10 DEF accel_restart_leave
<1>11. CASE RestartUnlock(p)
  BY <1>11 DEF RestartUnlock
<1>12. CASE RequestEnable(p)
  BY <1>12 DEF RequestEnable
<1>13. CASE RequestCaches(p)
  BY <1>13 DEF RequestCaches
<1>14. CASE KillLocker(p)
  BY <1>14 DEF KillLocker, Die, accel_unlock_all, Forget
<1>15. CASE KillDone(p)
  BY <1>15 DEF KillDone, accel_is_inactive, accel_unlock_all
<1>16. CASE ResetSchedule(p)
  BY <1>16 DEF ResetSchedule, zend_accel_schedule_restart, UnlockAndGoto
<1>17. CASE ScheduleSave(p)
  BY <1>17 DEF ScheduleSave
<1>18. CASE ScheduleOff(p)
  BY <1>18 DEF ScheduleOff
<1>19. CASE ScheduleForce(p)
  BY <1>19 DEF ScheduleForce, UnlockAndGoto
<1>20. CASE DiscardCount(p)
  BY <1>20 DEF DiscardCount, zend_accel_schedule_restart_if_necessary,
     zend_accel_schedule_restart, UnlockAndGoto
<1>21. CASE CompileGetlk(p)
  BY <1>21 DEF CompileGetlk, Forget
<1>22. CASE CompileClear(p)
  BY <1>22 DEF CompileClear
<1>23. CASE CompileFind(p)
  BY <1>23 DEF CompileFind, Find
<1>24. CASE CompileAdd(p)
  BY <1>24 DEF CompileAdd, accel_activate_add
<1>25. CASE CompileValidate(p)
  BY <1>25 DEF CompileValidate, Executes, Spend, Forget
<1>26. CASE CompileDiscard(p)
  BY <1>26 DEF CompileDiscard, Discard, zend_accel_discard_script, UnlockAndGoto
<1>27. CASE CompileMiss(p)
  BY <1>27 DEF CompileMiss, Forget
<1>28. CASE CacheLock(p)
  BY <1>28 DEF CacheLock
<1>29. CASE CacheAlloc(p)
  BY <1>29 DEF CacheAlloc, HasRoom, Executes, Forget,
     zend_accel_schedule_restart_if_necessary, zend_accel_schedule_restart, UnlockAndGoto
<1>30. CASE CachePublish(p)
  BY <1>30 DEF CachePublish, Executes, Forget
<1>31. CASE ReadLockAdd(p)
  BY <1>31 DEF ReadLockAdd, accel_activate_add
<1>32. CASE ReadLockCheck(p)
  BY <1>32 DEF ReadLockCheck, Forget
<1>33. CASE InvalidateFind(p)
  BY <1>33 DEF InvalidateFind, Find, Forget
<1>34. CASE InvalidateDiscard(p)
  BY <1>34 DEF InvalidateDiscard, Discard, zend_accel_discard_script, UnlockAndGoto,
     Forget
<1>35. CASE InternString(p)
  BY <1>35 DEF InternString, accel_activate_add, Executes
<1>36. CASE ResetStart(p)
  BY <1>36 DEF ResetStart, Spend
<1>37. CASE RequestEnd(p)
  BY <1>37 DEF RequestEnd, accel_unlock_all, Forget
<1>38. CASE Crash(p)
  <2>1. /\ pc' = [pc EXCEPT ![p] = "idle"] /\ died' = died \cup ({pc[p]} \cap HalfDone)
        /\ UNCHANGED <<accelerator_enabled, restart_pending, cache_status_before_restart>>
    BY <1>38 DEF Crash, Die
  <2>2. DiedBefore(Unrecovered) \/ pc[p] \in Unrecovered => DiedBefore(Unrecovered)'
    BY <2>1
  <2>3. CASE DiedBefore(Unrecovered)'
    BY <2>3
  <2>4. CASE ~DiedBefore(Unrecovered)'
    BY <2>1, <2>2, <2>4
  <2>5. QED
    BY <2>3, <2>4
<1>39. CASE \E s \in Scripts : CompileStart(p, s)
  BY <1>39 DEF CompileStart
<1>40. CASE \E s \in Scripts : InvalidateStart(p, s)
  BY <1>40 DEF InvalidateStart, Spend
<1>41. QED
  BY <1>1, <1>2, <1>3, <1>4, <1>5, <1>6, <1>7, <1>8, <1>9, <1>10, <1>11, <1>12, <1>13,
     <1>14, <1>15, <1>16, <1>17, <1>18, <1>19, <1>20, <1>21, <1>22, <1>23, <1>24, <1>25,
     <1>26, <1>27, <1>28, <1>29, <1>30, <1>31, <1>32, <1>33, <1>34, <1>35, <1>36, <1>37,
     <1>38, <1>39, <1>40 DEF NextOf, Restarting, Scheduling, Compiling, Invalidating

\* The inductive invariant: initially true, and kept by every step.
THEOREM RestartInvariantHolds == Spec => []RestartInvariant
<1>1. Init => RestartInvariant
  BY OpcacheAssumption DEF Init, RestartInvariant, LocksMatchControl, PublishesNewest,
     RestoresEmpty, NoOverlap, RestoresOn, NeverLeftDisabled, Locked, RestartPCs, NotYetOn,
     SchedulePCs
<1>2. TypeOK /\ RestartInvariant /\ [Next]_vars => RestartInvariant'
  <2> SUFFICES ASSUME TypeOK, RestartInvariant, [Next]_vars PROVE RestartInvariant'
    OBVIOUS
  <2> USE DEF RestartInvariant
  <2>1. CASE UNCHANGED vars
    BY <2>1 DEF vars, locks, flags, memory, local, ghost, LocksMatchControl, PublishesNewest,
       RestoresEmpty, NoOverlap, RestoresOn, NeverLeftDisabled, DiedBefore
  <2>2. CASE Next
    <3>1. PICK p \in Procs : NextOf(p)
      BY <2>2 DEF Next
    <3>2. LocksMatchControl'
      BY <3>1, LocksStep
    <3>3. PublishesNewest' /\ RestoresEmpty' /\ NoOverlap'
      BY <3>1, SegmentStep
    <3>4. RestoresOn' /\ NeverLeftDisabled'
      BY <3>1, SwitchStep
    <3>5. QED
      BY <3>2, <3>3, <3>4
  <2>3. QED
    BY <2>1, <2>2
<1>3. QED
  BY <1>1, <1>2, TypeCorrect, PTL DEF Spec

\* The allocator's lock excludes: no two processes are in sections that believe
\* they hold it, however restarts, bailouts, forced kills and crashes interleave.
THEOREM MutualExclusion == Spec => []Exclusive
<1>1. RestartInvariant => Exclusive
  BY DEF RestartInvariant, LocksMatchControl, Exclusive
<1>2. QED
  BY <1>1, RestartInvariantHolds, PTL

\* Cached scripts never share memory: zend_shared_alloc, zend_accel_hash_update
\* and the wipe of a restart stay consistent under every interleaving and crash.
THEOREM CachedScriptsDisjoint == Spec => []NoOverlap
<1>1. RestartInvariant => NoOverlap
  BY DEF RestartInvariant
<1>2. QED
  BY <1>1, RestartInvariantHolds, PTL

\* The cache is off only while a restart is due or running, or after a process died
\* between the first two stores of zend_accel_schedule_restart or before its restart
\* had put the saved status back.
THEOREM CacheNotLeftOff == Spec => []NeverLeftDisabled
<1>1. RestartInvariant => NeverLeftDisabled
  BY DEF RestartInvariant
<1>2. QED
  BY <1>1, RestartInvariantHolds, PTL

----------------------------------------------------------------------------
(* What is wasted, and what processes keep of the segment from one request to *)
(* the next.                                                                  *)

\* A pointer of the current epoch is to memory that is allocated, and what is to be
\* discarded was found.
PointersAreAllocated ==
    \A p \in Procs :
        /\ ptrEpoch[p] <= epoch
        /\ ptrEpoch[p] = epoch => ptr[p] <= used
        /\ pc[p] \in {"c_discard", "i_discard"} => ptr[p] # 0

\* Nothing p has in its caches, or is about to put there, is of an earlier epoch.
Fresh(p) ==
    /\ cached[p] \subseteq {epoch}
    /\ pc[p] \in {"c_add", "c_valid"} /\ ptr[p] # 0 => ptrEpoch[p] = epoch
    /\ pc[p] = "c_publish" => ptrEpoch[p] = epoch

\* The stamp is never behind a copy of it, and copies that are current are those of
\* processes with fresh caches, except between the restoration of the memory and the
\* new stamp.
StampsTell ==
    /\ \A p \in Procs : last_seen[p] <= last_restart_time
    /\ \/ DiedBefore({"r_done", "r_stamp"})
       \/ \E q \in Procs : pc[q] \in {"r_done", "r_stamp"}
       \/ \A p \in Procs : last_seen[p] = last_restart_time => Fresh(p)

\* The accounts of the cache, inductive together with RestartInvariant.
CacheInvariant == PointersAreAllocated /\ StampsTell /\ WastedMatchesDiscarded

\* Lookups and allocations point below the mark, which moves back only with the epoch.
LEMMA PointerStep ==
    ASSUME TypeOK, LocksMatchControl, NoOverlap, PointersAreAllocated, NEW p \in Procs, NextOf(p)
    PROVE  PointersAreAllocated'
<1> USE OpcacheAssumption DEF TypeOK, ControlTypes, LockTypes, CounterTypes, MemoryTypes,
   PointerTypes, LocksMatchControl, NoOverlap, PointersAreAllocated, Positions, Named,
   Goto, Step, zend_shared_alloc_lock, zend_shared_alloc_unlock, locks, flags, memory,
   local, ghost, pointers, PCs, Locked, RestartPCs, NotYetOn, SchedulePCs, CompilePCs,
   InvalidatePCs, Uncut, MayBailOut, InRequest
<1>1. CASE RequestStart(p)
  BY <1>1 DEF RequestStart
<1>2. CASE RestartLock(p)
  BY <1>2 DEF RestartLock
<1>3. CASE RestartCheck(p)
  BY <1>3 DEF RestartCheck, accel_is_inactive
<1>4. CASE accel_restart_enter(p)
  BY <1>4 DEF accel_restart_enter
<1>5. CASE RestartReset(p)
  BY <1>5 DEF RestartReset
<1>6. CASE RestartClean(p)
  BY <1>6 DEF RestartClean
<1>7. CASE RestartRestore(p)
  BY <1>7 DEF RestartRestore
<1>8. CASE RestartOn(p)
  BY <1>8 DEF RestartOn
<1>9. CASE RestartStamp(p)
  BY <1>9 DEF RestartStamp
<1>10. CASE accel_restart_leave(p)
  BY <1>10 DEF accel_restart_leave
<1>11. CASE RestartUnlock(p)
  BY <1>11 DEF RestartUnlock
<1>12. CASE RequestEnable(p)
  BY <1>12 DEF RequestEnable
<1>13. CASE RequestCaches(p)
  BY <1>13 DEF RequestCaches
<1>14. CASE KillLocker(p)
  BY <1>14 DEF KillLocker, Die, accel_unlock_all, Forget
<1>15. CASE KillDone(p)
  BY <1>15 DEF KillDone, accel_is_inactive, accel_unlock_all
<1>16. CASE ResetSchedule(p)
  BY <1>16 DEF ResetSchedule, zend_accel_schedule_restart, UnlockAndGoto
<1>17. CASE ScheduleSave(p)
  BY <1>17 DEF ScheduleSave
<1>18. CASE ScheduleOff(p)
  BY <1>18 DEF ScheduleOff
<1>19. CASE ScheduleForce(p)
  BY <1>19 DEF ScheduleForce, UnlockAndGoto
<1>20. CASE DiscardCount(p)
  BY <1>20 DEF DiscardCount, zend_accel_schedule_restart_if_necessary,
     zend_accel_schedule_restart, UnlockAndGoto
<1>21. CASE CompileGetlk(p)
  BY <1>21 DEF CompileGetlk, Forget
<1>22. CASE CompileClear(p)
  BY <1>22 DEF CompileClear
<1>23. CASE CompileFind(p)
  BY <1>23 DEF CompileFind, Find
<1>24. CASE CompileAdd(p)
  BY <1>24 DEF CompileAdd, accel_activate_add
<1>25. CASE CompileValidate(p)
  BY <1>25 DEF CompileValidate, Executes, Spend, Forget
<1>26. CASE CompileDiscard(p)
  BY <1>26 DEF CompileDiscard, Discard, zend_accel_discard_script, UnlockAndGoto
<1>27. CASE CompileMiss(p)
  BY <1>27 DEF CompileMiss, Forget
<1>28. CASE CacheLock(p)
  BY <1>28 DEF CacheLock
<1>29. CASE CacheAlloc(p)
  BY <1>29 DEF CacheAlloc, HasRoom, Executes, Forget,
     zend_accel_schedule_restart_if_necessary, zend_accel_schedule_restart, UnlockAndGoto
<1>30. CASE CachePublish(p)
  BY <1>30 DEF CachePublish, Executes, Forget
<1>31. CASE ReadLockAdd(p)
  BY <1>31 DEF ReadLockAdd, accel_activate_add
<1>32. CASE ReadLockCheck(p)
  BY <1>32 DEF ReadLockCheck, Forget
<1>33. CASE InvalidateFind(p)
  BY <1>33 DEF InvalidateFind, Find, Forget
<1>34. CASE InvalidateDiscard(p)
  BY <1>34 DEF InvalidateDiscard, Discard, zend_accel_discard_script, UnlockAndGoto,
     Forget
<1>35. CASE InternString(p)
  BY <1>35 DEF InternString, accel_activate_add, Executes
<1>36. CASE ResetStart(p)
  BY <1>36 DEF ResetStart, Spend
<1>37. CASE RequestEnd(p)
  BY <1>37 DEF RequestEnd, accel_unlock_all, Forget
<1>38. CASE Crash(p)
  BY <1>38 DEF Crash, Die, accel_unlock_all, Forget
<1>39. CASE \E s \in Scripts : CompileStart(p, s)
  BY <1>39 DEF CompileStart
<1>40. CASE \E s \in Scripts : InvalidateStart(p, s)
  BY <1>40 DEF InvalidateStart, Spend
<1>41. QED
  BY <1>1, <1>2, <1>3, <1>4, <1>5, <1>6, <1>7, <1>8, <1>9, <1>10, <1>11, <1>12, <1>13,
     <1>14, <1>15, <1>16, <1>17, <1>18, <1>19, <1>20, <1>21, <1>22, <1>23, <1>24, <1>25,
     <1>26, <1>27, <1>28, <1>29, <1>30, <1>31, <1>32, <1>33, <1>34, <1>35, <1>36, <1>37,
     <1>38, <1>39, <1>40 DEF NextOf, Restarting, Scheduling, Compiling, Invalidating

\* The death of a process spoils nobody's caches: it takes its own with it.
LEMMA DeathStep ==
    ASSUME TypeOK, StampsTell, NEW q \in Procs, Die(q), Goto(q, "idle")
    PROVE  StampsTell'
<1> DEFINE Late(d) == d \cap {"r_done", "r_stamp"} # {}
<1>1. /\ last_seen' = [last_seen EXCEPT ![q] = 0] /\ cached' = [cached EXCEPT ![q] = {}]
      /\ ptr' = [ptr EXCEPT ![q] = 0] /\ ptrEpoch' = [ptrEpoch EXCEPT ![q] = 0]
      /\ pc' = [pc EXCEPT ![q] = "idle"] /\ UNCHANGED <<last_restart_time, epoch>>
  BY DEF Die, Forget, Goto
<1>2. Late(died) \/ pc[q] \in {"r_done", "r_stamp"} => Late(died')
  BY DEF Die, HalfDone, NotYetOn
<1>3. /\ last_seen \in [Procs -> Nat] /\ cached \in [Procs -> SUBSET Nat] /\ pc \in [Procs -> PCs]
      /\ ptr \in [Procs -> Positions] /\ ptrEpoch \in [Procs -> Nat] /\ last_restart_time \in Nat
  BY DEF TypeOK, PointerTypes, ControlTypes, CounterTypes
<1>4. \A p \in Procs : last_seen'[p] <= last_restart_time'
  BY <1>1, <1>3 DEF StampsTell
<1>5. ASSUME NEW p \in Procs, Fresh(p) \/ p = q PROVE Fresh(p)'
  BY <1>1, <1>3, <1>5 DEF Fresh
<1>6. CASE Late(died')
  BY <1>4, <1>6 DEF StampsTell, DiedBefore
<1>7. CASE ~Late(died')
  <2>1. CASE \E r \in Procs : pc[r] \in {"r_done", "r_stamp"}
    <3>1. PICK r \in Procs : pc[r] \in {"r_done", "r_stamp"}
      BY <2>1
    <3>2. r # q /\ pc'[r] = pc[r]
      BY <1>1, <1>2, <1>3, <1>7, <3>1
    <3>3. QED
      BY <1>4, <3>1, <3>2 DEF StampsTell
  <2>2. CASE \A p \in Procs : last_seen[p] = last_restart_time => Fresh(p)
    <3>1. \A p \in Procs : last_seen'[p] = last_restart_time' => Fresh(p)'
      BY <1>1, <1>3, <1>5, <2>2
    <3>2. QED
      BY <1>4, <3>1 DEF StampsTell
  <2>3. QED
    BY <1>2, <1>7, <2>1, <2>2 DEF StampsTell, DiedBefore
<1>8. QED
  BY <1>6, <1>7

\* Who has synchronised with the last restart keeps to its epoch.
LEMMA StampStep ==
    ASSUME TypeOK, LocksMatchControl, StampsTell, NEW p \in Procs, NextOf(p)
    PROVE  StampsTell'
<1> USE OpcacheAssumption DEF TypeOK, ControlTypes, LockTypes, CounterTypes, PointerTypes,
   LocksMatchControl, StampsTell, DiedBefore, Fresh, Goto, Step, zend_shared_alloc_lock,
   zend_shared_alloc_unlock, locks, flags, memory, local, ghost, pointers, PCs, Locked,
   RestartPCs, NotYetOn, SchedulePCs, CompilePCs, InvalidatePCs, Uncut, MayBailOut,
   InRequest
<1>1. CASE RequestStart(p)
  BY <1>1 DEF RequestStart
<1>2. CASE RestartLock(p)
  BY <1>2 DEF RestartLock
<1>3. CASE RestartCheck(p)
  BY <1>3 DEF RestartCheck, accel_is_inactive
<1>4. CASE accel_restart_enter(p)
  BY <1>4 DEF accel_restart_enter
<1>5. CASE RestartReset(p)
  BY <1>5 DEF RestartReset
<1>6. CASE RestartClean(p)
  BY <1>6 DEF RestartClean
<1>7. CASE RestartRestore(p)
  BY <1>7 DEF RestartRestore
<1>8. CASE RestartOn(p)
  BY <1>8 DEF RestartOn
<1>9. CASE RestartStamp(p)
  BY <1>9 DEF RestartStamp
<1>10. CASE accel_restart_leave(p)
  BY <1>10 DEF accel_restart_leave
<1>11. CASE RestartUnlock(p)
  BY <1>11 DEF RestartUnlock
<1>12. CASE RequestEnable(p)
  BY <1>12 DEF RequestEnable
<1>13. CASE RequestCaches(p)
  BY <1>13 DEF RequestCaches
<1>14. CASE KillLocker(p)
  <2> HIDE DEF TypeOK, StampsTell, Goto
  <2>1. PICK q \in readers \ {p} : Die(q) /\ Goto(q, "idle")
    BY <1>14 DEF KillLocker
  <2>2. q \in Procs
    BY <2>1 DEF TypeOK
  <2>3. QED
    BY <2>1, <2>2, DeathStep
<1>15. CASE KillDone(p)
  BY <1>15 DEF KillDone, accel_is_inactive, accel_unlock_all
<1>16. CASE ResetSchedule(p)
  BY <1>16 DEF ResetSchedule, zend_accel_schedule_restart, UnlockAndGoto
<1>17. CASE ScheduleSave(p)
  BY <1>17 DEF ScheduleSave
<1>18. CASE ScheduleOff(p)
  BY <1>18 DEF ScheduleOff
<1>19. CASE ScheduleForce(p)
  BY <1>19 DEF ScheduleForce, UnlockAndGoto
<1>20. CASE DiscardCount(p)
  BY <1>20 DEF DiscardCount, zend_accel_schedule_restart_if_necessary,
     zend_accel_schedule_restart, UnlockAndGoto
<1>21. CASE CompileGetlk(p)
  BY <1>21 DEF CompileGetlk, Forget
<1>22. CASE CompileClear(p)
  BY <1>22 DEF CompileClear
<1>23. CASE CompileFind(p)
  BY <1>23 DEF CompileFind, Find
<1>24. CASE CompileAdd(p)
  BY <1>24 DEF CompileAdd, accel_activate_add
<1>25. CASE CompileValidate(p)
  BY <1>25 DEF CompileValidate, Executes, Spend, Forget
<1>26. CASE CompileDiscard(p)
  BY <1>26 DEF CompileDiscard, Discard, zend_accel_discard_script, UnlockAndGoto
<1>27. CASE CompileMiss(p)
  BY <1>27 DEF CompileMiss, Forget
<1>28. CASE CacheLock(p)
  BY <1>28 DEF CacheLock
<1>29. CASE CacheAlloc(p)
  BY <1>29 DEF CacheAlloc, HasRoom, Executes, Forget,
     zend_accel_schedule_restart_if_necessary, zend_accel_schedule_restart, UnlockAndGoto
<1>30. CASE CachePublish(p)
  BY <1>30 DEF CachePublish, Executes, Forget
<1>31. CASE ReadLockAdd(p)
  BY <1>31 DEF ReadLockAdd, accel_activate_add
<1>32. CASE ReadLockCheck(p)
  BY <1>32 DEF ReadLockCheck, Forget
<1>33. CASE InvalidateFind(p)
  BY <1>33 DEF InvalidateFind, Find, Forget
<1>34. CASE InvalidateDiscard(p)
  BY <1>34 DEF InvalidateDiscard, Discard, zend_accel_discard_script, UnlockAndGoto,
     Forget
<1>35. CASE InternString(p)
  BY <1>35 DEF InternString, accel_activate_add, Executes
<1>36. CASE ResetStart(p)
  BY <1>36 DEF ResetStart, Spend
<1>37. CASE RequestEnd(p)
  BY <1>37 DEF RequestEnd, accel_unlock_all, Forget
<1>38. CASE Crash(p)
  <2> HIDE DEF TypeOK, StampsTell, Goto
  <2>1. Die(p) /\ Goto(p, "idle")
    BY <1>38 DEF Crash
  <2>2. QED
    BY <2>1, DeathStep
<1>39. CASE \E s \in Scripts : CompileStart(p, s)
  BY <1>39 DEF CompileStart
<1>40. CASE \E s \in Scripts : InvalidateStart(p, s)
  BY <1>40 DEF InvalidateStart, Spend
<1>41. QED
  BY <1>1, <1>2, <1>3, <1>4, <1>5, <1>6, <1>7, <1>8, <1>9, <1>10, <1>11, <1>12, <1>13,
     <1>14, <1>15, <1>16, <1>17, <1>18, <1>19, <1>20, <1>21, <1>22, <1>23, <1>24, <1>25,
     <1>26, <1>27, <1>28, <1>29, <1>30, <1>31, <1>32, <1>33, <1>34, <1>35, <1>36, <1>37,
     <1>38, <1>39, <1>40 DEF NextOf, Restarting, Scheduling, Compiling, Invalidating

\* The step neither discards, counts nor allocates, and begins or ends no wipe.
Quiet ==
    /\ UNCHANGED <<corrupted, used, wasted_shared_memory, stray, crashes>>
    /\ died \subseteq died'
    /\ \A q \in Procs : /\ pc[q] = "d_count" <=> pc'[q] = "d_count"
                        /\ pc[q] \in {"r_clean", "r_restore"} => pc'[q] = pc[q]

\* The steps that matter for what is wasted.
LEMMA WastedFrame ==
    ASSUME TypeOK, LocksMatchControl, NEW p \in Procs, NextOf(p)
    PROVE  \/ Quiet \/ DiscardCount(p) \/ CacheAlloc(p) \/ Crash(p)
           \/ RestartReset(p) \/ RestartClean(p) \/ RestartRestore(p)
           \/ CompileDiscard(p) \/ InvalidateDiscard(p)
<1> USE OpcacheAssumption DEF Quiet, TypeOK, ControlTypes, LockTypes, Step, Goto, memory, local,
        ghost, locks
<1>1. CASE RequestStart(p) \/ RestartLock(p) \/ RestartCheck(p) \/ accel_restart_enter(p)
  BY <1>1 DEF RequestStart, RestartLock, RestartCheck, accel_restart_enter
<1>2. CASE RestartOn(p) \/ RestartStamp(p) \/ accel_restart_leave(p) \/ RestartUnlock(p)
  BY <1>2 DEF RestartOn, RestartStamp, accel_restart_leave, RestartUnlock
<1>3. CASE RequestEnable(p) \/ RequestCaches(p) \/ KillDone(p)
  BY <1>3 DEF RequestEnable, RequestCaches, KillDone
<1>4. CASE KillLocker(p)
  <2>1. PICK q \in readers \ {p} : Die(q) /\ Goto(q, "idle")
    BY <1>4 DEF KillLocker
  <2>2. pc[p] = "r_kill" /\ UNCHANGED crashes
    BY <1>4 DEF KillLocker
  <2>3. pc[q] \notin {"d_count", "r_clean", "r_restore"}
    BY <2>1, <2>2 DEF LocksMatchControl, Locked, RestartPCs, NotYetOn
  <2>4. QED
    BY <2>1, <2>2, <2>3 DEF Die
<1>5. CASE ResetSchedule(p) \/ ScheduleSave(p) \/ ScheduleOff(p) \/ ScheduleForce(p)
  BY <1>5 DEF ResetSchedule, ScheduleSave, ScheduleOff, ScheduleForce, UnlockAndGoto,
     zend_accel_schedule_restart
<1>6. CASE Compiling(p)
  BY <1>6 DEF Compiling, CompileGetlk, CompileClear, CompileFind, CompileAdd, CompileValidate,
     CompileMiss, CacheLock, CachePublish
<1>7. CASE Invalidating(p)
  BY <1>7 DEF Invalidating, ReadLockAdd, ReadLockCheck, InvalidateFind
<1>8. CASE InternString(p) \/ ResetStart(p) \/ RequestEnd(p)
  BY <1>8 DEF InternString, ResetStart, RequestEnd, MayBailOut, CompilePCs, InvalidatePCs, Uncut
<1>9. CASE \E s \in Scripts : CompileStart(p, s) \/ InvalidateStart(p, s)
  BY <1>9 DEF CompileStart, InvalidateStart
<1>10. QED
  BY <1>1, <1>2, <1>3, <1>4, <1>5, <1>6, <1>7, <1>8, <1>9 DEF NextOf, Restarting, Scheduling

\* The accounts of WastedMatchesDiscarded, and the states in which they are not kept.
Counting == IF \E p \in Procs : pc[p] = "d_count" THEN 1 ELSE 0
Wiping ==
    \/ \E p \in Procs : pc[p] \in {"r_clean", "r_restore"}
    \/ DiedBefore({"r_clean", "r_restore"})
Balanced ==
    /\ wasted_shared_memory + Counting <= Discarded + stray
    /\ Discarded <= wasted_shared_memory + Counting + crashes

LEMMA WastedIsBalance == WastedMatchesDiscarded <=> Wiping \/ Balanced
BY DEF WastedMatchesDiscarded, Wiping, Balanced, Counting

\* Marking one more position adds it to the discarded ones if it is allocated, and then
\* it is counted.
LEMMA MarkedOnce ==
    ASSUME TypeOK, NEW n \in Positions, n \notin corrupted,
           corrupted' = corrupted \cup {n}, used' = used
    PROVE  /\ Discarded \in Nat /\ Discarded' \in Nat
           /\ Discarded <= Discarded' /\ Discarded' <= Discarded + 1
           /\ n \in 1..used => Discarded' = Discarded + 1
<1> DEFINE C == corrupted \cap (1..used)
<1>1. IsFiniteSet(C) /\ Cardinality(C) \in Nat
  <2>1. used \in Nat /\ IsFiniteSet(1..used)
    BY OpcacheAssumption, FS_Interval DEF TypeOK, MemoryTypes, Positions
  <2>2. C \in SUBSET (1..used)
    OBVIOUS
  <2>3. QED
    BY <2>1, <2>2, FS_Subset, FS_CardinalityType
<1>2. CASE n \in 1..used
  <2>1. corrupted' \cap (1..used') = C \cup {n} /\ n \notin C
    BY <1>2
  <2>2. Cardinality(C \cup {n}) = Cardinality(C) + 1
    BY <1>1, <2>1, FS_AddElement
  <2>3. Discarded = Cardinality(C) /\ Discarded' = Cardinality(C \cup {n})
    BY <2>1 DEF Discarded
  <2> HIDE DEF C
  <2>4. QED
    BY <1>1, <2>2, <2>3
<1>3. CASE n \notin 1..used
  <2>1. corrupted' \cap (1..used') = C
    BY <1>3
  <2>2. Discarded = Cardinality(C) /\ Discarded' = Cardinality(C)
    BY <2>1 DEF Discarded
  <2> HIDE DEF C
  <2>3. QED
    BY <1>1, <1>3, <2>2
<1>4. QED
  BY <1>2, <1>3

\* A discarded script is on its way to be counted, once.
LEMMA DiscardStep ==
    ASSUME TypeOK, LocksMatchControl, PointersAreAllocated, WastedMatchesDiscarded,
           NEW p \in Procs, NEW label \in {"run", "c_miss"}, ptr[p] # 0, Discard(p, label),
           pc[p] \in {"c_discard", "i_discard"}
    PROVE  WastedMatchesDiscarded'
<1>1. \A q \in Procs : pc[q] \notin Locked
  BY OpcacheAssumption DEF Discard, LocksMatchControl
<1>2. \A q \in Procs : pc[q] \notin {"d_count", "r_clean", "r_restore"}
  BY <1>1 DEF Locked, RestartPCs, NotYetOn
<1>3. UNCHANGED <<used, wasted_shared_memory, died, crashes>>
  BY DEF Discard
<1>4. CASE ptr[p] \in corrupted
  <2>1. UNCHANGED <<corrupted, stray>> /\ pc' = [pc EXCEPT ![p] = label]
    BY <1>4 DEF Discard, zend_accel_discard_script, UnlockAndGoto, Goto
  <2>2. \A q \in Procs : pc'[q] # "d_count"
    BY <1>2, <2>1 DEF TypeOK, ControlTypes
  <2>3. Counting = 0 /\ Counting' = 0
    BY <1>2, <2>2 DEF Counting
  <2>4. Wiping => Wiping'
    BY <1>2, <1>3 DEF Wiping, DiedBefore
  <2>5. Balanced => Balanced'
    BY <1>3, <2>1, <2>3 DEF Balanced, Discarded
  <2>6. QED
    BY <2>4, <2>5, WastedIsBalance DEF WastedMatchesDiscarded, Wiping, Balanced, Counting
<1>5. CASE ptr[p] \notin corrupted
  <2>1. /\ corrupted' = corrupted \cup {ptr[p]}
        /\ stray' = IF ptrEpoch[p] = epoch THEN stray ELSE stray + 1
        /\ pc' = [pc EXCEPT ![p] = "d_count"]
    BY <1>5 DEF Discard, zend_accel_discard_script, Goto
  <2>2. pc'[p] = "d_count"
    BY <2>1 DEF TypeOK, ControlTypes
  <2>3. Counting = 0 /\ Counting' = 1
    BY <1>2, <2>2 DEF Counting
  <2>4. Wiping => Wiping'
    BY <1>2, <1>3 DEF Wiping, DiedBefore
  <2>5. Balanced => Balanced'
    <3>1. /\ wasted_shared_memory \in Nat /\ stray \in Nat /\ crashes \in Nat
          /\ ptr[p] \in Positions /\ used \in Nat
      BY OpcacheAssumption DEF TypeOK, CounterTypes, PointerTypes, MemoryTypes, Positions
    <3>2. /\ Discarded \in Nat /\ Discarded' \in Nat
          /\ Discarded <= Discarded' /\ Discarded' <= Discarded + 1
          /\ ptr[p] \in 1..used => Discarded' = Discarded + 1
      BY <1>3, <1>5, <2>1, <3>1, MarkedOnce
    <3>3. ptrEpoch[p] = epoch => ptr[p] \in 1..used
      BY <3>1, OpcacheAssumption DEF PointersAreAllocated, Positions
    <3>4. QED
      BY <1>3, <2>1, <2>3, <3>1, <3>2, <3>3 DEF Balanced
  <2>6. QED
    BY <2>4, <2>5, WastedIsBalance DEF WastedMatchesDiscarded, Wiping, Balanced, Counting
<1>6. QED
  BY <1>4, <1>5

\* What is wasted is what was discarded, after every step.
LEMMA WastedStep ==
    ASSUME TypeOK, LocksMatchControl, PointersAreAllocated, WastedMatchesDiscarded,
           NEW p \in Procs, NextOf(p)
    PROVE  WastedMatchesDiscarded'
<1>1. /\ wasted_shared_memory \in Nat /\ stray \in Nat /\ crashes \in Nat /\ used \in Nat
      /\ pc \in [Procs -> PCs]
  BY OpcacheAssumption DEF TypeOK, CounterTypes, MemoryTypes, ControlTypes, Positions
<1>2. Discarded \in Nat
  <2>1. IsFiniteSet(1..used)
    BY <1>1, FS_Interval
  <2>2. corrupted \cap (1..used) \in SUBSET (1..used)
    OBVIOUS
  <2>3. IsFiniteSet(corrupted \cap (1..used))
    BY <2>1, <2>2, FS_Subset
  <2>4. QED
    BY <2>3, FS_CardinalityType DEF Discarded
<1>3. SUFFICES Wiping' \/ Balanced'
  BY DEF WastedMatchesDiscarded, Wiping, Balanced, Counting
<1>4. CASE Quiet
  <2>1. Counting' = Counting /\ Discarded' = Discarded
    BY <1>4 DEF Quiet, Counting, Discarded
  <2>2. Wiping => Wiping'
    BY <1>4 DEF Quiet, Wiping, DiedBefore
  <2>3. Balanced => Balanced'
    BY <1>4, <2>1 DEF Quiet, Balanced
  <2>4. QED
    BY <2>2, <2>3, WastedIsBalance
<1>5. CASE CompileDiscard(p) \/ InvalidateDiscard(p)
  <2>1. PICK label \in {"run", "c_miss"} :
            Discard(p, label) /\ pc[p] \in {"c_discard", "i_discard"}
    BY <1>5 DEF CompileDiscard, InvalidateDiscard
  <2>2. ptr[p] # 0
    BY <2>1 DEF PointersAreAllocated
  <2>3. WastedMatchesDiscarded'
    BY <2>1, <2>2, DiscardStep
  <2>4. QED
    BY <2>3 DEF WastedMatchesDiscarded, Wiping, Balanced, Counting
<1>6. CASE DiscardCount(p)
  <2>1. /\ pc[p] = "d_count" /\ wasted_shared_memory' = wasted_shared_memory + 1
        /\ UNCHANGED <<corrupted, used, stray, died, crashes>>
    BY <1>6 DEF DiscardCount, ghost
  <2>2. \A q \in Procs : q # p => pc[q] \notin Locked
    BY <2>1 DEF LocksMatchControl, Locked
  <2>3. \A q \in Procs : pc[q] \notin {"r_clean", "r_restore"}
    BY <2>1, <2>2 DEF Locked, RestartPCs, NotYetOn
  <2>4. \E label \in {"run", "c_miss", "s_save"} : pc' = [pc EXCEPT ![p] = label]
    <3>1. back[p] \in {"run", "c_miss"}
      BY DEF TypeOK, ControlTypes
    <3>2. QED
      BY <1>6, <3>1 DEF DiscardCount, zend_accel_schedule_restart_if_necessary,
         zend_accel_schedule_restart, UnlockAndGoto, Goto
  <2>5. \A q \in Procs : pc'[q] # "d_count"
    <3>1. \A q \in Procs : q # p => pc[q] # "d_count"
      BY <2>2 DEF Locked
    <3>2. QED
      BY <1>1, <2>4, <3>1
  <2>6. Counting = 1 /\ Counting' = 0
    BY <2>1, <2>5 DEF Counting
  <2>7. Wiping => Wiping'
    BY <2>1, <2>3 DEF Wiping, DiedBefore
  <2>8. Balanced => Balanced'
    <3>1. Discarded' = Discarded
      BY <2>1 DEF Discarded
    <3>2. QED
      BY <1>1, <1>2, <2>1, <2>6, <3>1 DEF Balanced
  <2>9. QED
    BY <2>7, <2>8, WastedIsBalance
<1>7. CASE CacheAlloc(p)
  <2>1. /\ pc[p] = "c_alloc"
        /\ UNCHANGED <<wasted_shared_memory, stray, died, crashes>>
    BY <1>7 DEF CacheAlloc, ghost
  <2>2. \/ UNCHANGED <<corrupted, used>>
        \/ used' = used + 1 /\ corrupted' = corrupted \ {used + 1}
    BY <1>7 DEF CacheAlloc
  <2>3. \E label \in {"run", "s_save", "c_publish"} : pc' = [pc EXCEPT ![p] = label]
    BY <1>7 DEF CacheAlloc, zend_accel_schedule_restart_if_necessary,
         zend_accel_schedule_restart, UnlockAndGoto, Goto
  <2>4. \A q \in Procs : pc'[q] # pc[q] => /\ pc[q] \notin {"d_count", "r_clean", "r_restore"}
                                           /\ pc'[q] # "d_count"
    BY <1>1, <2>1, <2>3
  <2>5. Counting' = Counting
    BY <2>4 DEF Counting
  <2>6. Wiping => Wiping'
    BY <2>1, <2>4 DEF Wiping, DiedBefore
  <2>7. Discarded' = Discarded
    <3>1. corrupted' \cap (1..used') = corrupted \cap (1..used)
      BY <1>1, <2>2
    <3>2. QED
      BY <3>1 DEF Discarded
  <2>8. Balanced => Balanced'
    BY <2>1, <2>5, <2>7 DEF Balanced
  <2>9. QED
    BY <2>6, <2>8, WastedIsBalance
<1>8. CASE Crash(p)
  <2>1. /\ pc' = [pc EXCEPT ![p] = "idle"] /\ crashes' = crashes + 1
        /\ died' = died \cup ({pc[p]} \cap HalfDone)
        /\ UNCHANGED <<corrupted, used, wasted_shared_memory, stray>>
    BY <1>8 DEF Crash, Die, Goto, memory
  <2>2. Wiping => Wiping'
    BY <1>1, <2>1 DEF Wiping, DiedBefore, HalfDone, NotYetOn
  <2>3. \/ Counting = 0 /\ Counting' = 0
        \/ Counting = 1 /\ Counting' \in {0, 1}
    BY <1>1, <2>1 DEF Counting
  <2>4. Discarded' = Discarded
    BY <2>1 DEF Discarded
  <2>5. Balanced => Balanced'
    BY <1>1, <1>2, <2>1, <2>3, <2>4 DEF Balanced
  <2>6. QED
    BY <2>2, <2>5, WastedIsBalance
<1>9. CASE RestartReset(p) \/ RestartClean(p)
  <2>1. pc'[p] \in {"r_clean", "r_restore"}
    BY <1>1, <1>9 DEF RestartReset, RestartClean, Step, Goto
  <2>2. QED
    BY <2>1 DEF Wiping
<1>10. CASE RestartRestore(p)
  <2>1. /\ pc[p] = "r_restore" /\ pc' = [pc EXCEPT ![p] = "r_done"]
        /\ used' = 0 /\ wasted_shared_memory' = 0 /\ stray' = 0 /\ crashes' = crashes
    BY <1>10 DEF RestartRestore, Step, Goto
  <2>2. \A q \in Procs : pc'[q] # "d_count"
    BY <1>1, <2>1 DEF LocksMatchControl, Locked, RestartPCs, NotYetOn
  <2>3. Counting' = 0
    BY <2>2 DEF Counting
  <2>4. Discarded' = 0
    <3>1. corrupted' \cap (1..used') = {}
      BY <2>1
    <3>2. QED
      BY <3>1, FS_EmptySet DEF Discarded
  <2>5. QED
    BY <1>1, <2>1, <2>3, <2>4 DEF Balanced
<1>11. QED
  BY <1>4, <1>5, <1>6, <1>7, <1>8, <1>9, <1>10, WastedFrame

\* Pointers, stamps and the accounts of discarded memory: initially right, and kept by
\* every step of every process, deaths included.
THEOREM CacheInvariantHolds == Spec => []CacheInvariant
<1>1. Init => CacheInvariant
  <2> SUFFICES ASSUME Init PROVE CacheInvariant
    OBVIOUS
  <2>1. PointersAreAllocated /\ StampsTell
    BY OpcacheAssumption DEF Init, PointersAreAllocated, StampsTell, Fresh
  <2>2. corrupted \cap (1..used) = {}
    BY DEF Init
  <2>3. Discarded = 0
    BY <2>2, FS_EmptySet DEF Discarded
  <2>4. WastedMatchesDiscarded
    BY <2>3, OpcacheAssumption DEF Init, WastedMatchesDiscarded
  <2>5. QED
    BY <2>1, <2>4 DEF CacheInvariant
<1>2. TypeOK /\ RestartInvariant /\ CacheInvariant /\ [Next]_vars => CacheInvariant'
  <2> SUFFICES ASSUME TypeOK, RestartInvariant, CacheInvariant, [Next]_vars
               PROVE  CacheInvariant'
    OBVIOUS
  <2> USE DEF CacheInvariant
  <2>1. CASE UNCHANGED vars
    BY <2>1 DEF vars, locks, flags, memory, local, ghost, PointersAreAllocated, StampsTell,
       Fresh, WastedMatchesDiscarded, Discarded, DiedBefore
  <2>2. CASE Next
    <3>1. PICK p \in Procs : NextOf(p)
      BY <2>2 DEF Next
    <3>2. LocksMatchControl /\ NoOverlap
      BY DEF RestartInvariant
    <3>3. QED
      BY <3>1, <3>2, PointerStep, StampStep, WastedStep
  <2>3. QED
    BY <2>1, <2>2
<1>3. QED
  BY <1>1, <1>2, TypeCorrect, RestartInvariantHolds, PTL DEF Spec

\* Processes that find the same script stale at the same time do not count it twice, and
\* what is discarded is counted unless a process dies between marking and counting.
THEOREM WasteIsCountedOnce == Spec => []WastedMatchesDiscarded
<1>1. CacheInvariant => WastedMatchesDiscarded
  BY DEF CacheInvariant
<1>2. QED
  BY <1>1, CacheInvariantHolds, PTL

\* A process that has synchronised with the last restart has nothing of the segment
\* before it, whatever the clock said.
THEOREM SyncedCachesStayFresh == Spec => []SyncedCachesAreFresh
<1>1. CacheInvariant => SyncedCachesAreFresh
  BY DEF CacheInvariant, StampsTell, Fresh, SyncedCachesAreFresh
<1>2. QED
  BY <1>1, CacheInvariantHolds, PTL
=============================================================================
