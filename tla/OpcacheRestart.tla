-------------------------- MODULE OpcacheRestart --------------------------
(***************************************************************************)
(* OPcache's shared memory: the script cache in it, the three fcntl byte   *)
(* locks that guard it, and the restart that wipes it                      *)
(* (ext/opcache/ZendAccelerator.c, zend_shared_alloc.c).                   *)
(*                                                                         *)
(* Every process serves one request after another. Lock byte 0 is the      *)
(* exclusive lock of the allocator, byte 1 is held shared by the requests  *)
(* that use cached scripts, byte 2 is held while a restart is in progress. *)
(* A restart is scheduled by setting restart_pending and carried out by    *)
(* the next request that starts while nobody holds byte 1.                 *)
(*                                                                         *)
(* A script occupies one unit of the segment; the address of an allocation *)
(* is its position, so an address is used again after a restart. `epoch`   *)
(* counts restarts and is what tells a pointer from a dangling one.        *)
(***************************************************************************)
EXTENDS Integers, FiniteSets

CONSTANTS Procs, Scripts,
          None,            \* no process, no script
          MemSize,         \* units of shared memory
          MaxEntries,      \* capacity of the hash table of scripts
          MaxWasted,       \* max_wasted_percentage, in units
          ForceTimeout,    \* whether force_restart_timeout is set
          Regexes,         \* whether scripts use regular expressions
          MaxTime,         \* bound: the clock
          Budget,          \* bound: file changes, invalidations and opcache_reset()s
          MaxCrash         \* bound: processes that die

ASSUME OpcacheAssumption ==
    /\ None \notin Procs /\ None \notin Scripts
    /\ IsFiniteSet(Scripts)
    /\ MemSize \in Nat /\ MaxEntries \in Nat /\ MaxWasted \in Nat \ {0}
    /\ ForceTimeout \in BOOLEAN /\ Regexes \in BOOLEAN
    /\ MaxTime \in Nat /\ Budget \in Nat /\ MaxCrash \in Nat

VARIABLES
    lock0, readers, lock2,     \* holders of lock bytes 0, 1 and 2
    accelerator_enabled,       \* ZCSG: the fields of the shared globals
    restart_pending,
    cache_status_before_restart,
    force_restart_time,        \* whether a forced restart is armed
    restart_in_progress,
    last_restart_time,
    hash,                      \* script -> position of its copy, 0 if not cached
    used,                      \* positions allocated so far
    corrupted,                 \* positions of discarded scripts
    wasted_shared_memory,
    memory_exhausted,
    epoch,                     \* number of times the segment was wiped
    pc, enabled, counted,      \* per process: control, ZCG(accelerator_enabled), ZCG(counted)
    last_seen,                 \* per process: ZCG(last_restart_time)
    ptr, ptrEpoch,             \* per process: persistent_script and the epoch it is from
    script,                    \* per process: the script being included
    cached,                    \* per process: epochs its in-process caches point into
    back,                      \* per process: where it goes on after scheduling a restart
    stray,                     \* discards since the last wipe through a pointer from before it
    died,                      \* steps of an unfinished update at which a process has died
    budget, crashes            \* bounds

locks  == <<lock0, readers, lock2>>
flags  == <<accelerator_enabled, restart_pending, cache_status_before_restart,
            force_restart_time>>
memory == <<hash, used, corrupted, wasted_shared_memory, memory_exhausted>>
local  == <<enabled, counted, last_seen, ptr, ptrEpoch, script, cached>>
ghost  == <<stray, died, crashes>>
vars   == <<locks, flags, restart_in_progress, last_restart_time, memory, epoch,
            pc, back, local, ghost, budget>>

\* A restart before and after the accelerator is switched on again.
NotYetOn   == {"r_enter", "r_flag", "r_reset", "r_clean", "r_restore", "r_done"}
RestartPCs == NotYetOn \cup {"r_stamp", "r_leave", "r_unlock"}
SchedulePCs == {"s_save", "s_off", "s_force"}
CompilePCs == {"c_getlk", "c_clear", "c_find", "c_add", "c_valid", "c_discard", "c_miss",
               "c_lock", "c_alloc", "c_publish"}
InvalidatePCs == {"i_add", "i_check", "i_find", "i_discard"}
\* The steps in the middle of which nothing calls zend_bailout.
Uncut == {"c_getlk", "c_clear", "d_count"} \cup SchedulePCs
\* The sections between zend_shared_alloc_lock and zend_shared_alloc_unlock.
Locked == {"r_check", "r_kill", "c_alloc", "c_publish", "d_count"}
            \cup SchedulePCs \cup RestartPCs
PCs == {"idle", "r_lock", "r_check", "r_kill", "r_enable", "r_caches", "run", "o_lock"}
         \cup RestartPCs \cup CompilePCs \cup InvalidatePCs \cup Uncut

\* accel_startup: an empty cache, accelerator enabled, nobody connected.
Init ==
    /\ lock0 = None /\ readers = {} /\ lock2 = None
    /\ accelerator_enabled = TRUE
    /\ restart_pending = FALSE
    /\ cache_status_before_restart = FALSE
    /\ force_restart_time = FALSE
    /\ restart_in_progress = FALSE
    /\ last_restart_time = 0
    /\ hash = [s \in Scripts |-> 0]
    /\ used = 0 /\ corrupted = {} /\ wasted_shared_memory = 0 /\ memory_exhausted = FALSE
    /\ epoch = 0
    /\ pc = [p \in Procs |-> "idle"]
    /\ enabled = [p \in Procs |-> FALSE]
    /\ counted = [p \in Procs |-> FALSE]
    /\ last_seen = [p \in Procs |-> 0]
    /\ ptr = [p \in Procs |-> 0] /\ ptrEpoch = [p \in Procs |-> 0]
    /\ script = [p \in Procs |-> None]
    /\ cached = [p \in Procs |-> {}]
    /\ back = [p \in Procs |-> "run"]
    /\ stray = 0 /\ died = {}
    /\ budget = Budget /\ crashes = 0

Goto(p, label) == pc' = [pc EXCEPT ![p] = label]
Step(p, from, to) == pc[p] = from /\ Goto(p, to)

----------------------------------------------------------------------------
(* Lock byte 0: zend_shared_alloc_lock / zend_shared_alloc_unlock.          *)

\* Mutant: a failed fcntl() is taken for success.
SharedAllocLockUnchecked(p) == lock0' = p
zend_shared_alloc_lock(p)   == lock0 = None /\ lock0' = p
zend_shared_alloc_unlock(p) == lock0' = None

\* Lock byte 1. Nobody ever asks for it exclusively, so adding a reader succeeds.
accel_activate_add(p) == readers' = readers \cup {p}

\* Unlock byte 0 and go on at a label.
UnlockAndGoto(p, label) ==
    /\ zend_shared_alloc_unlock(p)
    /\ Goto(p, label)
    /\ back' = [back EXCEPT ![p] = "run"]

\* Mutant: a restart that is pending already is scheduled again.
ScheduleRestartTwice(p, label) ==
    /\ restart_pending' = TRUE
    /\ lock0' = p
    /\ Goto(p, "s_save")
    /\ back' = [back EXCEPT ![p] = label]

\* zend_accel_schedule_restart, under byte 0, and on to label: the test and the
\* first of its four stores. Other processes read the fields between two of them,
\* and a process may die there.
zend_accel_schedule_restart(p, label) ==
    IF restart_pending
    THEN UnlockAndGoto(p, label) /\ UNCHANGED restart_pending
    ELSE /\ restart_pending' = TRUE
         /\ lock0' = p
         /\ Goto(p, "s_save")
         /\ back' = [back EXCEPT ![p] = label]

ScheduleSave(p) ==
    /\ Step(p, "s_save", "s_off")
    /\ cache_status_before_restart' = accelerator_enabled
    /\ UNCHANGED <<locks, accelerator_enabled, restart_pending, force_restart_time,
                   restart_in_progress, last_restart_time, memory, epoch, back, local, ghost,
                   budget>>

ScheduleOff(p) ==
    /\ Step(p, "s_off", "s_force")
    /\ accelerator_enabled' = FALSE
    /\ UNCHANGED <<locks, restart_pending, cache_status_before_restart, force_restart_time,
                   restart_in_progress, last_restart_time, memory, epoch, back, local, ghost,
                   budget>>

ScheduleForce(p) ==
    /\ pc[p] = "s_force"
    /\ force_restart_time' = ForceTimeout
    /\ UnlockAndGoto(p, back[p])
    /\ UNCHANGED <<readers, lock2, accelerator_enabled, restart_pending,
                   cache_status_before_restart, restart_in_progress, last_restart_time, memory,
                   epoch, local, ghost, budget>>

zend_accel_schedule_restart_if_necessary(p, waste, label) ==
    IF waste >= MaxWasted THEN zend_accel_schedule_restart(p, label)
                          ELSE UnlockAndGoto(p, label) /\ UNCHANGED restart_pending

\* Mutant: a script that is discarded already is discarded again.
DiscardScriptTwice(p, n, label) ==
    /\ corrupted' = corrupted \cup {n}
    /\ stray' = IF ptrEpoch[p] = epoch THEN stray ELSE stray + 1
    /\ lock0' = p
    /\ Goto(p, "d_count")
    /\ back' = [back EXCEPT ![p] = label]

\* zend_accel_discard_script of the copy at position n, and on to label: mark it, then
\* (DiscardCount) count its memory as wasted, which may call for a restart.
zend_accel_discard_script(p, n, label) ==
    IF n \in corrupted
    THEN UnlockAndGoto(p, label) /\ UNCHANGED <<corrupted, stray>>
    ELSE /\ corrupted' = corrupted \cup {n}
         /\ stray' = IF ptrEpoch[p] = epoch THEN stray ELSE stray + 1
         /\ lock0' = p
         /\ Goto(p, "d_count")
         /\ back' = [back EXCEPT ![p] = label]

DiscardCount(p) ==
    /\ pc[p] = "d_count"
    /\ wasted_shared_memory' = wasted_shared_memory + 1
    /\ IF memory_exhausted
       THEN zend_accel_schedule_restart_if_necessary(p, wasted_shared_memory + 1, back[p])
       ELSE UnlockAndGoto(p, back[p]) /\ UNCHANGED restart_pending
    /\ UNCHANGED <<readers, lock2, accelerator_enabled, cache_status_before_restart,
                   force_restart_time, restart_in_progress, last_restart_time, hash, used,
                   corrupted, memory_exhausted, epoch, local, ghost, budget>>

----------------------------------------------------------------------------
(* Request startup: ZEND_RINIT_FUNCTION(zend_accelerator).                  *)

\* Drop a stuck count, then look at restart_pending without any lock.
RequestStart(p) ==
    /\ pc[p] = "idle"
    /\ counted' = [counted EXCEPT ![p] = FALSE]
    /\ IF counted[p]
       THEN /\ readers' = readers \ {p}
            /\ lock0' = IF lock0 = p THEN None ELSE lock0
            /\ lock2' = IF lock2 = p THEN None ELSE lock2
       ELSE UNCHANGED locks
    /\ Goto(p, IF restart_pending THEN "r_lock" ELSE "r_enable")
    /\ UNCHANGED <<flags, restart_in_progress, last_restart_time, memory, epoch, back, enabled,
                   last_seen, ptr, ptrEpoch, script, cached, ghost, budget>>

RestartLock(p) ==
    /\ Step(p, "r_lock", "r_check")
    /\ zend_shared_alloc_lock(p)
    /\ UNCHANGED <<readers, lock2, flags, restart_in_progress, last_restart_time, memory,
                   epoch, back, local, ghost, budget>>

\* accel_is_inactive(): F_GETLK asks whether anybody else holds byte 1, and
\* leaves it unlocked.
accel_is_inactive(p) == readers \subseteq {p}

\* The second look at restart_pending, under byte 0. With nobody using the cache
\* the restart begins; otherwise it is left to a later request, after killing the
\* lockers if the forced restart is due (the clock may or may not have got there).
RestartCheck(p) ==
    /\ pc[p] = "r_check"
    /\ \/ /\ ~restart_pending
          /\ Goto(p, "r_enable")
          /\ zend_shared_alloc_unlock(p)
          /\ UNCHANGED <<restart_pending, force_restart_time>>
       \/ /\ restart_pending /\ accel_is_inactive(p)
          /\ Goto(p, "r_enter")
          /\ restart_pending' = FALSE
          /\ UNCHANGED <<lock0, force_restart_time>>
       \/ /\ restart_pending /\ ~accel_is_inactive(p)
          /\ Goto(p, "r_enable")
          /\ zend_shared_alloc_unlock(p)
          /\ UNCHANGED <<restart_pending, force_restart_time>>
       \/ /\ restart_pending /\ ~accel_is_inactive(p)
          /\ ForceTimeout /\ force_restart_time
          /\ Goto(p, "r_kill")
          /\ force_restart_time' = FALSE
          /\ UNCHANGED <<lock0, restart_pending>>
    /\ UNCHANGED <<readers, lock2, accelerator_enabled, cache_status_before_restart,
                   restart_in_progress, last_restart_time, memory, epoch, back, local, ghost,
                   budget>>

\* accel_restart_enter(): lock byte 2, then raise the flag.
accel_restart_enter(p) ==
    /\ \/ /\ Step(p, "r_enter", "r_flag")
          /\ lock2' = p
          /\ UNCHANGED restart_in_progress
       \/ /\ Step(p, "r_flag", "r_reset")
          /\ restart_in_progress' = TRUE
          /\ UNCHANGED lock2
    /\ UNCHANGED <<lock0, readers, flags, last_restart_time, memory, epoch, back, local, ghost,
                   budget>>

\* zend_reset_cache_vars().
RestartReset(p) ==
    /\ Step(p, "r_reset", "r_clean")
    /\ wasted_shared_memory' = 0 /\ memory_exhausted' = FALSE
    /\ restart_pending' = FALSE
    /\ force_restart_time' = FALSE
    /\ UNCHANGED <<locks, accelerator_enabled, cache_status_before_restart,
                   restart_in_progress, last_restart_time, hash, used, corrupted, epoch, back,
                   local, ghost, budget>>

\* Mutant: the hash table is not cleaned.
RestartKeepsHash(p) ==
    /\ Step(p, "r_clean", "r_restore")
    /\ UNCHANGED <<locks, flags, restart_in_progress, last_restart_time, memory, epoch, back,
                   local, ghost, budget>>

\* zend_accel_hash_clean(): no script is cached. The scripts stay in memory as they
\* are, the discarded ones marked, until their memory is allocated again.
RestartClean(p) ==
    /\ Step(p, "r_clean", "r_restore")
    /\ hash' = [s \in Scripts |-> 0]
    /\ UNCHANGED <<locks, flags, restart_in_progress, last_restart_time, used, corrupted,
                   wasted_shared_memory, memory_exhausted, epoch, back, local, ghost, budget>>

\* zend_shared_alloc_restore_state(): the memory may be allocated again.
RestartRestore(p) ==
    /\ Step(p, "r_restore", "r_done")
    /\ used' = 0
    /\ memory_exhausted' = FALSE /\ wasted_shared_memory' = 0
    /\ epoch' = epoch + 1
    /\ stray' = 0
    /\ UNCHANGED <<locks, flags, restart_in_progress, last_restart_time, hash, corrupted,
                   back, local, died, crashes, budget>>

\* Re-enable.
RestartOn(p) ==
    /\ Step(p, "r_done", "r_stamp")
    /\ accelerator_enabled' = cache_status_before_restart
    /\ UNCHANGED <<locks, restart_pending, cache_status_before_restart, force_restart_time,
                   restart_in_progress, last_restart_time, memory, epoch, back, local, ghost,
                   budget>>

\* Mutant: the stamp is the clock, even when the clock did not advance.
RestartStampByClock(p) ==
    /\ Step(p, "r_stamp", "r_leave")
    /\ \E request_time \in 0..MaxTime : last_restart_time' = request_time
    /\ UNCHANGED <<locks, flags, restart_in_progress, memory, epoch, back, local, ghost, budget>>

\* Stamp the restart: request_time is the wall clock of this request, which may be at
\* or before the previous stamp.
RestartStamp(p) ==
    /\ Step(p, "r_stamp", "r_leave")
    /\ \E request_time \in 0..MaxTime :
          last_restart_time' = IF last_restart_time < request_time
                               THEN request_time ELSE last_restart_time + 1
    /\ UNCHANGED <<locks, flags, restart_in_progress, memory, epoch, back, local, ghost, budget>>

\* accel_restart_leave(): clear the flag, then unlock byte 2 (and byte 0).
accel_restart_leave(p) ==
    /\ Step(p, "r_leave", "r_unlock")
    /\ restart_in_progress' = FALSE
    /\ UNCHANGED <<locks, flags, last_restart_time, memory, epoch, back, local, ghost, budget>>

RestartUnlock(p) ==
    /\ Step(p, "r_unlock", "r_enable")
    /\ lock2' = None
    /\ zend_shared_alloc_unlock(p)
    /\ UNCHANGED <<readers, flags, restart_in_progress, last_restart_time, memory, epoch,
                   back, local, ghost, budget>>

\* Mutant: requests use the cache while a restart is due.
RequestEnableAlways(p) ==
    /\ Step(p, "r_enable", "r_caches")
    /\ enabled' = [enabled EXCEPT ![p] = TRUE]
    /\ UNCHANGED <<locks, flags, restart_in_progress, last_restart_time, memory, epoch, back,
                   counted, last_seen, ptr, ptrEpoch, script, cached, ghost, budget>>

\* ZCG(accelerator_enabled) = ZCSG(accelerator_enabled).
RequestEnable(p) ==
    /\ Step(p, "r_enable", "r_caches")
    /\ enabled' = [enabled EXCEPT ![p] = accelerator_enabled]
    /\ UNCHANGED <<locks, flags, restart_in_progress, last_restart_time, memory, epoch, back,
                   counted, last_seen, ptr, ptrEpoch, script, cached, ghost, budget>>

\* Throw the in-process caches away when the segment was restarted since this
\* process last looked, or when the cache is off.
RequestCaches(p) ==
    /\ Step(p, "r_caches", "run")
    /\ LET restarted == enabled[p] /\ last_restart_time # last_seen[p] IN
       /\ last_seen' = IF restarted
                       THEN [last_seen EXCEPT ![p] = last_restart_time] ELSE last_seen
       /\ cached' = IF restarted \/ ~enabled[p]
                    THEN [cached EXCEPT ![p] = {}] ELSE cached
    /\ UNCHANGED <<locks, flags, restart_in_progress, last_restart_time, memory, epoch, back,
                   enabled, counted, ptr, ptrEpoch, script, ghost, budget>>

----------------------------------------------------------------------------
(* Including a script: persistent_compile_file.                             *)

Spend == budget > 0 /\ budget' = budget - 1

\* The local variables of the function go when it returns.
pointers == <<ptr, ptrEpoch, script>>
Forget(p) ==
    /\ ptr' = [ptr EXCEPT ![p] = 0]
    /\ ptrEpoch' = [ptrEpoch EXCEPT ![p] = 0]
    /\ script' = [script EXCEPT ![p] = None]

\* The exits at the top of the function leave everything alone: the script is compiled
\* without the cache.
CompileStart(p, s) ==
    /\ pc[p] = "run" /\ enabled[p]
    /\ script' = [script EXCEPT ![p] = s]
    /\ Goto(p, IF restart_in_progress THEN "c_getlk" ELSE "c_find")
    /\ UNCHANGED <<locks, flags, restart_in_progress, last_restart_time, memory, epoch, back,
                   enabled, counted, last_seen, ptr, ptrEpoch, cached, ghost, budget>>

\* Mutant: the flag is believed, whoever raised it.
CompileGetlkBelieves(p) ==
    /\ Step(p, "c_getlk", "run")
    /\ Forget(p)
    /\ UNCHANGED <<locks, flags, restart_in_progress, last_restart_time, memory, epoch, back,
                   enabled, counted, last_seen, cached, ghost, budget>>

\* accel_restart_is_active() asks, some time after it read the flag, whether the restart
\* is still somebody's; if nobody else holds byte 2 it takes the flag back.
CompileGetlk(p) ==
    /\ pc[p] = "c_getlk"
    /\ IF lock2 \in {None, p} THEN Goto(p, "c_clear") /\ UNCHANGED pointers
                              ELSE Goto(p, "run") /\ Forget(p)
    /\ UNCHANGED <<locks, flags, restart_in_progress, last_restart_time, memory, epoch, back,
                   enabled, counted, last_seen, cached, ghost, budget>>

CompileClear(p) ==
    /\ Step(p, "c_clear", "c_find")
    /\ restart_in_progress' = FALSE
    /\ UNCHANGED <<locks, flags, last_restart_time, memory, epoch, back, local, ghost, budget>>

\* The lookup, made before the usage lock is taken; a discarded script counts
\* as not found.
Find(p) ==
    LET n == hash[script[p]] IN
    /\ ptr' = [ptr EXCEPT ![p] = IF n \in corrupted THEN 0 ELSE n]
    /\ ptrEpoch' = [ptrEpoch EXCEPT ![p] = epoch]

CompileFind(p) ==
    /\ Step(p, "c_find", "c_add")
    /\ Find(p)
    /\ UNCHANGED <<locks, flags, restart_in_progress, last_restart_time, memory, epoch, back,
                   enabled, counted, last_seen, script, cached, ghost, budget>>

CompileAdd(p) ==
    /\ Step(p, "c_add", "c_valid")
    /\ IF counted[p] THEN UNCHANGED readers ELSE accel_activate_add(p)
    /\ counted' = [counted EXCEPT ![p] = TRUE]
    /\ UNCHANGED <<lock0, lock2, flags, restart_in_progress, last_restart_time, memory,
                   epoch, back, enabled, last_seen, ptr, ptrEpoch, script, cached, ghost, budget>>

\* Executing a script with a regular expression leaves a pointer into shared memory in
\* the process: the interned string is the key of an entry in its PCRE cache.
Executes(p, e) == cached' = IF Regexes THEN [cached EXCEPT ![p] = @ \cup {e}] ELSE cached

\* A hit, unless the file changed under the script (validate_timestamps).
CompileValidate(p) ==
    /\ pc[p] = "c_valid"
    /\ \/ /\ ptr[p] = 0
          /\ Goto(p, "c_miss")
          /\ UNCHANGED <<pointers, cached, budget>>
       \/ /\ ptr[p] # 0
          /\ Goto(p, "run") /\ Forget(p)
          /\ Executes(p, ptrEpoch[p])
          /\ UNCHANGED budget
       \/ /\ ptr[p] # 0 /\ Spend
          /\ Goto(p, "c_discard")
          /\ UNCHANGED <<pointers, cached>>
    /\ UNCHANGED <<locks, flags, restart_in_progress, last_restart_time, memory, epoch, back,
                   enabled, counted, last_seen, ghost>>

\* zend_accel_lock_discard_script.
Discard(p, label) ==
    /\ lock0 = None
    /\ zend_accel_discard_script(p, ptr[p], label)
    /\ UNCHANGED <<readers, lock2, flags, restart_in_progress, last_restart_time, hash, used,
                   wasted_shared_memory, memory_exhausted, epoch, enabled, counted, last_seen,
                   cached, died, crashes, budget>>

CompileDiscard(p) ==
    /\ pc[p] = "c_discard"
    /\ Discard(p, "c_miss")
    /\ ptr' = [ptr EXCEPT ![p] = 0]
    /\ UNCHANGED <<ptrEpoch, script>>

\* With no memory left, or a restart due, behave like without the accelerator.
CompileMiss(p) ==
    /\ pc[p] = "c_miss"
    /\ IF memory_exhausted \/ restart_pending THEN Goto(p, "run") /\ Forget(p)
                                             ELSE Goto(p, "c_lock") /\ UNCHANGED pointers
    /\ UNCHANGED <<locks, flags, restart_in_progress, last_restart_time, memory, epoch, back,
                   enabled, counted, last_seen, cached, ghost, budget>>

\* cache_script_in_shared_memory, from zend_shared_alloc_lock() on.
CacheLock(p) ==
    /\ Step(p, "c_lock", "c_alloc")
    /\ zend_shared_alloc_lock(p)
    /\ UNCHANGED <<readers, lock2, flags, restart_in_progress, last_restart_time, memory,
                   epoch, back, local, ghost, budget>>

\* Mutant: the last unit is given out twice.
HasRoomOffByOne == used <= MemSize
\* zend_shared_alloc: the segment can hold one more script.
HasRoom == used < MemSize

entries == Cardinality({s \in Scripts : hash[s] # 0})

\* Another process may have stored the script; the hash table may be full; the
\* segment may be full (zend_shared_alloc fails, and the memory counts as exhausted
\* when what is left is too small to be of use); otherwise allocate, and clear the
\* memory of what a script of before a restart left there.
CacheAlloc(p) ==
    /\ pc[p] = "c_alloc"
    /\ LET n == hash[script[p]] IN
       \/ /\ n # 0 /\ n \notin corrupted
          /\ Executes(p, epoch)
          /\ UnlockAndGoto(p, "run") /\ Forget(p)
          /\ UNCHANGED <<used, corrupted, memory_exhausted, restart_pending>>
       \/ /\ n = 0 \/ n \in corrupted
          /\ entries >= MaxEntries \/ ~HasRoom
          /\ \/ memory_exhausted' = TRUE
             \/ entries < MaxEntries /\ UNCHANGED memory_exhausted
          /\ zend_accel_schedule_restart_if_necessary(p, wasted_shared_memory, "run")
          /\ Forget(p)
          /\ UNCHANGED <<used, corrupted, cached>>
       \/ /\ n = 0 \/ n \in corrupted
          /\ entries < MaxEntries /\ HasRoom
          /\ used' = used + 1
          /\ corrupted' = corrupted \ {used + 1}
          /\ ptr' = [ptr EXCEPT ![p] = used + 1]
          /\ ptrEpoch' = [ptrEpoch EXCEPT ![p] = epoch]
          /\ Goto(p, "c_publish")
          /\ UNCHANGED <<lock0, memory_exhausted, restart_pending, back, script, cached>>
    /\ UNCHANGED <<readers, lock2, accelerator_enabled, cache_status_before_restart,
                   force_restart_time, restart_in_progress, last_restart_time, hash,
                   wasted_shared_memory, epoch, enabled, counted, last_seen, ghost, budget>>

\* zend_accel_hash_update, then unlock.
CachePublish(p) ==
    /\ Step(p, "c_publish", "run")
    /\ hash' = [hash EXCEPT ![script[p]] = ptr[p]]
    /\ Executes(p, ptrEpoch[p])
    /\ zend_shared_alloc_unlock(p)
    /\ Forget(p)
    /\ UNCHANGED <<readers, lock2, flags, restart_in_progress, last_restart_time, used,
                   corrupted, wasted_shared_memory, memory_exhausted, epoch, back, enabled,
                   counted, last_seen, ghost, budget>>

\* accel_find_interned_string: a string is looked up in the shared table.
InternString(p) ==
    /\ pc[p] = "run" /\ enabled[p] /\ ~counted[p]
    /\ accel_activate_add(p)
    /\ counted' = [counted EXCEPT ![p] = TRUE]
    /\ Executes(p, epoch)
    /\ UNCHANGED <<lock0, lock2, flags, restart_in_progress, last_restart_time, memory,
                   epoch, pc, back, enabled, last_seen, ptr, ptrEpoch, script, ghost, budget>>

----------------------------------------------------------------------------
(* The other users of shared memory.                                        *)

\* opcache_invalidate(): zend_accel_invalidate takes the usage lock with
\* accelerator_shm_read_lock, which checks for a restart after taking it.
InvalidateStart(p, s) ==
    /\ pc[p] = "run" /\ enabled[p] /\ Spend
    /\ script' = [script EXCEPT ![p] = s]
    /\ Goto(p, IF counted[p] THEN "i_find" ELSE "i_add")
    /\ UNCHANGED <<locks, flags, restart_in_progress, last_restart_time, memory, epoch, back,
                   enabled, counted, last_seen, ptr, ptrEpoch, cached, ghost>>

ReadLockAdd(p) ==
    /\ Step(p, "i_add", "i_check")
    /\ accel_activate_add(p)
    /\ UNCHANGED <<lock0, lock2, flags, restart_in_progress, last_restart_time, memory,
                   epoch, back, local, ghost, budget>>

ReadLockCheck(p) ==
    /\ pc[p] = "i_check"
    /\ IF restart_in_progress
       THEN /\ readers' = readers \ {p}
            /\ Goto(p, "run") /\ Forget(p)
            /\ UNCHANGED counted
       ELSE /\ counted' = [counted EXCEPT ![p] = TRUE]
            /\ Goto(p, "i_find")
            /\ UNCHANGED <<readers, pointers>>
    /\ UNCHANGED <<lock0, lock2, flags, restart_in_progress, last_restart_time, memory,
                   epoch, back, enabled, last_seen, cached, ghost, budget>>

\* The script is discarded if this is forced, or if its file changed.
InvalidateFind(p) ==
    /\ pc[p] = "i_find"
    /\ \/ Goto(p, "run") /\ Forget(p)
       \/ Find(p) /\ ptr'[p] # 0 /\ Goto(p, "i_discard") /\ UNCHANGED script
    /\ UNCHANGED <<locks, flags, restart_in_progress, last_restart_time, memory, epoch, back,
                   enabled, counted, last_seen, cached, ghost, budget>>

InvalidateDiscard(p) == pc[p] = "i_discard" /\ Discard(p, "run") /\ Forget(p)

\* opcache_reset(): a check without the lock, then schedule under it.
ResetStart(p) ==
    /\ Step(p, "run", "o_lock")
    /\ accelerator_enabled /\ Spend
    /\ UNCHANGED <<locks, flags, restart_in_progress, last_restart_time, memory, epoch, back,
                   local, ghost>>

ResetSchedule(p) ==
    /\ pc[p] = "o_lock" /\ lock0 = None
    /\ zend_accel_schedule_restart(p, "run")
    /\ UNCHANGED <<readers, lock2, accelerator_enabled, cache_status_before_restart,
                   force_restart_time, restart_in_progress, last_restart_time, memory, epoch,
                   local, ghost, budget>>

\* accel_unlock_all(): unlocks the whole file, bytes 0, 1 and 2.
accel_unlock_all(p) ==
    /\ lock0' = IF lock0 = p THEN None ELSE lock0
    /\ readers' = readers \ {p}
    /\ lock2' = IF lock2 = p THEN None ELSE lock2

MayBailOut == ({"run", "o_lock"} \cup CompilePCs \cup InvalidatePCs) \ Uncut

\* Mutant: the usage lock is kept.
RequestEndKeepsUsage(p) ==
    /\ pc[p] \in MayBailOut
    /\ lock0' = IF lock0 = p THEN None ELSE lock0
    /\ counted' = [counted EXCEPT ![p] = FALSE]
    /\ Forget(p)
    /\ Goto(p, "idle")
    /\ UNCHANGED <<readers, lock2, flags, restart_in_progress, last_restart_time, memory,
                   epoch, back, enabled, last_seen, cached, ghost, budget>>

\* accel_post_deactivate(), at the end of the request or after a bailout out of
\* the middle of an operation.
RequestEnd(p) ==
    /\ pc[p] \in MayBailOut
    /\ accel_unlock_all(p)
    /\ counted' = [counted EXCEPT ![p] = FALSE]
    /\ Forget(p)
    /\ Goto(p, "idle")
    /\ UNCHANGED <<flags, restart_in_progress, last_restart_time, memory, epoch, back, enabled,
                   last_seen, cached, ghost, budget>>

\* The steps before which an update of several fields of shared memory is half done.
HalfDone == {"s_save", "s_off", "d_count", "r_stamp"} \cup NotYetOn

\* A process dies anywhere: the kernel drops its locks, and the process manager
\* replaces it by a fresh one.
Die(q) ==
    /\ accel_unlock_all(q)
    /\ enabled' = [enabled EXCEPT ![q] = FALSE]
    /\ counted' = [counted EXCEPT ![q] = FALSE]
    /\ last_seen' = [last_seen EXCEPT ![q] = 0]
    /\ cached' = [cached EXCEPT ![q] = {}]
    /\ back' = [back EXCEPT ![q] = "run"]
    /\ Forget(q)
    /\ died' = died \cup ({pc[q]} \cap HalfDone)
    /\ UNCHANGED <<accelerator_enabled, restart_pending, cache_status_before_restart,
                   restart_in_progress, last_restart_time, memory, epoch, stray, budget>>

Crash(p) ==
    /\ pc[p] # "idle" /\ crashes < MaxCrash
    /\ crashes' = crashes + 1
    /\ Die(p)
    /\ Goto(p, "idle")
    /\ UNCHANGED force_restart_time

\* kill_all_lockers(): kill the holders of byte 1 one by one; give up (and arm the
\* forced restart again, and bail out of the request) when one does not go away.
KillLocker(p) ==
    /\ pc[p] = "r_kill"
    /\ \E q \in readers \ {p} :
         /\ Die(q)
         /\ Goto(q, "idle")
    /\ UNCHANGED <<force_restart_time, crashes>>

KillDone(p) ==
    /\ pc[p] = "r_kill"
    /\ \/ /\ accel_is_inactive(p)
          /\ Goto(p, "r_enable")
          /\ zend_shared_alloc_unlock(p)
          /\ UNCHANGED <<force_restart_time, readers, lock2, counted>>
       \/ /\ ~accel_is_inactive(p)
          /\ force_restart_time' = TRUE
          /\ accel_unlock_all(p)
          /\ counted' = [counted EXCEPT ![p] = FALSE]
          /\ Goto(p, "idle")
    /\ UNCHANGED <<accelerator_enabled, restart_pending, cache_status_before_restart,
                   restart_in_progress, last_restart_time, memory, epoch, back, enabled,
                   last_seen, ptr, ptrEpoch, script, cached, ghost, budget>>

----------------------------------------------------------------------------
Restarting(p) == RequestStart(p) \/ RestartLock(p) \/ RestartCheck(p)
    \/ accel_restart_enter(p) \/ RestartReset(p) \/ RestartClean(p) \/ RestartRestore(p)
    \/ RestartOn(p) \/ RestartStamp(p) \/ accel_restart_leave(p) \/ RestartUnlock(p)
    \/ RequestEnable(p) \/ RequestCaches(p) \/ KillLocker(p) \/ KillDone(p)

Scheduling(p) == ResetSchedule(p) \/ ScheduleSave(p) \/ ScheduleOff(p) \/ ScheduleForce(p)
    \/ DiscardCount(p)

Compiling(p) == CompileGetlk(p) \/ CompileClear(p) \/ CompileFind(p) \/ CompileAdd(p)
    \/ CompileValidate(p) \/ CompileDiscard(p) \/ CompileMiss(p) \/ CacheLock(p)
    \/ CacheAlloc(p) \/ CachePublish(p)

Invalidating(p) == ReadLockAdd(p) \/ ReadLockCheck(p) \/ InvalidateFind(p)
    \/ InvalidateDiscard(p)

NextOf(p) ==
    \/ Restarting(p) \/ Scheduling(p) \/ Compiling(p) \/ Invalidating(p)
    \/ \E s \in Scripts : CompileStart(p, s) \/ InvalidateStart(p, s)
    \/ InternString(p) \/ ResetStart(p)
    \/ RequestEnd(p) \/ Crash(p)

Next == \E p \in Procs : NextOf(p)

Spec == Init /\ [][Next]_vars

----------------------------------------------------------------------------
(* Properties.                                                              *)

Positions == 0..MemSize

LockTypes ==
    /\ lock0 \in Procs \cup {None} /\ lock2 \in Procs \cup {None}
    /\ readers \subseteq Procs

FlagTypes ==
    /\ accelerator_enabled \in BOOLEAN /\ restart_pending \in BOOLEAN
    /\ cache_status_before_restart \in BOOLEAN /\ force_restart_time \in BOOLEAN
    /\ restart_in_progress \in BOOLEAN /\ memory_exhausted \in BOOLEAN

CounterTypes ==
    /\ last_restart_time \in Nat /\ epoch \in Nat /\ wasted_shared_memory \in Nat
    /\ stray \in Nat /\ died \subseteq HalfDone
    /\ budget \in 0..Budget /\ crashes \in 0..MaxCrash

MemoryTypes ==
    /\ hash \in [Scripts -> Positions]
    /\ used \in Positions
    /\ corrupted \subseteq Positions

ControlTypes ==
    /\ pc \in [Procs -> PCs] /\ back \in [Procs -> {"run", "c_miss"}]
    /\ \A p \in Procs : back[p] = "c_miss" => pc[p] \in {"d_count"} \cup SchedulePCs
    /\ enabled \in [Procs -> BOOLEAN] /\ counted \in [Procs -> BOOLEAN]
    /\ script \in [Procs -> Scripts \cup {None}]

\* p is at a step at which script names the script being worked on, or returns to one.
Named(p) == pc[p] \in CompilePCs \cup InvalidatePCs \/ back[p] = "c_miss"

PointerTypes ==
    /\ ptr \in [Procs -> Positions] /\ ptrEpoch \in [Procs -> Nat]
    /\ last_seen \in [Procs -> Nat]
    /\ cached \in [Procs -> SUBSET Nat]
    /\ \A p \in Procs : Named(p) => script[p] \in Scripts

\* Every variable stays in its declared range.
TypeOK == /\ LockTypes /\ FlagTypes /\ CounterTypes
          /\ MemoryTypes /\ ControlTypes /\ PointerTypes

\* Two processes are never both inside a section of the code that believes it
\* holds the exclusive lock, whatever crashes, bailouts and unlock-alls happen.
Exclusive ==
    \A p, q \in Procs :
        pc[p] \in Locked /\ pc[q] \in Locked => p = q

\* Two cached scripts never share memory, and none lies beyond what is allocated:
\* concurrent compilation, restarts and crashes included.
NoOverlap ==
    /\ \A s \in Scripts : hash[s] <= used
    /\ \A s, t \in Scripts : s # t /\ hash[s] # 0 => hash[s] # hash[t]

\* A process has died before one of these steps.
DiedBefore(labels) == died \cap labels # {}

\* The stamp works: a process whose copy of last_restart_time is current has
\* nothing of an earlier epoch in its own caches, even when the wall clock stands
\* still or goes backwards between restarts; except between the wipe and the stamp,
\* for good if the process that restarts dies there.
SyncedCachesAreFresh ==
    \A p \in Procs :
        \/ last_seen[p] # last_restart_time
        \/ \E q \in Procs : pc[q] \in {"r_done", "r_stamp"}
        \/ DiedBefore({"r_done", "r_stamp"})
        \/ cached[p] \subseteq {epoch}

\* The steps before which a death keeps the cache off: the status to restore is not
\* saved yet, or restart_pending is cleared and the status not restored.
Unrecovered == {"s_save"} \cup NotYetOn

\* The cache is never left switched off: it is off only while a restart is due or being
\* carried out, however requests that schedule one and requests that carry one out follow
\* one another, as long as none of them dies at a step of Unrecovered.
NeverLeftDisabled ==
    \/ accelerator_enabled \/ restart_pending
    \/ \E p \in Procs : pc[p] \in NotYetOn
    \/ DiedBefore(Unrecovered)

\* The memory counted as wasted is that of the discarded scripts: processes that find
\* the same script stale at the same time do not count it twice, and none is missed
\* unless its process died between marking and counting. A process that looked a script
\* up before a restart and discards it afterwards may count what is no script any more.
Discarded == Cardinality(corrupted \cap (1..used))
WastedMatchesDiscarded ==
    LET counting == IF \E p \in Procs : pc[p] = "d_count" THEN 1 ELSE 0 IN
    \/ \E p \in Procs : pc[p] \in {"r_clean", "r_restore"}
    \/ DiedBefore({"r_clean", "r_restore"})
    \/ /\ wasted_shared_memory + counting <= Discarded + stray
       /\ Discarded <= wasted_shared_memory + counting + crashes

\* The states between RINIT and accel_post_deactivate.
InRequest == MayBailOut \cup Uncut

\* A locked section is executed by the holder of byte 0, and only requests that
\* are past RINIT hold byte 1.
LocksMatchControl ==
    /\ \A p \in Procs : pc[p] \in Locked => lock0 = p
    /\ \A p \in readers : pc[p] \in InRequest

\* A copy about to be published is the newest allocation, and in nobody's entry.
PublishesNewest ==
    \A p \in Procs : pc[p] = "c_publish" =>
        /\ ptr[p] = used /\ used > 0
        /\ \A s \in Scripts : hash[s] < used

\* The memory is only given back once no entry points into it.
RestoresEmpty ==
    \A p \in Procs : pc[p] = "r_restore" => \A s \in Scripts : hash[s] = 0

\* The status a restart will restore is "on", and it is on at the restart's end.
RestoresOn ==
    \/ DiedBefore(Unrecovered)
    \/ /\ \A p \in Procs :
             /\ pc[p] = "s_save" => accelerator_enabled /\ restart_pending
             /\ pc[p] \in NotYetOn \cup {"s_off", "s_force"} => cache_status_before_restart
             /\ pc[p] = "s_off" => restart_pending
             /\ pc[p] \in {"r_stamp", "r_leave", "r_unlock"} => accelerator_enabled
       /\ \/ restart_pending => cache_status_before_restart
          \/ \E p \in Procs : pc[p] = "s_save"

\* The inductive invariant behind the safety theorems.
RestartInvariant ==
    /\ LocksMatchControl
    /\ PublishesNewest /\ RestoresEmpty /\ NoOverlap
    /\ RestoresOn /\ NeverLeftDisabled

\* Requests keep arriving, a process whose next step is possible again and again
\* takes it (the kernel serves the waiters of F_SETLKW), every request includes its
\* main script, and every request ends.
Fairness ==
    \A p \in Procs :
        /\ SF_vars(Restarting(p) \/ Scheduling(p) \/ Compiling(p) \/ Invalidating(p))
        /\ SF_vars(\E s \in Scripts : CompileStart(p, s))
        /\ SF_vars(RequestEnd(p) /\ pc[p] = "run")

FairSpec == Spec /\ Fairness

\* A scheduled restart is carried out, up to the wipe: requests that start later do not
\* use the cache, so the users it waits for die out. Lost are only the restart whose
\* process dies between clearing restart_pending and the wipe, and the one whose process
\* dies before it has switched the cache off for the others.
ScheduledRestartHappens ==
    restart_pending ~> \/ \E p \in Procs : pc[p] = "r_done"
                       \/ DiedBefore({"s_off"} \cup (Unrecovered \ {"r_done"}))

\* The cache comes back into use after every restart: it is on, and the flag that keeps
\* requests out is down, unless a process dies at a step of Unrecovered. The flag of a
\* process that died later in its restart is taken back by accel_restart_is_active().
CacheComesBack ==
    (~accelerator_enabled \/ restart_in_progress)
        ~> (accelerator_enabled /\ ~restart_in_progress) \/ DiedBefore(Unrecovered)
=============================================================================
