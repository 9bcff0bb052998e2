# Verification of php-src

TLA+ models of the parts of php-src in which several actors meet: signals that interrupt the
engine, processes that share OPcache's memory, the master and children of PHP-FPM, requests that
share a session, fibers that switch stacks, and a cycle collector that runs user code. Each
module is translated from the C source; `PROJECT.json` maps every definition to the lines it
stands for. TLC checks the models on small instances; TLAPS proves the safety of OPcache's
restart, FPM's pool and its emergency restart, the signal queue, fibers and session files for
every instance.

    cd tla
    tlc -workers 2 -config MCFpmPool_safety.cfg MCFpmPool      # one run
    tlapm OpcacheRestartProofs.tla                              # the proofs

## 1. Inventory

| Component | State it keeps | Operations | What is hard about it |
|---|---|---|---|
| Deferred signals (`Zend/zend_signal.c`) | `SIGG`: depth, blocked, running, active; pending and free list of queue nodes; handler table; kernel mask and dispositions | BLOCK, UNBLOCK, `zend_signal_handler_defer`, `zend_sigaction`, activate, deactivate | a signal between any two statements, nested handlers, a full pool |
| OPcache memory and restart (`ext/opcache`) | shared globals (`ZCSG`), script hash, allocator, three `fcntl` lock bytes; per process `ZCG` | request startup and end, include, cache, invalidate, reset, restart | many processes without a common lock, crashes, a wall clock as a version number |
| FPM process manager (`sapi/fpm/fpm`) | list of children, scoreboard slots, `fpm_state`, timers, signal socketpair | fork, bury, maintenance, stop, reload, accept | signals, zombies, races with children, failing forks |
| FPM emergency restart (`fpm_children.c`) | ring of fault times | bury of a faulted child | clock origin, ring boundaries |
| FPM scoreboard locks (`fpm_scoreboard.c`) | writer lock and reader count of the pool, lock of each slot | update begin and commit, acquire and release, copy | locks that give up, slots that are reused |
| Fibers (`Zend/zend_fibers.c`) | status, caller and flags of each fiber, its C stack; `EG(active_fiber)`, VM stack and bailout of the running one | start, resume, suspend, throw, destroy, end of the script | control changes stacks; fatal errors; destruction of a suspended fiber; handlers that may not switch |
| Cycle collector (`Zend/zend_gc.c`) | reference counts, colours, root buffer and its unused list | release, possible root, mark, scan, collect, destructors, free | destructors change the graph under the collector, start and end its roots |
| TSRM (`TSRM/TSRM.c`) | table of resource types, per-thread tables | allocate id, fetch, free | threads that start while ids are allocated |
| Output layer (`main/output.c`) | stack of handlers and their flags | start, write, flush, clean, end | handlers that re-enter the layer |
| Sessions (`ext/session`) | files and their locks; per process id, open file, what was read | start, save, abort, reset, destroy, regenerate, gc | concurrent requests on one id; files that vanish while open; crashes |
| Hash iterators, generators, weak references, lazy objects, memory manager (`Zend/`) | per structure | per structure | re-entrancy through user code |
| Scanner, compiler, VM, optimizer, JIT, extensions, other SAPIs, streams | | | size of the input space; not protocols |

How they interact. Every server API drives the same request cycle: request startup calls
`zend_signal_activate` and OPcache's RINIT, execution includes files through OPcache, request
end calls OPcache's post-deactivation and `zend_signal_deactivate`. The processes that share
OPcache's segment are in practice children of FPM: the master creates the segment before it
forks, and a child that FPM kills (idle, timed out, stopping) is a process that dies at any
step of the OPcache protocol, which is what `Crash` in `OpcacheRestart` stands for. FPM's
children use `ZendSignal` between requests: `fpm_signals_init_child` calls `zend_signal_init`.
They are also the processes that meet in `SessionFiles`. Within one process, deferred signals and
tick functions run PHP code in whichever fiber is current, which is why `ZendFiber` has handlers
that block switching; a suspended fiber is an object, so the last release of `ZendGC` and the
final destructor loop are what destroys it.

What makes each component correct:

* deferred signals: no handler inside a critical section, no signal lost while there is room,
  the lists stay lists, nothing leaks from a request into the next;
* OPcache: exclusive sections exclude, a restart does not pull memory from under a reader,
  cached scripts do not overlap, no process trusts pointers of a wiped segment, the cache
  comes back;
* FPM: limits hold, each process is known and waited for, each child has its slot, every stop
  and reload completes, waiting connections are served;
* fibers: control goes back to who resumed, each context sees its own VM state, a C stack is
  freed once and only after it was left, suspended fibers are unwound before the process ends;
* cycle collector: nothing reachable is freed, counts and buffer stay exact whatever destructors
  do, no garbage is forgotten, a run leaves none behind;
* sessions: what is skipped as unchanged is unchanged, files are whole, nobody waits for ever.

The hazards, each at its line, are in `PROJECT.json`.

## 2. Modules

| Module | Models | How it is verified |
|---|---|---|
| `ZendSignal`, `MCZendSignal` | the signal queue, with an explicit control stack | checked and proved (`ZendSignalProofs`) |
| `OpcacheRestart`, `MCOpcacheRestart` | OPcache's locks, restart, cache | checked and proved (`OpcacheRestartProofs`) |
| `FpmPool`, `MCFpmPool` | master and children of one FPM pool | checked and proved (`FpmPoolProofs`) |
| `FpmEmergency`, `MCFpmEmergency` | the decision to restart in an emergency | checked and proved (`FpmEmergencyProofs`) |
| `Coroutines` | what fibers promise: a chain of callers, one of whom runs | abstract |
| `ZendFiber`, `MCZendFiber` | fibers, their stacks, and the end of a script | checked and proved, with the refinement of `Coroutines` (`ZendFiberProofs`) |
| `ZendGC`, `MCZendGC` | reference counting and the cycle collector | checked and proved (`ZendGCProofs`, `ZendGCGarbageProofs`) |
| `SessionFiles`, `MCSessionFiles` | sessions of several processes in files | checked and proved (`SessionFilesProofs`) |

A module `XProofs` extends `X`, states the inductive invariant of `X` and proves the theorems;
it also has the few facts about naturals and finite sets that it needs.
Definitions keep the name of the C function or field when they stand for one. Operators whose
comment begins with "Mutant" are plausible bugs; no behaviour uses them, they show that a
property can fail.

### ZendSignal

The bottom frame of `stack` is PHP code; a frame above it is a call of
`zend_signal_handler_defer`, made by the kernel (`Deliver`) or by UNBLOCK. A step is a
statement, so `Deliver` can strike between the decrement of `depth` and the comparison with
`blocked`, in the drain loop, or in the middle of `zend_signal_deactivate`. `next` and `qsig`
are the memory of the queue nodes: the lists are linked lists, not sequences, because a stale
`ptail` is one of the hazards. The compiler may read the operands of UNBLOCK's comparison in
either order (they are volatile on some builds only), hence `UnblockEarlyRead`.

Bounds: two signals, two nodes (the pool of 64 is full with two signals queued), nesting 2,
three signals raised. Two nodes and two signals give empty, partial, full and
overflowing pools, and nesting 2 tells inner from outer sections.

Fairness (`FairSpec`): the running code takes its next step. The property allows the process
to be killed.

### OpcacheRestart

Per process: `pc` says where in RINIT, `persistent_compile_file`, `zend_accel_invalidate` or
`opcache_reset` it is, with a step for each access to shared state that another process can
come between. The locks are the three bytes: 0 exclusive (`lock0`), 1 shared (`readers`), 2
the restart marker (`lock2`). A script takes one unit of memory; an address is a position, so
that after a restart it is used again; `epoch` tells whether a pointer is from before.
Functions that write several shared fields take a step per store, because a process may die, and
others read, between two: `zend_accel_schedule_restart` (`restart_pending`, the saved status, the
switch, the forced restart; `back` says where its caller goes on), `zend_accel_discard_script` (the
mark, then the count) and the restart itself. `accel_restart_is_active` is three steps, the read of
the flag, `F_GETLK` and the store that takes the flag back, so that the store may hit the flag of
another, live restart. `corrupted` marks positions: a mark stays in memory over a restart and goes
when the position is allocated again (`memset` in `cache_script_in_shared_memory`); a process that
looked a script up before a restart may mark a position that holds no script, or another one, which
`stray` counts. `died`, the steps of an unfinished update at which a process died, is a history
variable the code does not have either. `Regexes` says whether executing a script leaves an interned
string as a key in the process's PCRE cache, which is the pointer that has to be dropped after a
restart.

Bounds: two processes; in `opcache_safety` two scripts with memory for both, two invalidations,
changes or resets and no crash; in `opcache_crash` one of each and one crash. One process in a
restart and one in a request is what all the races here need. The clock has one or two values,
so that it may stand still between two restarts. In `opcache_safety` forced restarts kill processes
although `MaxCrash` is 0.

Fairness: a process whose next step is possible again and again takes it (the kernel serves
those who wait in `F_SETLKW`), and every request ends (`max_execution_time`, or the server
kills it). Under it a restart happens although new requests keep coming.

### FpmPool

The master is an event loop that runs one handler at a time (`master = "loop"`), and the loops
in `fpm_children_bury` and `fpm_children_make` take a step per iteration, because children die
and signals arrive between two. A child goes through `starting` (signals blocked), `ready`,
`accepting`, `polling` (connected, scoreboard still idle), `serving` and `zombie`. The
characters in the signal socketpair are `sp`; `sigchld` stands for any number of `C`s.
`fpm_got_signal` reads one character per step; reading several in a row is the case in which
nothing happens in between. Timers may go off at any moment once they are armed. `pm` and
`process.max` are chosen when the master starts, and again when it re-executes itself, which is
when it reads its configuration: a reload may change the style of the pool. `track_finished` is
`request_terminate_timeout_track_finished`: whether a request that is over but still runs code can
time out. `accept()` may fail on the socket that a child told to quit has closed, or for any other
reason, within the budget of faults.

Bounds. `fpm_safety`: three children, because with two slots the hint `free_proc` can never be
wrong; `process.max` 0 or 2, below `pm.max_children`; two connections, one failed
fork, and one fault (a crash, or a child that fails to start or to accept); time-outs, idle kills and
`pm.max_requests` end any number of children beside it. The limit `pm.max_children` does not hold for want of process ids: `SlotsMatch` says that a
slot is free whenever the master tries to fork. Commands to the master are left to
`fpm_stop`, with two children, one connection, one fault and one command: the connection is what
lets a child serve, crash and start an emergency reload beside the command. Reloads happen in
`fpm_safety` by emergency. The limits are
budgets, and the events may happen at any time. TLC's symmetry is used for invariants only.

Fairness. `MasterFairness`: each iteration of `fpm_event_loop` polls the signal socket and fires
the timers that are due, so a handler that is due over and over runs (strong fairness), and a
handler's own loop goes on (weak). `KernelFairness`: a signal that can be delivered is.
`LiveSpec` assumes no more: children may hang, which is what the escalation to `SIGKILL` is for.
`ServeSpec` adds that scripts end, and that `accept()` with a connection waiting is not always
preceded by idle server maintenance (which runs once a second), as strong fairness.

### FpmEmergency

`FpmPool` leaves open whether a fault reaches the threshold. Here it is decided: `last_faults`
is the ring, `history` (not in the code) what it should reflect. Bounds: threshold 3, interval
2, six faults: the ring wraps twice. The clock starts at 0, the machine's boot, where the ring's
zeroes look like faults: `ReloadJustified` speaks of the time after the first interval.

### Coroutines and ZendFiber

`Coroutines` is the promise: fibers are created, entered by the one that runs, suspend or finish
in favour of the one that entered them, and are discarded when suspended or finished. Its state is
the chain of callers (`callstack`), what each fiber can still do (`state`), and the fibers that may
not suspend any more (`closing`). `ZendFiber` has
what implements it: `status`, `caller` and `previous` of each fiber, the C stacks, `EG(active_fiber)`,
VM stack and bailout (`vm`), the frame each context waits in, and the transfer a switch carries.
`ImplementsCoroutines` says that every behaviour of `ZendFiber` is one of `Coroutines`, the chain
being read off the `caller` fields (`CallStack`) and `state` off `status`: a switch in the code takes two steps,
leaving and arriving, of which the second is a stutter.

User code in the current context may create, start, resume, throw into, suspend or drop fibers,
end, raise a fatal error, or be interrupted by a handler (tick function, signal) that runs with
`zend_fiber_switch_block`. After the script the loop of `zend_objects_store_call_destructors`
goes through the handles; user code in the main context is then a destructor of some other object.
Values passed, exceptions other than their direction, `getReturn` and the status predicates are
left out.

Bounds: three fibers (two nested and one beside them), handlers not nested. `TypeOK` is part of
`StacksMatchContexts`. `SuspendedFibersAreUnwound` excepts two cases the code does not handle: a
fatal error marks every object destructed; and a fiber whose empty destructor the final loop has
passed, started by a later destructor and suspended, is not unwound either. Both are freed suspended,
and `zend_fiber_object_free` does not unmap their C stacks: these stay to the end of the process, over
its later requests, and belong to no fiber any more. `orphans` records that there are such stacks,
and why (`Cause`); `StacksMatchContexts` says that these two cases are the only ones. After a fatal
error inside a blocking handler
the block count stays up until the next request: `BlockedHandlerKeepsControl` says so.

### ZendGC

Objects (`Nodes`, those in `Dtor` with a destructor) refer to one another (`edge`) and are held by
variables (`held`). `rc`, `color` and `addr` are the fields of `gc_refcount` and `type_info`;
`buf`, `unused` and `num_roots` the root buffer. The C stack is `stack`: the main program, the
last release of an object and its steps, the collector (whose local variables are `gc`), and any
destructors they call, in which user code may again do everything: new references, releases,
`gc_collect_cycles()`. The passes go entry by entry, and graph traversals (`gc_mark_grey`,
`gc_scan`, ...) take one object off a work set per step in any order, which includes the order of
the code's stack. Whether the buffer is at its threshold is a free choice.

Bounds: three objects, two with destructors, at most two references and two variables. Two
destructors are what it takes for one to undo what the collector decided about the other;
with two references a cycle, a chain and a pair of self-references exist. Objects
with, and those without, a destructor are symmetric. `TypeOK` is part of `BufferMatchesObjects`.

### SessionFiles

A file is known by its session id, or, once unlinked while open, as an orphan. Steps are the
system calls between which others can act: `stat`, `open`, `flock` with the read, `pwrite`,
`ftruncate`, `close`, `unlink`; a call that only touches the file the process has locked is joined
with the next. `$_SESSION` is the length of its serialised form, chosen when it is saved. The
garbage collector may remove any file at any time, because the age it acts upon is looked up
before. System calls fail and processes die at every step, without a bound on how often.

Bounds: two processes and two ids (regeneration needs a second one), lengths 0 and 1 (so that a
write can be shorter, equal or longer), `lazy_write` on, strict mode on and off.

Fairness: a process in a function or in a session goes on (requests end), and `flock` is fair: a
lock that is free over and over is given to everyone who waits (strong fairness).

## 3. Runs

| Run | Shows |
|---|---|
| `signal_queue` | lists stay a partition of the pool, pending signals are announced by `blocked`, no handler in a critical section, teardown is not disturbed and requests start clean, a deferred signal leaves the queue |
| `opcache_safety` | exclusion, no overlap, freshness of synchronised in-process caches, never left off, exact waste accounting; users of the cache are killed by forced restarts |
| `opcache_crash` | with one process dying between any two stores: the inductive invariant of the proofs, a due restart gets to the wipe, the cache comes back into use |
| `fpm_safety` | in the three styles, with and without `process.max`: limits, slots, nobody forgotten, static pool full, spawn rate bounded |
| `fpm_stop` | a command and the emergency reload after a crash in any order, while children accept, serve, hang and die: stops and reloads complete, the dead are buried |
| `fpm_serve` | connections of a dynamic pool are accepted |
| `fpm_emergency` | an emergency reload starts exactly when the threshold is reached |
| `fiber` | three fibers, fatal errors, handlers that block switching, and the end of the script: fibers implement `Coroutines`, VM state and C stacks match the contexts and only a fiber that could not be unwound leaves a stack behind, backtraces lead to live frames, suspended fibers are unwound |
| `gc` | no dangling reference, exact counts, consistent buffer, garbage is always buffered, a run leaves no garbage unless there were destructors to call in its repetition too |
| `session` | `lazy_write` skips only what is in the file, shorter values leave no rest, waiting requests get their session |

Four properties of OPcache leave out what the code does not recover from, each by the steps at which
a process must have died (`DiedBefore`), so that they also say that no other death does harm.
`NeverLeftDisabled` and `CacheComesBack` except a death between `restart_pending = true` and the saved
status, and one between clearing `restart_pending` and re-enabling the cache (`Unrecovered`): the cache
then stays off. `ScheduledRestartHappens` asks for the wipe, not only for the flag to be cleared, and
excepts a death between those two, which loses the restart, and one before `accelerator_enabled` is
cleared, after which new requests keep using the cache and hold the restart off.
`SyncedCachesAreFresh` excepts a death between the wipe and the stamp.

Not stated: that a restart spares every process that holds byte 1. The comment at
`ZendAccelerator.c:3850` says that a restart "would not begin" then, but `accel_is_inactive` only looks
at byte 1, so a process that takes it after the look and finds `restart_in_progress` not yet raised is
not held off; nor that the flag of a live restart is never cleared, which is not true of
`accel_restart_is_active` (above). What such processes do to the shared memory is in the model:
`NoOverlap` and `WastedMatchesDiscarded` hold with them.

The following runs end in a counterexample: the code does something else than a comment or a
doc of the repository says. `PROJECT.json` quotes the line for each.

| Run | The statement | What happens |
|---|---|---|
| `signal_unblock_race` | UNBLOCK's handler works "as if it were called by the kernel" | a signal between comparison and mask empties the list it pops |
| `fpm_ondemand_stuck` | the idle child "will handle the connection" | it has been told to quit, and nobody else is forked |

Smaller differences met while modelling, which the models reproduce and no run states: an idle
child that needs `SIGKILL` is replaced although the comment at `fpm_children.c:271` says
otherwise; a script looked up before the usage lock is taken (`ZendAccelerator.c:2293`) may be
wiped by a restart in between; the stamp that synchronises in-process caches is compared at
request startup only (`:3017`), so a request that is under way keeps its old ones; a SIGTERM
whose character is unread in the socketpair when the master re-executes itself is lost
(`fpm_signals.c:180`); a static pool stays short after a failed fork;
`idle_spawn_rate` is doubled past a
`pm.max_spawn_rate` that is no power of two; and one fault shortly after the machine's boot can
start an emergency reload. What a request saves into a session file that has been unlinked
meanwhile, by the garbage collector or by `session_destroy`, goes into a file without a name and
is lost; a crash or an ignored error between `pwrite` and `ftruncate` leaves a mixture.

## 4. Proofs

Every theorem is about `Spec` of its module and rests on nothing but the module's `ASSUME`, so
it holds for any number of processes, fibers, signals, nodes, scripts or session ids, and for any
budget of events. The properties are not inductive as they stand; each module of proofs has a
stronger invariant, which TLC checked on the instances of section 3 before it was proved (the
number of states is given), and one lemma or step per action.

| Module | Assumptions | Theorems (and the property of a run that each states) |
|---|---|---|
| `OpcacheRestartProofs` | finite set of scripts, naturals for sizes and bounds | `TypeCorrect` (`TypeOK`), `RestartInvariantHolds` (`RestartInvariant`), `MutualExclusion` (`Exclusive`), `CachedScriptsDisjoint` (`NoOverlap`), `CacheNotLeftOff` (`NeverLeftDisabled`), `CacheInvariantHolds`, `WasteIsCountedOnce` (`WastedMatchesDiscarded`), `SyncedCachesStayFresh` (`SyncedCachesAreFresh`) |
| `FpmPoolProofs` | finite set of process ids, settings that `fpm_conf.c` accepts | `TypeCorrect`, `PoolInvariantHolds`, `PoolStaysBounded` (`PoolBounded`), `SlotsNeverLost` (`SlotsMatch`), `NobodyIsForgotten` (`NobodyForgotten`) |
| `FpmEmergencyProofs` | threshold and interval above 0 | `RingInvariantHolds`, `ReloadIsNotMissed` (`ReloadNotMissed`), `ReloadIsJustified` (`ReloadJustified`) |
| `ZendSignalProofs` | a finite pool that is not empty (64 nodes in the code) | `TypeCorrect`, `SignalInvariantHolds`, `DeferredSignalsAreAnnounced` (`PendingIsAnnounced`), `CriticalSectionsAreProtected` (`NoHandlerInCriticalSection`), `TeardownIsUndisturbed` (`TeardownIsPrivate`), `PoolInvariantHolds`, `NodesAreNeverLost` (`PoolIsPartitioned`) |
| `ZendFiberProofs` | natural bounds | `FiberInvariantHolds`, `GlobalsBelongToTheRunning` (`VmStateIsOwn`), `BacktracesAreSafe` (`BacktraceFollowsCallers`), `FibersAreUnwound` (`SuspendedFibersAreUnwound`), `StacksAreMapped` (`StacksMatchContexts`), `HandlersKeepControl` (`BlockedHandlerKeepsControl`), `FibersAreCoroutines` (`ImplementsCoroutines`) |
| `SessionFilesProofs` | finitely many processes, and for each a name its unlinked file can have | `SessionInvariantHolds`, `CacheIsFileHolds` (`CacheIsFile`), `ContentIsWholeHolds` (`ContentIsWhole`), `LockExcludesHolds` |
| `ZendGCProofs` | a finite memory, natural bounds | `CollectorInvariantHolds`, `NoDanglingHolds` (`NoDangling`), `CountsAreExactHolds` (`CountsAreExact`), `BufferMatchesObjectsHolds` (`BufferMatchesObjects`) |
| `ZendGCGarbageProofs` | the same | `GarbageInvariantHolds`, `GarbageIsBufferedHolds` (`GarbageIsBuffered`), `RunCollectsAllHolds` (`RunCollectsAll`) |

**OPcache.** `RestartInvariant` adds to `NoOverlap` and `NeverLeftDisabled` the following parts.
`LocksMatchControl`: who is in a locked section is the holder of byte 0, and holders of byte 1 are past
RINIT (a request that starts cannot hold it); exclusion follows. `PublishesNewest` (the copy about to be
published is the newest allocation and in no entry) and `RestoresEmpty` (memory is given back only once
the hash is empty), without which `NoOverlap` is not kept by publishing after a restart. `RestoresOn`:
the saved status is "on" from the moment it is saved until it is restored, where a schedule that has set
`restart_pending` and not yet saved the status still finds the cache on; without it a restart could
restore "off". Processes may die at every step, and `RestoresOn` gives way only to a death at a step of
`Unrecovered`.
`CacheInvariant` is inductive together with it. `PointersAreAllocated` says that a pointer of the
present epoch points to allocated memory, so that a discard through it is counted and one that is not
is a `stray` one. The account `WastedMatchesDiscarded` needs a cardinality argument: allocation takes
the mark off the one position it adds (`corrupted \ {used'}`), a discard adds one mark and its count.
`StampsTell` says that the stamp of the segment is never behind a process's copy, and that a copy that
is current belongs to a process with fresh caches, except between restoring the memory and writing the
new stamp, which only a process that holds byte 0 can be in, or dead. (TLC: 1,025,446 and 64,590
states.)

**FPM pool.** `PoolInvariant` adds to the limits `TargetBounded`, because `fpm_children_make`
compares with a maximum computed before the loop; `OwnSlots`, because a free slot exists for the
next child only if children do not share slots; `MarkedChildren` and `OndemandEvents`, because idle
server maintenance and the on-demand event may act in pools of their style only, and
`StaticPoolFull` with the count of failed forks, from which `PoolBounded` for static pools follows.
`SlotsNeverLost` needs a cardinality argument: fewer children than slots leave one slot free
(`TooFewHolders`). (TLC: 1,496,082 states, and 66,847 with commands.)

**FPM emergency restart.** `RingHoldsLast` says that going backwards from `fault` the ring holds the
last faults, newest first, with zeroes for those that have not happened; `HistoryIsSorted` that the
clock does not go back. Then the entry that the code compares with is the fault `threshold` ago,
and it is recent exactly when at least `threshold` faults are (`RingDecides`). (TLC: 11,439 states.)

**Deferred signals.** `StackShape`, `HandlerFrames` and `MainFrameState` tie the control stack to
`depth`, `running`, `active` and the lists: in a request at most one handler frame is past the
guard, `running` marks it, it runs outside critical sections, and a drain loop leaves nothing on the
pending list. `PoolInvariant` says that there are three chains, pending, free and detached, without
a node in common and with all the nodes between them, and that `ptail` is the last of the pending
ones whenever there is one (it is stale otherwise). Each operation on the lists is a lemma about
chains (`EnqueueKeepsPool`, `DetachKeepsPool`, `RecycleKeepsPool`, `PopKeepsPool`); the recursive
walk `ChainFrom` of the property is shown to find the chain (`ChainFromFollows`). (TLC: 126,603
states.)

**Fibers.** `Local` has what relates a context to its status, frame, caller and C stack: one
context runs and all others are in a pending switch, not started, or dead (`OneRuns`); a pending
switch keeps the globals of its own context (`FramesAreOwn`); a caller waits for the fiber it
resumed (`CallersWait`); what a transfer in flight says of its sender (`Arrival`); nobody refers to
a fiber that is being deleted (`DeletedIsUnreferenced`); how far the destructor loop is
(`Destructors`). `OrphansAreExplained` follows from the last two: a fiber that is freed with a C stack
is not on the call stack, hence suspended, and its destructor ran (`NotUnwound`). That resuming keeps the callers free of cycles is no local fact:
`FiberInvariant` adds that a sequence exists that is the call stack (`CallChain`), with the blocking
handlers on it, innermost first (`BlocksOn`). Every step enters a fiber, leaves one, frees one or
leaves the chain alone (`StepKinds`), and `ChainPush`, `ChainPop` and `ChainSame` say what becomes
of the chain. `CallStackIsChain` shows that `CallStack`, which follows the `caller` fields, is this
sequence. The refinement follows: `Start`, `Resume` and the destruction of a suspended fiber are
`Enter` of `Coroutines`, `Suspend` is `Suspend`, the end of a function or a fatal error in a fiber is
`Finish`, freeing an object is `Discard`, the constructor is `Create`, the next request is `Reset`, and
all other steps stutter. (TLC, with the chain given by `CallStack`: 1,524,722 states with three fibers;
without `orphans` 1,153,607 with two nested handlers.)

**Sessions.** `CacheIsFile` speaks of the moment of saving; it holds because whoever has read a
file under its lock is alone with it: `LockExcludes`, also for files that have been unlinked and
renamed to an orphan, `ControlMatchesFiles`, `SizeIsFile` and `VarsAreFile`. `OrphanLeft` is a
pigeonhole: while a process has the file of an id open, an orphan is free for it. (TLC: 224,386
states.)

**Cycle collector.** `NoDangling` and `CountsAreExact` speak of the moments between the passes, so
`CollectorInvariant` has to say what an interrupted pass has done. `Balance` is the account: a count
is the number of references that count, where the properties of the objects in `Taken` (grey ones in
`gc_mark_roots`, grey and white ones in `gc_scan_roots`, white ones in `gc_collect_roots`) do not,
because the pass has subtracted them and not yet given them back. `Marking`, `Scanned` and
`Collecting` say which colours lead where. That a pass reaches every object it has to is no local
fact: `Covers(R, P, C)` says that all of `C` is reached from `P` along `R` within `C`, as a statement
about all sets closed under `R`, which needs no induction, and each pass keeps one such statement; when
it ends `P` is empty and so is `C`. From the account and the colours, what is white when
`gc_scan_roots` ends is `Isolated`: nothing outside refers to it. `CondemnedIsLost` says that this
survives the destructors for what has none: `gc_remove_nested_data_from_buffer` takes everything a
destructor could come at out of what is condemned. `Addresses`, `UnusedListed`, `TagsOfPhase` and `RootsArePurple` are the
buffer, `FrameLife`, `References` and `Dying` the objects that the calls in progress hold or free;
without `Adjacent` (what may be called directly above what) the count that a deletion holds for its
destructor could not be told from another's. The steps are sorted by what they may touch: those of PHP
code and of deletions keep everything about a run (`Outer`), those of a run leave the heap alone
until it frees. `gc_compact` needs a counting argument: as many entries in use lie behind `num_roots`
as there are unused ones before it (`InjectionOnto`, `SameSize`).

`GarbageInvariant` is inductive together with it. `LostIsBuffered` states `GarbageIsBuffered` for every
set that nothing leads to, and for the passes too: such a set stays grey or white, then is
condemned or keeps an object with a destructor that is in the buffer. `SavedIsBuffered` is the moment after a destructor has
saved its object. `FreesNoOther` is what a run without destructors needs to end without garbage: all
that hangs from the condemned objects is condemned, or something else leads to it. Then
`RunCollectsAll`, an action property, follows at the step that ends the run. (TLC: 1,750,916 states.)

Induction over data is not available; where a walk along a linked list has to be followed to its
end, or a first free slot or orphan found, the proofs take a least counterexample (`LeastNatural`).
Recursive functions are shown to exist by exhibiting a function that solves their equation
(`WalkExists`, `UpExists`).

Only model-checked:

* liveness, which rests on fairness: `DeferredSignalIsHandled`, `CacheComesBack`,
  `ScheduledRestartHappens`, `DeadAreBuried`, `StopCompletes`, `ConnectionsServed`,
  `WaiterGetsSession`.

Every invariant and every action property of the passing runs has a theorem.

## 5. Not modelled

* ZendSignal: signals that reach an unmanaged thread under ZTS, the debug checks.
* OpcacheRestart: several keys of a script, inheritance cache, preloading, contents of the
  interned string buffer, statistics, Windows, the ZTS mutex.
* FpmPool: several pools, SIGUSR1, slow-log tracing, output pipes, FastCGI keep-alive,
  durations, a signal that finds the socketpair full, SIGTERM before the handlers are set up
  after a re-execution (its default action ends the master).
* ZendFiber: values and exceptions that are passed, `getReturn`, the order of objects' own
  destructors, what happens after the destructors, the mapping of C stacks by `mmap`.
* ZendGC: arrays and references, weak maps, the VM stack's temporaries, destructors that suspend
  (`gc_call_destructors_in_fiber`), `gc_protect`, growth of the buffer, compressed indices.
* SessionFiles: user save handlers, cookies and headers, upload progress, serialisers,
  `session_id()` and ini changes by user code, a `flock` that fails (the code goes on unlocked).
* The components with status `not_modelled` in `PROJECT.json`, each with its reason.

## 6. Plan

Done: `ZendSignal`, `OpcacheRestart`, `FpmPool`, `FpmEmergency`, `ZendFiber` with `Coroutines`,
`SessionFiles` and `ZendGC`, all with proofs of every safety property that a run checks.

Modules that would come next: `FpmScoreboard` (locks that give up, the reader of the status page),
`OutputLayer` (handlers that re-enter the stack of handlers), `TSRM` (ids and per-thread tables
while threads come and go), hash iterators, generators, weak references and lazy objects.

Compositions: `FpmPool` over an abstract request cycle in which a killed child is a crash of
`OpcacheRestart`; destructors of `ZendGC` that suspend a fiber of `ZendFiber`.

Theorems that are left: none about safety of these modules. The liveness properties rest on fairness, which is
out of the provers' reach.
