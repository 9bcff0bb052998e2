----------------------------- MODULE ZendFiber ------------------------------
(***************************************************************************)
(* Fibers (Zend/zend_fibers.c) and the part of the object store that       *)
(* destroys them (Zend/zend_objects_API.c, php_request_shutdown).          *)
(*                                                                         *)
(* One request: the main program and up to NFibers fibers, each a context  *)
(* with a C stack and a VM stack of its own.  Exactly one context runs;    *)
(* user code of the running context may do anything PHP code can: create,  *)
(* start, resume and throw into a fiber, suspend, return, throw, drop its  *)
(* last reference to a fiber, run a tick or signal handler with switching  *)
(* blocked, or die of a fatal error (zend_bailout, a longjmp).             *)
(*                                                                         *)
(* A switch is two steps: the leaving half up to the jump, and the half    *)
(* that runs in the context jumped to.  A switched-out context is inside   *)
(* exactly one call of zend_fiber_switch_context; frame[c] says which of   *)
(* its callers made it and what that caller keeps in its C locals.         *)
(*                                                                         *)
(* The values passed are left out: a transfer carries only its flags.      *)
(***************************************************************************)
EXTENDS Integers, Sequences, FiniteSets

CONSTANTS NFibers,    \* handles a fiber object can have
          MaxBlocks   \* bound: nested calls of zend_fiber_switch_block

ASSUME ConstantsAssumption == NFibers \in Nat /\ MaxBlocks \in Nat

Fibers   == 1 .. NFibers
Main     == 0                      \* EG(main_fiber_context)
NULL     == -1
Contexts == {Main} \cup Fibers

VARIABLES
  objects,          \* handles of the fiber objects in EG(objects_store)
  top,              \* EG(objects_store).top
  held,             \* fibers some PHP variable refers to
  pinned,           \* fibers whose reference count a longjmp left too high
  dtor_called,      \* IS_OBJ_DESTRUCTOR_CALLED
  status,           \* context.status
  destroyed,        \* fibers with ZEND_FIBER_FLAG_DESTROYED
  caller,           \* zend_fiber.caller
  previous,         \* zend_fiber.previous
  prev_frame,       \* whose frames stack_bottom->prev_execute_data points at
  stacks,           \* contexts that have a C stack
  current,          \* EG(current_fiber_context)
  vm,               \* the executor globals a switch captures and restores
  frame,            \* the pending call of zend_fiber_switch_context
  transfer,         \* the transfer in flight: its destroyed, and who sent it
  pc,               \* what the running context does next
  switch_blocking,  \* zend_fiber_switch_blocking
  blocks,           \* contexts of the handlers that will unblock, innermost last
  phase,            \* script, shutdown_destructors, or over
  dtor_idx,         \* i of zend_objects_store_call_destructors
  fatal,            \* history: a fatal error happened in this request
  late,             \* history: fibers started after their destructor had run
  orphans           \* history of the process: why C stacks outlived their fibers

objvars  == <<objects, top, pinned, dtor_called>>
ctxvars  == <<status, caller, previous, prev_frame, stacks, current, vm, frame, transfer>>
blkvars  == <<switch_blocking, blocks>>
ghosts   == <<late, orphans>>
vars == <<objvars, held, destroyed, ctxvars, pc, blkvars, phase, dtor_idx, fatal, ghosts>>

NoFrame == [by |-> "none", fiber |-> NULL, previous |-> NULL,
            vm |-> [active_fiber |-> NULL, stack |-> Main, bailout |-> Main]]
NoTransfer == [from |-> NULL, flag |-> "none"]
User   == [at |-> "user", fiber |-> NULL]
Arrive == [at |-> "arrive", fiber |-> NULL]
Del(f) == [at |-> "del", fiber |-> f]

\* zend_fiber_init: a request starts in the main context.
RequestInit ==
  /\ objects = {} /\ top = 1 /\ held = {} /\ pinned = {} /\ dtor_called = {}
  /\ status = [c \in Contexts |-> IF c = Main THEN "RUNNING" ELSE "INIT"]
  /\ destroyed = {}
  /\ caller = [f \in Fibers |-> NULL]
  /\ previous = [f \in Fibers |-> NULL]
  /\ prev_frame = [f \in Fibers |-> NULL]
  /\ stacks = {Main}
  /\ current = Main
  /\ vm = NoFrame.vm
  /\ frame = [c \in Contexts |-> NoFrame]
  /\ transfer = NoTransfer
  /\ pc = User
  /\ switch_blocking = 0 /\ blocks = <<>>
  /\ phase = "script" /\ dtor_idx = 1
  /\ fatal = FALSE /\ late = {}

Init == RequestInit /\ orphans = {}

\* References to a fiber object: variables, $this of the method or the count
\* its destroyer took, and what a longjmp never gave back.
Referenced(f, h, p, fr) ==
  f \in h \cup p \/ \E c \in Contexts : fr[c].by \in {"method", "del", "loop"} /\ fr[c].fiber = f

InUserCode == pc = User /\ phase # "over"
------------------------------------------------------------------------------
(* Switching.                                                              *)

\* zend_fiber_switch_context up to the jump; a finished context is DEAD.
SwitchContext(to, left_as, flag) ==
  /\ status' = [status EXCEPT ![to] = "RUNNING", ![current] = left_as]
  /\ transfer' = [from |-> current, flag |-> flag]
  /\ current' = to
  /\ pc' = Arrive

\* zend_fiber_resume_internal up to the jump, called by a method, by the
\* destructor of an unreferenced fiber, or by the loop over all destructors.
ResumeInternal(f, to, by, flag) ==
  /\ caller' = [caller EXCEPT ![f] = current]
  /\ vm' = [vm EXCEPT !.active_fiber = f]
  /\ frame' = [frame EXCEPT ![current] =
                 [by |-> by, fiber |-> f, previous |-> vm.active_fiber, vm |-> vm']]
  /\ SwitchContext(to, "SUSPENDED", flag)

\* Mutant: nobody frees the C stack of a finished fiber.
DestroyDeadSenderNever == UNCHANGED <<stacks, caller, prev_frame>>

\* zend_fiber_destroy_context with zend_fiber_cleanup, for a dead sender.
DestroyDeadSender ==
  LET dead == {c \in {transfer.from} : status[c] = "DEAD"}
  IN  /\ stacks' = stacks \ dead
      /\ caller' = [f \in Fibers |-> IF f \in dead THEN NULL ELSE caller[f]]
      /\ prev_frame' = [f \in Fibers |-> IF f \in dead THEN NULL ELSE prev_frame[f]]

\* The first arrival in a fiber: zend_fiber_trampoline and zend_fiber_execute
\* up to the call of the fiber's function, on a VM stack of its own.
EnterFunction ==
  /\ pc = Arrive /\ frame[current].by = "none"
  /\ prev_frame' = [prev_frame EXCEPT ![current] = vm.stack]
  /\ vm' = [vm EXCEPT !.stack = current, !.bailout = current]
  /\ transfer' = NoTransfer
  /\ pc' = User
  /\ UNCHANGED <<objvars, held, destroyed, status, caller, previous, stacks, current, frame,
                 blkvars, phase, dtor_idx, fatal, ghosts>>

\* Mutant: EG(active_fiber) stays with the fiber that was resumed.
RestoredVmOnly(fr) == fr.vm

\* The VM state a returning zend_fiber_switch_context leaves to its caller.
RestoredVm(fr) ==
  IF fr.by = "suspend" THEN fr.vm ELSE [fr.vm EXCEPT !.active_fiber = fr.previous]

\* zend_fiber_switch_context returns, a normal transfer.  A method then
\* releases $this; a destructor goes on to free; user code gets the result.
ReturnFromSwitch ==
  LET fr == frame[current] IN
  /\ pc = Arrive /\ fr.by # "none" /\ transfer.flag # "bailout"
  /\ DestroyDeadSender
  /\ vm' = RestoredVm(fr)
  /\ frame' = [frame EXCEPT ![current] = NoFrame]
  /\ pc' = IF fr.by \in {"method", "del"} /\ ~Referenced(fr.fiber, held, pinned, frame')
             THEN Del(fr.fiber) ELSE User
  /\ transfer' = NoTransfer
  /\ UNCHANGED <<objvars, held, destroyed, status, previous, current,
                 blkvars, phase, dtor_idx, fatal, ghosts>>
------------------------------------------------------------------------------
(* The methods of Fiber, called by the running context.  Their error       *)
(* returns (switching blocked, wrong status) throw and change nothing.     *)

\* Mutant: handles are reused during the final destructors too.
HandleAvailableAlways(f) == f \notin objects

\* zend_objects_store_put: freed handles are reused, but not during the final
\* destructors.
HandleAvailable(f) == f \notin objects /\ (phase = "script" \/ f >= top)

\* new Fiber: zend_fiber_object_create and the constructor
Construct(f) ==
  /\ InUserCode
  /\ HandleAvailable(f)
  /\ objects' = objects \cup {f}
  /\ top' = IF f >= top THEN f + 1 ELSE top
  /\ held' = held \cup {f}
  /\ UNCHANGED <<pinned, dtor_called, destroyed, ctxvars, pc,
                 blkvars, phase, dtor_idx, fatal, ghosts>>

Start(f) ==
  /\ InUserCode /\ f \in held
  /\ switch_blocking = 0
  /\ status[f] = "INIT"
  /\ stacks' = stacks \cup {f}
  /\ previous' = [previous EXCEPT ![f] = f]
  /\ ResumeInternal(f, f, "method", "none")
  /\ late' = IF f \in dtor_called THEN late \cup {f} ELSE late
  /\ UNCHANGED <<objvars, held, destroyed, prev_frame,
                 blkvars, phase, dtor_idx, fatal, orphans>>

Resumable(f) == status[f] = "SUSPENDED" /\ caller[f] = NULL

\* Fiber::resume and Fiber::throw
Resume(f, flag) ==
  /\ InUserCode /\ f \in held
  /\ switch_blocking = 0
  /\ Resumable(f)
  /\ prev_frame' = [prev_frame EXCEPT ![f] = vm.stack]
  /\ ResumeInternal(f, previous[f], "method", flag)
  /\ UNCHANGED <<objvars, held, destroyed, previous, stacks,
                 blkvars, phase, dtor_idx, fatal, ghosts>>

\* Mutant: a tick function or signal handler can suspend its fiber.
CanSuspendBlocked(f) == f # NULL /\ f \notin destroyed

CanSuspend(f) == f # NULL /\ f \notin destroyed /\ switch_blocking = 0

\* Mutant: a suspended fiber keeps pointing at the frames of its last caller.
UnlinkNever(f) == prev_frame

Unlink(f) == [prev_frame EXCEPT ![f] = NULL]

\* Mutant: a fiber that leaves always hands over to the main program.
ResumerOfMain(f) == Main

\* Whom a fiber hands over to when it suspends or ends.
Resumer(f) == caller[f]

\* Fiber::suspend, zend_fiber_suspend_internal
Suspend ==
  LET f == vm.active_fiber IN
  /\ InUserCode
  /\ CanSuspend(f)
  /\ prev_frame' = Unlink(f)
  /\ previous' = [previous EXCEPT ![f] = current]
  /\ caller' = [caller EXCEPT ![f] = NULL]
  /\ frame' = [frame EXCEPT ![current] =
                 [by |-> "suspend", fiber |-> f, previous |-> NULL, vm |-> vm]]
  /\ SwitchContext(Resumer(f), "SUSPENDED", "none")
  /\ UNCHANGED <<objvars, held, destroyed, stacks, vm,
                 blkvars, phase, dtor_idx, fatal, ghosts>>

GetCurrent ==
  /\ InUserCode
  /\ vm.active_fiber # NULL
  /\ held' = held \cup {vm.active_fiber}
  /\ UNCHANGED <<objvars, destroyed, ctxvars, pc, blkvars, phase, dtor_idx, fatal, ghosts>>

\* The fiber's function is over: the rest of zend_fiber_execute, and the last
\* switch of zend_fiber_trampoline.  The graceful exit thrown into a fiber
\* that is being destroyed counts as a return.
EndFunction(flag) ==
  /\ InUserCode
  /\ current # Main /\ \A i \in DOMAIN blocks : blocks[i] # current
  /\ SwitchContext(Resumer(current), "DEAD", flag)
  /\ UNCHANGED <<objvars, held, destroyed, caller, previous, prev_frame, stacks, vm, frame,
                 blkvars, phase, dtor_idx, fatal, ghosts>>
------------------------------------------------------------------------------
(* Destruction.                                                            *)

\* A variable lets go of a fiber; the last reference calls zend_objects_store_del.
Drop(f) ==
  /\ InUserCode /\ f \in held
  /\ held' = held \ {f}
  /\ pc' = IF Referenced(f, held', pinned, frame) THEN User ELSE Del(f)
  /\ UNCHANGED <<objvars, destroyed, ctxvars, blkvars, phase, dtor_idx, fatal, ghosts>>

\* zend_fiber_object_destroy of a suspended fiber: a graceful exit is thrown
\* into it, whether or not switching is blocked.
ForceClose(f, by) ==
  /\ destroyed' = destroyed \cup {f}
  /\ ResumeInternal(f, previous[f], by, "error")
  /\ UNCHANGED <<previous, prev_frame, stacks>>

\* zend_objects_store_del, the destructor
DelDestroy(f) ==
  /\ pc = Del(f) /\ f \notin dtor_called
  /\ dtor_called' = dtor_called \cup {f}
  /\ \/ status[f] = "SUSPENDED" /\ ForceClose(f, "del")
     \/ status[f] # "SUSPENDED" /\ UNCHANGED <<destroyed, ctxvars, pc>>
  /\ UNCHANGED <<objects, top, pinned, held, blkvars, phase, dtor_idx, fatal, ghosts>>

\* Why a fiber is freed with a C stack: its destructor was skipped after a
\* fatal error or came before its start, or, which should not be, it ran.
Cause(f) == IF fatal \/ f \in late THEN "abandoned" ELSE "lost"

\* zend_fiber_object_free unmaps nothing: the C stack of a fiber that is freed
\* while suspended stays mapped, and belongs to no fiber any more.
Orphaned(freed) == orphans \cup {Cause(f) : f \in freed \cap stacks}

\* zend_objects_store_del, the freeing: a new fiber can get the handle.
DelFree(f) ==
  /\ pc = Del(f) /\ f \in dtor_called
  /\ objects' = objects \ {f}
  /\ dtor_called' = dtor_called \ {f}
  /\ status' = [status EXCEPT ![f] = "INIT"]
  /\ destroyed' = destroyed \ {f}
  /\ caller' = [caller EXCEPT ![f] = NULL]
  /\ previous' = [previous EXCEPT ![f] = NULL]
  /\ prev_frame' = [prev_frame EXCEPT ![f] = NULL]
  /\ stacks' = stacks \ {f} /\ orphans' = Orphaned({f})
  /\ frame' = [frame EXCEPT ![f] = NoFrame]
  /\ late' = late \ {f}
  /\ pc' = User
  /\ UNCHANGED <<top, pinned, held, current, vm, transfer, blkvars, phase, dtor_idx, fatal>>
------------------------------------------------------------------------------
(* Tick functions and pcntl signal handlers run with switching blocked.    *)

SwitchBlock ==
  /\ InUserCode
  /\ Len(blocks) < MaxBlocks /\ switch_blocking < MaxBlocks
  /\ switch_blocking' = switch_blocking + 1
  /\ blocks' = Append(blocks, current)
  /\ UNCHANGED <<objvars, held, destroyed, ctxvars, pc, phase, dtor_idx, fatal, ghosts>>

SwitchUnblock ==
  /\ InUserCode
  /\ blocks # <<>> /\ blocks[Len(blocks)] = current
  /\ switch_blocking' = switch_blocking - 1
  /\ blocks' = SubSeq(blocks, 1, Len(blocks) - 1)
  /\ UNCHANGED <<objvars, held, destroyed, ctxvars, pc, phase, dtor_idx, fatal, ghosts>>
------------------------------------------------------------------------------
(* Fatal errors.                                                           *)

\* zend_bailout: a longjmp to EG(bailout).  In a fiber that is the catch of
\* zend_fiber_execute, which passes it on; in the main context the catch
\* around the script or the one of shutdown_destructors.  The handlers of this
\* context that were going to unblock switching, the innermost ones, are skipped.
Bailout ==
  /\ \E n \in 0 .. Len(blocks) :
       /\ n > 0 => blocks[n] # current
       /\ \A i \in n + 1 .. Len(blocks) : blocks[i] = current
       /\ blocks' = SubSeq(blocks, 1, n)
  /\ \/ /\ current = Main
        /\ phase' = IF phase = "destructors" THEN "over" ELSE phase
        /\ transfer' = NoTransfer
        /\ pc' = User
        /\ UNCHANGED <<status, current>>
     \/ /\ current # Main
        /\ SwitchContext(Resumer(current), "DEAD", "bailout")
        /\ UNCHANGED phase

\* php_error_cb marks every object as destructed before it bails out.
FatalError ==
  /\ InUserCode
  /\ dtor_called' = objects
  /\ fatal' = TRUE
  /\ Bailout
  /\ UNCHANGED <<objects, top, pinned, held, destroyed, caller, previous, prev_frame, stacks,
                 vm, frame, switch_blocking, dtor_idx, ghosts>>

\* zend_fiber_switch_to: a bailout arrives and is forwarded.
ForwardBailout ==
  LET fr == frame[current] IN
  /\ pc = Arrive /\ fr.by # "none" /\ transfer.flag = "bailout"
  /\ DestroyDeadSender
  /\ vm' = [fr.vm EXCEPT !.active_fiber = NULL]
  /\ frame' = [frame EXCEPT ![current] = NoFrame]
  /\ pinned' = pinned \cup {fr.fiber}
  /\ dtor_called' = IF current = Main /\ phase = "destructors" THEN objects ELSE dtor_called
  /\ Bailout
  /\ UNCHANGED <<objects, top, held, destroyed, previous, switch_blocking,
                 dtor_idx, fatal, ghosts>>
------------------------------------------------------------------------------
(* The end of the request.                                                 *)

\* The script and the shutdown functions are over.
EndScript ==
  /\ InUserCode /\ current = Main /\ blocks = <<>>
  /\ phase = "script"
  /\ phase' = "destructors" /\ dtor_idx' = 1
  /\ UNCHANGED <<objvars, held, destroyed, ctxvars, pc, blkvars, fatal, ghosts>>

MoreObjects == dtor_idx < top

\* One turn of zend_objects_store_call_destructors.  Between two turns user
\* code in the main context is a destructor of some other object.
CallDestructor ==
  LET f == dtor_idx IN
  /\ InUserCode /\ current = Main /\ blocks = <<>>
  /\ phase = "destructors" /\ MoreObjects
  /\ dtor_idx' = dtor_idx + 1
  /\ \/ /\ f \in objects \ dtor_called /\ status[f] = "SUSPENDED"
        /\ dtor_called' = dtor_called \cup {f}
        /\ ForceClose(f, "loop")
     \/ /\ f \in objects \ dtor_called /\ status[f] # "SUSPENDED"
        /\ dtor_called' = dtor_called \cup {f}
        /\ UNCHANGED <<destroyed, ctxvars, pc>>
     \/ /\ f \notin objects \ dtor_called
        /\ UNCHANGED <<dtor_called, destroyed, ctxvars, pc>>
  /\ UNCHANGED <<objects, top, pinned, held, blkvars, phase, fatal, ghosts>>

DestructorsDone ==
  /\ InUserCode /\ current = Main /\ blocks = <<>>
  /\ phase = "destructors" /\ ~MoreObjects
  /\ phase' = "over"
  /\ UNCHANGED <<objvars, held, destroyed, ctxvars, pc, blkvars, dtor_idx, fatal, ghosts>>

\* Objects are freed, zend_fiber_shutdown, and zend_fiber_init for the next request.
NextRequest ==
  /\ phase = "over"
  /\ objects' = {} /\ top' = 1 /\ held' = {} /\ pinned' = {} /\ dtor_called' = {}
  /\ status' = [c \in Contexts |-> IF c = Main THEN "RUNNING" ELSE "INIT"]
  /\ destroyed' = {}
  /\ caller' = [f \in Fibers |-> NULL]
  /\ previous' = [f \in Fibers |-> NULL]
  /\ prev_frame' = [f \in Fibers |-> NULL]
  /\ stacks' = {Main} /\ orphans' = Orphaned(Fibers)
  /\ current' = Main
  /\ vm' = NoFrame.vm
  /\ frame' = [c \in Contexts |-> NoFrame]
  /\ transfer' = NoTransfer
  /\ pc' = User
  /\ switch_blocking' = 0 /\ blocks' = <<>>
  /\ phase' = "script" /\ dtor_idx' = 1
  /\ fatal' = FALSE /\ late' = {}
------------------------------------------------------------------------------
Next ==
  \/ EnterFunction \/ ReturnFromSwitch \/ ForwardBailout
  \/ Suspend \/ GetCurrent \/ SwitchBlock \/ SwitchUnblock \/ FatalError
  \/ \E flag \in {"none", "error"} : EndFunction(flag)
  \/ \E f \in Fibers : Construct(f) \/ Start(f) \/ Drop(f) \/ DelDestroy(f) \/ DelFree(f)
  \/ \E f \in Fibers, flag \in {"none", "error"} : Resume(f, flag)
  \/ EndScript \/ CallDestructor \/ DestructorsDone \/ NextRequest

Spec == Init /\ [][Next]_vars
------------------------------------------------------------------------------
Statuses   == {"INIT", "RUNNING", "SUSPENDED", "DEAD"}
MaybeFiber == Fibers \cup {NULL}
MaybeContext == Contexts \cup {NULL}
VmStates   == [active_fiber : MaybeFiber, stack : Contexts, bailout : Contexts]

(* Every variable has its type.                                            *)
TypeOK ==
  /\ objects \subseteq Fibers /\ top \in 1 .. NFibers + 1
  /\ held \subseteq Fibers /\ pinned \subseteq Fibers /\ dtor_called \subseteq Fibers
  /\ status \in [Contexts -> Statuses]
  /\ destroyed \subseteq Fibers
  /\ caller \in [Fibers -> MaybeContext]
  /\ previous \in [Fibers -> MaybeFiber]
  /\ prev_frame \in [Fibers -> MaybeContext]
  /\ stacks \subseteq Contexts
  /\ current \in Contexts
  /\ vm \in VmStates
  /\ frame \in [Contexts -> [by : {"none", "method", "del", "loop", "suspend"},
                            fiber : MaybeFiber, previous : MaybeFiber, vm : VmStates]]
  /\ transfer \in [from : MaybeContext, flag : {"none", "error", "bailout"}]
  /\ pc \in {User, Arrive} \cup {Del(f) : f \in Fibers}
  /\ switch_blocking \in 0 .. MaxBlocks
  /\ blocks \in Seq(Contexts)
  /\ phase \in {"script", "destructors", "over"}
  /\ dtor_idx \in 1 .. NFibers + 1
  /\ fatal \in BOOLEAN /\ late \subseteq Fibers
  /\ orphans \subseteq {"abandoned", "lost"}

(* The executor globals always belong to the context whose PHP code runs:  *)
(* its VM stack, its bailout buffer, its fiber object.  A longjmp to the   *)
(* buffer of another context would jump across C stacks.                   *)
VmStateIsOwn ==
  pc # Arrive =>
    /\ vm.stack = current
    /\ vm.bailout = current
    /\ vm.active_fiber = IF current = Main THEN NULL ELSE current

\* The chain of callers from the running context up.
Up[n \in 0 .. NFibers] ==
  IF n = 0 THEN current
  ELSE LET below == Up[n - 1] IN IF below \in Fibers THEN caller[below] ELSE NULL
CallStack ==
  LET up == [n \in 0 .. NFibers |-> Up[n]]
  IN  [n \in 1 .. Cardinality({k \in 0 .. NFibers : up[k] # NULL}) |-> up[n - 1]]

(* A fiber has a C stack exactly while it can run again or is the one just *)
(* being left for good: zend_fiber_switch_context frees it from the other  *)
(* side, once, and no switch leads into a freed stack.  A stack outlives   *)
(* its fiber, mapped for ever, only where the fiber is freed suspended:    *)
(* after a fatal error, or when it was first started after its destructor. *)
StacksMatchContexts ==
  /\ TypeOK
  /\ \A f \in Fibers :
       (f \in stacks) <=> \/ status[f] \in {"RUNNING", "SUSPENDED"}
                         \/ (status[f] = "DEAD" /\ transfer.from = f)
  /\ LET cs == CallStack
     IN  cs[Len(cs)] = Main /\ \A n \in DOMAIN cs : cs[n] \in stacks
  /\ "lost" \notin orphans

(* A backtrace walks from a fiber to the frames of the context that        *)
(* resumed it.  It never reaches frames that may be gone: a suspended      *)
(* fiber points nowhere, an active one at its present caller, and one      *)
(* entered only to be destroyed at nothing.                                *)
BacktraceFollowsCallers ==
  \A f \in Fibers :
    /\ prev_frame[f] \in {NULL, caller[f]}
    /\ caller[f] # NULL /\ pc # Arrive => (prev_frame[f] = NULL <=> f \in destroyed)

(* A handler that blocks switching keeps control: until it unblocks it     *)
(* stays on the call stack, and whatever runs above it was entered to be   *)
(* destroyed and hence comes back.  Without a fatal error every block is   *)
(* undone by the handler that made it.                                     *)
BlockedHandlerKeepsControl ==
  /\ \A i \in DOMAIN blocks :
       LET cs == CallStack
       IN  \E n \in DOMAIN cs :
             /\ cs[n] = blocks[i]
             /\ \A k \in 1 .. n - 1 : cs[k] \in destroyed
  /\ ~fatal => switch_blocking = Len(blocks)

(* No fiber is thrown away half-way: without a fatal error a fiber that is *)
(* still suspended after its destructor ran, or when the request is over,  *)
(* was first started after that (the destructor of a fiber that was not    *)
(* started does nothing, and it can still be started from a destructor).   *)
SuspendedFibersAreUnwound ==
  ~fatal =>
    \A f \in Fibers :
      status[f] = "SUSPENDED" /\ caller[f] = NULL /\ (f \in dtor_called \/ phase = "over")
        => f \in late

(* What fibers are for: ZendFiber implements Coroutines.  The call stack   *)
(* is read off the caller pointers, a fiber's state off its status.        *)
CoroutineState(f) ==
  CASE f \notin objects                                       -> "absent"
    [] f \in objects /\ status[f] = "INIT"                    -> "new"
    [] f \in objects /\ status[f] = "DEAD"                    -> "done"
    [] f \in objects /\ status[f] = "SUSPENDED" /\ caller[f] = NULL -> "suspended"
    [] OTHER                                                  -> "active"

Abstract == INSTANCE Coroutines WITH
              callstack <- CallStack,
              state     <- [f \in Fibers |-> CoroutineState(f)],
              closing   <- destroyed

ImplementsCoroutines == Abstract!CSpec
=============================================================================
