--------------------------- MODULE ZendFiberProofs ---------------------------
(***************************************************************************)
(* Theorems about fibers, for any number of fibers and of nested blocks.   *)
(***************************************************************************)
EXTENDS ZendFiber, FiniteSetTheorems, TLAPS

\* A non-empty set of naturals has a least element.
LEMMA LeastNatural ==
  ASSUME NEW S \in SUBSET Nat, S # {}
  PROVE  \E n \in S : \A m \in S : n <= m
<1>1. PICK n \in S : \A m \in S : ~(<<m, n>> \in OpToRel(<, Nat))
  BY NatLessThanWellFounded, WFMin, Zenon
<1>2. \A m \in S : ~(m < n)
  BY <1>1 DEF OpToRel
<1>3. QED
  BY <1>2

\* The callers of zend_fiber_switch_context that wait for a fiber to come back.
Resumers == {"method", "del", "loop"}

\* A fiber on the call stack: somebody resumed it, and it has not ended.
Live(f) == caller[f] # NULL /\ status[f] # "DEAD"

\* The fiber object of a context.
FiberOf(c) == IF c = Main THEN NULL ELSE c

\* One context runs; a context is suspended exactly while it is in a pending call of
\* zend_fiber_switch_context.
OneRuns ==
  /\ status[current] = "RUNNING"
  /\ \A c \in Contexts : c # current =>
       status[c] # "RUNNING" /\ (status[c] = "SUSPENDED" <=> frame[c].by # "none")
  /\ status[Main] \in {"RUNNING", "SUSPENDED"}
  /\ pc # Arrive => frame[current].by = "none"

\* A pending call keeps the executor globals of its own context, and a caller that
\* waits is itself on the call stack and waits for a fiber that names it as caller.
FramesAreOwn ==
  \A c \in Contexts :
    /\ frame[c].by # "none" => frame[c].vm.stack = c /\ frame[c].vm.bailout = c
    /\ frame[c].by = "suspend" =>
         /\ c \in Fibers /\ frame[c].vm.active_fiber = c
         /\ c # current => caller[c] = NULL
    /\ frame[c].by \in Resumers =>
         /\ frame[c].fiber \in Fibers /\ frame[c].previous = FiberOf(c)
         /\ c \in Fibers => Live(c)
         /\ c # current => Live(frame[c].fiber) /\ caller[frame[c].fiber] = c

\* The caller of a fiber on the call stack waits for that fiber.
CallersWait ==
  \A f \in Fibers : Live(f) =>
    /\ f \in objects /\ status[f] \in {"RUNNING", "SUSPENDED"}
    /\ caller[f] \in Contexts /\ caller[f] # current
    /\ frame[caller[f]].by \in Resumers /\ frame[caller[f]].fiber = f

\* What the status of a fiber says about its object.
FiberFacts ==
  /\ held \subseteq objects
  /\ \A f \in Fibers :
       /\ status[f] = "INIT" => caller[f] = NULL /\ f \notin destroyed
       /\ status[f] = "RUNNING" => caller[f] # NULL
       /\ status[f] \in {"RUNNING", "SUSPENDED"} => previous[f] = f
       /\ f \notin objects => status[f] = "INIT"
       /\ status[f] = "DEAD" /\ caller[f] # NULL => pc = Arrive /\ transfer.from = f
       /\ f \in destroyed => status[f] = "DEAD" \/ Live(f)

\* Who may have sent what the running context is receiving.
Arrival ==
  /\ pc = Arrive =>
       /\ transfer.from \in Contexts /\ transfer.from # current
       /\ status[transfer.from] # "INIT"
       /\ frame[current].by = "none" =>
            /\ current \in Fibers /\ current \notin destroyed
            /\ vm.active_fiber = current /\ vm.stack = caller[current]
            /\ prev_frame[current] = NULL
       /\ frame[current].by \in {"none", "suspend"} =>
            transfer.flag # "bailout" /\ status[transfer.from] # "DEAD"
       /\ frame[current].by \in Resumers =>
            transfer.from = frame[current].fiber /\ ~Live(transfer.from)
       /\ transfer.flag = "bailout" => fatal
  /\ pc # Arrive => transfer = NoTransfer

\* The links of a backtrace, also while a switch is under way.
Links ==
  \A f \in Fibers :
    /\ prev_frame[f] \in {NULL, caller[f]}
    /\ caller[f] # NULL /\ ~(pc = Arrive /\ f = current /\ frame[f].by = "none")
         => (prev_frame[f] = NULL <=> f \in destroyed)

\* The C stacks that are mapped.
StacksOfContexts ==
  /\ Main \in stacks
  /\ \A f \in Fibers :
       (f \in stacks) <=> \/ status[f] \in {"RUNNING", "SUSPENDED"}
                         \/ (status[f] = "DEAD" /\ transfer.from = f)

\* Nobody refers to an object that is being deleted.
DeletedIsUnreferenced ==
  \A f \in Fibers : pc = Del(f) => f \in objects /\ ~Referenced(f, held, pinned, frame)

\* How far the destructors have come.
Destructors ==
  /\ \A f \in objects : f < top
  /\ dtor_idx <= top
  /\ phase = "over" => current = Main /\ pc = User
  /\ ~fatal =>
       /\ \A f \in Fibers : f \in dtor_called =>
            f \in destroyed \/ f \in late \/ status[f] \in {"INIT", "DEAD"}
       /\ phase = "destructors" => \A f \in objects : f < dtor_idx => f \in dtor_called
       /\ phase = "over" => \A f \in objects : f \in dtor_called

\* Every open handler has its count, and without a fatal error no other has.
BlocksAreCounted ==
  /\ Len(blocks) <= switch_blocking
  /\ ~fatal => switch_blocking = Len(blocks)

\* The inductive invariant without the call stack.
Local ==
  /\ TypeOK /\ OneRuns /\ FramesAreOwn /\ CallersWait /\ FiberFacts /\ Arrival /\ VmStateIsOwn
  /\ Links /\ StacksOfContexts /\ DeletedIsUnreferenced /\ Destructors /\ BlocksAreCounted

\* cs is the call stack: the running context first, the main program last, each fiber
\* followed by its caller, and no other fiber waiting for anything.
CallChain(cs) ==
  /\ Len(cs) >= 1 /\ cs[1] = current /\ cs[Len(cs)] = Main
  /\ \A n \in 1 .. Len(cs) - 1 : cs[n] \in Fibers /\ caller[cs[n]] = cs[n + 1]
  /\ \A m, n \in 1 .. Len(cs) : cs[m] = cs[n] => m = n
  /\ \A f \in Fibers : Live(f) <=> \E n \in 1 .. Len(cs) : cs[n] = f

\* The open handlers are on it, innermost first, and all that runs above one is
\* being destroyed.
BlocksOn(cs) ==
  /\ \A i \in 1 .. Len(blocks) : \E n \in 1 .. Len(cs) :
       cs[n] = blocks[i] /\ \A k \in 1 .. n - 1 : cs[k] \in destroyed
  /\ \A i, j \in 1 .. Len(blocks) : \A n \in 1 .. Len(cs) :
       i < j /\ cs[n] = blocks[i] => \E m \in 1 .. n : cs[m] = blocks[j]

\* A C stack outlives its fiber only where the fiber could not be unwound.
OrphansAreExplained == orphans \subseteq {"abandoned"}

\* The inductive invariant of fibers.
FiberInvariant ==
  Local /\ OrphansAreExplained /\ \E cs \in Seq(Contexts) : CallChain(cs) /\ BlocksOn(cs)

------------------------------------------------------------------------------
(* Contexts, and what the running one does next.                           *)

\* The main program is no fiber, and NULL is no context.
LEMMA ContextFacts ==
  /\ Main \in Contexts /\ Main \notin Fibers /\ NULL \notin Contexts /\ NULL \notin Fibers
  /\ Fibers \subseteq Contexts /\ \A c \in Contexts : c = Main \/ c \in Fibers
  /\ Fibers \subseteq Int /\ MaybeFiber = Fibers \cup {NULL} /\ MaybeContext = Contexts \cup {NULL}
BY ConstantsAssumption DEF Main, NULL, Contexts, Fibers, MaybeFiber, MaybeContext

\* The three kinds of what comes next are different.
LEMMA PcFacts ==
  /\ User # Arrive /\ \A f : Del(f) # User /\ Del(f) # Arrive
  /\ \A f, g : Del(f) = Del(g) => f = g
<1>1. User.at = "user" /\ Arrive.at = "arrive" /\ \A f : Del(f).at = "del" /\ Del(f).fiber = f
  BY DEF User, Arrive, Del
<1>2. QED
  BY <1>1

\* A pending call of zend_fiber_switch_context.
FrameType == [by : {"none", "method", "del", "loop", "suspend"},
              fiber : MaybeFiber, previous : MaybeFiber, vm : VmStates]

\* The fields of a frame and of the executor globals.
LEMMA RecordTypes ==
  /\ \A fr \in FrameType :
       /\ fr.by \in {"none", "suspend"} \cup Resumers
       /\ fr.fiber \in MaybeFiber /\ fr.previous \in MaybeFiber /\ fr.vm \in VmStates
  /\ \A v \in VmStates : v.active_fiber \in MaybeFiber /\ v.stack \in Contexts /\ v.bailout \in Contexts
BY DEF FrameType, VmStates, Resumers

\* No frame, no transfer.
LEMMA NothingFacts ==
  /\ NoFrame.by = "none" /\ NoFrame.fiber = NULL
  /\ NoTransfer.from = NULL /\ NoTransfer.flag = "none"
  /\ NoFrame.vm.active_fiber = NULL /\ NoFrame.vm.stack = Main /\ NoFrame.vm.bailout = Main
  /\ NoFrame \in FrameType /\ NoFrame.vm \in VmStates
BY ContextFacts DEF NoFrame, NoTransfer, FrameType, VmStates

------------------------------------------------------------------------------
(* Entering a fiber, and leaving one.                                      *)

\* zend_fiber_resume_internal enters f, variable by variable.
Entered(f, by, flag) ==
  /\ current' = f /\ pc' = Arrive
  /\ transfer'.from = current /\ transfer'.flag = flag
  /\ caller'[f] = current /\ \A g \in Fibers : g # f => caller'[g] = caller[g]
  /\ status'[f] = "RUNNING" /\ status'[current] = "SUSPENDED"
  /\ \A c \in Contexts : c # f /\ c # current => status'[c] = status[c]
  /\ vm'.active_fiber = f /\ vm'.stack = vm.stack /\ vm'.bailout = vm.bailout
  /\ frame'[current].by = by /\ frame'[current].fiber = f
  /\ frame'[current].previous = vm.active_fiber
  /\ frame'[current].vm.stack = vm.stack /\ frame'[current].vm.bailout = vm.bailout
  /\ \A c \in Contexts : c # current => frame'[c] = frame[c]

\* zend_fiber_resume_internal into another context does what Entered says.
LEMMA EnteredFacts ==
  ASSUME TypeOK, NEW f \in Fibers, f # current, NEW by, NEW flag,
         ResumeInternal(f, f, by, flag)
  PROVE  Entered(f, by, flag)
<1>1. current \in Contexts /\ f \in Contexts
  BY ContextFacts DEF TypeOK
<1>2. /\ caller \in [Fibers -> MaybeContext] /\ status \in [Contexts -> Statuses]
      /\ vm \in VmStates /\ frame \in [Contexts -> FrameType]
  BY DEF TypeOK, FrameType
<1>3. caller' = [caller EXCEPT ![f] = current] /\ vm' = [vm EXCEPT !.active_fiber = f]
  BY DEF ResumeInternal
<1>4. frame' = [frame EXCEPT ![current] =
                 [by |-> by, fiber |-> f, previous |-> vm.active_fiber, vm |-> vm']]
  BY DEF ResumeInternal
<1>5. /\ status' = [status EXCEPT ![f] = "RUNNING", ![current] = "SUSPENDED"]
      /\ transfer' = [from |-> current, flag |-> flag] /\ current' = f /\ pc' = Arrive
  BY DEF ResumeInternal, SwitchContext
<1>6. vm'.active_fiber = f /\ vm'.stack = vm.stack /\ vm'.bailout = vm.bailout
  BY <1>2, <1>3 DEF VmStates
<1>7. /\ frame'[current].by = by /\ frame'[current].fiber = f
      /\ frame'[current].previous = vm.active_fiber /\ frame'[current].vm = vm'
      /\ \A c \in Contexts : c # current => frame'[c] = frame[c]
  BY <1>1, <1>2, <1>4
<1>8. QED
  BY <1>1, <1>2, <1>3, <1>5, <1>6, <1>7 DEF Entered

\* zend_fiber_switch_context leaves the running fiber for its caller.
Left(left_as, flag) ==
  /\ current' = caller[current] /\ pc' = Arrive
  /\ transfer'.from = current /\ transfer'.flag = flag
  /\ status'[caller[current]] = "RUNNING" /\ status'[current] = left_as
  /\ \A c \in Contexts : c # caller[current] /\ c # current => status'[c] = status[c]

\* A switch to the caller does what Left says.
LEMMA LeftFacts ==
  ASSUME TypeOK, current \in Fibers, caller[current] \in Contexts, caller[current] # current,
         NEW left_as, NEW flag, SwitchContext(Resumer(current), left_as, flag)
  PROVE  Left(left_as, flag)
<1>1. status \in [Contexts -> Statuses] /\ current \in Contexts
  BY DEF TypeOK
<1>2. QED
  BY <1>1 DEF SwitchContext, Resumer, Left

\* The running fiber is on the call stack, so its caller waits for it.
LEMMA RunningIsLive ==
  ASSUME Local, current # Main
  PROVE  /\ current \in Fibers /\ Live(current)
         /\ caller[current] \in Contexts /\ caller[current] # current
         /\ frame[caller[current]].by \in Resumers /\ frame[caller[current]].fiber = current
<1>1. current \in Fibers
  BY ContextFacts DEF Local, TypeOK
<1>2. Live(current)
  BY <1>1 DEF Local, OneRuns, FiberFacts, Live
<1>3. QED
  BY <1>1, <1>2 DEF Local, CallersWait

\* Suspend, variable by variable: the running fiber leaves for its caller.
LEMMA SuspendFacts ==
  ASSUME Local, Suspend
  PROVE  /\ current \in Fibers /\ current # Main /\ current \notin destroyed
         /\ switch_blocking = 0
         /\ Left("SUSPENDED", "none")
         /\ caller'[current] = NULL /\ \A g \in Fibers : g # current => caller'[g] = caller[g]
         /\ prev_frame'[current] = NULL
         /\ \A g \in Fibers : g # current => prev_frame'[g] = prev_frame[g]
         /\ previous'[current] = current
         /\ \A g \in Fibers : g # current => previous'[g] = previous[g]
         /\ frame'[current].by = "suspend" /\ frame'[current].vm = vm
         /\ \A c \in Contexts : c # current => frame'[c] = frame[c]
         /\ frame'[current].fiber = current
<1>1. current # Main /\ vm.active_fiber = current
  BY PcFacts DEF Local, VmStateIsOwn, Suspend, CanSuspend, InUserCode, FiberOf
<1>2. current \in Fibers /\ caller[current] \in Contexts /\ caller[current] # current
  BY <1>1, RunningIsLive
<1>3. /\ caller \in [Fibers -> MaybeContext] /\ prev_frame \in [Fibers -> MaybeContext]
      /\ previous \in [Fibers -> MaybeFiber] /\ frame \in [Contexts -> FrameType]
      /\ current \in Contexts
  BY DEF Local, TypeOK, FrameType
<1>4. SwitchContext(Resumer(current), "SUSPENDED", "none")
  BY <1>1 DEF Suspend
<1>5. Left("SUSPENDED", "none")
  BY <1>2, <1>4, LeftFacts DEF Local
<1>6. /\ prev_frame' = [prev_frame EXCEPT ![current] = NULL]
      /\ previous' = [previous EXCEPT ![current] = current]
      /\ caller' = [caller EXCEPT ![current] = NULL]
      /\ frame' = [frame EXCEPT ![current] =
                    [by |-> "suspend", fiber |-> current, previous |-> NULL, vm |-> vm]]
      /\ current \notin destroyed /\ switch_blocking = 0
  BY <1>1 DEF Suspend, CanSuspend, Unlink
<1>7. /\ frame'[current].by = "suspend" /\ frame'[current].vm = vm
      /\ frame'[current].fiber = current
      /\ \A c \in Contexts : c # current => frame'[c] = frame[c]
  BY <1>3, <1>6
<1>8. QED
  BY <1>1, <1>2, <1>3, <1>5, <1>6, <1>7

\* The end of the fiber's function, or a fatal error in it.
LEMMA EndFacts ==
  ASSUME Local, current # Main, NEW flag, SwitchContext(Resumer(current), "DEAD", flag)
  PROVE  Left("DEAD", flag)
BY RunningIsLive, LeftFacts DEF Local

\* A context that is arrived at, having made the call that is now returning.
LEMMA ArrivalFacts ==
  ASSUME Local, pc = Arrive
  PROVE  /\ current \in Contexts /\ frame[current] \in FrameType
         /\ frame[current].by \in {"none", "suspend"} \cup Resumers
         /\ transfer.from \in Contexts /\ transfer.from # current
         /\ transfer.flag = "bailout" => frame[current].by \in Resumers /\ fatal
<1>1. current \in Contexts /\ frame \in [Contexts -> FrameType]
  BY DEF Local, TypeOK, FrameType
<1>2. frame[current] \in FrameType
  BY <1>1
<1>3. frame[current].by \in {"none", "suspend"} \cup Resumers
  BY <1>2, RecordTypes
<1>4. QED
  BY <1>1, <1>2, <1>3 DEF Local, Arrival

\* The dead sender is cleaned up: it alone loses its caller and its link.
LEMMA CleanupFacts ==
  ASSUME Local, pc = Arrive, DestroyDeadSender
  PROVE  /\ \A f \in Fibers : f # transfer.from => caller'[f] = caller[f] /\ prev_frame'[f] = prev_frame[f]
         /\ \A f \in Fibers : status[f] # "DEAD" => caller'[f] = caller[f] /\ prev_frame'[f] = prev_frame[f]
         /\ \A f \in Fibers : f = transfer.from /\ status[f] = "DEAD" => caller'[f] = NULL /\ prev_frame'[f] = NULL
         /\ \A c \in Contexts : c \in stacks' <=> c \in stacks /\ ~(c = transfer.from /\ status[c] = "DEAD")
BY DEF DestroyDeadSender

\* Who is suspended without a caller, or in its first state, is not on the call stack and
\* can be entered.
LEMMA NotCurrent ==
  ASSUME Local, NEW f \in Fibers, status[f] \in {"INIT", "SUSPENDED"}
  PROVE  f # current /\ f \in Contexts
BY ContextFacts DEF Local, OneRuns

\* Fiber::start, variable by variable: a fresh fiber is entered.
LEMMA StartFacts ==
  ASSUME Local, NEW f \in Fibers, Start(f)
  PROVE  /\ f # current /\ f \in objects /\ Entered(f, "method", "none") /\ status[f] = "INIT"
         /\ switch_blocking = 0 /\ pc = User
         /\ previous'[f] = f /\ \A g \in Fibers : g # f => previous'[g] = previous[g]
<1>1. f # current
  BY NotCurrent DEF Start
<1>2. previous \in [Fibers -> MaybeFiber]
  BY DEF Local, TypeOK
<1>3. Entered(f, "method", "none")
  BY <1>1, EnteredFacts DEF Start, Local
<1>4. QED
  BY <1>1, <1>2, <1>3 DEF Start, Local, FiberFacts, InUserCode

\* Fiber::resume and Fiber::throw, variable by variable.
LEMMA ResumeFacts ==
  ASSUME Local, NEW f \in Fibers, NEW flag, Resume(f, flag)
  PROVE  /\ f # current /\ f \in objects /\ Entered(f, "method", flag)
         /\ status[f] = "SUSPENDED" /\ caller[f] = NULL
         /\ switch_blocking = 0 /\ pc = User
         /\ prev_frame'[f] = current
         /\ \A g \in Fibers : g # f => prev_frame'[g] = prev_frame[g]
<1>1. status[f] = "SUSPENDED" /\ caller[f] = NULL
  BY DEF Resume, Resumable
<1>2. f # current /\ previous[f] = f
  BY <1>1, NotCurrent DEF Local, FiberFacts
<1>3. Entered(f, "method", flag)
  BY <1>2, EnteredFacts DEF Resume, Local
<1>4. prev_frame \in [Fibers -> MaybeContext] /\ vm.stack = current
  BY PcFacts DEF Local, TypeOK, VmStateIsOwn, Resume, InUserCode
<1>5. QED
  BY <1>1, <1>2, <1>3, <1>4 DEF Resume, Local, FiberFacts, InUserCode

\* zend_fiber_object_destroy of a suspended fiber, variable by variable.
LEMMA ForceCloseFacts ==
  ASSUME Local, NEW f \in Fibers, status[f] = "SUSPENDED", NEW by, ForceClose(f, by)
  PROVE  /\ f # current /\ Entered(f, by, "error")
         /\ destroyed' = destroyed \cup {f} /\ UNCHANGED <<previous, prev_frame, stacks>>
<1>1. f # current /\ previous[f] = f
  BY NotCurrent DEF Local, FiberFacts
<1>2. QED
  BY <1>1, EnteredFacts DEF ForceClose, Local

------------------------------------------------------------------------------
(* Types.                                                                  *)

\* The object store.
ObjectTypes ==
  /\ objects \subseteq Fibers /\ top \in 1 .. NFibers + 1
  /\ held \subseteq Fibers /\ pinned \subseteq Fibers /\ dtor_called \subseteq Fibers
  /\ destroyed \subseteq Fibers /\ late \subseteq Fibers
\* Where the request stands.
PhaseTypes ==
  /\ phase \in {"script", "destructors", "over"}
  /\ dtor_idx \in 1 .. NFibers + 1
  /\ fatal \in BOOLEAN
  /\ orphans \subseteq {"abandoned", "lost"}
\* The pointers of a fiber.
LinkTypes ==
  /\ caller \in [Fibers -> MaybeContext]
  /\ previous \in [Fibers -> MaybeFiber]
  /\ prev_frame \in [Fibers -> MaybeContext]
\* The contexts.
ContextTypes ==
  /\ status \in [Contexts -> Statuses]
  /\ stacks \subseteq Contexts
  /\ current \in Contexts
\* A switch under way.
SwitchTypes ==
  /\ vm \in VmStates
  /\ frame \in [Contexts -> FrameType]
  /\ transfer \in [from : MaybeContext, flag : {"none", "error", "bailout"}]
  /\ pc \in {User, Arrive} \cup {Del(f) : f \in Fibers}
\* The handlers that block switching.
BlockTypes ==
  /\ switch_blocking \in 0 .. MaxBlocks
  /\ blocks \in Seq(Contexts)

\* TypeOK is the conjunction of the six groups.
LEMMA TypeParts ==
  TypeOK <=> ObjectTypes /\ PhaseTypes /\ LinkTypes /\ ContextTypes /\ SwitchTypes /\ BlockTypes
BY DEF TypeOK, ObjectTypes, PhaseTypes, LinkTypes, ContextTypes, SwitchTypes, BlockTypes, FrameType

\* Every step keeps the types of the object store,
LEMMA ObjectTypesStep == ASSUME Local, Next PROVE ObjectTypes'
<1>1. ObjectTypes
  BY TypeParts DEF Local
<1>2. CASE ForwardBailout
  <2>1. frame[current].fiber \in Fibers
    BY <1>2, ArrivalFacts DEF ForwardBailout, Local, FramesAreOwn
  <2>2. QED
    BY <1>1, <1>2, <2>1 DEF ForwardBailout, ObjectTypes, ghosts
<1>3. CASE NextRequest
  BY <1>3, ConstantsAssumption DEF NextRequest, ObjectTypes
<1>4. CASE Suspend \/ GetCurrent \/ SwitchBlock \/ SwitchUnblock \/ FatalError
  <2>1. vm.active_fiber # NULL => vm.active_fiber \in Fibers
    BY RecordTypes, ContextFacts DEF Local, TypeOK
  <2>2. QED
    BY <1>1, <1>4, <2>1 DEF Suspend, GetCurrent, SwitchBlock, SwitchUnblock, FatalError,
       ObjectTypes, objvars, ghosts
<1>5. CASE \E f \in Fibers : Construct(f)
  <2>1. PICK f \in Fibers : Construct(f)
    BY <1>5
  <2>2. top' \in 1 .. NFibers + 1
    BY <1>1, <2>1, ConstantsAssumption DEF Construct, ObjectTypes, Fibers
  <2>3. QED
    BY <1>1, <2>1, <2>2 DEF Construct, ObjectTypes, ghosts
<1>6. CASE \E f \in Fibers : Start(f) \/ Drop(f) \/ DelDestroy(f) \/ DelFree(f)
  BY <1>1, <1>6 DEF Start, Drop, DelDestroy, DelFree, ForceClose, ObjectTypes, objvars, ghosts
<1>7. CASE CallDestructor
  <2>1. dtor_idx \in objects \ dtor_called => dtor_idx \in Fibers
    BY <1>1 DEF ObjectTypes
  <2>2. \/ destroyed' = destroyed
        \/ destroyed' = destroyed \cup {dtor_idx} /\ dtor_idx \in objects \ dtor_called
    BY <1>7 DEF CallDestructor, ForceClose
  <2>3. \/ dtor_called' = dtor_called
        \/ dtor_called' = dtor_called \cup {dtor_idx} /\ dtor_idx \in objects \ dtor_called
    BY <1>7 DEF CallDestructor
  <2>4. UNCHANGED <<objects, top, pinned, held, late>>
    BY <1>7 DEF CallDestructor, ghosts
  <2>5. QED
    BY <1>1, <2>1, <2>2, <2>3, <2>4 DEF ObjectTypes
<1>8. QED
  BY <1>1, <1>2, <1>3, <1>4, <1>5, <1>6, <1>7 DEF Next, EnterFunction, ReturnFromSwitch,
     EndFunction, Resume, EndScript, DestructorsDone, ObjectTypes, objvars, ghosts

\* of the request's phase,
LEMMA PhaseTypesStep == ASSUME Local, Next PROVE PhaseTypes'
<1>1. PhaseTypes /\ ObjectTypes /\ 1 \in 1 .. NFibers + 1
  BY TypeParts, ConstantsAssumption DEF Local
<1>2. CASE CallDestructor
  BY <1>1, <1>2, ConstantsAssumption DEF CallDestructor, MoreObjects, PhaseTypes, ObjectTypes, ghosts
<1>3. CASE FatalError \/ ForwardBailout
  <2>1. UNCHANGED <<dtor_idx, orphans>> /\ phase' \in {phase, "over"} /\ fatal' \in BOOLEAN
    BY <1>1, <1>3 DEF FatalError, ForwardBailout, Bailout, PhaseTypes, ghosts
  <2>2. QED
    BY <1>1, <2>1 DEF PhaseTypes
<1>4. CASE NextRequest \/ \E f \in Fibers : DelFree(f)
  <2>1. \A F : Orphaned(F) \subseteq {"abandoned", "lost"}
    BY <1>1 DEF Orphaned, Cause, PhaseTypes
  <2>2. QED
    BY <1>1, <1>4, <2>1 DEF NextRequest, DelFree, PhaseTypes
<1>5. QED
  BY <1>1, <1>2, <1>3, <1>4 DEF Next, EnterFunction, ReturnFromSwitch, Suspend, GetCurrent, SwitchBlock,
     SwitchUnblock, EndFunction, Construct, Start, Drop, DelDestroy, Resume, EndScript,
     DestructorsDone, PhaseTypes, ghosts

\* of the pointers,
LEMMA LinkTypesStep == ASSUME Local, Next PROVE LinkTypes'
<1>1. LinkTypes /\ current \in Contexts /\ vm.stack \in Contexts
  BY TypeParts, RecordTypes DEF Local, ContextTypes, SwitchTypes
<1>2. Contexts \subseteq MaybeContext /\ Fibers \subseteq MaybeFiber /\ NULL \in MaybeContext /\ NULL \in MaybeFiber
  BY ContextFacts
<1>3. CASE Suspend
  <2>1. current \in Fibers
    BY <1>3, SuspendFacts
  <2>2. QED
    BY <1>1, <1>2, <1>3, <2>1 DEF Suspend, Unlink, LinkTypes
<1>4. CASE ReturnFromSwitch \/ ForwardBailout
  BY <1>1, <1>2, <1>4 DEF ReturnFromSwitch, ForwardBailout, DestroyDeadSender, LinkTypes
<1>5. CASE NextRequest
  BY <1>1, <1>2, <1>5 DEF NextRequest, LinkTypes
<1>6. CASE EnterFunction
  BY <1>1, <1>2, <1>6 DEF EnterFunction, LinkTypes
<1>7. CASE CallDestructor
  BY <1>1, <1>2, <1>7 DEF CallDestructor, ForceClose, ResumeInternal, LinkTypes, ctxvars
<1>8. CASE \E f \in Fibers : Construct(f) \/ Start(f) \/ Drop(f) \/ DelDestroy(f) \/ DelFree(f)
  BY <1>1, <1>2, <1>8 DEF Construct, Start, Drop, DelDestroy, DelFree, ForceClose,
     ResumeInternal, LinkTypes, ctxvars
<1>9. CASE \E f \in Fibers, flag \in {"none", "error"} : Resume(f, flag)
  BY <1>1, <1>2, <1>9 DEF Resume, ResumeInternal, LinkTypes
<1>10. QED
  BY <1>1, <1>3, <1>4, <1>5, <1>6, <1>7, <1>8, <1>9 DEF Next, GetCurrent, SwitchBlock,
     SwitchUnblock, FatalError, EndFunction, EndScript, DestructorsDone, LinkTypes, ctxvars

\* Where a switch leads.
LEMMA SwitchTargets ==
  ASSUME Local, NEW to \in Contexts, NEW left_as \in Statuses, NEW flag,
         SwitchContext(to, left_as, flag)
  PROVE  status' \in [Contexts -> Statuses] /\ current' \in Contexts
<1>1. status \in [Contexts -> Statuses]
  BY DEF Local, TypeOK
<1>2. QED
  BY <1>1 DEF SwitchContext, Statuses

\* of the contexts,
LEMMA ContextTypesStep == ASSUME Local, Next PROVE ContextTypes'
<1>1. ContextTypes /\ Main \in Contexts /\ Fibers \subseteq Contexts
  BY TypeParts, ContextFacts DEF Local
<1>2. current # Main => Resumer(current) \in Contexts
  BY RunningIsLive DEF Resumer
<1>3. {"RUNNING", "SUSPENDED", "DEAD", "INIT"} \subseteq Statuses
  BY DEF Statuses
<1>4. \A f \in Fibers : status[f] = "SUSPENDED" => previous[f] \in Contexts
  BY <1>1 DEF Local, FiberFacts
<1>5. CASE Suspend
  <2>1. current # Main /\ vm.active_fiber = current
    BY <1>5, SuspendFacts, PcFacts DEF Suspend, InUserCode, Local, VmStateIsOwn
  <2>2. SwitchContext(Resumer(current), "SUSPENDED", "none") /\ UNCHANGED stacks
    BY <1>5, <2>1 DEF Suspend
  <2>3. QED
    BY <1>1, <1>2, <1>3, <2>1, <2>2, SwitchTargets DEF ContextTypes
<1>6. CASE \E flag \in {"none", "error"} : EndFunction(flag)
  BY <1>1, <1>2, <1>3, <1>6, SwitchTargets DEF EndFunction, ContextTypes
<1>7. CASE FatalError \/ ForwardBailout
  <2>1. stacks' \subseteq stacks
    BY <1>7 DEF FatalError, ForwardBailout, DestroyDeadSender
  <2>2. \/ UNCHANGED <<status, current>>
        \/ current # Main /\ SwitchContext(Resumer(current), "DEAD", "bailout")
    BY <1>7 DEF FatalError, ForwardBailout, Bailout
  <2>3. QED
    BY <1>1, <1>2, <1>3, <2>1, <2>2, SwitchTargets DEF ContextTypes
<1>8. CASE ReturnFromSwitch
  BY <1>1, <1>8 DEF ReturnFromSwitch, DestroyDeadSender, ContextTypes
<1>9. CASE NextRequest
  BY <1>1, <1>3, <1>9 DEF NextRequest, ContextTypes
<1>10. ASSUME NEW f \in Fibers, NEW by, ForceClose(f, by), status[f] = "SUSPENDED" PROVE ContextTypes'
  <2>1. SwitchContext(previous[f], "SUSPENDED", "error") /\ UNCHANGED stacks
    BY <1>10 DEF ForceClose, ResumeInternal
  <2>2. QED
    BY <1>1, <1>3, <1>4, <1>10, <2>1, SwitchTargets DEF ContextTypes
<1>11. CASE CallDestructor
  <2>1. \/ UNCHANGED ctxvars
        \/ ForceClose(dtor_idx, "loop") /\ status[dtor_idx] = "SUSPENDED" /\ dtor_idx \in objects
    BY <1>11 DEF CallDestructor
  <2>2. objects \subseteq Fibers
    BY DEF Local, TypeOK
  <2>3. QED
    BY <1>1, <1>10, <2>1, <2>2 DEF ContextTypes, ctxvars
<1>12. CASE \E f \in Fibers : DelDestroy(f)
  BY <1>1, <1>10, <1>12 DEF DelDestroy, ContextTypes, ctxvars
<1>13. CASE \E f \in Fibers : Start(f)
  <2>1. PICK f \in Fibers : Start(f)
    BY <1>13
  <2>2. SwitchContext(f, "SUSPENDED", "none") /\ stacks' = stacks \cup {f}
    BY <2>1 DEF Start, ResumeInternal
  <2>3. QED
    BY <1>1, <1>3, <2>2, SwitchTargets DEF ContextTypes
<1>14. CASE \E f \in Fibers, flag \in {"none", "error"} : Resume(f, flag)
  <2>1. PICK f \in Fibers, flag \in {"none", "error"} : Resume(f, flag)
    BY <1>14
  <2>2. SwitchContext(previous[f], "SUSPENDED", flag) /\ UNCHANGED stacks /\ status[f] = "SUSPENDED"
    BY <2>1 DEF Resume, ResumeInternal, Resumable
  <2>3. QED
    BY <1>1, <1>3, <1>4, <2>2, SwitchTargets DEF ContextTypes
<1>15. CASE \E f \in Fibers : DelFree(f)
  BY <1>1, <1>3, <1>15 DEF DelFree, ContextTypes
<1>16. QED
  BY <1>1, <1>5, <1>6, <1>7, <1>8, <1>9, <1>11, <1>12, <1>13, <1>14, <1>15 DEF Next, EnterFunction,
     GetCurrent, SwitchBlock, SwitchUnblock, Construct, Drop, EndScript, DestructorsDone,
     ContextTypes, ctxvars

\* What zend_fiber_resume_internal leaves in the globals and on the C stack.
LEMMA ResumeTypes ==
  ASSUME Local, NEW f \in Fibers, NEW to, NEW by \in Resumers, NEW flag \in {"none", "error"},
         ResumeInternal(f, to, by, flag)
  PROVE  SwitchTypes'
<1>1. SwitchTypes /\ current \in Contexts
  BY TypeParts DEF Local, ContextTypes
<1>2. f \in MaybeFiber /\ current \in MaybeContext
  BY <1>1, ContextFacts
<1>3. vm' \in VmStates
  BY <1>1, <1>2 DEF ResumeInternal, SwitchTypes, VmStates
<1>4. [by |-> by, fiber |-> f, previous |-> vm.active_fiber, vm |-> vm'] \in FrameType
  BY <1>1, <1>2, <1>3, RecordTypes DEF SwitchTypes, FrameType, Resumers
<1>5. frame' \in [Contexts -> FrameType]
  BY <1>1, <1>4 DEF ResumeInternal, SwitchTypes
<1>6. /\ transfer' \in [from : MaybeContext, flag : {"none", "error", "bailout"}]
      /\ pc' = Arrive
  BY <1>2 DEF ResumeInternal, SwitchContext
<1>7. QED
  BY <1>3, <1>5, <1>6 DEF SwitchTypes

\* and of the switch under way.
LEMMA SwitchTypesStep == ASSUME Local, Next PROVE SwitchTypes'
<1>1. SwitchTypes /\ current \in Contexts /\ current \in MaybeContext /\ NULL \in MaybeFiber
  BY TypeParts, ContextFacts DEF Local, ContextTypes
<1>2. NoTransfer \in [from : MaybeContext, flag : {"none", "error", "bailout"}]
  BY ContextFacts DEF NoTransfer
<1>3. NoFrame \in FrameType /\ NoFrame.vm \in VmStates
  BY NothingFacts
<1>4. frame[current] \in FrameType
  BY <1>1 DEF SwitchTypes
<1>5. CASE EnterFunction
  <2>1. vm' \in VmStates
    BY <1>1, <1>5 DEF EnterFunction, SwitchTypes, VmStates
  <2>2. QED
    BY <1>1, <1>2, <1>5, <2>1 DEF EnterFunction, SwitchTypes
<1>6. CASE ReturnFromSwitch
  <2>1. frame[current].vm \in VmStates /\ frame[current].previous \in MaybeFiber
    BY <1>4, RecordTypes
  <2>2. vm' \in VmStates
    <3>1. \A v \in VmStates, g \in MaybeFiber : [v EXCEPT !.active_fiber = g] \in VmStates
      BY DEF VmStates
    <3>2. QED
      BY <1>6, <2>1, <3>1 DEF ReturnFromSwitch, RestoredVm
  <2>3. frame' \in [Contexts -> FrameType]
    BY <1>1, <1>3, <1>6 DEF ReturnFromSwitch, SwitchTypes
  <2>4. pc' \in {User, Arrive} \cup {Del(f) : f \in Fibers}
    <3>1. frame[current].by \in {"method", "del"} => frame[current].fiber \in Fibers
      BY <1>1 DEF Local, FramesAreOwn, Resumers
    <3>2. pc' = User \/ (pc' = Del(frame[current].fiber) /\ frame[current].by \in {"method", "del"})
      BY <1>6 DEF ReturnFromSwitch
    <3>3. QED
      BY <3>1, <3>2
  <2>5. QED
    BY <1>2, <1>6, <2>2, <2>3, <2>4 DEF ReturnFromSwitch, SwitchTypes
<1>7. CASE FatalError
  <2>1. UNCHANGED <<vm, frame>>
    BY <1>7 DEF FatalError
  <2>2. \/ transfer' = NoTransfer /\ pc' = User
        \/ transfer' = [from |-> current, flag |-> "bailout"] /\ pc' = Arrive
    BY <1>7 DEF FatalError, Bailout, SwitchContext
  <2>3. QED
    BY <1>1, <1>2, <2>1, <2>2 DEF SwitchTypes
<1>8. CASE ForwardBailout
  <2>1. frame[current].vm \in VmStates
    BY <1>4, RecordTypes
  <2>2. vm' \in VmStates
    <3>1. \A v \in VmStates : [v EXCEPT !.active_fiber = NULL] \in VmStates
      BY <1>1 DEF VmStates
    <3>2. QED
      BY <1>8, <2>1, <3>1 DEF ForwardBailout
  <2>3. frame' \in [Contexts -> FrameType]
    BY <1>1, <1>3, <1>8 DEF ForwardBailout, SwitchTypes
  <2>4. \/ transfer' = NoTransfer /\ pc' = User
        \/ transfer' = [from |-> current, flag |-> "bailout"] /\ pc' = Arrive
    BY <1>8 DEF ForwardBailout, Bailout, SwitchContext
  <2>5. QED
    BY <1>1, <1>2, <2>2, <2>3, <2>4 DEF SwitchTypes
<1>9. CASE Suspend
  <2>1. vm.active_fiber \in MaybeFiber /\ vm \in VmStates
    BY <1>1, RecordTypes DEF SwitchTypes
  <2>2. [by |-> "suspend", fiber |-> vm.active_fiber, previous |-> NULL, vm |-> vm] \in FrameType
    BY <1>1, <2>1 DEF FrameType
  <2>3. frame' \in [Contexts -> FrameType]
    BY <1>1, <1>9, <2>2 DEF Suspend, SwitchTypes
  <2>4. transfer' = [from |-> current, flag |-> "none"] /\ pc' = Arrive /\ UNCHANGED vm
    BY <1>9 DEF Suspend, SwitchContext
  <2>5. QED
    BY <1>1, <2>3, <2>4 DEF SwitchTypes
<1>10. CASE \E flag \in {"none", "error"} : EndFunction(flag)
  <2>1. PICK flag \in {"none", "error"} : EndFunction(flag)
    BY <1>10
  <2>2. transfer' = [from |-> current, flag |-> flag] /\ pc' = Arrive /\ UNCHANGED <<vm, frame>>
    BY <2>1 DEF EndFunction, SwitchContext
  <2>3. QED
    BY <1>1, <2>2 DEF SwitchTypes
<1>11. CASE \E f \in Fibers : Start(f)
  BY <1>11, ResumeTypes DEF Start, Resumers
<1>12. CASE \E f \in Fibers, flag \in {"none", "error"} : Resume(f, flag)
  BY <1>12, ResumeTypes DEF Resume, Resumers
<1>13. CASE \E f \in Fibers : DelDestroy(f)
  <2>1. PICK f \in Fibers : DelDestroy(f)
    BY <1>13
  <2>2. ResumeInternal(f, previous[f], "del", "error") \/ UNCHANGED <<vm, frame, transfer, pc>>
    BY <2>1 DEF DelDestroy, ForceClose, ctxvars
  <2>3. "del" \in Resumers /\ "error" \in {"none", "error"}
    BY DEF Resumers
  <2>4. QED
    BY <1>1, <2>2, <2>3, ResumeTypes DEF SwitchTypes
<1>14. CASE CallDestructor
  <2>1. \/ ResumeInternal(dtor_idx, previous[dtor_idx], "loop", "error") /\ dtor_idx \in objects
        \/ UNCHANGED <<vm, frame, transfer, pc>>
    BY <1>14 DEF CallDestructor, ForceClose, ctxvars
  <2>2. "loop" \in Resumers /\ "error" \in {"none", "error"} /\ objects \subseteq Fibers
    BY DEF Resumers, Local, TypeOK
  <2>3. CASE UNCHANGED <<vm, frame, transfer, pc>>
    BY <1>1, <2>3 DEF SwitchTypes
  <2>4. QED
    BY <2>1, <2>2, <2>3, ResumeTypes
<1>15. CASE \E f \in Fibers : DelFree(f)
  <2>1. PICK f \in Fibers : DelFree(f)
    BY <1>15
  <2>2. frame' = [frame EXCEPT ![f] = NoFrame] /\ pc' = User /\ UNCHANGED <<vm, transfer>>
    BY <2>1 DEF DelFree
  <2>3. frame' \in [Contexts -> FrameType]
    BY <1>1, <1>3, <2>2 DEF SwitchTypes
  <2>4. QED
    BY <1>1, <2>2, <2>3 DEF SwitchTypes
<1>16. CASE \E f \in Fibers : Drop(f)
  BY <1>1, <1>16 DEF Drop, SwitchTypes, ctxvars
<1>17. CASE NextRequest
  BY <1>2, <1>3, <1>17 DEF NextRequest, SwitchTypes
<1>18. CASE \E f \in Fibers : Construct(f)
  BY <1>1, <1>18 DEF Construct, SwitchTypes, ctxvars
<1>19. CASE GetCurrent \/ SwitchBlock \/ SwitchUnblock \/ EndScript \/ DestructorsDone
  BY <1>1, <1>19 DEF GetCurrent, SwitchBlock, SwitchUnblock, EndScript, DestructorsDone,
     SwitchTypes, ctxvars
<1>20. QED
  BY <1>5, <1>6, <1>7, <1>8, <1>9, <1>10, <1>11, <1>12, <1>13, <1>14, <1>15, <1>16, <1>17, <1>18, <1>19
     DEF Next

\* The first elements of a sequence.
LEMMA PrefixFacts ==
  ASSUME NEW S, NEW s \in Seq(S), NEW n \in 0 .. Len(s)
  PROVE  /\ SubSeq(s, 1, n) \in Seq(S) /\ Len(SubSeq(s, 1, n)) = n
         /\ \A i \in 1 .. n : SubSeq(s, 1, n)[i] = s[i]
<1>1. Len(s) \in Nat
  OBVIOUS
<1>2. \A k \in 1 .. n : k \in 1 .. Len(s)
  BY <1>1
<1>3. QED
  BY <1>1, <1>2

\* A bailout keeps the first handlers, and none of the running context after them.
LEMMA BailoutBlocks ==
  ASSUME blocks \in Seq(Contexts), Bailout
  PROVE  \E n \in 0 .. Len(blocks) :
           /\ blocks' \in Seq(Contexts) /\ Len(blocks') = n
           /\ \A i \in 1 .. n : blocks'[i] = blocks[i]
           /\ n > 0 => blocks[n] # current
           /\ \A i \in n + 1 .. Len(blocks) : blocks[i] = current
<1>1. PICK n \in 0 .. Len(blocks) :
        /\ n > 0 => blocks[n] # current
        /\ \A i \in n + 1 .. Len(blocks) : blocks[i] = current
        /\ blocks' = SubSeq(blocks, 1, n)
  BY DEF Bailout
<1>2. SubSeq(blocks, 1, n) \in Seq(Contexts) /\ Len(SubSeq(blocks, 1, n)) = n
      /\ \A i \in 1 .. n : SubSeq(blocks, 1, n)[i] = blocks[i]
  BY PrefixFacts
<1>3. QED
  BY <1>1, <1>2

\* Every step keeps the count of the open handlers.
LEMMA BlocksStep == ASSUME Local, Next PROVE BlockTypes' /\ BlocksAreCounted'
<1>1. BlockTypes /\ BlocksAreCounted /\ current \in Contexts /\ fatal \in BOOLEAN
      /\ switch_blocking \in Int
  BY TypeParts DEF Local, ContextTypes, PhaseTypes, BlockTypes
<1>2. CASE SwitchBlock
  <2>1. /\ switch_blocking' = switch_blocking + 1 /\ blocks' = Append(blocks, current)
        /\ switch_blocking < MaxBlocks /\ UNCHANGED fatal
    BY <1>2 DEF SwitchBlock
  <2>2. blocks' \in Seq(Contexts) /\ Len(blocks') = Len(blocks) + 1 /\ Len(blocks) \in Nat
    BY <1>1, <2>1 DEF BlockTypes
  <2>3. QED
    BY <1>1, <2>1, <2>2, ConstantsAssumption DEF BlockTypes, BlocksAreCounted
<1>3. CASE SwitchUnblock
  <2>1. /\ switch_blocking' = switch_blocking - 1 /\ blocks' = SubSeq(blocks, 1, Len(blocks) - 1)
        /\ blocks # << >> /\ UNCHANGED fatal
    BY <1>3 DEF SwitchUnblock
  <2>2. Len(blocks) \in Nat /\ Len(blocks) # 0
    BY <1>1, <2>1 DEF BlockTypes
  <2>3. blocks' \in Seq(Contexts) /\ Len(blocks') = Len(blocks) - 1
    <3> DEFINE n == Len(blocks) - 1
    <3>1. n \in 0 .. Len(blocks) /\ blocks \in Seq(Contexts)
      BY <1>1, <2>2 DEF BlockTypes
    <3> HIDE DEF n
    <3>2. SubSeq(blocks, 1, n) \in Seq(Contexts) /\ Len(SubSeq(blocks, 1, n)) = n
      BY <3>1, PrefixFacts
    <3>3. QED
      BY <2>1, <3>2 DEF n
  <2>4. QED
    BY <1>1, <2>1, <2>2, <2>3, ConstantsAssumption DEF BlockTypes, BlocksAreCounted
<1>4. CASE FatalError \/ ForwardBailout
  <2>1. Bailout /\ UNCHANGED switch_blocking /\ fatal' = TRUE
    BY <1>4, ArrivalFacts DEF FatalError, ForwardBailout
  <2>2. PICK n \in 0 .. Len(blocks) : blocks' \in Seq(Contexts) /\ Len(blocks') = n
    BY <1>1, <2>1, BailoutBlocks DEF BlockTypes
  <2>3. QED
    BY <1>1, <2>1, <2>2 DEF BlockTypes, BlocksAreCounted
<1>5. CASE NextRequest
  <2>1. switch_blocking' = 0 /\ blocks' = << >>
    BY <1>5 DEF NextRequest
  <2>2. Len(<< >>) = 0 /\ << >> \in Seq(Contexts)
    OBVIOUS
  <2>3. QED
    BY <2>1, <2>2, ConstantsAssumption DEF BlockTypes, BlocksAreCounted
<1>6. CASE UNCHANGED <<switch_blocking, blocks, fatal>>
  BY <1>1, <1>6 DEF BlockTypes, BlocksAreCounted
<1>7. QED
  BY <1>2, <1>3, <1>4, <1>5, <1>6 DEF Next, EnterFunction, ReturnFromSwitch, Suspend, GetCurrent,
     EndFunction, Construct, Start, Drop, DelDestroy, DelFree, Resume, EndScript, CallDestructor,
     DestructorsDone, blkvars

\* Every step keeps every variable's type.
LEMMA TypesStep == ASSUME Local, Next PROVE TypeOK'
<1>1. /\ ObjectTypes' /\ PhaseTypes' /\ LinkTypes' /\ ContextTypes' /\ SwitchTypes' /\ BlockTypes'
  BY ObjectTypesStep, PhaseTypesStep, LinkTypesStep, ContextTypesStep, SwitchTypesStep, BlocksStep
<1>2. (TypeOK <=> ObjectTypes /\ PhaseTypes /\ LinkTypes /\ ContextTypes /\ SwitchTypes /\ BlockTypes)'
  BY TypeParts, PTL
<1>3. QED
  BY <1>1, <1>2

------------------------------------------------------------------------------
(* Control.                                                                *)

\* The part of the invariant that switches disturb.
Switching == OneRuns /\ FramesAreOwn /\ CallersWait /\ FiberFacts /\ Arrival /\ VmStateIsOwn

\* Entering a fiber that is not on the call stack.
LEMMA EnteringKeepsControl ==
  ASSUME Local, TypeOK', NEW f \in Fibers, f # current, pc # Arrive, pc' = Arrive,
         caller[f] = NULL, status[f] \in {"INIT", "SUSPENDED"}, f \in objects,
         NEW by \in Resumers, NEW flag \in {"none", "error"}, Entered(f, by, flag),
         UNCHANGED <<objects, held>>,
         previous'[f] = f, \A g \in Fibers : g # f => previous'[g] = previous[g],
         \A g \in Fibers : g # f => (g \in destroyed' <=> g \in destroyed),
         status[f] = "INIT" => f \notin destroyed' /\ prev_frame'[f] = NULL
  PROVE  Switching'
<1>1. /\ OneRuns /\ FramesAreOwn /\ CallersWait /\ FiberFacts /\ VmStateIsOwn
      /\ current \in Contexts /\ f \in Contexts /\ f # Main /\ current # NULL
  BY ContextFacts DEF Local, TypeOK
<1>2. frame[current].by = "none" /\ status[current] = "RUNNING"
  BY <1>1 DEF OneRuns
<1>3. by # "none" /\ by # "suspend" /\ by \in Resumers
  BY DEF Resumers
<1>4. vm.active_fiber = FiberOf(current) /\ vm.stack = current /\ vm.bailout = current
  BY <1>1 DEF VmStateIsOwn, FiberOf
<1>5. frame[f].by = IF status[f] = "INIT" THEN "none" ELSE "suspend"
  <2>1. frame[f].by \in {"none", "suspend"} \cup Resumers
    BY <1>1, RecordTypes DEF Local, TypeOK, FrameType
  <2>2. frame[f].by \notin Resumers
    BY <1>1 DEF FramesAreOwn, Live
  <2>3. QED
    BY <1>1, <2>1, <2>2 DEF OneRuns
<1>6. \A g \in Fibers : g # f /\ g # current => (Live(g)' <=> Live(g))
  BY <1>1, ContextFacts DEF Live, Entered
<1> PICK p \in Contexts : p = current
  BY <1>1
<1>7. Live(f)' /\ (p \in Fibers => Live(p) /\ Live(p)')
  BY <1>1, <1>2 DEF Live, Entered, FiberFacts
<1>8. \A g \in Fibers : Live(g) => caller[g] # f /\ g # f
  BY <1>1, <1>5 DEF CallersWait, FramesAreOwn, Live
<1>9. OneRuns'
  BY <1>1, <1>3, <1>5, ContextFacts DEF OneRuns, Entered
<1>10. FramesAreOwn'
  <2> SUFFICES ASSUME NEW c \in Contexts
               PROVE  (/\ frame[c].by # "none" => frame[c].vm.stack = c /\ frame[c].vm.bailout = c
                       /\ frame[c].by = "suspend" =>
                            /\ c \in Fibers /\ frame[c].vm.active_fiber = c
                            /\ c # current => caller[c] = NULL
                       /\ frame[c].by \in Resumers =>
                            /\ frame[c].fiber \in Fibers /\ frame[c].previous = FiberOf(c)
                            /\ c \in Fibers => Live(c)
                            /\ c # current => Live(frame[c].fiber) /\ caller[frame[c].fiber] = c)'
    BY DEF FramesAreOwn
  <2>1. CASE c = current
    BY <1>1, <1>3, <1>4, <1>7, <2>1 DEF Entered, FiberOf
  <2>2. CASE c = f
    BY <1>1, <1>5, <1>3, <2>2 DEF Entered, FramesAreOwn, Resumers
  <2>3. CASE c # f /\ c # current
    <3>1. frame'[c] = frame[c]
      BY <1>1, <2>3 DEF Entered
    <3>2. c \in Fibers => caller'[c] = caller[c] /\ (Live(c)' <=> Live(c))
      BY <1>6, <2>3 DEF Entered
    <3>3. frame[c].by \in Resumers =>
            LET g == frame[c].fiber
            IN  g \in Fibers /\ Live(g) /\ caller[g] = c /\ g # f
      BY <1>1, <1>8, <2>3 DEF FramesAreOwn
    <3>4. ASSUME frame[c].by \in Resumers
          PROVE  frame'[c].fiber \in Fibers /\ Live(frame[c].fiber)' /\ caller'[frame'[c].fiber] = c
      <4>1. PICK g \in Fibers : g = frame[c].fiber
        BY <3>3, <3>4
      <4>2. Live(g)' /\ caller'[g] = c
        BY <1>6, <1>7, <3>3, <3>4, <4>1 DEF Entered
      <4>3. QED
        BY <3>1, <4>1, <4>2 DEF Live
    <3>5. QED
      BY <1>1, <2>3, <3>1, <3>2, <3>3, <3>4 DEF FramesAreOwn, FiberOf
  <2>4. QED
    BY <2>1, <2>2, <2>3
<1>11. CallersWait'
  <2> SUFFICES ASSUME NEW g \in Fibers, Live(g)'
               PROVE  (/\ g \in objects /\ status[g] \in {"RUNNING", "SUSPENDED"}
                       /\ caller[g] \in Contexts /\ caller[g] # current
                       /\ frame[caller[g]].by \in Resumers /\ frame[caller[g]].fiber = g)'
    BY DEF CallersWait
  <2>1. CASE g = f
    BY <1>1, <1>3, <2>1 DEF Entered
  <2>2. CASE g # f
    <3>1. Live(g) /\ caller[g] # f /\ caller'[g] = caller[g]
      BY <1>6, <1>7, <1>8, <2>2 DEF Entered
    <3>2. caller[g] # current /\ caller[g] \in Contexts
      BY <1>1, <3>1 DEF CallersWait
    <3>3. frame'[caller[g]] = frame[caller[g]]
      BY <3>2 DEF Entered
    <3>4. status'[g] \in {"RUNNING", "SUSPENDED"}
      BY <1>1, <2>2, <3>1, ContextFacts DEF Entered, CallersWait
    <3>5. QED
      BY <1>1, <3>1, <3>2, <3>3, <3>4 DEF CallersWait, Entered
  <2>3. QED
    BY <2>1, <2>2
<1>12. FiberFacts'
  <2>1. held' \subseteq objects'
    BY <1>1 DEF FiberFacts
  <2> SUFFICES ASSUME NEW g \in Fibers
               PROVE  (/\ status[g] = "INIT" => caller[g] = NULL /\ g \notin destroyed
                       /\ status[g] = "RUNNING" => caller[g] # NULL
                       /\ status[g] \in {"RUNNING", "SUSPENDED"} => previous[g] = g
                       /\ g \notin objects => status[g] = "INIT"
                       /\ status[g] = "DEAD" /\ caller[g] # NULL => pc = Arrive /\ transfer.from = g
                       /\ g \in destroyed => status[g] = "DEAD" \/ Live(g))'
    BY <2>1 DEF FiberFacts
  <2>2. CASE g = f
    BY <1>1, <1>7, <2>2 DEF Entered
  <2>3. CASE g # f
    <3>1. caller'[g] = caller[g] /\ previous'[g] = previous[g] /\ (g \in destroyed' <=> g \in destroyed)
      BY <2>3 DEF Entered
    <3>2. CASE g = current
      BY <1>1, <1>2, <1>7, <3>1, <3>2 DEF FiberFacts, Entered
    <3>3. CASE g # current
      <4>1. status'[g] = status[g] /\ (Live(g)' <=> Live(g))
        BY <1>6, <2>3, <3>3, ContextFacts DEF Entered
      <4>2. QED
        BY <1>1, <3>1, <4>1 DEF FiberFacts
    <3>4. QED
      BY <3>2, <3>3
  <2>4. QED
    BY <2>2, <2>3
<1>13. Arrival'
  <2>1. frame'[f].by = IF status[f] = "INIT" THEN "none" ELSE "suspend"
    BY <1>1, <1>5 DEF Entered
  <2>2. /\ status'[current] # "DEAD" /\ status'[current] # "INIT"
        /\ transfer'.from = current /\ transfer'.flag # "bailout"
    BY DEF Entered
  <2>3. /\ current' = f /\ vm'.active_fiber = f /\ vm'.stack = caller'[f]
    BY <1>4 DEF Entered
  <2>4. frame'[f].by \notin Resumers
    BY <2>1 DEF Resumers
  <2>5. QED
    BY <1>1, <2>1, <2>2, <2>3, <2>4 DEF Arrival
<1>14. VmStateIsOwn'
  BY DEF VmStateIsOwn
<1>15. QED
  BY <1>9, <1>10, <1>11, <1>12, <1>13, <1>14 DEF Switching

\* Leaving the running fiber for its caller: suspended, or dead. Fibers that are dead
\* already have no caller any more.
LEMMA LeavingKeepsControl ==
  ASSUME Local, current # Main,
         NEW left_as \in {"SUSPENDED", "DEAD"}, NEW flag \in {"none", "error", "bailout"},
         Left(left_as, flag), UNCHANGED <<objects, held, destroyed>>,
         \A g \in Fibers : previous'[g] = previous[g],
         \A g \in Fibers : g # current => caller'[g] = IF status[g] = "DEAD" THEN NULL ELSE caller[g],
         \A c \in Contexts : c # current => frame'[c] = frame[c],
         left_as = "SUSPENDED" =>
           /\ caller'[current] = NULL /\ flag = "none" /\ current \notin destroyed
           /\ frame'[current].by = "suspend" /\ frame'[current].vm.stack = current
           /\ frame'[current].vm.bailout = current /\ frame'[current].vm.active_fiber = current,
         left_as = "DEAD" =>
           caller'[current] = caller[current] /\ frame'[current].by = "none",
         flag = "bailout" => fatal'
  PROVE  Switching'
<1>1. /\ OneRuns /\ FramesAreOwn /\ CallersWait /\ FiberFacts
      /\ current \in Contexts
  BY DEF Local, TypeOK
<1> PICK p \in Contexts : p = current
  BY <1>1
<1> PICK r : r = caller[current]
  OBVIOUS
<1>2. /\ p \in Fibers /\ Live(p) /\ r \in Contexts /\ r # p /\ r # NULL
      /\ frame[r].by \in Resumers /\ frame[r].fiber = p
  BY RunningIsLive, ContextFacts
<1>3. current' = r /\ pc' = Arrive /\ transfer'.from = p /\ transfer'.flag = flag
      /\ status'[r] = "RUNNING" /\ status'[p] = left_as
      /\ \A c \in Contexts : c # r /\ c # p => status'[c] = status[c]
  BY DEF Left
<1>4. frame'[r] = frame[r] /\ "none" \notin Resumers /\ "suspend" \notin Resumers
  BY <1>2 DEF Resumers
<1>5. r \in Fibers => Live(r) /\ status[r] # "DEAD" /\ caller[r] # NULL
  BY <1>1, <1>2 DEF FramesAreOwn, Live
<1>6. ~Live(p)'
  BY <1>3 DEF Live
<1>7. \A g \in Fibers : g # p => (Live(g)' <=> Live(g)) /\ (Live(g) => caller'[g] = caller[g])
  <2> TAKE g \in Fibers
  <2>1. CASE g = r
    BY <1>2, <1>3, <1>5, <2>1 DEF Live
  <2>2. CASE g # r
    BY <1>3, <2>2, ContextFacts DEF Live
  <2>3. QED
    BY <2>1, <2>2
<1>8. \A g \in Fibers : Live(g) /\ g # p => caller[g] # r /\ caller[g] # p /\ caller[g] \in Contexts
  BY <1>1, <1>2 DEF CallersWait
<1>9. OneRuns'
  <2>1. \A c \in Contexts : c # r =>
          status'[c] # "RUNNING" /\ (status'[c] = "SUSPENDED" <=> frame'[c].by # "none")
    <3> TAKE c \in Contexts
    <3>1. CASE c = p
      BY <1>3, <3>1
    <3>2. CASE c # p
      BY <1>1, <1>3, <3>2 DEF OneRuns
    <3>3. QED
      BY <3>1, <3>2
  <2>2. status'[Main] \in {"RUNNING", "SUSPENDED"}
    BY <1>1, <1>2, <1>3, ContextFacts DEF OneRuns
  <2>3. QED
    BY <1>3, <2>1, <2>2 DEF OneRuns
<1>10. FramesAreOwn'
  <2> SUFFICES ASSUME NEW c \in Contexts
               PROVE  (/\ frame[c].by # "none" => frame[c].vm.stack = c /\ frame[c].vm.bailout = c
                       /\ frame[c].by = "suspend" =>
                            /\ c \in Fibers /\ frame[c].vm.active_fiber = c
                            /\ c # current => caller[c] = NULL
                       /\ frame[c].by \in Resumers =>
                            /\ frame[c].fiber \in Fibers /\ frame[c].previous = FiberOf(c)
                            /\ c \in Fibers => Live(c)
                            /\ c # current => Live(frame[c].fiber) /\ caller[frame[c].fiber] = c)'
    BY DEF FramesAreOwn
  <2>1. CASE c = p
    BY <1>2, <1>4, <2>1
  <2>2. CASE c = r
    BY <1>1, <1>2, <1>3, <1>4, <1>5, <1>7, <2>2 DEF FramesAreOwn, FiberOf
  <2>3. CASE c # p /\ c # r
    <3>1. frame'[c] = frame[c]
      BY <2>3
    <3>2. /\ frame[c].by # "none" => frame'[c].vm.stack = c /\ frame'[c].vm.bailout = c
          /\ frame[c].by = "suspend" =>
               /\ c \in Fibers /\ frame'[c].vm.active_fiber = c /\ caller'[c] = NULL
      BY <1>1, <2>3, <3>1 DEF FramesAreOwn
    <3>3. ASSUME frame[c].by \in Resumers
          PROVE  /\ frame'[c].fiber \in Fibers /\ frame'[c].previous = FiberOf(c)
                 /\ c \in Fibers => Live(c)'
                 /\ Live(frame[c].fiber)' /\ caller'[frame'[c].fiber] = c
      <4>1. PICK g \in Fibers : g = frame[c].fiber
        BY <1>1, <3>3 DEF FramesAreOwn
      <4>2. Live(g) /\ caller[g] = c /\ (c \in Fibers => Live(c)) /\ frame[c].previous = FiberOf(c)
        BY <1>1, <2>3, <3>3, <4>1 DEF FramesAreOwn
      <4>3. g # p
        BY <2>3, <4>2
      <4>4. Live(g)' /\ caller'[g] = c
        BY <1>7, <4>2, <4>3
      <4>5. QED
        BY <1>7, <2>3, <3>1, <4>1, <4>2, <4>4 DEF Live
    <3>4. QED
      BY <3>1, <3>2, <3>3 DEF FiberOf
  <2>4. QED
    BY <2>1, <2>2, <2>3
<1>11. CallersWait'
  <2> SUFFICES ASSUME NEW g \in Fibers, Live(g)'
               PROVE  (/\ g \in objects /\ status[g] \in {"RUNNING", "SUSPENDED"}
                       /\ caller[g] \in Contexts /\ caller[g] # current
                       /\ frame[caller[g]].by \in Resumers /\ frame[caller[g]].fiber = g)'
    BY DEF CallersWait
  <2>1. g # p /\ Live(g) /\ caller'[g] = caller[g]
    BY <1>6, <1>7
  <2>2. caller[g] # r /\ caller[g] # p /\ caller[g] \in Contexts
    BY <1>8, <2>1
  <2>3. status'[g] \in {"RUNNING", "SUSPENDED"}
    <3>1. CASE g = r
      BY <1>3, <3>1
    <3>2. CASE g # r
      BY <1>1, <1>3, <2>1, <3>2, ContextFacts DEF CallersWait
    <3>3. QED
      BY <3>1, <3>2
  <2>4. frame'[caller[g]] = frame[caller[g]]
    BY <2>2
  <2>5. QED
    BY <1>1, <1>3, <2>1, <2>2, <2>3, <2>4 DEF CallersWait
<1>12. FiberFacts'
  <2>1. held' \subseteq objects'
    BY <1>1 DEF FiberFacts
  <2> SUFFICES ASSUME NEW g \in Fibers
               PROVE  (/\ status[g] = "INIT" => caller[g] = NULL /\ g \notin destroyed
                       /\ status[g] = "RUNNING" => caller[g] # NULL
                       /\ status[g] \in {"RUNNING", "SUSPENDED"} => previous[g] = g
                       /\ g \notin objects => status[g] = "INIT"
                       /\ status[g] = "DEAD" /\ caller[g] # NULL => pc = Arrive /\ transfer.from = g
                       /\ g \in destroyed => status[g] = "DEAD" \/ Live(g))'
    BY <2>1 DEF FiberFacts
  <2>2. CASE g = p
    <3>1. g \in objects /\ status[g] = "RUNNING" /\ previous[g] = g
      BY <1>1, <1>2, <2>2 DEF CallersWait, OneRuns, FiberFacts
    <3>2. QED
      BY <1>3, <2>2, <3>1
  <2>3. CASE g = r
    BY <1>1, <1>2, <1>3, <1>5, <1>7, <2>3 DEF FiberFacts, CallersWait
  <2>4. CASE g # p /\ g # r
    <3>1. status'[g] = status[g] /\ previous'[g] = previous[g] /\ (Live(g)' <=> Live(g))
      BY <1>3, <1>7, <2>4, ContextFacts
    <3>2. caller'[g] = IF status[g] = "DEAD" THEN NULL ELSE caller[g]
      BY <2>4
    <3>3. QED
      BY <1>1, <3>1, <3>2 DEF FiberFacts
  <2>5. QED
    BY <2>2, <2>3, <2>4
<1>13. Arrival'
  <2>1. frame'[r].by \in Resumers /\ frame'[r].fiber = p
    BY <1>2, <1>4
  <2>2. frame'[r].by \notin {"none", "suspend"}
    BY <1>4, <2>1
  <2>3. QED
    BY <1>2, <1>3, <1>6, <2>1, <2>2 DEF Arrival, Live
<1>14. VmStateIsOwn'
  BY <1>3 DEF VmStateIsOwn
<1>15. QED
  BY <1>9, <1>10, <1>11, <1>12, <1>13, <1>14 DEF Switching

\* The running context goes on, in PHP code of its own.
LEMMA StayingKeepsControl ==
  ASSUME Local, UNCHANGED <<current, status, previous, destroyed>>, pc' # Arrive, transfer' = NoTransfer,
         objects \subseteq objects', held' \subseteq objects',
         frame'[current].by = "none", \A c \in Contexts : c # current => frame'[c] = frame[c],
         \A g \in Fibers : caller'[g] = IF status[g] = "DEAD" THEN NULL ELSE caller[g],
         vm'.stack = current, vm'.bailout = current, vm'.active_fiber = FiberOf(current)
  PROVE  Switching'
<1>1. /\ OneRuns /\ FramesAreOwn /\ CallersWait /\ FiberFacts
      /\ current \in Contexts
  BY DEF Local, TypeOK
<1>2. \A g \in Fibers : (Live(g)' <=> Live(g)) /\ (Live(g) => caller'[g] = caller[g])
  BY DEF Live
<1>3. "none" \notin Resumers
  BY DEF Resumers
<1>4. OneRuns'
  BY <1>1 DEF OneRuns
<1>5. FramesAreOwn'
  <2> SUFFICES ASSUME NEW c \in Contexts
               PROVE  (/\ frame[c].by # "none" => frame[c].vm.stack = c /\ frame[c].vm.bailout = c
                       /\ frame[c].by = "suspend" =>
                            /\ c \in Fibers /\ frame[c].vm.active_fiber = c
                            /\ c # current => caller[c] = NULL
                       /\ frame[c].by \in Resumers =>
                            /\ frame[c].fiber \in Fibers /\ frame[c].previous = FiberOf(c)
                            /\ c \in Fibers => Live(c)
                            /\ c # current => Live(frame[c].fiber) /\ caller[frame[c].fiber] = c)'
    BY DEF FramesAreOwn
  <2>1. CASE c = current
    BY <1>3, <2>1
  <2>2. CASE c # current
    <3>1. frame'[c] = frame[c]
      BY <2>2
    <3>2. /\ frame[c].by # "none" => frame'[c].vm.stack = c /\ frame'[c].vm.bailout = c
          /\ frame[c].by = "suspend" =>
               /\ c \in Fibers /\ frame'[c].vm.active_fiber = c /\ caller'[c] = NULL
      BY <1>1, <2>2, <3>1 DEF FramesAreOwn
    <3>3. ASSUME frame[c].by \in Resumers
          PROVE  /\ frame'[c].fiber \in Fibers /\ frame'[c].previous = FiberOf(c)
                 /\ c \in Fibers => Live(c)'
                 /\ Live(frame[c].fiber)' /\ caller'[frame'[c].fiber] = c
      <4>1. PICK g \in Fibers : g = frame[c].fiber
        BY <1>1, <3>3 DEF FramesAreOwn
      <4>2. Live(g) /\ caller[g] = c /\ (c \in Fibers => Live(c)) /\ frame[c].previous = FiberOf(c)
        BY <1>1, <2>2, <3>3, <4>1 DEF FramesAreOwn
      <4>3. Live(g)' /\ caller'[g] = c
        BY <1>2, <4>2
      <4>4. QED
        BY <1>2, <3>1, <4>1, <4>2, <4>3 DEF Live
    <3>4. QED
      BY <3>1, <3>2, <3>3 DEF FiberOf
  <2>3. QED
    BY <2>1, <2>2
<1>6. CallersWait'
  <2> SUFFICES ASSUME NEW g \in Fibers, Live(g)'
               PROVE  (/\ g \in objects /\ status[g] \in {"RUNNING", "SUSPENDED"}
                       /\ caller[g] \in Contexts /\ caller[g] # current
                       /\ frame[caller[g]].by \in Resumers /\ frame[caller[g]].fiber = g)'
    BY DEF CallersWait
  <2>1. Live(g) /\ caller'[g] = caller[g]
    BY <1>2
  <2>2. frame'[caller[g]] = frame[caller[g]]
    BY <1>1, <2>1 DEF CallersWait
  <2>3. QED
    BY <1>1, <2>1, <2>2 DEF CallersWait
<1>7. FiberFacts'
  BY <1>1, <1>2 DEF FiberFacts
<1>8. Arrival' /\ VmStateIsOwn'
  BY DEF Arrival, VmStateIsOwn, FiberOf
<1>9. QED
  BY <1>4, <1>5, <1>6, <1>7, <1>8 DEF Switching

\* While PHP code runs no dead fiber has a caller any more.
LEMMA DeadHaveNoCaller ==
  ASSUME Local, \A c \in Contexts : pc = Arrive /\ c = transfer.from => status[c] # "DEAD"
  PROVE  \A g \in Fibers : caller[g] = IF status[g] = "DEAD" THEN NULL ELSE caller[g]
BY ContextFacts DEF Local, FiberFacts

\* A step that does not touch the contexts.
LEMMA QuietKeepsControl ==
  ASSUME Local, UNCHANGED <<ctxvars, destroyed>>, pc # Arrive, pc' # Arrive,
         objects \subseteq objects', held' \subseteq objects'
  PROVE  Switching'
<1>1. UNCHANGED <<status, caller, previous, current, vm, frame, transfer>>
  BY DEF ctxvars
<1>2. transfer' = NoTransfer /\ frame'[current].by = "none"
  BY <1>1 DEF Local, Arrival, OneRuns
<1>3. vm'.stack = current /\ vm'.bailout = current /\ vm'.active_fiber = FiberOf(current)
  BY <1>1 DEF Local, VmStateIsOwn, FiberOf
<1>4. \A g \in Fibers : caller'[g] = IF status[g] = "DEAD" THEN NULL ELSE caller[g]
  BY <1>1, DeadHaveNoCaller
<1>5. QED
  BY <1>1, <1>2, <1>3, <1>4, StayingKeepsControl

\* The cleanup of the sender takes its caller from it, if it is dead.
LEMMA CleanupCallers ==
  ASSUME Local, pc = Arrive, DestroyDeadSender
  PROVE  \A g \in Fibers : caller'[g] = IF status[g] = "DEAD" THEN NULL ELSE caller[g]
<1> TAKE g \in Fibers
<1>1. CASE status[g] # "DEAD"
  BY <1>1, CleanupFacts
<1>2. CASE status[g] = "DEAD" /\ g = transfer.from
  BY <1>2, CleanupFacts
<1>3. CASE status[g] = "DEAD" /\ g # transfer.from
  BY <1>3, CleanupFacts DEF Local, FiberFacts
<1>4. QED
  BY <1>1, <1>2, <1>3

\* The call that was pending is over: the globals are those of this context again.
LEMMA RestoredFacts ==
  ASSUME Local, pc = Arrive, frame[current].by # "none", NEW a \in MaybeFiber,
         a = IF frame[current].by = "suspend" THEN frame[current].vm.active_fiber ELSE frame[current].previous
  PROVE  /\ a = FiberOf(current)
         /\ frame[current].vm.stack = current /\ frame[current].vm.bailout = current
<1>1. /\ frame[current].by \in {"suspend"} \cup Resumers /\ current \in Contexts
  BY ArrivalFacts
<1>2. QED
  BY <1>1, ContextFacts DEF Local, FramesAreOwn, FiberOf, Resumers

\* With the main program running, no fiber is on the call stack.
Alone == current = Main => \A f \in Fibers : ~Live(f)

\* The first arrival in a fiber keeps it.
LEMMA EnterFunctionKeepsControl == ASSUME Local, EnterFunction PROVE Switching'
<1>1. pc = Arrive /\ frame[current].by = "none" /\ pc' = User /\ transfer' = NoTransfer
      /\ UNCHANGED <<current, status, previous, destroyed, objects, held, frame, caller>>
      /\ vm' = [vm EXCEPT !.stack = current, !.bailout = current]
  BY DEF EnterFunction, objvars
<1>2. current \in Fibers /\ vm.active_fiber = current /\ status[transfer.from] # "DEAD"
  BY <1>1 DEF Local, Arrival
<1>3. vm \in VmStates /\ current # Main
  BY <1>2, ContextFacts DEF Local, TypeOK
<1>4. vm'.stack = current /\ vm'.bailout = current /\ vm'.active_fiber = FiberOf(current)
  BY <1>1, <1>2, <1>3 DEF VmStates, FiberOf
<1>5. \A g \in Fibers : caller'[g] = IF status[g] = "DEAD" THEN NULL ELSE caller[g]
  BY <1>1, <1>2, DeadHaveNoCaller
<1>6. held \subseteq objects /\ pc' # Arrive
  BY <1>1, PcFacts DEF Local, FiberFacts
<1>7. QED
  BY <1>1, <1>4, <1>5, <1>6, StayingKeepsControl

\* The globals that zend_fiber_switch_context leaves when it returns.
LEMMA RestoredVmFacts ==
  ASSUME Local, pc = Arrive, frame[current].by # "none"
  PROVE  LET v == RestoredVm(frame[current])
         IN  v.stack = current /\ v.bailout = current /\ v.active_fiber = FiberOf(current)
<1> DEFINE fr == frame[current]
<1>1. fr \in FrameType /\ fr.by \in {"none", "suspend"} \cup Resumers
  BY ArrivalFacts
<1>2. fr.vm \in VmStates /\ fr.vm.active_fiber \in MaybeFiber /\ fr.previous \in MaybeFiber
  BY <1>1, RecordTypes
<1>3. CASE fr.by = "suspend"
  <2>1. RestoredVm(fr) = fr.vm
    BY <1>3 DEF RestoredVm
  <2>2. fr.vm.active_fiber = FiberOf(current) /\ fr.vm.stack = current /\ fr.vm.bailout = current
    BY <1>2, <1>3, RestoredFacts
  <2>3. QED
    BY <2>1, <2>2
<1>4. CASE fr.by # "suspend"
  <2>1. RestoredVm(fr) = [fr.vm EXCEPT !.active_fiber = fr.previous]
    BY <1>4 DEF RestoredVm
  <2>2. fr.previous = FiberOf(current) /\ fr.vm.stack = current /\ fr.vm.bailout = current
    BY <1>2, <1>4, RestoredFacts
  <2> HIDE DEF fr
  <2>3. /\ RestoredVm(fr).active_fiber = fr.previous
        /\ RestoredVm(fr).stack = fr.vm.stack /\ RestoredVm(fr).bailout = fr.vm.bailout
    BY <1>2, <2>1 DEF VmStates
  <2>4. QED
    BY <2>2, <2>3 DEF fr
<1>5. QED
  BY <1>3, <1>4

\* A returning zend_fiber_switch_context keeps it.
LEMMA ReturnKeepsControl == ASSUME Local, ReturnFromSwitch PROVE Switching'
<1>1. /\ pc = Arrive /\ frame[current].by # "none" /\ transfer' = NoTransfer
      /\ UNCHANGED <<current, status, previous, destroyed, objects, held>>
      /\ frame' = [frame EXCEPT ![current] = NoFrame]
      /\ vm' = RestoredVm(frame[current]) /\ DestroyDeadSender
  BY DEF ReturnFromSwitch, objvars
<1>2. pc' # Arrive
  BY PcFacts DEF ReturnFromSwitch
<1>3. vm'.stack = current /\ vm'.bailout = current /\ vm'.active_fiber = FiberOf(current)
  BY <1>1, RestoredVmFacts
<1>4. frame'[current].by = "none" /\ \A c \in Contexts : c # current => frame'[c] = frame[c]
  BY <1>1, NothingFacts DEF Local, TypeOK
<1>5. \A g \in Fibers : caller'[g] = IF status[g] = "DEAD" THEN NULL ELSE caller[g]
  BY <1>1, CleanupCallers
<1>6. held \subseteq objects
  BY DEF Local, FiberFacts
<1>7. QED
  BY <1>1, <1>2, <1>3, <1>4, <1>5, <1>6, StayingKeepsControl

\* A fatal error keeps it, in the main program and in a fiber.
LEMMA FatalKeepsControl == ASSUME Local, FatalError PROVE Switching'
<1>1. /\ pc # Arrive /\ Bailout /\ fatal'
      /\ UNCHANGED <<objects, held, destroyed, caller, previous, vm, frame>>
  BY PcFacts DEF FatalError, InUserCode
<1>2. frame[current].by = "none" /\ held \subseteq objects /\ current \in Contexts
  BY <1>1 DEF Local, OneRuns, FiberFacts, TypeOK
<1>3. \A g \in Fibers : caller[g] = IF status[g] = "DEAD" THEN NULL ELSE caller[g]
  BY <1>1, DeadHaveNoCaller
<1>4. CASE current = Main
  <2>1. UNCHANGED <<current, status>> /\ transfer' = NoTransfer /\ pc' # Arrive
    BY <1>1, <1>4, PcFacts DEF Bailout
  <2>2. vm'.stack = current /\ vm'.bailout = current /\ vm'.active_fiber = FiberOf(current)
    BY <1>1 DEF Local, VmStateIsOwn, FiberOf
  <2>3. QED
    BY <1>1, <1>2, <1>3, <2>1, <2>2, StayingKeepsControl
<1>5. CASE current # Main
  <2>1. Left("DEAD", "bailout")
    BY <1>1, <1>5, EndFacts DEF Bailout
  <2>2. QED
    BY <1>1, <1>2, <1>3, <1>5, <2>1, LeavingKeepsControl
<1>6. QED
  BY <1>4, <1>5

\* A forwarded bailout keeps it.
LEMMA ForwardKeepsControl == ASSUME Local, ForwardBailout PROVE Switching'
<1>1. /\ pc = Arrive /\ frame[current].by # "none" /\ Bailout /\ DestroyDeadSender
      /\ transfer.flag = "bailout"
      /\ UNCHANGED <<objects, held, destroyed, previous, fatal>>
      /\ frame' = [frame EXCEPT ![current] = NoFrame]
      /\ vm' = [frame[current].vm EXCEPT !.active_fiber = NULL]
  BY DEF ForwardBailout
<1>2. fatal /\ held \subseteq objects /\ current \in Contexts /\ frame[current] \in FrameType
  BY <1>1, ArrivalFacts DEF Local, FiberFacts
<1>3. \A g \in Fibers : caller'[g] = IF status[g] = "DEAD" THEN NULL ELSE caller[g]
  BY <1>1, CleanupCallers
<1>4. frame'[current].by = "none" /\ \A c \in Contexts : c # current => frame'[c] = frame[c]
  BY <1>1, NothingFacts DEF Local, TypeOK
<1>5. CASE current = Main
  <2>1. UNCHANGED <<current, status>> /\ transfer' = NoTransfer /\ pc' # Arrive
    BY <1>1, <1>5, PcFacts DEF Bailout
  <2>2. frame[current].vm \in VmStates
    BY <1>2, RecordTypes
  <2>3. frame[current].vm.stack = current /\ frame[current].vm.bailout = current
    BY <1>1, <1>2 DEF Local, FramesAreOwn
  <2>4. vm'.stack = current /\ vm'.bailout = current /\ vm'.active_fiber = FiberOf(current)
    BY <1>1, <1>5, <2>2, <2>3 DEF VmStates, FiberOf
  <2>5. QED
    BY <1>1, <1>2, <1>3, <1>4, <2>1, <2>4, StayingKeepsControl
<1>6. CASE current # Main
  <2>1. Left("DEAD", "bailout")
    BY <1>1, <1>6, EndFacts DEF Bailout
  <2>2. caller'[current] = caller[current] /\ fatal'
    BY <1>1, <1>2, <1>3, <1>6, RunningIsLive DEF Live
  <2>3. QED
    BY <1>1, <1>3, <1>4, <1>6, <2>1, <2>2, LeavingKeepsControl
<1>7. QED
  BY <1>5, <1>6

\* Fiber::suspend keeps it.
LEMMA SuspendKeepsControl == ASSUME Local, Suspend PROVE Switching'
<1>1. pc # Arrive /\ UNCHANGED <<objects, held, destroyed>>
  BY PcFacts DEF Suspend, InUserCode, objvars
<1>2. /\ current \in Fibers /\ current # Main /\ current \notin destroyed
      /\ Left("SUSPENDED", "none")
      /\ caller'[current] = NULL /\ \A g \in Fibers : g # current => caller'[g] = caller[g]
      /\ previous'[current] = current
      /\ \A g \in Fibers : g # current => previous'[g] = previous[g]
      /\ frame'[current].by = "suspend" /\ frame'[current].vm = vm
      /\ \A c \in Contexts : c # current => frame'[c] = frame[c]
  BY SuspendFacts
<1>3. vm.stack = current /\ vm.bailout = current /\ vm.active_fiber = current
  BY <1>1, <1>2 DEF Local, VmStateIsOwn
<1>4. \A g \in Fibers : caller[g] = IF status[g] = "DEAD" THEN NULL ELSE caller[g]
  BY <1>1, DeadHaveNoCaller
<1>5. previous[current] = current
  BY <1>2 DEF Local, OneRuns, FiberFacts
<1>6. \A g \in Fibers : previous'[g] = previous[g]
  BY <1>2, <1>5
<1>7. QED
  BY <1>1, <1>2, <1>3, <1>4, <1>6, LeavingKeepsControl

\* The end of a fiber's function keeps it.
LEMMA EndKeepsControl ==
  ASSUME Local, NEW flag \in {"none", "error"}, EndFunction(flag) PROVE Switching'
<1>1. /\ pc # Arrive /\ current # Main /\ SwitchContext(Resumer(current), "DEAD", flag)
      /\ UNCHANGED <<objects, held, destroyed, caller, previous, frame>>
  BY PcFacts DEF EndFunction, InUserCode, objvars
<1>2. Left("DEAD", flag)
  BY <1>1, EndFacts
<1>3. frame[current].by = "none"
  BY <1>1 DEF Local, OneRuns
<1>4. \A g \in Fibers : caller[g] = IF status[g] = "DEAD" THEN NULL ELSE caller[g]
  BY <1>1, DeadHaveNoCaller
<1>5. flag \in {"none", "error", "bailout"} /\ flag # "bailout"
  OBVIOUS
<1>6. QED
  BY <1>1, <1>2, <1>3, <1>4, <1>5, LeavingKeepsControl

\* A fiber that is being deleted is not on the call stack: its caller would refer to it.
LEMMA DeletedIsNotLive ==
  ASSUME Local, NEW f \in Fibers, pc = Del(f)
  PROVE  ~Live(f) /\ f # current /\ f \in objects /\ f \notin held /\ f \notin pinned
         /\ \A c \in Contexts : ~(frame[c].by \in Resumers /\ frame[c].fiber = f)
<1>1. f \in objects /\ f \notin held /\ f \notin pinned
      /\ \A c \in Contexts : ~(frame[c].by \in Resumers /\ frame[c].fiber = f)
  BY DEF Local, DeletedIsUnreferenced, Referenced, Resumers
<1>2. ~Live(f)
  BY <1>1 DEF Local, CallersWait
<1>3. f # current
  <2>1. f # Main
    BY ContextFacts
  <2>2. QED
    BY <1>2, <2>1, RunningIsLive
<1>4. QED
  BY <1>1, <1>2, <1>3

\* Fiber::start keeps it.
LEMMA StartKeepsControl ==
  ASSUME Local, TypeOK', NEW f \in Fibers, Start(f) PROVE Switching'
<1>1. /\ f # current /\ f \in objects /\ Entered(f, "method", "none") /\ status[f] = "INIT"
      /\ pc = User /\ previous'[f] = f /\ \A g \in Fibers : g # f => previous'[g] = previous[g]
  BY StartFacts
<1>2. UNCHANGED <<objects, held, destroyed, prev_frame>>
  BY DEF Start, objvars
<1>3. caller[f] = NULL /\ f \notin destroyed /\ prev_frame[f] = NULL
  BY <1>1 DEF Local, FiberFacts, Links
<1>4. "method" \in Resumers /\ "none" \in {"none", "error"} /\ pc # Arrive /\ pc' = Arrive
  BY <1>1, PcFacts DEF Resumers, Entered
<1>5. QED
  BY <1>1, <1>2, <1>3, <1>4, EnteringKeepsControl

\* Fiber::resume and Fiber::throw keep it.
LEMMA ResumeKeepsControl ==
  ASSUME Local, TypeOK', NEW f \in Fibers, NEW flag \in {"none", "error"}, Resume(f, flag)
  PROVE  Switching'
<1>1. /\ f # current /\ f \in objects /\ Entered(f, "method", flag)
      /\ status[f] = "SUSPENDED" /\ caller[f] = NULL /\ pc = User
  BY ResumeFacts
<1>2. UNCHANGED <<objects, held, destroyed, previous>>
  BY DEF Resume, objvars
<1>3. previous[f] = f
  BY <1>1 DEF Local, FiberFacts
<1>4. "method" \in Resumers /\ pc # Arrive /\ pc' = Arrive
  BY <1>1, PcFacts DEF Resumers, Entered
<1>5. QED
  BY <1>1, <1>2, <1>3, <1>4, EnteringKeepsControl

\* Throwing a graceful exit into a suspended fiber keeps it.
LEMMA ForceCloseKeepsControl ==
  ASSUME Local, TypeOK', NEW f \in objects, status[f] = "SUSPENDED", ~Live(f), pc # Arrive,
         NEW by \in Resumers, ForceClose(f, by), UNCHANGED <<objects, held>>
  PROVE  Switching'
<1>1. f \in Fibers
  BY DEF Local, TypeOK
<1>2. /\ f # current /\ Entered(f, by, "error")
      /\ destroyed' = destroyed \cup {f} /\ UNCHANGED <<previous, prev_frame, stacks>>
  BY <1>1, ForceCloseFacts
<1>3. caller[f] = NULL /\ previous[f] = f
  BY <1>1 DEF Local, FiberFacts, Live
<1>4. "error" \in {"none", "error"} /\ pc' = Arrive
  BY <1>2 DEF Entered
<1>5. QED
  BY <1>1, <1>2, <1>3, <1>4, EnteringKeepsControl

\* The destructor of an unreferenced fiber keeps it.
LEMMA DelDestroyKeepsControl ==
  ASSUME Local, TypeOK', NEW f \in Fibers, DelDestroy(f) PROVE Switching'
<1>1. ~Live(f) /\ f \in objects /\ pc # Arrive /\ UNCHANGED <<objects, held>> /\ "del" \in Resumers
  BY DeletedIsNotLive, PcFacts DEF DelDestroy, Resumers
<1>2. CASE status[f] = "SUSPENDED"
  <2>1. ForceClose(f, "del")
    BY <1>2 DEF DelDestroy
  <2>2. QED
    BY <1>1, <1>2, <2>1, ForceCloseKeepsControl
<1>3. CASE status[f] # "SUSPENDED"
  <2>1. UNCHANGED <<ctxvars, destroyed>> /\ pc' # Arrive
    BY <1>1, <1>3 DEF DelDestroy
  <2>2. held' \subseteq objects'
    BY <1>1 DEF Local, FiberFacts
  <2>3. QED
    BY <1>1, <2>1, <2>2, QuietKeepsControl
<1>4. QED
  BY <1>2, <1>3

\* A turn of the loop over all destructors keeps it.
LEMMA CallDestructorKeepsControl ==
  ASSUME Local, TypeOK', Alone, CallDestructor PROVE Switching'
<1>1. /\ pc # Arrive /\ current = Main /\ UNCHANGED <<objects, held>> /\ "loop" \in Resumers
      /\ objects \subseteq Fibers
  BY PcFacts DEF CallDestructor, InUserCode, Resumers, Local, TypeOK
<1>2. CASE dtor_idx \in objects /\ status[dtor_idx] = "SUSPENDED" /\ ForceClose(dtor_idx, "loop")
  <2>1. ~Live(dtor_idx)
    BY <1>1, <1>2 DEF Alone
  <2>2. QED
    BY <1>1, <1>2, <2>1, ForceCloseKeepsControl
<1>3. CASE UNCHANGED <<destroyed, ctxvars, pc>>
  <2>1. held' \subseteq objects' /\ UNCHANGED <<ctxvars, destroyed>> /\ pc' # Arrive
    BY <1>1, <1>3 DEF Local, FiberFacts
  <2>2. QED
    BY <1>1, <2>1, QuietKeepsControl
<1>4. QED
  BY <1>2, <1>3 DEF CallDestructor

\* Freeing a fiber object keeps it.
LEMMA FreeKeepsControl ==
  ASSUME Local, NEW f \in Fibers, DelFree(f) PROVE Switching'
<1>1. /\ OneRuns /\ FramesAreOwn /\ CallersWait /\ FiberFacts /\ current \in Contexts /\ VmStateIsOwn
      /\ Arrival
  BY DEF Local, TypeOK
<1>2. /\ pc = Del(f) /\ pc # Arrive /\ pc' = User /\ pc' # Arrive /\ UNCHANGED <<held, current, vm, transfer>>
      /\ objects' = objects \ {f} /\ destroyed' = destroyed \ {f}
  BY PcFacts DEF DelFree
<1>3. /\ status'[f] = "INIT" /\ \A c \in Contexts : c # f => status'[c] = status[c]
      /\ caller'[f] = NULL /\ \A g \in Fibers : g # f => caller'[g] = caller[g]
      /\ \A g \in Fibers : g # f => previous'[g] = previous[g]
      /\ frame'[f] = NoFrame /\ \A c \in Contexts : c # f => frame'[c] = frame[c]
  BY ContextFacts DEF DelFree, Local, TypeOK
<1>4. /\ ~Live(f) /\ f # current /\ f \in objects /\ f \notin held /\ f # Main
      /\ \A c \in Contexts : ~(frame[c].by \in Resumers /\ frame[c].fiber = f)
  BY <1>2, DeletedIsNotLive, ContextFacts
<1>5. ~Live(f)' /\ \A g \in Fibers : g # f => (Live(g)' <=> Live(g))
  BY <1>3, ContextFacts DEF Live
<1>6. NoFrame.by = "none" /\ "none" \notin Resumers
  BY NothingFacts DEF Resumers
<1>7. OneRuns'
  BY <1>1, <1>2, <1>3, <1>4, <1>6, ContextFacts DEF OneRuns
<1>8. FramesAreOwn'
  <2> SUFFICES ASSUME NEW c \in Contexts
               PROVE  (/\ frame[c].by # "none" => frame[c].vm.stack = c /\ frame[c].vm.bailout = c
                       /\ frame[c].by = "suspend" =>
                            /\ c \in Fibers /\ frame[c].vm.active_fiber = c
                            /\ c # current => caller[c] = NULL
                       /\ frame[c].by \in Resumers =>
                            /\ frame[c].fiber \in Fibers /\ frame[c].previous = FiberOf(c)
                            /\ c \in Fibers => Live(c)
                            /\ c # current => Live(frame[c].fiber) /\ caller[frame[c].fiber] = c)'
    BY DEF FramesAreOwn
  <2>1. CASE c = f
    BY <1>3, <1>6, <2>1
  <2>2. CASE c # f
    <3>1. frame'[c] = frame[c]
      BY <1>3, <2>2
    <3>2. /\ frame[c].by # "none" => frame'[c].vm.stack = c /\ frame'[c].vm.bailout = c
          /\ frame[c].by = "suspend" =>
               /\ c \in Fibers /\ frame'[c].vm.active_fiber = c /\ (c # current => caller'[c] = NULL)
      BY <1>1, <1>3, <2>2, <3>1 DEF FramesAreOwn
    <3>3. ASSUME frame[c].by \in Resumers
          PROVE  /\ frame'[c].fiber \in Fibers /\ frame'[c].previous = FiberOf(c)
                 /\ c \in Fibers => Live(c)'
                 /\ c # current => Live(frame[c].fiber)' /\ caller'[frame'[c].fiber] = c
      <4>1. PICK g \in Fibers : g = frame[c].fiber
        BY <1>1, <3>3 DEF FramesAreOwn
      <4>2. (c # current => Live(g) /\ caller[g] = c) /\ (c \in Fibers => Live(c))
            /\ frame[c].previous = FiberOf(c) /\ g # f
        BY <1>1, <1>4, <3>3, <4>1 DEF FramesAreOwn
      <4>3. c # current => Live(g)' /\ caller'[g] = c
        BY <1>3, <1>5, <4>2
      <4>4. QED
        BY <1>5, <2>2, <3>1, <4>1, <4>2, <4>3 DEF Live
    <3>4. QED
      BY <1>2, <3>1, <3>2, <3>3 DEF FiberOf
  <2>3. QED
    BY <2>1, <2>2
<1>9. CallersWait'
  <2> SUFFICES ASSUME NEW g \in Fibers, Live(g)'
               PROVE  (/\ g \in objects /\ status[g] \in {"RUNNING", "SUSPENDED"}
                       /\ caller[g] \in Contexts /\ caller[g] # current
                       /\ frame[caller[g]].by \in Resumers /\ frame[caller[g]].fiber = g)'
    BY DEF CallersWait
  <2>1. g # f /\ Live(g) /\ caller'[g] = caller[g] /\ status'[g] = status[g]
    BY <1>3, <1>5, ContextFacts
  <2>2. caller[g] \in Contexts /\ frame[caller[g]].by \in Resumers
    BY <1>1, <2>1 DEF CallersWait
  <2>3. caller[g] # f
    <3>1. frame[f].by \in Resumers => Live(f)
      BY <1>1, ContextFacts DEF FramesAreOwn
    <3>2. QED
      BY <1>4, <2>2, <3>1
  <2>4. frame'[caller[g]] = frame[caller[g]]
    BY <1>3, <2>2, <2>3
  <2>5. QED
    BY <1>1, <1>2, <2>1, <2>2, <2>4 DEF CallersWait
<1>10. FiberFacts'
  <2>1. held' \subseteq objects'
    BY <1>1, <1>2, <1>4 DEF FiberFacts
  <2> SUFFICES ASSUME NEW g \in Fibers
               PROVE  (/\ status[g] = "INIT" => caller[g] = NULL /\ g \notin destroyed
                       /\ status[g] = "RUNNING" => caller[g] # NULL
                       /\ status[g] \in {"RUNNING", "SUSPENDED"} => previous[g] = g
                       /\ g \notin objects => status[g] = "INIT"
                       /\ status[g] = "DEAD" /\ caller[g] # NULL => pc = Arrive /\ transfer.from = g
                       /\ g \in destroyed => status[g] = "DEAD" \/ Live(g))'
    BY <2>1 DEF FiberFacts
  <2>2. CASE g = f
    BY <1>2, <1>3, <2>2
  <2>3. CASE g # f
    <3>1. status'[g] = status[g] /\ caller'[g] = caller[g] /\ previous'[g] = previous[g]
          /\ (Live(g)' <=> Live(g)) /\ (g \in destroyed' <=> g \in destroyed) /\ (g \in objects' <=> g \in objects)
      BY <1>2, <1>3, <1>5, <2>3, ContextFacts
    <3>2. QED
      BY <1>1, <1>2, <3>1 DEF FiberFacts
  <2>4. QED
    BY <2>2, <2>3
<1>11. Arrival' /\ VmStateIsOwn'
  BY <1>1, <1>2 DEF Arrival, VmStateIsOwn
<1>12. QED
  BY <1>7, <1>8, <1>9, <1>10, <1>11 DEF Switching

\* zend_fiber_init: nothing but the main program.
LEMMA RequestInitIsLocal == RequestInit /\ orphans \subseteq {"abandoned", "lost"} => Local
<1> SUFFICES ASSUME RequestInit, orphans \subseteq {"abandoned", "lost"} PROVE Local
  OBVIOUS
<1>1. /\ current = Main /\ pc = User /\ pc # Arrive /\ Main \in Contexts /\ Main \notin Fibers
      /\ objects = {} /\ held = {} /\ destroyed = {} /\ dtor_called = {}
      /\ stacks = {Main} /\ transfer = NoTransfer /\ blocks = << >> /\ switch_blocking = 0
      /\ phase = "script" /\ dtor_idx = 1 /\ top = 1 /\ vm = NoFrame.vm
      /\ \A f \in Fibers : caller[f] = NULL /\ prev_frame[f] = NULL /\ status[f] = "INIT"
      /\ \A c \in Contexts : frame[c] = NoFrame
      /\ status[Main] = "RUNNING"
  BY PcFacts, ContextFacts DEF RequestInit
<1>2. \A f \in Fibers : ~Live(f) /\ status[f] = "INIT" /\ pc # Del(f) /\ f # Main
  BY <1>1, PcFacts DEF Live
<1>3. NoFrame.by = "none" /\ "none" \notin Resumers
  BY NothingFacts DEF Resumers
<1>4. TypeOK
  <2>1. ObjectTypes /\ PhaseTypes
    <3>1. 1 \in 1 .. NFibers + 1 /\ fatal = FALSE
      BY ConstantsAssumption DEF RequestInit
    <3>2. fatal \in BOOLEAN
      BY <3>1
    <3>3. QED
      BY <1>1, <3>1, <3>2 DEF RequestInit, ObjectTypes, PhaseTypes
  <2>2. LinkTypes
    BY ContextFacts DEF RequestInit, LinkTypes
  <2>3. ContextTypes
    BY ContextFacts DEF RequestInit, ContextTypes, Statuses
  <2>4. SwitchTypes
    <3>1. NoTransfer \in [from : MaybeContext, flag : {"none", "error", "bailout"}]
      BY ContextFacts DEF NoTransfer
    <3>2. QED
      BY <3>1, NothingFacts DEF RequestInit, SwitchTypes
  <2>5. BlockTypes
    BY <1>1, ConstantsAssumption DEF BlockTypes
  <2>6. QED
    BY <2>1, <2>2, <2>3, <2>4, <2>5, TypeParts
<1>5. OneRuns
  BY <1>1, <1>3, ContextFacts DEF OneRuns
<1>6. FramesAreOwn
  BY <1>1, <1>3 DEF FramesAreOwn
<1>7. CallersWait /\ FiberFacts
  BY <1>1, <1>2 DEF CallersWait, FiberFacts
<1>8. Arrival
  BY <1>1 DEF Arrival
<1>9. VmStateIsOwn
  BY <1>1, NothingFacts DEF VmStateIsOwn
<1>10. Links /\ DeletedIsUnreferenced
  BY <1>1, <1>2 DEF Links, DeletedIsUnreferenced
<1>11. StacksOfContexts
  BY <1>1, <1>2 DEF StacksOfContexts
<1>12. Destructors
  BY <1>1 DEF Destructors
<1>13. BlocksAreCounted
  BY <1>1 DEF BlocksAreCounted
<1>14. QED
  BY <1>4, <1>5, <1>6, <1>7, <1>8, <1>9, <1>10, <1>11, <1>12, <1>13 DEF Local

\* The next request starts like the first.
LEMMA NextRequestIsInit == ASSUME NextRequest PROVE RequestInit'
BY DEF NextRequest, RequestInit

\* It starts in a state the invariant allows, whatever stacks are left of the last one.
LEMMA NextRequestIsLocal == ASSUME Local, NextRequest PROVE Local'
<1>1. (RequestInit /\ orphans \subseteq {"abandoned", "lost"} => Local)'
  BY RequestInitIsLocal, PTL
<1>2. PhaseTypes'
  BY PhaseTypesStep DEF Next
<1>3. QED
  BY <1>1, <1>2, NextRequestIsInit DEF PhaseTypes

\* Every step keeps it.
LEMMA SwitchingStep == ASSUME Local, TypeOK', Alone, Next PROVE Switching'
<1>1. CASE EnterFunction \/ ReturnFromSwitch \/ ForwardBailout \/ Suspend \/ FatalError
  BY <1>1, EnterFunctionKeepsControl, ReturnKeepsControl, ForwardKeepsControl,
     SuspendKeepsControl, FatalKeepsControl
<1>2. CASE \E flag \in {"none", "error"} : EndFunction(flag)
  BY <1>2, EndKeepsControl
<1>3. CASE \E f \in Fibers : Start(f) \/ DelDestroy(f) \/ DelFree(f)
  BY <1>3, StartKeepsControl, DelDestroyKeepsControl, FreeKeepsControl
<1>4. CASE \E f \in Fibers, flag \in {"none", "error"} : Resume(f, flag)
  BY <1>4, ResumeKeepsControl
<1>5. CASE CallDestructor
  BY <1>5, CallDestructorKeepsControl
<1>6. CASE NextRequest
  BY <1>6, NextRequestIsLocal DEF Local, Switching
<1>7. held \subseteq objects
  BY DEF Local, FiberFacts
<1>8. CASE GetCurrent
  <2>1. /\ pc # Arrive /\ pc' # Arrive /\ UNCHANGED <<ctxvars, destroyed, objects>>
        /\ vm.active_fiber # NULL /\ held' = held \cup {vm.active_fiber}
    BY <1>8, PcFacts DEF GetCurrent, InUserCode, objvars
  <2>2. current # Main /\ vm.active_fiber = current
    BY <2>1 DEF Local, VmStateIsOwn
  <2>3. current \in objects
    BY <2>2, RunningIsLive DEF Local, CallersWait
  <2>4. QED
    BY <1>7, <2>1, <2>2, <2>3, QuietKeepsControl
<1>9. CASE SwitchBlock \/ SwitchUnblock \/ EndScript \/ DestructorsDone
  <2>1. pc # Arrive /\ pc' # Arrive /\ UNCHANGED <<ctxvars, destroyed, objects, held>>
    BY <1>9, PcFacts DEF SwitchBlock, SwitchUnblock, EndScript, DestructorsDone, InUserCode, objvars
  <2>2. QED
    BY <1>7, <2>1, QuietKeepsControl
<1>10. CASE \E f \in Fibers : Construct(f) \/ Drop(f)
  <2>1. PICK f \in Fibers : Construct(f) \/ Drop(f)
    BY <1>10
  <2>2. pc # Arrive /\ pc' # Arrive /\ UNCHANGED <<ctxvars, destroyed>>
    BY <2>1, PcFacts DEF Construct, Drop, InUserCode
  <2>3. objects \subseteq objects' /\ held' \subseteq objects'
    BY <1>7, <2>1 DEF Construct, Drop, objvars
  <2>4. QED
    BY <2>2, <2>3, QuietKeepsControl
<1>11. QED
  BY <1>1, <1>2, <1>3, <1>4, <1>5, <1>6, <1>8, <1>9, <1>10 DEF Next

------------------------------------------------------------------------------
(* Backtraces, C stacks, references and destructors.                       *)

\* Entering f links it to the running context, or not at all when it is being closed.
LEMMA EnteringKeepsLinks ==
  ASSUME Local, NEW f \in Fibers, f # current, pc # Arrive, caller[f] = NULL, NEW by, NEW flag,
         Entered(f, by, flag),
         \A g \in Fibers : g # f => prev_frame'[g] = prev_frame[g],
         \A g \in Fibers : g # f => (g \in destroyed' <=> g \in destroyed),
         \/ prev_frame'[f] = current /\ f \notin destroyed'
         \/ prev_frame'[f] = NULL /\ f \in destroyed'
         \/ prev_frame'[f] = NULL /\ frame[f].by = "none"
  PROVE  Links'
<1>1. Links /\ current \in Contexts /\ current # NULL /\ f \in Contexts
  BY ContextFacts DEF Local, TypeOK
<1>2. current' = f /\ pc' = Arrive /\ frame'[f] = frame[f]
      /\ caller'[f] = current /\ \A g \in Fibers : g # f => caller'[g] = caller[g]
  BY <1>1 DEF Entered
<1>3. QED
  BY <1>1, <1>2 DEF Links

\* Every step keeps the links of backtraces.
LEMMA LinksStep == ASSUME Local, Alone, Next PROVE Links'
<1>1. Links /\ FiberFacts /\ OneRuns /\ current \in Contexts /\ current # NULL
  BY ContextFacts DEF Local, TypeOK
<1>2. CASE EnterFunction
  <2>1. /\ current \in Fibers /\ current \notin destroyed /\ vm.stack = caller[current]
        /\ pc = Arrive /\ frame[current].by = "none"
    BY <1>2 DEF EnterFunction, Local, Arrival
  <2>2. caller[current] # NULL
    BY <1>1, <2>1 DEF OneRuns, FiberFacts
  <2>3. prev_frame'[current] = caller[current] /\ \A g \in Fibers : g # current => prev_frame'[g] = prev_frame[g]
    BY <1>2, <2>1 DEF EnterFunction, Local, TypeOK
  <2>4. pc' # Arrive /\ UNCHANGED <<caller, destroyed>>
    BY <1>2, PcFacts DEF EnterFunction
  <2>5. QED
    BY <1>1, <2>1, <2>2, <2>3, <2>4 DEF Links
<1>3. CASE ReturnFromSwitch \/ ForwardBailout
  <2>1. pc = Arrive /\ DestroyDeadSender /\ UNCHANGED destroyed /\ frame[current].by # "none"
    BY <1>3 DEF ReturnFromSwitch, ForwardBailout
  <2>2. \A g \in Fibers : \/ caller'[g] = NULL /\ prev_frame'[g] = NULL
                          \/ caller'[g] = caller[g] /\ prev_frame'[g] = prev_frame[g]
    BY <2>1, CleanupFacts
  <2>3. QED
    BY <1>1, <2>1, <2>2 DEF Links
<1>4. CASE Suspend
  <2>1. /\ caller'[current] = NULL /\ \A g \in Fibers : g # current => caller'[g] = caller[g]
        /\ prev_frame'[current] = NULL
        /\ \A g \in Fibers : g # current => prev_frame'[g] = prev_frame[g]
    BY <1>4, SuspendFacts
  <2>2. UNCHANGED destroyed /\ pc # Arrive
    BY <1>4, PcFacts DEF Suspend, InUserCode
  <2>3. QED
    BY <1>1, <2>1, <2>2 DEF Links
<1>5. CASE \E f \in Fibers : Start(f)
  <2>1. PICK f \in Fibers : Start(f)
    BY <1>5
  <2>2. f # current /\ Entered(f, "method", "none") /\ status[f] = "INIT" /\ pc # Arrive
    BY <2>1, StartFacts, PcFacts
  <2>3. UNCHANGED <<prev_frame, destroyed>>
    BY <2>1 DEF Start
  <2>4. caller[f] = NULL /\ prev_frame[f] = NULL /\ frame[f].by = "none"
    BY <1>1, <2>2, ContextFacts DEF FiberFacts, Links, OneRuns
  <2>5. QED
    BY <2>2, <2>3, <2>4, EnteringKeepsLinks
<1>6. CASE \E f \in Fibers, flag \in {"none", "error"} : Resume(f, flag)
  <2>1. PICK f \in Fibers, flag \in {"none", "error"} : Resume(f, flag)
    BY <1>6
  <2>2. /\ f # current /\ Entered(f, "method", flag) /\ pc # Arrive
        /\ status[f] = "SUSPENDED" /\ caller[f] = NULL
        /\ prev_frame'[f] = current
        /\ \A g \in Fibers : g # f => prev_frame'[g] = prev_frame[g]
    BY <2>1, ResumeFacts, PcFacts
  <2>3. UNCHANGED destroyed
    BY <2>1 DEF Resume
  <2>4. f \notin destroyed
    BY <1>1, <2>2 DEF FiberFacts, Live
  <2>5. QED
    BY <2>2, <2>3, <2>4, EnteringKeepsLinks
<1>7. ASSUME NEW f \in Fibers, status[f] = "SUSPENDED", ~Live(f), pc # Arrive, NEW by, ForceClose(f, by)
      PROVE  Links'
  <2>1. /\ f # current /\ Entered(f, by, "error")
        /\ destroyed' = destroyed \cup {f} /\ UNCHANGED prev_frame
    BY <1>7, ForceCloseFacts
  <2>2. caller[f] = NULL
    BY <1>7 DEF Live
  <2>3. prev_frame[f] = NULL
    BY <1>1, <2>2 DEF Links
  <2>4. QED
    BY <1>7, <2>1, <2>2, <2>3, EnteringKeepsLinks
<1>8. CASE \E f \in Fibers : DelDestroy(f)
  <2>1. PICK f \in Fibers : DelDestroy(f)
    BY <1>8
  <2>2. ~Live(f) /\ pc # Arrive
    BY <2>1, DeletedIsNotLive, PcFacts DEF DelDestroy
  <2>3. \/ status[f] = "SUSPENDED" /\ ForceClose(f, "del")
        \/ UNCHANGED <<caller, prev_frame, destroyed>>
    BY <2>1 DEF DelDestroy, ctxvars
  <2>4. CASE UNCHANGED <<caller, prev_frame, destroyed>>
    BY <1>1, <2>2, <2>4 DEF Links
  <2>5. QED
    BY <1>7, <2>2, <2>3, <2>4
<1>9. CASE CallDestructor
  <2>1. current = Main /\ pc # Arrive /\ objects \subseteq Fibers
    BY <1>9, PcFacts DEF CallDestructor, InUserCode, Local, TypeOK
  <2>2. \/ dtor_idx \in objects /\ status[dtor_idx] = "SUSPENDED" /\ ForceClose(dtor_idx, "loop")
        \/ UNCHANGED <<caller, prev_frame, destroyed>>
    BY <1>9 DEF CallDestructor, ctxvars
  <2>3. CASE UNCHANGED <<caller, prev_frame, destroyed>>
    BY <1>1, <2>1, <2>3 DEF Links
  <2>4. QED
    BY <1>7, <2>1, <2>2, <2>3 DEF Alone
<1>10. CASE \E f \in Fibers : DelFree(f)
  <2>1. PICK f \in Fibers : DelFree(f)
    BY <1>10
  <2>2. /\ caller'[f] = NULL /\ prev_frame'[f] = NULL /\ destroyed' = destroyed \ {f} /\ pc # Arrive
        /\ \A g \in Fibers : g # f => caller'[g] = caller[g] /\ prev_frame'[g] = prev_frame[g]
    BY <2>1, PcFacts DEF DelFree, Local, TypeOK
  <2>3. QED
    BY <1>1, <2>2 DEF Links
<1>11. CASE NextRequest
  BY <1>11, NextRequestIsLocal DEF Local
<1>12. CASE UNCHANGED <<caller, prev_frame, destroyed>> /\ pc # Arrive
  BY <1>1, <1>12 DEF Links
<1>13. CASE FatalError \/ GetCurrent \/ SwitchBlock \/ SwitchUnblock \/ EndScript \/ DestructorsDone
            \/ (\E flag \in {"none", "error"} : EndFunction(flag))
            \/ (\E f \in Fibers : Construct(f) \/ Drop(f))
  <2>1. UNCHANGED <<caller, prev_frame, destroyed>> /\ pc # Arrive
    BY <1>13, PcFacts DEF FatalError, GetCurrent, SwitchBlock, SwitchUnblock, EndScript,
       DestructorsDone, EndFunction, Construct, Drop, InUserCode, ctxvars
  <2>2. QED
    BY <1>12, <2>1
<1>14. QED
  BY <1>2, <1>3, <1>4, <1>5, <1>6, <1>8, <1>9, <1>10, <1>11, <1>13 DEF Next

\* A C stack is mapped when its fiber starts, and unmapped after it has ended.
LEMMA StacksStep == ASSUME Local, Alone, Next PROVE StacksOfContexts'
<1>1. StacksOfContexts /\ OneRuns /\ Arrival /\ current \in Contexts /\ Main \in Contexts /\ Main \notin Fibers
      /\ Fibers \subseteq Contexts /\ NULL \notin Fibers /\ status \in [Contexts -> Statuses]
  BY ContextFacts DEF Local, TypeOK
<1>2. pc # Arrive => transfer.from = NULL
  BY <1>1, NothingFacts DEF Arrival
<1>3. CASE UNCHANGED <<status, stacks>> /\ transfer'.from = NULL /\ \A f \in Fibers : ~(status[f] = "DEAD" /\ transfer.from = f)
  BY <1>1, <1>3 DEF StacksOfContexts
<1>4. CASE EnterFunction
  <2>1. UNCHANGED <<status, stacks>> /\ transfer'.from = NULL /\ status[transfer.from] # "DEAD"
    BY <1>1, <1>4, NothingFacts DEF EnterFunction, Arrival
  <2>2. QED
    BY <1>3, <2>1
<1>5. ASSUME pc = Arrive, DestroyDeadSender
      PROVE  /\ Main \in stacks'
             /\ \A f \in Fibers : f \in stacks' <=> status[f] \in {"RUNNING", "SUSPENDED"}
  <2>1. \A c \in Contexts : c \in stacks' <=> c \in stacks /\ ~(c = transfer.from /\ status[c] = "DEAD")
    BY <1>5, CleanupFacts
  <2>2. status[Main] # "DEAD"
    BY <1>1 DEF OneRuns
  <2>3. QED
    BY <1>1, <2>1, <2>2 DEF StacksOfContexts
<1>6. CASE ReturnFromSwitch
  <2>1. pc = Arrive /\ DestroyDeadSender /\ transfer'.from = NULL /\ UNCHANGED status
    BY <1>6, NothingFacts DEF ReturnFromSwitch
  <2>2. QED
    BY <1>1, <1>5, <2>1 DEF StacksOfContexts
<1>7. ASSUME NEW S, Main \in S, \A f \in Fibers : f \in S <=> status[f] \in {"RUNNING", "SUSPENDED"},
             stacks' = S, current # Main, NEW left_as \in {"SUSPENDED", "DEAD"}, NEW flag, Left(left_as, flag)
      PROVE  StacksOfContexts'
  <2>1. /\ caller[current] \in Contexts /\ caller[current] # current /\ current \in Fibers
        /\ frame[caller[current]].by \in Resumers
    BY <1>7, RunningIsLive
  <2>2. status[caller[current]] = "SUSPENDED"
    <3>1. "none" \notin Resumers
      BY DEF Resumers
    <3>2. QED
      BY <1>1, <2>1, <3>1 DEF OneRuns
  <2>3. status[current] = "RUNNING"
    BY <1>1 DEF OneRuns
  <2>4. QED
    BY <1>1, <1>7, <2>1, <2>2, <2>3 DEF StacksOfContexts, Left
<1>8. pc # Arrive => \A f \in Fibers : f \in stacks <=> status[f] \in {"RUNNING", "SUSPENDED"}
  BY <1>1, <1>2 DEF StacksOfContexts
<1>9. CASE Suspend \/ \E flag \in {"none", "error"} : EndFunction(flag)
  <2>1. pc # Arrive /\ UNCHANGED stacks /\ Main \in stacks
    BY <1>1, <1>9, PcFacts DEF Suspend, EndFunction, InUserCode, StacksOfContexts
  <2>2. PICK left_as \in {"SUSPENDED", "DEAD"}, flag \in {"none", "error"} : Left(left_as, flag) /\ current # Main
    BY <1>9, SuspendFacts, EndFacts DEF EndFunction
  <2>3. QED
    BY <1>7, <1>8, <2>1, <2>2
<1>10. CASE FatalError \/ ForwardBailout
  <2>1. Bailout /\ Main \in stacks' /\ \A f \in Fibers : f \in stacks' <=> status[f] \in {"RUNNING", "SUSPENDED"}
    BY <1>1, <1>5, <1>8, <1>10, PcFacts DEF FatalError, ForwardBailout, InUserCode, StacksOfContexts
  <2>2. CASE current = Main
    <3>1. UNCHANGED status /\ transfer'.from = NULL
      BY <2>1, <2>2, NothingFacts DEF Bailout
    <3>2. QED
      BY <1>1, <2>1, <3>1 DEF StacksOfContexts
  <2>3. CASE current # Main
    <3>1. Left("DEAD", "bailout")
      BY <2>1, <2>3, EndFacts DEF Bailout
    <3>2. QED
      BY <1>7, <2>1, <2>3, <3>1
  <2>4. QED
    BY <2>2, <2>3
<1>11. ASSUME NEW f \in Fibers, f # current, pc # Arrive, NEW by, NEW flag, Entered(f, by, flag),
              stacks' = stacks \cup {f}
       PROVE  StacksOfContexts'
  <2>1. status[current] = "RUNNING"
    BY <1>1 DEF OneRuns
  <2>2. QED
    BY <1>1, <1>8, <1>11, <2>1 DEF StacksOfContexts, Entered
<1>12. CASE \E f \in Fibers : Start(f)
  <2>1. PICK f \in Fibers : Start(f)
    BY <1>12
  <2>2. QED
    BY <1>11, <2>1, StartFacts, PcFacts DEF Start
<1>13. CASE \E f \in Fibers, flag \in {"none", "error"} : Resume(f, flag)
  <2>1. PICK f \in Fibers, flag \in {"none", "error"} : Resume(f, flag)
    BY <1>13
  <2>2. f # current /\ pc # Arrive /\ Entered(f, "method", flag) /\ status[f] = "SUSPENDED" /\ UNCHANGED stacks
    BY <2>1, ResumeFacts, PcFacts DEF Resume
  <2>3. stacks' = stacks \cup {f}
    BY <1>8, <2>2
  <2>4. QED
    BY <1>11, <2>2, <2>3
<1>14. ASSUME NEW f \in Fibers, status[f] = "SUSPENDED", pc # Arrive, NEW by, ForceClose(f, by)
       PROVE  StacksOfContexts'
  <2>1. f # current /\ Entered(f, by, "error") /\ UNCHANGED stacks
    BY <1>14, ForceCloseFacts
  <2>2. stacks' = stacks \cup {f}
    BY <1>8, <1>14, <2>1
  <2>3. QED
    BY <1>11, <1>14, <2>1, <2>2
<1>15. CASE UNCHANGED <<status, stacks, transfer>>
  BY <1>1, <1>15 DEF StacksOfContexts
<1>16. CASE \E f \in Fibers : DelDestroy(f)
  BY <1>14, <1>15, <1>16, PcFacts DEF DelDestroy, ctxvars
<1>17. CASE CallDestructor
  <2>1. objects \subseteq Fibers /\ pc # Arrive
    BY <1>17, PcFacts DEF CallDestructor, InUserCode, Local, TypeOK
  <2>2. \/ dtor_idx \in objects /\ status[dtor_idx] = "SUSPENDED" /\ ForceClose(dtor_idx, "loop")
        \/ UNCHANGED <<status, stacks, transfer>>
    BY <1>17 DEF CallDestructor, ctxvars
  <2>3. QED
    BY <1>14, <1>15, <2>1, <2>2
<1>18. CASE \E f \in Fibers : DelFree(f)
  <2>1. PICK f \in Fibers : DelFree(f)
    BY <1>18
  <2>2. status' = [status EXCEPT ![f] = "INIT"] /\ stacks' = stacks \ {f} /\ UNCHANGED transfer /\ pc # Arrive
    BY <2>1, PcFacts DEF DelFree
  <2>3. QED
    BY <1>1, <1>2, <1>8, <2>2 DEF StacksOfContexts
<1>19. CASE NextRequest
  BY <1>19, NextRequestIsLocal DEF Local
<1>20. CASE GetCurrent \/ SwitchBlock \/ SwitchUnblock \/ EndScript \/ DestructorsDone
            \/ (\E f \in Fibers : Construct(f) \/ Drop(f))
  <2>1. UNCHANGED <<status, stacks, transfer>>
    BY <1>20 DEF GetCurrent, SwitchBlock, SwitchUnblock, EndScript, DestructorsDone, Construct, Drop, ctxvars
  <2>2. QED
    BY <1>15, <2>1
<1>21. QED
  BY <1>4, <1>6, <1>9, <1>10, <1>12, <1>13, <1>16, <1>17, <1>18, <1>19, <1>20 DEF Next

\* An object is deleted when the last reference to it goes.
LEMMA DeletedStep == ASSUME Local, Next PROVE DeletedIsUnreferenced'
<1>1. DeletedIsUnreferenced /\ \A f \in Fibers : User # Del(f) /\ Arrive # Del(f)
  BY PcFacts DEF Local
<1>2. CASE pc' = User \/ pc' = Arrive
  BY <1>1, <1>2 DEF DeletedIsUnreferenced
<1>3. CASE ReturnFromSwitch
  <2> SUFFICES ASSUME NEW f \in Fibers, pc' = Del(f)
               PROVE  (f \in objects /\ ~Referenced(f, held, pinned, frame))'
    BY DEF DeletedIsUnreferenced
  <2>1. /\ pc = Arrive /\ frame[current].by \in {"method", "del"} /\ f = frame[current].fiber
        /\ ~Referenced(f, held, pinned, frame') /\ UNCHANGED <<objects, held, pinned>>
    BY <1>1, <1>3, PcFacts DEF ReturnFromSwitch, objvars
  <2>2. transfer.from = f /\ status[f] # "INIT"
    BY <2>1 DEF Local, Arrival, Resumers
  <2>3. f \in objects
    BY <2>2 DEF Local, FiberFacts
  <2>4. QED
    BY <2>1, <2>3 DEF Referenced
<1>4. CASE \E f \in Fibers : Drop(f)
  <2> SUFFICES ASSUME NEW g \in Fibers, pc' = Del(g)
               PROVE  (g \in objects /\ ~Referenced(g, held, pinned, frame))'
    BY DEF DeletedIsUnreferenced
  <2>1. PICK f \in Fibers : Drop(f)
    BY <1>4
  <2>2. f = g /\ f \in held /\ ~Referenced(f, held', pinned, frame) /\ UNCHANGED <<objects, pinned, frame>>
    BY <1>1, <2>1, PcFacts DEF Drop, objvars, ctxvars
  <2>3. QED
    BY <2>2 DEF Local, FiberFacts, Referenced
<1>5. CASE \E f \in Fibers : DelDestroy(f)
  <2>1. PICK f \in Fibers : DelDestroy(f)
    BY <1>5
  <2>2. pc' = Arrive \/ UNCHANGED <<pc, frame, objects, held, pinned>>
    BY <2>1 DEF DelDestroy, ForceClose, ResumeInternal, SwitchContext, ctxvars
  <2>3. CASE UNCHANGED <<pc, frame, objects, held, pinned>>
    BY <1>1, <2>3 DEF DeletedIsUnreferenced, Referenced
  <2>4. QED
    BY <1>2, <2>2, <2>3
<1>6. CASE CallDestructor
  <2>1. pc' = User \/ pc' = Arrive
    BY <1>6 DEF CallDestructor, ForceClose, ResumeInternal, SwitchContext, InUserCode
  <2>2. QED
    BY <1>2, <2>1
<1>7. QED
  BY <1>2, <1>3, <1>4, <1>5, <1>6 DEF Next, EnterFunction, ForwardBailout, Suspend, GetCurrent,
     SwitchBlock, SwitchUnblock, FatalError, EndFunction, Construct, Start, DelFree, Resume,
     EndScript, DestructorsDone, NextRequest, InUserCode, Bailout, ResumeInternal, SwitchContext

\* The destructors: which fibers have had theirs, and what it did.
DestructorRan ==
  ~fatal => \A f \in Fibers : f \in dtor_called =>
              f \in destroyed \/ f \in late \/ status[f] \in {"INIT", "DEAD"}
\* How far the loop over all destructors has come.
DestructorLoop ==
  /\ \A f \in objects : f < top
  /\ dtor_idx <= top
  /\ phase = "over" => current = Main /\ pc = User
  /\ ~fatal /\ phase = "destructors" => \A f \in objects : f < dtor_idx => f \in dtor_called
  /\ ~fatal /\ phase = "over" => \A f \in objects : f \in dtor_called

\* Destructors is the conjunction of the two.
LEMMA DestructorParts == Destructors <=> DestructorRan /\ DestructorLoop
BY DEF Destructors, DestructorRan, DestructorLoop

\* A destructor leaves nothing suspended, unless the fiber was started after it.
LEMMA DestructorRanStep == ASSUME Local, Alone, Next PROVE DestructorRan'
<1>1. DestructorRan /\ OneRuns /\ FiberFacts /\ CallersWait /\ fatal \in BOOLEAN
      /\ current \in Contexts /\ Fibers \subseteq Contexts /\ objects \subseteq Fibers
  BY DestructorParts, ContextFacts DEF Local, TypeOK
<1>2. CASE FatalError \/ ForwardBailout
  BY <1>2, ArrivalFacts DEF FatalError, ForwardBailout, DestructorRan
<1>3. CASE NextRequest
  <2>1. (Destructors <=> DestructorRan /\ DestructorLoop)'
    BY DestructorParts, PTL
  <2>2. QED
    BY <1>3, <2>1, NextRequestIsLocal DEF Local
<1>4. CASE Suspend
  <2>1. UNCHANGED <<destroyed, late, dtor_called, fatal>>
    BY <1>4 DEF Suspend, objvars, ghosts
  <2>2. /\ current \in Fibers /\ current \notin destroyed /\ current # Main /\ Left("SUSPENDED", "none")
    BY <1>4, SuspendFacts
  <2>3. status[current] = "RUNNING" /\ caller[current] \in Contexts
    BY <1>1, <2>2, RunningIsLive DEF OneRuns
  <2>4. ASSUME ~fatal, NEW f \in Fibers, f \in dtor_called, f \notin destroyed, f \notin late
        PROVE  status'[f] \in {"INIT", "DEAD"}
    <3>1. status[f] \in {"INIT", "DEAD"}
      BY <1>1, <2>4 DEF DestructorRan
    <3>2. f # caller[current]
      <4>1. caller[current] \in Fibers => status[caller[current]] \notin {"INIT", "DEAD"}
        <5>1. frame[caller[current]].by \in Resumers
          BY <2>2, RunningIsLive
        <5>2. caller[current] \in Fibers => Live(caller[current])
          BY <2>3, <5>1 DEF Local, FramesAreOwn
        <5>3. QED
          BY <1>1, <5>2 DEF CallersWait
      <4>2. QED
        BY <3>1, <4>1
    <3>3. QED
      BY <1>1, <2>2, <2>3, <3>1, <3>2 DEF Left
  <2>5. QED
    BY <2>1, <2>4 DEF DestructorRan
<1>5. CASE \E flag \in {"none", "error"} : EndFunction(flag)
  <2>1. PICK flag \in {"none", "error"} : EndFunction(flag)
    BY <1>5
  <2>2. UNCHANGED <<destroyed, late, dtor_called, fatal>> /\ current # Main /\ Left("DEAD", flag)
    BY <2>1, EndFacts DEF EndFunction, objvars, ghosts
  <2>3. ASSUME ~fatal, NEW f \in Fibers, f \in dtor_called, f \notin destroyed, f \notin late
        PROVE  status'[f] \in {"INIT", "DEAD"}
    <3>1. status[f] \in {"INIT", "DEAD"}
      BY <1>1, <2>3 DEF DestructorRan
    <3>2. f # caller[current]
      <4>1. frame[caller[current]].by \in Resumers /\ caller[current] \in Contexts
        BY <2>2, RunningIsLive
      <4>2. caller[current] \in Fibers => Live(caller[current])
        BY <4>1 DEF Local, FramesAreOwn
      <4>3. QED
        BY <1>1, <3>1, <4>2 DEF CallersWait
    <3>3. QED
      BY <1>1, <2>2, <3>1, <3>2 DEF Left
  <2>4. QED
    BY <2>2, <2>3 DEF DestructorRan
<1>6. ASSUME NEW f \in Fibers, f # current, NEW by, NEW flag, Entered(f, by, flag), UNCHANGED fatal,
             \A g \in Fibers : g # f => /\ g \in dtor_called' <=> g \in dtor_called
                                        /\ g \in destroyed => g \in destroyed'
                                        /\ g \in late => g \in late',
             ~fatal => (f \in dtor_called' => f \in destroyed' \/ f \in late')
      PROVE  DestructorRan'
  <2>1. status[current] = "RUNNING"
    BY <1>1 DEF OneRuns
  <2>2. \A g \in Fibers : g # f /\ status[g] \in {"INIT", "DEAD"} => status'[g] = status[g]
    BY <1>1, <1>6, <2>1 DEF Entered
  <2>3. QED
    BY <1>1, <1>6, <2>2 DEF DestructorRan
<1>7. CASE \E f \in Fibers : Start(f)
  <2>1. PICK f \in Fibers : Start(f)
    BY <1>7
  <2>2. f # current /\ Entered(f, "method", "none")
    BY <2>1, StartFacts
  <2>3. UNCHANGED <<destroyed, dtor_called, fatal>>
        /\ late' = IF f \in dtor_called THEN late \cup {f} ELSE late
    BY <2>1 DEF Start, objvars
  <2>4. QED
    BY <1>6, <2>2, <2>3
<1>8. CASE \E f \in Fibers, flag \in {"none", "error"} : Resume(f, flag)
  <2>1. PICK f \in Fibers, flag \in {"none", "error"} : Resume(f, flag)
    BY <1>8
  <2>2. f # current /\ Entered(f, "method", flag) /\ status[f] = "SUSPENDED"
    BY <2>1, ResumeFacts
  <2>3. UNCHANGED <<destroyed, dtor_called, fatal, late>>
    BY <2>1 DEF Resume, objvars, ghosts
  <2>4. ~fatal => (f \in dtor_called => f \in destroyed \/ f \in late)
    BY <1>1, <2>2 DEF DestructorRan
  <2>5. QED
    BY <1>6, <2>2, <2>3, <2>4
<1>9. ASSUME NEW f \in Fibers, status[f] = "SUSPENDED", NEW by, ForceClose(f, by),
             UNCHANGED <<fatal, late>>, dtor_called' = dtor_called \cup {f}
      PROVE  DestructorRan'
  <2>1. f # current /\ Entered(f, by, "error") /\ destroyed' = destroyed \cup {f}
    BY <1>9, ForceCloseFacts
  <2>2. QED
    BY <1>6, <1>9, <2>1
<1>10. ASSUME NEW f \in Fibers, status[f] # "SUSPENDED", ~Live(f), UNCHANGED <<status, fatal, late, destroyed>>,
              dtor_called' = dtor_called \cup {f}
       PROVE  DestructorRan'
  <2>1. status[f] \in {"INIT", "DEAD"}
    <3>1. status[f] \in {"INIT", "RUNNING", "SUSPENDED", "DEAD"}
      BY <1>1 DEF Local, TypeOK, Statuses
    <3>2. status[f] # "RUNNING"
      BY <1>1, <1>10 DEF FiberFacts, Live
    <3>3. QED
      BY <1>10, <3>1, <3>2
  <2>2. QED
    BY <1>1, <1>10, <2>1 DEF DestructorRan
<1>11. CASE \E f \in Fibers : DelDestroy(f)
  <2>1. PICK f \in Fibers : DelDestroy(f)
    BY <1>11
  <2>2. ~Live(f) /\ UNCHANGED <<fatal, late>> /\ dtor_called' = dtor_called \cup {f}
    BY <2>1, DeletedIsNotLive DEF DelDestroy, ghosts
  <2>3. \/ status[f] = "SUSPENDED" /\ ForceClose(f, "del")
        \/ status[f] # "SUSPENDED" /\ UNCHANGED <<status, destroyed>>
    BY <2>1 DEF DelDestroy, ctxvars
  <2>4. QED
    BY <1>9, <1>10, <2>2, <2>3
<1>12. CASE CallDestructor
  <2>1. current = Main /\ UNCHANGED <<fatal, late>>
    BY <1>12 DEF CallDestructor, ghosts
  <2>2. \/ /\ dtor_idx \in objects /\ dtor_called' = dtor_called \cup {dtor_idx}
           /\ \/ status[dtor_idx] = "SUSPENDED" /\ ForceClose(dtor_idx, "loop")
              \/ status[dtor_idx] # "SUSPENDED" /\ UNCHANGED <<status, destroyed>>
        \/ UNCHANGED <<dtor_called, destroyed, status>>
    BY <1>12 DEF CallDestructor, ctxvars
  <2>3. CASE UNCHANGED <<dtor_called, destroyed, status>>
    BY <1>1, <2>1, <2>3 DEF DestructorRan
  <2>4. QED
    BY <1>1, <1>9, <1>10, <2>1, <2>2, <2>3 DEF Alone
<1>13. CASE \E f \in Fibers : DelFree(f)
  <2>1. PICK f \in Fibers : DelFree(f)
    BY <1>13
  <2>2. /\ dtor_called' = dtor_called \ {f} /\ destroyed' = destroyed \ {f} /\ late' = late \ {f}
        /\ UNCHANGED fatal /\ \A g \in Fibers : g # f => status'[g] = status[g]
    BY <1>1, <2>1 DEF DelFree, Local, TypeOK
  <2>3. QED
    BY <1>1, <2>2 DEF DestructorRan
<1>14. CASE UNCHANGED <<dtor_called, destroyed, late, status, fatal>>
  BY <1>1, <1>14 DEF DestructorRan
<1>15. QED
  BY <1>2, <1>3, <1>4, <1>5, <1>7, <1>8, <1>11, <1>12, <1>13, <1>14 DEF Next, EnterFunction,
     ReturnFromSwitch, GetCurrent, SwitchBlock, SwitchUnblock, Construct, Drop, EndScript,
     DestructorsDone, objvars, ctxvars, ghosts

\* The loop over the objects misses none of them.
LEMMA DestructorLoopStep == ASSUME Local, Next PROVE DestructorLoop'
<1>1. /\ DestructorLoop /\ fatal \in BOOLEAN /\ objects \subseteq Fibers /\ Fibers \subseteq Int
      /\ top \in Int /\ dtor_idx \in Int /\ phase \in {"script", "destructors", "over"}
      /\ 1 <= top
  BY DestructorParts, ContextFacts DEF Local, TypeOK
<1>2. phase = "over" => ~(pc = Arrive) /\ \A f : pc # Del(f)
  BY <1>1, PcFacts DEF DestructorLoop
<1>3. CASE NextRequest
  <2>1. (Destructors <=> DestructorRan /\ DestructorLoop)'
    BY DestructorParts, PTL
  <2>2. QED
    BY <1>3, <2>1, NextRequestIsLocal DEF Local
<1>4. CASE FatalError
  <2>1. /\ UNCHANGED <<objects, top, dtor_idx>> /\ fatal'
        /\ phase' = "over" => current' = Main /\ pc' = User
    BY <1>4 DEF FatalError, Bailout, InUserCode
  <2>2. QED
    BY <1>1, <2>1 DEF DestructorLoop
<1>5. CASE ForwardBailout
  <2>1. /\ UNCHANGED <<objects, top, dtor_idx>> /\ fatal'
        /\ phase' = "over" => current' = Main /\ pc' = User
    BY <1>2, <1>5, ArrivalFacts DEF ForwardBailout, Bailout
  <2>2. QED
    BY <1>1, <2>1 DEF DestructorLoop
<1>6. CASE \E f \in Fibers : Construct(f)
  <2>1. PICK f \in Fibers : Construct(f)
    BY <1>6
  <2>2. /\ objects' = objects \cup {f} /\ top' = (IF f >= top THEN f + 1 ELSE top)
        /\ phase = "script" \/ f >= top
        /\ UNCHANGED <<dtor_called, phase, dtor_idx, fatal>> /\ phase # "over"
    BY <2>1 DEF Construct, HandleAvailable, InUserCode
  <2>3. f \in Int
    BY <1>1
  <2>4. (\A g \in objects' : g < top') /\ dtor_idx' <= top'
    BY <1>1, <2>2, <2>3 DEF DestructorLoop
  <2>5. ~fatal /\ phase = "destructors" => \A g \in objects' : g < dtor_idx => g \in dtor_called
    BY <1>1, <2>2, <2>3 DEF DestructorLoop
  <2>6. QED
    BY <2>2, <2>4, <2>5 DEF DestructorLoop
<1>7. CASE CallDestructor
  <2>1. /\ phase = "destructors" /\ dtor_idx < top /\ dtor_idx' = dtor_idx + 1
        /\ UNCHANGED <<objects, top, phase, fatal>>
        /\ dtor_called \subseteq dtor_called'
        /\ dtor_idx \in objects => dtor_idx \in dtor_called'
    BY <1>7 DEF CallDestructor, MoreObjects
  <2>2. \A f \in objects : f < dtor_idx + 1 => f < dtor_idx \/ f = dtor_idx
    BY <1>1
  <2>3. dtor_idx + 1 <= top
    BY <1>1, <2>1
  <2>4. QED
    BY <1>1, <2>1, <2>2, <2>3 DEF DestructorLoop
<1>8. CASE DestructorsDone
  <2>1. /\ phase = "destructors" /\ ~(dtor_idx < top) /\ phase' = "over" /\ current = Main /\ pc = User
        /\ UNCHANGED <<objects, top, dtor_called, fatal, dtor_idx, pc, current>>
    BY <1>8 DEF DestructorsDone, MoreObjects, InUserCode, objvars, ctxvars
  <2>2. \A f \in objects : f < dtor_idx
    BY <1>1, <2>1 DEF DestructorLoop
  <2>3. QED
    BY <1>1, <2>1, <2>2 DEF DestructorLoop
<1>9. CASE EndScript
  <2>1. /\ phase' = "destructors" /\ dtor_idx' = 1 /\ UNCHANGED <<objects, top, fatal>>
    BY <1>9 DEF EndScript, objvars
  <2>2. \A f \in objects : ~(f < 1)
    BY <1>1, ConstantsAssumption DEF Fibers
  <2>3. QED
    BY <1>1, <2>1, <2>2 DEF DestructorLoop
<1>10. CASE \E f \in Fibers : DelFree(f)
  <2>1. PICK f \in Fibers : DelFree(f)
    BY <1>10
  <2>2. /\ objects' = objects \ {f} /\ dtor_called' = dtor_called \ {f}
        /\ UNCHANGED <<top, phase, dtor_idx, fatal>> /\ phase # "over"
    BY <1>2, <2>1 DEF DelFree
  <2>3. QED
    BY <1>1, <2>2 DEF DestructorLoop
<1>11. CASE \E f \in Fibers : DelDestroy(f)
  <2>1. PICK f \in Fibers : DelDestroy(f)
    BY <1>11
  <2>2. /\ dtor_called \subseteq dtor_called' /\ UNCHANGED <<objects, top, phase, dtor_idx, fatal>> /\ phase # "over"
    BY <1>2, <2>1 DEF DelDestroy
  <2>3. QED
    BY <1>1, <2>2 DEF DestructorLoop
<1>12. CASE UNCHANGED <<objects, top, dtor_called, dtor_idx, fatal, phase>> /\ phase # "over"
  BY <1>1, <1>12 DEF DestructorLoop
<1>13. CASE EnterFunction \/ ReturnFromSwitch
  <2>1. UNCHANGED <<objects, top, dtor_called, dtor_idx, fatal, phase>> /\ phase # "over"
    BY <1>2, <1>13 DEF EnterFunction, ReturnFromSwitch, objvars
  <2>2. QED
    BY <1>12, <2>1
<1>14. CASE Suspend \/ GetCurrent \/ SwitchBlock \/ SwitchUnblock
            \/ (\E flag \in {"none", "error"} : EndFunction(flag))
            \/ (\E f \in Fibers : Start(f) \/ Drop(f))
            \/ (\E f \in Fibers, flag \in {"none", "error"} : Resume(f, flag))
  <2>1. UNCHANGED <<objects, top, dtor_called, dtor_idx, fatal, phase>> /\ phase # "over"
    BY <1>14 DEF Suspend, GetCurrent, SwitchBlock, SwitchUnblock, EndFunction, Start, Drop, Resume,
       InUserCode, objvars
  <2>2. QED
    BY <1>12, <2>1
<1>15. QED
  BY <1>3, <1>4, <1>5, <1>6, <1>7, <1>8, <1>9, <1>10, <1>11, <1>13, <1>14 DEF Next

\* Every step keeps what can be said without the call stack.
LEMMA LocalStep == ASSUME Local, Alone, Next PROVE Local'
<1>1. TypeOK' /\ BlocksAreCounted'
  BY TypesStep, BlocksStep
<1>2. Switching'
  BY <1>1, SwitchingStep
<1>3. Links' /\ StacksOfContexts' /\ DeletedIsUnreferenced'
  BY LinksStep, StacksStep, DeletedStep
<1>4. Destructors'
  <2>1. (Destructors <=> DestructorRan /\ DestructorLoop)'
    BY DestructorParts, PTL
  <2>2. QED
    BY <2>1, DestructorRanStep, DestructorLoopStep
<1>5. QED
  BY <1>1, <1>2, <1>3, <1>4 DEF Local, Switching

\* A fiber that is not on the call stack and whose destructor ran has a C stack only if it
\* was started too late or a fatal error kept the destructor from its work.
LEMMA NotUnwound ==
  ASSUME Local, NEW f \in Fibers, f \in stacks, ~Live(f), transfer.from = NULL,
         ~fatal => f \in dtor_called
  PROVE  Cause(f) = "abandoned"
<1>1. status[f] \in {"RUNNING", "SUSPENDED"}
  BY ContextFacts DEF Local, StacksOfContexts
<1>2. caller[f] = NULL /\ status[f] = "SUSPENDED"
  BY <1>1 DEF Live, Local, FiberFacts
<1>3. f \notin destroyed
  BY <1>2 DEF Local, FiberFacts, Live
<1>4. ~fatal => f \in late
  BY <1>2, <1>3 DEF Local, Destructors
<1>5. QED
  BY <1>4 DEF Cause

\* Every C stack that outlives its fiber has its reason.
LEMMA OrphansStep ==
  ASSUME Local, Alone, OrphansAreExplained, Next
  PROVE  OrphansAreExplained'
<1>1. pc # Arrive => transfer.from = NULL
  BY NothingFacts DEF Local, Arrival
<1>2. CASE \E f \in Fibers : DelFree(f)
  <2>1. PICK f \in Fibers : DelFree(f)
    BY <1>2
  <2>2. pc = Del(f) /\ f \in dtor_called /\ orphans' = Orphaned({f})
    BY <2>1 DEF DelFree
  <2>3. transfer.from = NULL /\ ~Live(f)
    BY <1>1, <2>2, PcFacts, DeletedIsNotLive
  <2>4. f \in stacks => Cause(f) = "abandoned"
    BY <2>2, <2>3, NotUnwound
  <2>5. QED
    BY <2>2, <2>4 DEF Orphaned, OrphansAreExplained
<1>3. CASE NextRequest
  <2>1. phase = "over" /\ orphans' = Orphaned(Fibers)
    BY <1>3 DEF NextRequest
  <2>2. current = Main /\ pc = User /\ (~fatal => \A f \in objects : f \in dtor_called)
    BY <2>1 DEF Local, Destructors
  <2>3. transfer.from = NULL /\ \A f \in Fibers : ~Live(f)
    BY <1>1, <2>2, PcFacts DEF Alone
  <2>4. ASSUME NEW f \in Fibers, f \in stacks PROVE Cause(f) = "abandoned"
    <3>1. f \in objects
      BY <2>3, <2>4, ContextFacts DEF Local, StacksOfContexts, FiberFacts
    <3>2. QED
      BY <2>2, <2>3, <2>4, <3>1, NotUnwound
  <2>5. QED
    BY <2>1, <2>4 DEF Orphaned, OrphansAreExplained
<1>4. CASE UNCHANGED orphans
  BY <1>4 DEF OrphansAreExplained
<1>5. QED
  BY <1>2, <1>3, <1>4 DEF Next, EnterFunction, ReturnFromSwitch, ForwardBailout, Suspend, GetCurrent,
     SwitchBlock, SwitchUnblock, FatalError, EndFunction, Construct, Start, Drop, DelDestroy, Resume,
     EndScript, CallDestructor, DestructorsDone, ghosts

------------------------------------------------------------------------------
(* The call stack.                                                         *)

\* One more element in front.
LEMMA ConsFacts ==
  ASSUME NEW s \in Seq(Contexts), NEW e \in Contexts
  PROVE  \E N \in Seq(Contexts) : /\ N = <<e>> \o s /\ Len(N) = Len(s) + 1 /\ N[1] = e
                                  /\ \A i \in 1 .. Len(s) : N[i + 1] = s[i]
<1> DEFINE N == <<e>> \o s
<1>1. N \in Seq(Contexts) /\ Len(N) = Len(s) + 1
  OBVIOUS
<1>2. Len(s) \in Nat
  OBVIOUS
<1>3. N[1] = e
  BY <1>2
<1>4. \A i \in 1 .. Len(s) : N[i + 1] = s[i]
  BY <1>2, SMTT(30)
<1> HIDE DEF N
<1>5. QED
  BY <1>1, <1>3, <1>4 DEF N

\* The first element gone.
LEMMA TailFacts ==
  ASSUME NEW S, NEW s \in Seq(S), Len(s) >= 1
  PROVE  \E N \in Seq(S) : /\ N = Tail(s) /\ Len(N) = Len(s) - 1
                           /\ \A i \in 1 .. Len(s) - 1 : N[i] = s[i + 1]
<1> DEFINE N == Tail(s)
<1>1. Len(s) \in Nat /\ s # << >>
  OBVIOUS
<1>2. N \in Seq(S) /\ Len(N) = Len(s) - 1
  BY <1>1
<1>3. \A i \in 1 .. Len(s) - 1 : N[i] = s[i + 1]
  BY <1>1
<1> HIDE DEF N
<1>4. QED
  BY <1>2, <1>3 DEF N

\* The main program is at the bottom, and alone there.
LEMMA ChainAlone ==
  ASSUME NEW cs \in Seq(Contexts), CallChain(cs)
  PROVE  /\ Alone
         /\ current = Main => Len(cs) = 1
         /\ current # Main => Len(cs) >= 2 /\ cs[2] = caller[current]
<1>1. Len(cs) \in Nat /\ Len(cs) >= 1 /\ 1 \in 1 .. Len(cs) /\ Len(cs) \in 1 .. Len(cs)
  BY DEF CallChain
<1>2. current = Main => Len(cs) = 1
  BY <1>1 DEF CallChain
<1>3. current # Main => Len(cs) >= 2
  BY <1>1 DEF CallChain
<1>4. current # Main => cs[2] = caller[current]
  <2> SUFFICES ASSUME current # Main PROVE cs[2] = caller[current]
    OBVIOUS
  <2>1. 1 \in 1 .. Len(cs) - 1 /\ 1 + 1 = 2
    BY <1>1, <1>3
  <2>2. caller[cs[1]] = cs[1 + 1] /\ cs[1] = current
    BY <2>1 DEF CallChain
  <2>3. QED
    BY <2>1, <2>2
<1>5. Alone
  <2> SUFFICES ASSUME current = Main, NEW f \in Fibers, Live(f) PROVE FALSE
    BY DEF Alone
  <2>1. PICK n \in 1 .. Len(cs) : cs[n] = f
    <3>1. Live(f) <=> \E n \in 1 .. Len(cs) : cs[n] = f
      BY DEF CallChain
    <3>2. QED
      BY <3>1
  <2>2. n = 1 /\ cs[1] = Main
    <3>1. Len(cs) = 1
      BY <1>2
    <3>2. n = 1
      BY <3>1
    <3>3. QED
      BY <3>1, <3>2 DEF CallChain
  <2>3. QED
    BY <2>1, <2>2, ContextFacts
<1>6. QED
  BY <1>2, <1>3, <1>4, <1>5

\* Entering f puts it on top.
LEMMA ChainPush ==
  ASSUME Local, NEW cs \in Seq(Contexts), CallChain(cs), BlocksOn(cs),
         NEW f \in Fibers, f # current, caller[f] = NULL, status[f] \in {"INIT", "SUSPENDED"},
         NEW by, NEW flag, Entered(f, by, flag), UNCHANGED blocks, destroyed \subseteq destroyed',
         Len(blocks) = 0 \/ f \in destroyed'
  PROVE  \E N \in Seq(Contexts) : N = <<f>> \o cs /\ CallChain(N)' /\ BlocksOn(N)'
<1>1. f \in Contexts /\ current \in Contexts /\ current # NULL /\ Fibers \subseteq Contexts
  BY ContextFacts DEF Local, TypeOK
<1>2. PICK N \in Seq(Contexts) : /\ N = <<f>> \o cs /\ Len(N) = Len(cs) + 1 /\ N[1] = f
                                 /\ \A i \in 1 .. Len(cs) : N[i + 1] = cs[i]
  BY <1>1, ConsFacts
<1>3. Len(cs) \in Nat /\ Len(cs) >= 1
  BY DEF CallChain
<1>4. \A n \in 1 .. Len(N) : n = 1 \/ (n - 1 \in 1 .. Len(cs) /\ N[n] = cs[n - 1])
  <2> TAKE n \in 1 .. Len(N)
  <2>1. CASE n # 1
    <3>1. n - 1 \in 1 .. Len(cs) /\ (n - 1) + 1 = n
      BY <1>2, <1>3, <2>1
    <3>2. QED
      BY <1>2, <3>1
  <2>2. QED
    BY <2>1
<1>5. \A i \in 1 .. Len(cs) : i + 1 \in 1 .. Len(N) /\ N[i + 1] = cs[i]
  BY <1>2, <1>3
<1>6. ~Live(f) /\ Live(f)'
  BY <1>1 DEF Live, Entered
<1>7. \A g \in Fibers : g # f => (Live(g)' <=> Live(g)) /\ caller'[g] = caller[g]
  <2> TAKE g \in Fibers
  <2>1. CASE g = current
    BY <1>1, <2>1 DEF Live, Entered, Local, OneRuns
  <2>2. CASE g # current
    BY <1>1, <2>2 DEF Live, Entered
  <2>3. QED
    BY <2>1, <2>2
<1>8. \A n \in 1 .. Len(cs) : cs[n] # f
  BY <1>6 DEF CallChain
<1>9. CallChain(N)'
  <2>1. Len(N) >= 1 /\ N[1] = current' /\ N[Len(N)] = Main
    BY <1>2, <1>3, <1>5 DEF Entered, CallChain
  <2>2. ASSUME NEW n \in 1 .. Len(N) - 1 PROVE N[n] \in Fibers /\ caller'[N[n]] = N[n + 1]
    <3>1. CASE n = 1
      <4>1. N[1 + 1] = cs[1] /\ cs[1] = current
        BY <1>3, <1>5 DEF CallChain
      <4>2. QED
        BY <1>2, <3>1, <4>1 DEF Entered
    <3>2. CASE n # 1
      <4>1. n - 1 \in 1 .. Len(cs) - 1 /\ n \in 1 .. Len(cs) /\ (n - 1) + 1 = n /\ n - 1 \in 1 .. Len(cs)
        BY <1>2, <1>3, <3>2
      <4>2. N[n] = cs[n - 1] /\ N[n + 1] = cs[n]
        BY <1>2, <4>1
      <4>3. cs[n - 1] \in Fibers /\ caller[cs[n - 1]] = cs[n]
        BY <4>1 DEF CallChain
      <4>4. cs[n - 1] # f
        BY <1>8, <4>1
      <4>5. QED
        BY <1>7, <4>2, <4>3, <4>4
    <3>3. QED
      BY <3>1, <3>2
  <2>3. ASSUME NEW m \in 1 .. Len(N), NEW n \in 1 .. Len(N), N[m] = N[n] PROVE m = n
    <3>1. CASE m = 1
      BY <1>2, <1>4, <1>8, <2>3, <3>1
    <3>2. CASE n = 1
      BY <1>2, <1>4, <1>8, <2>3, <3>2
    <3>3. CASE m # 1 /\ n # 1
      <4>1. m - 1 \in 1 .. Len(cs) /\ n - 1 \in 1 .. Len(cs) /\ cs[m - 1] = cs[n - 1]
        BY <1>4, <2>3, <3>3
      <4>2. m - 1 = n - 1
        BY <4>1 DEF CallChain
      <4>3. QED
        BY <4>2
    <3>4. QED
      BY <3>1, <3>2, <3>3
  <2>4. ASSUME NEW g \in Fibers PROVE Live(g)' <=> \E n \in 1 .. Len(N) : N[n] = g
    <3>1. CASE g = f
      BY <1>2, <1>3, <1>6, <3>1
    <3>2. CASE g # f
      <4>1. Live(g) <=> \E n \in 1 .. Len(cs) : cs[n] = g
        BY DEF CallChain
      <4>2. (\E n \in 1 .. Len(cs) : cs[n] = g) => \E n \in 1 .. Len(N) : N[n] = g
        BY <1>5
      <4>3. (\E n \in 1 .. Len(N) : N[n] = g) => \E n \in 1 .. Len(cs) : cs[n] = g
        BY <1>2, <1>4, <3>2
      <4>4. QED
        BY <1>7, <3>2, <4>1, <4>2, <4>3
    <3>3. QED
      BY <3>1, <3>2
  <2>5. QED
    BY <2>1, <2>2, <2>3, <2>4 DEF CallChain
<1>10. BlocksOn(N)'
  <2>1. CASE Len(blocks) = 0
    BY <2>1 DEF BlocksOn
  <2>2. CASE f \in destroyed'
    <3>1. ASSUME NEW i \in 1 .. Len(blocks)
          PROVE  \E n \in 1 .. Len(N) : N[n] = blocks[i] /\ \A k \in 1 .. n - 1 : N[k] \in destroyed'
      <4>1. PICK n \in 1 .. Len(cs) : cs[n] = blocks[i] /\ \A k \in 1 .. n - 1 : cs[k] \in destroyed
        BY DEF BlocksOn
      <4>2. n + 1 \in 1 .. Len(N) /\ N[n + 1] = blocks[i]
        BY <1>5, <4>1
      <4>3. ASSUME NEW k \in 1 .. (n + 1) - 1 PROVE N[k] \in destroyed'
        <5>1. CASE k = 1
          BY <1>2, <2>2, <5>1
        <5>2. CASE k # 1
          <6>1. k - 1 \in 1 .. n - 1 /\ k - 1 \in 1 .. Len(cs) /\ (k - 1) + 1 = k
            BY <1>3, <5>2
          <6>2. QED
            BY <1>5, <4>1, <6>1
        <5>3. QED
          BY <5>1, <5>2
      <4>4. QED
        BY <4>2, <4>3
    <3>2. ASSUME NEW i \in 1 .. Len(blocks), NEW j \in 1 .. Len(blocks), NEW n \in 1 .. Len(N),
                 i < j, N[n] = blocks[i]
          PROVE  \E m \in 1 .. n : N[m] = blocks[j]
      <4>1. n # 1
        <5>1. \E k \in 1 .. Len(cs) : cs[k] = blocks[i]
          BY DEF BlocksOn
        <5>2. QED
          BY <1>2, <1>8, <3>2, <5>1
      <4>2. n - 1 \in 1 .. Len(cs) /\ cs[n - 1] = blocks[i]
        BY <1>4, <3>2, <4>1
      <4>3. PICK m \in 1 .. n - 1 : cs[m] = blocks[j]
        BY <3>2, <4>2 DEF BlocksOn
      <4>4. m + 1 \in 1 .. n /\ m \in 1 .. Len(cs)
        BY <1>3, <4>2, <4>3
      <4>5. N[m + 1] = blocks[j]
        BY <1>5, <4>3, <4>4
      <4>6. QED
        BY <4>4, <4>5
    <3>3. QED
      BY <3>1, <3>2 DEF BlocksOn
  <2>3. QED
    BY <2>1, <2>2
<1>11. QED
  BY <1>2, <1>9, <1>10

\* Leaving the running fiber takes it off.
LEMMA ChainPop ==
  ASSUME Local, NEW cs \in Seq(Contexts), CallChain(cs), BlocksOn(cs), current # Main,
         NEW left_as \in {"SUSPENDED", "DEAD"}, NEW flag, Left(left_as, flag),
         left_as = "SUSPENDED" => caller'[current] = NULL,
         \A g \in Fibers : g # current => caller'[g] = IF status[g] = "DEAD" THEN NULL ELSE caller[g],
         UNCHANGED destroyed, Len(blocks') <= Len(blocks), Len(blocks') \in Nat, Len(blocks) \in Nat,
         \A i \in 1 .. Len(blocks') : blocks'[i] = blocks[i] /\ blocks[i] # current
  PROVE  \E N \in Seq(Contexts) : N = Tail(cs) /\ CallChain(N)' /\ BlocksOn(N)'
<1>1. /\ current \in Fibers /\ current \in Contexts /\ caller[current] \in Contexts
      /\ caller[current] # current /\ Fibers \subseteq Contexts
      /\ frame[caller[current]].by \in Resumers
  BY RunningIsLive, ContextFacts
<1>2. Len(cs) \in Nat /\ Len(cs) >= 2 /\ cs[2] = caller[current] /\ cs[1] = current
      /\ Len(cs) >= 1 /\ cs[Len(cs)] = Main
  BY ChainAlone DEF CallChain
<1>3. PICK N \in Seq(Contexts) : /\ N = Tail(cs) /\ Len(N) = Len(cs) - 1
                                 /\ \A i \in 1 .. Len(cs) - 1 : N[i] = cs[i + 1]
  BY <1>2, TailFacts
<1>4. \A n \in 1 .. Len(N) : n + 1 \in 1 .. Len(cs) /\ N[n] = cs[n + 1]
  BY <1>2, <1>3
<1>5. \A n \in 1 .. Len(cs) : n # 1 => n - 1 \in 1 .. Len(N) /\ N[n - 1] = cs[n]
  <2> TAKE n \in 1 .. Len(cs)
  <2>1. n # 1 => n - 1 \in 1 .. Len(cs) - 1 /\ (n - 1) + 1 = n
    BY <1>2
  <2>2. QED
    BY <1>3, <2>1
<1> PICK p \in Fibers : p = current
  BY <1>1
<1>6. ~Live(p)'
  BY DEF Live, Left
<1>7. \A g \in Fibers : g # p => (Live(g)' <=> Live(g)) /\ (Live(g) => caller'[g] = caller[g])
  <2> TAKE g \in Fibers
  <2>1. CASE g = caller[current]
    <3>1. Live(g)
      BY <1>1, <2>1 DEF Local, FramesAreOwn
    <3>2. status'[g] = "RUNNING"
      BY <2>1 DEF Left
    <3>3. QED
      BY <3>1, <3>2 DEF Live
  <2>2. CASE g # caller[current] /\ g # p
    BY <1>1, <2>2 DEF Live, Left
  <2>3. QED
    BY <2>1, <2>2
<1>8. \A n \in 1 .. Len(N) : N[n] # p
  <2> TAKE n \in 1 .. Len(N)
  <2>1. n + 1 \in 1 .. Len(cs) /\ N[n] = cs[n + 1] /\ 1 \in 1 .. Len(cs) /\ n + 1 # 1
    BY <1>2, <1>4
  <2>2. QED
    BY <1>2, <2>1 DEF CallChain
<1>9. CallChain(N)'
  <2>1. Len(N) >= 1 /\ N[1] = current' /\ N[Len(N)] = Main
    <3>1. 1 \in 1 .. Len(N) /\ Len(N) \in 1 .. Len(N) /\ Len(N) + 1 = Len(cs) /\ 1 + 1 = 2
      BY <1>2, <1>3
    <3>2. QED
      BY <1>2, <1>4, <3>1 DEF Left
  <2>2. ASSUME NEW n \in 1 .. Len(N) - 1 PROVE N[n] \in Fibers /\ caller'[N[n]] = N[n + 1]
    <3>1. n \in 1 .. Len(N) /\ n + 1 \in 1 .. Len(N) /\ n + 1 \in 1 .. Len(cs) - 1 /\ n + 1 \in 1 .. Len(cs)
      BY <1>2, <1>3
    <3>2. N[n] = cs[n + 1] /\ N[n + 1] = cs[(n + 1) + 1]
      BY <1>4, <3>1
    <3>3. cs[n + 1] \in Fibers /\ caller[cs[n + 1]] = cs[(n + 1) + 1]
      BY <3>1 DEF CallChain
    <3>4. Live(cs[n + 1]) /\ N[n] # p
      BY <1>8, <3>1, <3>3 DEF CallChain
    <3>5. QED
      BY <1>7, <3>2, <3>3, <3>4
  <2>3. ASSUME NEW m \in 1 .. Len(N), NEW n \in 1 .. Len(N), N[m] = N[n] PROVE m = n
    <3>1. m + 1 \in 1 .. Len(cs) /\ n + 1 \in 1 .. Len(cs) /\ cs[m + 1] = cs[n + 1]
      BY <1>4, <2>3
    <3>2. m + 1 = n + 1
      BY <3>1 DEF CallChain
    <3>3. QED
      BY <3>2
  <2>4. ASSUME NEW g \in Fibers PROVE Live(g)' <=> \E n \in 1 .. Len(N) : N[n] = g
    <3>1. CASE g = p
      BY <1>6, <1>8, <3>1
    <3>2. CASE g # p
      <4>1. Live(g) <=> \E n \in 1 .. Len(cs) : cs[n] = g
        BY DEF CallChain
      <4>2. (\E n \in 1 .. Len(cs) : cs[n] = g) => \E n \in 1 .. Len(N) : N[n] = g
        BY <1>2, <1>5, <3>2
      <4>3. (\E n \in 1 .. Len(N) : N[n] = g) => \E n \in 1 .. Len(cs) : cs[n] = g
        BY <1>4
      <4>4. QED
        BY <1>7, <3>2, <4>1, <4>2, <4>3
    <3>3. QED
      BY <3>1, <3>2
  <2>5. QED
    BY <2>1, <2>2, <2>3, <2>4 DEF CallChain
<1>10. \A i \in 1 .. Len(blocks') : i \in 1 .. Len(blocks)
  OBVIOUS
<1>11. BlocksOn(N)'
  <2>1. ASSUME NEW i \in 1 .. Len(blocks')
        PROVE  \E n \in 1 .. Len(N) : N[n] = blocks'[i] /\ \A k \in 1 .. n - 1 : N[k] \in destroyed
    <3>1. PICK n \in 1 .. Len(cs) : cs[n] = blocks[i] /\ \A k \in 1 .. n - 1 : cs[k] \in destroyed
      BY <1>10 DEF BlocksOn
    <3>2. n # 1
      BY <1>2, <3>1
    <3>3. n - 1 \in 1 .. Len(N) /\ N[n - 1] = blocks'[i]
      BY <1>5, <3>1, <3>2
    <3>4. ASSUME NEW k \in 1 .. (n - 1) - 1 PROVE N[k] \in destroyed
      <4>1. k + 1 \in 1 .. n - 1 /\ k \in 1 .. Len(N)
        BY <1>2, <1>3, <3>2
      <4>2. QED
        BY <1>4, <3>1, <4>1
    <3>5. QED
      BY <3>3, <3>4
  <2>2. ASSUME NEW i \in 1 .. Len(blocks'), NEW j \in 1 .. Len(blocks'), NEW n \in 1 .. Len(N),
               i < j, N[n] = blocks'[i]
        PROVE  \E m \in 1 .. n : N[m] = blocks'[j]
    <3>1. n + 1 \in 1 .. Len(cs) /\ cs[n + 1] = blocks[i]
      BY <1>4, <2>2
    <3>2. PICK m \in 1 .. n + 1 : cs[m] = blocks[j]
      BY <1>10, <2>2, <3>1 DEF BlocksOn
    <3>3. m # 1
      BY <1>2, <3>2
    <3>4. m \in 1 .. Len(cs) /\ m - 1 \in 1 .. n
      BY <1>2, <3>1, <3>2, <3>3
    <3>5. N[m - 1] = blocks'[j]
      BY <1>5, <3>2, <3>3, <3>4
    <3>6. QED
      BY <3>4, <3>5
  <2>3. QED
    BY <2>1, <2>2 DEF BlocksOn
<1>12. QED
  BY <1>3, <1>9, <1>11

\* The running context stays: handlers may begin, and those of this context end.
LEMMA ChainSame ==
  ASSUME NEW cs \in Seq(Contexts), CallChain(cs), BlocksOn(cs), UNCHANGED current,
         \A g \in Fibers : (Live(g)' <=> Live(g)) /\ (Live(g) => caller'[g] = caller[g]),
         \A g \in Fibers : Live(g) /\ g \in destroyed => g \in destroyed',
         blocks \in Seq(Contexts), Len(blocks') \in Nat,
         \A i \in 1 .. Len(blocks') :
            (i \in 1 .. Len(blocks) /\ blocks'[i] = blocks[i]) \/ (i = Len(blocks') /\ blocks'[i] = current)
  PROVE  CallChain(cs)' /\ BlocksOn(cs)'
<1>1. Len(cs) \in Nat /\ Len(cs) >= 1 /\ cs[1] = current /\ 1 \in 1 .. Len(cs) /\ Len(blocks) \in Nat
  BY DEF CallChain
<1>2. \A n \in 1 .. Len(cs) - 1 : n \in 1 .. Len(cs) /\ cs[n] \in Fibers /\ Live(cs[n]) /\ caller[cs[n]] = cs[n + 1]
  BY <1>1 DEF CallChain
<1>3. CallChain(cs)'
  <2>1. \A n \in 1 .. Len(cs) - 1 : cs[n] \in Fibers /\ caller'[cs[n]] = cs[n + 1]
    BY <1>2
  <2>2. QED
    BY <2>1 DEF CallChain
<1>4. BlocksOn(cs)'
  <2>1. ASSUME NEW i \in 1 .. Len(blocks')
        PROVE  \E n \in 1 .. Len(cs) : cs[n] = blocks'[i] /\ \A k \in 1 .. n - 1 : cs[k] \in destroyed'
    <3>1. CASE blocks'[i] = current
      BY <1>1, <3>1
    <3>2. CASE blocks'[i] # current
      <4>1. i \in 1 .. Len(blocks) /\ blocks'[i] = blocks[i]
        BY <3>2
      <4>2. PICK n \in 1 .. Len(cs) : cs[n] = blocks[i] /\ \A k \in 1 .. n - 1 : cs[k] \in destroyed
        BY <4>1 DEF BlocksOn
      <4>3. \A k \in 1 .. n - 1 : k \in 1 .. Len(cs) - 1
        BY <1>1
      <4>4. QED
        BY <1>2, <4>1, <4>2, <4>3
    <3>3. QED
      BY <3>1, <3>2
  <2>2. ASSUME NEW i \in 1 .. Len(blocks'), NEW j \in 1 .. Len(blocks'), NEW n \in 1 .. Len(cs),
               i < j, cs[n] = blocks'[i]
        PROVE  \E m \in 1 .. n : cs[m] = blocks'[j]
    <3>1. i \in 1 .. Len(blocks) /\ blocks'[i] = blocks[i]
      BY <2>2
    <3>2. CASE j \in 1 .. Len(blocks) /\ blocks'[j] = blocks[j]
      BY <2>2, <3>1, <3>2 DEF BlocksOn
    <3>3. CASE blocks'[j] = current
      BY <1>1, <3>3
    <3>4. QED
      BY <3>2, <3>3
  <2>3. QED
    BY <2>1, <2>2 DEF BlocksOn
<1>5. QED
  BY <1>3, <1>4

------------------------------------------------------------------------------
(* The steps by what they do to the call stack.                            *)

\* Somebody starts or resumes f, or throws a graceful exit into it.
Enters(f) ==
  \/ Start(f)
  \/ \E flag \in {"none", "error"} : Resume(f, flag)
  \/ DelDestroy(f) /\ status[f] = "SUSPENDED"
  \/ CallDestructor /\ f = dtor_idx /\ f \in objects \ dtor_called /\ status[f] = "SUSPENDED"

\* The running fiber suspends, ends, or dies of a fatal error.
Leaves ==
  \/ Suspend
  \/ \E flag \in {"none", "error"} : EndFunction(flag)
  \/ (FatalError \/ ForwardBailout) /\ current # Main

\* Nobody switches.
Stays ==
  \/ EnterFunction \/ ReturnFromSwitch \/ GetCurrent \/ SwitchBlock \/ SwitchUnblock
  \/ EndScript \/ DestructorsDone
  \/ (FatalError \/ ForwardBailout) /\ current = Main
  \/ \E f \in Fibers : Construct(f) \/ Drop(f)
  \/ (CallDestructor \/ \E f \in Fibers : DelDestroy(f)) /\ UNCHANGED <<destroyed, ctxvars, pc>>

\* Every step is one of these, frees a fiber, or begins a request.
LEMMA StepKinds ==
  ASSUME Local, Next
  PROVE  \/ \E f \in Fibers : Enters(f) \/ DelFree(f)
         \/ Leaves \/ Stays \/ NextRequest
<1>1. CASE CallDestructor
  <2>1. CASE /\ dtor_idx \in objects \ dtor_called /\ status[dtor_idx] = "SUSPENDED"
    <3>1. dtor_idx \in Fibers
      BY <2>1 DEF Local, TypeOK
    <3>2. Enters(dtor_idx)
      BY <1>1, <2>1 DEF Enters
    <3>3. QED
      BY <3>1, <3>2
  <2>2. CASE ~(dtor_idx \in objects \ dtor_called /\ status[dtor_idx] = "SUSPENDED")
    BY <1>1, <2>2 DEF CallDestructor, Stays
  <2>3. QED
    BY <2>1, <2>2
<1>2. CASE \E f \in Fibers : DelDestroy(f)
  <2>1. PICK f \in Fibers : DelDestroy(f)
    BY <1>2
  <2>2. CASE status[f] = "SUSPENDED"
    BY <2>1, <2>2 DEF Enters
  <2>3. CASE status[f] # "SUSPENDED"
    <3>1. UNCHANGED <<destroyed, ctxvars, pc>>
      BY <2>1, <2>3 DEF DelDestroy
    <3>2. QED
      BY <2>1, <3>1 DEF Stays
  <2>4. QED
    BY <2>2, <2>3
<1>3. CASE FatalError \/ ForwardBailout
  BY <1>3 DEF Leaves, Stays
<1>4. CASE EnterFunction \/ ReturnFromSwitch \/ GetCurrent \/ SwitchBlock \/ SwitchUnblock
           \/ EndScript \/ DestructorsDone \/ \E f \in Fibers : Construct(f) \/ Drop(f)
  BY <1>4 DEF Stays
<1>5. CASE Suspend \/ \E flag \in {"none", "error"} : EndFunction(flag)
  BY <1>5 DEF Leaves
<1>6. CASE \/ \E f \in Fibers : Start(f) \/ DelFree(f)
           \/ \E f \in Fibers, flag \in {"none", "error"} : Resume(f, flag)
  BY <1>6 DEF Enters
<1>7. QED
  BY <1>1, <1>2, <1>3, <1>4, <1>5, <1>6 DEF Next

\* What entering a fiber leaves alone, and what it needs.
LEMMA EntersFacts ==
  ASSUME Local, Alone, NEW f \in Fibers, Enters(f)
  PROVE  /\ f # current /\ f \in objects /\ caller[f] = NULL /\ status[f] \in {"INIT", "SUSPENDED"}
         /\ \E by, flag : Entered(f, by, flag)
         /\ UNCHANGED <<blocks, objects>>
         /\ \/ destroyed' = destroyed /\ Len(blocks) = 0
            \/ status[f] = "SUSPENDED" /\ destroyed' = destroyed \cup {f}
<1>1. switch_blocking = 0 => Len(blocks) = 0
  BY DEF Local, BlocksAreCounted, TypeOK
<1>2. CASE Start(f)
  <2>1. /\ f # current /\ f \in objects /\ Entered(f, "method", "none") /\ status[f] = "INIT"
        /\ switch_blocking = 0
    BY <1>2, StartFacts
  <2>2. UNCHANGED <<blocks, objects, destroyed>>
    BY <1>2 DEF Start, blkvars, objvars
  <2>3. caller[f] = NULL
    BY <2>1 DEF Local, FiberFacts
  <2>4. QED
    BY <1>1, <2>1, <2>2, <2>3
<1>3. CASE \E flag \in {"none", "error"} : Resume(f, flag)
  <2>1. PICK flag \in {"none", "error"} : Resume(f, flag)
    BY <1>3
  <2>2. /\ f # current /\ f \in objects /\ Entered(f, "method", flag)
        /\ status[f] = "SUSPENDED" /\ caller[f] = NULL /\ switch_blocking = 0
    BY <2>1, ResumeFacts
  <2>3. UNCHANGED <<blocks, objects, destroyed>>
    BY <2>1 DEF Resume, blkvars, objvars
  <2>4. QED
    BY <1>1, <2>2, <2>3
<1>4. ASSUME status[f] = "SUSPENDED", ~Live(f), f \in objects, NEW by, ForceClose(f, by),
             UNCHANGED <<blocks, objects>>
      PROVE  /\ f # current /\ f \in objects /\ caller[f] = NULL /\ status[f] \in {"INIT", "SUSPENDED"}
             /\ \E b, flag : Entered(f, b, flag)
             /\ UNCHANGED <<blocks, objects>>
             /\ status[f] = "SUSPENDED" /\ destroyed' = destroyed \cup {f}
  <2>1. f # current /\ Entered(f, by, "error") /\ destroyed' = destroyed \cup {f}
    BY <1>4, ForceCloseFacts
  <2>2. caller[f] = NULL
    BY <1>4 DEF Live
  <2>3. QED
    BY <1>4, <2>1, <2>2
<1>5. CASE DelDestroy(f) /\ status[f] = "SUSPENDED"
  <2>1. ~Live(f) /\ f \in objects
    BY <1>5, DeletedIsNotLive DEF DelDestroy
  <2>2. ForceClose(f, "del") /\ UNCHANGED <<blocks, objects>>
    BY <1>5 DEF DelDestroy, blkvars
  <2>3. QED
    BY <1>4, <1>5, <2>1, <2>2
<1>6. CASE CallDestructor /\ f = dtor_idx /\ f \in objects \ dtor_called /\ status[f] = "SUSPENDED"
  <2>1. ~Live(f) /\ f \in objects
    BY <1>6 DEF CallDestructor, Alone
  <2>2. ForceClose(f, "loop") /\ UNCHANGED <<blocks, objects>>
    BY <1>6 DEF CallDestructor, blkvars
  <2>3. QED
    BY <1>4, <1>6, <2>1, <2>2
<1>7. QED
  BY <1>2, <1>3, <1>5, <1>6 DEF Enters

\* A fatal error takes the handlers of its own context off.
LEMMA BailoutLeavesNoHandler ==
  ASSUME Local, NEW cs \in Seq(Contexts), CallChain(cs), BlocksOn(cs), Bailout
  PROVE  /\ Len(blocks') <= Len(blocks) /\ Len(blocks') \in Nat /\ Len(blocks) \in Nat
         /\ \A i \in 1 .. Len(blocks') : blocks'[i] = blocks[i] /\ blocks[i] # current
<1>1. blocks \in Seq(Contexts) /\ Len(blocks) \in Nat
  BY DEF Local, TypeOK
<1>2. PICK n \in 0 .. Len(blocks) :
           /\ blocks' \in Seq(Contexts) /\ Len(blocks') = n
           /\ \A i \in 1 .. n : blocks'[i] = blocks[i]
           /\ n > 0 => blocks[n] # current
           /\ \A i \in n + 1 .. Len(blocks) : blocks[i] = current
  BY <1>1, BailoutBlocks
<1>3. ASSUME NEW i \in 1 .. n, blocks[i] = current PROVE FALSE
  <2>1. CASE i = n
    BY <1>1, <1>2, <1>3, <2>1
  <2>2. CASE i # n
    <3>1. Len(cs) >= 1 /\ Len(cs) \in Nat /\ cs[1] = current
      BY DEF CallChain
    <3>2. i \in 1 .. Len(blocks) /\ n \in 1 .. Len(blocks) /\ i < n /\ 1 \in 1 .. Len(cs)
      BY <1>1, <1>2, <2>2, <3>1
    <3>3. \E m \in 1 .. 1 : cs[m] = blocks[n]
      BY <1>3, <3>1, <3>2 DEF BlocksOn
    <3>4. cs[1] = blocks[n] /\ n > 0
      BY <3>2, <3>3
    <3>5. QED
      BY <1>2, <3>1, <3>4
  <2>3. QED
    BY <2>1, <2>2
<1>4. QED
  BY <1>1, <1>2, <1>3

\* What leaving a fiber leaves alone, and what it needs.
LEMMA LeavesFacts ==
  ASSUME Local, NEW cs \in Seq(Contexts), CallChain(cs), BlocksOn(cs), Leaves
  PROVE  /\ current # Main
         /\ UNCHANGED <<destroyed, objects>>
         /\ \A g \in Fibers : g # current => caller'[g] = IF status[g] = "DEAD" THEN NULL ELSE caller[g]
         /\ Len(blocks') <= Len(blocks) /\ Len(blocks') \in Nat /\ Len(blocks) \in Nat
         /\ \A i \in 1 .. Len(blocks') : blocks'[i] = blocks[i] /\ blocks[i] # current
         /\ \/ Left("SUSPENDED", "none") /\ caller'[current] = NULL /\ current \notin destroyed
            \/ \E flag : Left("DEAD", flag)
<1>1. blocks \in Seq(Contexts) /\ Len(blocks) \in Nat
  BY DEF Local, TypeOK
<1>2. CASE Suspend
  <2>1. /\ current \in Fibers /\ current # Main /\ current \notin destroyed
        /\ switch_blocking = 0
        /\ Left("SUSPENDED", "none")
        /\ caller'[current] = NULL /\ \A g \in Fibers : g # current => caller'[g] = caller[g]
    BY <1>2, SuspendFacts
  <2>2. UNCHANGED <<destroyed, objects, blocks>> /\ pc # Arrive
    BY <1>2, PcFacts DEF Suspend, objvars, blkvars, InUserCode
  <2>3. Len(blocks) = 0
    BY <1>1, <2>1 DEF Local, BlocksAreCounted
  <2>4. \A g \in Fibers : caller[g] = IF status[g] = "DEAD" THEN NULL ELSE caller[g]
    BY <2>2, DeadHaveNoCaller
  <2>5. Len(blocks') = 0
    BY <2>2, <2>3
  <2>6. QED
    BY <1>1, <2>1, <2>2, <2>3, <2>4, <2>5
<1>3. CASE \E flag \in {"none", "error"} : EndFunction(flag)
  <2>1. PICK flag \in {"none", "error"} : EndFunction(flag)
    BY <1>3
  <2>2. /\ pc # Arrive /\ current # Main /\ SwitchContext(Resumer(current), "DEAD", flag)
        /\ UNCHANGED <<destroyed, objects, blocks, caller>>
        /\ \A i \in DOMAIN blocks : blocks[i] # current
    BY <2>1, PcFacts DEF EndFunction, InUserCode, objvars, blkvars
  <2>3. Left("DEAD", flag)
    BY <2>2, EndFacts
  <2>4. \A g \in Fibers : caller[g] = IF status[g] = "DEAD" THEN NULL ELSE caller[g]
    BY <2>2, DeadHaveNoCaller
  <2>5. \A i \in 1 .. Len(blocks') : blocks'[i] = blocks[i] /\ blocks[i] # current
    BY <1>1, <2>2
  <2>6. Len(blocks') = Len(blocks)
    BY <2>2
  <2>7. QED
    BY <1>1, <2>2, <2>3, <2>4, <2>5, <2>6
<1>4. ASSUME Bailout, current # Main, UNCHANGED <<destroyed, objects>>,
             \A g \in Fibers : caller'[g] = IF status[g] = "DEAD" THEN NULL ELSE caller[g]
      PROVE  /\ current # Main
             /\ UNCHANGED <<destroyed, objects>>
             /\ \A g \in Fibers : g # current => caller'[g] = IF status[g] = "DEAD" THEN NULL ELSE caller[g]
             /\ Len(blocks') <= Len(blocks) /\ Len(blocks') \in Nat /\ Len(blocks) \in Nat
             /\ \A i \in 1 .. Len(blocks') : blocks'[i] = blocks[i] /\ blocks[i] # current
             /\ \E flag : Left("DEAD", flag)
  <2>1. Left("DEAD", "bailout")
    BY <1>4, EndFacts DEF Bailout
  <2>2. /\ Len(blocks') <= Len(blocks) /\ Len(blocks') \in Nat /\ Len(blocks) \in Nat
        /\ \A i \in 1 .. Len(blocks') : blocks'[i] = blocks[i] /\ blocks[i] # current
    BY <1>4, BailoutLeavesNoHandler
  <2>3. QED
    BY <1>4, <2>1, <2>2
<1>5. CASE FatalError /\ current # Main
  <2>1. pc # Arrive /\ Bailout /\ UNCHANGED <<destroyed, objects, caller>>
    BY <1>5, PcFacts DEF FatalError, InUserCode
  <2>2. \A g \in Fibers : caller'[g] = IF status[g] = "DEAD" THEN NULL ELSE caller[g]
    BY <2>1, DeadHaveNoCaller
  <2>3. QED
    BY <1>4, <1>5, <2>1, <2>2
<1>6. CASE ForwardBailout /\ current # Main
  <2>1. pc = Arrive /\ DestroyDeadSender /\ Bailout /\ UNCHANGED <<destroyed, objects>>
    BY <1>6 DEF ForwardBailout
  <2>2. \A g \in Fibers : caller'[g] = IF status[g] = "DEAD" THEN NULL ELSE caller[g]
    BY <2>1, CleanupCallers
  <2>3. QED
    BY <1>4, <1>6, <2>1, <2>2
<1>7. QED
  BY <1>2, <1>3, <1>5, <1>6 DEF Leaves

\* A step that switches nobody leaves every fiber as it was, but for the caller of a
\* dead one; a handler of the running context may begin or end.
LEMMA StaysFacts ==
  ASSUME Local, NEW cs \in Seq(Contexts), CallChain(cs), BlocksOn(cs), Stays
  PROVE  /\ UNCHANGED <<current, status, destroyed>>
         /\ \A g \in Fibers : caller'[g] = IF status[g] = "DEAD" THEN NULL ELSE caller[g]
         /\ Len(blocks') \in Nat
         /\ \A i \in 1 .. Len(blocks') :
              \/ i \in 1 .. Len(blocks) /\ blocks'[i] = blocks[i]
              \/ i = Len(blocks') /\ blocks'[i] = current
         /\ UNCHANGED objects \/ \E f \in Fibers : Construct(f)
<1> DEFINE Callers == \A g \in Fibers : caller'[g] = IF status[g] = "DEAD" THEN NULL ELSE caller[g]
           Handlers == /\ Len(blocks') \in Nat
                       /\ \A i \in 1 .. Len(blocks') :
                            \/ i \in 1 .. Len(blocks) /\ blocks'[i] = blocks[i]
                            \/ i = Len(blocks') /\ blocks'[i] = current
<1>1. blocks \in Seq(Contexts) /\ Len(blocks) \in Nat /\ current \in Contexts
  BY DEF Local, TypeOK
<1>2. ASSUME UNCHANGED blocks PROVE Handlers
  BY <1>1, <1>2
<1>3. ASSUME pc # Arrive, UNCHANGED caller PROVE Callers
  BY <1>3, DeadHaveNoCaller
<1>4. ASSUME Bailout PROVE Handlers
  BY <1>4, BailoutLeavesNoHandler
<1> HIDE DEF Callers, Handlers
<1>5. CASE EnterFunction
  <2>1. pc = Arrive /\ frame[current].by = "none"
        /\ UNCHANGED <<current, status, destroyed, caller, blocks, objects>>
    BY <1>5 DEF EnterFunction, objvars, blkvars
  <2>2. status[transfer.from] # "DEAD"
    BY <2>1 DEF Local, Arrival
  <2>3. Callers
    BY <2>1, <2>2, DeadHaveNoCaller DEF Callers
  <2>4. QED
    BY <1>2, <2>1, <2>3 DEF Callers, Handlers
<1>6. CASE ReturnFromSwitch
  <2>1. pc = Arrive /\ DestroyDeadSender /\ UNCHANGED <<current, status, destroyed, blocks, objects>>
    BY <1>6 DEF ReturnFromSwitch, objvars, blkvars
  <2>2. Callers
    BY <2>1, CleanupCallers DEF Callers
  <2>3. QED
    BY <1>2, <2>1, <2>2 DEF Callers, Handlers
<1>7. CASE GetCurrent \/ EndScript \/ DestructorsDone
  <2>1. pc # Arrive /\ UNCHANGED <<current, status, destroyed, caller, blocks, objects>>
    BY <1>7, PcFacts DEF GetCurrent, EndScript, DestructorsDone, InUserCode, ctxvars, objvars, blkvars
  <2>2. QED
    BY <1>2, <1>3, <2>1 DEF Callers, Handlers
<1>8. CASE \E f \in Fibers : Construct(f) \/ Drop(f)
  <2>1. PICK f \in Fibers : Construct(f) \/ Drop(f)
    BY <1>8
  <2>2. pc # Arrive /\ UNCHANGED <<current, status, destroyed, caller, blocks>>
    BY <2>1, PcFacts DEF Construct, Drop, InUserCode, ctxvars, blkvars
  <2>3. UNCHANGED objects \/ Construct(f)
    BY <2>1 DEF Drop, objvars
  <2>4. QED
    BY <1>2, <1>3, <2>2, <2>3 DEF Callers, Handlers
<1>9. CASE /\ CallDestructor \/ \E f \in Fibers : DelDestroy(f)
           /\ UNCHANGED <<destroyed, ctxvars, pc>>
  <2>1. pc # Arrive /\ UNCHANGED <<blocks, objects>>
    BY <1>9, PcFacts DEF CallDestructor, DelDestroy, InUserCode, blkvars
  <2>2. UNCHANGED <<current, status, destroyed, caller>>
    BY <1>9 DEF ctxvars
  <2>3. QED
    BY <1>2, <1>3, <2>1, <2>2 DEF Callers, Handlers
<1>10. CASE FatalError /\ current = Main
  <2>1. pc # Arrive /\ Bailout /\ UNCHANGED <<current, status, destroyed, objects, caller>>
    BY <1>10, PcFacts DEF FatalError, InUserCode, Bailout
  <2>2. QED
    BY <1>3, <1>4, <2>1 DEF Callers, Handlers
<1>11. CASE ForwardBailout /\ current = Main
  <2>1. pc = Arrive /\ DestroyDeadSender /\ Bailout /\ UNCHANGED <<current, status, destroyed, objects>>
    BY <1>11 DEF ForwardBailout, Bailout
  <2>2. Callers
    BY <2>1, CleanupCallers DEF Callers
  <2>3. QED
    BY <1>4, <2>1, <2>2 DEF Callers, Handlers
<1>12. CASE SwitchBlock
  <2>1. pc # Arrive /\ UNCHANGED <<current, status, destroyed, objects, caller>>
        /\ blocks' = Append(blocks, current)
    BY <1>12, PcFacts DEF SwitchBlock, InUserCode, ctxvars, objvars
  <2>2. Len(blocks') = Len(blocks) + 1 /\ blocks'[Len(blocks')] = current
        /\ \A i \in 1 .. Len(blocks) : blocks'[i] = blocks[i]
    BY <1>1, <2>1
  <2>3. \A i \in 1 .. Len(blocks') : i \in 1 .. Len(blocks) \/ i = Len(blocks')
    BY <1>1, <2>2
  <2>4. Handlers
    BY <1>1, <2>2, <2>3 DEF Handlers
  <2>5. QED
    BY <1>3, <2>1, <2>4 DEF Callers, Handlers
<1>13. CASE SwitchUnblock
  <2>1. /\ pc # Arrive /\ UNCHANGED <<current, status, destroyed, objects, caller>>
        /\ blocks # << >> /\ blocks' = SubSeq(blocks, 1, Len(blocks) - 1)
    BY <1>13, PcFacts DEF SwitchUnblock, InUserCode, ctxvars, objvars
  <2>2. Len(blocks) - 1 \in 0 .. Len(blocks)
    BY <1>1, <2>1
  <2>3. Len(blocks') = Len(blocks) - 1 /\ \A i \in 1 .. Len(blocks) - 1 : blocks'[i] = blocks[i]
    BY <1>1, <2>1, <2>2, PrefixFacts
  <2>4. Handlers
    BY <1>1, <2>2, <2>3 DEF Handlers
  <2>5. QED
    BY <1>3, <2>1, <2>4 DEF Callers, Handlers
<1>14. QED
  BY <1>5, <1>6, <1>7, <1>8, <1>9, <1>10, <1>11, <1>12, <1>13 DEF Stays

\* A fiber that is freed was on nobody's call stack.
LEMMA FreeFacts ==
  ASSUME Local, NEW f \in Fibers, DelFree(f)
  PROVE  /\ ~Live(f) /\ f # current /\ f \in objects /\ status[f] # "RUNNING"
         /\ status'[f] = "INIT" /\ caller'[f] = NULL
         /\ objects' = objects \ {f} /\ destroyed' = destroyed \ {f} /\ UNCHANGED <<current, blocks>>
         /\ \A g \in Fibers : g # f => status'[g] = status[g] /\ caller'[g] = caller[g]
<1>1. pc = Del(f) /\ objects' = objects \ {f} /\ destroyed' = destroyed \ {f} /\ UNCHANGED <<current, blocks>>
  BY DEF DelFree, blkvars
<1>2. ~Live(f) /\ f # current /\ f \in objects /\ f \in Contexts
  BY <1>1, DeletedIsNotLive, ContextFacts
<1>3. status[f] # "RUNNING"
  BY <1>2 DEF Local, OneRuns
<1>4. /\ status'[f] = "INIT" /\ caller'[f] = NULL
      /\ \A g \in Fibers : g # f => status'[g] = status[g] /\ caller'[g] = caller[g]
  BY ContextFacts DEF DelFree, Local, TypeOK
<1>5. QED
  BY <1>1, <1>2, <1>3, <1>4

\* At the start of a request the main program is alone.
LEMMA ChainOfMain == RequestInit => CallChain(<<Main>>) /\ BlocksOn(<<Main>>) /\ <<Main>> \in Seq(Contexts)
<1> SUFFICES ASSUME RequestInit PROVE CallChain(<<Main>>) /\ BlocksOn(<<Main>>) /\ <<Main>> \in Seq(Contexts)
  OBVIOUS
<1>1. <<Main>> \in Seq(Contexts) /\ Len(<<Main>>) = 1 /\ <<Main>>[1] = Main
  BY ContextFacts
<1>2. current = Main /\ Len(blocks) = 0 /\ \A f \in Fibers : caller[f] = NULL /\ f # Main
  BY ContextFacts DEF RequestInit
<1> PICK cs : cs = <<Main>>
  OBVIOUS
<1>3. CallChain(cs)
  BY <1>1, <1>2 DEF CallChain, Live
<1>4. BlocksOn(cs)
  BY <1>2 DEF BlocksOn
<1>5. QED
  BY <1>1, <1>3, <1>4

\* The call stack after a step: entering a fiber puts it on top, leaving one takes it off,
\* every other step leaves it alone or starts from the main program.
LEMMA ChainStep ==
  ASSUME Local, NEW cs \in Seq(Contexts), CallChain(cs), BlocksOn(cs), Next
  PROVE  \E N \in Seq(Contexts) :
           /\ CallChain(N)' /\ BlocksOn(N)'
           /\ \/ \E f \in Fibers : Enters(f) /\ N = <<f>> \o cs
              \/ Leaves /\ N = Tail(cs)
              \/ \E f \in Fibers : DelFree(f) /\ N = cs
              \/ Stays /\ N = cs
              \/ NextRequest /\ N = <<Main>>
<1>1. Alone /\ blocks \in Seq(Contexts)
  BY ChainAlone DEF Local, TypeOK
<1>2. CASE \E f \in Fibers : Enters(f)
  <2>1. PICK f \in Fibers : Enters(f)
    BY <1>2
  <2>2. /\ f # current /\ caller[f] = NULL /\ status[f] \in {"INIT", "SUSPENDED"}
        /\ \E by, flag : Entered(f, by, flag)
        /\ UNCHANGED <<blocks, objects>>
        /\ \/ destroyed' = destroyed /\ Len(blocks) = 0
           \/ status[f] = "SUSPENDED" /\ destroyed' = destroyed \cup {f}
    BY <1>1, <2>1, EntersFacts
  <2>3. PICK by, flag : Entered(f, by, flag)
    BY <2>2
  <2>4. UNCHANGED blocks /\ destroyed \subseteq destroyed' /\ (Len(blocks) = 0 \/ f \in destroyed')
    BY <2>2
  <2>5. \E N \in Seq(Contexts) : N = <<f>> \o cs /\ CallChain(N)' /\ BlocksOn(N)'
    BY <2>2, <2>3, <2>4, ChainPush
  <2>6. QED
    BY <2>1, <2>5
<1>3. CASE Leaves
  <2>1. /\ current # Main
        /\ UNCHANGED <<destroyed, objects>>
        /\ \A g \in Fibers : g # current => caller'[g] = IF status[g] = "DEAD" THEN NULL ELSE caller[g]
        /\ Len(blocks') <= Len(blocks) /\ Len(blocks') \in Nat /\ Len(blocks) \in Nat
        /\ \A i \in 1 .. Len(blocks') : blocks'[i] = blocks[i] /\ blocks[i] # current
        /\ \/ Left("SUSPENDED", "none") /\ caller'[current] = NULL
           \/ \E flag : Left("DEAD", flag)
    BY <1>3, LeavesFacts
  <2>2. PICK left_as, flag :
          /\ left_as \in {"SUSPENDED", "DEAD"}
          /\ Left(left_as, flag) /\ (left_as = "SUSPENDED" => caller'[current] = NULL)
    BY <2>1
  <2>3. \E N \in Seq(Contexts) : N = Tail(cs) /\ CallChain(N)' /\ BlocksOn(N)'
    BY <2>1, <2>2, ChainPop
  <2>4. QED
    BY <1>3, <2>3
<1>4. CASE \E f \in Fibers : DelFree(f)
  <2>1. PICK f \in Fibers : DelFree(f)
    BY <1>4
  <2>2. /\ ~Live(f) /\ caller'[f] = NULL /\ destroyed' = destroyed \ {f} /\ UNCHANGED <<current, blocks>>
        /\ \A g \in Fibers : g # f => status'[g] = status[g] /\ caller'[g] = caller[g]
    BY <2>1, FreeFacts
  <2>3. \A g \in Fibers : (Live(g)' <=> Live(g)) /\ (Live(g) => caller'[g] = caller[g])
    BY <2>2 DEF Live
  <2>4. \A g \in Fibers : Live(g) /\ g \in destroyed => g \in destroyed'
    BY <2>2
  <2>5. /\ Len(blocks') \in Nat
        /\ \A i \in 1 .. Len(blocks') :
            (i \in 1 .. Len(blocks) /\ blocks'[i] = blocks[i]) \/ (i = Len(blocks') /\ blocks'[i] = current)
    BY <1>1, <2>2
  <2>6. CallChain(cs)' /\ BlocksOn(cs)'
    BY <1>1, <2>2, <2>3, <2>4, <2>5, ChainSame
  <2>7. QED
    BY <2>1, <2>6
<1>5. CASE Stays
  <2>1. /\ UNCHANGED <<current, status, destroyed>>
        /\ \A g \in Fibers : caller'[g] = IF status[g] = "DEAD" THEN NULL ELSE caller[g]
        /\ Len(blocks') \in Nat
        /\ \A i \in 1 .. Len(blocks') :
            (i \in 1 .. Len(blocks) /\ blocks'[i] = blocks[i]) \/ (i = Len(blocks') /\ blocks'[i] = current)
    BY <1>5, StaysFacts
  <2>2. \A g \in Fibers : (Live(g)' <=> Live(g)) /\ (Live(g) => caller'[g] = caller[g])
    BY <2>1 DEF Live
  <2>3. \A g \in Fibers : Live(g) /\ g \in destroyed => g \in destroyed'
    BY <2>1
  <2>4. CallChain(cs)' /\ BlocksOn(cs)'
    BY <1>1, <2>1, <2>2, <2>3, ChainSame
  <2>5. QED
    BY <1>5, <2>4
<1>6. CASE NextRequest
  <2>1. (RequestInit => CallChain(<<Main>>) /\ BlocksOn(<<Main>>) /\ <<Main>> \in Seq(Contexts))'
    BY ChainOfMain, PTL
  <2>2. CallChain(<<Main>>)' /\ BlocksOn(<<Main>>)' /\ <<Main>> \in Seq(Contexts)
    BY <1>6, <2>1, NextRequestIsInit
  <2>3. QED
    BY <1>6, <2>2
<1>7. QED
  BY <1>2, <1>3, <1>4, <1>5, <1>6, StepKinds

\* The switches of zend_fibers.c, fatal errors, handlers and the end of the script keep
\* the invariant, for any number of fibers and of nested handlers.
THEOREM FiberInvariantHolds == Spec => []FiberInvariant
<1>1. Init => FiberInvariant
  BY RequestInitIsLocal, ChainOfMain DEF Init, FiberInvariant, OrphansAreExplained
<1>2. FiberInvariant /\ [Next]_vars => FiberInvariant'
  <2> SUFFICES ASSUME FiberInvariant, [Next]_vars PROVE FiberInvariant'
    OBVIOUS
  <2>1. PICK cs \in Seq(Contexts) : Local /\ OrphansAreExplained /\ CallChain(cs) /\ BlocksOn(cs)
    BY DEF FiberInvariant
  <2>2. CASE Next
    <3>1. Alone
      BY <2>1, ChainAlone
    <3>2. Local' /\ OrphansAreExplained'
      BY <2>1, <2>2, <3>1, LocalStep, OrphansStep
    <3>3. \E N \in Seq(Contexts) : CallChain(N)' /\ BlocksOn(N)'
      BY <2>1, <2>2, ChainStep
    <3>4. QED
      BY <3>2, <3>3 DEF FiberInvariant
  <2>3. CASE UNCHANGED vars
    <3>1. UNCHANGED <<objvars, held, destroyed, ctxvars, pc, blkvars, phase, dtor_idx, fatal, late, orphans>>
      BY <2>3 DEF vars, ghosts
    <3>2. Local' /\ OrphansAreExplained'
      <4>1. TypeOK' /\ OneRuns' /\ FramesAreOwn' /\ CallersWait' /\ Arrival' /\ VmStateIsOwn'
        BY <2>1, <3>1 DEF objvars, ctxvars, blkvars, Local, TypeOK, OneRuns, FramesAreOwn, CallersWait,
           Arrival, VmStateIsOwn, Live
      <4>2. FiberFacts' /\ Links' /\ StacksOfContexts' /\ Destructors' /\ BlocksAreCounted'
        BY <2>1, <3>1 DEF objvars, ctxvars, blkvars, Local, FiberFacts, Links, StacksOfContexts,
           Destructors, BlocksAreCounted, Live
      <4>3. DeletedIsUnreferenced'
        BY <2>1, <3>1 DEF objvars, ctxvars, Local, DeletedIsUnreferenced, Referenced
      <4>4. QED
        BY <2>1, <3>1, <4>1, <4>2, <4>3 DEF Local, OrphansAreExplained
    <3>3. CallChain(cs)' /\ BlocksOn(cs)'
      <4>1. UNCHANGED <<current, status, caller, destroyed, blocks>>
        BY <3>1 DEF ctxvars, blkvars
      <4>2. \A f \in Fibers : Live(f)' <=> Live(f)
        BY <4>1 DEF Live
      <4>3. CallChain(cs)'
        BY <2>1, <4>1, <4>2 DEF CallChain
      <4>4. BlocksOn(cs)'
        BY <2>1, <4>1 DEF BlocksOn
      <4>5. QED
        BY <4>3, <4>4
    <3>4. QED
      BY <3>2, <3>3 DEF FiberInvariant
  <2>4. QED
    BY <2>2, <2>3
<1>3. QED
  BY <1>1, <1>2, PTL DEF Spec

------------------------------------------------------------------------------
(* The call stack read off the caller pointers is the chain of the         *)
(* invariant.                                                              *)

\* What the recursive definition of Up says.
IsUp(u) ==
  u = [n \in 0 .. NFibers |->
         IF n = 0 THEN current
         ELSE LET below == u[n - 1] IN IF below \in Fibers THEN caller[below] ELSE NULL]

\* No more contexts than there are can be on the call stack.
LEMMA ChainIsShort ==
  ASSUME NEW cs \in Seq(Contexts), CallChain(cs)
  PROVE  Len(cs) <= NFibers + 1
<1> DEFINE D == 1 .. Len(cs)
           C == 0 .. NFibers
<1>1. Len(cs) \in Nat /\ cs \in [D -> Contexts] /\ \A i, j \in D : cs[i] = cs[j] => i = j
  BY DEF CallChain
<1>2. Contexts = C /\ NFibers \in Nat
  BY ConstantsAssumption DEF Contexts, Main, Fibers
<1>3. IsFiniteSet(D) /\ Cardinality(D) = Len(cs)
  <2>1. IsFiniteSet(D) /\ Cardinality(D) = IF 1 > Len(cs) THEN 0 ELSE Len(cs) - 1 + 1
    BY <1>1, FS_Interval, SMTT(30)
  <2>2. QED
    BY <1>1, <2>1
<1>4. IsFiniteSet(C) /\ Cardinality(C) = NFibers + 1
  <2>1. IsFiniteSet(C) /\ Cardinality(C) = IF 0 > NFibers THEN 0 ELSE NFibers - 0 + 1
    BY <1>2, FS_Interval
  <2>2. QED
    BY <1>2, <2>1
<1> HIDE DEF D, C
<1>5. cs \in Injection(D, C)
  BY <1>1, <1>2 DEF Injection, IsInjective
<1>6. Cardinality(D) <= Cardinality(C)
  BY <1>4, <1>5, FS_Injection
<1>7. QED
  BY <1>3, <1>4, <1>6

\* The chain itself solves the equation, so Up does.
LEMMA UpExists ==
  ASSUME NEW cs \in Seq(Contexts), CallChain(cs)
  PROVE  IsUp(Up)
<1>1. Len(cs) \in Nat /\ Len(cs) >= 1 /\ cs[1] = current /\ cs[Len(cs)] = Main /\ NFibers \in Nat
  BY ConstantsAssumption DEF CallChain
<1> DEFINE w == [n \in 0 .. NFibers |-> IF n < Len(cs) THEN cs[n + 1] ELSE NULL]
<1>2. ASSUME NEW n \in 0 .. NFibers, n # 0
      PROVE  w[n] = IF w[n - 1] \in Fibers THEN caller[w[n - 1]] ELSE NULL
  <2>1. n - 1 \in 0 .. NFibers /\ n \in Nat /\ (n - 1) + 1 = n
    BY <1>1, <1>2
  <2>2. CASE n < Len(cs)
    <3>1. n \in 1 .. Len(cs) - 1 /\ n - 1 < Len(cs)
      BY <1>1, <1>2, <2>1, <2>2
    <3>2. w[n] = cs[n + 1] /\ w[n - 1] = cs[n]
      BY <2>1, <2>2, <3>1
    <3>3. cs[n] \in Fibers /\ caller[cs[n]] = cs[n + 1]
      BY <3>1 DEF CallChain
    <3> HIDE DEF w
    <3>4. QED
      BY <3>2, <3>3
  <2>3. CASE n = Len(cs)
    <3>1. w[n] = NULL /\ w[n - 1] = Main
      BY <1>1, <2>1, <2>3
    <3> HIDE DEF w
    <3>2. QED
      BY <3>1, ContextFacts
  <2>4. CASE n > Len(cs)
    <3>1. w[n] = NULL /\ w[n - 1] = NULL
      BY <1>1, <2>1, <2>4
    <3> HIDE DEF w
    <3>2. QED
      BY <3>1, ContextFacts
  <2>5. QED
    BY <1>1, <2>1, <2>2, <2>3, <2>4
<1>3. w[0] = current
  BY <1>1
<1>4. IsUp(w)
  <2>1. w = [n \in 0 .. NFibers |-> w[n]]
    OBVIOUS
  <2> HIDE DEF w
  <2>2. QED
    BY <1>2, <1>3, <2>1 DEF IsUp
<1> HIDE DEF w
<1>5. QED
  BY <1>4 DEF Up, IsUp

\* Up follows the chain to its end.
LEMMA UpFollows ==
  ASSUME NEW cs \in Seq(Contexts), CallChain(cs), NEW k \in 0 .. NFibers
  PROVE  Up[k] = IF k < Len(cs) THEN cs[k + 1] ELSE NULL
<1> DEFINE Good(j) == Up[j] = IF j < Len(cs) THEN cs[j + 1] ELSE NULL
           bad == {j \in 0 .. NFibers : ~Good(j)}
<1> SUFFICES ASSUME bad # {} PROVE FALSE
  OBVIOUS
<1>1. IsUp(Up)
  BY UpExists
<1>2. Len(cs) \in Nat /\ Len(cs) >= 1 /\ cs[1] = current /\ cs[Len(cs)] = Main /\ NFibers \in Nat
  BY ConstantsAssumption DEF CallChain
<1>3. PICK n \in bad : \A j \in bad : n <= j
  <2>1. bad \in SUBSET Nat
    OBVIOUS
  <2> HIDE DEF bad
  <2>2. QED
    BY <2>1, LeastNatural
<1>4. n \in 0 .. NFibers /\ ~Good(n)
  BY <1>3
<1>5. Up[n] = IF n = 0 THEN current
              ELSE IF Up[n - 1] \in Fibers THEN caller[Up[n - 1]] ELSE NULL
  BY <1>1, <1>4 DEF IsUp
<1>6. n # 0
  BY <1>2, <1>4, <1>5
<1>7. n - 1 \in 0 .. NFibers /\ n - 1 \notin bad /\ (n - 1) + 1 = n
  BY <1>2, <1>3, <1>4, <1>6
<1>8. Up[n - 1] = IF n - 1 < Len(cs) THEN cs[n] ELSE NULL
  BY <1>7
<1>9. CASE n < Len(cs)
  <2>1. n \in 1 .. Len(cs) - 1 /\ n - 1 < Len(cs)
    BY <1>2, <1>4, <1>6, <1>9
  <2>2. cs[n] \in Fibers /\ caller[cs[n]] = cs[n + 1]
    BY <2>1 DEF CallChain
  <2>3. QED
    BY <1>4, <1>5, <1>6, <1>8, <1>9, <2>1, <2>2
<1>10. CASE ~(n < Len(cs))
  <2>1. Up[n - 1] \notin Fibers
    <3>1. CASE n = Len(cs)
      BY <1>2, <1>4, <1>8, <3>1, ContextFacts
    <3>2. CASE n > Len(cs)
      BY <1>2, <1>4, <1>8, <3>2, ContextFacts
    <3>3. QED
      BY <1>2, <1>4, <1>10, <3>1, <3>2
  <2>2. QED
    BY <1>4, <1>5, <1>6, <1>10, <2>1
<1>11. QED
  BY <1>9, <1>10

\* CallStack is the chain.
LEMMA CallStackIsChain == \A cs \in Seq(Contexts) : CallChain(cs) => CallStack = cs
<1> SUFFICES ASSUME NEW cs \in Seq(Contexts), CallChain(cs) PROVE CallStack = cs
  OBVIOUS
<1>1. Len(cs) \in Nat /\ Len(cs) >= 1 /\ NFibers \in Nat /\ Len(cs) <= NFibers + 1
  BY ConstantsAssumption, ChainIsShort DEF CallChain
<1>2. \A k \in 0 .. NFibers : Up[k] = IF k < Len(cs) THEN cs[k + 1] ELSE NULL
  BY UpFollows
<1> DEFINE up == [n \in 0 .. NFibers |-> Up[n]]
           on == {k \in 0 .. NFibers : up[k] # NULL}
<1>3. \A k \in 0 .. NFibers : up[k] = IF k < Len(cs) THEN cs[k + 1] ELSE NULL
  BY <1>2
<1>4. CallStack = [n \in 1 .. Cardinality(on) |-> up[n - 1]]
  BY DEF CallStack
<1> HIDE DEF up
<1>5. \A k \in 0 .. NFibers : k < Len(cs) => k + 1 \in 1 .. Len(cs) /\ cs[k + 1] # NULL
  <2> TAKE k \in 0 .. NFibers
  <2> HAVE k < Len(cs)
  <2>1. k + 1 \in 1 .. Len(cs)
    BY <1>1
  <2>2. cs[k + 1] \in Contexts
    BY <2>1
  <2>3. QED
    BY <2>1, <2>2, ContextFacts
<1>6. on = 0 .. Len(cs) - 1
  BY <1>1, <1>3, <1>5
<1> HIDE DEF on
<1>7. Cardinality(on) = Len(cs)
  <2>1. Cardinality(0 .. Len(cs) - 1) = IF 0 > Len(cs) - 1 THEN 0 ELSE (Len(cs) - 1) - 0 + 1
    BY <1>1, FS_Interval
  <2>2. QED
    BY <1>1, <1>6, <2>1
<1>8. \A n \in 1 .. Len(cs) : up[n - 1] = cs[n]
  <2> TAKE n \in 1 .. Len(cs)
  <2>1. n - 1 \in 0 .. NFibers /\ n - 1 < Len(cs) /\ (n - 1) + 1 = n
    BY <1>1
  <2>2. QED
    BY <1>3, <2>1
<1>9. CallStack = [n \in 1 .. Len(cs) |-> cs[n]]
  BY <1>4, <1>7, <1>8
<1>10. cs = [n \in 1 .. Len(cs) |-> cs[n]]
  OBVIOUS
<1>11. QED
  BY <1>9, <1>10

------------------------------------------------------------------------------

------------------------------------------------------------------------------
(* The properties.                                                         *)

\* In any request, with any number of fibers and however they switch, the executor globals
\* are those of the context whose code runs (zend_fiber_switch_context).
THEOREM GlobalsBelongToTheRunning == Spec => []VmStateIsOwn
<1>1. FiberInvariant => VmStateIsOwn
  BY DEF FiberInvariant, Local
<1>2. QED
  BY <1>1, FiberInvariantHolds, PTL

\* A backtrace never follows a link into frames that are gone (stack_bottom->prev_execute_data).
THEOREM BacktracesAreSafe == Spec => []BacktraceFollowsCallers
<1>1. FiberInvariant => BacktraceFollowsCallers
  BY DEF FiberInvariant, Local, Links, BacktraceFollowsCallers
<1>2. QED
  BY <1>1, FiberInvariantHolds, PTL

\* Unless a fatal error cuts the request short, no started fiber is thrown away half-way
\* (zend_fiber_object_destroy, zend_objects_store_call_destructors).
THEOREM FibersAreUnwound == Spec => []SuspendedFibersAreUnwound
<1>1. FiberInvariant => SuspendedFibersAreUnwound
  <2> SUFFICES ASSUME Local, ~fatal, NEW f \in Fibers, status[f] = "SUSPENDED", caller[f] = NULL,
                      f \in dtor_called \/ phase = "over"
               PROVE  f \in late
    BY DEF FiberInvariant, SuspendedFibersAreUnwound
  <2>1. f \in objects /\ f \notin destroyed
    BY DEF Local, FiberFacts, Live
  <2>2. f \in dtor_called
    BY <2>1 DEF Local, Destructors
  <2>3. QED
    BY <2>1, <2>2 DEF Local, Destructors
<1>2. QED
  BY <1>1, FiberInvariantHolds, PTL

\* A fiber has a C stack exactly while it can run again, every context on the call stack has
\* one, and none outlives its fiber but after a fatal error or a start after the destructor
\* (zend_fiber_init_context, zend_fiber_destroy_context, zend_fiber_object_free).
THEOREM StacksAreMapped == Spec => []StacksMatchContexts
<1>1. FiberInvariant => StacksMatchContexts
  <2> SUFFICES ASSUME FiberInvariant PROVE StacksMatchContexts
    OBVIOUS
  <2>1. PICK cs \in Seq(Contexts) : Local /\ OrphansAreExplained /\ CallChain(cs) /\ BlocksOn(cs)
    BY DEF FiberInvariant
  <2>2. CallStack = cs
    BY <2>1, CallStackIsChain
  <2>3. cs[Len(cs)] = Main /\ DOMAIN cs = 1 .. Len(cs)
    BY <2>1 DEF CallChain
  <2>4. \A n \in 1 .. Len(cs) : cs[n] \in stacks
    <3> TAKE n \in 1 .. Len(cs)
    <3>1. CASE cs[n] = Main
      BY <2>1, <3>1 DEF Local, StacksOfContexts
    <3>2. CASE cs[n] # Main
      <4>1. cs[n] \in Fibers
        <5>1. cs[n] \in Contexts
          BY <2>1
        <5>2. QED
          BY <3>2, <5>1, ContextFacts
      <4>2. Live(cs[n])
        BY <2>1, <4>1 DEF CallChain
      <4>3. QED
        BY <2>1, <4>1, <4>2 DEF Local, CallersWait, StacksOfContexts
    <3>3. QED
      BY <3>1, <3>2
  <2>5. QED
    BY <2>1, <2>2, <2>3, <2>4 DEF StacksMatchContexts, Local, StacksOfContexts, OrphansAreExplained
<1>2. QED
  BY <1>1, FiberInvariantHolds, PTL

\* A tick function or signal handler that blocks switching keeps control until it unblocks
\* (zend_fiber_switch_block).
THEOREM HandlersKeepControl == Spec => []BlockedHandlerKeepsControl
<1>1. FiberInvariant => BlockedHandlerKeepsControl
  <2> SUFFICES ASSUME FiberInvariant PROVE BlockedHandlerKeepsControl
    OBVIOUS
  <2>1. PICK cs \in Seq(Contexts) : Local /\ CallChain(cs) /\ BlocksOn(cs)
    BY DEF FiberInvariant
  <2>2. CallStack = cs
    BY <2>1, CallStackIsChain
  <2>3. DOMAIN cs = 1 .. Len(cs) /\ DOMAIN blocks = 1 .. Len(blocks)
    BY <2>1 DEF Local, TypeOK
  <2>4. \A i \in DOMAIN blocks : \E n \in DOMAIN cs :
          cs[n] = blocks[i] /\ \A k \in 1 .. n - 1 : cs[k] \in destroyed
    BY <2>1, <2>3 DEF BlocksOn
  <2>5. ~fatal => switch_blocking = Len(blocks)
    BY <2>1 DEF Local, BlocksAreCounted
  <2>6. QED
    BY <2>2, <2>4, <2>5 DEF BlockedHandlerKeepsControl
<1>2. QED
  BY <1>1, FiberInvariantHolds, PTL

------------------------------------------------------------------------------
(* Fibers implement Coroutines.                                            *)

\* The states of all fibers, as Coroutines sees them.
States == [f \in Fibers |-> CoroutineState(f)]

\* The state of a fiber is decided by its object, its status, and whether it is on the
\* call stack.
LEMMA StateOfFiber ==
  \A f \in Fibers :
    /\ f \notin objects => CoroutineState(f) = "absent"
    /\ f \in objects /\ status[f] = "INIT" => CoroutineState(f) = "new"
    /\ f \in objects /\ status[f] = "DEAD" => CoroutineState(f) = "done"
    /\ f \in objects /\ status[f] = "SUSPENDED" /\ ~Live(f) => CoroutineState(f) = "suspended"
    /\ f \in objects /\ status[f] \in {"RUNNING", "SUSPENDED"} /\ Live(f) => CoroutineState(f) = "active"
BY DEF CoroutineState, Live

\* A fiber whose status and place on the call stack stay keeps its state.
LEMMA StateStays ==
  ASSUME NEW f \in Fibers, f \in objects' <=> f \in objects, status'[f] = status[f],
         status[f] # "DEAD" => caller'[f] = caller[f]
  PROVE  CoroutineState(f)' = CoroutineState(f)
<1>1. CASE status[f] = "DEAD"
  BY <1>1 DEF CoroutineState
<1>2. CASE status[f] # "DEAD"
  BY <1>2 DEF CoroutineState
<1>3. QED
  BY <1>1, <1>2

\* A fiber that stays on the call stack is active before and after.
LEMMA LiveStays ==
  ASSUME Local, Local', NEW f \in Fibers, Live(f), Live(f)'
  PROVE  CoroutineState(f)' = CoroutineState(f) /\ CoroutineState(f) = "active"
<1>1. f \in objects /\ status[f] \in {"RUNNING", "SUSPENDED"}
  BY DEF Local, CallersWait
<1>2. f \in objects' /\ status'[f] \in {"RUNNING", "SUSPENDED"}
  BY DEF Local, CallersWait
<1>3. CoroutineState(f) = "active"
  BY <1>1, StateOfFiber
<1>4. CoroutineState(f)' = "active"
  BY <1>2 DEF CoroutineState, Live
<1>5. QED
  BY <1>3, <1>4

\* Entering a fiber is the abstract Enter.
LEMMA EntersStates ==
  ASSUME Local, Local', Alone, NEW f \in Fibers, Enters(f)
  PROVE  /\ States[f] \in {"new", "suspended"} /\ States' = [States EXCEPT ![f] = "active"]
         /\ destroyed' \in {destroyed} \cup (IF States[f] = "suspended" THEN {destroyed \cup {f}} ELSE {})
<1>1. /\ f # current /\ f \in objects /\ caller[f] = NULL /\ status[f] \in {"INIT", "SUSPENDED"}
      /\ \E by, flag : Entered(f, by, flag)
      /\ UNCHANGED <<blocks, objects>>
      /\ destroyed' = destroyed \/ (status[f] = "SUSPENDED" /\ destroyed' = destroyed \cup {f})
  BY EntersFacts
<1>2. PICK by, flag : Entered(f, by, flag)
  BY <1>1
<1>3. ~Live(f) /\ CoroutineState(f) = IF status[f] = "INIT" THEN "new" ELSE "suspended"
  BY <1>1, StateOfFiber DEF Live
<1>4. CoroutineState(f)' = "active"
  <2>1. status'[f] = "RUNNING" /\ f \in objects'
    BY <1>1, <1>2 DEF Entered
  <2>2. QED
    BY <2>1 DEF CoroutineState
<1>5. ASSUME NEW g \in Fibers, g # f PROVE CoroutineState(g)' = CoroutineState(g)
  <2>1. caller'[g] = caller[g] /\ g \in Contexts
    BY <1>2, <1>5, ContextFacts DEF Entered
  <2>2. CASE g = current
    <3>1. Live(g)
      BY <2>2, ContextFacts, RunningIsLive
    <3>2. status'[g] = "SUSPENDED"
      BY <1>2, <2>2 DEF Entered
    <3>3. Live(g)'
      BY <2>1, <3>1, <3>2 DEF Live
    <3>4. QED
      BY <3>1, <3>3, LiveStays
  <2>3. CASE g # current
    <3>1. status'[g] = status[g]
      BY <1>2, <1>5, <2>1, <2>3 DEF Entered
    <3>2. QED
      BY <1>1, <2>1, <3>1, StateStays
  <2>4. QED
    BY <2>2, <2>3
<1>6. States[f] = CoroutineState(f) /\ States' = [States EXCEPT ![f] = "active"]
  BY <1>4, <1>5 DEF States
<1>7. QED
  BY <1>1, <1>3, <1>6

\* Leaving one is the abstract Suspend or Finish.
LEMMA LeavesStates ==
  ASSUME Local, Local', NEW cs \in Seq(Contexts), CallChain(cs), BlocksOn(cs), Leaves
  PROVE  /\ current \in Fibers /\ UNCHANGED destroyed
         /\ \/ current \notin destroyed /\ States' = [States EXCEPT ![current] = "suspended"]
            \/ States' = [States EXCEPT ![current] = "done"]
<1>1. /\ current # Main
      /\ UNCHANGED <<destroyed, objects>>
      /\ \A g \in Fibers : g # current => caller'[g] = IF status[g] = "DEAD" THEN NULL ELSE caller[g]
      /\ \/ Left("SUSPENDED", "none") /\ caller'[current] = NULL /\ current \notin destroyed
         \/ \E flag : Left("DEAD", flag)
  BY LeavesFacts
<1>2. /\ current \in Fibers /\ Live(current) /\ caller[current] \in Contexts /\ caller[current] # current
      /\ frame[caller[current]].by \in Resumers
  BY <1>1, RunningIsLive
<1>3. PICK p \in Fibers : p = current
  BY <1>2
<1>4. p \in objects /\ p \in objects'
  BY <1>1, <1>2, <1>3 DEF Local, CallersWait
<1>5. PICK left_as, flag : /\ Left(left_as, flag)
                           /\ \/ left_as = "SUSPENDED" /\ caller'[p] = NULL /\ p \notin destroyed
                              \/ left_as = "DEAD"
  BY <1>1, <1>3
<1>6. ASSUME NEW g \in Fibers, g # p PROVE CoroutineState(g)' = CoroutineState(g)
  <2>1. caller'[g] = IF status[g] = "DEAD" THEN NULL ELSE caller[g]
    BY <1>1, <1>3, <1>6
  <2>2. CASE g = caller[current]
    <3>1. Live(g)
      BY <1>2, <2>2, ContextFacts DEF Local, FramesAreOwn
    <3>2. status'[g] = "RUNNING"
      BY <1>5, <2>2 DEF Left
    <3>3. Live(g)'
      BY <2>1, <3>1, <3>2 DEF Live
    <3>4. QED
      BY <3>1, <3>3, LiveStays
  <2>3. CASE g # caller[current]
    <3>1. status'[g] = status[g]
      BY <1>3, <1>5, <1>6, <2>3, ContextFacts DEF Left
    <3>2. QED
      BY <1>1, <2>1, <3>1, StateStays
  <2>4. QED
    BY <2>2, <2>3
<1>7. CASE left_as = "SUSPENDED" /\ caller'[p] = NULL /\ p \notin destroyed
  <2>1. CoroutineState(p)' = "suspended"
    <3>1. status'[p] = "SUSPENDED"
      BY <1>3, <1>5, <1>7 DEF Left
    <3>2. QED
      BY <1>4, <1>7, <3>1 DEF CoroutineState
  <2>2. States' = [States EXCEPT ![p] = "suspended"]
    BY <1>6, <2>1 DEF States
  <2>3. QED
    BY <1>1, <1>2, <1>3, <1>7, <2>2
<1>8. CASE left_as = "DEAD"
  <2>1. CoroutineState(p)' = "done"
    <3>1. status'[p] = "DEAD"
      BY <1>3, <1>5, <1>8 DEF Left
    <3>2. QED
      BY <1>4, <3>1 DEF CoroutineState
  <2>2. States' = [States EXCEPT ![p] = "done"]
    BY <1>6, <2>1 DEF States
  <2>3. QED
    BY <1>1, <1>2, <1>3, <2>2
<1>9. QED
  BY <1>5, <1>7, <1>8

\* A step that switches nobody is the abstract Create, or none.
LEMMA StaysStates ==
  ASSUME Local, NEW cs \in Seq(Contexts), CallChain(cs), BlocksOn(cs), Stays
  PROVE  /\ UNCHANGED destroyed
         /\ \/ States' = States
            \/ \E f \in Fibers : States[f] = "absent" /\ States' = [States EXCEPT ![f] = "new"]
<1>1. /\ UNCHANGED <<current, status, destroyed>>
      /\ \A g \in Fibers : caller'[g] = IF status[g] = "DEAD" THEN NULL ELSE caller[g]
      /\ UNCHANGED objects \/ \E f \in Fibers : Construct(f)
  BY StaysFacts
<1>2. CASE UNCHANGED objects
  <2>1. \A g \in Fibers : CoroutineState(g)' = CoroutineState(g)
    BY <1>1, <1>2, StateStays
  <2>2. QED
    BY <1>1, <2>1 DEF States
<1>3. CASE \E f \in Fibers : Construct(f)
  <2>1. PICK f \in Fibers : Construct(f)
    BY <1>3
  <2>2. f \notin objects /\ objects' = objects \cup {f}
    BY <2>1 DEF Construct, HandleAvailable
  <2>3. CoroutineState(f) = "absent" /\ status[f] = "INIT"
    BY <2>2, StateOfFiber DEF Local, FiberFacts
  <2>4. CoroutineState(f)' = "new"
    BY <1>1, <2>2, <2>3 DEF CoroutineState
  <2>5. \A g \in Fibers : g # f => CoroutineState(g)' = CoroutineState(g)
    BY <1>1, <2>2, StateStays
  <2>6. States[f] = "absent" /\ States' = [States EXCEPT ![f] = "new"]
    BY <2>3, <2>4, <2>5 DEF States
  <2>7. QED
    BY <1>1, <2>6
<1>4. QED
  BY <1>1, <1>2, <1>3

\* Freeing a fiber is the abstract Discard.
LEMMA FreeStates ==
  ASSUME Local, NEW f \in Fibers, DelFree(f)
  PROVE  /\ destroyed' = destroyed \ {f}
         /\ States[f] \in {"new", "suspended", "done"} /\ States' = [States EXCEPT ![f] = "absent"]
<1>1. /\ ~Live(f) /\ f # current /\ f \in objects /\ status[f] # "RUNNING"
      /\ objects' = objects \ {f} /\ destroyed' = destroyed \ {f}
      /\ \A g \in Fibers : g # f => status'[g] = status[g] /\ caller'[g] = caller[g]
  BY FreeFacts
<1>2. status[f] \in {"INIT", "SUSPENDED", "DEAD"}
  BY <1>1, ContextFacts DEF Local, TypeOK, Statuses
<1>3. CoroutineState(f) \in {"new", "suspended", "done"}
  BY <1>1, <1>2, StateOfFiber
<1>4. CoroutineState(f)' = "absent"
  BY <1>1 DEF CoroutineState
<1>5. \A g \in Fibers : g # f => CoroutineState(g)' = CoroutineState(g)
  BY <1>1, StateStays
<1>6. QED
  BY <1>1, <1>3, <1>4, <1>5 DEF States

\* The initial states are those of Coroutines.
LEMMA InitStates == RequestInit => States = [f \in Fibers |-> "absent"] /\ destroyed = {}
<1> SUFFICES ASSUME RequestInit PROVE States = [f \in Fibers |-> "absent"] /\ destroyed = {}
  OBVIOUS
<1>1. \A f \in Fibers : CoroutineState(f) = "absent"
  BY StateOfFiber DEF RequestInit
<1>2. QED
  BY <1>1 DEF RequestInit, States

\* Fibers are coroutines, however many there are: every run of ZendFiber is a run of
\* Coroutines, read through the caller pointers and the statuses (zend_fiber_resume_internal,
\* zend_fiber_suspend_internal, zend_fiber_execute).
THEOREM FibersAreCoroutines == Spec => ImplementsCoroutines
<1>1. Init => Abstract!CInit
  <2> SUFFICES ASSUME Init PROVE Abstract!CInit
    OBVIOUS
  <2>1. CallStack = <<Main>>
    BY ChainOfMain, CallStackIsChain DEF Init
  <2>2. States = [f \in Fibers |-> "absent"] /\ destroyed = {}
    BY InitStates DEF Init
  <2>3. QED
    BY <2>1, <2>2 DEF Abstract!CInit, States
<1>2. FiberInvariant /\ FiberInvariant' /\ [Next]_vars => [Abstract!CNext]_(Abstract!cvars)
  <2> SUFFICES ASSUME FiberInvariant, FiberInvariant', [Next]_vars
               PROVE  Abstract!CNext \/ (CallStack' = CallStack /\ States' = States /\ destroyed' = destroyed)
    BY DEF Abstract!cvars, States
  <2>1. (\A cs \in Seq(Contexts) : CallChain(cs) => CallStack = cs)'
    BY CallStackIsChain, PTL
  <2>2. PICK cs \in Seq(Contexts) : CallChain(cs) /\ BlocksOn(cs)
    BY DEF FiberInvariant
  <2>3. Local /\ Local'
    BY DEF FiberInvariant
  <2>4. CallStack = cs /\ Alone
    BY <2>2, CallStackIsChain, ChainAlone
  <2>5. CASE Next
    <3>1. PICK N \in Seq(Contexts) :
           /\ CallChain(N)' /\ BlocksOn(N)'
           /\ \/ \E f \in Fibers : Enters(f) /\ N = <<f>> \o cs
              \/ Leaves /\ N = Tail(cs)
              \/ \E f \in Fibers : DelFree(f) /\ N = cs
              \/ Stays /\ N = cs
              \/ NextRequest /\ N = <<Main>>
      BY <2>2, <2>3, <2>5, ChainStep
    <3>2. CallStack' = N
      BY <2>1, <3>1
    <3>3. CASE \E f \in Fibers : Enters(f) /\ N = <<f>> \o cs
      <4>1. PICK f \in Fibers : Enters(f) /\ N = <<f>> \o cs
        BY <3>3
      <4>2. /\ States[f] \in {"new", "suspended"} /\ States' = [States EXCEPT ![f] = "active"]
            /\ destroyed' \in {destroyed} \cup (IF States[f] = "suspended" THEN {destroyed \cup {f}} ELSE {})
        BY <2>3, <2>4, <4>1, EntersStates
      <4>3. Abstract!Enter(f)
        BY <2>4, <3>2, <4>1, <4>2 DEF Abstract!Enter, States
      <4>4. QED
        BY <4>3 DEF Abstract!CNext
    <3>4. CASE Leaves /\ N = Tail(cs)
      <4>1. /\ current \in Fibers /\ UNCHANGED destroyed
            /\ \/ current \notin destroyed /\ States' = [States EXCEPT ![current] = "suspended"]
               \/ States' = [States EXCEPT ![current] = "done"]
        BY <2>2, <2>3, <3>4, LeavesStates
      <4>2. Head(CallStack) = current /\ CallStack' = Tail(CallStack)
        BY <2>2, <2>4, <3>2, <3>4 DEF CallChain
      <4>3. Abstract!Suspend \/ Abstract!Finish
        BY <4>1, <4>2 DEF Abstract!Suspend, Abstract!Finish, States
      <4>4. QED
        BY <4>3 DEF Abstract!CNext
    <3>5. CASE \E f \in Fibers : DelFree(f) /\ N = cs
      <4>1. PICK f \in Fibers : DelFree(f) /\ N = cs
        BY <3>5
      <4>2. /\ destroyed' = destroyed \ {f}
            /\ States[f] \in {"new", "suspended", "done"} /\ States' = [States EXCEPT ![f] = "absent"]
        BY <2>3, <4>1, FreeStates
      <4>3. Abstract!Discard(f)
        BY <2>4, <3>2, <4>1, <4>2 DEF Abstract!Discard, States
      <4>4. QED
        BY <4>3 DEF Abstract!CNext
    <3>6. CASE Stays /\ N = cs
      <4>1. /\ UNCHANGED destroyed
            /\ \/ States' = States
               \/ \E f \in Fibers : States[f] = "absent" /\ States' = [States EXCEPT ![f] = "new"]
        BY <2>2, <2>3, <3>6, StaysStates
      <4>2. CallStack' = CallStack
        BY <2>4, <3>2, <3>6
      <4>3. ASSUME NEW f \in Fibers, States[f] = "absent", States' = [States EXCEPT ![f] = "new"]
            PROVE  Abstract!Create(f)
        BY <4>1, <4>2, <4>3 DEF Abstract!Create, States
      <4>4. QED
        BY <4>1, <4>2, <4>3 DEF Abstract!CNext
    <3>7. CASE NextRequest /\ N = <<Main>>
      <4>1. current = Main
        BY <2>3, <3>7 DEF NextRequest, Local, Destructors
      <4>2. Len(cs) = 1 /\ cs[1] = Main
        BY <2>2, <4>1, ChainAlone DEF CallChain
      <4>3. cs = <<Main>>
        BY <4>2
      <4>4. (RequestInit => States = [f \in Fibers |-> "absent"] /\ destroyed = {})'
        BY InitStates, PTL
      <4>5. States' = [f \in Fibers |-> "absent"] /\ destroyed' = {}
        BY <3>7, <4>4, NextRequestIsInit
      <4>6. Abstract!Reset
        BY <2>4, <3>2, <3>7, <4>3, <4>5 DEF Abstract!Reset, States
      <4>7. QED
        BY <4>6 DEF Abstract!CNext
    <3>8. QED
      BY <3>1, <3>3, <3>4, <3>5, <3>6, <3>7
  <2>6. CASE UNCHANGED vars
    <3>1. UNCHANGED <<objects, current, status, caller, destroyed>>
      BY <2>6 DEF vars, objvars, ctxvars
    <3>2. \A f \in Fibers : Live(f)' <=> Live(f)
      BY <3>1 DEF Live
    <3>3. CallChain(cs)'
      BY <2>2, <3>1, <3>2 DEF CallChain
    <3>4. CallStack' = CallStack
      BY <2>4, <2>1, <3>3
    <3>5. \A f \in Fibers : CoroutineState(f)' = CoroutineState(f)
      BY <3>1, StateStays
    <3>6. QED
      BY <3>1, <3>4, <3>5 DEF States
  <2>7. QED
    BY <2>5, <2>6
<1>3. QED
  BY <1>1, <1>2, FiberInvariantHolds, PTL DEF Spec, ImplementsCoroutines, Abstract!CSpec
=============================================================================
