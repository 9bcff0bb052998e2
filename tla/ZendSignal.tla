---------------------------- MODULE ZendSignal ----------------------------
(***************************************************************************)
(* The deferred signal queue of the Zend engine (Zend/zend_signal.c).      *)
(*                                                                         *)
(* One process executes PHP code; the kernel interrupts it with signals.   *)
(* The engine brackets its critical sections with BLOCK / UNBLOCK; a       *)
(* signal that arrives inside one is put on a linked list (phead .. ptail) *)
(* taken from a fixed pool (pavail) and its handler is run by UNBLOCK.     *)
(*                                                                         *)
(* The control stack is explicit, because everything that can go wrong     *)
(* here is a signal landing between two statements of a frame below it:    *)
(* the bottom frame is the PHP code, every frame above it is one call of   *)
(* zend_signal_handler_defer, made by the kernel or by UNBLOCK.            *)
(***************************************************************************)
EXTENDS Integers, Sequences, FiniteSets

CONSTANTS Sigs,        \* the deferred signals: zend_sigs[]
          Nodes,       \* pstorage[]: the queue nodes (64 in the code)
          NULL,        \* the null pointer
          Reset,       \* SIGG(reset): re-register the handlers every request
          MaxDepth,    \* bound: nesting of critical sections
          MaxRaise     \* bound: signals raised in a behaviour

ASSUME SignalAssumption ==
    /\ NULL \notin Nodes /\ IsFiniteSet(Nodes) /\ Nodes # {}
    /\ Reset \in BOOLEAN
    /\ MaxDepth \in Nat /\ MaxRaise \in Nat

VARIABLES
    depth, blocked, running, active,  \* SIGG(depth), (blocked), (running), (active)
    phead, ptail, pavail,             \* heads of the pending and the free list
    next, qsig,                       \* node -> next node, node -> queued signal
    handlers,                         \* SIGG(handlers)[]: what the engine will call
    disp,                             \* the kernel's disposition of each signal
    pending, mask,                    \* the kernel's pending set and signal mask
    stack,                            \* control stack, innermost frame first
    alive,                            \* "running", "killed" or "segfault"
    raised                            \* number of signals raised so far

sigg   == <<depth, blocked, running, active>>
queue  == <<phead, ptail, pavail, next, qsig>>
kernel == <<disp, pending, mask>>
vars   == <<sigg, queue, handlers, kernel, stack, alive, raised>>

\* "once" is a handler installed with SA_SIGINFO | SA_RESETHAND.
Handler == {"dfl", "ign", "user", "once"}

----------------------------------------------------------------------------
(* The control stack.                                                      *)

Frame == [pc    : {"main", "u_dec", "u_cmp", "u_enter", "u_pop", "deact",
                   "call", "body", "detach", "drain", "recycle", "return"},
          sig   : Sigs \cup {NULL},     \* the signal this frame is handling
          after : {"detach", "recycle", "return"},
          queue : Nodes \cup {NULL},    \* the local variable of the drain loop
          saved : SUBSET Sigs,          \* mask restored when the frame is left
          old   : Int, blk : {-1, 0, 1}]  \* operands of UNBLOCK's comparison

Top       == Head(stack)
At(label) == alive = "running" /\ Top.pc = label
Goto(label)   == stack' = <<[Top EXCEPT !.pc = label]>> \o Tail(stack)
MainFrame == [pc |-> "main", sig |-> NULL, after |-> "return", queue |-> NULL,
              saved |-> {}, old |-> 0, blk |-> -1]

----------------------------------------------------------------------------
(* A list is followed through next[] for at most Cardinality(Nodes) links.  *)

ChainFrom(head) ==
    LET walk[n \in 0..Cardinality(Nodes)] ==
            [p \in Nodes \cup {NULL} |->
                IF p = NULL \/ n = 0 THEN << >> ELSE <<p>> \o walk[n - 1][next[p]]]
    IN  walk[Cardinality(Nodes)][head]

Members(s) == {s[i] : i \in 1..Len(s)}

\* The free list as zend_signal_globals_ctor builds it, for some order of Nodes.
FreeList(order) ==
    [n \in Nodes |->
        LET i == CHOOSE k \in 1..Len(order) : order[k] = n
        IN  IF i = Len(order) THEN NULL ELSE order[i + 1]]

PoolOrder == CHOOSE s \in [1..Cardinality(Nodes) -> Nodes] : Members(s) = Nodes

\* zend_signal_globals_ctor and zend_signal_startup: every node is free, no
\* request is active, and the original handlers are those the process had.
Init ==
    /\ depth = 0 /\ blocked = 0 /\ running = 0 /\ active = 0
    /\ phead = NULL /\ ptail = NULL
    /\ pavail = PoolOrder[1]
    /\ next = FreeList(PoolOrder)
    /\ qsig = [n \in Nodes |-> NULL]
    /\ handlers = [s \in Sigs |-> "dfl"]
    /\ disp = [s \in Sigs |-> "dfl"]
    /\ pending = {} /\ mask = {}
    /\ stack = <<MainFrame>>
    /\ alive = "running"
    /\ raised = 0

----------------------------------------------------------------------------
(* zend_signal_handler_defer(s), called on top of the frames `below`; the   *)
(* mask becomes `saved` again when the call is over (sigreturn for a call   *)
(* made by the kernel, SIGNAL_END_CRITICAL for one made by UNBLOCK).        *)

Enter(s, after, saved) ==
    [pc |-> "call", sig |-> s, after |-> after, queue |-> NULL,
     saved |-> saved, old |-> 0, blk |-> -1]

\* Take a node off pavail and append it to the pending list; with no node
\* available the signal is simply forgotten.
Enqueue(s) ==
    LET n == pavail IN
    IF n = NULL
    THEN UNCHANGED queue
    ELSE /\ pavail' = next[n]
         /\ qsig' = [qsig EXCEPT ![n] = s]
         /\ IF phead # NULL /\ ptail # NULL
            THEN /\ next' = [next EXCEPT ![n] = NULL, ![ptail] = n]
                 /\ phead' = phead
            ELSE /\ next' = [next EXCEPT ![n] = NULL]
                 /\ phead' = n
         /\ ptail' = n

\* The branch for depth = 0: run the handler, unless one is running already;
\* in that case the signal is dropped.
HandleNow(s, below, saved) ==
    /\ blocked' = 0
    /\ running' = 1
    /\ IF running = 0
       THEN /\ stack' = <<Enter(s, "detach", saved)>> \o below
            /\ mask' = Sigs
       ELSE /\ stack' = below
            /\ mask' = saved
    /\ UNCHANGED <<depth, active>>

\* Mutant: the delay branch forgets SIGG(blocked) = 1.
DeferUnannounced(s, below, saved) ==
    \/ /\ active = 1 /\ depth = 0
       /\ HandleNow(s, below, saved)
       /\ UNCHANGED queue
    \/ /\ active = 1 /\ depth # 0
       /\ Enqueue(s)
       /\ stack' = below /\ mask' = saved
       /\ UNCHANGED sigg
    \/ /\ active = 0
       /\ stack' = <<Enter(s, "return", saved)>> \o below
       /\ mask' = Sigs
       /\ UNCHANGED <<sigg, queue>>

\* Mutant: the depth is not consulted.
DeferNever(s, below, saved) ==
    /\ HandleNow(s, below, saved)
    /\ UNCHANGED queue

zend_signal_handler_defer(s, below, saved) ==
    \/ /\ active = 1 /\ depth = 0
       /\ HandleNow(s, below, saved)
       /\ UNCHANGED queue
    \/ /\ active = 1 /\ depth # 0               \* delay it
       /\ blocked' = 1
       /\ Enqueue(s)
       /\ stack' = below
       /\ mask' = saved
       /\ UNCHANGED <<depth, running, active>>
    \/ /\ active = 0                            \* just run the handler
       /\ stack' = <<Enter(s, "return", saved)>> \o below
       /\ mask' = Sigs
       /\ UNCHANGED <<sigg, queue>>

----------------------------------------------------------------------------
(* The kernel.                                                              *)

\* Somebody sends s to the process: kill(), a timer, the terminal.
Raise(s) ==
    /\ alive = "running" /\ raised < MaxRaise
    /\ raised' = raised + 1
    /\ pending' = IF disp[s] = "ign" THEN pending ELSE pending \cup {s}
    /\ UNCHANGED <<sigg, queue, handlers, disp, mask, stack, alive>>

\* Delivery between two statements of the innermost frame.
Deliver(s) ==
    /\ alive = "running" /\ s \in pending \ mask
    /\ pending' = pending \ {s}
    /\ \/ /\ disp[s] = "dfl"
          /\ alive' = "killed"
          /\ UNCHANGED <<sigg, queue, mask, stack>>
       \/ /\ disp[s] = "defer"
          /\ zend_signal_handler_defer(s, stack, mask)
          /\ UNCHANGED alive
    /\ UNCHANGED <<handlers, disp, raised>>

----------------------------------------------------------------------------
(* zend_signal_handler and the rest of a running zend_signal_handler_defer. *)

\* Call the registered handler. The default action of every signal in
\* zend_sigs[] ends the process; an ignored one returns at once.
zend_signal_handler ==
    /\ At("call")
    /\ LET s == Top.sig IN
       \/ /\ handlers[s] = "dfl"
          /\ disp' = [disp EXCEPT ![s] = "dfl"]
          /\ mask' = mask \ {s}
          /\ alive' = "killed"
          /\ UNCHANGED <<handlers, stack>>
       \/ /\ handlers[s] = "ign"
          /\ Goto(Top.after)
          /\ UNCHANGED <<handlers, disp, mask, alive>>
       \/ /\ handlers[s] \in {"user", "once"}
          /\ handlers' = IF handlers[s] = "once"
                         THEN [handlers EXCEPT ![s] = "dfl"] ELSE handlers
          /\ Goto("body")
          /\ UNCHANGED <<disp, mask, alive>>
    /\ UNCHANGED <<sigg, queue, pending, raised>>

HandlerReturn ==
    /\ At("body")
    /\ Goto(Top.after)
    /\ UNCHANGED <<sigg, queue, handlers, kernel, alive, raised>>

\* zend_sigaction / zend_signal. Installing SIG_IGN makes the kernel discard
\* a pending instance; either way the signal is unblocked at the end.
zend_sigaction(s, h) ==
    /\ handlers' = [handlers EXCEPT ![s] = h]
    /\ disp' = [disp EXCEPT ![s] = IF h = "ign" THEN "ign" ELSE "defer"]
    /\ pending' = IF h = "ign" THEN pending \ {s} ELSE pending
    /\ mask' = mask \ {s}

\* zend_timeout_handler re-arms itself for the hard timeout: from here on its
\* own signal can interrupt the handler and the drain loop below it.
HandlerRearm ==
    /\ At("body") /\ Top.sig \in mask
    /\ zend_sigaction(Top.sig, "user")
    /\ UNCHANGED <<sigg, queue, stack, alive, raised>>

Detach ==
    /\ At("detach")
    /\ stack' = <<[Top EXCEPT !.queue = phead, !.pc = "drain"]>> \o Tail(stack)
    /\ phead' = NULL
    /\ UNCHANGED <<sigg, ptail, pavail, next, qsig, handlers, kernel, alive, raised>>

DrainNext ==
    /\ At("drain") /\ Top.queue # NULL
    /\ stack' = <<[Top EXCEPT !.pc = "call", !.sig = qsig[Top.queue],
                              !.after = "recycle"]>> \o Tail(stack)
    /\ UNCHANGED <<sigg, queue, handlers, kernel, alive, raised>>

\* Mutant: a drained node is not returned to pavail.
RecycleLeaks ==
    /\ At("recycle")
    /\ stack' = <<[Top EXCEPT !.pc = "drain", !.queue = next[Top.queue]]>> \o Tail(stack)
    /\ UNCHANGED <<sigg, queue, handlers, kernel, alive, raised>>

Recycle ==
    /\ At("recycle")
    /\ LET n == Top.queue IN
       /\ stack' = <<[Top EXCEPT !.pc = "drain", !.queue = next[n]]>> \o Tail(stack)
       /\ next' = [next EXCEPT ![n] = pavail]
       /\ qsig' = [qsig EXCEPT ![n] = NULL]
       /\ pavail' = n
    /\ UNCHANGED <<sigg, phead, ptail, handlers, kernel, alive, raised>>

DrainDone ==
    /\ \/ At("drain") /\ Top.queue = NULL /\ running' = 0
       \/ At("return") /\ running' = running
    /\ stack' = Tail(stack)
    /\ mask' = Top.saved
    /\ UNCHANGED <<depth, blocked, active, queue, handlers, disp, pending, alive, raised>>

----------------------------------------------------------------------------
(* The PHP code: the bottom frame.                                          *)

Block ==
    /\ At("main") /\ depth < MaxDepth
    /\ depth' = depth + 1
    /\ UNCHANGED <<blocked, running, active, queue, handlers, kernel, stack, alive, raised>>

\* ZEND_SIGNAL_UNBLOCK_INTERRUPTIONS: if (SIGG(depth)-- == SIGG(blocked)).
\* C does not order the two operands, so blocked may be read before the
\* decrement (UnblockEarlyRead) or after it (blk = -1, read by UnblockCompare).
UnblockEarlyRead ==
    /\ At("main") /\ depth > 0
    /\ stack' = <<[Top EXCEPT !.pc = "u_dec", !.blk = blocked]>>
    /\ UNCHANGED <<sigg, queue, handlers, kernel, alive, raised>>

\* Mutant: one UNBLOCK too many.
UnblockDecrementUnguarded ==
    /\ At("main") \/ At("u_dec")
    /\ depth' = depth - 1
    /\ stack' = <<[Top EXCEPT !.pc = "u_cmp", !.old = depth]>>
    /\ UNCHANGED <<blocked, running, active, queue, handlers, kernel, alive, raised>>

UnblockDecrement ==
    /\ (At("main") /\ depth > 0) \/ At("u_dec")
    /\ depth' = depth - 1
    /\ stack' = <<[Top EXCEPT !.pc = "u_cmp", !.old = depth]>>
    /\ UNCHANGED <<blocked, running, active, queue, handlers, kernel, alive, raised>>

\* Mutant: --depth == blocked.
UnblockComparePre ==
    /\ At("u_cmp")
    /\ LET blk == IF Top.blk = -1 THEN blocked ELSE Top.blk
       IN  stack' = <<[MainFrame EXCEPT
                         !.pc = IF Top.old - 1 = blk THEN "u_enter" ELSE "main"]>>
    /\ UNCHANGED <<sigg, queue, handlers, kernel, alive, raised>>

UnblockCompare ==
    /\ At("u_cmp")
    /\ LET blk == IF Top.blk = -1 THEN blocked ELSE Top.blk
       IN  stack' = <<[MainFrame EXCEPT !.pc = IF Top.old = blk THEN "u_enter" ELSE "main"]>>
    /\ UNCHANGED <<sigg, queue, handlers, kernel, alive, raised>>

\* zend_signal_handler_unblock up to and including SIGNAL_BEGIN_CRITICAL.
UnblockEnter ==
    /\ At("u_enter")
    /\ IF active = 1
       THEN /\ stack' = <<[Top EXCEPT !.pc = "u_pop", !.saved = mask]>>
            /\ mask' = Sigs
       ELSE /\ Goto("main")
            /\ UNCHANGED mask
    /\ UNCHANGED <<sigg, queue, handlers, disp, pending, alive, raised>>

\* The rest of zend_signal_handler_unblock: take the head of the pending list
\* (without looking whether there is one) and handle it as if just delivered.
UnblockPop ==
    /\ At("u_pop")
    /\ \/ /\ phead = NULL
          /\ alive' = "segfault"
          /\ UNCHANGED <<sigg, queue, mask, stack>>
       \/ /\ phead # NULL /\ depth = 0
          /\ phead' = next[phead]
          /\ next' = [next EXCEPT ![phead] = pavail]
          /\ qsig' = [qsig EXCEPT ![phead] = NULL]
          /\ pavail' = phead
          /\ HandleNow(qsig[phead], <<MainFrame>>, Top.saved)
          /\ UNCHANGED <<ptail, alive>>
    /\ UNCHANGED <<handlers, disp, pending, raised>>

\* pcntl_signal(), set_time_limit() and the like.
Sigaction ==
    /\ At("main")
    /\ \E s \in Sigs, h \in {"ign", "user", "once"} : zend_sigaction(s, h)
    /\ UNCHANGED <<sigg, queue, stack, alive, raised>>

\* Request startup. zend_signal_register leaves a signal alone whose installed
\* handler is already zend_signal_handler_defer.
zend_signal_activate ==
    /\ At("main") /\ active = 0 /\ depth = 0
    /\ handlers' = [s \in Sigs |->
                       IF Reset /\ disp[s] # "defer" THEN disp[s] ELSE "dfl"]
    /\ disp' = IF Reset THEN [s \in Sigs |-> "defer"] ELSE disp
    /\ active' = 1 /\ depth' = 0
    /\ UNCHANGED <<blocked, running, queue, pending, mask, stack, alive, raised>>

\* Mutant: active is still set while the rest is reset.
DeactivateActiveLast ==
    /\ At("main") /\ active = 1
    /\ Goto("deact")
    /\ UNCHANGED <<sigg, queue, handlers, kernel, alive, raised>>

\* Request shutdown, in two steps: clear active, then reset the rest. A bailout
\* arrives here from inside a critical section (depth > 0).
zend_signal_deactivate ==
    /\ At("main") /\ active = 1
    /\ active' = 0
    /\ Goto("deact")
    /\ UNCHANGED <<depth, blocked, running, queue, handlers, kernel, alive, raised>>

DeactivateReset ==
    /\ At("deact")
    /\ depth' = 0 /\ blocked' = 0 /\ running' = 0
    /\ IF phead # NULL /\ ptail # NULL
       THEN /\ next' = [next EXCEPT ![ptail] = pavail]
            /\ pavail' = phead
            /\ phead' = NULL /\ ptail' = NULL
       ELSE UNCHANGED <<next, pavail, phead, ptail>>
    /\ Goto("main")
    /\ UNCHANGED <<active, qsig, handlers, kernel, alive, raised>>

Unblock == UnblockEarlyRead \/ UnblockDecrement \/ UnblockCompare
             \/ UnblockEnter \/ UnblockPop

HandlerStep == zend_signal_handler \/ HandlerReturn \/ Detach \/ DrainNext
                 \/ Recycle \/ DrainDone

Next ==
    \/ \E s \in Sigs : Raise(s) \/ Deliver(s)
    \/ HandlerStep \/ HandlerRearm
    \/ Block \/ Unblock \/ Sigaction
    \/ zend_signal_activate \/ zend_signal_deactivate \/ DeactivateReset

Spec == Init /\ [][Next]_vars

----------------------------------------------------------------------------
(* Properties.                                                              *)

\* Every variable stays in its declared range.
TypeOK ==
    /\ depth \in 0..MaxDepth /\ blocked \in {0, 1}
    /\ running \in {0, 1} /\ active \in {0, 1}
    /\ {phead, ptail, pavail} \subseteq Nodes \cup {NULL}
    /\ next \in [Nodes -> Nodes \cup {NULL}]
    /\ qsig \in [Nodes -> Sigs \cup {NULL}]
    /\ handlers \in [Sigs -> Handler]
    /\ disp \in [Sigs -> {"dfl", "ign", "defer"}]
    /\ pending \subseteq Sigs /\ mask \subseteq Sigs
    /\ stack # << >> /\ Members(stack) \subseteq Frame
    /\ alive \in {"running", "killed", "segfault"}
    /\ raised \in 0..MaxRaise

\* The lists of the pool: the pending one, the free one, and the one that the
\* drain loop of a running zend_signal_handler_defer has detached.
Lists == <<ChainFrom(phead), ChainFrom(pavail)>>
           \o [i \in 1..Len(stack) |-> ChainFrom(stack[i].queue)]

\* However signals and unblocks interleave, no queue node is lost and none is on
\* two lists: ptail, which the drain loop leaves dangling, is never followed
\* into a node that is free or being drained.
PoolIsPartitioned ==
    /\ UNION {Members(Lists[i]) : i \in 1..Len(Lists)} = Nodes
    /\ \A i, j \in 1..Len(Lists) :
          i # j => Members(Lists[i]) \cap Members(Lists[j]) = {}

\* A deferred signal is always announced: while a request is active and no
\* handler is running, a non-empty pending list implies blocked = 1, so the next
\* outermost UNBLOCK handles it (the comparison with blocked finds it).
PendingIsAnnounced ==
    active = 1 /\ running = 0 /\ phead # NULL => blocked = 1

\* The purpose of the module: during a request no handler runs in the middle of a
\* critical section, whether delivered directly or taken from the list.
NoHandlerInCriticalSection ==
    active = 1 /\ (\E i \in 1..Len(stack) : stack[i].pc \in {"call", "body"}) =>
        depth = 0

\* zend_signal_deactivate's comment: once active = 0 is set, signal handlers are
\* called directly and nothing that it is about to reset is accessed. So a request
\* inherits nothing from the one before it: whatever that left queued or
\* half-blocked (a bailout), the next one starts with nothing pending, blocked or
\* running.
TeardownIsPrivate ==
    [][/\ stack[Len(stack)].pc = "deact" /\ stack'[Len(stack')].pc = "deact" =>
             UNCHANGED <<depth, blocked, running, queue>>
       /\ active = 0 /\ active' = 1 =>
             phead = NULL /\ blocked = 0 /\ running = 0 /\ depth' = 0]_vars

\* UNBLOCK only enters its critical section when there is a deferred signal to
\* handle: "Handle deferred signal from HANDLE_UNBLOCK_ALARMS".
UnblockFindsDeferredSignal == At("u_pop") => phead # NULL

\* Handlers return, critical sections end (the outermost one too, whatever is
\* nested in it), and a request that goes on enters another one.
Fairness ==
    /\ WF_vars(HandlerStep)
    /\ WF_vars(Unblock) /\ WF_vars(DeactivateReset)
    /\ SF_vars(UnblockDecrement /\ depth = 1)
    /\ SF_vars(Block /\ depth = 0)

FairSpec == Spec /\ Fairness

\* A deferred signal does not stay on the list: it is handled (or dropped by the
\* end of the request) unless the process dies.
DeferredSignalIsHandled == phead # NULL ~> (phead = NULL \/ alive # "running")
=============================================================================
