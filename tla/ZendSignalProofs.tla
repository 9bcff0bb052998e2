-------------------------- MODULE ZendSignalProofs --------------------------
(***************************************************************************)
(* Theorems about the deferred signal queue, for any set of signals, any   *)
(* pool of nodes and any nesting of critical sections.                     *)
(***************************************************************************)
EXTENDS ZendSignal, FiniteSetTheorems, TLAPS

\* A non-empty set of naturals has a least element.
LEMMA LeastNatural ==
  ASSUME NEW S \in SUBSET Nat, S # {}
  PROVE  \E n \in S : \A m \in S : n <= m
<1>1. PICK n \in S : \A m \in S : ~(<<m, n>> \in OpToRel(<, Nat))
  BY NatLessThanWellFounded, WFMin, Zenon
<1>2. \A m \in S : ~(m < n)
  BY <1>1 DEF OpToRel
<1>3. QED
  BY <1>2

\* The statements of the PHP code, and those of zend_signal_handler_defer.
MainPCs    == {"main", "u_dec", "u_cmp", "u_enter", "u_pop", "deact"}
HandlerPCs == {"call", "body", "detach", "drain", "recycle", "return"}

\* The flags of zend_signal_globals.
FlagTypes ==
    /\ depth \in 0..MaxDepth /\ blocked \in {0, 1}
    /\ running \in {0, 1} /\ active \in {0, 1}

\* Its queue nodes and lists.
QueueTypes ==
    /\ phead \in Nodes \cup {NULL} /\ ptail \in Nodes \cup {NULL}
    /\ pavail \in Nodes \cup {NULL}
    /\ next \in [Nodes -> Nodes \cup {NULL}]
    /\ qsig \in [Nodes -> Sigs \cup {NULL}]

\* What the kernel keeps for the process.
KernelTypes ==
    /\ handlers \in [Sigs -> Handler]
    /\ disp \in [Sigs -> {"dfl", "ign", "defer"}]
    /\ pending \subseteq Sigs /\ mask \subseteq Sigs
    /\ alive \in {"running", "killed", "segfault"}
    /\ raised \in 0..MaxRaise

\* The PHP code is the bottom frame, and all the frames above it are handlers.
StackShape ==
    /\ stack \in Seq(Frame) /\ Len(stack) >= 1
    /\ stack[Len(stack)].pc \in MainPCs
    /\ \A i \in 1..(Len(stack) - 1) : stack[i].pc \in HandlerPCs

\* The frame is past Detach: the loop over the detached list.
Draining(f) == f.pc \in {"drain", "recycle"} \/ f.after = "recycle"

\* During a request one handler runs at a time, marked by running, and outside the
\* critical sections; between requests handlers are called directly and have no
\* business with the queue.
HandlerFrames ==
    /\ running = 1 => active = 1 /\ Len(stack) = 2
    /\ active = 1 /\ Len(stack) > 1 => running = 1 /\ depth = 0
    /\ \A i \in 1..(Len(stack) - 1) :
          IF active = 1
          THEN /\ stack[i].pc # "return" /\ stack[i].after # "return"
               /\ Draining(stack[i]) => phead = NULL
          ELSE /\ stack[i].pc \in {"call", "body", "return"} /\ stack[i].after = "return"
               /\ stack[i].queue = NULL
    /\ \A i \in 1..(Len(stack) - 1) :
          stack[i].pc = "recycle"
            \/ (stack[i].pc \in {"call", "body"} /\ stack[i].after = "recycle") =>
              stack[i].queue # NULL
    /\ \A i \in 1..(Len(stack) - 1) :
          stack[i].pc = "detach"
            \/ (stack[i].pc \in {"call", "body"} /\ stack[i].after = "detach") =>
              stack[i].queue = NULL

\* Where the PHP code is in BLOCK, UNBLOCK and deactivation, and what that says of the
\* globals: UNBLOCK enters its critical section for the outermost UNBLOCK only, and
\* between two requests nothing is queued or announced.
MainFrameState ==
    LET main == stack[Len(stack)] IN
    /\ main.pc = "u_dec" => depth > 0
    /\ main.pc = "u_cmp" => main.old = depth + 1
    /\ main.pc \in {"u_enter", "u_pop"} => depth = 0
    /\ main.pc = "u_pop" => active = 1
    /\ main.pc = "deact" => active = 0
    /\ main.queue = NULL
    /\ active = 0 /\ main.pc # "deact" => phead = NULL /\ blocked = 0
    /\ phead # NULL => ptail # NULL

\* The inductive invariant of the control of signals.
SignalInvariant ==
    /\ FlagTypes /\ QueueTypes /\ KernelTypes
    /\ StackShape /\ HandlerFrames /\ MainFrameState /\ PendingIsAnnounced

----------------------------------------------------------------------------
(* The control stack.                                                      *)

\* The innermost frame; it is the PHP code exactly when it is the only one.
LEMMA TopFrame ==
    ASSUME StackShape
    PROVE  /\ Top = stack[1] /\ Top \in Frame /\ stack[Len(stack)] \in Frame
           /\ Len(stack) \in Nat \ {0} /\ (Len(stack) = 1 \/ Len(stack) > 1)
           /\ Top.pc \in MainPCs => Len(stack) = 1
           /\ Top.pc \in HandlerPCs => Len(stack) > 1 /\ Len(stack) # 1
<1>1. stack \in Seq(Frame) /\ Len(stack) \in Nat /\ Len(stack) >= 1
  BY DEF StackShape
<1>2. Top = stack[1] /\ stack[1] \in Frame /\ stack[Len(stack)] \in Frame
  BY <1>1 DEF Top
<1>0. Len(stack) = 1 \/ Len(stack) > 1
  <2>1. \A n \in Nat : n >= 1 => n = 1 \/ n > 1
    OBVIOUS
  <2>2. QED
    BY <1>1, <2>1
<1>3. Top.pc \in MainPCs => Len(stack) = 1
  <2>1. Len(stack) > 1 => 1 \in 1..(Len(stack) - 1)
    BY <1>1
  <2>2. Len(stack) > 1 => Top.pc \in HandlerPCs
    BY <1>2, <2>1 DEF StackShape
  <2>3. \A label \in MainPCs : label \notin HandlerPCs
    BY DEF MainPCs, HandlerPCs
  <2>4. QED
    BY <1>0, <2>2, <2>3, Zenon
<1>4. Top.pc \in HandlerPCs => Len(stack) > 1 /\ Len(stack) # 1
  BY <1>1, <1>2 DEF StackShape, MainPCs, HandlerPCs
<1>5. QED
  BY <1>0, <1>1, <1>2, <1>3, <1>4

\* The fields of a frame.
LEMMA FrameFields ==
    ASSUME NEW f \in Frame
    PROVE  /\ f.sig \in Sigs \cup {NULL} /\ f.after \in {"detach", "recycle", "return"}
           /\ f.queue \in Nodes \cup {NULL} /\ f.saved \in SUBSET Sigs /\ f.old \in Int
           /\ f.blk \in {-1, 0, 1} /\ f.pc \in MainPCs \cup HandlerPCs
           /\ f = [pc |-> f.pc, sig |-> f.sig, after |-> f.after, queue |-> f.queue,
                   saved |-> f.saved, old |-> f.old, blk |-> f.blk]
  BY DEF Frame, MainPCs, HandlerPCs

\* Moving a frame to another statement gives a frame.
LEMMA FrameMoves ==
    ASSUME NEW f \in Frame, NEW label \in MainPCs \cup HandlerPCs
    PROVE  /\ [f EXCEPT !.pc = label] \in Frame
           /\ [f EXCEPT !.pc = label].pc = label
           /\ [f EXCEPT !.pc = label].sig = f.sig
           /\ [f EXCEPT !.pc = label].after = f.after
           /\ [f EXCEPT !.pc = label].queue = f.queue
           /\ [f EXCEPT !.pc = label].old = f.old
  BY DEF Frame, MainPCs, HandlerPCs

\* The innermost frame is replaced.
LEMMA StackReplaced ==
    ASSUME StackShape, NEW f \in Frame, stack' = <<f>> \o Tail(stack)
    PROVE  /\ stack' \in Seq(Frame) /\ Len(stack') = Len(stack) /\ stack'[1] = f
           /\ \A i \in 2..Len(stack) : stack'[i] = stack[i]
<1>1. stack \in Seq(Frame) /\ Len(stack) \in Nat /\ Len(stack) >= 1
  BY DEF StackShape
<1>2. /\ Tail(stack) \in Seq(Frame) /\ Len(Tail(stack)) = Len(stack) - 1
      /\ \A i \in 1..(Len(stack) - 1) : Tail(stack)[i] = stack[i + 1]
  BY <1>1
<1>3. <<f>> \in Seq(Frame) /\ Len(<<f>>) = 1 /\ <<f>>[1] = f
  OBVIOUS
<1> DEFINE t == Tail(stack)
<1> HIDE DEF t
<1>4. /\ stack' \in Seq(Frame) /\ Len(stack') = 1 + Len(t) /\ stack'[1] = f
      /\ \A i \in 1..Len(t) : stack'[i + 1] = t[i]
  BY <1>2, <1>3 DEF t
<1>5. ASSUME NEW i \in 2..Len(stack)
      PROVE  stack'[i] = stack[i]
  <2>1. i - 1 \in 1..(Len(stack) - 1) /\ i - 1 + 1 = i
    BY <1>1
  <2>2. QED
    BY <1>2, <1>4, <2>1 DEF t
<1>6. QED
  BY <1>1, <1>2, <1>4, <1>5 DEF t

\* A frame is pushed.
LEMMA StackPushed ==
    ASSUME StackShape, NEW f \in Frame, stack' = <<f>> \o stack
    PROVE  /\ stack' \in Seq(Frame) /\ Len(stack') = Len(stack) + 1 /\ stack'[1] = f
           /\ \A i \in 2..(Len(stack) + 1) : stack'[i] = stack[i - 1]
<1>1. stack \in Seq(Frame) /\ Len(stack) \in Nat /\ Len(stack) >= 1
  BY DEF StackShape
<1>2. <<f>> \in Seq(Frame) /\ Len(<<f>>) = 1 /\ <<f>>[1] = f
  OBVIOUS
<1>3. QED
  BY <1>1, <1>2

\* The innermost frame is popped.
LEMMA StackPopped ==
    ASSUME StackShape, Len(stack) > 1, stack' = Tail(stack)
    PROVE  /\ stack' \in Seq(Frame) /\ Len(stack') = Len(stack) - 1
           /\ \A i \in 1..(Len(stack) - 1) : stack'[i] = stack[i + 1]
  BY DEF StackShape

\* A handler goes on: the frames below it stay as they are.
LEMMA HandlerMoves ==
    ASSUME StackShape, Len(stack) > 1, NEW g \in Frame, g.pc \in HandlerPCs,
           stack' = <<g>> \o Tail(stack)
    PROVE  /\ StackShape' /\ Len(stack') = Len(stack)
           /\ stack'[Len(stack')] = stack[Len(stack)] /\ stack'[1] = g
           /\ \A i \in 1..(Len(stack) - 1) : i # 1 => stack'[i] = stack[i]
<1>1. /\ stack' \in Seq(Frame) /\ Len(stack') = Len(stack) /\ stack'[1] = g
      /\ \A i \in 2..Len(stack) : stack'[i] = stack[i]
  BY StackReplaced
<1>2. Len(stack) \in Nat /\ Len(stack) >= 1
  BY DEF StackShape
<1>3. Len(stack) \in 2..Len(stack) /\ \A i \in 1..(Len(stack) - 1) : i # 1 => i \in 2..Len(stack)
  BY <1>2
<1>4. stack'[Len(stack')] = stack[Len(stack)]
  BY <1>1, <1>3
<1>5. \A i \in 1..(Len(stack) - 1) : i # 1 => stack'[i] = stack[i]
  BY <1>1, <1>3
<1>6. StackShape'
  BY <1>1, <1>2, <1>4, <1>5 DEF StackShape
<1>7. QED
  BY <1>1, <1>4, <1>5, <1>6

\* The PHP code goes on: there is no other frame.
LEMMA MainMoves ==
    ASSUME StackShape, Len(stack) = 1, NEW g \in Frame, g.pc \in MainPCs,
           stack' = <<g>> \o Tail(stack) \/ stack' = <<g>>
    PROVE  StackShape' /\ Len(stack') = 1 /\ stack'[Len(stack')] = g
<1>1. stack' \in Seq(Frame) /\ Len(stack') = 1 /\ stack'[1] = g
  <2>1. CASE stack' = <<g>> \o Tail(stack)
    BY <2>1, StackReplaced
  <2>2. CASE stack' = <<g>>
    BY <2>2
  <2>3. QED
    BY <2>1, <2>2
<1>2. QED
  BY <1>1 DEF StackShape

\* A call of zend_signal_handler_defer.
LEMMA HandlerEnters ==
    ASSUME StackShape, NEW g \in Frame, g.pc \in HandlerPCs, stack' = <<g>> \o stack
    PROVE  /\ StackShape' /\ Len(stack') = Len(stack) + 1
           /\ stack'[Len(stack')] = stack[Len(stack)] /\ stack'[1] = g
           /\ \A i \in 1..(Len(stack') - 1) :
                 i # 1 => i - 1 \in 1..(Len(stack) - 1) /\ stack'[i] = stack[i - 1]
<1>1. /\ stack' \in Seq(Frame) /\ Len(stack') = Len(stack) + 1 /\ stack'[1] = g
      /\ \A i \in 2..(Len(stack) + 1) : stack'[i] = stack[i - 1]
  BY StackPushed
<1>2. Len(stack) \in Nat /\ Len(stack) >= 1
  BY DEF StackShape
<1>3. stack'[Len(stack')] = stack[Len(stack)]
  BY <1>1, <1>2
<1>4. \A i \in 1..(Len(stack') - 1) :
          i # 1 => i - 1 \in 1..(Len(stack) - 1) /\ stack'[i] = stack[i - 1]
  BY <1>1, <1>2
<1>5. StackShape'
  BY <1>1, <1>2, <1>3, <1>4 DEF StackShape
<1>6. QED
  BY <1>1, <1>3, <1>4, <1>5

\* A handler is left.
LEMMA HandlerLeaves ==
    ASSUME StackShape, Len(stack) > 1, stack' = Tail(stack)
    PROVE  /\ StackShape' /\ Len(stack') = Len(stack) - 1
           /\ stack'[Len(stack')] = stack[Len(stack)]
           /\ \A i \in 1..(Len(stack') - 1) :
                 i + 1 \in 1..(Len(stack) - 1) /\ stack'[i] = stack[i + 1]
<1>1. /\ stack' \in Seq(Frame) /\ Len(stack') = Len(stack) - 1
      /\ \A i \in 1..(Len(stack) - 1) : stack'[i] = stack[i + 1]
  BY StackPopped
<1>2. Len(stack) \in Nat /\ Len(stack) >= 1
  BY DEF StackShape
<1>3. Len(stack) - 1 \in 1..(Len(stack) - 1) /\ Len(stack) - 1 + 1 = Len(stack)
  BY <1>2
<1>4. stack'[Len(stack')] = stack[Len(stack)]
  BY <1>1, <1>3
<1>5. \A i \in 1..(Len(stack') - 1) :
          i + 1 \in 1..(Len(stack) - 1) /\ stack'[i] = stack[i + 1]
  BY <1>1, <1>2
<1>6. StackShape'
  BY <1>1, <1>2, <1>3, <1>4, <1>5 DEF StackShape
<1>7. QED
  BY <1>1, <1>4, <1>5, <1>6

----------------------------------------------------------------------------
(* Types.                                                                  *)

\* Enqueue takes the node from one list to the other.
LEMMA EnqueueTypes ==
    ASSUME QueueTypes, NEW s \in Sigs, Enqueue(s)
    PROVE  QueueTypes'
  BY SignalAssumption DEF Enqueue, QueueTypes, queue

\* The flags stay flags, and depth stays within its bound.
LEMMA FlagTypesStep ==
    ASSUME SignalInvariant, Next
    PROVE  FlagTypes'
<1> USE SignalAssumption DEF SignalInvariant, FlagTypes, sigg
<1>1. StackShape /\ MainFrameState
  OBVIOUS
<1>2. /\ Top = stack[1] /\ Len(stack) \in Nat \ {0}
      /\ Top.pc \in MainPCs => Len(stack) = 1
  BY <1>1, TopFrame
<1>3. ASSUME NEW s \in Sigs, Deliver(s)
      PROVE  FlagTypes'
  BY <1>3 DEF Deliver, zend_signal_handler_defer, HandleNow
<1>4. CASE UnblockDecrement
  <2>1. depth' = depth - 1 /\ UNCHANGED <<blocked, running, active>>
    BY <1>4 DEF UnblockDecrement
  <2>2. depth > 0
    <3>1. CASE At("u_dec")
      BY <1>2, <3>1 DEF At, MainPCs, MainFrameState
    <3>2. QED
      BY <1>4, <3>1 DEF UnblockDecrement
  <2>3. QED
    BY <2>1, <2>2
<1>5. CASE Block \/ UnblockPop \/ DrainDone \/ DeactivateReset
  BY <1>5 DEF Block, UnblockPop, DrainDone, DeactivateReset, HandleNow
<1>6. CASE zend_signal_activate \/ zend_signal_deactivate
  BY <1>6 DEF zend_signal_activate, zend_signal_deactivate
<1>7. QED
  BY <1>3, <1>4, <1>5, <1>6 DEF Next, HandlerStep, Unblock, Raise, zend_signal_handler,
     HandlerReturn, Detach, DrainNext, Recycle, HandlerRearm, UnblockEarlyRead, UnblockCompare,
     UnblockEnter, Sigaction

\* A drained node is a node.
LEMMA RecycleIsOfNode ==
    ASSUME SignalInvariant, At("recycle")
    PROVE  Top.queue \in Nodes
<1>1. StackShape /\ HandlerFrames
  BY DEF SignalInvariant
<1>2. /\ Top = stack[1] /\ Top \in Frame /\ Len(stack) \in Nat \ {0}
      /\ Top.pc \in HandlerPCs => Len(stack) > 1
  BY <1>1, TopFrame
<1>3. 1 \in 1..(Len(stack) - 1)
  BY <1>2 DEF At, HandlerPCs
<1>4. Top.queue # NULL
  BY <1>1, <1>2, <1>3 DEF HandlerFrames, At
<1>5. QED
  BY <1>2, <1>4, FrameFields

\* The lists are made of nodes.
LEMMA QueueTypesStep ==
    ASSUME SignalInvariant, Next
    PROVE  QueueTypes'
<1> USE SignalAssumption DEF SignalInvariant, queue
<1>1. QueueTypes
  OBVIOUS
<1>2. ASSUME NEW s \in Sigs, Deliver(s)
      PROVE  QueueTypes'
  <2>1. CASE Enqueue(s)
    BY <1>1, <2>1, EnqueueTypes
  <2>2. QED
    BY <1>1, <1>2, <2>1 DEF Deliver, zend_signal_handler_defer, QueueTypes
<1>3. CASE Detach
  BY <1>1, <1>3 DEF Detach, QueueTypes
<1>4. CASE Recycle
  <2>1. Top.queue \in Nodes
    BY <1>4, RecycleIsOfNode DEF Recycle
  <2>2. QED
    BY <1>1, <1>4, <2>1 DEF Recycle, QueueTypes
<1>5. CASE UnblockPop
  BY <1>1, <1>5 DEF UnblockPop, QueueTypes
<1>6. CASE DeactivateReset
  BY <1>1, <1>6 DEF DeactivateReset, QueueTypes
<1>7. CASE UNCHANGED queue
  BY <1>1, <1>7 DEF QueueTypes
<1>8. QED
  BY <1>2, <1>3, <1>4, <1>5, <1>6, <1>7 DEF Next, HandlerStep, Unblock, Raise,
     zend_signal_handler, HandlerReturn, DrainNext, DrainDone, HandlerRearm, UnblockEarlyRead,
     UnblockDecrement, UnblockCompare, UnblockEnter, Sigaction, Block, zend_signal_activate,
     zend_signal_deactivate

\* Registered handlers, dispositions, pending and masked signals are what they are.
LEMMA KernelTypesStep ==
    ASSUME SignalInvariant, Next
    PROVE  KernelTypes'
<1> USE SignalAssumption DEF SignalInvariant, KernelTypes, kernel, Handler
<1>1. StackShape
  OBVIOUS
<1>2. Top \in Frame /\ Top.saved \in SUBSET Sigs
  BY <1>1, TopFrame, FrameFields
<1>3. ASSUME NEW s \in Sigs, Raise(s)
      PROVE  KernelTypes'
  BY <1>3 DEF Raise
<1>4. ASSUME NEW s \in Sigs, Deliver(s)
      PROVE  KernelTypes'
  BY <1>4 DEF Deliver, zend_signal_handler_defer, HandleNow
<1>5. CASE zend_signal_handler
  BY <1>5 DEF zend_signal_handler
<1>6. CASE HandlerRearm
  BY <1>6 DEF HandlerRearm, zend_sigaction
<1>7. CASE DrainDone
  BY <1>2, <1>7 DEF DrainDone
<1>8. CASE UnblockEnter
  BY <1>8 DEF UnblockEnter
<1>9. CASE UnblockPop
  BY <1>2, <1>9 DEF UnblockPop, HandleNow
<1>10. CASE Sigaction
  BY <1>10 DEF Sigaction, zend_sigaction
<1>11. CASE zend_signal_activate
  BY <1>11 DEF zend_signal_activate
<1>12. QED
  BY <1>3, <1>4, <1>5, <1>6, <1>7, <1>8, <1>9, <1>10, <1>11 DEF Next, HandlerStep, Unblock,
     HandlerReturn, Detach, DrainNext, Recycle, UnblockEarlyRead, UnblockDecrement,
     UnblockCompare, Block, zend_signal_deactivate, DeactivateReset

----------------------------------------------------------------------------
(* Control.                                                                *)

\* What the invariant says about frames, flags and the pending list together.
Control == StackShape /\ HandlerFrames /\ MainFrameState /\ PendingIsAnnounced

\* The frames of a call of zend_signal_handler_defer.
LEMMA EnteredFrame ==
    ASSUME NEW s \in Sigs \cup {NULL}, NEW after \in {"detach", "return"},
           NEW saved \in SUBSET Sigs
    PROVE  /\ Enter(s, after, saved) \in Frame
           /\ Enter(s, after, saved).pc = "call"
           /\ Enter(s, after, saved).after = after
           /\ Enter(s, after, saved).queue = NULL
  BY DEF Enter, Frame

\* The frame of the PHP code outside of UNBLOCK.
LEMMA MainFrameFields ==
    /\ MainFrame \in Frame /\ MainFrame.pc = "main" /\ MainFrame.queue = NULL
    /\ [MainFrame EXCEPT !.pc = "u_enter"] \in Frame
    /\ [MainFrame EXCEPT !.pc = "u_enter"].pc = "u_enter"
    /\ [MainFrame EXCEPT !.pc = "u_enter"].queue = NULL
    /\ [MainFrame EXCEPT !.pc = "main"] = MainFrame
  BY DEF MainFrame, Frame

\* A handler is called directly, or after UNBLOCK, or the signal is put off.
LEMMA DeferKeepsControl ==
    ASSUME SignalInvariant, NEW s \in Sigs, zend_signal_handler_defer(s, stack, mask)
    PROVE  Control'
<1> USE SignalAssumption
<1>1. /\ StackShape /\ HandlerFrames /\ MainFrameState /\ PendingIsAnnounced /\ FlagTypes
      /\ QueueTypes /\ mask \in SUBSET Sigs
  BY DEF SignalInvariant, KernelTypes
<1>2. /\ Len(stack) = 1 \/ Len(stack) > 1
      /\ active = 1 /\ Len(stack) > 1 => running = 1 /\ depth = 0
  BY <1>1, TopFrame DEF StackShape, HandlerFrames
<1>3. CASE active = 1 /\ depth = 0 /\ running = 0 /\ HandleNow(s, stack, mask) /\ UNCHANGED queue
  <2> DEFINE g == Enter(s, "detach", mask)
  <2>1. g \in Frame /\ g.pc = "call" /\ g.after = "detach" /\ g.queue = NULL
    BY <1>1, EnteredFrame
  <2>2. /\ stack' = <<g>> \o stack /\ blocked' = 0 /\ running' = 1
        /\ UNCHANGED <<depth, active, phead, ptail>>
    BY <1>3 DEF HandleNow, queue
  <2> HIDE DEF g
  <2>3. /\ StackShape' /\ Len(stack') = Len(stack) + 1
        /\ stack'[Len(stack')] = stack[Len(stack)] /\ stack'[1] = g
    BY <1>1, <2>1, <2>2, HandlerEnters DEF HandlerPCs
  <2>4. Len(stack) = 1
    BY <1>2, <1>3
  <2>5. HandlerFrames'
    BY <1>3, <2>1, <2>2, <2>3, <2>4 DEF HandlerFrames, Draining
  <2>6. MainFrameState'
    BY <1>1, <1>3, <2>2, <2>3 DEF MainFrameState
  <2>7. QED
    BY <2>2, <2>3, <2>5, <2>6 DEF Control, PendingIsAnnounced
<1>4. CASE active = 1 /\ depth = 0 /\ running # 0 /\ HandleNow(s, stack, mask) /\ UNCHANGED queue
  <2>1. /\ stack' = stack /\ blocked' = 0 /\ running' = 1 /\ running = 1
        /\ UNCHANGED <<depth, active, phead, ptail>>
    BY <1>1, <1>4 DEF HandleNow, queue, FlagTypes
  <2>2. QED
    BY <1>1, <1>4, <2>1 DEF Control, StackShape, HandlerFrames, Draining, MainFrameState,
       PendingIsAnnounced
<1>5. CASE active = 1 /\ depth # 0 /\ Enqueue(s) /\ blocked' = 1 /\ stack' = stack
             /\ UNCHANGED <<depth, running, active>>
  <2>1. Len(stack) = 1
    BY <1>2, <1>5
  <2>2. phead' # NULL => ptail' # NULL
    BY <1>1, <1>5 DEF Enqueue, queue, QueueTypes, MainFrameState
  <2>3. StackShape' /\ HandlerFrames'
    BY <1>1, <1>5, <2>1 DEF StackShape, HandlerFrames
  <2>4. MainFrameState'
    BY <1>1, <1>5, <2>2 DEF MainFrameState
  <2>5. QED
    BY <1>5, <2>3, <2>4 DEF Control, PendingIsAnnounced
<1>6. CASE active = 0 /\ stack' = <<Enter(s, "return", mask)>> \o stack /\ UNCHANGED <<sigg, queue>>
  <2> DEFINE g == Enter(s, "return", mask)
  <2>1. g \in Frame /\ g.pc = "call" /\ g.after = "return" /\ g.queue = NULL
    BY <1>1, EnteredFrame
  <2>2. /\ stack' = <<g>> \o stack
        /\ UNCHANGED <<depth, blocked, running, active, phead, ptail>>
    BY <1>6 DEF sigg, queue
  <2> HIDE DEF g
  <2>3. /\ StackShape' /\ Len(stack') = Len(stack) + 1
        /\ stack'[Len(stack')] = stack[Len(stack)] /\ stack'[1] = g
        /\ \A i \in 1..(Len(stack') - 1) :
              i # 1 => i - 1 \in 1..(Len(stack) - 1) /\ stack'[i] = stack[i - 1]
    BY <1>1, <2>1, <2>2, HandlerEnters DEF HandlerPCs
  <2>4. HandlerFrames'
    BY <1>1, <1>6, <2>1, <2>2, <2>3 DEF HandlerFrames, FlagTypes
  <2>5. MainFrameState'
    BY <1>1, <2>2, <2>3 DEF MainFrameState
  <2>6. QED
    BY <1>6, <2>2, <2>3, <2>4, <2>5 DEF Control, PendingIsAnnounced
<1>7. QED
  BY <1>1, <1>3, <1>4, <1>5, <1>6 DEF zend_signal_handler_defer, FlagTypes

\* A running handler, from its call to the end of the drain loop.
LEMMA HandlerKeepsControl ==
    ASSUME SignalInvariant, HandlerStep
    PROVE  Control'
<1> USE SignalAssumption
<1>1. /\ StackShape /\ HandlerFrames /\ MainFrameState /\ PendingIsAnnounced /\ FlagTypes
      /\ QueueTypes
  BY DEF SignalInvariant
<1>2. /\ Len(stack) \in Nat \ {0} /\ Top = stack[1] /\ Top \in Frame
      /\ Top.pc \in HandlerPCs => Len(stack) > 1
  BY <1>1, TopFrame
<1>3. Top.pc \in HandlerPCs
  BY DEF HandlerStep, zend_signal_handler, HandlerReturn, Detach, DrainNext, Recycle, DrainDone,
     At, HandlerPCs
<1>4. Len(stack) > 1 /\ 1 \in 1..(Len(stack) - 1)
  BY <1>2, <1>3
<1>5. \/ active = 1 /\ Len(stack) = 2 /\ running = 1 /\ depth = 0
      \/ active = 0 /\ running = 0
  BY <1>1, <1>4 DEF HandlerFrames, FlagTypes
<1>6. Top.after \in {"detach", "recycle", "return"} /\ Top.queue \in Nodes \cup {NULL}
  BY <1>2, FrameFields
\* A frame that moves keeps the rest.
<1>7. ASSUME NEW g \in Frame, g.pc \in HandlerPCs, stack' = <<g>> \o Tail(stack),
             UNCHANGED <<sigg, ptail>>, phead' \in {phead, NULL},
             IF active = 1
             THEN /\ g.pc # "return" /\ g.after # "return"
                  /\ Draining(g) => phead' = NULL
             ELSE /\ g.pc \in {"call", "body", "return"} /\ g.after = "return"
                  /\ g.queue = NULL,
             g.pc = "recycle" \/ (g.pc \in {"call", "body"} /\ g.after = "recycle") =>
                g.queue # NULL,
             g.pc = "detach" \/ (g.pc \in {"call", "body"} /\ g.after = "detach") =>
                g.queue = NULL
      PROVE  Control'
  <2>1. /\ StackShape' /\ Len(stack') = Len(stack)
        /\ stack'[Len(stack')] = stack[Len(stack)] /\ stack'[1] = g
        /\ \A i \in 1..(Len(stack) - 1) : i # 1 => stack'[i] = stack[i]
    BY <1>1, <1>4, <1>7, HandlerMoves
  <2>2. UNCHANGED <<depth, blocked, running, active>>
    BY <1>7 DEF sigg
  <2>3. HandlerFrames'
    BY <1>1, <1>2, <1>5, <1>7, <2>1, <2>2 DEF HandlerFrames
  <2>4. MainFrameState'
    BY <1>1, <1>7, <2>1, <2>2 DEF MainFrameState
  <2>5. PendingIsAnnounced'
    BY <1>1, <1>7, <2>2 DEF PendingIsAnnounced
  <2>6. QED
    BY <2>1, <2>3, <2>4, <2>5 DEF Control
\* What the invariant says of the frame at the top.
<1>8. /\ active = 1 => /\ Top.pc # "return" /\ Top.after # "return"
                       /\ Draining(Top) => phead = NULL
      /\ active # 1 => /\ Top.pc \in {"call", "body", "return"} /\ Top.after = "return"
                       /\ Top.queue = NULL
      /\ (Top.pc = "recycle" \/ (Top.pc \in {"call", "body"} /\ Top.after = "recycle"))
            => Top.queue # NULL
      /\ (Top.pc = "detach" \/ (Top.pc \in {"call", "body"} /\ Top.after = "detach"))
            => Top.queue = NULL
  BY <1>1, <1>2, <1>4 DEF HandlerFrames
<1>9. ASSUME NEW label \in HandlerPCs, Goto(label), UNCHANGED <<sigg, queue>>,
             Top.pc \in {"call", "body"}, label \in {"body", Top.after}
      PROVE  Control'
  <2> DEFINE g == [Top EXCEPT !.pc = label]
  <2>1. g \in Frame /\ g.pc = label /\ g.after = Top.after /\ g.queue = Top.queue
    BY <1>2, FrameMoves, SMTT(30)
  <2>2. stack' = <<g>> \o Tail(stack) /\ UNCHANGED <<phead, ptail>>
    BY <1>9 DEF Goto, queue
  <2>3. Top.pc \in {"call", "body"} /\ label \in {"body", Top.after}
    BY <1>9
  <2> HIDE DEF g
  <2>4. IF active = 1
        THEN g.pc # "return" /\ g.after # "return" /\ (Draining(g) => phead' = NULL)
        ELSE /\ g.pc \in {"call", "body", "return"} /\ g.after = "return"
             /\ g.queue = NULL
    BY <1>6, <1>8, <2>1, <2>2, <2>3 DEF Draining
  <2>5. g.pc = "recycle" \/ (g.pc \in {"call", "body"} /\ g.after = "recycle") =>
           g.queue # NULL
    BY <1>6, <1>8, <2>1, <2>3
  <2>6. g.pc = "detach" \/ (g.pc \in {"call", "body"} /\ g.after = "detach") =>
           g.queue = NULL
    BY <1>6, <1>8, <2>1, <2>3
  <2>7. QED
    BY <1>7, <1>9, <2>1, <2>2, <2>4, <2>5, <2>6
<1>10. CASE zend_signal_handler
  <2>1. CASE stack' = stack /\ UNCHANGED <<sigg, queue>>
    BY <1>1, <2>1 DEF Control, StackShape, HandlerFrames, Draining, MainFrameState,
       PendingIsAnnounced, sigg, queue
  <2>2. CASE Goto(Top.after) /\ UNCHANGED <<sigg, queue>>
    BY <1>6, <1>9, <1>10, <2>2 DEF zend_signal_handler, HandlerPCs, At
  <2>3. CASE Goto("body") /\ UNCHANGED <<sigg, queue>>
    <3>1. Top.pc \in {"call", "body"} /\ "body" \in HandlerPCs
      BY <1>10 DEF zend_signal_handler, HandlerPCs, At
    <3>2. QED
      BY <1>9, <2>3, <3>1
  <2>4. QED
    BY <1>10, <2>1, <2>2, <2>3 DEF zend_signal_handler
<1>11. CASE HandlerReturn
  BY <1>6, <1>9, <1>11 DEF HandlerReturn, HandlerPCs, At
<1>12. CASE Detach
  <2> DEFINE g == [Top EXCEPT !.queue = phead, !.pc = "drain"]
  <2>1. g \in Frame /\ g.pc = "drain" /\ g.after = Top.after
    BY <1>1, <1>2 DEF QueueTypes, Frame
  <2>2. /\ stack' = <<g>> \o Tail(stack) /\ phead' = NULL /\ UNCHANGED <<sigg, ptail>>
        /\ active = 1
    BY <1>5, <1>8, <1>12 DEF Detach, At
  <2> HIDE DEF g
  <2>3. QED
    BY <1>7, <1>8, <2>1, <2>2 DEF HandlerPCs
<1>13. CASE DrainNext
  <2> DEFINE g == [Top EXCEPT !.pc = "call", !.sig = qsig[Top.queue], !.after = "recycle"]
  <2>1. Top.queue \in Nodes /\ Top.pc = "drain"
    BY <1>6, <1>13 DEF DrainNext, At
  <2>2. qsig[Top.queue] \in Sigs \cup {NULL}
    BY <1>1, <2>1 DEF QueueTypes
  <2>3. g \in Frame /\ g.pc = "call" /\ g.after = "recycle" /\ g.queue = Top.queue
    BY <1>2, <2>2 DEF Frame
  <2>4. /\ stack' = <<g>> \o Tail(stack) /\ UNCHANGED <<sigg, phead, ptail>>
        /\ active = 1
    BY <1>5, <1>8, <1>13, <2>1 DEF DrainNext, queue
  <2> HIDE DEF g
  <2>5. phead = NULL
    BY <1>8, <2>1, <2>4 DEF Draining
  <2>6. QED
    BY <1>7, <2>1, <2>3, <2>4, <2>5 DEF HandlerPCs
<1>14. CASE Recycle
  <2> DEFINE g == [Top EXCEPT !.pc = "drain", !.queue = next[Top.queue]]
  <2>1. Top.queue \in Nodes /\ Top.pc = "recycle"
    BY <1>14, RecycleIsOfNode DEF Recycle, At
  <2>2. next[Top.queue] \in Nodes \cup {NULL}
    BY <1>1, <2>1 DEF QueueTypes
  <2>3. g \in Frame /\ g.pc = "drain" /\ g.after = Top.after
    BY <1>2, <2>2 DEF Frame
  <2>4. /\ stack' = <<g>> \o Tail(stack) /\ UNCHANGED <<sigg, phead, ptail>>
        /\ active = 1
    BY <1>5, <1>8, <1>14, <2>1 DEF Recycle
  <2> HIDE DEF g
  <2>5. phead = NULL
    BY <1>8, <2>1, <2>4 DEF Draining
  <2>6. QED
    BY <1>7, <1>8, <2>3, <2>4, <2>5 DEF HandlerPCs
<1>15. CASE DrainDone
  <2>1. /\ StackShape' /\ Len(stack') = Len(stack) - 1
        /\ stack'[Len(stack')] = stack[Len(stack)]
        /\ \A i \in 1..(Len(stack') - 1) :
              i + 1 \in 1..(Len(stack) - 1) /\ stack'[i] = stack[i + 1]
    BY <1>1, <1>4, <1>15, HandlerLeaves DEF DrainDone
  <2>2. UNCHANGED <<depth, blocked, active, phead, ptail>>
    BY <1>15 DEF DrainDone, queue
  <2>3. MainFrameState'
    BY <1>1, <2>1, <2>2 DEF MainFrameState
  <2>4. CASE active = 1
    <3>1. At("drain") /\ running' = 0
      BY <1>8, <1>15, <2>4 DEF DrainDone, At
    <3>2. phead = NULL
      BY <1>8, <2>4, <3>1 DEF Draining, At
    <3>3. Len(stack') = 1
      BY <1>5, <2>1, <2>4
    <3>4. HandlerFrames' /\ PendingIsAnnounced'
      BY <2>2, <2>4, <3>1, <3>2, <3>3 DEF HandlerFrames, PendingIsAnnounced
    <3>5. QED
      BY <2>1, <2>3, <3>4 DEF Control
  <2>5. CASE active = 0
    <3>1. running' = 0
      BY <1>5, <1>15, <2>5 DEF DrainDone
    <3>2. ASSUME NEW i \in 1..(Len(stack') - 1)
          PROVE  /\ stack'[i].pc \in {"call", "body", "return"} /\ stack'[i].after = "return"
                 /\ stack'[i].queue = NULL
      <4>1. i + 1 \in 1..(Len(stack) - 1) /\ stack'[i] = stack[i + 1]
        BY <2>1
      <4>2. QED
        BY <1>1, <2>5, <4>1 DEF HandlerFrames
    <3>3. HandlerFrames'
      BY <2>2, <2>5, <3>1, <3>2 DEF HandlerFrames
    <3>4. QED
      BY <2>1, <2>2, <2>3, <2>5, <3>3 DEF Control, PendingIsAnnounced
  <2>6. QED
    BY <1>5, <2>4, <2>5
<1>16. QED
  BY <1>10, <1>11, <1>12, <1>13, <1>14, <1>15 DEF HandlerStep

\* The PHP code itself: critical sections, and the beginning and the end of requests.
LEMMA MainKeepsControl ==
    ASSUME SignalInvariant,
           Block \/ Unblock \/ zend_signal_activate \/ zend_signal_deactivate \/ DeactivateReset
    PROVE  Control'
<1> USE SignalAssumption
<1>1. /\ StackShape /\ HandlerFrames /\ MainFrameState /\ PendingIsAnnounced /\ FlagTypes
      /\ QueueTypes
  BY DEF SignalInvariant
<1>2. Top.pc \in MainPCs
  BY DEF Block, Unblock, UnblockEarlyRead, UnblockDecrement, UnblockCompare, UnblockEnter,
     UnblockPop, zend_signal_activate, zend_signal_deactivate, DeactivateReset, At, MainPCs
<1>3. Len(stack) = 1 /\ Top = stack[1] /\ Top \in Frame
  BY <1>1, <1>2, TopFrame
<1>4. running = 0 /\ Top.queue = NULL /\ Top.blk \in {-1, 0, 1} /\ Top.old \in Int
  BY <1>1, <1>3, FrameFields DEF HandlerFrames, FlagTypes, MainFrameState
\* The PHP code stays the only frame: nothing is said of handlers.
<1>5. ASSUME NEW g \in Frame, g.pc \in MainPCs, g.queue = NULL,
             stack' = <<g>> \o Tail(stack) \/ stack' = <<g>>,
             running' = 0, UNCHANGED <<phead, ptail>>,
             g.pc = "u_dec" => depth' > 0,
             g.pc = "u_cmp" => g.old = depth' + 1,
             g.pc \in {"u_enter", "u_pop"} => depth' = 0,
             g.pc = "u_pop" => active' = 1,
             g.pc = "deact" => active' = 0,
             active' = 0 /\ g.pc # "deact" => phead = NULL /\ blocked' = 0,
             active' = 1 /\ phead # NULL => blocked' = 1
      PROVE  Control'
  <2>1. StackShape' /\ Len(stack') = 1 /\ stack'[Len(stack')] = g
    BY <1>1, <1>3, <1>5, MainMoves
  <2>2. HandlerFrames'
    BY <1>5, <2>1 DEF HandlerFrames
  <2>3. MainFrameState'
    BY <1>1, <1>5, <2>1 DEF MainFrameState
  <2>4. QED
    BY <1>5, <2>1, <2>2, <2>3 DEF Control, PendingIsAnnounced
<1>6. CASE Block
  <2>1. /\ Top.pc = "main" /\ stack' = stack
        /\ UNCHANGED <<blocked, running, active, phead, ptail>>
    BY <1>6 DEF Block, At, queue
  <2>2. StackShape' /\ HandlerFrames' /\ PendingIsAnnounced'
    <3>1. StackShape'
      BY <1>1, <2>1 DEF StackShape
    <3>2. Len(stack') = 1 /\ running' = 0
      BY <1>3, <1>4, <2>1
    <3>3. HandlerFrames'
      BY <3>2 DEF HandlerFrames
    <3>4. PendingIsAnnounced'
      BY <1>1, <2>1 DEF PendingIsAnnounced
    <3>5. QED
      BY <3>1, <3>3, <3>4
  <2>3. MainFrameState'
    BY <1>1, <1>3, <2>1 DEF MainFrameState
  <2>4. QED
    BY <2>2, <2>3 DEF Control
<1>7. CASE UnblockEarlyRead
  <2> DEFINE g == [Top EXCEPT !.pc = "u_dec", !.blk = blocked]
  <2>1. g \in Frame /\ g.pc = "u_dec" /\ g.queue = NULL
    BY <1>1, <1>3, <1>4 DEF Frame, FlagTypes
  <2>2. /\ stack' = <<g>> /\ depth > 0 /\ Top.pc = "main"
        /\ UNCHANGED <<depth, blocked, running, active, phead, ptail>>
    BY <1>7 DEF UnblockEarlyRead, At, sigg, queue
  <2> HIDE DEF g
  <2>3. QED
    BY <1>1, <1>3, <1>4, <1>5, <2>1, <2>2 DEF MainPCs, MainFrameState, PendingIsAnnounced
<1>8. CASE UnblockDecrement
  <2> DEFINE g == [Top EXCEPT !.pc = "u_cmp", !.old = depth]
  <2>1. g \in Frame /\ g.pc = "u_cmp" /\ g.queue = NULL /\ g.old = depth
    <3>1. depth \in Int
      BY <1>1 DEF FlagTypes
    <3>2. QED
      BY <1>3, <1>4, <3>1 DEF Frame
  <2>2. /\ stack' = <<g>> /\ depth' = depth - 1 /\ Top.pc \in {"main", "u_dec"}
        /\ UNCHANGED <<blocked, running, active, phead, ptail>>
    BY <1>8 DEF UnblockDecrement, At, queue
  <2> HIDE DEF g
  <2>3. g.old = depth' + 1
    BY <1>1, <2>1, <2>2 DEF FlagTypes
  <2>4. QED
    BY <1>1, <1>3, <1>4, <1>5, <2>1, <2>2, <2>3 DEF MainPCs, MainFrameState, PendingIsAnnounced
<1>9. CASE UnblockCompare
  <2>1. Top.pc = "u_cmp" /\ Top.old = depth + 1
    BY <1>1, <1>3, <1>9 DEF UnblockCompare, At, MainFrameState
  <2>2. PICK blk \in {-1, 0, 1} :
           stack' = <<[MainFrame EXCEPT !.pc = IF Top.old = blk THEN "u_enter" ELSE "main"]>>
    BY <1>1, <1>4, <1>9 DEF UnblockCompare, FlagTypes
  <2>3. UNCHANGED <<depth, blocked, running, active, phead, ptail>>
    BY <1>9 DEF UnblockCompare, sigg, queue
  <2>4. CASE Top.old = blk
    <3> DEFINE g == [MainFrame EXCEPT !.pc = "u_enter"]
    <3>1. depth = 0
      BY <1>1, <2>1, <2>4 DEF FlagTypes
    <3>2. g \in Frame /\ g.pc = "u_enter" /\ g.queue = NULL /\ stack' = <<g>>
      BY <2>2, <2>4, MainFrameFields
    <3> HIDE DEF g
    <3>3. QED
      BY <1>1, <1>3, <1>4, <1>5, <2>1, <2>3, <3>1, <3>2
         DEF MainPCs, MainFrameState, PendingIsAnnounced
  <2>5. CASE Top.old # blk
    <3>1. stack' = <<MainFrame>>
      BY <2>2, <2>5, MainFrameFields
    <3>2. QED
      BY <1>1, <1>3, <1>4, <1>5, <2>1, <2>3, <3>1, MainFrameFields
         DEF MainPCs, MainFrameState, PendingIsAnnounced
  <2>6. QED
    BY <2>4, <2>5
<1>10. CASE UnblockEnter
  <2>1. Top.pc = "u_enter" /\ UNCHANGED <<depth, blocked, running, active, phead, ptail>>
    BY <1>10 DEF UnblockEnter, At, sigg, queue
  <2>2. CASE active = 1
    <3> DEFINE g == [Top EXCEPT !.pc = "u_pop", !.saved = mask]
    <3>1. g \in Frame /\ g.pc = "u_pop" /\ g.queue = NULL
      BY <1>3, <1>4 DEF Frame, SignalInvariant, KernelTypes
    <3>2. stack' = <<g>>
      BY <1>10, <2>2 DEF UnblockEnter
    <3> HIDE DEF g
    <3>3. QED
      BY <1>1, <1>3, <1>4, <1>5, <2>1, <2>2, <3>1, <3>2
         DEF MainPCs, MainFrameState, PendingIsAnnounced
  <2>3. CASE active # 1
    <3> DEFINE g == [Top EXCEPT !.pc = "main"]
    <3>1. g \in Frame /\ g.pc = "main" /\ g.queue = NULL
      BY <1>3, <1>4, FrameMoves DEF MainPCs
    <3>2. stack' = <<g>> \o Tail(stack)
      BY <1>10, <2>3 DEF UnblockEnter, Goto
    <3> HIDE DEF g
    <3>3. QED
      BY <1>1, <1>3, <1>4, <1>5, <2>1, <2>3, <3>1, <3>2
         DEF MainPCs, MainFrameState, PendingIsAnnounced
  <2>4. QED
    BY <2>2, <2>3
<1>11. CASE UnblockPop
  <2>1. Top.pc = "u_pop" /\ depth = 0 /\ active = 1
    BY <1>1, <1>3, <1>11 DEF UnblockPop, At, MainFrameState
  <2>2. CASE UNCHANGED <<sigg, queue, mask, stack>>
    BY <1>1, <2>2 DEF Control, StackShape, HandlerFrames, Draining, MainFrameState,
       PendingIsAnnounced, sigg, queue
  <2>3. CASE /\ phead # NULL /\ phead' = next[phead] /\ UNCHANGED ptail
             /\ HandleNow(qsig[phead], <<MainFrame>>, Top.saved)
    <3> DEFINE g == Enter(qsig[phead], "detach", Top.saved)
    <3>1. qsig[phead] \in Sigs \cup {NULL} /\ Top.saved \in SUBSET Sigs
      BY <1>1, <1>3, <2>3, FrameFields DEF QueueTypes
    <3>2. g \in Frame /\ g.pc = "call" /\ g.after = "detach" /\ g.queue = NULL
      BY <3>1, EnteredFrame
    <3>3. /\ stack' = <<g>> \o <<MainFrame>> /\ blocked' = 0 /\ running' = 1
          /\ UNCHANGED <<depth, active>>
      BY <1>4, <2>3 DEF HandleNow
    <3> HIDE DEF g
    <3>4. /\ stack' \in Seq(Frame) /\ Len(stack') = 2 /\ stack'[1] = g
          /\ stack'[Len(stack')] = MainFrame
      BY <3>2, <3>3, MainFrameFields
    <3>5. StackShape'
      BY <3>2, <3>4, MainFrameFields DEF StackShape, MainPCs, HandlerPCs
    <3>6. HandlerFrames'
      BY <2>1, <3>2, <3>3, <3>4 DEF HandlerFrames, Draining
    <3>7. MainFrameState'
      BY <1>1, <2>1, <2>3, <3>3, <3>4, MainFrameFields DEF MainFrameState
    <3>8. QED
      BY <3>3, <3>5, <3>6, <3>7 DEF Control, PendingIsAnnounced
  <2>4. QED
    BY <1>11, <2>2, <2>3 DEF UnblockPop
<1>12. CASE zend_signal_activate
  <2>1. /\ Top.pc = "main" /\ active = 0 /\ active' = 1 /\ depth' = 0 /\ stack' = stack
        /\ UNCHANGED <<blocked, running, phead, ptail>>
    BY <1>12 DEF zend_signal_activate, At, queue
  <2>2. phead = NULL
    BY <1>1, <1>3, <2>1 DEF MainFrameState
  <2>3. StackShape' /\ HandlerFrames' /\ PendingIsAnnounced'
    <3>1. StackShape'
      BY <1>1, <2>1 DEF StackShape
    <3>2. Len(stack') = 1 /\ running' = 0
      BY <1>3, <1>4, <2>1
    <3>3. HandlerFrames'
      BY <3>2 DEF HandlerFrames
    <3>4. PendingIsAnnounced'
      BY <2>1, <2>2 DEF PendingIsAnnounced
    <3>5. QED
      BY <3>1, <3>3, <3>4
  <2>4. MainFrameState'
    BY <1>1, <1>3, <2>1, <2>2 DEF MainFrameState
  <2>5. QED
    BY <2>3, <2>4 DEF Control
<1>13. CASE zend_signal_deactivate
  <2> DEFINE g == [Top EXCEPT !.pc = "deact"]
  <2>1. g \in Frame /\ g.pc = "deact" /\ g.queue = NULL
    BY <1>3, <1>4, FrameMoves DEF MainPCs
  <2>2. /\ stack' = <<g>> \o Tail(stack) /\ active' = 0
        /\ UNCHANGED <<depth, blocked, running, phead, ptail>>
    BY <1>13 DEF zend_signal_deactivate, Goto, queue
  <2> HIDE DEF g
  <2>3. QED
    BY <1>1, <1>3, <1>4, <1>5, <2>1, <2>2 DEF MainPCs, MainFrameState
<1>14. CASE DeactivateReset
  <2> DEFINE g == [Top EXCEPT !.pc = "main"]
  <2>1. g \in Frame /\ g.pc = "main" /\ g.queue = NULL
    BY <1>3, <1>4, FrameMoves DEF MainPCs
  <2>2. /\ stack' = <<g>> \o Tail(stack) /\ blocked' = 0 /\ running' = 0 /\ active' = active
        /\ Top.pc = "deact"
    BY <1>14 DEF DeactivateReset, Goto, At
  <2> HIDE DEF g
  <2>3. phead' = NULL /\ active = 0
    BY <1>1, <1>3, <1>14, <2>2 DEF DeactivateReset, MainFrameState
  <2>4. StackShape' /\ Len(stack') = 1 /\ stack'[Len(stack')] = g
    BY <1>1, <1>3, <2>1, <2>2, MainMoves DEF MainPCs
  <2>5. HandlerFrames' /\ PendingIsAnnounced'
    BY <2>2, <2>3, <2>4 DEF HandlerFrames, PendingIsAnnounced
  <2>6. MainFrameState'
    BY <2>1, <2>2, <2>3, <2>4 DEF MainFrameState
  <2>7. QED
    BY <2>4, <2>5, <2>6 DEF Control
<1>15. QED
  BY <1>6, <1>7, <1>8, <1>9, <1>10, <1>11, <1>12, <1>13, <1>14 DEF Unblock

\* Whatever the order of signals, handlers and PHP code.
LEMMA ControlStep ==
    ASSUME SignalInvariant, Next
    PROVE  Control'
<1>1. CASE UNCHANGED <<sigg, queue, stack>>
  BY <1>1 DEF SignalInvariant, Control, StackShape, HandlerFrames, Draining, MainFrameState,
     PendingIsAnnounced, sigg, queue
<1>2. ASSUME NEW s \in Sigs, Deliver(s)
      PROVE  Control'
  BY <1>1, <1>2, DeferKeepsControl DEF Deliver
<1>3. CASE HandlerStep
  BY <1>3, HandlerKeepsControl
<1>4. CASE Block \/ Unblock \/ zend_signal_activate \/ zend_signal_deactivate \/ DeactivateReset
  BY <1>4, MainKeepsControl
<1>5. CASE HandlerRearm \/ Sigaction
  BY <1>1, <1>5 DEF HandlerRearm, Sigaction
<1>6. QED
  BY <1>1, <1>2, <1>3, <1>4, <1>5 DEF Next, Raise

----------------------------------------------------------------------------
(* The theorems on control.                                                *)

\* zend_signal_globals_ctor strings all the nodes together, each one once.
LEMMA PoolOrderFacts ==
    /\ Cardinality(Nodes) \in Nat \ {0}
    /\ PoolOrder \in [1..Cardinality(Nodes) -> Nodes]
    /\ Len(PoolOrder) = Cardinality(Nodes)
    /\ Members(PoolOrder) = Nodes
<1> DEFINE n == Cardinality(Nodes)
<1>1. n \in Nat /\ ExistsBijection(1..n, Nodes)
  BY SignalAssumption, FS_CardinalityType
<1>2. n # 0
  BY SignalAssumption, FS_EmptySet
<1> HIDE DEF n
<1>3. PICK f \in [1..n -> Nodes] : \A x \in Nodes : \E i \in 1..n : f[i] = x
  BY <1>1 DEF ExistsBijection, Bijection, Surjection
<1>4. \A s \in [1..n -> Nodes] : Len(s) = n
  BY <1>1
<1>5. Members(f) = Nodes
  BY <1>3, <1>4 DEF Members
<1>6. PoolOrder \in [1..n -> Nodes] /\ Members(PoolOrder) = Nodes
  BY <1>3, <1>5 DEF PoolOrder, n
<1>7. QED
  BY <1>1, <1>2, <1>4, <1>6 DEF n

\* The free list is made of nodes.
LEMMA InitQueueTypes == Init => QueueTypes
<1> SUFFICES ASSUME Init PROVE QueueTypes
  OBVIOUS
<1> DEFINE n == Cardinality(Nodes)
<1>1. /\ n \in Nat \ {0} /\ PoolOrder \in [1..n -> Nodes] /\ Len(PoolOrder) = n
      /\ Members(PoolOrder) = Nodes
  BY PoolOrderFacts
<1> HIDE DEF n
<1>2. \A x \in Nodes : \E k \in 1..n : PoolOrder[k] = x
  BY <1>1 DEF Members
<1>3. next \in [Nodes -> Nodes \cup {NULL}]
  <2>1. next = FreeList(PoolOrder)
    BY DEF Init
  <2>2. ASSUME NEW x \in Nodes
        PROVE  LET i == CHOOSE k \in 1..n : PoolOrder[k] = x
               IN  (IF i = n THEN NULL ELSE PoolOrder[i + 1]) \in Nodes \cup {NULL}
    <3> DEFINE i == CHOOSE k \in 1..n : PoolOrder[k] = x
    <3>1. i \in 1..n
      BY <1>2
    <3> HIDE DEF i
    <3>2. i # n => i + 1 \in 1..n
      BY <1>1, <3>1
    <3>3. QED
      BY <1>1, <3>2 DEF i
  <2>3. QED
    BY <1>1, <2>1, <2>2 DEF FreeList
<1>4. pavail \in Nodes
  BY <1>1 DEF Init
<1>5. QED
  BY <1>3, <1>4 DEF Init, QueueTypes

\* The control of signals: the inductive invariant.
THEOREM SignalInvariantHolds == Spec => []SignalInvariant
<1>1. Init => SignalInvariant
  <2> SUFFICES ASSUME Init PROVE SignalInvariant
    OBVIOUS
  <2>1. stack = <<MainFrame>> /\ Len(stack) = 1 /\ stack[1] = MainFrame /\ stack \in Seq(Frame)
    BY MainFrameFields DEF Init
  <2>2. StackShape /\ HandlerFrames
    BY <2>1, MainFrameFields DEF Init, StackShape, HandlerFrames, MainPCs
  <2>3. MainFrameState /\ PendingIsAnnounced
    BY <2>1, MainFrameFields DEF Init, MainFrameState, PendingIsAnnounced
  <2>4. FlagTypes /\ KernelTypes
    BY SignalAssumption DEF Init, FlagTypes, KernelTypes, Handler
  <2>5. QED
    BY <2>2, <2>3, <2>4, InitQueueTypes DEF SignalInvariant
<1>2. SignalInvariant /\ [Next]_vars => SignalInvariant'
  <2>1. ASSUME SignalInvariant, Next
        PROVE  SignalInvariant'
    BY <2>1, FlagTypesStep, QueueTypesStep, KernelTypesStep, ControlStep
       DEF SignalInvariant, Control
  <2>2. ASSUME SignalInvariant, UNCHANGED vars
        PROVE  SignalInvariant'
    BY <2>2 DEF vars, sigg, queue, kernel, SignalInvariant, FlagTypes, QueueTypes, KernelTypes,
       StackShape, HandlerFrames, Draining, MainFrameState, PendingIsAnnounced
  <2>3. QED
    BY <2>1, <2>2
<1>3. QED
  BY <1>1, <1>2, PTL DEF Spec

\* Every variable stays in its range; depth in particular never becomes negative,
\* whatever interrupts BLOCK and UNBLOCK.
THEOREM TypeCorrect == Spec => []TypeOK
<1>1. SignalInvariant => TypeOK
  <2> SUFFICES ASSUME SignalInvariant PROVE TypeOK
    OBVIOUS
  <2>1. stack # << >> /\ Members(stack) \subseteq Frame
    BY DEF SignalInvariant, StackShape, Members
  <2>2. QED
    BY <2>1 DEF SignalInvariant, FlagTypes, QueueTypes, KernelTypes, TypeOK
<1>2. QED
  BY <1>1, SignalInvariantHolds, PTL

\* A deferred signal is always announced to the next UNBLOCK.
THEOREM DeferredSignalsAreAnnounced == Spec => []PendingIsAnnounced
<1>1. SignalInvariant => PendingIsAnnounced
  BY DEF SignalInvariant
<1>2. QED
  BY <1>1, SignalInvariantHolds, PTL

\* During a request no handler runs in the middle of a critical section.
THEOREM CriticalSectionsAreProtected == Spec => []NoHandlerInCriticalSection
<1>1. SignalInvariant => NoHandlerInCriticalSection
  <2> SUFFICES ASSUME SignalInvariant, active = 1, NEW i \in 1..Len(stack),
                      stack[i].pc \in {"call", "body"}
               PROVE  depth = 0
    BY DEF NoHandlerInCriticalSection
  <2>1. StackShape /\ HandlerFrames
    BY DEF SignalInvariant
  <2>2. Len(stack) # 1
    BY <2>1 DEF StackShape, MainPCs
  <2>3. Len(stack) > 1
    BY <2>1, <2>2, TopFrame
  <2>4. QED
    BY <2>1, <2>3 DEF HandlerFrames
<1>2. QED
  BY <1>1, SignalInvariantHolds, PTL

\* Once deactivation has cleared active, nothing touches what it is about to reset, and
\* the next request inherits nothing.
THEOREM TeardownIsUndisturbed == Spec => TeardownIsPrivate
<1>1. SignalInvariant /\ SignalInvariant' /\ [Next]_vars =>
        [/\ stack[Len(stack)].pc = "deact" /\ stack'[Len(stack')].pc = "deact" =>
               UNCHANGED <<depth, blocked, running, queue>>
         /\ active = 0 /\ active' = 1 =>
               phead = NULL /\ blocked = 0 /\ running = 0 /\ depth' = 0]_vars
  <2> SUFFICES ASSUME SignalInvariant, SignalInvariant', Next
               PROVE  /\ stack[Len(stack)].pc = "deact" /\ stack'[Len(stack')].pc = "deact" =>
                           UNCHANGED <<depth, blocked, running, queue>>
                      /\ active = 0 /\ active' = 1 =>
                           phead = NULL /\ blocked = 0 /\ running = 0 /\ depth' = 0
    OBVIOUS
  <2>1. /\ StackShape /\ HandlerFrames /\ MainFrameState /\ FlagTypes
        /\ StackShape' /\ HandlerFrames' /\ MainFrameState' /\ FlagTypes'
    BY DEF SignalInvariant
  <2>2. /\ Top = stack[1] /\ Len(stack) \in Nat \ {0}
        /\ Top.pc \in MainPCs => Len(stack) = 1
        /\ Top.pc \in HandlerPCs => Len(stack) > 1
    BY <2>1, TopFrame
  <2>3. ASSUME stack[Len(stack)].pc = "deact", stack'[Len(stack')].pc = "deact"
        PROVE  UNCHANGED <<depth, blocked, running, queue>>
    <3>1. active = 0
      BY <2>1, <2>3 DEF MainFrameState
    <3>2. ASSUME Top.pc \in MainPCs
          PROVE  Top.pc = "deact"
      BY <2>2, <2>3, <3>2
    <3>3. ASSUME Top.pc \in HandlerPCs
          PROVE  Top.pc \in {"call", "body", "return"}
      <4>1. 1 \in 1..(Len(stack) - 1)
        BY <2>2, <3>3
      <4>2. QED
        BY <2>1, <2>2, <3>1, <4>1 DEF HandlerFrames
    <3>4. ~DeactivateReset
      <4>1. SUFFICES ASSUME DeactivateReset PROVE FALSE
        OBVIOUS
      <4>2. Len(stack) = 1 /\ Top \in Frame
        BY <2>1, <2>2, <4>1, TopFrame DEF DeactivateReset, At, MainPCs
      <4>3. /\ [Top EXCEPT !.pc = "main"] \in Frame /\ [Top EXCEPT !.pc = "main"].pc = "main"
            /\ "main" \in MainPCs
        BY <4>2, FrameMoves DEF MainPCs
      <4>4. stack' = <<[Top EXCEPT !.pc = "main"]>> \o Tail(stack)
        BY <4>1 DEF DeactivateReset, Goto
      <4>5. stack'[Len(stack')] = [Top EXCEPT !.pc = "main"]
        BY <2>1, <4>2, <4>3, <4>4, MainMoves
      <4>6. QED
        BY <2>3, <4>3, <4>5
    <3>5. CASE \E s \in Sigs : Raise(s) \/ Deliver(s)
      BY <3>1, <3>5 DEF Raise, Deliver, zend_signal_handler_defer, sigg
    <3>6. CASE HandlerStep \/ HandlerRearm
      BY <3>3, <3>6 DEF HandlerStep, HandlerRearm, zend_signal_handler, HandlerReturn, Detach,
         DrainNext, Recycle, DrainDone, At, HandlerPCs, sigg
    <3>7. CASE Block \/ Unblock \/ Sigaction \/ zend_signal_activate \/ zend_signal_deactivate
      <4>1. Top.pc \in MainPCs /\ Top.pc # "deact"
        BY <3>7 DEF Block, Unblock, UnblockEarlyRead, UnblockDecrement, UnblockCompare,
           UnblockEnter, UnblockPop, Sigaction, zend_signal_activate, zend_signal_deactivate, At,
           MainPCs
      <4>2. QED
        BY <3>2, <4>1
    <3>8. QED
      BY <3>4, <3>5, <3>6, <3>7 DEF Next
  <2>4. ASSUME active = 0, active' = 1
        PROVE  phead = NULL /\ blocked = 0 /\ running = 0 /\ depth' = 0
    <3>1. zend_signal_activate
      BY <2>4 DEF Next, Raise, Deliver, zend_signal_handler_defer, HandleNow, HandlerStep,
         HandlerRearm, zend_signal_handler, HandlerReturn, Detach, DrainNext, Recycle, DrainDone,
         Block, Unblock, UnblockEarlyRead, UnblockDecrement, UnblockCompare, UnblockEnter,
         UnblockPop, Sigaction, zend_signal_deactivate, DeactivateReset, sigg
    <3>2. Top.pc = "main" /\ depth' = 0
      BY <3>1 DEF zend_signal_activate, At
    <3>3. QED
      BY <2>1, <2>2, <2>4, <3>2 DEF MainPCs, MainFrameState, HandlerFrames, FlagTypes
  <2>5. QED
    BY <2>3, <2>4
<1>2. QED
  BY <1>1, SignalInvariantHolds, PTL DEF Spec, TeardownIsPrivate

----------------------------------------------------------------------------
(* Linked lists.                                                           *)

\* L lists, without repetition, the nodes met when following nx from h to NULL.
Chain(nx, L, h) ==
    /\ L \in Seq(Nodes)
    /\ h = IF Len(L) = 0 THEN NULL ELSE L[1]
    /\ \A i \in 1..Len(L) : nx[L[i]] = IF i = Len(L) THEN NULL ELSE L[i + 1]
    /\ \A i, j \in 1..Len(L) : L[i] = L[j] => i = j

\* The list of nobody.
LEMMA ChainEmpty ==
    ASSUME NEW nx
    PROVE  Chain(nx, << >>, NULL) /\ Members(<< >>) = {}
<1>1. << >> \in Seq(Nodes) /\ Len(<< >>) = 0
  OBVIOUS
<1>2. QED
  BY <1>1 DEF Chain, Members

\* The list at NULL is empty, and only that.
LEMMA ChainNull ==
    ASSUME NEW nx, NEW L, NEW h, Chain(nx, L, h)
    PROVE  /\ h = NULL => L = << >> /\ Members(L) = {}
           /\ h # NULL => h \in Nodes /\ Len(L) > 0 /\ h = L[1] /\ h \in Members(L)
           /\ Members(L) \subseteq Nodes
<1>1. L \in Seq(Nodes) /\ Len(L) \in Nat /\ h = IF Len(L) = 0 THEN NULL ELSE L[1]
  BY DEF Chain
<1>2. Members(L) \subseteq Nodes
  BY <1>1 DEF Members
<1>3. CASE h = NULL
  <2>1. Len(L) = 0
    BY <1>1, <1>3, SignalAssumption
  <2>2. QED
    BY <1>1, <1>2, <1>3, <2>1 DEF Members
<1>4. CASE h # NULL
  <2>1. Len(L) # 0 /\ 1 \in 1..Len(L)
    BY <1>1, <1>4
  <2>2. QED
    BY <1>1, <1>2, <1>4, <2>1 DEF Members
<1>5. QED
  BY <1>3, <1>4

\* Links of other nodes do not matter.
LEMMA ChainFrame ==
    ASSUME NEW nx, NEW ny, NEW L, NEW h, Chain(nx, L, h),
           \A m \in Members(L) : ny[m] = nx[m]
    PROVE  Chain(ny, L, h)
<1>1. \A i \in 1..Len(L) : L[i] \in Members(L)
  BY DEF Members
<1>2. QED
  BY <1>1, SMTT(30) DEF Chain

\* Taking the first node off a list.
LEMMA ChainTail ==
    ASSUME NEW nx, NEW L, NEW h, Chain(nx, L, h), h # NULL
    PROVE  /\ Chain(nx, Tail(L), nx[h]) /\ Members(Tail(L)) = Members(L) \ {h}
           /\ Len(Tail(L)) = Len(L) - 1
           /\ Len(Tail(L)) > 0 => Tail(L)[Len(Tail(L))] = L[Len(L)]
<1>1. L \in Seq(Nodes) /\ Len(L) \in Nat /\ Len(L) > 0 /\ h = L[1]
  BY ChainNull DEF Chain
<1> DEFINE t == Tail(L)
<1>2. t \in Seq(Nodes) /\ Len(t) = Len(L) - 1 /\ \A i \in 1..Len(t) : t[i] = L[i + 1]
  BY <1>1
<1>3. Len(t) \in Nat /\ \A i \in 1..Len(t) : i + 1 \in 1..Len(L) /\ i + 1 # 1
  BY <1>1, <1>2
<1> HIDE DEF t
<1>4. nx[h] = IF Len(t) = 0 THEN NULL ELSE t[1]
  <2>1. nx[L[1]] = IF 1 = Len(L) THEN NULL ELSE L[1 + 1]
    <3>1. 1 \in 1..Len(L)
      BY <1>1
    <3>2. \A i \in 1..Len(L) : nx[L[i]] = IF i = Len(L) THEN NULL ELSE L[i + 1]
      BY DEF Chain
    <3>3. QED
      BY <3>1, <3>2
  <2>2. Len(t) = 0 <=> 1 = Len(L)
    BY <1>1, <1>2
  <2>3. Len(t) # 0 => t[1] = L[1 + 1]
    BY <1>2, <1>3
  <2>4. QED
    BY <1>1, <2>1, <2>2, <2>3
<1>5. \A i \in 1..Len(t) : nx[t[i]] = IF i = Len(t) THEN NULL ELSE t[i + 1]
  <2>1. SUFFICES ASSUME NEW i \in 1..Len(t)
                 PROVE  nx[t[i]] = IF i = Len(t) THEN NULL ELSE t[i + 1]
    OBVIOUS
  <2>2. nx[L[i + 1]] = IF i + 1 = Len(L) THEN NULL ELSE L[(i + 1) + 1]
    BY <1>3 DEF Chain
  <2>3. i = Len(t) <=> i + 1 = Len(L)
    BY <1>1, <1>2
  <2>4. i # Len(t) => i + 1 \in 1..Len(t)
    BY <1>3
  <2>5. i # Len(t) => t[i + 1] = L[(i + 1) + 1]
    BY <1>2, <2>4
  <2>6. QED
    BY <1>2, <2>2, <2>3, <2>5
<1>6. \A i, j \in 1..Len(t) : t[i] = t[j] => i = j
  <2>1. SUFFICES ASSUME NEW i \in 1..Len(t), NEW j \in 1..Len(t), t[i] = t[j]
                 PROVE  i = j
    OBVIOUS
  <2>2. i + 1 = j + 1
    BY <1>2, <1>3, <2>1 DEF Chain
  <2>3. QED
    BY <1>3, <2>2
<1>7. Members(t) = Members(L) \ {h}
  <2>1. ASSUME NEW i \in 1..Len(t)
        PROVE  t[i] \in Members(L) /\ t[i] # h
    <3>1. i + 1 \in 1..Len(L) /\ i + 1 # 1 /\ 1 \in 1..Len(L) /\ t[i] = L[i + 1]
      BY <1>1, <1>2, <1>3
    <3>2. L[i + 1] # L[1]
      BY <3>1 DEF Chain
    <3>3. QED
      BY <1>1, <3>1, <3>2 DEF Members
  <2>2. ASSUME NEW i \in 1..Len(L), L[i] # h
        PROVE  L[i] \in Members(t)
    <3>1. i - 1 \in 1..Len(t) /\ (i - 1) + 1 = i
      BY <1>1, <1>2, <2>2
    <3>2. t[i - 1] = L[i]
      BY <1>2, <3>1
    <3>3. QED
      BY <3>1, <3>2 DEF Members
  <2>3. QED
    BY <2>1, <2>2 DEF Members
<1>8. Len(t) > 0 => t[Len(t)] = L[Len(L)]
  <2>1. ASSUME Len(t) > 0 PROVE Len(t) \in 1..Len(t) /\ Len(t) + 1 = Len(L)
    BY <1>1, <1>2, <1>3, <2>1
  <2>2. QED
    BY <1>2, <2>1
<1>9. QED
  BY <1>2, <1>4, <1>5, <1>6, <1>7, <1>8 DEF Chain, t

\* The nodes of two lists in a row.
LEMMA JoinMembers ==
    ASSUME NEW P \in Seq(Nodes), NEW F \in Seq(Nodes)
    PROVE  Members(P \o F) = Members(P) \cup Members(F)
<1> DEFINE j == P \o F
<1>1. Len(P) \in Nat /\ Len(F) \in Nat
  OBVIOUS
<1>2. /\ Len(j) = Len(P) + Len(F)
      /\ \A i \in 1..Len(P) : j[i] = P[i]
      /\ \A i \in 1..Len(F) : j[Len(P) + i] = F[i]
  OBVIOUS
<1> HIDE DEF j
<1>3. \A i \in 1..Len(j) : \/ i \in 1..Len(P)
                           \/ i - Len(P) \in 1..Len(F) /\ Len(P) + (i - Len(P)) = i
  BY <1>1, <1>2
<1>4. \A i \in 1..Len(P) : i \in 1..Len(j)
  BY <1>1, <1>2
<1>5. \A i \in 1..Len(F) : Len(P) + i \in 1..Len(j)
  BY <1>1, <1>2
<1>6. Members(P) \subseteq Members(j)
  BY <1>2, <1>4 DEF Members
<1>7. Members(F) \subseteq Members(j)
  BY <1>2, <1>5 DEF Members
<1>8. Members(j) \subseteq Members(P) \cup Members(F)
  <2>1. ASSUME NEW i \in 1..Len(j)
        PROVE  j[i] \in Members(P) \cup Members(F)
    <3>1. CASE i \in 1..Len(P)
      BY <1>2, <3>1 DEF Members
    <3>2. CASE i - Len(P) \in 1..Len(F) /\ Len(P) + (i - Len(P)) = i
      <4>1. j[i] = F[i - Len(P)]
        BY <1>2, <3>2
      <4>2. QED
        BY <3>2, <4>1 DEF Members
    <3>3. QED
      BY <1>3, <3>1, <3>2
  <2>2. QED
    BY <2>1 DEF Members
<1>9. QED
  BY <1>6, <1>7, <1>8 DEF j

\* The last node of two lists in a row.
LEMMA JoinLast ==
    ASSUME NEW P \in Seq(Nodes), NEW F \in Seq(Nodes), Len(F) > 0
    PROVE  (P \o F)[Len(P \o F)] = F[Len(F)] /\ Len(P \o F) > 0
<1> DEFINE j == P \o F
<1>1. Len(P) \in Nat /\ Len(F) \in Nat
  OBVIOUS
<1>2. Len(j) = Len(P) + Len(F) /\ \A i \in 1..Len(F) : j[Len(P) + i] = F[i]
  OBVIOUS
<1> HIDE DEF j
<1>3. Len(F) \in 1..Len(F) /\ Len(j) > 0
  BY <1>1, <1>2
<1>4. QED
  BY <1>2, <1>3 DEF j

\* Joining two lists: the last node of one is linked to the first of the other.
LEMMA ChainJoin ==
    ASSUME NEW nx \in [Nodes -> Nodes \cup {NULL}], NEW P, NEW F, NEW h, NEW a,
           Chain(nx, P, h), Chain(nx, F, a), Len(P) > 0, Members(P) \cap Members(F) = {}
    PROVE  Chain([nx EXCEPT ![P[Len(P)]] = a], P \o F, h)
<1> DEFINE ny == [nx EXCEPT ![P[Len(P)]] = a]
<1>1. /\ P \in Seq(Nodes) /\ F \in Seq(Nodes) /\ Len(P) \in Nat /\ Len(F) \in Nat
      /\ h = P[1] /\ a = IF Len(F) = 0 THEN NULL ELSE F[1]
      /\ Len(P) \in 1..Len(P) /\ 1 \in 1..Len(P)
  BY DEF Chain
<1> DEFINE j == P \o F
<1>2. /\ j \in Seq(Nodes) /\ Len(j) = Len(P) + Len(F)
      /\ \A i \in 1..Len(P) : j[i] = P[i]
      /\ \A i \in 1..Len(F) : j[Len(P) + i] = F[i]
  BY <1>1
<1>3. \A i \in 1..Len(j) : \/ i \in 1..Len(P)
                           \/ i - Len(P) \in 1..Len(F) /\ Len(P) + (i - Len(P)) = i
  BY <1>1, <1>2
<1>4. /\ \A i \in 1..Len(P) : P[i] \in Members(P) /\ P[i] \in Nodes
      /\ \A i \in 1..Len(F) : F[i] \in Members(F) /\ F[i] \in Nodes
  BY <1>1 DEF Members
<1> HIDE DEF j
<1>6. \A i, k \in 1..Len(j) : j[i] = j[k] => i = k
  <2>1. SUFFICES ASSUME NEW i \in 1..Len(j), NEW k \in 1..Len(j), j[i] = j[k]
                 PROVE  i = k
    OBVIOUS
  <2>2. CASE i \in 1..Len(P) /\ k \in 1..Len(P)
    BY <1>2, <2>1, <2>2 DEF Chain
  <2>3. CASE i \in 1..Len(P) /\ k \notin 1..Len(P)
    <3>1. k - Len(P) \in 1..Len(F) /\ Len(P) + (k - Len(P)) = k
      BY <1>3, <2>3
    <3>2. j[k] = F[k - Len(P)] /\ j[i] = P[i]
      BY <1>2, <2>3, <3>1
    <3>3. QED
      BY <1>4, <2>1, <2>3, <3>1, <3>2
  <2>4. CASE i \notin 1..Len(P) /\ k \in 1..Len(P)
    <3>1. i - Len(P) \in 1..Len(F) /\ Len(P) + (i - Len(P)) = i
      BY <1>3, <2>4
    <3>2. j[i] = F[i - Len(P)] /\ j[k] = P[k]
      BY <1>2, <2>4, <3>1
    <3>3. QED
      BY <1>4, <2>1, <2>4, <3>1, <3>2
  <2>5. CASE i \notin 1..Len(P) /\ k \notin 1..Len(P)
    <3>1. /\ i - Len(P) \in 1..Len(F) /\ Len(P) + (i - Len(P)) = i
          /\ k - Len(P) \in 1..Len(F) /\ Len(P) + (k - Len(P)) = k
      BY <1>3, <2>5
    <3>2. j[i] = F[i - Len(P)] /\ j[k] = F[k - Len(P)]
      BY <1>2, <3>1
    <3>3. i - Len(P) = k - Len(P)
      BY <2>1, <3>1, <3>2 DEF Chain
    <3>4. QED
      BY <1>1, <3>3
  <2>6. QED
    BY <2>2, <2>3, <2>4, <2>5
<1>7. ny[P[Len(P)]] = a /\ \A m \in Nodes : m # P[Len(P)] => ny[m] = nx[m]
  BY <1>1, <1>4
<1> HIDE DEF ny
<1>8. \A i \in 1..Len(j) : ny[j[i]] = IF i = Len(j) THEN NULL ELSE j[i + 1]
  <2>1. SUFFICES ASSUME NEW i \in 1..Len(j)
                 PROVE  ny[j[i]] = IF i = Len(j) THEN NULL ELSE j[i + 1]
    OBVIOUS
  <2>2. CASE i \in 1..Len(P) /\ i # Len(P)
    <3>1. P[i] # P[Len(P)]
      BY <1>1, <2>2 DEF Chain
    <3>2. ny[j[i]] = nx[P[i]]
      BY <1>2, <1>4, <1>7, <2>2, <3>1
    <3>3. nx[P[i]] = P[i + 1]
      BY <2>2 DEF Chain
    <3>4. i + 1 \in 1..Len(P) /\ i # Len(j)
      BY <1>1, <1>2, <2>2
    <3>5. QED
      BY <1>2, <3>2, <3>3, <3>4
  <2>3. CASE i = Len(P)
    <3>1. ny[j[i]] = a
      BY <1>1, <1>2, <1>7, <2>3
    <3>2. CASE Len(F) = 0
      <4>1. i = Len(j)
        BY <1>1, <1>2, <2>3, <3>2
      <4>2. QED
        BY <1>1, <3>1, <3>2, <4>1
    <3>3. CASE Len(F) # 0
      <4>1. 1 \in 1..Len(F) /\ i # Len(j) /\ Len(P) + 1 = i + 1
        BY <1>1, <1>2, <2>3, <3>3
      <4>2. QED
        BY <1>1, <1>2, <3>1, <3>3, <4>1
    <3>4. QED
      BY <3>2, <3>3
  <2>4. CASE i \notin 1..Len(P)
    <3> DEFINE k == i - Len(P)
    <3>1. k \in 1..Len(F) /\ Len(P) + k = i
      BY <1>3, <2>4
    <3>2. j[i] = F[k]
      BY <1>2, <3>1
    <3>3. F[k] # P[Len(P)] /\ F[k] \in Nodes
      BY <1>1, <1>4, <3>1
    <3>4. ny[j[i]] = IF k = Len(F) THEN NULL ELSE F[k + 1]
      BY <1>7, <3>1, <3>2, <3>3 DEF Chain
    <3>5. k = Len(F) <=> i = Len(j)
      BY <1>1, <1>2, <3>1
    <3>6. k # Len(F) => k + 1 \in 1..Len(F) /\ Len(P) + (k + 1) = i + 1
      BY <1>1, <3>1
    <3>7. k # Len(F) => j[i + 1] = F[k + 1]
      <4> HIDE DEF k
      <4> QED BY <1>2, <3>6
    <3>8. QED
      BY <3>4, <3>5, <3>7
  <2>5. QED
    BY <2>2, <2>3, <2>4
<1>9. h = j[1] /\ Len(j) # 0
  BY <1>1, <1>2
<1>10. QED
  BY <1>2, <1>6, <1>8, <1>9 DEF Chain, j, ny

\* The list of one node.
LEMMA ChainSingle ==
    ASSUME NEW nx, NEW n \in Nodes, nx[n] = NULL
    PROVE  Chain(nx, <<n>>, n) /\ Members(<<n>>) = {n} /\ Len(<<n>>) = 1 /\ <<n>>[1] = n
<1>1. <<n>> \in Seq(Nodes) /\ Len(<<n>>) = 1 /\ <<n>>[1] = n
  OBVIOUS
<1>2. \A i \in 1..1 : i = 1
  OBVIOUS
<1> DEFINE L == <<n>>
<1>3. L \in Seq(Nodes) /\ Len(L) = 1 /\ L[1] = n
  BY <1>1
<1> HIDE DEF L
<1>4. Chain(nx, L, n)
  BY <1>2, <1>3 DEF Chain
<1>5. Members(L) = {n}
  BY <1>2, <1>3 DEF Members
<1>6. QED
  BY <1>3, <1>4, <1>5 DEF L

\* Putting a node in front of a list.
LEMMA ChainCons ==
    ASSUME NEW nx \in [Nodes -> Nodes \cup {NULL}], NEW n \in Nodes, NEW F, NEW a,
           Chain(nx, F, a), n \notin Members(F)
    PROVE  /\ Chain([nx EXCEPT ![n] = a], <<n>> \o F, n)
           /\ Members(<<n>> \o F) = Members(F) \cup {n}
<1> DEFINE ny == [nx EXCEPT ![n] = NULL]
<1> DEFINE P == <<n>>
<1>1. ny \in [Nodes -> Nodes \cup {NULL}] /\ ny[n] = NULL /\ \A m \in Nodes : m # n => ny[m] = nx[m]
  OBVIOUS
<1>2. [ny EXCEPT ![n] = a] = [nx EXCEPT ![n] = a]
  OBVIOUS
<1> HIDE DEF ny
<1>3. Chain(ny, P, n) /\ Members(P) = {n} /\ Len(P) = 1 /\ P[1] = n
  BY <1>1, ChainSingle
<1> HIDE DEF P
<1>4. Members(F) \subseteq Nodes
  BY ChainNull
<1>5. Chain(ny, F, a)
  BY <1>1, <1>4, ChainFrame
<1>6. Members(P) \cap Members(F) = {} /\ Len(P) > 0 /\ P[Len(P)] = n
  BY <1>3
<1>7. Chain([ny EXCEPT ![P[Len(P)]] = a], P \o F, n)
  BY <1>1, <1>3, <1>5, <1>6, ChainJoin
<1>8. Members(P \o F) = Members(P) \cup Members(F)
  <2>1. P \in Seq(Nodes) /\ F \in Seq(Nodes)
    BY <1>3 DEF Chain
  <2>2. QED
    BY <2>1, JoinMembers
<1>9. QED
  BY <1>2, <1>3, <1>6, <1>7, <1>8 DEF P

\* Putting a node behind a list.
LEMMA ChainAppend ==
    ASSUME NEW nx \in [Nodes -> Nodes \cup {NULL}], NEW n \in Nodes, NEW P, NEW h,
           Chain(nx, P, h), Len(P) > 0, n \notin Members(P)
    PROVE  /\ Chain([nx EXCEPT ![n] = NULL, ![P[Len(P)]] = n], P \o <<n>>, h)
           /\ Members(P \o <<n>>) = Members(P) \cup {n}
           /\ Len(P \o <<n>>) > 0 /\ (P \o <<n>>)[Len(P \o <<n>>)] = n
<1> DEFINE ny == [nx EXCEPT ![n] = NULL]
<1> DEFINE F == <<n>>
<1>1. ny \in [Nodes -> Nodes \cup {NULL}] /\ ny[n] = NULL /\ \A m \in Nodes : m # n => ny[m] = nx[m]
  OBVIOUS
<1>2. [ny EXCEPT ![P[Len(P)]] = n] = [nx EXCEPT ![n] = NULL, ![P[Len(P)]] = n]
  OBVIOUS
<1> HIDE DEF ny
<1>3. Chain(ny, F, n) /\ Members(F) = {n} /\ Len(F) = 1 /\ F[1] = n
  BY <1>1, ChainSingle
<1> HIDE DEF F
<1>4. Members(P) \subseteq Nodes
  BY ChainNull
<1>5. Chain(ny, P, h)
  BY <1>1, <1>4, ChainFrame
<1>6. Members(P) \cap Members(F) = {}
  BY <1>3
<1>7. Chain([ny EXCEPT ![P[Len(P)]] = n], P \o F, h)
  BY <1>1, <1>3, <1>5, <1>6, ChainJoin
<1>8. P \in Seq(Nodes) /\ F \in Seq(Nodes) /\ Len(P) \in Nat
  BY <1>3 DEF Chain
<1>9. Members(P \o F) = Members(P) \cup Members(F)
  BY <1>8, JoinMembers
<1>10. Len(P \o F) > 0 /\ (P \o F)[Len(P \o F)] = n
  <2>1. Len(F) > 0 /\ F[Len(F)] = n
    BY <1>3
  <2>2. (P \o F)[Len(P \o F)] = F[Len(F)] /\ Len(P \o F) > 0
    BY <1>8, <2>1, JoinLast
  <2>3. QED
    BY <2>1, <2>2
<1>11. QED
  BY <1>2, <1>3, <1>7, <1>9, <1>10 DEF F

----------------------------------------------------------------------------
(* ChainFrom follows a list to its end.                                    *)

\* One more step of the walk that ChainFrom takes; w is the walk of one step less.
WalkStep(w, m) ==
    [n \in 0..m |->
        [p \in Nodes \cup {NULL} |->
            IF p = NULL \/ n = 0 THEN << >> ELSE <<p>> \o w[n - 1][next[p]]]]

\* w is the walk of at most m steps.
IsWalk(w, m) == w = WalkStep(w, m)

\* There is a walk of any length: a least length without one would be one more than a
\* length with one.
LEMMA WalkExists ==
    ASSUME QueueTypes, NEW m \in Nat
    PROVE  \E w : IsWalk(w, m)
<1> DEFINE bad == {k \in Nat : ~\E w : IsWalk(w, k)}
<1>1. SUFFICES ASSUME bad # {} PROVE FALSE
  OBVIOUS
<1>2. PICK k \in bad : \A j \in bad : k <= j
  <2>1. bad \in SUBSET Nat
    OBVIOUS
  <2> HIDE DEF bad
  <2>2. QED
    BY <1>1, <2>1, LeastNatural
<1>3. k \in Nat /\ ~\E w : IsWalk(w, k)
  BY <1>2
<1>4. next \in [Nodes -> Nodes \cup {NULL}]
  BY DEF QueueTypes
<1>5. CASE k = 0
  <2> DEFINE w == [n \in 0..0 |-> [p \in Nodes \cup {NULL} |-> << >>]]
  <2>1. IsWalk(w, 0)
    BY DEF IsWalk, WalkStep
  <2>2. QED
    BY <1>3, <1>5, <2>1
<1>6. CASE k # 0
  <2>1. k - 1 \in Nat /\ k - 1 \notin bad
    BY <1>2, <1>3, <1>6
  <2>2. PICK v : IsWalk(v, k - 1)
    BY <2>1
  <2> DEFINE w == WalkStep(v, k)
  <2>3. ASSUME NEW n \in 0..(k - 1), NEW p \in Nodes \cup {NULL}
        PROVE  w[n][p] = v[n][p]
    <3>1. n \in 0..k
      BY <1>3
    <3>2. w[n][p] = IF p = NULL \/ n = 0 THEN << >> ELSE <<p>> \o v[n - 1][next[p]]
      BY <3>1 DEF WalkStep
    <3>3. v[n][p] = WalkStep(v, k - 1)[n][p]
      BY <2>2 DEF IsWalk
    <3>4. WalkStep(v, k - 1)[n][p]
             = IF p = NULL \/ n = 0 THEN << >> ELSE <<p>> \o v[n - 1][next[p]]
      BY DEF WalkStep
    <3>5. QED
      BY <3>2, <3>3, <3>4
  <2>4. ASSUME NEW n \in 0..k, NEW p \in Nodes, n # 0
        PROVE  w[n - 1][next[p]] = v[n - 1][next[p]]
    <3>1. n - 1 \in 0..(k - 1) /\ next[p] \in Nodes \cup {NULL}
      BY <1>3, <1>4, <2>4
    <3> HIDE DEF w
    <3>2. QED
      BY <2>3, <3>1
  <2>5. WalkStep(w, k) = WalkStep(v, k)
    <3> HIDE DEF w
    <3>1. QED
      BY <2>4 DEF WalkStep
  <2>6. IsWalk(w, k)
    BY <2>5 DEF IsWalk
  <2>7. QED
    BY <1>3, <2>6
<1>7. QED
  BY <1>5, <1>6

\* ChainFrom is the walk of as many steps as there are nodes.
LEMMA ChainFromIsWalk ==
    ASSUME QueueTypes
    PROVE  \E w : /\ IsWalk(w, Cardinality(Nodes))
                  /\ \A h : ChainFrom(h) = w[Cardinality(Nodes)][h]
<1> DEFINE w == CHOOSE w : IsWalk(w, Cardinality(Nodes))
<1>1. Cardinality(Nodes) \in Nat
  BY PoolOrderFacts
<1>2. IsWalk(w, Cardinality(Nodes))
  BY <1>1, WalkExists
<1>3. \A h : ChainFrom(h) = w[Cardinality(Nodes)][h]
  BY DEF ChainFrom, IsWalk, WalkStep
<1>4. QED
  BY <1>2, <1>3

\* A list has no more nodes than there are.
LEMMA ChainIsShort ==
    ASSUME NEW nx, NEW L, NEW h, Chain(nx, L, h)
    PROVE  Len(L) <= Cardinality(Nodes)
<1>1. L \in Seq(Nodes) /\ Len(L) \in Nat /\ \A i, j \in 1..Len(L) : L[i] = L[j] => i = j
  BY DEF Chain
<1> DEFINE D == 1..Len(L)
<1>2. L \in [D -> Nodes] /\ \A i, j \in D : L[i] = L[j] => i = j
  BY <1>1
<1>3. IsFiniteSet(D) /\ Cardinality(D) = Len(L)
  <2>1. IsFiniteSet(D) /\ Cardinality(D) = IF 1 > Len(L) THEN 0 ELSE Len(L) - 1 + 1
    BY <1>1, FS_Interval
  <2>2. QED
    BY <1>1, <2>1
<1> HIDE DEF D
<1>4. IsFiniteSet(Nodes) /\ Cardinality(Nodes) \in Nat
  BY SignalAssumption, FS_CardinalityType
<1>5. L \in Injection(D, Nodes)
  BY <1>2 DEF Injection, IsInjective
<1>6. QED
  BY <1>3, <1>4, <1>5, FS_Injection

\* A walk of enough steps follows a list to its end.
LEMMA WalkFollows ==
    ASSUME QueueTypes, NEW w, NEW N \in Nat, IsWalk(w, N), NEW m \in 0..N
    PROVE  \A L \in Seq(Nodes), h \in Nodes \cup {NULL} :
              Chain(next, L, h) /\ Len(L) <= m => w[m][h] = L
<1> DEFINE Follows(k) == \A L \in Seq(Nodes), h \in Nodes \cup {NULL} :
                            Chain(next, L, h) /\ Len(L) <= k => w[k][h] = L
<1> DEFINE bad == {k \in 0..N : ~Follows(k)}
<1>1. SUFFICES ASSUME bad # {} PROVE FALSE
  OBVIOUS
<1>2. PICK k \in bad : \A j \in bad : k <= j
  <2>1. bad \in SUBSET Nat
    OBVIOUS
  <2> HIDE DEF bad
  <2>2. QED
    BY <1>1, <2>1, LeastNatural
<1>3. k \in 0..N /\ ~Follows(k)
  BY <1>2
<1>4. PICK L \in Seq(Nodes), h \in Nodes \cup {NULL} :
         Chain(next, L, h) /\ Len(L) <= k /\ w[k][h] # L
  BY <1>3
<1>5. w[k][h] = IF h = NULL \/ k = 0 THEN << >> ELSE <<h>> \o w[k - 1][next[h]]
  <2>1. w[k] = WalkStep(w, N)[k]
    BY DEF IsWalk
  <2>2. WalkStep(w, N)[k] = [p \in Nodes \cup {NULL} |->
            IF p = NULL \/ k = 0 THEN << >> ELSE <<p>> \o w[k - 1][next[p]]]
    BY <1>3 DEF WalkStep
  <2>3. QED
    BY <2>1, <2>2
<1>6. Len(L) \in Nat /\ k \in Nat
  BY <1>3
<1>7. CASE h = NULL \/ k = 0
  <2>1. L = << >>
    <3>1. CASE h = NULL
      BY <1>4, <3>1, ChainNull
    <3>2. CASE k = 0
      BY <1>4, <1>6, <3>2
    <3>3. QED
      BY <1>7, <3>1, <3>2
  <2>2. QED
    BY <1>4, <1>5, <1>7, <2>1
<1>8. CASE h # NULL /\ k # 0
  <2>1. /\ Chain(next, Tail(L), next[h]) /\ Len(Tail(L)) = Len(L) - 1
    BY <1>4, <1>8, ChainTail
  <2>2. Len(L) > 0 /\ h = L[1] /\ h \in Nodes
    BY <1>4, <1>8, ChainNull
  <2>3. next[h] \in Nodes \cup {NULL} /\ Tail(L) \in Seq(Nodes)
    BY <2>2 DEF QueueTypes
  <2>4. k - 1 \in 0..N /\ k - 1 \notin bad
    BY <1>2, <1>3, <1>6, <1>8
  <2>5. Follows(k - 1)
    BY <2>4
  <2>6. Len(Tail(L)) <= k - 1
    BY <1>4, <1>6, <2>1
  <2>7. w[k - 1][next[h]] = Tail(L)
    BY <2>1, <2>3, <2>5, <2>6
  <2>8. w[k][h] = <<h>> \o Tail(L)
    BY <1>5, <1>8, <2>7
  <2>9. L = <<h>> \o Tail(L)
    BY <1>4, <2>2
  <2>10. QED
    BY <1>4, <2>8, <2>9
<1>9. QED
  BY <1>7, <1>8

\* ChainFrom computes the list.
LEMMA ChainFromFollows ==
    ASSUME QueueTypes, NEW L, NEW h \in Nodes \cup {NULL}, Chain(next, L, h)
    PROVE  ChainFrom(h) = L
<1> DEFINE N == Cardinality(Nodes)
<1>1. PICK w : IsWalk(w, N) /\ ChainFrom(h) = w[N][h]
  BY ChainFromIsWalk
<1>2. N \in Nat
  BY PoolOrderFacts
<1>3. Len(L) <= N
  BY ChainIsShort
<1> HIDE DEF N
<1>4. N \in 0..N
  BY <1>2
<1>5. L \in Seq(Nodes)
  BY DEF Chain
<1>6. w[N][h] = L
  BY <1>1, <1>2, <1>3, <1>4, <1>5, WalkFollows
<1>7. QED
  BY <1>1, <1>6

----------------------------------------------------------------------------
(* The pool.                                                               *)

\* The list that a running drain loop has detached.
Detached == IF Len(stack) = 1 THEN NULL ELSE stack[1].queue

\* P is the pending list, F the free one and D the detached one: they have all the
\* nodes and share none. While something is pending, ptail is the end of it.
PoolLists(P, F, D) ==
    /\ Chain(next, P, phead) /\ Chain(next, F, pavail) /\ Chain(next, D, Detached)
    /\ \A n \in Members(P) : n \notin Members(F) /\ n \notin Members(D)
    /\ \A n \in Members(F) : n \notin Members(D)
    /\ \A n \in Nodes : n \in Members(P) \/ n \in Members(F) \/ n \in Members(D)
    /\ phead # NULL => ptail = P[Len(P)]

\* The inductive invariant of the pool.
PoolInvariant == \E P, F, D \in Seq(Nodes) : PoolLists(P, F, D)

\* Only a drain loop, of a request, has detached a list.
LEMMA DetachedByDrain ==
    SignalInvariant /\ Detached # NULL => active = 1 /\ running = 1 /\ Len(stack) = 2 /\ depth = 0
<1> SUFFICES ASSUME SignalInvariant, Detached # NULL
             PROVE  active = 1 /\ running = 1 /\ Len(stack) = 2 /\ depth = 0
  OBVIOUS
<1>1. StackShape /\ HandlerFrames /\ FlagTypes
  BY DEF SignalInvariant
<1>2. Len(stack) \in Nat \ {0} /\ (Len(stack) = 1 \/ Len(stack) > 1)
  BY <1>1, TopFrame
<1>3. Len(stack) > 1 /\ stack[1].queue # NULL
  BY <1>2 DEF Detached
<1>4. 1 \in 1..(Len(stack) - 1)
  BY <1>2, <1>3
<1>5. active = 1
  BY <1>1, <1>3, <1>4 DEF HandlerFrames, FlagTypes
<1>6. QED
  BY <1>1, <1>3, <1>5 DEF HandlerFrames

\* The detached list is that of the frame at the top, for a handler.
LEMMA DetachedOfTop ==
    ASSUME StackShape, Top.pc \in HandlerPCs
    PROVE  Detached = Top.queue
<1>1. Len(stack) # 1 /\ Top = stack[1]
  BY TopFrame
<1>2. QED
  BY <1>1 DEF Detached

\* The length of a stack with one more frame.
LEMMA ConsLength ==
    ASSUME NEW S, NEW t \in Seq(S), NEW g
    PROVE  Len(<<g>> \o t) = 1 + Len(t)
<1> DEFINE T == S \cup {g}
<1>1. t \in Seq(T) /\ <<g>> \in Seq(T) /\ Len(<<g>>) = 1
  OBVIOUS
<1> HIDE DEF T
<1>2. QED
  BY <1>1

\* Only Detach and Recycle change what is detached.
LEMMA DetachedStep ==
    ASSUME SignalInvariant, SignalInvariant', Next, ~Detach, ~Recycle
    PROVE  Detached' = Detached
<1>1. StackShape /\ HandlerFrames /\ StackShape'
  BY DEF SignalInvariant
<1>2. CASE stack' = stack
  BY <1>2 DEF Detached
<1>3. CASE Detached = NULL /\ Detached' = NULL
  BY <1>3
<1>4. /\ Top = stack[1] /\ Top \in Frame /\ Len(stack) \in Nat \ {0}
      /\ Len(stack) = 1 \/ Len(stack) > 1
      /\ Top.pc \in MainPCs => Len(stack) = 1
      /\ Top.pc \in HandlerPCs => Len(stack) > 1
  BY <1>1, TopFrame
<1>5. CASE active' = 0 \/ Len(stack') = 1
  <2>1. Detached' = NULL
    <3>1. Detached' # NULL => active' = 1 /\ Len(stack') = 2
      <4>1. (SignalInvariant /\ Detached # NULL =>
               active = 1 /\ running = 1 /\ Len(stack) = 2 /\ depth = 0)'
        BY DetachedByDrain, PTL
      <4>2. QED
        BY <4>1
    <3>2. QED
      BY <1>5, <3>1
  <2>2. CASE Detached # NULL
    <3>1. active = 1 /\ running = 1 /\ Len(stack) = 2 /\ depth = 0
      BY <2>2, DetachedByDrain
    <3>2. Top.pc \in HandlerPCs
      BY <1>1, <1>4, <3>1 DEF StackShape
    <3>3. ~DrainDone
      <4>1. Detached = Top.queue
        BY <1>1, <3>2, DetachedOfTop
      <4>2. 1 \in 1..(Len(stack) - 1)
        BY <3>1
      <4>3. Top.pc # "return"
        BY <1>1, <1>4, <3>1, <4>2 DEF HandlerFrames
      <4>4. QED
        BY <2>2, <4>1, <4>3 DEF DrainDone, At
    <3>4. Top.pc \notin MainPCs
      BY <3>1, <1>4
    <3>5. HandlerStep \/ HandlerRearm \/ \E s \in Sigs : Raise(s) \/ Deliver(s)
      BY <3>4 DEF Next, Block, Unblock, UnblockEarlyRead, UnblockDecrement, UnblockCompare,
         UnblockEnter, UnblockPop, Sigaction, zend_signal_activate, zend_signal_deactivate,
         DeactivateReset, At, MainPCs
    <3>6. active' = 1
      BY <3>1, <3>3, <3>5 DEF HandlerStep, HandlerRearm, zend_signal_handler, HandlerReturn,
         Detach, DrainNext, Recycle, Raise, Deliver, zend_signal_handler_defer, HandleNow, sigg
    <3>7. Len(stack') = 1
      BY <1>5, <3>6
    <3>8. CASE \E s \in Sigs : Raise(s) \/ Deliver(s)
      <4>1. stack' = stack
        BY <3>1, <3>8 DEF Raise, Deliver, zend_signal_handler_defer, HandleNow
      <4>2. QED
        BY <1>2, <4>1
    <3>9. CASE HandlerStep \/ HandlerRearm
      <4>1. stack' = stack \/ \E g : stack' = <<g>> \o Tail(stack)
        BY <3>3, <3>9 DEF HandlerStep, HandlerRearm, zend_signal_handler, HandlerReturn, Goto,
           DrainNext, Recycle, Detach
      <4>2. stack \in Seq(Frame) /\ Len(stack) = 2
        BY <1>1, <3>1 DEF StackShape
      <4>3. Tail(stack) \in Seq(Frame) /\ Len(Tail(stack)) = 1
        BY <4>2
      <4>4. ASSUME NEW g, stack' = <<g>> \o Tail(stack)
            PROVE  FALSE
        <5>1. Len(<<g>> \o Tail(stack)) = 2
          BY <4>3, ConsLength
        <5>2. QED
          BY <3>7, <4>4, <5>1
      <4>5. QED
        BY <1>2, <4>1, <4>4
    <3>10. QED
      BY <3>5, <3>8, <3>9
  <2>3. QED
    BY <2>1, <2>2
<1>6. CASE active' # 0 /\ Len(stack') # 1
  <2>1. CASE \E s \in Sigs : Deliver(s)
    <3>1. PICK s \in Sigs : Deliver(s)
      BY <2>1
    <3>2. active' = active
      BY <3>1 DEF Deliver, zend_signal_handler_defer, HandleNow, sigg
    <3>3. CASE \E t \in Sigs, a \in {"detach", "return"}, m \in SUBSET Sigs :
                  running = 0 /\ stack' = <<Enter(t, a, m)>> \o stack
      <4>1. PICK t \in Sigs, a \in {"detach", "return"}, m \in SUBSET Sigs :
               stack' = <<Enter(t, a, m)>> \o stack
        BY <3>3
      <4>2. Enter(t, a, m) \in Frame /\ Enter(t, a, m).queue = NULL /\ Enter(t, a, m).pc = "call"
        BY EnteredFrame
      <4>3. stack'[1] = Enter(t, a, m)
        BY <1>1, <4>1, <4>2, StackPushed
      <4>4. Detached' = NULL
        BY <1>6, <4>2, <4>3 DEF Detached
      <4>5. Detached = NULL
        BY <3>3, DetachedByDrain
      <4>6. QED
        BY <4>4, <4>5
    <3>4. CASE active = 1
      BY <1>2, <3>1, <3>3, <3>4 DEF Deliver, zend_signal_handler_defer, HandleNow,
         SignalInvariant, KernelTypes, FlagTypes
    <3>5. CASE active # 1
      BY <1>6, <3>2, <3>5 DEF SignalInvariant, FlagTypes
    <3>6. QED
      BY <3>4, <3>5
  <2>2. CASE zend_signal_handler \/ HandlerReturn
    <3>1. Top.pc \in HandlerPCs /\ Top.after \in HandlerPCs
      BY <1>4, <2>2, FrameFields DEF zend_signal_handler, HandlerReturn, At, HandlerPCs
    <3>2. CASE \E label \in HandlerPCs : Goto(label)
      <4>1. PICK label \in HandlerPCs : Goto(label)
        BY <3>2
      <4> DEFINE g == [Top EXCEPT !.pc = label]
      <4>2. g \in Frame /\ g.pc = label /\ g.queue = Top.queue
        BY <1>4, FrameMoves
      <4>3. stack' = <<g>> \o Tail(stack)
        BY <4>1 DEF Goto
      <4> HIDE DEF g
      <4>4. stack'[1] = g
        BY <1>1, <4>2, <4>3, StackReplaced
      <4>5. QED
        BY <1>1, <1>6, <3>1, <4>2, <4>4, DetachedOfTop DEF Detached
    <3>3. QED
      BY <1>2, <2>2, <3>1, <3>2 DEF zend_signal_handler, HandlerReturn, HandlerPCs
  <2>3. CASE DrainNext
    <3> DEFINE g == [Top EXCEPT !.pc = "call", !.sig = qsig[Top.queue], !.after = "recycle"]
    <3>1. Top.queue \in Nodes
      BY <1>4, <2>3, FrameFields DEF DrainNext
    <3>2. qsig[Top.queue] \in Sigs \cup {NULL}
      BY <3>1 DEF SignalInvariant, QueueTypes
    <3>3. g \in Frame /\ g.queue = Top.queue
      BY <1>4, <3>2 DEF Frame
    <3>4. stack' = <<g>> \o Tail(stack) /\ Top.pc = "drain"
      BY <2>3 DEF DrainNext, At
    <3> HIDE DEF g
    <3>5. stack'[1] = g
      BY <1>1, <3>3, <3>4, StackReplaced
    <3>6. QED
      BY <1>4, <1>6, <3>3, <3>4, <3>5 DEF Detached, HandlerPCs
  <2>4. CASE DrainDone
    <3>1. Top.pc \in HandlerPCs /\ active' = active
      BY <2>4 DEF DrainDone, At, HandlerPCs
    <3>2. Len(stack') = Len(stack) - 1
      BY <1>1, <1>4, <2>4, <3>1, HandlerLeaves DEF DrainDone
    <3>3. active = 1
      BY <1>6, <3>1 DEF SignalInvariant, FlagTypes
    <3>4. Len(stack) = 2
      BY <1>1, <1>4, <3>1, <3>3 DEF HandlerFrames
    <3>5. QED
      BY <1>6, <3>2, <3>4
  <2>5. CASE Top.pc \in MainPCs /\ ~\E s \in Sigs : Raise(s) \/ Deliver(s)
    <3>1. Detached = NULL
      BY <1>4, <2>5 DEF Detached
    <3>2. CASE UnblockPop
      <4>1. CASE stack' = stack
        BY <1>2, <4>1
      <4>2. CASE phead # NULL /\ HandleNow(qsig[phead], <<MainFrame>>, Top.saved)
        <5> DEFINE g == Enter(qsig[phead], "detach", Top.saved)
        <5>1. running = 0
          BY <1>1, <1>4, <2>5 DEF HandlerFrames, SignalInvariant, FlagTypes
        <5>2. stack' = <<g>> \o <<MainFrame>>
          BY <4>2, <5>1 DEF HandleNow
        <5>3. g.queue = NULL
          BY DEF Enter
        <5> HIDE DEF g
        <5>4. stack'[1] = g
          BY <5>2
        <5>5. QED
          BY <1>6, <3>1, <5>3, <5>4 DEF Detached
      <4>3. QED
        BY <3>2, <4>1, <4>2 DEF UnblockPop
    <3>3. CASE \E g : stack' = <<g>> \/ stack' = <<g>> \o Tail(stack)
      <4>1. PICK g : stack' = <<g>> \/ stack' = <<g>> \o Tail(stack)
        BY <3>3
      <4>2. stack \in Seq(Frame) /\ Len(stack) = 1
        BY <1>1, <1>4, <2>5 DEF StackShape
      <4>3. Tail(stack) \in Seq(Frame) /\ Len(Tail(stack)) = 0
        BY <4>2
      <4>4. Len(stack') = 1
        <5>1. Len(<<g>> \o Tail(stack)) = 1 /\ Len(<<g>>) = 1
          BY <4>3, ConsLength
        <5>2. QED
          BY <4>1, <5>1
      <4>5. QED
        BY <1>6, <4>4
    <3>4. QED
      BY <1>2, <2>5, <3>2, <3>3 DEF Next, HandlerStep, HandlerRearm, zend_signal_handler,
         HandlerReturn, Detach, DrainNext, Recycle, DrainDone, Block, Unblock, UnblockEarlyRead,
         UnblockDecrement, UnblockCompare, UnblockEnter, Sigaction, zend_signal_activate,
         zend_signal_deactivate, DeactivateReset, At, MainPCs, Goto
  <2>6. QED
    BY <1>2, <2>1, <2>2, <2>3, <2>4, <2>5 DEF Next, HandlerStep, HandlerRearm, Raise, Block,
       Unblock, UnblockEarlyRead, UnblockDecrement, UnblockCompare, UnblockEnter, UnblockPop,
       Sigaction, zend_signal_activate, zend_signal_deactivate, DeactivateReset, At, MainPCs
<1>7. QED
  BY <1>5, <1>6

\* A signal is put off: a node goes from the free list to the end of the pending one.
LEMMA EnqueueKeepsPool ==
    ASSUME SignalInvariant, PoolInvariant, NEW s \in Sigs, Enqueue(s), Detached' = Detached
    PROVE  PoolInvariant'
<1> USE SignalAssumption
<1>1. PICK P, F, D \in Seq(Nodes) : PoolLists(P, F, D)
  BY DEF PoolInvariant
<1> DEFINE n == pavail
<1>2. next \in [Nodes -> Nodes \cup {NULL}] /\ (phead # NULL => ptail # NULL)
  BY DEF SignalInvariant, QueueTypes, MainFrameState
<1>3. /\ Chain(next, P, phead) /\ Chain(next, F, n) /\ Chain(next, D, Detached)
  BY <1>1 DEF PoolLists
<1>4. CASE n = NULL
  <2>1. UNCHANGED <<phead, ptail, pavail, next>>
    BY <1>4 DEF Enqueue, queue
  <2>2. PoolLists(P, F, D)'
    BY <1>1, <2>1 DEF PoolLists, Chain
  <2>3. QED
    BY <2>2 DEF PoolInvariant
<1>5. CASE n # NULL
  <2> DEFINE F2 == Tail(F)
  <2>1. n \in Nodes /\ n \in Members(F) /\ Members(F) \subseteq Nodes
    BY <1>3, <1>5, ChainNull
  <2>2. /\ Members(P) \subseteq Nodes /\ Members(D) \subseteq Nodes
        /\ n \notin Members(P) /\ n \notin Members(D)
    BY <1>1, <1>3, <2>1, ChainNull DEF PoolLists
  <2>3. Chain(next, F2, next[n]) /\ Members(F2) = Members(F) \ {n}
    BY <1>3, <1>5, ChainTail
  <2> HIDE DEF F2
  <2>4. pavail' = next[n] /\ ptail' = n
    BY <1>5 DEF Enqueue
  <2>5. \E P2 \in Seq(Nodes) :
           /\ Chain(next', P2, phead') /\ Members(P2) = Members(P) \cup {n}
           /\ Len(P2) > 0 /\ P2[Len(P2)] = n
           /\ \A m \in Nodes : m \notin Members(P) /\ m # n => next'[m] = next[m]
    <3>1. CASE phead # NULL
      <4> DEFINE P2 == P \o <<n>>
      <4>1. Len(P) > 0 /\ ptail = P[Len(P)] /\ ptail \in Members(P)
        <5>1. Len(P) > 0 /\ P \in Seq(Nodes)
          BY <1>1, <1>3, <3>1, ChainNull
        <5>2. Len(P) \in 1..Len(P)
          BY <5>1
        <5>3. QED
          BY <1>1, <3>1, <5>1, <5>2 DEF PoolLists, Members
      <4>2. next' = [next EXCEPT ![n] = NULL, ![P[Len(P)]] = n] /\ phead' = phead
        BY <1>2, <1>5, <3>1, <4>1 DEF Enqueue
      <4>3. /\ Chain(next', P2, phead) /\ Members(P2) = Members(P) \cup {n}
            /\ Len(P2) > 0 /\ P2[Len(P2)] = n
        BY <1>2, <1>3, <2>1, <2>2, <4>1, <4>2, ChainAppend
      <4> HIDE DEF P2
      <4>4. P2 \in Seq(Nodes)
        BY <4>3 DEF Chain
      <4>5. \A m \in Nodes : m \notin Members(P) /\ m # n => next'[m] = next[m]
        BY <1>2, <4>1, <4>2
      <4>6. QED
        BY <4>2, <4>3, <4>4, <4>5
    <3>2. CASE phead = NULL
      <4> DEFINE P2 == <<n>>
      <4>1. next' = [next EXCEPT ![n] = NULL] /\ phead' = n
        BY <1>5, <3>2 DEF Enqueue
      <4>2. Members(P) = {}
        BY <1>3, <3>2, ChainNull
      <4>3. next'[n] = NULL /\ \A m \in Nodes : m # n => next'[m] = next[m]
        BY <1>2, <2>1, <4>1
      <4>4. Chain(next', P2, n) /\ Members(P2) = {n} /\ Len(P2) = 1 /\ P2[1] = n
        BY <2>1, <4>3, ChainSingle
      <4> HIDE DEF P2
      <4>5. P2 \in Seq(Nodes)
        BY <4>4 DEF Chain
      <4>6. Chain(next', P2, phead') /\ Members(P2) = Members(P) \cup {n}
        BY <4>1, <4>2, <4>4
      <4>7. Len(P2) > 0 /\ P2[Len(P2)] = n
        BY <4>4
      <4>8. \A m \in Nodes : m \notin Members(P) /\ m # n => next'[m] = next[m]
        BY <4>3
      <4> HIDE DEF n
      <4>9. QED
        BY <4>5, <4>6, <4>7, <4>8
    <3>3. QED
      BY <3>1, <3>2
  <2>6. PICK P2 \in Seq(Nodes) :
           /\ Chain(next', P2, phead') /\ Members(P2) = Members(P) \cup {n}
           /\ Len(P2) > 0 /\ P2[Len(P2)] = n
           /\ \A m \in Nodes : m \notin Members(P) /\ m # n => next'[m] = next[m]
    BY <2>5
  <2>7. Chain(next', F2, pavail') /\ Chain(next', D, Detached')
    <3>1. \A m \in Members(F2) : next'[m] = next[m]
      BY <1>1, <2>1, <2>3, <2>6 DEF PoolLists
    <3>2. \A m \in Members(D) : next'[m] = next[m]
      BY <1>1, <2>2, <2>6 DEF PoolLists
    <3>3. Chain(next', F2, next[n])
      BY <2>3, <3>1, ChainFrame
    <3>4. Chain(next', D, Detached)
      BY <1>3, <3>2, ChainFrame
    <3>5. QED
      BY <2>4, <3>3, <3>4
  <2>8. /\ \A m \in Members(P2) : m \notin Members(F2) /\ m \notin Members(D)
        /\ \A m \in Members(F2) : m \notin Members(D)
        /\ \A m \in Nodes : m \in Members(P2) \/ m \in Members(F2) \/ m \in Members(D)
    BY <1>1, <2>2, <2>3, <2>6 DEF PoolLists
  <2>9. F2 \in Seq(Nodes)
    BY <2>3 DEF Chain
  <2>10. PoolLists(P2, F2, D)'
    BY <2>4, <2>6, <2>7, <2>8 DEF PoolLists
  <2>11. QED
    BY <2>6, <2>9, <2>10 DEF PoolInvariant
<1>6. QED
  BY <1>4, <1>5

\* The drain loop detaches the whole pending list, having none yet.
LEMMA DetachKeepsPool ==
    ASSUME SignalInvariant, PoolInvariant, Detach
    PROVE  PoolInvariant'
<1>1. PICK P, F, D \in Seq(Nodes) : PoolLists(P, F, D)
  BY DEF PoolInvariant
<1>2. StackShape /\ HandlerFrames /\ QueueTypes
  BY DEF SignalInvariant
<1>3. Top.pc = "detach" /\ Top.pc \in HandlerPCs
  BY DEF Detach, At, HandlerPCs
<1>4. /\ Top = stack[1] /\ Top \in Frame /\ Len(stack) > 1 /\ Len(stack) # 1
      /\ Len(stack) \in Nat \ {0}
  BY <1>2, <1>3, TopFrame
<1>5. Detached = NULL
  <2>1. 1 \in 1..(Len(stack) - 1)
    BY <1>4
  <2>2. Top.queue = NULL
    BY <1>2, <1>3, <1>4, <2>1 DEF HandlerFrames
  <2>3. QED
    BY <1>2, <1>3, <2>2, DetachedOfTop
<1>6. Detached' = phead
  <2> DEFINE g == [Top EXCEPT !.queue = phead, !.pc = "drain"]
  <2>1. g \in Frame /\ g.queue = phead
    BY <1>2, <1>4 DEF QueueTypes, Frame
  <2>2. stack' = <<g>> \o Tail(stack)
    BY DEF Detach
  <2> HIDE DEF g
  <2>3. Len(stack') = Len(stack) /\ stack'[1] = g
    BY <1>2, <2>1, <2>2, StackReplaced
  <2>4. QED
    BY <1>4, <2>1, <2>3 DEF Detached
<1>7. phead' = NULL /\ UNCHANGED <<next, pavail>>
  BY DEF Detach
<1>8. Chain(next, P, phead) /\ Chain(next, F, pavail) /\ Members(D) = {}
  BY <1>1, <1>5, ChainNull DEF PoolLists
<1>9. Chain(next, << >>, NULL) /\ Members(<< >>) = {}
  BY ChainEmpty
<1>10. /\ \A n \in Members(P) : n \notin Members(F)
       /\ \A n \in Nodes : n \in Members(P) \/ n \in Members(F)
  BY <1>1, <1>8 DEF PoolLists
<1>11. << >> \in Seq(Nodes)
  OBVIOUS
<1> DEFINE E == << >>
<1>12. Chain(next, E, NULL) /\ Members(E) = {} /\ E \in Seq(Nodes)
  BY <1>9, <1>11
<1> HIDE DEF E
<1>13. PoolLists(E, F, P)'
  BY <1>6, <1>7, <1>8, <1>10, <1>12 DEF PoolLists
<1>14. QED
  BY <1>1, <1>12, <1>13 DEF PoolInvariant

\* A drained node is free again.
LEMMA RecycleKeepsPool ==
    ASSUME SignalInvariant, PoolInvariant, Recycle
    PROVE  PoolInvariant'
<1> USE SignalAssumption
<1>1. PICK P, F, D \in Seq(Nodes) : PoolLists(P, F, D)
  BY DEF PoolInvariant
<1>2. StackShape /\ QueueTypes /\ next \in [Nodes -> Nodes \cup {NULL}]
  BY DEF SignalInvariant, QueueTypes
<1> DEFINE n == Top.queue
<1>3. n \in Nodes /\ Top.pc \in HandlerPCs
  BY RecycleIsOfNode DEF Recycle, At, HandlerPCs
<1>4. Top = stack[1] /\ Top \in Frame /\ Len(stack) # 1 /\ Detached = n
  BY <1>2, <1>3, TopFrame, DetachedOfTop
<1>5. n # NULL /\ next[n] \in Nodes \cup {NULL}
  BY <1>2, <1>3
<1>6. Detached' = next[n]
  <2> DEFINE g == [Top EXCEPT !.pc = "drain", !.queue = next[n]]
  <2>1. g \in Frame /\ g.queue = next[n]
    BY <1>4, <1>5 DEF Frame
  <2>2. stack' = <<g>> \o Tail(stack)
    BY DEF Recycle
  <2> HIDE DEF g
  <2>3. Len(stack') = Len(stack) /\ stack'[1] = g
    BY <1>2, <2>1, <2>2, StackReplaced
  <2>4. QED
    BY <1>4, <2>1, <2>3 DEF Detached
<1>7. next' = [next EXCEPT ![n] = pavail] /\ pavail' = n /\ UNCHANGED <<phead, ptail>>
  BY DEF Recycle
<1> HIDE DEF n
<1>8. Chain(next, P, phead) /\ Chain(next, F, pavail) /\ Chain(next, D, n)
  BY <1>1, <1>4 DEF PoolLists
<1> DEFINE D2 == Tail(D)
<1>9. n \in Members(D) /\ Members(D) \subseteq Nodes /\ Members(P) \subseteq Nodes
  BY <1>5, <1>8, ChainNull
<1>10. Chain(next, D2, next[n]) /\ Members(D2) = Members(D) \ {n}
  BY <1>5, <1>8, ChainTail
<1>11. n \notin Members(F) /\ n \notin Members(P)
  BY <1>1, <1>9 DEF PoolLists
<1> HIDE DEF D2
<1>12. PICK F2 \in Seq(Nodes) : Chain(next', F2, n) /\ Members(F2) = Members(F) \cup {n}
  <2> DEFINE N == <<n>> \o F
  <2>1. Chain(next', N, n) /\ Members(N) = Members(F) \cup {n}
    BY <1>2, <1>3, <1>7, <1>8, <1>11, ChainCons
  <2> HIDE DEF N
  <2>2. N \in Seq(Nodes)
    BY <2>1 DEF Chain
  <2>3. QED
    BY <2>1, <2>2
<1>13. \A m \in Nodes : m # n => next'[m] = next[m]
  BY <1>2, <1>7
<1>14. Chain(next', D2, next[n]) /\ Chain(next', P, phead)
  <2>1. \A m \in Members(D2) : next'[m] = next[m]
    BY <1>9, <1>10, <1>13
  <2>2. \A m \in Members(P) : next'[m] = next[m]
    BY <1>9, <1>11, <1>13
  <2>3. QED
    BY <1>8, <1>10, <2>1, <2>2, ChainFrame
<1>15. /\ \A m \in Members(P) : m \notin Members(F2) /\ m \notin Members(D2)
       /\ \A m \in Members(F2) : m \notin Members(D2)
       /\ \A m \in Nodes : m \in Members(P) \/ m \in Members(F2) \/ m \in Members(D2)
  BY <1>1, <1>10, <1>11, <1>12 DEF PoolLists
<1>16. phead' # NULL => ptail' = P[Len(P)]
  BY <1>1, <1>7 DEF PoolLists
<1>17. PoolLists(P, F2, D2)'
  BY <1>6, <1>7, <1>12, <1>14, <1>15, <1>16 DEF PoolLists
<1>18. D2 \in Seq(Nodes)
  BY <1>10 DEF Chain
<1>19. QED
  BY <1>1, <1>12, <1>17, <1>18 DEF PoolInvariant

\* UNBLOCK frees the first pending node before it handles its signal.
LEMMA PopKeepsPool ==
    ASSUME SignalInvariant, PoolInvariant, UnblockPop, Detached' = Detached, phead # NULL
    PROVE  PoolInvariant'
<1> USE SignalAssumption
<1>1. PICK P, F, D \in Seq(Nodes) : PoolLists(P, F, D)
  BY DEF PoolInvariant
<1>2. next \in [Nodes -> Nodes \cup {NULL}]
  BY DEF SignalInvariant, QueueTypes
<1> DEFINE n == phead
<1>3. Chain(next, P, n) /\ Chain(next, F, pavail) /\ Chain(next, D, Detached)
  BY <1>1 DEF PoolLists
<1>4. /\ next' = [next EXCEPT ![n] = pavail] /\ pavail' = n /\ phead' = next[n]
      /\ ptail' = ptail
  BY DEF UnblockPop
<1> DEFINE P2 == Tail(P)
<1>5. /\ n \in Nodes /\ n \in Members(P) /\ Members(P) \subseteq Nodes
      /\ Members(D) \subseteq Nodes
  BY <1>3, ChainNull
<1>6. /\ Chain(next, P2, next[n]) /\ Members(P2) = Members(P) \ {n}
      /\ Len(P2) > 0 => P2[Len(P2)] = P[Len(P)]
  BY <1>3, ChainTail
<1>7. n \notin Members(F) /\ n \notin Members(D)
  BY <1>1, <1>5 DEF PoolLists
<1> HIDE DEF P2
<1>8. PICK F2 \in Seq(Nodes) : Chain(next', F2, n) /\ Members(F2) = Members(F) \cup {n}
  <2> DEFINE N == <<n>> \o F
  <2>1. Chain(next', N, n) /\ Members(N) = Members(F) \cup {n}
    BY <1>2, <1>3, <1>4, <1>5, <1>7, ChainCons
  <2> HIDE DEF N
  <2>2. N \in Seq(Nodes)
    BY <2>1 DEF Chain
  <2>3. QED
    BY <2>1, <2>2
<1>9. \A m \in Nodes : m # n => next'[m] = next[m]
  BY <1>2, <1>4
<1>10. Chain(next', P2, next[n]) /\ Chain(next', D, Detached)
  <2>1. \A m \in Members(P2) : next'[m] = next[m]
    BY <1>5, <1>6, <1>9
  <2>2. \A m \in Members(D) : next'[m] = next[m]
    BY <1>5, <1>7, <1>9
  <2>3. QED
    BY <1>3, <1>6, <2>1, <2>2, ChainFrame
<1>11. /\ \A m \in Members(P2) : m \notin Members(F2) /\ m \notin Members(D)
       /\ \A m \in Members(F2) : m \notin Members(D)
       /\ \A m \in Nodes : m \in Members(P2) \/ m \in Members(F2) \/ m \in Members(D)
  BY <1>1, <1>6, <1>7, <1>8 DEF PoolLists
<1>12. phead' # NULL => ptail' = P2[Len(P2)]
  <2>1. phead' # NULL => Len(P2) > 0
    BY <1>4, <1>6, ChainNull
  <2>2. ptail = P[Len(P)]
    BY <1>1 DEF PoolLists
  <2>3. QED
    BY <1>4, <1>6, <2>1, <2>2
<1>13. PoolLists(P2, F2, D)'
  BY <1>4, <1>8, <1>10, <1>11, <1>12 DEF PoolLists
<1>14. P2 \in Seq(Nodes)
  BY <1>6 DEF Chain
<1>15. QED
  BY <1>1, <1>8, <1>13, <1>14 DEF PoolInvariant

\* Deactivation frees whatever is pending, in one go.
LEMMA ResetKeepsPool ==
    ASSUME SignalInvariant, PoolInvariant, DeactivateReset, Detached' = Detached, phead # NULL
    PROVE  PoolInvariant'
<1> USE SignalAssumption
<1>1. PICK P, F, D \in Seq(Nodes) : PoolLists(P, F, D)
  BY DEF PoolInvariant
<1>2. next \in [Nodes -> Nodes \cup {NULL}] /\ ptail # NULL
  BY DEF SignalInvariant, QueueTypes, MainFrameState
<1>3. Chain(next, P, phead) /\ Chain(next, F, pavail) /\ Chain(next, D, Detached)
  BY <1>1 DEF PoolLists
<1>4. Len(P) > 0 /\ P \in Seq(Nodes) /\ ptail = P[Len(P)] /\ Members(D) \subseteq Nodes
  BY <1>1, <1>3, ChainNull DEF PoolLists
<1>5. /\ next' = [next EXCEPT ![P[Len(P)]] = pavail] /\ pavail' = phead
      /\ phead' = NULL
  BY <1>2, <1>4 DEF DeactivateReset
<1> DEFINE F2 == P \o F
<1>6. Members(P) \cap Members(F) = {}
  BY <1>1 DEF PoolLists
<1>7. Chain(next', F2, phead)
  BY <1>2, <1>3, <1>4, <1>5, <1>6, ChainJoin
<1>8. Members(F2) = Members(P) \cup Members(F)
  BY <1>1, JoinMembers
<1> HIDE DEF F2
<1>9. P[Len(P)] \in Members(P)
  <2>1. Len(P) \in 1..Len(P)
    BY <1>4
  <2>2. QED
    BY <2>1 DEF Members
<1>10. Chain(next', D, Detached)
  <2>1. \A m \in Members(D) : next'[m] = next[m]
    BY <1>1, <1>2, <1>4, <1>5, <1>9 DEF PoolLists
  <2>2. QED
    BY <1>3, <2>1, ChainFrame
<1> DEFINE E == << >>
<1>11. Chain(next', E, NULL) /\ Members(E) = {} /\ E \in Seq(Nodes)
  BY ChainEmpty
<1> HIDE DEF E
<1>12. /\ \A m \in Members(F2) : m \notin Members(D)
       /\ \A m \in Nodes : m \in Members(F2) \/ m \in Members(D)
  BY <1>1, <1>8 DEF PoolLists
<1>13. PoolLists(E, F2, D)'
  BY <1>5, <1>7, <1>10, <1>11, <1>12 DEF PoolLists
<1>14. F2 \in Seq(Nodes)
  BY <1>7 DEF Chain
<1>15. QED
  BY <1>1, <1>11, <1>13, <1>14 DEF PoolInvariant

\* A step that leaves the three lists alone.
LEMMA PoolUnchanged ==
    ASSUME PoolInvariant, UNCHANGED <<phead, ptail, pavail, next>>, Detached' = Detached
    PROVE  PoolInvariant'
<1>1. PICK P, F, D \in Seq(Nodes) : PoolLists(P, F, D)
  BY DEF PoolInvariant
<1>2. PoolLists(P, F, D)'
  BY <1>1 DEF PoolLists, Chain
<1>3. QED
  BY <1>1, <1>2 DEF PoolInvariant

\* No step loses a node or puts one on two lists.
LEMMA PoolStep ==
    ASSUME SignalInvariant, SignalInvariant', PoolInvariant, Next
    PROVE  PoolInvariant'
<1>1. CASE Detach
  BY <1>1, DetachKeepsPool
<1>2. CASE Recycle
  BY <1>2, RecycleKeepsPool
<1>3. CASE ~Detach /\ ~Recycle
  <2>1. Detached' = Detached
    BY <1>3, DetachedStep
  <2>2. CASE UNCHANGED queue
    <3>1. UNCHANGED <<phead, ptail, pavail, next>>
      BY <2>2 DEF queue
    <3>2. QED
      BY <2>1, <3>1, PoolUnchanged
  <2>3. CASE \E s \in Sigs : Enqueue(s)
    BY <2>1, <2>3, EnqueueKeepsPool
  <2>4. CASE UnblockPop
    <3>1. phead = NULL => UNCHANGED queue
      BY <2>4 DEF UnblockPop
    <3>2. QED
      BY <2>1, <2>2, <2>4, <3>1, PopKeepsPool
  <2>5. CASE DeactivateReset
    <3>1. phead = NULL => UNCHANGED <<phead, ptail, pavail, next>>
      BY <2>5 DEF DeactivateReset
    <3>2. QED
      BY <2>1, <2>5, <3>1, PoolUnchanged, ResetKeepsPool
  <2>6. CASE \E s \in Sigs : Deliver(s)
    <3>1. PICK s \in Sigs : Deliver(s)
      BY <2>6
    <3>2. UNCHANGED queue \/ Enqueue(s)
      BY <3>1 DEF Deliver, zend_signal_handler_defer
    <3>3. QED
      BY <2>2, <2>3, <3>2
  <2>7. ~UnblockPop /\ ~DeactivateReset /\ ~(\E s \in Sigs : Deliver(s)) => UNCHANGED queue
    BY <1>3 DEF Next, HandlerStep, HandlerRearm, Raise, zend_signal_handler, HandlerReturn,
       DrainNext, DrainDone, Block, Unblock, UnblockEarlyRead, UnblockDecrement,
       UnblockCompare, UnblockEnter, Sigaction, zend_signal_activate, zend_signal_deactivate,
       queue
  <2>8. QED
    BY <2>2, <2>4, <2>5, <2>6, <2>7
<1>4. QED
  BY <1>1, <1>2, <1>3

\* Each node has one place in the order of the constructor.
LEMMA PoolOrderInjective ==
    \A i, j \in 1..Cardinality(Nodes) : PoolOrder[i] = PoolOrder[j] => i = j
<1> DEFINE n == Cardinality(Nodes)
<1> DEFINE I == 1..n
<1>1. n \in Nat \ {0} /\ PoolOrder \in [1..n -> Nodes] /\ Len(PoolOrder) = n
      /\ Members(PoolOrder) = Nodes
  BY PoolOrderFacts
<1>2. IsFiniteSet(I) /\ Cardinality(I) = n
  <2> HIDE DEF n
  <2>1. 1 \in Int /\ n \in Int /\ ~(1 > n)
    BY <1>1
  <2>2. IsFiniteSet(1..n) /\ Cardinality(1..n) = n - 1 + 1
    BY <2>1, FS_Interval
  <2>3. QED
    BY <1>1, <2>2
<1>3. PoolOrder \in Surjection(I, Nodes)
  <2>1. \A x \in Nodes : \E k \in 1..n : PoolOrder[k] = x
    BY <1>1 DEF Members
  <2>2. QED
    BY <1>1, <2>1 DEF Surjection
<1> HIDE DEF I
<1>4. PoolOrder \in Injection(I, Nodes)
  BY <1>2, <1>3, FS_SurjSameCardinalityImpliesInj
<1>5. QED
  BY <1>1, <1>4 DEF Injection, IsInjective, I

\* The constructor strings all the nodes into the free list.
LEMMA InitPool == Init => PoolInvariant
<1> SUFFICES ASSUME Init PROVE PoolInvariant
  OBVIOUS
<1> DEFINE n == Cardinality(Nodes)
<1>1. n \in Nat \ {0} /\ PoolOrder \in [1..n -> Nodes] /\ Len(PoolOrder) = n
      /\ Members(PoolOrder) = Nodes
  BY PoolOrderFacts
<1>2. \A i, j \in 1..n : PoolOrder[i] = PoolOrder[j] => i = j
  BY PoolOrderInjective
<1> HIDE DEF n
<1>3. PoolOrder \in Seq(Nodes)
  BY <1>1
<1>4. \A i \in 1..n : next[PoolOrder[i]] = IF i = n THEN NULL ELSE PoolOrder[i + 1]
  <2> TAKE i \in 1..n
  <2> DEFINE k == CHOOSE k \in 1..n : PoolOrder[k] = PoolOrder[i]
  <2>1. k \in 1..n /\ PoolOrder[k] = PoolOrder[i]
    OBVIOUS
  <2>2. PoolOrder[i] \in Nodes
    BY <1>1
  <2>3. next[PoolOrder[i]] = IF k = n THEN NULL ELSE PoolOrder[k + 1]
    BY <1>1, <2>2 DEF Init, FreeList
  <2> HIDE DEF k
  <2>4. k = i
    BY <1>2, <2>1
  <2>5. QED
    BY <2>3, <2>4
<1>5. Chain(next, PoolOrder, pavail)
  BY <1>1, <1>2, <1>3, <1>4 DEF Chain, Init
<1> DEFINE E == << >>
<1>6. Chain(next, E, NULL) /\ Members(E) = {} /\ E \in Seq(Nodes)
  BY ChainEmpty
<1> HIDE DEF E
<1>7. phead = NULL /\ Detached = NULL
  <2>1. stack = <<MainFrame>> /\ phead = NULL
    BY DEF Init
  <2>2. Len(stack) = 1
    BY <2>1
  <2>3. QED
    BY <2>1, <2>2 DEF Detached
<1>8. PoolLists(E, PoolOrder, E)
  BY <1>1, <1>5, <1>6, <1>7 DEF PoolLists
<1>9. QED
  BY <1>3, <1>6, <1>8 DEF PoolInvariant

\* The pool: at all times three disjoint lists hold all the nodes, and ptail is the
\* end of the pending one.
THEOREM PoolInvariantHolds == Spec => []PoolInvariant
<1>1. SignalInvariant /\ SignalInvariant' /\ PoolInvariant /\ [Next]_vars => PoolInvariant'
  <2>1. CASE Next
    BY <2>1, PoolStep
  <2>2. CASE UNCHANGED vars
    <3>1. SignalInvariant /\ PoolInvariant => PoolInvariant'
      <4>1. UNCHANGED <<phead, ptail, pavail, next, stack>>
        BY <2>2 DEF vars, queue
      <4>2. Detached' = Detached
        BY <4>1 DEF Detached
      <4>3. QED
        BY <4>1, <4>2, PoolUnchanged
    <3>2. QED
      BY <3>1
  <2>3. QED
    BY <2>1, <2>2
<1>2. QED
  BY <1>1, InitPool, SignalInvariantHolds, PTL DEF Spec

\* The queue variable of a frame is NULL, but for that of the drain loop.
LEMMA FrameQueues ==
    ASSUME SignalInvariant
    PROVE  /\ Len(stack) \in Nat \ {0} /\ stack[1].queue = Detached
           /\ \A i \in 1..Len(stack) : i # 1 => stack[i].queue = NULL
<1>1. StackShape /\ HandlerFrames /\ FlagTypes /\ stack[Len(stack)].queue = NULL
  BY DEF SignalInvariant, MainFrameState
<1>2. Len(stack) \in Nat \ {0}
  BY <1>1, TopFrame
<1>3. stack[1].queue = Detached
  BY <1>1, <1>2 DEF Detached
<1>4. ASSUME NEW i \in 1..Len(stack), i # 1 PROVE stack[i].queue = NULL
  <2>1. i = Len(stack) \/ i \in 1..(Len(stack) - 1)
    BY <1>2, <1>4
  <2>2. CASE i \in 1..(Len(stack) - 1)
    <3>1. Len(stack) > 2
      BY <1>2, <1>4, <2>2
    <3>2. active = 0
      BY <1>1, <1>2, <3>1 DEF HandlerFrames, FlagTypes
    <3>3. QED
      BY <1>1, <2>2, <3>2 DEF HandlerFrames
  <2>3. QED
    BY <1>1, <2>1, <2>2
<1>5. QED
  BY <1>2, <1>3, <1>4

\* The lists of the model are the three of the pool, and empty ones.
LEMMA ListsOfPool ==
    ASSUME SignalInvariant, NEW P \in Seq(Nodes), NEW F \in Seq(Nodes), NEW D \in Seq(Nodes),
           PoolLists(P, F, D)
    PROVE  /\ Len(Lists) = 2 + Len(stack) /\ Len(stack) \in Nat \ {0}
           /\ Lists[1] = P /\ Lists[2] = F /\ Lists[3] = D
           /\ \A i \in 1..Len(Lists) : i > 3 => Members(Lists[i]) = {}
<1>1. Len(stack) \in Nat \ {0} /\ stack[1].queue = Detached
      /\ \A i \in 1..Len(stack) : i # 1 => stack[i].queue = NULL
  BY FrameQueues
<1>2. QueueTypes /\ phead \in Nodes \cup {NULL} /\ pavail \in Nodes \cup {NULL}
  BY DEF SignalInvariant, QueueTypes
<1>3. Chain(next, P, phead) /\ Chain(next, F, pavail) /\ Chain(next, D, Detached)
  BY DEF PoolLists
<1>4. Detached \in Nodes \cup {NULL}
  BY <1>3, ChainNull
<1>5. ChainFrom(phead) = P
  BY <1>2, <1>3, ChainFromFollows
<1>6. ChainFrom(pavail) = F
  BY <1>2, <1>3, ChainFromFollows
<1>7. ChainFrom(Detached) = D
  BY <1>2, <1>3, <1>4, ChainFromFollows
<1> DEFINE E == << >>
<1>8. Chain(next, E, NULL) /\ Members(E) = {} /\ E \in Seq(Nodes)
  BY ChainEmpty
<1> HIDE DEF E
<1>9. ChainFrom(NULL) = E
  BY <1>2, <1>8, ChainFromFollows
<1> DEFINE C == [i \in 1..Len(stack) |-> ChainFrom(stack[i].queue)]
<1>10. \A i \in 1..Len(stack) : C[i] = IF i = 1 THEN D ELSE E
  BY <1>1, <1>7, <1>9
<1>11. C \in Seq(Seq(Nodes)) /\ Len(C) = Len(stack)
  <2>1. \A i \in 1..Len(stack) : C[i] \in Seq(Nodes)
    BY <1>8, <1>10
  <2>2. C = [i \in 1..Len(stack) |-> C[i]]
    OBVIOUS
  <2> DEFINE S == Seq(Nodes)
  <2> DEFINE k == Len(stack)
  <2> HIDE DEF C
  <2>3. C \in [1..k -> S] /\ k \in Nat
    BY <1>1, <2>1, <2>2
  <2> HIDE DEF S, k
  <2>4. C \in Seq(S)
    BY <2>3
  <2>5. Len(C) = k
    BY <2>3
  <2>6. QED
    BY <2>4, <2>5 DEF S, k
<1>12. Lists = <<P, F>> \o C
  BY <1>5, <1>6 DEF Lists
<1> HIDE DEF C
<1>13. Len(Lists) = 2 + Len(stack) /\ Lists[1] = P /\ Lists[2] = F
       /\ \A i \in 3..(2 + Len(stack)) : Lists[i] = C[i - 2]
  <2> DEFINE S == Seq(Nodes)
  <2>1. P \in S /\ F \in S /\ C \in Seq(S)
    BY <1>11
  <2> HIDE DEF S
  <2>2. <<P, F>> \in Seq(S) /\ Len(<<P, F>>) = 2
    BY <2>1
  <2>3. QED
    BY <1>1, <1>11, <1>12, <2>1, <2>2
<1>14. Lists[3] = D
  <2>1. 3 \in 3..(2 + Len(stack)) /\ 3 - 2 = 1 /\ 1 \in 1..Len(stack)
    BY <1>1
  <2>2. QED
    BY <1>10, <1>13, <2>1
<1>15. ASSUME NEW i \in 1..Len(Lists), i > 3 PROVE Members(Lists[i]) = {}
  <2>1. i \in 3..(2 + Len(stack)) /\ i - 2 \in 1..Len(stack) /\ i - 2 # 1
    BY <1>1, <1>13, <1>15
  <2>2. QED
    BY <1>8, <1>10, <1>13, <2>1
<1>16. QED
  BY <1>1, <1>13, <1>14, <1>15

\* No queue node is lost and none is on two lists, however signals, handlers and
\* UNBLOCK interleave: zend_signal_handler_defer finds no free node only when every
\* node holds a signal that is still waiting for its handler.
THEOREM NodesAreNeverLost == Spec => []PoolIsPartitioned
<1>1. ASSUME SignalInvariant, PoolInvariant PROVE PoolIsPartitioned
  <2>1. PICK P, F, D \in Seq(Nodes) : PoolLists(P, F, D)
    BY <1>1 DEF PoolInvariant
  <2>2. /\ Len(Lists) = 2 + Len(stack) /\ Len(stack) \in Nat \ {0}
        /\ Lists[1] = P /\ Lists[2] = F /\ Lists[3] = D
        /\ \A i \in 1..Len(Lists) : i > 3 => Members(Lists[i]) = {}
    BY <1>1, <2>1, ListsOfPool
  <2> DEFINE LL == Lists
  <2> DEFINE M(i) == Members(LL[i])
  <2>3. 1 \in 1..Len(LL) /\ 2 \in 1..Len(LL) /\ 3 \in 1..Len(LL)
    BY <2>2
  <2>4. \A i \in 1..Len(LL) : i = 1 \/ i = 2 \/ i = 3 \/ i > 3
    BY <2>2
  <2>5. Members(P) \subseteq Nodes /\ Members(F) \subseteq Nodes /\ Members(D) \subseteq Nodes
    BY <2>1, ChainNull DEF PoolLists
  <2>6. M(1) = Members(P) /\ M(2) = Members(F) /\ M(3) = Members(D)
        /\ \A i \in 1..Len(LL) : i > 3 => M(i) = {}
    BY <2>2
  <2> HIDE DEF LL, M
  <2>7. \A n \in Nodes : \E i \in 1..Len(LL) : n \in M(i)
    BY <2>1, <2>3, <2>6 DEF PoolLists
  <2>8. \A i \in 1..Len(LL) : M(i) \subseteq Nodes
    BY <2>4, <2>5, <2>6
  <2>9. \A i, j \in 1..Len(LL) : i # j => M(i) \cap M(j) = {}
    <3>1. /\ M(1) \cap M(2) = {} /\ M(1) \cap M(3) = {} /\ M(2) \cap M(3) = {}
          /\ M(2) \cap M(1) = {} /\ M(3) \cap M(1) = {} /\ M(3) \cap M(2) = {}
      BY <2>1, <2>6 DEF PoolLists
    <3>2. QED
      BY <2>4, <2>6, <3>1
  <2>10. UNION {M(i) : i \in 1..Len(LL)} = Nodes
    BY <2>7, <2>8
  <2>11. QED
    BY <2>9, <2>10 DEF PoolIsPartitioned, LL, M
<1>2. QED
  BY <1>1, SignalInvariantHolds, PoolInvariantHolds, PTL
=============================================================================
