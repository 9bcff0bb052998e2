------------------------- MODULE ZendGCGarbageProofs -------------------------
(***************************************************************************)
(* Theorems about what the cycle collector finds: garbage is not           *)
(* forgotten, and a run leaves none behind.                                *)
(***************************************************************************)
EXTENDS ZendGCProofs

\* A set of objects that nothing leads to has an entry in the buffer, or is in the
\* hands of the run.
LostIsBuffered ==
  \A A \in SUBSET Nodes : A # {} /\ Isolated(A) =>
    /\ gc.phase = "scan" => A \subseteq Colored("grey") \cup Colored("white")
    /\ gc.phase = "collect" => A \subseteq Doomed
    /\ gc.phase = "nested" => \/ A \subseteq Roots /\ A \cap gc.work = {}
                              \/ A \cap Tagged("DTOR_GARBAGE") # {}
    /\ gc.phase # "collect" => A \cap Roots # {}

\* Back from a destructor that has saved its object, that is in the buffer.
SavedIsBuffered == Top.at = "del_dtor" => addr[Top.node] # 0

\* Without destructors, freeing the condemned objects frees no other and leaves none
\* behind that nothing leads to.
FreesNoOther ==
  gc.phase = "destroy" /\ ~gc.dtors =>
    /\ \A i, j \in DOMAIN stack : i > j /\ stack[j].at = "run" => stack[i].node \in Condemned
    /\ \A A \in SUBSET Nodes :
         A # {} /\ A \subseteq Usable \ Condemned /\ A \cap held = {}
           /\ (\A i \in DOMAIN stack : stack[i].node \notin A)
         => \E e \in edge : e[2] \in A /\ e[1] \notin A \cup Condemned

\* The inductive invariant about garbage, on top of the collector's.
GarbageInvariant == LostIsBuffered /\ SavedIsBuffered /\ FreesNoOther

----------------------------------------------------------------------------
(* Garbage, outside the collector.                                         *)

\* What nothing leads to after a step outside the collector was so before, unless the
\* step let go of it.
LEMMA OuterWas ==
  ASSUME CollectorInvariant, Outer, NEW A \in SUBSET Nodes, Isolated(A)', Top.node \notin A,
         \A n \in A : n \in held => n \in held', \A e \in edge : e[2] \in A => e \in edge'
  PROVE  Isolated(A)
<1>1. /\ A \subseteq Usable' /\ A \cap held' = {}
      /\ \A i \in DOMAIN stack' : stack'[i].node \notin A
      /\ \A e \in edge' : e[2] \in A => e[1] \in A
  BY DEF Isolated
<1>2. A \subseteq Usable
  <2> SUFFICES ASSUME NEW n \in A, n \notin Usable PROVE FALSE
    OBVIOUS
  <2>1. n \in Nodes /\ life'[n] \in {"live", "destructed"} /\ life[n] \notin {"live", "destructed"}
    BY <1>1 DEF Usable
  <2>2. n \in held'
    BY <2>1, OuterLife
  <2>3. QED
    BY <1>1, <2>2
<1>3. \A i \in DOMAIN stack : stack[i].node \notin A
  <2> SUFFICES ASSUME NEW i \in DOMAIN stack PROVE stack[i].node \notin A
    OBVIOUS
  <2>1. CASE i = Len(stack)
    BY <2>1 DEF Top
  <2>2. CASE i # Len(stack)
    BY <1>1, <2>2, OuterOld
  <2>3. QED
    BY <2>1, <2>2
<1>4. QED
  BY <1>1, <1>2, <1>3 DEF Isolated

\* A reference that is let go of and was not the last one leaves a root behind.
LEMMA LettingEnters ==
  ASSUME CollectorInvariant, NEW n \in Nodes, NEW s \in {stack, Below}, Letting(n, s),
         stack' = s
  PROVE  addr'[n] # 0
<1>1. Top.at # "run"
  BY DEF Letting, InUserCode
<1>2. stack \in Seq(Frame) /\ stack # <<>> /\ s \in Seq(Frame)
  BY InvariantParts, BelowFacts DEF StackTypes
<1>3. ReleaseBuffered(n, s)
  <2>1. ASSUME NEW f \in Frame PROVE Append(s, f) # s
    <3>1. Len(Append(s, f)) = Len(s) + 1 /\ Len(s) \in Nat
      BY <1>2, Pushed
    <3>2. QED
      BY <3>1
  <2>2. ASSUME NEW f \in Frame, NEW g \in Frame PROVE Append(Append(s, f), g) # s
    <3>1. Len(Append(s, f)) = Len(s) + 1 /\ Len(s) \in Nat /\ Append(s, f) \in Seq(Frame)
      BY <1>2, Pushed
    <3>2. Len(Append(Append(s, f), g)) = Len(s) + 2
      BY <3>1, Pushed
    <3>3. QED
      BY <3>1, <3>2
  <2>3. ~ReleaseLast(n, s)
    <3>1. Call("del", n) \in Frame
      BY CallFacts DEF Calls
    <3>2. QED
      BY <2>1, <3>1 DEF ReleaseLast
  <2>4. ~ReleaseFull(n, s)
    <3>1. Call("full", n) \in Frame /\ Call("run", NULL) \in Frame
          /\ s \o <<Call("full", n), Call("run", NULL)>> = Append(Append(s, Call("full", n)), Call("run", NULL))
      BY <1>2, CallFacts DEF Calls
    <3>2. QED
      BY <2>2, <3>1 DEF ReleaseFull
  <2>5. QED
    BY <2>3, <2>4 DEF Letting, Release
<1>4. CASE MayLeak(n)
  BY <1>3, <1>4, InvariantParts, EnterFacts DEF ReleaseBuffered, MayLeak
<1>5. CASE ~MayLeak(n)
  <2>1. addr[n] # 0
    BY <1>1, <1>5, Quiet DEF MayLeak
  <2>2. addr' = addr
    BY <1>3, <1>5, SMTT(30) DEF ReleaseBuffered
  <2>3. QED
    BY <2>1, <2>2
<1>6. QED
  BY <1>4, <1>5

\* A call that returns to zend_objects_store_del behind a destructor.
LEMMA BackToDel ==
  ASSUME StackTypes, StackShape, Len(stack) > 1, stack' = Below, Top'.at = "del_dtor"
  PROVE  Top.at \in {"dtor", "full"} /\ Top.node = Top'.node
<1>1. /\ Len(stack) \in Nat /\ DOMAIN stack = 1 .. Len(stack) /\ Top = stack[Len(stack)]
      /\ Len(Below) = Len(stack) - 1 /\ Below[Len(Below)] = stack[Len(stack) - 1]
  BY BelowFacts, ShapeBelow DEF StackTypes, StackShape
<1>2. Top' = stack[Len(stack) - 1]
  BY <1>1, SMTT(30) DEF Top
<1>3. Len(stack) - 1 \in DOMAIN stack /\ Len(stack) - 1 # Len(stack) /\ (Len(stack) - 1) + 1 = Len(stack)
  <2>1. \A k \in Nat : k > 1 => k - 1 \in 1 .. k /\ k - 1 # k /\ (k - 1) + 1 = k
    BY SMTT(30)
  <2>2. Len(stack) - 1 \in 1 .. Len(stack) /\ Len(stack) - 1 # Len(stack) /\ (Len(stack) - 1) + 1 = Len(stack)
    BY <1>1, <2>1
  <2>3. QED
    BY <1>1, <2>2, ZenonT(40)
<1>4. QED
  BY <1>1, <1>2, <1>3, ZenonT(40) DEF StackShape, Adjacent

\* The root that came when the buffer was full is in the buffer in the end, or deleted.
LEMMA AfterFullEnters ==
  ASSUME CollectorInvariant, AfterFull, stack' = Below
  PROVE  Top.node \in Nodes /\ addr'[Top.node] # 0
<1>1. Top.node \in Nodes /\ StackTypes
  BY InvariantParts, TopNode DEF AfterFull
<1>2. Goto("del") # Below
  <2>1. Below \in Seq(Frame) /\ Goto("del") = Append(Below, Call("del", Top.node)) /\ Call("del", Top.node) \in Frame
    BY <1>1, GotoFacts, BelowFacts DEF Calls, StackTypes
  <2>2. Len(Goto("del")) = Len(Below) + 1 /\ Len(Below) \in Nat
    BY <2>1, Pushed
  <2>3. QED
    BY <2>2
<1>3. \/ addr[Top.node] # 0 /\ addr' = addr
      \/ addr[Top.node] = 0 /\ Enter(Top.node)
  BY <1>2 DEF AfterFull
<1>4. QED
  BY <1>1, <1>3, InvariantParts, EnterFacts

\* What nothing leads to after a step outside the collector was so before, or has an
\* entry in the buffer.
LEMMA OuterIsolated ==
  ASSUME CollectorInvariant, SavedIsBuffered, Outer, NEW A \in SUBSET Nodes, Isolated(A)'
  PROVE  Isolated(A) \/ A \cap Roots' # {}
<1>1. /\ A \subseteq Usable' /\ A \cap held' = {}
      /\ \A i \in DOMAIN stack' : stack'[i].node \notin A
      /\ \A e \in edge' : e[2] \in A => e[1] \in A
  BY DEF Isolated
<1>2. /\ StackTypes /\ Len(stack) \in DOMAIN stack /\ Top = stack[Len(stack)]
      /\ stack \in Seq(Frame) /\ stack # <<>> /\ Below \in Seq(Frame)
  BY InvariantParts, StackFacts DEF StackTypes
<1>3. ASSUME NEW n \in A, addr'[n] # 0 PROVE A \cap Roots' # {}
  BY <1>3 DEF Roots
<1>4. ASSUME NEW n \in Nodes, Taking(n) PROVE Isolated(A)
  <2>1. stack' = stack /\ held \subseteq held' /\ edge \subseteq edge'
    BY <1>4 DEF Taking
  <2>2. Top.node \notin A
    BY <1>1, <1>2, <2>1
  <2>3. QED
    BY <2>1, <2>2, OuterWas
<1>5. ASSUME NEW n \in Nodes, NEW s \in {stack, Below}, Letting(n, s)
      PROVE  Isolated(A) \/ A \cap Roots' # {}
  <2>1. s \in Seq(Frame)
    BY <1>2, <1>5
  <2>2. \/ stack' = s
        \/ stack' = Append(s, Call("del", n))
        \/ stack' = Append(Append(s, Call("full", n)), Call("run", NULL))
    BY <1>5, <2>1, ReleaseStack DEF Letting
  <2>3. /\ \A i \in DOMAIN s : i \in DOMAIN stack' /\ stack'[i] = s[i]
        /\ stack' # s => \E i \in DOMAIN stack' : stack'[i].node = n
    <3>1. /\ Call("del", n) \in Frame /\ Call("full", n) \in Frame /\ Call("run", NULL) \in Frame
          /\ Call("del", n).node = n /\ Call("full", n).node = n
      BY CallFacts DEF Calls
    <3>2. CASE stack' = s
      BY <3>2
    <3>3. CASE stack' = Append(s, Call("del", n))
      <4>1. /\ DOMAIN stack' = 1 .. Len(s) + 1 /\ Len(s) \in Nat /\ DOMAIN s = 1 .. Len(s)
            /\ stack'[Len(s) + 1] = Call("del", n)
            /\ \A i \in 1 .. Len(s) : stack'[i] = s[i]
        BY <2>1, <3>1, <3>3, Pushed
      <4>2. Len(s) + 1 \in DOMAIN stack' /\ \A i \in DOMAIN s : i \in DOMAIN stack'
        BY <4>1
      <4>3. QED
        BY <3>1, <4>1, <4>2
    <3>4. CASE stack' = Append(Append(s, Call("full", n)), Call("run", NULL))
      <4> DEFINE r == Append(s, Call("full", n))
      <4>1. /\ r \in Seq(Frame) /\ DOMAIN r = 1 .. Len(s) + 1 /\ Len(s) \in Nat /\ DOMAIN s = 1 .. Len(s)
            /\ r[Len(s) + 1] = Call("full", n) /\ Len(r) = Len(s) + 1
            /\ \A i \in 1 .. Len(s) : r[i] = s[i]
        BY <2>1, <3>1, Pushed
      <4>2. stack' = Append(r, Call("run", NULL))
        BY <3>4
      <4> HIDE DEF r
      <4>3. /\ DOMAIN stack' = 1 .. Len(r) + 1 /\ \A i \in 1 .. Len(r) : stack'[i] = r[i]
        BY <3>1, <4>1, <4>2, Pushed
      <4>4. Len(s) + 1 \in DOMAIN stack' /\ Len(s) + 1 \in 1 .. Len(r)
            /\ \A i \in DOMAIN s : i \in DOMAIN stack' /\ i \in 1 .. Len(r)
        BY <4>1, <4>3
      <4>5. QED
        BY <3>1, <4>1, <4>3, <4>4
    <3>5. QED
      BY <2>2, <3>2, <3>3, <3>4
  <2>4. CASE n \in A
    <3>1. stack' = s
      BY <1>1, <2>3, <2>4
    <3>2. QED
      BY <1>3, <1>5, <2>4, <3>1, LettingEnters
  <2>5. CASE n \notin A
    <3>1. Top.node \notin A
      <4>1. CASE s = stack
        BY <1>1, <1>2, <2>3, <4>1
      <4>2. CASE s # stack
        BY <1>5, <2>5, <4>2 DEF Letting
      <4>3. QED
        BY <4>1, <4>2
    <3>2. /\ \A m \in A : m \in held => m \in held'
          /\ \A e \in edge : e[2] \in A => e \in edge'
      <4>1. \A m \in held : m # n => m \in held'
        BY <1>5 DEF Letting
      <4>2. \A e \in edge : e[2] # n => e \in edge'
        <5>1. edge' = edge \/ \E a \in Nodes : edge' = edge \ {<<a, n>>}
          BY <1>5 DEF Letting
        <5>2. QED
          BY <5>1
      <4>3. QED
        BY <2>5, <4>1, <4>2
    <3>3. QED
      BY <3>1, <3>2, OuterWas
  <2>6. QED
    BY <2>4, <2>5
<1>6. ASSUME held' = held, edge' = edge PROVE Isolated(A) \/ Top.node \in A
  BY <1>6, OuterWas
<1>7. ASSUME NEW n, n \in A PROVE n \in Nodes /\ life'[n] \in {"live", "destructed"}
  BY <1>1, <1>7 DEF Usable
<1>8. ASSUME CollectCycles PROVE Isolated(A)
  <2>1. held' = held /\ edge' = edge /\ stack' = Append(stack, Call("run", NULL))
    BY <1>8 DEF CollectCycles, heap
  <2>2. Len(stack) \in DOMAIN stack' /\ stack'[Len(stack)] = Top
    <3>1. Call("run", NULL) \in Frame
      BY CallFacts DEF Calls
    <3>2. DOMAIN stack' = 1 .. Len(stack) + 1 /\ Len(stack) \in Nat /\ DOMAIN stack = 1 .. Len(stack)
          /\ \A i \in 1 .. Len(stack) : stack'[i] = stack[i]
      BY <1>2, <2>1, <3>1, Pushed
    <3>3. QED
      BY <1>2, <3>2
  <2>3. QED
    BY <1>1, <1>6, <2>1, <2>2
<1>9. ASSUME NEW a \in Calls, stack' = Goto(a) \/ (stack' = Append(Goto(a), Call("dtor", Top.node))
                                                   /\ Top.node \in Nodes)
      PROVE  Top.node \notin A
  <2>1. Goto(a) = Append(Below, Call(a, Top.node)) /\ Call(a, Top.node) \in Frame
        /\ Call(a, Top.node).node = Top.node
    <3>1. Top.node \in Nodes \cup {NULL}
      BY <1>2, StackFacts
    <3>2. QED
      BY <1>2, <3>1, GotoFacts, CallFacts
  <2>2. /\ DOMAIN Goto(a) = 1 .. Len(Below) + 1 /\ Len(Below) \in Nat /\ Goto(a) \in Seq(Frame)
        /\ Goto(a)[Len(Below) + 1] = Call(a, Top.node) /\ Len(Goto(a)) = Len(Below) + 1
    BY <1>2, <2>1, Pushed
  <2>3. Len(Below) + 1 \in DOMAIN stack' /\ stack'[Len(Below) + 1] = Call(a, Top.node)
    <3>1. CASE stack' = Goto(a)
      BY <2>2, <3>1
    <3>2. CASE stack' = Append(Goto(a), Call("dtor", Top.node)) /\ Top.node \in Nodes
      <4>1. Call("dtor", Top.node) \in Frame
        BY <3>2, CallFacts DEF Calls
      <4>2. DOMAIN stack' = 1 .. Len(Goto(a)) + 1 /\ \A i \in 1 .. Len(Goto(a)) : stack'[i] = Goto(a)[i]
        BY <2>2, <3>2, <4>1, Pushed
      <4>3. QED
        BY <2>2, <4>2
    <3>3. QED
      BY <1>9, <3>1, <3>2
  <2>4. QED
    BY <1>1, <2>1, <2>3
<1>10. ASSUME Del PROVE Isolated(A)
  <2>1. held' = held /\ edge' = edge /\ Top.node \in Nodes /\ life \in [Nodes -> Lives]
    BY <1>10, <1>2, InvariantParts, TopNode DEF Del, HeapTypes
  <2>2. \/ life[Top.node] = "null" /\ life' = life
        \/ stack' = Append(Goto("del_dtor"), Call("dtor", Top.node))
        \/ life'[Top.node] = "freeing"
    BY <1>10, <2>1 DEF Del
  <2>3. Top.node \notin A
    BY <1>7, <1>9, <2>1, <2>2 DEF Calls
  <2>4. QED
    BY <1>6, <2>1, <2>3
<1>11. ASSUME DelAfterDestructor PROVE Isolated(A) \/ A \cap Roots' # {}
  <2>1. held' = held /\ edge' = edge /\ addr' = addr /\ Top.node \in Nodes /\ addr[Top.node] # 0
    BY <1>11, <1>2, InvariantParts, TopNode DEF DelAfterDestructor, SavedIsBuffered
  <2>2. QED
    BY <1>3, <1>6, <2>1
<1>12. ASSUME DelFree \/ Destroyed PROVE Isolated(A)
  <2>1. held' = held /\ edge' = edge /\ Top.node \in Nodes /\ life \in [Nodes -> Lives]
    BY <1>12, <1>2, InvariantParts, TopNode DEF DelFree, Destroyed, HeapTypes, heap
  <2>2. life'[Top.node] \in {"none", "null"}
    <3>1. CASE DelFree
      BY <2>1, <3>1 DEF DelFree
    <3>2. CASE Destroyed
      <4>1. life[Top.node] = "null"
        BY <1>2, <3>2, InvariantParts DEF Destroyed, FrameLife
      <4>2. QED
        BY <3>2, <4>1 DEF Destroyed, heap
    <3>3. QED
      BY <1>12, <3>1, <3>2
  <2>3. QED
    BY <1>6, <1>7, <2>1, <2>2
<1>13. ASSUME AfterFull PROVE Isolated(A) \/ A \cap Roots' # {}
  <2>1. held' = held /\ edge' = edge /\ (stack' = Goto("del") \/ stack' = Below)
    BY <1>13 DEF AfterFull, heap
  <2>2. CASE stack' = Goto("del")
    BY <1>6, <1>9, <2>1, <2>2 DEF Calls
  <2>3. CASE stack' = Below
    BY <1>3, <1>6, <1>13, <2>1, <2>3, AfterFullEnters
  <2>4. QED
    BY <2>1, <2>2, <2>3
<1>14. QED
  BY <1>4, <1>5, <1>8, <1>10, <1>11, <1>12, <1>13, OuterKinds

\* Outside the collector: what is lost has an entry.
LEMMA OuterLostIsBuffered ==
  ASSUME CollectorInvariant, GarbageInvariant, Outer
  PROVE  LostIsBuffered'
<1>1. gc.phase \in {"idle", "delref", "destroy"} /\ gc'.phase \in {"idle", "start", "delref", "destroy"}
  BY InvariantParts, OuterPhase, BegunFacts
<1>2. ASSUME NEW A \in SUBSET Nodes, A # {}, Isolated(A)' PROVE A \cap Roots' # {}
  <2>1. CASE Isolated(A)
    <3>1. PICK n \in A : n \in Roots
      BY <1>1, <1>2, <2>1 DEF GarbageInvariant, LostIsBuffered
    <3>2. n \in Nodes /\ life'[n] \in {"live", "destructed"}
      BY <1>2 DEF Isolated, Usable
    <3>3. DelFree => Top.node \in Nodes /\ life'[Top.node] = "none"
      BY InvariantParts, TopNode DEF DelFree, HeapTypes
    <3>4. n \in Roots'
      BY <3>1, <3>2, <3>3, OuterBuffer
    <3>5. QED
      BY <3>4
  <2>2. QED
    BY <1>2, <2>1, OuterIsolated DEF GarbageInvariant
<1>3. QED
  BY <1>1, <1>2 DEF LostIsBuffered

\* The stack has a new call on top.
LEMMA OnTop ==
  ASSUME NEW s \in Seq(Frame), NEW f \in Frame, stack' = Append(s, f)
  PROVE  Top' = f
<1>1. Len(stack') = Len(s) + 1 /\ stack'[Len(s) + 1] = f
  BY Pushed
<1>2. QED
  BY <1>1 DEF Top

\* Outside the collector: an object that its destructor has saved has an entry.
LEMMA OuterSaved ==
  ASSUME CollectorInvariant, Outer
  PROVE  SavedIsBuffered'
<1> SUFFICES ASSUME Top'.at = "del_dtor" PROVE addr'[Top'.node] # 0
  BY DEF SavedIsBuffered
<1>1. /\ StackTypes /\ StackShape /\ Top = stack[Len(stack)] /\ Len(stack) \in DOMAIN stack
      /\ stack \in Seq(Frame) /\ stack # <<>> /\ Below \in Seq(Frame) /\ Top.at # "run"
  BY InvariantParts, StackFacts, OuterPhase DEF StackTypes
<1>2. ASSUME NEW a \in Calls \ {"del_dtor"}, NEW n \in Nodes \cup {NULL}, NEW s \in Seq(Frame),
             stack' = Append(s, Call(a, n))
      PROVE  FALSE
  BY <1>2, OnTop, CallFacts
<1>3. ASSUME stack' = stack PROVE Top.at = "del_dtor"
  BY <1>3 DEF Top
<1>4. ASSUME stack' = Below, Len(stack) > 1 PROVE Top.at \in {"dtor", "full"} /\ Top.node = Top'.node
  BY <1>1, <1>4, BackToDel
<1>5. ASSUME NEW n \in Nodes, Taking(n) PROVE FALSE
  BY <1>3, <1>5 DEF Taking, InUserCode
<1>6. ASSUME NEW n \in Nodes, NEW s \in {stack, Below}, Letting(n, s) PROVE addr'[Top'.node] # 0
  <2>1. s \in Seq(Frame)
    BY <1>1, <1>6
  <2>2. stack' = s
    <3>1. \/ stack' = s
          \/ stack' = Append(s, Call("del", n))
          \/ stack' = Append(Append(s, Call("full", n)), Call("run", NULL))
      BY <1>6, <2>1, ReleaseStack DEF Letting
    <3>2. stack' # Append(s, Call("del", n))
      BY <1>2, <2>1 DEF Calls
    <3>3. stack' # Append(Append(s, Call("full", n)), Call("run", NULL))
      <4>1. Append(s, Call("full", n)) \in Seq(Frame)
        BY <2>1, CallFacts, Pushed DEF Calls
      <4>2. QED
        BY <1>2, <4>1 DEF Calls
    <3>4. QED
      BY <3>1, <3>2, <3>3
  <2>3. s = Below /\ Top.at = "dtor" /\ n = Top.node
    BY <1>3, <1>6, <2>2 DEF Letting, InUserCode
  <2>4. Len(stack) > 1
    BY <1>1, <2>3, TopNode
  <2>5. QED
    BY <1>4, <1>6, <2>2, <2>3, <2>4, LettingEnters
<1>7. ASSUME CollectCycles PROVE FALSE
  BY <1>1, <1>2, <1>7 DEF CollectCycles, Calls
<1>8. ASSUME Del \/ DelAfterDestructor \/ DelFree \/ Destroyed PROVE FALSE
  <2>1. Top.at \in {"del", "del_dtor", "del_free", "gc_free"} /\ Len(stack) > 1 /\ Top.node \in Nodes
    <3>1. Top.at \in {"del", "del_dtor", "del_free", "gc_free"}
      BY <1>8 DEF Del, DelAfterDestructor, DelFree, Destroyed
    <3>2. QED
      BY <1>1, <3>1, TopNode
  <2>2. \/ stack' = Below \/ stack' = Goto("del_free")
        \/ stack' = Append(Goto("del_dtor"), Call("dtor", Top.node))
    BY <1>8 DEF Del, DelAfterDestructor, DelFree, Destroyed
  <2>3. stack' # Goto("del_free")
    <3>1. Goto("del_free") = Append(Below, Call("del_free", Top.node))
      BY <1>1, GotoFacts DEF Calls
    <3>2. QED
      BY <1>1, <1>2, <2>1, <3>1 DEF Calls
  <2>4. stack' # Append(Goto("del_dtor"), Call("dtor", Top.node))
    <3>1. Goto("del_dtor") = Append(Below, Call("del_dtor", Top.node)) /\ Call("del_dtor", Top.node) \in Frame
      BY <1>1, GotoFacts DEF Calls
    <3>2. Goto("del_dtor") \in Seq(Frame)
      BY <1>1, <3>1, Pushed
    <3>3. QED
      BY <1>2, <2>1, <3>2 DEF Calls
  <2>5. QED
    BY <1>4, <2>1, <2>2, <2>3, <2>4
<1>9. ASSUME AfterFull PROVE addr'[Top'.node] # 0
  <2>1. Top.at = "full" /\ (stack' = Goto("del") \/ stack' = Below)
    BY <1>9 DEF AfterFull
  <2>2. Len(stack) > 1 /\ Top.node \in Nodes
    BY <1>1, <2>1, TopNode
  <2>3. stack' = Below
    <3>1. Goto("del") = Append(Below, Call("del", Top.node))
      BY <1>1, GotoFacts DEF Calls
    <3>2. QED
      BY <1>1, <1>2, <2>1, <2>2, <3>1 DEF Calls
  <2>4. QED
    BY <1>4, <1>9, <2>2, <2>3, AfterFullEnters
<1>10. QED
  BY <1>5, <1>6, <1>7, <1>8, <1>9, OuterKinds

\* Outside the collector: while a run without destructors frees, only the condemned go.
LEMMA OuterFreesNoOther ==
  ASSUME CollectorInvariant, FreesNoOther, Outer
  PROVE  FreesNoOther'
<1> SUFFICES ASSUME gc'.phase = "destroy", ~gc'.dtors
             PROVE  /\ \A i, j \in DOMAIN stack' : i > j /\ stack'[j].at = "run" => stack'[i].node \in Condemned'
                    /\ \A A \in SUBSET Nodes :
                         A # {} /\ A \subseteq Usable' \ Condemned' /\ A \cap held' = {}
                           /\ (\A i \in DOMAIN stack' : stack'[i].node \notin A)
                         => \E e \in edge' : e[2] \in A /\ e[1] \notin A \cup Condemned'
  BY DEF FreesNoOther
<1>1. gc' = gc /\ Top.at # "run" /\ gc_active
  <2>1. Top.at # "run" /\ gc' = gc
    BY InvariantParts, OuterPhase, BegunFacts
  <2>2. QED
    BY <2>1, InvariantParts DEF RunShape
<1>2. /\ \A i, j \in DOMAIN stack : i > j /\ stack[j].at = "run" => stack[i].node \in Condemned
      /\ \A A \in SUBSET Nodes :
           A # {} /\ A \subseteq Usable \ Condemned /\ A \cap held = {}
             /\ (\A i \in DOMAIN stack : stack[i].node \notin A)
           => \E e \in edge : e[2] \in A /\ e[1] \notin A \cup Condemned
  BY <1>1 DEF FreesNoOther
<1>3. /\ StackTypes /\ StackShape /\ Top = stack[Len(stack)] /\ Len(stack) \in DOMAIN stack
      /\ stack \in Seq(Frame) /\ stack # <<>> /\ Below \in Seq(Frame) /\ Len(stack) \in Nat
      /\ DOMAIN stack = 1 .. Len(stack)
      /\ \A j \in DOMAIN Below : j \in DOMAIN stack /\ Below[j] = stack[j] /\ j # Len(stack)
  BY InvariantParts, StackFacts DEF StackTypes
<1>4. Top.node \in Condemned
  <2>1. PICK j \in DOMAIN stack : stack[j].at = "run"
    BY <1>1, InvariantParts DEF RunShape, HasRun
  <2>2. j # Len(stack)
    BY <1>1, <1>3, <2>1
  <2>3. Len(stack) > j
    BY <1>3, <2>2
  <2>4. QED
    BY <1>2, <1>3, <2>1, <2>3
<1>5. /\ Top.at \in {"gc_free", "del", "del_free"} /\ Top.node \in Nodes /\ ~HasDestructor(Top.node)
      /\ Counted = edge
  <2>1. Top.at \in {"gc_free", "del", "del_free"} /\ Counted = edge
    BY <1>1, <1>3, <1>4, Quiet
  <2>2. QED
    BY <1>1, <1>3, <1>4, <2>1, InvariantParts, TopNode DEF CondemnedIsLost
<1>6. /\ held' = held
      /\ edge' = edge \/ \E m \in Nodes : edge' = edge \ {<<Top.node, m>>}
      /\ \/ stack' = Below \/ (~DelFree /\ stack' = stack)
         \/ ~DelFree /\ stack' = Append(Below, Call("del_free", Top.node))
         \/ \E n \in Nodes : ~DelFree /\ stack' = Append(stack, Call("del", n)) /\ ReleaseLast(n, stack) /\ Letting(n, stack)
                             /\ life[n] \in {"live", "destructed", "null"}
  <2>1. ASSUME NEW n \in Nodes, NEW s \in {stack, Below}, life[n] \in {"live", "destructed", "null"}, Letting(n, s), ~DelFree
        PROVE  /\ held' = held /\ \E m \in Nodes : edge' = edge \ {<<Top.node, m>>}
               /\ \/ stack' = stack
                  \/ stack' = Append(stack, Call("del", n)) /\ ReleaseLast(n, stack) /\ Letting(n, stack)
    <3>1. s = stack /\ held' = held /\ edge' = edge \ {<<Top.node, n>>}
      BY <1>5, <2>1 DEF Letting, InUserCode
    <3>2. Release(n, stack) /\ ~ReleaseFull(n, stack)
      BY <1>1, <2>1, <3>1 DEF Letting, ReleaseFull
    <3>3. QED
      BY <2>1, <3>1, <3>2 DEF Release, ReleaseLast, ReleaseBuffered
  <2>2. ASSUME Del PROVE held' = held /\ edge' = edge
                         /\ (stack' = Below \/ stack' = Append(Below, Call("del_free", Top.node)))
    <3>1. Goto("del_free") = Append(Below, Call("del_free", Top.node))
      BY <1>3, GotoFacts DEF Calls
    <3>2. QED
      BY <1>5, <2>2, <3>1 DEF Del
  <2>3. ASSUME DelFree \/ Destroyed PROVE held' = held /\ edge' = edge /\ stack' = Below
    BY <2>3 DEF DelFree, Destroyed, heap
  <2>4. ASSUME NEW n \in Nodes, Taking(n) PROVE FALSE
    BY <1>5, <2>4 DEF Taking, InUserCode
  <2>5. ~CollectCycles /\ ~DelAfterDestructor /\ ~AfterFull
    BY <1>5 DEF CollectCycles, InUserCode, DelAfterDestructor, AfterFull
  <2>6. Del => ~DelFree
    BY DEF Del, DelFree
  <2>7. CASE Del \/ DelFree \/ Destroyed
    BY <2>2, <2>3, <2>6, <2>7
  <2>8. CASE ~(Del \/ DelFree \/ Destroyed)
    <3>1. PICK n \in Nodes, s \in {stack, Below} : life[n] \in {"live", "destructed", "null"} /\ Letting(n, s)
      BY <2>4, <2>5, <2>8, OuterKinds
    <3>2. QED
      BY <2>1, <2>8, <3>1
  <2>9. QED
    BY <2>7, <2>8
<1>7. /\ Condemned' \subseteq Condemned /\ (~DelFree => Condemned' = Condemned)
      /\ DelFree => Condemned' = Condemned \ {Top.node} /\ life'[Top.node] = "none"
  <2>1. DelFree => life'[Top.node] = "none"
    BY <1>5, InvariantParts DEF DelFree, HeapTypes
  <2>2. QED
    BY <2>1, OuterBuffer
<1>8. ASSUME NEW n \in Nodes, n \in Usable', n \notin Condemned' PROVE n \in Usable \ Condemned
  <2>1. n \in Usable
    <3>1. life'[n] \in {"live", "destructed"}
      BY <1>8 DEF Usable
    <3>2. life'[n] = life[n] \/ life[n] = "live" \/ Taking(n)
      BY <3>1, OuterLife
    <3>3. ~Taking(n)
      BY <1>5 DEF Taking, InUserCode
    <3>4. QED
      BY <3>1, <3>2, <3>3 DEF Usable
  <2>2. n # Top.node \/ ~DelFree
    BY <1>7, <1>8 DEF Usable
  <2>3. QED
    BY <1>7, <1>8, <2>1, <2>2
<1>9. ASSUME NEW n \in Nodes, ReleaseLast(n, stack), Letting(n, stack), life[n] \in {"live", "destructed", "null"}
      PROVE  n \in Condemned
  <2> SUFFICES ASSUME n \notin Condemned PROVE FALSE
    OBVIOUS
  <2>1. n \in Usable
    BY <1>9, InvariantParts DEF Dying, Usable
  <2>2. InCount(edge', n) = 0 /\ HeldCount(held', n) = 0 /\ Frames(stack, n) = 0
    <3>1. /\ InCount(edge', n) \in Nat /\ HeldCount(held', n) \in Nat /\ Frames(stack, n) \in Nat
          /\ InCount(edge', n) + HeldCount(held', n) + Frames(stack, n) + 1
              = InCount(edge, n) + HeldCount(held, n) + Frames(stack, n)
      BY <1>9, LettingCount
    <3>2. /\ rc[n] = InCount(edge, n) + HeldCount(held, n) + Frames(stack, n) + Delayed(n)
          /\ Delayed(n) \in Nat /\ InCount(edge, n) \in Nat /\ HeldCount(held, n) \in Nat
      BY <1>5, AllCounts
    <3>3. rc[n] = 1
      BY <1>9 DEF ReleaseLast
    <3>4. ASSUME NEW a \in Nat, NEW b \in Nat, NEW c \in Nat, NEW d \in Nat, NEW x \in Nat, NEW y \in Nat,
                 a + b + c + 1 = x + y + c, 1 = x + y + c + d
          PROVE  a = 0 /\ b = 0 /\ c = 0
      BY <3>4
    <3>5. 1 = InCount(edge, n) + HeldCount(held, n) + Frames(stack, n) + Delayed(n)
      BY <3>2, <3>3
    <3>6. QED
      BY <3>1, <3>2, <3>4, <3>5
  <2>3. n \notin held
    BY <1>6, <2>2 DEF HeldCount
  <2>4. ASSUME NEW i \in DOMAIN stack PROVE stack[i].node \notin {n}
    <3> SUFFICES ASSUME stack[i].node = n PROVE FALSE
      OBVIOUS
    <3>1. stack[i].at = "del"
      BY <1>3, <2>2, FramesFacts
    <3>2. i = Len(stack)
      BY <1>3, <3>1 DEF StackShape, Shape
    <3>3. QED
      BY <1>3, <1>4, <3>2
  <2>5. PICK e \in edge : e[2] \in {n} /\ e[1] \notin {n} \cup Condemned
    <3>1. /\ {n} \in SUBSET Nodes /\ {n} # {} /\ {n} \subseteq Usable \ Condemned /\ {n} \cap held = {}
          /\ \A i \in DOMAIN stack : stack[i].node \notin {n}
      BY <2>1, <2>3, <2>4
    <3>2. QED
      BY <1>2, <3>1
  <2>6. e \in edge'
    BY <1>4, <1>6, <2>5
  <2>7. edge' \in SUBSET (Nodes \X Nodes)
    BY <1>6, InvariantParts DEF HeapTypes
  <2>8. QED
    BY <2>2, <2>5, <2>6, <2>7, InCountFacts
<1>10. ASSUME NEW i \in DOMAIN stack', NEW j \in DOMAIN stack', i > j, stack'[j].at = "run"
       PROVE  stack'[i].node \in Condemned'
  <2>1. ASSUME NEW n \in Nodes, NEW a \in {"del", "del_free"}, NEW s \in {stack, Below},
               stack' = Append(s, Call(a, n)), n \in Condemned', Condemned' = Condemned
        PROVE  stack'[i].node \in Condemned'
    <3>1. /\ Call(a, n) \in Frame /\ Call(a, n).at = a /\ Call(a, n).node = n
      BY CallFacts DEF Calls
    <3>2. s \in Seq(Frame) /\ \A k \in DOMAIN s : k \in DOMAIN stack /\ s[k] = stack[k]
      BY <1>3
    <3>3. /\ DOMAIN stack' = 1 .. Len(s) + 1 /\ Len(s) \in Nat /\ DOMAIN s = 1 .. Len(s)
          /\ stack'[Len(s) + 1] = Call(a, n)
          /\ \A k \in 1 .. Len(s) : stack'[k] = s[k]
      BY <2>1, <3>1, <3>2, Pushed
    <3>4. CASE i = Len(s) + 1
      BY <2>1, <3>1, <3>3, <3>4
    <3>5. CASE i # Len(s) + 1
      <4>1. i \in 1 .. Len(s) /\ j \in 1 .. Len(s)
        BY <1>10, <3>3, <3>5
      <4>2. QED
        BY <1>2, <1>10, <2>1, <3>2, <3>3, <4>1
    <3>6. QED
      BY <3>4, <3>5
  <2>2. CASE stack' = Below
    <3>1. i \in DOMAIN stack /\ j \in DOMAIN stack /\ stack'[i] = stack[i] /\ stack'[j] = stack[j] /\ i # Len(stack)
      BY <1>3, <2>2
    <3>2. stack'[i].node \in Condemned
      BY <1>2, <1>10, <3>1
    <3>3. DelFree => stack[i].node # Top.node
      BY <1>3, <3>1, InvariantParts DEF DelFree, FrameLife
    <3>4. QED
      BY <1>7, <3>1, <3>2, <3>3
  <2>3. CASE stack' = stack /\ ~DelFree
    BY <1>2, <1>7, <1>10, <2>3
  <2>4. CASE stack' = Append(Below, Call("del_free", Top.node)) /\ ~DelFree
    BY <1>4, <1>5, <1>7, <2>1, <2>4
  <2>5. CASE \E n \in Nodes : /\ ~DelFree /\ stack' = Append(stack, Call("del", n)) /\ ReleaseLast(n, stack)
                              /\ Letting(n, stack) /\ life[n] \in {"live", "destructed", "null"}
    BY <1>7, <1>9, <2>1, <2>5
  <2>6. QED
    BY <1>6, <2>2, <2>3, <2>4, <2>5
<1>11. ASSUME NEW A \in SUBSET Nodes, A # {}, A \subseteq Usable' \ Condemned', A \cap held' = {},
              \A i \in DOMAIN stack' : stack'[i].node \notin A
       PROVE  \E e \in edge' : e[2] \in A /\ e[1] \notin A \cup Condemned'
  <2>1. A \subseteq Usable \ Condemned /\ A \cap held = {}
    BY <1>6, <1>8, <1>11
  <2>2. \A i \in DOMAIN stack : stack[i].node \notin A
    <3> SUFFICES ASSUME NEW i \in DOMAIN stack PROVE stack[i].node \notin A
      OBVIOUS
    <3>1. CASE i = Len(stack)
      BY <1>3, <1>4, <2>1, <3>1
    <3>2. CASE i # Len(stack)
      BY <1>11, <3>2, OuterOld
    <3>3. QED
      BY <3>1, <3>2
  <2>3. PICK e \in edge : e[2] \in A /\ e[1] \notin A \cup Condemned
    BY <1>2, <1>11, <2>1, <2>2
  <2>4. e \in edge'
    BY <1>4, <1>6, <2>3
  <2>5. QED
    BY <1>7, <2>3, <2>4
<1>12. QED
  BY <1>10, <1>11

----------------------------------------------------------------------------
(* Garbage, in the steps of the collector.                                 *)

\* The steps of a run.
RunStep == Start \/ MarkStep \/ ScanStep \/ CollectStep \/ NestedStep \/ DtorStep \/ FreeStep

\* What a step of a run may do to the calls.
LEMMA RunCalls ==
  ASSUME CollectorInvariant, RunStep
  PROVE  /\ Top.at = "run"
         /\ \/ stack' = stack \/ stack' = Below
            \/ \E a \in {"dtor", "gc_free"}, n \in Nodes \cup {NULL} : stack' = Append(stack, Call(a, n))
<1>1. Top.at = "run"
  BY DEF RunStep, Start, MarkStep, MarkRoot, EndMark, MarkGrey, ScanStep, ScanRoot, EndScan, Scan, ScanBlack,
     CollectStep, CollectRoot, EndCollect, CollectWhite, NestedStep, NestedRoot, EndNested, RemoveNested,
     DtorStep, CallDestructor, AfterDestructor, EndDestructors, FreeStep, Destroy, FreeGarbage,
     NextLoop, Scanning, Running
<1>2. CASE Start \/ MarkStep \/ ScanStep \/ CollectStep \/ NestedStep
  BY <1>1, <1>2 DEF Start, EndRun, MarkStep, MarkRoot, EndMark, MarkGrey, ScanStep, ScanRoot, EndScan, Scan, ScanBlack,
     CollectStep, CollectRoot, EndCollect, CollectWhite, NestedStep, NestedRoot, EndNested, RemoveNested
<1>3. CASE AfterDestructor \/ EndDestructors \/ FreeGarbage
  BY <1>1, <1>3 DEF AfterDestructor, EndDestructors, FreeGarbage
<1>4. CASE CallDestructor \/ Destroy
  <2>1. Entry \in EntryType
    <3>1. gc_active /\ gc.idx <= gc.end
      BY <1>4, InvariantParts DEF CallDestructor, Destroy, Scanning, Running, RunShape
    <3>2. QED
      BY <3>1, InvariantParts, EntryFacts
  <2>2. Entry.ref \in Nodes \cup {NULL}
    BY <2>1 DEF EntryType
  <2>3. stack' = stack \/ stack' = Append(stack, Call("dtor", Entry.ref)) \/ stack' = Append(stack, Call("gc_free", Entry.ref))
    BY <1>4 DEF CallDestructor, Destroy
  <2>4. QED
    BY <1>1, <2>2, <2>3
<1>5. QED
  BY <1>1, <1>2, <1>3, <1>4, SMTT(30) DEF RunStep, DtorStep, FreeStep

\* The collector returns to no zend_objects_store_del behind a destructor.
LEMMA RunSaved ==
  ASSUME CollectorInvariant, RunStep
  PROVE  SavedIsBuffered'
<1>1. Top.at = "run" /\ StackTypes /\ StackShape /\ Len(stack) > 1
  BY RunCalls, RunOnTop, InvariantParts
<1>2. CASE stack' = stack
  BY <1>1, <1>2 DEF SavedIsBuffered, Top
<1>3. CASE stack' = Below
  <2>1. Top'.at # "del_dtor"
    BY <1>1, <1>3, BackToDel
  <2>2. QED
    BY <2>1 DEF SavedIsBuffered
<1>4. ASSUME NEW a \in {"dtor", "gc_free"}, NEW n \in Nodes \cup {NULL}, stack' = Append(stack, Call(a, n))
      PROVE  SavedIsBuffered'
  <2>1. Call(a, n) \in Frame /\ Call(a, n).at = a
    BY CallFacts DEF Calls
  <2>2. Top' = Call(a, n)
    BY <1>1, <1>4, <2>1, OnTop DEF StackTypes
  <2>3. QED
    BY <2>1, <2>2 DEF SavedIsBuffered
<1>5. QED
  BY <1>2, <1>3, <1>4, RunCalls

\* What nothing leads to after a step of a run that keeps the references was so before.
LEMMA RunIsolated ==
  ASSUME CollectorInvariant, RunStep, UNCHANGED <<edge, held>>, Usable' \subseteq Usable,
         NEW A \in SUBSET Nodes, Isolated(A)'
  PROVE  Isolated(A)
<1>1. /\ A \subseteq Usable' /\ A \cap held' = {}
      /\ \A i \in DOMAIN stack' : stack'[i].node \notin A
      /\ \A e \in edge' : e[2] \in A => e[1] \in A
  BY DEF Isolated
<1>2. /\ Top.at = "run" /\ stack \in Seq(Frame) /\ stack # <<>>
  BY RunCalls, InvariantParts DEF StackTypes
<1>3. ASSUME NEW i \in DOMAIN stack PROVE stack[i].node \notin A
  <2>1. CASE stack[i].at = "run"
    <3>1. stack[i].node = NULL
      BY <2>1, InvariantParts DEF StackShape, Shape
    <3>2. QED
      BY <3>1, ConstantsAssumption
  <2>2. CASE stack[i].at # "run"
    <3>1. CASE stack' = stack
      BY <1>1, <3>1
    <3>2. CASE stack' = Below
      BY <1>1, <1>2, <2>2, <3>2, RunOver
    <3>3. ASSUME NEW a \in {"dtor", "gc_free"}, NEW n \in Nodes \cup {NULL}, stack' = Append(stack, Call(a, n))
          PROVE  stack[i].node \notin A
      <4>1. Call(a, n) \in Frame
        BY CallFacts DEF Calls
      <4>2. DOMAIN stack' = 1 .. Len(stack) + 1 /\ Len(stack) \in Nat /\ DOMAIN stack = 1 .. Len(stack)
            /\ \A k \in 1 .. Len(stack) : stack'[k] = stack[k]
        BY <1>2, <3>3, <4>1, Pushed
      <4>3. i \in DOMAIN stack' /\ stack'[i] = stack[i]
        BY <4>2
      <4>4. QED
        BY <1>1, <4>3
    <3>4. QED
      BY <3>1, <3>2, <3>3, RunCalls
  <2>3. QED
    BY <2>1, <2>2
<1>4. QED
  BY <1>1, <1>3 DEF Isolated

\* A step of a run that leaves the roots in the buffer, but those it frees.
LEMMA RunLost ==
  ASSUME CollectorInvariant, LostIsBuffered, RunStep, UNCHANGED <<edge, held>>, Usable' \subseteq Usable,
         gc.phase # "collect", gc'.phase \notin {"scan", "collect", "nested"},
         \A n \in Roots : n \in Usable' => n \in Roots'
  PROVE  LostIsBuffered'
<1>1. ASSUME NEW A \in SUBSET Nodes, A # {}, Isolated(A)' PROVE A \cap Roots' # {}
  <2>1. Isolated(A) /\ A \subseteq Usable'
    BY <1>1, RunIsolated DEF Isolated
  <2>2. A \cap Roots # {}
    BY <1>1, <2>1 DEF LostIsBuffered
  <2>3. QED
    BY <2>1, <2>2
<1>2. QED
  BY <1>1 DEF LostIsBuffered

\* The beginning of a run, and its end when there are no roots.
LEMMA StartLost ==
  ASSUME CollectorInvariant, LostIsBuffered, Start
  PROVE  LostIsBuffered'
<1>1. /\ Top.at = "run" /\ gc.phase = "start" /\ UNCHANGED <<life, edge, held, color, num_roots>>
      /\ buf' = Compacted(buf, num_roots) /\ unused' = <<>> /\ addr' = AddrIn(buf', addr)
      /\ gc' = IdleGc \/ gc' = [gc EXCEPT !.phase = "mark", !.idx = 1, !.end = num_roots]
  BY DEF Start, Running, heap, EndRun
<1>2. Roots' = Roots
  <2>1. \A n \in Nodes : addr'[n] # 0 <=> addr[n] # 0
    BY <1>1, StartFacts
  <2>2. QED
    BY <2>1 DEF Roots
<1>3. gc'.phase \in {"idle", "mark"}
  <2>1. gc \in GcType
    BY InvariantParts DEF GcTypes
  <2>2. QED
    BY <1>1, <2>1, BegunFacts DEF GcType
<1>4. Usable' = Usable /\ RunStep
  BY <1>1 DEF Usable, RunStep
<1>5. QED
  BY <1>1, <1>2, <1>3, <1>4, RunLost

\* Marking.
LEMMA MarkLost ==
  ASSUME CollectorInvariant, LostIsBuffered, MarkRoot \/ \E r \in Nodes : MarkGrey(r)
  PROVE  LostIsBuffered'
<1>1. /\ Top.at = "run" /\ gc.phase = "mark" /\ UNCHANGED <<heap, addr, buffer, stack>>
  BY DEF MarkRoot, MarkGrey, Scanning, Running
<1>2. gc'.phase = "mark"
  <2>1. gc \in GcType
    BY InvariantParts DEF GcTypes
  <2>2. gc'.phase = gc.phase
    BY <2>1 DEF GcType, MarkRoot, MarkGrey
  <2>3. QED
    BY <1>1, <2>2
<1>3. Roots' = Roots /\ Usable' = Usable /\ RunStep /\ UNCHANGED <<edge, held>>
  BY <1>1 DEF Roots, Usable, heap, RunStep, MarkStep
<1>4. QED
  BY <1>1, <1>2, <1>3, RunLost

\* After gc_mark_roots, all that nothing leads to is grey: what is not would have a root
\* among it, and the roots are grey.
LEMMA EndMarkLost ==
  ASSUME CollectorInvariant, LostIsBuffered, EndMark
  PROVE  LostIsBuffered'
<1>1. /\ Top.at = "run" /\ gc.phase = "mark" /\ gc.work = {} /\ gc.idx > gc.end
      /\ gc' = [gc EXCEPT !.phase = "scan", !.idx = 1]
      /\ UNCHANGED <<life, edge, held, color, addr, stack>>
  BY DEF EndMark, NextLoop, Running, NoWork, counts, heap
<1>2. /\ gc.idx \in Nat /\ gc.end \in Nat /\ gc \in GcType /\ color \in [Nodes -> Colors]
      /\ \A n \in Roots : addr[n] <= gc.end /\ addr[n] \in Nat
  BY <1>1, RootEntry, InvariantParts DEF CountTypes
<1>3. /\ Roots' = Roots /\ Usable' = Usable /\ RunStep /\ Colored("grey")' = Colored("grey") /\ gc'.phase = "scan"
  BY <1>1, <1>2 DEF Roots, Usable, RunStep, MarkStep, Colored, GcType
<1>4. /\ \A n \in Nodes : /\ color[n] # "white"
                          /\ color[n] = "purple" => addr[n] >= gc.idx
                          /\ addr[n] # 0 => color[n] # "black"
      /\ \A e \in Follow : color[e[1]] = "grey" /\ e[1] \notin gc.work => color[e[2]] = "grey"
  BY <1>1, InvariantParts DEF Marking
<1>5. ASSUME NEW n \in Roots PROVE color[n] = "grey"
  <2>1. n \in Nodes /\ addr[n] # 0 /\ color[n] \in Colors
    BY <1>2 DEF Roots
  <2>2. ~(addr[n] >= gc.idx)
    BY <1>1, <1>2
  <2>3. QED
    BY <1>4, <2>1, <2>2 DEF Colors
<1>6. ASSUME NEW A \in SUBSET Nodes, A # {}, Isolated(A)'
      PROVE  A \subseteq Colored("grey") /\ A \cap Roots # {}
  <2>1. Isolated(A)
    BY <1>1, <1>3, <1>6, RunIsolated
  <2>2. A \cap Roots # {}
    BY <1>1, <1>6, <2>1 DEF LostIsBuffered
  <2> DEFINE B == A \ Colored("grey")
  <2>3. Isolated(B)
    <3>1. ASSUME NEW e \in edge, e[2] \in B PROVE e[1] \in B
      <4>1. e[1] \in A /\ e[1] \in Usable
        BY <2>1, <3>1 DEF Isolated
      <4>2. e \in Follow
        BY <4>1 DEF Follow
      <4>3. color[e[2]] # "grey"
        BY <3>1 DEF Colored
      <4>4. QED
        BY <1>1, <1>4, <4>1, <4>2, <4>3 DEF Colored
    <3>2. QED
      BY <2>1, <3>1 DEF Isolated
  <2>4. B \cap Roots = {}
    BY <1>5 DEF Colored, Roots
  <2>5. B = {}
    <3>1. B \in SUBSET Nodes
      OBVIOUS
    <3> HIDE DEF B
    <3>2. QED
      BY <1>1, <2>3, <2>4, <3>1 DEF LostIsBuffered
  <2>6. QED
    BY <2>2, <2>5
<1>7. QED
  BY <1>3, <1>6 DEF LostIsBuffered

\* Scanning: what nothing leads to has no count left, and nothing black leads to it.
LEMMA ScanLost ==
  ASSUME CollectorInvariant, LostIsBuffered, ScanRoot \/ \E r \in Nodes : Scan(r) \/ ScanBlack(r)
  PROVE  LostIsBuffered'
<1>1. /\ Top.at = "run" /\ gc.phase = "scan" /\ UNCHANGED <<life, edge, held, addr, buf, stack>>
      /\ color \in [Nodes -> Colors] /\ gc \in GcType
  BY InvariantParts DEF ScanRoot, Scan, ScanBlack, Scanning, Running, heap, buffer, CountTypes, GcTypes
<1>2. gc'.phase = "scan"
  <2>1. gc'.phase = gc.phase
    BY <1>1 DEF GcType, ScanRoot, Scan, ScanBlack
  <2>2. QED
    BY <1>1, <2>1
<1>3. Roots' = Roots /\ Usable' = Usable /\ RunStep
  BY <1>1 DEF Roots, Usable, RunStep, ScanStep
<1>4. ASSUME NEW A \in SUBSET Nodes, A # {}, Isolated(A)'
      PROVE  A \subseteq Colored("grey")' \cup Colored("white")' /\ A \cap Roots # {}
  <2>1. Isolated(A)
    BY <1>1, <1>3, <1>4, RunIsolated
  <2>2. A \cap Roots # {} /\ A \subseteq Colored("grey") \cup Colored("white")
    BY <1>1, <1>4, <2>1 DEF LostIsBuffered
  <2>3. ASSUME NEW n \in A PROVE color'[n] \in {"grey", "white"}
    <3>1. n \in Nodes /\ color[n] \in {"grey", "white"}
      BY <2>2 DEF Colored
    <3>2. CASE ScanRoot
      <4>1. color' = color \/ color' = [color EXCEPT ![Entry.ref] = "white"]
        BY <3>2 DEF ScanRoot
      <4>2. QED
        BY <1>1, <3>1, <4>1
    <3>3. ASSUME NEW r \in Nodes, Scan(r) PROVE color'[n] \in {"grey", "white"}
      <4>1. CASE rc[r] = 0 \/ color[r] # "white"
        <5>1. color'[n] = color[n] \/ color'[n] = "white"
          <6> DEFINE new == {m \in Children(r) : color[m] = "grey"}
          <6>1. ~(rc[r] > 0 /\ color[r] = "white")
            BY <4>1
          <6>2. color' = color \/ color' = [m \in Nodes |-> IF m \in new THEN "white" ELSE color[m]]
            BY <3>3, <6>1 DEF Scan
          <6> HIDE DEF new
          <6>3. QED
            BY <3>1, <6>2
        <5>2. QED
          BY <3>1, <5>1
      <4>2. CASE rc[r] # 0 /\ color[r] = "white"
        <5>1. color' = [color EXCEPT ![r] = "black"]
          BY <3>3, <4>2 DEF Scan
        <5>2. r \notin A
          <6> SUFFICES ASSUME r \in A PROVE FALSE
            OBVIOUS
          <6>1. r \in Usable /\ r \notin held /\ (\A i \in DOMAIN stack : stack[i].node # r)
                /\ \A e \in edge : e[2] = r => e[1] \in A
            BY <2>1 DEF Isolated
          <6>2. life[r] # "none"
            BY <6>1 DEF Usable
          <6>3. /\ rc[r] = InCount(Counted, r) + HeldCount(held, r) + Frames(stack, r)
                /\ Counted \in SUBSET (Nodes \X Nodes)
            BY <1>1, <6>2, CountFacts
          <6>4. \A e \in Counted : e[2] # r
            <7>1. \A e \in edge : e[2] = r => e[1] \in Usable /\ e[1] \in Taken
              BY <1>1, <2>1, <2>2, <6>1, TakenFacts DEF Isolated
            <7>2. QED
              BY <7>1 DEF Counted
          <6>5. InCount(Counted, r) = 0
            BY <6>3, <6>4, InCountFacts
          <6>6. Frames(stack, r) = 0 /\ HeldCount(held, r) = 0
            <7>1. {i \in DOMAIN stack : stack[i].node = r /\ stack[i].at # "del"} = {}
              BY <6>1
            <7>2. QED
              BY <6>1, <7>1, FS_EmptySet DEF Frames, HeldCount
          <6>7. QED
            BY <4>2, <6>3, <6>5, <6>6
        <5>3. QED
          BY <1>1, <3>1, <5>1, <5>2
      <4>3. QED
        BY <4>1, <4>2
    <3>4. ASSUME NEW r \in Nodes, ScanBlack(r) PROVE color'[n] \in {"grey", "white"}
      <4>1. n \notin Children(r)
        <5>1. color[r] = "black"
          BY <1>1, <3>4, InvariantParts DEF ScanBlack, Scanned, Colored
        <5>2. r \notin A
          BY <2>2, <5>1 DEF Colored
        <5>3. <<r, n>> \notin edge
          BY <2>1, <5>2 DEF Isolated
        <5>4. QED
          BY <5>3 DEF Children
      <4>2. color'[n] = color[n]
        BY <3>1, <3>4, <4>1 DEF ScanBlack
      <4>3. QED
        BY <3>1, <4>2
    <3>5. QED
      BY <3>2, <3>3, <3>4
  <2>4. QED
    BY <2>2, <2>3 DEF Colored
<1>5. QED
  BY <1>2, <1>3, <1>4 DEF LostIsBuffered

\* After gc_scan_roots, all that nothing leads to is white.
LEMMA EndScanLost ==
  ASSUME CollectorInvariant, LostIsBuffered, EndScan
  PROVE  LostIsBuffered'
<1>1. /\ Top.at = "run" /\ gc.phase = "scan" /\ NoWork /\ gc.idx > gc.end /\ gc \in GcType
      /\ UNCHANGED <<life, edge, held, color, stack>>
      /\ gc' = [gc EXCEPT !.phase = "collect", !.idx = 1, !.end = num_roots', !.dtors = FALSE]
  BY InvariantParts DEF EndScan, Running, heap, GcTypes
<1>2. /\ Usable' = Usable /\ RunStep /\ Colored("white")' = Colored("white") /\ gc'.phase = "collect"
  BY <1>1 DEF Usable, RunStep, ScanStep, EndScan, Colored, GcType
<1>3. ASSUME NEW A \in SUBSET Nodes, A # {}, Isolated(A)' PROVE A \subseteq Doomed'
  <2>1. Isolated(A)
    BY <1>1, <1>2, <1>3, RunIsolated
  <2>2. A \subseteq Colored("grey") \cup Colored("white")
    BY <1>1, <1>3, <2>1 DEF LostIsBuffered
  <2>3. Colored("grey") = {}
    BY <1>1, WhiteIsLost
  <2>4. QED
    BY <1>2, <2>2, <2>3 DEF Doomed
<1>4. QED
  BY <1>2, <1>3 DEF LostIsBuffered

\* Collecting.
LEMMA CollectLost ==
  ASSUME CollectorInvariant, LostIsBuffered, CollectRoot \/ \E r \in Nodes : CollectWhite(r)
  PROVE  LostIsBuffered'
<1>1. /\ Top.at = "run" /\ gc.phase = "collect" /\ UNCHANGED <<life, edge, held, stack>>
      /\ color \in [Nodes -> Colors] /\ gc \in GcType /\ gc.work \in SUBSET Nodes /\ Len(buf) \in Nat
      /\ addr \in [Nodes -> 0 .. Len(buf)]
  <2>1. Top.at = "run" /\ gc.phase = "collect" /\ UNCHANGED <<life, edge, held, stack>>
    BY DEF CollectRoot, CollectWhite, Scanning, Running, heap
  <2>2. QED
    BY <2>1, InvariantParts, CollectFacts DEF AddrTypes
<1>2. Usable' = Usable /\ RunStep
  BY <1>1 DEF Usable, RunStep, CollectStep
<1>3. gc'.phase = "collect"
  <2>1. gc'.phase = gc.phase
    BY <1>1 DEF GcType, CollectRoot, CollectWhite
  <2>2. QED
    BY <1>1, <2>1
<1>4. ASSUME NEW A \in SUBSET Nodes, A # {}, Isolated(A)' PROVE A \subseteq Doomed'
  <2>1. Isolated(A)
    BY <1>1, <1>2, <1>4, RunIsolated
  <2>2. A \subseteq Doomed /\ A \subseteq Usable
    BY <1>1, <1>4, <2>1 DEF LostIsBuffered, Isolated
  <2>3. ASSUME NEW n \in A PROVE color'[n] = "white" \/ n \in gc'.work \/ addr'[n] # 0
    <3>1. n \in Nodes /\ life[n] \in {"live", "destructed"} /\ (color[n] = "white" \/ n \in gc.work \/ addr[n] # 0)
      BY <2>2 DEF Doomed, Colored, Roots, Usable
    <3>2. CASE CollectRoot
      <4> DEFINE x == Entry.ref
      <4>1. /\ addr' = addr /\ gc.work = {}
            /\ \/ color' = color
               \/ color' = [color EXCEPT ![x] = "black"] /\ gc' = [gc EXCEPT !.idx = @ + 1, !.work = {x}]
        BY <3>2 DEF CollectRoot, Scanning, NoWork
      <4> HIDE DEF x
      <4>2. CASE n = x /\ color' # color
        <5>1. gc'.work = {x}
          BY <1>1, <4>1, <4>2 DEF GcType
        <5>2. QED
          BY <4>2, <5>1
      <4>3. CASE n # x \/ color' = color
        BY <1>1, <3>1, <4>1, <4>3
      <4>4. QED
        BY <4>2, <4>3
    <3>3. ASSUME NEW r \in Nodes, CollectWhite(r) PROVE color'[n] = "white" \/ n \in gc'.work \/ addr'[n] # 0
      <4> DEFINE new == {m \in Children(r) : color[m] = "white"}
      <4>1. /\ color' = [m \in Nodes |-> IF m \in new THEN "black" ELSE color[m]]
            /\ gc' = [gc EXCEPT !.work = (@ \ {r}) \cup new, !.dtors = @ \/ HasDestructor(r)]
            /\ addr' = IF addr[r] = 0 /\ life[r] \in {"live", "destructed"}
                         THEN [addr EXCEPT ![r] = Len(buf) + 1] ELSE addr
        BY <3>3 DEF CollectWhite
      <4> HIDE DEF new
      <4>2. gc'.work = (gc.work \ {r}) \cup new
        BY <1>1, <4>1 DEF GcType
      <4>3. CASE n \in new
        BY <4>2, <4>3
      <4>4. CASE n \notin new /\ color[n] = "white"
        BY <3>1, <4>1, <4>4
      <4>5. CASE n \in gc.work /\ n # r
        BY <4>2, <4>5
      <4>6. CASE addr[n] # 0
        BY <1>1, <3>1, <4>1, <4>6
      <4>7. CASE n = r /\ addr[n] = 0
        <5>1. addr'[n] = Len(buf) + 1
          BY <1>1, <3>1, <4>1, <4>7
        <5>2. QED
          BY <1>1, <5>1
      <4>8. QED
        BY <3>1, <4>3, <4>4, <4>5, <4>6, <4>7
    <3>4. QED
      BY <3>2, <3>3
  <2>4. QED
    BY <2>3 DEF Doomed, Colored, Roots
<1>5. QED
  BY <1>3, <1>4 DEF LostIsBuffered

\* After gc_collect_roots, all that nothing leads to is in the buffer.
LEMMA CollectedAll ==
  ASSUME CollectorInvariant, LostIsBuffered, Top.at = "run", gc.phase = "collect", NoWork, gc.idx > gc.end,
         NEW A \in SUBSET Nodes, Isolated(A)
  PROVE  A \subseteq Roots
<1>1. CASE A = {}
  BY <1>1
<1>2. CASE A # {}
  <2>1. A \subseteq Doomed
    BY <1>2 DEF LostIsBuffered
  <2>2. \A n \in Nodes : color[n] = "black"
    BY AllCollected
  <2>3. QED
    BY <2>1, <2>2 DEF Doomed, Colored, NoWork
<1>3. QED
  BY <1>1, <1>2

\* The end of gc_collect_roots.
LEMMA EndCollectLost ==
  ASSUME CollectorInvariant, LostIsBuffered, EndCollect
  PROVE  LostIsBuffered'
<1>1. /\ Top.at = "run" /\ gc.phase = "collect" /\ NoWork /\ gc.idx > gc.end
      /\ UNCHANGED <<edge, held, addr, num_roots>> /\ gc \in GcType /\ Len(buf) \in Nat
      /\ life \in [Nodes -> Lives]
  <2>1. /\ Top.at = "run" /\ gc.phase = "collect" /\ NoWork /\ gc.idx > gc.end
        /\ UNCHANGED <<edge, held, addr, num_roots>>
    BY DEF EndCollect, Running
  <2>2. QED
    BY <2>1, CollectFacts, InvariantParts DEF HeapTypes
<1>2. Usable' = Usable /\ RunStep /\ Roots' = Roots
  <2>1. \A n \in Nodes : life'[n] = life[n] \/ (life[n] = "live" /\ life'[n] = "destructed")
    <3> DEFINE G == {buf[i].ref : i \in {j \in DOMAIN buf : buf[j].tag = "GARBAGE"}}
               first == {n \in G : HasDestructor(n)}
    <3>1. \/ life' = life
          \/ life' = [n \in Nodes |-> IF n \in G \ first /\ life[n] = "live" THEN "destructed" ELSE life[n]]
      BY DEF EndCollect
    <3> HIDE DEF G, first
    <3>2. QED
      BY <3>1
  <2>2. QED
    BY <1>1, <2>1 DEF Usable, RunStep, CollectStep, Roots
<1>3. ASSUME NEW A \in SUBSET Nodes, A # {}, Isolated(A)' PROVE A \subseteq Roots /\ A \cap Roots # {}
  <2>1. Isolated(A)
    BY <1>1, <1>2, <1>3, RunIsolated
  <2>2. A \subseteq Roots
    BY <1>1, <2>1, CollectedAll
  <2>3. QED
    BY <1>3, <2>2
<1>4. /\ gc'.phase \notin {"scan", "collect"}
      /\ gc'.phase = "nested" => gc'.work = {}
  <2>1. \/ gc' = IdleGc
        \/ gc' = [gc EXCEPT !.phase = "destroy", !.idx = 1, !.end = Len(buf)]
        \/ gc' = [gc EXCEPT !.phase = "nested", !.idx = 1, !.end = Len(buf),
                            !.rerun = IF @ = "no" THEN "wanted" ELSE @]
    BY DEF EndCollect, EndRun
  <2>2. CASE gc' = IdleGc
    BY <2>2, BegunFacts
  <2>3. CASE gc' = [gc EXCEPT !.phase = "destroy", !.idx = 1, !.end = Len(buf)]
    <3>1. gc'.phase = "destroy"
      BY <1>1, <2>3 DEF GcType
    <3>2. QED
      BY <3>1
  <2>4. CASE gc' = [gc EXCEPT !.phase = "nested", !.idx = 1, !.end = Len(buf),
                              !.rerun = IF @ = "no" THEN "wanted" ELSE @]
    <3>1. gc'.phase = "nested" /\ gc'.work = gc.work
      BY <1>1, <2>4, GcNested
    <3>2. QED
      BY <1>1, <3>1 DEF NoWork
  <2>5. QED
    BY <2>1, <2>2, <2>3, <2>4
<1>5. QED
  BY <1>2, <1>3, <1>4 DEF LostIsBuffered

\* gc_remove_nested_data_from_buffer: what leaves the buffer is still reachable from an
\* object whose destructor will be called.
LEMMA NestedLost ==
  ASSUME CollectorInvariant, LostIsBuffered, NestedRoot \/ \E r \in Nodes : RemoveNested(r)
  PROVE  LostIsBuffered'
<1>1. /\ Top.at = "run" /\ gc.phase = "nested" /\ UNCHANGED <<life, edge, held, stack>>
  BY DEF NestedRoot, RemoveNested, Scanning, Running, heap
<1>2. Usable' = Usable /\ RunStep
  BY <1>1 DEF Usable, RunStep, NestedStep
<1>3. /\ gc \in GcType /\ gc.work \in SUBSET Nodes
      /\ (\A n \in Nodes : addr[n] # 0 =>
            addr[n] \in DOMAIN buf /\ buf[addr[n]].tag # "UNUSED" /\ buf[addr[n]].ref = n)
      /\ (\A i \in DOMAIN buf : buf[i].tag # "UNUSED" => buf[i].ref \in Nodes /\ addr[buf[i].ref] = i)
      /\ (\A n \in Nodes : color[n] = IF addr[n] # 0 /\ TagOf(n) # "GARBAGE" THEN "purple" ELSE "black")
      /\ BufferInvariant
  BY <1>1, LaterFacts
<1>4. gc'.phase = "nested"
  <2>1. gc'.phase = gc.phase
    BY <1>3 DEF GcType, NestedRoot, RemoveNested
  <2>2. QED
    BY <1>1, <2>1
<1> DEFINE D == Tagged("DTOR_GARBAGE")
<1>5. D \subseteq Roots /\ D' \subseteq Roots'
  BY DEF Tagged, Roots
<1>6. ASSUME NEW A \in SUBSET Nodes, A # {}, Isolated(A)'
      PROVE  (A \subseteq Roots' /\ A \cap gc'.work = {}) \/ A \cap D' # {}
  <2>1. Isolated(A)
    BY <1>1, <1>2, <1>6, RunIsolated
  <2>2. (A \subseteq Roots /\ A \cap gc.work = {}) \/ A \cap D # {}
    BY <1>1, <1>6, <2>1 DEF LostIsBuffered
  <2>3. ASSUME NEW n, NEW m \in Children(n), m \in A PROVE n \in A
    <3>1. <<n, m>> \in edge
      BY <2>3 DEF Children
    <3>2. QED
      BY <2>1, <2>3, <3>1 DEF Isolated
  <2>4. CASE NestedRoot
    <3> DEFINE W == IF Entry.tag = "DTOR_GARBAGE" THEN Children(Entry.ref) ELSE {}
    <3>1. /\ gc.work = {} /\ gc' = [gc EXCEPT !.idx = @ + 1, !.work = W] /\ UNCHANGED <<addr, buf>>
          /\ gc_active /\ gc.idx <= gc.end
      BY <1>1, <2>4, LaterFacts DEF NestedRoot, Scanning, NoWork, counts, buffer, NestedIn
    <3>2. D' = D /\ Roots' = Roots
      BY <3>1 DEF Tagged, TagOf, Roots
    <3>3. gc'.work = W
      <4> HIDE DEF W
      <4>1. QED
        BY <1>3, <3>1 DEF GcType
    <3>4. ASSUME NEW m \in W, m \in A PROVE A \cap D # {}
      <4>1. Entry.tag = "DTOR_GARBAGE" /\ Entry.ref \in A
        BY <2>3, <3>4
      <4>2. gc.idx \in DOMAIN buf /\ Entry = buf[gc.idx] /\ addr[Entry.ref] = gc.idx /\ gc.idx \in 1 .. Len(buf)
        BY <3>1, <4>1, InvariantParts, EntryFacts
      <4>3. Entry.ref \in D
        BY <4>1, <4>2 DEF Tagged, TagOf
      <4>4. QED
        BY <4>1, <4>3
    <3> HIDE DEF W, D
    <3>5. QED
      BY <2>2, <3>2, <3>3, <3>4
  <2>5. ASSUME NEW r \in Nodes, RemoveNested(r)
        PROVE  (A \subseteq Roots' /\ A \cap gc'.work = {}) \/ A \cap D' # {}
    <3>1. r \in gc.work
      BY <2>5 DEF RemoveNested
    <3>2. CASE addr[r] # 0 /\ color[r] = "black"
      <4>1. RemoveFromBuffer(r) /\ gc' = [gc EXCEPT !.work = (@ \ {r}) \cup Children(r)]
        BY <2>5, <3>2 DEF RemoveNested
      <4>2. gc'.work = (gc.work \ {r}) \cup Children(r)
        BY <1>3, <4>1 DEF GcType
      <4>3. /\ addr' = [addr EXCEPT ![r] = 0] /\ addr \in [Nodes -> 0 .. Len(buf)]
            /\ \A i \in DOMAIN buf : i # addr[r] => buf'[i] = buf[i]
        BY <1>3, <3>2, <4>1, InvariantParts, RemoveFacts DEF AddrTypes
      <4>4. Roots' = Roots \ {r}
        BY <4>3 DEF Roots
      <4>5. r \notin D
        BY <1>3, <3>2 DEF Tagged
      <4>6. ASSUME NEW n \in D PROVE n \in D'
        <5>1. n \in Nodes /\ n # r /\ addr[n] # 0 /\ buf[addr[n]].tag = "DTOR_GARBAGE"
          BY <4>5 DEF Tagged, TagOf
        <5>2. addr'[n] = addr[n] /\ addr[n] # addr[r] /\ addr[n] \in DOMAIN buf
          BY <1>3, <3>2, <4>3, <5>1
        <5>3. QED
          BY <4>3, <5>1, <5>2 DEF Tagged, TagOf
      <4> HIDE DEF D
      <4>7. CASE A \cap D # {}
        BY <4>6, <4>7
      <4>8. CASE A \subseteq Roots /\ A \cap gc.work = {}
        <5>1. r \notin A
          BY <3>1, <4>8
        <5>2. A \cap Children(r) = {}
          BY <2>3, <5>1
        <5>3. QED
          BY <4>2, <4>4, <4>8, <5>1, <5>2
      <4>9. QED
        BY <2>2, <4>7, <4>8
    <3>3. CASE ~(addr[r] # 0 /\ color[r] = "black")
      <4>1. gc' = [gc EXCEPT !.work = @ \ {r}] /\ UNCHANGED <<addr, buf>>
        BY <2>5, <3>3 DEF RemoveNested, buffer
      <4>2. gc'.work = gc.work \ {r}
        BY <1>3, <4>1 DEF GcType
      <4>3. D' = D /\ Roots' = Roots
        BY <4>1 DEF Tagged, TagOf, Roots
      <4> HIDE DEF D
      <4>4. QED
        BY <2>2, <4>2, <4>3
    <3>4. QED
      BY <3>2, <3>3
  <2>6. QED
    BY <2>4, <2>5
<1> HIDE DEF D
<1>7. ASSUME NEW A \in SUBSET Nodes, A # {}, Isolated(A)' PROVE A \cap Roots' # {}
  BY <1>5, <1>6, <1>7
<1>8. QED
  BY <1>4, <1>6, <1>7 DEF LostIsBuffered, D

\* The rest of a run: around the destructors, and freeing.
LEMMA LaterLost ==
  ASSUME CollectorInvariant, LostIsBuffered, EndNested \/ DtorStep \/ FreeStep
  PROVE  LostIsBuffered'
<1>1. RunStep
  BY DEF RunStep, NestedStep
<1>2. gc \in GcType
  BY InvariantParts DEF GcTypes
<1>3. CASE EndNested \/ EndDestructors \/ AfterDestructor
  <2>1. UNCHANGED <<life, edge, held, addr>> /\ gc.phase # "collect"
    BY <1>3 DEF EndNested, EndDestructors, AfterDestructor, NextLoop, Running, heap, counts
  <2>2. gc'.phase \in {"dtors", "destroy"}
    BY <1>2, <1>3 DEF EndNested, EndDestructors, AfterDestructor, NextLoop, GcType
  <2>3. Roots' = Roots /\ Usable' = Usable
    BY <2>1 DEF Roots, Usable
  <2>4. QED
    BY <1>1, <2>1, <2>2, <2>3, RunLost
<1>4. CASE CallDestructor
  <2>1. UNCHANGED <<edge, held, addr>> /\ gc.phase = "dtors"
    BY <1>4 DEF CallDestructor, Scanning, Running
  <2>2. gc'.phase \in {"dtors", "delref"}
    <3>1. gc' = [gc EXCEPT !.phase = "delref"] \/ gc' = [gc EXCEPT !.idx = @ + 1]
      BY <1>4 DEF CallDestructor
    <3>2. QED
      BY <1>2, <2>1, <3>1 DEF GcType
  <2>3. Usable' \subseteq Usable
    <3>1. \A n \in Nodes : life'[n] = life[n] \/ life[n] = "live"
      <4> DEFINE m == Entry.ref
      <4>1. life' = life \/ (life[m] = "live" /\ life' = [life EXCEPT ![m] = "destructed"])
        BY <1>4 DEF CallDestructor
      <4>2. life \in [Nodes -> Lives]
        BY InvariantParts DEF HeapTypes
      <4> HIDE DEF m
      <4>3. QED
        BY <4>1, <4>2
    <3>2. QED
      BY <3>1 DEF Usable
  <2>4. Roots' = Roots
    BY <2>1 DEF Roots
  <2>5. QED
    BY <1>1, <2>1, <2>2, <2>3, <2>4, RunLost
<1>5. CASE Destroy
  <2>1. UNCHANGED <<edge, held, addr>> /\ gc.phase = "destroy" /\ gc' = [gc EXCEPT !.idx = @ + 1]
    BY <1>5 DEF Destroy, Scanning, Running
  <2>2. gc'.phase = "destroy"
    BY <1>2, <2>1 DEF GcType
  <2>3. Usable' \subseteq Usable
    <3>1. \A n \in Nodes : life'[n] = life[n] \/ life'[n] = "null"
      <4> DEFINE m == Entry.ref
      <4>1. life' = life \/ life' = [life EXCEPT ![m] = "null"]
        BY <1>5 DEF Destroy
      <4>2. life \in [Nodes -> Lives]
        BY InvariantParts DEF HeapTypes
      <4> HIDE DEF m
      <4>3. QED
        BY <4>1, <4>2
    <3>2. QED
      BY <3>1 DEF Usable
  <2>4. Roots' = Roots
    BY <2>1 DEF Roots
  <2>5. QED
    BY <1>1, <2>1, <2>2, <2>3, <2>4, RunLost
<1>6. CASE FreeGarbage
  <2>1. UNCHANGED <<edge, held>> /\ gc.phase = "destroy"
    BY <1>6 DEF FreeGarbage, Running
  <2>2. /\ Roots' = Roots \ Condemned /\ gc'.phase \in {"idle", "start"}
        /\ \A n \in Nodes : life'[n] = IF n \in Condemned THEN "none" ELSE life[n]
    BY <1>6, FreeGarbageKeeps
  <2>3. Usable' \subseteq Usable /\ \A n \in Usable' : n \notin Condemned
    BY <2>2 DEF Usable
  <2>4. QED
    BY <1>1, <2>1, <2>2, <2>3, RunLost
<1>7. QED
  BY <1>3, <1>4, <1>5, <1>6 DEF DtorStep, FreeStep

\* In every step of a run, what is lost has an entry or is in the hands of the run.
LEMMA RunKeepsLost ==
  ASSUME CollectorInvariant, LostIsBuffered, RunStep
  PROVE  LostIsBuffered'
<1>1. CASE Start
  BY <1>1, StartLost
<1>2. CASE MarkStep
  BY <1>2, MarkLost, EndMarkLost DEF MarkStep
<1>3. CASE ScanStep
  BY <1>3, ScanLost, EndScanLost DEF ScanStep
<1>4. CASE CollectStep
  BY <1>4, CollectLost, EndCollectLost DEF CollectStep
<1>5. CASE NestedStep
  BY <1>5, NestedLost, LaterLost DEF NestedStep
<1>6. CASE DtorStep \/ FreeStep
  BY <1>6, LaterLost
<1>7. QED
  BY <1>1, <1>2, <1>3, <1>4, <1>5, <1>6 DEF RunStep

\* A run without destructors condemns all that nothing leads to.
LEMMA EndCollectFreesNoOther ==
  ASSUME CollectorInvariant, LostIsBuffered, EndCollect, gc'.phase = "destroy", ~gc'.dtors
  PROVE  FreesNoOther'
<1>1. /\ Top.at = "run" /\ gc.phase = "collect" /\ NoWork /\ gc.idx > gc.end /\ gc \in GcType
      /\ Len(buf) \in Nat
  <2>1. /\ Top.at = "run" /\ gc.phase = "collect" /\ NoWork /\ gc.idx > gc.end
    BY DEF EndCollect, Running
  <2>2. QED
    BY <2>1, CollectFacts
<1>2. UNCHANGED <<life, edge, held, addr, buf, stack>>
  <2>1. gc' # IdleGc
    BY BegunFacts
  <2>2. gc' # [gc EXCEPT !.phase = "nested", !.idx = 1, !.end = Len(buf),
                         !.rerun = IF @ = "no" THEN "wanted" ELSE @]
    BY <1>1, GcNested
  <2>3. QED
    BY <2>1, <2>2 DEF EndCollect, EndRun
<1>3. /\ Len(stack) \in DOMAIN stack /\ Len(stack) \in Nat /\ DOMAIN stack = 1 .. Len(stack)
      /\ \A i \in DOMAIN stack : stack[i].at = "run" => i = Len(stack)
  BY <1>1, RunOnTop, InvariantParts, StackFacts DEF StackTypes
<1>4. Condemned' = Roots
  <2>1. \A i \in DOMAIN buf : buf[i].tag = "GARBAGE"
    BY <1>1, AllCollected
  <2>2. \A n \in Roots : addr[n] \in DOMAIN buf
    BY <1>1, CollectFacts
  <2>3. QED
    BY <1>2, <2>1, <2>2 DEF Condemned, Tagged, TagOf, Roots
<1>5. ASSUME NEW i \in DOMAIN stack, NEW j \in DOMAIN stack, i > j, stack[j].at = "run" PROVE FALSE
  BY <1>3, <1>5
<1>6. ASSUME NEW A \in SUBSET Nodes, A # {}, A \subseteq Usable \ Roots, A \cap held = {},
             \A i \in DOMAIN stack : stack[i].node \notin A,
             \A e \in edge : e[2] \in A => e[1] \in A \cup Roots
      PROVE  FALSE
  <2>1. Isolated(Roots)
    BY <1>1, AllCollected
  <2>2. Isolated(A \cup Roots)
    BY <1>6, <2>1 DEF Isolated
  <2>3. A \cup Roots \in SUBSET Nodes
    BY DEF Roots
  <2>4. A \cup Roots \subseteq Roots
    BY <1>1, <2>2, <2>3, CollectedAll
  <2>5. QED
    BY <1>6, <2>4
<1>7. Usable' = Usable
  BY <1>2 DEF Usable
<1>8. ASSUME NEW A \in SUBSET Nodes, A # {}, A \subseteq Usable' \ Condemned', A \cap held' = {},
             \A i \in DOMAIN stack' : stack'[i].node \notin A
      PROVE  \E e \in edge' : e[2] \in A /\ e[1] \notin A \cup Condemned'
  BY <1>2, <1>4, <1>6, <1>7, <1>8
<1>9. QED
  BY <1>2, <1>5, <1>8 DEF FreesNoOther

\* zend_gc_collect_cycles frees the condemned objects one after the other.
LEMMA DestroyFreesNoOther ==
  ASSUME CollectorInvariant, FreesNoOther, Destroy, ~gc.dtors
  PROVE  FreesNoOther'
<1> DEFINE n == Entry.ref
<1>1. /\ Top.at = "run" /\ gc.phase = "destroy" /\ gc.idx <= gc.end /\ gc_active
      /\ UNCHANGED <<edge, held, addr, buf>>
      /\ \/ UNCHANGED <<life, stack>>
         \/ /\ Entry.tag = "GARBAGE" /\ life' = [life EXCEPT ![n] = "null"]
            /\ stack' = stack \/ stack' = Append(stack, Call("gc_free", n))
  BY InvariantParts DEF Destroy, Scanning, Running, buffer, RunShape
<1>2. Condemned' = Condemned
  BY <1>1, KeptTags
<1>3. /\ Len(stack) \in DOMAIN stack /\ Len(stack) \in Nat /\ DOMAIN stack = 1 .. Len(stack)
      /\ stack \in Seq(Frame) /\ (\A i \in DOMAIN stack : stack[i].at = "run" => i = Len(stack))
  BY <1>1, RunOnTop, InvariantParts, StackFacts DEF StackTypes
<1>4. Entry.tag = "GARBAGE" => n \in Nodes /\ n \in Condemned
  <2> SUFFICES ASSUME Entry.tag = "GARBAGE" PROVE n \in Nodes /\ n \in Condemned
    OBVIOUS
  <2>1. n \in Nodes /\ addr[n] = gc.idx /\ gc.idx \in 1 .. Len(buf) /\ Entry = buf[gc.idx]
    BY <1>1, InvariantParts, EntryFacts
  <2>2. QED
    BY <2>1 DEF Condemned, Tagged, TagOf
<1> HIDE DEF n
<1>5. Usable' \subseteq Usable /\ \A i \in DOMAIN stack : i \in DOMAIN stack' /\ stack'[i] = stack[i]
  <2>1. life \in [Nodes -> Lives]
    BY InvariantParts DEF HeapTypes
  <2>2. Usable' \subseteq Usable
    BY <1>1, <1>4, <2>1 DEF Usable
  <2>3. CASE stack' = stack
    BY <2>2, <2>3
  <2>4. CASE stack' = Append(stack, Call("gc_free", n)) /\ n \in Nodes
    <3>1. Call("gc_free", n) \in Frame
      BY <2>4, CallFacts DEF Calls
    <3>2. DOMAIN stack' = 1 .. Len(stack) + 1 /\ \A k \in 1 .. Len(stack) : stack'[k] = stack[k]
      BY <1>3, <2>4, <3>1, Pushed
    <3>3. QED
      BY <1>3, <2>2, <3>2
  <2>5. QED
    BY <1>1, <1>4, <2>3, <2>4
<1>6. ASSUME NEW i \in DOMAIN stack', NEW j \in DOMAIN stack', i > j, stack'[j].at = "run"
      PROVE  stack'[i].node \in Condemned
  <2>1. stack' = stack => FALSE
    BY <1>3, <1>6
  <2>2. stack' = Append(stack, Call("gc_free", n)) /\ n \in Nodes /\ n \in Condemned
    BY <1>1, <1>4, <2>1
  <2>3. Call("gc_free", n) \in Frame /\ Call("gc_free", n).at = "gc_free" /\ Call("gc_free", n).node = n
    BY <2>2, CallFacts DEF Calls
  <2>4. /\ DOMAIN stack' = 1 .. Len(stack) + 1 /\ stack'[Len(stack) + 1] = Call("gc_free", n)
        /\ \A k \in 1 .. Len(stack) : stack'[k] = stack[k]
    BY <1>3, <2>2, <2>3, Pushed
  <2>5. CASE i = Len(stack) + 1
    BY <2>2, <2>3, <2>4, <2>5
  <2>6. CASE i # Len(stack) + 1
    <3>1. i \in 1 .. Len(stack) /\ j \in 1 .. Len(stack)
      BY <1>3, <1>6, <2>4, <2>6
    <3>2. QED
      BY <1>3, <1>6, <2>4, <3>1
  <2>7. QED
    BY <2>5, <2>6
<1>7. ASSUME NEW A \in SUBSET Nodes, A # {}, A \subseteq Usable' \ Condemned', A \cap held' = {},
             \A i \in DOMAIN stack' : stack'[i].node \notin A
      PROVE  \E e \in edge' : e[2] \in A /\ e[1] \notin A \cup Condemned'
  <2>1. A \subseteq Usable \ Condemned /\ A \cap held = {} /\ \A i \in DOMAIN stack : stack[i].node \notin A
    BY <1>1, <1>2, <1>5, <1>7
  <2>2. QED
    BY <1>1, <1>2, <1>7, <2>1 DEF FreesNoOther
<1>8. QED
  BY <1>2, <1>6, <1>7 DEF FreesNoOther

\* In every step of a run.
LEMMA RunKeepsFreesNoOther ==
  ASSUME CollectorInvariant, GarbageInvariant, RunStep
  PROVE  FreesNoOther'
<1> SUFFICES ASSUME gc'.phase = "destroy", ~gc'.dtors PROVE FreesNoOther'
  BY DEF FreesNoOther
<1>1. gc \in GcType /\ LostIsBuffered /\ FreesNoOther
  BY InvariantParts DEF GcTypes, GarbageInvariant
<1>2. ASSUME gc'.phase = gc.phase, gc.phase # "destroy" PROVE FALSE
  BY <1>2
<1>3. CASE Start
  <2>1. gc' = IdleGc \/ gc' = [gc EXCEPT !.phase = "mark", !.idx = 1, !.end = num_roots]
    BY <1>3 DEF Start, EndRun
  <2>2. gc'.phase \in {"idle", "mark"}
    BY <1>1, <2>1, BegunFacts DEF GcType
  <2>3. QED
    BY <2>2
<1>4. CASE MarkStep
  <2>1. gc'.phase \in {"mark", "scan"}
    BY <1>1, <1>4 DEF MarkStep, MarkRoot, MarkGrey, EndMark, NextLoop, Scanning, Running, GcType
  <2>2. QED
    BY <2>1
<1>5. CASE ScanStep
  <2>1. gc'.phase \in {"scan", "collect"}
    BY <1>1, <1>5 DEF ScanStep, ScanRoot, Scan, ScanBlack, EndScan, Scanning, Running, GcType
  <2>2. QED
    BY <2>1
<1>6. CASE CollectStep
  <2>1. CASE EndCollect
    BY <1>1, <2>1, EndCollectFreesNoOther
  <2>2. CASE ~EndCollect
    <3>1. gc'.phase = "collect"
      BY <1>1, <1>6, <2>2 DEF CollectStep, CollectRoot, CollectWhite, Scanning, Running, GcType
    <3>2. QED
      BY <3>1
  <2>3. QED
    BY <2>1, <2>2
<1>7. CASE NestedStep
  <2>1. gc'.phase \in {"nested", "dtors"}
    BY <1>1, <1>7 DEF NestedStep, NestedRoot, RemoveNested, EndNested, NextLoop, Scanning, Running, GcType
  <2>2. QED
    BY <2>1
<1>8. CASE DtorStep
  <2>1. CASE EndDestructors
    <3>1. gc'.dtors = gc.dtors /\ gc.phase = "dtors"
      BY <1>1, <2>1 DEF EndDestructors, NextLoop, Running, GcType
    <3>2. QED
      BY <3>1, InvariantParts DEF RunShape
  <2>2. CASE AfterDestructor
    <3>1. gc'.phase = "dtors"
      BY <1>1, <2>2 DEF AfterDestructor, GcType
    <3>2. QED
      BY <3>1
  <2>3. CASE CallDestructor
    <3>1. gc.phase = "dtors" /\ (gc' = [gc EXCEPT !.phase = "delref"] \/ gc' = [gc EXCEPT !.idx = @ + 1])
      BY <2>3 DEF CallDestructor, Scanning, Running
    <3>2. gc'.phase \in {"dtors", "delref"}
      BY <1>1, <3>1 DEF GcType
    <3>3. QED
      BY <3>2
  <2>4. QED
    BY <1>8, <2>1, <2>2, <2>3 DEF DtorStep
<1>9. CASE FreeStep
  <2>1. CASE Destroy
    <3>1. gc'.dtors = gc.dtors
      BY <1>1, <2>1 DEF Destroy, GcType
    <3>2. QED
      BY <1>1, <2>1, <3>1, DestroyFreesNoOther
  <2>2. CASE FreeGarbage
    BY <2>2, FreeGarbageKeeps
  <2>3. QED
    BY <1>9, <2>1, <2>2 DEF FreeStep
<1>10. QED
  BY <1>3, <1>4, <1>5, <1>6, <1>7, <1>8, <1>9 DEF RunStep

----------------------------------------------------------------------------
(* What is never forgotten, and what a run collects.                       *)

\* In the beginning there is nothing.
LEMMA InitGarbage ==
  ASSUME Init PROVE GarbageInvariant
<1>1. /\ Usable = {} /\ gc = IdleGc /\ stack = <<Call("main", NULL)>>
  BY DEF Init, Usable
<1>2. gc.phase = "idle"
  BY <1>1, BegunFacts
<1>3. Top.at = "main"
  BY <1>1 DEF Top, Call
<1>4. LostIsBuffered
  BY <1>1 DEF LostIsBuffered, Isolated
<1>5. QED
  BY <1>2, <1>3, <1>4 DEF GarbageInvariant, SavedIsBuffered, FreesNoOther

\* A step in which nothing happens.
LEMMA StutterGarbage ==
  ASSUME GarbageInvariant, UNCHANGED vars
  PROVE  GarbageInvariant'
<1>1. UNCHANGED <<life, edge, held, color, addr, buf, gc, stack>>
  BY DEF vars, heap, counts, buffer
<1>2. /\ Usable' = Usable /\ Condemned' = Condemned /\ Top' = Top /\ Roots' = Roots
      /\ Colored("grey")' = Colored("grey") /\ Colored("white")' = Colored("white")
      /\ Tagged("DTOR_GARBAGE")' = Tagged("DTOR_GARBAGE")
  BY <1>1 DEF Usable, Condemned, Tagged, TagOf, Top, Roots, Colored
<1>3. Doomed' = Doomed /\ \A A : Isolated(A)' <=> Isolated(A)
  BY <1>1, <1>2 DEF Doomed, Isolated
<1>4. LostIsBuffered'
  BY <1>1, <1>2, <1>3 DEF GarbageInvariant, LostIsBuffered
<1>5. SavedIsBuffered' /\ FreesNoOther'
  BY <1>1, <1>2 DEF GarbageInvariant, SavedIsBuffered, FreesNoOther
<1>6. QED
  BY <1>4, <1>5 DEF GarbageInvariant

\* What nothing leads to is never forgotten: a set of objects that only refer to each
\* other has an entry in the root buffer or is in the hands of the run
\* (gc_possible_root, gc_mark_grey, gc_scan, gc_collect_white,
\* gc_remove_nested_data_from_buffer), an object that its destructor has saved is in the
\* buffer, and a run without destructors frees what it has condemned and nothing else.
THEOREM GarbageInvariantHolds == Spec => []GarbageInvariant
<1>1. Init => GarbageInvariant
  BY InitGarbage
<1>2. ASSUME CollectorInvariant, GarbageInvariant, [Next]_vars PROVE GarbageInvariant'
  <2>1. CASE Next
    <3>1. CASE Outer
      BY <1>2, <3>1, OuterLostIsBuffered, OuterSaved, OuterFreesNoOther DEF GarbageInvariant
    <3>2. CASE ~Outer
      <4>1. RunStep
        BY <2>1, <3>2, StepKinds DEF RunStep
      <4>2. QED
        BY <1>2, <4>1, RunKeepsLost, RunSaved, RunKeepsFreesNoOther DEF GarbageInvariant
    <3>3. QED
      BY <3>1, <3>2
  <2>2. CASE UNCHANGED vars
    BY <1>2, <2>2, StutterGarbage
  <2>3. QED
    BY <1>2, <2>1, <2>2
<1>3. QED
  BY <1>1, <1>2, CollectorInvariantHolds, PTL DEF Spec

\* The nodes that the calls in progress are about.
CallNodes == {stack[i].node : i \in DOMAIN stack} \ {NULL}

\* Garbage that S does not lead to is isolated, when S has what the collector is freeing.
LEMMA GarbageIsolated ==
  ASSUME CollectorInvariant, NEW S \in SUBSET Nodes, \A n \in Nodes : life[n] = "null" => n \in S
  PROVE  /\ Garbage \ Reach(S) \in SUBSET Nodes /\ Isolated(Garbage \ Reach(S))
         /\ S \subseteq Reach(S) /\ (S = {} => Reach(S) = {})
<1> DEFINE H == held \cup CallNodes
           A == Garbage \ Reach(S)
<1>1. edge \in SUBSET (Nodes \X Nodes) /\ held \subseteq Nodes /\ \A i \in DOMAIN stack : stack[i].node \in Nodes \cup {NULL}
  BY InvariantParts, StackFacts DEF HeapTypes, StackTypes
<1>2. H \in SUBSET Nodes
  BY <1>1 DEF CallNodes
<1>3. Garbage = Usable \ Reach(H)
  BY DEF Garbage, Usable, CallNodes
<1>4. ASSUME NEW P \in SUBSET Nodes
      PROVE  /\ P \subseteq Reach(P)
             /\ \A e \in edge : e[1] \in Reach(P) => e[2] \in Reach(P)
             /\ \A T : P \subseteq T /\ (\A e \in edge : e[1] \in T => e[2] \in T) => Reach(P) \subseteq T
  <2>1. Reach(P) = ReachIn(edge, P)
    BY ReachIsReachIn
  <2>2. /\ P \subseteq ReachIn(edge, P)
        /\ \A e \in edge : e[1] \in ReachIn(edge, P) => e[2] \in ReachIn(edge, P)
        /\ \A T : P \subseteq T /\ (\A e \in edge : e[1] \in T => e[2] \in T) => ReachIn(edge, P) \subseteq T
    BY <1>1, ReachFacts
  <2>3. QED
    BY <2>1, <2>2
<1>5. H \subseteq Reach(H) /\ \A e \in edge : e[1] \in Reach(H) => e[2] \in Reach(H)
  BY <1>2, <1>4
<1>6. S \subseteq Reach(S) /\ \A e \in edge : e[1] \in Reach(S) => e[2] \in Reach(S)
  BY <1>4
<1>7. S = {} => Reach(S) = {}
  <2>1. ASSUME S = {} PROVE Reach(S) \subseteq {}
    BY <1>4, <2>1
  <2>2. QED
    BY <2>1
<1>8. \A i \in DOMAIN stack : stack[i].node # NULL => stack[i].node \in H
  BY DEF CallNodes
<1>9. A \subseteq Usable /\ A \in SUBSET Nodes /\ A \cap H = {} /\ A \cap held = {}
  BY <1>3, <1>5 DEF Usable
<1>10. \A i \in DOMAIN stack : stack[i].node \notin A
  BY <1>8, <1>9, ConstantsAssumption
<1>11. ASSUME NEW e \in edge, e[2] \in A PROVE e[1] \in A
  <2>1. e[1] \in Nodes
    BY <1>1
  <2>2. e[1] \notin Reach(H) /\ e[1] \notin Reach(S)
    BY <1>3, <1>5, <1>6, <1>11
  <2>3. life[e[1]] \in Lives /\ life[e[1]] # "none"
    BY <2>1, InvariantParts DEF HeapTypes, References
  <2>4. life[e[1]] # "freeing"
    <3> SUFFICES ASSUME life[e[1]] = "freeing" PROVE FALSE
      OBVIOUS
    <3>1. PICK i \in DOMAIN stack : stack[i].node = e[1]
      BY <2>1, InvariantParts DEF Dying
    <3>2. e[1] # NULL
      BY <2>1, ConstantsAssumption
    <3>3. e[1] \in H
      BY <1>8, <3>1, <3>2
    <3> HIDE DEF H
    <3>4. QED
      BY <1>5, <2>2, <3>3
  <2>5. life[e[1]] # "null"
    BY <1>6, <2>1, <2>2
  <2>6. e[1] \in Usable
    BY <2>1, <2>3, <2>4, <2>5 DEF Usable, Lives
  <2> HIDE DEF H
  <2>7. QED
    BY <1>3, <2>2, <2>6
<1>12. Isolated(A)
  <2> HIDE DEF A, H
  <2>1. QED
    BY <1>9, <1>10, <1>11 DEF Isolated
<1>13. QED
  BY <1>6, <1>7, <1>9, <1>12

\* Whenever PHP code runs, the buffer leads to all garbage.
LEMMA GarbageFits ==
  ASSUME CollectorInvariant, GarbageInvariant
  PROVE  GarbageIsBuffered
<1> SUFFICES ASSUME InUserCode PROVE Garbage \subseteq Reach(Roots)
  BY DEF GarbageIsBuffered, Roots
<1>1. Roots \in SUBSET Nodes /\ \A n \in Nodes : life[n] = "null" => n \in Roots
  BY InvariantParts DEF Dying, Condemned, Tagged, Roots
<1> DEFINE A == Garbage \ Reach(Roots)
<1>2. A \in SUBSET Nodes /\ Isolated(A) /\ A \cap Roots = {}
  BY <1>1, GarbageIsolated
<1>3. gc.phase # "collect"
  BY Quiet DEF InUserCode
<1>4. A = {}
  <2> HIDE DEF A
  <2>1. QED
    BY <1>2, <1>3 DEF GarbageInvariant, LostIsBuffered
<1>5. QED
  BY <1>4

\* Garbage can wait, but is never forgotten: whenever PHP code runs, in the program or in
\* a destructor, every object it has lost is reachable from an entry of the root buffer
\* (gc_possible_root, gc_remove_nested_data_from_buffer, gc_compact).
THEOREM GarbageIsBufferedHolds == Spec => []GarbageIsBuffered
<1>1. CollectorInvariant /\ GarbageInvariant => GarbageIsBuffered
  BY GarbageFits
<1>2. QED
  BY <1>1, CollectorInvariantHolds, GarbageInvariantHolds, PTL

\* No objects are left that nothing leads to.
NoneLost == \A A \in SUBSET Nodes : Isolated(A) => A = {}

\* When there are none and no run is active, there is no garbage.
NothingLeft == gc.phase = "idle" /\ NoneLost => Garbage = {}

\* This follows from the invariant.
LEMMA NoneLostNoGarbage ==
  ASSUME CollectorInvariant PROVE NothingLeft
<1> SUFFICES ASSUME gc.phase = "idle", NoneLost PROVE Garbage = {}
  BY DEF NothingLeft
<1>1. {} \in SUBSET Nodes /\ \A n \in Nodes : life[n] = "null" => n \in {}
  BY InvariantParts DEF Dying
<1>2. Garbage \ Reach({}) \in SUBSET Nodes /\ Isolated(Garbage \ Reach({})) /\ Reach({}) = {}
  BY <1>1, GarbageIsolated
<1>3. Garbage \in SUBSET Nodes /\ Isolated(Garbage)
  BY <1>2
<1>4. QED
  BY <1>3 DEF NoneLost

\* The steps that end a run leave no such objects, unless destructors were called in
\* its repetition.
LEMMA EndLeavesNone ==
  ASSUME CollectorInvariant, GarbageInvariant, Next, gc.phase # "idle", gc'.phase = "idle"
  PROVE  NoneLost' \/ (gc.dtors /\ gc.rerun = "done")
<1>1. gc \in GcType /\ LostIsBuffered /\ FreesNoOther
  BY InvariantParts DEF GcTypes, GarbageInvariant
<1>2. ~Outer
  BY InvariantParts, OuterPhase
<1>3. RunStep
  BY <1>2, StepKinds DEF RunStep
<1>4. num_roots = 0 => Roots = {}
  <2>1. IsFiniteSet(Used) /\ Cardinality(Used) = num_roots /\ \A n \in Nodes : addr[n] # 0 => addr[n] \in Used
    BY InvariantParts, BufferFacts
  <2>2. num_roots = 0 => Used = {}
    BY <2>1, FS_EmptySet
  <2>3. QED
    BY <2>1, <2>2 DEF Roots
<1>5. CASE Start
  <2>1. num_roots = 0 /\ gc.phase = "start" /\ UNCHANGED <<life, edge, held>>
    <3>1. gc' # [gc EXCEPT !.phase = "mark", !.idx = 1, !.end = num_roots]
      BY <1>1 DEF GcType
    <3>2. QED
      BY <1>5, <3>1 DEF Start, Running, heap
  <2>2. Usable' = Usable
    BY <2>1 DEF Usable
  <2>3. ASSUME NEW A \in SUBSET Nodes, Isolated(A)' PROVE A = {}
    <3>1. Isolated(A)
      BY <1>3, <2>1, <2>2, <2>3, RunIsolated
    <3>2. QED
      BY <1>1, <1>4, <2>1, <3>1 DEF LostIsBuffered
  <2>4. QED
    BY <2>3 DEF NoneLost
<1>6. CASE EndCollect
  <2>1. /\ num_roots = 0 /\ Top.at = "run" /\ gc.phase = "collect" /\ NoWork /\ gc.idx > gc.end
        /\ UNCHANGED <<life, edge, held>>
    <3>1. gc' # [gc EXCEPT !.phase = "destroy", !.idx = 1, !.end = Len(buf)]
      BY <1>1 DEF GcType
    <3>2. Len(buf) \in Nat
      BY InvariantParts, BufferFacts
    <3>3. gc' # [gc EXCEPT !.phase = "nested", !.idx = 1, !.end = Len(buf),
                           !.rerun = IF @ = "no" THEN "wanted" ELSE @]
      BY <1>1, <3>2, GcNested
    <3>4. QED
      BY <1>6, <3>1, <3>3 DEF EndCollect, Running
  <2>2. Usable' = Usable
    BY <2>1 DEF Usable
  <2>3. ASSUME NEW A \in SUBSET Nodes, Isolated(A)' PROVE A = {}
    <3>1. Isolated(A)
      BY <1>3, <2>1, <2>2, <2>3, RunIsolated
    <3>2. A \subseteq Roots
      BY <1>1, <2>1, <3>1, CollectedAll
    <3>3. QED
      BY <1>4, <2>1, <3>2
  <2>4. QED
    BY <2>3 DEF NoneLost
<1>7. CASE FreeGarbage
  <2>1. gc.rerun # "wanted" /\ gc.phase = "destroy" /\ UNCHANGED <<edge, held>>
    <3>1. [IdleGc EXCEPT !.phase = "start", !.rerun = "done"].phase = "start"
      BY DEF IdleGc
    <3>2. QED
      BY <1>7, <3>1 DEF FreeGarbage, ShouldRerun, Running
  <2>2. CASE gc.dtors
    <3>1. gc.rerun # "no" /\ gc.rerun \in {"no", "wanted", "done"}
      BY <1>1, <2>1, <2>2, InvariantParts DEF RunShape, GcType
    <3>2. QED
      BY <2>1, <2>2, <3>1
  <2>3. CASE ~gc.dtors
    <3>1. \A n \in Nodes : life'[n] = IF n \in Condemned THEN "none" ELSE life[n]
      BY <1>7, FreeGarbageKeeps
    <3>2. Usable' \subseteq Usable \ Condemned
      BY <3>1 DEF Usable
    <3>3. ASSUME NEW A \in SUBSET Nodes, Isolated(A)', A # {} PROVE FALSE
      <4>1. Isolated(A) /\ A \subseteq Usable'
        BY <1>3, <2>1, <3>2, <3>3, RunIsolated DEF Isolated
      <4>2. /\ A \subseteq Usable \ Condemned /\ A \cap held = {} /\ \A i \in DOMAIN stack : stack[i].node \notin A
        BY <3>2, <4>1 DEF Isolated
      <4>3. PICK e \in edge : e[2] \in A /\ e[1] \notin A \cup Condemned
        BY <1>1, <2>1, <2>3, <3>3, <4>2 DEF FreesNoOther
      <4>4. QED
        BY <4>1, <4>3 DEF Isolated
    <3>4. QED
      BY <3>3 DEF NoneLost
  <2>4. QED
    BY <2>2, <2>3
<1>8. CASE ~Start /\ ~EndCollect /\ ~FreeGarbage
  <2>1. CASE MarkStep \/ ScanStep \/ NestedStep
    <3>1. gc'.phase \in {"mark", "scan", "collect", "nested", "dtors"}
      BY <1>1, <2>1 DEF MarkStep, MarkRoot, MarkGrey, EndMark, ScanStep, ScanRoot, Scan, ScanBlack, EndScan,
         NestedStep, NestedRoot, RemoveNested, EndNested, NextLoop, Scanning, Running, GcType
    <3>2. QED
      BY <3>1
  <2>2. CASE CollectRoot \/ \E r \in Nodes : CollectWhite(r)
    <3>1. gc'.phase = "collect"
      BY <1>1, <2>2 DEF CollectRoot, CollectWhite, Scanning, Running, GcType
    <3>2. QED
      BY <3>1
  <2>3. CASE DtorStep \/ Destroy
    <3>1. gc'.phase \in {"dtors", "delref", "destroy"}
      <4>1. \/ gc.phase \in {"dtors", "destroy"} /\ gc' = [gc EXCEPT !.idx = @ + 1]
            \/ gc' = [gc EXCEPT !.phase = "delref"]
            \/ gc' = [gc EXCEPT !.phase = "dtors", !.idx = @ + 1]
            \/ gc' = [gc EXCEPT !.phase = "destroy", !.idx = 1]
        BY <2>3 DEF DtorStep, CallDestructor, AfterDestructor, EndDestructors, NextLoop, Destroy, Scanning, Running
      <4>2. QED
        BY <1>1, <4>1 DEF GcType
    <3>2. QED
      BY <3>1
  <2>4. QED
    BY <1>3, <1>8, <2>1, <2>2, <2>3 DEF RunStep, CollectStep, FreeStep
<1>9. QED
  BY <1>5, <1>6, <1>7, <1>8

\* gc_collect_cycles leaves no garbage: when a run ends, every object that was lost has
\* been freed, unless there were destructors to call in its repetition too
\* (zend_gc_collect_cycles, rerun_gc).
THEOREM RunCollectsAllHolds == Spec => RunCollectsAll
<1>1. ASSUME CollectorInvariant, GarbageInvariant, NothingLeft', [Next]_vars
      PROVE  [gc.phase # "idle" /\ gc'.phase = "idle" => Garbage' = {} \/ (gc.dtors /\ gc.rerun = "done")]_vars
  <2>1. CASE UNCHANGED vars
    BY <2>1
  <2>2. CASE Next
    BY <1>1, <2>2, EndLeavesNone DEF NothingLeft
  <2>3. QED
    BY <1>1, <2>1, <2>2
<1>2. CollectorInvariant => NothingLeft
  BY NoneLostNoGarbage
<1>3. QED
  BY <1>1, <1>2, CollectorInvariantHolds, GarbageInvariantHolds, PTL DEF Spec, RunCollectsAll

============================================================================
