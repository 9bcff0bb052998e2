---------------------------- MODULE ZendGCProofs ----------------------------
(***************************************************************************)
(* Theorems about reference counting and the cycle collector, for any      *)
(* finite memory, whatever destructors do.                                 *)
(***************************************************************************)
EXTENDS ZendGC, FiniteSetTheorems, TLAPS

\* The three passes that look for garbage.
Passes == {"mark", "scan", "collect"}

\* The objects PHP code may have, and the properties that traversals follow.
Usable == {n \in Nodes : life[n] \in {"live", "destructed"}}
Follow == {e \in edge : e[1] \in Usable}

\* The nodes of a color.
Colored(c) == {n \in Nodes : color[n] = c}

\* The tag of the entry of n, and the objects with a given tag.
TagOf(n)  == buf[addr[n]].tag
Tagged(t) == {n \in Nodes : addr[n] # 0 /\ TagOf(n) = t}

\* What the collector has decided to free.
Condemned == Tagged("GARBAGE")

----------------------------------------------------------------------------
(* Control.                                                                *)

\* The calls in progress: the program at the bottom, zend_objects_store_del for the
\* moment of its call, and at most one run.
Shape(s) ==
  /\ \A i \in DOMAIN s : /\ s[i].at = "main" <=> i = 1
                         /\ s[i].node = NULL <=> s[i].at \in {"main", "run"}
                         /\ s[i].at = "del" => i = Len(s)
  /\ \A i, j \in DOMAIN s : s[i].at = "run" /\ s[j].at = "run" => i = j

\* A run is in progress.
HasRun(s) == \E i \in DOMAIN s : s[i].at = "run"

\* The frames directly above a call: gc_free above the run that frees, and the
\* destructor above its object's deletion, or the run that its end has started.
Adjacent(s, phase) ==
  /\ \A i \in DOMAIN s : s[i].at = "gc_free" =>
       phase = "destroy" /\ i > 1 /\ s[i - 1].at = "run"
  /\ \A i \in DOMAIN s : s[i].at = "run" /\ i # Len(s) /\ phase = "destroy" =>
       s[i + 1].at = "gc_free"
  /\ \A i \in DOMAIN s : s[i].at = "del_dtor" /\ i # Len(s) =>
       s[i + 1].at \in {"dtor", "full"} /\ s[i + 1].node = s[i].node

\* How the calls nest.
StackShape == Shape(stack) /\ Adjacent(stack, gc.phase)

\* Where a run is, and what it has to do.
RunShape ==
  /\ gc.phase # "idle" <=> HasRun(stack)
  /\ gc_active <=> gc.phase \notin {"idle", "start"}
  /\ gc.phase \in {"start", "mark", "scan", "collect", "nested", "dtors"} => Top.at = "run"
  /\ gc.phase \notin {"mark", "scan", "collect", "nested"} => gc.work = {}
  /\ gc.phase # "scan" => gc.bwork = {}
  /\ gc_active => 1 <= gc.idx /\ gc.end <= Len(buf)
  /\ gc.phase = "delref" => gc.idx <= gc.end /\ Entry.tag = "ROOT" /\ Entry.ref \in Usable
  /\ gc.phase \in {"nested", "dtors", "delref"} => gc.dtors
  /\ gc.phase \in {"nested", "dtors", "delref", "destroy"} /\ gc.dtors => gc.rerun # "no"

----------------------------------------------------------------------------
(* The buffer.                                                             *)

\* Entries and addresses are inverse to each other.
Addresses ==
  /\ \A i \in DOMAIN buf : buf[i].tag # "UNUSED" => buf[i].ref \in Nodes /\ addr[buf[i].ref] = i
  /\ \A n \in Nodes : addr[n] # 0 => TagOf(n) # "UNUSED" /\ buf[addr[n]].ref = n

\* The entries in use.
Used == {i \in DOMAIN buf : buf[i].tag # "UNUSED"}

\* The list of unused entries has each once, and num_roots counts the others.
UnusedListed ==
  /\ \A i \in DOMAIN buf : buf[i].tag = "UNUSED" <=> \E k \in DOMAIN unused : unused[k] = i
  /\ \A j, k \in DOMAIN unused : unused[j] = unused[k] => j = k
  /\ num_roots = Cardinality(Used)

\* The tags that each phase leaves behind.
TagsOfPhase ==
  \A i \in DOMAIN buf :
    /\ gc.phase \in {"idle", "start"} => buf[i].tag \in {"ROOT", "UNUSED"}
    /\ gc.phase \in {"mark", "scan"} => buf[i].tag = "ROOT" /\ i <= gc.end
    /\ gc.phase = "collect" => buf[i].tag = IF gc.idx <= i /\ i <= gc.end THEN "ROOT" ELSE "GARBAGE"
    /\ gc.phase = "nested" => buf[i].tag # "ROOT"
    /\ buf[i].tag = "GARBAGE" /\ gc.phase # "collect" => i <= gc.end
    /\ buf[i].tag = "DTOR_GARBAGE" =>
         /\ gc.phase \in {"nested", "dtors", "delref"} /\ i <= gc.end
         /\ gc.phase = "dtors" => gc.idx <= i
         /\ gc.phase = "delref" => gc.idx < i

\* Outside the passes, a root is purple and everything else black.
RootsArePurple ==
  gc.phase \notin Passes =>
    \A n \in Nodes : color[n] = IF addr[n] # 0 /\ TagOf(n) # "GARBAGE" THEN "purple" ELSE "black"

----------------------------------------------------------------------------
(* The heap.                                                               *)

\* The objects the calls in progress are about.
FrameLife ==
  \A i \in DOMAIN stack :
    LET n == stack[i].node IN
    /\ stack[i].at \in {"dtor", "del_dtor", "full"} => life[n] \in {"live", "destructed"}
    /\ stack[i].at = "del_free" => life[n] = "freeing" /\ \A j \in DOMAIN stack : stack[j].node = n => j = i
    /\ stack[i].at = "gc_free" => life[n] = "null"
    /\ stack[i].at = "del" => life[n] \in {"live", "destructed", "null"} /\ rc[n] = 0

\* Variables and properties refer to objects that are in use, or that the collector
\* frees together with the object that has the property.
References ==
  /\ held \subseteq Usable
  /\ \A e \in edge : life[e[1]] # "none" /\ life[e[2]] \in {"live", "destructed", "null"}

\* What is no object any more, or not for long.
Dying ==
  \A n \in Nodes :
    /\ life[n] = "none" => addr[n] = 0 /\ color[n] = "black" /\ rc[n] = 0
    /\ life[n] = "freeing" => \E i \in DOMAIN stack : stack[i].at = "del_free" /\ stack[i].node = n
    /\ life[n] = "null" =>
         /\ gc.phase = "destroy" /\ n \in Condemned /\ addr[n] < gc.idx
         /\ \/ \A m \in Nodes : <<n, m>> \notin edge
            \/ \E i \in DOMAIN stack : stack[i].at = "gc_free" /\ stack[i].node = n

----------------------------------------------------------------------------
(* Counts.                                                                 *)

\* The objects whose properties' counts are taken back for the moment.
Taken ==
  CASE gc.phase = "mark"    -> Colored("grey") \ gc.work
    [] gc.phase = "scan"    -> Colored("grey") \cup Colored("white") \cup gc.bwork
    [] gc.phase = "collect" -> Colored("white") \cup gc.work
    [] OTHER                -> {}

\* The properties that count.
Counted == {e \in edge : ~(e[1] \in Usable /\ e[1] \in Taken)}

\* What refers to n: properties, variables, calls, and the count that
\* gc_call_destructors gives back later.
InCount(E, n)   == Cardinality({e \in E : e[2] = n})
HeldCount(H, n) == IF n \in H THEN 1 ELSE 0
Frames(s, n)    == Cardinality({i \in DOMAIN s : s[i].node = n /\ s[i].at # "del"})
Delayed(n)      == IF gc.phase = "delref" /\ Entry.ref = n THEN 1 ELSE 0

\* Every count is the number of the references that count.
Balance ==
  \A n \in Nodes : life[n] # "none" =>
    rc[n] = InCount(Counted, n) + HeldCount(held, n) + Frames(stack, n) + Delayed(n)

----------------------------------------------------------------------------
(* The passes.                                                             *)

\* Along the properties in R, every node of C can be reached from P within C.
Covers(R, P, C) ==
  \A S \in SUBSET Nodes :
    P \subseteq S /\ (\A e \in R : e[1] \in S /\ e[2] \in C => e[2] \in S) => C \subseteq S

\* The roots from entry k on
RootsFrom(k) == {n \in Nodes : addr[n] # 0 /\ addr[n] >= k}
\* All roots
Roots == {n \in Nodes : addr[n] # 0}

\* What is marked leads on to marked nodes only, and comes from a marked root.
Marking ==
  gc.phase = "mark" =>
    /\ \A n \in Nodes : /\ color[n] # "white"
                        /\ color[n] # "black" => life[n] # "none"
                        /\ color[n] = "purple" => addr[n] >= gc.idx
                        /\ addr[n] # 0 => color[n] # "black"
    /\ gc.work \subseteq Colored("grey")
    /\ \A e \in Follow : color[e[1]] = "grey" /\ e[1] \notin gc.work => color[e[2]] = "grey"
    /\ Covers(Follow, Colored("grey") \cap Roots, Colored("grey"))

\* The grey nodes are still to be scanned, and white ones may still turn black.
Scanned ==
  gc.phase = "scan" =>
    /\ \A n \in Nodes : /\ color[n] # "purple"
                        /\ color[n] # "black" => life[n] # "none"
                        /\ color[n] = "white" /\ n \notin gc.work => rc[n] = 0
    /\ gc.work \cap Colored("grey") = {} /\ gc.bwork \subseteq Colored("black")
    /\ Covers(Follow, (Colored("grey") \cap RootsFrom(gc.idx))
                        \cup (Colored("white") \cap gc.work) \cup gc.bwork, Colored("grey"))
    /\ Covers(Follow, (Colored("white") \cap Roots) \cup gc.bwork, Colored("white"))

\* What gc_collect_roots has found to be garbage
Doomed == Colored("white") \cup gc.work \cup Roots

\* Nothing refers to the nodes in D but the nodes in D.
Isolated(D) ==
  /\ D \subseteq Usable
  /\ D \cap held = {}
  /\ \A i \in DOMAIN stack : stack[i].node \notin D
  /\ \A e \in edge : e[2] \in D => e[1] \in D

\* What gc_collect_white has done and has yet to do.
Collecting ==
  gc.phase = "collect" =>
    /\ \A n \in Nodes : color[n] \in {"white", "black"}
    /\ gc.work \subseteq Colored("black")
    /\ Isolated(Doomed)
    /\ Covers(Follow, (Colored("white") \cap Roots) \cup gc.work, Colored("white"))
    /\ \A n \in Roots : color[n] = "white" => gc.idx <= addr[n] /\ addr[n] <= gc.end
    /\ ~gc.dtors => \A n \in Doomed : HasDestructor(n) => n \in Colored("white") \cup gc.work

\* Nobody can come at what is condemned, and it has no destructors.
CondemnedIsLost ==
  gc.phase # "collect" =>
    /\ \A n \in Condemned : /\ n \notin held /\ ~HasDestructor(n)
                            /\ gc.phase # "destroy" => n \in Usable
                            /\ addr[n] < gc.idx /\ gc.phase = "destroy" => life[n] = "null"
    /\ \A i \in DOMAIN stack : stack[i].node \in Condemned =>
         /\ gc.phase = "destroy" /\ stack[i].at \in {"gc_free", "del", "del_free"}
         /\ \E j \in 1 .. i - 1 : stack[j].at = "run"
    /\ gc.phase = "nested" => Tagged("DTOR_GARBAGE") \subseteq {n \in Nodes : HasDestructor(n)}
    /\ \A e \in edge : e[2] \in Condemned =>
         \/ e[1] \in Condemned
         \/ gc.phase = "nested" /\ e[2] \in gc.work
         \/ gc.phase = "nested" /\ e[1] \in Tagged("DTOR_GARBAGE") /\ addr[e[1]] >= gc.idx

\* The inductive invariant of the collector.
CollectorInvariant ==
  /\ TypeOK
  /\ StackShape /\ RunShape
  /\ Addresses /\ UnusedListed /\ TagsOfPhase /\ RootsArePurple
  /\ FrameLife /\ References /\ Dying
  /\ Balance
  /\ Marking /\ Scanned /\ Collecting /\ CondemnedIsLost

----------------------------------------------------------------------------
(* Finite sets and naturals.                                               *)

\* A non-empty set of naturals has a least element.
LEMMA LeastNatural ==
  ASSUME NEW S \in SUBSET Nat, S # {}
  PROVE  \E n \in S : \A m \in S : n <= m
<1>1. PICK n \in S : \A m \in S : ~(<<m, n>> \in OpToRel(<, Nat))
  BY NatLessThanWellFounded, WFMin, Zenon
<1>2. \A m \in S : ~(m < n)
  BY <1>1 DEF OpToRel
<1>3. QED
  BY <1>2

\* The numbers 1 to k are k.
LEMMA IntervalSize ==
  \A k \in Nat : IsFiniteSet(1 .. k) /\ Cardinality(1 .. k) = k
<1> SUFFICES ASSUME NEW k \in Nat PROVE IsFiniteSet(1 .. k) /\ Cardinality(1 .. k) = k
  OBVIOUS
<1>1. 1 \in Int /\ k \in Int
  OBVIOUS
<1>2. IsFiniteSet(1 .. k) /\ Cardinality(1 .. k) = IF 1 > k THEN 0 ELSE k - 1 + 1
  BY <1>1, FS_Interval, ZenonT(40)
<1>3. QED
  BY <1>2

\* Fewer values than arguments: two arguments have the same value.
LEMMA Collision ==
  ASSUME NEW S, NEW T, IsFiniteSet(S), IsFiniteSet(T), Cardinality(T) < Cardinality(S)
  PROVE  \A h \in [S -> T] : \E x, y \in S : x # y /\ h[x] = h[y]
BY FS_PigeonHole, Zenon

\* Fewer holders than things to hold: something is held by nobody.
LEMMA TooFewHolders ==
  ASSUME NEW S, NEW T, IsFiniteSet(S), IsFiniteSet(T), Cardinality(T) < Cardinality(S),
         NEW f
  PROVE  \E n \in S : \A q \in T : f[q] # n
<1>1. \A h \in [S -> T] : \E m, n \in S : m # n /\ h[m] = h[n]
  BY FS_PigeonHole, Zenon
<1>2. SUFFICES ASSUME \A n \in S : \E q \in T : f[q] = n
               PROVE  FALSE
  OBVIOUS
<1> DEFINE h == [n \in S |-> CHOOSE q \in T : f[q] = n]
<1>3. h \in [S -> T] /\ \A n \in S : f[h[n]] = n
  BY <1>2
<1> HIDE DEF h
<1>4. QED
  BY <1>1, <1>3

\* An injection between finite sets of the same size reaches everything.
LEMMA InjectionOnto ==
  ASSUME NEW S, NEW T, IsFiniteSet(S), IsFiniteSet(T), Cardinality(S) = Cardinality(T),
         NEW f \in [S -> T], \A x, y \in S : f[x] = f[y] => x = y, NEW z \in T
  PROVE  \E x \in S : f[x] = z
<1> SUFFICES ASSUME \A x \in S : f[x] # z PROVE FALSE
  OBVIOUS
<1>1. f \in [S -> T \ {z}]
  OBVIOUS
<1>2. /\ IsFiniteSet(T \ {z}) /\ Cardinality(T \ {z}) = Cardinality(T) - 1
      /\ Cardinality(S) \in Nat
  BY FS_RemoveElement, FS_CardinalityType
<1>3. Cardinality(T \ {z}) < Cardinality(S)
  BY <1>2
<1>4. \A h \in [S -> T \ {z}] : \E x, y \in S : x # y /\ h[x] = h[y]
  BY <1>2, <1>3, Collision
<1>5. QED
  BY <1>1, <1>4

\* A one-to-one correspondence: the sizes agree.
LEMMA SameSize ==
  ASSUME NEW S, NEW T, IsFiniteSet(S), IsFiniteSet(T),
         NEW f \in [S -> T], \A x, y \in S : f[x] = f[y] => x = y, \A z \in T : \E x \in S : f[x] = z
  PROVE  Cardinality(S) = Cardinality(T)
<1>1. Cardinality(S) \in Nat /\ Cardinality(T) \in Nat
  BY FS_CardinalityType
<1>2. ~(Cardinality(T) < Cardinality(S))
  <2>1. ASSUME Cardinality(T) < Cardinality(S)
        PROVE  \A h \in [S -> T] : \E x, y \in S : x # y /\ h[x] = h[y]
    BY <2>1, Collision
  <2>2. QED
    BY <2>1
<1>3. ~(Cardinality(S) < Cardinality(T))
  BY TooFewHolders
<1>4. QED
  BY <1>1, <1>2, <1>3

----------------------------------------------------------------------------
(* Stacks of calls.                                                        *)

\* The types of a call and of an entry.
Frame     == [at : Calls, node : Nodes \cup {NULL}]
EntryType == [tag : Tags, ref : Nodes \cup {NULL}]

\* What the number of calls that hold a node is made of.
LEMMA FramesFacts ==
  ASSUME NEW s \in Seq(Frame), NEW n
  PROVE  /\ IsFiniteSet({i \in DOMAIN s : s[i].node = n /\ s[i].at # "del"})
         /\ Frames(s, n) \in Nat
         /\ Frames(s, n) = 0 => \A i \in DOMAIN s : s[i].node = n => s[i].at = "del"
         /\ \A i \in DOMAIN s : s[i].node = n /\ s[i].at # "del" => Frames(s, n) >= 1
         /\ \A i, j \in DOMAIN s :
              i # j /\ s[i].node = n /\ s[i].at # "del" /\ s[j].node = n /\ s[j].at # "del" =>
                Frames(s, n) >= 2
<1> DEFINE H == {i \in DOMAIN s : s[i].node = n /\ s[i].at # "del"}
<1>1. IsFiniteSet(DOMAIN s) /\ H \in SUBSET DOMAIN s
  <2>1. Len(s) \in Nat /\ DOMAIN s = 1 .. Len(s)
    OBVIOUS
  <2>2. QED
    BY <2>1, IntervalSize
<1>2. IsFiniteSet(H) /\ Cardinality(H) \in Nat
  BY <1>1, FS_Subset, FS_CardinalityType
<1>3. Cardinality(H) = 0 => H = {}
  BY <1>2, FS_EmptySet
<1>4. ASSUME NEW i \in H PROVE Cardinality(H) >= 1
  BY <1>2, <1>3
<1>5. ASSUME NEW i \in H, NEW j \in H, i # j PROVE Cardinality(H) >= 2
  <2>1. ~ \E x : H = {x}
    BY <1>5
  <2>2. Cardinality(H) # 1
    BY <1>2, <2>1, FS_Singleton
  <2>3. QED
    BY <1>2, <1>4, <2>2
<1>6. Frames(s, n) = Cardinality(H) /\ \A i \in DOMAIN s : i \in H <=> s[i].node = n /\ s[i].at # "del"
  BY DEF Frames
<1>7. IsFiniteSet({i \in DOMAIN s : s[i].node = n /\ s[i].at # "del"})
  BY <1>2
<1> HIDE DEF H
<1>8. Frames(s, n) \in Nat /\ (Frames(s, n) = 0 => H = {})
  BY <1>2, <1>3, <1>6
<1>9. \A i \in DOMAIN s : s[i].node = n /\ s[i].at # "del" => Frames(s, n) >= 1
  BY <1>4, <1>6
<1>10. \A i, j \in DOMAIN s :
         i # j /\ s[i].node = n /\ s[i].at # "del" /\ s[j].node = n /\ s[j].at # "del" =>
           Frames(s, n) >= 2
  <2> SUFFICES ASSUME NEW i \in DOMAIN s, NEW j \in DOMAIN s, i # j,
                      s[i].node = n, s[i].at # "del", s[j].node = n, s[j].at # "del"
               PROVE  Frames(s, n) >= 2
    OBVIOUS
  <2>1. i \in H /\ j \in H
    BY <1>6
  <2>2. QED
    BY <1>5, <1>6, <2>1
<1>11. QED
  BY <1>6, <1>7, <1>8, <1>9, <1>10

\* A call on top of others.
LEMMA Pushed ==
  ASSUME NEW s \in Seq(Frame), NEW f \in Frame
  PROVE  /\ Append(s, f) \in Seq(Frame) /\ Len(Append(s, f)) = Len(s) + 1
         /\ DOMAIN Append(s, f) = 1 .. Len(s) + 1 /\ Len(s) \in Nat /\ DOMAIN s = 1 .. Len(s)
         /\ Append(s, f)[Len(s) + 1] = f
         /\ \A i \in 1 .. Len(s) : Append(s, f)[i] = s[i]
         /\ \A n : Frames(Append(s, f), n)
                     = Frames(s, n) + (IF f.node = n /\ f.at # "del" THEN 1 ELSE 0)
<1>1. /\ Append(s, f) \in Seq(Frame) /\ Len(Append(s, f)) = Len(s) + 1
      /\ DOMAIN Append(s, f) = 1 .. Len(s) + 1 /\ Len(s) \in Nat /\ DOMAIN s = 1 .. Len(s)
      /\ Append(s, f)[Len(s) + 1] = f
      /\ \A i \in 1 .. Len(s) : Append(s, f)[i] = s[i]
  OBVIOUS
<1>2. ASSUME NEW n
      PROVE  Frames(Append(s, f), n) = Frames(s, n) + (IF f.node = n /\ f.at # "del" THEN 1 ELSE 0)
  <2> DEFINE t == Append(s, f)
             H == {i \in DOMAIN s : s[i].node = n /\ s[i].at # "del"}
             K == {i \in DOMAIN t : t[i].node = n /\ t[i].at # "del"}
  <2>1. IsFiniteSet(H) /\ Cardinality(H) \in Nat
    BY FramesFacts, FS_CardinalityType
  <2>2. Len(s) + 1 \notin H /\ Frames(s, n) = Cardinality(H) /\ Frames(t, n) = Cardinality(K)
    BY <1>1 DEF Frames
  <2>3. CASE f.node = n /\ f.at # "del"
    <3>1. K = H \cup {Len(s) + 1}
      BY <1>1, <2>3
    <3> HIDE DEF H, K, t
    <3>2. Cardinality(H \cup {Len(s) + 1}) = Cardinality(H) + 1
      BY <2>1, <2>2, FS_AddElement
    <3>3. Frames(t, n) = Frames(s, n) + 1
      BY <2>2, <3>1, <3>2
    <3>4. QED
      BY <2>3, <3>3 DEF t
  <2>4. CASE ~(f.node = n /\ f.at # "del")
    <3>1. K = H
      BY <1>1, <2>4
    <3> HIDE DEF H, K
    <3>2. QED
      BY <2>1, <2>2, <2>4, <3>1
  <2>5. QED
    BY <2>3, <2>4
<1>3. QED
  BY <1>1, <1>2

\* What is below the call on top.
LEMMA BelowFacts ==
  ASSUME stack \in Seq(Frame), stack # <<>>
  PROVE  /\ Len(stack) \in Nat /\ Len(stack) >= 1 /\ DOMAIN stack = 1 .. Len(stack)
         /\ Top = stack[Len(stack)] /\ Top \in Frame /\ Top.at \in Calls
         /\ Below \in Seq(Frame) /\ Len(Below) = Len(stack) - 1
         /\ DOMAIN Below = 1 .. Len(stack) - 1
         /\ \A i \in 1 .. Len(stack) - 1 : Below[i] = stack[i]
         /\ stack = Append(Below, Top)
         /\ \A n : Frames(stack, n) = Frames(Below, n) + (IF Top.node = n /\ Top.at # "del" THEN 1 ELSE 0)
<1>1. /\ Len(stack) \in Nat /\ Len(stack) >= 1 /\ DOMAIN stack = 1 .. Len(stack)
      /\ Top = stack[Len(stack)] /\ Top \in Frame
  BY DEF Top
<1>2. /\ Below \in Seq(Frame) /\ Len(Below) = Len(stack) - 1
      /\ DOMAIN Below = 1 .. Len(stack) - 1
      /\ \A i \in 1 .. Len(stack) - 1 : Below[i] = stack[i]
  BY <1>1 DEF Below
<1>3. stack = Append(Below, Top)
  <2> DEFINE t == Append(Below, Top)
  <2>1. /\ t \in Seq(Frame) /\ Len(t) = Len(Below) + 1 /\ t[Len(Below) + 1] = Top
        /\ \A i \in 1 .. Len(Below) : t[i] = Below[i]
    BY <1>1, <1>2, Pushed
  <2>2. \A i \in 1 .. Len(stack) : t[i] = stack[i]
    BY <1>1, <1>2, <2>1
  <2> HIDE DEF t
  <2>3. stack = [i \in 1 .. Len(stack) |-> stack[i]] /\ t = [i \in 1 .. Len(t) |-> t[i]]
    BY <1>1, <2>1
  <2>4. t = stack
    BY <1>1, <1>2, <2>1, <2>2, <2>3, SMTT(30)
  <2>5. QED
    BY <2>4, SMTT(30) DEF t
<1>4. Top.at \in Calls
  BY <1>1 DEF Frame
<1>5. QED
  BY <1>1, <1>2, <1>3, <1>4, Pushed

\* The same, with the call on top as an element.
LEMMA StackFacts ==
  ASSUME stack \in Seq(Frame), stack # <<>>
  PROVE  /\ Len(stack) \in Nat /\ DOMAIN stack = 1 .. Len(stack) /\ Len(stack) \in DOMAIN stack
         /\ Top = stack[Len(stack)] /\ Below \in Seq(Frame) /\ Len(Below) = Len(stack) - 1
         /\ \A j \in DOMAIN Below : j \in DOMAIN stack /\ Below[j] = stack[j] /\ j # Len(stack)
         /\ \A j \in DOMAIN stack : j # Len(stack) => j \in DOMAIN Below /\ stack[j] = Below[j]
         /\ \A j \in DOMAIN stack : stack[j] \in Frame /\ stack[j].node \in Nodes \cup {NULL}
<1>1. /\ Len(stack) \in Nat /\ Len(stack) >= 1 /\ DOMAIN stack = 1 .. Len(stack)
      /\ Top = stack[Len(stack)] /\ Below \in Seq(Frame) /\ Len(Below) = Len(stack) - 1
      /\ DOMAIN Below = 1 .. Len(stack) - 1
      /\ \A i \in 1 .. Len(stack) - 1 : Below[i] = stack[i]
  BY BelowFacts
<1>2. \A j \in DOMAIN stack : stack[j] \in Frame /\ stack[j].node \in Nodes \cup {NULL}
  <2>1. \A f \in Frame : f.node \in Nodes \cup {NULL}
    BY DEF Frame
  <2>2. \A j \in DOMAIN stack : stack[j] \in Frame
    OBVIOUS
  <2>3. QED
    BY <2>1, <2>2
<1>3. /\ \A j \in 1 .. Len(stack) - 1 : j \in 1 .. Len(stack) /\ j # Len(stack)
      /\ \A j \in 1 .. Len(stack) : j # Len(stack) => j \in 1 .. Len(stack) - 1
      /\ Len(stack) \in 1 .. Len(stack)
  <2>1. Len(stack) \in Nat /\ Len(stack) >= 1
    BY <1>1
  <2>2. QED
    BY <2>1
<1>4. QED
  BY <1>1, <1>2, <1>3, ZenonT(40)

\* Calls as records, and the two that a full buffer pushes.
LEMMA CallFacts ==
  /\ \A a \in Calls, n \in Nodes \cup {NULL} :
       Call(a, n) \in Frame /\ Call(a, n).at = a /\ Call(a, n).node = n
  /\ \A s \in Seq(Frame) : \A n \in Nodes :
       s \o <<Call("full", n), Call("run", NULL)>> = Append(Append(s, Call("full", n)), Call("run", NULL))
<1>1. \A a \in Calls, n \in Nodes \cup {NULL} :
        Call(a, n) \in Frame /\ Call(a, n).at = a /\ Call(a, n).node = n
  BY DEF Call, Frame
<1>2. ASSUME NEW s \in Seq(Frame), NEW a \in Frame, NEW b \in Frame
      PROVE  s \o <<a, b>> = Append(Append(s, a), b)
  OBVIOUS
<1>3. Call("run", NULL) \in Frame /\ \A n \in Nodes : Call("full", n) \in Frame
  BY <1>1 DEF Calls
<1>4. QED
  BY <1>1, <1>2, <1>3

----------------------------------------------------------------------------
(* Types, and the steps by what they may touch.                            *)

\* The parts of the type invariant.
HeapTypes   == life \in [Nodes -> Lives] /\ edge \subseteq Nodes \X Nodes /\ held \subseteq Nodes
CountTypes  == rc \in [Nodes -> Nat] /\ color \in [Nodes -> Colors]
AddrTypes   == addr \in [Nodes -> 0 .. Len(buf)]
BufferTypes == buf \in Seq(EntryType) /\ unused \in Seq(DOMAIN buf) /\ num_roots \in Nat
GcType      == [phase : Phases, idx : Nat, end : Nat, dtors : BOOLEAN, rerun : {"no", "wanted", "done"},
                work : SUBSET Nodes, bwork : SUBSET Nodes]
GcTypes     == gc_active \in BOOLEAN /\ gc \in GcType
StackTypes  == stack \in Seq(Frame) /\ stack # <<>>

\* They make up the type invariant.
LEMMA TypeParts ==
  TypeOK <=> HeapTypes /\ CountTypes /\ AddrTypes /\ BufferTypes /\ GcTypes /\ StackTypes
BY DEF TypeOK, HeapTypes, CountTypes, AddrTypes, BufferTypes, GcTypes, GcType, StackTypes, Frame, EntryType

\* The same in the next state.
LEMMA TypePartsNext ==
  TypeOK' <=> HeapTypes' /\ CountTypes' /\ AddrTypes' /\ BufferTypes' /\ GcTypes' /\ StackTypes'
BY DEF TypeOK, HeapTypes, CountTypes, AddrTypes, BufferTypes, GcTypes, GcType, StackTypes, Frame, EntryType

\* The local variables of a run.
LEMMA GcFields ==
  ASSUME GcTypes
  PROVE  /\ gc.phase \in Phases /\ gc.idx \in Nat /\ gc.end \in Nat /\ gc.dtors \in BOOLEAN
         /\ gc.rerun \in {"no", "wanted", "done"} /\ gc.work \subseteq Nodes /\ gc.bwork \subseteq Nodes
BY DEF GcTypes, GcType

\* A run that begins.
Begun == [IdleGc EXCEPT !.phase = "start"]

\* The local variables before a run and at its beginning.
LEMMA BegunFacts ==
  /\ Begun \in GcType /\ Begun.phase = "start" /\ Begun.work = {} /\ Begun.bwork = {} /\ ~Begun.dtors
  /\ IdleGc \in GcType /\ IdleGc.phase = "idle" /\ IdleGc.work = {} /\ IdleGc.bwork = {} /\ ~IdleGc.dtors
BY DEF Begun, IdleGc, GcType, Phases

\* The steps of PHP code and of the engine other than the collector itself.
Deletion == Del \/ DelAfterDestructor \/ DelFree \/ \E m \in Nodes : FreeProperty(m)
Outer    == UserCode \/ Deletion \/ Destroyed \/ AfterFull

\* Those of the collector that look for garbage, those around destructors, and those
\* that free.
MarkStep    == MarkRoot \/ EndMark \/ \E r \in Nodes : MarkGrey(r)
ScanStep    == ScanRoot \/ EndScan \/ \E r \in Nodes : Scan(r) \/ ScanBlack(r)
CollectStep == CollectRoot \/ EndCollect \/ \E r \in Nodes : CollectWhite(r)
NestedStep  == NestedRoot \/ EndNested \/ \E r \in Nodes : RemoveNested(r)
DtorStep    == CallDestructor \/ AfterDestructor \/ EndDestructors
FreeStep    == Destroy \/ FreeGarbage

\* There are no other steps.
LEMMA StepKinds ==
  ASSUME Next
  PROVE  \/ Outer \/ Start \/ MarkStep \/ ScanStep \/ CollectStep \/ NestedStep \/ DtorStep \/ FreeStep
BY DEF Next, Engine, Outer, Deletion, MarkStep, ScanStep, CollectStep, NestedStep, DtorStep, FreeStep

\* Outside the collector: no run is on top, and at most a run begins.
LEMMA OuterPhase ==
  ASSUME GcTypes, StackTypes, StackShape, RunShape, Outer
  PROVE  /\ Top.at # "run" /\ gc.phase \in {"idle", "delref", "destroy"}
         /\ gc_active' = gc_active
         /\ gc' = gc \/ (gc.phase = "idle" /\ ~gc_active /\ gc' = Begun)
<1>1. Top.at # "run"
  BY DEF Outer, UserCode, Deletion, New, SetVariable, UnsetVariable, SetProperty, UnsetProperty,
     CollectCycles, DestructorReturns, InUserCode, Del, DelAfterDestructor, DelFree, FreeProperty,
     Destroyed, AfterFull
<1>2. gc.phase \in {"idle", "delref", "destroy"}
  BY <1>1, GcFields DEF RunShape, Phases
<1>3. gc_active' = gc_active /\ (gc' = gc \/ (~gc_active /\ gc' = Begun))
  BY DEF Outer, UserCode, Deletion, New, SetVariable, UnsetVariable, SetProperty, UnsetProperty,
     CollectCycles, DestructorReturns, Del, DelAfterDestructor, DelFree, FreeProperty,
     Destroyed, AfterFull, Release, ReleaseLast, ReleaseBuffered, ReleaseFull, Begun
<1>4. ~gc_active => gc.phase \notin {"delref", "destroy"}
  BY DEF RunShape
<1>5. QED
  BY <1>1, <1>2, <1>3, <1>4

\* The heap keeps its types in every step.
LEMMA HeapTypesStep ==
  ASSUME TypeOK, Next
  PROVE  HeapTypes'
<1>1. HeapTypes
  BY TypeParts
<1>2. \A n \in Nodes : {"none", "live", "destructed", "freeing", "null"} = Lives /\ life[n] \in Lives
  BY <1>1 DEF HeapTypes, Lives
<1>3. CASE UserCode
  <2>1. ASSUME NEW n \in Nodes, New(n) PROVE HeapTypes'
    BY <1>1, <1>2, <2>1 DEF HeapTypes, New, Lives
  <2>2. ASSUME NEW n \in Nodes, SetVariable(n) \/ UnsetVariable(n) PROVE HeapTypes'
    BY <1>1, <2>2 DEF HeapTypes, SetVariable, UnsetVariable
  <2>3. ASSUME NEW n \in Nodes, NEW m \in Nodes, SetProperty(n, m) \/ UnsetProperty(n, m) PROVE HeapTypes'
    BY <1>1, <2>3 DEF HeapTypes, SetProperty, UnsetProperty
  <2>4. CASE CollectCycles \/ DestructorReturns
    BY <1>1, <2>4 DEF HeapTypes, CollectCycles, DestructorReturns, heap
  <2>5. QED
    BY <1>3, <2>1, <2>2, <2>3, <2>4 DEF UserCode
<1>4. CASE Deletion
  BY <1>1, <1>2, <1>4 DEF HeapTypes, Deletion, Del, DelAfterDestructor, DelFree, FreeProperty, heap, Lives
<1>5. CASE Destroyed \/ AfterFull \/ Start \/ MarkStep
  BY <1>1, <1>2, <1>5 DEF HeapTypes, Destroyed, AfterFull, Start, MarkStep, MarkRoot, MarkGrey, EndMark, heap
<1>6. CASE ScanStep \/ NestedStep
  BY <1>1, <1>2, <1>6 DEF HeapTypes, ScanStep, ScanRoot, EndScan, Scan, ScanBlack, NestedStep, NestedRoot,
     RemoveNested, EndNested, heap
<1>7. CASE CollectStep
  <2>1. CASE EndCollect
    BY <1>1, <1>2, <2>1 DEF HeapTypes, EndCollect, Lives
  <2>2. CASE CollectRoot \/ \E r \in Nodes : CollectWhite(r)
    BY <1>1, <2>2 DEF HeapTypes, CollectRoot, CollectWhite, heap
  <2>3. QED
    BY <1>7, <2>1, <2>2 DEF CollectStep
<1>8. CASE DtorStep \/ FreeStep
  <2>1. CASE FreeGarbage
    BY <1>1, <1>2, <2>1 DEF HeapTypes, FreeGarbage, Lives
  <2>2. CASE Destroy \/ CallDestructor
    BY <1>1, <1>2, <2>2 DEF HeapTypes, Destroy, CallDestructor, Lives
  <2>3. CASE AfterDestructor \/ EndDestructors
    BY <1>1, <2>3 DEF HeapTypes, AfterDestructor, EndDestructors, heap
  <2>4. QED
    BY <1>8, <2>1, <2>2, <2>3 DEF DtorStep, FreeStep
<1>9. QED
  BY <1>3, <1>4, <1>5, <1>6, <1>7, <1>8, StepKinds DEF Outer

\* The calls with which a release goes on.
LEMMA ReleaseStack ==
  ASSUME NEW n \in Nodes, NEW s \in Seq(Frame), Release(n, s)
  PROVE  \/ stack' = s
         \/ stack' = Append(s, Call("del", n))
         \/ stack' = Append(Append(s, Call("full", n)), Call("run", NULL))
<1>1. CASE ReleaseLast(n, s)
  BY <1>1 DEF ReleaseLast
<1>2. CASE ReleaseBuffered(n, s)
  BY <1>2 DEF ReleaseBuffered
<1>3. CASE ReleaseFull(n, s)
  BY <1>3, CallFacts DEF ReleaseFull
<1>4. QED
  BY <1>1, <1>2, <1>3 DEF Release

\* A call that is about an object.
LEMMA TopNode ==
  ASSUME StackTypes, StackShape, Top.at \notin {"main", "run"}
  PROVE  Top.node \in Nodes /\ Len(stack) > 1 /\ stack[Len(stack)].node = Top.node
                            /\ stack[Len(stack)].at = Top.at
<1>1. /\ Len(stack) \in Nat /\ Len(stack) >= 1 /\ DOMAIN stack = 1 .. Len(stack)
      /\ Top = stack[Len(stack)] /\ Top \in Frame
  BY BelowFacts DEF StackTypes
<1>2. Len(stack) \in DOMAIN stack
  BY <1>1
<1>3. Top.node # NULL /\ Len(stack) # 1
  BY <1>1, <1>2 DEF StackShape, Shape
<1>4. Top.node \in Nodes \cup {NULL}
  BY <1>1 DEF Frame
<1>5. QED
  BY <1>1, <1>3, <1>4

\* The call on top goes on elsewhere.
LEMMA GotoFacts ==
  ASSUME StackTypes, NEW a \in Calls
  PROVE  Goto(a) = Append(Below, Call(a, Top.node)) /\ Call(a, Top.node) \in Frame
<1>1. Top \in Frame
  BY BelowFacts DEF StackTypes
<1>2. [Top EXCEPT !.at = a] = [at |-> a, node |-> Top.node]
  BY <1>1 DEF Frame
<1>3. QED
  BY <1>1, <1>2 DEF Goto, Call, Frame

\* The entry that a loop over the buffer is at.
LEMMA EntryFacts ==
  ASSUME TypeOK, RunShape, Addresses, gc_active, gc.idx <= gc.end
  PROVE  /\ gc.idx \in DOMAIN buf /\ gc.idx \in 1 .. Len(buf) /\ Len(buf) \in Nat
         /\ DOMAIN buf = 1 .. Len(buf)
         /\ Entry = buf[gc.idx] /\ Entry \in EntryType
         /\ Entry.tag # "UNUSED" => Entry.ref \in Nodes /\ addr[Entry.ref] = gc.idx
<1>1. buf \in Seq(EntryType) /\ gc.idx \in Nat /\ gc.end \in Nat
  BY TypeParts, GcFields DEF BufferTypes
<1>2. Len(buf) \in Nat /\ DOMAIN buf = 1 .. Len(buf)
  BY <1>1
<1>3. 1 <= gc.idx /\ gc.end <= Len(buf)
  BY DEF RunShape
<1>4. gc.idx \in 1 .. Len(buf)
  BY <1>1, <1>2, <1>3
<1>5. QED
  BY <1>1, <1>2, <1>4 DEF Entry, Addresses

\* The calls keep their types in every step.
LEMMA StackTypesStep ==
  ASSUME TypeOK, StackShape, RunShape, Addresses, Next
  PROVE  StackTypes'
<1>1. StackTypes /\ HeapTypes /\ BufferTypes /\ GcTypes
  BY TypeParts, SMTT(30)
<1>2. Below \in Seq(Frame) /\ stack \in Seq(Frame) /\ Len(Below) = Len(stack) - 1 /\ Len(stack) \in Nat
  BY <1>1, BelowFacts DEF StackTypes
<1>3. ASSUME NEW s \in Seq(Frame), NEW f \in Frame
      PROVE  Append(s, f) \in Seq(Frame) /\ Append(s, f) # <<>>
  BY Pushed
<1>4. Call("run", NULL) \in Frame /\ \A n \in Nodes : \A a \in Calls : Call(a, n) \in Frame
  BY CallFacts DEF Calls
<1>5. ASSUME NEW n \in Nodes, NEW s \in Seq(Frame), s # <<>>, Release(n, s) PROVE StackTypes'
  BY <1>3, <1>4, <1>5, ReleaseStack DEF StackTypes, Calls
<1>6. ASSUME Len(stack) > 1 PROVE Below # <<>>
  BY <1>2, <1>6
<1>7. CASE UserCode
  <2>1. CASE DestructorReturns
    BY <1>1, <1>2, <1>5, <1>6, <2>1, TopNode DEF DestructorReturns
  <2>2. CASE CollectCycles
    BY <1>2, <1>3, <1>4, <2>2 DEF CollectCycles, StackTypes
  <2>3. CASE \E n, m \in Nodes : UnsetVariable(n) \/ UnsetProperty(n, m)
    BY <1>1, <1>2, <1>5, <2>3 DEF UnsetVariable, UnsetProperty, StackTypes
  <2>4. CASE \E n, m \in Nodes : New(n) \/ SetVariable(n) \/ SetProperty(n, m)
    BY <1>1, <2>4 DEF New, SetVariable, SetProperty, StackTypes
  <2>5. QED
    BY <1>7, <2>1, <2>2, <2>3, <2>4 DEF UserCode
<1>8. CASE Deletion
  <2>1. CASE \E m \in Nodes : FreeProperty(m)
    BY <1>1, <1>2, <1>5, <2>1 DEF FreeProperty, StackTypes
  <2>2. CASE Del
    BY <1>1, <1>2, <1>3, <1>4, <1>6, <2>2, TopNode, GotoFacts, ZenonT(40) DEF Del, StackTypes, Calls
  <2>3. CASE DelAfterDestructor \/ DelFree
    BY <1>1, <1>2, <1>3, <1>4, <1>6, <2>3, TopNode, GotoFacts DEF DelAfterDestructor, DelFree, StackTypes, Calls
  <2>4. QED
    BY <1>8, <2>1, <2>2, <2>3 DEF Deletion
<1>9. CASE Destroyed \/ AfterFull
  BY <1>1, <1>2, <1>3, <1>4, <1>6, <1>9, TopNode, GotoFacts DEF Destroyed, AfterFull, StackTypes, Calls
<1>10. ASSUME Top.at = "run" PROVE Below # <<>>
  <2>1. Len(stack) # 1
    BY <1>1, <1>10, BelowFacts DEF StackShape, Shape, StackTypes
  <2>2. QED
    BY <1>1, <1>6, <2>1, BelowFacts DEF StackTypes
<1>11. CASE Start \/ EndCollect \/ FreeGarbage
  BY <1>1, <1>2, <1>10, <1>11 DEF Start, EndCollect, FreeGarbage, EndRun, Running, StackTypes
<1>12. CASE CallDestructor \/ Destroy
  <2>1. gc_active /\ gc.idx <= gc.end
    BY <1>12 DEF CallDestructor, Destroy, Scanning, Running, RunShape
  <2>2. Entry.tag # "UNUSED" => Entry.ref \in Nodes
    BY <2>1, EntryFacts
  <2>3. QED
    BY <1>1, <1>2, <1>3, <1>4, <1>12, <2>2 DEF CallDestructor, Destroy, StackTypes, Calls
<1>13. CASE MarkStep \/ ScanStep \/ CollectRoot \/ (\E r \in Nodes : CollectWhite(r)) \/ NestedStep
  BY <1>1, <1>13 DEF MarkStep, MarkRoot, MarkGrey, EndMark, ScanStep, ScanRoot, EndScan, Scan, ScanBlack,
     CollectRoot, CollectWhite, NestedStep, NestedRoot, RemoveNested, EndNested, StackTypes
<1>14. CASE AfterDestructor \/ EndDestructors
  BY <1>1, <1>14 DEF AfterDestructor, EndDestructors, StackTypes
<1>15. QED
  BY <1>7, <1>8, <1>9, <1>11, <1>12, <1>13, <1>14, StepKinds
     DEF Outer, CollectStep, DtorStep, FreeStep

----------------------------------------------------------------------------
(* Counting references.                                                    *)

\* The number of properties that refer to a node.
LEMMA InCountFacts ==
  ASSUME NEW E \in SUBSET (Nodes \X Nodes), NEW n
  PROVE  /\ IsFiniteSet({e \in E : e[2] = n}) /\ InCount(E, n) \in Nat
         /\ InCount(E, n) = 0 => \A e \in E : e[2] # n
         /\ (\A e \in E : e[2] # n) => InCount(E, n) = 0
<1>1. IsFiniteSet(Nodes \X Nodes)
  BY ConstantsAssumption, FS_Product
<1> DEFINE I == {e \in E : e[2] = n}
<1>2. I \in SUBSET (Nodes \X Nodes)
  OBVIOUS
<1>3. IsFiniteSet(I) /\ Cardinality(I) \in Nat /\ InCount(E, n) = Cardinality(I)
  BY <1>1, <1>2, FS_Subset, FS_CardinalityType DEF InCount
<1>4. Cardinality(I) = 0 <=> I = {}
  BY <1>3, FS_EmptySet
<1>5. I = {} <=> \A e \in E : e[2] # n
  OBVIOUS
<1>6. QED
  BY <1>3, <1>4, <1>5

\* One property more.
LEMMA InAdd ==
  ASSUME NEW E \in SUBSET (Nodes \X Nodes), NEW e \in Nodes \X Nodes, e \notin E, NEW n
  PROVE  InCount(E \cup {e}, n) = InCount(E, n) + (IF e[2] = n THEN 1 ELSE 0)
<1> DEFINE I == {x \in E : x[2] = n}
           J == {x \in E \cup {e} : x[2] = n}
<1>1. IsFiniteSet(I) /\ Cardinality(I) \in Nat
  BY InCountFacts, FS_CardinalityType
<1>2. InCount(E, n) = Cardinality(I) /\ InCount(E \cup {e}, n) = Cardinality(J) /\ e \notin I
  BY DEF InCount
<1>3. (e[2] = n => J = I \cup {e}) /\ (e[2] # n => J = I)
  OBVIOUS
<1> HIDE DEF I, J
<1>4. Cardinality(I \cup {e}) = Cardinality(I) + 1
  BY <1>1, <1>2, FS_AddElement
<1>5. CASE e[2] = n
  BY <1>1, <1>2, <1>3, <1>4, <1>5
<1>6. CASE e[2] # n
  <2>1. InCount(E \cup {e}, n) = InCount(E, n) /\ InCount(E, n) \in Nat
    BY <1>1, <1>2, <1>3, <1>6
  <2>2. QED
    BY <1>6, <2>1
<1>7. QED
  BY <1>5, <1>6

\* One property less.
LEMMA InRemove ==
  ASSUME NEW E \in SUBSET (Nodes \X Nodes), NEW e \in E, NEW n
  PROVE  InCount(E \ {e}, n) = InCount(E, n) - (IF e[2] = n THEN 1 ELSE 0)
<1>1. E \ {e} \in SUBSET (Nodes \X Nodes) /\ e \in Nodes \X Nodes /\ e \notin E \ {e} /\ (E \ {e}) \cup {e} = E
  OBVIOUS
<1>2. InCount(E, n) = InCount(E \ {e}, n) + (IF e[2] = n THEN 1 ELSE 0)
  BY <1>1, InAdd
<1>3. InCount(E \ {e}, n) \in Nat
  BY <1>1, InCountFacts
<1>4. QED
  BY <1>2, <1>3

\* All the properties of r to the nodes in M less.
LEMMA InRow ==
  ASSUME NEW E \in SUBSET (Nodes \X Nodes), NEW r \in Nodes, NEW M \in SUBSET Nodes,
         \A m \in M : <<r, m>> \in E,
         NEW F, F = {e \in E : ~(e[1] = r /\ e[2] \in M)}, NEW n \in Nodes
  PROVE  InCount(E, n) = InCount(F, n) + (IF n \in M THEN 1 ELSE 0)
<1> DEFINE I == {x \in E : x[2] = n}
           J == {x \in F : x[2] = n}
<1>1. F \in SUBSET (Nodes \X Nodes)
  OBVIOUS
<1>2. IsFiniteSet(J) /\ Cardinality(J) \in Nat
  BY <1>1, InCountFacts, FS_CardinalityType
<1>3. InCount(E, n) = Cardinality(I) /\ InCount(F, n) = Cardinality(J)
  BY DEF InCount
<1>4. CASE n \in M
  <2>1. <<r, n>> \in E /\ <<r, n>> \notin J
    BY <1>4
  <2>2. I \subseteq J \cup {<<r, n>>}
    <3> SUFFICES ASSUME NEW x \in I, x \notin J PROVE x = <<r, n>>
      OBVIOUS
    <3>1. x \in E /\ x[2] = n /\ x[1] = r
      BY <1>4
    <3>2. QED
      BY <3>1
  <2>3. I = J \cup {<<r, n>>}
    BY <2>1, <2>2
  <2> HIDE DEF I, J
  <2>4. QED
    BY <1>2, <1>3, <1>4, <2>1, <2>3, FS_AddElement
<1>5. CASE n \notin M
  <2>1. I = J
    BY <1>5
  <2> HIDE DEF I, J
  <2>2. QED
    BY <1>2, <1>3, <1>5, <2>1
<1>6. QED
  BY <1>4, <1>5

\* The counted references of a node.
LEMMA BalanceParts ==
  ASSUME TypeOK, NEW n \in Nodes
  PROVE  /\ Counted \in SUBSET (Nodes \X Nodes) /\ edge \in SUBSET (Nodes \X Nodes)
         /\ InCount(Counted, n) \in Nat /\ InCount(edge, n) \in Nat
         /\ HeldCount(held, n) \in {0, 1} /\ Frames(stack, n) \in Nat /\ Delayed(n) \in {0, 1}
<1>1. edge \in SUBSET (Nodes \X Nodes) /\ stack \in Seq(Frame)
  BY TypeParts DEF HeapTypes, StackTypes
<1>2. Counted \in SUBSET (Nodes \X Nodes)
  BY <1>1 DEF Counted
<1>3. QED
  BY <1>1, <1>2, InCountFacts, FramesFacts DEF HeldCount, Delayed

\* A call holds its object, and two calls hold it twice.
LEMMA HoldersCount ==
  ASSUME TypeOK, Balance, NEW n \in Nodes, life[n] # "none"
  PROVE  /\ \A i \in DOMAIN stack : stack[i].node = n /\ stack[i].at # "del" => rc[n] >= 1
         /\ \A i, j \in DOMAIN stack :
              i # j /\ stack[i].node = n /\ stack[i].at # "del" /\ stack[j].node = n /\ stack[j].at # "del" =>
                rc[n] >= 2
         /\ gc.phase = "delref" /\ Entry.ref = n => rc[n] >= 1
         /\ rc[n] = 0 => /\ n \notin held /\ ~(gc.phase = "delref" /\ Entry.ref = n)
                         /\ \A i \in DOMAIN stack : stack[i].node = n => stack[i].at = "del"
                         /\ \A e \in Counted : e[2] # n
<1>1. stack \in Seq(Frame)
  BY TypeParts DEF StackTypes
<1>2. rc[n] = InCount(Counted, n) + HeldCount(held, n) + Frames(stack, n) + Delayed(n)
  BY DEF Balance
<1>3. /\ Counted \in SUBSET (Nodes \X Nodes) /\ InCount(Counted, n) \in Nat
      /\ HeldCount(held, n) \in {0, 1} /\ Frames(stack, n) \in Nat /\ Delayed(n) \in {0, 1}
  BY BalanceParts
<1>4. rc[n] >= Frames(stack, n) /\ rc[n] >= Delayed(n)
  BY <1>2, <1>3
<1>10. rc[n] \in Nat
  BY <1>2, <1>3
<1>5. \A i \in DOMAIN stack : stack[i].node = n /\ stack[i].at # "del" => rc[n] >= 1
  <2>1. \A i \in DOMAIN stack : stack[i].node = n /\ stack[i].at # "del" => Frames(stack, n) >= 1
    BY <1>1, FramesFacts
  <2>2. Frames(stack, n) >= 1 => rc[n] >= 1
    BY <1>3, <1>4, <1>10
  <2>3. QED
    BY <2>1, <2>2
<1>6. \A i, j \in DOMAIN stack :
        i # j /\ stack[i].node = n /\ stack[i].at # "del" /\ stack[j].node = n /\ stack[j].at # "del" =>
          rc[n] >= 2
  <2>1. \A i, j \in DOMAIN stack :
          i # j /\ stack[i].node = n /\ stack[i].at # "del" /\ stack[j].node = n /\ stack[j].at # "del" =>
            Frames(stack, n) >= 2
    BY <1>1, FramesFacts
  <2>2. Frames(stack, n) >= 2 => rc[n] >= 2
    BY <1>3, <1>4, <1>10
  <2>3. QED
    BY <2>1, <2>2
<1>7. gc.phase = "delref" /\ Entry.ref = n => rc[n] >= 1
  BY <1>4 DEF Delayed
<1>8. ASSUME rc[n] = 0 PROVE /\ n \notin held /\ ~(gc.phase = "delref" /\ Entry.ref = n)
                             /\ \A i \in DOMAIN stack : stack[i].node = n => stack[i].at = "del"
                             /\ \A e \in Counted : e[2] # n
  <2>1. InCount(Counted, n) = 0 /\ HeldCount(held, n) = 0 /\ Frames(stack, n) = 0 /\ Delayed(n) = 0
    BY <1>2, <1>3, <1>8
  <2>2. \A e \in Counted : e[2] # n
    BY <1>3, <2>1, InCountFacts
  <2>3. \A i \in DOMAIN stack : stack[i].node = n => stack[i].at = "del"
    BY <1>1, <2>1, FramesFacts
  <2>4. QED
    BY <2>1, <2>2, <2>3 DEF HeldCount, Delayed
<1>9. QED
  BY <1>5, <1>6, <1>7, <1>8

\* The passes alone take counts back.
LEMMA TakenFacts ==
  /\ gc.phase \notin Passes => Taken = {} /\ Counted = edge
  /\ gc.phase = "mark"    => Taken = Colored("grey") \ gc.work
  /\ gc.phase = "scan"    => Taken = Colored("grey") \cup Colored("white") \cup gc.bwork
  /\ gc.phase = "collect" => Taken = Colored("white") \cup gc.work
BY DEF Taken, Counted, Passes

----------------------------------------------------------------------------
(* The buffer outside the passes.                                          *)

\* The parts of the invariant that are about the buffer.
BufferInvariant ==
  /\ AddrTypes /\ BufferTypes /\ color \in [Nodes -> Colors]
  /\ Addresses /\ UnusedListed

\* The buffer as a function.
LEMMA BufferFacts ==
  ASSUME BufferInvariant
  PROVE  /\ buf \in Seq(EntryType) /\ Len(buf) \in Nat /\ DOMAIN buf = 1 .. Len(buf)
         /\ unused \in Seq(DOMAIN buf) /\ Len(unused) \in Nat /\ DOMAIN unused = 1 .. Len(unused)
         /\ IsFiniteSet(Used) /\ Cardinality(Used) = num_roots /\ num_roots \in Nat
         /\ \A k \in 1 .. Len(unused) : unused[k] \in DOMAIN buf \ Used
         /\ \A n \in Nodes : addr[n] # 0 => addr[n] \in Used /\ buf[addr[n]].ref = n
         /\ \A i \in Used : buf[i].ref \in Nodes /\ addr[buf[i].ref] = i
         /\ \A i \in DOMAIN buf : buf[i] \in EntryType
<1>1. /\ buf \in Seq(EntryType) /\ Len(buf) \in Nat /\ DOMAIN buf = 1 .. Len(buf)
      /\ unused \in Seq(DOMAIN buf) /\ Len(unused) \in Nat /\ DOMAIN unused = 1 .. Len(unused)
      /\ num_roots \in Nat /\ num_roots = Cardinality(Used)
      /\ \A i \in DOMAIN buf : buf[i] \in EntryType
  BY DEF BufferInvariant, BufferTypes, UnusedListed
<1>2. IsFiniteSet(Used)
  <2>1. IsFiniteSet(1 .. Len(buf)) /\ Used \subseteq 1 .. Len(buf)
    BY <1>1, FS_Interval DEF Used
  <2>2. QED
    BY <2>1, FS_Subset
<1>3. \A k \in 1 .. Len(unused) : unused[k] \in DOMAIN buf \ Used
  BY <1>1 DEF BufferInvariant, UnusedListed, Used
<1>4. \A n \in Nodes : addr[n] # 0 => addr[n] \in Used /\ buf[addr[n]].ref = n
  BY <1>1 DEF BufferInvariant, AddrTypes, Addresses, Used, TagOf
<1>5. \A i \in Used : buf[i].ref \in Nodes /\ addr[buf[i].ref] = i
  BY DEF BufferInvariant, Addresses, Used
<1>6. QED
  BY <1>1, <1>2, <1>3, <1>4, <1>5

\* A root is entered: one entry becomes its entry, and the others stay.
LEMMA EnterFacts ==
  ASSUME BufferInvariant, NEW n \in Nodes, addr[n] = 0, Enter(n)
  PROVE  /\ BufferInvariant'
         /\ addr'[n] \in DOMAIN buf' \ Used /\ addr'[n] # 0
         /\ buf'[addr'[n]] = [tag |-> "ROOT", ref |-> n]
         /\ addr' = [addr EXCEPT ![n] = addr'[n]] /\ color' = [color EXCEPT ![n] = "purple"]
         /\ DOMAIN buf' = DOMAIN buf \cup {addr'[n]}
         /\ \A i \in DOMAIN buf : i # addr'[n] => buf'[i] = buf[i]
         /\ Len(buf) <= Len(buf')
<1> DEFINE i == IF unused # <<>> THEN unused[Len(unused)] ELSE Len(buf) + 1
           e == [tag |-> "ROOT", ref |-> n]
<1>1. /\ buf \in Seq(EntryType) /\ Len(buf) \in Nat /\ DOMAIN buf = 1 .. Len(buf)
      /\ unused \in Seq(DOMAIN buf) /\ Len(unused) \in Nat /\ DOMAIN unused = 1 .. Len(unused)
      /\ IsFiniteSet(Used) /\ Cardinality(Used) = num_roots /\ num_roots \in Nat
      /\ \A k \in 1 .. Len(unused) : unused[k] \in DOMAIN buf \ Used
      /\ \A k \in DOMAIN buf : buf[k] \in EntryType
  BY BufferFacts
<1>2. e \in EntryType /\ e.tag = "ROOT" /\ e.ref = n
  BY DEF EntryType, Tags
<1>3. addr \in [Nodes -> 0 .. Len(buf)] /\ color \in [Nodes -> Colors]
  BY DEF BufferInvariant, AddrTypes
<1>4. /\ i \in Nat \ {0} /\ i \notin Used /\ i \in DOMAIN buf \cup {i}
      /\ addr' = [addr EXCEPT ![n] = i] /\ addr'[n] = i /\ color' = [color EXCEPT ![n] = "purple"]
      /\ num_roots' = num_roots + 1
  BY <1>1, <1>3 DEF Enter, Used
<1>5. /\ buf' \in Seq(EntryType) /\ DOMAIN buf' = DOMAIN buf \cup {i} /\ DOMAIN buf' = 1 .. Len(buf')
      /\ buf'[i] = e /\ (\A j \in DOMAIN buf : j # i => buf'[j] = buf[j])
      /\ Len(buf') \in Nat /\ Len(buf) <= Len(buf') /\ i <= Len(buf')
      /\ unused' \in Seq(DOMAIN buf)
      /\ \A j \in DOMAIN buf : (\E k \in DOMAIN unused' : unused'[k] = j)
                                 <=> j # i /\ (\E k \in DOMAIN unused : unused[k] = j)
      /\ \A j, k \in DOMAIN unused' : unused'[j] = unused'[k] => j = k
  <2>1. CASE unused # <<>>
    <3>1. i = unused[Len(unused)] /\ Len(unused) >= 1 /\ i \in 1 .. Len(buf)
      BY <1>1, <2>1
    <3>2. buf' = [buf EXCEPT ![i] = e]
      BY <2>1 DEF Enter
    <3>3. /\ buf' \in Seq(EntryType) /\ DOMAIN buf' = DOMAIN buf \cup {i} /\ DOMAIN buf' = 1 .. Len(buf')
          /\ buf'[i] = e /\ (\A j \in DOMAIN buf : j # i => buf'[j] = buf[j])
          /\ Len(buf') \in Nat /\ Len(buf) <= Len(buf') /\ i <= Len(buf')
      <4> HIDE DEF i, e
      <4>1. QED
        BY <1>1, <1>2, <3>1, <3>2
    <3>4. unused' = SubSeq(unused, 1, Len(unused) - 1)
      BY <2>1 DEF Enter
    <3>5. /\ unused' \in Seq(DOMAIN buf) /\ DOMAIN unused' = 1 .. Len(unused) - 1
          /\ \A k \in 1 .. Len(unused) - 1 : unused'[k] = unused[k]
      BY <1>1, <3>1, <3>4
    <3>6. \A j, k \in DOMAIN unused : unused[j] = unused[k] => j = k
      BY SMTT(30) DEF BufferInvariant, UnusedListed
    <3> HIDE DEF i
    <3>11. /\ \A k \in DOMAIN unused' : k \in DOMAIN unused /\ k # Len(unused) /\ unused'[k] = unused[k]
           /\ \A k \in DOMAIN unused : k # Len(unused) => k \in DOMAIN unused' /\ unused'[k] = unused[k]
           /\ Len(unused) \in DOMAIN unused
      <4>1. /\ \A k \in 1 .. Len(unused) - 1 : k \in 1 .. Len(unused) /\ k # Len(unused)
            /\ \A k \in 1 .. Len(unused) : k # Len(unused) => k \in 1 .. Len(unused) - 1
            /\ Len(unused) \in 1 .. Len(unused)
        <5>1. Len(unused) \in Nat /\ Len(unused) >= 1
          BY <1>1, <3>1
        <5>2. QED
          BY <5>1
      <4>2. QED
        BY <1>1, <3>5, <4>1, ZenonT(40)
    <3>7. \A j \in DOMAIN buf : (\E k \in DOMAIN unused' : unused'[k] = j)
                                 <=> j # i /\ (\E k \in DOMAIN unused : unused[k] = j)
      <4> SUFFICES ASSUME NEW j \in DOMAIN buf
                   PROVE (\E k \in DOMAIN unused' : unused'[k] = j)
                           <=> j # i /\ (\E k \in DOMAIN unused : unused[k] = j)
        OBVIOUS
      <4>1. ASSUME NEW k \in DOMAIN unused', unused'[k] = j
            PROVE  j # i /\ (\E l \in DOMAIN unused : unused[l] = j)
        <5>1. k \in DOMAIN unused /\ Len(unused) \in DOMAIN unused /\ k # Len(unused) /\ unused[k] = j
          BY <3>11, <4>1
        <5>2. QED
          BY <3>1, <3>6, <5>1
      <4>2. ASSUME NEW k \in DOMAIN unused, unused[k] = j, j # i
            PROVE  \E l \in DOMAIN unused' : unused'[l] = j
        <5>1. k # Len(unused)
          BY <3>1, <4>2
        <5>2. k \in DOMAIN unused' /\ unused'[k] = j
          BY <3>11, <4>2, <5>1
        <5>3. QED
          BY <5>2
      <4>3. QED
        BY <4>1, <4>2
    <3>8. \A j, k \in DOMAIN unused' : unused'[j] = unused'[k] => j = k
      BY <3>11, <3>6
    <3>9. QED
      BY <3>3, <3>5, <3>7, <3>8
  <2>2. CASE unused = <<>>
    <3>1. i = Len(buf) + 1 /\ i \notin DOMAIN buf /\ buf' = Append(buf, e) /\ unused' = unused
      BY <1>1, <2>2 DEF Enter
    <3>2. /\ buf' \in Seq(EntryType) /\ DOMAIN buf' = DOMAIN buf \cup {i} /\ DOMAIN buf' = 1 .. Len(buf')
          /\ buf'[i] = e /\ (\A j \in DOMAIN buf : j # i => buf'[j] = buf[j])
          /\ Len(buf') \in Nat /\ Len(buf) <= Len(buf') /\ i <= Len(buf')
      <4> HIDE DEF i, e
      <4>1. QED
        BY <1>1, <1>2, <3>1
    <3>3. QED
      BY <1>1, <3>1, <3>2 DEF BufferInvariant, UnusedListed
  <2>3. QED
    BY <2>1, <2>2
<1> HIDE DEF i
<1>6. addr' \in [Nodes -> 0 .. Len(buf')] /\ color' \in [Nodes -> Colors]
  BY <1>1, <1>3, <1>4, <1>5 DEF Colors
<1>7. Used' = Used \cup {i}
  BY <1>1, <1>2, <1>4, <1>5 DEF Used
<1>8. Cardinality(Used') = num_roots + 1
  BY <1>1, <1>4, <1>7, FS_AddElement
<1>9. BufferTypes'
  <2>1. DOMAIN buf \subseteq DOMAIN buf'
    BY <1>5
  <2>2. unused' \in Seq(DOMAIN buf')
    BY <1>5, <2>1
  <2>3. QED
    BY <1>1, <1>4, <1>5, <2>2 DEF BufferTypes
<1>10. UnusedListed'
  <2>1. \A j \in DOMAIN buf' : buf'[j].tag = "UNUSED" <=> \E k \in DOMAIN unused' : unused'[k] = j
    <3> SUFFICES ASSUME NEW j \in DOMAIN buf'
                 PROVE  buf'[j].tag = "UNUSED" <=> \E k \in DOMAIN unused' : unused'[k] = j
      OBVIOUS
    <3>1. CASE j = i
      <4>1. ~ \E k \in DOMAIN unused' : unused'[k] = i
        BY <1>1, <1>5
      <4>2. QED
        BY <1>2, <1>5, <3>1, <4>1
    <3>2. CASE j # i
      BY <1>5, <3>2 DEF BufferInvariant, UnusedListed
    <3>3. QED
      BY <3>1, <3>2
  <2>2. QED
    BY <1>4, <1>5, <1>8, <2>1 DEF UnusedListed
<1>11. Addresses'
  <2>1. \A j \in DOMAIN buf' : buf'[j].tag # "UNUSED" => buf'[j].ref \in Nodes /\ addr'[buf'[j].ref] = j
    <3> SUFFICES ASSUME NEW j \in DOMAIN buf', buf'[j].tag # "UNUSED"
                 PROVE  buf'[j].ref \in Nodes /\ addr'[buf'[j].ref] = j
      OBVIOUS
    <3>1. CASE j = i
      BY <1>2, <1>4, <1>5, <3>1
    <3>2. CASE j # i
      <4>1. j \in Used /\ buf'[j] = buf[j]
        BY <1>5, <3>2 DEF Used
      <4>2. buf[j].ref \in Nodes /\ addr[buf[j].ref] = j /\ j # 0
        BY <1>1, <4>1, BufferFacts DEF Used
      <4>3. QED
        BY <1>3, <1>4, <4>1, <4>2
    <3>3. QED
      BY <3>1, <3>2
  <2>2. \A m \in Nodes : addr'[m] # 0 => buf'[addr'[m]].tag # "UNUSED" /\ buf'[addr'[m]].ref = m
    <3> SUFFICES ASSUME NEW m \in Nodes, addr'[m] # 0
                 PROVE  buf'[addr'[m]].tag # "UNUSED" /\ buf'[addr'[m]].ref = m
      OBVIOUS
    <3>1. CASE m = n
      BY <1>2, <1>4, <1>5, <3>1
    <3>2. CASE m # n
      <4>1. addr'[m] = addr[m]
        BY <1>3, <1>4, <3>2
      <4>2. addr[m] \in Used /\ buf[addr[m]].ref = m /\ addr[m] # i
        BY <1>4, <4>1, BufferFacts
      <4>3. QED
        BY <1>5, <4>1, <4>2 DEF Used
    <3>3. QED
      BY <3>1, <3>2
  <2>3. QED
    BY <2>1, <2>2 DEF Addresses, TagOf
<1>12. QED
  BY <1>4, <1>5, <1>6, <1>9, <1>10, <1>11 DEF BufferInvariant, AddrTypes

\* A root is removed: its entry joins the unused ones.
LEMMA RemoveFacts ==
  ASSUME BufferInvariant, NEW n \in Nodes, addr[n] # 0, RemoveFromBuffer(n)
  PROVE  /\ BufferInvariant'
         /\ addr' = [addr EXCEPT ![n] = 0] /\ color' = [color EXCEPT ![n] = "black"]
         /\ DOMAIN buf' = DOMAIN buf /\ Len(buf') = Len(buf)
         /\ buf'[addr[n]].tag = "UNUSED"
         /\ \A i \in DOMAIN buf : i # addr[n] => buf'[i] = buf[i]
<1> DEFINE i == addr[n]
<1>1. /\ buf \in Seq(EntryType) /\ Len(buf) \in Nat /\ DOMAIN buf = 1 .. Len(buf)
      /\ unused \in Seq(DOMAIN buf) /\ Len(unused) \in Nat /\ DOMAIN unused = 1 .. Len(unused)
      /\ IsFiniteSet(Used) /\ Cardinality(Used) = num_roots /\ num_roots \in Nat
      /\ \A k \in 1 .. Len(unused) : unused[k] \in DOMAIN buf \ Used
      /\ \A k \in DOMAIN buf : buf[k] \in EntryType
      /\ i \in Used /\ buf[i].ref = n
  BY BufferFacts
<1>2. Unused \in EntryType /\ Unused.tag = "UNUSED"
  BY DEF Unused, EntryType, Tags
<1>3. addr \in [Nodes -> 0 .. Len(buf)] /\ color \in [Nodes -> Colors]
  BY DEF BufferInvariant, AddrTypes
<1>4. /\ addr' = [addr EXCEPT ![n] = 0] /\ color' = [color EXCEPT ![n] = "black"]
      /\ buf' = [buf EXCEPT ![i] = Unused] /\ unused' = Append(unused, i)
      /\ num_roots' = num_roots - 1
  BY DEF RemoveFromBuffer, LinkUnused
<1>5. i \in DOMAIN buf /\ i # 0
  BY <1>1 DEF Used
<1> HIDE DEF i
<1>6. /\ buf' \in Seq(EntryType) /\ DOMAIN buf' = DOMAIN buf /\ Len(buf') = Len(buf)
      /\ buf'[i].tag = "UNUSED"
      /\ \A j \in DOMAIN buf : j # i => buf'[j] = buf[j]
  BY <1>1, <1>2, <1>4, <1>5
<1>7. /\ unused' \in Seq(DOMAIN buf) /\ Len(unused) + 1 \in DOMAIN unused'
      /\ DOMAIN unused' = DOMAIN unused \cup {Len(unused) + 1}
      /\ unused'[Len(unused) + 1] = i /\ \A k \in DOMAIN unused : unused'[k] = unused[k]
      /\ \A k \in DOMAIN unused : unused[k] # i
  <2>1. \A k \in DOMAIN unused : unused[k] # i
    BY <1>1
  <2>2. QED
    BY <1>1, <1>4, <1>5, <2>1
<1>8. addr' \in [Nodes -> 0 .. Len(buf')] /\ color' \in [Nodes -> Colors]
  BY <1>1, <1>3, <1>4, <1>6 DEF Colors
<1>9. Used' = Used \ {i}
  BY <1>6 DEF Used
<1>10. Cardinality(Used') = num_roots - 1 /\ num_roots - 1 \in Nat
  <2>1. Cardinality(Used') = num_roots - 1
    BY <1>1, <1>9, FS_RemoveElement
  <2>2. IsFiniteSet(Used')
    BY <1>1, <1>9, FS_RemoveElement
  <2>3. QED
    BY <2>1, <2>2, FS_CardinalityType
<1>11. UnusedListed'
  <2>1. \A j \in DOMAIN buf' : buf'[j].tag = "UNUSED" <=> \E k \in DOMAIN unused' : unused'[k] = j
    <3> SUFFICES ASSUME NEW j \in DOMAIN buf'
                 PROVE  buf'[j].tag = "UNUSED" <=> \E k \in DOMAIN unused' : unused'[k] = j
      OBVIOUS
    <3>1. CASE j = i
      BY <1>6, <1>7, <3>1
    <3>2. CASE j # i
      <4>1. buf[j].tag = "UNUSED" <=> \E k \in DOMAIN unused : unused[k] = j
        BY <1>6 DEF BufferInvariant, UnusedListed
      <4>2. (\E k \in DOMAIN unused' : unused'[k] = j) <=> \E k \in DOMAIN unused : unused[k] = j
        BY <1>7, <3>2
      <4>3. QED
        BY <1>6, <3>2, <4>1, <4>2
    <3>3. QED
      BY <3>1, <3>2
  <2>2. \A j, k \in DOMAIN unused' : unused'[j] = unused'[k] => j = k
    BY <1>7 DEF BufferInvariant, UnusedListed
  <2>3. QED
    BY <1>4, <1>10, <2>1, <2>2 DEF UnusedListed
<1>12. BufferTypes'
  BY <1>4, <1>6, <1>7, <1>10 DEF BufferTypes
<1>13. Addresses'
  <2>1. \A j \in DOMAIN buf' : buf'[j].tag # "UNUSED" => buf'[j].ref \in Nodes /\ addr'[buf'[j].ref] = j
    <3> SUFFICES ASSUME NEW j \in DOMAIN buf', buf'[j].tag # "UNUSED"
                 PROVE  buf'[j].ref \in Nodes /\ addr'[buf'[j].ref] = j
      OBVIOUS
    <3>1. j # i /\ j \in Used /\ buf'[j] = buf[j]
      BY <1>6 DEF Used
    <3>2. buf[j].ref \in Nodes /\ addr[buf[j].ref] = j
      BY <3>1, BufferFacts
    <3>3. buf[j].ref # n
      BY <3>1, <3>2 DEF i
    <3>4. QED
      BY <1>3, <1>4, <3>1, <3>2, <3>3
  <2>2. \A m \in Nodes : addr'[m] # 0 => buf'[addr'[m]].tag # "UNUSED" /\ buf'[addr'[m]].ref = m
    <3> SUFFICES ASSUME NEW m \in Nodes, addr'[m] # 0
                 PROVE  buf'[addr'[m]].tag # "UNUSED" /\ buf'[addr'[m]].ref = m
      OBVIOUS
    <3>1. m # n /\ addr'[m] = addr[m]
      BY <1>3, <1>4
    <3>2. addr[m] \in Used /\ buf[addr[m]].ref = m /\ addr[m] # i
      BY <1>1, <3>1, BufferFacts
    <3>3. QED
      BY <1>6, <3>1, <3>2 DEF Used
  <2>3. QED
    BY <2>1, <2>2 DEF Addresses, TagOf
<1>14. QED
  BY <1>4, <1>6, <1>8, <1>11, <1>12, <1>13 DEF BufferInvariant, AddrTypes, i

----------------------------------------------------------------------------
(* What can be reached.                                                    *)

\* One step along the properties in E, its repetition, and its end.
Spread(E, r)      == r \cup {m \in Nodes : \E n \in r : <<n, m>> \in E}
IsIter(f, E, S, N) == f = [k \in 0 .. N |-> IF k = 0 THEN S ELSE Spread(E, f[k - 1])]
ReachIn(E, S)     == (CHOOSE f : IsIter(f, E, S, Cardinality(Nodes)))[Cardinality(Nodes)]

\* Reach is the end of the repeated spreading along the properties.
LEMMA ReachIsReachIn == ASSUME NEW S PROVE Reach(S) = ReachIn(edge, S)
BY DEF Reach, ReachIn, IsIter, Spread

\* The spreading can be repeated any number of times.
LEMMA IterExists ==
  ASSUME NEW E, NEW S, NEW N \in Nat
  PROVE  \E f : IsIter(f, E, S, N)
<1> DEFINE bad == {n \in Nat : ~ \E f : IsIter(f, E, S, n)}
<1> SUFFICES ASSUME bad # {} PROVE FALSE
  OBVIOUS
<1>1. PICK n \in bad : \A j \in bad : n <= j
  <2>1. bad \in SUBSET Nat
    OBVIOUS
  <2> HIDE DEF bad
  <2>2. QED
    BY <2>1, LeastNatural
<1>2. n \in Nat /\ ~ \E f : IsIter(f, E, S, n)
  BY <1>1
<1>3. CASE n = 0
  <2> DEFINE f == [k \in 0 .. 0 |-> S]
  <2>1. IsIter(f, E, S, 0)
    BY DEF IsIter
  <2>2. QED
    BY <1>2, <1>3, <2>1
<1>4. CASE n # 0
  <2>1. n - 1 \in Nat /\ n - 1 \notin bad
    BY <1>1, <1>2, <1>4
  <2>2. PICK f : IsIter(f, E, S, n - 1)
    BY <2>1
  <2>3. \A k \in 0 .. n - 1 : f[k] = IF k = 0 THEN S ELSE Spread(E, f[k - 1])
    BY <2>2 DEF IsIter
  <2> DEFINE g == [k \in 0 .. n |-> IF k < n THEN f[k] ELSE Spread(E, f[n - 1])]
  <2>4. ASSUME NEW k \in 0 .. n PROVE g[k] = IF k = 0 THEN S ELSE Spread(E, g[k - 1])
    <3>1. CASE k = 0
      BY <1>2, <1>4, <2>1, <2>3, <3>1
    <3>2. CASE k # 0
      <4>1. k - 1 \in 0 .. n /\ k - 1 < n /\ k \in Nat
        BY <1>2, <3>2
      <4>2. g[k - 1] = f[k - 1]
        BY <4>1
      <4>3. CASE k < n
        <5>1. g[k] = f[k] /\ k \in 0 .. n - 1
          BY <1>2, <4>3, <4>1
        <5> HIDE DEF g
        <5>2. QED
          BY <2>3, <3>2, <4>2, <5>1
      <4>4. CASE k = n
        <5>1. g[k] = Spread(E, f[n - 1])
          BY <1>2, <4>4
        <5> HIDE DEF g
        <5>2. QED
          BY <3>2, <4>2, <4>4, <5>1
      <4>5. QED
        BY <1>2, <4>1, <4>3, <4>4
    <3>3. QED
      BY <3>1, <3>2
  <2>5. g = [k \in 0 .. n |-> g[k]]
    OBVIOUS
  <2> HIDE DEF g
  <2>6. g = [k \in 0 .. n |-> IF k = 0 THEN S ELSE Spread(E, g[k - 1])]
    BY <2>4, <2>5
  <2>7. QED
    BY <1>2, <2>6 DEF IsIter
<1>5. QED
  BY <1>3, <1>4

\* What is reached is the least set that has the start and is closed under the properties.
LEMMA ReachFacts ==
  ASSUME NEW E \in SUBSET (Nodes \X Nodes), NEW S \in SUBSET Nodes
  PROVE  /\ ReachIn(E, S) \in SUBSET Nodes /\ S \subseteq ReachIn(E, S)
         /\ \A e \in E : e[1] \in ReachIn(E, S) => e[2] \in ReachIn(E, S)
         /\ \A T : S \subseteq T /\ (\A e \in E : e[1] \in T => e[2] \in T) => ReachIn(E, S) \subseteq T
<1> DEFINE N == Cardinality(Nodes)
<1>1. N \in Nat /\ IsFiniteSet(Nodes)
  BY ConstantsAssumption, FS_CardinalityType
<1>2. PICK f : IsIter(f, E, S, N) /\ ReachIn(E, S) = f[N]
  <2>1. \E f : IsIter(f, E, S, N)
    BY <1>1, IterExists
  <2>2. QED
    BY <2>1 DEF ReachIn
<1> HIDE DEF N
<1>3. /\ f[0] = S
      /\ \A k \in 0 .. N : k # 0 => f[k] = Spread(E, f[k - 1])
  BY <1>1, <1>2 DEF IsIter
<1>4. ASSUME NEW T, S \subseteq T, \A e \in E : e[1] \in T => e[2] \in T
      PROVE  f[N] \subseteq T
  <2> DEFINE bad == {k \in 0 .. N : ~(f[k] \subseteq T)}
  <2> SUFFICES ASSUME bad # {} PROVE FALSE
    BY <1>1
  <2>1. PICK n \in bad : \A j \in bad : n <= j
    <3>1. bad \in SUBSET Nat
      OBVIOUS
    <3> HIDE DEF bad
    <3>2. QED
      BY <3>1, LeastNatural
  <2>2. n \in 0 .. N /\ ~(f[n] \subseteq T)
    BY <2>1
  <2>3. n # 0
    BY <1>3, <1>4, <2>2
  <2>4. n - 1 \in 0 .. N /\ n - 1 \notin bad
    BY <1>1, <2>1, <2>2, <2>3
  <2>5. f[n - 1] \subseteq T
    BY <2>4
  <2>6. f[n] = Spread(E, f[n - 1])
    BY <1>3, <2>2, <2>3
  <2>7. Spread(E, f[n - 1]) \subseteq T
    BY <1>4, <2>5 DEF Spread
  <2>8. QED
    BY <2>2, <2>6, <2>7
<1>5. ASSUME NEW k \in 0 .. N PROVE f[k] \in SUBSET Nodes /\ S \subseteq f[k]
  <2> DEFINE bad == {j \in 0 .. N : ~(f[j] \in SUBSET Nodes /\ S \subseteq f[j])}
  <2> SUFFICES ASSUME bad # {} PROVE FALSE
    OBVIOUS
  <2>1. PICK n \in bad : \A j \in bad : n <= j
    <3>1. bad \in SUBSET Nat
      OBVIOUS
    <3> HIDE DEF bad
    <3>2. QED
      BY <3>1, LeastNatural
  <2>2. n \in 0 .. N /\ ~(f[n] \in SUBSET Nodes /\ S \subseteq f[n])
    BY <2>1
  <2>3. n # 0
    BY <1>3, <2>2
  <2>4. n - 1 \in 0 .. N /\ n - 1 \notin bad
    BY <1>1, <2>1, <2>2, <2>3
  <2>5. f[n - 1] \in SUBSET Nodes /\ S \subseteq f[n - 1]
    BY <2>4
  <2>6. f[n] = Spread(E, f[n - 1])
    BY <1>3, <2>2, <2>3
  <2>7. QED
    BY <2>2, <2>5, <2>6 DEF Spread
<1>6. Spread(E, f[N]) = f[N]
  <2> DEFINE Done(k) == Cardinality(f[k]) >= k \/ Spread(E, f[k]) = f[k]
             bad == {j \in 0 .. N : ~Done(j)}
  <2>1. bad = {}
    <3> SUFFICES ASSUME bad # {} PROVE FALSE
      OBVIOUS
    <3>1. PICK n \in bad : \A j \in bad : n <= j
      <4>1. bad \in SUBSET Nat
        OBVIOUS
      <4> HIDE DEF bad
      <4>2. QED
        BY <4>1, LeastNatural
    <3>2. n \in 0 .. N /\ ~Done(n)
      BY <3>1
    <3>3. IsFiniteSet(f[n]) /\ Cardinality(f[n]) \in Nat
      BY <1>1, <1>5, <3>2, FS_Subset, FS_CardinalityType
    <3>4. n # 0
      BY <3>2, <3>3
    <3>5. n - 1 \in 0 .. N /\ n - 1 \notin bad
      BY <1>1, <3>1, <3>2, <3>4
    <3>6. f[n] = Spread(E, f[n - 1]) /\ Done(n - 1)
      BY <1>3, <3>2, <3>4, <3>5
    <3>7. f[n] # f[n - 1]
      BY <3>2, <3>6
    <3>8. f[n - 1] \subseteq f[n]
      BY <3>6 DEF Spread
    <3>9. Cardinality(f[n - 1]) \in Nat
      BY <3>3, <3>8, FS_Subset, FS_CardinalityType
    <3>10. Cardinality(f[n - 1]) < Cardinality(f[n])
      <4>1. f[n - 1] \in SUBSET f[n]
        BY <3>8
      <4>2. Cardinality(f[n - 1]) <= Cardinality(f[n]) /\ Cardinality(f[n - 1]) # Cardinality(f[n])
        BY <3>3, <3>7, <4>1, FS_Subset
      <4>3. QED
        BY <3>3, <3>9, <4>2
    <3>11. Cardinality(f[n - 1]) >= n - 1
      BY <3>6, <3>7
    <3>12. Cardinality(f[n]) >= n
      BY <3>2, <3>3, <3>9, <3>10, <3>11
    <3>13. QED
      BY <3>2, <3>12
  <2>2. Done(N)
    BY <1>1, <2>1
  <2>3. CASE Cardinality(f[N]) >= N
    <3>1. f[N] \in SUBSET Nodes
      BY <1>1, <1>5
    <3>2. Cardinality(f[N]) <= N /\ Cardinality(f[N]) \in Nat
      BY <1>1, <3>1, FS_Subset, FS_CardinalityType DEF N
    <3>3. f[N] = Nodes
      BY <1>1, <2>3, <3>1, <3>2, FS_Subset DEF N
    <3>4. QED
      BY <3>3 DEF Spread
  <2>4. QED
    BY <2>2, <2>3
<1>7. f[N] \in SUBSET Nodes /\ S \subseteq f[N]
  BY <1>1, <1>5
<1>8. \A e \in E : e[1] \in f[N] => e[2] \in f[N]
  <2> SUFFICES ASSUME NEW e \in E, e[1] \in f[N] PROVE e[2] \in Spread(E, f[N])
    BY <1>6
  <2>1. e = <<e[1], e[2]>> /\ e[2] \in Nodes
    OBVIOUS
  <2>2. QED
    BY <2>1 DEF Spread
<1>9. QED
  BY <1>2, <1>4, <1>7, <1>8

----------------------------------------------------------------------------
(* The steps outside the collector.                                        *)

\* What the invariant says of the types and the buffer.
LEMMA InvariantParts ==
  ASSUME CollectorInvariant
  PROVE  /\ TypeOK /\ HeapTypes /\ CountTypes /\ AddrTypes /\ BufferTypes /\ GcTypes /\ StackTypes
         /\ StackShape /\ RunShape /\ BufferInvariant
         /\ FrameLife /\ References /\ Dying /\ Balance /\ TagsOfPhase /\ RootsArePurple
         /\ Addresses /\ UnusedListed
         /\ Marking /\ Scanned /\ Collecting /\ CondemnedIsLost
BY TypeParts DEF CollectorInvariant, BufferInvariant, CountTypes

\* While something else than a run is on top, a run only waits.
LEMMA Quiet ==
  ASSUME CollectorInvariant, Top.at # "run"
  PROVE  /\ gc.phase \in {"idle", "delref", "destroy"} /\ gc.phase \notin Passes
         /\ gc.work = {} /\ gc.bwork = {} /\ Counted = edge
         /\ \A e \in edge : e[2] \in Condemned => e[1] \in Condemned
         /\ \A n \in Nodes : color[n] = "purple" \/ color[n] = "black"
         /\ \A n \in Nodes : addr[n] = 0 => color[n] = "black"
         /\ \A n \in Condemned : n \notin held
         /\ \A i \in DOMAIN stack : stack[i].node \in Condemned =>
              gc.phase = "destroy" /\ stack[i].at \in {"gc_free", "del", "del_free"}
<1>1. gc.phase \in {"idle", "delref", "destroy"}
  BY InvariantParts, GcFields DEF RunShape, Phases
<1>2. gc.phase \notin Passes
  BY <1>1 DEF Passes
<1>3. QED
  BY <1>1, <1>2, InvariantParts, TakenFacts DEF RunShape, RootsArePurple, CondemnedIsLost

\* What PHP code can get hold of is in use and not condemned.
LEMMA AccessibleFacts ==
  ASSUME CollectorInvariant, InUserCode
  PROVE  Accessible \subseteq Usable \ Condemned
<1>1. Top.at \in {"main", "dtor"} /\ StackTypes
  BY InvariantParts DEF InUserCode
<1>2. Len(stack) \in DOMAIN stack /\ Top = stack[Len(stack)] /\ Top \in Frame
  BY <1>1, BelowFacts DEF StackTypes
<1> DEFINE T == Usable \ Condemned
           S == held \cup ({Top.node} \ {NULL})
<1>3. held \subseteq T
  BY <1>1, InvariantParts, Quiet DEF References
<1>4. Top.node # NULL => Top.node \in T
  <2> SUFFICES ASSUME Top.node # NULL PROVE Top.node \in T
    OBVIOUS
  <2>1. Top.at = "dtor" /\ Top.node \in Nodes
    BY <1>1, <1>2, InvariantParts DEF StackShape, Shape, Frame
  <2>2. Top.node \in Usable
    BY <1>2, <2>1, InvariantParts DEF FrameLife, Usable
  <2>3. Top.node \notin Condemned
    BY <1>2, <2>1, Quiet
  <2>4. QED
    BY <2>2, <2>3
<1>5. \A e \in edge : e[1] \in T => e[2] \in T
  <2> SUFFICES ASSUME NEW e \in edge, e[1] \in T PROVE e[2] \in T
    OBVIOUS
  <2>1. e[2] \in Nodes /\ e[2] \notin Condemned
    BY <1>1, InvariantParts, Quiet DEF HeapTypes
  <2>2. life[e[2]] \in {"live", "destructed", "null"} /\ life[e[2]] # "null"
    BY <2>1, InvariantParts DEF References, Dying
  <2>3. QED
    BY <2>1, <2>2 DEF Usable
<1>6. S \subseteq T /\ S \in SUBSET Nodes /\ edge \in SUBSET (Nodes \X Nodes)
  BY <1>3, <1>4, InvariantParts DEF HeapTypes, Usable
<1> HIDE DEF T
<1>7. ReachIn(edge, S) \subseteq T
  <2> HIDE DEF S
  <2>1. QED
    BY <1>5, <1>6, ReachFacts
<1>8. Accessible = ReachIn(edge, S)
  BY ReachIsReachIn DEF Accessible
<1>9. QED
  BY <1>7, <1>8 DEF T

\* A reference to n goes away, and s are the calls to go on with: a variable, a
\* property, or the $this of a destructor that returns.
Letting(n, s) ==
  /\ Release(n, s) /\ gc_active' = gc_active /\ life' = life
  /\ \/ /\ s = stack /\ InUserCode
        /\ n \in held /\ held' = held \ {n} /\ edge' = edge
     \/ /\ s = stack /\ held' = held
        /\ \E a \in Nodes :
             /\ <<a, n>> \in edge /\ edge' = edge \ {<<a, n>>}
             /\ \/ InUserCode /\ a \in Usable \ Condemned
                \/ Top.at \in {"del_free", "gc_free"} /\ a = Top.node
     \/ /\ s = Below /\ Top.at = "dtor" /\ n = Top.node
        /\ held' = held /\ edge' = edge

\* A reference to n is made: to a new object, by a variable, or by a property.
Taking(n) ==
  /\ InUserCode /\ rc' = [rc EXCEPT ![n] = @ + 1]
  /\ UNCHANGED <<color, addr, buffer, gc_active, gc, stack>>
  /\ \/ /\ n \notin held /\ held' = held \cup {n} /\ edge' = edge
        /\ \/ life[n] = "none" /\ life' = [life EXCEPT ![n] = "live"]
           \/ n \in Usable \ Condemned /\ life' = life
     \/ /\ held' = held /\ life' = life /\ n \in Usable \ Condemned
        /\ \E a \in Usable \ Condemned : <<a, n>> \notin edge /\ edge' = edge \cup {<<a, n>>}

\* The steps outside the collector, by what they do to references.
LEMMA OuterKinds ==
  ASSUME CollectorInvariant, Outer
  PROVE  \/ \E n \in Nodes : Taking(n)
         \/ \E n \in Nodes : \E s \in {stack, Below} : life[n] \in {"live", "destructed", "null"} /\ Letting(n, s)
         \/ CollectCycles \/ Del \/ DelAfterDestructor \/ DelFree \/ Destroyed \/ AfterFull
<1>1. HeapTypes /\ StackTypes /\ StackShape /\ References /\ FrameLife /\ Dying /\ rc \in [Nodes -> Nat]
  BY InvariantParts DEF CountTypes
<1>2. ASSUME InUserCode PROVE Accessible \subseteq Usable \ Condemned
  BY <1>2, AccessibleFacts
<1>3. ASSUME NEW n \in Nodes, New(n) PROVE Taking(n)
  <2>1. rc[n] = 0 /\ n \notin held
    BY <1>1, <1>3 DEF New, Dying, References, Usable
  <2>2. [rc EXCEPT ![n] = 1] = [rc EXCEPT ![n] = @ + 1]
    BY <1>1, <2>1
  <2>3. QED
    BY <1>3, <2>1, <2>2 DEF New, Taking
<1>4. ASSUME NEW n \in Nodes, SetVariable(n) PROVE Taking(n)
  BY <1>2, <1>4 DEF SetVariable, Taking
<1>5. ASSUME NEW a \in Nodes, NEW n \in Nodes, SetProperty(a, n) PROVE Taking(n)
  BY <1>2, <1>5 DEF SetProperty, Taking
<1>6. ASSUME NEW n \in Nodes, UnsetVariable(n)
      PROVE  life[n] \in {"live", "destructed", "null"} /\ Letting(n, stack)
  BY <1>1, <1>6 DEF UnsetVariable, Letting, References, Usable
<1>7. ASSUME NEW a \in Nodes, NEW n \in Nodes, UnsetProperty(a, n)
      PROVE  life[n] \in {"live", "destructed", "null"} /\ Letting(n, stack)
  <2>1. life[n] \in {"live", "destructed", "null"}
    BY <1>1, <1>7 DEF UnsetProperty, References
  <2>2. a \in Usable \ Condemned
    BY <1>2, <1>7 DEF UnsetProperty
  <2>3. QED
    BY <1>7, <2>1, <2>2 DEF UnsetProperty, Letting
<1>8. ASSUME NEW n \in Nodes, FreeProperty(n)
      PROVE  life[n] \in {"live", "destructed", "null"} /\ Letting(n, stack)
  <2>1. Top.node \in Nodes
    BY <1>1, <1>8, TopNode DEF FreeProperty
  <2>2. life[n] \in {"live", "destructed", "null"}
    BY <1>1, <1>8 DEF FreeProperty, References
  <2>3. QED
    BY <1>8, <2>1, <2>2 DEF FreeProperty, Letting
<1>9. ASSUME DestructorReturns
      PROVE  \E n \in Nodes : life[n] \in {"live", "destructed", "null"} /\ Letting(n, Below)
  <2>1. Top.node \in Nodes /\ Len(stack) \in DOMAIN stack /\ Top = stack[Len(stack)]
    BY <1>1, <1>9, TopNode, BelowFacts DEF DestructorReturns, StackTypes
  <2>2. life[Top.node] \in {"live", "destructed", "null"}
    BY <1>1, <1>9, <2>1 DEF DestructorReturns, FrameLife
  <2>3. Letting(Top.node, Below)
    BY <1>9 DEF DestructorReturns, Letting, heap
  <2>4. QED
    BY <2>1, <2>2, <2>3
<1>10. QED
  BY <1>3, <1>4, <1>5, <1>6, <1>7, <1>8, <1>9 DEF Outer, UserCode, Deletion

\* What such a step may do to the buffer.
LEMMA OuterMoves ==
  ASSUME CollectorInvariant, Outer
  PROVE  \/ ~DelFree /\ UNCHANGED <<color, addr, buffer>>
         \/ DelFree /\ addr[Top.node] = 0 /\ UNCHANGED <<color, addr, buffer>>
         \/ /\ ~DelFree /\ gc' = gc /\ life' = life
            /\ \E n \in Nodes : addr[n] = 0 /\ life[n] # "none" /\ Enter(n)
         \/ DelFree /\ gc' = gc /\ addr[Top.node] # 0 /\ RemoveFromBuffer(Top.node)
<1>1. ASSUME NEW n \in Nodes, Taking(n) PROVE ~DelFree /\ UNCHANGED <<color, addr, buffer>>
  BY <1>1 DEF Taking, InUserCode, DelFree
<1>2. ASSUME NEW n \in Nodes, NEW s, life[n] \in {"live", "destructed", "null"}, Letting(n, s), ~DelFree
      PROVE  \/ UNCHANGED <<color, addr, buffer>>
             \/ gc' = gc /\ life' = life /\ addr[n] = 0 /\ life[n] # "none" /\ Enter(n)
  BY <1>2 DEF Letting, Release, ReleaseLast, ReleaseBuffered, ReleaseFull, MayLeak
<1>3. ASSUME CollectCycles \/ Del \/ DelAfterDestructor \/ Destroyed
      PROVE  ~DelFree /\ UNCHANGED <<color, addr, buffer>>
  BY <1>3 DEF CollectCycles, InUserCode, Del, DelAfterDestructor, Destroyed, DelFree, counts
<1>4. ASSUME AfterFull
      PROVE  \/ UNCHANGED <<color, addr, buffer>>
             \/ \E n \in Nodes : gc' = gc /\ life' = life /\ addr[n] = 0 /\ life[n] # "none" /\ Enter(n)
  <2>1. Top.node \in Nodes /\ Len(stack) \in DOMAIN stack /\ Top = stack[Len(stack)]
    BY <1>4, InvariantParts, TopNode, BelowFacts DEF AfterFull, StackTypes
  <2>2. life[Top.node] # "none"
    BY <1>4, <2>1, InvariantParts DEF AfterFull, FrameLife
  <2>3. QED
    BY <1>4, <2>1, <2>2 DEF AfterFull, heap
<1>5. AfterFull => ~DelFree
  BY DEF AfterFull, DelFree
<1>6. ASSUME DelFree PROVE \/ addr[Top.node] = 0 /\ UNCHANGED <<color, addr, buffer>>
                           \/ gc' = gc /\ addr[Top.node] # 0 /\ RemoveFromBuffer(Top.node)
  BY <1>6 DEF DelFree, Unbuffer
<1>7. ASSUME ~DelFree PROVE \/ UNCHANGED <<color, addr, buffer>>
                            \/ /\ gc' = gc /\ life' = life
                               /\ \E n \in Nodes : addr[n] = 0 /\ life[n] # "none" /\ Enter(n)
  BY <1>1, <1>2, <1>3, <1>4, <1>7, OuterKinds
<1>8. QED
  BY <1>6, <1>7

\* The objects that are condemned, and the tags, when the entries stay.
LEMMA KeptTags ==
  ASSUME UNCHANGED <<addr, buf>>
  PROVE  Condemned' = Condemned /\ Roots' = Roots /\ \A n : TagOf(n)' = TagOf(n)
BY DEF Condemned, Tagged, TagOf, Roots

\* The buffer's part of the invariant.
LEMMA OuterBuffer ==
  ASSUME CollectorInvariant, Outer
  PROVE  /\ BufferInvariant' /\ TagsOfPhase' /\ RootsArePurple'
         /\ gc.phase = "delref" => Entry' = Entry
         /\ Len(buf) <= Len(buf')
         /\ \A n \in Nodes : life[n] = "none" => addr'[n] = addr[n] /\ color'[n] = color[n]
         /\ ~DelFree => Condemned' = Condemned /\ Roots \subseteq Roots'
         /\ DelFree => /\ Condemned' = Condemned \ {Top.node} /\ Roots' = Roots \ {Top.node}
                       /\ addr'[Top.node] = 0 /\ color'[Top.node] = "black"
         /\ \A n \in Condemned' : addr'[n] = addr[n]
<1>1. /\ Top.at # "run" /\ gc.phase \in {"idle", "delref", "destroy"}
      /\ gc' = gc \/ (gc.phase = "idle" /\ gc' = Begun)
  BY InvariantParts, OuterPhase
<1>2. /\ BufferInvariant /\ TagsOfPhase /\ RootsArePurple /\ gc.phase \notin Passes
      /\ addr \in [Nodes -> 0 .. Len(buf)] /\ color \in [Nodes -> Colors]
      /\ Len(buf) \in Nat /\ DOMAIN buf = 1 .. Len(buf)
  BY <1>1, InvariantParts, Quiet, BufferFacts DEF BufferInvariant, AddrTypes
<1>3. gc'.phase \notin Passes
  BY <1>1, <1>2, BegunFacts DEF Passes
<1>4. DelFree => Top.node \in Nodes
  BY InvariantParts, TopNode DEF DelFree
<1>5. gc.phase = "delref" =>
        gc' = gc /\ gc.idx \in Used /\ Entry = buf[gc.idx] /\ Entry.ref \in Usable
  <2> SUFFICES ASSUME gc.phase = "delref" PROVE gc.idx \in Used /\ Entry = buf[gc.idx] /\ Entry.ref \in Usable
    BY <1>1
  <2>1. gc_active /\ gc.idx <= gc.end /\ Entry.tag = "ROOT" /\ Entry.ref \in Usable
    BY InvariantParts DEF RunShape
  <2>2. QED
    BY <2>1, InvariantParts, EntryFacts DEF Used
<1>6. CASE UNCHANGED <<color, addr, buffer>> /\ (DelFree => addr[Top.node] = 0)
  <2>1. UNCHANGED <<color, addr, buf, unused, num_roots>>
    BY <1>6 DEF buffer
  <2>2. BufferInvariant'
    BY <1>2, <2>1 DEF BufferInvariant, AddrTypes, BufferTypes, Addresses, UnusedListed, Used, TagOf
  <2>3. TagsOfPhase'
    <3>1. CASE gc' = gc
      BY <1>2, <2>1, <3>1 DEF TagsOfPhase
    <3>2. CASE gc.phase = "idle" /\ gc'.phase = "start"
      BY <1>2, <2>1, <3>2 DEF TagsOfPhase
    <3>3. QED
      BY <1>1, <3>1, <3>2, BegunFacts
  <2>4. RootsArePurple'
    BY <1>2, <1>3, <2>1 DEF RootsArePurple, TagOf
  <2>5. gc.phase = "delref" => Entry' = Entry
    BY <1>5, <2>1 DEF Entry
  <2>6. Condemned' = Condemned /\ Roots' = Roots /\ Len(buf) <= Len(buf')
    BY <1>2, <2>1, KeptTags
  <2>7. DelFree => Top.node \notin Condemned /\ Top.node \notin Roots /\ color[Top.node] = "black"
    BY <1>2, <1>4, <1>6 DEF Condemned, Tagged, Roots, RootsArePurple
  <2>8. QED
    BY <1>6, <2>1, <2>2, <2>3, <2>4, <2>5, <2>6, <2>7
<1>7. ASSUME gc' = gc, ~DelFree, NEW n \in Nodes, addr[n] = 0, life[n] # "none", Enter(n)
      PROVE  /\ BufferInvariant' /\ TagsOfPhase' /\ RootsArePurple'
             /\ gc.phase = "delref" => Entry' = Entry
             /\ Len(buf) <= Len(buf')
             /\ \A m \in Nodes : life[m] = "none" => addr'[m] = addr[m] /\ color'[m] = color[m]
             /\ Condemned' = Condemned /\ Roots \subseteq Roots'
             /\ \A m \in Condemned' : addr'[m] = addr[m]
  <2>1. /\ BufferInvariant'
        /\ addr'[n] \in DOMAIN buf' \ Used /\ addr'[n] # 0
        /\ buf'[addr'[n]] = [tag |-> "ROOT", ref |-> n]
        /\ addr' = [addr EXCEPT ![n] = addr'[n]] /\ color' = [color EXCEPT ![n] = "purple"]
        /\ DOMAIN buf' = DOMAIN buf \cup {addr'[n]}
        /\ \A i \in DOMAIN buf : i # addr'[n] => buf'[i] = buf[i]
        /\ Len(buf) <= Len(buf')
    BY <1>2, <1>7, EnterFacts
  <2>2. buf'[addr'[n]].tag = "ROOT"
    BY <2>1
  <2>3. \A m \in Nodes : m # n => /\ addr'[m] = addr[m] /\ color'[m] = color[m]
                                  /\ addr[m] # 0 => buf'[addr[m]] = buf[addr[m]]
    <3> SUFFICES ASSUME NEW m \in Nodes, m # n
                 PROVE  /\ addr'[m] = addr[m] /\ color'[m] = color[m]
                        /\ addr[m] # 0 => buf'[addr[m]] = buf[addr[m]]
      OBVIOUS
    <3>1. addr'[m] = addr[m] /\ color'[m] = color[m]
      BY <1>2, <2>1
    <3>2. addr[m] # 0 => addr[m] \in Used /\ addr[m] \in DOMAIN buf
      BY <1>2, BufferFacts DEF Used
    <3>3. QED
      BY <2>1, <3>1, <3>2
  <2>4. TagsOfPhase'
    <3> SUFFICES ASSUME NEW i \in DOMAIN buf'
                 PROVE  /\ gc.phase \in {"idle", "start"} => buf'[i].tag \in {"ROOT", "UNUSED"}
                        /\ buf'[i].tag = "GARBAGE" => i <= gc.end
                        /\ buf'[i].tag = "DTOR_GARBAGE" =>
                             /\ gc.phase \in {"nested", "dtors", "delref"} /\ i <= gc.end
                             /\ gc.phase = "dtors" => gc.idx <= i
                             /\ gc.phase = "delref" => gc.idx < i
      BY <1>1, <1>7 DEF TagsOfPhase
    <3>1. CASE i = addr'[n]
      BY <2>2, <3>1
    <3>2. CASE i # addr'[n]
      <4>1. i \in DOMAIN buf /\ buf'[i] = buf[i]
        BY <2>1, <3>2
      <4>2. QED
        BY <1>1, <1>2, <4>1 DEF TagsOfPhase
    <3>3. QED
      BY <3>1, <3>2
  <2>5. RootsArePurple'
    <3> SUFFICES ASSUME NEW m \in Nodes
                 PROVE  color'[m] = IF addr'[m] # 0 /\ buf'[addr'[m]].tag # "GARBAGE" THEN "purple" ELSE "black"
      BY DEF RootsArePurple, TagOf
    <3>1. CASE m = n
      BY <1>2, <2>1, <2>2, <3>1
    <3>2. CASE m # n
      <4>1. color[m] = IF addr[m] # 0 /\ buf[addr[m]].tag # "GARBAGE" THEN "purple" ELSE "black"
        BY <1>2 DEF RootsArePurple, TagOf
      <4>2. QED
        BY <2>3, <3>2, <4>1
    <3>3. QED
      BY <3>1, <3>2
  <2>6. gc.phase = "delref" => Entry' = Entry
    <3> SUFFICES ASSUME gc.phase = "delref" PROVE Entry' = Entry
      OBVIOUS
    <3>1. gc.idx \in Used /\ gc.idx \in DOMAIN buf
      BY <1>5 DEF Used
    <3>2. buf'[gc.idx] = buf[gc.idx]
      BY <2>1, <3>1
    <3>3. QED
      BY <1>7, <3>2 DEF Entry
  <2>7. Condemned' = Condemned /\ Roots \subseteq Roots'
    <3>1. n \notin Condemned /\ n \notin Condemned' /\ n \notin Roots
      BY <1>7, <2>2 DEF Condemned, Tagged, TagOf, Roots
    <3>2. \A m \in Nodes : m # n => (m \in Condemned' <=> m \in Condemned) /\ (m \in Roots' <=> m \in Roots)
      BY <2>3 DEF Condemned, Tagged, TagOf, Roots
    <3>3. Condemned \subseteq Nodes /\ Condemned' \subseteq Nodes /\ Roots \subseteq Nodes
      BY DEF Condemned, Tagged, Roots
    <3>4. QED
      BY <3>1, <3>2, <3>3
  <2>8. \A m \in Condemned' : addr'[m] = addr[m]
    BY <2>2, <2>3, <2>7 DEF Condemned, Tagged, TagOf
  <2>9. QED
    BY <1>7, <2>1, <2>3, <2>4, <2>5, <2>6, <2>7, <2>8
<1>8. CASE DelFree /\ gc' = gc /\ addr[Top.node] # 0 /\ RemoveFromBuffer(Top.node)
  <2> DEFINE n == Top.node
  <2>1. /\ n \in Nodes
        /\ BufferInvariant'
        /\ addr' = [addr EXCEPT ![n] = 0] /\ color' = [color EXCEPT ![n] = "black"]
        /\ DOMAIN buf' = DOMAIN buf /\ Len(buf') = Len(buf)
        /\ buf'[addr[n]].tag = "UNUSED"
        /\ \A i \in DOMAIN buf : i # addr[n] => buf'[i] = buf[i]
    BY <1>2, <1>4, <1>8, RemoveFacts
  <2>2. life[n] = "freeing" /\ n \notin Usable
    <3>1. Len(stack) \in DOMAIN stack /\ Top = stack[Len(stack)] /\ Top.at = "del_free"
      BY <1>8, InvariantParts, BelowFacts DEF StackTypes, DelFree
    <3>2. life[n] = "freeing"
      BY <3>1, InvariantParts DEF FrameLife
    <3>3. QED
      BY <3>2 DEF Usable
  <2>3. addr[n] \in Used /\ buf[addr[n]].ref = n
    BY <1>2, <1>8, <2>1, BufferFacts
  <2> HIDE DEF n
  <2>4. \A m \in Nodes : m # n => /\ addr'[m] = addr[m] /\ color'[m] = color[m]
                                  /\ addr[m] # 0 => buf'[addr[m]] = buf[addr[m]]
    <3> SUFFICES ASSUME NEW m \in Nodes, m # n
                 PROVE  /\ addr'[m] = addr[m] /\ color'[m] = color[m]
                        /\ addr[m] # 0 => buf'[addr[m]] = buf[addr[m]]
      OBVIOUS
    <3>1. addr'[m] = addr[m] /\ color'[m] = color[m]
      BY <1>2, <2>1
    <3>2. addr[m] # 0 => addr[m] \in Used /\ addr[m] \in DOMAIN buf /\ addr[m] # addr[n]
      BY <1>2, <2>3, BufferFacts DEF Used
    <3>3. QED
      BY <2>1, <3>1, <3>2
  <2>5. addr'[n] = 0 /\ color'[n] = "black"
    BY <1>2, <2>1
  <2>6. TagsOfPhase'
    <3> SUFFICES ASSUME NEW i \in DOMAIN buf'
                 PROVE  /\ gc.phase \in {"idle", "start"} => buf'[i].tag \in {"ROOT", "UNUSED"}
                        /\ buf'[i].tag = "GARBAGE" => i <= gc.end
                        /\ buf'[i].tag = "DTOR_GARBAGE" =>
                             /\ gc.phase \in {"nested", "dtors", "delref"} /\ i <= gc.end
                             /\ gc.phase = "dtors" => gc.idx <= i
                             /\ gc.phase = "delref" => gc.idx < i
      BY <1>1, <1>8 DEF TagsOfPhase
    <3>1. CASE i = addr[n]
      BY <2>1, <3>1
    <3>2. CASE i # addr[n]
      <4>1. i \in DOMAIN buf /\ buf'[i] = buf[i]
        BY <2>1, <3>2
      <4>2. QED
        BY <1>1, <1>2, <4>1 DEF TagsOfPhase
    <3>3. QED
      BY <3>1, <3>2
  <2>7. RootsArePurple'
    <3> SUFFICES ASSUME NEW m \in Nodes
                 PROVE  color'[m] = IF addr'[m] # 0 /\ buf'[addr'[m]].tag # "GARBAGE" THEN "purple" ELSE "black"
      BY DEF RootsArePurple, TagOf
    <3>1. CASE m = n
      BY <2>5, <3>1
    <3>2. CASE m # n
      <4>1. color[m] = IF addr[m] # 0 /\ buf[addr[m]].tag # "GARBAGE" THEN "purple" ELSE "black"
        BY <1>2 DEF RootsArePurple, TagOf
      <4>2. QED
        BY <2>4, <3>2, <4>1
    <3>3. QED
      BY <3>1, <3>2
  <2>8. gc.phase = "delref" => Entry' = Entry
    <3> SUFFICES ASSUME gc.phase = "delref" PROVE Entry' = Entry
      OBVIOUS
    <3>1. gc.idx \in DOMAIN buf /\ gc.idx # addr[n]
      BY <1>5, <2>2, <2>3 DEF Used
    <3>2. buf'[gc.idx] = buf[gc.idx]
      BY <2>1, <3>1
    <3>3. QED
      BY <1>8, <3>2 DEF Entry
  <2>9. Condemned' = Condemned \ {n} /\ Roots' = Roots \ {n}
    <3>1. n \notin Condemned' /\ n \notin Roots'
      BY <2>5 DEF Condemned, Tagged, TagOf, Roots
    <3>2. \A m \in Nodes : m # n => (m \in Condemned' <=> m \in Condemned) /\ (m \in Roots' <=> m \in Roots)
      BY <2>4 DEF Condemned, Tagged, TagOf, Roots
    <3>3. Condemned \subseteq Nodes /\ Condemned' \subseteq Nodes /\ Roots \subseteq Nodes /\ Roots' \subseteq Nodes
      BY DEF Condemned, Tagged, Roots
    <3>4. QED
      BY <3>1, <3>2, <3>3
  <2>10. \A m \in Condemned' : addr'[m] = addr[m]
    BY <2>4, <2>9 DEF Condemned, Tagged
  <2>11. \A m \in Nodes : life[m] = "none" => addr'[m] = addr[m] /\ color'[m] = color[m]
    BY <2>2, <2>4
  <2>12. Len(buf) <= Len(buf')
    BY <1>2, <2>1
  <2>13. QED
    BY <1>8, <2>1, <2>5, <2>6, <2>7, <2>8, <2>9, <2>10, <2>11, <2>12 DEF n
<1>9. QED
  BY <1>6, <1>7, <1>8, OuterMoves

----------------------------------------------------------------------------
(* Control.                                                                *)

\* A call pushed onto well-shaped calls.
LEMMA ShapePush ==
  ASSUME NEW s \in Seq(Frame), s # <<>>, Shape(s), s[Len(s)].at # "del",
         NEW f \in Frame, f.at # "main", f.node = NULL <=> f.at = "run", f.at = "run" => ~HasRun(s)
  PROVE  /\ Shape(Append(s, f)) /\ (HasRun(Append(s, f)) <=> HasRun(s) \/ f.at = "run")
         /\ Append(s, f) \in Seq(Frame) /\ Append(s, f) # <<>>
         /\ Append(s, f)[Len(Append(s, f))] = f
<1> DEFINE t == Append(s, f)
<1>1. /\ t \in Seq(Frame) /\ Len(t) = Len(s) + 1
      /\ DOMAIN t = 1 .. Len(s) + 1 /\ Len(s) \in Nat /\ DOMAIN s = 1 .. Len(s)
      /\ t[Len(s) + 1] = f /\ \A i \in 1 .. Len(s) : t[i] = s[i]
  BY Pushed
<1>2. Len(s) >= 1
  BY <1>1
<1> HIDE DEF t
<1>3. DOMAIN t = DOMAIN s \cup {Len(t)} /\ t[Len(t)] = f /\ Len(t) \notin DOMAIN s /\ Len(t) # 1 /\ Len(s) \in DOMAIN s
  BY <1>1, <1>2
<1>4. /\ \A i \in DOMAIN s : /\ t[i] = s[i]
                             /\ s[i].at = "main" <=> i = 1
                             /\ s[i].node = NULL <=> s[i].at \in {"main", "run"}
                             /\ s[i].at = "del" => i = Len(s)
      /\ \A i, j \in DOMAIN s : s[i].at = "run" /\ s[j].at = "run" => i = j
  <2>1. \A i \in DOMAIN s : t[i] = s[i]
    BY <1>1, Zenon
  <2>2. QED
    BY <2>1 DEF Shape
<1>5. ASSUME NEW i \in DOMAIN t PROVE i \in DOMAIN s \/ (i = Len(t) /\ i \notin DOMAIN s /\ t[i] = f)
  BY <1>3, <1>5, Zenon
<1>6. ASSUME NEW i \in DOMAIN t
      PROVE  /\ t[i].at = "main" <=> i = 1
             /\ t[i].node = NULL <=> t[i].at \in {"main", "run"}
             /\ t[i].at = "del" => i = Len(t)
  <2>1. CASE i \in DOMAIN s
    <3>1. s[i].at # "del"
      BY <1>4, <2>1, Zenon
    <3>2. QED
      BY <1>4, <2>1, <3>1, Zenon
  <2>2. CASE i = Len(t) /\ t[i] = f
    BY <1>3, <2>2, Zenon
  <2>3. QED
    BY <1>5, <2>1, <2>2, Zenon
<1>7. ASSUME NEW i \in DOMAIN t, NEW j \in DOMAIN t, t[i].at = "run", t[j].at = "run" PROVE i = j
  <2>1. ASSUME NEW k \in DOMAIN s, t[k].at = "run" PROVE HasRun(s)
    BY <1>4, <2>1, Zenon DEF HasRun
  <2>2. QED
    BY <1>4, <1>5, <1>7, <2>1, Zenon
<1>8. HasRun(t) <=> HasRun(s) \/ f.at = "run"
  <2>1. ASSUME HasRun(t) PROVE HasRun(s) \/ f.at = "run"
    <3>1. PICK i \in DOMAIN t : t[i].at = "run"
      BY <2>1 DEF HasRun
    <3>2. CASE i \in DOMAIN s
      <4>1. s[i].at = "run"
        BY <1>4, <3>1, <3>2, Zenon
      <4>2. QED
        BY <3>2, <4>1 DEF HasRun
    <3>3. CASE t[i] = f
      BY <3>1, <3>3
    <3>4. QED
      BY <1>5, <3>2, <3>3
  <2>2. ASSUME HasRun(s) PROVE HasRun(t)
    <3>1. PICK i \in DOMAIN s : s[i].at = "run"
      BY <2>2 DEF HasRun
    <3>2. i \in DOMAIN t /\ t[i].at = "run"
      BY <1>3, <1>4, <3>1, Zenon
    <3>3. QED
      BY <3>2 DEF HasRun
  <2>3. ASSUME f.at = "run" PROVE HasRun(t)
    BY <1>3, <2>3, Zenon DEF HasRun
  <2>4. QED
    BY <2>1, <2>2, <2>3
<1>9. t # <<>>
  BY <1>1, <1>2
<1>10. QED
  BY <1>1, <1>3, <1>6, <1>7, <1>8, <1>9 DEF Shape, t

\* The calls below the one on top.
LEMMA ShapeBelow ==
  ASSUME StackTypes, Shape(stack), Len(stack) > 1
  PROVE  /\ Shape(Below) /\ Below \in Seq(Frame) /\ Below # <<>> /\ Below[Len(Below)].at # "del"
         /\ HasRun(Below) <=> HasRun(stack) /\ Top.at # "run"
         /\ Len(Below) = Len(stack) - 1 /\ Len(Below) \in DOMAIN stack /\ Below[Len(Below)] = stack[Len(stack) - 1]
<1>1. /\ Len(stack) \in Nat /\ DOMAIN stack = 1 .. Len(stack)
      /\ Top = stack[Len(stack)]
      /\ Below \in Seq(Frame) /\ Len(Below) = Len(stack) - 1
      /\ DOMAIN Below = 1 .. Len(stack) - 1
      /\ \A i \in 1 .. Len(stack) - 1 : Below[i] = stack[i]
  BY BelowFacts, Zenon DEF StackTypes
<1>2. /\ DOMAIN stack = DOMAIN Below \cup {Len(stack)} /\ Len(stack) \notin DOMAIN Below
      /\ \A i \in DOMAIN Below : Below[i] = stack[i]
      /\ Len(Below) \in DOMAIN Below
  <2>1. \A k \in Nat : k > 1 => 1 .. k = (1 .. k - 1) \cup {k} /\ k \notin 1 .. k - 1 /\ k - 1 \in 1 .. k - 1
    OBVIOUS
  <2>2. /\ 1 .. Len(stack) = (1 .. Len(stack) - 1) \cup {Len(stack)} /\ Len(stack) \notin 1 .. Len(stack) - 1
        /\ Len(stack) - 1 \in 1 .. Len(stack) - 1
    BY <1>1, <2>1
  <2>3. QED
    BY <1>1, <2>2, Zenon
<1>3. Below # <<>>
  BY <1>1
<1>4. /\ \A i \in DOMAIN stack : /\ stack[i].at = "main" <=> i = 1
                                 /\ stack[i].node = NULL <=> stack[i].at \in {"main", "run"}
                                 /\ stack[i].at = "del" => i = Len(stack)
      /\ \A i, j \in DOMAIN stack : stack[i].at = "run" /\ stack[j].at = "run" => i = j
  BY DEF Shape
<1>5. ASSUME NEW i \in DOMAIN Below
      PROVE  i \in DOMAIN stack /\ i # Len(stack) /\ Below[i] = stack[i]
  BY <1>2, <1>5, Zenon
<1>6. ASSUME NEW i \in DOMAIN Below
      PROVE  /\ Below[i].at = "main" <=> i = 1
             /\ Below[i].node = NULL <=> Below[i].at \in {"main", "run"}
             /\ Below[i].at # "del"
  BY <1>4, <1>5, <1>6, Zenon
<1>7. ASSUME NEW i \in DOMAIN Below, NEW j \in DOMAIN Below, Below[i].at = "run", Below[j].at = "run" PROVE i = j
  BY <1>4, <1>5, <1>7, Zenon
<1>8. Shape(Below)
  BY <1>6, <1>7 DEF Shape
<1>9. HasRun(Below) <=> HasRun(stack) /\ Top.at # "run"
  BY <1>1, <1>2, <1>4 DEF HasRun
<1>10. QED
  BY <1>1, <1>2, <1>3, <1>6, <1>8, <1>9, Zenon

\* What is directly above what.
LEMMA AdjacentPush ==
  ASSUME NEW s \in Seq(Frame), s # <<>>, NEW phase, Adjacent(s, phase), NEW f \in Frame,
         f.at = "gc_free" => phase = "destroy" /\ s[Len(s)].at = "run",
         s[Len(s)].at = "run" /\ phase = "destroy" => f.at = "gc_free",
         s[Len(s)].at = "del_dtor" => f.at \in {"dtor", "full"} /\ f.node = s[Len(s)].node
  PROVE  Adjacent(Append(s, f), phase)
<1> DEFINE t == Append(s, f)
<1>1. /\ t \in Seq(Frame) /\ Len(t) = Len(s) + 1
      /\ DOMAIN t = 1 .. Len(s) + 1 /\ Len(s) \in Nat /\ DOMAIN s = 1 .. Len(s)
      /\ t[Len(s) + 1] = f /\ \A i \in 1 .. Len(s) : t[i] = s[i]
  BY Pushed
<1>2. Len(s) >= 1
  BY <1>1
<1> HIDE DEF t
<1>3. ASSUME NEW i \in DOMAIN t, t[i].at = "gc_free"
      PROVE  phase = "destroy" /\ i > 1 /\ t[i - 1].at = "run"
  <2>1. CASE i = Len(s) + 1
    <3>1. i - 1 = Len(s) /\ i > 1 /\ t[i - 1] = s[Len(s)] /\ t[i] = f
      BY <1>1, <1>2, <2>1
    <3>2. QED
      BY <1>3, <3>1
  <2>2. CASE i # Len(s) + 1
    <3>1. i \in DOMAIN s /\ t[i] = s[i] /\ i \in Nat
      BY <1>1, <2>2
    <3>2. phase = "destroy" /\ i > 1 /\ s[i - 1].at = "run"
      BY <1>3, <3>1 DEF Adjacent
    <3>3. t[i - 1] = s[i - 1]
      BY <1>1, <3>1, <3>2
    <3>4. QED
      BY <3>2, <3>3
  <2>3. QED
    BY <2>1, <2>2
<1>4. ASSUME NEW i \in DOMAIN t, i # Len(t)
      PROVE  /\ t[i] = s[i] /\ i \in DOMAIN s
             /\ i = Len(s) => t[i + 1] = f
             /\ i # Len(s) => t[i + 1] = s[i + 1]
  <2>1. i \in 1 .. Len(s) /\ i \in Nat
    BY <1>1, <1>4
  <2>2. i # Len(s) => i + 1 \in 1 .. Len(s)
    BY <1>1, <2>1
  <2>3. QED
    BY <1>1, <2>1, <2>2
<1>5. ASSUME NEW i \in DOMAIN t, t[i].at = "run", i # Len(t), phase = "destroy"
      PROVE  t[i + 1].at = "gc_free"
  BY <1>4, <1>5 DEF Adjacent
<1>6. ASSUME NEW i \in DOMAIN t, t[i].at = "del_dtor", i # Len(t)
      PROVE  t[i + 1].at \in {"dtor", "full"} /\ t[i + 1].node = t[i].node
  BY <1>4, <1>6, SMTT(30) DEF Adjacent
<1>7. QED
  BY <1>3, <1>5, <1>6 DEF Adjacent, t

\* The same below the call on top, which says what that call may be.
LEMMA AdjacentBelow ==
  ASSUME StackTypes, NEW phase, Adjacent(stack, phase), Len(stack) > 1
  PROVE  /\ Adjacent(Below, phase)
         /\ Below[Len(Below)].at = "run" /\ phase = "destroy" => Top.at = "gc_free"
         /\ Below[Len(Below)].at = "del_dtor" =>
              Top.at \in {"dtor", "full"} /\ Top.node = Below[Len(Below)].node
         /\ Top.at = "gc_free" => phase = "destroy" /\ Below[Len(Below)].at = "run"
<1>1. /\ Len(stack) \in Nat /\ DOMAIN stack = 1 .. Len(stack)
      /\ Top = stack[Len(stack)]
      /\ Below \in Seq(Frame) /\ Len(Below) = Len(stack) - 1
      /\ DOMAIN Below = 1 .. Len(stack) - 1
      /\ \A i \in 1 .. Len(stack) - 1 : Below[i] = stack[i]
  BY BelowFacts, ZenonT(40) DEF StackTypes
<1>2. ASSUME NEW i \in DOMAIN Below
      PROVE  /\ Below[i] = stack[i] /\ i \in DOMAIN stack /\ i # Len(stack)
             /\ i + 1 \in DOMAIN stack
             /\ i # Len(Below) => Below[i + 1] = stack[i + 1]
             /\ i > 1 => Below[i - 1] = stack[i - 1]
  <2>1. i \in Nat /\ i >= 1 /\ i <= Len(stack) - 1
    BY <1>1, <1>2
  <2>2. i # Len(Below) => i + 1 \in 1 .. Len(stack) - 1
    BY <1>1, <2>1
  <2>3. i > 1 => i - 1 \in 1 .. Len(stack) - 1
    BY <1>1, <2>1
  <2>4. QED
    BY <1>1, <2>1, <2>2, <2>3
<1>3. Adjacent(Below, phase)
  BY <1>2, SMTT(30) DEF Adjacent
<1>4. Len(stack) - 1 \in DOMAIN Below /\ Len(stack) - 1 + 1 = Len(stack) /\ Len(stack) \in DOMAIN stack
  BY <1>1
<1>5. /\ stack[Len(stack) - 1].at = "run" /\ phase = "destroy" => Top.at = "gc_free"
      /\ stack[Len(stack) - 1].at = "del_dtor" =>
           Top.at \in {"dtor", "full"} /\ Top.node = stack[Len(stack) - 1].node
      /\ Top.at = "gc_free" => phase = "destroy" /\ stack[Len(stack) - 1].at = "run"
  <2>1. Len(stack) - 1 \in DOMAIN stack /\ Len(stack) - 1 # Len(stack)
    BY <1>2, <1>4
  <2>2. QED
    BY <1>1, <1>4, <2>1, ZenonT(40) DEF Adjacent
<1>6. Below[Len(Below)] = stack[Len(stack) - 1]
  BY <1>1, <1>4
<1>7. QED
  BY <1>3, <1>5, <1>6

\* Without gc_free frames the phase does not matter before a run frees.
LEMMA AdjacentPhase ==
  ASSUME NEW s, NEW p, NEW q, Adjacent(s, p), p # "destroy", q # "destroy"
  PROVE  Adjacent(s, q)
BY DEF Adjacent

----------------------------------------------------------------------------
(* Who lives and who dies outside the collector.                           *)

\* An object whose free_obj zend_objects_store_del is about to call is referred to by
\* nothing but this call.
LEMMA NobodyElse ==
  ASSUME CollectorInvariant, NEW n \in Nodes, n = Top.node,
         \/ Top.at = "del"
         \/ Top.at = "del_dtor" /\ rc[n] = 1
  PROVE  /\ n \notin held /\ \A e \in edge : e[2] # n
         /\ \A i \in DOMAIN stack : stack[i].node = n => i = Len(stack)
         /\ ~(gc.phase = "delref" /\ Entry.ref = n)
         /\ life[n] \in {"live", "destructed", "null"}
         /\ Top.at = "del_dtor" => life[n] \in {"live", "destructed"}
<1>1. /\ Len(stack) \in DOMAIN stack /\ Top = stack[Len(stack)] /\ Counted = edge
      /\ stack \in Seq(Frame) /\ edge \in SUBSET (Nodes \X Nodes)
  BY InvariantParts, BelowFacts, Quiet DEF StackTypes, HeapTypes
<1>2. /\ life[n] \in {"live", "destructed", "null"}
      /\ Top.at = "del_dtor" => life[n] \in {"live", "destructed"}
      /\ Top.at = "del" => rc[n] = 0
  BY <1>1, InvariantParts DEF FrameLife
<1>3. \A i \in DOMAIN stack : stack[i].at = "del" => i = Len(stack)
  BY InvariantParts DEF StackShape, Shape
<1>4. CASE Top.at = "del"
  BY <1>1, <1>2, <1>3, <1>4, InvariantParts, HoldersCount
<1>5. CASE Top.at = "del_dtor" /\ rc[n] = 1
  <2>1. rc[n] = InCount(edge, n) + HeldCount(held, n) + Frames(stack, n) + Delayed(n)
    BY <1>1, <1>2, InvariantParts DEF Balance
  <2>2. /\ InCount(edge, n) \in Nat /\ HeldCount(held, n) \in {0, 1} /\ Frames(stack, n) \in Nat
        /\ Delayed(n) \in {0, 1}
    BY InvariantParts, BalanceParts
  <2>3. Frames(stack, n) >= 1
    BY <1>1, <1>5, FramesFacts
  <2>4. InCount(edge, n) = 0 /\ HeldCount(held, n) = 0 /\ Delayed(n) = 0 /\ ~(Frames(stack, n) >= 2)
    BY <1>5, <2>1, <2>2, <2>3
  <2>5. \A i \in DOMAIN stack : stack[i].node = n /\ stack[i].at # "del" => i = Len(stack)
    BY <1>1, <1>5, <2>4, FramesFacts
  <2>6. \A e \in edge : e[2] # n
    <3>1. edge \in SUBSET (Nodes \X Nodes)
      BY <1>1
    <3>2. InCount(edge, n) = 0 => \A e \in edge : e[2] # n
      BY <3>1, InCountFacts
    <3>3. QED
      BY <2>4, <3>2
  <2>7. QED
    BY <1>2, <1>3, <2>4, <2>5, <2>6 DEF HeldCount, Delayed
<1>6. QED
  BY <1>4, <1>5

\* Steps that neither begin nor end anything leave every object as it is.
LEMMA LettingLife == ASSUME NEW n, NEW s, Letting(n, s) PROVE life' = life
BY DEF Letting

\* What becomes of objects.
LEMMA OuterLife ==
  ASSUME CollectorInvariant, Outer, NEW n \in Nodes, life'[n] # life[n]
  PROVE  \/ life[n] = "none" /\ life'[n] = "live" /\ Taking(n) /\ n \in held'
         \/ life[n] = "live" /\ life'[n] = "destructed" /\ Del /\ n = Top.node
         \/ /\ n \in Usable /\ life'[n] = "freeing" /\ n = Top.node
            /\ stack' = Append(Below, Call("del_free", n)) /\ held' = held /\ edge' = edge
            /\ n \notin held /\ (\A e \in edge : e[2] # n)
            /\ (\A i \in DOMAIN stack : stack[i].node = n => i = Len(stack))
            /\ ~(gc.phase = "delref" /\ Entry.ref = n)
         \/ life[n] = "freeing" /\ life'[n] = "none" /\ DelFree /\ n = Top.node
<1>1. life \in [Nodes -> Lives] /\ StackTypes /\ StackShape
  BY InvariantParts DEF HeapTypes
<1>2. ASSUME NEW m \in Nodes, Taking(m)
      PROVE  life[n] = "none" /\ life'[n] = "live" /\ Taking(n) /\ n \in held'
  BY <1>1, <1>2 DEF Taking
<1>3. ~ \E m \in Nodes : \E s \in {stack, Below} : Letting(m, s)
  BY LettingLife
<1>4. ~CollectCycles /\ ~Destroyed /\ ~AfterFull
  BY DEF CollectCycles, Destroyed, AfterFull, heap
<1>5. \A a \in Calls : Goto(a) = Append(Below, Call(a, Top.node))
  BY <1>1, GotoFacts
<1>6. CASE Del
  <2>1. Top.at = "del" /\ Top.node \in Nodes
    BY <1>1, <1>6, TopNode DEF Del
  <2>2. n = Top.node
    BY <1>1, <1>6, <2>1 DEF Del
  <2>3. life[n] # "null"
    BY <1>6, <2>2 DEF Del, HasDestructor
  <2>4. n \in Usable
    BY <2>1, <2>2, <2>3, NobodyElse DEF Usable
  <2>5. CASE HasDestructor(n) /\ life' = [life EXCEPT ![n] = "destructed"]
    BY <1>1, <1>6, <2>2, <2>5 DEF HasDestructor
  <2>6. CASE life' = [life EXCEPT ![n] = "freeing"] /\ stack' = Goto("del_free")
    <3>1. life'[n] = "freeing" /\ stack' = Append(Below, Call("del_free", n)) /\ held' = held /\ edge' = edge
      BY <1>1, <1>5, <1>6, <2>2, <2>6 DEF Del, Calls
    <3>2. QED
      BY <2>1, <2>2, <2>4, <3>1, NobodyElse
  <2>7. QED
    BY <1>6, <2>2, <2>3, <2>5, <2>6 DEF Del
<1>7. CASE DelAfterDestructor
  <2>1. Top.at = "del_dtor" /\ Top.node \in Nodes
    BY <1>1, <1>7, TopNode DEF DelAfterDestructor
  <2>2. n = Top.node /\ rc[n] = 1 /\ life' = [life EXCEPT ![n] = "freeing"] /\ stack' = Goto("del_free")
    BY <1>1, <1>7, <2>1 DEF DelAfterDestructor
  <2>3. life'[n] = "freeing" /\ stack' = Append(Below, Call("del_free", n)) /\ held' = held /\ edge' = edge
    BY <1>1, <1>5, <1>7, <2>2 DEF DelAfterDestructor, Calls
  <2>4. life[n] \in {"live", "destructed"}
    BY <2>1, <2>2, NobodyElse
  <2>5. QED
    BY <2>1, <2>2, <2>3, <2>4, NobodyElse DEF Usable
<1>8. CASE DelFree
  <2>1. Top.at = "del_free" /\ Top.node \in Nodes /\ Len(stack) \in DOMAIN stack /\ Top = stack[Len(stack)]
    BY <1>1, <1>8, TopNode, BelowFacts DEF DelFree, StackTypes
  <2>2. n = Top.node /\ life'[n] = "none"
    BY <1>1, <1>8, <2>1 DEF DelFree
  <2>3. life[n] = "freeing"
    BY <2>1, <2>2, InvariantParts DEF FrameLife
  <2>4. QED
    BY <1>8, <2>2, <2>3
<1>9. QED
  BY <1>2, <1>3, <1>4, <1>6, <1>7, <1>8, OuterKinds

\* The calls in progress keep their shape, and at most a run is added.
LEMMA OuterStack ==
  ASSUME CollectorInvariant, Outer
  PROVE  /\ Shape(stack') /\ Adjacent(stack', gc'.phase)
         /\ HasRun(stack') <=> gc'.phase # "idle"
         /\ gc'.phase = "start" => Top'.at = "run"
<1>1. /\ StackTypes /\ GcTypes /\ Shape(stack) /\ Adjacent(stack, gc.phase) /\ Top.at # "run"
      /\ stack \in Seq(Frame) /\ stack # <<>> /\ Top = stack[Len(stack)]
      /\ gc.phase \in {"idle", "delref", "destroy"}
      /\ gc' = gc \/ (gc.phase = "idle" /\ ~gc_active /\ gc' = Begun)
      /\ HasRun(stack) <=> gc.phase # "idle"
      /\ Begun.phase = "start"
  BY InvariantParts, OuterPhase, BelowFacts, BegunFacts DEF StackShape, StackTypes, RunShape
<1>2. ASSUME Top.at # "main"
      PROVE  /\ Len(stack) > 1 /\ Top.node \in Nodes
             /\ Below \in Seq(Frame) /\ Below # <<>> /\ Shape(Below) /\ Below[Len(Below)].at # "del"
             /\ HasRun(Below) <=> gc.phase # "idle"
             /\ Adjacent(Below, gc.phase)
             /\ Below[Len(Below)].at = "run" /\ gc.phase = "destroy" => Top.at = "gc_free"
             /\ Below[Len(Below)].at = "del_dtor" =>
                  Top.at \in {"dtor", "full"} /\ Top.node = Below[Len(Below)].node
    <2>1. Len(stack) > 1 /\ Top.node \in Nodes
      BY <1>1, <1>2, InvariantParts, TopNode
    <2>2. QED
      BY <1>1, <2>1, ShapeBelow, AdjacentBelow
<1>3. ASSUME gc' = gc, stack' = stack \/ (Top.at # "main" /\ stack' = Below)
      PROVE  /\ Shape(stack') /\ Adjacent(stack', gc'.phase)
             /\ HasRun(stack') <=> gc'.phase # "idle"
             /\ gc'.phase = "start" => Top'.at = "run"
  BY <1>1, <1>2, <1>3
<1>4. ASSUME NEW s \in Seq(Frame), s # <<>>, Shape(s), s[Len(s)].at \notin {"del", "run"}, ~HasRun(s),
             Adjacent(s, gc.phase), s[Len(s)].at # "del_dtor",
             stack' = Append(s, Call("run", NULL)), gc.phase = "idle", gc' = Begun
      PROVE  /\ Shape(stack') /\ Adjacent(stack', gc'.phase)
             /\ HasRun(stack') <=> gc'.phase # "idle"
             /\ gc'.phase = "start" => Top'.at = "run"
  <2> DEFINE f == Call("run", NULL)
  <2>1. f \in Frame /\ f.at = "run" /\ f.node = NULL
    BY CallFacts DEF Calls
  <2> HIDE DEF f
  <2>2. /\ Shape(Append(s, f)) /\ (HasRun(Append(s, f)) <=> HasRun(s) \/ f.at = "run")
        /\ Append(s, f)[Len(Append(s, f))] = f
    BY <1>4, <2>1, ShapePush
  <2>3. Adjacent(Append(s, f), gc.phase)
    BY <1>4, <2>1, AdjacentPush
  <2>4. stack' = Append(s, f)
    BY <1>4 DEF f
  <2>5. gc'.phase = "start" /\ Adjacent(Append(s, f), "start")
    BY <1>1, <1>4, <2>3, AdjacentPhase
  <2>6. Top' = f
    BY <2>2, <2>4 DEF Top
  <2>7. QED
    BY <2>1, <2>2, <2>4, <2>5, <2>6
<1>5. \A a \in Calls, n \in Nodes \cup {NULL} :
        Call(a, n) \in Frame /\ Call(a, n).at = a /\ Call(a, n).node = n
  BY CallFacts
<1> DEFINE Ok(s) == /\ s \in Seq(Frame) /\ s # <<>> /\ Shape(s) /\ s[Len(s)].at # "del"
                    /\ HasRun(s) <=> gc.phase # "idle"
                    /\ Adjacent(s, gc.phase)
                    /\ ~(s[Len(s)].at = "run" /\ gc.phase = "destroy")
           Fit(s, a, n) == s[Len(s)].at = "del_dtor" => a \in {"dtor", "full"} /\ n = s[Len(s)].node
           Res(t, a, n) == /\ t \in Seq(Frame) /\ t # <<>> /\ t[Len(t)].at = a /\ t[Len(t)].node = n
                           /\ Shape(t) /\ (HasRun(t) <=> gc.phase # "idle")
                           /\ Adjacent(t, gc.phase)
<1>6. ASSUME NEW s, NEW a \in {"del", "del_dtor", "del_free", "dtor", "full"}, NEW n \in Nodes, Ok(s), Fit(s, a, n)
      PROVE  Res(Append(s, Call(a, n)), a, n)
  <2> DEFINE f == Call(a, n)
             t == Append(s, f)
  <2>1. f \in Frame /\ f.at = a /\ f.node = n /\ f.node # NULL /\ f.at \notin {"main", "run", "gc_free"}
    BY <1>5, ConstantsAssumption DEF Calls
  <2> HIDE DEF f
  <2>3. /\ Shape(t) /\ (HasRun(t) <=> HasRun(s) \/ f.at = "run")
        /\ t \in Seq(Frame) /\ t # <<>> /\ t[Len(t)] = f
    BY <1>6, <2>1, ShapePush
  <2>4. Adjacent(t, gc.phase)
    BY <1>6, <2>1, AdjacentPush
  <2> HIDE DEF t
  <2>5. Res(t, a, n)
    BY <1>6, <2>1, <2>3, <2>4
  <2>6. QED
    BY <2>5 DEF t, f
<1> HIDE DEF Ok, Fit, Res
<1>7. NULL \notin Nodes
  BY ConstantsAssumption
<1>8. CASE \E n \in Nodes : Taking(n)
  BY <1>3, <1>8 DEF Taking
<1>9. ASSUME NEW n \in Nodes, NEW s \in {stack, Below}, life[n] # "none", Letting(n, s)
      PROVE  /\ Shape(stack') /\ Adjacent(stack', gc'.phase)
             /\ HasRun(stack') <=> gc'.phase # "idle"
             /\ gc'.phase = "start" => Top'.at = "run"
  <2>1. \/ s = stack /\ Top.at \in {"main", "dtor", "del_free", "gc_free"}
        \/ s = Below /\ Top.at = "dtor" /\ n = Top.node
    BY <1>9 DEF Letting, InUserCode
  <2>2. /\ s \in Seq(Frame) /\ s # <<>> /\ Shape(s) /\ s[Len(s)].at # "del"
        /\ HasRun(s) <=> gc.phase # "idle"
        /\ Adjacent(s, gc.phase)
        /\ ~(s[Len(s)].at = "run" /\ gc.phase = "destroy")
        /\ s[Len(s)].at = "del_dtor" => s = Below /\ Top.at = "dtor" /\ n = s[Len(s)].node
    BY <1>1, <1>2, <2>1
  <2>3. CASE ReleaseLast(n, s)
    <3>1. stack' = Append(s, Call("del", n)) /\ gc' = gc /\ rc[n] = 1
      BY <2>3 DEF ReleaseLast
    <3>2. s[Len(s)].at # "del_dtor"
      <4> SUFFICES ASSUME s[Len(s)].at = "del_dtor" PROVE FALSE
        OBVIOUS
      <4>1. /\ Len(stack) \in DOMAIN stack /\ Len(stack) - 1 \in DOMAIN stack /\ Len(stack) - 1 # Len(stack)
            /\ stack[Len(stack) - 1] = s[Len(s)] /\ Top.at = "dtor" /\ n = s[Len(s)].node /\ n = Top.node
        <5>1. s = Below /\ Top.at = "dtor" /\ n = s[Len(s)].node /\ n = Top.node /\ Len(stack) > 1
          BY <1>1, <1>2, <2>1, <2>2
        <5>2. QED
          BY <1>1, <5>1, ShapeBelow, BelowFacts
      <4>2. rc[n] >= 2
        BY <1>1, <1>9, <4>1, InvariantParts, HoldersCount
      <4>3. QED
        BY <3>1, <4>2
    <3>3. Ok(s) /\ Fit(s, "del", n)
      BY <2>2, <3>2 DEF Ok, Fit
    <3>4. Res(stack', "del", n)
      BY <1>6, <3>1, <3>3
    <3>5. QED
      BY <1>1, <3>1, <3>4 DEF Res
  <2>4. CASE ReleaseBuffered(n, s)
    BY <1>3, <2>1, <2>4 DEF ReleaseBuffered
  <2>5. CASE ReleaseFull(n, s)
    <3> DEFINE t == Append(s, Call("full", n))
    <3>1. stack' = Append(t, Call("run", NULL)) /\ gc' = Begun /\ gc.phase = "idle"
      <4>1. ~gc_active
        BY <2>5 DEF ReleaseFull
      <4>2. gc.phase = "idle"
        BY <1>1, <4>1, InvariantParts DEF RunShape
      <4>3. QED
        BY <2>2, <2>5, <4>2, CallFacts DEF ReleaseFull, Begun
    <3>2. /\ t \in Seq(Frame) /\ t # <<>> /\ t[Len(t)].at = "full"
          /\ Shape(t) /\ (HasRun(t) <=> gc.phase # "idle")
          /\ Adjacent(t, gc.phase)
      <4>1. Ok(s) /\ Fit(s, "full", n)
        BY <2>2 DEF Ok, Fit
      <4>2. Res(t, "full", n)
        BY <1>6, <4>1
      <4>3. QED
        BY <4>2 DEF Res
    <3> HIDE DEF t
    <3>3. QED
      BY <1>4, <3>1, <3>2
  <2>6. QED
    BY <1>9, <2>3, <2>4, <2>5 DEF Letting, Release
<1>10. CASE CollectCycles
  <2>1. Top.at \in {"main", "dtor"} /\ gc.phase = "idle" /\ stack' = Append(stack, Call("run", NULL)) /\ gc' = Begun
    BY <1>1, <1>10, InvariantParts DEF CollectCycles, RunShape, InUserCode, Begun
  <2>2. QED
    BY <1>1, <1>4, <2>1
<1>11. CASE Del \/ DelAfterDestructor
  <2>1. Top.at \in {"del", "del_dtor"} /\ gc' = gc
    BY <1>11 DEF Del, DelAfterDestructor
  <2>2. /\ Below \in Seq(Frame) /\ Below # <<>> /\ Shape(Below) /\ Below[Len(Below)].at # "del"
        /\ HasRun(Below) <=> gc.phase # "idle"
        /\ Adjacent(Below, gc.phase) /\ Top.node \in Nodes
        /\ ~(Below[Len(Below)].at = "run" /\ gc.phase = "destroy")
        /\ Below[Len(Below)].at # "del_dtor"
    BY <1>2, <2>1
  <2>3. \A a \in Calls : Goto(a) = Append(Below, Call(a, Top.node))
    BY <1>1, GotoFacts
  <2>4. CASE stack' = Below
    BY <1>3, <2>1, <2>4
  <2>5. CASE stack' = Goto("del_free")
    <3>1. stack' = Append(Below, Call("del_free", Top.node))
      BY <2>3, <2>5 DEF Calls
    <3>2. Shape(stack') /\ (HasRun(stack') <=> gc.phase # "idle") /\ Adjacent(stack', gc.phase)
      <4>1. Ok(Below) /\ Fit(Below, "del_free", Top.node)
        BY <2>2 DEF Ok, Fit
      <4>2. Res(stack', "del_free", Top.node)
        BY <1>6, <2>2, <3>1, <4>1
      <4>3. QED
        BY <4>2 DEF Res
    <3>3. QED
      BY <1>1, <2>1, <3>1, <3>2
  <2>6. CASE stack' = Append(Goto("del_dtor"), Call("dtor", Top.node))
    <3> DEFINE t == Append(Below, Call("del_dtor", Top.node))
    <3>1. stack' = Append(t, Call("dtor", Top.node))
      BY <2>3, <2>6 DEF Calls
    <3>2. /\ t \in Seq(Frame) /\ t # <<>> /\ t[Len(t)].at = "del_dtor" /\ t[Len(t)].node = Top.node
          /\ Shape(t) /\ (HasRun(t) <=> gc.phase # "idle")
          /\ Adjacent(t, gc.phase)
      <4>1. Ok(Below) /\ Fit(Below, "del_dtor", Top.node)
        BY <2>2 DEF Ok, Fit
      <4>2. Res(t, "del_dtor", Top.node)
        BY <1>6, <2>2, <4>1
      <4>3. QED
        BY <4>2 DEF Res
    <3> HIDE DEF t
    <3>3. Shape(stack') /\ (HasRun(stack') <=> gc.phase # "idle") /\ Adjacent(stack', gc.phase)
      <4>1. Ok(t) /\ Fit(t, "dtor", Top.node)
        BY <3>2 DEF Ok, Fit
      <4>2. Res(stack', "dtor", Top.node)
        BY <1>6, <2>2, <3>1, <4>1
      <4>3. QED
        BY <4>2 DEF Res
    <3>4. QED
      BY <1>1, <2>1, <3>1, <3>3
  <2>7. QED
    BY <1>11, <2>4, <2>5, <2>6 DEF Del, DelAfterDestructor
<1>12. CASE DelFree \/ Destroyed
  BY <1>3, <1>12 DEF DelFree, Destroyed
<1>13. CASE AfterFull
  <2>1. Top.at = "full" /\ gc' = gc
    BY <1>13 DEF AfterFull
  <2>2. CASE stack' = Below
    BY <1>3, <2>1, <2>2
  <2>3. CASE stack' = Goto("del") /\ rc[Top.node] = 1
    <3>1. stack' = Append(Below, Call("del", Top.node))
      BY <1>1, <2>3, GotoFacts DEF Calls
    <3>2. Below[Len(Below)].at # "del_dtor"
      <4> SUFFICES ASSUME Below[Len(Below)].at = "del_dtor" PROVE FALSE
        OBVIOUS
      <4>1. /\ Len(stack) \in DOMAIN stack /\ Len(stack) - 1 \in DOMAIN stack /\ Len(stack) - 1 # Len(stack)
            /\ stack[Len(stack) - 1] = Below[Len(Below)] /\ Top.node = Below[Len(Below)].node
            /\ Top.node \in Nodes
        BY <1>1, <1>2, <2>1, ShapeBelow, BelowFacts
      <4>2. life[Top.node] # "none"
        BY <1>1, <2>1, <4>1, InvariantParts DEF FrameLife
      <4>3. rc[Top.node] >= 2
        BY <1>1, <2>1, <4>1, <4>2, InvariantParts, HoldersCount
      <4>4. QED
        BY <2>3, <4>3
    <3>3. Shape(stack') /\ (HasRun(stack') <=> gc.phase # "idle") /\ Adjacent(stack', gc.phase)
      <4>1. Ok(Below) /\ Fit(Below, "del", Top.node) /\ Top.node \in Nodes
        BY <1>2, <2>1, <3>2 DEF Ok, Fit
      <4>2. Res(stack', "del", Top.node)
        BY <1>6, <3>1, <4>1
      <4>3. QED
        BY <4>2 DEF Res
    <3>4. QED
      BY <1>1, <2>1, <3>1, <3>3
  <2>4. QED
    BY <1>13, <2>2, <2>3 DEF AfterFull
<1>14. QED
  BY <1>8, <1>9, <1>10, <1>11, <1>12, <1>13, OuterKinds

\* Outside the collector: where the run is.
LEMMA OuterControl ==
  ASSUME CollectorInvariant, Outer
  PROVE  StackShape' /\ RunShape' /\ GcTypes'
<1>1. /\ gc.phase \in {"idle", "delref", "destroy"} /\ gc_active' = gc_active
      /\ gc' = gc \/ (gc.phase = "idle" /\ ~gc_active /\ gc' = Begun)
      /\ GcTypes /\ RunShape /\ HeapTypes
  BY InvariantParts, OuterPhase
<1>2. /\ Shape(stack') /\ Adjacent(stack', gc'.phase)
      /\ HasRun(stack') <=> gc'.phase # "idle"
      /\ gc'.phase = "start" => Top'.at = "run"
  BY OuterStack
<1>3. StackShape'
  BY <1>2 DEF StackShape, Shape, Adjacent
<1>4. GcTypes'
  BY <1>1, BegunFacts DEF GcTypes
<1>5. CASE gc.phase = "idle" /\ ~gc_active /\ gc' = Begun
  <2>1. /\ gc'.phase = "start" /\ gc'.work = {} /\ gc'.bwork = {} /\ ~gc'.dtors /\ ~gc_active'
    BY <1>1, <1>5, BegunFacts
  <2>2. (HasRun(stack))' <=> gc'.phase # "idle"
    BY <1>2 DEF HasRun
  <2>3. QED
    BY <1>2, <1>3, <1>4, <2>1, <2>2 DEF RunShape
<1>6. CASE gc' = gc
  <2>1. (HasRun(stack))' <=> gc'.phase # "idle"
    BY <1>2 DEF HasRun
  <2>2. gc_active => gc.end <= Len(buf')
    <3>1. gc_active => gc.end <= Len(buf) /\ Len(buf) <= Len(buf')
      BY <1>1, OuterBuffer DEF RunShape
    <3>2. gc.end \in Nat /\ Len(buf) \in Nat /\ Len(buf') \in Nat
      <4>1. buf' \in Seq(EntryType)
        BY OuterBuffer DEF BufferInvariant, BufferTypes
      <4>2. QED
        BY <1>1, <4>1, GcFields, InvariantParts, BufferFacts
    <3>3. QED
      BY <3>1, <3>2
  <2>3. gc.phase = "delref" => Entry' = Entry /\ Entry.ref \in Usable'
    <3> SUFFICES ASSUME gc.phase = "delref" PROVE Entry' = Entry /\ Entry.ref \in Usable'
      OBVIOUS
    <3>1. Entry' = Entry /\ Entry.ref \in Usable /\ Entry.ref \in Nodes
      BY <1>1, OuterBuffer DEF RunShape, Usable
    <3>2. CASE life'[Entry.ref] = life[Entry.ref]
      BY <3>1, <3>2 DEF Usable
    <3>3. CASE life'[Entry.ref] # life[Entry.ref]
      <4>1. life'[Entry.ref] \in {"live", "destructed"}
        BY <3>1, <3>3, OuterLife DEF Usable
      <4>2. QED
        BY <3>1, <4>1 DEF Usable
    <3>4. QED
      BY <3>2, <3>3
  <2>4. /\ gc' = gc /\ gc.phase \in {"idle", "delref", "destroy"} /\ gc_active' = gc_active
        /\ (HasRun(stack))' <=> gc.phase # "idle"
        /\ gc_active <=> gc.phase \notin {"idle", "start"}
        /\ gc.work = {} /\ gc.bwork = {}
        /\ gc_active => 1 <= gc.idx
        /\ gc.phase = "delref" => gc.idx <= gc.end /\ Entry'.tag = "ROOT" /\ Entry'.ref \in Usable'
        /\ gc.phase \in {"nested", "dtors", "delref"} => gc.dtors
        /\ gc.phase \in {"nested", "dtors", "delref", "destroy"} /\ gc.dtors => gc.rerun # "no"
    BY <1>1, <1>6, <2>1, <2>3 DEF RunShape
  <2>5. /\ gc'.phase # "idle" <=> (HasRun(stack))'
        /\ gc_active' <=> gc'.phase \notin {"idle", "start"}
        /\ gc'.phase \notin {"start", "mark", "scan", "collect", "nested", "dtors"}
        /\ gc'.work = {} /\ gc'.bwork = {}
        /\ gc_active' => 1 <= gc'.idx /\ gc'.end <= Len(buf')
    BY <2>2, <2>4
  <2>6. /\ gc'.phase = "delref" => gc'.idx <= gc'.end /\ Entry'.tag = "ROOT" /\ Entry'.ref \in Usable'
        /\ gc'.phase \in {"nested", "dtors", "delref"} => gc'.dtors
        /\ gc'.phase \in {"nested", "dtors", "delref", "destroy"} /\ gc'.dtors => gc'.rerun # "no"
    BY <2>4
  <2>7. QED
    BY <1>3, <1>4, <2>5, <2>6 DEF RunShape
<1>7. QED
  BY <1>1, <1>3, <1>4, <1>5, <1>6

----------------------------------------------------------------------------
(* The heap outside the collector.                                         *)

\* The frames after such a step: those of before, or new ones.
LEMMA OuterFrames ==
  ASSUME CollectorInvariant, Outer, NEW i \in DOMAIN stack'
  PROVE  \/ i \in DOMAIN stack /\ stack'[i] = stack[i] /\ stack[i].at # "del"
         \/ stack'[i] = Call("run", NULL) /\ gc.phase = "idle"
         \/ \E n \in Nodes : \E a \in Calls :
              /\ stack'[i] = Call(a, n)
              /\ \/ /\ a = "del" /\ rc'[n] = 0
                    /\ life'[n] = life[n] /\ life[n] \in {"live", "destructed", "null"}
                    /\ n \in Condemned => Top.node \in Condemned
                 \/ a = "full" /\ life'[n] = life[n] /\ life[n] \in {"live", "destructed"} /\ gc.phase = "idle"
                 \/ a \in {"dtor", "del_dtor"} /\ life'[n] = "destructed" /\ HasDestructor(n) /\ n = Top.node
                 \/ /\ a = "del_free" /\ n \in Usable /\ life'[n] = "freeing" /\ n = Top.node
                    /\ stack' = Append(Below, Call("del_free", n))
                    /\ \A j \in DOMAIN stack : stack[j].node = n => j = Len(stack)
<1>1. /\ StackTypes /\ stack \in Seq(Frame) /\ stack # <<>> /\ Top = stack[Len(stack)] /\ Top.at # "run"
      /\ Below \in Seq(Frame) /\ Len(stack) \in DOMAIN stack
      /\ rc \in [Nodes -> Nat] /\ life \in [Nodes -> Lives]
      /\ \A j \in DOMAIN Below : j \in DOMAIN stack /\ Below[j] = stack[j] /\ j # Len(stack)
      /\ \A j \in DOMAIN stack : stack[j].at = "del" => j = Len(stack)
  BY InvariantParts, OuterPhase, BelowFacts DEF StackTypes, StackShape, Shape, CountTypes, HeapTypes
<1>2. \A j \in DOMAIN Below : j \in DOMAIN stack /\ Below[j] = stack[j] /\ stack[j].at # "del"
  BY <1>1
<1>3. Top.at # "del" => \A j \in DOMAIN stack : stack[j].at # "del"
  BY <1>1
<1>4. ASSUME NEW s \in Seq(Frame), NEW f \in Frame, NEW j \in DOMAIN Append(s, f)
      PROVE  (j \in DOMAIN s /\ Append(s, f)[j] = s[j]) \/ Append(s, f)[j] = f
  <2>1. /\ DOMAIN Append(s, f) = 1 .. Len(s) + 1 /\ Len(s) \in Nat /\ DOMAIN s = 1 .. Len(s)
        /\ Append(s, f)[Len(s) + 1] = f
        /\ \A k \in 1 .. Len(s) : Append(s, f)[k] = s[k]
    BY Pushed
  <2>2. j \in 1 .. Len(s) \/ j = Len(s) + 1
    BY <1>4, <2>1
  <2>3. QED
    BY <2>1, <2>2
<1>5. /\ Call("run", NULL) \in Frame /\ (\A a \in Calls : \A n \in Nodes : Call(a, n) \in Frame)
      /\ {"del", "full", "dtor", "del_dtor", "del_free"} \subseteq Calls
  BY CallFacts DEF Calls
<1>6. ASSUME stack' = Below \/ (stack' = stack /\ Top.at # "del")
      PROVE  i \in DOMAIN stack /\ stack'[i] = stack[i] /\ stack[i].at # "del"
  BY <1>2, <1>3, <1>6
<1>7. ASSUME NEW n \in Nodes, Taking(n) PROVE i \in DOMAIN stack /\ stack'[i] = stack[i] /\ stack[i].at # "del"
  BY <1>6, <1>7 DEF Taking, InUserCode
<1>8. ASSUME NEW n \in Nodes, NEW s \in {stack, Below}, life[n] \in {"live", "destructed", "null"}, Letting(n, s)
      PROVE  \/ i \in DOMAIN stack /\ stack'[i] = stack[i] /\ stack[i].at # "del"
             \/ stack'[i] = Call("run", NULL) /\ gc.phase = "idle"
             \/ stack'[i] = Call("del", n) /\ rc'[n] = 0 /\ (n \in Condemned => Top.node \in Condemned)
             \/ stack'[i] = Call("full", n) /\ life[n] \in {"live", "destructed"} /\ gc.phase = "idle"
  <2>1. Top.at # "del" /\ s \in Seq(Frame)
    BY <1>1, <1>8 DEF Letting, InUserCode
  <2>2. \A j \in DOMAIN s : j \in DOMAIN stack /\ s[j] = stack[j] /\ stack[j].at # "del"
    BY <1>2, <1>3, <1>8, <2>1
  <2>3. CASE ReleaseLast(n, s)
    <3>1. n \in Condemned => Top.node \in Condemned
      BY <1>1, <1>8, Quiet DEF Letting
    <3>2. QED
      BY <1>1, <1>4, <1>5, <2>1, <2>2, <2>3, <3>1 DEF ReleaseLast
  <2>4. CASE ReleaseBuffered(n, s)
    BY <2>2, <2>4 DEF ReleaseBuffered
  <2>5. CASE ReleaseFull(n, s)
    <3> DEFINE t == Append(s, Call("full", n))
    <3>1. stack' = Append(t, Call("run", NULL)) /\ ~gc_active
      BY <2>1, <2>5, CallFacts DEF ReleaseFull
    <3>2. gc.phase = "idle"
      BY <1>1, <3>1, InvariantParts DEF RunShape
    <3>3. life[n] # "null"
      BY <3>2, InvariantParts DEF Dying
    <3>4. t \in Seq(Frame)
      BY <1>5, <2>1, Pushed
    <3>5. stack'[i] = Call("run", NULL) \/ (i \in DOMAIN t /\ stack'[i] = t[i])
      <4> HIDE DEF t
      <4>1. QED
        BY <1>4, <1>5, <3>1, <3>4
    <3>6. i \in DOMAIN t => t[i] = Call("full", n) \/ (i \in DOMAIN s /\ t[i] = s[i])
      BY <1>4, <1>5, <2>1
    <3> HIDE DEF t
    <3>7. QED
      BY <1>8, <2>2, <3>2, <3>3, <3>5, <3>6
  <2>6. QED
    BY <1>8, <2>3, <2>4, <2>5 DEF Letting, Release
<1>9. ASSUME CollectCycles
      PROVE  \/ i \in DOMAIN stack /\ stack'[i] = stack[i] /\ stack[i].at # "del"
             \/ stack'[i] = Call("run", NULL) /\ gc.phase = "idle"
  <2>1. Top.at # "del" /\ stack' = Append(stack, Call("run", NULL)) /\ gc.phase = "idle"
    BY <1>1, <1>9, InvariantParts DEF CollectCycles, InUserCode, RunShape
  <2>2. QED
    BY <1>1, <1>3, <1>4, <1>5, <2>1
<1>10. ASSUME Del \/ DelAfterDestructor \/ AfterFull
       PROVE  \/ i \in DOMAIN stack /\ stack'[i] = stack[i] /\ stack[i].at # "del"
              \/ \E n \in Nodes : \E a \in Calls :
                   /\ stack'[i] = Call(a, n)
                   /\ \/ /\ a = "del" /\ rc'[n] = 0
                         /\ life'[n] = life[n] /\ life[n] \in {"live", "destructed", "null"}
                         /\ n \in Condemned => Top.node \in Condemned
                      \/ a \in {"dtor", "del_dtor"} /\ life'[n] = "destructed" /\ HasDestructor(n) /\ n = Top.node
                      \/ /\ a = "del_free" /\ n \in Usable /\ life'[n] = "freeing" /\ n = Top.node
                         /\ stack' = Append(Below, Call("del_free", n))
                         /\ \A j \in DOMAIN stack : stack[j].node = n => j = Len(stack)
  <2> DEFINE n == Top.node
  <2>1. n \in Nodes /\ Top.at \in {"del", "del_dtor", "full"}
    BY <1>1, <1>10, InvariantParts, TopNode DEF Del, DelAfterDestructor, AfterFull
  <2>2. \A a \in Calls : Goto(a) = Append(Below, Call(a, n))
    BY <1>1, GotoFacts
  <2> HIDE DEF n
  <2>3. CASE stack' = Below
    BY <1>6, <2>3
  <2>4. CASE AfterFull /\ stack' = Goto("del") /\ rc[n] = 1
    <3>1. life' = life /\ rc'[n] = 0 /\ life[n] \in {"live", "destructed"}
      <4>1. Top.at = "full" /\ life' = life /\ rc' = [rc EXCEPT ![n] = @ - 1]
        BY <2>4 DEF AfterFull, heap, n
      <4>2. rc'[n] = 0
        BY <1>1, <2>1, <2>4, <4>1
      <4>3. QED
        BY <1>1, <2>1, <4>1, <4>2, InvariantParts DEF FrameLife, n
    <3>2. stack' = Append(Below, Call("del", n))
      BY <1>5, <2>2, <2>4
    <3>3. (i \in DOMAIN Below /\ stack'[i] = Below[i]) \/ stack'[i] = Call("del", n)
      BY <1>1, <1>4, <1>5, <2>1, <3>2
    <3>4. QED
      BY <1>2, <1>5, <2>1, <3>1, <3>3 DEF n
  <2>5. CASE /\ (Del /\ life[n] # "null") \/ (DelAfterDestructor /\ rc[n] = 1)
             /\ life' = [life EXCEPT ![n] = "freeing"] /\ stack' = Goto("del_free")
    <3>1. stack' = Append(Below, Call("del_free", n)) /\ life'[n] = "freeing"
      BY <1>1, <1>5, <2>1, <2>2, <2>5
    <3>2. n \in Usable /\ \A j \in DOMAIN stack : stack[j].node = n => j = Len(stack)
      BY <2>1, <2>5, NobodyElse DEF Del, DelAfterDestructor, n, Usable
    <3>3. (i \in DOMAIN Below /\ stack'[i] = Below[i]) \/ stack'[i] = Call("del_free", n)
      BY <1>1, <1>4, <1>5, <2>1, <3>1
    <3>4. QED
      BY <1>2, <1>5, <2>1, <3>1, <3>2, <3>3 DEF n
  <2>6. CASE /\ Del /\ HasDestructor(n) /\ life' = [life EXCEPT ![n] = "destructed"]
             /\ stack' = Append(Goto("del_dtor"), Call("dtor", n))
    <3> DEFINE t == Append(Below, Call("del_dtor", n))
    <3>1. stack' = Append(t, Call("dtor", n)) /\ life'[n] = "destructed"
      BY <1>1, <1>5, <2>1, <2>2, <2>6
    <3>2. t \in Seq(Frame)
      BY <1>1, <1>5, <2>1, Pushed
    <3>3. stack'[i] = Call("dtor", n) \/ (i \in DOMAIN t /\ stack'[i] = t[i])
      <4> HIDE DEF t
      <4>1. QED
        BY <1>4, <1>5, <2>1, <3>1, <3>2
    <3>4. i \in DOMAIN t => t[i] = Call("del_dtor", n) \/ (i \in DOMAIN Below /\ t[i] = Below[i])
      BY <1>1, <1>4, <1>5, <2>1
    <3> HIDE DEF t
    <3>5. QED
      BY <1>2, <1>5, <2>1, <2>6, <3>1, <3>3, <3>4 DEF n
  <2>7. CASE Del
    <3>1. \/ stack' = Below
          \/ life[n] # "null" /\ life' = [life EXCEPT ![n] = "freeing"] /\ stack' = Goto("del_free")
          \/ /\ HasDestructor(n) /\ life' = [life EXCEPT ![n] = "destructed"]
             /\ stack' = Append(Goto("del_dtor"), Call("dtor", n))
      BY <2>7 DEF Del, n
    <3>2. CASE stack' = Below
      BY <2>3, <3>2
    <3>3. CASE life[n] # "null" /\ life' = [life EXCEPT ![n] = "freeing"] /\ stack' = Goto("del_free")
      BY <2>5, <2>7, <3>3
    <3>4. CASE /\ HasDestructor(n) /\ life' = [life EXCEPT ![n] = "destructed"]
               /\ stack' = Append(Goto("del_dtor"), Call("dtor", n))
      BY <2>6, <2>7, <3>4
    <3>5. QED
      BY <3>1, <3>2, <3>3, <3>4
  <2>8. CASE DelAfterDestructor
    BY <2>3, <2>5, <2>8 DEF DelAfterDestructor, n
  <2>9. CASE AfterFull
    BY <2>3, <2>4, <2>9 DEF AfterFull, n
  <2>10. QED
    BY <1>10, <2>7, <2>8, <2>9
<1>11. ASSUME DelFree \/ Destroyed PROVE i \in DOMAIN stack /\ stack'[i] = stack[i] /\ stack[i].at # "del"
  BY <1>6, <1>11 DEF DelFree, Destroyed
<1>12. ASSUME NEW n \in Nodes, NEW s, Letting(n, s) PROVE life' = life
  BY <1>12, LettingLife
<1>13. QED
  BY <1>5, <1>7, <1>8, <1>9, <1>10, <1>11, <1>12, OuterKinds

\* The calls below the one on top go on, and the one on top unless it is over.
LEMMA OuterOld ==
  ASSUME CollectorInvariant, Outer, NEW i \in DOMAIN stack,
         i # Len(stack) \/ (Top.at \in {"main", "del_free", "gc_free"} /\ ~DelFree /\ ~Destroyed)
  PROVE  i \in DOMAIN stack' /\ stack'[i] = stack[i]
<1>1. /\ StackTypes /\ stack \in Seq(Frame) /\ stack # <<>> /\ Top = stack[Len(stack)]
      /\ Below \in Seq(Frame) /\ Len(stack) \in Nat /\ DOMAIN stack = 1 .. Len(stack)
      /\ DOMAIN Below = 1 .. Len(stack) - 1
      /\ \A j \in 1 .. Len(stack) - 1 : Below[j] = stack[j]
  BY InvariantParts, BelowFacts DEF StackTypes
<1>2. i # Len(stack) => i \in DOMAIN Below /\ Below[i] = stack[i]
  BY <1>1
<1>3. ASSUME NEW s \in Seq(Frame), NEW f \in Frame, i \in DOMAIN s
      PROVE  i \in DOMAIN Append(s, f) /\ Append(s, f)[i] = s[i]
  BY <1>3, Pushed
<1>4. /\ Call("run", NULL) \in Frame /\ (\A a \in Calls : \A n \in Nodes : Call(a, n) \in Frame)
      /\ {"del", "full", "dtor", "del_dtor", "del_free"} \subseteq Calls
  BY CallFacts DEF Calls
<1>5. CASE (\E n \in Nodes : Taking(n)) \/ CollectCycles
  BY <1>1, <1>3, <1>4, <1>5 DEF Taking, CollectCycles
<1>6. ASSUME NEW n \in Nodes, NEW s \in {stack, Below}, Letting(n, s)
      PROVE  i \in DOMAIN stack' /\ stack'[i] = stack[i]
  <2>1. s = Below => i # Len(stack)
    <3> SUFFICES ASSUME s = Below, i = Len(stack) PROVE FALSE
      OBVIOUS
    <3>1. Below # stack
      BY <1>1
    <3>2. Top.at = "dtor"
      BY <1>6, <3>1 DEF Letting
    <3>3. QED
      BY <3>2
  <2>2. s \in Seq(Frame) /\ i \in DOMAIN s /\ s[i] = stack[i]
    BY <1>1, <1>2, <2>1
  <2>3. Release(n, s)
    BY <1>6 DEF Letting
  <2>4. CASE stack' = s
    BY <2>2, <2>4
  <2>5. CASE stack' = Append(s, Call("del", n))
    BY <1>3, <1>4, <2>2, <2>5
  <2>6. CASE stack' = Append(Append(s, Call("full", n)), Call("run", NULL))
    <3> DEFINE t == Append(s, Call("full", n))
    <3>1. t \in Seq(Frame) /\ i \in DOMAIN t /\ t[i] = s[i]
      BY <1>3, <1>4, <2>2, Pushed
    <3>2. stack' = Append(t, Call("run", NULL))
      BY <2>6
    <3> HIDE DEF t
    <3>3. QED
      BY <1>3, <1>4, <2>2, <3>1, <3>2
  <2>7. QED
    BY <2>2, <2>3, <2>4, <2>5, <2>6, ReleaseStack
<1>7. CASE Del \/ DelAfterDestructor \/ AfterFull
  <2>1. Top.at \in {"del", "del_dtor", "full"} /\ Top.node \in Nodes
    BY <1>1, <1>7, InvariantParts, TopNode DEF Del, DelAfterDestructor, AfterFull
  <2>2. i \in DOMAIN Below /\ Below[i] = stack[i]
    BY <1>2, <2>1
  <2>3. \A a \in Calls : Goto(a) = Append(Below, Call(a, Top.node)) /\ i \in DOMAIN Goto(a)
                         /\ Goto(a)[i] = stack[i] /\ Goto(a) \in Seq(Frame)
    <3> SUFFICES ASSUME NEW a \in Calls
                 PROVE  /\ Goto(a) = Append(Below, Call(a, Top.node)) /\ i \in DOMAIN Goto(a)
                        /\ Goto(a)[i] = stack[i] /\ Goto(a) \in Seq(Frame)
      OBVIOUS
    <3> DEFINE f == Call(a, Top.node)
    <3>1. Goto(a) = Append(Below, f) /\ f \in Frame
      BY <1>1, GotoFacts
    <3> HIDE DEF f
    <3>2. i \in DOMAIN Append(Below, f) /\ Append(Below, f)[i] = stack[i] /\ Append(Below, f) \in Seq(Frame)
      BY <1>1, <1>3, <2>2, <3>1, Pushed
    <3>3. QED
      BY <3>1, <3>2 DEF f
  <2>4. CASE stack' = Below
    BY <2>2, <2>4
  <2>5. CASE \E a \in Calls : stack' = Goto(a)
    BY <2>3, <2>5
  <2>6. CASE stack' = Append(Goto("del_dtor"), Call("dtor", Top.node))
    BY <1>3, <1>4, <2>1, <2>3, <2>6
  <2>7. \/ stack' = Below \/ stack' = Goto("del") \/ stack' = Goto("del_free")
        \/ stack' = Append(Goto("del_dtor"), Call("dtor", Top.node))
    BY <1>7 DEF Del, DelAfterDestructor, AfterFull
  <2>8. QED
    BY <1>4, <2>4, <2>5, <2>6, <2>7
<1>8. CASE DelFree \/ Destroyed
  BY <1>2, <1>8 DEF DelFree, Destroyed
<1>9. QED
  BY <1>5, <1>6, <1>7, <1>8, OuterKinds

\* Nothing but PHP code makes references.
LEMMA OuterGrowth ==
  ASSUME CollectorInvariant, Outer
  PROVE  (held' \subseteq held /\ edge' \subseteq edge) \/ \E n \in Nodes : Taking(n)
<1>1. ASSUME NEW n \in Nodes, NEW s, Letting(n, s) PROVE held' \subseteq held /\ edge' \subseteq edge
  BY <1>1 DEF Letting
<1>2. ASSUME CollectCycles \/ Del \/ DelAfterDestructor \/ DelFree \/ Destroyed \/ AfterFull
      PROVE held' \subseteq held /\ edge' \subseteq edge
  BY <1>2 DEF CollectCycles, Del, DelAfterDestructor, DelFree, Destroyed, AfterFull, heap
<1>3. QED
  BY <1>1, <1>2, OuterKinds

\* Free memory has no count.
LEMMA OuterFreeCount ==
  ASSUME CollectorInvariant, Outer, NEW n \in Nodes, life'[n] = "none"
  PROVE  rc'[n] = 0
<1>1. rc \in [Nodes -> Nat] /\ life \in [Nodes -> Lives]
  BY InvariantParts DEF CountTypes, HeapTypes
<1>2. CASE life[n] = "none"
  <2>1. rc[n] = 0
    BY <1>2, InvariantParts DEF Dying
  <2>2. ASSUME NEW m \in Nodes, Taking(m) PROVE rc'[n] = rc[n]
    <3>1. m # n
      BY <1>1, <1>2, <2>2 DEF Taking, Usable
    <3>2. QED
      BY <1>1, <2>2, <3>1 DEF Taking
  <2>3. ASSUME NEW m \in Nodes, NEW s, Letting(m, s), life[m] # "none" PROVE rc'[n] = rc[n]
    BY <1>1, <1>2, <2>3 DEF Letting, Release, ReleaseLast, ReleaseBuffered, ReleaseFull
  <2>4. ASSUME CollectCycles PROVE rc'[n] = rc[n]
    BY <2>4 DEF CollectCycles, counts
  <2>5. ASSUME Del \/ DelAfterDestructor \/ DelFree \/ Destroyed \/ AfterFull PROVE rc'[n] = rc[n]
    <3>1. Top.node \in Nodes /\ Len(stack) \in DOMAIN stack /\ Top = stack[Len(stack)]
          /\ Top.at \in {"del", "del_dtor", "del_free", "gc_free", "full"}
      BY <2>5, InvariantParts, TopNode, BelowFacts DEF StackTypes, Del, DelAfterDestructor, DelFree, Destroyed, AfterFull
    <3>2. Top.node # n
      BY <1>2, <3>1, InvariantParts DEF FrameLife
    <3>3. QED
      BY <1>1, <2>5, <3>1, <3>2 DEF Del, DelAfterDestructor, DelFree, Destroyed, AfterFull
  <2>6. QED
    BY <2>1, <2>2, <2>3, <2>4, <2>5, OuterKinds
<1>3. CASE life[n] # "none"
  <2>1. DelFree /\ n = Top.node
    BY <1>3, OuterLife
  <2>2. QED
    BY <1>1, <2>1 DEF DelFree
<1>4. QED
  BY <1>2, <1>3

\* Outside the collector: the objects that calls are about.
LEMMA OuterFrameLife ==
  ASSUME CollectorInvariant, Outer
  PROVE  FrameLife'
<1>1. /\ FrameLife /\ StackTypes /\ StackShape /\ Top = stack[Len(stack)] /\ stack # <<>>
      /\ Len(stack) \in Nat /\ DOMAIN stack = 1 .. Len(stack) /\ Len(stack) \in DOMAIN stack
      /\ Below \in Seq(Frame) /\ Len(Below) = Len(stack) - 1
      /\ \A j \in DOMAIN Below : j \in DOMAIN stack /\ Below[j] = stack[j] /\ j # Len(stack)
      /\ stack \in Seq(Frame)
  BY InvariantParts, StackFacts DEF StackTypes
<1>2. \A a \in Calls, n \in Nodes \cup {NULL} :
        Call(a, n) \in Frame /\ Call(a, n).at = a /\ Call(a, n).node = n
  BY CallFacts
<1>3. \A j \in DOMAIN stack : stack[j].at \in {"dtor", "del_dtor", "full", "del_free", "gc_free", "del"} =>
                                stack[j].node \in Nodes
  BY <1>1, StackFacts DEF StackShape, Shape
<1>4. NULL \notin Nodes /\ {"run", "del", "full", "dtor", "del_dtor", "del_free"} \subseteq Calls
  BY ConstantsAssumption DEF Calls
\* A new del_free frame replaces the only frame of its object.
<1>5. ASSUME NEW n \in Nodes, stack' = Append(Below, Call("del_free", n)),
             \A j \in DOMAIN stack : stack[j].node = n => j = Len(stack),
             NEW j \in DOMAIN stack', stack'[j].node = n
      PROVE  j = Len(stack)
  <2>1. Call("del_free", n) \in Frame
    BY <1>2, <1>4
  <2>2. /\ DOMAIN stack' = 1 .. Len(Below) + 1 /\ DOMAIN Below = 1 .. Len(Below)
        /\ \A k \in 1 .. Len(Below) : stack'[k] = Below[k]
    <3> DEFINE f == Call("del_free", n)
    <3>1. stack' = Append(Below, f) /\ f \in Frame /\ Below \in Seq(Frame)
      BY <1>1, <1>5, <2>1, SMTT(30)
    <3> HIDE DEF f
    <3>2. QED
      BY <3>1, Pushed
  <2>3. j \notin DOMAIN Below
    BY <1>1, <1>5, <2>2
  <2>4. QED
    BY <1>1, <2>2, <2>3
<1>6. ASSUME NEW i \in DOMAIN stack', i \in DOMAIN stack, stack'[i] = stack[i], stack[i].at # "del",
             stack[i].at \in {"dtor", "del_dtor", "full", "del_free", "gc_free"}
      PROVE  LET n == stack[i].node IN
             /\ stack[i].at \in {"dtor", "del_dtor", "full"} => life'[n] \in {"live", "destructed"}
             /\ stack[i].at = "del_free" => life'[n] = "freeing"
             /\ stack[i].at = "gc_free" => life'[n] = "null"
  <2> DEFINE n == stack[i].node
  <2>1. /\ n \in Nodes
        /\ stack[i].at \in {"dtor", "del_dtor", "full"} => life[n] \in {"live", "destructed"}
        /\ stack[i].at = "del_free" => life[n] = "freeing" /\ \A j \in DOMAIN stack : stack[j].node = n => j = i
        /\ stack[i].at = "gc_free" => life[n] = "null"
    BY <1>1, <1>3, <1>6 DEF FrameLife
  <2>2. CASE life'[n] = life[n]
    BY <2>1, <2>2
  <2>3. CASE life'[n] # life[n]
    <3>1. CASE life[n] = "none"
      BY <1>6, <2>1, <3>1
    <3>2. CASE life[n] = "live" /\ life'[n] = "destructed"
      BY <1>6, <2>1, <3>2
    <3>3. CASE /\ n \in Usable /\ stack' = Append(Below, Call("del_free", n))
               /\ \A j \in DOMAIN stack : stack[j].node = n => j = Len(stack)
      <4>1. i = Len(stack)
        BY <1>6, <3>3
      <4>2. Call("del_free", n) \in Frame /\ Call("del_free", n).at = "del_free"
        BY <1>2, <1>4, <2>1
      <4>3. Append(Below, Call("del_free", n))[Len(Below) + 1] = Call("del_free", n)
        BY <1>1, <4>2, Pushed
      <4>4. stack'[i] = Call("del_free", n)
        BY <1>1, <3>3, <4>1, <4>3
      <4>5. stack[i].at = "del_free"
        BY <1>6, <4>2, <4>4
      <4>6. QED
        BY <2>1, <3>3, <4>5 DEF Usable
    <3>4. CASE life[n] = "freeing" /\ DelFree /\ n = Top.node
      <4>1. stack[i].at = "del_free" /\ i = Len(stack)
        BY <1>1, <1>6, <2>1, <3>4
      <4>2. stack' = Below
        BY <3>4 DEF DelFree
      <4>3. QED
        BY <1>1, <1>6, <4>1, <4>2
    <3>5. QED
      BY <2>1, <2>3, <3>1, <3>2, <3>3, <3>4, OuterLife
  <2>4. QED
    BY <2>2, <2>3
<1>7. ASSUME NEW i \in DOMAIN stack'
      PROVE  LET n == stack'[i].node IN
             /\ stack'[i].at \in {"dtor", "del_dtor", "full"} => life'[n] \in {"live", "destructed"}
             /\ stack'[i].at = "del_free" => life'[n] = "freeing"
             /\ stack'[i].at = "gc_free" => life'[n] = "null"
             /\ stack'[i].at = "del" => life'[n] \in {"live", "destructed", "null"} /\ rc'[n] = 0
  <2>1. CASE i \in DOMAIN stack /\ stack'[i] = stack[i] /\ stack[i].at # "del"
    BY <1>6, <2>1
  <2>2. CASE stack'[i] = Call("run", NULL)
    BY <1>2, <1>4, <2>2
  <2>3. ASSUME NEW n \in Nodes, NEW a \in Calls, stack'[i] = Call(a, n),
               \/ a = "del" /\ rc'[n] = 0 /\ life'[n] = life[n] /\ life[n] \in {"live", "destructed", "null"}
               \/ a = "full" /\ life'[n] = life[n] /\ life[n] \in {"live", "destructed"}
               \/ a \in {"dtor", "del_dtor"} /\ life'[n] = "destructed"
               \/ a = "del_free" /\ life'[n] = "freeing"
        PROVE  LET m == stack'[i].node IN
               /\ stack'[i].at \in {"dtor", "del_dtor", "full"} => life'[m] \in {"live", "destructed"}
               /\ stack'[i].at = "del_free" => life'[m] = "freeing"
               /\ stack'[i].at = "gc_free" => life'[m] = "null"
               /\ stack'[i].at = "del" => life'[m] \in {"live", "destructed", "null"} /\ rc'[m] = 0
    <3>1. stack'[i].at = a /\ stack'[i].node = n
      BY <1>2, <2>3
    <3>2. QED
      BY <2>3, <3>1
  <2>4. QED
    BY <1>7, <2>1, <2>2, <2>3, OuterFrames
<1>8. ASSUME NEW i \in DOMAIN stack', stack'[i].at = "del_free", NEW j \in DOMAIN stack', stack'[j].node = stack'[i].node
      PROVE  j = i
  <2> DEFINE n == stack'[i].node
  <2>1. life'[n] = "freeing"
    BY <1>7, <1>8
  \* a frame of n is an old one, or the new del_free frame
  <2>2. ASSUME NEW k \in DOMAIN stack', stack'[k].node = n
        PROVE  \/ k \in DOMAIN stack /\ stack'[k] = stack[k]
               \/ /\ n \in Nodes /\ n \in Usable /\ stack' = Append(Below, Call("del_free", n))
                  /\ \A l \in DOMAIN stack : stack[l].node = n => l = Len(stack)
    <3>1. CASE stack'[k] = Call("run", NULL)
      <4>1. n = NULL
        BY <1>2, <1>4, <2>2, <3>1
      <4>2. n # NULL
        <5>1. (Shape(stack))'
          BY OuterControl DEF StackShape
        <5>2. QED
          BY <1>8, <5>1 DEF Shape
      <4>3. QED
        BY <4>1, <4>2
    <3>2. ASSUME NEW m \in Nodes, NEW a \in Calls, stack'[k] = Call(a, m) PROVE m = n
      BY <1>2, <2>2, <3>2
    <3>3. QED
      BY <1>4, <2>1, <2>2, <3>1, <3>2, OuterFrames DEF HasDestructor
  <2>3. CASE \E k \in DOMAIN stack' : /\ n \in Nodes /\ n \in Usable /\ stack' = Append(Below, Call("del_free", n))
                                      /\ \A l \in DOMAIN stack : stack[l].node = n => l = Len(stack)
    <3>1. i = Len(stack) /\ j = Len(stack)
      BY <1>5, <1>8, <2>3
    <3>2. QED
      BY <3>1
  <2>4. CASE i \in DOMAIN stack /\ stack'[i] = stack[i] /\ j \in DOMAIN stack /\ stack'[j] = stack[j]
    BY <1>1, <1>8, <2>4 DEF FrameLife
  <2>5. QED
    BY <1>8, <2>2, <2>3, <2>4
<1>9. QED
  BY <1>7, <1>8, SMTT(30) DEF FrameLife

\* Outside the collector: variables and properties.
LEMMA OuterReferences ==
  ASSUME CollectorInvariant, Outer
  PROVE  References'
<1>1. References /\ HeapTypes /\ life \in [Nodes -> Lives]
  BY InvariantParts DEF HeapTypes
<1>2. ASSUME NEW n \in held PROVE n \in Usable'
  <2>1. n \in Usable /\ n \in Nodes
    BY <1>1 DEF References, Usable
  <2>2. life'[n] \in {"live", "destructed"}
    BY <2>1, OuterLife DEF Usable
  <2>3. QED
    BY <2>1, <2>2 DEF Usable
<1>3. ASSUME NEW e \in edge, e \in edge' PROVE life'[e[1]] # "none" /\ life'[e[2]] \in {"live", "destructed", "null"}
  <2>1. e[1] \in Nodes /\ e[2] \in Nodes /\ e = <<e[1], e[2]>>
    BY <1>1 DEF HeapTypes
  <2>2. life[e[1]] # "none" /\ life[e[2]] \in {"live", "destructed", "null"}
    BY <1>1 DEF References
  <2>3. life'[e[1]] # "none"
    <3> SUFFICES ASSUME life'[e[1]] = "none" PROVE FALSE
      OBVIOUS
    <3>1. DelFree /\ e[1] = Top.node
      BY <2>1, <2>2, OuterLife
    <3>2. QED
      BY <2>1, <3>1 DEF DelFree, NoProperties
  <2>4. life'[e[2]] \in {"live", "destructed", "null"}
    BY <2>1, <2>2, OuterLife
  <2>5. QED
    BY <2>3, <2>4
<1>4. ASSUME NEW n \in Nodes, Taking(n)
      PROVE  /\ held' \subseteq held \cup {n}
             /\ n \in held' => n \in Usable'
             /\ \A e \in edge' : \/ e \in edge
                                 \/ life'[e[1]] # "none" /\ life'[e[2]] \in {"live", "destructed", "null"}
  <2>1. CASE held' = held \cup {n} /\ edge' = edge /\ life[n] = "none" /\ life' = [life EXCEPT ![n] = "live"]
    BY <1>1, <2>1 DEF Usable
  <2>2. CASE held' = held \cup {n} /\ edge' = edge /\ n \in Usable /\ life' = life
    BY <2>2 DEF Usable
  <2>3. ASSUME NEW a \in Usable, n \in Usable, held' = held, life' = life, edge' = edge \cup {<<a, n>>}
        PROVE  /\ n \in held' => n \in Usable'
               /\ \A e \in edge' : \/ e \in edge
                                   \/ life'[e[1]] # "none" /\ life'[e[2]] \in {"live", "destructed", "null"}
    BY <2>3 DEF Usable
  <2>4. QED
    BY <1>4, <2>1, <2>2, <2>3 DEF Taking
<1>5. held' \subseteq Usable'
  BY <1>2, <1>4, OuterGrowth
<1>6. \A e \in edge' : life'[e[1]] # "none" /\ life'[e[2]] \in {"live", "destructed", "null"}
  BY <1>3, <1>4, OuterGrowth
<1>7. QED
  BY <1>5, <1>6 DEF References

\* Outside the collector: what is being freed.
LEMMA OuterDying ==
  ASSUME CollectorInvariant, Outer
  PROVE  Dying'
<1>1. /\ Dying /\ life \in [Nodes -> Lives] /\ StackTypes /\ FrameLife /\ StackShape
      /\ stack \in Seq(Frame) /\ stack # <<>> /\ Top = stack[Len(stack)] /\ Len(stack) \in DOMAIN stack
      /\ Below \in Seq(Frame)
  BY InvariantParts, StackFacts DEF HeapTypes, StackTypes
<1> SUFFICES ASSUME NEW n \in Nodes
             PROVE  /\ life'[n] = "none" => addr'[n] = 0 /\ color'[n] = "black" /\ rc'[n] = 0
                    /\ life'[n] = "freeing" => \E i \in DOMAIN stack' : stack'[i].at = "del_free" /\ stack'[i].node = n
                    /\ life'[n] = "null" =>
                         /\ gc'.phase = "destroy" /\ n \in Condemned' /\ addr'[n] < gc'.idx
                         /\ \/ \A m \in Nodes : <<n, m>> \notin edge'
                            \/ \E i \in DOMAIN stack' : stack'[i].at = "gc_free" /\ stack'[i].node = n
  BY DEF Dying
<1>2. ASSUME life'[n] = "none" PROVE addr'[n] = 0 /\ color'[n] = "black" /\ rc'[n] = 0
  <2>1. rc'[n] = 0
    BY <1>2, OuterFreeCount
  <2>2. CASE life[n] = "none"
    BY <1>1, <2>1, <2>2, OuterBuffer DEF Dying
  <2>3. CASE life[n] # "none"
    <3>1. DelFree /\ n = Top.node
      BY <1>2, <2>3, OuterLife
    <3>2. QED
      BY <2>1, <3>1, OuterBuffer
  <2>4. QED
    BY <2>2, <2>3
<1>3. ASSUME life'[n] = "freeing" PROVE \E i \in DOMAIN stack' : stack'[i].at = "del_free" /\ stack'[i].node = n
  <2>1. CASE life[n] = "freeing"
    <3>1. PICK i \in DOMAIN stack : stack[i].at = "del_free" /\ stack[i].node = n
      BY <1>1, <2>1 DEF Dying
    <3>2. CASE i # Len(stack)
      BY <3>1, <3>2, OuterOld
    <3>3. CASE i = Len(stack)
      <4>1. Top.at = "del_free" /\ Top.node = n
        BY <1>1, <3>1, <3>3
      <4>2. ~Destroyed
        BY <4>1 DEF Destroyed
      <4>3. ~DelFree
        BY <1>1, <1>3, <4>1 DEF DelFree
      <4>4. QED
        BY <3>1, <4>1, <4>2, <4>3, OuterOld
    <3>4. QED
      BY <3>2, <3>3
  <2>2. CASE life[n] # "freeing"
    <3> DEFINE f == Call("del_free", n)
    <3>1. stack' = Append(Below, f)
      BY <1>3, <2>2, OuterLife
    <3>2. f \in Frame /\ f.at = "del_free" /\ f.node = n
      BY CallFacts DEF Calls
    <3> HIDE DEF f
    <3>3. Len(Below) + 1 \in DOMAIN stack' /\ stack'[Len(Below) + 1] = f
      BY <1>1, <3>1, <3>2, Pushed
    <3>4. QED
      BY <3>2, <3>3
  <2>3. QED
    BY <2>1, <2>2
<1>4. ASSUME life'[n] = "null"
      PROVE  /\ gc'.phase = "destroy" /\ n \in Condemned' /\ addr'[n] < gc'.idx
             /\ \/ \A m \in Nodes : <<n, m>> \notin edge'
                \/ \E i \in DOMAIN stack' : stack'[i].at = "gc_free" /\ stack'[i].node = n
  <2>1. life[n] = "null"
    BY <1>4, OuterLife
  <2>2. /\ gc.phase = "destroy" /\ n \in Condemned /\ addr[n] < gc.idx
        /\ \/ \A m \in Nodes : <<n, m>> \notin edge
           \/ \E i \in DOMAIN stack : stack[i].at = "gc_free" /\ stack[i].node = n
    BY <1>1, <2>1 DEF Dying
  <2>3. gc' = gc
    BY <2>2, InvariantParts, OuterPhase
  <2>4. DelFree => n # Top.node
    BY <1>1, <2>1 DEF DelFree, FrameLife
  <2>5. n \in Condemned' /\ addr'[n] = addr[n]
    BY <2>2, <2>4, OuterBuffer
  <2>6. ASSUME NEW m \in Nodes, <<n, m>> \in edge' PROVE <<n, m>> \in edge
    <3>1. ASSUME NEW k \in Nodes, Taking(k) PROVE <<n, m>> \in edge
      <4>1. edge' = edge \/ \E a \in Usable : edge' = edge \cup {<<a, k>>}
        BY <3>1 DEF Taking
      <4>2. n \notin Usable
        BY <2>1 DEF Usable
      <4>3. QED
        BY <2>6, <4>1, <4>2
    <3>2. QED
      BY <2>6, <3>1, OuterGrowth
  <2>7. CASE \A m \in Nodes : <<n, m>> \notin edge
    BY <2>2, <2>3, <2>5, <2>6, <2>7
  <2>8. ASSUME NEW i \in DOMAIN stack, stack[i].at = "gc_free", stack[i].node = n
        PROVE  \/ \A m \in Nodes : <<n, m>> \notin edge'
               \/ \E j \in DOMAIN stack' : stack'[j].at = "gc_free" /\ stack'[j].node = n
    <3>1. CASE i # Len(stack)
      BY <2>8, <3>1, OuterOld
    <3>2. CASE i = Len(stack)
      <4>1. Top.at = "gc_free" /\ Top.node = n /\ ~DelFree
        BY <1>1, <2>8, <3>2 DEF DelFree
      <4>2. CASE Destroyed
        BY <4>1, <4>2 DEF Destroyed, NoProperties, heap
      <4>3. CASE ~Destroyed
        BY <2>8, <4>1, <4>3, OuterOld
      <4>4. QED
        BY <4>2, <4>3
    <3>3. QED
      BY <3>1, <3>2
  <2>9. QED
    BY <2>2, <2>3, <2>5, <2>7, <2>8
<1>5. QED
  BY <1>2, <1>3, <1>4

\* An index below another one.
LEMMA LowerIndex ==
  ASSUME NEW L \in Nat, NEW i \in 1 .. L, NEW j \in 1 .. i - 1
  PROVE  j \in 1 .. L /\ j < i /\ j # L
OBVIOUS

\* Outside the collector: nobody comes at what is condemned.
LEMMA OuterLost ==
  ASSUME CollectorInvariant, Outer
  PROVE  CondemnedIsLost'
<1>1. /\ CondemnedIsLost /\ life \in [Nodes -> Lives] /\ StackTypes /\ FrameLife /\ StackShape /\ Dying
      /\ stack \in Seq(Frame) /\ stack # <<>> /\ Top = stack[Len(stack)] /\ Len(stack) \in DOMAIN stack
      /\ DOMAIN stack = 1 .. Len(stack) /\ Len(stack) \in Nat
      /\ gc.phase \in {"idle", "delref", "destroy"} /\ Top.at # "run"
      /\ gc' = gc \/ (gc.phase = "idle" /\ gc' = Begun)
  BY InvariantParts, StackFacts, OuterPhase DEF HeapTypes, StackTypes
<1>2. /\ Condemned' \subseteq Condemned /\ Condemned \subseteq Nodes
      /\ ~DelFree => Condemned' = Condemned
      /\ DelFree => Condemned' = Condemned \ {Top.node}
      /\ \A n \in Condemned' : addr'[n] = addr[n]
  <2>1. /\ ~DelFree => Condemned' = Condemned
        /\ DelFree => Condemned' = Condemned \ {Top.node}
        /\ \A n \in Condemned' : addr'[n] = addr[n]
    BY OuterBuffer
  <2>2. Condemned \subseteq Nodes
    BY DEF Condemned, Tagged
  <2>3. QED
    BY <2>1, <2>2
<1>3. ASSUME gc.phase = "idle" PROVE Condemned = {}
  <2> SUFFICES ASSUME NEW n \in Condemned PROVE FALSE
    OBVIOUS
  <2>1. n \in Nodes /\ addr[n] # 0 /\ buf[addr[n]].tag = "GARBAGE"
    BY DEF Condemned, Tagged, TagOf
  <2>2. addr[n] \in DOMAIN buf
    BY <2>1, InvariantParts, BufferFacts DEF Used
  <2>3. QED
    BY <1>3, <2>1, <2>2, InvariantParts DEF TagsOfPhase
<1>4. Condemned # {} => gc' = gc
  BY <1>1, <1>3
<1>5. gc'.phase \notin {"collect", "nested"}
  BY <1>1, BegunFacts
<1>6. /\ \A n \in Condemned : /\ n \notin held /\ ~HasDestructor(n)
                              /\ gc.phase # "destroy" => n \in Usable
                              /\ addr[n] < gc.idx /\ gc.phase = "destroy" => life[n] = "null"
      /\ \A i \in DOMAIN stack : stack[i].node \in Condemned =>
           /\ gc.phase = "destroy" /\ stack[i].at \in {"gc_free", "del", "del_free"}
           /\ \E j \in 1 .. i - 1 : stack[j].at = "run"
      /\ \A e \in edge : e[2] \in Condemned => e[1] \in Condemned
  BY <1>1, Quiet DEF CondemnedIsLost
<1>7. ASSUME NEW n \in Condemned PROVE life[n] # "none"
  BY <1>1, <1>7 DEF Dying, Condemned, Tagged
<1>8. ASSUME NEW n \in Condemned'
      PROVE  /\ n \notin held' /\ ~HasDestructor(n)'
             /\ gc'.phase # "destroy" => n \in Usable'
             /\ addr'[n] < gc'.idx /\ gc'.phase = "destroy" => life'[n] = "null"
  <2>1. n \in Condemned /\ n \in Nodes /\ gc' = gc /\ addr'[n] = addr[n] /\ life[n] # "none"
    BY <1>2, <1>4, <1>7, <1>8
  <2>2. n \notin held'
    <3>1. ASSUME NEW m \in Nodes, Taking(m) PROVE n \notin held'
      BY <1>6, <2>1, <3>1 DEF Taking
    <3>2. QED
      BY <1>6, <2>1, <3>1, OuterGrowth
  <2>3. ~HasDestructor(n)'
    <3>1. life'[n] = "live" => life[n] = "live"
      BY <2>1, OuterLife
    <3>2. QED
      BY <1>6, <2>1, <3>1 DEF HasDestructor
  <2>4. gc.phase # "destroy" => n \in Usable'
    <3> SUFFICES ASSUME gc.phase # "destroy" PROVE n \in Usable'
      OBVIOUS
    <3>1. n \in Usable /\ n # Top.node
      BY <1>1, <1>6, <2>1
    <3>2. life'[n] = life[n]
      BY <2>1, <3>1, OuterLife
    <3>3. QED
      BY <3>1, <3>2 DEF Usable
  <2>5. life[n] = "null" => life'[n] = "null"
    BY <2>1, OuterLife DEF Usable
  <2>6. QED
    BY <1>6, <2>1, <2>2, <2>3, <2>4, <2>5
<1>9. ASSUME NEW i \in DOMAIN stack', stack'[i].node \in Condemned'
      PROVE  /\ gc'.phase = "destroy" /\ stack'[i].at \in {"gc_free", "del", "del_free"}
             /\ \E j \in 1 .. i - 1 : stack'[j].at = "run"
  <2> DEFINE n == stack'[i].node
  <2>1. n \in Condemned /\ n \in Nodes /\ gc' = gc /\ life[n] # "none"
    BY <1>2, <1>4, <1>7, <1>9
  <2>2. stack' \in Seq(Frame) /\ Len(stack') \in Nat /\ DOMAIN stack' = 1 .. Len(stack') /\ i \in Nat
    <3>1. StackTypes'
      BY InvariantParts, StackTypesStep DEF Outer, Next, Engine, Deletion
    <3>2. QED
      BY <1>9, <3>1 DEF StackTypes
  <2>3. ASSUME NEW j \in DOMAIN stack, j < i, j # Len(stack), stack[j].at = "run"
        PROVE  \E k \in 1 .. i - 1 : stack'[k].at = "run"
    <3>1. j \in DOMAIN stack' /\ stack'[j] = stack[j]
      BY <2>3, OuterOld
    <3>2. j \in 1 .. i - 1
      BY <1>1, <2>2, <2>3
    <3>3. QED
      BY <2>3, <3>1, <3>2
  <2>4. CASE i \in DOMAIN stack /\ stack'[i] = stack[i]
    <3>1. gc.phase = "destroy" /\ stack[i].at \in {"gc_free", "del", "del_free"}
      BY <1>6, <2>1, <2>4
    <3>2. PICK j \in 1 .. i - 1 : stack[j].at = "run"
      BY <1>6, <2>1, <2>4, SMTT(30)
    <3>3. j \in DOMAIN stack /\ j < i /\ j # Len(stack)
      <4>1. i \in 1 .. Len(stack) /\ Len(stack) \in Nat /\ j \in 1 .. i - 1 /\ DOMAIN stack = 1 .. Len(stack)
        BY <1>1, <2>4, SMTT(30)
      <4>2. j \in 1 .. Len(stack) /\ j < i /\ j # Len(stack)
        BY <4>1, LowerIndex
      <4>3. QED
        BY <4>1, <4>2, ZenonT(40)
    <3>4. QED
      BY <2>1, <2>3, <2>4, <3>1, <3>2, <3>3
  <2>5. CASE i \notin DOMAIN stack \/ stack'[i] # stack[i]
    <3>1. i >= Len(stack)
      <4> SUFFICES ASSUME ~(i >= Len(stack)) PROVE FALSE
        OBVIOUS
      <4>1. i \in DOMAIN stack /\ i # Len(stack)
        BY <1>1, <1>9, <2>2
      <4>2. QED
        BY <2>5, <4>1, OuterOld
    <3>2. ASSUME Top.node \in Condemned
          PROVE  gc.phase = "destroy" /\ \E k \in 1 .. i - 1 : stack'[k].at = "run"
      <4>1. gc.phase = "destroy"
        BY <1>1, <1>6, <3>2
      <4>2. PICK j \in 1 .. Len(stack) - 1 : stack[j].at = "run"
        BY <1>1, <1>6, <3>2
      <4>3. j \in DOMAIN stack /\ j < i /\ j # Len(stack)
        BY <1>1, <2>2, <3>1, <4>2
      <4>4. QED
        BY <2>3, <4>1, <4>2, <4>3
    <3>3. stack'[i] # Call("run", NULL)
      <4>1. NULL \notin Nodes /\ Call("run", NULL).node = NULL
        BY ConstantsAssumption, CallFacts DEF Calls
      <4>2. QED
        BY <2>1, <4>1
    <3>4. gc.phase # "idle"
      BY <1>3, <2>1
    <3>5. ASSUME NEW m \in Nodes, NEW a \in Calls, stack'[i] = Call(a, m) PROVE m = n /\ stack'[i].at = a
      BY <3>5, CallFacts
    <3>6. ~HasDestructor(n)
      BY <1>6, <2>1
    <3>7. stack'[i].at \in {"del", "del_free"} /\ Top.node \in Condemned
      <4> HIDE DEF n
      <4>1. PICK m \in Nodes, a \in Calls :
              /\ stack'[i] = Call(a, m)
              /\ \/ a = "del" /\ (m \in Condemned => Top.node \in Condemned)
                 \/ HasDestructor(m)
                 \/ a = "del_free" /\ m = Top.node
        BY <2>5, <3>3, <3>4, OuterFrames
      <4>2. m = n /\ stack'[i].at = a
        BY <3>5, <4>1
      <4>3. QED
        BY <2>1, <3>6, <4>1, <4>2
    <3>8. QED
      BY <2>1, <3>2, <3>7
  <2>6. QED
    BY <2>4, <2>5
<1>10. ASSUME NEW e \in edge', e[2] \in Condemned' PROVE e[1] \in Condemned'
  <2>1. e[2] \in Condemned
    BY <1>2, <1>10
  <2>2. e \in edge
    <3>1. ASSUME NEW m \in Nodes, Taking(m), e \notin edge PROVE FALSE
      <4>1. \E a : e = <<a, m>>
        BY <1>10, <3>1 DEF Taking
      <4>2. e[2] = m
        BY <4>1
      <4>3. m \notin Condemned
        BY <1>10, <3>1 DEF Taking
      <4>4. QED
        BY <2>1, <4>2, <4>3
    <3>2. QED
      BY <1>10, <3>1, OuterGrowth
  <2>3. e[1] \in Condemned
    BY <1>6, <2>1, <2>2
  <2>4. DelFree => e[1] # Top.node
    <3>1. e[1] \in Nodes /\ e[2] \in Nodes /\ e = <<e[1], e[2]>>
      BY <2>2, InvariantParts DEF HeapTypes
    <3>2. QED
      BY <2>2, <3>1 DEF DelFree, NoProperties
  <2>5. QED
    BY <1>2, <2>3, <2>4
<1>11. QED
  BY <1>5, <1>8, <1>9, <1>10 DEF CondemnedIsLost

----------------------------------------------------------------------------
(* Counts outside the collector.                                           *)

\* Outside the passes every count is exact, that of free memory included.
LEMMA AllCounts ==
  ASSUME CollectorInvariant, Counted = edge, NEW n \in Nodes
  PROVE  /\ rc[n] = InCount(edge, n) + HeldCount(held, n) + Frames(stack, n) + Delayed(n)
         /\ InCount(edge, n) \in Nat /\ HeldCount(held, n) \in Nat /\ Frames(stack, n) \in Nat
         /\ Delayed(n) \in Nat /\ rc[n] \in Nat
<1>1. /\ InCount(edge, n) \in Nat /\ HeldCount(held, n) \in Nat /\ Frames(stack, n) \in Nat
      /\ Delayed(n) \in Nat /\ rc[n] \in Nat /\ stack \in Seq(Frame) /\ edge \in SUBSET (Nodes \X Nodes)
  BY InvariantParts, BalanceParts DEF CountTypes, StackTypes
<1>2. CASE life[n] # "none"
  BY <1>1, <1>2, InvariantParts DEF Balance
<1>3. CASE life[n] = "none"
  <2>1. rc[n] = 0
    BY <1>3, InvariantParts DEF Dying
  <2>2. \A e \in edge : e[2] # n
    BY <1>3, InvariantParts DEF References
  <2>3. InCount(edge, n) = 0
    BY <1>1, <2>2, InCountFacts
  <2>4. HeldCount(held, n) = 0
    BY <1>3, InvariantParts DEF HeldCount, References, Usable
  <2>5. \A i \in DOMAIN stack : stack[i].node = n => stack[i].at = "del"
    <3> SUFFICES ASSUME NEW i \in DOMAIN stack, stack[i].node = n PROVE stack[i].at = "del"
      OBVIOUS
    <3>1. stack[i].at \notin {"main", "run"}
      BY ConstantsAssumption, InvariantParts DEF StackShape, Shape
    <3>2. stack[i].at \in Calls
      <4>1. stack[i] \in Frame
        BY <1>1
      <4>2. QED
        BY <4>1 DEF Frame
    <3>3. stack[i].at \notin {"dtor", "del_free", "del_dtor", "gc_free", "full"}
      BY <1>3, InvariantParts DEF FrameLife
    <3>4. QED
      BY <3>1, <3>2, <3>3 DEF Calls
  <2>6. Frames(stack, n) = 0
    <3>1. {i \in DOMAIN stack : stack[i].node = n /\ stack[i].at # "del"} = {}
      BY <2>5
    <3>2. QED
      BY <3>1, FS_EmptySet DEF Frames
  <2>7. Delayed(n) = 0
    BY <1>3, InvariantParts DEF Delayed, RunShape, Usable
  <2>8. QED
    BY <1>1, <2>1, <2>3, <2>4, <2>6, <2>7
<1>4. QED
  BY <1>1, <1>2, <1>3

\* The references without the one that is let go.
LEMMA LettingCount ==
  ASSUME CollectorInvariant, NEW n \in Nodes, NEW s \in {stack, Below}, Letting(n, s), NEW x \in Nodes
  PROVE  /\ s \in Seq(Frame)
         /\ InCount(edge', x) \in Nat /\ HeldCount(held', x) \in Nat /\ Frames(s, x) \in Nat
         /\ InCount(edge', x) + HeldCount(held', x) + Frames(s, x) + (IF x = n THEN 1 ELSE 0)
              = InCount(edge, x) + HeldCount(held, x) + Frames(stack, x)
<1>1. /\ stack \in Seq(Frame) /\ stack # <<>> /\ Below \in Seq(Frame) /\ edge \in SUBSET (Nodes \X Nodes)
      /\ InCount(edge, x) \in Nat /\ HeldCount(held, x) \in Nat /\ Frames(stack, x) \in Nat
      /\ Frames(Below, x) \in Nat
  <2>1. stack \in Seq(Frame) /\ stack # <<>> /\ Below \in Seq(Frame) /\ edge \in SUBSET (Nodes \X Nodes)
    BY InvariantParts, StackFacts DEF StackTypes, HeapTypes
  <2>2. QED
    BY <2>1, InCountFacts, FramesFacts DEF HeldCount
<1>2. CASE s = stack /\ n \in held /\ held' = held \ {n} /\ edge' = edge
  <2>1. HeldCount(held', x) + (IF x = n THEN 1 ELSE 0) = HeldCount(held, x) /\ HeldCount(held', x) \in Nat
    BY <1>2 DEF HeldCount
  <2>2. QED
    BY <1>1, <1>2, <2>1
<1>3. ASSUME s = stack, held' = held, NEW a \in Nodes, <<a, n>> \in edge, edge' = edge \ {<<a, n>>}
      PROVE  /\ InCount(edge', x) \in Nat
             /\ InCount(edge', x) + (IF x = n THEN 1 ELSE 0) = InCount(edge, x)
  <2>1. <<a, n>>[2] = n /\ edge' \in SUBSET (Nodes \X Nodes)
    BY <1>1, <1>3
  <2>2. InCount(edge', x) = InCount(edge, x) - (IF n = x THEN 1 ELSE 0)
    BY <1>1, <1>3, <2>1, InRemove
  <2>3. InCount(edge', x) \in Nat
    BY <2>1, InCountFacts
  <2>4. QED
    BY <1>1, <2>2, <2>3
<1>4. CASE s = Below /\ Top.at = "dtor" /\ n = Top.node /\ held' = held /\ edge' = edge
  <2>1. Frames(stack, x) = Frames(Below, x) + (IF n = x THEN 1 ELSE 0)
    BY <1>1, <1>4, BelowFacts
  <2>2. QED
    BY <1>1, <1>4, <2>1
<1>5. CASE s = stack /\ held' = held /\ \E a \in Nodes : <<a, n>> \in edge /\ edge' = edge \ {<<a, n>>}
  <2>1. PICK a \in Nodes : <<a, n>> \in edge /\ edge' = edge \ {<<a, n>>}
    BY <1>5
  <2>2. /\ InCount(edge', x) \in Nat
        /\ InCount(edge', x) + (IF x = n THEN 1 ELSE 0) = InCount(edge, x)
    BY <1>3, <1>5, <2>1
  <2>3. HeldCount(held', x) = HeldCount(held, x) /\ Frames(s, x) = Frames(stack, x)
    BY <1>5
  <2>4. QED
    BY <1>1, <1>5, <2>2, <2>3
<1>6. QED
  BY <1>2, <1>4, <1>5 DEF Letting

\* The calls that hold an object, when one is pushed or replaced.
LEMMA PushedCount ==
  ASSUME NEW s \in Seq(Frame), NEW a \in Calls, NEW n \in Nodes \cup {NULL}, NEW x \in Nodes
  PROVE  /\ Append(s, Call(a, n)) \in Seq(Frame) /\ Frames(s, x) \in Nat
         /\ Frames(Append(s, Call(a, n)), x) = Frames(s, x) + (IF n = x /\ a # "del" THEN 1 ELSE 0)
<1> DEFINE f == Call(a, n)
<1>1. f \in Frame /\ f.at = a /\ f.node = n
  BY CallFacts
<1> HIDE DEF f
<1>2. /\ Append(s, f) \in Seq(Frame) /\ Frames(s, x) \in Nat
      /\ Frames(Append(s, f), x) = Frames(s, x) + (IF f.node = x /\ f.at # "del" THEN 1 ELSE 0)
  BY <1>1, Pushed, FramesFacts, ZenonT(40)
<1>3. QED
  BY <1>1, <1>2 DEF f

\* A count after such a step.
LEMMA OuterCount ==
  ASSUME CollectorInvariant, Outer, NEW x \in Nodes, life'[x] # "none"
  PROVE  rc'[x] = InCount(edge', x) + HeldCount(held', x) + Frames(stack', x) + Delayed(x)
<1> DEFINE I == InCount(edge, x)
           H == HeldCount(held, x)
           F == Frames(stack, x)
           D == Delayed(x)
           L == Frames(Below, x)
<1>1. /\ Top.at # "run" /\ Counted = edge /\ StackTypes /\ HeapTypes /\ StackShape /\ FrameLife
      /\ rc \in [Nodes -> Nat] /\ edge \in SUBSET (Nodes \X Nodes)
  BY InvariantParts, OuterPhase, Quiet DEF CountTypes, HeapTypes
<1>2. rc[x] = I + H + F + D /\ I \in Nat /\ H \in Nat /\ F \in Nat /\ D \in Nat /\ rc[x] \in Nat
  BY <1>1, AllCounts
<1>3. /\ Below \in Seq(Frame) /\ stack \in Seq(Frame) /\ Frames(Below, x) \in Nat
      /\ F = Frames(Below, x) + (IF Top.node = x /\ Top.at # "del" THEN 1 ELSE 0)
      /\ Len(stack) \in DOMAIN stack /\ Top = stack[Len(stack)]
  <2>1. Below \in Seq(Frame) /\ stack \in Seq(Frame) /\ Len(stack) \in DOMAIN stack /\ Top = stack[Len(stack)]
    BY <1>1, StackFacts DEF StackTypes
  <2>2. F = Frames(Below, x) + (IF Top.node = x /\ Top.at # "del" THEN 1 ELSE 0)
    BY <1>1, BelowFacts DEF StackTypes
  <2>3. QED
    BY <2>1, <2>2, FramesFacts
<1>15. L \in Nat /\ (Top.at = "del" \/ Top.node # x => F = L) /\ (Top.at # "del" /\ Top.node = x => F = L + 1)
  BY <1>3
<1> SUFFICES rc'[x] = InCount(edge', x) + HeldCount(held', x) + Frames(stack', x) + D
  OBVIOUS
<1> HIDE DEF I, H, F, D, L
<1>4. ASSUME NEW n \in Nodes, Taking(n)
      PROVE  rc'[x] = InCount(edge', x) + HeldCount(held', x) + Frames(stack', x) + D
  <2>1. stack' = stack /\ rc'[x] = rc[x] + (IF x = n THEN 1 ELSE 0)
    BY <1>1, <1>2, <1>4 DEF Taking
  <2>2. CASE n \notin held /\ held' = held \cup {n} /\ edge' = edge
    <3>1. HeldCount(held', x) = H + (IF x = n THEN 1 ELSE 0) /\ InCount(edge', x) = I
      BY <2>2 DEF HeldCount, H, I
    <3>2. QED
      BY <1>2, <2>1, <3>1 DEF F
  <2>3. CASE held' = held /\ \E a \in Nodes : <<a, n>> \notin edge /\ edge' = edge \cup {<<a, n>>}
    <3>1. PICK a \in Nodes : <<a, n>> \notin edge /\ edge' = edge \cup {<<a, n>>}
      BY <2>3
    <3>2. <<a, n>> \in Nodes \X Nodes /\ <<a, n>>[2] = n
      OBVIOUS
    <3>3. InCount(edge', x) = I + (IF x = n THEN 1 ELSE 0)
      BY <1>1, <3>1, <3>2, InAdd DEF I
    <3>4. HeldCount(held', x) = H
      BY <2>3 DEF H
    <3>5. QED
      BY <1>2, <2>1, <3>3, <3>4 DEF F
  <2>4. QED
    BY <1>4, <2>2, <2>3 DEF Taking, Usable
<1>5. ASSUME NEW n \in Nodes, NEW s \in {stack, Below}, Letting(n, s)
      PROVE  rc'[x] = InCount(edge', x) + HeldCount(held', x) + Frames(stack', x) + D
  <2> DEFINE A == InCount(edge', x)
             B == HeldCount(held', x)
             C == Frames(s, x)
  <2>1. /\ s \in Seq(Frame) /\ A \in Nat /\ B \in Nat /\ C \in Nat
        /\ A + B + C + (IF x = n THEN 1 ELSE 0) = I + H + F
    BY <1>5, LettingCount DEF I, H, F
  <2>2. CASE ReleaseLast(n, s)
    <3>1. rc[n] = 1 /\ rc' = [rc EXCEPT ![n] = 0] /\ stack' = Append(s, Call("del", n))
      BY <2>2 DEF ReleaseLast
    <3>2. Frames(stack', x) = C
      BY <2>1, <3>1, PushedCount DEF Calls
    <3>3. rc'[x] = rc[x] - (IF x = n THEN 1 ELSE 0)
      BY <1>1, <1>2, <3>1
    <3> HIDE DEF A, B, C
    <3>4. QED
      BY <1>2, <2>1, <3>2, <3>3 DEF A, B
  <2>3. CASE ReleaseBuffered(n, s)
    <3>1. stack' = s /\ rc'[x] = rc[x] - (IF x = n THEN 1 ELSE 0)
      BY <1>1, <1>2, <2>3 DEF ReleaseBuffered
    <3> HIDE DEF A, B
    <3>2. QED
      BY <1>2, <2>1, <3>1 DEF A, B
  <2>4. CASE ReleaseFull(n, s)
    <3>1. rc' = rc /\ stack' = s \o <<Call("full", n), Call("run", NULL)>>
      BY <2>4 DEF ReleaseFull
    <3>2. stack' = Append(Append(s, Call("full", n)), Call("run", NULL))
      BY <2>1, <3>1, CallFacts
    <3>3. /\ Append(s, Call("full", n)) \in Seq(Frame)
          /\ Frames(Append(s, Call("full", n)), x) = C + (IF n = x THEN 1 ELSE 0)
      BY <2>1, PushedCount DEF Calls
    <3> DEFINE t == Append(s, Call("full", n))
    <3>4. t \in Seq(Frame) /\ stack' = Append(t, Call("run", NULL))
      BY <3>2, <3>3
    <3> HIDE DEF t
    <3>5. Frames(stack', x) = Frames(t, x) + (IF NULL = x THEN 1 ELSE 0) /\ Frames(t, x) \in Nat
      BY <3>4, PushedCount DEF Calls
    <3>6. NULL # x
      BY ConstantsAssumption
    <3>7. Frames(stack', x) = C + (IF n = x THEN 1 ELSE 0)
      BY <3>3, <3>5, <3>6 DEF t
    <3> HIDE DEF A, B, C
    <3>8. QED
      BY <1>2, <2>1, <3>1, <3>7 DEF A, B
  <2>5. QED
    BY <1>5, <2>2, <2>3, <2>4 DEF Letting, Release
<1>6. CASE CollectCycles
  <2>1. edge' = edge /\ held' = held /\ rc' = rc /\ stack' = Append(stack, Call("run", NULL))
    BY <1>6 DEF CollectCycles, heap, counts
  <2>2. Frames(stack', x) = F + (IF NULL = x THEN 1 ELSE 0) /\ NULL # x
    BY <1>3, <2>1, PushedCount, ConstantsAssumption DEF Calls, F
  <2>3. QED
    BY <1>2, <2>1, <2>2 DEF I, H, D
<1>7. ASSUME edge' = edge, held' = held, rc'[x] = rc[x] + Frames(stack', x) - F, Frames(stack', x) \in Nat
      PROVE  rc'[x] = InCount(edge', x) + HeldCount(held', x) + Frames(stack', x) + D
  <2>1. InCount(edge', x) = I /\ HeldCount(held', x) = H
    BY <1>7 DEF I, H
  <2>2. QED
    BY <1>2, <1>7, <2>1
<1>8. ASSUME NEW a \in Calls, StackTypes
      PROVE  /\ Goto(a) \in Seq(Frame) /\ Frames(Goto(a), x) \in Nat
             /\ Frames(Goto(a), x) = L + (IF Top.node = x /\ a # "del" THEN 1 ELSE 0)
  <2>1. Goto(a) = Append(Below, Call(a, Top.node)) /\ Top.node \in Nodes \cup {NULL}
    BY <1>1, <1>3, GotoFacts, StackFacts DEF StackTypes
  <2>2. /\ Goto(a) \in Seq(Frame)
        /\ Frames(Goto(a), x) = L + (IF Top.node = x /\ a # "del" THEN 1 ELSE 0)
    BY <1>3, <2>1, PushedCount DEF L
  <2>3. QED
    BY <1>15, <2>2
<1>9. CASE Del
  <2>1. Top.at = "del" /\ edge' = edge /\ held' = held /\ rc[Top.node] = 0 /\ Top.node \in Nodes
    BY <1>1, <1>3, <1>9, TopNode DEF Del, FrameLife
  <2>2. F = L
    BY <1>15, <2>1
  <2>3. CASE stack' = Below /\ rc' = rc
    <3>1. Frames(stack', x) = F /\ rc'[x] = rc[x]
      BY <2>2, <2>3 DEF L
    <3>2. QED
      BY <1>2, <1>7, <2>1, <3>1
  <2>4. CASE /\ rc' = [rc EXCEPT ![Top.node] = 2]
             /\ stack' = Append(Goto("del_dtor"), Call("dtor", Top.node))
    <3>1. /\ Goto("del_dtor") \in Seq(Frame) /\ Frames(Goto("del_dtor"), x) \in Nat
          /\ Frames(Goto("del_dtor"), x) = L + (IF Top.node = x THEN 1 ELSE 0)
      BY <1>1, <1>8 DEF Calls
    <3>2. Frames(stack', x) = Frames(Goto("del_dtor"), x) + (IF Top.node = x THEN 1 ELSE 0)
      BY <2>1, <2>4, <3>1, PushedCount DEF Calls
    <3>3. rc'[x] = rc[x] + (IF Top.node = x THEN 2 ELSE 0)
      BY <1>1, <1>2, <2>1, <2>4
    <3>4. Frames(stack', x) \in Nat /\ rc'[x] = rc[x] + Frames(stack', x) - F
      BY <1>2, <1>15, <2>2, <3>1, <3>2, <3>3
    <3>5. QED
      BY <1>7, <2>1, <3>4
  <2>5. CASE rc' = [rc EXCEPT ![Top.node] = 1] /\ stack' = Goto("del_free")
    <3>1. /\ Frames(stack', x) \in Nat
          /\ Frames(stack', x) = L + (IF Top.node = x THEN 1 ELSE 0)
      BY <1>1, <1>8, <2>5 DEF Calls
    <3>2. rc'[x] = rc[x] + (IF Top.node = x THEN 1 ELSE 0)
      BY <1>1, <1>2, <2>1, <2>5
    <3>3. rc'[x] = rc[x] + Frames(stack', x) - F
      BY <1>2, <1>15, <2>2, <3>1, <3>2
    <3>4. QED
      BY <1>7, <2>1, <3>1, <3>3
  <2>6. QED
    BY <1>9, <2>3, <2>4, <2>5 DEF Del
<1>10. CASE DelAfterDestructor
  <2>1. Top.at = "del_dtor" /\ edge' = edge /\ held' = held /\ Top.node \in Nodes
    BY <1>1, <1>10, TopNode DEF DelAfterDestructor
  <2>2. F = L + (IF Top.node = x THEN 1 ELSE 0)
    BY <1>15, <2>1
  <2>3. CASE rc' = [rc EXCEPT ![Top.node] = @ - 1] /\ stack' = Below
    <3>1. rc'[x] = rc[x] - (IF Top.node = x THEN 1 ELSE 0)
      BY <1>1, <1>2, <2>1, <2>3
    <3>4. Frames(stack', x) = L
      BY <2>3 DEF L
    <3>2. rc'[x] = rc[x] + Frames(stack', x) - F
      BY <1>2, <1>15, <2>2, <3>1, <3>4
    <3>3. QED
      BY <1>7, <1>15, <2>1, <3>2, <3>4
  <2>4. CASE rc[Top.node] = 1 /\ rc' = [rc EXCEPT ![Top.node] = 1] /\ stack' = Goto("del_free")
    <3>1. /\ Frames(stack', x) \in Nat
          /\ Frames(stack', x) = L + (IF Top.node = x THEN 1 ELSE 0)
      BY <1>1, <1>8, <2>4 DEF Calls
    <3>2. rc'[x] = rc[x]
      BY <1>1, <1>2, <2>1, <2>4
    <3>3. rc'[x] = rc[x] + Frames(stack', x) - F
      BY <1>2, <1>15, <2>2, <3>1, <3>2
    <3>4. QED
      BY <1>7, <2>1, <3>1, <3>3
  <2>5. QED
    BY <1>10, <2>3, <2>4 DEF DelAfterDestructor
<1>11. CASE DelFree
  <2>1. Top.at = "del_free" /\ edge' = edge /\ held' = held /\ Top.node \in Nodes /\ stack' = Below
    BY <1>1, <1>11, TopNode DEF DelFree
  <2>2. x # Top.node
    BY <1>1, <1>11, <2>1 DEF DelFree, HeapTypes
  <2>3. rc'[x] = rc[x] /\ F = L
    BY <1>1, <1>11, <1>15, <2>1, <2>2 DEF DelFree
  <2>4. Frames(stack', x) = F
    BY <2>1, <2>3 DEF L
  <2>5. QED
    BY <1>2, <1>7, <2>1, <2>3, <2>4
<1>12. CASE Destroyed
  <2>1. /\ Top.at = "gc_free" /\ edge' = edge /\ held' = held /\ Top.node \in Nodes /\ stack' = Below
        /\ rc' = [rc EXCEPT ![Top.node] = @ - 1]
    BY <1>1, <1>12, TopNode DEF Destroyed, heap
  <2>2. rc'[x] = rc[x] - (IF Top.node = x THEN 1 ELSE 0)
    BY <1>1, <1>2, <2>1
  <2>3. F = L + (IF Top.node = x THEN 1 ELSE 0)
    BY <1>15, <2>1
  <2>6. Frames(stack', x) = L
    BY <2>1 DEF L
  <2>4. rc'[x] = rc[x] + Frames(stack', x) - F
    BY <1>2, <1>15, <2>2, <2>3, <2>6
  <2>5. QED
    BY <1>7, <1>15, <2>1, <2>4, <2>6
<1>13. CASE AfterFull
  <2>1. /\ Top.at = "full" /\ edge' = edge /\ held' = held /\ Top.node \in Nodes
        /\ rc' = [rc EXCEPT ![Top.node] = @ - 1] /\ (stack' = Below \/ stack' = Goto("del"))
    BY <1>1, <1>13, TopNode DEF AfterFull, heap
  <2>2. rc'[x] = rc[x] - (IF Top.node = x THEN 1 ELSE 0)
    BY <1>1, <1>2, <2>1
  <2>3. F = L + (IF Top.node = x THEN 1 ELSE 0)
    BY <1>15, <2>1
  <2>4. Frames(Goto("del"), x) = L
    BY <1>1, <1>8, <1>15 DEF Calls
  <2>5. Frames(stack', x) = L
    BY <2>1, <2>4 DEF L
  <2>6. rc'[x] = rc[x] + Frames(stack', x) - F
    BY <1>2, <1>15, <2>2, <2>3, <2>5
  <2>7. QED
    BY <1>7, <1>15, <2>1, <2>5, <2>6
<1>14. QED
  BY <1>4, <1>5, <1>6, <1>9, <1>10, <1>11, <1>12, <1>13, OuterKinds

\* The counts stay exact.
LEMMA OuterBalance ==
  ASSUME CollectorInvariant, Outer
  PROVE  Balance' /\ CountTypes'
<1>1. /\ gc.phase \in {"idle", "delref", "destroy"}
      /\ gc' = gc \/ (gc.phase = "idle" /\ gc' = Begun)
      /\ HeapTypes' /\ StackTypes' /\ rc \in [Nodes -> Nat] /\ color' \in [Nodes -> Colors]
  BY InvariantParts, OuterPhase, OuterBuffer, HeapTypesStep, StackTypesStep
     DEF CountTypes, BufferInvariant, Next, Outer, Deletion, Engine
<1>2. gc'.phase \notin Passes /\ (gc'.phase = "delref" <=> gc.phase = "delref")
  BY <1>1, BegunFacts DEF Passes
<1>3. Counted' = edge'
  BY <1>2 DEF Counted, Taken, Passes
<1>4. ASSUME NEW n \in Nodes PROVE Delayed(n)' = Delayed(n)
  <2>1. CASE gc.phase = "delref"
    BY <1>2, <2>1, OuterBuffer DEF Delayed
  <2>2. CASE gc.phase # "delref"
    BY <1>2, <2>2 DEF Delayed
  <2>3. QED
    BY <2>1, <2>2
<1>5. ASSUME NEW n \in Nodes, life'[n] # "none"
      PROVE  rc'[n] = InCount(edge', n) + HeldCount(held', n) + Frames(stack', n) + Delayed(n)
  BY <1>5, OuterCount
<1>6. Balance'
  <2> SUFFICES ASSUME NEW n \in Nodes, life'[n] # "none"
               PROVE  rc'[n] = InCount(Counted', n) + HeldCount(held', n) + Frames(stack', n) + Delayed(n)'
    BY DEF Balance
  <2>1. rc'[n] = InCount(edge', n) + HeldCount(held', n) + Frames(stack', n) + Delayed(n)
    BY <1>5
  <2>2. QED
    BY <1>3, <1>4, <2>1
<1>7. \A n \in Nodes : rc'[n] \in Nat
  <2> SUFFICES ASSUME NEW n \in Nodes PROVE rc'[n] \in Nat
    OBVIOUS
  <2>1. CASE life'[n] = "none"
    BY <2>1, OuterFreeCount
  <2>2. CASE life'[n] # "none"
    <3>1. InCount(edge', n) \in Nat /\ HeldCount(held', n) \in Nat /\ Frames(stack', n) \in Nat
      BY <1>1, InCountFacts, FramesFacts DEF HeldCount, HeapTypes, StackTypes
    <3>2. Delayed(n) \in Nat
      BY DEF Delayed
    <3>3. rc'[n] = InCount(edge', n) + HeldCount(held', n) + Frames(stack', n) + Delayed(n)
      BY <1>5, <2>2
    <3>4. QED
      BY <3>1, <3>2, <3>3
  <2>3. QED
    BY <2>1, <2>2
<1>8. rc' = [n \in Nodes |-> rc'[n]]
  BY <1>1 DEF Outer, UserCode, Deletion, New, SetVariable, UnsetVariable, SetProperty, UnsetProperty,
     CollectCycles, DestructorReturns, Del, DelAfterDestructor, DelFree, FreeProperty,
     Destroyed, AfterFull, Release, ReleaseLast, ReleaseBuffered, ReleaseFull, counts
<1>9. QED
  BY <1>1, <1>6, <1>7, <1>8 DEF CountTypes

\* A step outside the collector keeps the whole invariant.
LEMMA OuterKeeps ==
  ASSUME CollectorInvariant, Outer
  PROVE  CollectorInvariant'
<1>1. Next
  BY DEF Next, Outer, Deletion, Engine
<1>2. TypeOK'
  BY <1>1, InvariantParts, HeapTypesStep, StackTypesStep, OuterBuffer, OuterBalance, OuterControl, TypePartsNext
     DEF BufferInvariant
<1>3. /\ gc.phase \in {"idle", "delref", "destroy"}
      /\ gc' = gc \/ (gc.phase = "idle" /\ gc' = Begun)
  BY InvariantParts, OuterPhase
<1>4. gc'.phase \notin {"mark", "scan", "collect"}
  BY <1>3, BegunFacts
<1>5. Marking' /\ Scanned' /\ Collecting'
  BY <1>4 DEF Marking, Scanned, Collecting
<1>6. BufferInvariant' /\ TagsOfPhase' /\ RootsArePurple'
  BY OuterBuffer
<1>7. QED
  BY <1>2, <1>5, <1>6, OuterControl, OuterFrameLife, OuterReferences, OuterDying, OuterBalance, OuterLost
     DEF CollectorInvariant, BufferInvariant

----------------------------------------------------------------------------
(* gc_compact.                                                             *)

\* How many used entries are above j, and how many unused ones before i.
UsedAbove(U, L, j) == Cardinality({x \in j + 1 .. L : x \in U})
HolesBefore(U, i)  == Cardinality({x \in 1 .. i - 1 : x \notin U})

\* For every unused slot among the first k there is a used entry above them to fill it.
LEMMA DonorExists ==
  ASSUME NEW L \in Nat, NEW U \in SUBSET (1 .. L), NEW k, k = Cardinality(U), NEW i \in 1 .. k, i \notin U
  PROVE  \E j \in k + 1 .. L : j \in U /\ UsedAbove(U, L, j) = HolesBefore(U, i)
<1> DEFINE G(j) == {x \in j + 1 .. L : x \in U}
           g(j) == Cardinality(G(j))
           H == {x \in 1 .. k : x \notin U}
           h == {x \in 1 .. i - 1 : x \notin U}
<1>1. IsFiniteSet(1 .. L) /\ IsFiniteSet(U) /\ k \in Nat /\ k <= L /\ Cardinality(1 .. L) = L
  <2>1. IsFiniteSet(1 .. L) /\ Cardinality(1 .. L) = L
    BY IntervalSize
  <2>2. IsFiniteSet(U) /\ k \in Nat /\ k <= L
    BY <2>1, FS_Subset, FS_CardinalityType
  <2>3. QED
    BY <2>1, <2>2
<1>2. IsFiniteSet(1 .. k) /\ Cardinality(1 .. k) = k
  BY <1>1, IntervalSize
<1>3. ASSUME NEW j \in k .. L PROVE IsFiniteSet(G(j)) /\ g(j) \in Nat
  <2>1. G(j) \in SUBSET U
    OBVIOUS
  <2>2. QED
    BY <1>1, <2>1, FS_Subset, FS_CardinalityType
<1>4. IsFiniteSet(H) /\ Cardinality(H) = g(k) /\ Cardinality(H) \in Nat
  <2>5. G(k) = U \ (1 .. k)
    <3>1. \A x \in U : x \in 1 .. L
      OBVIOUS
    <3>2. \A x \in 1 .. L : x \in k + 1 .. L <=> x \notin 1 .. k
      BY <1>1
    <3>3. k + 1 .. L \subseteq 1 .. L
      BY <1>1
    <3>4. QED
      BY <3>1, <3>2, <3>3
  <2>1. H = (1 .. k) \ U /\ G(k) = U \ (1 .. k) /\ U \cap (1 .. k) = (1 .. k) \cap U
    BY <2>5
  <2>2. Cardinality((1 .. k) \ U) = k - Cardinality((1 .. k) \cap U) /\ IsFiniteSet((1 .. k) \ U)
    BY <1>2, FS_Difference
  <2>3. Cardinality(U \ (1 .. k)) = k - Cardinality(U \cap (1 .. k))
    BY <1>1, FS_Difference
  <2>4. QED
    BY <2>1, <2>2, <2>3, FS_CardinalityType
<1>5. Cardinality(h) < Cardinality(H) /\ Cardinality(h) \in Nat
  <2>1. h \in SUBSET (H \ {i}) /\ i \in H
    BY <1>1
  <2>2. IsFiniteSet(H \ {i}) /\ Cardinality(H \ {i}) = Cardinality(H) - 1
    BY <1>4, <2>1, FS_RemoveElement
  <2>3. Cardinality(h) \in Nat /\ Cardinality(h) <= Cardinality(H \ {i})
    BY <2>1, <2>2, FS_Subset, FS_CardinalityType
  <2> HIDE DEF h, H
  <2>4. QED
    BY <1>4, <2>2, <2>3
<1>6. ASSUME NEW j \in k + 1 .. L
      PROVE  g(j - 1) = g(j) + (IF j \in U THEN 1 ELSE 0)
  <2>1. G(j - 1) = (IF j \in U THEN G(j) \cup {j} ELSE G(j)) /\ j \notin G(j) /\ j \in k .. L
    BY <1>1
  <2>2. IsFiniteSet(G(j)) /\ g(j) \in Nat
    BY <1>3, <2>1
  <2> HIDE DEF G
  <2>3. Cardinality(G(j) \cup {j}) = g(j) + 1
    BY <2>1, <2>2, FS_AddElement
  <2>4. QED
    BY <2>1, <2>2, <2>3
<1>7. G(L) = {}
  OBVIOUS
<1>8. g(L) = 0
  BY <1>7, FS_EmptySet
<1> HIDE DEF G, h, H
<1> DEFINE S == {j \in k .. L : g(j) <= Cardinality(h)}
<1>9. S \in SUBSET Nat /\ L \in S
  BY <1>1, <1>5, <1>8
<1>10. PICK j \in S : \A m \in S : j <= m
  BY <1>9, LeastNatural
<1>11. j \in k .. L /\ g(j) <= Cardinality(h)
  BY <1>10
<1>12. j # k
  BY <1>4, <1>5, <1>11
<1>13. j \in k + 1 .. L /\ j - 1 \in k .. L
  BY <1>1, <1>11, <1>12
<1>14. g(j - 1) > Cardinality(h)
  <2>1. j - 1 \notin S
    BY <1>10, <1>13
  <2>2. g(j - 1) \in Nat
    BY <1>3, <1>13
  <2>3. QED
    BY <1>5, <1>13, <2>1, <2>2
<1>15. g(j) \in Nat
  BY <1>3, <1>11
<1>16. g(j - 1) = g(j) + (IF j \in U THEN 1 ELSE 0)
  BY <1>6, <1>13
<1>17. j \in U /\ g(j) = Cardinality(h)
  BY <1>5, <1>11, <1>14, <1>15, <1>16
<1>18. QED
  BY <1>13, <1>17 DEF G, h, UsedAbove, HolesBefore

\* Different slots have different numbers of unused ones before them.
LEMMA HolesDiffer ==
  ASSUME NEW U, NEW i \in Nat \ {0}, NEW j \in Nat \ {0}, i < j, i \notin U
  PROVE  HolesBefore(U, i) # HolesBefore(U, j)
<1> DEFINE I == {x \in 1 .. i - 1 : x \notin U}
           J == {x \in 1 .. j - 1 : x \notin U}
<1>1. I \in SUBSET J /\ i \in J /\ i \notin I
  OBVIOUS
<1>2. IsFiniteSet(J)
  <2>1. IsFiniteSet(1 .. j - 1) /\ J \in SUBSET (1 .. j - 1)
    BY FS_Interval
  <2>2. QED
    BY <2>1, FS_Subset
<1> HIDE DEF I, J
<1>3. Cardinality(J) = Cardinality(I) => J = I
  BY <1>1, <1>2, FS_Subset
<1>4. QED
  BY <1>1, <1>3 DEF I, J, HolesBefore

\* The used entries of b, which gc_compact moves to the front.
UsedIn(b) == {i \in DOMAIN b : b[i].tag # "UNUSED"}

\* The first k slots receive the entries of b that p says, each used one once.
Packs(p, b, k) ==
  /\ p \in [1 .. k -> UsedIn(b)]
  /\ Compacted(b, k) = [i \in 1 .. k |-> b[p[i]]]
  /\ \A i, j \in 1 .. k : p[i] = p[j] => i = j
  /\ \A j \in UsedIn(b) : \E i \in 1 .. k : p[i] = j

\* The compacted buffer has each used entry once, and nothing else.
LEMMA CompactedFacts ==
  ASSUME NEW b \in Seq(EntryType), NEW k, k = Cardinality(UsedIn(b))
  PROVE  k \in Nat /\ IsFiniteSet(UsedIn(b)) /\ \E p : Packs(p, b, k)
<1> DEFINE U == UsedIn(b)
           L == Len(b)
           used(j) == b[j].tag # "UNUSED"
           D(i, j) == /\ used(j)
                      /\ Cardinality({x \in j + 1 .. L : used(x)}) = Cardinality({x \in 1 .. i - 1 : ~used(x)})
           donor(i) == CHOOSE j \in k + 1 .. L : D(i, j)
           p == [i \in 1 .. k |-> IF used(i) THEN i ELSE donor(i)]
<1>1. L \in Nat /\ DOMAIN b = 1 .. L
  OBVIOUS
<1>2. U \in SUBSET (1 .. L) /\ \A j \in 1 .. L : j \in U <=> used(j)
  BY <1>1 DEF UsedIn
<1>3. IsFiniteSet(U) /\ k \in Nat /\ k <= L /\ IsFiniteSet(1 .. k) /\ Cardinality(1 .. k) = k
  <2>1. IsFiniteSet(1 .. L) /\ Cardinality(1 .. L) = L
    BY <1>1, IntervalSize
  <2>2. IsFiniteSet(U) /\ k \in Nat /\ k <= L
    BY <1>2, <2>1, FS_Subset, FS_CardinalityType
  <2>3. QED
    BY <2>2, IntervalSize
<1>4. ASSUME NEW i \in 1 .. k, NEW j \in k + 1 .. L
      PROVE  D(i, j) <=> j \in U /\ UsedAbove(U, L, j) = HolesBefore(U, i)
  <2>1. j \in 1 .. L /\ i \in 1 .. L /\ (\A x \in j + 1 .. L : x \in 1 .. L) /\ (\A x \in 1 .. i - 1 : x \in 1 .. L)
    BY <1>1, <1>3
  <2>2. {x \in j + 1 .. L : x \in U} = {x \in j + 1 .. L : used(x)}
    BY <1>2, <2>1
  <2>3. {x \in 1 .. i - 1 : x \notin U} = {x \in 1 .. i - 1 : ~used(x)}
    BY <1>2, <2>1
  <2> HIDE DEF used, U
  <2>4. QED
    BY <1>2, <2>1, <2>2, <2>3 DEF UsedAbove, HolesBefore
<1>5. Compacted(b, k) = [i \in 1 .. k |-> IF used(i) THEN b[i] ELSE b[donor(i)]]
  BY DEF Compacted
<1>15. k = Cardinality(U) /\ U \in SUBSET (1 .. L)
  BY <1>2
<1> HIDE DEF used, U, D, L
<1>6. \A i \in 1 .. k : i \in 1 .. L
  BY <1>1, <1>3
<1>7. ASSUME NEW i \in 1 .. k, ~used(i)
      PROVE  /\ donor(i) \in k + 1 .. L /\ donor(i) \in U
             /\ UsedAbove(U, L, donor(i)) = HolesBefore(U, i)
  <2>1. i \notin U
    BY <1>2, <1>6, <1>7
  <2>2. PICK j \in k + 1 .. L : j \in U /\ UsedAbove(U, L, j) = HolesBefore(U, i)
    BY <1>1, <1>15, <2>1, DonorExists
  <2>3. \E m \in k + 1 .. L : D(i, m)
    BY <1>4, <2>2
  <2>4. donor(i) \in k + 1 .. L /\ D(i, donor(i))
    BY <2>3
  <2> HIDE DEF donor
  <2>5. QED
    BY <1>4, <2>4
<1>8. ASSUME NEW i \in 1 .. k, NEW j \in 1 .. k, ~used(i), ~used(j), donor(i) = donor(j)
      PROVE  i = j
  <2> DEFINE d == donor(i)
  <2>1. UsedAbove(U, L, d) = HolesBefore(U, i) /\ UsedAbove(U, L, d) = HolesBefore(U, j)
    BY <1>7, <1>8
  <2>2. i \notin U /\ j \notin U
    BY <1>2, <1>6, <1>8
  <2>3. i \in Nat \ {0} /\ j \in Nat \ {0}
    BY <1>3
  <2> HIDE DEF d
  <2>4. ~(i < j) /\ ~(j < i)
    BY <2>1, <2>2, <2>3, HolesDiffer
  <2>5. QED
    BY <2>3, <2>4
<1>9. ASSUME NEW i \in 1 .. k PROVE /\ p[i] \in U /\ (used(i) => p[i] = i) /\ (~used(i) => p[i] = donor(i))
                                    /\ b[p[i]] = Compacted(b, k)[i]
  <2>1. used(i) => i \in U
    BY <1>2, <1>6
  <2>2. ~used(i) => donor(i) \in U
    BY <1>7
  <2> HIDE DEF donor
  <2>3. QED
    BY <1>5, <2>1, <2>2
<1>10. p \in [1 .. k -> U]
  BY <1>9
<1>11. Compacted(b, k) = [i \in 1 .. k |-> b[p[i]]]
  <2> HIDE DEF p
  <2>1. DOMAIN Compacted(b, k) = 1 .. k /\ Compacted(b, k) = [i \in 1 .. k |-> Compacted(b, k)[i]]
    BY <1>5
  <2>2. QED
    BY <1>9, <2>1
<1>12. ASSUME NEW i \in 1 .. k, NEW j \in 1 .. k, p[i] = p[j] PROVE i = j
  <2>1. ~used(i) => donor(i) \in k + 1 .. L
    BY <1>7
  <2>2. ~used(j) => donor(j) \in k + 1 .. L
    BY <1>7
  <2>3. /\ (used(i) => p[i] = i) /\ (~used(i) => p[i] = donor(i))
        /\ (used(j) => p[j] = j) /\ (~used(j) => p[j] = donor(j))
    BY <1>9
  <2>4. ~used(i) /\ ~used(j) => i = j
    BY <1>8, <1>12, <2>3
  <2> HIDE DEF p, donor
  <2>5. \A x \in k + 1 .. L, y \in 1 .. k : x # y
    BY <1>1, <1>3
  <2>6. QED
    BY <1>12, <2>1, <2>2, <2>3, <2>4, <2>5
<1> HIDE DEF p
<1>13. ASSUME NEW j \in U PROVE \E i \in 1 .. k : p[i] = j
  <2>1. Cardinality(1 .. k) = Cardinality(U)
    BY <1>3 DEF U
  <2>2. \A i, m \in 1 .. k : p[i] = p[m] => i = m
    BY <1>12
  <2> DEFINE I == 1 .. k
  <2>3. IsFiniteSet(I) /\ IsFiniteSet(U) /\ p \in [I -> U] /\ Cardinality(I) = Cardinality(U)
    BY <1>3, <1>10, <2>1
  <2>4. \A x, y \in I : p[x] = p[y] => x = y
    BY <2>2
  <2> HIDE DEF I
  <2>5. \E x \in I : p[x] = j
    BY <1>13, <2>3, <2>4, InjectionOnto
  <2>6. QED
    BY <2>5 DEF I
<1>14. QED
  <2>1. /\ p \in [1 .. k -> UsedIn(b)]
        /\ \A i, j \in 1 .. k : p[i] = p[j] => i = j
        /\ \A j \in UsedIn(b) : \E i \in 1 .. k : p[i] = j
    BY <1>10, <1>12, <1>13 DEF U
  <2>2. Packs(p, b, k)
    BY <1>11, <2>1 DEF Packs
  <2>3. QED
    BY <1>3, <2>2 DEF U

\* The buffer after gc_compact, when the roots in G have been dropped from it.
LEMMA DropCompact ==
  ASSUME BufferInvariant, NEW G \in SUBSET Roots,
         NEW b \in Seq(EntryType), DOMAIN b = DOMAIN buf,
         UsedIn(b) = {i \in Used : buf[i].ref \notin G}, \A i \in UsedIn(b) : b[i] = buf[i],
         color' \in [Nodes -> Colors],
         num_roots' = num_roots - Cardinality(G), buf' = Compacted(b, num_roots'), unused' = <<>>,
         NEW a \in [Nodes -> Nat], \A n \in Nodes : n \in G \/ addr[n] = 0 => a[n] = 0,
         addr' = AddrIn(buf', a)
  PROVE  /\ BufferInvariant' /\ num_roots' \in Nat
         /\ Len(buf') = num_roots' /\ DOMAIN buf' = 1 .. num_roots'
         /\ \A i \in DOMAIN buf' : buf'[i].tag # "UNUSED"
         /\ Roots' = Roots \ G
         /\ \A n \in Roots \ G : buf'[addr'[n]] = buf[addr[n]]
         /\ \A i \in DOMAIN buf' : \E n \in Roots \ G : addr'[n] = i /\ buf'[i] = buf[addr[n]]
<1> DEFINE DR == {i \in Used : buf[i].ref \in G}
           k == num_roots'
<1>1. /\ Len(buf) \in Nat /\ DOMAIN buf = 1 .. Len(buf) /\ Used \subseteq DOMAIN buf
      /\ IsFiniteSet(Used) /\ Cardinality(Used) = num_roots /\ num_roots \in Nat
      /\ \A n \in Nodes : addr[n] # 0 => addr[n] \in Used /\ buf[addr[n]].ref = n
      /\ \A i \in Used : buf[i].ref \in Nodes /\ addr[buf[i].ref] = i
  BY BufferFacts DEF Used
<1>2. G \subseteq Nodes /\ IsFiniteSet(G)
  BY ConstantsAssumption, FS_Subset DEF Roots
<1>3. Cardinality(G) = Cardinality(DR) /\ DR \in SUBSET Used /\ IsFiniteSet(DR)
  <2> DEFINE f == [n \in G |-> addr[n]]
  <2>1. DR \in SUBSET Used /\ IsFiniteSet(DR)
    BY <1>1, FS_Subset
  <2>2. f \in [G -> DR]
    BY <1>1, <1>2 DEF Roots
  <2>3. \A x, y \in G : f[x] = f[y] => x = y
    BY <1>1, <1>2 DEF Roots
  <2>4. \A z \in DR : \E x \in G : f[x] = z
    BY <1>1
  <2> HIDE DEF f, DR
  <2>5. QED
    BY <1>2, <2>1, <2>2, <2>3, <2>4, SameSize
<1>4. k = Cardinality(UsedIn(b))
  <2>1. UsedIn(b) = Used \ DR /\ Used \cap DR = DR
    OBVIOUS
  <2>2. Cardinality(Used \ DR) = Cardinality(Used) - Cardinality(Used \cap DR)
    BY <1>1, FS_Difference
  <2> HIDE DEF DR
  <2>3. QED
    BY <1>1, <1>3, <2>1, <2>2
<1>5. k \in Nat /\ \E p : Packs(p, b, k)
  <2> HIDE DEF k
  <2>1. QED
    BY <1>4, CompactedFacts
<1>22. PICK p : Packs(p, b, k)
  BY <1>5
<1>6. /\ p \in [1 .. k -> UsedIn(b)]
      /\ Compacted(b, k) = [i \in 1 .. k |-> b[p[i]]]
      /\ \A i, j \in 1 .. k : p[i] = p[j] => i = j
      /\ \A j \in UsedIn(b) : \E i \in 1 .. k : p[i] = j
  BY <1>22 DEF Packs
<1>7. /\ buf' = [i \in 1 .. k |-> b[p[i]]] /\ DOMAIN buf' = 1 .. k
      /\ \A i \in 1 .. k : /\ p[i] \in Used /\ p[i] \in DOMAIN buf /\ buf[p[i]].ref \notin G
                           /\ buf'[i] = buf[p[i]] /\ buf'[i] \in EntryType
  <2>1. \A i \in DOMAIN buf : buf[i] \in EntryType
    BY BufferFacts
  <2>2. QED
    BY <1>1, <1>6, <2>1
<1>8. buf' \in Seq(EntryType) /\ Len(buf') = k
  <2>1. buf' \in [1 .. k -> EntryType]
    BY <1>7
  <2> HIDE DEF k
  <2>2. QED
    BY <1>5, <2>1
<1>9. \A i \in 1 .. k : /\ buf'[i].tag # "UNUSED" /\ buf'[i].ref \in Nodes
                        /\ addr[buf'[i].ref] = p[i] /\ p[i] # 0 /\ buf'[i].ref \in Roots \ G
  BY <1>1, <1>7 DEF Used, Roots
<1>10. \A i, j \in 1 .. k : buf'[i].ref = buf'[j].ref => i = j
  BY <1>6, <1>9
<1>11. ASSUME NEW n \in Nodes, NEW i \in 1 .. k, buf'[i].ref = n PROVE addr'[n] = i
  <2>1. \A j \in 1 .. k : buf'[j].ref = n => j = i
    BY <1>10, <1>11
  <2>2. addr'[n] = CHOOSE j \in 1 .. k : buf'[j].ref = n
    BY <1>7, <1>11 DEF AddrIn
  <2> HIDE DEF k
  <2>3. QED
    BY <1>11, <2>1, <2>2
<1>12. ASSUME NEW n \in Roots \ G PROVE \E i \in 1 .. k : addr'[n] = i /\ buf'[i] = buf[addr[n]]
  <2>1. n \in Nodes /\ addr[n] \in UsedIn(b) /\ buf[addr[n]].ref = n
    BY <1>1, <1>12 DEF Roots
  <2>2. PICK i \in 1 .. k : p[i] = addr[n]
    BY <1>6, <2>1
  <2>3. buf'[i] = buf[addr[n]]
    BY <1>7, <2>2
  <2>4. addr'[n] = i
    BY <1>11, <2>1, <2>3
  <2>5. QED
    BY <2>3, <2>4
<1>13. ASSUME NEW n \in Nodes, n \notin Roots \ G PROVE addr'[n] = 0
  <2>1. ~ \E i \in DOMAIN buf' : buf'[i].ref = n
    BY <1>7, <1>9, <1>13
  <2>2. addr'[n] = a[n]
    BY <2>1 DEF AddrIn
  <2>3. QED
    BY <1>13, <2>2 DEF Roots
<1> HIDE DEF k
<1>14. Roots' = Roots \ G
  <2>1. \A n \in Nodes : addr'[n] # 0 <=> n \in Roots \ G
    BY <1>5, <1>12, <1>13
  <2>2. QED
    BY <2>1 DEF Roots
<1>15. addr' \in [Nodes -> 0 .. Len(buf')]
  <2>1. \A n \in Nodes : addr'[n] \in 0 .. k
    BY <1>5, <1>12, <1>13
  <2>2. addr' = [n \in Nodes |-> addr'[n]]
    BY DEF AddrIn
  <2>3. QED
    BY <1>8, <2>1, <2>2
<1>16. Addresses'
  <2>1. \A i \in DOMAIN buf' : buf'[i].tag # "UNUSED" => buf'[i].ref \in Nodes /\ addr'[buf'[i].ref] = i
    BY <1>7, <1>9, <1>11
  <2>2. \A n \in Nodes : addr'[n] # 0 => buf'[addr'[n]].tag # "UNUSED" /\ buf'[addr'[n]].ref = n
    <3> SUFFICES ASSUME NEW n \in Nodes, addr'[n] # 0
                 PROVE  buf'[addr'[n]].tag # "UNUSED" /\ buf'[addr'[n]].ref = n
      OBVIOUS
    <3>1. n \in Roots \ G
      BY <1>13
    <3>2. addr'[n] \in 1 .. k /\ buf'[addr'[n]] = buf[addr[n]]
      BY <1>12, <3>1
    <3>3. buf[addr[n]].ref = n
      BY <1>1, <3>1 DEF Roots
    <3>4. QED
      BY <1>9, <3>2, <3>3
  <2>3. QED
    BY <2>1, <2>2 DEF Addresses, TagOf
<1>17. UnusedListed'
  <2>1. DOMAIN unused' = {}
    OBVIOUS
  <2>2. Used' = 1 .. k
    BY <1>7, <1>9, ZenonT(40) DEF Used
  <2>5. k \in Nat
    BY <1>5
  <2>6. Cardinality(1 .. k) = k
    BY <2>5, IntervalSize
  <2>3. Cardinality(Used') = k
    BY <2>2, <2>6
  <2>4. QED
    BY <1>7, <1>9, <2>1, <2>3 DEF UnusedListed, k
<1>18. BufferTypes'
  <2>1. unused' \in Seq(DOMAIN buf')
    OBVIOUS
  <2>2. QED
    BY <1>5, <1>8, <2>1 DEF BufferTypes, k
<1>19. BufferInvariant'
  BY <1>15, <1>16, <1>17, <1>18 DEF BufferInvariant, AddrTypes
<1>20. ASSUME NEW i \in DOMAIN buf' PROVE \E n \in Roots \ G : addr'[n] = i /\ buf'[i] = buf[addr[n]]
  <2>1. buf'[i].ref \in Roots \ G /\ buf'[i].ref \in Nodes /\ addr[buf'[i].ref] = p[i] /\ buf'[i] = buf[p[i]]
    BY <1>7, <1>9
  <2>2. addr'[buf'[i].ref] = i
    BY <1>7, <1>11, <2>1
  <2>3. QED
    BY <2>1, <2>2
<1>21. QED
  BY <1>5, <1>7, <1>8, <1>9, <1>12, <1>14, <1>19, <1>20 DEF k

----------------------------------------------------------------------------
(* The steps of the collector.                                             *)

\* While a run is on top nothing is being freed, and no call is about what is condemned.
LEMMA RunOnTop ==
  ASSUME CollectorInvariant, Top.at = "run"
  PROVE  /\ Len(stack) \in DOMAIN stack /\ Top = stack[Len(stack)] /\ Len(stack) > 1 /\ HasRun(stack)
         /\ \A i \in DOMAIN stack : /\ stack[i].at \notin {"gc_free", "del"}
                                    /\ stack[i].at = "run" => i = Len(stack)
         /\ \A p : Adjacent(stack, p)
         /\ gc.phase # "collect" => \A i \in DOMAIN stack : stack[i].node \notin Condemned
         /\ \A n \in Nodes : life[n] = "null" => \A m \in Nodes : <<n, m>> \notin edge
<1>1. /\ Len(stack) \in Nat /\ DOMAIN stack = 1 .. Len(stack) /\ Len(stack) \in DOMAIN stack
      /\ Top = stack[Len(stack)] /\ StackShape /\ Shape(stack) /\ Adjacent(stack, gc.phase)
  BY InvariantParts, StackFacts DEF StackTypes, StackShape
<1>2. \A i \in DOMAIN stack : stack[i].at = "run" => i = Len(stack)
  BY <1>1 DEF Shape
<1>3. Len(stack) # 1
  BY <1>1 DEF Shape
<1>4. Len(stack) > 1
  BY <1>1, <1>3
<1>5. ASSUME NEW i \in DOMAIN stack PROVE stack[i].at \notin {"gc_free", "del"}
  <2>1. stack[i].at # "del"
    BY <1>1 DEF Shape
  <2>2. ASSUME stack[i].at = "gc_free" PROVE FALSE
    <3>1. i > 1 /\ stack[i - 1].at = "run"
      BY <1>1, <2>2 DEF Adjacent
    <3>2. i - 1 \in DOMAIN stack /\ i - 1 < Len(stack)
      BY <1>1, <3>1
    <3>3. QED
      BY <1>1, <1>2, <3>1, <3>2
  <2>3. QED
    BY <2>1, <2>2
<1>6. \A p : Adjacent(stack, p)
  BY <1>1, <1>2, <1>5, SMTT(30) DEF Adjacent
<1>7. ASSUME gc.phase # "collect", NEW i \in DOMAIN stack PROVE stack[i].node \notin Condemned
  <2> SUFFICES ASSUME stack[i].node \in Condemned PROVE FALSE
    OBVIOUS
  <2>1. PICK j \in 1 .. i - 1 : stack[j].at = "run"
    BY <1>7, InvariantParts DEF CondemnedIsLost
  <2>2. i \in 1 .. Len(stack)
    BY <1>1
  <2>3. j \in 1 .. Len(stack) /\ j # Len(stack)
    BY <1>1, <2>2, LowerIndex
  <2>4. QED
    BY <1>1, <1>2, <2>1, <2>3
<1>8. \A n \in Nodes : life[n] = "null" => \A m \in Nodes : <<n, m>> \notin edge
  BY <1>5, InvariantParts DEF Dying
<1>9. HasRun(stack)
  BY <1>1 DEF HasRun
<1>10. QED
  BY <1>1, <1>2, <1>4, <1>5, <1>6, <1>7, <1>8, <1>9

\* The calls below the run, when it is over.
LEMMA RunOver ==
  ASSUME CollectorInvariant, Top.at = "run"
  PROVE  /\ Shape(Below) /\ Below \in Seq(Frame) /\ Below # <<>> /\ ~HasRun(Below)
         /\ \A p : Adjacent(Below, p)
         /\ \A n \in Nodes : Frames(Below, n) = Frames(stack, n)
         /\ \A i \in DOMAIN Below : i \in DOMAIN stack /\ Below[i] = stack[i]
         /\ \A i \in DOMAIN stack : stack[i].at # "run" => i \in DOMAIN Below /\ Below[i] = stack[i]
<1>1. /\ StackTypes /\ Shape(stack) /\ Len(stack) > 1 /\ \A p : Adjacent(stack, p)
      /\ Top = stack[Len(stack)] /\ Len(stack) \in DOMAIN stack
  BY InvariantParts, RunOnTop DEF StackShape
<1>2. Shape(Below) /\ Below \in Seq(Frame) /\ Below # <<>> /\ ~HasRun(Below)
  BY <1>1, ShapeBelow
<1>3. \A p : Adjacent(Below, p)
  BY <1>1, AdjacentBelow
<1>4. /\ \A i \in DOMAIN Below : i \in DOMAIN stack /\ Below[i] = stack[i]
      /\ \A i \in DOMAIN stack : i # Len(stack) => i \in DOMAIN Below /\ Below[i] = stack[i]
  BY <1>1, StackFacts DEF StackTypes
<1>5. ASSUME NEW n \in Nodes PROVE Frames(Below, n) = Frames(stack, n)
  <2>1. Top.node = NULL
    BY <1>1 DEF Shape
  <2>2. Frames(stack, n) = Frames(Below, n) + (IF Top.node = n /\ Top.at # "del" THEN 1 ELSE 0)
    BY <1>1, BelowFacts DEF StackTypes
  <2>3. Top.node # n /\ Frames(Below, n) \in Nat
    BY <1>2, <2>1, ConstantsAssumption, FramesFacts
  <2>4. QED
    BY <2>2, <2>3
<1>6. QED
  BY <1>1, <1>2, <1>3, <1>4, <1>5

\* What stays when a run leaves the heap and the calls alone.
LEMMA HeapKept ==
  ASSUME CollectorInvariant, Top.at = "run", UNCHANGED <<life, edge, held, stack>>
  PROVE  /\ HeapTypes' /\ StackTypes' /\ FrameLife' /\ References'
         /\ StackShape' /\ HasRun(stack)' /\ Top' = Top /\ Usable' = Usable /\ Follow' = Follow
<1>1. HeapTypes' /\ StackTypes'
  BY InvariantParts DEF HeapTypes, StackTypes
<1>2. \A i \in DOMAIN stack : stack[i].at # "del"
  BY RunOnTop
<1>3. FrameLife'
  BY <1>2, InvariantParts DEF FrameLife
<1>4. References' /\ Usable' = Usable /\ Follow' = Follow
  BY InvariantParts DEF References, Usable, Follow
<1>5. StackShape' /\ HasRun(stack)' /\ Top' = Top
  <2>1. Shape(stack) /\ HasRun(stack) /\ \A p : Adjacent(stack, p)
    BY InvariantParts, RunOnTop DEF StackShape
  <2>2. QED
    BY <2>1 DEF StackShape, Top
<1>6. QED
  BY <1>1, <1>3, <1>4, <1>5

\* Marking and scanning only touch colors, counts and their own work.
LEMMA PassKeeps ==
  ASSUME CollectorInvariant, Top.at = "run", gc.phase \in {"mark", "scan"},
         UNCHANGED <<heap, addr, buffer, gc_active, stack>>,
         gc' \in GcType, gc'.phase \in {"mark", "scan"}, gc'.end = gc.end, 1 <= gc'.idx,
         gc'.phase # "scan" => gc'.bwork = {},
         color' \in [Nodes -> Colors], rc' \in [Nodes -> Nat],
         \A n \in Nodes : life[n] = "none" => color'[n] = color[n] /\ rc'[n] = rc[n],
         Balance', Marking', Scanned'
  PROVE  CollectorInvariant'
<1>1. UNCHANGED <<life, edge, held, addr, buf, unused, num_roots, gc_active, stack>>
  BY DEF heap, buffer
<1>2. /\ HeapTypes' /\ StackTypes' /\ FrameLife' /\ References' /\ StackShape' /\ HasRun(stack)'
      /\ Top' = Top
  BY <1>1, HeapKept
<1>3. AddrTypes' /\ BufferTypes' /\ Addresses' /\ UnusedListed' /\ CountTypes' /\ GcTypes'
  BY <1>1, InvariantParts
     DEF AddrTypes, BufferTypes, Addresses, UnusedListed, CountTypes, GcTypes, TagOf, Used
<1>4. TypeOK'
  BY <1>2, <1>3, TypePartsNext
<1>5. TagsOfPhase'
  <2>1. \A i \in DOMAIN buf : buf[i].tag = "ROOT" /\ i <= gc.end
    BY InvariantParts DEF TagsOfPhase
  <2>2. \A i \in DOMAIN buf' : buf'[i].tag = "ROOT" /\ i <= gc'.end
    BY <1>1, <2>1
  <2>3. QED
    BY <2>2 DEF TagsOfPhase
<1>6. RootsArePurple' /\ Collecting'
  BY DEF RootsArePurple, Collecting, Passes
<1>7. RunShape'
  <2>1. gc_active /\ gc.end <= Len(buf)
    BY InvariantParts DEF RunShape
  <2>2. QED
    BY <1>1, <1>2, <2>1 DEF RunShape
<1>8. Condemned = {} /\ Condemned' = {}
  <2>1. \A i \in DOMAIN buf : buf[i].tag = "ROOT"
    BY InvariantParts DEF TagsOfPhase
  <2>2. \A n \in Nodes : addr[n] # 0 => addr[n] \in DOMAIN buf
    BY InvariantParts, BufferFacts DEF Used
  <2>3. Condemned = {}
    BY <2>1, <2>2 DEF Condemned, Tagged, TagOf
  <2>4. QED
    BY <1>1, <2>3, KeptTags
<1>9. CondemnedIsLost'
  BY <1>8 DEF CondemnedIsLost
<1>10. Dying'
  <2>1. \A n \in Nodes : life[n] # "null"
    BY <1>8, InvariantParts DEF Dying
  <2>2. QED
    BY <1>1, <2>1, InvariantParts DEF Dying
<1>11. QED
  BY <1>2, <1>3, <1>4, <1>5, <1>6, <1>7, <1>9, <1>10 DEF CollectorInvariant

\* What Balance says of one count while there is no destructor of the run.
LEMMA CountFacts ==
  ASSUME CollectorInvariant, gc.phase # "delref", NEW n \in Nodes, life[n] # "none"
  PROVE  /\ rc[n] = InCount(Counted, n) + HeldCount(held, n) + Frames(stack, n)
         /\ InCount(Counted, n) \in Nat /\ HeldCount(held, n) \in Nat /\ Frames(stack, n) \in Nat
         /\ Counted \in SUBSET (Nodes \X Nodes) /\ rc \in [Nodes -> Nat]
<1>1. /\ rc[n] = InCount(Counted, n) + HeldCount(held, n) + Frames(stack, n) + Delayed(n)
      /\ rc \in [Nodes -> Nat] /\ Counted \in SUBSET (Nodes \X Nodes) /\ stack \in Seq(Frame)
  BY InvariantParts DEF Balance, CountTypes, HeapTypes, Counted, StackTypes
<1>2. Delayed(n) = 0
  BY DEF Delayed
<1>3. InCount(Counted, n) \in Nat /\ HeldCount(held, n) \in Nat /\ Frames(stack, n) \in Nat
  BY <1>1, InCountFacts, FramesFacts DEF HeldCount
<1>4. QED
  BY <1>1, <1>2, <1>3

\* No count changes.
LEMMA KeptCounts ==
  ASSUME CollectorInvariant, UNCHANGED <<life, edge, held, stack, rc>>, Taken' = Taken,
         gc.phase # "delref", gc'.phase # "delref"
  PROVE  Balance' /\ rc' \in [Nodes -> Nat]
<1>1. Usable' = Usable
  BY DEF Usable
<1>2. Counted' = Counted
  BY <1>1 DEF Counted
<1>3. \A n \in Nodes : Delayed(n)' = Delayed(n)
  BY DEF Delayed
<1>4. QED
  BY <1>2, <1>3, InvariantParts DEF Balance, CountTypes

\* The counts that the properties of r stand for are taken back.
LEMMA TakenBack ==
  ASSUME CollectorInvariant, UNCHANGED <<life, edge, held, stack>>, NEW r \in Nodes,
         r \notin Taken, Taken' = Taken \cup {r},
         rc' = [n \in Nodes |-> IF n \in Children(r) THEN rc[n] - 1 ELSE rc[n]],
         gc.phase # "delref", gc'.phase # "delref"
  PROVE  Balance' /\ rc' \in [Nodes -> Nat]
<1>1. Usable' = Usable /\ edge' = edge /\ held' = held /\ stack' = stack /\ life' = life
  BY DEF Usable
<1>2. Counted' = {e \in Counted : ~(e[1] = r /\ e[2] \in Children(r))}
  <2>1. CASE r \in Usable
    <3>1. \A e \in edge : e[1] = r => e[2] \in Children(r)
      BY <2>1, InvariantParts DEF Children, Usable, HeapTypes
    <3>2. QED
      BY <1>1, <2>1, <3>1 DEF Counted
  <2>2. CASE r \notin Usable
    <3>1. Children(r) = {}
      BY <2>2 DEF Children, Usable
    <3>2. QED
      BY <1>1, <2>2, <3>1 DEF Counted
  <2>3. QED
    BY <2>1, <2>2
<1>3. Children(r) \in SUBSET Nodes /\ \A m \in Children(r) : <<r, m>> \in Counted /\ life[m] # "none"
  <2>1. \A m \in Children(r) : m \in Nodes /\ <<r, m>> \in edge
    BY DEF Children
  <2>2. \A m \in Children(r) : <<r, m>> \in Counted
    BY <2>1 DEF Counted
  <2>3. \A m \in Children(r) : life[<<r, m>>[2]] # "none"
    BY <2>1, InvariantParts DEF References
  <2>4. QED
    BY <2>1, <2>2, <2>3
<1>4. ASSUME NEW n \in Nodes, life[n] # "none"
      PROVE  /\ rc'[n] = InCount(Counted', n) + HeldCount(held, n) + Frames(stack, n)
             /\ rc'[n] \in Nat
  <2>1. /\ rc[n] = InCount(Counted, n) + HeldCount(held, n) + Frames(stack, n)
        /\ HeldCount(held, n) \in Nat /\ Frames(stack, n) \in Nat
        /\ Counted \in SUBSET (Nodes \X Nodes)
    BY <1>4, CountFacts
  <2>2. InCount(Counted, n) = InCount(Counted', n) + (IF n \in Children(r) THEN 1 ELSE 0)
    BY <1>2, <1>3, <2>1, InRow
  <2>3. InCount(Counted', n) \in Nat
    <3>1. Counted' \in SUBSET (Nodes \X Nodes)
      BY <1>2, <2>1
    <3>2. QED
      BY <3>1, InCountFacts
  <2>4. rc'[n] = rc[n] - (IF n \in Children(r) THEN 1 ELSE 0)
    BY <1>4, CountFacts
  <2>5. QED
    BY <2>1, <2>2, <2>3, <2>4
<1>5. \A n \in Nodes : Delayed(n)' = 0
  BY DEF Delayed
<1>6. Balance'
  <2> SUFFICES ASSUME NEW n \in Nodes, life[n] # "none"
               PROVE  rc'[n] = InCount(Counted', n) + HeldCount(held, n) + Frames(stack, n) + Delayed(n)'
    BY <1>1 DEF Balance
  <2>1. rc'[n] = InCount(Counted', n) + HeldCount(held, n) + Frames(stack, n) /\ rc'[n] \in Nat
    BY <1>4
  <2>2. QED
    BY <1>5, <2>1
<1>7. \A n \in Nodes : rc'[n] \in Nat
  <2>1. \A n \in Nodes : life[n] = "none" => rc'[n] = rc[n]
    BY <1>3
  <2>2. \A n \in Nodes : rc[n] \in Nat
    BY InvariantParts DEF CountTypes
  <2>3. QED
    BY <1>4, <2>1, <2>2
<1>8. QED
  BY <1>6, <1>7

\* The counts that the properties of r stand for are given back.
LEMMA GivenBack ==
  ASSUME CollectorInvariant, UNCHANGED <<life, edge, held, stack>>, NEW r \in Nodes,
         r \in Taken, Taken' = Taken \ {r}, rc' = Restored(r),
         gc.phase # "delref", gc'.phase # "delref"
  PROVE  Balance' /\ rc' \in [Nodes -> Nat]
<1>1. Usable' = Usable /\ edge' = edge /\ held' = held /\ stack' = stack /\ life' = life
  BY DEF Usable
<1>2. Counted = {e \in Counted' : ~(e[1] = r /\ e[2] \in Children(r))}
  <2>1. CASE r \in Usable
    <3>1. \A e \in edge : e[1] = r => e[2] \in Children(r)
      BY <2>1, InvariantParts DEF Children, Usable, HeapTypes
    <3>2. QED
      BY <1>1, <2>1, <3>1 DEF Counted
  <2>2. CASE r \notin Usable
    <3>1. Children(r) = {}
      BY <2>2 DEF Children, Usable
    <3>2. QED
      BY <1>1, <2>2, <3>1 DEF Counted
  <2>3. QED
    BY <2>1, <2>2
<1>3. Children(r) \in SUBSET Nodes /\ \A m \in Children(r) : <<r, m>> \in Counted' /\ life[m] # "none"
  <2>1. \A m \in Children(r) : m \in Nodes /\ <<r, m>> \in edge
    BY DEF Children
  <2>2. \A m \in Children(r) : <<r, m>> \in Counted'
    BY <1>1, <2>1 DEF Counted
  <2>3. \A m \in Children(r) : life[<<r, m>>[2]] # "none"
    BY <2>1, InvariantParts DEF References
  <2>4. QED
    BY <2>1, <2>2, <2>3
<1>4. Counted' \in SUBSET (Nodes \X Nodes)
  BY <1>1, InvariantParts DEF Counted, HeapTypes
<1>5. ASSUME NEW n \in Nodes, life[n] # "none"
      PROVE  /\ rc'[n] = InCount(Counted', n) + HeldCount(held, n) + Frames(stack, n)
             /\ rc'[n] \in Nat
  <2>1. /\ rc[n] = InCount(Counted, n) + HeldCount(held, n) + Frames(stack, n)
        /\ HeldCount(held, n) \in Nat /\ Frames(stack, n) \in Nat /\ InCount(Counted, n) \in Nat
    BY <1>5, CountFacts
  <2>2. InCount(Counted', n) = InCount(Counted, n) + (IF n \in Children(r) THEN 1 ELSE 0)
    BY <1>2, <1>3, <1>4, InRow
  <2>3. rc'[n] = rc[n] + (IF n \in Children(r) THEN 1 ELSE 0)
    BY <1>5, CountFacts DEF Restored
  <2>4. QED
    BY <2>1, <2>2, <2>3
<1>6. \A n \in Nodes : Delayed(n)' = 0
  BY DEF Delayed
<1>7. Balance'
  <2> SUFFICES ASSUME NEW n \in Nodes, life[n] # "none"
               PROVE  rc'[n] = InCount(Counted', n) + HeldCount(held, n) + Frames(stack, n) + Delayed(n)'
    BY <1>1 DEF Balance
  <2>1. rc'[n] = InCount(Counted', n) + HeldCount(held, n) + Frames(stack, n) /\ rc'[n] \in Nat
    BY <1>5
  <2>2. QED
    BY <1>6, <2>1
<1>8. \A n \in Nodes : rc'[n] \in Nat
  <2>1. \A n \in Nodes : life[n] = "none" => rc'[n] = rc[n]
    BY <1>3 DEF Restored
  <2>2. \A n \in Nodes : rc[n] \in Nat
    BY InvariantParts DEF CountTypes
  <2>3. QED
    BY <1>5, <2>1, <2>2
<1>9. QED
  BY <1>7, <1>8 DEF Restored

----------------------------------------------------------------------------
(* What can be reached within a set.                                       *)

\* Nothing is reached from anywhere.
LEMMA CoversEmpty == ASSUME NEW R, NEW P PROVE Covers(R, P, {})
BY DEF Covers

\* Nothing to start from: nothing is covered.
LEMMA CoversNothing ==
  ASSUME NEW R, NEW P, NEW C, Covers(R, P, C), P = {}
  PROVE  C = {}
<1>1. {} \in SUBSET Nodes /\ P \subseteq {} /\ \A e \in R : e[1] \in {} /\ e[2] \in C => e[2] \in {}
  OBVIOUS
<1>2. C \subseteq {}
  BY <1>1 DEF Covers
<1>3. QED
  BY <1>2

\* More to start from.
LEMMA CoversMore ==
  ASSUME NEW R, NEW P, NEW Q, NEW C, Covers(R, P, C), P \subseteq Q
  PROVE  Covers(R, Q, C)
BY DEF Covers

\* Nodes join the set, to start from or next to some in it.
LEMMA CoversGrow ==
  ASSUME NEW R, NEW P, NEW Q, NEW C, NEW D, Covers(R, P, C), P \subseteq Q,
         \A d \in D : d \in Q \/ \E e \in R : e[1] \in C /\ e[2] = d
  PROVE  Covers(R, Q, C \cup D)
<1> SUFFICES ASSUME NEW S \in SUBSET Nodes, Q \subseteq S,
                    \A e \in R : e[1] \in S /\ e[2] \in C \cup D => e[2] \in S
             PROVE  C \cup D \subseteq S
  BY DEF Covers
<1>1. P \subseteq S /\ \A e \in R : e[1] \in S /\ e[2] \in C => e[2] \in S
  OBVIOUS
<1>2. C \subseteq S
  BY <1>1 DEF Covers
<1>3. QED
  BY <1>2

\* Nodes in D leave the set: those it leads to can be started from now, or are next to
\* some that can.
LEMMA CoversLess ==
  ASSUME NEW R, NEW P \in SUBSET Nodes, NEW Q, NEW C \in SUBSET Nodes, NEW D,
         Covers(R, P, C), P \subseteq Q \cup D,
         \A e \in R : e[1] \in D /\ e[2] \in C \ D => e[1] \in Q \/ e[2] \in Q
  PROVE  Covers(R, Q, C \ D)
<1> SUFFICES ASSUME NEW S \in SUBSET Nodes, Q \subseteq S,
                    \A e \in R : e[1] \in S /\ e[2] \in C \ D => e[2] \in S
             PROVE  C \ D \subseteq S
  BY DEF Covers
<1> DEFINE T == S \cup (D \cap Nodes)
<1>1. T \in SUBSET Nodes /\ P \subseteq T
  OBVIOUS
<1>2. ASSUME NEW e \in R, e[1] \in T, e[2] \in C PROVE e[2] \in T
  BY <1>2
<1>3. C \subseteq T
  BY <1>1, <1>2 DEF Covers
<1>4. QED
  BY <1>3

----------------------------------------------------------------------------
(* Marking.                                                                *)

\* A run goes on to the next entry, with new work.
LEMMA GcNext ==
  ASSUME gc \in GcType, NEW W \in SUBSET Nodes, gc' = [gc EXCEPT !.idx = @ + 1, !.work = W]
  PROVE  /\ gc' \in GcType /\ gc'.phase = gc.phase /\ gc'.end = gc.end /\ gc'.idx = gc.idx + 1
         /\ gc'.work = W /\ gc'.bwork = gc.bwork /\ gc'.dtors = gc.dtors /\ gc'.rerun = gc.rerun
<1>1. gc' = [phase |-> gc.phase, idx |-> gc.idx + 1, end |-> gc.end, dtors |-> gc.dtors,
             rerun |-> gc.rerun, work |-> W, bwork |-> gc.bwork]
  BY DEF GcType
<1>2. gc.idx + 1 \in Nat
  BY DEF GcType
<1>3. QED
  BY <1>1, <1>2 DEF GcType

\* The entry that a loop is at while all entries are roots.
LEMMA RootEntry ==
  ASSUME CollectorInvariant, gc.phase \in {"mark", "scan"}
  PROVE  /\ gc_active /\ 1 <= gc.idx /\ gc.idx \in Nat /\ gc.end \in Nat /\ gc \in GcType
         /\ gc.idx <= gc.end => Entry.ref \in Nodes /\ addr[Entry.ref] = gc.idx /\ Entry.ref \in Roots
         /\ \A n \in Nodes : addr[n] = gc.idx => n = Entry.ref
         /\ \A n \in Roots : addr[n] <= gc.end /\ addr[n] >= 1 /\ addr[n] \in Nat
         /\ \A n \in Roots : life[n] # "none"
<1>1. gc_active /\ 1 <= gc.idx /\ gc.idx \in Nat /\ gc.end \in Nat /\ gc \in GcType
  BY InvariantParts, GcFields DEF RunShape, GcTypes
<1>2. \A n \in Nodes : addr[n] # 0 => addr[n] \in Used /\ buf[addr[n]].ref = n
  BY InvariantParts, BufferFacts
<1>3. \A i \in DOMAIN buf : i <= gc.end /\ i >= 1 /\ i \in Nat
  <2>1. DOMAIN buf = 1 .. Len(buf) /\ Len(buf) \in Nat
    BY InvariantParts, BufferFacts
  <2>2. \A i \in DOMAIN buf : i <= gc.end
    BY InvariantParts DEF TagsOfPhase
  <2>3. QED
    BY <2>1, <2>2
<1>4. \A n \in Roots : addr[n] \in DOMAIN buf
  BY <1>2 DEF Roots, Used
<1>5. ASSUME gc.idx <= gc.end
      PROVE  Entry.ref \in Nodes /\ addr[Entry.ref] = gc.idx /\ Entry.ref \in Roots
  <2>1. gc.idx \in DOMAIN buf /\ Entry = buf[gc.idx]
    BY <1>1, <1>5, InvariantParts, EntryFacts
  <2>2. Entry.tag # "UNUSED"
    BY <2>1, InvariantParts DEF TagsOfPhase
  <2>3. Entry.ref \in Nodes /\ addr[Entry.ref] = gc.idx
    BY <1>1, <1>5, <2>2, InvariantParts, EntryFacts
  <2>4. QED
    BY <1>1, <2>3 DEF Roots
<1>6. \A n \in Nodes : addr[n] = gc.idx => n = Entry.ref
  BY <1>1, <1>2 DEF Entry
<1>7. \A n \in Roots : life[n] # "none"
  BY InvariantParts DEF Dying, Roots
<1>8. QED
  BY <1>1, <1>3, <1>4, <1>5, <1>6, <1>7

\* The next root is marked.
LEMMA MarkRootKeeps ==
  ASSUME CollectorInvariant, MarkRoot
  PROVE  CollectorInvariant'
<1>1. /\ Top.at = "run" /\ gc.phase = "mark" /\ gc.work = {} /\ gc.bwork = {} /\ gc.idx <= gc.end
      /\ UNCHANGED <<heap, rc, addr, buffer, gc_active, stack>>
  BY DEF MarkRoot, Scanning, Running, NoWork
<1>2. /\ gc.idx \in Nat /\ 1 <= gc.idx /\ gc \in GcType /\ color \in [Nodes -> Colors] /\ rc \in [Nodes -> Nat]
      /\ Entry.ref \in Nodes /\ Entry.ref \in Roots /\ life[Entry.ref] # "none"
      /\ addr[Entry.ref] = gc.idx /\ (\A n \in Nodes : addr[n] = gc.idx => n = Entry.ref)
      /\ \A n \in Roots : addr[n] \in Nat
  BY <1>1, RootEntry, InvariantParts DEF CountTypes
<1>3. UNCHANGED <<life, edge, held, addr, buf>> /\ Follow' = Follow /\ Roots' = Roots
  BY <1>1 DEF heap, buffer, Follow, Usable, Roots
<1>4. /\ \A n \in Nodes : /\ color[n] # "white"
                          /\ color[n] # "black" => life[n] # "none"
                          /\ color[n] = "purple" => addr[n] >= gc.idx
                          /\ addr[n] # 0 => color[n] # "black"
      /\ \A e \in Follow : color[e[1]] = "grey" => color[e[2]] = "grey"
      /\ Covers(Follow, Colored("grey") \cap Roots, Colored("grey"))
  BY <1>1, InvariantParts DEF Marking
<1> DEFINE x == Entry.ref
<1>5. CASE Entry.tag = "ROOT" /\ color[x] = "purple"
  <2>1. color' = [color EXCEPT ![x] = "grey"] /\ gc' = [gc EXCEPT !.idx = @ + 1, !.work = {x}]
    BY <1>5 DEF MarkRoot
  <2>2. /\ gc' \in GcType /\ gc'.phase = "mark" /\ gc'.end = gc.end /\ gc'.idx = gc.idx + 1
        /\ gc'.work = {x} /\ gc'.bwork = {}
    <3>1. {x} \in SUBSET Nodes
      BY <1>2
    <3>2. QED
      BY <1>1, <1>2, <2>1, <3>1, GcNext
  <2>3. color' \in [Nodes -> Colors]
    BY <1>2, <2>1 DEF Colors
  <2>4. Colored("grey")' = Colored("grey") \cup {x} /\ x \notin Colored("grey")
    BY <1>2, <1>5, <2>1 DEF Colored
  <2>5. Taken' = Taken
    <3>1. Taken = Colored("grey") \ gc.work /\ Taken' = Colored("grey")' \ gc'.work
      BY <1>1, <2>2 DEF Taken
    <3>2. QED
      BY <1>1, <2>2, <2>4, <3>1
  <2>6. Marking'
    <3>1. \A n \in Nodes : /\ color'[n] # "white"
                           /\ color'[n] # "black" => life'[n] # "none"
                           /\ color'[n] = "purple" => addr'[n] >= gc'.idx
                           /\ addr'[n] # 0 => color'[n] # "black"
      <4> SUFFICES ASSUME NEW n \in Nodes
                   PROVE  /\ color'[n] # "white"
                          /\ color'[n] # "black" => life'[n] # "none"
                          /\ color'[n] = "purple" => addr'[n] >= gc'.idx
                          /\ addr'[n] # 0 => color'[n] # "black"
        OBVIOUS
      <4>1. CASE n = x
        BY <1>2, <1>3, <2>1, <4>1
      <4>2. CASE n # x
        <5>1. color'[n] = color[n] /\ addr[n] # gc.idx
          BY <1>2, <2>1, <4>2
        <5>2. color[n] = "purple" => addr[n] \in Nat /\ addr[n] >= gc.idx
          BY <1>2, <1>4, InvariantParts, BufferFacts DEF Roots, BufferInvariant, AddrTypes
        <5>3. QED
          BY <1>2, <1>3, <1>4, <2>2, <5>1, <5>2
      <4>3. QED
        BY <4>1, <4>2
    <3>2. gc'.work \subseteq Colored("grey")'
      BY <2>2, <2>4
    <3>3. \A e \in Follow : color'[e[1]] = "grey" /\ e[1] \notin gc'.work => color'[e[2]] = "grey"
      <4> SUFFICES ASSUME NEW e \in Follow, color'[e[1]] = "grey", e[1] \notin gc'.work
                   PROVE  color'[e[2]] = "grey"
        OBVIOUS
      <4>1. e[1] \in Nodes /\ e[2] \in Nodes
        BY InvariantParts DEF Follow, HeapTypes
      <4>2. color[e[1]] = "grey"
        BY <1>2, <2>1, <2>2, <4>1
      <4>3. QED
        BY <1>2, <1>4, <2>1, <4>1, <4>2
    <3>4. Covers(Follow, Colored("grey")' \cap Roots, Colored("grey")')
      <4> DEFINE G == Colored("grey")
                 H == Colored("grey")'
      <4>1. H = G \cup {x} /\ x \in H \cap Roots /\ G \cap Roots \subseteq H \cap Roots
        BY <1>2, <2>4
      <4> HIDE DEF G, H, x
      <4>2. Covers(Follow, G \cap Roots, G)
        BY <1>4 DEF G
      <4>3. Covers(Follow, H \cap Roots, G \cup {x})
        BY <4>1, <4>2, CoversGrow
      <4>4. QED
        BY <4>1, <4>3 DEF H
    <3>5. QED
      BY <1>3, <3>1, <3>2, <3>3, <3>4 DEF Marking
  <2>7. Scanned'
    BY <2>2 DEF Scanned
  <2>8. Balance' /\ rc' \in [Nodes -> Nat]
    BY <1>1, <1>3, <2>2, <2>5, KeptCounts
  <2>9. \A n \in Nodes : life[n] = "none" => color'[n] = color[n] /\ rc'[n] = rc[n]
    BY <1>1, <1>2, <2>1
  <2>10. QED
    BY <1>1, <1>2, <2>2, <2>3, <2>6, <2>7, <2>8, <2>9, PassKeeps
<1>6. CASE ~(Entry.tag = "ROOT" /\ color[x] = "purple")
  <2>1. color' = color /\ gc' = [gc EXCEPT !.idx = @ + 1]
    BY <1>6 DEF MarkRoot
  <2>2. /\ gc' \in GcType /\ gc'.phase = "mark" /\ gc'.end = gc.end /\ gc'.idx = gc.idx + 1
        /\ gc'.work = gc.work /\ gc'.bwork = gc.bwork
    BY <1>1, <1>2, <2>1 DEF GcType
  <2>3. Taken' = Taken /\ Colored("grey")' = Colored("grey")
    BY <1>1, <2>1, <2>2 DEF Taken, Colored
  <2>4. color[x] # "purple"
    <3>1. Entry.tag = "ROOT"
      <4>1. gc.idx \in DOMAIN buf /\ Entry = buf[gc.idx]
        BY <1>1, RootEntry, InvariantParts, EntryFacts
      <4>2. QED
        BY <1>1, <4>1, InvariantParts DEF TagsOfPhase
    <3>2. QED
      BY <1>6, <3>1
  <2>5. Marking'
    <3>1. \A n \in Nodes : color[n] = "purple" => addr[n] >= gc'.idx
      <4> SUFFICES ASSUME NEW n \in Nodes, color[n] = "purple" PROVE addr[n] >= gc'.idx
        OBVIOUS
      <4>1. n # x /\ addr[n] # gc.idx /\ addr[n] >= gc.idx
        BY <1>2, <1>4, <2>4
      <4>2. addr[n] \in Nat
        BY <1>2, InvariantParts, BufferFacts DEF BufferInvariant, AddrTypes
      <4>3. QED
        BY <1>2, <2>2, <4>1, <4>2
    <3>2. QED
      BY <1>1, <1>3, <1>4, <2>1, <2>2, <2>3, <3>1 DEF Marking
  <2>6. Scanned'
    BY <2>2 DEF Scanned
  <2>7. Balance' /\ rc' \in [Nodes -> Nat]
    BY <1>1, <1>3, <2>2, <2>3, KeptCounts
  <2>8. QED
    BY <1>1, <1>2, <2>1, <2>2, <2>5, <2>6, <2>7, PassKeeps
<1>7. QED
  BY <1>5, <1>6

\* A run goes on at the same entry, with new work.
LEMMA GcWork ==
  ASSUME gc \in GcType, NEW W \in SUBSET Nodes, NEW B \in SUBSET Nodes,
         \/ gc' = [gc EXCEPT !.work = W, !.bwork = B]
         \/ gc' = [gc EXCEPT !.work = W] /\ B = gc.bwork
         \/ gc' = [gc EXCEPT !.bwork = B] /\ W = gc.work
  PROVE  /\ gc' \in GcType /\ gc'.phase = gc.phase /\ gc'.end = gc.end /\ gc'.idx = gc.idx
         /\ gc'.work = W /\ gc'.bwork = B /\ gc'.dtors = gc.dtors /\ gc'.rerun = gc.rerun
<1>1. gc' = [phase |-> gc.phase, idx |-> gc.idx, end |-> gc.end, dtors |-> gc.dtors,
             rerun |-> gc.rerun, work |-> W, bwork |-> B]
  BY DEF GcType
<1>2. QED
  BY <1>1 DEF GcType

\* What a traversal follows from r.
LEMMA ChildrenFacts ==
  ASSUME CollectorInvariant, NEW r
  PROVE  /\ Children(r) \in SUBSET Nodes
         /\ r \in Nodes => \A m \in Children(r) : <<r, m>> \in Follow /\ life[m] # "none"
         /\ \A e \in Follow : e \in edge /\ e[1] \in Nodes /\ e[2] \in Nodes
         /\ \A e \in Follow : e[1] = r => e[2] \in Children(r)
<1>1. HeapTypes /\ References
  BY InvariantParts
<1>2. Children(r) \in SUBSET Nodes
  BY DEF Children
<1>3. ASSUME r \in Nodes, NEW m \in Children(r) PROVE <<r, m>> \in Follow /\ life[m] # "none"
  <2>1. <<r, m>> \in edge /\ r \in Usable
    BY <1>3 DEF Children, Usable
  <2>2. life[<<r, m>>[2]] # "none"
    BY <1>1, <2>1 DEF References
  <2>3. QED
    BY <2>1, <2>2 DEF Follow
<1>4. \A e \in Follow : e \in edge /\ e[1] \in Nodes /\ e[2] \in Nodes
  BY <1>1 DEF Follow, HeapTypes
<1>5. ASSUME NEW e \in Follow, e[1] = r PROVE e[2] \in Children(r)
  <2>1. e = <<r, e[2]>> /\ e \in edge /\ r \in Usable /\ e[2] \in Nodes
    BY <1>1, <1>5 DEF Follow, HeapTypes
  <2>2. QED
    BY <2>1 DEF Children, Usable
<1>6. QED
  BY <1>2, <1>3, <1>4, <1>5

\* gc_mark_grey, for one node.
LEMMA MarkGreyKeeps ==
  ASSUME CollectorInvariant, NEW r \in Nodes, MarkGrey(r)
  PROVE  CollectorInvariant'
<1>1. /\ Top.at = "run" /\ gc.phase = "mark" /\ r \in gc.work
      /\ UNCHANGED <<heap, addr, buffer, gc_active, stack>>
      /\ color' = [n \in Nodes |-> IF n \in ToMark(r) THEN "grey" ELSE color[n]]
      /\ rc' = [n \in Nodes |-> IF n \in Children(r) THEN rc[n] - 1 ELSE rc[n]]
      /\ gc' = [gc EXCEPT !.work = (@ \ {r}) \cup ToMark(r)]
  BY DEF MarkGrey, Running
<1>2. /\ gc.idx \in Nat /\ 1 <= gc.idx /\ gc \in GcType /\ color \in [Nodes -> Colors]
      /\ gc.work \subseteq Nodes /\ gc.bwork = {}
  BY <1>1, RootEntry, InvariantParts DEF CountTypes, GcType, RunShape
<1>3. UNCHANGED <<life, edge, held, addr, buf>> /\ Follow' = Follow /\ Roots' = Roots
  BY <1>1 DEF heap, buffer, Follow, Usable, Roots
<1>4. /\ \A n \in Nodes : /\ color[n] # "white"
                          /\ color[n] # "black" => life[n] # "none"
                          /\ color[n] = "purple" => addr[n] >= gc.idx
                          /\ addr[n] # 0 => color[n] # "black"
      /\ gc.work \subseteq Colored("grey")
      /\ \A e \in Follow : color[e[1]] = "grey" /\ e[1] \notin gc.work => color[e[2]] = "grey"
      /\ Covers(Follow, Colored("grey") \cap Roots, Colored("grey"))
  BY <1>1, InvariantParts DEF Marking
<1>5. /\ ToMark(r) \in SUBSET Nodes /\ ToMark(r) \subseteq Children(r)
      /\ \A n \in ToMark(r) : color[n] # "grey" /\ life[n] # "none" /\ <<r, n>> \in Follow
      /\ \A n \in Children(r) : n \in ToMark(r) \/ color[n] = "grey"
  BY ChildrenFacts DEF ToMark
<1> DEFINE W == (gc.work \ {r}) \cup ToMark(r)
<1>6. /\ gc' \in GcType /\ gc'.phase = "mark" /\ gc'.end = gc.end /\ gc'.idx = gc.idx
      /\ gc'.work = W /\ gc'.bwork = {}
  <2>1. gc' = [gc EXCEPT !.work = W] /\ W \in SUBSET Nodes
    BY <1>1, <1>2, <1>5
  <2> HIDE DEF W
  <2>2. QED
    BY <1>1, <1>2, <2>1, GcWork
<1>7. color' \in [Nodes -> Colors] /\ color[r] = "grey" /\ r \notin ToMark(r)
  BY <1>1, <1>2, <1>4, <1>5 DEF Colors, Colored
<1>8. Colored("grey")' = Colored("grey") \cup ToMark(r)
  BY <1>1, <1>5 DEF Colored
<1>9. r \notin Taken /\ Taken' = Taken \cup {r}
  <2>1. Taken = Colored("grey") \ gc.work /\ Taken' = Colored("grey")' \ gc'.work
    BY <1>1, <1>6 DEF Taken
  <2>2. r \in Colored("grey")
    BY <1>7 DEF Colored
  <2>3. \A n \in ToMark(r) : n \notin Colored("grey")
    BY <1>5 DEF Colored
  <2>4. QED
    BY <1>1, <1>6, <1>8, <2>1, <2>2, <2>3
<1>10. Balance' /\ rc' \in [Nodes -> Nat]
  BY <1>1, <1>3, <1>6, <1>9, TakenBack
<1>11. Marking'
  <2>1. \A n \in Nodes : /\ color'[n] # "white"
                         /\ color'[n] # "black" => life[n] # "none"
                         /\ color'[n] = "purple" => addr[n] >= gc'.idx
                         /\ addr[n] # 0 => color'[n] # "black"
    BY <1>1, <1>4, <1>5, <1>6
  <2>2. gc'.work \subseteq Colored("grey")'
    BY <1>4, <1>6, <1>8
  <2>3. \A e \in Follow : color'[e[1]] = "grey" /\ e[1] \notin gc'.work => color'[e[2]] = "grey"
    <3> SUFFICES ASSUME NEW e \in Follow, color'[e[1]] = "grey", e[1] \notin gc'.work
                 PROVE  color'[e[2]] = "grey"
      OBVIOUS
    <3>1. e[1] \in Nodes /\ e[2] \in Nodes /\ (e[1] = r => e[2] \in Children(r))
      BY ChildrenFacts
    <3>2. color[e[1]] = "grey" /\ e[1] \notin gc.work \ {r}
      BY <1>1, <1>6, <3>1
    <3>3. color[e[2]] = "grey" \/ e[2] \in ToMark(r)
      BY <1>4, <1>5, <3>1, <3>2
    <3>4. QED
      BY <1>1, <3>1, <3>3
  <2>4. Covers(Follow, Colored("grey")' \cap Roots, Colored("grey")')
    <3> DEFINE G == Colored("grey")
               H == Colored("grey")'
    <3>1. H = G \cup ToMark(r) /\ G \cap Roots \subseteq H \cap Roots
      BY <1>8
    <3>2. \A d \in ToMark(r) : \E e \in Follow : e[1] \in G /\ e[2] = d
      <4> SUFFICES ASSUME NEW d \in ToMark(r) PROVE \E e \in Follow : e[1] \in G /\ e[2] = d
        OBVIOUS
      <4>1. <<r, d>> \in Follow /\ r \in G /\ <<r, d>>[1] = r /\ <<r, d>>[2] = d
        BY <1>5, <1>7 DEF Colored
      <4>2. QED
        BY <4>1
    <3> HIDE DEF G, H
    <3>3. Covers(Follow, G \cap Roots, G)
      BY <1>4 DEF G
    <3>4. Covers(Follow, H \cap Roots, G \cup ToMark(r))
      BY <3>1, <3>2, <3>3, CoversGrow
    <3>5. QED
      BY <3>1, <3>4 DEF H
  <2>5. QED
    BY <1>3, <2>1, <2>2, <2>3, <2>4 DEF Marking
<1>12. Scanned'
  BY <1>6 DEF Scanned
<1>13. \A n \in Nodes : life[n] = "none" => color'[n] = color[n] /\ rc'[n] = rc[n]
  BY <1>1, <1>5, ChildrenFacts
<1>14. QED
  BY <1>1, <1>2, <1>6, <1>7, <1>10, <1>11, <1>12, <1>13, PassKeeps

\* On to scanning.
LEMMA EndMarkKeeps ==
  ASSUME CollectorInvariant, EndMark
  PROVE  CollectorInvariant'
<1>1. /\ Top.at = "run" /\ gc.phase = "mark" /\ gc.work = {} /\ gc.bwork = {} /\ gc.idx > gc.end
      /\ gc' = [gc EXCEPT !.phase = "scan", !.idx = 1]
      /\ UNCHANGED <<heap, rc, color, addr, buffer, gc_active, stack>>
  BY DEF EndMark, NextLoop, Running, NoWork, counts
<1>2. /\ gc.idx \in Nat /\ gc.end \in Nat /\ gc \in GcType /\ color \in [Nodes -> Colors]
      /\ \A n \in Roots : addr[n] <= gc.end /\ addr[n] >= 1 /\ addr[n] \in Nat
  BY <1>1, RootEntry, InvariantParts DEF CountTypes
<1>3. UNCHANGED <<life, edge, held, addr, buf>> /\ Follow' = Follow /\ Roots' = Roots
      /\ \A c : Colored(c)' = Colored(c)
  BY <1>1 DEF heap, buffer, Follow, Usable, Roots, Colored
<1>4. /\ \A n \in Nodes : /\ color[n] # "white"
                          /\ color[n] # "black" => life[n] # "none"
                          /\ color[n] = "purple" => addr[n] >= gc.idx
      /\ Covers(Follow, Colored("grey") \cap Roots, Colored("grey"))
  BY <1>1, InvariantParts DEF Marking
<1>5. /\ gc' \in GcType /\ gc'.phase = "scan" /\ gc'.end = gc.end /\ gc'.idx = 1
      /\ gc'.work = {} /\ gc'.bwork = {}
  BY <1>1, <1>2 DEF GcType, Phases
<1>6. Colored("white") = {} /\ \A n \in Nodes : color[n] # "purple"
  <2>1. \A n \in Nodes : addr[n] \in Nat /\ (addr[n] # 0 => addr[n] <= gc.end)
    BY <1>2, InvariantParts, BufferFacts DEF BufferInvariant, AddrTypes, Roots
  <2>2. \A n \in Nodes : addr[n] >= gc.idx => FALSE
    BY <1>1, <1>2, <2>1, RootEntry
  <2>3. QED
    BY <1>4, <2>2 DEF Colored
<1>7. Taken' = Taken
  BY <1>1, <1>3, <1>5, <1>6 DEF Taken
<1>8. Balance' /\ rc' \in [Nodes -> Nat]
  BY <1>1, <1>3, <1>5, <1>7, KeptCounts
<1>9. Scanned'
  <2>1. RootsFrom(gc.idx)' = Roots
    BY <1>2, <1>3, <1>5 DEF RootsFrom, Roots
  <2>2. Covers(Follow, (Colored("grey") \cap RootsFrom(gc.idx)') \cup (Colored("white") \cap gc'.work) \cup gc'.bwork,
               Colored("grey"))
    BY <1>4, <2>1, CoversMore
  <2>3. Covers(Follow, (Colored("white") \cap Roots) \cup gc'.bwork, Colored("white"))
    BY <1>6, CoversEmpty
  <2>4. \A n \in Nodes : color[n] # "white"
    BY <1>4
  <2>5. QED
    BY <1>1, <1>3, <1>4, <1>5, <1>6, <2>2, <2>3 DEF Scanned
<1>10. Marking'
  BY <1>5 DEF Marking
<1>11. QED
  BY <1>1, <1>2, <1>5, <1>8, <1>9, <1>10, PassKeeps

----------------------------------------------------------------------------
(* Scanning.                                                               *)

\* Where scanning can still reach grey nodes from, and white ones.
GreyFrom  == (Colored("grey") \cap RootsFrom(gc.idx)) \cup (Colored("white") \cap gc.work) \cup gc.bwork
WhiteFrom == (Colored("white") \cap Roots) \cup gc.bwork

\* What the invariant says of scanning, and of its step.
LEMMA ScanFacts ==
  ASSUME CollectorInvariant, gc.phase = "scan",
         UNCHANGED <<heap, addr, buffer, gc_active, stack>>, gc'.phase = "scan"
  PROVE  /\ gc.idx \in Nat /\ 1 <= gc.idx /\ gc.end \in Nat /\ gc \in GcType /\ color \in [Nodes -> Colors]
         /\ gc.work \subseteq Nodes /\ gc.bwork \subseteq Nodes
         /\ UNCHANGED <<life, edge, held, addr, buf>> /\ Follow' = Follow /\ Roots' = Roots
         /\ \A n \in Nodes : /\ color[n] # "purple"
                             /\ color[n] # "black" => life[n] # "none"
                             /\ color[n] = "white" /\ n \notin gc.work => rc[n] = 0
         /\ gc.work \cap Colored("grey") = {} /\ gc.bwork \subseteq Colored("black")
         /\ Covers(Follow, GreyFrom, Colored("grey")) /\ Covers(Follow, WhiteFrom, Colored("white"))
         /\ GreyFrom \in SUBSET Nodes /\ WhiteFrom \in SUBSET Nodes
         /\ Colored("grey") \in SUBSET Nodes /\ Colored("white") \in SUBSET Nodes
         /\ Taken = Colored("grey") \cup Colored("white") \cup gc.bwork
         /\ Taken' = Colored("grey")' \cup Colored("white")' \cup gc'.bwork
         /\ Marking'
         /\ GreyFrom' = (Colored("grey")' \cap RootsFrom(gc'.idx)) \cup (Colored("white")' \cap gc'.work) \cup gc'.bwork
         /\ WhiteFrom' = (Colored("white")' \cap Roots) \cup gc'.bwork
<1>1. /\ gc.idx \in Nat /\ 1 <= gc.idx /\ gc.end \in Nat /\ gc \in GcType /\ color \in [Nodes -> Colors]
      /\ gc.work \subseteq Nodes /\ gc.bwork \subseteq Nodes
  BY RootEntry, InvariantParts, GcFields DEF CountTypes, GcTypes
<1>2. UNCHANGED <<life, edge, held, addr, buf>> /\ Follow' = Follow /\ Roots' = Roots
  BY DEF heap, buffer, Follow, Usable, Roots
<1>3. /\ \A n \in Nodes : /\ color[n] # "purple"
                          /\ color[n] # "black" => life[n] # "none"
                          /\ color[n] = "white" /\ n \notin gc.work => rc[n] = 0
      /\ gc.work \cap Colored("grey") = {} /\ gc.bwork \subseteq Colored("black")
      /\ Covers(Follow, GreyFrom, Colored("grey")) /\ Covers(Follow, WhiteFrom, Colored("white"))
  BY InvariantParts DEF Scanned, GreyFrom, WhiteFrom
<1>4. /\ GreyFrom \in SUBSET Nodes /\ WhiteFrom \in SUBSET Nodes
      /\ Colored("grey") \in SUBSET Nodes /\ Colored("white") \in SUBSET Nodes
  BY <1>1 DEF GreyFrom, WhiteFrom, Colored
<1>5. /\ Taken = Colored("grey") \cup Colored("white") \cup gc.bwork
      /\ Taken' = Colored("grey")' \cup Colored("white")' \cup gc'.bwork
      /\ Marking'
  BY DEF Taken, Marking
<1>6. /\ GreyFrom' = (Colored("grey")' \cap RootsFrom(gc'.idx)) \cup (Colored("white")' \cap gc'.work) \cup gc'.bwork
      /\ WhiteFrom' = (Colored("white")' \cap Roots) \cup gc'.bwork
  BY <1>2 DEF GreyFrom, WhiteFrom, RootsFrom
<1>7. QED
  BY <1>1, <1>2, <1>3, <1>4, <1>5, <1>6

\* The next root is scanned.
LEMMA ScanRootKeeps ==
  ASSUME CollectorInvariant, ScanRoot
  PROVE  CollectorInvariant'
<1>1. /\ Top.at = "run" /\ gc.phase = "scan" /\ gc.work = {} /\ gc.bwork = {} /\ gc.idx <= gc.end
      /\ UNCHANGED <<heap, rc, addr, buffer, gc_active, stack>>
  BY DEF ScanRoot, Scanning, Running, NoWork
<1> DEFINE x == Entry.ref
           b == Entry.tag = "ROOT" /\ color[x] = "grey"
           W == IF b THEN {x} ELSE {}
<1>2. /\ x \in Nodes /\ x \in Roots /\ addr[x] = gc.idx
      /\ (\A n \in Nodes : addr[n] = gc.idx => n = x)
      /\ (\A n \in Roots : addr[n] \in Nat)
  BY <1>1, RootEntry
<1>3. Entry.tag = "ROOT"
  <2>1. gc.idx \in DOMAIN buf /\ Entry = buf[gc.idx]
    BY <1>1, RootEntry, InvariantParts, EntryFacts
  <2>2. QED
    BY <1>1, <2>1, InvariantParts DEF TagsOfPhase
<1>4. b <=> color[x] = "grey"
  BY <1>3
<1>5. /\ gc' = [gc EXCEPT !.idx = @ + 1, !.work = W]
      /\ color' = [n \in Nodes |-> IF n \in W THEN "white" ELSE color[n]]
  <2>1. color \in [Nodes -> Colors] /\ gc \in GcType
    BY InvariantParts DEF CountTypes, GcTypes
  <2>2. CASE b
    BY <1>2, <2>1, <2>2 DEF ScanRoot
  <2>3. CASE ~b
    <3>1. gc' = [gc EXCEPT !.idx = @ + 1] /\ color' = color /\ W = {}
      BY <2>3 DEF ScanRoot
    <3>2. [gc EXCEPT !.idx = @ + 1] = [gc EXCEPT !.idx = @ + 1, !.work = {}]
      BY <1>1, <2>1 DEF GcType
    <3>3. QED
      BY <2>1, <3>1, <3>2
  <2>4. QED
    BY <2>2, <2>3
<1>6. W \in SUBSET Nodes /\ W \subseteq Roots /\ (\A n \in W : color[n] = "grey" /\ n = x) /\ (x \notin W => color[x] # "grey")
  BY <1>2, <1>4
<1> HIDE DEF W, b, x
<1>7. /\ gc' \in GcType /\ gc'.phase = "scan" /\ gc'.end = gc.end /\ gc'.idx = gc.idx + 1
      /\ gc'.work = W /\ gc'.bwork = {}
  <2>1. gc \in GcType
    BY InvariantParts DEF GcTypes
  <2>2. QED
    BY <1>1, <1>5, <1>6, <2>1, GcNext
<1>8. /\ gc.idx \in Nat /\ 1 <= gc.idx /\ gc.end \in Nat /\ color \in [Nodes -> Colors]
      /\ UNCHANGED <<life, edge, held, addr, buf>> /\ Follow' = Follow /\ Roots' = Roots
      /\ \A n \in Nodes : /\ color[n] # "purple"
                          /\ color[n] # "black" => life[n] # "none"
                          /\ color[n] = "white" /\ n \notin gc.work => rc[n] = 0
      /\ Covers(Follow, GreyFrom, Colored("grey")) /\ Covers(Follow, WhiteFrom, Colored("white"))
      /\ GreyFrom \in SUBSET Nodes /\ WhiteFrom \in SUBSET Nodes
      /\ Colored("grey") \in SUBSET Nodes /\ Colored("white") \in SUBSET Nodes
      /\ Taken = Colored("grey") \cup Colored("white") \cup gc.bwork
      /\ Taken' = Colored("grey")' \cup Colored("white")' \cup gc'.bwork
      /\ Marking'
      /\ GreyFrom' = (Colored("grey")' \cap RootsFrom(gc'.idx)) \cup (Colored("white")' \cap gc'.work) \cup gc'.bwork
      /\ WhiteFrom' = (Colored("white")' \cap Roots) \cup gc'.bwork
  BY <1>1, <1>7, ScanFacts
<1>9. /\ Colored("grey")' = Colored("grey") \ W /\ Colored("white")' = Colored("white") \cup W
      /\ W \subseteq Colored("grey") /\ color' \in [Nodes -> Colors]
  BY <1>5, <1>6, <1>8 DEF Colored, Colors
<1>10. Balance' /\ rc' \in [Nodes -> Nat]
  <2>1. Taken' = Taken
    BY <1>1, <1>7, <1>8, <1>9
  <2>2. QED
    BY <1>1, <1>7, <1>8, <2>1, KeptCounts
<1>11. Covers(Follow, GreyFrom', Colored("grey")')
  <2>1. GreyFrom \subseteq GreyFrom' \cup W
    <3> SUFFICES ASSUME NEW n \in GreyFrom PROVE n \in GreyFrom' \cup W
      OBVIOUS
    <3>1. n \in Colored("grey") /\ n \in RootsFrom(gc.idx) /\ n \in Nodes
      BY <1>1, <1>8 DEF GreyFrom
    <3>2. addr[n] \in Nat /\ addr[n] >= gc.idx /\ addr[n] # 0
      BY <1>2, <3>1 DEF RootsFrom, Roots
    <3>3. CASE n = x
      BY <1>6, <3>1, <3>3 DEF Colored
    <3>4. CASE n # x
      <4>1. addr[n] # gc.idx
        BY <1>2, <3>1, <3>4
      <4>2. n \in RootsFrom(gc'.idx)
        BY <1>7, <1>8, <3>1, <3>2, <4>1 DEF RootsFrom
      <4>3. QED
        BY <1>8, <1>9, <3>1, <4>2
    <3>5. QED
      BY <3>3, <3>4
  <2>2. W \subseteq GreyFrom'
    BY <1>7, <1>8, <1>9
  <2> DEFINE Q == GreyFrom'
             C == Colored("grey")
             D == Colored("grey")'
             P == GreyFrom
  <2>3. D = C \ W /\ P \subseteq Q \cup W /\ W \subseteq Q /\ Covers(Follow, P, C) /\ P \in SUBSET Nodes /\ C \in SUBSET Nodes
    BY <1>8, <1>9, <2>1, <2>2
  <2> HIDE DEF Q, C, D, P
  <2>4. Covers(Follow, Q, C \ W)
    BY <2>3, CoversLess
  <2>5. QED
    BY <2>3, <2>4 DEF Q, D
<1>12. Covers(Follow, WhiteFrom', Colored("white")')
  <2> DEFINE Q == WhiteFrom'
             C == Colored("white")
             D == Colored("white")'
             P == WhiteFrom
  <2>1. D = C \cup W /\ P \subseteq Q /\ W \subseteq Q /\ Covers(Follow, P, C)
    BY <1>1, <1>6, <1>8, <1>9 DEF WhiteFrom
  <2> HIDE DEF Q, C, D, P
  <2>2. Covers(Follow, Q, C \cup W)
    BY <2>1, CoversGrow
  <2>3. QED
    BY <2>1, <2>2 DEF Q, D
<1>13. Scanned'
  <2>1. \A n \in Nodes : /\ color'[n] # "purple"
                         /\ color'[n] # "black" => life[n] # "none"
                         /\ color'[n] = "white" /\ n \notin gc'.work => rc[n] = 0
    BY <1>1, <1>5, <1>6, <1>7, <1>8
  <2>2. gc'.work \cap Colored("grey")' = {} /\ gc'.bwork \subseteq Colored("black")'
    BY <1>7, <1>9
  <2>3. QED
    BY <1>1, <1>8, <1>11, <1>12, <2>1, <2>2 DEF Scanned, GreyFrom, WhiteFrom
<1>14. \A n \in Nodes : life[n] = "none" => color'[n] = color[n] /\ rc'[n] = rc[n]
  BY <1>1, <1>5, <1>6, <1>8
<1>15. QED
  BY <1>1, <1>7, <1>8, <1>9, <1>10, <1>13, <1>14, PassKeeps

\* gc_scan, for one node.
LEMMA ScanKeeps ==
  ASSUME CollectorInvariant, NEW r \in Nodes, Scan(r)
  PROVE  CollectorInvariant'
<1>1. /\ Top.at = "run" /\ gc.phase = "scan" /\ r \in gc.work /\ gc.bwork = {} /\ gc \in GcType
      /\ UNCHANGED <<heap, rc, addr, buffer, gc_active, stack>>
  BY InvariantParts DEF Scan, Running, GcTypes
<1> DEFINE new == {n \in Children(r) : color[n] = "grey"}
           Black == color[r] = "white" /\ rc[r] > 0
           White == color[r] = "white" /\ rc[r] = 0
<1>2. \/ /\ color[r] # "white" /\ color' = color /\ gc' = [gc EXCEPT !.work = @ \ {r}]
      \/ /\ Black /\ color' = [color EXCEPT ![r] = "black"]
         /\ gc' = [gc EXCEPT !.work = @ \ {r}, !.bwork = {r}]
      \/ /\ White /\ color' = [n \in Nodes |-> IF n \in new THEN "white" ELSE color[n]]
         /\ gc' = [gc EXCEPT !.work = (@ \ {r}) \cup new]
  BY DEF Scan
<1> DEFINE W == IF White THEN (gc.work \ {r}) \cup new ELSE gc.work \ {r}
           B == IF Black THEN {r} ELSE {}
<1>3. new \in SUBSET Nodes /\ gc.work \subseteq Nodes /\ W \in SUBSET Nodes /\ B \in SUBSET Nodes
  BY <1>1, ChildrenFacts DEF GcType
<1>4. /\ gc' \in GcType /\ gc'.phase = "scan" /\ gc'.end = gc.end /\ gc'.idx = gc.idx
      /\ gc'.work = W /\ gc'.bwork = B
  <2>1. \/ gc' = [gc EXCEPT !.work = W, !.bwork = B]
        \/ gc' = [gc EXCEPT !.work = W] /\ B = gc.bwork
    <3>1. CASE color[r] # "white"
      BY <1>1, <1>2, <3>1
    <3>2. CASE Black
      <4>1. ~White
        BY <3>2
      <4>2. gc' = [gc EXCEPT !.work = @ \ {r}, !.bwork = {r}]
        BY <1>2, <3>2, <4>1
      <4>3. W = gc.work \ {r} /\ B = {r}
        BY <3>2, <4>1
      <4> HIDE DEF W, B
      <4>4. QED
        BY <4>2, <4>3
    <3>3. CASE White
      <4>1. ~Black
        BY <3>3
      <4>2. gc' = [gc EXCEPT !.work = (@ \ {r}) \cup new]
        BY <1>2, <3>3, <4>1
      <4>3. W = (gc.work \ {r}) \cup new /\ B = {}
        BY <3>3, <4>1
      <4> HIDE DEF W, B
      <4>4. QED
        BY <1>1, <4>2, <4>3
    <3>4. QED
      BY <1>2, <3>1, <3>2, <3>3
  <2> HIDE DEF W, B
  <2>2. QED
    BY <1>1, <1>3, <2>1, GcWork
<1>5. /\ gc.idx \in Nat /\ 1 <= gc.idx /\ gc.end \in Nat /\ color \in [Nodes -> Colors]
      /\ UNCHANGED <<life, edge, held, addr, buf>> /\ Follow' = Follow /\ Roots' = Roots
      /\ \A n \in Nodes : /\ color[n] # "purple"
                          /\ color[n] # "black" => life[n] # "none"
                          /\ color[n] = "white" /\ n \notin gc.work => rc[n] = 0
      /\ gc.work \cap Colored("grey") = {}
      /\ Covers(Follow, GreyFrom, Colored("grey")) /\ Covers(Follow, WhiteFrom, Colored("white"))
      /\ GreyFrom \in SUBSET Nodes /\ WhiteFrom \in SUBSET Nodes
      /\ Colored("grey") \in SUBSET Nodes /\ Colored("white") \in SUBSET Nodes
      /\ Taken = Colored("grey") \cup Colored("white") \cup gc.bwork
      /\ Taken' = Colored("grey")' \cup Colored("white")' \cup gc'.bwork
      /\ Marking'
      /\ GreyFrom' = (Colored("grey")' \cap RootsFrom(gc'.idx)) \cup (Colored("white")' \cap gc'.work) \cup gc'.bwork
      /\ WhiteFrom' = (Colored("white")' \cap Roots) \cup gc'.bwork
      /\ GreyFrom = (Colored("grey") \cap RootsFrom(gc.idx)) \cup (Colored("white") \cap gc.work)
      /\ WhiteFrom = Colored("white") \cap Roots
      /\ rc \in [Nodes -> Nat]
  BY <1>1, <1>4, ScanFacts, InvariantParts DEF GreyFrom, WhiteFrom, CountTypes
<1>6. \A n \in Nodes : /\ n \in Colored("grey") <=> color[n] = "grey"
                       /\ n \in Colored("white") <=> color[n] = "white"
                       /\ n \in Colored("grey")' <=> color'[n] = "grey"
                       /\ n \in Colored("white")' <=> color'[n] = "white"
                       /\ n \in Colored("black")' <=> color'[n] = "black"
  BY DEF Colored
<1>7. /\ color' \in [Nodes -> Colors]
      /\ Covers(Follow, GreyFrom', Colored("grey")') /\ Covers(Follow, WhiteFrom', Colored("white")')
      /\ \A n \in Nodes : /\ color'[n] # "purple"
                          /\ color'[n] # "black" => life[n] # "none"
                          /\ color'[n] = "white" /\ n \notin W => rc[n] = 0
      /\ W \cap Colored("grey")' = {} /\ B \subseteq Colored("black")'
      /\ Taken' = Taken
      /\ \A n \in Nodes : life[n] = "none" => color'[n] = color[n]
  <2>1. CASE color[r] # "white"
    <3>1. color' = color /\ W = gc.work \ {r} /\ B = {}
      BY <1>2, <2>1
    <3>2. \A c : Colored(c)' = Colored(c)
      BY <3>1 DEF Colored
    <3>3. Colored("white") \cap W = Colored("white") \cap gc.work
      BY <1>6, <2>1, <3>1
    <3>4. GreyFrom' = GreyFrom /\ WhiteFrom' = WhiteFrom
      BY <1>4, <1>5, <3>1, <3>2, <3>3
    <3> HIDE DEF W, B
    <3>5. \A n \in Nodes : color[n] = "white" /\ n \notin W => rc[n] = 0
      BY <1>5, <1>6, <3>3
    <3>6. Taken' = Taken
      BY <1>1, <1>4, <1>5, <3>1, <3>2
    <3>7. W \cap Colored("grey")' = {} /\ B \subseteq Colored("black")'
      BY <1>5, <3>1, <3>2
    <3>8. QED
      BY <1>5, <3>1, <3>2, <3>4, <3>5, <3>6, <3>7
  <2>2. CASE Black
    <3>1. color' = [color EXCEPT ![r] = "black"] /\ W = gc.work \ {r} /\ B = {r}
      BY <1>2, <2>2, <1>5
    <3>2. /\ Colored("grey")' = Colored("grey") /\ Colored("white")' = Colored("white") \ {r}
          /\ color' \in [Nodes -> Colors] /\ color'[r] = "black" /\ r \in Colored("white")
      BY <1>5, <2>2, <3>1 DEF Colored, Colors
    <3> HIDE DEF W, B
    <3>3. GreyFrom \subseteq GreyFrom' /\ WhiteFrom \subseteq WhiteFrom' \cup {r} /\ r \in WhiteFrom'
      BY <1>4, <1>5, <3>1, <3>2
    <3>4. Covers(Follow, GreyFrom', Colored("grey")')
      <4> DEFINE Q == GreyFrom'
                 C == Colored("grey")
                 P == GreyFrom
      <4>1. P \subseteq Q /\ Covers(Follow, P, C)
        BY <1>5, <3>3
      <4> HIDE DEF Q, C, P
      <4>2. Covers(Follow, Q, C)
        BY <4>1, CoversMore
      <4>3. QED
        BY <3>2, <4>2 DEF Q, C
    <3>5. Covers(Follow, WhiteFrom', Colored("white")')
      <4> DEFINE Q == WhiteFrom'
                 C == Colored("white")
                 P == WhiteFrom
      <4>1. P \subseteq Q \cup {r} /\ Covers(Follow, P, C) /\ P \in SUBSET Nodes /\ C \in SUBSET Nodes
            /\ \A e \in Follow : e[1] \in {r} /\ e[2] \in C \ {r} => e[1] \in Q \/ e[2] \in Q
        BY <1>5, <3>3
      <4> HIDE DEF Q, C, P
      <4>2. Covers(Follow, Q, C \ {r})
        BY <4>1, CoversLess
      <4>3. QED
        BY <3>2, <4>2 DEF Q, C
    <3>6. \A n \in Nodes : /\ color'[n] # "purple"
                           /\ color'[n] # "black" => life[n] # "none"
                           /\ color'[n] = "white" /\ n \notin W => rc[n] = 0
      BY <1>5, <3>1, <3>2
    <3>7. W \cap Colored("grey")' = {} /\ B \subseteq Colored("black")'
      BY <1>5, <1>6, <3>1, <3>2
    <3>8. Taken' = Taken
      BY <1>1, <1>4, <1>5, <3>1, <3>2
    <3>9. \A n \in Nodes : life[n] = "none" => color'[n] = color[n]
      BY <1>5, <2>2, <3>1
    <3>10. QED
      BY <3>2, <3>4, <3>5, <3>6, <3>7, <3>8, <3>9
  <2>3. CASE White
    <3>1. /\ color' = [n \in Nodes |-> IF n \in new THEN "white" ELSE color[n]]
          /\ W = (gc.work \ {r}) \cup new /\ B = {}
      BY <1>2, <2>3, <1>5
    <3>2. /\ \A n \in new : <<r, n>> \in Follow /\ life[n] # "none" /\ color[n] = "grey"
          /\ \A e \in Follow : e[1] = r => e[2] \in new \/ color[e[2]] # "grey"
          /\ \A e \in Follow : e[2] \in Nodes
      BY ChildrenFacts
    <3> HIDE DEF new, W, B
    <3>3. /\ Colored("grey")' = Colored("grey") \ new /\ Colored("white")' = Colored("white") \cup new
          /\ color' \in [Nodes -> Colors] /\ new \subseteq Colored("grey") /\ r \in Colored("white")
      BY <1>3, <1>5, <2>3, <3>1, <3>2 DEF Colored, Colors
    <3>4. /\ GreyFrom \subseteq GreyFrom' \cup new \cup {r} /\ new \subseteq GreyFrom'
          /\ WhiteFrom \subseteq WhiteFrom'
      BY <1>4, <1>5, <3>1, <3>3
    <3>5. Covers(Follow, GreyFrom', Colored("grey")')
      <4> DEFINE Q == GreyFrom'
                 C == Colored("grey")
                 P == GreyFrom
                 D == new \cup {r}
      <4>1. P \subseteq Q \cup D /\ Covers(Follow, P, C) /\ P \in SUBSET Nodes /\ C \in SUBSET Nodes
        BY <1>5, <3>4
      <4>2. \A e \in Follow : e[1] \in D /\ e[2] \in C \ D => e[1] \in Q \/ e[2] \in Q
        BY <1>6, <3>2, <3>4
      <4>3. Colored("grey")' = C \ D
        BY <1>6, <2>3, <3>3
      <4> HIDE DEF Q, C, P, D
      <4>4. Covers(Follow, Q, C \ D)
        BY <4>1, <4>2, CoversLess
      <4>5. QED
        BY <4>3, <4>4 DEF Q
    <3>6. Covers(Follow, WhiteFrom', Colored("white")')
      <4> DEFINE Q == WhiteFrom'
                 C == Colored("white")
                 P == WhiteFrom
      <4>1. \A d \in new : \E e \in Follow : e[1] \in C /\ e[2] = d
        <5> SUFFICES ASSUME NEW d \in new PROVE \E e \in Follow : e[1] \in C /\ e[2] = d
          OBVIOUS
        <5>1. <<r, d>> \in Follow /\ <<r, d>>[1] = r /\ <<r, d>>[2] = d /\ r \in C
          BY <3>2, <3>3
        <5>2. QED
          BY <5>1
      <4>2. P \subseteq Q /\ Covers(Follow, P, C)
        BY <1>5, <3>4
      <4> HIDE DEF Q, C, P
      <4>3. Covers(Follow, Q, C \cup new)
        BY <4>1, <4>2, CoversGrow
      <4>4. QED
        BY <3>3, <4>3 DEF Q, C
    <3>7. \A n \in Nodes : /\ color'[n] # "purple"
                           /\ color'[n] # "black" => life[n] # "none"
                           /\ color'[n] = "white" /\ n \notin W => rc[n] = 0
      BY <1>5, <2>3, <3>1, <3>2
    <3>8. W \cap Colored("grey")' = {} /\ B \subseteq Colored("black")'
      BY <1>5, <3>1, <3>3
    <3>9. Taken' = Taken
      BY <1>1, <1>4, <1>5, <3>1, <3>3
    <3>10. \A n \in Nodes : life[n] = "none" => color'[n] = color[n]
      BY <3>1, <3>2
    <3>11. QED
      BY <3>3, <3>5, <3>6, <3>7, <3>8, <3>9, <3>10
  <2>4. QED
    BY <1>2, <2>1, <2>2, <2>3
<1> HIDE DEF W, B
<1>8. Balance' /\ rc' \in [Nodes -> Nat]
  BY <1>1, <1>4, <1>5, <1>7, KeptCounts
<1>9. Scanned'
  BY <1>1, <1>4, <1>5, <1>7 DEF Scanned, GreyFrom, WhiteFrom
<1>10. QED
  BY <1>1, <1>4, <1>5, <1>7, <1>8, <1>9, PassKeeps

\* gc_scan_black, for one node.
LEMMA ScanBlackKeeps ==
  ASSUME CollectorInvariant, NEW r \in Nodes, ScanBlack(r)
  PROVE  CollectorInvariant'
<1> DEFINE new == {n \in Children(r) : color[n] # "black"}
           B == (gc.bwork \ {r}) \cup new
<1>1. /\ Top.at = "run" /\ gc.phase = "scan" /\ r \in gc.bwork /\ gc \in GcType
      /\ UNCHANGED <<heap, addr, buffer, gc_active, stack>>
      /\ rc' = Restored(r)
      /\ color' = [n \in Nodes |-> IF n \in new THEN "black" ELSE color[n]]
      /\ gc' = [gc EXCEPT !.bwork = B]
  BY InvariantParts DEF ScanBlack, Running, GcTypes
<1>2. new \in SUBSET Nodes /\ gc.work \in SUBSET Nodes /\ B \in SUBSET Nodes
  BY <1>1, ChildrenFacts DEF GcType
<1>3. /\ \A n \in new : <<r, n>> \in Follow /\ life[n] # "none" /\ color[n] # "black"
      /\ \A e \in Follow : e[1] = r => e[2] \in new \/ color[e[2]] = "black"
      /\ \A e \in Follow : e[2] \in Nodes
      /\ \A n \in Children(r) : n \in new \/ color[n] = "black"
      /\ \A n \in Children(r) : life[n] # "none"
  BY ChildrenFacts
<1> HIDE DEF new
<1>4. /\ gc' \in GcType /\ gc'.phase = "scan" /\ gc'.end = gc.end /\ gc'.idx = gc.idx
      /\ gc'.work = gc.work /\ gc'.bwork = B
  <2> HIDE DEF B
  <2>1. QED
    BY <1>1, <1>2, GcWork
<1>5. /\ gc.idx \in Nat /\ 1 <= gc.idx /\ gc.end \in Nat /\ color \in [Nodes -> Colors]
      /\ UNCHANGED <<life, edge, held, addr, buf>> /\ Follow' = Follow /\ Roots' = Roots
      /\ \A n \in Nodes : /\ color[n] # "purple"
                          /\ color[n] # "black" => life[n] # "none"
                          /\ color[n] = "white" /\ n \notin gc.work => rc[n] = 0
      /\ gc.work \cap Colored("grey") = {} /\ gc.bwork \subseteq Colored("black")
      /\ Covers(Follow, GreyFrom, Colored("grey")) /\ Covers(Follow, WhiteFrom, Colored("white"))
      /\ GreyFrom \in SUBSET Nodes /\ WhiteFrom \in SUBSET Nodes
      /\ Colored("grey") \in SUBSET Nodes /\ Colored("white") \in SUBSET Nodes
      /\ Taken = Colored("grey") \cup Colored("white") \cup gc.bwork
      /\ Taken' = Colored("grey")' \cup Colored("white")' \cup gc'.bwork
      /\ Marking'
      /\ GreyFrom' = (Colored("grey")' \cap RootsFrom(gc'.idx)) \cup (Colored("white")' \cap gc'.work) \cup gc'.bwork
      /\ WhiteFrom' = (Colored("white")' \cap Roots) \cup gc'.bwork
      /\ GreyFrom = (Colored("grey") \cap RootsFrom(gc.idx)) \cup (Colored("white") \cap gc.work) \cup gc.bwork
      /\ WhiteFrom = (Colored("white") \cap Roots) \cup gc.bwork
  BY <1>1, <1>4, ScanFacts DEF GreyFrom, WhiteFrom
<1>6. \A n \in Nodes : /\ n \in Colored("grey") <=> color[n] = "grey"
                       /\ n \in Colored("white") <=> color[n] = "white"
                       /\ n \in Colored("black") <=> color[n] = "black"
                       /\ n \in Colored("black")' <=> color'[n] = "black"
  BY DEF Colored
<1>7. /\ Colored("grey")' = Colored("grey") \ new /\ Colored("white")' = Colored("white") \ new
      /\ color' \in [Nodes -> Colors] /\ r \in Colored("black") /\ color[r] = "black"
      /\ new \subseteq Colored("grey") \cup Colored("white")
  <2>1. r \in Colored("black") /\ color[r] = "black"
    BY <1>1, <1>5, <1>6
  <2>2. Colored("grey")' = Colored("grey") \ new /\ Colored("white")' = Colored("white") \ new
    BY <1>1 DEF Colored
  <2>3. color' \in [Nodes -> Colors]
    BY <1>1, <1>5 DEF Colors
  <2>4. new \subseteq Colored("grey") \cup Colored("white")
    BY <1>2, <1>3, <1>5, <1>6 DEF Colors
  <2>5. QED
    BY <2>1, <2>2, <2>3, <2>4
<1>8. /\ GreyFrom \subseteq GreyFrom' \cup (new \cup {r}) /\ new \subseteq GreyFrom'
      /\ WhiteFrom \subseteq WhiteFrom' \cup (new \cup {r}) /\ new \subseteq WhiteFrom'
  BY <1>4, <1>5, <1>7
<1>9. Covers(Follow, GreyFrom', Colored("grey")')
  <2> DEFINE Q == GreyFrom'
             C == Colored("grey")
             P == GreyFrom
             D == new \cup {r}
  <2>1. P \subseteq Q \cup D /\ Covers(Follow, P, C) /\ P \in SUBSET Nodes /\ C \in SUBSET Nodes
    BY <1>5, <1>8
  <2>2. \A e \in Follow : e[1] \in D /\ e[2] \in C \ D => e[1] \in Q \/ e[2] \in Q
    BY <1>3, <1>6, <1>8
  <2>3. Colored("grey")' = C \ D
    BY <1>6, <1>7
  <2> HIDE DEF Q, C, P, D
  <2>4. Covers(Follow, Q, C \ D)
    BY <2>1, <2>2, CoversLess
  <2>5. QED
    BY <2>3, <2>4 DEF Q
<1>10. Covers(Follow, WhiteFrom', Colored("white")')
  <2> DEFINE Q == WhiteFrom'
             C == Colored("white")
             P == WhiteFrom
             D == new \cup {r}
  <2>1. P \subseteq Q \cup D /\ Covers(Follow, P, C) /\ P \in SUBSET Nodes /\ C \in SUBSET Nodes
    BY <1>5, <1>8
  <2>2. \A e \in Follow : e[1] \in D /\ e[2] \in C \ D => e[1] \in Q \/ e[2] \in Q
    BY <1>3, <1>6, <1>8
  <2>3. Colored("white")' = C \ D
    BY <1>6, <1>7
  <2> HIDE DEF Q, C, P, D
  <2>4. Covers(Follow, Q, C \ D)
    BY <2>1, <2>2, CoversLess
  <2>5. QED
    BY <2>3, <2>4 DEF Q
<1>11. Taken' = Taken \ {r} /\ r \in Taken
  <2>1. r \notin new /\ r \notin Colored("grey") /\ r \notin Colored("white")
    BY <1>3, <1>6, <1>7
  <2>2. QED
    BY <1>1, <1>4, <1>5, <1>7, <2>1
<1>12. Balance' /\ rc' \in [Nodes -> Nat]
  BY <1>1, <1>4, <1>5, <1>11, GivenBack
<1>13. \A n \in Nodes : /\ color'[n] # "purple"
                        /\ color'[n] # "black" => life[n] # "none"
                        /\ color'[n] = "white" /\ n \notin gc'.work => rc'[n] = 0
  <2> SUFFICES ASSUME NEW n \in Nodes
               PROVE  /\ color'[n] # "purple"
                      /\ color'[n] # "black" => life[n] # "none"
                      /\ color'[n] = "white" /\ n \notin gc'.work => rc'[n] = 0
    OBVIOUS
  <2>1. CASE n \in new
    BY <1>1, <2>1
  <2>2. CASE n \notin new
    <3>1. color'[n] = color[n] /\ (color[n] = "white" => rc'[n] = rc[n])
      BY <1>1, <1>3, <2>2 DEF Restored
    <3>2. QED
      BY <1>4, <1>5, <3>1
  <2>3. QED
    BY <2>1, <2>2
<1>14. gc'.work \cap Colored("grey")' = {} /\ gc'.bwork \subseteq Colored("black")'
  <2>1. B \subseteq Colored("black")'
    BY <1>1, <1>2, <1>5, <1>6
  <2>2. QED
    BY <1>4, <1>5, <1>7, <2>1
<1> HIDE DEF B
<1>15. Scanned'
  BY <1>5, <1>9, <1>10, <1>13, <1>14 DEF Scanned, GreyFrom, WhiteFrom
<1>16. \A n \in Nodes : life[n] = "none" => color'[n] = color[n] /\ rc'[n] = rc[n]
  BY <1>1, <1>3 DEF Restored
<1>17. QED
  BY <1>1, <1>4, <1>5, <1>7, <1>12, <1>15, <1>16, PassKeeps

----------------------------------------------------------------------------
(* Collecting.                                                             *)

\* The steps into and within gc_collect_roots leave the heap and the calls alone.
LEMMA CollectKeeps ==
  ASSUME CollectorInvariant, Top.at = "run", gc.phase \in {"scan", "collect"},
         UNCHANGED <<life, edge, held, gc_active, stack>>,
         gc' \in GcType, gc'.phase = "collect", 1 <= gc'.idx, gc'.end <= Len(buf'), gc'.bwork = {},
         BufferInvariant', rc' \in [Nodes -> Nat],
         \A n \in Nodes : life[n] = "none" => addr'[n] = 0 /\ color'[n] = "black" /\ rc'[n] = 0,
         Balance', TagsOfPhase', Collecting'
  PROVE  CollectorInvariant'
<1>1. /\ HeapTypes' /\ StackTypes' /\ FrameLife' /\ References' /\ StackShape' /\ HasRun(stack)'
      /\ Top' = Top
  BY HeapKept
<1>2. AddrTypes' /\ BufferTypes' /\ Addresses' /\ UnusedListed' /\ CountTypes' /\ GcTypes'
  BY InvariantParts DEF BufferInvariant, CountTypes, GcTypes
<1>3. TypeOK'
  BY <1>1, <1>2, TypePartsNext
<1>4. RootsArePurple' /\ Marking' /\ Scanned' /\ CondemnedIsLost'
  BY DEF RootsArePurple, Passes, Marking, Scanned, CondemnedIsLost
<1>5. RunShape'
  <2>1. gc_active
    BY InvariantParts DEF RunShape
  <2>2. QED
    BY <1>1, <2>1 DEF RunShape
<1>6. Dying'
  <2>1. \A n \in Nodes : life[n] # "null"
    BY InvariantParts DEF Dying
  <2>2. QED
    BY <2>1, InvariantParts DEF Dying
<1>7. QED
  BY <1>1, <1>2, <1>3, <1>4, <1>5, <1>6 DEF CollectorInvariant

\* What scanning has left white, nothing refers to.
LEMMA WhiteIsLost ==
  ASSUME CollectorInvariant, Top.at = "run", gc.phase = "scan", NoWork, gc.idx > gc.end
  PROVE  Colored("grey") = {} /\ Isolated(Colored("white"))
<1>1. Colored("grey") = {}
  <2>1. RootsFrom(gc.idx) = {}
    <3>1. gc.idx \in Nat /\ gc.end \in Nat /\ \A n \in Roots : addr[n] <= gc.end /\ addr[n] \in Nat
      BY RootEntry
    <3>2. QED
      BY <3>1 DEF RootsFrom, Roots
  <2>2. (Colored("grey") \cap RootsFrom(gc.idx)) \cup (Colored("white") \cap gc.work) \cup gc.bwork = {}
    BY <2>1 DEF NoWork
  <2>3. Covers(Follow, (Colored("grey") \cap RootsFrom(gc.idx)) \cup (Colored("white") \cap gc.work) \cup gc.bwork,
               Colored("grey"))
    BY InvariantParts DEF Scanned
  <2>4. QED
    BY <2>2, <2>3, CoversNothing
<1>2. ASSUME NEW n \in Colored("white")
      PROVE  /\ n \in Usable /\ n \notin held /\ (\A i \in DOMAIN stack : stack[i].node # n)
             /\ \A e \in edge : e[2] = n => e[1] \in Colored("white")
  <2>1. n \in Nodes /\ life[n] # "none" /\ rc[n] = 0
    <3>1. n \in Nodes /\ color[n] = "white"
      BY DEF Colored
    <3>2. QED
      BY <3>1, InvariantParts DEF Scanned, NoWork
  <2>2. /\ n \notin held /\ (\A i \in DOMAIN stack : stack[i].node = n => stack[i].at = "del")
        /\ \A e \in Counted : e[2] # n
    BY <2>1, HoldersCount, InvariantParts
  <2>3. \A i \in DOMAIN stack : stack[i].node # n
    BY <2>2, RunOnTop
  <2>4. n \in Usable
    <3>1. life[n] \notin {"freeing", "null"}
      BY <2>1, <2>3, InvariantParts DEF Dying
    <3>2. life[n] \in Lives
      BY <2>1, InvariantParts DEF HeapTypes
    <3>3. QED
      BY <2>1, <3>1, <3>2 DEF Usable, Lives
  <2>5. \A e \in edge : e[2] = n => e[1] \in Colored("white")
    <3>1. Taken = Colored("white")
      BY <1>1, TakenFacts DEF NoWork
    <3>2. QED
      BY <2>2, <3>1 DEF Counted
  <2>6. QED
    BY <2>2, <2>3, <2>4, <2>5
<1>3. QED
  BY <1>1, <1>2 DEF Isolated

\* The roots that are alive after all leave the buffer, which is compacted.
LEMMA EndScanKeeps ==
  ASSUME CollectorInvariant, EndScan
  PROVE  CollectorInvariant'
<1> DEFINE gone == {buf[i].ref : i \in {j \in DOMAIN buf : Dropped(buf[j])}}
           b == [i \in DOMAIN buf |-> IF Dropped(buf[i]) THEN Unused ELSE buf[i]]
           a == [n \in Nodes |-> IF n \in gone THEN 0 ELSE addr[n]]
<1>1. /\ Top.at = "run" /\ gc.phase = "scan" /\ NoWork /\ gc.idx > gc.end /\ gc \in GcType
      /\ UNCHANGED <<life, edge, held, rc, color, gc_active, stack>>
      /\ num_roots' = num_roots - Cardinality(gone) /\ buf' = Compacted(b, num_roots')
      /\ addr' = AddrIn(buf', a) /\ unused' = <<>>
      /\ gc' = [gc EXCEPT !.phase = "collect", !.idx = 1, !.end = num_roots', !.dtors = FALSE]
  BY InvariantParts DEF EndScan, Running, heap, GcTypes
<1>2. /\ BufferInvariant /\ buf \in Seq(EntryType) /\ (\A i \in DOMAIN buf : buf[i] \in EntryType)
      /\ (\A i \in DOMAIN buf : buf[i].tag = "ROOT" /\ buf[i].ref \in Nodes /\ addr[buf[i].ref] = i /\ i # 0)
      /\ Used = DOMAIN buf /\ DOMAIN buf = 1 .. Len(buf) /\ Len(buf) \in Nat
      /\ (\A n \in Roots : n \in Nodes /\ addr[n] \in DOMAIN buf /\ buf[addr[n]].ref = n)
      /\ addr \in [Nodes -> Nat]
  <2>1. \A i \in DOMAIN buf : buf[i].tag = "ROOT"
    BY <1>1, InvariantParts DEF TagsOfPhase
  <2>2. BufferInvariant /\ buf \in Seq(EntryType) /\ DOMAIN buf = 1 .. Len(buf) /\ Len(buf) \in Nat
        /\ (\A i \in DOMAIN buf : buf[i] \in EntryType)
        /\ (\A n \in Nodes : addr[n] # 0 => addr[n] \in Used /\ buf[addr[n]].ref = n)
        /\ (\A i \in Used : buf[i].ref \in Nodes /\ addr[buf[i].ref] = i)
    BY InvariantParts, BufferFacts
  <2>3. Used = DOMAIN buf
    BY <2>1 DEF Used
  <2>4. addr \in [Nodes -> Nat]
    BY <2>2 DEF BufferInvariant, AddrTypes
  <2>5. QED
    BY <2>1, <2>2, <2>3, <2>4 DEF Roots
<1>3. gone \in SUBSET Roots /\ \A i \in DOMAIN buf : buf[i].ref \in gone <=> Dropped(buf[i])
  <2>1. gone \in SUBSET Roots
    BY <1>2 DEF Roots
  <2>2. ASSUME NEW i \in DOMAIN buf PROVE buf[i].ref \in gone <=> Dropped(buf[i])
    <3>1. ASSUME NEW j \in DOMAIN buf, Dropped(buf[j]), buf[i].ref = buf[j].ref PROVE Dropped(buf[i])
      BY <1>2, <3>1
    <3>2. QED
      BY <3>1
  <2>3. QED
    BY <2>1, <2>2
<1>4. \A n \in Roots : n \in gone <=> color[n] = "black"
  BY <1>2, <1>3 DEF Dropped
<1>5. /\ b \in Seq(EntryType) /\ DOMAIN b = DOMAIN buf
      /\ UsedIn(b) = {i \in Used : buf[i].ref \notin gone} /\ \A i \in UsedIn(b) : b[i] = buf[i]
  <2>1. Unused \in EntryType /\ Unused.tag = "UNUSED"
    BY DEF Unused, EntryType, Tags
  <2>2. b \in [1 .. Len(buf) -> EntryType]
    BY <1>2, <2>1
  <2>3. b \in Seq(EntryType) /\ DOMAIN b = DOMAIN buf
    BY <1>2, <2>2
  <2>4. \A i \in DOMAIN buf : /\ Dropped(buf[i]) => b[i].tag = "UNUSED"
                              /\ ~Dropped(buf[i]) => b[i] = buf[i] /\ b[i].tag # "UNUSED"
    BY <1>2, <2>1
  <2> HIDE DEF b, gone
  <2>5. QED
    BY <1>2, <1>3, <2>3, <2>4 DEF UsedIn
<1>6. a \in [Nodes -> Nat] /\ \A n \in Nodes : n \in gone \/ addr[n] = 0 => a[n] = 0
  BY <1>2
<1>7. color' \in [Nodes -> Colors]
  BY <1>1, InvariantParts DEF CountTypes
<1> HIDE DEF gone, b, a
<1>8. /\ BufferInvariant' /\ num_roots' \in Nat
      /\ Len(buf') = num_roots' /\ DOMAIN buf' = 1 .. num_roots'
      /\ Roots' = Roots \ gone
      /\ \A i \in DOMAIN buf' : \E n \in Roots \ gone : addr'[n] = i /\ buf'[i] = buf[addr[n]]
  <2>1. /\ BufferInvariant /\ gone \in SUBSET Roots /\ b \in Seq(EntryType) /\ DOMAIN b = DOMAIN buf
        /\ UsedIn(b) = {i \in Used : buf[i].ref \notin gone} /\ \A i \in UsedIn(b) : b[i] = buf[i]
    BY <1>2, <1>3, <1>5
  <2>2. /\ num_roots' = num_roots - Cardinality(gone) /\ buf' = Compacted(b, num_roots') /\ unused' = <<>>
        /\ addr' = AddrIn(buf', a)
    BY <1>1
  <2>3. QED
    BY <1>6, <1>7, <2>1, <2>2, DropCompact
<1>9. /\ gc' \in GcType /\ gc'.phase = "collect" /\ gc'.idx = 1 /\ gc'.end = num_roots' /\ ~gc'.dtors
      /\ gc'.work = {} /\ gc'.bwork = {}
  BY <1>1, <1>8 DEF GcType, Phases, NoWork
<1>10. /\ Usable' = Usable /\ Follow' = Follow /\ Colored("white")' = Colored("white")
       /\ Colored("black")' = Colored("black")
  BY <1>1 DEF Usable, Follow, Colored
<1>11. Colored("grey") = {} /\ Isolated(Colored("white"))
  BY <1>1, WhiteIsLost
<1>12. /\ (\A n \in Nodes : color[n] \in {"white", "black"})
       /\ Colored("white") \cap Roots' = Colored("white") \cap Roots
       /\ Roots' \subseteq Colored("white") /\ Doomed' = Colored("white")
  <2>1. \A n \in Nodes : color[n] \in {"white", "black"}
    <3>1. \A n \in Nodes : color[n] # "purple" /\ color[n] # "grey" /\ color[n] \in Colors
      BY <1>1, <1>11, InvariantParts DEF Scanned, Colored, CountTypes
    <3>2. QED
      BY <3>1 DEF Colors
  <2>2. \A n \in Roots : n \in Roots' <=> n \in Colored("white")
    BY <1>4, <1>8, <2>1 DEF Colored, Roots
  <2>3. Roots' \subseteq Colored("white")
    BY <1>8, <2>2
  <2>4. Doomed' = Colored("white")' \cup gc'.work \cup Roots'
    BY DEF Doomed
  <2>5. QED
    BY <1>8, <1>9, <1>10, <2>1, <2>2, <2>3, <2>4
<1>13. Balance' /\ rc' \in [Nodes -> Nat]
  <2>1. Taken' = Taken
    BY <1>1, <1>9, <1>10, <1>11 DEF Taken, NoWork
  <2>2. QED
    BY <1>1, <1>9, <2>1, KeptCounts
<1>14. TagsOfPhase'
  <2>1. ASSUME NEW i \in DOMAIN buf' PROVE buf'[i].tag = "ROOT" /\ gc'.idx <= i /\ i <= gc'.end
    <3>1. PICK n \in Roots : buf'[i] = buf[addr[n]]
      BY <1>8
    <3>2. QED
      BY <1>2, <1>8, <1>9, <3>1
  <2>2. QED
    BY <1>9, <2>1 DEF TagsOfPhase
<1>15. Collecting'
  <2>1. Isolated(Doomed)'
    <3>1. Isolated(Colored("white"))'
      BY <1>1, <1>10, <1>11 DEF Isolated
    <3>2. QED
      BY <1>10, <1>12, <3>1 DEF Isolated
  <2>2. Covers(Follow', (Colored("white")' \cap Roots') \cup gc'.work, Colored("white")')
    <3>1. Covers(Follow, (Colored("white") \cap Roots) \cup gc.bwork, Colored("white"))
      BY <1>1, InvariantParts DEF Scanned
    <3>2. (Colored("white")' \cap Roots') \cup gc'.work = (Colored("white") \cap Roots) \cup gc.bwork
      BY <1>1, <1>9, <1>10, <1>12 DEF NoWork
    <3>3. QED
      BY <1>10, <3>1, <3>2
  <2>3. \A n \in Roots' : gc'.idx <= addr'[n] /\ addr'[n] <= gc'.end
    <3>1. \A n \in Nodes : addr'[n] \in 0 .. Len(buf')
      BY <1>8 DEF BufferInvariant, AddrTypes
    <3>2. QED
      BY <1>8, <1>9, <3>1 DEF Roots
  <2>4. Doomed' = Colored("white")'
    BY <1>10, <1>12
  <2>5. QED
    BY <1>1, <1>9, <1>12, <2>1, <2>2, <2>3, <2>4 DEF Collecting
<1>16. \A n \in Nodes : life[n] = "none" => addr'[n] = 0 /\ color'[n] = "black" /\ rc'[n] = 0
  <2>1. \A n \in Nodes : life[n] = "none" => addr[n] = 0 /\ color[n] = "black" /\ rc[n] = 0
    BY InvariantParts DEF Dying
  <2>2. \A n \in Nodes : addr[n] = 0 => addr'[n] = 0
    BY <1>8 DEF Roots
  <2>3. QED
    BY <1>1, <2>1, <2>2
<1>17. QED
  BY <1>1, <1>8, <1>9, <1>13, <1>14, <1>15, <1>16, CollectKeeps

\* Entries change their tags and nothing else.
LEMMA Retagged ==
  ASSUME BufferInvariant, UNCHANGED <<addr, unused, num_roots>>, color' \in [Nodes -> Colors],
         buf' \in Seq(EntryType), DOMAIN buf' = DOMAIN buf,
         \A i \in DOMAIN buf : buf'[i].ref = buf[i].ref /\ (buf'[i].tag = "UNUSED" <=> buf[i].tag = "UNUSED")
  PROVE  BufferInvariant' /\ Roots' = Roots /\ Used' = Used /\ Len(buf') = Len(buf)
<1>1. Len(buf') = Len(buf) /\ Roots' = Roots /\ Used' = Used
  <2>1. DOMAIN buf = 1 .. Len(buf) /\ Len(buf) \in Nat /\ DOMAIN buf' = 1 .. Len(buf') /\ Len(buf') \in Nat
    BY BufferFacts
  <2>2. \A j, k \in Nat : 1 .. j = 1 .. k => j = k
    <3> SUFFICES ASSUME NEW j \in Nat, NEW k \in Nat, 1 .. j = 1 .. k PROVE j = k
      OBVIOUS
    <3>1. Cardinality(1 .. j) = j /\ Cardinality(1 .. k) = k
      BY IntervalSize
    <3>2. QED
      BY <3>1
  <2>3. QED
    BY <2>1, <2>2 DEF Roots, Used
<1>2. AddrTypes' /\ BufferTypes'
  BY <1>1 DEF BufferInvariant, AddrTypes, BufferTypes
<1>3. Addresses'
  <2>1. \A i \in DOMAIN buf' : buf'[i].tag # "UNUSED" => buf'[i].ref \in Nodes /\ addr'[buf'[i].ref] = i
    BY DEF BufferInvariant, Addresses
  <2>2. \A n \in Nodes : addr'[n] # 0 => buf'[addr'[n]].tag # "UNUSED" /\ buf'[addr'[n]].ref = n
    <3>1. \A n \in Nodes : addr[n] # 0 => addr[n] \in DOMAIN buf /\ buf[addr[n]].tag # "UNUSED" /\ buf[addr[n]].ref = n
      BY BufferFacts DEF Used
    <3>2. QED
      BY <3>1
  <2>3. QED
    BY <2>1, <2>2 DEF Addresses, TagOf
<1>4. UnusedListed'
  BY <1>1 DEF BufferInvariant, UnusedListed
<1>5. QED
  BY <1>1, <1>2, <1>3, <1>4 DEF BufferInvariant

\* What the invariant says of collecting.
LEMMA CollectFacts ==
  ASSUME CollectorInvariant, gc.phase = "collect"
  PROVE  /\ \A n \in Nodes : color[n] \in {"white", "black"} /\ addr[n] \in Nat
         /\ gc.work \subseteq Colored("black") /\ Isolated(Doomed)
         /\ Covers(Follow, (Colored("white") \cap Roots) \cup gc.work, Colored("white"))
         /\ \A n \in Roots : color[n] = "white" => gc.idx <= addr[n] /\ addr[n] <= gc.end
         /\ ~gc.dtors => \A n \in Doomed : HasDestructor(n) => n \in Colored("white") \cup gc.work
         /\ Taken = Colored("white") \cup gc.work
         /\ gc_active /\ 1 <= gc.idx /\ gc.idx \in Nat /\ gc.end \in Nat /\ gc.end <= Len(buf)
         /\ gc \in GcType /\ color \in [Nodes -> Colors]
         /\ gc.work \in SUBSET Nodes /\ gc.bwork = {}
         /\ BufferInvariant /\ buf \in Seq(EntryType) /\ DOMAIN buf = 1 .. Len(buf) /\ Len(buf) \in Nat
         /\ \A i \in DOMAIN buf : /\ buf[i] \in EntryType
                                  /\ buf[i].tag = IF gc.idx <= i /\ i <= gc.end THEN "ROOT" ELSE "GARBAGE"
                                  /\ buf[i].ref \in Nodes /\ addr[buf[i].ref] = i
         /\ Used = DOMAIN buf
         /\ \A n \in Roots : addr[n] \in DOMAIN buf /\ buf[addr[n]].ref = n
         /\ unused = <<>>
<1>1. /\ \A n \in Nodes : color[n] \in {"white", "black"}
      /\ gc.work \subseteq Colored("black") /\ Isolated(Doomed)
      /\ Covers(Follow, (Colored("white") \cap Roots) \cup gc.work, Colored("white"))
      /\ \A n \in Roots : color[n] = "white" => gc.idx <= addr[n] /\ addr[n] <= gc.end
      /\ ~gc.dtors => \A n \in Doomed : HasDestructor(n) => n \in Colored("white") \cup gc.work
      /\ Taken = Colored("white") \cup gc.work
  BY InvariantParts, TakenFacts DEF Collecting
<1>2. /\ gc_active /\ 1 <= gc.idx /\ gc.end <= Len(buf) /\ gc.bwork = {}
      /\ gc.idx \in Nat /\ gc.end \in Nat /\ gc \in GcType /\ gc.work \in SUBSET Nodes
      /\ color \in [Nodes -> Colors]
  BY InvariantParts, GcFields DEF RunShape, GcTypes, CountTypes
<1>3. \A i \in DOMAIN buf : buf[i].tag = IF gc.idx <= i /\ i <= gc.end THEN "ROOT" ELSE "GARBAGE"
  BY InvariantParts DEF TagsOfPhase
<1>4. /\ BufferInvariant /\ buf \in Seq(EntryType) /\ DOMAIN buf = 1 .. Len(buf) /\ Len(buf) \in Nat
      /\ \A i \in DOMAIN buf : buf[i] \in EntryType
      /\ \A n \in Nodes : addr[n] # 0 => addr[n] \in Used /\ buf[addr[n]].ref = n
      /\ \A i \in Used : buf[i].ref \in Nodes /\ addr[buf[i].ref] = i
      /\ \A k \in 1 .. Len(unused) : unused[k] \in DOMAIN buf \ Used
      /\ unused \in Seq(DOMAIN buf) /\ Len(unused) \in Nat
  BY InvariantParts, BufferFacts
<1>5. Used = DOMAIN buf
  BY <1>3 DEF Used
<1>6. unused = <<>>
  <2>1. Len(unused) = 0
    <3>1. ASSUME Len(unused) # 0 PROVE FALSE
      <4>1. 1 \in 1 .. Len(unused)
        BY <1>4, <3>1
      <4>2. QED
        BY <1>4, <1>5, <4>1
    <3>2. QED
      BY <3>1
  <2>2. QED
    BY <1>4, <2>1
<1>7. \A n \in Nodes : addr[n] \in Nat
  BY <1>4 DEF BufferInvariant, AddrTypes
<1>8. QED
  BY <1>1, <1>2, <1>3, <1>4, <1>5, <1>6, <1>7 DEF Roots

\* The next root is collected.
LEMMA CollectRootKeeps ==
  ASSUME CollectorInvariant, CollectRoot
  PROVE  CollectorInvariant'
<1> DEFINE x == Entry.ref
           W == IF color[x] = "white" THEN {x} ELSE {}
<1>1. /\ Top.at = "run" /\ gc.phase = "collect" /\ gc.work = {} /\ gc.bwork = {} /\ gc.idx <= gc.end
      /\ buf' = [buf EXCEPT ![gc.idx].tag = "GARBAGE"]
      /\ UNCHANGED <<life, edge, held, rc, addr, unused, num_roots, gc_active, stack>>
  BY DEF CollectRoot, Scanning, Running, NoWork, heap
<1>2. /\ \A n \in Nodes : color[n] \in {"white", "black"} /\ addr[n] \in Nat
      /\ Isolated(Doomed)
      /\ Covers(Follow, (Colored("white") \cap Roots) \cup gc.work, Colored("white"))
      /\ \A n \in Roots : color[n] = "white" => gc.idx <= addr[n] /\ addr[n] <= gc.end
      /\ ~gc.dtors => \A n \in Doomed : HasDestructor(n) => n \in Colored("white") \cup gc.work
      /\ Taken = Colored("white") \cup gc.work
      /\ gc_active /\ 1 <= gc.idx /\ gc.idx \in Nat /\ gc.end \in Nat /\ gc.end <= Len(buf)
      /\ gc \in GcType /\ color \in [Nodes -> Colors]
      /\ BufferInvariant /\ buf \in Seq(EntryType) /\ DOMAIN buf = 1 .. Len(buf) /\ Len(buf) \in Nat
      /\ \A i \in DOMAIN buf : /\ buf[i] \in EntryType
                               /\ buf[i].tag = IF gc.idx <= i /\ i <= gc.end THEN "ROOT" ELSE "GARBAGE"
                               /\ buf[i].ref \in Nodes /\ addr[buf[i].ref] = i
      /\ \A n \in Roots : addr[n] \in DOMAIN buf /\ buf[addr[n]].ref = n
  BY <1>1, CollectFacts
<1>3. gc.idx \in DOMAIN buf /\ Entry = buf[gc.idx] /\ x \in Nodes /\ addr[x] = gc.idx /\ x \in Roots
  <2>1. gc.idx \in DOMAIN buf
    BY <1>1, <1>2
  <2>2. QED
    BY <1>2, <2>1 DEF Entry, Roots
<1>4. /\ gc' = [gc EXCEPT !.idx = @ + 1, !.work = W]
      /\ color' = [n \in Nodes |-> IF n \in W THEN "black" ELSE color[n]]
  <2>1. CASE color[x] = "white"
    BY <1>2, <1>3, <2>1 DEF CollectRoot
  <2>2. CASE color[x] # "white"
    <3>1. gc' = [gc EXCEPT !.idx = @ + 1] /\ color' = color /\ W = {}
      BY <2>2 DEF CollectRoot
    <3>2. [gc EXCEPT !.idx = @ + 1] = [gc EXCEPT !.idx = @ + 1, !.work = {}]
      <4>1. gc.work = {} /\ gc \in GcType
        BY <1>1, <1>2
      <4>2. QED
        BY <4>1 DEF GcType
    <3>3. QED
      BY <1>2, <3>1, <3>2
  <2>3. QED
    BY <2>1, <2>2
<1>5. W \in SUBSET Nodes /\ W \subseteq Roots /\ (\A n \in W : color[n] = "white" /\ n = x) /\ (x \notin W => color[x] # "white")
  BY <1>3
<1> HIDE DEF W, x
<1>6. /\ gc' \in GcType /\ gc'.phase = "collect" /\ gc'.end = gc.end /\ gc'.idx = gc.idx + 1
      /\ gc'.work = W /\ gc'.bwork = {} /\ gc'.dtors = gc.dtors
  BY <1>1, <1>2, <1>4, <1>5, GcNext, ZenonT(40)
<1>7. /\ Colored("white")' = Colored("white") \ W /\ W \subseteq Colored("white")
      /\ color' \in [Nodes -> Colors] /\ (\A n \in Nodes : color'[n] \in {"white", "black"})
      /\ W \subseteq Colored("black")'
  BY <1>2, <1>4, <1>5 DEF Colored, Colors
<1>8. /\ buf' \in Seq(EntryType) /\ DOMAIN buf' = DOMAIN buf
      /\ \A i \in DOMAIN buf : /\ buf'[i].ref = buf[i].ref
                               /\ buf'[i].tag = IF i = gc.idx THEN "GARBAGE" ELSE buf[i].tag
  <2>1. [buf[gc.idx] EXCEPT !.tag = "GARBAGE"] \in EntryType
    BY <1>2, <1>3 DEF EntryType, Tags
  <2>2. buf' = [buf EXCEPT ![gc.idx] = [buf[gc.idx] EXCEPT !.tag = "GARBAGE"]]
    BY <1>1, <1>3
  <2>3. buf' \in Seq(EntryType) /\ DOMAIN buf' = DOMAIN buf
    BY <1>2, <1>3, <2>1, <2>2
  <2>4. \A i \in DOMAIN buf : buf'[i] = IF i = gc.idx THEN [buf[gc.idx] EXCEPT !.tag = "GARBAGE"] ELSE buf[i]
    BY <1>2, <2>2
  <2>5. QED
    BY <1>2, <1>3, <2>3, <2>4 DEF EntryType
<1>9. BufferInvariant' /\ Roots' = Roots /\ Len(buf') = Len(buf)
  <2>1. \A i \in DOMAIN buf : buf'[i].ref = buf[i].ref /\ (buf'[i].tag = "UNUSED" <=> buf[i].tag = "UNUSED")
    BY <1>2, <1>8
  <2>2. QED
    BY <1>1, <1>2, <1>7, <1>8, <2>1, Retagged
<1>10. Usable' = Usable /\ Follow' = Follow /\ Doomed' = Doomed
  <2>1. Usable' = Usable /\ Follow' = Follow
    BY <1>1 DEF Usable, Follow
  <2>2. Doomed' = Colored("white")' \cup gc'.work \cup Roots'
    BY DEF Doomed
  <2>3. Doomed' = Doomed
    BY <1>1, <1>5, <1>6, <1>7, <1>9, <2>2 DEF Doomed
  <2>4. QED
    BY <2>1, <2>3
<1>11. Balance' /\ rc' \in [Nodes -> Nat]
  <2>1. Taken' = Taken
    BY <1>1, <1>2, <1>6, <1>7 DEF Taken
  <2>2. QED
    BY <1>1, <1>6, <2>1, KeptCounts
<1>12. TagsOfPhase'
  <2>1. \A i \in DOMAIN buf' : buf'[i].tag = IF gc'.idx <= i /\ i <= gc'.end THEN "ROOT" ELSE "GARBAGE"
    <3> SUFFICES ASSUME NEW i \in DOMAIN buf
                 PROVE  buf'[i].tag = IF gc'.idx <= i /\ i <= gc'.end THEN "ROOT" ELSE "GARBAGE"
      BY <1>8
    <3>1. i \in Nat /\ gc.idx \in Nat /\ gc'.idx = gc.idx + 1 /\ gc'.end = gc.end
      BY <1>2, <1>6
    <3>2. gc.idx + 1 <= i <=> gc.idx <= i /\ i # gc.idx
      BY <3>1
    <3>3. /\ buf[i].tag = IF gc.idx <= i /\ i <= gc.end THEN "ROOT" ELSE "GARBAGE"
          /\ buf'[i].tag = IF i = gc.idx THEN "GARBAGE" ELSE buf[i].tag
      BY <1>2, <1>8
    <3>4. QED
      BY <3>1, <3>2, <3>3
  <2>2. QED
    BY <1>6, <2>1 DEF TagsOfPhase
<1>13. Covers(Follow, (Colored("white")' \cap Roots) \cup W, Colored("white")')
  <2> DEFINE P == (Colored("white") \cap Roots) \cup gc.work
             Q == (Colored("white")' \cap Roots) \cup W
             C == Colored("white")
  <2>1. /\ P \in SUBSET Nodes /\ C \in SUBSET Nodes /\ Covers(Follow, P, C) /\ P \subseteq Q \cup W
        /\ \A e \in Follow : e[1] \in W /\ e[2] \in C \ W => e[1] \in Q \/ e[2] \in Q
    BY <1>1, <1>2, <1>7 DEF Colored
  <2>2. Colored("white")' = C \ W
    BY <1>7
  <2> HIDE DEF P, Q, C
  <2>3. Covers(Follow, Q, C \ W)
    BY <2>1, CoversLess
  <2>4. QED
    BY <2>2, <2>3 DEF Q
<1>14. Collecting'
  <2>1. Isolated(Doomed)'
    BY <1>1, <1>2, <1>10 DEF Isolated
  <2>2. \A n \in Roots : color'[n] = "white" => gc'.idx <= addr'[n] /\ addr'[n] <= gc'.end
    <3> SUFFICES ASSUME NEW n \in Roots, color'[n] = "white"
                 PROVE  gc.idx + 1 <= addr[n] /\ addr[n] <= gc.end
      BY <1>1, <1>6
    <3>1. n \in Nodes /\ color[n] = "white" /\ n \notin W
      BY <1>4 DEF Roots
    <3>2. n # x
      BY <1>5, <3>1
    <3>3. addr[n] # gc.idx
      BY <1>2, <1>3, <3>2 DEF x
    <3>4. gc.idx <= addr[n] /\ addr[n] <= gc.end /\ addr[n] \in Nat /\ gc.idx \in Nat
      BY <1>2, <3>1
    <3>5. QED
      BY <3>3, <3>4
  <2>3. \A n \in Nodes : HasDestructor(n)' <=> HasDestructor(n)
    BY <1>1 DEF HasDestructor
  <2>4. ~gc'.dtors => \A n \in Doomed' : HasDestructor(n)' => n \in Colored("white")' \cup gc'.work
    <3>1. Doomed \subseteq Nodes
      BY <1>1, <1>2 DEF Doomed, Colored, Roots
    <3>2. QED
      BY <1>1, <1>2, <1>6, <1>7, <1>10, <2>3, <3>1
  <2>5. gc'.work \subseteq Colored("black")'
    BY <1>6, <1>7
  <2>6. Covers(Follow', (Colored("white")' \cap Roots') \cup gc'.work, Colored("white")')
    BY <1>6, <1>9, <1>10, <1>13
  <2>7. QED
    BY <1>7, <1>9, <2>1, <2>2, <2>4, <2>5, <2>6 DEF Collecting
<1>15. \A n \in Nodes : life[n] = "none" => addr'[n] = 0 /\ color'[n] = "black" /\ rc'[n] = 0
  <2>1. \A n \in Nodes : life[n] = "none" => addr[n] = 0 /\ color[n] = "black" /\ rc[n] = 0
    BY InvariantParts DEF Dying
  <2>2. QED
    BY <1>1, <1>4, <2>1
<1>16. 1 <= gc'.idx /\ gc'.end <= Len(buf')
  BY <1>2, <1>6, <1>9
<1>17. QED
  BY <1>1, <1>6, <1>9, <1>11, <1>12, <1>14, <1>15, <1>16, CollectKeeps

\* An entry for n is appended while there is no unused one.
LEMMA AppendedFacts ==
  ASSUME BufferInvariant, NEW n \in Nodes, addr[n] = 0, unused = <<>>, NEW e \in EntryType,
         e.ref = n, e.tag # "UNUSED", color' \in [Nodes -> Colors],
         buf' = Append(buf, e), addr' = [addr EXCEPT ![n] = Len(buf) + 1],
         num_roots' = num_roots + 1, unused' = unused
  PROVE  /\ BufferInvariant' /\ Roots' = Roots \cup {n} /\ Len(buf') = Len(buf) + 1
         /\ DOMAIN buf' = DOMAIN buf \cup {Len(buf) + 1} /\ buf'[Len(buf) + 1] = e
         /\ \A i \in DOMAIN buf : buf'[i] = buf[i]
<1>1. /\ buf \in Seq(EntryType) /\ Len(buf) \in Nat /\ DOMAIN buf = 1 .. Len(buf)
      /\ IsFiniteSet(Used) /\ Cardinality(Used) = num_roots /\ num_roots \in Nat
      /\ \A m \in Nodes : addr[m] # 0 => addr[m] \in Used /\ buf[addr[m]].ref = m
      /\ \A i \in Used : buf[i].ref \in Nodes /\ addr[buf[i].ref] = i
      /\ addr \in [Nodes -> 0 .. Len(buf)]
  BY BufferFacts DEF BufferInvariant, AddrTypes
<1> DEFINE L == Len(buf) + 1
<1>2. /\ buf' \in Seq(EntryType) /\ Len(buf') = L /\ DOMAIN buf' = 1 .. L
      /\ buf'[L] = e /\ \A i \in 1 .. Len(buf) : buf'[i] = buf[i]
  BY <1>1
<1>3. 1 .. L = (1 .. Len(buf)) \cup {L} /\ L \notin 1 .. Len(buf) /\ L # 0 /\ 0 .. Len(buf) \subseteq 0 .. L /\ L \in 0 .. L
  BY <1>1
<1>4. DOMAIN buf' = DOMAIN buf \cup {L} /\ L \notin DOMAIN buf /\ \A i \in DOMAIN buf : buf'[i] = buf[i]
  BY <1>1, <1>2, <1>3
<1>5. Used' = Used \cup {L} /\ L \notin Used
  BY <1>2, <1>4 DEF Used
<1>6. addr' \in [Nodes -> 0 .. Len(buf')] /\ addr'[n] = L /\ \A m \in Nodes : m # n => addr'[m] = addr[m]
  BY <1>1, <1>2, <1>3
<1> HIDE DEF L
<1>7. num_roots' = Cardinality(Used') /\ num_roots' \in Nat
  <2>1. Cardinality(Used \cup {L}) = Cardinality(Used) + 1
    BY <1>1, <1>5, FS_AddElement
  <2>2. QED
    BY <1>1, <1>5, <2>1
<1>8. Addresses'
  <2>1. \A i \in DOMAIN buf' : buf'[i].tag # "UNUSED" => buf'[i].ref \in Nodes /\ addr'[buf'[i].ref] = i
    <3> SUFFICES ASSUME NEW i \in DOMAIN buf', buf'[i].tag # "UNUSED"
                 PROVE  buf'[i].ref \in Nodes /\ addr'[buf'[i].ref] = i
      OBVIOUS
    <3>1. CASE i = L
      BY <1>2, <1>6, <3>1
    <3>2. CASE i # L
      <4>1. i \in Used /\ buf'[i] = buf[i]
        BY <1>4, <3>2 DEF Used
      <4>2. buf[i].ref \in Nodes /\ addr[buf[i].ref] = i /\ i # 0
        BY <1>1, <4>1 DEF Used
      <4>3. buf[i].ref # n
        BY <4>2
      <4>4. QED
        BY <1>6, <4>1, <4>2, <4>3
    <3>3. QED
      BY <3>1, <3>2
  <2>2. \A m \in Nodes : addr'[m] # 0 => buf'[addr'[m]].tag # "UNUSED" /\ buf'[addr'[m]].ref = m
    <3> SUFFICES ASSUME NEW m \in Nodes, addr'[m] # 0
                 PROVE  buf'[addr'[m]].tag # "UNUSED" /\ buf'[addr'[m]].ref = m
      OBVIOUS
    <3>1. CASE m = n
      BY <1>2, <1>6, <3>1
    <3>2. CASE m # n
      BY <1>1, <1>4, <1>6, <3>2 DEF Used
    <3>3. QED
      BY <3>1, <3>2
  <2>3. QED
    BY <2>1, <2>2 DEF Addresses, TagOf
<1>9. UnusedListed'
  <2>1. DOMAIN unused' = {}
    BY SMT
  <2>2. \A i \in DOMAIN buf' : buf'[i].tag # "UNUSED"
    <3>1. \A i \in DOMAIN buf : buf[i].tag # "UNUSED"
      <4>1. DOMAIN unused = {}
        BY SMT
      <4>2. QED
        BY <4>1 DEF BufferInvariant, UnusedListed
    <3>2. QED
      BY <1>2, <1>4, <3>1
  <2>3. QED
    BY <1>7, <2>1, <2>2 DEF UnusedListed
<1>10. BufferTypes'
  <2>1. unused' \in Seq(DOMAIN buf')
    BY SMT
  <2>2. QED
    BY <1>2, <1>7, <2>1 DEF BufferTypes
<1>11. Roots' = Roots \cup {n}
  BY <1>3, <1>6 DEF Roots, L
<1>12. QED
  BY <1>2, <1>4, <1>6, <1>8, <1>9, <1>10, <1>11 DEF BufferInvariant, AddrTypes, L

\* gc_collect_white, for one node.
LEMMA CollectWhiteKeeps ==
  ASSUME CollectorInvariant, NEW r \in Nodes, CollectWhite(r)
  PROVE  CollectorInvariant'
<1> DEFINE new == {n \in Children(r) : color[n] = "white"}
           add == addr[r] = 0 /\ life[r] \in {"live", "destructed"}
           W == (gc.work \ {r}) \cup new
           e == [tag |-> "GARBAGE", ref |-> r]
<1>1. /\ Top.at = "run" /\ gc.phase = "collect" /\ r \in gc.work
      /\ rc' = Restored(r)
      /\ color' = [n \in Nodes |-> IF n \in new THEN "black" ELSE color[n]]
      /\ gc' = [gc EXCEPT !.work = W, !.dtors = @ \/ HasDestructor(r)]
      /\ buf' = IF add THEN Append(buf, e) ELSE buf
      /\ addr' = IF add THEN [addr EXCEPT ![r] = Len(buf) + 1] ELSE addr
      /\ num_roots' = IF add THEN num_roots + 1 ELSE num_roots
      /\ UNCHANGED <<life, edge, held, unused, gc_active, stack>>
  BY DEF CollectWhite, Running, heap
<1>2. /\ \A n \in Nodes : color[n] \in {"white", "black"} /\ addr[n] \in Nat
      /\ gc.work \subseteq Colored("black") /\ Isolated(Doomed)
      /\ Covers(Follow, (Colored("white") \cap Roots) \cup gc.work, Colored("white"))
      /\ \A n \in Roots : color[n] = "white" => gc.idx <= addr[n] /\ addr[n] <= gc.end
      /\ ~gc.dtors => \A n \in Doomed : HasDestructor(n) => n \in Colored("white") \cup gc.work
      /\ Taken = Colored("white") \cup gc.work
      /\ 1 <= gc.idx /\ gc.idx \in Nat /\ gc.end \in Nat /\ gc.end <= Len(buf)
      /\ gc \in GcType /\ color \in [Nodes -> Colors] /\ gc.bwork = {} /\ gc.work \in SUBSET Nodes
  BY <1>1, CollectFacts
<1>3. /\ BufferInvariant /\ DOMAIN buf = 1 .. Len(buf) /\ Len(buf) \in Nat /\ unused = <<>>
      /\ \A i \in DOMAIN buf : buf[i].tag = IF gc.idx <= i /\ i <= gc.end THEN "ROOT" ELSE "GARBAGE"
  BY <1>1, CollectFacts
<1>4. /\ new \in SUBSET Nodes /\ W \in SUBSET Nodes
      /\ (\A n \in new : color[n] = "white" /\ life[n] # "none")
      /\ (\A n \in Children(r) : life[n] # "none" /\ n \in Nodes)
      /\ \A d \in Follow : d[1] = r => d[2] \in new \/ color[d[2]] # "white"
  BY <1>2, ChildrenFacts
<1>5. r \in Doomed /\ r \in Usable /\ color[r] = "black" /\ (add <=> addr[r] = 0)
  <2>1. r \in Doomed /\ color[r] = "black"
    BY <1>1, <1>2 DEF Doomed, Colored
  <2>2. r \in Usable
    BY <1>2, <2>1 DEF Isolated
  <2>3. QED
    BY <2>1, <2>2 DEF Usable
<1>6. /\ gc' \in GcType /\ gc'.phase = "collect" /\ gc'.end = gc.end /\ gc'.idx = gc.idx
      /\ gc'.work = W /\ gc'.bwork = {} /\ (gc'.dtors <=> gc.dtors \/ HasDestructor(r))
  <2>1. (gc.dtors \/ HasDestructor(r)) \in BOOLEAN
    BY DEF HasDestructor
  <2> HIDE DEF W
  <2>2. QED
    BY <1>1, <1>2, <1>4, <2>1 DEF GcType
<1> HIDE DEF new, add
<1>7. /\ Colored("white")' = Colored("white") \ new /\ new \subseteq Colored("white")
      /\ color' \in [Nodes -> Colors] /\ (\A n \in Nodes : color'[n] \in {"white", "black"})
      /\ Colored("black")' = Colored("black") \cup new
      /\ r \notin new /\ r \notin Colored("white")
  BY <1>1, <1>2, <1>4, <1>5 DEF Colored, Colors
<1>8. /\ BufferInvariant' /\ Roots' = Roots \cup {r} /\ gc.end <= Len(buf')
      /\ (\A n \in Nodes : n # r => addr'[n] = addr[n]) /\ TagsOfPhase'
  <2>1. CASE add
    <3>1. e \in EntryType /\ e.ref = r /\ e.tag = "GARBAGE" /\ e.tag # "UNUSED"
      BY DEF EntryType, Tags
    <3> HIDE DEF e
    <3>2. /\ BufferInvariant' /\ Roots' = Roots \cup {r} /\ Len(buf') = Len(buf) + 1
          /\ DOMAIN buf' = DOMAIN buf \cup {Len(buf) + 1} /\ buf'[Len(buf) + 1] = e
          /\ \A i \in DOMAIN buf : buf'[i] = buf[i]
      <4>1. addr[r] = 0 /\ buf' = Append(buf, e) /\ addr' = [addr EXCEPT ![r] = Len(buf) + 1]
            /\ num_roots' = num_roots + 1 /\ unused' = unused
        BY <1>1, <1>5, <2>1
      <4>2. QED
        BY <1>3, <1>7, <3>1, <4>1, AppendedFacts
    <3>3. \A i \in DOMAIN buf' : buf'[i].tag = IF gc.idx <= i /\ i <= gc.end THEN "ROOT" ELSE "GARBAGE"
      <4>1. ~(Len(buf) + 1 <= gc.end)
        BY <1>2, <1>3
      <4>2. QED
        BY <1>3, <3>1, <3>2, <4>1
    <3>4. TagsOfPhase'
      BY <1>6, <3>3 DEF TagsOfPhase
    <3>5. gc.end <= Len(buf') /\ \A n \in Nodes : n # r => addr'[n] = addr[n]
      <4>1. addr \in [Nodes -> 0 .. Len(buf)]
        BY <1>3 DEF BufferInvariant, AddrTypes
      <4>2. QED
        BY <1>1, <1>2, <1>3, <2>1, <3>2, <4>1
    <3>6. QED
      BY <3>2, <3>4, <3>5
  <2>2. CASE ~add
    <3>1. UNCHANGED <<buf, addr, num_roots, unused>> /\ r \in Roots
      BY <1>1, <1>5, <2>2 DEF Roots
    <3>2. BufferInvariant' /\ Roots' = Roots
      BY <1>3, <1>7, <3>1 DEF BufferInvariant, AddrTypes, BufferTypes, Addresses, UnusedListed, TagOf, Used, Roots
    <3>3. TagsOfPhase'
      BY <1>3, <1>6, <3>1 DEF TagsOfPhase
    <3>4. QED
      BY <1>2, <3>1, <3>2, <3>3
  <2>3. QED
    BY <2>1, <2>2
<1>9. Usable' = Usable /\ Follow' = Follow /\ Doomed' = Doomed
  <2>1. Usable' = Usable /\ Follow' = Follow
    BY <1>1 DEF Usable, Follow
  <2>2. Doomed' = Colored("white")' \cup gc'.work \cup Roots'
    BY DEF Doomed
  <2>3. Doomed' = Doomed
    BY <1>1, <1>6, <1>7, <1>8, <2>2 DEF Doomed
  <2>4. QED
    BY <2>1, <2>3
<1>10. Balance' /\ rc' \in [Nodes -> Nat]
  <2>1. r \in Taken /\ Taken' = Taken \ {r}
    <3>1. Taken' = Colored("white")' \cup gc'.work
      BY <1>6 DEF Taken
    <3>2. QED
      BY <1>1, <1>2, <1>6, <1>7, <3>1
  <2>2. QED
    BY <1>1, <1>6, <2>1, GivenBack
<1>11. Covers(Follow, (Colored("white")' \cap Roots') \cup W, Colored("white")')
  <2> DEFINE P == (Colored("white") \cap Roots) \cup gc.work
             Q == (Colored("white")' \cap Roots') \cup W
             C == Colored("white")
             D == new \cup {r}
  <2>1. P \in SUBSET Nodes /\ C \in SUBSET Nodes /\ Covers(Follow, P, C) /\ P \subseteq Q \cup D
    BY <1>2, <1>7, <1>8 DEF Colored
  <2>2. \A d \in Follow : d[1] \in D /\ d[2] \in C \ D => d[1] \in Q \/ d[2] \in Q
    BY <1>4 DEF Colored
  <2>3. Colored("white")' = C \ D
    BY <1>7
  <2> HIDE DEF P, Q, C, D
  <2>4. Covers(Follow, Q, C \ D)
    BY <2>1, <2>2, CoversLess
  <2>5. QED
    BY <2>3, <2>4 DEF Q
<1>12. Collecting'
  <2>1. Isolated(Doomed)'
    BY <1>1, <1>2, <1>9 DEF Isolated
  <2>2. \A n \in Roots' : color'[n] = "white" => gc'.idx <= addr'[n] /\ addr'[n] <= gc'.end
    <3> SUFFICES ASSUME NEW n \in Roots', color'[n] = "white"
                 PROVE  gc'.idx <= addr'[n] /\ addr'[n] <= gc'.end
      OBVIOUS
    <3>1. n \in Nodes
      BY DEF Roots
    <3>2. color[n] = "white" /\ n # r /\ n \in Roots
      BY <1>1, <1>5, <1>8, <3>1
    <3>3. QED
      BY <1>2, <1>6, <1>8, <3>1, <3>2
  <2>3. \A n \in Nodes : HasDestructor(n)' <=> HasDestructor(n)
    BY <1>1 DEF HasDestructor
  <2>4. ~gc'.dtors => \A n \in Doomed' : HasDestructor(n)' => n \in Colored("white")' \cup gc'.work
    <3>1. Doomed \subseteq Nodes
      BY <1>2 DEF Doomed, Colored, Roots
    <3>2. QED
      BY <1>2, <1>6, <1>7, <1>9, <2>3, <3>1
  <2>5. gc'.work \subseteq Colored("black")'
    BY <1>2, <1>6, <1>7
  <2>6. Covers(Follow', (Colored("white")' \cap Roots') \cup gc'.work, Colored("white")')
    BY <1>6, <1>9, <1>11
  <2>7. QED
    BY <1>7, <2>1, <2>2, <2>4, <2>5, <2>6 DEF Collecting
<1>13. \A n \in Nodes : life[n] = "none" => addr'[n] = 0 /\ color'[n] = "black" /\ rc'[n] = 0
  <2> SUFFICES ASSUME NEW n \in Nodes, life[n] = "none"
               PROVE  addr'[n] = 0 /\ color'[n] = "black" /\ rc'[n] = 0
    OBVIOUS
  <2>1. addr[n] = 0 /\ color[n] = "black" /\ rc[n] = 0
    BY InvariantParts DEF Dying
  <2>2. n # r
    BY <1>5 DEF Usable
  <2>3. QED
    BY <1>1, <1>4, <1>8, <2>1, <2>2 DEF Restored
<1>14. 1 <= gc'.idx /\ gc'.end <= Len(buf')
  BY <1>2, <1>6, <1>8
<1>15. QED
  BY <1>1, <1>6, <1>8, <1>10, <1>12, <1>13, <1>14, CollectKeeps

----------------------------------------------------------------------------
(* The end of the search.                                                  *)

\* No count is taken back any more, and none changes.
LEMMA SettledBalance ==
  ASSUME CollectorInvariant, Top.at = "run", UNCHANGED <<edge, held>>, stack' = stack \/ stack' = Below,
         Taken = {}, Taken' = {}, gc.phase # "delref", gc'.phase # "delref",
         \A n \in Nodes : life'[n] # "none" => life[n] # "none" /\ rc'[n] = rc[n]
  PROVE  Balance'
<1>1. Counted = edge /\ Counted' = edge
  BY DEF Counted
<1>2. ASSUME NEW n \in Nodes PROVE Frames(stack', n) = Frames(stack, n)
  BY RunOver
<1>3. ASSUME NEW n \in Nodes, life'[n] # "none"
      PROVE  rc'[n] = InCount(Counted', n) + HeldCount(held', n) + Frames(stack', n) + Delayed(n)'
  <2>1. /\ rc[n] = InCount(Counted, n) + HeldCount(held, n) + Frames(stack, n)
        /\ InCount(Counted, n) \in Nat /\ HeldCount(held, n) \in Nat /\ Frames(stack, n) \in Nat
    BY <1>3, CountFacts
  <2>2. Delayed(n)' = 0
    BY DEF Delayed
  <2>3. rc'[n] = InCount(edge, n) + HeldCount(held, n) + Frames(stack, n)
    BY <1>1, <1>3, <2>1
  <2>4. QED
    BY <1>1, <1>2, <2>1, <2>2, <2>3
<1>4. QED
  BY <1>3 DEF Balance

\* Between the passes and the end of the run, the calls and the references stay.
LEMMA LaterKeeps ==
  ASSUME CollectorInvariant, Top.at = "run", gc_active, UNCHANGED <<edge, held, gc_active, stack>>,
         gc' \in GcType, gc'.phase \in {"nested", "dtors", "destroy"}, 1 <= gc'.idx, gc'.end <= Len(buf'),
         gc'.phase # "nested" => gc'.work = {}, gc'.bwork = {},
         gc'.phase \in {"nested", "dtors"} => gc'.dtors, gc'.dtors => gc'.rerun # "no",
         BufferInvariant', rc' \in [Nodes -> Nat], life' \in [Nodes -> Lives],
         \A n \in Nodes : \/ life'[n] = life[n]
                          \/ life[n] \in {"live", "destructed"} /\ life'[n] \in {"live", "destructed"},
         \A n \in Nodes : life[n] = "none" => addr'[n] = 0 /\ color'[n] = "black" /\ rc'[n] = 0,
         \A n \in Nodes : life[n] = "null" =>
           gc'.phase = "destroy" /\ n \in Condemned' /\ addr'[n] < gc'.idx,
         TagsOfPhase', RootsArePurple', Balance', CondemnedIsLost'
  PROVE  CollectorInvariant'
<1>1. /\ HeapTypes /\ StackTypes /\ FrameLife /\ References /\ Dying /\ Shape(stack) /\ HasRun(stack)
      /\ (\A p : Adjacent(stack, p))
      /\ (\A i \in DOMAIN stack : stack[i].at \notin {"gc_free", "del"})
      /\ (\A n \in Nodes : life[n] = "null" => \A m \in Nodes : <<n, m>> \notin edge)
  BY InvariantParts, RunOnTop DEF StackShape
<1>2. HeapTypes' /\ StackTypes'
  BY <1>1 DEF HeapTypes, StackTypes
<1>3. AddrTypes' /\ BufferTypes' /\ Addresses' /\ UnusedListed' /\ CountTypes' /\ GcTypes'
  BY InvariantParts DEF BufferInvariant, CountTypes, GcTypes
<1>4. TypeOK'
  BY <1>2, <1>3, TypePartsNext
<1>5. StackShape' /\ HasRun(stack') /\ Top' = Top
  BY <1>1 DEF StackShape, Top
<1>6. RunShape'
  BY <1>5 DEF RunShape
<1>7. FrameLife'
  <2> SUFFICES ASSUME NEW i \in DOMAIN stack
               PROVE  LET n == stack[i].node IN
                      /\ stack[i].at \in {"dtor", "del_dtor", "full"} => life'[n] \in {"live", "destructed"}
                      /\ stack[i].at = "del_free" =>
                           life'[n] = "freeing" /\ \A j \in DOMAIN stack : stack[j].node = n => j = i
                      /\ stack[i].at = "gc_free" => life'[n] = "null"
                      /\ stack[i].at = "del" => life'[n] \in {"live", "destructed", "null"} /\ rc'[n] = 0
    BY DEF FrameLife
  <2> DEFINE n == stack[i].node
  <2>1. stack[i].at \notin {"main", "run"} => n \in Nodes
    <3>1. n \in Nodes \cup {NULL}
      BY <1>1, StackFacts DEF StackTypes
    <3>2. QED
      BY <1>1, <3>1 DEF Shape
  <2>2. /\ stack[i].at \in {"dtor", "del_dtor", "full"} => life[n] \in {"live", "destructed"}
        /\ stack[i].at = "del_free" =>
             life[n] = "freeing" /\ \A j \in DOMAIN stack : stack[j].node = n => j = i
    BY <1>1 DEF FrameLife
  <2>3. QED
    BY <1>1, <2>1, <2>2
<1>8. References'
  <2>1. held \subseteq Nodes /\ \A e \in edge : e[1] \in Nodes /\ e[2] \in Nodes
    BY <1>1 DEF HeapTypes
  <2>2. Usable' = Usable
    BY DEF Usable
  <2>3. QED
    BY <1>1, <2>1, <2>2 DEF References
<1>9. Dying'
  <2> SUFFICES ASSUME NEW n \in Nodes
               PROVE  /\ life'[n] = "none" => addr'[n] = 0 /\ color'[n] = "black" /\ rc'[n] = 0
                      /\ life'[n] = "freeing" => \E i \in DOMAIN stack : stack[i].at = "del_free" /\ stack[i].node = n
                      /\ life'[n] = "null" => /\ gc'.phase = "destroy" /\ n \in Condemned' /\ addr'[n] < gc'.idx
                                              /\ \A m \in Nodes : <<n, m>> \notin edge
    BY DEF Dying
  <2>1. life'[n] \in {"none", "freeing", "null"} => life[n] = life'[n]
    OBVIOUS
  <2>2. QED
    BY <1>1, <2>1 DEF Dying
<1>10. Marking' /\ Scanned' /\ Collecting'
  BY DEF Marking, Scanned, Collecting
<1>11. QED
  BY <1>3, <1>4, <1>5, <1>6, <1>7, <1>8, <1>9, <1>10 DEF CollectorInvariant

\* A run is over, or starts again: nothing is condemned or about to be freed.
LEMMA OverKeeps ==
  ASSUME CollectorInvariant, Top.at = "run", UNCHANGED <<edge, held>>, ~gc_active', gc_active' \in BOOLEAN,
         \/ gc' = IdleGc /\ stack' = Below
         \/ gc' \in GcType /\ gc'.phase = "start" /\ gc'.work = {} /\ gc'.bwork = {} /\ stack' = stack,
         BufferInvariant', rc' \in [Nodes -> Nat], life' \in [Nodes -> Lives],
         \A n \in Nodes : life'[n] # "null" /\ (life'[n] = life[n] \/ (life'[n] = "none" /\ life[n] = "null")),
         \A n \in Nodes : life'[n] = "none" => addr'[n] = 0 /\ color'[n] = "black" /\ rc'[n] = 0,
         \A i \in DOMAIN buf' : buf'[i].tag \in {"ROOT", "UNUSED"},
         \A n \in Nodes : color'[n] = IF addr'[n] # 0 THEN "purple" ELSE "black",
         References', Balance'
  PROVE  CollectorInvariant'
<1>1. /\ HeapTypes /\ StackTypes /\ FrameLife /\ Dying /\ Shape(stack) /\ HasRun(stack)
      /\ (\A p : Adjacent(stack, p))
      /\ (\A i \in DOMAIN stack : stack[i].at \notin {"gc_free", "del"})
      /\ Shape(Below) /\ Below \in Seq(Frame) /\ Below # <<>> /\ ~HasRun(Below)
      /\ (\A p : Adjacent(Below, p))
      /\ (\A i \in DOMAIN Below : i \in DOMAIN stack /\ Below[i] = stack[i])
      /\ (\A i \in DOMAIN stack : stack[i].at # "run" => i \in DOMAIN Below /\ Below[i] = stack[i])
  BY InvariantParts, RunOnTop, RunOver DEF StackShape
<1>2. /\ gc' \in GcType /\ gc'.work = {} /\ gc'.bwork = {} /\ gc'.phase \in {"idle", "start"}
      /\ (gc'.phase = "idle" => stack' = Below) /\ (gc'.phase = "start" => stack' = stack)
  BY BegunFacts
<1>3. HeapTypes' /\ StackTypes'
  BY <1>1, <1>2 DEF HeapTypes, StackTypes
<1>4. AddrTypes' /\ BufferTypes' /\ Addresses' /\ UnusedListed' /\ CountTypes' /\ GcTypes'
  BY <1>2, InvariantParts DEF BufferInvariant, CountTypes, GcTypes
<1>5. TypeOK'
  BY <1>3, <1>4, TypePartsNext
<1>6. StackShape' /\ RunShape'
  <2>1. CASE gc'.phase = "idle"
    BY <1>1, <1>2, <2>1 DEF StackShape, RunShape
  <2>2. CASE gc'.phase = "start"
    <3>1. Top' = Top
      BY <1>2, <2>2 DEF Top
    <3>2. QED
      BY <1>1, <1>2, <2>2, <3>1 DEF StackShape, RunShape
  <2>3. QED
    BY <1>2, <2>1, <2>2
<1>7. \A i \in DOMAIN stack' : i \in DOMAIN stack /\ stack'[i] = stack[i]
  BY <1>1, <1>2
<1>8. FrameLife'
  <2> SUFFICES ASSUME NEW i \in DOMAIN stack'
               PROVE  LET n == stack'[i].node IN
                      /\ stack'[i].at \in {"dtor", "del_dtor", "full"} => life'[n] \in {"live", "destructed"}
                      /\ stack'[i].at = "del_free" =>
                           life'[n] = "freeing" /\ \A j \in DOMAIN stack' : stack'[j].node = n => j = i
                      /\ stack'[i].at = "gc_free" => life'[n] = "null"
                      /\ stack'[i].at = "del" => life'[n] \in {"live", "destructed", "null"} /\ rc'[n] = 0
    BY DEF FrameLife
  <2> DEFINE n == stack[i].node
  <2>1. i \in DOMAIN stack /\ stack'[i] = stack[i]
    BY <1>7
  <2>2. stack[i].at \notin {"main", "run"} => n \in Nodes
    <3>1. n \in Nodes \cup {NULL}
      BY <1>1, <2>1, StackFacts DEF StackTypes
    <3>2. QED
      BY <1>1, <2>1, <3>1 DEF Shape
  <2>3. /\ stack[i].at \in {"dtor", "del_dtor", "full"} => life[n] \in {"live", "destructed"}
        /\ stack[i].at = "del_free" =>
             life[n] = "freeing" /\ \A j \in DOMAIN stack : stack[j].node = n => j = i
    BY <1>1, <2>1 DEF FrameLife
  <2>4. QED
    BY <1>1, <1>7, <2>1, <2>2, <2>3
<1>9. Dying'
  <2> SUFFICES ASSUME NEW n \in Nodes
               PROVE  life'[n] = "freeing" => \E i \in DOMAIN stack' : stack'[i].at = "del_free" /\ stack'[i].node = n
    BY DEF Dying
  <2>1. ASSUME life[n] = "freeing"
        PROVE  \E i \in DOMAIN stack' : stack'[i].at = "del_free" /\ stack'[i].node = n
    <3>1. PICK i \in DOMAIN stack : stack[i].at = "del_free" /\ stack[i].node = n
      BY <1>1, <2>1 DEF Dying
    <3>2. i \in DOMAIN stack' /\ stack'[i] = stack[i]
      BY <1>1, <1>2, <3>1
    <3>3. QED
      BY <3>1, <3>2
  <2>2. QED
    BY <2>1
<1>10. TagsOfPhase'
  BY <1>2 DEF TagsOfPhase
<1>11. RootsArePurple'
  <2>1. \A n \in Nodes : addr'[n] # 0 => addr'[n] \in DOMAIN buf'
    BY <1>4 DEF Addresses, AddrTypes, BufferTypes
  <2>2. \A n \in Nodes : addr'[n] # 0 => TagOf(n)' # "GARBAGE"
    BY <2>1 DEF TagOf
  <2>3. QED
    BY <2>2 DEF RootsArePurple
<1>12. Condemned' = {}
  <2>1. \A n \in Nodes : addr'[n] # 0 => addr'[n] \in DOMAIN buf'
    BY <1>4 DEF Addresses, AddrTypes, BufferTypes
  <2>2. QED
    BY <2>1 DEF Condemned, Tagged, TagOf
<1>13. CondemnedIsLost' /\ Marking' /\ Scanned' /\ Collecting'
  BY <1>2, <1>12 DEF CondemnedIsLost, Marking, Scanned, Collecting
<1>14. QED
  BY <1>4, <1>5, <1>6, <1>8, <1>9, <1>10, <1>11, <1>13 DEF CollectorInvariant

\* At the end of gc_collect_roots the buffer holds all that is lost, and nothing else.
LEMMA AllCollected ==
  ASSUME CollectorInvariant, gc.phase = "collect", NoWork, gc.idx > gc.end
  PROVE  /\ \A n \in Nodes : color[n] = "black"
         /\ Isolated(Roots) /\ Taken = {}
         /\ \A i \in DOMAIN buf : buf[i].tag = "GARBAGE"
         /\ ~gc.dtors => \A n \in Roots : ~HasDestructor(n)
<1>1. Colored("white") = {}
  <2>1. \A n \in Roots : color[n] # "white"
    <3>1. /\ \A n \in Roots : color[n] = "white" => gc.idx <= addr[n] /\ addr[n] <= gc.end
          /\ \A n \in Nodes : addr[n] \in Nat
          /\ gc.idx \in Nat /\ gc.end \in Nat
      BY CollectFacts
    <3>2. \A n \in Nodes : ~(gc.idx <= addr[n] /\ addr[n] <= gc.end)
      BY <3>1
    <3>3. QED
      BY <3>1, <3>2 DEF Roots
  <2>2. (Colored("white") \cap Roots) \cup gc.work = {}
    BY <2>1 DEF Colored, NoWork
  <2>3. Covers(Follow, (Colored("white") \cap Roots) \cup gc.work, Colored("white"))
    BY CollectFacts
  <2>4. QED
    BY <2>2, <2>3, CoversNothing
<1>2. Doomed = Roots
  BY <1>1 DEF Doomed, NoWork
<1>3. \A n \in Nodes : color[n] = "black"
  <2>1. \A n \in Nodes : color[n] \in {"white", "black"}
    BY CollectFacts
  <2>2. QED
    BY <1>1, <2>1 DEF Colored
<1>4. Isolated(Roots) /\ Taken = {} /\ (~gc.dtors => \A n \in Roots : ~HasDestructor(n))
  <2>1. /\ Isolated(Doomed) /\ Taken = Colored("white") \cup gc.work
        /\ ~gc.dtors => \A n \in Doomed : HasDestructor(n) => n \in Colored("white") \cup gc.work
    BY CollectFacts
  <2>2. QED
    BY <1>1, <1>2, <2>1 DEF NoWork
<1>5. \A i \in DOMAIN buf : buf[i].tag = "GARBAGE"
  <2>1. /\ DOMAIN buf = 1 .. Len(buf) /\ Len(buf) \in Nat /\ gc.idx \in Nat /\ gc.end \in Nat
        /\ \A i \in DOMAIN buf : buf[i].tag = IF gc.idx <= i /\ i <= gc.end THEN "ROOT" ELSE "GARBAGE"
    BY CollectFacts
  <2>2. \A i \in 1 .. Len(buf) : ~(gc.idx <= i /\ i <= gc.end)
    BY <2>1
  <2>3. QED
    BY <2>1, <2>2
<1>6. QED
  BY <1>3, <1>4, <1>5

\* There is nothing to free.
LEMMA NothingCollected ==
  ASSUME CollectorInvariant, Top.at = "run", gc.phase = "collect", NoWork, gc.idx > gc.end, num_roots = 0,
         EndRun, UNCHANGED <<life, edge, held, rc, color, addr, buf, unused, num_roots>>
  PROVE  CollectorInvariant'
<1>1. (\A n \in Nodes : color[n] = "black") /\ Taken = {}
  BY AllCollected
<1>2. Used = {} /\ Used = DOMAIN buf
  <2>1. IsFiniteSet(Used) /\ Cardinality(Used) = num_roots
    BY InvariantParts, BufferFacts
  <2>2. QED
    BY <2>1, FS_EmptySet, CollectFacts
<1>3. \A n \in Nodes : addr[n] = 0
  BY <1>2, InvariantParts, BufferFacts
<1>4. gc' = IdleGc /\ stack' = Below /\ gc_active' = FALSE /\ gc'.phase = "idle"
  BY BegunFacts DEF EndRun
<1>5. BufferInvariant'
  BY InvariantParts
     DEF BufferInvariant, AddrTypes, BufferTypes, Addresses, UnusedListed, TagOf, Used
<1>6. Balance'
  <2>1. Taken' = {}
    BY <1>4 DEF Taken
  <2>2. QED
    BY <1>1, <1>4, <2>1, SettledBalance
<1>7. References'
  BY InvariantParts DEF References, Usable
<1>8. /\ rc' \in [Nodes -> Nat] /\ life' \in [Nodes -> Lives]
      /\ \A n \in Nodes : life[n] # "null" /\ (life[n] = "none" => rc[n] = 0)
  BY InvariantParts DEF CountTypes, HeapTypes, Dying
<1>9. QED
  BY <1>1, <1>2, <1>3, <1>4, <1>5, <1>6, <1>7, <1>8, OverKeeps

\* All of it is to be freed at once.
LEMMA CollectedDestroyed ==
  ASSUME CollectorInvariant, Top.at = "run", gc.phase = "collect", NoWork, gc.idx > gc.end, ~gc.dtors,
         gc' = [gc EXCEPT !.phase = "destroy", !.idx = 1, !.end = Len(buf)],
         UNCHANGED <<life, edge, held, rc, color, addr, buf, unused, num_roots, gc_active, stack>>
  PROVE  CollectorInvariant'
<1>1. /\ \A n \in Nodes : color[n] = "black"
      /\ Isolated(Roots) /\ Taken = {}
      /\ \A i \in DOMAIN buf : buf[i].tag = "GARBAGE"
      /\ \A n \in Roots : ~HasDestructor(n)
  BY AllCollected
<1>2. /\ BufferInvariant /\ DOMAIN buf = 1 .. Len(buf) /\ Len(buf) \in Nat /\ gc \in GcType
      /\ (\A n \in Roots : addr[n] \in DOMAIN buf) /\ gc_active /\ gc.work \subseteq Nodes
  BY CollectFacts
<1>3. /\ gc' \in GcType /\ gc'.phase = "destroy" /\ gc'.idx = 1 /\ gc'.end = Len(buf) /\ ~gc'.dtors
      /\ gc'.work = {} /\ gc'.bwork = {}
  BY <1>2 DEF GcType, Phases, NoWork
<1>4. BufferInvariant'
  BY <1>2 DEF BufferInvariant, AddrTypes, BufferTypes, Addresses, UnusedListed, TagOf, Used
<1>5. Roots' = Roots /\ Condemned' = Roots
  <2>1. \A n \in Nodes : addr[n] # 0 => buf[addr[n]].tag = "GARBAGE"
    BY <1>1, <1>2 DEF Roots
  <2>2. QED
    BY <2>1 DEF Roots, Condemned, Tagged, TagOf
<1>6. Balance'
  <2>1. Taken' = {}
    BY <1>3 DEF Taken
  <2>2. QED
    BY <1>1, <1>3, <2>1, SettledBalance
<1>7. TagsOfPhase'
  BY <1>1, <1>2, <1>3 DEF TagsOfPhase
<1>8. RootsArePurple'
  <2>1. \A n \in Nodes : addr'[n] # 0 => TagOf(n)' = "GARBAGE"
    BY <1>1, <1>2 DEF Roots, TagOf
  <2>2. QED
    BY <1>1, <2>1 DEF RootsArePurple
<1>9. CondemnedIsLost'
  <2>1. /\ Roots \subseteq Usable /\ Roots \cap held = {} /\ (\A i \in DOMAIN stack : stack[i].node \notin Roots)
        /\ \A e \in edge : e[2] \in Roots => e[1] \in Roots
    BY <1>1 DEF Isolated
  <2>2. \A n \in Roots : addr'[n] < gc'.idx => FALSE
    BY <1>2, <1>3
  <2>3. \A n \in Nodes : HasDestructor(n)' <=> HasDestructor(n)
    BY DEF HasDestructor
  <2>4. \A n \in Roots : n \in Nodes
    BY DEF Roots
  <2>5. QED
    BY <1>1, <1>3, <1>5, <2>1, <2>2, <2>3, <2>4 DEF CondemnedIsLost
<1>10. /\ rc' \in [Nodes -> Nat] /\ life' \in [Nodes -> Lives]
       /\ \A n \in Nodes : life[n] # "null" /\ (life[n] = "none" => rc[n] = 0 /\ addr[n] = 0)
  BY InvariantParts DEF CountTypes, HeapTypes, Dying
<1>11. gc'.end <= Len(buf') /\ 1 <= gc'.idx
  BY <1>2, <1>3
<1>12. QED
  BY <1>1, <1>2, <1>3, <1>4, <1>6, <1>7, <1>8, <1>9, <1>10, <1>11, LaterKeeps

\* The local variables of a run that has destructors to call.
LEMMA GcNested ==
  ASSUME gc \in GcType, NEW k \in Nat,
         gc' = [gc EXCEPT !.phase = "nested", !.idx = 1, !.end = k, !.rerun = IF @ = "no" THEN "wanted" ELSE @]
  PROVE  /\ gc' \in GcType /\ gc'.phase = "nested" /\ gc'.idx = 1 /\ gc'.end = k /\ gc'.dtors = gc.dtors
         /\ gc'.work = gc.work /\ gc'.bwork = gc.bwork /\ gc'.rerun # "no"
<1>1. CASE gc.rerun = "no"
  <2>1. gc' = [phase |-> "nested", idx |-> 1, end |-> k, dtors |-> gc.dtors, rerun |-> "wanted",
               work |-> gc.work, bwork |-> gc.bwork]
    BY <1>1 DEF GcType
  <2>2. QED
    BY <2>1 DEF GcType, Phases
<1>2. CASE gc.rerun # "no"
  <2>1. gc' = [phase |-> "nested", idx |-> 1, end |-> k, dtors |-> gc.dtors, rerun |-> gc.rerun,
               work |-> gc.work, bwork |-> gc.bwork]
    BY <1>2 DEF GcType
  <2>2. QED
    BY <1>2, <2>1 DEF GcType, Phases
<1>3. QED
  BY <1>1, <1>2

\* Destructors have to be called first.
LEMMA CollectedDestructors ==
  ASSUME CollectorInvariant, Top.at = "run", gc.phase = "collect", NoWork, gc.idx > gc.end, gc.dtors,
         NEW first, first = {n \in Roots : HasDestructor(n)},
         buf' = [i \in DOMAIN buf |->
                   IF buf[i].ref \in first THEN [buf[i] EXCEPT !.tag = "DTOR_GARBAGE"] ELSE buf[i]],
         color' = [n \in Nodes |-> IF n \in first THEN "purple" ELSE color[n]],
         life' = [n \in Nodes |-> IF n \in Roots \ first /\ life[n] = "live" THEN "destructed" ELSE life[n]],
         gc' = [gc EXCEPT !.phase = "nested", !.idx = 1, !.end = Len(buf),
                          !.rerun = IF @ = "no" THEN "wanted" ELSE @],
         UNCHANGED <<edge, held, rc, addr, unused, num_roots, gc_active, stack>>
  PROVE  CollectorInvariant'
<1>1. /\ \A n \in Nodes : color[n] = "black"
      /\ Isolated(Roots) /\ Taken = {}
      /\ \A i \in DOMAIN buf : buf[i].tag = "GARBAGE"
  BY AllCollected
<1>2. /\ BufferInvariant /\ DOMAIN buf = 1 .. Len(buf) /\ Len(buf) \in Nat /\ gc \in GcType
      /\ (\A n \in Roots : n \in Nodes /\ addr[n] \in DOMAIN buf /\ buf[addr[n]].ref = n)
      /\ gc_active /\ gc.work \subseteq Nodes
      /\ buf \in Seq(EntryType) /\ (\A i \in DOMAIN buf : buf[i] \in EntryType)
      /\ (\A n \in Nodes : n \in Roots <=> addr[n] # 0)
  BY CollectFacts DEF Roots
<1>3. /\ gc' \in GcType /\ gc'.phase = "nested" /\ gc'.idx = 1 /\ gc'.end = Len(buf) /\ gc'.dtors
      /\ gc'.work = {} /\ gc'.bwork = {} /\ gc'.rerun # "no"
  <2>1. gc \in GcType /\ Len(buf) \in Nat
    BY <1>2
  <2>2. /\ gc' \in GcType /\ gc'.phase = "nested" /\ gc'.idx = 1 /\ gc'.end = Len(buf) /\ gc'.dtors = gc.dtors
        /\ gc'.work = gc.work /\ gc'.bwork = gc.bwork /\ gc'.rerun # "no"
    BY <2>1, GcNested
  <2>3. QED
    BY <2>2 DEF NoWork
<1>4. /\ buf' \in Seq(EntryType) /\ DOMAIN buf' = DOMAIN buf
      /\ \A i \in DOMAIN buf : /\ buf'[i].ref = buf[i].ref
                               /\ buf'[i].tag = IF buf[i].ref \in first THEN "DTOR_GARBAGE" ELSE "GARBAGE"
  <2>1. \A i \in DOMAIN buf : [buf[i] EXCEPT !.tag = "DTOR_GARBAGE"] \in EntryType
    BY <1>2 DEF EntryType, Tags
  <2>2. buf' \in [1 .. Len(buf) -> EntryType]
    BY <1>2, <2>1
  <2>3. buf' \in Seq(EntryType) /\ DOMAIN buf' = DOMAIN buf
    BY <1>2, <2>2
  <2>4. QED
    BY <1>1, <1>2, <2>3 DEF EntryType
<1>5. color' \in [Nodes -> Colors]
  BY <1>1 DEF Colors
<1>6. BufferInvariant' /\ Roots' = Roots /\ Len(buf') = Len(buf)
  BY <1>1, <1>2, <1>4, <1>5, Retagged
<1>7. \A n \in Roots : TagOf(n)' = IF n \in first THEN "DTOR_GARBAGE" ELSE "GARBAGE"
  BY <1>2, <1>4 DEF TagOf
<1>8. Condemned' = Roots \ first /\ Tagged("DTOR_GARBAGE")' = first
  <2>1. \A n \in Nodes : addr'[n] # 0 <=> n \in Roots
    BY <1>2
  <2>2. first \subseteq Roots /\ Roots \subseteq Nodes
    BY <1>2
  <2>3. QED
    BY <1>7, <2>1, <2>2 DEF Condemned, Tagged
<1>9. life' \in [Nodes -> Lives] /\ \A n \in Nodes : \/ life'[n] = life[n]
                                                     \/ life[n] \in {"live", "destructed"} /\ life'[n] \in {"live", "destructed"}
  <2>1. life \in [Nodes -> Lives]
    BY InvariantParts DEF HeapTypes
  <2>2. QED
    BY <2>1 DEF Lives
<1>10. Balance'
  <2>1. Taken' = {}
    BY <1>3 DEF Taken
  <2>2. \A n \in Nodes : life'[n] # "none" => life[n] # "none" /\ rc'[n] = rc[n]
    BY <1>9
  <2>3. QED
    BY <1>1, <1>3, <2>1, <2>2, SettledBalance
<1>11. TagsOfPhase'
  BY <1>2, <1>3, <1>4 DEF TagsOfPhase
<1>12. RootsArePurple'
  BY <1>1, <1>2, <1>7 DEF RootsArePurple
<1>13. CondemnedIsLost'
  <2>1. /\ Roots \subseteq Usable /\ Roots \cap held = {} /\ (\A i \in DOMAIN stack : stack[i].node \notin Roots)
        /\ \A e \in edge : e[2] \in Roots => e[1] \in Roots
    BY <1>1 DEF Isolated
  <2>2. \A n \in Roots \ first : n \in Usable' /\ ~HasDestructor(n)'
    <3> SUFFICES ASSUME NEW n \in Roots \ first PROVE n \in Usable' /\ ~HasDestructor(n)'
      OBVIOUS
    <3>1. n \in Nodes /\ n \in Usable /\ ~HasDestructor(n)
      BY <1>2, <2>1
    <3>2. life'[n] = IF life[n] = "live" THEN "destructed" ELSE life[n]
      BY <3>1
    <3>3. QED
      BY <3>1, <3>2 DEF Usable, HasDestructor
  <2>3. first \subseteq {n \in Nodes : HasDestructor(n)'}
    <3>1. \A n \in first : n \in Nodes /\ HasDestructor(n) /\ life'[n] = life[n]
      BY <1>2
    <3>2. QED
      BY <3>1 DEF HasDestructor
  <2>4. \A n \in Roots : addr'[n] >= gc'.idx
    BY <1>2, <1>3
  <2>5. QED
    BY <1>3, <1>8, <2>1, <2>2, <2>3, <2>4 DEF CondemnedIsLost
<1>14. \A n \in Nodes : life[n] # "null" /\ (life[n] = "none" => addr'[n] = 0 /\ color'[n] = "black" /\ rc'[n] = 0)
  <2>1. \A n \in Nodes : life[n] # "null" /\ (life[n] = "none" => rc[n] = 0 /\ addr[n] = 0)
    BY InvariantParts DEF Dying
  <2>2. QED
    BY <1>1, <1>2, <2>1
<1>15. rc' \in [Nodes -> Nat] /\ gc'.end <= Len(buf') /\ 1 <= gc'.idx
  BY <1>2, <1>3, <1>6, InvariantParts DEF CountTypes
<1>16. QED
  BY <1>2, <1>3, <1>6, <1>9, <1>10, <1>11, <1>12, <1>13, <1>14, <1>15, LaterKeeps

\* gc_collect_roots is done.
LEMMA EndCollectKeeps ==
  ASSUME CollectorInvariant, EndCollect
  PROVE  CollectorInvariant'
<1>1. /\ Top.at = "run" /\ gc.phase = "collect" /\ NoWork /\ gc.idx > gc.end
      /\ UNCHANGED <<edge, held, rc, addr, unused, num_roots>>
  BY DEF EndCollect, Running
<1>2. CASE num_roots = 0 /\ EndRun /\ UNCHANGED <<life, color, buf>>
  BY <1>1, <1>2, NothingCollected
<1>3. CASE /\ ~gc.dtors
           /\ gc' = [gc EXCEPT !.phase = "destroy", !.idx = 1, !.end = Len(buf)]
           /\ UNCHANGED <<life, color, buf, gc_active, stack>>
  BY <1>1, <1>3, CollectedDestroyed
<1> DEFINE garbage == {buf[i].ref : i \in {j \in DOMAIN buf : buf[j].tag = "GARBAGE"}}
           first   == {n \in garbage : HasDestructor(n)}
<1>4. CASE /\ gc.dtors
           /\ buf' = [i \in DOMAIN buf |->
                        IF buf[i].ref \in first THEN [buf[i] EXCEPT !.tag = "DTOR_GARBAGE"] ELSE buf[i]]
           /\ color' = [n \in Nodes |-> IF n \in first THEN "purple" ELSE color[n]]
           /\ life' = [n \in Nodes |->
                         IF n \in garbage \ first /\ life[n] = "live" THEN "destructed" ELSE life[n]]
           /\ gc' = [gc EXCEPT !.phase = "nested", !.idx = 1, !.end = Len(buf),
                               !.rerun = IF @ = "no" THEN "wanted" ELSE @]
           /\ UNCHANGED <<gc_active, stack>>
  <2>1. garbage = Roots
    <3>1. /\ \A i \in DOMAIN buf : buf[i].tag = "GARBAGE" /\ buf[i].ref \in Nodes /\ addr[buf[i].ref] = i
          /\ \A n \in Roots : addr[n] \in DOMAIN buf /\ buf[addr[n]].ref = n
          /\ DOMAIN buf = 1 .. Len(buf)
      BY <1>1, AllCollected, CollectFacts
    <3>2. \A i \in DOMAIN buf : i # 0
      BY <3>1
    <3>3. QED
      BY <3>1, <3>2 DEF Roots
  <2>2. first = {n \in Roots : HasDestructor(n)}
    BY <2>1
  <2> HIDE DEF garbage, first
  <2>3. QED
    BY <1>1, <1>4, <2>1, <2>2, CollectedDestructors
<1>5. QED
  BY <1>2, <1>3, <1>4 DEF EndCollect

----------------------------------------------------------------------------
(* Around the destructors.                                                 *)

\* What the invariant says between the passes and the end of the run.
LEMMA LaterFacts ==
  ASSUME CollectorInvariant, Top.at = "run", gc.phase \in {"nested", "dtors", "delref", "destroy"}
  PROVE  /\ gc_active /\ 1 <= gc.idx /\ gc.idx \in Nat /\ gc.end \in Nat /\ gc.end <= Len(buf)
         /\ gc \in GcType /\ gc.bwork = {} /\ gc.work \in SUBSET Nodes /\ (gc.phase # "nested" => gc.work = {})
         /\ (gc.phase # "destroy" => gc.dtors) /\ (gc.dtors => gc.rerun # "no") /\ gc.dtors \in BOOLEAN
         /\ Taken = {}
         /\ BufferInvariant /\ buf \in Seq(EntryType) /\ DOMAIN buf = 1 .. Len(buf) /\ Len(buf) \in Nat
         /\ (\A i \in DOMAIN buf : buf[i] \in EntryType)
         /\ (\A n \in Nodes : addr[n] # 0 =>
               addr[n] \in DOMAIN buf /\ buf[addr[n]].tag # "UNUSED" /\ buf[addr[n]].ref = n)
         /\ (\A i \in DOMAIN buf : buf[i].tag # "UNUSED" => buf[i].ref \in Nodes /\ addr[buf[i].ref] = i)
         /\ (\A n \in Nodes : addr[n] \in Nat)
         /\ (\A n \in Nodes : n \in Condemned <=> addr[n] # 0 /\ TagOf(n) = "GARBAGE")
         /\ (\A n \in Nodes : color[n] = IF addr[n] # 0 /\ TagOf(n) # "GARBAGE" THEN "purple" ELSE "black")
         /\ (\A i \in DOMAIN stack : stack[i].node \notin Condemned)
         /\ (\A n \in Condemned : n \notin held /\ ~HasDestructor(n))
         /\ life \in [Nodes -> Lives] /\ rc \in [Nodes -> Nat] /\ color \in [Nodes -> Colors]
         /\ edge \subseteq Nodes \X Nodes /\ held \subseteq Nodes
<1>1. /\ gc_active /\ 1 <= gc.idx /\ gc.end <= Len(buf) /\ gc.bwork = {}
      /\ gc.idx \in Nat /\ gc.end \in Nat /\ gc \in GcType /\ gc.work \in SUBSET Nodes
      /\ (gc.phase # "nested" => gc.work = {}) /\ gc.dtors \in BOOLEAN
      /\ (gc.phase # "destroy" => gc.dtors) /\ (gc.dtors => gc.rerun # "no")
  BY InvariantParts, GcFields DEF RunShape, GcTypes
<1>2. Taken = {}
  BY DEF Taken
<1>3. /\ BufferInvariant /\ buf \in Seq(EntryType) /\ DOMAIN buf = 1 .. Len(buf) /\ Len(buf) \in Nat
      /\ (\A i \in DOMAIN buf : buf[i] \in EntryType)
      /\ (\A n \in Nodes : addr[n] # 0 =>
            addr[n] \in DOMAIN buf /\ buf[addr[n]].tag # "UNUSED" /\ buf[addr[n]].ref = n)
      /\ (\A i \in DOMAIN buf : buf[i].tag # "UNUSED" => buf[i].ref \in Nodes /\ addr[buf[i].ref] = i)
  BY InvariantParts, BufferFacts DEF Used
<1>4. \A n \in Nodes : addr[n] \in Nat
  BY <1>3 DEF BufferInvariant, AddrTypes
<1>5. \A n \in Nodes : n \in Condemned <=> addr[n] # 0 /\ TagOf(n) = "GARBAGE"
  BY DEF Condemned, Tagged
<1>6. \A n \in Nodes : color[n] = IF addr[n] # 0 /\ TagOf(n) # "GARBAGE" THEN "purple" ELSE "black"
  BY InvariantParts DEF RootsArePurple, Passes
<1>7. /\ (\A i \in DOMAIN stack : stack[i].node \notin Condemned)
      /\ (\A n \in Condemned : n \notin held /\ ~HasDestructor(n))
  BY RunOnTop, InvariantParts DEF CondemnedIsLost
<1>8. /\ life \in [Nodes -> Lives] /\ rc \in [Nodes -> Nat] /\ color \in [Nodes -> Colors]
      /\ edge \subseteq Nodes \X Nodes /\ held \subseteq Nodes
  BY InvariantParts DEF HeapTypes, CountTypes
<1>9. QED
  BY <1>1, <1>2, <1>3, <1>4, <1>5, <1>6, <1>7, <1>8

\* A step of the run that only moves on.
LEMMA MovesOn ==
  ASSUME CollectorInvariant, Top.at = "run", gc.phase \in {"nested", "dtors", "destroy"},
         UNCHANGED <<heap, counts, buffer, gc_active, stack>>,
         gc' \in GcType, gc'.phase \in {"nested", "dtors", "destroy"}, 1 <= gc'.idx, gc'.end = gc.end,
         gc'.phase # "nested" => gc'.work = {}, gc'.bwork = {}, gc'.dtors = gc.dtors, gc'.rerun = gc.rerun,
         gc'.phase # "destroy" => gc.phase # "destroy",
         gc.phase = "destroy" => gc'.phase = "destroy" /\ gc.idx <= gc'.idx,
         TagsOfPhase', CondemnedIsLost'
  PROVE  CollectorInvariant'
<1>1. UNCHANGED <<life, edge, held, rc, color, addr, buf, unused, num_roots>>
  BY DEF heap, counts, buffer
<1>2. /\ gc_active /\ gc.idx \in Nat /\ gc.end <= Len(buf) /\ (gc.phase # "destroy" => gc.dtors)
      /\ (gc.dtors => gc.rerun # "no") /\ Taken = {} /\ BufferInvariant
      /\ (\A n \in Nodes : addr[n] \in Nat)
      /\ (\A n \in Nodes : color[n] = IF addr[n] # 0 /\ TagOf(n) # "GARBAGE" THEN "purple" ELSE "black")
      /\ life \in [Nodes -> Lives] /\ rc \in [Nodes -> Nat]
  BY LaterFacts
<1>3. BufferInvariant'
  BY <1>1, <1>2 DEF BufferInvariant, AddrTypes, BufferTypes, Addresses, UnusedListed, TagOf, Used
<1>4. RootsArePurple'
  BY <1>1, <1>2 DEF RootsArePurple, TagOf
<1>5. Balance'
  <2>1. Taken' = {}
    BY DEF Taken
  <2>2. QED
    BY <1>1, <1>2, <2>1, SettledBalance
<1>6. \A n \in Nodes : life[n] = "none" => addr[n] = 0 /\ color[n] = "black" /\ rc[n] = 0
  BY InvariantParts DEF Dying
<1>7. \A n \in Nodes : life[n] = "null" => gc'.phase = "destroy" /\ n \in Condemned' /\ addr'[n] < gc'.idx
  <2> SUFFICES ASSUME NEW n \in Nodes, life[n] = "null"
               PROVE  gc'.phase = "destroy" /\ n \in Condemned' /\ addr'[n] < gc'.idx
    OBVIOUS
  <2>1. gc.phase = "destroy" /\ n \in Condemned /\ addr[n] < gc.idx
    BY InvariantParts DEF Dying
  <2>2. Condemned' = Condemned
    BY <1>1 DEF Condemned, Tagged, TagOf
  <2>3. gc.idx <= gc'.idx /\ gc'.idx \in Nat /\ gc.idx \in Nat /\ addr[n] \in Nat
    BY <1>2, <2>1 DEF GcType
  <2>4. QED
    BY <1>1, <2>1, <2>2, <2>3
<1>8. gc'.end <= Len(buf') /\ (gc'.phase \in {"nested", "dtors"} => gc'.dtors) /\ (gc'.dtors => gc'.rerun # "no")
  BY <1>1, <1>2
<1>9. QED
  BY <1>1, <1>2, <1>3, <1>4, <1>5, <1>6, <1>7, <1>8, LaterKeeps

\* A run that goes on to the next loop.
LEMMA GcLoop ==
  ASSUME gc \in GcType, NEW p \in Phases, gc' = [gc EXCEPT !.phase = p, !.idx = 1]
  PROVE  /\ gc' \in GcType /\ gc'.phase = p /\ gc'.end = gc.end /\ gc'.idx = 1
         /\ gc'.work = gc.work /\ gc'.bwork = gc.bwork /\ gc'.dtors = gc.dtors /\ gc'.rerun = gc.rerun
BY DEF GcType

\* A root whose destructor will be called: what it refers to comes next.
LEMMA NestedRootKeeps ==
  ASSUME CollectorInvariant, NestedRoot
  PROVE  CollectorInvariant'
<1> DEFINE W == IF Entry.tag = "DTOR_GARBAGE" THEN Children(Entry.ref) ELSE {}
<1>1. /\ Top.at = "run" /\ gc.phase = "nested" /\ gc.work = {} /\ gc.idx <= gc.end
      /\ gc' = [gc EXCEPT !.idx = @ + 1, !.work = W]
      /\ UNCHANGED <<heap, counts, buffer, gc_active, stack>>
  BY DEF NestedRoot, Scanning, Running, NoWork, NestedIn
<1>2. UNCHANGED <<life, edge, held, rc, color, addr, buf>>
  BY <1>1 DEF heap, counts, buffer
<1>3. W \in SUBSET Nodes /\ gc \in GcType /\ gc.bwork = {} /\ 1 <= gc.idx /\ gc.idx \in Nat
      /\ (\A n \in Nodes : addr[n] \in Nat)
  BY <1>1, LaterFacts, ChildrenFacts
<1>4. /\ gc' \in GcType /\ gc'.phase = "nested" /\ gc'.end = gc.end /\ gc'.idx = gc.idx + 1
      /\ gc'.work = W /\ gc'.bwork = {} /\ gc'.dtors = gc.dtors /\ gc'.rerun = gc.rerun
  <2> HIDE DEF W
  <2>1. QED
    BY <1>1, <1>3, GcNext
<1>5. TagsOfPhase'
  BY <1>1, <1>2, <1>4, InvariantParts DEF TagsOfPhase
<1>6. CondemnedIsLost'
  <2>1. Condemned' = Condemned /\ Tagged("DTOR_GARBAGE")' = Tagged("DTOR_GARBAGE") /\ Usable' = Usable
        /\ \A n \in Nodes : HasDestructor(n)' <=> HasDestructor(n)
    BY <1>2 DEF Condemned, Tagged, TagOf, Usable, HasDestructor
  <2>2. /\ \A n \in Condemned : n \notin held /\ ~HasDestructor(n) /\ n \in Usable /\ n \in Nodes
        /\ Tagged("DTOR_GARBAGE") \subseteq {n \in Nodes : HasDestructor(n)}
        /\ \A e \in edge : e[2] \in Condemned =>
             e[1] \in Condemned \/ (e[1] \in Tagged("DTOR_GARBAGE") /\ addr[e[1]] >= gc.idx)
    BY <1>1, InvariantParts DEF CondemnedIsLost, Condemned, Tagged
  <2>3. \A i \in DOMAIN stack : stack[i].node \notin Condemned
    BY <1>1, LaterFacts
  <2>4. ASSUME NEW e \in edge, e[2] \in Condemned, e[1] \notin Condemned
        PROVE  e[2] \in W \/ (e[1] \in Tagged("DTOR_GARBAGE") /\ addr[e[1]] >= gc.idx + 1)
    <3>1. e[1] \in Tagged("DTOR_GARBAGE") /\ addr[e[1]] >= gc.idx
      BY <2>2, <2>4
    <3>2. CASE addr[e[1]] = gc.idx
      <4>1. e[1] \in Nodes /\ e[2] \in Nodes /\ e = <<e[1], e[2]>>
        BY InvariantParts DEF HeapTypes
      <4>2. Entry.tag = "DTOR_GARBAGE" /\ Entry.ref = e[1]
        <5>1. TagOf(e[1]) = "DTOR_GARBAGE" /\ addr[e[1]] # 0
          BY <3>1 DEF Tagged
        <5>2. buf[addr[e[1]]].ref = e[1]
          BY <1>1, <4>1, <5>1, LaterFacts
        <5>3. QED
          BY <3>2, <5>1, <5>2 DEF Entry, TagOf
      <4>3. life[e[1]] = "live"
        BY <2>2, <3>1 DEF HasDestructor
      <4>4. e[2] \in Children(e[1])
        BY <4>1, <4>3 DEF Children
      <4>5. QED
        BY <4>2, <4>4
    <3>3. CASE addr[e[1]] # gc.idx
      <4>1. addr[e[1]] \in Nat
        BY <1>3, InvariantParts DEF HeapTypes
      <4>2. addr[e[1]] >= gc.idx + 1
        BY <1>3, <3>1, <3>3, <4>1
      <4>3. QED
        BY <3>1, <4>2
    <3>4. QED
      BY <3>2, <3>3
  <2> HIDE DEF W
  <2>5. QED
    BY <1>2, <1>4, <2>1, <2>2, <2>3, <2>4, <1>1 DEF CondemnedIsLost
<1>7. 1 <= gc'.idx
  BY <1>3, <1>4
<1>8. QED
  BY <1>1, <1>4, <1>5, <1>6, <1>7, MovesOn

\* On to the destructors.
LEMMA EndNestedKeeps ==
  ASSUME CollectorInvariant, EndNested
  PROVE  CollectorInvariant'
<1>1. /\ Top.at = "run" /\ gc.phase = "nested" /\ gc.work = {} /\ gc.idx > gc.end
      /\ gc' = [gc EXCEPT !.phase = "dtors", !.idx = 1]
      /\ UNCHANGED <<heap, counts, buffer, gc_active, stack>>
  BY DEF EndNested, NextLoop, Running, NoWork
<1>2. UNCHANGED <<life, edge, held, rc, color, addr, buf>>
  BY <1>1 DEF heap, counts, buffer
<1>3. /\ gc \in GcType /\ gc.bwork = {} /\ gc.idx \in Nat /\ gc.end \in Nat
      /\ (\A n \in Nodes : addr[n] \in Nat /\ (addr[n] # 0 => addr[n] \in DOMAIN buf))
      /\ DOMAIN buf = 1 .. Len(buf)
  BY <1>1, LaterFacts
<1>4. /\ gc' \in GcType /\ gc'.phase = "dtors" /\ gc'.end = gc.end /\ gc'.idx = 1
      /\ gc'.work = {} /\ gc'.bwork = {} /\ gc'.dtors = gc.dtors /\ gc'.rerun = gc.rerun
  BY <1>1, <1>3, GcLoop DEF Phases
<1>5. TagsOfPhase'
  BY <1>1, <1>2, <1>3, <1>4, InvariantParts DEF TagsOfPhase
<1>6. CondemnedIsLost'
  <2>1. Condemned' = Condemned /\ Usable' = Usable /\ \A n \in Nodes : HasDestructor(n)' <=> HasDestructor(n)
    BY <1>2 DEF Condemned, Tagged, TagOf, Usable, HasDestructor
  <2>2. /\ \A n \in Condemned : n \notin held /\ ~HasDestructor(n) /\ n \in Usable /\ n \in Nodes
        /\ \A e \in edge : e[2] \in Condemned =>
             e[1] \in Condemned \/ (e[1] \in Tagged("DTOR_GARBAGE") /\ addr[e[1]] >= gc.idx)
    BY <1>1, InvariantParts DEF CondemnedIsLost, Condemned, Tagged
  <2>3. \A i \in DOMAIN stack : stack[i].node \notin Condemned
    BY <1>1, LaterFacts
  <2>4. \A n \in Tagged("DTOR_GARBAGE") : ~(addr[n] >= gc.idx)
    <3> SUFFICES ASSUME NEW n \in Tagged("DTOR_GARBAGE") PROVE ~(addr[n] >= gc.idx)
      OBVIOUS
    <3>1. n \in Nodes /\ addr[n] \in DOMAIN buf /\ buf[addr[n]].tag = "DTOR_GARBAGE"
      BY <1>3 DEF Tagged, TagOf
    <3>2. addr[n] <= gc.end
      BY <3>1, InvariantParts DEF TagsOfPhase
    <3>3. QED
      BY <1>1, <1>3, <3>1, <3>2
  <2>5. QED
    BY <1>2, <1>4, <2>1, <2>2, <2>3, <2>4, <1>1 DEF CondemnedIsLost
<1>7. QED
  BY <1>1, <1>4, <1>5, <1>6, MovesOn

\* On to freeing.
LEMMA EndDestructorsKeeps ==
  ASSUME CollectorInvariant, EndDestructors
  PROVE  CollectorInvariant'
<1>1. /\ Top.at = "run" /\ gc.phase = "dtors" /\ gc.idx > gc.end
      /\ gc' = [gc EXCEPT !.phase = "destroy", !.idx = 1]
      /\ UNCHANGED <<heap, counts, buffer, gc_active, stack>>
  BY DEF EndDestructors, NextLoop, Running
<1>2. UNCHANGED <<life, edge, held, rc, color, addr, buf>>
  BY <1>1 DEF heap, counts, buffer
<1>3. /\ gc \in GcType /\ gc.bwork = {} /\ gc.work = {} /\ gc.idx \in Nat /\ gc.end \in Nat
      /\ (\A n \in Nodes : addr[n] \in Nat) /\ DOMAIN buf = 1 .. Len(buf) /\ Len(buf) \in Nat
  BY <1>1, LaterFacts
<1>4. /\ gc' \in GcType /\ gc'.phase = "destroy" /\ gc'.end = gc.end /\ gc'.idx = 1
      /\ gc'.work = {} /\ gc'.bwork = {} /\ gc'.dtors = gc.dtors /\ gc'.rerun = gc.rerun
  BY <1>1, <1>3, GcLoop DEF Phases
<1>5. TagsOfPhase'
  <2>1. \A i \in DOMAIN buf : /\ buf[i].tag = "GARBAGE" => i <= gc.end
                              /\ buf[i].tag = "DTOR_GARBAGE" => gc.idx <= i /\ i <= gc.end
    BY <1>1, InvariantParts DEF TagsOfPhase
  <2>2. \A i \in DOMAIN buf : ~(gc.idx <= i /\ i <= gc.end)
    BY <1>1, <1>3
  <2>3. QED
    BY <1>2, <1>4, <2>1, <2>2 DEF TagsOfPhase
<1>6. CondemnedIsLost'
  <2>1. Condemned' = Condemned /\ Usable' = Usable /\ \A n \in Nodes : HasDestructor(n)' <=> HasDestructor(n)
    BY <1>2 DEF Condemned, Tagged, TagOf, Usable, HasDestructor
  <2>2. /\ \A n \in Condemned : n \notin held /\ ~HasDestructor(n) /\ n \in Nodes /\ addr[n] # 0
        /\ \A e \in edge : e[2] \in Condemned => e[1] \in Condemned
    BY <1>1, InvariantParts DEF CondemnedIsLost, Condemned, Tagged
  <2>3. \A i \in DOMAIN stack : stack[i].node \notin Condemned
    BY <1>1, LaterFacts
  <2>4. \A n \in Condemned : ~(addr'[n] < gc'.idx)
    BY <1>2, <1>3, <1>4, <2>2
  <2>5. QED
    BY <1>2, <1>4, <2>1, <2>2, <2>3, <2>4, <1>1 DEF CondemnedIsLost
<1>7. QED
  BY <1>1, <1>4, <1>5, <1>6, MovesOn

\* gc_remove_nested_data_from_buffer, for one node.
LEMMA RemoveNestedKeeps ==
  ASSUME CollectorInvariant, NEW r \in Nodes, RemoveNested(r)
  PROVE  CollectorInvariant'
<1> DEFINE out == addr[r] # 0 /\ color[r] = "black"
           W == IF out THEN (gc.work \ {r}) \cup Children(r) ELSE gc.work \ {r}
<1>1. /\ Top.at = "run" /\ gc.phase = "nested" /\ r \in gc.work
      /\ IF out THEN RemoveFromBuffer(r) ELSE UNCHANGED <<color, addr, buffer>>
      /\ gc' = [gc EXCEPT !.work = W]
      /\ UNCHANGED <<life, edge, held, rc, gc_active, stack>>
  BY DEF RemoveNested, Running, heap
<1>2. /\ W \in SUBSET Nodes /\ gc \in GcType /\ gc.bwork = {} /\ 1 <= gc.idx /\ gc.idx \in Nat
      /\ gc_active /\ gc.end <= Len(buf) /\ gc.dtors /\ gc.rerun # "no" /\ Taken = {}
      /\ (\A n \in Nodes : addr[n] # 0 =>
            addr[n] \in DOMAIN buf /\ buf[addr[n]].tag # "UNUSED" /\ buf[addr[n]].ref = n)
      /\ (\A n \in Nodes : n \in Condemned <=> addr[n] # 0 /\ TagOf(n) = "GARBAGE")
      /\ (\A n \in Nodes : color[n] = IF addr[n] # 0 /\ TagOf(n) # "GARBAGE" THEN "purple" ELSE "black")
      /\ (\A i \in DOMAIN stack : stack[i].node \notin Condemned)
      /\ life \in [Nodes -> Lives] /\ rc \in [Nodes -> Nat]
      /\ BufferInvariant
  <2>1. Children(r) \in SUBSET Nodes
    BY ChildrenFacts
  <2>2. QED
    BY <1>1, <2>1, LaterFacts
<1>3. /\ gc' \in GcType /\ gc'.phase = "nested" /\ gc'.end = gc.end /\ gc'.idx = gc.idx
      /\ gc'.work = W /\ gc'.bwork = {} /\ gc'.dtors = gc.dtors /\ gc'.rerun = gc.rerun
  <2> HIDE DEF W
  <2>1. gc \in GcType /\ W \in SUBSET Nodes /\ gc' = [gc EXCEPT !.work = W] /\ gc.bwork = {}
    BY <1>1, <1>2
  <2>2. gc' \in GcType
    BY <2>1 DEF GcType
  <2>3. /\ gc'.phase = gc.phase /\ gc'.end = gc.end /\ gc'.idx = gc.idx
        /\ gc'.work = W /\ gc'.bwork = gc.bwork /\ gc'.dtors = gc.dtors /\ gc'.rerun = gc.rerun
    BY <2>1 DEF GcType
  <2>4. QED
    BY <1>1, <2>1, <2>2, <2>3
<1>4. out <=> r \in Condemned
  BY <1>2
<1> HIDE DEF out
<1>5. /\ BufferInvariant' /\ Len(buf') = Len(buf) /\ DOMAIN buf' = DOMAIN buf
      /\ (\A i \in DOMAIN buf : buf'[i] = buf[i] \/ buf'[i].tag = "UNUSED")
      /\ (\A n \in Nodes : n # r => addr'[n] = addr[n] /\ color'[n] = color[n]
                                    /\ (addr[n] # 0 => buf'[addr[n]] = buf[addr[n]]))
      /\ (out => addr'[r] = 0 /\ color'[r] = "black")
      /\ (~out => addr'[r] = addr[r] /\ color'[r] = color[r] /\ buf' = buf)
  <2>1. CASE out
    <3>1. RemoveFromBuffer(r) /\ addr[r] # 0
      BY <1>1, <2>1 DEF out
    <3>2. /\ BufferInvariant'
          /\ addr' = [addr EXCEPT ![r] = 0] /\ color' = [color EXCEPT ![r] = "black"]
          /\ DOMAIN buf' = DOMAIN buf /\ Len(buf') = Len(buf)
          /\ buf'[addr[r]].tag = "UNUSED"
          /\ \A i \in DOMAIN buf : i # addr[r] => buf'[i] = buf[i]
      BY <1>2, <3>1, RemoveFacts
    <3>3. addr \in [Nodes -> 0 .. Len(buf)] /\ color \in [Nodes -> Colors]
      BY <1>2 DEF BufferInvariant, AddrTypes
    <3>4. \A n \in Nodes : n # r /\ addr[n] # 0 => addr[n] # addr[r] /\ addr[n] \in DOMAIN buf
      BY <1>2, <3>1
    <3>5. QED
      BY <2>1, <3>2, <3>3, <3>4
  <2>2. CASE ~out
    <3>1. UNCHANGED <<color, addr, buf, unused, num_roots>>
      BY <1>1, <2>2 DEF buffer
    <3>2. BufferInvariant'
      BY <1>2, <3>1 DEF BufferInvariant, AddrTypes, BufferTypes, Addresses, UnusedListed, TagOf, Used
    <3>3. QED
      BY <2>2, <3>1, <3>2
  <2>3. QED
    BY <2>1, <2>2
<1>6. /\ \A n \in Nodes : n # r => (addr'[n] # 0 <=> addr[n] # 0) /\ (addr[n] # 0 => TagOf(n)' = TagOf(n))
      /\ ~out => TagOf(r)' = TagOf(r)
  BY <1>5 DEF TagOf
<1>7. Condemned' = Condemned \ {r} /\ Tagged("DTOR_GARBAGE")' = Tagged("DTOR_GARBAGE")
  <2>1. \A n \in Nodes : n # r => /\ n \in Condemned' <=> n \in Condemned
                                  /\ n \in Tagged("DTOR_GARBAGE")' <=> n \in Tagged("DTOR_GARBAGE")
    BY <1>6 DEF Condemned, Tagged
  <2>2. r \notin Condemned'
    BY <1>4, <1>5, <1>6 DEF Condemned, Tagged
  <2>3. r \in Tagged("DTOR_GARBAGE")' <=> r \in Tagged("DTOR_GARBAGE")
    <3>1. CASE out
      <4>1. r \in Condemned
        BY <1>4, <3>1
      <4>2. r \notin Tagged("DTOR_GARBAGE")
        BY <4>1 DEF Condemned, Tagged
      <4>3. r \notin Tagged("DTOR_GARBAGE")'
        BY <1>5, <3>1 DEF Tagged
      <4>4. QED
        BY <4>2, <4>3
    <3>2. CASE ~out
      BY <1>5, <1>6, <3>2 DEF Tagged
    <3>3. QED
      BY <3>1, <3>2
  <2>4. QED
    BY <2>1, <2>2, <2>3 DEF Condemned, Tagged
<1>8. Balance'
  <2>1. Taken' = {}
    BY <1>3 DEF Taken
  <2>2. QED
    BY <1>1, <1>2, <1>3, <2>1, SettledBalance
<1>9. TagsOfPhase'
  BY <1>1, <1>3, <1>5, InvariantParts DEF TagsOfPhase
<1>10. RootsArePurple'
  BY <1>2, <1>5, <1>6 DEF RootsArePurple
<1>11. CondemnedIsLost'
  <2>1. Usable' = Usable /\ \A n \in Nodes : HasDestructor(n)' <=> HasDestructor(n)
    BY <1>1 DEF Usable, HasDestructor
  <2>2. /\ \A n \in Condemned : n \notin held /\ ~HasDestructor(n) /\ n \in Usable /\ n \in Nodes
        /\ Tagged("DTOR_GARBAGE") \subseteq {n \in Nodes : HasDestructor(n)}
        /\ \A e \in edge : e[2] \in Condemned =>
             \/ e[1] \in Condemned \/ e[2] \in gc.work
             \/ (e[1] \in Tagged("DTOR_GARBAGE") /\ addr[e[1]] >= gc.idx)
    BY <1>1, InvariantParts DEF CondemnedIsLost, Condemned, Tagged
  <2>3. ASSUME NEW e \in edge, e[2] \in Condemned', e[1] \notin Condemned'
        PROVE  e[2] \in W \/ (e[1] \in Tagged("DTOR_GARBAGE") /\ addr'[e[1]] >= gc.idx)
    <3>1. e[1] \in Nodes /\ e[2] \in Nodes /\ e = <<e[1], e[2]>> /\ e[2] \in Condemned /\ e[2] # r
      BY <1>7, <2>3, InvariantParts DEF HeapTypes
    <3>2. CASE e[1] = r /\ r \in Condemned
      <4>1. r \in Usable
        BY <2>2, <3>2
      <4>2. e[2] \in Children(r)
        BY <3>1, <3>2, <4>1 DEF Children, Usable
      <4>3. QED
        BY <1>4, <3>2, <4>2
    <3>3. CASE ~(e[1] = r /\ r \in Condemned)
      <4>1. e[1] \notin Condemned
        BY <1>7, <2>3, <3>3
      <4>2. e[2] \in gc.work \/ (e[1] \in Tagged("DTOR_GARBAGE") /\ addr[e[1]] >= gc.idx)
        BY <2>2, <3>1, <4>1
      <4>3. e[2] \in gc.work => e[2] \in W
        BY <3>1
      <4>4. e[1] \in Tagged("DTOR_GARBAGE") => addr'[e[1]] = addr[e[1]]
        <5>1. e[1] = r => ~out
          BY <1>4, <4>1
        <5>2. QED
          BY <1>5, <3>1, <5>1
      <4>5. QED
        BY <4>2, <4>3, <4>4
    <3>4. QED
      BY <3>2, <3>3
  <2> HIDE DEF W
  <2>4. QED
    BY <1>1, <1>2, <1>3, <1>7, <2>1, <2>2, <2>3 DEF CondemnedIsLost
<1>12. \A n \in Nodes : life[n] # "null" /\ (life[n] = "none" => addr'[n] = 0 /\ color'[n] = "black" /\ rc'[n] = 0)
  <2>1. \A n \in Nodes : life[n] # "null" /\ (life[n] = "none" => rc[n] = 0 /\ addr[n] = 0 /\ color[n] = "black")
    BY <1>1, InvariantParts DEF Dying
  <2>2. QED
    BY <1>1, <1>5, <2>1
<1>13. /\ gc_active /\ gc'.phase \in {"nested", "dtors", "destroy"} /\ 1 <= gc'.idx /\ gc'.end <= Len(buf')
       /\ gc'.dtors /\ gc'.rerun # "no" /\ rc' \in [Nodes -> Nat] /\ life' \in [Nodes -> Lives]
  BY <1>1, <1>2, <1>3, <1>5
<1>14. QED
  BY <1>1, <1>3, <1>5, <1>8, <1>9, <1>10, <1>11, <1>12, <1>13, LaterKeeps

\* The entry of the call of a destructor becomes a root again.
LEMMA TagReset ==
  ASSUME CollectorInvariant, Scanning("dtors"), Entry.tag = "DTOR_GARBAGE",
         buf' = [buf EXCEPT ![gc.idx].tag = "ROOT"], UNCHANGED <<color, addr, unused, num_roots>>
  PROVE  /\ BufferInvariant' /\ Len(buf') = Len(buf) /\ DOMAIN buf' = DOMAIN buf
         /\ Condemned' = Condemned /\ Entry.ref \in Nodes /\ addr[Entry.ref] = gc.idx /\ gc.idx \in DOMAIN buf
         /\ Entry.ref \notin Condemned
         /\ \A i \in DOMAIN buf : /\ buf'[i].ref = buf[i].ref
                                  /\ buf'[i].tag = IF i = gc.idx THEN "ROOT" ELSE buf[i].tag
         /\ gc'.phase \notin Passes => RootsArePurple'
         /\ Entry = buf[gc.idx]
<1>1. Top.at = "run" /\ gc.phase = "dtors" /\ gc.idx <= gc.end
  BY DEF Scanning, Running
<1>2. /\ 1 <= gc.idx /\ gc.idx \in Nat /\ gc.end \in Nat /\ gc.end <= Len(buf) /\ BufferInvariant
      /\ buf \in Seq(EntryType) /\ DOMAIN buf = 1 .. Len(buf) /\ Len(buf) \in Nat
      /\ (\A i \in DOMAIN buf : buf[i] \in EntryType)
      /\ (\A n \in Nodes : addr[n] # 0 =>
            addr[n] \in DOMAIN buf /\ buf[addr[n]].tag # "UNUSED" /\ buf[addr[n]].ref = n)
      /\ (\A i \in DOMAIN buf : buf[i].tag # "UNUSED" => buf[i].ref \in Nodes /\ addr[buf[i].ref] = i)
      /\ (\A n \in Nodes : color[n] = IF addr[n] # 0 /\ TagOf(n) # "GARBAGE" THEN "purple" ELSE "black")
      /\ color \in [Nodes -> Colors]
  BY <1>1, LaterFacts
<1>3. gc.idx \in DOMAIN buf /\ Entry = buf[gc.idx] /\ Entry.ref \in Nodes /\ addr[Entry.ref] = gc.idx
  <2>1. gc.idx \in DOMAIN buf
    BY <1>1, <1>2
  <2>2. QED
    BY <1>2, <2>1 DEF Entry
<1>4. /\ buf' \in Seq(EntryType) /\ DOMAIN buf' = DOMAIN buf
      /\ \A i \in DOMAIN buf : /\ buf'[i].ref = buf[i].ref
                               /\ buf'[i].tag = IF i = gc.idx THEN "ROOT" ELSE buf[i].tag
  <2>1. [buf[gc.idx] EXCEPT !.tag = "ROOT"] \in EntryType
    BY <1>2, <1>3 DEF EntryType, Tags
  <2>2. buf' = [buf EXCEPT ![gc.idx] = [buf[gc.idx] EXCEPT !.tag = "ROOT"]]
    BY <1>3
  <2>3. buf' \in Seq(EntryType) /\ DOMAIN buf' = DOMAIN buf
    BY <1>2, <1>3, <2>1, <2>2
  <2>4. \A i \in DOMAIN buf : buf'[i] = IF i = gc.idx THEN [buf[gc.idx] EXCEPT !.tag = "ROOT"] ELSE buf[i]
    BY <1>2, <2>2
  <2>5. QED
    BY <1>2, <1>3, <2>3, <2>4 DEF EntryType
<1>5. BufferInvariant' /\ Len(buf') = Len(buf)
  <2>1. \A i \in DOMAIN buf : buf'[i].ref = buf[i].ref /\ (buf'[i].tag = "UNUSED" <=> buf[i].tag = "UNUSED")
    BY <1>3, <1>4
  <2>2. QED
    BY <1>2, <1>4, <2>1, Retagged
<1>6. \A n \in Nodes : addr[n] # 0 => (TagOf(n)' = "GARBAGE" <=> TagOf(n) = "GARBAGE")
  BY <1>2, <1>3, <1>4 DEF TagOf
<1>7. Condemned' = Condemned /\ Entry.ref \notin Condemned
  <2>1. TagOf(Entry.ref) # "GARBAGE"
    BY <1>3 DEF TagOf
  <2>2. QED
    BY <1>6, <2>1 DEF Condemned, Tagged
<1>8. gc'.phase \notin Passes => RootsArePurple'
  BY <1>2, <1>6 DEF RootsArePurple
<1>9. QED
  BY <1>3, <1>4, <1>5, <1>7, <1>8
\* The run calls: a destructor, or free_obj of an object it has condemned.
LEMMA PushKeeps ==
  ASSUME CollectorInvariant, Top.at = "run", gc_active, UNCHANGED <<edge, held, gc_active, addr>>,
         NEW n \in Usable, NEW a \in {"dtor", "gc_free"}, stack' = Append(stack, Call(a, n)),
         life' = [life EXCEPT ![n] = IF a = "dtor" THEN "destructed" ELSE "null"],
         rc' = [rc EXCEPT ![n] = @ + IF a = "dtor" THEN 2 ELSE 1],
         gc' \in GcType, gc'.work = {}, gc'.bwork = {}, gc'.dtors = gc.dtors, gc'.rerun = gc.rerun,
         gc'.end = gc.end, gc.idx <= gc'.idx,
         a = "dtor" => /\ gc.phase = "dtors" /\ gc'.phase = "delref" /\ gc'.idx <= gc'.end
                       /\ Entry' = [tag |-> "ROOT", ref |-> n] /\ n \notin Condemned,
         a = "gc_free" => /\ gc.phase = "destroy" /\ gc'.phase = "destroy"
                          /\ gc'.idx = gc.idx + 1 /\ addr[n] = gc.idx /\ n \in Condemned,
         BufferInvariant', Len(buf') = Len(buf), Condemned' = Condemned, color' = color,
         TagsOfPhase', RootsArePurple'
  PROVE  CollectorInvariant'
<1> DEFINE f == Call(a, n)
<1>1. /\ HeapTypes /\ StackTypes /\ FrameLife /\ References /\ Dying /\ Shape(stack) /\ HasRun(stack)
      /\ (\A p : Adjacent(stack, p)) /\ CountTypes
      /\ (\A i \in DOMAIN stack : stack[i].at \notin {"gc_free", "del"})
      /\ (\A m \in Nodes : life[m] = "null" => \A x \in Nodes : <<m, x>> \notin edge)
      /\ Len(stack) \in DOMAIN stack /\ stack[Len(stack)].at = "run"
  BY InvariantParts, RunOnTop DEF StackShape
<1>2. /\ 1 <= gc.idx /\ gc.idx \in Nat /\ gc.end <= Len(buf) /\ Taken = {}
      /\ (gc.phase # "destroy" => gc.dtors) /\ (gc.dtors => gc.rerun # "no")
      /\ (\A i \in DOMAIN stack : stack[i].node \notin Condemned)
      /\ (\A m \in Condemned : m \notin held /\ ~HasDestructor(m))
      /\ (\A m \in Nodes : addr[m] \in Nat)
      /\ (\A m \in Nodes : addr[m] # 0 =>
            addr[m] \in DOMAIN buf /\ buf[addr[m]].tag # "UNUSED" /\ buf[addr[m]].ref = m)
  <2>1. gc.phase \in {"nested", "dtors", "delref", "destroy"}
    OBVIOUS
  <2>2. QED
    BY <2>1, LaterFacts
<1>3. /\ n \in Nodes /\ life[n] \in {"live", "destructed"} /\ f \in Frame /\ f.at = a /\ f.node = n /\ n # NULL
      /\ a \in Calls
  BY CallFacts, ConstantsAssumption DEF Usable, Calls
<1>4. /\ life' \in [Nodes -> Lives] /\ life'[n] = (IF a = "dtor" THEN "destructed" ELSE "null")
      /\ \A m \in Nodes : m # n => life'[m] = life[m] /\ rc'[m] = rc[m]
      /\ rc' \in [Nodes -> Nat] /\ rc'[n] = rc[n] + (IF a = "dtor" THEN 2 ELSE 1)
  <2>1. (IF a = "dtor" THEN "destructed" ELSE "null") \in Lives /\ (IF a = "dtor" THEN 2 ELSE 1) \in Nat
    BY DEF Lives
  <2>2. life \in [Nodes -> Lives] /\ rc \in [Nodes -> Nat] /\ rc[n] \in Nat
    BY <1>1, <1>3 DEF HeapTypes, CountTypes
  <2>3. rc[n] + (IF a = "dtor" THEN 2 ELSE 1) \in Nat
    BY <2>1, <2>2
  <2>4. QED
    BY <1>3, <2>1, <2>2, <2>3
<1>5. /\ Shape(stack') /\ HasRun(stack') /\ StackTypes' /\ stack'[Len(stack')] = f
      /\ Adjacent(stack', gc'.phase)
  <2> HIDE DEF f
  <2>1. stack \in Seq(Frame) /\ stack # <<>> /\ stack' = Append(stack, f) /\ f.at # "main" /\ f.at # "run"
        /\ stack[Len(stack)].at # "del"
    BY <1>1, <1>3 DEF StackTypes, f
  <2>2. Shape(stack') /\ HasRun(stack') /\ stack' \in Seq(Frame) /\ stack' # <<>> /\ stack'[Len(stack')] = f
    <3>1. (f.node = NULL <=> f.at = "run") /\ (f.at = "run" => ~HasRun(stack)) /\ f \in Frame
      BY <1>3, <2>1
    <3>2. Shape(stack)
      BY <1>1
    <3>3. stack \in Seq(Frame) /\ stack # <<>> /\ stack[Len(stack)].at # "del" /\ f.at # "main"
      BY <2>1
    <3>4. /\ Shape(Append(stack, f)) /\ (HasRun(Append(stack, f)) <=> HasRun(stack) \/ f.at = "run")
          /\ Append(stack, f) \in Seq(Frame) /\ Append(stack, f) # <<>>
          /\ Append(stack, f)[Len(Append(stack, f))] = f
      BY <3>1, <3>2, <3>3, ShapePush
    <3>5. QED
      BY <1>1, <2>1, <3>4
  <2>3. /\ f.at = "gc_free" => gc'.phase = "destroy" /\ stack[Len(stack)].at = "run"
        /\ (stack[Len(stack)].at = "run" /\ gc'.phase = "destroy" => f.at = "gc_free")
        /\ stack[Len(stack)].at # "del_dtor"
    BY <1>1, <1>3
  <2>4. Adjacent(stack', gc'.phase)
    BY <1>1, <1>3, <2>1, <2>3, AdjacentPush
  <2>5. QED
    BY <2>2, <2>4 DEF StackTypes
<1>6. /\ DOMAIN stack' = DOMAIN stack \cup {Len(stack) + 1} /\ Len(stack) + 1 \notin DOMAIN stack
      /\ \A i \in DOMAIN stack : stack'[i] = stack[i]
      /\ stack'[Len(stack) + 1] = f /\ Len(stack) \in 1 .. Len(stack)
  <2>1. stack \in Seq(Frame) /\ f \in Frame /\ stack' = Append(stack, f) /\ stack # <<>>
    BY <1>1, <1>3 DEF StackTypes
  <2> HIDE DEF f
  <2>2. QED
    BY <2>1
<1> HIDE DEF f
<1>7. TypeOK'
  <2>1. HeapTypes'
    BY <1>1, <1>4 DEF HeapTypes
  <2>2. AddrTypes' /\ BufferTypes' /\ CountTypes' /\ GcTypes'
    BY <1>1, <1>4 DEF BufferInvariant, CountTypes, GcTypes
  <2>3. QED
    BY <1>5, <2>1, <2>2, TypePartsNext
<1>8. StackShape' /\ RunShape'
  <2>1. StackShape'
    BY <1>5 DEF StackShape
  <2>2. a = "dtor" => n \in Usable'
    BY <1>3, <1>4 DEF Usable
  <2>3. gc'.phase \in {"delref", "destroy"} /\ (gc'.phase = "delref" => a = "dtor")
    OBVIOUS
  <2>4. gc'.phase = "delref" => gc'.idx <= gc'.end /\ Entry'.tag = "ROOT" /\ Entry'.ref \in Usable'
    BY <2>2, <2>3
  <2>5. 1 <= gc'.idx /\ gc'.end <= Len(buf')
    BY <1>2 DEF GcType
  <2>6. (gc'.phase = "delref" => gc'.dtors) /\ (gc'.dtors => gc'.rerun # "no")
    BY <1>2, <2>3
  <2>7. gc_active' /\ HasRun(stack') /\ gc'.work = {} /\ gc'.bwork = {}
    BY <1>5
  <2>8. RunShape'
    <3> USE DEF RunShape
    <3>1. gc'.phase \notin {"idle", "start", "mark", "scan", "collect", "nested", "dtors"}
      BY <2>3
    <3>2. QED
      BY <2>4, <2>5, <2>6, <2>7, <3>1
  <2>9. QED
    BY <2>1, <2>8
<1>9. \A i \in DOMAIN stack : stack[i].at \notin {"main", "run"} => stack[i].node \in Nodes
  <2>1. \A i \in DOMAIN stack : stack[i].node \in Nodes \cup {NULL}
    BY <1>1, StackFacts DEF StackTypes
  <2>2. QED
    BY <1>1, <2>1 DEF Shape
<1>10. FrameLife'
  <2> SUFFICES ASSUME NEW i \in DOMAIN stack'
               PROVE  LET x == stack'[i].node IN
                      /\ stack'[i].at \in {"dtor", "del_dtor", "full"} => life'[x] \in {"live", "destructed"}
                      /\ stack'[i].at = "del_free" =>
                           life'[x] = "freeing" /\ \A j \in DOMAIN stack' : stack'[j].node = x => j = i
                      /\ stack'[i].at = "gc_free" => life'[x] = "null"
                      /\ stack'[i].at = "del" => life'[x] \in {"live", "destructed", "null"} /\ rc'[x] = 0
    BY DEF FrameLife
  <2>1. CASE i = Len(stack) + 1
    BY <1>3, <1>4, <1>6, <2>1
  <2>2. CASE i \in DOMAIN stack
    <3> DEFINE x == stack[i].node
    <3>1. /\ stack[i].at \in {"dtor", "del_dtor", "full"} => life[x] \in {"live", "destructed"}
          /\ stack[i].at = "del_free" =>
               life[x] = "freeing" /\ \A j \in DOMAIN stack : stack[j].node = x => j = i
          /\ stack'[i] = stack[i] /\ stack[i].at \notin {"gc_free", "del"}
      BY <1>1, <1>6, <2>2 DEF FrameLife
    <3>2. stack[i].at \notin {"main", "run"} => x \in Nodes
      BY <1>9, <2>2
    <3>3. stack[i].at \in {"dtor", "del_dtor", "full"} => life'[x] \in {"live", "destructed"}
      <4>1. a = "gc_free" => x # n
        BY <1>2, <2>2
      <4>2. QED
        BY <1>4, <3>1, <3>2, <4>1
    <3>4. stack[i].at = "del_free" =>
            life'[x] = "freeing" /\ \A j \in DOMAIN stack' : stack'[j].node = x => j = i
      <4>1. stack[i].at = "del_free" => x # n
        BY <1>3, <3>1
      <4>2. QED
        BY <1>3, <1>4, <1>6, <3>1, <3>2, <4>1
    <3>5. QED
      BY <3>1, <3>3, <3>4
  <2>3. QED
    BY <1>6, <2>1, <2>2
<1>11. References'
  <2>1. held \subseteq Nodes /\ \A e \in edge : e[1] \in Nodes /\ e[2] \in Nodes
    BY <1>1 DEF HeapTypes
  <2>2. held \subseteq Usable /\ (a = "gc_free" => n \notin held)
    BY <1>1, <1>2 DEF References
  <2>3. held \subseteq Usable'
    BY <1>4, <2>1, <2>2 DEF Usable
  <2>4. \A e \in edge : life'[e[1]] # "none" /\ life'[e[2]] \in {"live", "destructed", "null"}
    BY <1>1, <1>4, <2>1 DEF References
  <2>5. QED
    BY <2>3, <2>4 DEF References
<1>12. Dying'
  <2> SUFFICES ASSUME NEW m \in Nodes
               PROVE  /\ life'[m] = "none" => addr[m] = 0 /\ color[m] = "black" /\ rc'[m] = 0
                      /\ life'[m] = "freeing" =>
                           \E i \in DOMAIN stack' : stack'[i].at = "del_free" /\ stack'[i].node = m
                      /\ life'[m] = "null" =>
                           /\ gc'.phase = "destroy" /\ m \in Condemned /\ addr[m] < gc'.idx
                           /\ \/ \A x \in Nodes : <<m, x>> \notin edge
                              \/ \E i \in DOMAIN stack' : stack'[i].at = "gc_free" /\ stack'[i].node = m
    BY DEF Dying
  <2>1. /\ life[m] = "none" => addr[m] = 0 /\ color[m] = "black" /\ rc[m] = 0
        /\ life[m] = "freeing" => \E i \in DOMAIN stack : stack[i].at = "del_free" /\ stack[i].node = m
        /\ life[m] = "null" => gc.phase = "destroy" /\ m \in Condemned /\ addr[m] < gc.idx
    BY <1>1 DEF Dying
  <2>2. CASE m = n
    <3>1. a = "gc_free" => Len(stack) + 1 \in DOMAIN stack' /\ stack'[Len(stack) + 1].at = "gc_free"
                           /\ stack'[Len(stack) + 1].node = n
      BY <1>3, <1>6
    <3>2. life'[m] # "none" /\ life'[m] # "freeing" /\ (life'[m] = "null" => a = "gc_free")
      BY <1>4, <2>2
    <3>3. a = "gc_free" => addr[n] < gc'.idx
      BY <1>2
    <3>4. QED
      BY <2>2, <3>1, <3>2, <3>3
  <2>3. CASE m # n
    <3>1. life'[m] = life[m] /\ rc'[m] = rc[m]
      BY <1>4, <2>3
    <3>2. life[m] = "null" => gc'.phase = "destroy" /\ addr[m] < gc'.idx
      <4>1. addr[m] \in Nat /\ gc'.idx \in Nat
        BY <1>2 DEF GcType
      <4>2. QED
        BY <1>2, <2>1, <4>1
    <3>3. QED
      BY <1>1, <1>6, <2>1, <3>1, <3>2
  <2>4. QED
    BY <2>2, <2>3
<1>13. Balance'
  <2>1. Counted = edge /\ Counted' = edge
    <3>1. Taken' = {}
      BY DEF Taken
    <3>2. QED
      BY <1>2, <3>1 DEF Counted
  <2>2. ASSUME NEW m \in Nodes, life'[m] # "none"
        PROVE  rc'[m] = InCount(Counted', m) + HeldCount(held', m) + Frames(stack', m) + Delayed(m)'
    <3>1. life[m] # "none" /\ gc.phase # "delref"
      BY <1>3, <1>4, <2>2
    <3>2. /\ rc[m] = InCount(Counted, m) + HeldCount(held, m) + Frames(stack, m)
          /\ InCount(Counted, m) \in Nat /\ HeldCount(held, m) \in Nat /\ Frames(stack, m) \in Nat
      BY <3>1, CountFacts
    <3>3. Frames(stack', m) = Frames(stack, m) + (IF n = m /\ a # "del" THEN 1 ELSE 0)
      <4>1. stack \in Seq(Frame)
        BY <1>1 DEF StackTypes
      <4>2. QED
        BY <1>3, <4>1, PushedCount
    <3>4. Delayed(m)' = IF n = m /\ a = "dtor" THEN 1 ELSE 0
      BY DEF Delayed
    <3>5. rc[m] = InCount(edge, m) + HeldCount(held, m) + Frames(stack, m) /\ InCount(edge, m) \in Nat
      BY <2>1, <3>2
    <3>6. rc'[m] = InCount(edge, m) + HeldCount(held, m) + Frames(stack', m) + Delayed(m)'
      BY <1>4, <3>2, <3>3, <3>4, <3>5
    <3>7. QED
      BY <2>1, <3>6
  <2>3. QED
    BY <2>2 DEF Balance
<1>14. CondemnedIsLost'
  <2>1. \A m \in Condemned : m \in Nodes /\ addr[m] # 0
    BY DEF Condemned, Tagged
  <2>2. \A m \in Nodes : HasDestructor(m)' => HasDestructor(m)
    BY <1>3, <1>4 DEF HasDestructor
  <2>3. /\ \A m \in Condemned : m \notin held /\ ~HasDestructor(m)'
                                /\ (gc'.phase # "destroy" => m \in Usable')
                                /\ (addr[m] < gc'.idx /\ gc'.phase = "destroy" => life'[m] = "null")
    <3> SUFFICES ASSUME NEW m \in Condemned
                 PROVE  /\ m \notin held /\ ~HasDestructor(m)'
                        /\ (gc'.phase # "destroy" => m \in Usable')
                        /\ (addr[m] < gc'.idx /\ gc'.phase = "destroy" => life'[m] = "null")
      OBVIOUS
    <3>1. m \notin held /\ ~HasDestructor(m)'
      BY <1>2, <2>1, <2>2
    <3>2. /\ gc.phase # "destroy" => m \in Usable
          /\ addr[m] < gc.idx /\ gc.phase = "destroy" => life[m] = "null"
      BY InvariantParts DEF CondemnedIsLost
    <3>3. gc'.phase # "destroy" => m \in Usable'
      <4>1. gc'.phase # "destroy" => m \in Usable /\ m # n
        BY <3>2
      <4>2. QED
        BY <1>4, <2>1, <4>1 DEF Usable
    <3>4. ASSUME addr[m] < gc'.idx, gc'.phase = "destroy"
          PROVE  life'[m] = "null"
      <4>1. a = "gc_free"
        BY <3>4
      <4>2. addr[m] \in Nat /\ m \in Nodes /\ addr[m] # 0
        BY <1>2, <2>1
      <4>3. CASE addr[m] < gc.idx
        <5>1. life[m] = "null"
          BY <3>2, <4>1, <4>3
        <5>2. QED
          BY <1>4, <4>1, <4>2, <5>1
      <4>4. CASE addr[m] = gc.idx
        <5>1. m = n
          BY <1>2, <1>3, <4>1, <4>2, <4>4
        <5>2. QED
          BY <1>4, <4>1, <5>1
      <4>5. QED
        BY <1>2, <3>4, <4>1, <4>2, <4>3, <4>4
    <3>5. QED
      BY <3>1, <3>3, <3>4
  <2>4. \A i \in DOMAIN stack' : stack'[i].node \in Condemned =>
          /\ gc'.phase = "destroy" /\ stack'[i].at \in {"gc_free", "del", "del_free"}
          /\ \E j \in 1 .. i - 1 : stack'[j].at = "run"
    <3>1. \A i \in DOMAIN stack : stack'[i].node \notin Condemned
      BY <1>2, <1>6
    <3>2. a = "dtor" => stack'[Len(stack) + 1].node \notin Condemned
      BY <1>3, <1>6
    <3>3. a = "gc_free" => stack'[Len(stack) + 1].at = "gc_free"
      BY <1>3, <1>6
    <3>4. \E j \in 1 .. (Len(stack) + 1) - 1 : stack'[j].at = "run"
      <4>1. stack'[Len(stack)].at = "run"
        BY <1>1, <1>6
      <4>2. Len(stack) \in 1 .. (Len(stack) + 1) - 1
        BY <1>6
      <4>3. QED
        BY <4>1, <4>2
    <3>5. QED
      BY <1>6, <3>1, <3>2, <3>3, <3>4
  <2>5. \A e \in edge : e[2] \in Condemned => e[1] \in Condemned
    BY InvariantParts DEF CondemnedIsLost
  <2>6. gc'.phase # "nested"
    OBVIOUS
  <2>7. QED
    BY <2>3, <2>4, <2>5, <2>6 DEF CondemnedIsLost
<1>15. Marking' /\ Scanned' /\ Collecting'
  BY DEF Marking, Scanned, Collecting, Passes
<1>16. Addresses' /\ UnusedListed'
  BY DEF BufferInvariant
<1>17. QED
  BY <1>7, <1>8, <1>10, <1>11, <1>12, <1>13, <1>14, <1>15, <1>16 DEF CollectorInvariant

\* gc_call_destructors, up to the destructor.
LEMMA CallDestructorKeeps ==
  ASSUME CollectorInvariant, CallDestructor
  PROVE  CollectorInvariant'
<1> DEFINE n == Entry.ref
<1>1. /\ Scanning("dtors") /\ Top.at = "run" /\ gc.phase = "dtors" /\ gc.idx <= gc.end
      /\ UNCHANGED <<edge, held, color, addr, unused, num_roots, gc_active>>
  BY DEF CallDestructor, Scanning, Running
<1>2. /\ gc \in GcType /\ gc.bwork = {} /\ gc.work = {} /\ gc.idx \in Nat /\ gc.end \in Nat /\ 1 <= gc.idx
      /\ gc.end <= Len(buf) /\ gc_active /\ gc.dtors /\ gc.rerun # "no" /\ Taken = {}
      /\ (\A m \in Nodes : addr[m] \in Nat) /\ DOMAIN buf = 1 .. Len(buf) /\ Len(buf) \in Nat
      /\ (\A i \in DOMAIN stack : stack[i].node \notin Condemned)
      /\ life \in [Nodes -> Lives] /\ rc \in [Nodes -> Nat]
  BY <1>1, LaterFacts
<1>3. /\ \A i \in DOMAIN buf : /\ buf[i].tag = "GARBAGE" => i <= gc.end
                               /\ buf[i].tag = "DTOR_GARBAGE" => gc.idx <= i /\ i <= gc.end
      /\ \A m \in Condemned : m \notin held /\ ~HasDestructor(m) /\ m \in Usable /\ m \in Nodes
      /\ \A e \in edge : e[2] \in Condemned => e[1] \in Condemned
  BY <1>1, InvariantParts DEF TagsOfPhase, CondemnedIsLost, Condemned, Tagged
<1>4. ASSUME gc' = [gc EXCEPT !.idx = @ + 1]
      PROVE  /\ gc' \in GcType /\ gc'.phase = "dtors" /\ gc'.end = gc.end /\ gc'.idx = gc.idx + 1
             /\ gc'.work = {} /\ gc'.bwork = {} /\ gc'.dtors = gc.dtors /\ gc'.rerun = gc.rerun
  <2>1. gc.idx + 1 \in Nat
    BY <1>2
  <2>2. gc' \in GcType
    BY <1>2, <1>4, <2>1 DEF GcType
  <2>3. QED
    BY <1>1, <1>2, <1>4, <2>2 DEF GcType
<1>5. ASSUME Entry.tag # "DTOR_GARBAGE" PROVE CollectorInvariant'
  <2>1. gc' = [gc EXCEPT !.idx = @ + 1] /\ UNCHANGED <<buf, life, rc, stack>>
    BY <1>5 DEF CallDestructor
  <2>2. /\ gc' \in GcType /\ gc'.phase = "dtors" /\ gc'.end = gc.end /\ gc'.idx = gc.idx + 1
        /\ gc'.work = {} /\ gc'.bwork = {} /\ gc'.dtors = gc.dtors /\ gc'.rerun = gc.rerun
    BY <1>4, <2>1
  <2>3. TagsOfPhase'
    <3>1. \A i \in DOMAIN buf : buf[i].tag = "DTOR_GARBAGE" => gc.idx + 1 <= i /\ i <= gc.end
      <4>1. \A i \in DOMAIN buf : buf[i].tag = "DTOR_GARBAGE" => i # gc.idx
        BY <1>5 DEF Entry
      <4>2. QED
        BY <1>2, <1>3, <4>1
    <3>2. QED
      BY <1>3, <2>1, <2>2, <3>1 DEF TagsOfPhase
  <2>4. CondemnedIsLost'
    <3>1. /\ Condemned' = Condemned /\ Usable' = Usable
          /\ \A m \in Nodes : HasDestructor(m)' <=> HasDestructor(m)
      BY <1>1, <2>1 DEF Condemned, Tagged, TagOf, Usable, HasDestructor
    <3>2. QED
      BY <1>1, <1>2, <1>3, <2>1, <2>2, <3>1 DEF CondemnedIsLost
  <2>5. UNCHANGED <<heap, counts, buffer, gc_active, stack>>
    BY <1>1, <2>1 DEF heap, counts, buffer
  <2>6. 1 <= gc'.idx
    BY <1>2, <2>2
  <2>7. QED
    BY <1>1, <2>2, <2>3, <2>4, <2>5, <2>6, MovesOn
<1>6. ASSUME Entry.tag = "DTOR_GARBAGE"
      PROVE  /\ BufferInvariant' /\ Len(buf') = Len(buf) /\ DOMAIN buf' = DOMAIN buf
             /\ Condemned' = Condemned /\ n \in Nodes /\ addr[n] = gc.idx /\ gc.idx \in DOMAIN buf
             /\ n \notin Condemned
             /\ \A i \in DOMAIN buf : /\ buf'[i].ref = buf[i].ref
                                      /\ buf'[i].tag = IF i = gc.idx THEN "ROOT" ELSE buf[i].tag
             /\ gc'.phase \notin Passes => RootsArePurple'
             /\ buf[gc.idx].ref = n
  <2>1. buf' = [buf EXCEPT ![gc.idx].tag = "ROOT"]
    BY <1>6 DEF CallDestructor
  <2>2. QED
    BY <1>1, <1>6, <2>1, TagReset
<1>7. ASSUME Entry.tag = "DTOR_GARBAGE", life[n] # "live" PROVE CollectorInvariant'
  <2>1. gc' = [gc EXCEPT !.idx = @ + 1] /\ UNCHANGED <<life, rc, stack>>
    BY <1>7 DEF CallDestructor
  <2>2. /\ gc' \in GcType /\ gc'.phase = "dtors" /\ gc'.end = gc.end /\ gc'.idx = gc.idx + 1
        /\ gc'.work = {} /\ gc'.bwork = {} /\ gc'.dtors = gc.dtors /\ gc'.rerun = gc.rerun
    BY <1>4, <2>1
  <2>3. TagsOfPhase'
    <3>1. \A i \in DOMAIN buf : /\ buf'[i].tag = "GARBAGE" => i <= gc.end
                                /\ buf'[i].tag = "DTOR_GARBAGE" => gc.idx + 1 <= i /\ i <= gc.end
      BY <1>2, <1>3, <1>6, <1>7
    <3>2. QED
      BY <1>6, <1>7, <2>2, <3>1 DEF TagsOfPhase
  <2>4. CondemnedIsLost'
    <3>1. Condemned' = Condemned /\ Usable' = Usable /\ \A m \in Nodes : HasDestructor(m)' <=> HasDestructor(m)
      BY <1>6, <1>7, <2>1 DEF Usable, HasDestructor
    <3>2. QED
      BY <1>1, <1>2, <1>3, <2>1, <2>2, <3>1 DEF CondemnedIsLost
  <2>5. Balance'
    <3>1. Taken' = {}
      BY <2>2 DEF Taken
    <3>2. QED
      BY <1>1, <1>2, <2>1, <2>2, <3>1, SettledBalance
  <2>6. RootsArePurple' /\ BufferInvariant' /\ Len(buf') = Len(buf)
    BY <1>6, <1>7, <2>2 DEF Passes
  <2>7. \A m \in Nodes : life[m] # "null" /\ (life[m] = "none" => addr'[m] = 0 /\ color'[m] = "black" /\ rc'[m] = 0)
    BY <1>1, <2>1, InvariantParts DEF Dying
  <2>8. 1 <= gc'.idx /\ gc'.end <= Len(buf') /\ gc'.dtors /\ gc'.rerun # "no"
    BY <1>2, <2>2, <2>6
  <2>9. rc' \in [Nodes -> Nat] /\ life' \in [Nodes -> Lives] /\ UNCHANGED <<edge, held, gc_active, stack, life>>
    BY <1>1, <1>2, <2>1
  <2> HIDE DEF n
  <2>10. QED
    BY <1>1, <1>2, <2>2, <2>3, <2>4, <2>5, <2>6, <2>7, <2>8, <2>9, LaterKeeps
<1>8. ASSUME Entry.tag = "DTOR_GARBAGE", life[n] = "live" PROVE CollectorInvariant'
  <2>1. /\ life' = [life EXCEPT ![n] = "destructed"]
        /\ rc' = [rc EXCEPT ![n] = @ + 2]
        /\ gc' = [gc EXCEPT !.phase = "delref"]
        /\ stack' = Append(stack, Call("dtor", n))
    BY <1>8 DEF CallDestructor
  <2>2. /\ gc' \in GcType /\ gc'.phase = "delref" /\ gc'.end = gc.end /\ gc'.idx = gc.idx
        /\ gc'.work = {} /\ gc'.bwork = {} /\ gc'.dtors = gc.dtors /\ gc'.rerun = gc.rerun
    <3>1. gc' \in GcType
      BY <1>2, <2>1 DEF GcType, Phases
    <3>2. QED
      BY <1>1, <1>2, <2>1, <3>1 DEF GcType
  <2>3. TagsOfPhase'
    <3>1. \A i \in DOMAIN buf : /\ buf'[i].tag = "GARBAGE" => i <= gc.end
                                /\ buf'[i].tag = "DTOR_GARBAGE" => gc.idx < i /\ i <= gc.end
      BY <1>2, <1>3, <1>6, <1>8
    <3>2. QED
      BY <1>6, <1>8, <2>2, <3>1 DEF TagsOfPhase
  <2>4. n \in Usable /\ n \in Nodes
    BY <1>6, <1>8 DEF Usable
  <2>5. Entry' = [tag |-> "ROOT", ref |-> n]
    <3>1. Entry' = buf'[gc.idx]
      BY <2>2 DEF Entry
    <3>2. buf'[gc.idx] \in EntryType /\ buf'[gc.idx].tag = "ROOT" /\ buf'[gc.idx].ref = n
      <4>1. BufferInvariant' /\ DOMAIN buf' = DOMAIN buf /\ gc.idx \in DOMAIN buf
            /\ buf'[gc.idx].tag = "ROOT" /\ buf'[gc.idx].ref = n
        BY <1>6, <1>8
      <4>2. buf' \in Seq(EntryType) /\ gc.idx \in DOMAIN buf'
        BY <4>1 DEF BufferInvariant, BufferTypes
      <4>3. buf'[gc.idx] \in EntryType
        BY <4>2
      <4>4. QED
        BY <4>1, <4>3
    <3> HIDE DEF n
    <3>3. QED
      BY <3>1, <3>2 DEF EntryType
  <2>6. RootsArePurple' /\ BufferInvariant' /\ Len(buf') = Len(buf) /\ Condemned' = Condemned /\ n \notin Condemned
    BY <1>6, <1>8, <2>2 DEF Passes
  <2>7. \E a \in {"dtor", "gc_free"} :
          /\ a = "dtor" /\ stack' = Append(stack, Call(a, n))
          /\ life' = [life EXCEPT ![n] = IF a = "dtor" THEN "destructed" ELSE "null"]
          /\ rc' = [rc EXCEPT ![n] = @ + IF a = "dtor" THEN 2 ELSE 1]
    BY <2>1
  <2>8. gc.idx <= gc'.idx /\ gc'.idx <= gc'.end
    BY <1>1, <1>2, <2>2
  <2> HIDE DEF n
  <2>9. QED
    BY <1>1, <1>2, <2>2, <2>3, <2>4, <2>5, <2>6, <2>7, <2>8, PushKeeps
<1>9. QED
  BY <1>5, <1>7, <1>8

\* gc_call_destructors, back from the destructor.
LEMMA AfterDestructorKeeps ==
  ASSUME CollectorInvariant, AfterDestructor
  PROVE  CollectorInvariant'
<1> DEFINE n == Entry.ref
<1>1. /\ Top.at = "run" /\ gc.phase = "delref"
      /\ rc' = [rc EXCEPT ![n] = @ - 1]
      /\ gc' = [gc EXCEPT !.phase = "dtors", !.idx = @ + 1]
      /\ UNCHANGED <<life, edge, held, color, addr, buf, unused, num_roots, gc_active, stack>>
  BY DEF AfterDestructor, Running, heap, buffer
<1>2. /\ gc \in GcType /\ gc.bwork = {} /\ gc.work = {} /\ gc.idx \in Nat /\ gc.end \in Nat /\ 1 <= gc.idx
      /\ gc.end <= Len(buf) /\ gc_active /\ gc.dtors /\ gc.rerun # "no" /\ Taken = {}
      /\ DOMAIN buf = 1 .. Len(buf) /\ Len(buf) \in Nat
      /\ (\A m \in Nodes : color[m] = IF addr[m] # 0 /\ TagOf(m) # "GARBAGE" THEN "purple" ELSE "black")
      /\ (\A i \in DOMAIN stack : stack[i].node \notin Condemned)
      /\ life \in [Nodes -> Lives] /\ rc \in [Nodes -> Nat] /\ BufferInvariant
  BY <1>1, LaterFacts
<1>3. /\ \A i \in DOMAIN buf : /\ buf[i].tag = "GARBAGE" => i <= gc.end
                               /\ buf[i].tag = "DTOR_GARBAGE" => gc.idx < i /\ i <= gc.end
      /\ \A m \in Condemned : m \notin held /\ ~HasDestructor(m) /\ m \in Usable /\ m \in Nodes
      /\ \A e \in edge : e[2] \in Condemned => e[1] \in Condemned
      /\ n \in Usable
  BY <1>1, InvariantParts DEF TagsOfPhase, CondemnedIsLost, Condemned, Tagged, RunShape
<1>4. /\ gc' \in GcType /\ gc'.phase = "dtors" /\ gc'.end = gc.end /\ gc'.idx = gc.idx + 1
      /\ gc'.work = {} /\ gc'.bwork = {} /\ gc'.dtors = gc.dtors /\ gc'.rerun = gc.rerun
  <2>1. gc.idx + 1 \in Nat
    BY <1>2
  <2>2. gc' \in GcType
    BY <1>1, <1>2, <2>1 DEF GcType, Phases
  <2>3. QED
    BY <1>1, <1>2, <2>2 DEF GcType
<1>5. TagsOfPhase'
  <2>1. \A i \in DOMAIN buf : buf[i].tag = "DTOR_GARBAGE" => gc.idx + 1 <= i /\ i <= gc.end
    BY <1>2, <1>3
  <2>2. QED
    BY <1>1, <1>3, <1>4, <2>1 DEF TagsOfPhase
<1>6. RootsArePurple'
  BY <1>1, <1>2 DEF RootsArePurple, TagOf
<1>7. CondemnedIsLost'
  <2>1. Condemned' = Condemned /\ Usable' = Usable /\ \A m \in Nodes : HasDestructor(m)' <=> HasDestructor(m)
    BY <1>1 DEF Condemned, Tagged, TagOf, Usable, HasDestructor
  <2>2. QED
    BY <1>1, <1>2, <1>3, <1>4, <2>1 DEF CondemnedIsLost
<1>8. Counted = edge /\ Counted' = edge
  <2>1. Taken' = {}
    BY <1>4 DEF Taken
  <2>2. QED
    BY <1>1, <1>2, <2>1 DEF Counted
<1>9. ASSUME NEW m \in Nodes
      PROVE  /\ rc'[m] \in Nat /\ (m # n => rc'[m] = rc[m])
             /\ rc'[m] = InCount(edge, m) + HeldCount(held, m) + Frames(stack, m)
  <2>1. /\ rc[m] = InCount(edge, m) + HeldCount(held, m) + Frames(stack, m) + Delayed(m)
        /\ InCount(edge, m) \in Nat /\ HeldCount(held, m) \in Nat /\ Frames(stack, m) \in Nat
    BY <1>8, AllCounts
  <2>2. Delayed(m) = IF m = n THEN 1 ELSE 0
    BY <1>1 DEF Delayed
  <2>3. rc'[m] = IF m = n THEN rc[m] - 1 ELSE rc[m]
    BY <1>1, <1>2
  <2> HIDE DEF n
  <2>4. QED
    BY <2>1, <2>2, <2>3
<1>10. Balance'
  <2>1. \A m \in Nodes : Delayed(m)' = 0
    BY <1>4 DEF Delayed
  <2>2. ASSUME NEW m \in Nodes
        PROVE  rc'[m] = InCount(Counted', m) + HeldCount(held', m) + Frames(stack', m) + Delayed(m)'
    <3>1. rc'[m] = InCount(edge, m) + HeldCount(held, m) + Frames(stack, m) /\ rc'[m] \in Nat
      BY <1>9
    <3>2. /\ InCount(edge, m) \in Nat /\ HeldCount(held, m) \in Nat /\ Frames(stack, m) \in Nat
      BY <1>8, AllCounts
    <3>3. QED
      BY <1>1, <1>8, <2>1, <3>1, <3>2
  <2>3. QED
    BY <2>2 DEF Balance
<1>11. rc' \in [Nodes -> Nat] /\ life' \in [Nodes -> Lives]
  <2>1. n \in Nodes /\ DOMAIN rc' = Nodes
    BY <1>1, <1>2, <1>3 DEF Usable
  <2>2. QED
    BY <1>1, <1>2, <1>9, <2>1
<1>12. \A m \in Nodes : life[m] # "null" /\ (life[m] = "none" => addr'[m] = 0 /\ color'[m] = "black" /\ rc'[m] = 0)
  <2>1. \A m \in Nodes : life[m] # "null" /\ (life[m] = "none" => rc[m] = 0 /\ addr[m] = 0 /\ color[m] = "black")
    BY <1>1, InvariantParts DEF Dying
  <2>2. \A m \in Nodes : life[m] = "none" => m # n
    BY <1>3 DEF Usable
  <2>3. QED
    BY <1>1, <1>9, <2>1, <2>2
<1>13. BufferInvariant'
  BY <1>1, <1>2 DEF BufferInvariant, AddrTypes, BufferTypes, Addresses, UnusedListed, TagOf, Used
<1>14. 1 <= gc'.idx /\ gc'.end <= Len(buf') /\ gc'.dtors /\ gc'.rerun # "no"
  BY <1>1, <1>2, <1>4
<1> HIDE DEF n
<1>15. QED
  BY <1>1, <1>2, <1>4, <1>5, <1>6, <1>7, <1>10, <1>11, <1>12, <1>13, <1>14, LaterKeeps

----------------------------------------------------------------------------
(* Freeing.                                                                *)

\* free_obj of the next condemned object.
LEMMA DestroyKeeps ==
  ASSUME CollectorInvariant, Destroy
  PROVE  CollectorInvariant'
<1> DEFINE n == Entry.ref
<1>1. /\ Top.at = "run" /\ gc.phase = "destroy" /\ gc.idx <= gc.end
      /\ gc' = [gc EXCEPT !.idx = @ + 1]
      /\ UNCHANGED <<edge, held, color, addr, buf, unused, num_roots, gc_active>>
  BY DEF Destroy, Scanning, Running, buffer
<1>2. /\ gc \in GcType /\ gc.bwork = {} /\ gc.work = {} /\ gc.idx \in Nat /\ gc.end \in Nat /\ 1 <= gc.idx
      /\ gc.end <= Len(buf) /\ gc_active /\ (gc.dtors => gc.rerun # "no") /\ Taken = {}
      /\ (\A m \in Nodes : addr[m] \in Nat) /\ DOMAIN buf = 1 .. Len(buf) /\ Len(buf) \in Nat
      /\ (\A i \in DOMAIN buf : buf[i].tag # "UNUSED" => buf[i].ref \in Nodes /\ addr[buf[i].ref] = i)
      /\ (\A m \in Nodes : addr[m] # 0 =>
               addr[m] \in DOMAIN buf /\ buf[addr[m]].tag # "UNUSED" /\ buf[addr[m]].ref = m)
      /\ (\A m \in Nodes : color[m] = IF addr[m] # 0 /\ TagOf(m) # "GARBAGE" THEN "purple" ELSE "black")
      /\ (\A i \in DOMAIN stack : stack[i].node \notin Condemned) /\ BufferInvariant
  BY <1>1, LaterFacts
<1>3. /\ gc' \in GcType /\ gc'.phase = "destroy" /\ gc'.end = gc.end /\ gc'.idx = gc.idx + 1
      /\ gc'.work = {} /\ gc'.bwork = {} /\ gc'.dtors = gc.dtors /\ gc'.rerun = gc.rerun
  <2>1. gc.idx + 1 \in Nat
    BY <1>2
  <2>2. gc' \in GcType
    BY <1>1, <1>2, <2>1 DEF GcType
  <2>3. QED
    BY <1>1, <1>2, <2>2 DEF GcType
<1>4. TagsOfPhase' /\ Condemned' = Condemned /\ RootsArePurple'
  <2>1. TagsOfPhase'
    BY <1>1, <1>3, InvariantParts DEF TagsOfPhase
  <2>2. Condemned' = Condemned
    BY <1>1 DEF Condemned, Tagged, TagOf
  <2>3. RootsArePurple'
    BY <1>1, <1>2 DEF RootsArePurple, TagOf
  <2>4. QED
    BY <2>1, <2>2, <2>3
<1>5. gc.idx <= gc'.idx /\ 1 <= gc'.idx /\ gc.idx \in DOMAIN buf
  BY <1>1, <1>2, <1>3
<1>6. ASSUME Entry.tag # "GARBAGE" PROVE CollectorInvariant'
  <2>1. UNCHANGED <<life, rc, stack>>
    BY <1>6 DEF Destroy
  <2>2. UNCHANGED <<heap, counts, buffer, gc_active, stack>>
    BY <1>1, <2>1 DEF heap, counts, buffer
  <2>3. CondemnedIsLost'
    <3>1. /\ \A m \in Condemned : m \notin held /\ ~HasDestructor(m) /\ m \in Nodes /\ addr[m] # 0
                                  /\ (addr[m] < gc.idx => life[m] = "null")
          /\ \A e \in edge : e[2] \in Condemned => e[1] \in Condemned
      BY <1>1, InvariantParts DEF CondemnedIsLost, Condemned, Tagged
    <3>2. \A m \in Condemned : addr[m] # gc.idx
      BY <1>6 DEF Condemned, Tagged, TagOf, Entry
    <3>3. \A m \in Condemned : addr[m] < gc'.idx => life[m] = "null"
      <4>1. ASSUME NEW m \in Condemned, addr[m] < gc.idx + 1 PROVE life[m] = "null"
        <5>1. addr[m] \in Nat /\ addr[m] # gc.idx /\ gc.idx \in Nat
          BY <1>2, <3>1, <3>2
        <5>2. addr[m] < gc.idx
          BY <4>1, <5>1
        <5>3. QED
          BY <3>1, <5>2
      <4>2. QED
        BY <1>3, <4>1
    <3>4. \A m \in Nodes : HasDestructor(m)' <=> HasDestructor(m)
      BY <2>1 DEF HasDestructor
    <3>5. QED
      BY <1>1, <1>2, <1>3, <1>4, <2>1, <3>1, <3>3, <3>4 DEF CondemnedIsLost
  <2>4. QED
    BY <1>1, <1>2, <1>3, <1>4, <1>5, <2>2, <2>3, MovesOn
<1>7. ASSUME Entry.tag = "GARBAGE" PROVE CollectorInvariant'
  <2>1. n \in Nodes /\ addr[n] = gc.idx /\ n \in Condemned
    <3>1. n \in Nodes /\ addr[n] = gc.idx
      BY <1>2, <1>5, <1>7 DEF Entry
    <3>2. QED
      BY <1>2, <1>7, <3>1 DEF Condemned, Tagged, TagOf, Entry
  <2>2. n \in Usable
    <3>1. life[n] # "none"
      BY <1>2, <2>1, InvariantParts DEF Dying
    <3>2. life[n] # "null"
      <4>1. life[n] = "null" => addr[n] < gc.idx
        BY <2>1, InvariantParts DEF Dying
      <4>2. QED
        BY <1>2, <2>1, <4>1
    <3>3. life[n] # "freeing"
      <4>1. life[n] = "freeing" => \E i \in DOMAIN stack : stack[i].node = n
        BY <2>1, InvariantParts DEF Dying
      <4>2. QED
        BY <1>2, <2>1, <4>1
    <3>4. life[n] \in Lives
      BY <2>1, InvariantParts DEF HeapTypes
    <3>5. QED
      BY <2>1, <3>1, <3>2, <3>3, <3>4 DEF Lives, Usable
  <2>3. /\ life' = [life EXCEPT ![n] = "null"] /\ rc' = [rc EXCEPT ![n] = @ + 1]
        /\ stack' = Append(stack, Call("gc_free", n))
    BY <1>7, <2>2 DEF Destroy, Usable
  <2>4. \E a \in {"dtor", "gc_free"} :
          /\ a = "gc_free" /\ stack' = Append(stack, Call(a, n))
          /\ life' = [life EXCEPT ![n] = IF a = "dtor" THEN "destructed" ELSE "null"]
          /\ rc' = [rc EXCEPT ![n] = @ + IF a = "dtor" THEN 2 ELSE 1]
    BY <2>3
  <2>5. BufferInvariant' /\ Len(buf') = Len(buf)
    BY <1>1, <1>2 DEF BufferInvariant, AddrTypes, BufferTypes, Addresses, UnusedListed, TagOf, Used
  <2> HIDE DEF n
  <2>6. QED
    BY <1>1, <1>2, <1>3, <1>4, <1>5, <2>1, <2>2, <2>4, <2>5, PushKeeps
<1>8. QED
  BY <1>6, <1>7

\* The memory of the condemned is given back, and the buffer compacted.
LEMMA FreeGarbageKeeps ==
  ASSUME CollectorInvariant, FreeGarbage
  PROVE  /\ CollectorInvariant'
         /\ Roots' = Roots \ Condemned
         /\ \A n \in Nodes : life'[n] = IF n \in Condemned THEN "none" ELSE life[n]
         /\ \A n \in Condemned : life[n] = "null"
         /\ gc'.phase \in {"idle", "start"}
<1> DEFINE freed == {buf[i].ref : i \in {j \in 1 .. gc.end : buf[j].tag = "GARBAGE"}}
           b == [i \in DOMAIN buf |-> IF buf[i].ref \in freed THEN Unused ELSE buf[i]]
           a == [n \in Nodes |-> IF n \in freed THEN 0 ELSE addr[n]]
<1>1. /\ Top.at = "run" /\ gc.phase = "destroy" /\ gc.idx > gc.end
      /\ life' = [n \in Nodes |-> IF n \in freed THEN "none" ELSE life[n]]
      /\ rc' = [n \in Nodes |-> IF n \in freed THEN 0 ELSE rc[n]]
      /\ num_roots' = num_roots - Cardinality(freed) /\ buf' = Compacted(b, num_roots')
      /\ addr' = AddrIn(buf', a) /\ unused' = <<>> /\ gc_active' = FALSE
      /\ \/ gc' = [IdleGc EXCEPT !.phase = "start", !.rerun = "done"] /\ stack' = stack
         \/ gc' = IdleGc /\ stack' = Below
      /\ UNCHANGED <<edge, held, color>>
  BY DEF FreeGarbage, Running
<1>2. /\ gc.idx \in Nat /\ gc.end \in Nat /\ gc.end <= Len(buf) /\ Taken = {} /\ BufferInvariant
      /\ buf \in Seq(EntryType) /\ DOMAIN buf = 1 .. Len(buf) /\ Len(buf) \in Nat
      /\ (\A i \in DOMAIN buf : buf[i] \in EntryType)
      /\ (\A n \in Nodes : addr[n] # 0 =>
            addr[n] \in DOMAIN buf /\ buf[addr[n]].tag # "UNUSED" /\ buf[addr[n]].ref = n)
      /\ (\A i \in DOMAIN buf : buf[i].tag # "UNUSED" => buf[i].ref \in Nodes /\ addr[buf[i].ref] = i)
      /\ (\A n \in Nodes : addr[n] \in Nat)
      /\ (\A n \in Nodes : n \in Condemned <=> addr[n] # 0 /\ TagOf(n) = "GARBAGE")
      /\ (\A n \in Nodes : color[n] = IF addr[n] # 0 /\ TagOf(n) # "GARBAGE" THEN "purple" ELSE "black")
      /\ (\A n \in Condemned : n \notin held)
      /\ life \in [Nodes -> Lives] /\ rc \in [Nodes -> Nat] /\ color \in [Nodes -> Colors]
      /\ edge \subseteq Nodes \X Nodes /\ held \subseteq Nodes
  BY <1>1, LaterFacts
<1>3. /\ \A i \in DOMAIN buf : /\ buf[i].tag = "GARBAGE" => i <= gc.end
                               /\ buf[i].tag # "DTOR_GARBAGE"
      /\ \A e \in edge : e[2] \in Condemned => e[1] \in Condemned
      /\ \A n \in Nodes : life[n] = "null" => n \in Condemned /\ \A m \in Nodes : <<n, m>> \notin edge
      /\ \A n \in Condemned : addr[n] < gc.idx => life[n] = "null"
  BY <1>1, RunOnTop, InvariantParts DEF TagsOfPhase, CondemnedIsLost, Dying
<1>4. freed = Condemned /\ Condemned \in SUBSET Roots
  <2>1. Condemned \in SUBSET Roots
    BY DEF Condemned, Tagged, Roots
  <2>2. ASSUME NEW n \in Condemned PROVE n \in freed
    <3>1. n \in Nodes /\ addr[n] # 0 /\ TagOf(n) = "GARBAGE"
      BY <2>1 DEF Condemned, Tagged
    <3>2. addr[n] \in DOMAIN buf /\ buf[addr[n]].tag = "GARBAGE" /\ buf[addr[n]].ref = n
      BY <1>2, <3>1 DEF TagOf
    <3>3. addr[n] \in 1 .. gc.end
      BY <1>2, <1>3, <3>2
    <3>4. QED
      BY <3>2, <3>3
  <2>3. ASSUME NEW n \in freed PROVE n \in Condemned
    <3>1. PICK i \in 1 .. gc.end : buf[i].tag = "GARBAGE" /\ buf[i].ref = n
      BY <2>3
    <3>2. i \in DOMAIN buf /\ i # 0
      BY <1>2
    <3>3. n \in Nodes /\ addr[n] = i
      BY <1>2, <3>1, <3>2
    <3>4. QED
      BY <1>2, <3>1, <3>2, <3>3 DEF TagOf
  <2> HIDE DEF freed
  <2>4. QED
    BY <2>1, <2>2, <2>3
<1> HIDE DEF freed
<1>5. \A n \in Condemned : life[n] = "null" /\ n \in Nodes /\ addr[n] # 0
  <2> SUFFICES ASSUME NEW n \in Condemned PROVE life[n] = "null" /\ n \in Nodes /\ addr[n] # 0
    OBVIOUS
  <2>1. n \in Nodes /\ addr[n] # 0 /\ TagOf(n) = "GARBAGE"
    BY DEF Condemned, Tagged
  <2>2. addr[n] <= gc.end /\ addr[n] \in Nat
    BY <1>2, <1>3, <2>1 DEF TagOf
  <2>3. addr[n] < gc.idx
    BY <1>1, <1>2, <2>2
  <2>4. QED
    BY <1>3, <2>1, <2>3
<1>6. /\ b \in Seq(EntryType) /\ DOMAIN b = DOMAIN buf
      /\ UsedIn(b) = {i \in Used : buf[i].ref \notin Condemned} /\ \A i \in UsedIn(b) : b[i] = buf[i]
  <2>1. Unused \in EntryType /\ Unused.tag = "UNUSED"
    BY DEF Unused, EntryType, Tags
  <2>2. b \in [1 .. Len(buf) -> EntryType]
    BY <1>2, <2>1
  <2>3. b \in Seq(EntryType) /\ DOMAIN b = DOMAIN buf
    BY <1>2, <2>2
  <2>4. \A i \in DOMAIN buf : /\ buf[i].ref \in Condemned => b[i].tag = "UNUSED"
                              /\ buf[i].ref \notin Condemned => b[i] = buf[i]
    BY <1>4, <2>1
  <2> HIDE DEF b
  <2>5. QED
    BY <2>3, <2>4 DEF UsedIn, Used
<1>7. a \in [Nodes -> Nat] /\ \A n \in Nodes : n \in Condemned \/ addr[n] = 0 => a[n] = 0
  BY <1>2, <1>4
<1> HIDE DEF b, a
<1>8. /\ BufferInvariant' /\ num_roots' \in Nat
      /\ Len(buf') = num_roots' /\ DOMAIN buf' = 1 .. num_roots'
      /\ \A i \in DOMAIN buf' : buf'[i].tag # "UNUSED"
      /\ Roots' = Roots \ Condemned
      /\ \A i \in DOMAIN buf' : \E n \in Roots \ Condemned : addr'[n] = i /\ buf'[i] = buf[addr[n]]
  <2>1. /\ num_roots' = num_roots - Cardinality(Condemned) /\ buf' = Compacted(b, num_roots') /\ unused' = <<>>
        /\ addr' = AddrIn(buf', a) /\ color' \in [Nodes -> Colors] /\ BufferInvariant
        /\ Condemned \in SUBSET Roots
    BY <1>1, <1>2, <1>4
  <2>2. QED
    BY <1>6, <1>7, <2>1, DropCompact
<1>9. \A n \in Nodes : /\ n \in Condemned => life'[n] = "none" /\ rc'[n] = 0
                       /\ n \notin Condemned => life'[n] = life[n] /\ rc'[n] = rc[n]
                       /\ addr'[n] # 0 <=> addr[n] # 0 /\ n \notin Condemned
  <2>1. \A n \in Nodes : addr'[n] # 0 <=> n \in Roots'
    BY DEF Roots
  <2>2. QED
    BY <1>1, <1>4, <1>8, <2>1 DEF Roots
<1>10. \A n \in Nodes : color'[n] = IF addr'[n] # 0 THEN "purple" ELSE "black"
  BY <1>1, <1>2, <1>9
<1>11. \A i \in DOMAIN buf' : buf'[i].tag \in {"ROOT", "UNUSED"}
  <2> SUFFICES ASSUME NEW i \in DOMAIN buf' PROVE buf'[i].tag \in {"ROOT", "UNUSED"}
    OBVIOUS
  <2>1. PICK n \in Roots \ Condemned : buf'[i] = buf[addr[n]]
    BY <1>8
  <2>2. n \in Nodes /\ addr[n] # 0 /\ addr[n] \in DOMAIN buf
    BY <1>2 DEF Roots
  <2>3. buf[addr[n]].tag # "GARBAGE"
    BY <1>2, <2>2 DEF TagOf
  <2>4. buf[addr[n]].tag \in Tags
    BY <1>2, <2>2 DEF EntryType
  <2>5. QED
    BY <1>3, <2>1, <2>2, <2>3, <2>4 DEF Tags
<1>12. /\ \A n \in Nodes : life'[n] # "null" /\ (life'[n] = life[n] \/ (life'[n] = "none" /\ life[n] = "null"))
       /\ \A n \in Nodes : life'[n] = "none" => addr'[n] = 0 /\ color'[n] = "black" /\ rc'[n] = 0
  <2>1. \A n \in Nodes : life[n] = "none" => addr[n] = 0 /\ rc[n] = 0
    BY InvariantParts DEF Dying
  <2>2. QED
    BY <1>3, <1>5, <1>9, <1>10, <2>1
<1>13. rc' \in [Nodes -> Nat] /\ life' \in [Nodes -> Lives]
  BY <1>1, <1>2 DEF Lives
<1>14. References'
  <2>1. held \subseteq Usable /\ \A e \in edge : life[e[1]] # "none" /\ life[e[2]] \in {"live", "destructed", "null"}
    BY InvariantParts DEF References
  <2>2. held \subseteq Usable'
    BY <1>2, <1>9, <2>1 DEF Usable
  <2>3. ASSUME NEW e \in edge PROVE life'[e[1]] # "none" /\ life'[e[2]] \in {"live", "destructed", "null"}
    <3>1. e[1] \in Nodes /\ e[2] \in Nodes /\ e = <<e[1], e[2]>>
      BY <1>2
    <3>2. e[1] \notin Condemned
      BY <1>3, <1>5, <3>1
    <3>3. e[2] \notin Condemned
      BY <1>3, <3>2
    <3>4. QED
      BY <1>9, <2>1, <3>1, <3>2, <3>3
  <2>4. QED
    BY <1>1, <2>2, <2>3 DEF References
<1>15. /\ gc'.phase \in {"idle", "start"} /\ (stack' = stack \/ stack' = Below)
       /\ \/ gc' = IdleGc /\ stack' = Below
          \/ gc' \in GcType /\ gc'.phase = "start" /\ gc'.work = {} /\ gc'.bwork = {} /\ stack' = stack
  <2>1. ASSUME gc' = [IdleGc EXCEPT !.phase = "start", !.rerun = "done"]
        PROVE  gc' \in GcType /\ gc'.phase = "start" /\ gc'.work = {} /\ gc'.bwork = {}
    BY <2>1 DEF IdleGc, GcType, Phases
  <2>2. QED
    BY <1>1, <2>1, BegunFacts
<1>16. Balance'
  <2>1. Taken' = {}
    BY <1>15 DEF Taken
  <2>2. \A n \in Nodes : life'[n] # "none" => life[n] # "none" /\ rc'[n] = rc[n]
    BY <1>9
  <2>3. QED
    BY <1>1, <1>2, <1>15, <2>1, <2>2, SettledBalance
<1>17. gc_active' \in BOOLEAN /\ ~gc_active'
  BY <1>1
<1>18. CollectorInvariant'
  BY <1>1, <1>8, <1>10, <1>11, <1>12, <1>13, <1>14, <1>15, <1>16, <1>17, OverKeeps
<1>19. QED
  BY <1>5, <1>8, <1>9, <1>15, <1>18

----------------------------------------------------------------------------
(* The beginning of a run.                                                 *)

\* gc_compact: only roots are left in the buffer.
LEMMA StartFacts ==
  ASSUME CollectorInvariant, Top.at = "run", gc.phase = "start", UNCHANGED <<color, num_roots>>,
         buf' = Compacted(buf, num_roots), unused' = <<>>, addr' = AddrIn(buf', addr)
  PROVE  /\ BufferInvariant' /\ Len(buf') = num_roots /\ DOMAIN buf' = 1 .. num_roots /\ num_roots \in Nat
         /\ \A i \in DOMAIN buf' : buf'[i].tag = "ROOT"
         /\ \A n \in Nodes : /\ addr'[n] # 0 <=> addr[n] # 0
                             /\ addr'[n] \in 0 .. num_roots
                             /\ color'[n] = IF addr'[n] # 0 THEN "purple" ELSE "black"
<1>1. /\ BufferInvariant /\ buf \in Seq(EntryType) /\ DOMAIN buf = 1 .. Len(buf) /\ Len(buf) \in Nat
      /\ (\A i \in DOMAIN buf : buf[i] \in EntryType)
      /\ (\A n \in Nodes : addr[n] # 0 => addr[n] \in Used /\ buf[addr[n]].ref = n)
      /\ num_roots \in Nat
  BY InvariantParts, BufferFacts
<1>2. /\ addr \in [Nodes -> Nat] /\ color' \in [Nodes -> Colors]
      /\ (\A i \in DOMAIN buf : buf[i].tag \in {"ROOT", "UNUSED"})
  BY <1>1, InvariantParts DEF BufferInvariant, AddrTypes, CountTypes, TagsOfPhase
<1>3. \A n \in Nodes : color[n] = IF addr[n] # 0 THEN "purple" ELSE "black"
  <2>1. \A n \in Nodes : addr[n] # 0 => TagOf(n) # "GARBAGE"
    BY <1>1, <1>2 DEF TagOf, Used
  <2>2. QED
    BY <2>1, InvariantParts DEF RootsArePurple, Passes
<1> DEFINE none == {}
<1>4. UsedIn(buf) = {i \in Used : buf[i].ref \notin none} /\ none \in SUBSET Roots
  BY DEF UsedIn, Used
<1>5. num_roots' = num_roots - Cardinality(none) /\ num_roots' = num_roots /\ Roots \ none = Roots
  BY <1>1, FS_EmptySet
<1>6. /\ BufferInvariant' /\ Len(buf') = num_roots' /\ DOMAIN buf' = 1 .. num_roots'
      /\ \A i \in DOMAIN buf' : buf'[i].tag # "UNUSED"
      /\ Roots' = Roots
      /\ \A i \in DOMAIN buf' : \E n \in Roots : addr'[n] = i /\ buf'[i] = buf[addr[n]]
  <2>1. \A n \in Nodes : n \in none \/ addr[n] = 0 => addr[n] = 0
    OBVIOUS
  <2> HIDE DEF none
  <2>2. /\ BufferInvariant /\ buf \in Seq(EntryType) /\ none \in SUBSET Roots
        /\ UsedIn(buf) = {i \in Used : buf[i].ref \notin none}
        /\ color' \in [Nodes -> Colors] /\ num_roots' = num_roots - Cardinality(none)
        /\ buf' = Compacted(buf, num_roots') /\ unused' = <<>> /\ addr' = AddrIn(buf', addr)
        /\ addr \in [Nodes -> Nat]
    BY <1>1, <1>2, <1>4, <1>5
  <2>3. /\ BufferInvariant' /\ Len(buf') = num_roots' /\ DOMAIN buf' = 1 .. num_roots'
        /\ \A i \in DOMAIN buf' : buf'[i].tag # "UNUSED"
        /\ Roots' = Roots \ none
        /\ \A i \in DOMAIN buf' : \E n \in Roots \ none : addr'[n] = i /\ buf'[i] = buf[addr[n]]
    BY <2>1, <2>2, DropCompact
  <2>4. QED
    BY <1>5, <2>3
<1>7. \A i \in DOMAIN buf' : buf'[i].tag = "ROOT"
  <2> SUFFICES ASSUME NEW i \in DOMAIN buf' PROVE buf'[i].tag = "ROOT"
    OBVIOUS
  <2>1. PICK n \in Roots : buf'[i] = buf[addr[n]]
    BY <1>6
  <2>2. addr[n] \in DOMAIN buf /\ buf'[i].tag # "UNUSED"
    BY <1>1, <1>6 DEF Roots, Used
  <2>3. QED
    BY <1>2, <2>1, <2>2
<1>8. \A n \in Nodes : addr'[n] # 0 <=> addr[n] # 0
  BY <1>6 DEF Roots
<1>9. \A n \in Nodes : addr'[n] \in 0 .. num_roots
  BY <1>5, <1>6 DEF BufferInvariant, AddrTypes
<1>10. QED
  BY <1>1, <1>3, <1>5, <1>6, <1>7, <1>8, <1>9

\* zend_gc_run_cycles: a run with something to do begins to mark.
LEMMA StartMarks ==
  ASSUME CollectorInvariant, Start, num_roots > 0
  PROVE  CollectorInvariant'
<1>1. /\ Top.at = "run" /\ gc.phase = "start" /\ gc_active' = TRUE
      /\ gc' = [gc EXCEPT !.phase = "mark", !.idx = 1, !.end = num_roots]
      /\ buf' = Compacted(buf, num_roots) /\ unused' = <<>> /\ addr' = AddrIn(buf', addr)
      /\ UNCHANGED <<life, edge, held, rc, color, num_roots, stack>>
  <2>1. num_roots # 0
    BY InvariantParts DEF BufferInvariant, BufferTypes
  <2>2. QED
    BY <2>1 DEF Start, Running, heap
<1>2. /\ BufferInvariant' /\ Len(buf') = num_roots /\ DOMAIN buf' = 1 .. num_roots /\ num_roots \in Nat
      /\ \A i \in DOMAIN buf' : buf'[i].tag = "ROOT"
      /\ \A n \in Nodes : /\ addr'[n] # 0 <=> addr[n] # 0
                          /\ addr'[n] \in 0 .. num_roots
                          /\ color'[n] = IF addr'[n] # 0 THEN "purple" ELSE "black"
  BY <1>1, StartFacts
<1>3. /\ HeapTypes' /\ StackTypes' /\ FrameLife' /\ References' /\ StackShape' /\ HasRun(stack') /\ Top' = Top
  BY <1>1, HeapKept
<1>4. gc \in GcType /\ gc.work = {} /\ gc.bwork = {}
  BY <1>1, InvariantParts DEF RunShape, GcTypes
<1>5. /\ gc' \in GcType /\ gc'.phase = "mark" /\ gc'.idx = 1 /\ gc'.end = num_roots
      /\ gc'.work = {} /\ gc'.bwork = {}
  <2>1. gc' \in GcType
    BY <1>1, <1>2, <1>4 DEF GcType, Phases
  <2>2. QED
    BY <1>1, <1>4, <2>1 DEF GcType
<1>6. TypeOK'
  <2>1. CountTypes'
    BY <1>1, InvariantParts DEF CountTypes
  <2>2. AddrTypes' /\ BufferTypes'
    BY <1>2 DEF BufferInvariant
  <2>3. GcTypes'
    BY <1>1, <1>5 DEF GcTypes
  <2>4. QED
    BY <1>3, <2>1, <2>2, <2>3, TypePartsNext
<1>7. RunShape'
  <2>1. 1 <= gc'.idx /\ gc'.end <= Len(buf') /\ gc_active' /\ Top'.at = "run"
    BY <1>1, <1>2, <1>3, <1>5
  <2>2. QED
    BY <1>3, <1>5, <2>1 DEF RunShape
<1>8. TagsOfPhase'
  BY <1>2, <1>5 DEF TagsOfPhase
<1>9. RootsArePurple'
  BY <1>5 DEF RootsArePurple, Passes
<1>10. Dying'
  <2>1. \A n \in Nodes : /\ life[n] = "none" => addr[n] = 0 /\ rc[n] = 0
                         /\ life[n] = "freeing" => \E i \in DOMAIN stack : stack[i].at = "del_free" /\ stack[i].node = n
                         /\ life[n] # "null"
    BY <1>1, InvariantParts DEF Dying
  <2>2. QED
    BY <1>1, <1>2, <2>1 DEF Dying
<1>11. Colored("grey")' = {} /\ Colored("white")' = {}
  BY <1>2 DEF Colored
<1>12. Balance'
  <2>1. Taken = {} /\ Taken' = {}
    BY <1>1, <1>5, <1>11 DEF Taken
  <2>2. QED
    BY <1>1, <1>5, <2>1, SettledBalance
<1>13. Marking'
  <2>1. ASSUME NEW n \in Nodes
        PROVE  /\ color'[n] # "white" /\ color'[n] # "grey"
               /\ color'[n] # "black" => life'[n] # "none"
               /\ color'[n] = "purple" => addr'[n] >= gc'.idx
               /\ addr'[n] # 0 => color'[n] # "black"
    <3>1. life[n] = "none" => addr[n] = 0
      BY InvariantParts DEF Dying
    <3>2. addr'[n] # 0 => addr'[n] >= 1
      BY <1>2
    <3>3. QED
      BY <1>1, <1>2, <1>5, <3>1, <3>2
  <2>2. \A e \in Follow' : color'[e[1]] # "grey"
    <3>1. \A e \in Follow' : e[1] \in Nodes
      BY DEF Follow, Usable
    <3>2. QED
      BY <2>1, <3>1
  <2>3. Covers(Follow', Colored("grey")' \cap Roots', Colored("grey")')
    BY <1>11, CoversEmpty
  <2>4. gc'.work \subseteq Colored("grey")'
    BY <1>5
  <2>5. QED
    BY <2>1, <2>2, <2>3, <2>4 DEF Marking
<1>14. Scanned' /\ Collecting'
  BY <1>5 DEF Scanned, Collecting
<1>15. CondemnedIsLost'
  <2>1. Condemned' = {}
    <3>1. \A n \in Nodes : addr'[n] # 0 => TagOf(n)' = "ROOT"
      BY <1>2 DEF TagOf
    <3>2. QED
      BY <3>1 DEF Condemned, Tagged
  <2>2. QED
    BY <1>5, <2>1 DEF CondemnedIsLost
<1>16. Addresses' /\ UnusedListed'
  BY <1>2 DEF BufferInvariant
<1>17. QED
  BY <1>3, <1>6, <1>7, <1>8, <1>9, <1>10, <1>12, <1>13, <1>14, <1>15, <1>16 DEF CollectorInvariant

\* A run with nothing to do is over.
LEMMA StartEnds ==
  ASSUME CollectorInvariant, Start, num_roots = 0
  PROVE  CollectorInvariant'
<1>1. /\ Top.at = "run" /\ gc.phase = "start" /\ gc_active' = FALSE /\ gc' = IdleGc /\ stack' = Below
      /\ buf' = Compacted(buf, num_roots) /\ unused' = <<>> /\ addr' = AddrIn(buf', addr)
      /\ UNCHANGED <<life, edge, held, rc, color, num_roots>>
  BY DEF Start, Running, heap, EndRun
<1>2. /\ BufferInvariant' /\ \A i \in DOMAIN buf' : buf'[i].tag = "ROOT"
      /\ \A n \in Nodes : /\ addr'[n] # 0 <=> addr[n] # 0
                          /\ color'[n] = IF addr'[n] # 0 THEN "purple" ELSE "black"
  BY <1>1, StartFacts
<1>3. \A n \in Nodes : life[n] # "null" /\ (life[n] = "none" => addr[n] = 0 /\ rc[n] = 0)
  BY <1>1, InvariantParts DEF Dying
<1>4. \A n \in Nodes : life'[n] = "none" => addr'[n] = 0 /\ color'[n] = "black" /\ rc'[n] = 0
  BY <1>1, <1>2, <1>3
<1>5. References'
  BY <1>1, InvariantParts DEF References, Usable
<1>6. Balance'
  <2>1. Taken = {} /\ Taken' = {} /\ gc'.phase = "idle"
    BY <1>1, BegunFacts DEF Taken
  <2>2. QED
    BY <1>1, <2>1, SettledBalance
<1>7. rc' \in [Nodes -> Nat] /\ life' \in [Nodes -> Lives]
  BY <1>1, InvariantParts DEF CountTypes, HeapTypes
<1>8. gc_active' \in BOOLEAN /\ ~gc_active' /\ \A i \in DOMAIN buf' : buf'[i].tag \in {"ROOT", "UNUSED"}
  BY <1>1, <1>2
<1>9. QED
  BY <1>1, <1>2, <1>3, <1>4, <1>5, <1>6, <1>7, <1>8, OverKeeps

----------------------------------------------------------------------------
(* The invariant.                                                          *)

\* A step of the collector itself.
LEMMA RunKeeps ==
  ASSUME CollectorInvariant, Start \/ MarkStep \/ ScanStep \/ CollectStep \/ NestedStep \/ DtorStep \/ FreeStep
  PROVE  CollectorInvariant'
<1>1. CASE Start
  <2>1. num_roots \in Nat
    BY InvariantParts DEF BufferTypes
  <2>2. num_roots = 0 \/ num_roots > 0
    BY <2>1
  <2>3. QED
    BY <1>1, <2>2, StartMarks, StartEnds
<1>2. CASE MarkStep
  BY <1>2, MarkRootKeeps, EndMarkKeeps, MarkGreyKeeps DEF MarkStep
<1>3. CASE ScanStep
  BY <1>3, ScanRootKeeps, EndScanKeeps, ScanKeeps, ScanBlackKeeps DEF ScanStep
<1>4. CASE CollectStep
  BY <1>4, CollectRootKeeps, EndCollectKeeps, CollectWhiteKeeps DEF CollectStep
<1>5. CASE NestedStep
  BY <1>5, NestedRootKeeps, EndNestedKeeps, RemoveNestedKeeps DEF NestedStep
<1>6. CASE DtorStep
  BY <1>6, CallDestructorKeeps, AfterDestructorKeeps, EndDestructorsKeeps DEF DtorStep
<1>7. CASE FreeStep
  BY <1>7, DestroyKeeps, FreeGarbageKeeps DEF FreeStep
<1>8. QED
  BY <1>1, <1>2, <1>3, <1>4, <1>5, <1>6, <1>7

\* A step in which nothing happens.
LEMMA StutterKeeps ==
  ASSUME CollectorInvariant, UNCHANGED vars
  PROVE  CollectorInvariant'
<1>1. UNCHANGED <<life, edge, held, rc, color, addr, buf, unused, num_roots, gc_active, gc, stack>>
  BY DEF vars, heap, counts, buffer
<1>2. /\ Usable' = Usable /\ Condemned' = Condemned /\ Top' = Top /\ Entry' = Entry /\ Roots' = Roots
      /\ \A c \in Colors : Colored(c)' = Colored(c)
      /\ Tagged("DTOR_GARBAGE")' = Tagged("DTOR_GARBAGE")
      /\ \A n \in Nodes : HasDestructor(n)' <=> HasDestructor(n)
      /\ \A n \in Nodes : TagOf(n)' = TagOf(n)
  BY <1>1 DEF Usable, Condemned, Tagged, TagOf, Top, Entry, Roots, Colored, HasDestructor
<1>3. /\ Follow' = Follow /\ Taken' = Taken /\ Doomed' = Doomed
      /\ RootsFrom(gc.idx)' = RootsFrom(gc.idx)
  BY <1>1, <1>2 DEF Follow, Taken, Doomed, Colors, RootsFrom
<1>4. Counted' = Counted /\ \A n \in Nodes : Delayed(n)' = Delayed(n)
  BY <1>1, <1>2, <1>3 DEF Counted, Delayed
<1>5. TypeOK'
  BY <1>1 DEF CollectorInvariant, TypeOK
<1>6. StackShape' /\ RunShape'
  BY <1>1, <1>2 DEF CollectorInvariant, StackShape, RunShape
<1>7. Addresses' /\ UnusedListed' /\ TagsOfPhase' /\ RootsArePurple'
  <2>1. Addresses'
    BY <1>1 DEF CollectorInvariant, Addresses, TagOf
  <2>2. UnusedListed'
    BY <1>1 DEF CollectorInvariant, UnusedListed, Used
  <2>3. TagsOfPhase'
    BY <1>1 DEF CollectorInvariant, TagsOfPhase
  <2>4. RootsArePurple'
    BY <1>1 DEF CollectorInvariant, RootsArePurple, TagOf
  <2>5. QED
    BY <2>1, <2>2, <2>3, <2>4
<1>8. FrameLife' /\ References' /\ Dying'
  <2>1. FrameLife'
    BY <1>1 DEF CollectorInvariant, FrameLife
  <2>2. References'
    BY <1>1, <1>2 DEF CollectorInvariant, References
  <2>3. Dying'
    BY <1>1, <1>2 DEF CollectorInvariant, Dying
  <2>4. QED
    BY <2>1, <2>2, <2>3
<1>9. Balance'
  BY <1>1, <1>4 DEF CollectorInvariant, Balance
<1>10. Marking' /\ Scanned' /\ Collecting'
  <2>1. Colored("grey")' = Colored("grey") /\ Colored("white")' = Colored("white")
        /\ Colored("black")' = Colored("black")
    BY <1>2 DEF Colors
  <2>2. Marking'
    BY <1>1, <1>2, <1>3, <2>1 DEF CollectorInvariant, Marking
  <2>3. RootsFrom(gc.idx)' = RootsFrom(gc.idx)
    BY <1>3
  <2>4. Scanned'
    BY <1>1, <1>2, <1>3, <2>1, <2>3 DEF CollectorInvariant, Scanned
  <2>5. Isolated(Doomed)' <=> Isolated(Doomed)
    BY <1>1, <1>2, <1>3 DEF Isolated
  <2>6. Collecting'
    <3>1. \A n \in Doomed : HasDestructor(n)' <=> HasDestructor(n)
      BY <1>1 DEF HasDestructor
    <3>2. QED
      BY <1>1, <1>2, <1>3, <2>1, <2>5, <3>1 DEF CollectorInvariant, Collecting
  <2>7. QED
    BY <2>2, <2>4, <2>6
<1>11. CondemnedIsLost'
  <2>1. \A n \in Condemned : HasDestructor(n)' <=> HasDestructor(n)
    BY <1>1 DEF HasDestructor
  <2>2. QED
    BY <1>1, <1>2, <2>1 DEF CollectorInvariant, CondemnedIsLost
<1>12. QED
  BY <1>5, <1>6, <1>7, <1>8, <1>9, <1>10, <1>11 DEF CollectorInvariant

\* The invariant holds when a request begins: there is nothing but the program.
LEMMA InitHolds ==
  ASSUME Init
  PROVE  CollectorInvariant
<1>1. /\ life = [n \in Nodes |-> "none"] /\ edge = {} /\ held = {}
      /\ rc = [n \in Nodes |-> 0] /\ color = [n \in Nodes |-> "black"] /\ addr = [n \in Nodes |-> 0]
      /\ buf = <<>> /\ unused = <<>> /\ num_roots = 0 /\ gc_active = FALSE
      /\ gc = IdleGc /\ stack = <<Call("main", NULL)>>
  BY DEF Init
<1>2. /\ gc.phase = "idle" /\ gc \in GcType /\ gc.work = {} /\ gc.bwork = {} /\ ~gc.dtors
  BY <1>1, BegunFacts
<1>3. /\ stack \in Seq(Frame) /\ stack # <<>> /\ DOMAIN stack = {1} /\ Len(stack) = 1
      /\ stack[1].at = "main" /\ stack[1].node = NULL
  <2>1. Call("main", NULL) \in Frame /\ Call("main", NULL).at = "main" /\ Call("main", NULL).node = NULL
    BY CallFacts DEF Calls
  <2>2. QED
    BY <1>1, <2>1
<1>4. TypeOK
  <2>1. HeapTypes /\ CountTypes /\ GcTypes /\ StackTypes
    BY <1>1, <1>2, <1>3 DEF HeapTypes, CountTypes, GcTypes, StackTypes, Lives, Colors
  <2>2. AddrTypes /\ BufferTypes
    BY <1>1 DEF AddrTypes, BufferTypes
  <2>3. QED
    BY <2>1, <2>2, TypeParts
<1>5. StackShape /\ RunShape
  BY <1>1, <1>2, <1>3 DEF StackShape, Shape, Adjacent, RunShape, HasRun
<1>6. DOMAIN buf = {} /\ DOMAIN unused = {}
  BY <1>1
<1>7. Addresses /\ UnusedListed /\ TagsOfPhase /\ RootsArePurple
  <2>1. Addresses /\ TagsOfPhase /\ RootsArePurple
    BY <1>1, <1>6 DEF Addresses, TagsOfPhase, RootsArePurple
  <2>2. UnusedListed
    <3>1. Used = {}
      BY <1>6 DEF Used
    <3>2. QED
      BY <1>1, <1>6, <3>1, FS_EmptySet DEF UnusedListed
  <2>3. QED
    BY <2>1, <2>2
<1>8. FrameLife /\ References /\ Dying
  BY <1>1, <1>3 DEF FrameLife, References, Dying
<1>9. Balance
  BY <1>1 DEF Balance
<1>10. Marking /\ Scanned /\ Collecting
  BY <1>2 DEF Marking, Scanned, Collecting
<1>11. CondemnedIsLost
  <2>1. Condemned = {}
    BY <1>1 DEF Condemned, Tagged
  <2>2. QED
    BY <1>1, <1>2, <2>1 DEF CondemnedIsLost
<1>12. QED
  BY <1>4, <1>5, <1>7, <1>8, <1>9, <1>10, <1>11 DEF CollectorInvariant

\* The collector's inductive invariant: whatever PHP code, destructors and the calls
\* of gc_collect_cycles do, the calls nest as they should, buffer, objects and counts
\* fit together, and nobody can come at what a run has condemned.
THEOREM CollectorInvariantHolds == Spec => []CollectorInvariant
<1>1. Init => CollectorInvariant
  BY InitHolds
<1>2. ASSUME CollectorInvariant, [Next]_vars PROVE CollectorInvariant'
  <2>1. CASE Next
    <3>1. CASE Outer
      BY <1>2, <3>1, OuterKeeps
    <3>2. CASE ~Outer
      BY <1>2, <2>1, <3>2, StepKinds, RunKeeps
    <3>3. QED
      BY <3>1, <3>2
  <2>2. CASE UNCHANGED vars
    BY <1>2, <2>2, StutterKeeps
  <2>3. QED
    BY <1>2, <2>1, <2>2
<1>3. QED
  BY <1>1, <1>2, PTL DEF Spec

----------------------------------------------------------------------------
(* What the invariant says of the properties.                              *)

\* Nothing refers to freed memory, and PHP code reaches objects in use only.
LEMMA NothingDangles ==
  ASSUME CollectorInvariant
  PROVE  NoDangling
<1>1. \A e \in edge : {e[1], e[2]} \subseteq Alive
  <2>1. \A e \in edge : e[1] \in Nodes /\ e[2] \in Nodes
    BY InvariantParts DEF HeapTypes
  <2>2. \A e \in edge : life[e[1]] # "none" /\ life[e[2]] # "none"
    BY InvariantParts DEF References
  <2>3. QED
    BY <2>1, <2>2 DEF Alive
<1>2. \A i \in DOMAIN buf : buf[i].tag # "UNUSED" => buf[i].ref \in Alive
  <2> SUFFICES ASSUME NEW i \in DOMAIN buf, buf[i].tag # "UNUSED" PROVE buf[i].ref \in Alive
    OBVIOUS
  <2>1. buf[i].ref \in Nodes /\ addr[buf[i].ref] = i /\ i # 0
    BY InvariantParts, BufferFacts DEF Used
  <2>2. life[buf[i].ref] = "none" => addr[buf[i].ref] = 0
    BY <2>1, InvariantParts DEF Dying
  <2>3. QED
    BY <2>1, <2>2 DEF Alive
<1>3. \A i \in DOMAIN stack : stack[i].node # NULL => stack[i].node \in Alive
  <2> SUFFICES ASSUME NEW i \in DOMAIN stack, stack[i].node # NULL PROVE stack[i].node \in Alive
    OBVIOUS
  <2>1. stack[i] \in Frame /\ stack[i].node \in Nodes
    BY InvariantParts, StackFacts DEF StackTypes
  <2>2. stack[i].at \in Calls \ {"main", "run"}
    BY <2>1, InvariantParts DEF StackShape, Shape, Frame
  <2>3. life[stack[i].node] # "none"
    <3>1. /\ stack[i].at \in {"dtor", "del_dtor", "full"} => life[stack[i].node] \in {"live", "destructed"}
          /\ stack[i].at = "del_free" => life[stack[i].node] = "freeing"
          /\ stack[i].at = "gc_free" => life[stack[i].node] = "null"
          /\ stack[i].at = "del" => life[stack[i].node] \in {"live", "destructed", "null"}
      BY InvariantParts DEF FrameLife
    <3>2. QED
      BY <2>2, <3>1 DEF Calls
  <2>4. QED
    BY <2>1, <2>3 DEF Alive
<1>4. InUserCode => \A n \in Accessible : life[n] \in {"live", "destructed"}
  BY AccessibleFacts DEF Usable
<1>5. QED
  BY <1>1, <1>2, <1>3, <1>4 DEF NoDangling

\* Outside the passes no count is taken back.
LEMMA CountsFit ==
  ASSUME CollectorInvariant
  PROVE  CountsAreExact
<1> SUFFICES ASSUME gc.phase \notin {"mark", "scan", "collect"}, NEW n \in Alive
             PROVE  rc[n] = Cardinality({e \in edge : e[2] = n}) + (IF n \in held THEN 1 ELSE 0) + CallsHold(n)
  BY DEF CountsAreExact
<1>1. Counted = edge /\ n \in Nodes
  BY DEF Counted, Taken, Alive
<1>2. /\ rc[n] = InCount(edge, n) + HeldCount(held, n) + Frames(stack, n) + Delayed(n)
      /\ InCount(edge, n) \in Nat /\ HeldCount(held, n) \in Nat /\ Frames(stack, n) \in Nat
      /\ Delayed(n) \in Nat
  BY <1>1, AllCounts
<1>3. CallsHold(n) = Frames(stack, n) + Delayed(n)
  BY DEF CallsHold, Frames, Delayed
<1>4. rc[n] = InCount(edge, n) + HeldCount(held, n) + CallsHold(n)
  BY <1>2, <1>3
<1>5. QED
  BY <1>4 DEF InCount, HeldCount

\* While PHP code runs within a run, there is an entry in the buffer.
LEMMA RootsDuringRun ==
  ASSUME CollectorInvariant, gc_active, InUserCode
  PROVE  num_roots > 0
<1>1. Top.at \notin {"run", "gc_free"}
  BY DEF InUserCode
<1>2. gc.phase \in {"delref", "destroy"}
  BY <1>1, Quiet, InvariantParts DEF RunShape
<1>3. \E i : i \in Used
  <2>1. CASE gc.phase = "delref"
    <3>1. Entry.tag = "ROOT" /\ gc.idx <= gc.end /\ gc.end <= Len(buf) /\ 1 <= gc.idx
          /\ gc.idx \in Nat /\ gc.end \in Nat
      BY <2>1, InvariantParts, GcFields DEF RunShape
    <3>2. DOMAIN buf = 1 .. Len(buf) /\ Len(buf) \in Nat
      BY InvariantParts, BufferFacts
    <3>3. gc.idx \in DOMAIN buf /\ buf[gc.idx].tag # "UNUSED"
      BY <3>1, <3>2 DEF Entry
    <3>4. QED
      BY <3>3 DEF Used
  <2>2. CASE gc.phase = "destroy"
    <3>1. PICK i \in DOMAIN stack : stack[i].at = "run"
      BY <2>2, InvariantParts DEF RunShape, HasRun
    <3>2. /\ Len(stack) \in Nat /\ DOMAIN stack = 1 .. Len(stack) /\ Top = stack[Len(stack)]
          /\ \A j \in DOMAIN stack : stack[j].node \in Nodes \cup {NULL}
      BY InvariantParts, StackFacts DEF StackTypes
    <3>3. i # Len(stack) /\ i + 1 \in DOMAIN stack
      BY <1>1, <3>1, <3>2
    <3>4. stack[i + 1].at = "gc_free"
      BY <2>2, <3>1, <3>3, InvariantParts DEF StackShape, Adjacent
    <3>5. stack[i + 1].node \in Nodes /\ life[stack[i + 1].node] = "null"
      BY <3>2, <3>3, <3>4, InvariantParts DEF StackShape, Shape, FrameLife
    <3>6. stack[i + 1].node \in Condemned
      BY <3>5, InvariantParts DEF Dying
    <3>7. addr[stack[i + 1].node] # 0
      BY <3>6 DEF Condemned, Tagged
    <3>8. QED
      BY <3>5, <3>7, InvariantParts, BufferFacts
  <2>3. QED
    BY <1>2, <2>1, <2>2
<1>4. IsFiniteSet(Used) /\ Cardinality(Used) = num_roots /\ num_roots \in Nat
  BY InvariantParts, BufferFacts
<1>5. num_roots # 0
  BY <1>3, <1>4, FS_EmptySet
<1>6. QED
  BY <1>4, <1>5

\* The buffer and the objects agree.
LEMMA BufferFits ==
  ASSUME CollectorInvariant
  PROVE  BufferMatchesObjects
<1> SUFFICES ASSUME gc.phase \notin {"mark", "scan", "collect", "nested"}
             PROVE  /\ \A n \in Nodes, i \in DOMAIN buf : addr[n] = i <=> i \in Used /\ buf[i].ref = n
                    /\ {unused[i] : i \in DOMAIN unused} = DOMAIN buf \ Used
                    /\ Len(unused) = Cardinality(DOMAIN buf \ Used)
                    /\ num_roots = Cardinality(Used)
                    /\ \A n \in Alive : color[n] = IF addr[n] # 0 /\ buf[addr[n]].tag # "GARBAGE"
                                                     THEN "purple" ELSE "black"
                    /\ gc_active /\ InUserCode => num_roots > 0
  BY InvariantParts DEF BufferMatchesObjects, Used
<1>1. /\ buf \in Seq(EntryType) /\ Len(buf) \in Nat /\ DOMAIN buf = 1 .. Len(buf)
      /\ unused \in Seq(DOMAIN buf) /\ Len(unused) \in Nat /\ DOMAIN unused = 1 .. Len(unused)
      /\ IsFiniteSet(Used) /\ Cardinality(Used) = num_roots
      /\ \A k \in 1 .. Len(unused) : unused[k] \in DOMAIN buf \ Used
      /\ \A n \in Nodes : addr[n] # 0 => addr[n] \in Used /\ buf[addr[n]].ref = n
      /\ \A i \in Used : buf[i].ref \in Nodes /\ addr[buf[i].ref] = i
  BY InvariantParts, BufferFacts
<1>2. \A n \in Nodes, i \in DOMAIN buf : addr[n] = i <=> i \in Used /\ buf[i].ref = n
  <2>1. \A i \in DOMAIN buf : i # 0
    BY <1>1
  <2>2. QED
    BY <1>1, <2>1
<1>3. /\ \A i \in DOMAIN buf \ Used : \E k \in DOMAIN unused : unused[k] = i
      /\ \A j, k \in DOMAIN unused : unused[j] = unused[k] => j = k
  BY InvariantParts DEF UnusedListed, Used
<1>4. {unused[i] : i \in DOMAIN unused} = DOMAIN buf \ Used
  BY <1>1, <1>3
<1>5. Len(unused) = Cardinality(DOMAIN buf \ Used)
  <2> DEFINE S == 1 .. Len(unused)
             T == DOMAIN buf \ Used
  <2>1. IsFiniteSet(S) /\ Cardinality(S) = Len(unused)
    <3>1. ASSUME NEW k \in Nat PROVE IsFiniteSet(1 .. k) /\ Cardinality(1 .. k) = k
      BY IntervalSize
    <3>2. Len(unused) \in Nat
      BY <1>1
    <3>3. QED
      BY <3>1, <3>2
  <2>2. IsFiniteSet(T)
    <3>1. IsFiniteSet(DOMAIN buf)
      BY <1>1, FS_Interval
    <3>2. QED
      BY <3>1, FS_Subset
  <2>3. unused \in [S -> T]
    BY <1>1
  <2>4. (\A x, y \in S : unused[x] = unused[y] => x = y) /\ (\A z \in T : \E x \in S : unused[x] = z)
    BY <1>1, <1>3
  <2> HIDE DEF S, T
  <2>5. Cardinality(S) = Cardinality(T)
    BY <2>1, <2>2, <2>3, <2>4, SameSize
  <2>6. QED
    BY <2>1, <2>5 DEF T
<1>6. \A n \in Alive : color[n] = IF addr[n] # 0 /\ buf[addr[n]].tag # "GARBAGE" THEN "purple" ELSE "black"
  BY InvariantParts DEF RootsArePurple, Passes, TagOf, Alive
<1>7. gc_active /\ InUserCode => num_roots > 0
  BY RootsDuringRun
<1>8. QED
  BY <1>1, <1>2, <1>4, <1>5, <1>6, <1>7

\* Nothing refers to freed memory: no variable, property, entry of the root buffer or
\* C function that has yet to return, and PHP code never gets hold of an object whose
\* free_obj has been called, whatever destructors do between gc_collect_roots's
\* decision and the freeing in zend_gc_collect_cycles.
THEOREM NoDanglingHolds == Spec => []NoDangling
BY CollectorInvariantHolds, NothingDangles, PTL

\* Outside gc_mark_roots, gc_scan_roots and gc_collect_roots, every GC_REFCOUNT is
\* exactly the number of variables, properties and calls in progress that refer to the
\* object: the passes give back what they take, on every graph.
THEOREM CountsAreExactHolds == Spec => []CountsAreExact
BY CollectorInvariantHolds, CountsFit, PTL

\* Between the passes the root buffer and the objects agree (gc_possible_root,
\* gc_remove_from_buffer, gc_compact): addresses are inverse to the entries, each
\* unused entry is listed once, num_roots counts the others, the roots are purple, and
\* a nested gc_collect_cycles() finds roots.
THEOREM BufferMatchesObjectsHolds == Spec => []BufferMatchesObjects
BY CollectorInvariantHolds, BufferFits, PTL
============================================================================
