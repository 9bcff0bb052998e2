------------------------------- MODULE ZendGC -------------------------------
(***************************************************************************)
(* Reference counting and the cycle collector (Zend/zend_gc.c), with the   *)
(* destruction of objects (zend_objects_store_del, zend_objects.c).        *)
(*                                                                         *)
(* The heap is a graph of objects: at most one variable and one property   *)
(* of each object refers to a node.  PHP code (the main program or a       *)
(* destructor) creates nodes, sets and unsets variables and properties and *)
(* calls gc_collect_cycles().  Every decrement can free an object, which   *)
(* runs its destructor and releases its properties, or enter it into the   *)
(* root buffer, which can start the collector, which runs destructors      *)
(* again: the C stack of these calls is the variable stack, and only its   *)
(* last frame moves.                                                       *)
(*                                                                         *)
(* The collector's traversals take a step per node.  The order in which    *)
(* the code's explicit stack yields the nodes is left open (work).         *)
(***************************************************************************)
EXTENDS Integers, Sequences, FiniteSets

CONSTANTS Nodes,     \* addresses an object can have
          Dtor,      \* those whose objects have a destructor
          NULL,
          MaxEdges,  \* bound: properties that refer to objects
          MaxHeld    \* bound: variables that refer to objects

ASSUME ConstantsAssumption ==
  /\ IsFiniteSet(Nodes) /\ Dtor \subseteq Nodes /\ NULL \notin Nodes
  /\ MaxEdges \in Nat /\ MaxHeld \in Nat

VARIABLES
  life,          \* per node: its flags DESTRUCTOR_CALLED, FREE_CALLED, type null
  edge,          \* properties: pairs of nodes
  held,          \* nodes a variable refers to
  rc,            \* GC_REFCOUNT
  color,         \* GC_REF_COLOR
  addr,          \* GC_REF_ADDRESS, 0 when not in the buffer
  buf,           \* the root buffer below first_unused
  unused,        \* its list of unused entries, the last first
  num_roots,     \* GC_G(num_roots)
  gc_active,     \* GC_G(gc_active)
  gc,            \* the local variables of the active zend_gc_collect_cycles
  stack          \* the calls in progress

heap   == <<life, edge, held>>
counts == <<rc, color, addr>>
buffer == <<buf, unused, num_roots>>
vars   == <<heap, counts, buffer, gc_active, gc, stack>>

\* life: destructor called implies at least "destructed"; free_obj called
\* implies at least "freeing"; the collector also sets the type to null.
Lives  == {"none", "live", "destructed", "freeing", "null"}
Colors == {"black", "grey", "white", "purple"}
Tags   == {"ROOT", "GARBAGE", "DTOR_GARBAGE", "UNUSED"}
Phases == {"idle", "start", "mark", "scan", "collect", "nested", "dtors", "delref", "destroy"}
Calls  == {"main", "dtor", "del", "del_dtor", "del_free", "gc_free", "run", "full"}

Alive       == {n \in Nodes : life[n] # "none"}
Unused      == [tag |-> "UNUSED", ref |-> NULL]
IdleGc      == [phase |-> "idle", idx |-> 1, end |-> 0, dtors |-> FALSE, rerun |-> "no",
                work |-> {}, bwork |-> {}]
Call(a, n)  == [at |-> a, node |-> n]
Top         == stack[Len(stack)]
Below       == SubSeq(stack, 1, Len(stack) - 1)
Goto(a)     == Append(Below, [Top EXCEPT !.at = a])

Init ==
  /\ life = [n \in Nodes |-> "none"] /\ edge = {} /\ held = {}
  /\ rc = [n \in Nodes |-> 0] /\ color = [n \in Nodes |-> "black"] /\ addr = [n \in Nodes |-> 0]
  /\ buf = <<>> /\ unused = <<>> /\ num_roots = 0
  /\ gc_active = FALSE
  /\ gc = IdleGc
  /\ stack = <<Call("main", NULL)>>
------------------------------------------------------------------------------
(* The root buffer.                                                        *)

\* The properties a traversal follows: free_obj has dealt with the others.
Children(n) == IF life[n] \in {"live", "destructed"} THEN {m \in Nodes : <<n, m>> \in edge} ELSE {}

\* gc_fetch_unused, gc_fetch_next_unused and the caller's stores
Enter(n) ==
  LET i == IF unused # <<>> THEN unused[Len(unused)] ELSE Len(buf) + 1
      e == [tag |-> "ROOT", ref |-> n]
  IN  /\ buf' = IF unused # <<>> THEN [buf EXCEPT ![i] = e] ELSE Append(buf, e)
      /\ unused' = IF unused # <<>> THEN SubSeq(unused, 1, Len(unused) - 1) ELSE unused
      /\ addr' = [addr EXCEPT ![n] = i]
      /\ color' = [color EXCEPT ![n] = "purple"]
      /\ num_roots' = num_roots + 1

\* gc_link_unused.  Mutant: the new entry ends the list.
LinkUnusedOnly(i) == <<i>>
LinkUnused(i)     == Append(unused, i)

\* gc_remove_from_buffer, gc_remove_from_roots
RemoveFromBuffer(n) ==
  /\ buf' = [buf EXCEPT ![addr[n]] = Unused]
  /\ unused' = LinkUnused(addr[n])
  /\ addr' = [addr EXCEPT ![n] = 0]
  /\ color' = [color EXCEPT ![n] = "black"]
  /\ num_roots' = num_roots - 1

\* GC_REMOVE_FROM_BUFFER
Unbuffer(n) == IF addr[n] # 0 THEN RemoveFromBuffer(n) ELSE UNCHANGED <<color, addr, buffer>>

\* gc_compact: the last entries move into the unused slots.
Compacted(b, k) ==
  LET used(j) == b[j].tag # "UNUSED"
      donor(i) == CHOOSE j \in k + 1 .. Len(b) :
                    /\ used(j)
                    /\ Cardinality({x \in j + 1 .. Len(b) : used(x)})
                         = Cardinality({x \in 1 .. i - 1 : ~used(x)})
  IN  [i \in 1 .. k |-> IF used(i) THEN b[i] ELSE b[donor(i)]]

AddrIn(b, a) == [n \in Nodes |->
                   IF \E i \in DOMAIN b : b[i].ref = n THEN CHOOSE i \in DOMAIN b : b[i].ref = n
                   ELSE a[n]]

\* GC_MAY_LEAK.  Mutant: roots are not taken during a run.
MayLeakIdle(n) == addr[n] = 0 /\ color[n] = "black" /\ ~gc_active
MayLeak(n)     == addr[n] = 0 /\ color[n] = "black"

\* The last reference to n goes away: zend_objects_store_del.
ReleaseLast(n, stk) ==
  /\ rc[n] = 1
  /\ rc' = [rc EXCEPT ![n] = 0]
  /\ stack' = Append(stk, Call("del", n))
  /\ UNCHANGED <<color, addr, buffer, gc>>

\* gc_check_possible_root and gc_possible_root
ReleaseBuffered(n, stk) ==
  /\ rc[n] > 1
  /\ rc' = [rc EXCEPT ![n] = @ - 1]
  /\ IF MayLeak(n) THEN Enter(n) ELSE UNCHANGED <<color, addr, buffer>>
  /\ stack' = stk
  /\ UNCHANGED gc

\* gc_possible_root_when_full: a run comes first, and n is kept for it by a
\* count.  The threshold, which adapts to what earlier runs collected, is left
\* open: any root that needs a new entry can be the one that reaches it.
ReleaseFull(n, stk) ==
  /\ rc[n] > 1 /\ MayLeak(n) /\ unused = <<>> /\ buf # <<>> /\ ~gc_active
  /\ stack' = stk \o <<Call("full", n), Call("run", NULL)>>
  /\ gc' = [IdleGc EXCEPT !.phase = "start"]
  /\ UNCHANGED <<rc, color, addr, buffer>>

\* A reference to n goes away; stk are the calls to go on with.
Release(n, stk) == ReleaseLast(n, stk) \/ ReleaseBuffered(n, stk) \/ ReleaseFull(n, stk)
------------------------------------------------------------------------------
(* PHP code: the main program or the destructor on top of the stack.       *)

InUserCode == Top.at \in {"main", "dtor"}

\* What the running code can reach: variables and its own $this.
Reach(S) ==
  LET R[k \in 0 .. Cardinality(Nodes)] ==
        IF k = 0 THEN S
        ELSE LET r == R[k - 1] IN r \cup {m \in Nodes : \E n \in r : <<n, m>> \in edge}
  IN  R[Cardinality(Nodes)]
Accessible == Reach(held \cup ({Top.node} \ {NULL}))

New(n) ==
  /\ InUserCode /\ life[n] = "none" /\ Cardinality(held) < MaxHeld
  /\ life' = [life EXCEPT ![n] = "live"]
  /\ rc' = [rc EXCEPT ![n] = 1]
  /\ held' = held \cup {n}
  /\ UNCHANGED <<edge, color, addr, buffer, gc_active, gc, stack>>

SetVariable(n) ==
  /\ InUserCode /\ n \in Accessible \ held /\ Cardinality(held) < MaxHeld
  /\ held' = held \cup {n}
  /\ rc' = [rc EXCEPT ![n] = @ + 1]
  /\ UNCHANGED <<life, edge, color, addr, buffer, gc_active, gc, stack>>

UnsetVariable(n) ==
  /\ InUserCode /\ n \in held
  /\ held' = held \ {n}
  /\ Release(n, stack)
  /\ UNCHANGED <<life, edge, gc_active>>

SetProperty(n, m) ==
  /\ InUserCode /\ {n, m} \subseteq Accessible
  /\ <<n, m>> \notin edge /\ Cardinality(edge) < MaxEdges
  /\ edge' = edge \cup {<<n, m>>}
  /\ rc' = [rc EXCEPT ![m] = @ + 1]
  /\ UNCHANGED <<life, held, color, addr, buffer, gc_active, gc, stack>>

UnsetProperty(n, m) ==
  /\ InUserCode /\ n \in Accessible /\ <<n, m>> \in edge
  /\ edge' = edge \ {<<n, m>>}
  /\ Release(m, stack)
  /\ UNCHANGED <<life, held, gc_active>>

\* gc_collect_cycles().  With a run active and roots in the buffer it returns
\* at once; BufferMatchesObjects shows that there are roots then.
CollectCycles ==
  /\ InUserCode /\ ~gc_active
  /\ stack' = Append(stack, Call("run", NULL))
  /\ gc' = [IdleGc EXCEPT !.phase = "start"]
  /\ UNCHANGED <<heap, counts, buffer, gc_active>>

\* The end of a destructor: OBJ_RELEASE in zend_objects_destroy_object.
DestructorReturns ==
  /\ Top.at = "dtor"
  /\ Release(Top.node, Below)
  /\ UNCHANGED <<heap, gc_active>>
------------------------------------------------------------------------------
(* zend_objects_store_del                                                  *)

HasDestructor(n) == n \in Dtor /\ life[n] = "live"

Del ==
  LET n == Top.node IN
  /\ Top.at = "del"
  /\ \/ /\ life[n] = "null"     \* the collector is about to free it
        /\ stack' = Below
        /\ UNCHANGED <<life, rc>>
     \/ /\ HasDestructor(n)
        /\ life' = [life EXCEPT ![n] = "destructed"]
        /\ rc' = [rc EXCEPT ![n] = 2]
        /\ stack' = Append(Goto("del_dtor"), Call("dtor", n))
     \/ /\ life[n] # "null" /\ ~HasDestructor(n)
        /\ life' = [life EXCEPT ![n] = "freeing"]
        /\ rc' = [rc EXCEPT ![n] = 1]
        /\ stack' = Goto("del_free")
  /\ UNCHANGED <<edge, held, color, addr, buffer, gc_active, gc>>

\* Back from the destructor: the object may have been resurrected.
DelAfterDestructor ==
  LET n == Top.node IN
  /\ Top.at = "del_dtor"
  /\ \/ /\ rc[n] > 1
        /\ rc' = [rc EXCEPT ![n] = @ - 1]
        /\ stack' = Below
        /\ UNCHANGED life
     \/ /\ rc[n] = 1
        /\ life' = [life EXCEPT ![n] = "freeing"]
        /\ rc' = [rc EXCEPT ![n] = 1]
        /\ stack' = Goto("del_free")
  /\ UNCHANGED <<edge, held, color, addr, buffer, gc_active, gc>>

\* zend_object_std_dtor: one property after the other.
FreeProperty(m) ==
  /\ Top.at \in {"del_free", "gc_free"} /\ <<Top.node, m>> \in edge
  /\ edge' = edge \ {<<Top.node, m>>}
  /\ Release(m, stack)
  /\ UNCHANGED <<life, held, gc_active>>

NoProperties(n) == \A m \in Nodes : <<n, m>> \notin edge

DelFree ==
  LET n == Top.node IN
  /\ Top.at = "del_free" /\ NoProperties(n)
  /\ life' = [life EXCEPT ![n] = "none"]
  /\ rc' = [rc EXCEPT ![n] = 0]
  /\ Unbuffer(n)
  /\ stack' = Below
  /\ UNCHANGED <<edge, held, gc_active, gc>>
------------------------------------------------------------------------------
(* zend_gc_collect_cycles: marking                                         *)

Running(phase) == Top.at = "run" /\ gc.phase = phase
NoWork == gc.work = {} /\ gc.bwork = {}

EndRun ==
  /\ gc' = IdleGc
  /\ gc_active' = FALSE
  /\ stack' = Below

Start ==
  /\ Running("start")
  /\ \/ /\ num_roots = 0
        /\ EndRun
     \/ /\ num_roots > 0
        /\ gc_active' = TRUE
        /\ gc' = [gc EXCEPT !.phase = "mark", !.idx = 1, !.end = num_roots]
        /\ UNCHANGED stack
  /\ buf' = Compacted(buf, num_roots) /\ unused' = <<>> /\ addr' = AddrIn(buf', addr)
  /\ UNCHANGED <<heap, rc, color, num_roots>>

\* The loops over the buffer: the entry at idx, then the next one.
Entry    == buf[gc.idx]
Scanning(phase) == Running(phase) /\ NoWork /\ gc.idx <= gc.end

MarkRoot ==
  /\ Scanning("mark")
  /\ IF Entry.tag = "ROOT" /\ color[Entry.ref] = "purple"
       THEN /\ color' = [color EXCEPT ![Entry.ref] = "grey"]
            /\ gc' = [gc EXCEPT !.idx = @ + 1, !.work = {Entry.ref}]
       ELSE /\ gc' = [gc EXCEPT !.idx = @ + 1]
            /\ UNCHANGED color
  /\ UNCHANGED <<heap, rc, addr, buffer, gc_active, stack>>

\* The nodes gc_mark_grey goes on to.
ToMark(r) == {n \in Children(r) : color[n] # "grey"}

\* gc_mark_grey: take back the counts of the properties of r.
MarkGrey(r) ==
  /\ Running("mark") /\ r \in gc.work
  /\ rc' = [n \in Nodes |-> IF n \in Children(r) THEN rc[n] - 1 ELSE rc[n]]
  /\ color' = [n \in Nodes |-> IF n \in ToMark(r) THEN "grey" ELSE color[n]]
  /\ gc' = [gc EXCEPT !.work = (@ \ {r}) \cup ToMark(r)]
  /\ UNCHANGED <<heap, addr, buffer, gc_active, stack>>

\* On to the next loop over the buffer.
NextLoop(from, to) ==
  /\ Running(from) /\ NoWork /\ gc.idx > gc.end
  /\ gc' = [gc EXCEPT !.phase = to, !.idx = 1]

EndMark ==
  /\ NextLoop("mark", "scan")
  /\ UNCHANGED <<heap, counts, buffer, gc_active, stack>>
------------------------------------------------------------------------------
(* Scanning: counts that are left come from outside.                       *)

ScanRoot ==
  /\ Scanning("scan")
  /\ IF Entry.tag = "ROOT" /\ color[Entry.ref] = "grey"
       THEN /\ color' = [color EXCEPT ![Entry.ref] = "white"]
            /\ gc' = [gc EXCEPT !.idx = @ + 1, !.work = {Entry.ref}]
       ELSE /\ gc' = [gc EXCEPT !.idx = @ + 1]
            /\ UNCHANGED color
  /\ UNCHANGED <<heap, rc, addr, buffer, gc_active, stack>>

\* gc_scan; a node with a count left is live and so is all it refers to.
Scan(r) ==
  /\ Running("scan") /\ gc.bwork = {} /\ r \in gc.work
  /\ \/ /\ color[r] # "white"
        /\ gc' = [gc EXCEPT !.work = @ \ {r}]
        /\ UNCHANGED color
     \/ /\ color[r] = "white" /\ rc[r] > 0
        /\ color' = [color EXCEPT ![r] = "black"]
        /\ gc' = [gc EXCEPT !.work = @ \ {r}, !.bwork = {r}]
     \/ /\ color[r] = "white" /\ rc[r] = 0
        /\ LET new == {n \in Children(r) : color[n] = "grey"}
           IN  /\ color' = [n \in Nodes |-> IF n \in new THEN "white" ELSE color[n]]
               /\ gc' = [gc EXCEPT !.work = (@ \ {r}) \cup new]
  /\ UNCHANGED <<heap, rc, addr, buffer, gc_active, stack>>

\* gc_scan_black and gc_collect_white give the counts back.  Mutant: only to
\* the nodes they color.
RestoredOnce(r) == [n \in Nodes |-> IF n \in Children(r) /\ color[n] # "black" THEN rc[n] + 1 ELSE rc[n]]
Restored(r)     == [n \in Nodes |-> IF n \in Children(r) THEN rc[n] + 1 ELSE rc[n]]

ScanBlack(r) ==
  /\ Running("scan") /\ r \in gc.bwork
  /\ rc' = Restored(r)
  /\ LET new == {n \in Children(r) : color[n] # "black"}
     IN  /\ color' = [n \in Nodes |-> IF n \in new THEN "black" ELSE color[n]]
         /\ gc' = [gc EXCEPT !.bwork = (@ \ {r}) \cup new]
  /\ UNCHANGED <<heap, addr, buffer, gc_active, stack>>
------------------------------------------------------------------------------
(* Collecting the white nodes.                                             *)

\* gc_collect_roots, first loop and gc_compact: live roots leave the buffer.
Dropped(e) == e.tag = "ROOT" /\ color[e.ref] = "black"

EndScan ==
  /\ Running("scan") /\ NoWork /\ gc.idx > gc.end
  /\ LET b == [i \in DOMAIN buf |-> IF Dropped(buf[i]) THEN Unused ELSE buf[i]]
         gone == {buf[i].ref : i \in {j \in DOMAIN buf : Dropped(buf[j])}}
     IN  /\ num_roots' = num_roots - Cardinality(gone)
         /\ buf' = Compacted(b, num_roots')
         /\ addr' = AddrIn(buf', [n \in Nodes |-> IF n \in gone THEN 0 ELSE addr[n]])
         /\ unused' = <<>>
  /\ gc' = [gc EXCEPT !.phase = "collect", !.idx = 1, !.end = num_roots', !.dtors = FALSE]
  /\ UNCHANGED <<heap, rc, color, gc_active, stack>>

CollectRoot ==
  /\ Scanning("collect")
  /\ buf' = [buf EXCEPT ![gc.idx].tag = "GARBAGE"]
  /\ IF color[Entry.ref] = "white"
       THEN /\ color' = [color EXCEPT ![Entry.ref] = "black"]
            /\ gc' = [gc EXCEPT !.idx = @ + 1, !.work = {Entry.ref}]
       ELSE /\ gc' = [gc EXCEPT !.idx = @ + 1]
            /\ UNCHANGED color
  /\ UNCHANGED <<heap, rc, addr, unused, num_roots, gc_active, stack>>

\* gc_collect_white; r becomes garbage unless it is a root.
CollectWhite(r) ==
  /\ Running("collect") /\ r \in gc.work
  /\ rc' = Restored(r)
  /\ LET new == {n \in Children(r) : color[n] = "white"}
         c   == [n \in Nodes |-> IF n \in new THEN "black" ELSE color[n]]
         add == addr[r] = 0 /\ life[r] \in {"live", "destructed"}
     IN  /\ color' = c
         /\ gc' = [gc EXCEPT !.work = (@ \ {r}) \cup new, !.dtors = @ \/ HasDestructor(r)]
         /\ buf' = IF add THEN Append(buf, [tag |-> "GARBAGE", ref |-> r]) ELSE buf
         /\ addr' = IF add THEN [addr EXCEPT ![r] = Len(buf) + 1] ELSE addr
         /\ num_roots' = IF add THEN num_roots + 1 ELSE num_roots
  /\ UNCHANGED <<heap, unused, gc_active, stack>>

\* Nothing to free, or destructors to call first (they get the roots of the
\* next run), or all of it to free.
EndCollect ==
  /\ Running("collect") /\ NoWork /\ gc.idx > gc.end
  /\ \/ /\ num_roots = 0
        /\ EndRun
        /\ UNCHANGED <<life, color, buf>>
     \/ /\ num_roots > 0 /\ ~gc.dtors
        /\ gc' = [gc EXCEPT !.phase = "destroy", !.idx = 1, !.end = Len(buf)]
        /\ UNCHANGED <<life, color, buf, gc_active, stack>>
     \/ /\ num_roots > 0 /\ gc.dtors
        /\ LET garbage == {buf[i].ref : i \in {j \in DOMAIN buf : buf[j].tag = "GARBAGE"}}
               first   == {n \in garbage : HasDestructor(n)}
           IN  /\ buf' = [i \in DOMAIN buf |->
                            IF buf[i].ref \in first THEN [buf[i] EXCEPT !.tag = "DTOR_GARBAGE"] ELSE buf[i]]
               /\ color' = [n \in Nodes |-> IF n \in first THEN "purple" ELSE color[n]]
               /\ life' = [n \in Nodes |->
                             IF n \in garbage \ first /\ life[n] = "live" THEN "destructed" ELSE life[n]]
        /\ gc' = [gc EXCEPT !.phase = "nested", !.idx = 1, !.end = Len(buf),
                            !.rerun = IF @ = "no" THEN "wanted" ELSE @]
        /\ UNCHANGED <<gc_active, stack>>
  /\ UNCHANGED <<edge, held, rc, addr, unused, num_roots>>
------------------------------------------------------------------------------
(* Destructors.                                                            *)

\* gc_remove_nested_data_from_buffer: what a destructor can reach is not freed.
\* Mutant: only the object itself is kept.
NestedInNone(n) == {m \in {n} : FALSE}
NestedIn(n)     == Children(n)

NestedRoot ==
  /\ Scanning("nested")
  /\ gc' = [gc EXCEPT !.idx = @ + 1,
                      !.work = IF Entry.tag = "DTOR_GARBAGE" THEN NestedIn(Entry.ref) ELSE {}]
  /\ UNCHANGED <<heap, counts, buffer, gc_active, stack>>

RemoveNested(r) ==
  /\ Running("nested") /\ r \in gc.work
  /\ IF addr[r] # 0 /\ color[r] = "black"
       THEN /\ RemoveFromBuffer(r)
            /\ gc' = [gc EXCEPT !.work = (@ \ {r}) \cup Children(r)]
       ELSE /\ gc' = [gc EXCEPT !.work = @ \ {r}]
            /\ UNCHANGED <<color, addr, buffer>>
  /\ UNCHANGED <<heap, rc, gc_active, stack>>

EndNested ==
  /\ NextLoop("nested", "dtors")
  /\ UNCHANGED <<heap, counts, buffer, gc_active, stack>>

\* gc_call_destructors
CallDestructor ==
  LET n == Entry.ref IN
  /\ Scanning("dtors")
  /\ IF Entry.tag = "DTOR_GARBAGE"
       THEN /\ buf' = [buf EXCEPT ![gc.idx].tag = "ROOT"]
            /\ IF life[n] = "live"
                 THEN /\ life' = [life EXCEPT ![n] = "destructed"]
                      /\ rc' = [rc EXCEPT ![n] = @ + 2]
                      /\ gc' = [gc EXCEPT !.phase = "delref"]
                      /\ stack' = Append(stack, Call("dtor", n))
                 ELSE /\ gc' = [gc EXCEPT !.idx = @ + 1]
                      /\ UNCHANGED <<life, rc, stack>>
       ELSE /\ gc' = [gc EXCEPT !.idx = @ + 1]
            /\ UNCHANGED <<buf, life, rc, stack>>
  /\ UNCHANGED <<edge, held, color, addr, unused, num_roots, gc_active>>

\* The count taken for the destructor is given back; nothing is freed yet.
AfterDestructor ==
  /\ Running("delref")
  /\ rc' = [rc EXCEPT ![Entry.ref] = @ - 1]
  /\ gc' = [gc EXCEPT !.phase = "dtors", !.idx = @ + 1]
  /\ UNCHANGED <<heap, color, addr, buffer, gc_active, stack>>

EndDestructors ==
  /\ NextLoop("dtors", "destroy")
  /\ UNCHANGED <<heap, counts, buffer, gc_active, stack>>
------------------------------------------------------------------------------
(* Freeing.                                                                *)

Destroy ==
  LET n == Entry.ref IN
  /\ Scanning("destroy")
  /\ gc' = [gc EXCEPT !.idx = @ + 1]
  /\ IF Entry.tag = "GARBAGE"
       THEN /\ life' = [life EXCEPT ![n] = "null"]
            /\ IF life[n] = "freeing" THEN UNCHANGED <<rc, stack>>
               ELSE /\ rc' = [rc EXCEPT ![n] = @ + 1]
                    /\ stack' = Append(stack, Call("gc_free", n))
       ELSE UNCHANGED <<life, rc, stack>>
  /\ UNCHANGED <<edge, held, color, addr, buffer, gc_active>>

Destroyed ==
  /\ Top.at = "gc_free" /\ NoProperties(Top.node)
  /\ rc' = [rc EXCEPT ![Top.node] = @ - 1]
  /\ stack' = Below
  /\ UNCHANGED <<heap, color, addr, buffer, gc_active, gc>>

\* Mutant: the run is not repeated.
ShouldRerunNever == gc.rerun = "never"
ShouldRerun      == gc.rerun = "wanted"

\* The memory is given back, the buffer compacted, and the run repeated once
\* when destructors have been called.
FreeGarbage ==
  /\ Running("destroy") /\ gc.idx > gc.end
  /\ LET freed == {buf[i].ref : i \in {j \in 1 .. gc.end : buf[j].tag = "GARBAGE"}}
         b == [i \in DOMAIN buf |-> IF buf[i].ref \in freed THEN Unused ELSE buf[i]]
     IN  /\ life' = [n \in Nodes |-> IF n \in freed THEN "none" ELSE life[n]]
         /\ rc' = [n \in Nodes |-> IF n \in freed THEN 0 ELSE rc[n]]
         /\ num_roots' = num_roots - Cardinality(freed)
         /\ buf' = Compacted(b, num_roots')
         /\ addr' = AddrIn(buf', [n \in Nodes |-> IF n \in freed THEN 0 ELSE addr[n]])
         /\ unused' = <<>>
  /\ gc_active' = FALSE
  /\ IF ShouldRerun
       THEN gc' = [IdleGc EXCEPT !.phase = "start", !.rerun = "done"] /\ UNCHANGED stack
       ELSE gc' = IdleGc /\ stack' = Below
  /\ UNCHANGED <<edge, held, color>>

\* gc_possible_root_when_full after its run
AfterFull ==
  LET n == Top.node IN
  /\ Top.at = "full"
  /\ rc' = [rc EXCEPT ![n] = @ - 1]
  /\ \/ /\ rc[n] = 1
        /\ stack' = Goto("del")
        /\ UNCHANGED <<color, addr, buffer>>
     \/ /\ rc[n] > 1 /\ addr[n] # 0
        /\ stack' = Below
        /\ UNCHANGED <<color, addr, buffer>>
     \/ /\ rc[n] > 1 /\ addr[n] = 0
        /\ Enter(n)
        /\ stack' = Below
  /\ UNCHANGED <<heap, gc_active, gc>>
------------------------------------------------------------------------------
UserCode ==
  \/ \E n \in Nodes : New(n) \/ SetVariable(n) \/ UnsetVariable(n)
  \/ \E n, m \in Nodes : SetProperty(n, m) \/ UnsetProperty(n, m)
  \/ CollectCycles
  \/ DestructorReturns

Engine ==
  \/ Del \/ DelAfterDestructor \/ DelFree \/ \E m \in Nodes : FreeProperty(m)
  \/ Start \/ MarkRoot \/ EndMark \/ ScanRoot \/ EndScan \/ CollectRoot \/ EndCollect
  \/ \E r \in Nodes : MarkGrey(r) \/ Scan(r) \/ ScanBlack(r) \/ CollectWhite(r) \/ RemoveNested(r)
  \/ NestedRoot \/ EndNested \/ CallDestructor \/ AfterDestructor \/ EndDestructors
  \/ Destroy \/ Destroyed \/ FreeGarbage \/ AfterFull

Next == UserCode \/ Engine

Spec == Init /\ [][Next]_vars
------------------------------------------------------------------------------
(* Properties.                                                             *)

\* The variables have their types.
TypeOK ==
  /\ life \in [Nodes -> Lives] /\ edge \subseteq Nodes \X Nodes /\ held \subseteq Nodes
  /\ rc \in [Nodes -> Nat] /\ color \in [Nodes -> Colors] /\ addr \in [Nodes -> 0 .. Len(buf)]
  /\ buf \in Seq([tag : Tags, ref : Nodes \cup {NULL}])
  /\ unused \in Seq(DOMAIN buf)
  /\ num_roots \in Nat /\ gc_active \in BOOLEAN
  /\ gc \in [phase : Phases, idx : Nat, end : Nat, dtors : BOOLEAN, rerun : {"no", "wanted", "done"},
             work : SUBSET Nodes, bwork : SUBSET Nodes]
  /\ stack \in Seq([at : Calls, node : Nodes \cup {NULL}]) /\ stack # <<>>

\* Nothing refers to freed memory: not a variable or property, not the root
\* buffer, not a C function that will touch the object when it goes on.  PHP
\* code never gets hold of an object whose free_obj has been called, whatever
\* the destructors did between the collector's decision and the freeing.
NoDangling ==
  /\ \A e \in edge : {e[1], e[2]} \subseteq Alive
  /\ \A i \in DOMAIN buf : buf[i].tag # "UNUSED" => buf[i].ref \in Alive
  /\ \A i \in DOMAIN stack : stack[i].node # NULL => stack[i].node \in Alive
  /\ InUserCode => \A n \in Accessible : life[n] \in {"live", "destructed"}

\* The references the calls in progress hold
CallsHold(n) ==
  Cardinality({i \in DOMAIN stack : stack[i].node = n /\ stack[i].at # "del"})
    + (IF gc.phase = "delref" /\ Entry.ref = n THEN 1 ELSE 0)

\* Outside the three passes that take counts back for a while (gc_mark_grey,
\* gc_scan_black, gc_collect_white), every reference count is exactly the
\* number of variables, properties and calls that refer to the object: the
\* passes give back what they take, on every shape of graph.
CountsAreExact ==
  gc.phase \notin {"mark", "scan", "collect"} =>
    \A n \in Alive :
      rc[n] = Cardinality({e \in edge : e[2] = n}) + (IF n \in held THEN 1 ELSE 0) + CallsHold(n)

\* Between the passes buffer and objects agree: addresses are inverse to the
\* entries, the unused entries are listed once each, num_roots counts the
\* others, a root is purple (a black one would be dropped unexamined), and a
\* call of gc_collect_cycles() from within a run finds roots, so that it cannot
\* reset gc_active and the buffer under the run.
BufferMatchesObjects ==
  /\ TypeOK
  /\ gc.phase \notin {"mark", "scan", "collect", "nested"} =>
       LET used == {i \in DOMAIN buf : buf[i].tag # "UNUSED"}
       IN  /\ \A n \in Nodes, i \in DOMAIN buf : addr[n] = i <=> i \in used /\ buf[i].ref = n
           /\ {unused[i] : i \in DOMAIN unused} = DOMAIN buf \ used
           /\ Len(unused) = Cardinality(DOMAIN buf \ used)
           /\ num_roots = Cardinality(used)
           /\ \A n \in Alive : color[n] = IF addr[n] # 0 /\ buf[addr[n]].tag # "GARBAGE"
                                            THEN "purple" ELSE "black"
           /\ gc_active /\ InUserCode => num_roots > 0

\* Objects that neither a variable nor a call in progress leads to
Garbage ==
  {n \in Nodes : life[n] \in {"live", "destructed"}}
    \ Reach(held \cup ({stack[i].node : i \in DOMAIN stack} \ {NULL}))

\* Whenever PHP code runs, every object it has lost is reachable from an entry
\* of the root buffer: garbage can wait, but is never forgotten.
GarbageIsBuffered ==
  InUserCode => Garbage \subseteq Reach({n \in Nodes : addr[n] # 0})

\* gc_collect_cycles leaves no garbage, also when the destructors of its first
\* pass made more, unless there were destructors to call in the repetition too.
RunCollectsAll ==
  [][gc.phase # "idle" /\ gc'.phase = "idle" => Garbage' = {} \/ (gc.dtors /\ gc.rerun = "done")]_vars
=============================================================================
