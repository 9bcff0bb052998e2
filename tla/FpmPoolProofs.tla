--------------------------- MODULE FpmPoolProofs ---------------------------
(* Theorems about FpmPool, for any number of process ids, any settings of the *)
(* pool, and any number of connections, failed forks, faults and commands.    *)
EXTENDS FpmPool, FiniteSetTheorems, TLAPS

\* A non-empty set of naturals has a least element.
LEMMA LeastNatural ==
  ASSUME NEW S \in SUBSET Nat, S # {}
  PROVE  \E n \in S : \A m \in S : n <= m
<1>1. PICK n \in S : \A m \in S : ~(<<m, n>> \in OpToRel(<, Nat))
  BY NatLessThanWellFounded, WFMin, Zenon
<1>2. \A m \in S : ~(m < n)
  BY <1>1 DEF OpToRel
<1>3. QED
  BY <1>2

\* Fewer holders than things to hold: something is held by nobody.
LEMMA TooFewHolders ==
  ASSUME NEW S, NEW T, IsFiniteSet(S), IsFiniteSet(T), Cardinality(T) < Cardinality(S),
         NEW f
  PROVE  \E n \in S : \A q \in T : f[q] # n
<1>1. \A h \in [S -> T] : \E m, n \in S : m # n /\ h[m] = h[n]
  BY FS_PigeonHole, Zenon
<1>2. SUFFICES ASSUME \A n \in S : \E q \in T : f[q] = n
               PROVE  FALSE
  OBVIOUS
<1> DEFINE h == [n \in S |-> CHOOSE q \in T : f[q] = n]
<1>3. h \in [S -> T] /\ \A n \in S : f[h[n]] = n
  BY <1>2
<1> HIDE DEF h
<1>4. QED
  BY <1>1, <1>3

\* fpm_children_make is entered with a maximum the pool has room for; that of a
\* static pool is its size.
TargetBounded ==
    master = "make" => /\ target <= pm_max_children
                       /\ pm = "static" => target = pm_max_children

\* Idle server maintenance has marked no child of a static pool, and no child that is
\* gone.
MarkedChildren == \A p \in Pids : idle_kill[p] => p \in children /\ pm # "static"

\* Only the socket of an ondemand pool is watched.
OndemandEvents == ondemand_event => pm = "ondemand"

\* A static pool without a process.max that no fork() has failed is full whenever
\* fpm_children_make is not at work.
StaticPoolFull ==
    /\ pm = "static" /\ process_max = 0 /\ forkFailures = ForkFailures
    /\ master \in {"loop", "bury"} /\ fpm_state = "normal"
    => running_children = pm_max_children

\* The pool is no larger than its limits.
Limited ==
    /\ running_children <= pm_max_children
    /\ process_max > 0 => running_children <= process_max

\* Each child has a slot of its own, and only children have one.
OwnSlots ==
    /\ \A p, q \in children : p # q => scoreboard_i[p] # scoreboard_i[q]
    /\ used = {scoreboard_i[p] : p \in children}

\* The inductive invariant behind the theorems.
PoolInvariant ==
    /\ TypeOK /\ NobodyForgotten /\ OwnSlots /\ Limited
    /\ TargetBounded /\ MarkedChildren /\ OndemandEvents /\ StaticPoolFull
    /\ forkFailures <= ForkFailures

----------------------------------------------------------------------------
(* Type correctness.                                                         *)

\* What the counts of children are made of.
LEMMA CountFacts ==
    ASSUME NEW kids \in SUBSET Pids
    PROVE  /\ IsFiniteSet(kids) /\ Cardinality(kids) \in Nat
           /\ Cardinality(kids) = 0 <=> kids = {}
           /\ \A p \in kids : Cardinality(kids \ {p}) = Cardinality(kids) - 1
           /\ \A p \in Pids \ kids : Cardinality(kids \cup {p}) = Cardinality(kids) + 1
<1>1. IsFiniteSet(kids)
  BY FpmAssumption, FS_Subset
<1>2. Cardinality(kids) \in Nat /\ (Cardinality(kids) = 0 <=> kids = {})
  BY <1>1, FS_CardinalityType, FS_EmptySet
<1>3. \A p \in kids : Cardinality(kids \ {p}) = Cardinality(kids) - 1
  BY <1>1, FS_RemoveElement
<1>4. \A p \in Pids \ kids : Cardinality(kids \cup {p}) = Cardinality(kids) + 1
  BY <1>1, FS_AddElement
<1>5. QED
  BY <1>1, <1>2, <1>3, <1>4

\* fpm_scoreboard_proc_alloc finds a slot that is free, if there is one.
LEMMA FreeSlotIsFree ==
    ASSUME TypeOK, used # Slots
    PROVE  FreeSlot \in Slots \ used
<1>1. CASE free_proc \notin used
  BY <1>1 DEF FreeSlot, TypeOK
<1>2. CASE free_proc \in used
  <2> DEFINE S == Slots \ used
  <2>1. S \in SUBSET Nat /\ S # {}
    <3>1. Slots \in SUBSET Nat
      BY FpmAssumption DEF Slots
    <3>2. used \subseteq Slots
      BY DEF TypeOK
    <3>3. QED
      BY <3>1, <3>2
  <2>2. \E i \in S : \A j \in S : i <= j
    <3> HIDE DEF S
    <3> QED BY <2>1, LeastNatural
  <2>3. QED
    BY <1>2, <2>2 DEF FreeSlot
<1>3. QED
  BY <1>1, <1>2

\* The types of what the master forgets.
LEMMA ForgottenTypes ==
    ASSUME NEW next, Forgotten(next)
    PROVE  /\ master' = next /\ pm' \in Styles /\ process_max' \in Limits
           /\ fpm_state' = "normal" /\ fpm_signal_sent' = ""
           /\ pctl_event' \in BOOLEAN /\ children_bury_timer' \in BOOLEAN
           /\ idle_spawn_rate' \in 1 .. MaxRate /\ ondemand_event' \in BOOLEAN
           /\ used' = {} /\ free_proc' \in Slots
           /\ request_stage' \in [Slots -> {"creating", "accepting", "busy", "finished"}]
           /\ sigchld' \in BOOLEAN /\ sp' \in Seq({"T", "Q", "2"})
<1>1. 1 \in 1 .. MaxRate /\ 0 \in Slots
  BY FpmAssumption DEF MaxRate, Slots
<1>2. sp' \in Seq({"T", "Q", "2"})
  <2>1. sp' = <<>>
    BY DEF Forgotten
  <2>2. QED
    BY <2>1
<1>3. request_stage' \in [Slots -> {"creating", "accepting", "busy", "finished"}]
  BY DEF Forgotten
<1>4. /\ pctl_event' \in BOOLEAN /\ children_bury_timer' \in BOOLEAN
      /\ ondemand_event' \in BOOLEAN /\ sigchld' \in BOOLEAN
  BY Zenon DEF Forgotten
<1>5. /\ master' = next /\ pm' \in Styles /\ process_max' \in Limits
      /\ fpm_state' = "normal" /\ fpm_signal_sent' = ""
      /\ idle_spawn_rate' = 1 /\ used' = {} /\ free_proc' = 0
  BY DEF Forgotten
<1>6. QED
  BY <1>1, <1>2, <1>3, <1>4, <1>5

\* Type correctness, in parts that a prover can take at a time.
FlagTypes ==
    /\ pctl_event \in BOOLEAN /\ children_bury_timer \in BOOLEAN
    /\ ondemand_event \in BOOLEAN /\ sigchld \in BOOLEAN
    /\ idle_kill \in [Pids -> BOOLEAN] /\ in_shutdown \in [Pids -> BOOLEAN]

\* The master's own counters and flags.
MasterTypes ==
    /\ master \in {"boot", "loop", "bury", "make", "exited"}
    /\ pm \in Styles /\ process_max \in Limits
    /\ fpm_state \in {"normal", "reloading", "finishing", "terminating"}
    /\ fpm_signal_sent \in {"", "QUIT", "TERM", "KILL"}
    /\ target \in Nat /\ back \in {"boot", "loop", "bury"}
    /\ idle_spawn_rate \in 1 .. MaxRate

\* Its list of children.
ListTypes ==
    /\ children \subseteq Pids /\ age \in [Pids -> Nat] /\ scoreboard_i \in [Pids -> Slots]
    /\ used \subseteq Slots /\ free_proc \in Slots
    /\ request_stage \in [Slots -> {"creating", "accepting", "busy", "finished"}]

\* The child processes and their scoreboard slots.
ProcTypes ==
    /\ proc \in [Pids -> Live \cup {"none", "zombie"}]
    /\ pending \in [Pids -> SUBSET {"QUIT", "TERM", "KILL"}]
    /\ status \in [Pids -> {"exit", "TERM", "KILL", "SEGV"}]

\* What the kernel and the clients keep.
WorldTypes ==
    /\ sp \in Seq({"T", "Q", "2"}) /\ backlog \in Nat
    /\ connections \in Nat /\ forkFailures \in Nat /\ faults \in Nat /\ commands \in Nat

\* TypeOK is the conjunction of the five groups.
LEMMA TypeParts ==
    TypeOK <=> FlagTypes /\ MasterTypes /\ ListTypes /\ ProcTypes /\ WorldTypes
BY DEF TypeOK, FlagTypes, MasterTypes, ListTypes, ProcTypes, WorldTypes

\* The five groups after a step give TypeOK after it.
LEMMA TypesOfNext ==
    ASSUME FlagTypes', MasterTypes', ListTypes', ProcTypes', WorldTypes'
    PROVE  TypeOK'
BY DEF TypeOK, FlagTypes, MasterTypes, ListTypes, ProcTypes, WorldTypes

\* The types of what fpm_pctl_action_next sends and remembers.
LEMMA ActionNextTypes ==
    ASSUME TypeOK, NEW state, NEW sent, NEW kids, fpm_pctl_action_next(state, sent, kids)
    PROVE  /\ fpm_state' = state /\ fpm_signal_sent' \in {"QUIT", "TERM", "KILL"}
           /\ pm' = pm /\ process_max' = process_max /\ pctl_event' \in BOOLEAN
           /\ pending' \in [Pids -> SUBSET {"QUIT", "TERM", "KILL"}]
<1>1. NextSignal(state, sent) \in {"QUIT", "TERM", "KILL"}
  BY DEF NextSignal
<1>2. pending' \in [Pids -> SUBSET {"QUIT", "TERM", "KILL"}]
  <2>1. pending' = [p \in Pids |-> IF p \in kids /\ proc[p] \in Live
                                  THEN pending[p] \cup {NextSignal(state, sent)} ELSE pending[p]]
    BY DEF fpm_pctl_action_next, fpm_pctl_kill_all
  <2>2. QED
    BY <1>1, <2>1 DEF TypeOK
<1>3. pctl_event' \in BOOLEAN
  BY Zenon DEF fpm_pctl_action_next
<1>4. QED
  BY <1>1, <1>2, <1>3 DEF fpm_pctl_action_next

\* A step of the master in which it exits, or re-executes itself.
LEMMA LastActionTypes ==
    ASSUME TypeOK, NEW state, fpm_pctl_action_last(state),
           children' \subseteq Pids, age' \in [Pids -> Nat], scoreboard_i' \in [Pids -> Slots],
           idle_kill' \in [Pids -> BOOLEAN], in_shutdown' = in_shutdown,
           proc' \in [Pids -> Live \cup {"none", "zombie"}], pending' = pending,
           status' \in [Pids -> {"exit", "TERM", "KILL", "SEGV"}],
           target' \in Nat, back' \in {"boot", "loop", "bury"},
           backlog' = backlog, connections' = connections, forkFailures' \in Nat,
           faults' = faults, commands' = commands
    PROVE  TypeOK'
<1> DEFINE next == IF state = "reloading" THEN "boot" ELSE "exited"
<1>1. Forgotten(next)
  BY DEF fpm_pctl_action_last
<1>2. next \in {"boot", "exited"}
  OBVIOUS
<1> HIDE DEF next
<1>3. /\ master' = next /\ pm' \in Styles /\ process_max' \in Limits
      /\ fpm_state' = "normal" /\ fpm_signal_sent' = ""
      /\ pctl_event' \in BOOLEAN /\ children_bury_timer' \in BOOLEAN
      /\ idle_spawn_rate' \in 1 .. MaxRate /\ ondemand_event' \in BOOLEAN
      /\ used' = {} /\ free_proc' \in Slots
      /\ request_stage' \in [Slots -> {"creating", "accepting", "busy", "finished"}]
      /\ sigchld' \in BOOLEAN /\ sp' \in Seq({"T", "Q", "2"})
  BY <1>1, ForgottenTypes
<1>4. FlagTypes'
  BY <1>3 DEF TypeOK, FlagTypes
<1>5. MasterTypes'
  BY <1>2, <1>3 DEF MasterTypes
<1>6. ListTypes'
  BY <1>3 DEF ListTypes
<1>7. ProcTypes'
  BY <1>3 DEF TypeOK, ProcTypes
<1>8. WorldTypes'
  BY <1>3 DEF TypeOK, WorldTypes
<1>9. QED
  BY <1>4, <1>5, <1>6, <1>7, <1>8, TypesOfNext

\* How many children idle server maintenance asks for.
LEMMA ChildrenToForkFits ==
    ASSUME TypeOK, "dynamic" \in Styles, running_children < pm_max_children,
           NEW idle \in Nat, idle < pm_min_spare_servers
    PROVE  ChildrenToFork(idle) \in 1 .. pm_max_children - running_children
<1>1. running_children \in Nat
  BY CountFacts DEF TypeOK, running_children
<1>2. pm_min_spare_servers \in Nat /\ pm_max_children \in Nat
  BY FpmAssumption
<1>3. idle_spawn_rate \in Nat \ {0}
  <2>1. idle_spawn_rate \in 1 .. MaxRate
    BY DEF TypeOK
  <2>2. QED
    BY <2>1, FpmAssumption DEF MaxRate
<1>4. QED
  BY <1>1, <1>2, <1>3 DEF ChildrenToFork

\* The two branches of idle server maintenance and of its ondemand counterpart.
LEMMA MaintenanceTypes ==
    ASSUME TypeOK, fpm_pctl_perform_idle_server_maintenance
    PROVE  /\ idle_kill' \in [Pids -> BOOLEAN]
           /\ pending' \in [Pids -> SUBSET {"QUIT", "TERM", "KILL"}]
           /\ master' \in {"loop", "make"} /\ back' \in {"boot", "loop", "bury"}
           /\ target' \in Nat /\ idle_spawn_rate' \in 1 .. MaxRate
<1> USE DEF making
<1>0. 1 \in 1 .. MaxRate
  BY FpmAssumption DEF MaxRate
<1>t. /\ pm \in Styles /\ children \subseteq Pids /\ idle_kill \in [Pids -> BOOLEAN]
      /\ pending \in [Pids -> SUBSET {"QUIT", "TERM", "KILL"}]
      /\ target \in Nat /\ back \in {"boot", "loop", "bury"} /\ idle_spawn_rate \in 1 .. MaxRate
  BY DEF TypeOK
<1>m. /\ master = "loop"
      /\ \/ pm = "dynamic" /\ DynamicMaintenance
         \/ pm = "ondemand" /\ OndemandMaintenance
  BY DEF fpm_pctl_perform_idle_server_maintenance
<1>1. ASSUME NEW p \in children, fpm_pctl_kill_idle_child(p)
      PROVE  /\ idle_kill' \in [Pids -> BOOLEAN]
             /\ pending' \in [Pids -> SUBSET {"QUIT", "TERM", "KILL"}]
  <2>1. idle_kill' \in [Pids -> BOOLEAN]
    <3>1. idle_kill' = idle_kill \/ idle_kill' = [idle_kill EXCEPT ![p] = TRUE]
      BY <1>1, Zenon DEF fpm_pctl_kill_idle_child
    <3>2. QED
      BY <1>t, <3>1
  <2>2. PICK sig \in {"QUIT", "KILL"} : Send(p, sig)
    BY <1>1 DEF fpm_pctl_kill_idle_child
  <2>3. QED
    BY <1>t, <2>1, <2>2 DEF Send
<1>2. CASE OndemandMaintenance
  BY <1>1, <1>2, <1>t, <1>m DEF OndemandMaintenance
<1>3. CASE pm = "dynamic" /\ DynamicMaintenance
  <2> DEFINE idle == Cardinality(IdleChildren)
  <2>1. idle \in Nat /\ running_children \in Nat
    BY <1>t, CountFacts DEF IdleChildren, running_children
  <2> HIDE DEF idle
  <2>2. CASE /\ \E p \in children : LastIdle(p) /\ fpm_pctl_kill_idle_child(p)
             /\ idle_spawn_rate' = 1
             /\ UNCHANGED <<master, making>>
    BY <1>0, <1>1, <1>t, <1>m, <2>2
  <2>3. CASE /\ idle < pm_min_spare_servers
             /\ running_children < pm_max_children
             /\ Make(running_children + ChildrenToFork(idle), "loop")
             /\ idle_spawn_rate' = IF idle_spawn_rate < pm_max_spawn_rate
                                   THEN idle_spawn_rate * 2 ELSE idle_spawn_rate
             /\ UNCHANGED <<idle_kill, pending>>
    <3>1. ChildrenToFork(idle) \in 1 .. pm_max_children - running_children
      <4>1. "dynamic" \in Styles
        BY <1>3, <1>t
      <4>2. QED
        BY <2>1, <2>3, <4>1, ChildrenToForkFits
    <3>2. target' \in Nat /\ master' = "make" /\ back' = "loop"
      <4>1. ChildrenToFork(idle) \in Nat
        BY <2>1, <3>1, FpmAssumption
      <4>2. QED
        BY <2>1, <2>3, <4>1 DEF Make
    <3>3. idle_spawn_rate' \in 1 .. MaxRate
      <4>1. idle_spawn_rate \in Nat \ {0} /\ MaxRate \in Nat /\ pm_max_spawn_rate \in Nat \ {0}
        BY <1>t, FpmAssumption DEF MaxRate
      <4>2. idle_spawn_rate < pm_max_spawn_rate => idle_spawn_rate * 2 <= MaxRate
        BY <4>1 DEF MaxRate
      <4>3. QED
        BY <1>t, <2>3, <4>1, <4>2
    <3>4. QED
      BY <1>t, <2>3, <3>2, <3>3
  <2>4. CASE idle_spawn_rate' = 1 /\ UNCHANGED <<master, making, idle_kill, pending>>
    BY <1>0, <1>t, <1>m, <2>4
  <2>5. QED
    BY <1>3, <2>2, <2>3, <2>4 DEF DynamicMaintenance, idle
<1>4. QED
  BY <1>2, <1>3, <1>m

\* Type correctness of the handlers, the loops, the children and the world.
THEOREM TypeCorrect == Spec => []TypeOK
<1> USE FpmAssumption
<1>1. Init => TypeOK
  <2> SUFFICES ASSUME Init PROVE TypeOK
    OBVIOUS
  <2>1. 1 \in 1 .. MaxRate /\ 0 \in Slots
    BY DEF MaxRate, Slots
  <2>2. sp \in Seq({"T", "Q", "2"})
    <3>1. sp = <<>>
      BY DEF Init
    <3>2. QED
      BY <3>1
  <2>3. QED
    BY <2>1, <2>2 DEF Init, TypeOK, Live
<1>2. TypeOK /\ [Next]_vars => TypeOK'
  <2> SUFFICES ASSUME TypeOK, [Next]_vars PROVE TypeOK'
    OBVIOUS
  <2>0. FlagTypes /\ MasterTypes /\ ListTypes /\ ProcTypes /\ WorldTypes
    BY TypeParts
  <2> USE DEF pctl, making, list, scoreboard, inbox, procs, limits, masterVars
  <2>1. CASE UNCHANGED vars
    <3>1. FlagTypes'
      BY <2>0, <2>1 DEF vars, FlagTypes
    <3>2. MasterTypes'
      BY <2>0, <2>1 DEF vars, MasterTypes
    <3>3. ListTypes'
      BY <2>0, <2>1 DEF vars, ListTypes
    <3>4. ProcTypes'
      BY <2>0, <2>1 DEF vars, ProcTypes
    <3>5. WorldTypes'
      BY <2>0, <2>1 DEF vars, WorldTypes
    <3>6. QED
      BY <3>1, <3>2, <3>3, <3>4, <3>5, TypesOfNext
  <2>2. CASE fpm_pctl_action
    <3>1. CASE children = {} /\ fpm_pctl_action_last(fpm_state) /\ UNCHANGED pending
      <4>1. UNCHANGED <<making, list, proc, in_shutdown, status, backlog, limits>>
        BY <2>2 DEF fpm_pctl_action
      <4>2. QED
        BY <3>1, <4>1, LastActionTypes DEF TypeOK
    <3>2. CASE /\ fpm_pctl_action_next(fpm_state, fpm_signal_sent, children)
               /\ UNCHANGED <<master, children_bury_timer, idle_spawn_rate, ondemand_event,
                              scoreboard, inbox>>
      <4>0. UNCHANGED <<making, list, proc, in_shutdown, status, backlog, limits>>
        BY <2>2 DEF fpm_pctl_action
      <4>1. /\ fpm_state' = fpm_state /\ fpm_signal_sent' \in {"QUIT", "TERM", "KILL"}
            /\ pm' = pm /\ process_max' = process_max /\ pctl_event' \in BOOLEAN
            /\ pending' \in [Pids -> SUBSET {"QUIT", "TERM", "KILL"}]
        BY <3>2, ActionNextTypes
      <4>2. FlagTypes'
        BY <2>0, <3>2, <4>0, <4>1 DEF FlagTypes
      <4>3. MasterTypes'
        BY <2>0, <3>2, <4>0, <4>1 DEF MasterTypes
      <4>4. ListTypes' /\ WorldTypes'
        BY <2>0, <3>2, <4>0 DEF ListTypes, WorldTypes
      <4>5. ProcTypes'
        BY <2>0, <4>0, <4>1 DEF ProcTypes
      <4>6. QED
        BY <4>2, <4>3, <4>4, <4>5, TypesOfNext
    <3>3. QED
      BY <2>2, <3>1, <3>2 DEF fpm_pctl_action
  <2>3. CASE fpm_got_signal
    <3> DEFINE new == StateOf(Head(sp))
    <3>0. /\ UNCHANGED <<making, list, proc, in_shutdown, status, backlog, limits>>
          /\ sp # <<>>
      BY <2>3 DEF fpm_got_signal
    <3>1. Head(sp) \in {"T", "Q", "2"} /\ Tail(sp) \in Seq({"T", "Q", "2"})
      BY <2>0, <3>0 DEF WorldTypes
    <3>2. new \in {"reloading", "finishing", "terminating"}
      BY <3>1 DEF StateOf
    <3> HIDE DEF new
    <3>3. CASE /\ sp' = Tail(sp)
               /\ UNCHANGED <<master, pctl, children_bury_timer, idle_spawn_rate, ondemand_event,
                              scoreboard, sigchld, pending>>
      <4>1. FlagTypes' /\ MasterTypes'
        BY <2>0, <3>0, <3>3, ZenonT(60) DEF FlagTypes, MasterTypes
      <4>2. ListTypes' /\ ProcTypes'
        BY <2>0, <3>0, <3>3 DEF ListTypes, ProcTypes
      <4>3. WorldTypes'
        BY <2>0, <3>0, <3>1, <3>3 DEF WorldTypes
      <4>4. QED
        BY <4>1, <4>2, <4>3, TypesOfNext
    <3>4. CASE fpm_pctl_action_last(new) /\ UNCHANGED pending
      BY <3>0, <3>4, LastActionTypes DEF TypeOK
    <3>5. CASE /\ sp' = Tail(sp)
               /\ fpm_pctl_action_next(new, "", children)
               /\ UNCHANGED <<master, children_bury_timer, idle_spawn_rate, ondemand_event,
                              scoreboard, sigchld>>
      <4>1. /\ fpm_state' = new /\ fpm_signal_sent' \in {"QUIT", "TERM", "KILL"}
            /\ pm' = pm /\ process_max' = process_max /\ pctl_event' \in BOOLEAN
            /\ pending' \in [Pids -> SUBSET {"QUIT", "TERM", "KILL"}]
        BY <3>5, ActionNextTypes
      <4>2. FlagTypes'
        BY <2>0, <3>0, <3>5, <4>1 DEF FlagTypes
      <4>3. MasterTypes'
        BY <2>0, <3>0, <3>2, <3>5, <4>1 DEF MasterTypes
      <4>4. ListTypes'
        BY <2>0, <3>0, <3>5 DEF ListTypes
      <4>5. ProcTypes' /\ WorldTypes'
        BY <2>0, <3>0, <3>1, <3>5, <4>1 DEF ProcTypes, WorldTypes
      <4>6. QED
        BY <4>2, <4>3, <4>4, <4>5, TypesOfNext
    <3>6. QED
      BY <2>3, <3>3, <3>4, <3>5 DEF fpm_got_signal, new
  <2>4. CASE GotSigchld
    <3>1. FlagTypes'
      BY <2>0, <2>4 DEF GotSigchld, FlagTypes
    <3>2. MasterTypes'
      BY <2>0, <2>4 DEF GotSigchld, MasterTypes
    <3>3. ListTypes'
      BY <2>0, <2>4 DEF GotSigchld, ListTypes
    <3>4. ProcTypes'
      BY <2>0, <2>4 DEF GotSigchld, ProcTypes
    <3>5. WorldTypes'
      BY <2>0, <2>4 DEF GotSigchld, WorldTypes
    <3>6. QED
      BY <3>1, <3>2, <3>3, <3>4, <3>5, TypesOfNext
  <2>5. CASE BuryStart
    BY <2>5, ZenonT(60) DEF BuryStart, TypeOK
  <2>6. CASE fpm_pctl_perform_idle_server_maintenance
    <3>1. UNCHANGED <<pctl, children_bury_timer, ondemand_event, children, age, scoreboard_i,
                      scoreboard, inbox, proc, in_shutdown, status, backlog, limits>>
      BY <2>6 DEF fpm_pctl_perform_idle_server_maintenance
    <3>2. /\ idle_kill' \in [Pids -> BOOLEAN]
          /\ pending' \in [Pids -> SUBSET {"QUIT", "TERM", "KILL"}]
          /\ master' \in {"loop", "make"} /\ back' \in {"boot", "loop", "bury"}
          /\ target' \in Nat /\ idle_spawn_rate' \in 1 .. MaxRate
      BY <2>6, MaintenanceTypes
    <3>3. FlagTypes'
      BY <2>0, <3>1, <3>2 DEF FlagTypes
    <3>4. MasterTypes'
      BY <2>0, <3>1, <3>2 DEF MasterTypes
    <3>5. ListTypes' /\ ProcTypes'
      BY <2>0, <3>1, <3>2 DEF ListTypes, ProcTypes
    <3>6. WorldTypes'
      BY <2>0, <3>1 DEF WorldTypes
    <3>7. QED
      BY <3>3, <3>4, <3>5, <3>6, TypesOfNext
  <2>7. CASE fpm_pctl_on_socket_accept
    <3>1. /\ ondemand_event' = FALSE
          /\ UNCHANGED <<pctl, children_bury_timer, idle_spawn_rate, list, scoreboard, inbox,
                         procs, backlog, limits>>
      BY <2>7 DEF fpm_pctl_on_socket_accept
    <3>2. master' \in {"loop", "make"} /\ target' \in Nat /\ back' \in {"boot", "loop", "bury"}
      <4>1. running_children \in Nat
        BY <2>0, CountFacts DEF ListTypes, running_children
      <4>2. QED
        <5>1. CASE Make(running_children + 1, "loop")
          BY <4>1, <5>1 DEF Make
        <5>2. CASE UNCHANGED <<master, making>>
          BY <2>0, <2>7, <5>2 DEF fpm_pctl_on_socket_accept, MasterTypes
        <5>3. QED
          BY <2>7, <5>1, <5>2 DEF fpm_pctl_on_socket_accept
    <3>3. FlagTypes'
      BY <2>0, <3>1 DEF FlagTypes
    <3>4. MasterTypes'
      BY <2>0, <3>1, <3>2 DEF MasterTypes
    <3>5. ListTypes' /\ ProcTypes' /\ WorldTypes'
      BY <2>0, <3>1 DEF ListTypes, ProcTypes, WorldTypes
    <3>6. QED
      BY <3>3, <3>4, <3>5, TypesOfNext
  <2>8. CASE fpm_children_create_initial
    <3>1. FlagTypes'
      <4>1. ondemand_event' \in BOOLEAN
        <5>1. (backlog > 0) \in BOOLEAN /\ ondemand_event \in BOOLEAN
          BY <2>0 DEF FlagTypes
        <5>2. ondemand_event' = (backlog > 0) \/ ondemand_event' = ondemand_event
          BY <2>8, Zenon DEF fpm_children_create_initial
        <5>3. QED
          BY <5>1, <5>2
      <4>2. UNCHANGED <<pctl, children_bury_timer, list, inbox, procs>>
        BY <2>8 DEF fpm_children_create_initial
      <4>3. QED
        BY <2>0, <4>1, <4>2 DEF FlagTypes
    <3>2. MasterTypes'
      <4>1. CASE pm = "ondemand"
        BY <2>0, <2>8, <4>1 DEF fpm_children_create_initial, MasterTypes
      <4>2. CASE pm # "ondemand"
        <5>1. target' \in {pm_max_children, pm_start_servers} /\ master' = "make" /\ back' = "boot"
          BY <2>8, <4>2 DEF fpm_children_create_initial, Make
        <5>2. UNCHANGED <<pctl, idle_spawn_rate>>
          BY <2>8 DEF fpm_children_create_initial
        <5>3. QED
          <6>1. pm_max_children \in Nat /\ pm_start_servers \in Nat
            OBVIOUS
          <6>2. QED
            BY <2>0, <5>1, <5>2, <6>1 DEF MasterTypes
      <4>3. QED
        BY <4>1, <4>2
    <3>3. ListTypes'
      BY <2>0, <2>8 DEF fpm_children_create_initial, Make, ListTypes
    <3>4. ProcTypes'
      BY <2>0, <2>8 DEF fpm_children_create_initial, Make, ProcTypes
    <3>5. WorldTypes'
      BY <2>0, <2>8 DEF fpm_children_create_initial, Make, WorldTypes
    <3>6. QED
      BY <3>1, <3>2, <3>3, <3>4, <3>5, TypesOfNext
  <2>9. CASE MakeDone
    BY <2>9, ZenonT(60) DEF MakeDone, TypeOK
  <2>10. CASE BuryDone
    BY <2>10, ZenonT(60) DEF BuryDone, TypeOK
  <2>11. ASSUME NEW p \in Pids, Fork(p) PROVE TypeOK'
    <3>1. /\ idle_kill' = [idle_kill EXCEPT ![p] = FALSE] /\ proc' = [proc EXCEPT ![p] = "starting"]
          /\ children' = children \cup {p} /\ used # Slots
          /\ age' = [q \in Pids |-> IF q \in children THEN age[q] + 1 ELSE 0]
          /\ used' = used \cup {FreeSlot}
          /\ scoreboard_i' = [scoreboard_i EXCEPT ![p] = FreeSlot]
          /\ free_proc' = IF FreeSlot + 1 >= pm_max_children THEN 0 ELSE FreeSlot + 1
          /\ UNCHANGED <<master, pctl, children_bury_timer, making, idle_spawn_rate, ondemand_event,
                         request_stage, inbox, in_shutdown, pending, status, backlog, limits>>
      BY <2>11 DEF Fork, fpm_child_link, fpm_scoreboard_proc_alloc
    <3>2. FreeSlot \in Slots
      BY <3>1, FreeSlotIsFree
    <3>3. FlagTypes'
      BY <2>0, <3>1 DEF FlagTypes
    <3>4. MasterTypes' /\ WorldTypes'
      BY <2>0, <3>1 DEF MasterTypes, WorldTypes
    <3>5. ListTypes'
      <4>1. free_proc' \in Slots
        BY <3>1, <3>2 DEF Slots
      <4>2. QED
        BY <2>0, <2>11, <3>1, <3>2, <4>1 DEF ListTypes
    <3>6. ProcTypes'
      BY <2>0, <3>1 DEF ProcTypes, Live
    <3>7. QED
      BY <3>3, <3>4, <3>5, <3>6, TypesOfNext
  <2>12. ASSUME NEW p \in Pids, fpm_children_bury(p) PROVE TypeOK'
    <3> DEFINE kids == children \ {p}
    <3>1. /\ proc' = [proc EXCEPT ![p] = "none"] /\ status' = [status EXCEPT ![p] = "exit"]
          /\ children' = kids /\ master = "bury"
          /\ age' = [q \in Pids |-> IF q = p THEN 0
                                    ELSE IF age[q] > age[p] THEN age[q] - 1 ELSE age[q]]
          /\ idle_kill' = [idle_kill EXCEPT ![p] = FALSE]
          /\ scoreboard_i' = [scoreboard_i EXCEPT ![p] = 0]
          /\ UNCHANGED <<in_shutdown, backlog, limits>>
      BY <2>12 DEF fpm_children_bury, fpm_child_unlink
    <3>2. /\ proc' \in [Pids -> Live \cup {"none", "zombie"}]
          /\ status' \in [Pids -> {"exit", "TERM", "KILL", "SEGV"}]
      BY <2>0, <3>1 DEF ProcTypes
    <3>3. /\ children' \subseteq Pids /\ age' \in [Pids -> Nat]
          /\ scoreboard_i' \in [Pids -> Slots] /\ scoreboard_i[p] \in Slots
      <4>1. 0 \in Slots
        BY DEF Slots
      <4>2. QED
        BY <2>0, <2>12, <3>1, <4>1 DEF ListTypes
    <3>4. idle_kill' \in [Pids -> BOOLEAN]
      BY <2>0, <3>1 DEF FlagTypes
    <3>5. ASSUME NEW state, fpm_pctl_action_last(state), UNCHANGED <<making, pending>>
          PROVE  TypeOK'
      BY <3>1, <3>2, <3>3, <3>4, <3>5, LastActionTypes DEF TypeOK
    <3>6. ASSUME fpm_scoreboard_proc_free(scoreboard_i[p]),
                 UNCHANGED <<children_bury_timer, idle_spawn_rate, ondemand_event, inbox>>,
                 pctl_event' \in BOOLEAN, MasterTypes',
                 pending' \in [Pids -> SUBSET {"QUIT", "TERM", "KILL"}]
          PROVE  TypeOK'
      <4>1. FlagTypes'
        BY <2>0, <3>1, <3>4, <3>6 DEF FlagTypes
      <4>2. ListTypes'
        BY <2>0, <2>12, <3>3, <3>6 DEF ListTypes, fpm_scoreboard_proc_free
      <4>3. ProcTypes' /\ WorldTypes'
        BY <2>0, <3>1, <3>2, <3>6 DEF ProcTypes, WorldTypes
      <4>4. QED
        BY <3>6, <4>1, <4>2, <4>3, TypesOfNext
    <3>7. CASE /\ fpm_pctl_action_next("reloading", "", kids)
               /\ fpm_scoreboard_proc_free(scoreboard_i[p])
               /\ UNCHANGED <<master, making, children_bury_timer, idle_spawn_rate,
                              ondemand_event, inbox>>
      <4>1. /\ fpm_state' = "reloading" /\ fpm_signal_sent' \in {"QUIT", "TERM", "KILL"}
            /\ pm' = pm /\ process_max' = process_max /\ pctl_event' \in BOOLEAN
            /\ pending' \in [Pids -> SUBSET {"QUIT", "TERM", "KILL"}]
        BY <3>7, ActionNextTypes
      <4>2. MasterTypes'
        BY <2>0, <3>7, <4>1 DEF MasterTypes
      <4>3. QED
        BY <3>6, <3>7, <4>1, <4>2
    <3>8. CASE /\ fpm_scoreboard_proc_free(scoreboard_i[p])
               /\ IF RestartChild(p) THEN Make(MakeMax(Cardinality(kids), 1), "bury")
                                     ELSE UNCHANGED <<master, making>>
               /\ UNCHANGED <<pctl, children_bury_timer, idle_spawn_rate, ondemand_event, inbox,
                              pending>>
      <4>1. Cardinality(kids) \in Nat
        BY <3>1, <3>3, CountFacts
      <4> HIDE DEF kids
      <4>2. MakeMax(Cardinality(kids), 1) \in Nat
        BY <4>1 DEF MakeMax
      <4>3. MasterTypes'
        BY <2>0, <3>8, <4>2 DEF MasterTypes, Make
      <4>4. pctl_event' \in BOOLEAN /\ pending' \in [Pids -> SUBSET {"QUIT", "TERM", "KILL"}]
        BY <2>0, <3>8 DEF FlagTypes, ProcTypes
      <4>5. QED
        BY <3>6, <3>8, <4>3, <4>4
    <3>9. QED
      BY <2>12, <3>5, <3>7, <3>8 DEF fpm_children_bury
  <2>13. CASE ForkFails
    <3>1. /\ target' = 0 /\ back' = "loop" /\ forkFailures' \in Nat /\ used # Slots
          /\ UNCHANGED <<list, proc, in_shutdown, status, backlog, connections, faults, commands>>
      <4>1. forkFailures > 0 /\ forkFailures' = forkFailures - 1 /\ forkFailures \in Nat
        BY <2>0, <2>13 DEF ForkFails, WorldTypes
      <4>2. /\ target' = 0 /\ back' = "loop" /\ used # Slots
            /\ UNCHANGED <<list, proc, in_shutdown, status, backlog, connections, faults, commands>>
        BY <2>13 DEF ForkFails
      <4>3. forkFailures' \in Nat
        BY <4>1
      <4>4. QED
        BY <4>2, <4>3
    <3>2. FreeSlot \in Slots
      BY <3>1, FreeSlotIsFree
    <3>3. ASSUME master' \in {"boot", "loop", "bury"}, free_proc' \in {free_proc, FreeSlot},
                 fpm_state' \in {fpm_state, "terminating"},
                 fpm_signal_sent' \in {fpm_signal_sent, "QUIT", "TERM", "KILL"},
                 pctl_event' \in BOOLEAN,
                 pending' \in [Pids -> SUBSET {"QUIT", "TERM", "KILL"}],
                 UNCHANGED <<pm, process_max, children_bury_timer, idle_spawn_rate,
                             ondemand_event, used, request_stage, inbox>>
          PROVE  TypeOK'
      <4>1. FlagTypes'
        BY <2>0, <3>1, <3>3 DEF FlagTypes
      <4>2. MasterTypes'
        BY <2>0, <3>1, <3>3 DEF MasterTypes
      <4>3. ListTypes'
        BY <2>0, <3>1, <3>2, <3>3 DEF ListTypes
      <4>4. ProcTypes' /\ WorldTypes'
        BY <2>0, <3>1, <3>3 DEF ProcTypes, WorldTypes
      <4>5. QED
        BY <4>1, <4>2, <4>3, <4>4, TypesOfNext
    <3>4. CASE /\ back # "boot"
               /\ master' = back
               /\ free_proc' \in {free_proc, FreeSlot}
               /\ UNCHANGED <<pctl, children_bury_timer, idle_spawn_rate, ondemand_event, used,
                              request_stage, inbox, pending>>
      BY <2>0, <3>3, <3>4 DEF MasterTypes, FlagTypes, ProcTypes
    <3>5. CASE /\ master' = "loop"
               /\ free_proc' \in {free_proc, FreeSlot}
               /\ fpm_pctl_action_next("terminating", "", children)
               /\ UNCHANGED <<children_bury_timer, idle_spawn_rate, ondemand_event, used,
                              request_stage, inbox>>
      <4>1. /\ fpm_state' = "terminating" /\ fpm_signal_sent' \in {"QUIT", "TERM", "KILL"}
            /\ pm' = pm /\ process_max' = process_max /\ pctl_event' \in BOOLEAN
            /\ pending' \in [Pids -> SUBSET {"QUIT", "TERM", "KILL"}]
        BY <3>5, ActionNextTypes
      <4>2. QED
        BY <3>3, <3>5, <4>1
    <3>6. CASE fpm_pctl_action_last("terminating") /\ UNCHANGED pending
      BY <3>1, <3>6, LastActionTypes DEF TypeOK
    <3>7. QED
      BY <2>13, <3>4, <3>5, <3>6 DEF ForkFails
  <2>14. ASSUME NEW p \in Pids, fpm_request_check_timed_out(p) PROVE TypeOK'
    <3>1. FlagTypes'
      BY <2>0, <2>14 DEF fpm_request_check_timed_out, Send, FlagTypes
    <3>2. MasterTypes'
      BY <2>0, <2>14 DEF fpm_request_check_timed_out, Send, MasterTypes
    <3>3. ListTypes'
      BY <2>0, <2>14 DEF fpm_request_check_timed_out, Send, ListTypes
    <3>4. ProcTypes'
      BY <2>0, <2>14 DEF fpm_request_check_timed_out, Send, ProcTypes
    <3>5. WorldTypes'
      BY <2>0, <2>14 DEF fpm_request_check_timed_out, Send, WorldTypes
    <3>6. QED
      BY <3>1, <3>2, <3>3, <3>4, <3>5, TypesOfNext
  <2>15. ASSUME NEW p \in Pids, ChildStep(p) PROVE TypeOK'
    <3> USE DEF ChildStep, fpm_child_init, EnterAccept, Accept, AcceptFails, Poll, RequestEnd,
        Deliver, Fault
    <3>1. UNCHANGED <<masterVars, ondemand_event, used, free_proc, sp, connections,
                      forkFailures, commands>>
      BY <2>15
    <3>2. FlagTypes'
      BY <2>0, <2>15 DEF Dies, Stage, FlagTypes
    <3>3. MasterTypes'
      BY <2>0, <3>1 DEF MasterTypes
    <3>4. ListTypes'
      BY <2>0, <2>15 DEF Dies, Stage, ListTypes
    <3>5. ProcTypes'
      <4>1. PICK x \in Live \cup {"zombie"} : proc' = [proc EXCEPT ![p] = x]
        BY <2>0, <2>15 DEF Dies, Live, ProcTypes
      <4>2. pending' \in [Pids -> SUBSET {"QUIT", "TERM", "KILL"}]
        BY <2>0, <2>15 DEF Dies, ProcTypes
      <4>3. status' \in [Pids -> {"exit", "TERM", "KILL", "SEGV"}]
        BY <2>0, <2>15 DEF Dies, ProcTypes
      <4>4. QED
        BY <2>0, <4>1, <4>2, <4>3 DEF ProcTypes
    <3>6. WorldTypes'
      BY <2>0, <2>15 DEF Dies, Stage, WorldTypes
    <3>7. QED
      BY <3>2, <3>3, <3>4, <3>5, <3>6, TypesOfNext
  <2>16. CASE Connect
    <3>1. FlagTypes'
      BY <2>0, <2>16 DEF Connect, FlagTypes
    <3>2. MasterTypes'
      BY <2>0, <2>16 DEF Connect, MasterTypes
    <3>3. ListTypes'
      BY <2>0, <2>16 DEF Connect, ListTypes
    <3>4. ProcTypes'
      BY <2>0, <2>16 DEF Connect, ProcTypes
    <3>5. WorldTypes'
      BY <2>0, <2>16 DEF Connect, WorldTypes
    <3>6. QED
      BY <3>1, <3>2, <3>3, <3>4, <3>5, TypesOfNext
  <2>17. ASSUME NEW c \in {"T", "Q", "2"}, sig_handler(c) PROVE TypeOK'
    <3>1. FlagTypes'
      BY <2>0, <2>17 DEF sig_handler, FlagTypes
    <3>2. MasterTypes'
      BY <2>0, <2>17 DEF sig_handler, MasterTypes
    <3>3. ListTypes'
      BY <2>0, <2>17 DEF sig_handler, ListTypes
    <3>4. ProcTypes'
      BY <2>0, <2>17 DEF sig_handler, ProcTypes
    <3>5. WorldTypes'
      BY <2>0, <2>17 DEF sig_handler, WorldTypes
    <3>6. QED
      BY <3>1, <3>2, <3>3, <3>4, <3>5, TypesOfNext
  <2>18. QED
    BY <2>1, <2>2, <2>3, <2>4, <2>5, <2>6, <2>7, <2>8, <2>9, <2>10, <2>11, <2>12, <2>13, <2>14,
       <2>15, <2>16, <2>17 DEF Next, Handlers, Loops
<1>3. QED
  BY <1>1, <1>2, PTL DEF Spec

----------------------------------------------------------------------------
(* The pool invariant.                                                       *)

\* Steps that neither create nor bury a child.
LEMMA NobodyComesOrGoes ==
    ASSUME PoolInvariant, TypeOK',
           UNCHANGED <<children, scoreboard_i, used, pm, process_max>>,
           \A p \in Pids : proc'[p] = "none" <=> proc[p] = "none",
           master' \in {"boot", "exited"} => master \in {"boot", "exited"},
           forkFailures' <= ForkFailures,
           TargetBounded', MarkedChildren', OndemandEvents', StaticPoolFull'
    PROVE  PoolInvariant'
<1>1. NobodyForgotten'
  BY DEF PoolInvariant, NobodyForgotten
<1>2. OwnSlots' /\ Limited'
  BY DEF PoolInvariant, OwnSlots, Limited, running_children
<1>3. QED
  BY <1>1, <1>2 DEF PoolInvariant

\* Among them, those that leave the control of the master alone, or let it go on to
\* another part of its loop or to fpm_children_make.
LEMMA MasterGoesOn ==
    ASSUME PoolInvariant, TypeOK',
           UNCHANGED <<children, scoreboard_i, used, pm, process_max, forkFailures, idle_kill>>,
           \A p \in Pids : proc'[p] = "none" <=> proc[p] = "none",
           fpm_state' = "normal" => fpm_state = "normal",
           ondemand_event' => ondemand_event \/ pm = "ondemand",
           \/ master' = master /\ target' = target
           \/ master \in {"loop", "bury"} /\ master' \in {"loop", "bury"}
           \/ master' = "make" /\ TargetBounded'
    PROVE  PoolInvariant'
<1>1. TargetBounded'
  BY DEF PoolInvariant, TargetBounded
<1>2. MarkedChildren' /\ OndemandEvents'
  BY DEF PoolInvariant, MarkedChildren, OndemandEvents
<1>3. StaticPoolFull'
  BY DEF PoolInvariant, StaticPoolFull, running_children
<1>4. master' \in {"boot", "exited"} => master \in {"boot", "exited"}
  OBVIOUS
<1>5. forkFailures' <= ForkFailures
  BY DEF PoolInvariant
<1>6. QED
  BY <1>1, <1>2, <1>3, <1>4, <1>5, NobodyComesOrGoes

\* The master exits or re-executes itself when nobody is left.
LEMMA LastActionPreserves ==
    ASSUME PoolInvariant, TypeOK', NEW state, fpm_pctl_action_last(state),
           children' = {}, \A p \in Pids : proc'[p] = "none" /\ ~idle_kill'[p],
           forkFailures' <= ForkFailures
    PROVE  PoolInvariant'
<1>1. master' \in {"boot", "exited"} /\ used' = {} /\ ~ondemand_event'
  BY DEF fpm_pctl_action_last, Forgotten
<1>2. NobodyForgotten' /\ OwnSlots'
  BY <1>1 DEF NobodyForgotten, OwnSlots
<1>3. running_children' = 0
  BY FS_EmptySet DEF running_children
<1>4. Limited'
  <2>1. process_max' \in Nat
    BY FpmAssumption DEF TypeOK
  <2>2. QED
    BY <1>3, <2>1, FpmAssumption DEF Limited
<1>5. TargetBounded' /\ MarkedChildren' /\ OndemandEvents' /\ StaticPoolFull'
  BY <1>1 DEF TargetBounded, MarkedChildren, OndemandEvents, StaticPoolFull
<1>6. QED
  BY <1>2, <1>4, <1>5 DEF PoolInvariant

\* Nobody is left: no process and no mark.
LEMMA NobodyLeft ==
    ASSUME PoolInvariant, NEW p \in Pids, children = {}
    PROVE  proc[p] = "none" /\ ~idle_kill[p]
BY DEF PoolInvariant, NobodyForgotten, MarkedChildren

\* fpm_children_make has a free slot for the child it is about to fork.
LEMMA SlotLeft ==
    ASSUME PoolInvariant, master = "make", MakeMore
    PROVE  used # Slots
<1>1. children \in SUBSET Pids /\ target \in Nat /\ target <= pm_max_children
  BY DEF PoolInvariant, TypeOK, TargetBounded
<1>2. IsFiniteSet(children) /\ running_children \in Nat
  BY <1>1, CountFacts DEF running_children
<1>3. running_children < pm_max_children
  BY <1>1, <1>2, FpmAssumption DEF MakeMore
<1>4. IsFiniteSet(Slots) /\ Cardinality(Slots) = pm_max_children
  BY FpmAssumption, FS_Interval DEF Slots
<1>5. Cardinality(children) < Cardinality(Slots)
  BY <1>3, <1>4 DEF running_children
<1>6. PICK i \in Slots : \A p \in children : scoreboard_i[p] # i
  BY <1>2, <1>4, <1>5, TooFewHolders
<1>7. QED
  BY <1>6 DEF PoolInvariant, OwnSlots

\* fork() adds a child.
LEMMA ForkPreserves ==
    ASSUME PoolInvariant, TypeOK', NEW p \in Pids, Fork(p)
    PROVE  PoolInvariant'
<1>1. /\ master = "make" /\ MakeMore /\ proc[p] = "none" /\ used # Slots
      /\ children' = children \cup {p} /\ used' = used \cup {FreeSlot}
      /\ scoreboard_i' = [scoreboard_i EXCEPT ![p] = FreeSlot]
      /\ idle_kill' = [idle_kill EXCEPT ![p] = FALSE]
      /\ proc' = [proc EXCEPT ![p] = "starting"]
      /\ UNCHANGED <<master, pm, process_max, target, forkFailures, ondemand_event>>
  BY DEF Fork, fpm_scoreboard_proc_alloc, fpm_child_link, pctl, making, limits
<1>2. /\ children \in SUBSET Pids /\ scoreboard_i \in [Pids -> Slots] /\ target \in Nat
      /\ proc \in [Pids -> Live \cup {"none", "zombie"}] /\ process_max \in Nat
      /\ idle_kill \in [Pids -> BOOLEAN]
  BY FpmAssumption DEF PoolInvariant, TypeOK
<1>3. FreeSlot \in Slots \ used
  BY <1>1, FreeSlotIsFree DEF PoolInvariant
<1>4. children = {q \in Pids : proc[q] # "none"} /\ p \notin children
  BY <1>1 DEF PoolInvariant, NobodyForgotten
<1>5. NobodyForgotten'
  BY <1>1, <1>2, <1>4 DEF NobodyForgotten
<1>6. OwnSlots'
  <2>1. \A q \in children : scoreboard_i'[q] = scoreboard_i[q] /\ scoreboard_i[q] # FreeSlot
    BY <1>1, <1>2, <1>3, <1>4 DEF PoolInvariant, OwnSlots
  <2>2. scoreboard_i'[p] = FreeSlot
    BY <1>1, <1>2
  <2>3. used' = {scoreboard_i'[q] : q \in children'}
    BY <1>1, <2>1, <2>2 DEF PoolInvariant, OwnSlots
  <2>4. \A q, r \in children' : q # r => scoreboard_i'[q] # scoreboard_i'[r]
    BY <1>1, <2>1, <2>2 DEF PoolInvariant, OwnSlots
  <2>5. QED
    BY <2>3, <2>4 DEF OwnSlots
<1>7. Limited'
  <2>1. running_children \in Nat /\ running_children' = running_children + 1
    BY <1>1, <1>2, <1>4, CountFacts DEF running_children
  <2>2. running_children < target /\ target <= pm_max_children
        /\ (process_max < 1 \/ running_children < process_max)
    BY <1>1 DEF MakeMore, PoolInvariant, TargetBounded
  <2>3. QED
    BY <1>1, <1>2, <2>1, <2>2, FpmAssumption DEF Limited
<1>8. TargetBounded' /\ StaticPoolFull'
  BY <1>1 DEF PoolInvariant, TargetBounded, StaticPoolFull
<1>9. MarkedChildren' /\ OndemandEvents'
  BY <1>1, <1>2 DEF PoolInvariant, MarkedChildren, OndemandEvents
<1>10. QED
  BY <1>1, <1>5, <1>6, <1>7, <1>8, <1>9 DEF PoolInvariant

\* waitpid() returns a child: it is struck off the list, and its slot is free again.
LEMMA BuryPreserves ==
    ASSUME PoolInvariant, TypeOK', NEW p \in Pids, fpm_children_bury(p)
    PROVE  PoolInvariant'
<1> DEFINE kids == children \ {p}
<1>1. /\ master = "bury" /\ proc[p] = "zombie" /\ children' = kids
      /\ proc' = [proc EXCEPT ![p] = "none"]
      /\ idle_kill' = [idle_kill EXCEPT ![p] = FALSE]
      /\ scoreboard_i' = [scoreboard_i EXCEPT ![p] = 0]
      /\ UNCHANGED forkFailures
  BY DEF fpm_children_bury, fpm_child_unlink, limits
<1>2. /\ children \in SUBSET Pids /\ scoreboard_i \in [Pids -> Slots]
      /\ proc \in [Pids -> Live \cup {"none", "zombie"}] /\ process_max \in Nat
      /\ idle_kill \in [Pids -> BOOLEAN]
  BY FpmAssumption DEF PoolInvariant, TypeOK
<1>3. children = {q \in Pids : proc[q] # "none"} /\ p \in children
  BY <1>1 DEF PoolInvariant, NobodyForgotten
<1>4. children' = {q \in Pids : proc'[q] # "none"}
  BY <1>1, <1>2, <1>3
<1>5. forkFailures' <= ForkFailures
  BY <1>1 DEF PoolInvariant
<1>6. \A q \in Pids : idle_kill'[q] => idle_kill[q] /\ q \in children'
  BY <1>1, <1>2 DEF PoolInvariant, MarkedChildren
<1>7. ASSUME NEW state, fpm_pctl_action_last(state), kids = {}
      PROVE  PoolInvariant'
  <2>1. \A q \in Pids : proc'[q] = "none" /\ ~idle_kill'[q]
    BY <1>1, <1>4, <1>6, <1>7
  <2>2. QED
    BY <1>1, <1>5, <1>7, <2>1, LastActionPreserves
<1>8. ASSUME fpm_scoreboard_proc_free(scoreboard_i[p]), master' \in {"bury", "make"},
             UNCHANGED <<pm, process_max, ondemand_event>>, TargetBounded', StaticPoolFull'
      PROVE  PoolInvariant'
  <2>1. NobodyForgotten'
    BY <1>4, <1>8 DEF NobodyForgotten
  <2>2. OwnSlots'
    <3>1. used' = used \ {scoreboard_i[p]}
      BY <1>8 DEF fpm_scoreboard_proc_free
    <3>2. \A q \in kids : scoreboard_i'[q] = scoreboard_i[q]
      BY <1>1, <1>2
    <3>3. \A q \in kids : scoreboard_i[q] # scoreboard_i[p]
      BY <1>3 DEF PoolInvariant, OwnSlots
    <3>4. used' = {scoreboard_i'[q] : q \in children'}
      BY <1>1, <1>3, <3>1, <3>2, <3>3 DEF PoolInvariant, OwnSlots
    <3>5. QED
      BY <1>1, <3>2, <3>4 DEF PoolInvariant, OwnSlots
  <2>3. Limited'
    <3>1. running_children \in Nat /\ running_children' = running_children - 1
      BY <1>1, <1>2, <1>3, CountFacts DEF running_children
    <3>2. QED
      BY <1>2, <1>8, <3>1, FpmAssumption DEF PoolInvariant, Limited
  <2>4. MarkedChildren' /\ OndemandEvents'
    BY <1>6, <1>8 DEF PoolInvariant, MarkedChildren, OndemandEvents
  <2>5. QED
    BY <1>5, <1>8, <2>1, <2>2, <2>3, <2>4 DEF PoolInvariant
<1>9. CASE /\ fpm_pctl_action_next("reloading", "", kids)
           /\ fpm_scoreboard_proc_free(scoreboard_i[p])
           /\ UNCHANGED <<master, making, ondemand_event>>
  <2>1. fpm_state' = "reloading" /\ UNCHANGED <<pm, process_max>> /\ master' = "bury"
    BY <1>1, <1>9 DEF fpm_pctl_action_next
  <2>2. TargetBounded' /\ StaticPoolFull'
    BY <2>1 DEF TargetBounded, StaticPoolFull
  <2>3. QED
    BY <1>8, <1>9, <2>1, <2>2
<1>10. CASE /\ fpm_scoreboard_proc_free(scoreboard_i[p])
            /\ IF RestartChild(p) THEN Make(MakeMax(Cardinality(kids), 1), "bury")
                                  ELSE UNCHANGED <<master, making>>
            /\ UNCHANGED <<pctl, ondemand_event>>
  <2>1. UNCHANGED <<pm, process_max>>
    BY <1>10 DEF pctl
  <2>2. CASE Make(MakeMax(Cardinality(kids), 1), "bury")
    <3>1. master' = "make" /\ target' = MakeMax(Cardinality(kids), 1)
      BY <2>2 DEF Make
    <3>2. Cardinality(kids) = running_children - 1 /\ running_children \in Nat
      BY <1>2, <1>3, CountFacts DEF running_children
    <3>3. running_children <= pm_max_children
      BY DEF PoolInvariant, Limited
    <3>4. TargetBounded'
      <4> HIDE DEF kids
      <4> QED BY <2>1, <3>1, <3>2, <3>3, FpmAssumption DEF TargetBounded, MakeMax
    <3>5. StaticPoolFull'
      BY <3>1 DEF StaticPoolFull
    <3>6. QED
      BY <1>8, <1>10, <2>1, <3>1, <3>4, <3>5
  <2>3. CASE ~RestartChild(p) /\ UNCHANGED <<master, making>>
    <3>1. master' = "bury" /\ pm' # "static"
      BY <1>1, <2>1, <2>3 DEF RestartChild, PoolInvariant, MarkedChildren
    <3>2. TargetBounded' /\ StaticPoolFull'
      BY <3>1 DEF TargetBounded, StaticPoolFull
    <3>3. QED
      BY <1>8, <1>10, <2>1, <3>1, <3>2
  <2>4. QED
    BY <1>10, <2>2, <2>3
<1>11. QED
  BY <1>7, <1>9, <1>10 DEF fpm_children_bury, LastChildExited

\* fork() fails.
LEMMA ForkFailsPreserves ==
    ASSUME PoolInvariant, TypeOK', ForkFails
    PROVE  PoolInvariant'
<1>1. /\ forkFailures' = forkFailures - 1 /\ target' = 0
      /\ UNCHANGED <<children, scoreboard_i, idle_kill, proc>>
  BY DEF ForkFails, list
<1>2. forkFailures \in Nat /\ ForkFailures \in Nat /\ forkFailures <= ForkFailures
  BY FpmAssumption DEF PoolInvariant, TypeOK
<1>3. forkFailures' <= ForkFailures /\ forkFailures' # ForkFailures
  BY <1>1, <1>2
<1>4. CASE fpm_pctl_action_last("terminating") /\ children = {}
  BY <1>1, <1>3, <1>4, NobodyLeft, LastActionPreserves
<1>5. CASE master' \in {"loop", "bury"} /\ UNCHANGED <<pm, process_max, used, ondemand_event>>
  <2>1. TargetBounded' /\ MarkedChildren' /\ OndemandEvents' /\ StaticPoolFull'
    BY <1>1, <1>3, <1>5 DEF PoolInvariant, TargetBounded, MarkedChildren, OndemandEvents,
       StaticPoolFull
  <2>2. QED
    BY <1>1, <1>3, <1>5, <2>1, NobodyComesOrGoes
<1>6. QED
  <2>1. back \in {"boot", "loop", "bury"}
    BY DEF PoolInvariant, TypeOK
  <2>2. QED
    BY <1>4, <1>5, <2>1 DEF ForkFails, pctl, fpm_pctl_action_next

\* Idle server maintenance of a dynamic or ondemand pool.
LEMMA MaintenancePreserves ==
    ASSUME PoolInvariant, TypeOK', fpm_pctl_perform_idle_server_maintenance
    PROVE  PoolInvariant'
<1>1. /\ master = "loop" /\ pm # "static"
      /\ UNCHANGED <<pctl, ondemand_event, children, scoreboard_i, scoreboard, proc, limits>>
      /\ \/ pm = "dynamic" /\ DynamicMaintenance
         \/ pm = "ondemand" /\ OndemandMaintenance
  BY DEF fpm_pctl_perform_idle_server_maintenance
<1>2. UNCHANGED <<pm, process_max, used, forkFailures, fpm_state>>
  BY <1>1 DEF pctl, scoreboard, limits
<1>3. children \in SUBSET Pids /\ pm \in Styles /\ idle_kill \in [Pids -> BOOLEAN]
  BY DEF PoolInvariant, TypeOK
<1>4. ASSUME NEW p \in children, fpm_pctl_kill_idle_child(p), UNCHANGED <<master, making>>
      PROVE  PoolInvariant'
  <2>1. \A q \in Pids : idle_kill'[q] => q \in children
    BY <1>3, <1>4 DEF fpm_pctl_kill_idle_child, PoolInvariant, MarkedChildren
  <2>2. MarkedChildren' /\ OndemandEvents'
    BY <1>1, <1>2, <2>1 DEF MarkedChildren, OndemandEvents, PoolInvariant
  <2>3. TargetBounded' /\ StaticPoolFull'
    BY <1>1, <1>2, <1>4 DEF TargetBounded, StaticPoolFull
  <2>4. forkFailures' <= ForkFailures
    BY <1>2 DEF PoolInvariant
  <2>5. QED
    BY <1>1, <1>2, <1>4, <2>2, <2>3, <2>4, NobodyComesOrGoes
<1>5. CASE OndemandMaintenance
  BY <1>4, <1>5 DEF OndemandMaintenance
<1>6. CASE pm = "dynamic" /\ DynamicMaintenance
  <2> DEFINE idle == Cardinality(IdleChildren)
  <2>1. idle \in Nat /\ running_children \in Nat
    BY <1>3, CountFacts DEF IdleChildren, running_children
  <2> HIDE DEF idle
  <2>2. CASE /\ \E p \in children : LastIdle(p) /\ fpm_pctl_kill_idle_child(p)
             /\ UNCHANGED <<master, making>>
    BY <1>4, <2>2
  <2>3. CASE /\ idle < pm_min_spare_servers
             /\ running_children < pm_max_children
             /\ Make(running_children + ChildrenToFork(idle), "loop")
             /\ UNCHANGED idle_kill
    <3>1. ChildrenToFork(idle) \in 1 .. pm_max_children - running_children
      <4>1. "dynamic" \in Styles /\ TypeOK
        BY <1>3, <1>6 DEF PoolInvariant
      <4>2. QED
        BY <2>1, <2>3, <4>1, ChildrenToForkFits
    <3>2. TargetBounded' /\ master' = "make"
      BY <1>1, <1>2, <2>1, <2>3, <3>1, FpmAssumption DEF Make, TargetBounded
    <3>3. QED
      BY <1>1, <1>2, <2>3, <3>2, MasterGoesOn
  <2>4. CASE UNCHANGED <<master, making, idle_kill>>
    BY <1>1, <1>2, <2>4, MasterGoesOn DEF making
  <2>5. QED
    BY <1>6, <2>2, <2>3, <2>4 DEF DynamicMaintenance, idle
<1>7. QED
  BY <1>1, <1>5, <1>6

\* The invariant holds when FPM starts, and every step of the master, of a child and
\* of the world preserves it.
THEOREM PoolInvariantHolds == Spec => []PoolInvariant
<1> USE FpmAssumption
<1>1. Init /\ TypeOK => PoolInvariant
  <2> SUFFICES ASSUME Init, TypeOK PROVE PoolInvariant
    OBVIOUS
  <2>1. running_children = 0 /\ process_max \in Nat
    BY FS_EmptySet DEF Init, running_children
  <2>2. Limited /\ forkFailures <= ForkFailures
    <3>1. forkFailures = ForkFailures
      BY DEF Init
    <3>2. QED
      BY <2>1, <3>1 DEF Limited
  <2>3. NobodyForgotten /\ OwnSlots
    BY DEF Init, NobodyForgotten, OwnSlots
  <2>4. TargetBounded /\ MarkedChildren /\ OndemandEvents /\ StaticPoolFull
    BY DEF Init, TargetBounded, MarkedChildren, OndemandEvents, StaticPoolFull
  <2>5. QED
    BY <2>2, <2>3, <2>4 DEF PoolInvariant
<1>2. PoolInvariant /\ TypeOK' /\ [Next]_vars => PoolInvariant'
  <2> SUFFICES ASSUME PoolInvariant, TypeOK', [Next]_vars PROVE PoolInvariant'
    OBVIOUS
  <2>0. /\ master \in {"boot", "loop", "bury", "make", "exited"} /\ running_children \in Nat
        /\ back \in {"boot", "loop", "bury"} /\ target \in Nat /\ process_max \in Nat
        /\ proc \in [Pids -> Live \cup {"none", "zombie"}]
    BY CountFacts DEF PoolInvariant, TypeOK, running_children
  <2> USE DEF pctl, making, list, scoreboard, inbox, procs, limits, masterVars
  <2>1. CASE UNCHANGED vars
    BY <2>1, MasterGoesOn DEF vars
  <2>2. CASE fpm_pctl_action
    <3>1. CASE children = {} /\ fpm_pctl_action_last(fpm_state)
      <4>1. UNCHANGED <<children, proc, idle_kill, forkFailures>>
        BY <2>2 DEF fpm_pctl_action
      <4>2. forkFailures' <= ForkFailures
        BY <4>1 DEF PoolInvariant
      <4>3. QED
        BY <3>1, <4>1, <4>2, NobodyLeft, LastActionPreserves
    <3>2. CASE /\ fpm_pctl_action_next(fpm_state, fpm_signal_sent, children)
               /\ UNCHANGED <<master, ondemand_event, scoreboard>>
      <4>1. UNCHANGED <<fpm_state, pm, process_max>>
        BY <3>2 DEF fpm_pctl_action_next
      <4>2. UNCHANGED <<making, list, proc, limits>>
        BY <2>2 DEF fpm_pctl_action
      <4>3. QED
        BY <3>2, <4>1, <4>2, MasterGoesOn
    <3>3. QED
      BY <2>2, <3>1, <3>2 DEF fpm_pctl_action
  <2>3. CASE fpm_got_signal
    <3> DEFINE new == StateOf(Head(sp))
    <3>0. UNCHANGED <<making, list, proc, limits>>
      BY <2>3 DEF fpm_got_signal
    <3> HIDE DEF new
    <3>1. CASE UNCHANGED <<master, pctl, ondemand_event, scoreboard>>
      BY <3>0, <3>1, MasterGoesOn
    <3>2. CASE children = {} /\ fpm_pctl_action_last(new)
      <4>1. forkFailures' <= ForkFailures
        BY <3>0 DEF PoolInvariant
      <4>2. QED
        BY <3>0, <3>2, <4>1, NobodyLeft, LastActionPreserves
    <3>3. CASE /\ Overrides(new) /\ fpm_pctl_action_next(new, "", children)
               /\ UNCHANGED <<master, ondemand_event, scoreboard>>
      <4>1. fpm_state' # "normal" /\ UNCHANGED <<pm, process_max>>
        BY <3>3 DEF fpm_pctl_action_next, Overrides
      <4>2. QED
        BY <3>0, <3>3, <4>1, MasterGoesOn
    <3>4. QED
      BY <2>3, <3>1, <3>2, <3>3 DEF fpm_got_signal, new
  <2>4. CASE GotSigchld
    BY <2>4, MasterGoesOn DEF GotSigchld
  <2>5. CASE BuryStart
    BY <2>5, MasterGoesOn DEF BuryStart
  <2>6. CASE fpm_pctl_perform_idle_server_maintenance
    BY <2>6, MaintenancePreserves
  <2>7. CASE fpm_pctl_on_socket_accept
    <3>1. /\ UNCHANGED <<pctl, list, scoreboard, procs, limits>> /\ ~ondemand_event'
          /\ pm = "ondemand"
      BY <2>7 DEF fpm_pctl_on_socket_accept, PoolInvariant, OndemandEvents
    <3>2. CASE UNCHANGED <<master, making>>
      BY <3>1, <3>2, MasterGoesOn
    <3>3. CASE running_children < pm_max_children /\ Make(running_children + 1, "loop")
      <4>1. TargetBounded' /\ master' = "make"
        BY <2>0, <3>1, <3>3 DEF TargetBounded, Make
      <4>2. QED
        BY <3>1, <4>1, MasterGoesOn
    <3>4. QED
      BY <2>7, <3>2, <3>3 DEF fpm_pctl_on_socket_accept
  <2>8. CASE fpm_children_create_initial
    <3>1. /\ UNCHANGED <<pctl, list, scoreboard, procs, limits>>
      BY <2>8 DEF fpm_children_create_initial
    <3>2. CASE pm = "ondemand" /\ master' = "loop"
      <4>1. TargetBounded' /\ MarkedChildren' /\ OndemandEvents' /\ StaticPoolFull'
        BY <3>1, <3>2 DEF PoolInvariant, TargetBounded, MarkedChildren, OndemandEvents,
           StaticPoolFull
      <4>2. forkFailures' <= ForkFailures
        BY <3>1 DEF PoolInvariant
      <4>3. QED
        BY <3>1, <3>2, <4>1, <4>2, NobodyComesOrGoes
    <3>3. CASE /\ Make(IF pm = "static" THEN pm_max_children ELSE pm_start_servers, "boot")
               /\ UNCHANGED ondemand_event
      <4>1. TargetBounded' /\ master' = "make"
        BY <3>1, <3>3 DEF TargetBounded, Make
      <4>2. QED
        BY <3>1, <3>3, <4>1, MasterGoesOn
    <3>4. QED
      BY <2>8, <3>2, <3>3 DEF fpm_children_create_initial
  <2>9. CASE MakeDone
    <3>1. /\ master = "make" /\ ~MakeMore /\ master' \in {"loop", "bury"}
          /\ UNCHANGED <<pctl, ondemand_event, list, scoreboard, procs, limits>>
      BY <2>0, <2>9 DEF MakeDone
    <3>2. TargetBounded' /\ MarkedChildren' /\ OndemandEvents'
      BY <3>1 DEF PoolInvariant, TargetBounded, MarkedChildren, OndemandEvents
    <3>3. StaticPoolFull'
      <4>1. pm = "static" /\ process_max = 0 /\ fpm_state = "normal"
              => running_children >= pm_max_children
        BY <2>0, <3>1 DEF MakeMore, fpm_pctl_can_spawn_children, PoolInvariant, TargetBounded
      <4>2. running_children <= pm_max_children /\ running_children' = running_children
        BY <3>1 DEF PoolInvariant, Limited, running_children
      <4>3. QED
        BY <2>0, <3>1, <4>1, <4>2 DEF StaticPoolFull
    <3>4. forkFailures' <= ForkFailures
      BY <3>1 DEF PoolInvariant
    <3>5. QED
      BY <3>1, <3>2, <3>3, <3>4, NobodyComesOrGoes
  <2>10. CASE BuryDone
    BY <2>10, MasterGoesOn DEF BuryDone
  <2>11. ASSUME NEW p \in Pids, fpm_request_check_timed_out(p) PROVE PoolInvariant'
    BY <2>11, MasterGoesOn DEF fpm_request_check_timed_out
  <2>12. ASSUME NEW p \in Pids, ChildStep(p) PROVE PoolInvariant'
    <3>1. UNCHANGED <<masterVars, ondemand_event, used, forkFailures>>
      BY <2>12 DEF ChildStep, fpm_child_init, EnterAccept, Accept, AcceptFails, Poll, RequestEnd,
         Deliver, Fault
    <3>2. proc[p] \in Live /\ \E x \in Live \cup {"zombie"} : proc' = [proc EXCEPT ![p] = x]
      BY <2>0, <2>12 DEF ChildStep, fpm_child_init, EnterAccept, Accept, AcceptFails, Poll,
         RequestEnd, Deliver, Fault, Dies, Live
    <3>3. \A q \in Pids : proc'[q] = "none" <=> proc[q] = "none"
      BY <2>0, <3>2 DEF Live
    <3>4. QED
      BY <3>1, <3>3, MasterGoesOn
  <2>13. CASE Connect
    BY <2>13, MasterGoesOn DEF Connect
  <2>14. ASSUME NEW c \in {"T", "Q", "2"}, sig_handler(c) PROVE PoolInvariant'
    BY <2>14, MasterGoesOn DEF sig_handler
  <2>15. QED
    BY <2>1, <2>2, <2>3, <2>4, <2>5, <2>6, <2>7, <2>8, <2>9, <2>10, <2>11, <2>12, <2>13, <2>14,
       ForkPreserves, BuryPreserves, ForkFailsPreserves DEF Next, Handlers, Loops
<1>3. QED
  BY <1>1, <1>2, TypeCorrect, PTL DEF Spec

\* The pool never outgrows pm.max_children or process.max, and a static pool is full
\* whenever the master is back in its event loop.
THEOREM PoolStaysBounded == Spec => []PoolBounded
<1>1. PoolInvariant => PoolBounded
  BY DEF PoolInvariant, PoolBounded, Limited, StaticPoolFull
<1>2. QED
  BY <1>1, PoolInvariantHolds, PTL

\* The slots of the scoreboard are those of the children, and there is one for every
\* child that is forked.
THEOREM SlotsNeverLost == Spec => []SlotsMatch
<1>1. PoolInvariant => SlotsMatch
  BY SlotLeft DEF PoolInvariant, OwnSlots, SlotsMatch
<1>2. QED
  BY <1>1, PoolInvariantHolds, PTL

\* The master knows its children, and leaves none behind.
THEOREM NobodyIsForgotten == Spec => []NobodyForgotten
<1>1. PoolInvariant => NobodyForgotten
  BY DEF PoolInvariant
<1>2. QED
  BY <1>1, PoolInvariantHolds, PTL
============================================================================
