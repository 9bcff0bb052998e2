------------------------------ MODULE FpmPool ------------------------------
(***************************************************************************)
(* One pool of PHP-FPM: the master process, its children, and the signals  *)
(* and wait statuses between them (sapi/fpm/fpm: fpm_children.c,           *)
(* fpm_process_ctl.c, fpm_signals.c, fpm_events.c, the slots of            *)
(* fpm_scoreboard.c).                                                      *)
(*                                                                         *)
(* The master is an event loop: one handler runs at a time, each an action *)
(* guarded by master = "loop"; the loops of fpm_children_bury and          *)
(* fpm_children_make take one step per iteration, because children move    *)
(* between two of them. Children are processes of their own. Durations are *)
(* left out: an armed timer may go off at any moment.                      *)
(***************************************************************************)
EXTENDS Integers, Sequences, FiniteSets

CONSTANTS Pids,            \* process ids the kernel can give to children
          Styles,                        \* the values the configuration may give to pm
          pm_max_children, pm_start_servers, pm_min_spare_servers,
          pm_max_spare_servers, pm_max_spawn_rate,
          Limits,                        \* the values it may give to process.max
          request_terminate_timeout,     \* whether slow requests are terminated
          track_finished,                \* whether that goes on after the request's end
          emergency_restart,             \* whether an emergency threshold is set
          max_requests,                  \* whether children stop after some requests
          Connections,     \* bound: connections made
          ForkFailures,    \* bound: calls of fork() that fail
          Faults,          \* bound: children that crash or fail
          Commands         \* bound: signals sent to the master

Slots == 0 .. pm_max_children - 1

ASSUME FpmAssumption ==
    /\ IsFiniteSet(Pids)
    /\ Styles \subseteq {"static", "dynamic", "ondemand"}
    /\ pm_max_children \in Nat \ {0} /\ Limits \subseteq Nat
    /\ pm_start_servers \in 0 .. pm_max_children
    /\ "dynamic" \in Styles => /\ pm_min_spare_servers \in 1 .. pm_start_servers
                                /\ pm_max_spare_servers \in pm_start_servers .. pm_max_children
    /\ pm_max_spawn_rate \in Nat \ {0}
    /\ request_terminate_timeout \in BOOLEAN /\ emergency_restart \in BOOLEAN
    /\ track_finished \in BOOLEAN /\ max_requests \in BOOLEAN
    /\ Connections \in Nat /\ ForkFailures \in Nat /\ Faults \in Nat /\ Commands \in Nat

VARIABLES
    \* the master
    master,              \* "boot", "loop", "bury", "make" or "exited"
    pm,                  \* "static", "dynamic" or "ondemand"
    process_max,         \* 0: no limit
    fpm_state,
    fpm_signal_sent,     \* "" or the last signal sent to everybody
    pctl_event,          \* whether the process control timer is armed
    children_bury_timer,
    target, back,        \* fpm_children_make: its max, and where it returns to
    idle_spawn_rate,
    ondemand_event,      \* whether the listening socket has an event to report
    children,            \* wp->children
    age,                 \* position of a child in that list, 0 being the head
    idle_kill,
    scoreboard_i,        \* the slot of a child
    \* the scoreboard
    used, free_proc, request_stage,
    \* the signal socketpair
    sigchld, sp,
    \* the children, as the kernel and as they themselves see them
    proc,                \* "none", a member of Live, or "zombie"
    in_shutdown,
    pending,             \* signals sent and not delivered
    status,              \* how a zombie died
    \* the world
    backlog, connections, forkFailures, faults, commands

pctl       == <<pm, process_max, fpm_state, fpm_signal_sent, pctl_event>>
making     == <<target, back>>
list       == <<children, age, idle_kill, scoreboard_i>>
scoreboard == <<used, free_proc, request_stage>>
inbox      == <<sigchld, sp>>
procs      == <<proc, in_shutdown, pending, status>>
limits     == <<connections, forkFailures, faults, commands>>
vars == <<master, pctl, children_bury_timer, making, idle_spawn_rate, ondemand_event, list,
          scoreboard, inbox, procs, backlog, limits>>

Live == {"starting", "ready", "accepting", "polling", "serving"}
running_children == Cardinality(children)

\* What the master knew is gone: it has exited, or re-executed itself, to read its
\* configuration again. What was left in the socketpair is gone with it.
Forgotten(next) ==
    /\ master' = next /\ pm' \in Styles /\ process_max' \in Limits
    /\ fpm_state' = "normal" /\ fpm_signal_sent' = "" /\ pctl_event' = FALSE
    /\ children_bury_timer' = FALSE
    /\ idle_spawn_rate' = 1 /\ ondemand_event' = FALSE
    /\ used' = {} /\ free_proc' = 0 /\ request_stage' = [i \in Slots |-> "creating"]
    /\ sigchld' = FALSE /\ sp' = <<>>

Init ==
    /\ master = "boot" /\ pm \in Styles /\ process_max \in Limits
    /\ fpm_state = "normal" /\ fpm_signal_sent = "" /\ pctl_event = FALSE
    /\ children_bury_timer = FALSE
    /\ target = 0 /\ back = "loop"
    /\ idle_spawn_rate = 1 /\ ondemand_event = FALSE
    /\ children = {} /\ age = [p \in Pids |-> 0]
    /\ idle_kill = [p \in Pids |-> FALSE] /\ scoreboard_i = [p \in Pids |-> 0]
    /\ used = {} /\ free_proc = 0 /\ request_stage = [i \in Slots |-> "creating"]
    /\ sigchld = FALSE /\ sp = <<>>
    /\ proc = [p \in Pids |-> "none"] /\ in_shutdown = [p \in Pids |-> FALSE]
    /\ pending = [p \in Pids |-> {}] /\ status = [p \in Pids |-> "exit"]
    /\ backlog = 0
    /\ connections = Connections /\ forkFailures = ForkFailures
    /\ faults = Faults /\ commands = Commands

----------------------------------------------------------------------------
(* Process control: fpm_process_ctl.c.                                      *)

Send(p, sig) == pending' = [pending EXCEPT ![p] = IF proc[p] \in Live THEN @ \cup {sig} ELSE @]

\* fpm_pctl_kill_all over the children in kids.
fpm_pctl_kill_all(kids, sig) ==
    pending' = [p \in Pids |-> IF p \in kids /\ proc[p] \in Live THEN pending[p] \cup {sig}
                               ELSE pending[p]]

\* Mutant: the master does not escalate beyond SIGTERM.
NextSignalNeverKills(state, sent) ==
    IF sent = "" /\ state # "terminating" THEN "QUIT" ELSE "TERM"

\* The signal after `sent` in the escalation of fpm_pctl_action_next.
NextSignal(state, sent) ==
    IF sent = "" THEN IF state = "terminating" THEN "TERM" ELSE "QUIT"
    ELSE IF sent = "QUIT" THEN "TERM" ELSE "KILL"

\* fpm_pctl_action_last: re-execute, or exit.
fpm_pctl_action_last(state) == Forgotten(IF state = "reloading" THEN "boot" ELSE "exited")

\* fpm_pctl_action_next with the children in kids still running.
fpm_pctl_action_next(state, sent, kids) ==
    /\ fpm_state' = state /\ UNCHANGED <<pm, process_max>>
    /\ fpm_signal_sent' = NextSignal(state, sent)
    /\ fpm_pctl_kill_all(kids, NextSignal(state, sent))
    /\ pctl_event' = TRUE

\* "check which states can be overridden".
Overrides(new) ==
    \/ fpm_state = "normal" /\ new # "normal"
    \/ fpm_state = "reloading" /\ new \in {"finishing", "terminating"}
    \/ fpm_state = "finishing" /\ new = "terminating"

\* fpm_pctl(FPM_PCTL_STATE_UNSPECIFIED, FPM_PCTL_ACTION_TIMEOUT), from the timer.
fpm_pctl_action ==
    /\ master = "loop" /\ pctl_event
    /\ \/ /\ children = {}
          /\ fpm_pctl_action_last(fpm_state)
          /\ UNCHANGED pending
       \/ /\ children # {}
          /\ fpm_pctl_action_next(fpm_state, fpm_signal_sent, children)
          /\ UNCHANGED <<master, children_bury_timer, idle_spawn_rate, ondemand_event,
                         scoreboard, inbox>>
    /\ UNCHANGED <<making, list, proc, in_shutdown, status, backlog, limits>>

StateOf(c) == CASE c = "T" -> "terminating" [] c = "Q" -> "finishing" [] c = "2" -> "reloading"

\* fpm_got_signal, for one character of the socketpair.
fpm_got_signal ==
    /\ master = "loop" /\ sp # <<>>
    /\ LET new == StateOf(Head(sp)) IN
       \/ /\ ~Overrides(new)
          /\ sp' = Tail(sp)
          /\ UNCHANGED <<master, pctl, children_bury_timer, idle_spawn_rate, ondemand_event,
                         scoreboard, sigchld, pending>>
       \/ /\ Overrides(new) /\ children = {}
          /\ fpm_pctl_action_last(new)
          /\ UNCHANGED pending
       \/ /\ Overrides(new) /\ children # {}
          /\ sp' = Tail(sp)
          /\ fpm_pctl_action_next(new, "", children)
          /\ UNCHANGED <<master, children_bury_timer, idle_spawn_rate, ondemand_event,
                         scoreboard, sigchld>>
    /\ UNCHANGED <<making, list, proc, in_shutdown, status, backlog, limits>>

\* Mutant: the timer is not armed.
GotSigchldUnarmed ==
    /\ master = "loop" /\ sigchld
    /\ sigchld' = FALSE
    /\ UNCHANGED <<master, pctl, children_bury_timer, making, idle_spawn_rate,
                   ondemand_event, list, scoreboard, sp, procs, backlog, limits>>

\* The 'C' of SIGCHLD arms a timer that goes off after the other events.
GotSigchld ==
    /\ master = "loop" /\ sigchld
    /\ sigchld' = FALSE
    /\ children_bury_timer' = TRUE
    /\ UNCHANGED <<master, pctl, making, idle_spawn_rate, ondemand_event, list, scoreboard,
                   sp, procs, backlog, limits>>

----------------------------------------------------------------------------
(* Children: fpm_children.c and the slots of fpm_scoreboard.c.              *)

\* fpm_child_link and fpm_child_unlink: the list is headed by the youngest.
fpm_child_link(p) ==
    /\ children' = children \cup {p}
    /\ age' = [q \in Pids |-> IF q \in children THEN age[q] + 1 ELSE 0]

fpm_child_unlink(p) ==
    /\ children' = children \ {p}
    /\ age' = [q \in Pids |-> IF q = p THEN 0
                              ELSE IF age[q] > age[p] THEN age[q] - 1 ELSE age[q]]
    /\ idle_kill' = [idle_kill EXCEPT ![p] = FALSE]
    /\ scoreboard_i' = [scoreboard_i EXCEPT ![p] = 0]

\* fpm_scoreboard_proc_free of slot i.
fpm_scoreboard_proc_free(i) ==
    /\ used' = used \ {i}
    /\ request_stage' = [request_stage EXCEPT ![i] = "creating"]
    /\ free_proc' = i

\* Mutant: the hint is trusted.
FreeSlotByHint == free_proc

\* fpm_scoreboard_proc_alloc: the slot supposed to be free if it is, else the
\* first free one.
FreeSlot ==
    IF free_proc \notin used THEN free_proc
    ELSE CHOOSE i \in Slots \ used : \A j \in Slots \ used : i <= j

\* Mutant: the hint runs off the end of the array.
ScoreboardProcAllocNoWrap(p, i) ==
    /\ used' = used \cup {i}
    /\ scoreboard_i' = [scoreboard_i EXCEPT ![p] = i]
    /\ free_proc' = i + 1
    /\ UNCHANGED request_stage

fpm_scoreboard_proc_alloc(p, i) ==
    /\ used' = used \cup {i}
    /\ scoreboard_i' = [scoreboard_i EXCEPT ![p] = i]
    /\ free_proc' = IF i + 1 >= pm_max_children THEN 0 ELSE i + 1
    /\ UNCHANGED request_stage

fpm_pctl_can_spawn_children == fpm_state = "normal"

\* Mutant: process.max is not looked at.
MakeMoreUnlimited == fpm_pctl_can_spawn_children /\ running_children < target

\* The condition of the loop in fpm_children_make.
MakeMore ==
    /\ fpm_pctl_can_spawn_children
    /\ running_children < target
    /\ process_max < 1 \/ running_children < process_max

\* fpm_children_make is entered with this max, when nb_to_spawn are wanted and
\* running of the pool's children remain.
MakeMax(running, nb_to_spawn) == IF pm = "static" THEN pm_max_children ELSE running + nb_to_spawn

Make(max, ret) == master' = "make" /\ target' = max /\ back' = ret

\* fork() succeeds. The child starts with its signals blocked.
Fork(p) ==
    /\ master = "make" /\ MakeMore
    /\ proc[p] = "none" /\ used # Slots
    /\ fpm_scoreboard_proc_alloc(p, FreeSlot)
    /\ fpm_child_link(p)
    /\ idle_kill' = [idle_kill EXCEPT ![p] = FALSE]
    /\ proc' = [proc EXCEPT ![p] = "starting"]
    /\ UNCHANGED <<master, pctl, children_bury_timer, making, idle_spawn_rate,
                   ondemand_event, inbox, in_shutdown, pending, status, backlog, limits>>

\* The pipes or fork() fail, and in the latter case the slot is given back. At
\* startup FPM gives up, later it goes on.
ForkFails ==
    /\ master = "make" /\ MakeMore /\ used # Slots
    /\ forkFailures > 0 /\ forkFailures' = forkFailures - 1
    /\ \/ /\ back # "boot"
          /\ master' = back
          /\ free_proc' \in {free_proc, FreeSlot}
          /\ UNCHANGED <<pctl, children_bury_timer, idle_spawn_rate, ondemand_event, used,
                         request_stage, inbox, pending>>
       \/ /\ back = "boot" /\ children # {}
          /\ master' = "loop"
          /\ free_proc' \in {free_proc, FreeSlot}
          /\ fpm_pctl_action_next("terminating", "", children)
          /\ UNCHANGED <<children_bury_timer, idle_spawn_rate, ondemand_event, used,
                         request_stage, inbox>>
       \/ /\ back = "boot" /\ children = {}
          /\ fpm_pctl_action_last("terminating")
          /\ UNCHANGED pending
    /\ target' = 0 /\ back' = "loop"
    /\ UNCHANGED <<list, proc, in_shutdown, status, backlog, connections, faults, commands>>

MakeDone ==
    /\ master = "make" /\ ~MakeMore
    /\ master' = IF back = "boot" THEN "loop" ELSE back
    /\ target' = 0 /\ back' = "loop"
    /\ UNCHANGED <<pctl, children_bury_timer, idle_spawn_rate, ondemand_event, list,
                   scoreboard, inbox, procs, backlog, limits>>

\* fpm_children_create_initial. Registering the socket of an ondemand pool reports
\* the connections that wait already.
fpm_children_create_initial ==
    /\ master = "boot"
    /\ IF pm = "ondemand"
       THEN /\ master' = "loop"
            /\ ondemand_event' = (backlog > 0)
            /\ UNCHANGED making
       ELSE /\ Make(IF pm = "static" THEN pm_max_children ELSE pm_start_servers, "boot")
            /\ UNCHANGED ondemand_event
    /\ UNCHANGED <<pctl, children_bury_timer, idle_spawn_rate, list, scoreboard, inbox,
                   procs, backlog, limits>>

----------------------------------------------------------------------------
(* Burying children: fpm_children_bury.                                     *)

BuryStart ==
    /\ master = "loop" /\ children_bury_timer
    /\ master' = "bury" /\ children_bury_timer' = FALSE
    /\ UNCHANGED <<pctl, making, idle_spawn_rate, ondemand_event, list, scoreboard, inbox,
                   procs, backlog, limits>>

\* Mutant: the children that remain are not counted.
LastChildExitedUncounted(kids) == fpm_state # "normal"

\* fpm_pctl_child_exited calls fpm_pctl_action_last.
LastChildExited(kids) == fpm_state # "normal" /\ kids = {}

\* "if it's been killed because of dynamic process management don't restart it".
RestartChild(p) == ~(idle_kill[p] /\ status[p] = "exit")

\* waitpid() returns p. Its end may be the last one a stopping master waits for, or
\* the fault that triggers an emergency reload; else it is replaced.
fpm_children_bury(p) ==
    /\ master = "bury" /\ proc[p] = "zombie"
    /\ proc' = [proc EXCEPT ![p] = "none"]
    /\ fpm_child_unlink(p)
    /\ LET kids == children \ {p}
           emergency == emergency_restart /\ status[p] = "SEGV" /\ Overrides("reloading") IN
       \/ /\ LastChildExited(kids)
          /\ fpm_pctl_action_last(fpm_state)
          /\ UNCHANGED <<making, pending>>
       \/ /\ emergency /\ kids = {}
          /\ fpm_pctl_action_last("reloading")
          /\ UNCHANGED <<making, pending>>
       \/ /\ emergency /\ kids # {}
          /\ fpm_pctl_action_next("reloading", "", kids)
          /\ fpm_scoreboard_proc_free(scoreboard_i[p])
          /\ UNCHANGED <<master, making, children_bury_timer, idle_spawn_rate,
                         ondemand_event, inbox>>
       \/ /\ ~LastChildExited(kids)
          /\ fpm_scoreboard_proc_free(scoreboard_i[p])
          /\ IF RestartChild(p) THEN Make(MakeMax(Cardinality(kids), 1), "bury")
                                ELSE UNCHANGED <<master, making>>
          /\ UNCHANGED <<pctl, children_bury_timer, idle_spawn_rate, ondemand_event, inbox,
                         pending>>
    /\ status' = [status EXCEPT ![p] = "exit"]
    /\ UNCHANGED <<in_shutdown, backlog, limits>>

\* Mutant: waitpid() is called once per SIGCHLD.
BuryDoneAtOnce ==
    /\ master = "bury"
    /\ master' = "loop"
    /\ UNCHANGED <<pctl, children_bury_timer, making, idle_spawn_rate, ondemand_event, list,
                   scoreboard, inbox, procs, backlog, limits>>

\* waitpid() finds no other dead child.
BuryDone ==
    /\ master = "bury" /\ \A p \in Pids : proc[p] # "zombie"
    /\ master' = "loop"
    /\ UNCHANGED <<pctl, children_bury_timer, making, idle_spawn_rate, ondemand_event, list,
                   scoreboard, inbox, procs, backlog, limits>>

----------------------------------------------------------------------------
(* Idle server maintenance, request timeouts, connections of ondemand pools. *)

fpm_request_is_idle(p) == request_stage[scoreboard_i[p]] = "accepting"
IdleChildren == {p \in children : fpm_request_is_idle(p)}

\* The oldest idle child.
LastIdle(p) == p \in IdleChildren /\ \A q \in IdleChildren : age[q] <= age[p]

\* fpm_pctl_kill_idle_child: ask first, kill the next time.
fpm_pctl_kill_idle_child(p) ==
    IF idle_kill[p]
    THEN Send(p, "KILL") /\ UNCHANGED idle_kill
    ELSE Send(p, "QUIT") /\ idle_kill' = [idle_kill EXCEPT ![p] = TRUE]

\* The number of children to fork: the spawn rate, at most what is missing and at
\* most what the pool has room for.
ChildrenToFork(idle) ==
    LET least(a, b) == IF a <= b THEN a ELSE b
    IN  least(least(idle_spawn_rate, pm_min_spare_servers - idle),
              pm_max_children - running_children)

DynamicMaintenance ==
    LET idle == Cardinality(IdleChildren) IN
    \/ /\ idle > pm_max_spare_servers
       /\ \E p \in children : LastIdle(p) /\ fpm_pctl_kill_idle_child(p)
       /\ idle_spawn_rate' = 1
       /\ UNCHANGED <<master, making>>
    \/ /\ idle <= pm_max_spare_servers /\ idle < pm_min_spare_servers
       /\ running_children < pm_max_children
       /\ Make(running_children + ChildrenToFork(idle), "loop")
       /\ idle_spawn_rate' = IF idle_spawn_rate < pm_max_spawn_rate
                             THEN idle_spawn_rate * 2 ELSE idle_spawn_rate
       /\ UNCHANGED <<idle_kill, pending>>
    \/ /\ idle <= pm_max_spare_servers
       /\ idle >= pm_min_spare_servers \/ running_children >= pm_max_children
       /\ idle_spawn_rate' = 1
       /\ UNCHANGED <<master, making, idle_kill, pending>>

\* The oldest idle child of an ondemand pool may have been idle for long enough.
OndemandMaintenance ==
    /\ \E p \in children : LastIdle(p) /\ fpm_pctl_kill_idle_child(p)
    /\ UNCHANGED <<master, making, idle_spawn_rate>>

fpm_pctl_perform_idle_server_maintenance ==
    /\ master = "loop" /\ fpm_pctl_can_spawn_children
    /\ \/ pm = "dynamic" /\ DynamicMaintenance
       \/ pm = "ondemand" /\ OndemandMaintenance
    /\ UNCHANGED <<pctl, children_bury_timer, ondemand_event, children, age, scoreboard_i,
                   scoreboard, inbox, proc, in_shutdown, status, backlog, limits>>

\* fpm_pctl_check_request_timeout: a request has taken too long, or what the child does
\* after the request's end (request_terminate_timeout_track_finished).
fpm_request_check_timed_out(p) ==
    /\ master = "loop" /\ request_terminate_timeout
    /\ p \in children
    /\ \/ request_stage[scoreboard_i[p]] = "busy"
       \/ request_stage[scoreboard_i[p]] = "finished" /\ track_finished
    /\ Send(p, "TERM")
    /\ UNCHANGED <<master, pctl, children_bury_timer, making, idle_spawn_rate,
                   ondemand_event, list, scoreboard, inbox, proc, in_shutdown, status,
                   backlog, limits>>

\* "if there is at least on idle child, it will handle the connection, stop here".
fpm_pctl_on_socket_accept ==
    /\ master = "loop" /\ ondemand_event
    /\ ondemand_event' = FALSE
    /\ IF running_children < pm_max_children /\ IdleChildren = {}
       THEN Make(running_children + 1, "loop")
       ELSE UNCHANGED <<master, making>>
    /\ UNCHANGED <<pctl, children_bury_timer, idle_spawn_rate, list, scoreboard, inbox,
                   procs, backlog, limits>>

----------------------------------------------------------------------------
(* A child: fpm_child_init, fcgi_accept_request and the hooks of fpm_request.c. *)

masterVars == <<master, pctl, children_bury_timer, making, idle_spawn_rate, list>>

Stage(p, s) == request_stage' = [request_stage EXCEPT ![scoreboard_i[p]] = s]

\* The end of a process: the kernel keeps its status and raises SIGCHLD.
Dies(p, how) ==
    /\ proc' = [proc EXCEPT ![p] = "zombie"]
    /\ status' = [status EXCEPT ![p] = how]
    /\ pending' = [pending EXCEPT ![p] = {}]
    /\ in_shutdown' = [in_shutdown EXCEPT ![p] = FALSE]
    /\ sigchld' = TRUE

\* fpm_child_init: fpm_signals_init_child unblocks the signals, or some step fails.
fpm_child_init(p) ==
    /\ proc[p] = "starting"
    /\ \/ /\ proc' = [proc EXCEPT ![p] = "ready"]
          /\ UNCHANGED <<in_shutdown, pending, status, sigchld, faults>>
       \/ /\ faults > 0 /\ faults' = faults - 1
          /\ Dies(p, "exit")
    /\ UNCHANGED <<masterVars, ondemand_event, scoreboard, sp, backlog, connections,
                   forkFailures, commands>>

\* The top of fcgi_accept_request, with fpm_request_accepting.
EnterAccept(p) ==
    /\ proc[p] = "ready"
    /\ IF in_shutdown[p]
       THEN Dies(p, "exit") /\ UNCHANGED request_stage
       ELSE /\ proc' = [proc EXCEPT ![p] = "accepting"]
            /\ Stage(p, "accepting")
            /\ UNCHANGED <<in_shutdown, pending, status, sigchld>>
    /\ UNCHANGED <<masterVars, ondemand_event, used, free_proc, sp, backlog, limits>>

\* accept() returns a connection.
Accept(p) ==
    /\ proc[p] = "accepting" /\ ~in_shutdown[p] /\ backlog > 0
    /\ backlog' = backlog - 1
    /\ proc' = [proc EXCEPT ![p] = "polling"]
    /\ UNCHANGED <<masterVars, ondemand_event, scoreboard, inbox, in_shutdown, pending,
                   status, limits>>

\* accept() fails on the socket that sig_soft_quit closed, or otherwise: the child leaves
\* its loop and exits.
AcceptFails(p) ==
    /\ proc[p] = "accepting"
    /\ \/ in_shutdown[p] /\ UNCHANGED faults
       \/ ~in_shutdown[p] /\ faults > 0 /\ faults' = faults - 1
    /\ Dies(p, "exit")
    /\ UNCHANGED <<masterVars, ondemand_event, scoreboard, sp, backlog, connections,
                   forkFailures, commands>>

\* The client sends its request (fpm_request_reading_headers), or nothing for too long
\* and is hung up on (fpm_request_finished). Until then the scoreboard shows the child idle.
Poll(p) ==
    /\ proc[p] = "polling"
    /\ \/ proc' = [proc EXCEPT ![p] = "serving"] /\ Stage(p, "busy")
       \/ proc' = [proc EXCEPT ![p] = "ready"] /\ Stage(p, "finished")
    /\ UNCHANGED <<masterVars, ondemand_event, used, free_proc, inbox, in_shutdown, pending,
                   status, backlog, limits>>

\* The request ends (fpm_request_end): on to the next one, or out of the loop once
\* pm.max_requests are served.
RequestEnd(p) ==
    /\ proc[p] = "serving"
    /\ Stage(p, "finished")
    /\ \/ /\ proc' = [proc EXCEPT ![p] = "ready"]
          /\ UNCHANGED <<in_shutdown, pending, status, sigchld>>
       \/ max_requests /\ Dies(p, "exit")
    /\ UNCHANGED <<masterVars, ondemand_event, used, free_proc, sp, backlog, limits>>

\* SIGKILL acts at once, SIGTERM (default action) and SIGQUIT (sig_soft_quit) once
\* they are unblocked.
Deliver(p, sig) ==
    /\ proc[p] \in Live /\ sig \in pending[p]
    /\ \/ sig = "KILL" /\ Dies(p, "KILL")
       \/ sig = "TERM" /\ proc[p] # "starting" /\ Dies(p, "TERM")
       \/ /\ sig = "QUIT" /\ proc[p] # "starting"
          /\ in_shutdown' = [in_shutdown EXCEPT ![p] = TRUE]
          /\ pending' = [pending EXCEPT ![p] = @ \ {"QUIT"}]
          /\ UNCHANGED <<proc, status, sigchld>>
    /\ UNCHANGED <<masterVars, ondemand_event, scoreboard, sp, backlog, limits>>

\* A request runs into a bug: SIGSEGV or SIGBUS.
Fault(p) ==
    /\ proc[p] = "serving" /\ faults > 0 /\ faults' = faults - 1
    /\ Dies(p, "SEGV")
    /\ UNCHANGED <<masterVars, ondemand_event, scoreboard, sp, backlog, connections,
                   forkFailures, commands>>

----------------------------------------------------------------------------
(* The world.                                                               *)

\* A client connects; the socket of an ondemand pool is watched edge-triggered.
Connect ==
    /\ connections > 0 /\ connections' = connections - 1
    /\ master # "exited"
    /\ backlog' = backlog + 1
    /\ ondemand_event' = (pm = "ondemand" /\ master # "boot")
    /\ UNCHANGED <<masterVars, scoreboard, inbox, procs, forkFailures, faults, commands>>

\* sig_handler: SIGTERM (or SIGINT), SIGQUIT and SIGUSR2 reach the master.
sig_handler(c) ==
    /\ commands > 0 /\ commands' = commands - 1
    /\ master \in {"loop", "bury", "make"}
    /\ sp' = Append(sp, c)
    /\ UNCHANGED <<masterVars, ondemand_event, scoreboard, sigchld, procs, backlog,
                   connections, forkFailures, faults>>

----------------------------------------------------------------------------
Handlers ==
    \/ fpm_pctl_action \/ fpm_got_signal \/ GotSigchld \/ BuryStart
    \/ fpm_pctl_perform_idle_server_maintenance \/ fpm_pctl_on_socket_accept

Loops ==
    \/ fpm_children_create_initial \/ MakeDone \/ BuryDone
    \/ \E p \in Pids : Fork(p) \/ fpm_children_bury(p)

ChildStep(p) ==
    \/ fpm_child_init(p) \/ EnterAccept(p) \/ Accept(p) \/ AcceptFails(p)
    \/ Poll(p) \/ RequestEnd(p)
    \/ \E sig \in {"QUIT", "TERM", "KILL"} : Deliver(p, sig)
    \/ Fault(p)

Next ==
    \/ Handlers \/ Loops \/ ForkFails
    \/ \E p \in Pids : fpm_request_check_timed_out(p) \/ ChildStep(p)
    \/ Connect
    \/ \E c \in {"T", "Q", "2"} : sig_handler(c)

Spec == Init /\ [][Next]_vars

(***************************************************************************)
(* Fairness. Every iteration of fpm_event_loop polls the signal socket and *)
(* the listening sockets and fires the timers that are due, so a handler   *)
(* that is due over and over runs: strong fairness. The loops of a handler *)
(* run on. The kernel delivers signals. Nothing is assumed of children,    *)
(* but in ServeSpec, where their scripts end and accept() is not beaten for *)
(* ever by idle server maintenance, which runs once a second.               *)
(***************************************************************************)
MasterFairness ==
    /\ SF_vars(fpm_pctl_action) /\ SF_vars(fpm_got_signal) /\ SF_vars(GotSigchld)
    /\ SF_vars(BuryStart) /\ WF_vars(Loops)

KernelFairness ==
    \A p \in Pids : \A sig \in {"QUIT", "TERM", "KILL"} : WF_vars(Deliver(p, sig))

ChildFairness ==
    \A p \in Pids : /\ WF_vars(fpm_child_init(p)) /\ WF_vars(EnterAccept(p))
                   /\ SF_vars(Accept(p)) /\ WF_vars(AcceptFails(p) /\ in_shutdown[p])
                   /\ WF_vars(Poll(p)) /\ WF_vars(RequestEnd(p))

LiveSpec  == Spec /\ MasterFairness /\ KernelFairness
ServeSpec == /\ LiveSpec /\ ChildFairness
             /\ SF_vars(fpm_pctl_perform_idle_server_maintenance)
             /\ SF_vars(fpm_pctl_on_socket_accept)

----------------------------------------------------------------------------
(* Properties.                                                              *)

\* The spawn rate is compared with pm.max_spawn_rate before it is doubled.
MaxRate == IF pm_max_spawn_rate = 1 THEN 1 ELSE 2 * (pm_max_spawn_rate - 1)

\* Every variable keeps the type of the C field it stands for; the slot indices stay
\* inside the scoreboard's array, and the spawn rate overshoots its maximum by less
\* than its double.
TypeOK ==
    /\ master \in {"boot", "loop", "bury", "make", "exited"}
    /\ pm \in Styles /\ process_max \in Limits
    /\ fpm_state \in {"normal", "reloading", "finishing", "terminating"}
    /\ fpm_signal_sent \in {"", "QUIT", "TERM", "KILL"}
    /\ pctl_event \in BOOLEAN /\ children_bury_timer \in BOOLEAN
    /\ target \in Nat /\ back \in {"boot", "loop", "bury"}
    /\ idle_spawn_rate \in 1 .. MaxRate /\ ondemand_event \in BOOLEAN
    /\ children \subseteq Pids /\ age \in [Pids -> Nat]
    /\ idle_kill \in [Pids -> BOOLEAN] /\ scoreboard_i \in [Pids -> Slots]
    /\ used \subseteq Slots /\ free_proc \in Slots
    /\ request_stage \in [Slots -> {"creating", "accepting", "busy", "finished"}]
    /\ sigchld \in BOOLEAN /\ sp \in Seq({"T", "Q", "2"})
    /\ proc \in [Pids -> Live \cup {"none", "zombie"}]
    /\ in_shutdown \in [Pids -> BOOLEAN]
    /\ pending \in [Pids -> SUBSET {"QUIT", "TERM", "KILL"}]
    /\ status \in [Pids -> {"exit", "TERM", "KILL", "SEGV"}]
    /\ backlog \in Nat
    /\ connections \in Nat /\ forkFailures \in Nat /\ faults \in Nat /\ commands \in Nat

\* However replacement after a death, idle server maintenance and connections of an
\* ondemand pool follow one another, fpm_children_make never takes the pool beyond
\* pm.max_children, nor FPM beyond process.max. Conversely a static pool whose forks
\* succeed, with no process.max in its way, is full whenever the master is back in
\* its event loop: fpm_children_bury makes up for every death, whatever its cause.
\* (After a failed fork the pool stays short until another child dies.)
PoolBounded ==
    /\ running_children <= pm_max_children
    /\ process_max > 0 => running_children <= process_max
    /\ /\ pm = "static" /\ process_max = 0 /\ forkFailures = ForkFailures
       /\ master = "loop" /\ fpm_state = "normal"
       => running_children = pm_max_children

\* Each child has a scoreboard slot of its own, and no slot is lost: the slots in use
\* are the slots of the children. So fpm_children_make finds a free one whenever it
\* wants one, and the "no free scoreboard slot" path is never taken.
SlotsMatch ==
    /\ \A p, q \in children : p # q => scoreboard_i[p] # scoreboard_i[q]
    /\ used = {scoreboard_i[p] : p \in children}
    /\ master = "make" /\ MakeMore => used # Slots

\* The children the master knows are exactly the processes there are, dead ones it has
\* not waited for included; it exits or re-executes itself only when there are none.
NobodyForgotten ==
    /\ children = {p \in Pids : proc[p] # "none"}
    /\ master \in {"boot", "exited"} => children = {}

\* No zombie stays: SIGCHLDs that merge into one, or come while fpm_children_bury runs,
\* hide no death.
DeadAreBuried == \A p \in Pids : proc[p] = "zombie" ~> proc[p] # "zombie"

\* Once FPM is finishing or terminating it exits, and once it is reloading it
\* re-executes itself (or is told to stop), whatever its children do: the escalation of
\* fpm_pctl_action_next reaches even one that hangs with its signals blocked.
StopCompletes ==
    /\ fpm_state \in {"finishing", "terminating"} ~> master = "exited"
    /\ fpm_state = "reloading" ~> fpm_state # "reloading"

\* Connections that wait are accepted, whatever children are killed as idle, crash, or
\* stop after pm.max_requests meanwhile.
ConnectionsServed == backlog > 0 ~> backlog = 0 \/ master = "exited"

\* "if there is at least on idle child, it will handle the connection, stop here"
\* (fpm_pctl_on_socket_accept).
IdleChildHandlesConnection ==
    ondemand_event /\ backlog > 0 /\ IdleChildren # {} ~> backlog = 0 \/ master = "exited"

============================================================================
