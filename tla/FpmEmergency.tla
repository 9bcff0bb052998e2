---------------------------- MODULE FpmEmergency ----------------------------
(***************************************************************************)
(* The emergency restart of PHP-FPM: fpm_children_bury keeps the times of  *)
(* the last emergency_restart_threshold children that died of SIGSEGV or   *)
(* SIGBUS in a ring, and reloads FPM when all of them are recent. FpmPool  *)
(* leaves the decision open; this module is about the decision, with the   *)
(* clock of fpm_clock.c, which counts seconds from the boot of the machine.*)
(***************************************************************************)
EXTENDS Integers, Sequences, FiniteSets

CONSTANTS emergency_restart_threshold,
          emergency_restart_interval,
          StartClock,     \* the clock when FPM is started
          MaxClock,       \* bound: the clock
          MaxFaults       \* bound: faults in the life of one master

ASSUME EmergencyAssumption ==
    /\ emergency_restart_threshold \in Nat \ {0}
    /\ emergency_restart_interval \in Nat \ {0}
    /\ StartClock \in Nat /\ MaxClock \in Nat /\ MaxFaults \in Nat

VARIABLES
    now,            \* fpm_clock_get, in seconds
    last_faults,
    fault,
    reloading,      \* whether fpm_state is FPM_PCTL_STATE_RELOADING
    history         \* when children of this master died of a fault; not in the code

vars == <<now, last_faults, fault, reloading, history>>

Ring == 0 .. emergency_restart_threshold - 1

\* fpm_children_init_main: the ring is zeroed.
FreshRing ==
    /\ last_faults = [i \in Ring |-> 0]
    /\ fault = 0 /\ reloading = FALSE /\ history = <<>>

Init == now = StartClock /\ FreshRing

\* Mutant: a fault exactly one interval ago does not count.
RestartConditionStrict(faults) ==
    \A i \in Ring : now - faults[i] < emergency_restart_interval

\* Mutant: the loop starts at the second entry.
RestartConditionSkipsFirst(faults) ==
    \A i \in Ring \ {0} : now - faults[i] <= emergency_restart_interval

\* All the faults of the ring are recent.
restart_condition(faults) ==
    \A i \in Ring : now - faults[i] <= emergency_restart_interval

\* The entry after entry i.
NextFault(i) == IF i + 1 = emergency_restart_threshold THEN 0 ELSE i + 1

\* fpm_children_bury, for a child that died of SIGSEGV or SIGBUS. fpm_pctl ignores
\* the second wish to reload.
BuryFaulted ==
    /\ Len(history) < MaxFaults
    /\ last_faults' = [last_faults EXCEPT ![fault] = now]
    /\ fault' = NextFault(fault)
    /\ history' = Append(history, now)
    /\ reloading' = (reloading \/ restart_condition(last_faults'))
    /\ UNCHANGED now

\* The last child is gone, the master re-executes itself.
fpm_pctl_exec ==
    /\ reloading
    /\ last_faults' = [i \in Ring |-> 0]
    /\ fault' = 0 /\ reloading' = FALSE /\ history' = <<>>
    /\ UNCHANGED now

Tick ==
    /\ now < MaxClock
    /\ now' = now + 1
    /\ UNCHANGED <<last_faults, fault, reloading, history>>

Next == BuryFaulted \/ fpm_pctl_exec \/ Tick

Spec == Init /\ [][Next]_vars

----------------------------------------------------------------------------
(* Properties.                                                              *)

Recent == Cardinality({i \in DOMAIN history :
                          now - history[i] <= emergency_restart_interval})

\* A fault that makes emergency_restart_threshold of them within the interval starts
\* the reload: overwriting the ring loses none that still counts.
ReloadNotMissed ==
    [][Len(history') > Len(history) /\ Recent' >= emergency_restart_threshold
           => reloading']_vars

\* "If this number of child processes exit with SIGSEGV or SIGBUS within the time
\* interval set by emergency_restart_interval then FPM will restart" (php-fpm.conf):
\* a reload starts only after that many. The exception is a machine that has been up
\* for no longer than the interval, on which the zeroes of the fresh ring are recent.
ReloadJustified ==
    [][~reloading /\ reloading' => \/ Recent' >= emergency_restart_threshold
                                  \/ now <= emergency_restart_interval]_vars

============================================================================
