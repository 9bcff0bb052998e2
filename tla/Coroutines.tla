----------------------------- MODULE Coroutines -----------------------------
(***************************************************************************)
(* What PHP's fibers promise: full-stack coroutines.  Control is a stack   *)
(* of coroutines with the main program at the bottom; whoever enters a     *)
(* coroutine gets control back when it suspends or ends, never anybody     *)
(* else; a coroutine ends once; one that is being closed runs to its end   *)
(* without suspending again.  ZendFiber is shown to implement this.        *)
(***************************************************************************)
EXTENDS Sequences

CONSTANTS Fibers,   \* the coroutines
          Main      \* the main program

VARIABLES callstack,  \* who waits for whom, the running coroutine first
          state,      \* what each coroutine can still do
          closing     \* the coroutines that may not suspend any more

cvars == <<callstack, state, closing>>

CInit ==
  /\ callstack = <<Main>>
  /\ state = [f \in Fibers |-> "absent"]
  /\ closing = {}

Create(f) ==
  /\ state[f] = "absent"
  /\ state' = [state EXCEPT ![f] = "new"]
  /\ UNCHANGED <<callstack, closing>>

Enter(f) ==
  /\ state[f] \in {"new", "suspended"}
  /\ state' = [state EXCEPT ![f] = "active"]
  /\ callstack' = <<f>> \o callstack
  /\ closing' \in {closing} \cup (IF state[f] = "suspended" THEN {closing \cup {f}} ELSE {})

Suspend ==
  /\ Head(callstack) \in Fibers \ closing
  /\ state' = [state EXCEPT ![Head(callstack)] = "suspended"]
  /\ callstack' = Tail(callstack)
  /\ UNCHANGED closing

Finish ==
  /\ Head(callstack) \in Fibers
  /\ state' = [state EXCEPT ![Head(callstack)] = "done"]
  /\ callstack' = Tail(callstack)
  /\ UNCHANGED closing

Discard(f) ==
  /\ state[f] \in {"new", "suspended", "done"}
  /\ state' = [state EXCEPT ![f] = "absent"]
  /\ closing' = closing \ {f}
  /\ UNCHANGED callstack

\* A new request starts from nothing, once the main program is alone again.
Reset ==
  /\ callstack = <<Main>>
  /\ callstack' = callstack
  /\ state' = [f \in Fibers |-> "absent"]
  /\ closing' = {}

CNext ==
  \/ \E f \in Fibers : Create(f) \/ Enter(f) \/ Discard(f)
  \/ Suspend
  \/ Finish
  \/ Reset

CSpec == CInit /\ [][CNext]_cvars
=============================================================================
