------------------------------ MODULE Dispatcher ------------------------------
(***************************************************************************)
(* What asyncpp::curl::executor promises as a dispatcher, without its       *)
(* worker loop, its locks or libcurl: invocables handed to push() run one   *)
(* at a time in the order of their acceptance, invocables handed to         *)
(* schedule() run some time later, each of them at most once, and nothing   *)
(* is left behind as long as the executor is not being destroyed.           *)
(***************************************************************************)
EXTENDS Naturals, Sequences

CONSTANTS
  Ids,      (* one identity per invocable                                   *)
  None      (* "no invocable"                                               *)

VARIABLES
  pending,  (* accepted by push(), in order, not started                    *)
  timers,   (* accepted by schedule(), not started                          *)
  running,  (* the invocable on the executor thread, or None                *)
  finished, (* the invocables that returned                                 *)
  open      (* the destructor has not begun                                 *)

dvars == <<pending, timers, running, finished, open>>

Waiting == {pending[i] : i \in 1..Len(pending)}

Known == Waiting \cup timers \cup {running} \cup finished

Init ==
  /\ pending = <<>>
  /\ timers = {}
  /\ running = None
  /\ finished = {}
  /\ open = TRUE

Submit(f) ==
  /\ f \notin Known
  /\ pending' = Append(pending, f)
  /\ UNCHANGED <<timers, running, finished, open>>

Defer(f) ==
  /\ f \notin Known
  /\ timers' = timers \cup {f}
  /\ UNCHANGED <<pending, running, finished, open>>

Start ==
  /\ running = None
  /\ pending # <<>>
  /\ running' = Head(pending)
  /\ pending' = Tail(pending)
  /\ UNCHANGED <<timers, finished, open>>

Fire(f) ==
  /\ running = None
  /\ f \in timers
  /\ running' = f
  /\ timers' = timers \ {f}
  /\ UNCHANGED <<pending, finished, open>>

Finish ==
  /\ running # None
  /\ finished' = finished \cup {running}
  /\ running' = None
  /\ UNCHANGED <<pending, timers, open>>

Close ==
  /\ open
  /\ open' = FALSE
  /\ UNCHANGED <<pending, timers, running, finished>>

Next ==
  \/ \E f \in Ids : Submit(f) \/ Defer(f) \/ Fire(f)
  \/ Start
  \/ Finish
  \/ Close

(* While the executor is not being destroyed nothing that was accepted waits *)
(* for ever; what has started always returns.                               *)
Fairness ==
  /\ WF_dvars(open /\ Start)
  /\ WF_dvars(Finish)
  /\ \A f \in Ids : WF_dvars(open /\ Fire(f))

Safe == Init /\ [][Next]_dvars

Spec == Safe /\ Fairness
===============================================================================
