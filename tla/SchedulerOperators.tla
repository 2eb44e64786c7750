------------------------- MODULE SchedulerOperators -------------------------
(***************************************************************************)
(* Scheduler with four kinds of operators, for its liveness:                *)
(*   resuming    pauses the session at any moments and resumes it           *)
(*   stepping    pauses it, sets breakpoints, and answers stops by step()   *)
(*   cancelling  may use every control but pause(), which would clear the   *)
(*               event that cancel() has set                                *)
(*   any         uses every control                                         *)
(* granted is a history variable: step() was called since the last node was *)
(* dispatched under a budget.                                               *)
(***************************************************************************)
EXTENDS Scheduler

VARIABLES operator, granted

Uses(control) ==
    control \in CASE operator = "resuming" -> {"pause", "resume"}
                   [] operator = "stepping" -> {"pause", "step", "break"}
                   [] operator = "cancelling" -> Controls \ {"pause"}
                   [] operator = "any" -> Controls

OperatorInit ==
    /\ Init
    /\ operator \in {"resuming", "stepping", "cancelling", "any"}
    /\ granted = FALSE

GrantStep == Uses("step") /\ Step /\ granted' = TRUE

UseGrant == Dispatch /\ granted' = (granted /\ budget = Unlimited)

OtherStep ==
    /\ \/ Approve
       \/ Uses("pause") /\ Pause
       \/ Uses("resume") /\ Resume
       \/ Uses("cancel") /\ Cancel
       \/ Uses("break") /\ \E n \in Breakable : AddBreakpoint(n)
       \/ Uses("clear_break") /\ \E n \in Breakable : RemoveBreakpoint(n)
       \/ \E n \in Nodes : Complete(n)
       \/ RunStep /\ dispatchIndex' = dispatchIndex
       \/ Fault
    /\ UNCHANGED granted

OperatorNext == (GrantStep \/ UseGrant \/ OtherStep) /\ UNCHANGED operator

\* A resuming operator leaves no pause for ever, and a stepping one answers
\* every stop; nothing is asked of the others.
OperatorSpec ==
    /\ OperatorInit /\ [][OperatorNext]_<<vars, operator, granted>>
    /\ RunFairness
    /\ SF_vars(operator = "resuming" /\ Resume)
    /\ SF_vars(operator = "stepping" /\ Step)
-----------------------------------------------------------------------------
(* Properties *)

\* A started session ends, whatever the moments at which it is controlled: one
\* that is paused and resumed, one that is debugged with breakpoints, pauses and
\* steps, and one that is cancelled, from every position, also when a breakpoint
\* or a spent step budget has paused it, with no resume() needed.  No wake-up is
\* lost between the gate, the dispatch pass and the two waits
\* (orchestration.py:107, :121, :154).
SessionsFinish ==
    /\ operator \in {"resuming", "stepping"} => <>(pc \in Ended)
    /\ operator = "cancelling" => (cancelled ~> pc \in Ended)

\* Under a budget every dispatch has a step() of its own, whatever else is
\* called, finishes or is blocked in between (orchestration.py:87).
EachDispatchWasStepped ==
    [][budget # Unlimited /\ dispatchIndex' > dispatchIndex => granted]_<<vars, operator, granted>>

\* No agent is started that its operator has not let through: one step() is one
\* dispatch, and cancel() is the last word.
DispatchesAreControlled == EachDispatchWasStepped /\ CancelStopsDispatch
=============================================================================
