---------------------------- MODULE MCInterview ----------------------------
(* The interviewer a who starts interviews, and b, whose tab is modelled, in any role. *)
EXTENDS Interview

People == [a |-> {"none", "interviewer"}, b |-> {"none", "interviewer", "candidate", "observer"}]

\* Roles that change three times, broadcasts of them lost, a clock that is used twice, and some of
\* both.
Mixes == {[people |-> 3, clock |-> 0, ticks |-> 0, losses |-> 2],
          [people |-> 2, clock |-> 1, ticks |-> 1, losses |-> 0],
          [people |-> 1, clock |-> 2, ticks |-> 2, losses |-> 0]}
=============================================================================
