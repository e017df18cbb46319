----------------------------- MODULE MCListener -----------------------------
(* Model values and user programs for the runs of Listener.                *)
EXTENDS Listener, TLC

CONSTANTS c1, c2, d1, d2

\* c1 owns the listener, c2 starts it and registers handlers, and handlers do
\* all a handler may.
MCDisciplined ==
    (c1 :> Methods) @@ (c2 :> {"start", "add_handler", "remove_handler"})
    @@ [d \in {d1, d2} |-> Methods \ {"stop"}]

\* Exactly one rule of Discipline is broken in each of the others.
MCTwoStoppers == (c1 :> {"start", "stop"}) @@ (c2 :> {"stop"}) @@ (d1 :> {})

MCHandlerStops == (c1 :> {"start", "add_handler"}) @@ (d1 :> {"stop"})

MCRemoves == (c1 :> {"start", "add_handler", "remove_handler"}) @@ (d1 :> {})

\* Every method from everywhere, except stop() from a handler.
MCAnyProgram == [c \in {c1, c2} |-> Methods] @@ [d \in {d1, d2} |-> Methods \ {"stop"}]

\* The dispatchers are alike in MCAnyProgram.
MCSymmetry == Permutations({d1, d2})

=============================================================================
