-------------------------- MODULE ListenerService --------------------------
(***************************************************************************)
(* What CIMIndicationListener promises, without its locks and threads of   *)
(* control: a service that opens and closes, that handles one indication   *)
(* at a time while it is open, and that closes only when none is handled.  *)
(***************************************************************************)
CONSTANT Dispatchers

VARIABLES
    phase,    \* "closed", "open" or "closing"
    handling  \* the dispatchers whose indication is being handled

vars == <<phase, handling>>

Init ==
    /\ phase = "closed"
    /\ handling = {}

Open ==
    /\ phase = "closed"
    /\ phase' = "open"
    /\ UNCHANGED handling

BeginHandling(d) ==
    /\ phase = "open"
    /\ handling = {}
    /\ handling' = {d}
    /\ UNCHANGED phase

EndHandling(d) ==
    /\ handling = {d}
    /\ handling' = {}
    /\ UNCHANGED phase

\* From here on no handling begins: the service has drained.
BeginClosing ==
    /\ phase = "open"
    /\ handling = {}
    /\ phase' = "closing"
    /\ UNCHANGED handling

Close ==
    /\ phase = "closing"
    /\ phase' = "closed"
    /\ UNCHANGED handling

Next ==
    \/ Open \/ BeginClosing \/ Close
    \/ \E d \in Dispatchers : BeginHandling(d) \/ EndHandling(d)

Spec == Init /\ [][Next]_vars

\* A service that begins to close closes, and an indication it took is done.
Fairness ==
    /\ WF_vars(Close)
    /\ WF_vars(\E d \in Dispatchers : EndHandling(d))

FairSpec == Spec /\ Fairness

=============================================================================
