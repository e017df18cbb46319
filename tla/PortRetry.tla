------------------------------ MODULE PortRetry ------------------------------
(***************************************************************************)
(* The ports CIMIndicationListener.start(retries) walks through            *)
(* (src/src/obj/lmiwbem_listener.cpp:187-248).  start() keeps the          *)
(* interpreter lock from end to end, so the walk is sequential; what       *)
(* changes under it is which ports other programs hold.  A bind to a       *)
(* number that is no TCP port fails.                                       *)
(***************************************************************************)
EXTENDS Integers

CONSTANTS
    FirstPorts,  \* the constructor's port argument
    RetryArgs,   \* arguments of start()
    PortLimit    \* 65536 in the code: the first number that is no port

ASSUME PortRetryAssumption ==
    /\ FirstPorts \subseteq Nat
    /\ RetryArgs \subseteq Int
    /\ PortLimit \in Nat

VARIABLES
    port,     \* m_port
    bound,    \* the port m_listener is bound to, NotBound when it is null
    busy,     \* ports held by other programs
    looping,  \* is start() in its loop?
    i,        \* the loop's counter
    retries,  \* c_retries of the last call
    outcome,  \* how the last call ended
    first,    \* m_port when the last call began (history)
    failed    \* ports the last call could not bind (history)

vars == <<port, bound, busy, looping, i, retries, outcome, first, failed>>

NotBound == -1

Outcomes == {"none", "returned", "ValueError", "ConnectionError"}

Init ==
    /\ port \in FirstPorts
    /\ bound = NotBound
    /\ busy = {}
    /\ looping = FALSE
    /\ i = 0
    /\ retries = 0
    /\ outcome = "none"
    /\ first = port
    /\ failed = {}

Ports == 0..(PortLimit - 1)

\* start() with a listener present returns at once, which changes nothing.
Start(r) ==
    /\ ~looping
    /\ bound = NotBound
    /\ retries' = r
    /\ i' = 0
    /\ first' = port
    /\ failed' = {}
    /\ looping' = (r > 0)
    /\ outcome' = IF r < 0 THEN "ValueError" ELSE IF r = 0 THEN "returned" ELSE "none"
    /\ UNCHANGED <<port, bound, busy>>

\* Mutant: m_port does not follow the listener.
BindForgotten ==
    /\ looping
    /\ port + i \in Ports \ busy
    /\ bound' = port + i
    /\ looping' = FALSE
    /\ outcome' = "returned"
    /\ UNCHANGED <<port, busy, i, retries, first, failed>>

\* The listener starts: m_port follows it, and the loop ends.
BindSucceeds ==
    /\ looping
    /\ port + i \in Ports \ busy
    /\ bound' = port + i
    /\ port' = port + i
    /\ looping' = FALSE
    /\ outcome' = "returned"
    /\ UNCHANGED <<busy, i, retries, first, failed>>

\* Mutant: the last port is not tried.
BindFailsEarly ==
    /\ looping
    /\ port + i \notin Ports \ busy
    /\ failed' = failed \cup {port + i}
    /\ IF i >= retries - 2 \/ port + i >= PortLimit
         THEN /\ looping' = FALSE
              /\ outcome' = "ConnectionError"
              /\ UNCHANGED i
         ELSE /\ i' = i + 1
              /\ UNCHANGED <<looping, outcome>>
    /\ UNCHANGED <<port, bound, busy, retries, first>>

\* Mutant: the counter stands still.
BindFailsAgain ==
    /\ looping
    /\ port + i \notin Ports \ busy
    /\ failed' = failed \cup {port + i}
    /\ IF i = retries - 1 \/ port + i >= PortLimit
         THEN /\ looping' = FALSE
              /\ outcome' = "ConnectionError"
         ELSE UNCHANGED <<looping, outcome>>
    /\ UNCHANGED <<port, bound, busy, i, retries, first>>

\* It does not: the next port, unless this was the last try or no port.
BindFails ==
    /\ looping
    /\ port + i \notin Ports \ busy
    /\ failed' = failed \cup {port + i}
    /\ IF i = retries - 1 \/ port + i >= PortLimit
         THEN /\ looping' = FALSE
              /\ outcome' = "ConnectionError"
              /\ UNCHANGED i
         ELSE /\ i' = i + 1
              /\ UNCHANGED <<looping, outcome>>
    /\ UNCHANGED <<port, bound, busy, retries, first>>

\* Mutant: stop() forgets the port as well.
StopForgetsPort ==
    /\ ~looping
    /\ bound # NotBound
    /\ bound' = NotBound
    /\ port' = NotBound
    /\ outcome' = "none"
    /\ UNCHANGED <<busy, looping, i, retries, first, failed>>

\* stop(): m_port stays where start() moved it.
Stop ==
    /\ ~looping
    /\ bound # NotBound
    /\ bound' = NotBound
    /\ outcome' = "none"
    /\ UNCHANGED <<port, busy, looping, i, retries, first, failed>>

\* Other programs bind and release ports at any time.
OthersBind ==
    /\ busy' \in SUBSET (Ports \ {bound})
    /\ UNCHANGED <<port, bound, looping, i, retries, outcome, first, failed>>

Next == (\E r \in RetryArgs : Start(r)) \/ BindSucceeds \/ BindFails \/ Stop \/ OthersBind

Spec == Init /\ [][Next]_vars

\* start() is a loop without waiting: it runs on.
FairSpec == Spec /\ WF_vars(BindSucceeds \/ BindFails)

-----------------------------------------------------------------------------
(* Properties                                                              *)

\* Every variable has its type.
TypeOK ==
    /\ port \in Nat
    /\ bound \in Nat \cup {NotBound}
    /\ busy \subseteq Ports
    /\ looping \in BOOLEAN
    /\ i \in Nat
    /\ retries \in Int
    /\ outcome \in Outcomes
    /\ first \in Nat
    /\ failed \subseteq Nat

\* The listener runs on the first port, from the configured one upwards, that
\* could be bound when it was tried; the port attribute is that port, also
\* after restarts, which go on from the port of the last run
\* (start, lmiwbem_listener.cpp:198-225).
RunsOnFirstFree ==
    bound # NotBound =>
        /\ bound = port
        /\ failed = first..(bound - 1)
        /\ bound < first + retries

\* start() raises ConnectionError only when each of the "retries" ports it may
\* use, as far as they are ports, was refused, and then m_port is what it was:
\* the next call begins where this one did (lmiwbem_listener.cpp:226-245).
GivesUpAfterAll ==
    outcome = "ConnectionError" =>
        /\ port = first
        /\ \A q \in Ports : q >= first /\ q < first + retries => q \in failed

\* While the loop runs nothing has moved: the ports before the current one
\* were refused, and the loop is inside its bound (lmiwbem_listener.cpp:198).
LoopInv ==
    looping =>
        /\ outcome = "none" /\ bound = NotBound /\ port = first
        /\ i < retries
        /\ failed = first..(first + i - 1)

\* What the loop leaves behind, however it ends: the inductive invariant.
WalkInv == TypeOK /\ LoopInv /\ RunsOnFirstFree /\ GivesUpAfterAll

\* start() comes back (lmiwbem_listener.cpp:198-247).
StartReturns == looping ~> ~looping

=============================================================================
