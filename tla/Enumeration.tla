----------------------------- MODULE Enumeration -----------------------------
(***************************************************************************)
(* What the pull operations of WBEMConnection promise about one            *)
(* enumeration: every object is handed out once, in parts, and the         *)
(* end-of-sequence flag is returned when all of them have been, and only   *)
(* then.  An enumeration is broken when an answer was lost or the CIMOM    *)
(* gave it up; the program was told so by an exception, or will be.        *)
(***************************************************************************)
CONSTANT Items  \* the objects of CIMOMs

VARIABLES
    rest,   \* what the CIMOM still has to hand out
    given,  \* what the program got
    stage   \* "none", "open", "ended", "broken" or "closed"

vars == <<rest, given, stage>>

Init == rest = {} /\ given = {} /\ stage = "none"

Open ==
    \E all \in SUBSET Items :
        /\ given' \in SUBSET all
        /\ rest' = all \ given'
        /\ stage' = IF rest' = {} THEN "ended" ELSE "open"

Pull ==
    /\ stage = "open"
    /\ rest' \in SUBSET rest
    /\ given' = given \cup (rest \ rest')
    /\ stage' = IF rest' = {} THEN "ended" ELSE "open"

\* An answer is lost, the CIMOM gives the enumeration up, or the program does.
Break ==
    /\ stage = "open"
    /\ rest' \in SUBSET rest
    /\ stage' = "broken"
    /\ UNCHANGED given

\* What is left of a broken enumeration may still be pulled; its end tells
\* nothing.
PullBroken ==
    /\ stage = "broken"
    /\ rest' \in SUBSET rest
    /\ given' \in SUBSET (given \cup (rest \ rest'))
    /\ given \subseteq given'
    /\ UNCHANGED stage

Close ==
    /\ stage \in {"open", "broken"}
    /\ rest' = {}
    /\ stage' \in {"closed", "broken"}
    /\ UNCHANGED given

Next == Open \/ Pull \/ Break \/ PullBroken \/ Close

Spec == Init /\ [][Next]_vars

=============================================================================
