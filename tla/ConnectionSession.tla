------------------------- MODULE ConnectionSession -------------------------
(***************************************************************************)
(* What WBEMConnection promises about its link to a CIMOM: connect() and   *)
(* disconnect() make and end a link that no operation touches; without     *)
(* one, each operation makes a link of its own and leaves none behind.     *)
(* Nothing is asked of a CIMOM but through a link.                         *)
(***************************************************************************)
CONSTANTS
    Links,  \* links to CIMOMs
    Down    \* no link

VARIABLES
    link,       \* the link, or Down
    temporary,  \* was it made by the operation under way?
    stage       \* of the operation: "idle", "opening" or "working"

vars == <<link, temporary, stage>>

Init == link = Down /\ temporary = FALSE /\ stage = "idle"

\* connect(), connectLocally() and disconnect()
Reconnect == stage = "idle" /\ link' \in Links \cup {Down} /\ UNCHANGED <<temporary, stage>>

Begin ==
    /\ stage = "idle"
    /\ temporary' = (link = Down)
    /\ stage' = IF link = Down THEN "opening" ELSE "working"
    /\ UNCHANGED link

Open == stage = "opening" /\ stage' = "working" /\ link' \in Links /\ UNCHANGED temporary

\* The temporary link cannot be made.
GiveUp == stage = "opening" /\ stage' = "idle" /\ temporary' = FALSE /\ UNCHANGED link

End ==
    /\ stage = "working"
    /\ stage' = "idle"
    /\ temporary' = FALSE
    /\ link' = IF temporary THEN Down ELSE link

Next == Reconnect \/ Begin \/ Open \/ GiveUp \/ End

Spec == Init /\ [][Next]_vars

=============================================================================
