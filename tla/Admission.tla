----------------------------- MODULE Admission -----------------------------
(***************************************************************************)
(* What the gate promises to the owner of the hardware, without receipts,  *)
(* processes, clocks or a database: an intent is admitted at most once,    *)
(* the hardware acts only for an admitted intent and at most once for it,  *)
(* and at most one result is handed out, for an intent that was acted on.  *)
(* Nothing is promised about progress: admission may be all that happens   *)
(* (at-most-once, not exactly-once).                                       *)
(***************************************************************************)
EXTENDS Sequences, Functions

CONSTANT Key        \* what identifies an intent: audience, subject, nonce

VARIABLES
    admitted,       \* the admitted intents, in order
    performed,      \* the intents the hardware acted for, in order
    delivered       \* the intents whose result was returned

admissionVars == <<admitted, performed, delivered>>

Init ==
    /\ admitted = <<>>
    /\ performed = <<>>
    /\ delivered = {}

Admit(k) ==
    /\ k \notin Range(admitted)
    /\ admitted' = Append(admitted, k)
    /\ UNCHANGED <<performed, delivered>>

Perform(k) ==
    /\ k \in Range(admitted)
    /\ k \notin Range(performed)
    /\ performed' = Append(performed, k)
    /\ UNCHANGED <<admitted, delivered>>

Deliver(k) ==
    /\ k \in Range(performed)
    /\ k \notin delivered
    /\ delivered' = delivered \cup {k}
    /\ UNCHANGED <<admitted, performed>>

Next == \E k \in Key : Admit(k) \/ Perform(k) \/ Deliver(k)

Spec == Init /\ [][Next]_admissionVars

=============================================================================
