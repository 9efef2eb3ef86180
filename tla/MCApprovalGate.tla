--------------------------- MODULE MCApprovalGate ---------------------------
(* Small instances of ApprovalGate for TLC.                                *)
EXTENDS ApprovalGate

CONSTANTS mail, note, look, delegate

\* mail is destructive, note reversible and at Ask, look at Allow, delegate at
\* Allow or, in the last batch, at Ask.
Batch == <<note, look, mail, delegate, note>>
OneNote == <<note>>
OneDelegation == <<delegate>>

AllAsk == [t \in Tools |-> "ask"]
LookAllowed == [t \in Tools |-> IF t \in {look, delegate} THEN "allow" ELSE "ask"]

=============================================================================
