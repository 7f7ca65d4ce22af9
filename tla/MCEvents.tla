------------------------------ MODULE MCEvents ------------------------------
(* Two events, two senders and a buffer of one: logservice stores the      *)
(* first event, and refuses the second or fails on it every time.          *)
EXTENDS Events

CONSTANTS e1, e2

MCVerdicts == {[e \in AuditEvents |-> IF e = e1 THEN "stores" ELSE a] : a \in {"refuses", "fails"}}
=============================================================================
