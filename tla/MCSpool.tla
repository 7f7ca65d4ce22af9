------------------------------ MODULE MCSpool ------------------------------
(* Instances of Spool for TLC. *)
EXTENDS SpoolQueue, TLC

CONSTANTS e1, e2, b1, b2, w1, w2

\* Two messages, one envelope each.
TwoMessages == (e1 :> b1) @@ (e2 :> b2)
\* One message split into two envelopes that share its body.
OneSplitMessage == (e1 :> b1) @@ (e2 :> b1)

NoOperators == {}
Nothing == {}
WorkerSymmetry == Permutations(Workers)
============================================================================
