------------------------------ MODULE MCMailq ------------------------------
(* Instances of Mailq for TLC: two messages, an operator beside the workers. *)
EXTENDS Mailq, TLC

CONSTANTS e1, e2, b1, b2, w1, w2, o1

TwoMessages == (e1 :> b1) @@ (e2 :> b2)
OneMessage == e1 :> b1
Nothing == {}
WorkerSymmetry == Permutations(Workers)
============================================================================
