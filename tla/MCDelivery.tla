---------------------------- MODULE MCDelivery ----------------------------
(* Instances of Delivery for TLC: two recipients, senders who say nothing, *)
(* decline, or ask for success reports.                                    *)
EXTENDS Delivery, TLC

CONSTANTS r1, r2

SilentNeverSuccess == {{}, {"NEVER"}, {"SUCCESS", "FAILURE"}}
Silent == {{}}
RcptSymmetry == Permutations(Rcpts)
============================================================================
