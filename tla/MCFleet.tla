------------------------------ MODULE MCFleet ------------------------------
(* One gateway; a ruleset that may name the one relay group there is.      *)
EXTENDS Fleet

CONSTANTS r1, sp1

(* A server profile, if there is one, and the ruleset, without and with    *)
(* the relay group.                                                        *)
MCForms ==
    LET server == IF sp1 \in ServerProfiles THEN sp1 ELSE None IN
    {[server |-> server, ruleset |-> r1, groups |-> S, set |-> None] :
        S \in {{}, Groups}}
=============================================================================
