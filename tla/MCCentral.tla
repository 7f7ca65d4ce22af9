----------------------------- MODULE MCCentral -----------------------------
(* One gateway in service and one that may register; one building block of *)
(* each kind.                                                              *)
EXTENDS Central

CONSTANTS r1, sp1, s1

(* The ruleset alone, and one block of each kind.                          *)
MCForms == {[server |-> None, ruleset |-> r1, groups |-> {}, set |-> None],
            [server |-> sp1, ruleset |-> r1, groups |-> Groups, set |-> s1]}
=============================================================================
