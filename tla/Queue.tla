------------------------------- MODULE Queue -------------------------------
(***************************************************************************)
(* What the spool promises the rest of the gateway: a queue with leases.   *)
(* An envelope is put once; a worker that takes it has it alone; it gives  *)
(* the envelope back or settles it; a settled envelope is never taken      *)
(* again; a restart ends every lease and forgets no envelope.  A failed    *)
(* file operation excuses the last two promises for its envelope.          *)
(***************************************************************************)
CONSTANTS Envs, Workers, NoEnv

VARIABLES
    queued,   \* envelopes put so far
    lease,    \* lease[w]: the envelope w is attempting, or NoEnv
    settled,  \* envelopes delivered, buried or set aside for good
    failed    \* envelopes with a failed file operation

qvars == <<queued, lease, settled, failed>>

Init ==
    /\ queued \in SUBSET Envs
    /\ lease = [w \in Workers |-> NoEnv]
    /\ settled = {} /\ failed = {}

Put(e) ==
    /\ e \notin queued
    /\ queued' = queued \cup {e}
    /\ UNCHANGED <<lease, settled, failed>>

Take(w, e) ==
    /\ lease[w] = NoEnv
    /\ \A v \in Workers : lease[v] # e
    /\ e \in queued /\ (e \in settled => e \in failed)
    /\ lease' = [lease EXCEPT ![w] = e]
    /\ UNCHANGED <<queued, settled, failed>>

Settle(w) ==
    /\ lease[w] # NoEnv
    /\ settled' = settled \cup {lease[w]}
    /\ lease' \in {lease, [lease EXCEPT ![w] = NoEnv]}
    /\ UNCHANGED <<queued, failed>>

GiveBack(w) ==
    /\ lease[w] # NoEnv
    /\ lease' = [lease EXCEPT ![w] = NoEnv]
    /\ UNCHANGED <<queued, settled, failed>>

(* A file operation on some envelopes fails; whoever has one lets it go.   *)
Fail(S) ==
    /\ failed' = failed \cup S
    /\ lease' = [w \in Workers |-> IF lease[w] \in S THEN NoEnv ELSE lease[w]]
    /\ UNCHANGED <<queued, settled>>

Restart ==
    /\ lease' = [w \in Workers |-> NoEnv]
    /\ UNCHANGED <<queued, settled, failed>>

Next ==
    \/ \E e \in Envs : Put(e)
    \/ \E S \in SUBSET Envs : Fail(S)
    \/ \E w \in Workers : Settle(w) \/ GiveBack(w) \/ \E e \in Envs : Take(w, e)
    \/ Restart

Spec == Init /\ [][Next]_qvars
=============================================================================
