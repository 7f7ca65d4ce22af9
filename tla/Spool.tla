------------------------------- MODULE Spool -------------------------------
(***************************************************************************)
(* The on-disk delivery queue of mailgw-go (internal/queue/spool.go), the  *)
(* SMTP session that feeds it (internal/smtpsrv/session.go, Data), the     *)
(* delivery workers that drain it (internal/queue/runner.go) and the boot  *)
(* sequence of the gateway (internal/node/gateway.go, bringUp).            *)
(*                                                                         *)
(* One step is one operation on the file system that another goroutine or  *)
(* process can observe: a rename into place, an unlink, the listing of one *)
(* directory.  Every write goes to tmp/ first and is fsynced, so a file is *)
(* either absent or complete; tmp/ itself is not modelled.                 *)
(*                                                                         *)
(* An envelope file is [env, due, gen]: (env, due) is the file name in q/  *)
(* and, behind the claim prefix, in inflight/; gen stands for the contents *)
(* (recipient statuses, attempts), one generation per rewrite.             *)
(***************************************************************************)
EXTENDS Naturals, FiniteSets

CONSTANTS
    Envs,        \* envelope uuids
    Bodies,      \* transactions, and the data/ file each one writes
    BodyOf,      \* the body an envelope refers to (Envelope.Body)
    Spooled0,    \* envelopes an earlier process accepted and left in q/
    Workers,     \* delivery goroutines (outbound.concurrency slots)
    Operators,   \* mailq processes; they act in module Mailq
    NoEnv, NoBody,
    MaxTime,     \* bound: seconds the clock runs
    MaxRestarts, \* bound: crashes and shutdowns
    MaxFaults,   \* bound: file operations that fail
    MinBackoff,  \* whole seconds the shortest backoff, after jitter, is sure to last
    SlowDisk     \* may a backoff elapse between the two halves of Reschedule?

ASSUME SpoolAssumption ==
    /\ BodyOf \in [Envs -> Bodies]
    /\ Spooled0 \subseteq Envs
    /\ \A e, d \in Envs : BodyOf[e] = BodyOf[d] => (e \in Spooled0 <=> d \in Spooled0)
    /\ Workers \cap Operators = {}
    /\ "boot" \notin Workers \cup Operators
    /\ NoEnv \notin Envs /\ NoBody \notin Bodies
    /\ MaxTime \in Nat /\ MaxRestarts \in Nat /\ MaxFaults \in Nat
    /\ MinBackoff \in Nat /\ SlowDisk \in BOOLEAN

VARIABLES
    ready, inflight,       \* files in q/ and inflight/
    quarantine, dead,      \* files <uuid>.json in quarantine/ and dead/ (due = 0)
    parked,                \* unreadable files moved to dead/ under their claim name
    data,                  \* message bodies
    now,                   \* the wall clock, in the whole seconds file names carry
    phase, restarts,       \* the gateway process
    sweepTodo,             \* bodies SweepBodies has yet to look at
    recTodo, recSeen, recDue, \* Recover: listing of inflight/, committed uuids, stamp
    txn, handed,           \* SMTP transactions, envelopes put into the spool
    pc, held, gc,          \* per actor: step, envelope file in hand, collection target
    completed, faulted, gen \* history: finished envelopes, failed file operations, newest contents

disk == <<ready, inflight, quarantine, dead, parked, data>>
boot == <<phase, restarts, sweepTodo, recTodo, recSeen, recDue>>
actors == <<pc, held, gc>>
history == <<completed, faulted, gen>>
vars == <<disk, now, boot, txn, handed, actors, history>>

Actors == Workers \cup Operators \cup {"boot"}
File == [env : Envs, due : Nat, gen : Nat]
NoFile == [env |-> NoEnv, due |-> 0, gen |-> 0]
NoTarget == [body |-> NoBody, except |-> NoEnv]
EnvsOf(b) == {e \in Envs : BodyOf[e] = b}
EnvsIn(dir) == {f.env : f \in dir}

Serving == phase \in {"recover", "up", "stopping"}

\* rename(2) into a directory of <due>.<uuid> names replaces the file of that name.
Put(dir, f) == {g \in dir : g.env # f.env \/ g.due # f.due} \cup {f}

\* The files of a directory that carry the same name as f.
Named(dir, f) == {g \in dir : g.env = f.env /\ g.due = f.due}

Init ==
    /\ ready = {[env |-> e, due |-> 0, gen |-> 0] : e \in Spooled0}
    /\ inflight = {} /\ quarantine = {} /\ dead = {} /\ parked = {}
    /\ data = {BodyOf[e] : e \in Spooled0}
    /\ now = 0
    /\ phase = "down" /\ restarts = 0
    /\ sweepTodo = {} /\ recTodo = {} /\ recSeen = {} /\ recDue = 0
    /\ txn = [b \in Bodies |-> IF \E e \in Spooled0 : BodyOf[e] = b THEN "accepted" ELSE "new"]
    /\ handed = Spooled0
    /\ pc = [a \in Actors |-> "idle"]
    /\ held = [a \in Actors |-> NoFile]
    /\ gc = [a \in Actors |-> NoTarget]
    /\ completed = {} /\ faulted = {}
    /\ gen = [e \in Envs |-> 0]

----------------------------------------------------------------------------
(* The SMTP session: session.Data, and Bouncer.Bounce for a notification,   *)
(* whose transaction has the one envelope and a body of its own.            *)

\* Spool.WriteBody: the body is in data/ before any policy decision.
WriteBody(b) ==
    /\ Serving /\ txn[b] = "new"
    /\ data' = data \cup {b}
    /\ txn' = [txn EXCEPT ![b] = "spooled"]
    /\ UNCHANGED <<ready, inflight, quarantine, dead, parked, now, boot, handed, actors, history>>

\* A refusal at DATA, or a message whose every recipient was discarded: the body
\* has no envelope and Spool.RemoveBody takes it away.
RemoveBody(b) ==
    /\ Serving /\ txn[b] = "spooled" /\ EnvsOf(b) \cap handed = {}
    /\ data' = data \ {b}
    /\ txn' = [txn EXCEPT ![b] = "refused"]
    /\ UNCHANGED <<ready, inflight, quarantine, dead, parked, now, boot, handed, actors, history>>

\* Mutation: the file name is stamped a second early.
Enqueue_Backdated(e) ==
    /\ Serving /\ txn[BodyOf[e]] = "spooled" /\ e \notin handed
    /\ ready' = Put(ready, [env |-> e, due |-> now - 1, gen |-> 0])
    /\ handed' = handed \cup {e}
    /\ UNCHANGED <<inflight, quarantine, dead, parked, data, now, boot, txn, actors, history>>

\* Spool.Enqueue of one envelope of the transaction.
Enqueue(e) ==
    /\ Serving /\ txn[BodyOf[e]] = "spooled" /\ e \notin handed
    /\ ready' = Put(ready, [env |-> e, due |-> now, gen |-> 0])
    /\ handed' = handed \cup {e}
    /\ UNCHANGED <<inflight, quarantine, dead, parked, data, now, boot, txn, actors, history>>

\* Spool.Quarantine of one envelope of the transaction.
Quarantine(e) ==
    /\ Serving /\ txn[BodyOf[e]] = "spooled" /\ e \notin handed
    /\ quarantine' = Put(quarantine, [env |-> e, due |-> 0, gen |-> 0])
    /\ handed' = handed \cup {e}
    /\ UNCHANGED <<ready, inflight, dead, parked, data, now, boot, txn, actors, history>>

\* Enqueue or Quarantine failed: the session answers 451 and leaves the siblings
\* it already queued, and the body, behind.
EnqueueFail(b) ==
    /\ Serving /\ txn[b] = "spooled" /\ EnvsOf(b) \ handed # {}
    /\ Cardinality(faulted) < MaxFaults
    /\ \E e \in EnvsOf(b) \ handed : faulted' = faulted \cup {e}
    /\ txn' = [txn EXCEPT ![b] = "refused"]
    /\ UNCHANGED <<disk, now, boot, handed, actors, completed, gen>>

\* Every envelope is on disk: 250.
Accept(b) ==
    /\ Serving /\ txn[b] = "spooled" /\ EnvsOf(b) # {} /\ EnvsOf(b) \subseteq handed
    /\ txn' = [txn EXCEPT ![b] = "accepted"]
    /\ UNCHANGED <<disk, now, boot, handed, actors, history>>

----------------------------------------------------------------------------
(* Delivery: Runner.drain claims, Runner.attempt decides, the spool moves.  *)

Idle(w) ==
    /\ pc' = [pc EXCEPT ![w] = "idle"]
    /\ held' = [held EXCEPT ![w] = NoFile]

\* The rename q/ -> inflight/ is the lock; only files that are due are listed.
Claim(w, f) ==
    /\ phase = "up" /\ pc[w] = "idle" /\ f \in ready /\ f.due <= now
    /\ ready' = ready \ {f}
    /\ inflight' = Put(inflight, f)
    /\ pc' = [pc EXCEPT ![w] = "claimed"]
    /\ held' = [held EXCEPT ![w] = f]
    /\ UNCHANGED <<quarantine, dead, parked, data, now, boot, txn, handed, gc, history>>

\* readEnvelope failed on the claimed file: it is moved to dead/ as it is.
Park(w) ==
    /\ pc[w] = "claimed" /\ held[w] \in inflight
    /\ inflight' = inflight \ {held[w]}
    /\ parked' = parked \cup {held[w].env}
    /\ Idle(w)
    /\ UNCHANGED <<ready, quarantine, dead, data, now, boot, txn, handed, gc, history>>

\* A relay answered for every pending recipient.  The body must open.
Relay(w) ==
    /\ pc[w] = "claimed" /\ BodyOf[held[w].env] \in data
    /\ pc' = [pc EXCEPT ![w] = "done"]
    /\ UNCHANGED <<disk, now, boot, txn, handed, held, gc, history>>

\* Spool.Complete: unlink the envelope, then collect its body.
Complete(w) ==
    /\ pc[w] = "done" /\ held[w] \in inflight
    /\ inflight' = inflight \ {held[w]}
    /\ completed' = completed \cup {held[w].env}
    /\ pc' = [pc EXCEPT ![w] = "gc_q"]
    /\ gc' = [gc EXCEPT ![w] = [body |-> BodyOf[held[w].env], except |-> held[w].env]]
    /\ UNCHANGED <<ready, quarantine, dead, parked, data, now, boot, txn, handed, held, faulted, gen>>

\* Spool.Reschedule, first half: the new copy is committed to q/.  deferEnvelope
\* stamps it with now plus the jittered backoff, a cancelled context with now; the
\* name keeps the whole seconds.  The configuration bounds no backoff from below,
\* so MinBackoff = 0 is allowed: the new name may then be that of the claim.
RescheduleWrite(w) ==
    /\ pc[w] = "claimed"
    /\ \E due \in now .. MaxTime :
        /\ phase # "stopping" => due >= now + MinBackoff
        /\ ready' = Put(ready, [env |-> held[w].env, due |-> due, gen |-> held[w].gen + 1])
    /\ gen' = [gen EXCEPT ![held[w].env] = held[w].gen + 1]
    /\ pc' = [pc EXCEPT ![w] = "rescheduled"]
    /\ UNCHANGED <<inflight, quarantine, dead, parked, data, now, boot, txn, handed, held, gc, completed, faulted>>

\* Mutation: the claim stays behind.
RescheduleRemove_Forgotten(w) ==
    /\ pc[w] = "rescheduled"
    /\ Idle(w)
    /\ UNCHANGED <<disk, now, boot, txn, handed, gc, history>>

\* Spool.Reschedule, second half: the claim is removed.
RescheduleRemove(w) ==
    /\ pc[w] = "rescheduled" /\ held[w] \in inflight
    /\ inflight' = inflight \ {held[w]}
    /\ Idle(w)
    /\ UNCHANGED <<ready, quarantine, dead, parked, data, now, boot, txn, handed, gc, history>>

\* Spool.Bury (Runner.expire), first half: the record goes to dead/.
BuryWrite(w) ==
    /\ pc[w] = "claimed"
    /\ dead' = Put(dead, [env |-> held[w].env, due |-> 0, gen |-> held[w].gen + 1])
    /\ pc' = [pc EXCEPT ![w] = "buried"]
    /\ UNCHANGED <<ready, inflight, quarantine, parked, data, now, boot, txn, handed, held, gc, history>>

\* Mutation: Bury does not call gcBody.
BuryRemove_KeepsBody(w) ==
    /\ pc[w] = "buried"
    /\ inflight' = inflight \ {held[w]}
    /\ Idle(w)
    /\ UNCHANGED <<ready, quarantine, dead, parked, data, now, boot, txn, handed, gc, history>>

\* Spool.Bury, second half: unlink the claim, then collect the body.
BuryRemove(w) ==
    /\ pc[w] = "buried" /\ held[w] \in inflight
    /\ inflight' = inflight \ {held[w]}
    /\ pc' = [pc EXCEPT ![w] = "gc_q"]
    /\ gc' = [gc EXCEPT ![w] = [body |-> BodyOf[held[w].env], except |-> held[w].env]]
    /\ UNCHANGED <<ready, quarantine, dead, parked, data, now, boot, txn, handed, held, history>>

\* The worker's claim was replaced by another of the same name, or the worker that
\* replaced it has unlinked it.  Rename and unlink go by the name: they take the
\* other worker's file, or find none, which Claim ignores, and which Complete,
\* Reschedule and Bury return as an error.
UnlinkReplaced(w) ==
    /\ held[w] \notin inflight
    /\ LET there == Named(inflight, held[w]) IN
       /\ inflight' = inflight \ there
       /\ \/ pc[w] = "claimed" /\ parked' = parked \cup EnvsIn(there) /\ Idle(w) /\ UNCHANGED <<gc, completed>>
          \/ pc[w] = "rescheduled" /\ Idle(w) /\ UNCHANGED <<gc, parked, completed>>
          \/ /\ pc[w] \in {"done", "buried"}
             /\ completed' = IF pc[w] = "done" THEN completed \cup {held[w].env} ELSE completed
             /\ IF there = {} THEN Idle(w) /\ UNCHANGED gc
                ELSE /\ pc' = [pc EXCEPT ![w] = "gc_q"]
                     /\ gc' = [gc EXCEPT ![w] = [body |-> BodyOf[held[w].env], except |-> held[w].env]]
                     /\ UNCHANGED held
             /\ UNCHANGED parked
    /\ UNCHANGED <<ready, quarantine, dead, data, now, boot, txn, handed, faulted, gen>>

\* A file operation of Reschedule, Bury or Complete failed, which is only logged:
\* the claim stays in inflight/ with nobody working on it.
MoveFail(w) ==
    /\ pc[w] \in {"claimed", "done", "rescheduled", "buried"} /\ Cardinality(faulted) < MaxFaults
    /\ faulted' = faulted \cup {held[w].env}
    /\ Idle(w)
    /\ UNCHANGED <<disk, now, boot, txn, handed, gc, completed, gen>>

----------------------------------------------------------------------------
(* gcBody: bodyReferenced lists q/, inflight/ and quarantine/ one after the *)
(* other, then the body is unlinked.                                        *)

\* Does the directory hold an envelope, other than the one excepted, that
\* refers to the body?  The name decides; an unreadable candidate counts.
bodyReferenced(dir, target) ==
    \E f \in dir : f.env # target.except /\ BodyOf[f.env] = target.body

GcStop(a) ==
    /\ Idle(a)
    /\ gc' = [gc EXCEPT ![a] = NoTarget]

\* One ReadDir of bodyReferenced: a referrer ends the collection.
GcScan(a, here, dir, there) ==
    /\ pc[a] = here
    /\ IF bodyReferenced(dir, gc[a])
         THEN GcStop(a)
         ELSE pc' = [pc EXCEPT ![a] = there] /\ UNCHANGED <<held, gc>>
    /\ UNCHANGED <<disk, now, boot, txn, handed, history>>

\* Mutation: bodyDirs without inflight/.
GcScanInflight_Skipped(a) == GcScan(a, "gc_inflight", {}, "gc_quarantine")

GcScanReady(a) == GcScan(a, "gc_q", ready, "gc_inflight")
GcScanInflight(a) == GcScan(a, "gc_inflight", inflight, "gc_quarantine")
GcScanQuarantine(a) == GcScan(a, "gc_quarantine", quarantine, "gc_unlink")

GcUnlink(a) ==
    /\ pc[a] = "gc_unlink"
    /\ data' = data \ {gc[a].body}
    /\ GcStop(a)
    /\ UNCHANGED <<ready, inflight, quarantine, dead, parked, now, boot, txn, handed, history>>

----------------------------------------------------------------------------
(* The process: gateway.bringUp sweeps, then starts the runner (Recover)    *)
(* and the listeners; shutdown cancels the runner's context; a crash stops  *)
(* everything between two file operations.                                  *)

\* SweepBodies lists data/ and ignores bodies younger than the grace period.
SweepStart ==
    /\ phase = "down"
    /\ phase' = "sweep"
    /\ sweepTodo' \in SUBSET data
    /\ UNCHANGED <<disk, now, restarts, recTodo, recSeen, recDue, txn, handed, actors, history>>

SweepBody(b) ==
    /\ phase = "sweep" /\ pc["boot"] = "idle" /\ b \in sweepTodo
    /\ sweepTodo' = sweepTodo \ {b}
    /\ pc' = [pc EXCEPT !["boot"] = "gc_q"]
    /\ gc' = [gc EXCEPT !["boot"] = [body |-> b, except |-> NoEnv]]
    /\ UNCHANGED <<disk, now, phase, restarts, recTodo, recSeen, recDue, txn, handed, held, history>>

\* Runner.Start: Recover lists inflight/ and collects the committed uuids.  Only
\* sessions run beside it, and they add no uuid that is in the listing.
Recover(committed) ==
    /\ phase = "sweep" /\ pc["boot"] = "idle" /\ sweepTodo = {}
    /\ phase' = "recover"
    /\ recTodo' = inflight
    /\ recSeen' = committed
    /\ recDue' = now
    /\ UNCHANGED <<disk, now, restarts, sweepTodo, txn, handed, actors, history>>

\* Mutations: committedUUIDs forgets dead/, or also lists inflight/.
RecoverStart_WithoutDead == Recover(EnvsIn(ready) \cup EnvsIn(quarantine))
RecoverStart_WithInflight ==
    Recover(EnvsIn(ready) \cup EnvsIn(dead) \cup EnvsIn(quarantine) \cup EnvsIn(inflight))

\* committedUUIDs: q/, dead/ and quarantine/.
RecoverStart == Recover(EnvsIn(ready) \cup EnvsIn(dead) \cup EnvsIn(quarantine))

\* Mutation: every claim goes back to q/, committed elsewhere or not.
RecoverEntry_NoDedupe(f) ==
    /\ phase = "recover" /\ f \in recTodo
    /\ \A g \in recTodo : g.env = f.env => f.due <= g.due
    /\ recTodo' = recTodo \ {f}
    /\ inflight' = inflight \ {f}
    /\ ready' = Put(ready, [f EXCEPT !.due = recDue])
    /\ UNCHANGED <<quarantine, dead, parked, data, now, phase, restarts, sweepTodo, recSeen, recDue, txn, handed, actors, history>>

\* One entry of the listing, which os.ReadDir sorts by name and so by due time:
\* a copy whose envelope is committed elsewhere is dropped, any other goes back
\* to q/, due now.
RecoverEntry(f) ==
    /\ phase = "recover" /\ f \in recTodo
    /\ \A g \in recTodo : g.env = f.env => f.due <= g.due
    /\ recTodo' = recTodo \ {f}
    /\ inflight' = inflight \ {f}
    /\ ready' = IF f.env \in recSeen THEN ready ELSE Put(ready, [f EXCEPT !.due = recDue])
    /\ UNCHANGED <<quarantine, dead, parked, data, now, phase, restarts, sweepTodo, recSeen, recDue, txn, handed, actors, history>>

\* Mutation: the workers start while claims are still to be recovered.
RecoverDone_Early ==
    /\ phase = "recover"
    /\ phase' = "up"
    /\ recTodo' = {} /\ recSeen' = {} /\ recDue' = 0
    /\ UNCHANGED <<disk, now, restarts, sweepTodo, txn, handed, actors, history>>

RecoverDone ==
    /\ phase = "recover" /\ recTodo = {}
    /\ phase' = "up"
    /\ recSeen' = {} /\ recDue' = 0
    /\ UNCHANGED <<disk, now, restarts, sweepTodo, recTodo, txn, handed, actors, history>>

\* A rename or unlink in Recover failed: the error is logged and the runner
\* starts with the rest of the listing left in inflight/.
RecoverFail ==
    /\ phase = "recover" /\ recTodo # {} /\ Cardinality(faulted) < MaxFaults
    /\ faulted' = faulted \cup EnvsIn(recTodo)
    /\ phase' = "up"
    /\ recTodo' = {} /\ recSeen' = {} /\ recDue' = 0
    /\ UNCHANGED <<disk, now, restarts, sweepTodo, txn, handed, actors, completed, gen>>

\* gateway.shutdown cancels the runner's context; drain claims nothing more.
Shutdown ==
    /\ phase = "up" /\ restarts < MaxRestarts
    /\ phase' = "stopping"
    /\ UNCHANGED <<disk, now, restarts, sweepTodo, recTodo, recSeen, recDue, txn, handed, actors, history>>

\* The process ends: its goroutines are gone, the disk and mailq remain.
Halt ==
    /\ restarts < MaxRestarts
    /\ restarts' = restarts + 1
    /\ phase' = "down"
    /\ sweepTodo' = {} /\ recTodo' = {} /\ recSeen' = {} /\ recDue' = 0
    /\ txn' = [b \in Bodies |-> IF txn[b] = "spooled" THEN "aborted" ELSE txn[b]]
    /\ pc' = [a \in Actors |-> IF a \in Operators THEN pc[a] ELSE "idle"]
    /\ held' = [a \in Actors |-> IF a \in Operators THEN held[a] ELSE NoFile]
    /\ gc' = [a \in Actors |-> IF a \in Operators THEN gc[a] ELSE NoTarget]
    /\ UNCHANGED <<disk, now, handed, history>>

Crash == phase \in {"sweep", "recover", "up"} /\ Halt
Exit == phase = "stopping" /\ Halt

\* The clock.  Without SlowDisk a backoff outlasts the two file operations of
\* Reschedule (60s by default against two system calls).
Tick ==
    /\ now < MaxTime
    /\ SlowDisk \/ \A w \in Workers : pc[w] # "rescheduled"
    /\ now' = now + 1
    /\ UNCHANGED <<disk, boot, txn, handed, actors, history>>

\* Runner.drain with nothing due.
Poll ==
    /\ phase = "up" /\ \A f \in ready : f.due > now
    /\ UNCHANGED vars

----------------------------------------------------------------------------
SessionNext ==
    \/ \E b \in Bodies : WriteBody(b) \/ RemoveBody(b) \/ EnqueueFail(b) \/ Accept(b)
    \/ \E e \in Envs : Enqueue(e) \/ Quarantine(e)

Attempt(w) == Park(w) \/ Relay(w) \/ RescheduleWrite(w) \/ BuryWrite(w) \/ MoveFail(w)
Finish(w) ==
    IF held[w] \in inflight THEN Complete(w) \/ RescheduleRemove(w) \/ BuryRemove(w)
                             ELSE UnlinkReplaced(w)
Collect(a) == GcScanReady(a) \/ GcScanInflight(a) \/ GcScanQuarantine(a) \/ GcUnlink(a)

WorkerNext ==
    \E w \in Workers : (\E f \in ready : Claim(w, f)) \/ Attempt(w) \/ Finish(w) \/ Collect(w)

Start ==
    \/ SweepStart \/ (\E b \in Bodies : SweepBody(b)) \/ Collect("boot")
    \/ RecoverStart \/ (\E f \in recTodo : RecoverEntry(f)) \/ RecoverDone \/ RecoverFail

Next == SessionNext \/ WorkerNext \/ Start \/ Shutdown \/ Crash \/ Exit \/ Tick \/ Poll

Spec == Init /\ [][Next]_vars

\* Goroutines that can run do run, a gateway that stopped is started again, the
\* client of an open session stays, and time passes.
Fairness ==
    /\ \A w \in Workers : WF_vars(Attempt(w)) /\ WF_vars(Finish(w)) /\ WF_vars(Collect(w))
    /\ \A e \in Envs : WF_vars(\E w \in Workers, f \in ready : f.env = e /\ Claim(w, f))
    /\ WF_vars(Start) /\ WF_vars(Exit) /\ WF_vars(Tick)

FairSpec == Spec /\ Fairness

----------------------------------------------------------------------------
Stored == EnvsIn(ready) \cup EnvsIn(inflight) \cup EnvsIn(quarantine)
Settled == completed \cup EnvsIn(dead) \cup parked
Attempting(w) == pc[w] \in {"claimed", "done", "buried"}

\* Every variable has its type.
TypeOK ==
    /\ ready \in SUBSET File /\ inflight \in SUBSET File
    /\ quarantine \in SUBSET File /\ dead \in SUBSET File
    /\ parked \in SUBSET Envs /\ data \in SUBSET Bodies
    /\ now \in Nat /\ restarts \in Nat
    /\ phase \in {"down", "sweep", "recover", "up", "stopping"}
    /\ sweepTodo \in SUBSET Bodies /\ recTodo \in SUBSET File
    /\ recSeen \in SUBSET Envs /\ recDue \in Nat
    /\ txn \in [Bodies -> {"new", "spooled", "accepted", "refused", "aborted"}]
    /\ handed \in SUBSET Envs
    /\ pc \in [Actors -> {"idle", "claimed", "done", "rescheduled", "buried", "gc_q",
                          "gc_inflight", "gc_quarantine", "gc_unlink"}]
    /\ held \in [Actors -> File \cup {NoFile}]
    /\ gc \in [Actors -> [body : Bodies \cup {NoBody}, except : Envs \cup {NoEnv}]]
    /\ completed \in SUBSET Envs /\ faulted \in SUBSET Envs
    /\ gen \in [Envs -> Nat]

\* An envelope that reached the spool is never lost: it is in q/, inflight/ or
\* quarantine/ until it was delivered, buried or parked, whatever crashes or
\* fails between two file operations (Reschedule, Bury, Recover).  It needs
\* MinBackoff > 0: a copy rescheduled under the name of its own claim is claimed
\* over it, and the first worker's unlink takes that claim away.
NoMailLost == handed \subseteq Stored \cup Settled

\* Claim's promise: two workers never attempt the same envelope at a time, also
\* after a crash left it both in q/ and in inflight/.
OneAttempt ==
    \A w, v \in Workers :
        Attempting(w) /\ Attempting(v) /\ held[w].env = held[v].env => w = v

\* Recover keeps the newest contents: no attempt works from an envelope older
\* than the last one Reschedule committed, so a recipient already recorded as
\* delivered is not tried again.  (Like FinishedStaysFinished and BodyKept it
\* needs SlowDisk = FALSE, and is not claimed of an envelope one of whose file
\* operations failed.)
NoRollback ==
    /\ \A w \in Workers :
        Attempting(w) /\ held[w].env \notin faulted => held[w].gen = gen[held[w].env]
    /\ \A f \in ready : f.env \notin faulted => f.gen = gen[f.env]

\* Once Recover is over, a file in inflight/ has a worker that will move it on,
\* unless a file operation failed: nothing else waits there for the next restart.
InflightOwned ==
    phase \in {"up", "stopping"} =>
        \A f \in inflight : f.env \in faulted \/ \E w \in Workers : held[w] = f

\* A buried envelope does not come back: Bury's crash window leaves a copy in
\* inflight/ only, and Recover drops it.
BuriedStaysBuried == EnvsIn(dead) \cap (EnvsIn(ready) \cup EnvsIn(quarantine)) = {}

\* A completed envelope leaves no copy that a restart would deliver again.
FinishedStaysFinished == (completed \cap Stored) \subseteq faulted

\* gcBody and SweepBodies never delete the body of an envelope that is still
\* queued, claimed or held.
BodyKept == \A e \in Stored \ faulted : BodyOf[e] \in data

\* Complete collects after unlinking, so a quiet spool that never crashed holds
\* no body without a referrer: the last sibling to finish takes the body along.
NoOrphans ==
    (restarts = 0 /\ faulted = {} /\ parked = {} /\ \A a \in Actors : pc[a] = "idle") =>
        \A b \in data : txn[b] = "spooled" \/ b \in {BodyOf[e] : e \in Stored}

\* Every envelope handed to the spool is delivered, buried, parked or held for
\* an operator in the end, also when the gateway crashes on the way; only a
\* failed file operation strands it, until the next restart.
EventuallySettled ==
    \A e \in Envs : e \in handed ~> e \in Settled \cup EnvsIn(quarantine) \cup faulted

----------------------------------------------------------------------------
(* The inductive invariant behind NoMailLost and OneAttempt, for any number *)
(* of workers, envelopes, restarts and faults, for either SlowDisk, when no *)
(* backoff is shorter than a second (MinBackoff > 0).                       *)

Holding(w) == Attempting(w) \/ pc[w] = "rescheduled"

HoldsFile == \A w \in Workers : Holding(w) => held[w] \in File

\* Delivery goroutines exist only after Recover is done.
IdleUnlessUp == phase \notin {"up", "stopping"} => \A w \in Workers : pc[w] = "idle"

\* A worker's claim is on disk, was due when it was taken, and is its own.
ClaimOnDisk == \A w \in Workers : Holding(w) => held[w] \in inflight /\ held[w].due <= now
ClaimsDiffer ==
    \A w, v \in Workers :
        Holding(w) /\ Holding(v) /\ w # v =>
            held[w].env # held[v].env \/ held[w].due # held[v].due

\* The one copy in q/ is never an envelope somebody is attempting; beside a claim
\* that is about to be removed it has the later due time.
ReadyUnique == \A f, g \in ready : f.env = g.env => f = g
ReadyUnattempted == \A w \in Workers, f \in ready : Attempting(w) => f.env # held[w].env
ReadyLater ==
    phase = "up" =>
        \A w \in Workers, f \in ready :
            pc[w] = "rescheduled" /\ f.env = held[w].env => held[w].due < f.due

\* Only envelopes a session handed over are in q/ and inflight/.
QueuedWasHanded == EnvsIn(ready) \cup EnvsIn(inflight) \subseteq handed

\* Recover: the listing is still on disk, what it took for committed is, and a
\* copy in q/ of an envelope yet to come is committed or was just put there.
RecoverListing ==
    phase = "recover" =>
        /\ recTodo \subseteq inflight
        /\ recSeen \subseteq EnvsIn(ready) \cup EnvsIn(dead) \cup EnvsIn(quarantine)
        /\ \A f \in recTodo, g \in ready : f.env = g.env => g.env \in recSeen \/ g.due = recDue

\* Before Reschedule or Bury removes a claim, the envelope is safe elsewhere.
RescheduledElsewhere ==
    \A w \in Workers : pc[w] = "rescheduled" =>
        \/ held[w].env \in Settled \cup EnvsIn(ready)
        \/ \E f \in inflight : f.env = held[w].env /\ held[w].due < f.due
BuriedOnDisk == \A w \in Workers : pc[w] = "buried" => held[w].env \in EnvsIn(dead)

\* The files, claims and listings agree in every state Recover, Claim, Reschedule
\* and Bury can reach: the invariant the proofs carry from step to step.
SpoolInv ==
    /\ TypeOK /\ HoldsFile /\ IdleUnlessUp /\ ClaimOnDisk /\ ClaimsDiffer
    /\ ReadyUnique /\ ReadyUnattempted /\ ReadyLater /\ QueuedWasHanded
    /\ RecoverListing /\ RescheduledElsewhere /\ BuriedOnDisk
    /\ NoMailLost /\ OneAttempt
============================================================================
