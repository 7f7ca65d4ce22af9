----------------------------- MODULE SpoolQueue -----------------------------
(***************************************************************************)
(* The spool implements the queue with leases of module Queue: a lease is  *)
(* an attempt in progress, and the envelope's files may meanwhile be in    *)
(* q/, in inflight/, in both, or in inflight/ and dead/.                   *)
(***************************************************************************)
EXTENDS Spool

Q == INSTANCE Queue WITH
        queued  <- handed,
        lease   <- [w \in Workers |-> IF Attempting(w) THEN held[w].env ELSE NoEnv],
        settled <- Settled,
        failed  <- faulted

(* Every step of sessions, workers, Recover, shutdown and crash is a step  *)
(* of the queue or invisible in it: the two halves of Reschedule and Bury, *)
(* the copies a crash leaves behind and Recover's choice between them      *)
(* never show as a second lease, a lost envelope or a settled one that     *)
(* comes back.                                                             *)
ImplementsQueue == Q!Spec

-----------------------------------------------------------------------------
(* The inductive invariants behind the refinement and behind the promises  *)
(* of Bury, Complete and Recover.  Those of the first group hold on a disk *)
(* of any speed.                                                           *)

Gone == completed \cup parked

\* Only a session brings an envelope into the spool, and it starts at generation 0.
OnlySessionsPut ==
    /\ EnvsIn(quarantine) \cup EnvsIn(dead) \cup Gone \subseteq handed
    /\ \A e \in Envs \ handed : gen[e] = 0

\* What a session put into quarantine/ is nowhere else.
QuarantineApart ==
    EnvsIn(quarantine) \cap (EnvsIn(ready) \cup EnvsIn(inflight) \cup EnvsIn(dead) \cup Gone) = {}

\* The one worker that may still hold a buried envelope is about to let it go.
BuriedUnattempted ==
    \A w \in Workers : Attempting(w) /\ held[w].env \in EnvsIn(dead) => pc[w] = "buried"

\* Every claim that no failed operation left behind has its worker, and Recover
\* has every other one on its list.
ClaimsOwned ==
    /\ phase \in {"up", "stopping"} =>
          \A f \in inflight :
              f.env \in faulted \/ \E w \in Workers : Holding(w) /\ held[w] = f
    /\ phase = "recover" => recTodo = inflight

\* Recover knows which of its claims were buried.
RecoverKnowsDead ==
    phase = "recover" => \A f \in recTodo : f.env \in EnvsIn(dead) => f.env \in recSeen

OwnershipInv ==
    /\ OnlySessionsPut /\ QuarantineApart /\ BuriedUnattempted /\ BuriedStaysBuried
    /\ ClaimsOwned /\ RecoverKnowsDead

(* The second group needs a backoff that outlasts the two halves of        *)
(* Reschedule.                                                             *)

\* While its claim is being removed, the rescheduled copy cannot be claimed.
RescheduledNotDue ==
    phase = "up" =>
        \A w \in Workers, f \in ready :
            pc[w] = "rescheduled" /\ f.env = held[w].env => now < f.due

\* So an envelope has one claim at most,
InflightUnique == \A f, g \in inflight : f.env = g.env /\ f.env \notin faulted => f = g

\* the copy in q/, or else the claim, has the newest contents,
NewestKept ==
    /\ \A f \in ready : f.env \notin faulted => f.gen = gen[f.env]
    /\ \A f \in inflight :
          f.env \notin faulted => f.gen = gen[f.env] \/ f.env \in EnvsIn(ready)

\* Recover prefers the copy in q/ to a claim,
RecoverKnowsReady ==
    phase = "recover" =>
        \A f \in recTodo : f.env \in EnvsIn(ready) \ faulted => f.env \in recSeen

\* and what is delivered or parked has left the queue.
GoneIsGone == Gone \cap Stored \subseteq faulted

LeaseInv ==
    /\ OwnershipInv
    /\ RescheduledNotDue /\ InflightUnique /\ NewestKept /\ RecoverKnowsReady /\ GoneIsGone

(* The third group is about bodies, when no message was split: then the    *)
(* envelope that a collection excepts is the only one that could refer to  *)
(* the body.                                                               *)

Unsplit == \A e, d \in Envs : BodyOf[e] = BodyOf[d] => e = d

Collecting(a) == pc[a] \in {"gc_q", "gc_inflight", "gc_quarantine", "gc_unlink"}

\* A session that has handed nothing over yet has its body on disk, and sessions
\* exist only while the gateway serves.
SessionBody ==
    /\ \A b \in Bodies : txn[b] = "spooled" /\ EnvsOf(b) \cap handed = {} => b \in data
    /\ ~Serving => \A b \in Bodies : txn[b] # "spooled"

\* A worker collects the body of an envelope that has left the queue.
CollectsFinished ==
    \A w \in Workers : Collecting(w) =>
        \E e \in handed : /\ gc[w] = [body |-> BodyOf[e], except |-> e]
                          /\ e \in Stored => e \in faulted

\* SweepBodies runs alone: what it has read of the directories is still so.
SweepAlone ==
    Collecting("boot") =>
        /\ phase = "sweep" /\ gc["boot"].except = NoEnv
        /\ pc["boot"] # "gc_q" => ~bodyReferenced(ready, gc["boot"])
        /\ pc["boot"] \in {"gc_quarantine", "gc_unlink"} => ~bodyReferenced(inflight, gc["boot"])
        /\ pc["boot"] = "gc_unlink" => ~bodyReferenced(quarantine, gc["boot"])

BodyInv == SessionBody /\ CollectsFinished /\ SweepAlone /\ BodyKept

(* The fourth group is about the bodies of all messages, split or not, as  *)
(* long as nothing happened that leaves an orphan for the next boot.       *)

Undisturbed == restarts = 0 /\ faulted = {} /\ parked = {}

\* Of a message whose body is still to come no envelope was handed over.
NewUnhanded == \A b \in Bodies : txn[b] = "new" => EnvsOf(b) \cap handed = {}

\* The first boot finds no claims.
FirstBoot == restarts = 0 /\ phase \notin {"up", "stopping"} => inflight = {} /\ recTodo = {}

\* The rescheduled copy stays in q/ until its claim is gone.
RescheduledReady == \A w \in Workers : pc[w] = "rescheduled" => held[w].env \in EnvsIn(ready)

\* A body waits for the first of its envelopes, has one, or is being collected: a
\* collector gives up only when it has seen another envelope of the message.
Owed(b) ==
    \/ txn[b] = "spooled" /\ EnvsOf(b) \cap handed = {}
    \/ b \in {BodyOf[e] : e \in Stored}
    \/ \E w \in Workers : Collecting(w) /\ gc[w].body = b

BodyOwed == Undisturbed => \A b \in data : Owed(b)

OrphanInv == NewUnhanded /\ FirstBoot /\ RescheduledReady /\ BodyOwed
=============================================================================
