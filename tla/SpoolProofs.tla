---------------------------- MODULE SpoolProofs ----------------------------
(***************************************************************************)
(* Theorems about module Spool, for any sets of envelopes, bodies, workers *)
(* and operators, any number of restarts and failed moves, and a disk of   *)
(* any speed (SlowDisk is not constrained).  The safety theorems assume    *)
(* MinBackoff > 0, as a hypothesis of each.                                *)
(***************************************************************************)
EXTENDS Spool, TLAPS

TypeInv == TypeOK /\ HoldsFile

----------------------------------------------------------------------------
(* The helpers.                                                             *)

\* A file renamed into a directory leaves it a directory of files.
LEMMA PutType ==
    ASSUME NEW dir \in SUBSET File, NEW f \in File
    PROVE  Put(dir, f) \in SUBSET File
BY DEF Put

\* The envelopes of a directory are envelopes.
LEMMA EnvsInType ==
    ASSUME NEW dir \in SUBSET File
    PROVE  EnvsIn(dir) \in SUBSET Envs
BY DEF EnvsIn, File

\* Workers, operators and the boot sequence are different actors.
LEMMA WorkerFacts ==
    ASSUME NEW w \in Workers
    PROVE  w \in Actors /\ w \notin Operators /\ w # "boot"
BY SpoolAssumption DEF Actors

----------------------------------------------------------------------------
(* Type correctness.                                                        *)

\* The initial state is well typed.
LEMMA InitType == Init => TypeInv
<1> SUFFICES ASSUME Init PROVE TypeInv
    OBVIOUS
<1>1. ready \in SUBSET File /\ inflight \in SUBSET File /\ quarantine \in SUBSET File /\ dead \in SUBSET File
    BY SpoolAssumption DEF Init, File
<1>2. data \in SUBSET Bodies /\ handed \in SUBSET Envs
    BY SpoolAssumption DEF Init
<1>3. txn \in [Bodies -> {"new", "spooled", "accepted", "refused", "aborted"}]
    BY DEF Init
<1>4. /\ pc \in [Actors -> {"idle", "claimed", "done", "rescheduled", "buried", "gc_q",
                          "gc_inflight", "gc_quarantine", "gc_unlink"}]
      /\ held \in [Actors -> File \cup {NoFile}]
      /\ gc \in [Actors -> [body : Bodies \cup {NoBody}, except : Envs \cup {NoEnv}]]
    BY DEF Init, NoTarget
<1>5. HoldsFile
    BY WorkerFacts DEF Init, HoldsFile, Holding, Attempting
<1>6. gen \in [Envs -> Nat] /\ recTodo \in SUBSET File
    BY DEF Init
<1> QED
    BY <1>1, <1>2, <1>3, <1>4, <1>5, <1>6 DEF TypeInv, TypeOK, Init

\* The session's operations keep the types.
LEMMA SessionType == TypeInv /\ SessionNext => TypeInv'
<1> SUFFICES ASSUME TypeInv, SessionNext PROVE TypeInv'
    OBVIOUS
<1> USE DEF TypeInv, TypeOK, HoldsFile, Holding, Attempting, disk, boot, actors, history
<1>1. ASSUME NEW b \in Bodies, WriteBody(b) \/ RemoveBody(b) \/ EnqueueFail(b) \/ Accept(b)
      PROVE  TypeInv'
    <2>1. CASE WriteBody(b)
        BY <2>1 DEF WriteBody
    <2>2. CASE RemoveBody(b)
        BY <2>2 DEF RemoveBody
    <2>3. CASE EnqueueFail(b)
        BY <2>3 DEF EnqueueFail, EnvsOf
    <2>4. CASE Accept(b)
        BY <2>4 DEF Accept
    <2> QED
        BY <1>1, <2>1, <2>2, <2>3, <2>4
<1>2. ASSUME NEW e \in Envs, Enqueue(e) \/ Quarantine(e)
      PROVE  TypeInv'
    <2>0. [env |-> e, due |-> now, gen |-> 0] \in File /\ [env |-> e, due |-> 0, gen |-> 0] \in File
        BY DEF File
    <2>1. CASE Enqueue(e)
        BY <2>0, <2>1, PutType DEF Enqueue
    <2>2. CASE Quarantine(e)
        BY <2>0, <2>2, PutType DEF Quarantine
    <2> QED
        BY <1>2, <2>1, <2>2
<1> QED
    BY <1>1, <1>2 DEF SessionNext

\* A step of a body collection leaves the envelope files alone and ends with its
\* actor collecting or idle.
LEMMA CollectEffect ==
    ASSUME NEW a \in Actors, Collect(a)
    PROVE  /\ UNCHANGED <<ready, inflight, quarantine, dead, parked, now, boot, txn, handed, history>>
           /\ data' = data \/ data' = data \ {gc[a].body}
           /\ pc[a] \in {"gc_q", "gc_inflight", "gc_quarantine", "gc_unlink"}
           /\ \E s \in {"idle", "gc_inflight", "gc_quarantine", "gc_unlink"} : pc' = [pc EXCEPT ![a] = s]
           /\ held' = held \/ held' = [held EXCEPT ![a] = NoFile]
           /\ gc' = gc \/ gc' = [gc EXCEPT ![a] = NoTarget]
<1> USE DEF GcStop, Idle, disk
<1>1. CASE GcScanReady(a)
    BY <1>1 DEF GcScanReady, GcScan
<1>2. CASE GcScanInflight(a)
    BY <1>2 DEF GcScanInflight, GcScan
<1>3. CASE GcScanQuarantine(a)
    BY <1>3 DEF GcScanQuarantine, GcScan
<1>4. CASE GcUnlink(a)
    BY <1>4 DEF GcUnlink
<1> QED
    BY <1>1, <1>2, <1>3, <1>4 DEF Collect

\* A body collection keeps the types, whoever runs it.
LEMMA CollectType == ASSUME NEW a \in Actors, TypeInv, Collect(a) PROVE TypeInv'
<1> USE DEF TypeInv, TypeOK, HoldsFile, Holding, Attempting, boot, history
<1>0. NoTarget \in [body : Bodies \cup {NoBody}, except : Envs \cup {NoEnv}]
    BY DEF NoTarget
<1>1. PICK s \in {"idle", "gc_inflight", "gc_quarantine", "gc_unlink"} : pc' = [pc EXCEPT ![a] = s]
    BY CollectEffect
<1>a. pc' \in [Actors -> {"idle", "claimed", "done", "rescheduled", "buried", "gc_q",
                          "gc_inflight", "gc_quarantine", "gc_unlink"}]
    BY <1>1
<1>b. held' \in [Actors -> File \cup {NoFile}]
    BY CollectEffect
<1>c. gc' \in [Actors -> [body : Bodies \cup {NoBody}, except : Envs \cup {NoEnv}]]
    BY <1>0, CollectEffect
<1>3. HoldsFile'
    <2> SUFFICES ASSUME NEW w \in Workers, Holding(w)' PROVE held'[w] \in File
        OBVIOUS
    <2>1. w # a
        BY <1>1
    <2> QED
        BY <1>1, <2>1, WorkerFacts, CollectEffect
<1> QED
    BY <1>a, <1>b, <1>c, <1>3, CollectEffect

\* The unlink of a replaced claim keeps the types.
LEMMA ReplacedType ==
    ASSUME TypeInv, NEW w \in Workers, UnlinkReplaced(w)
    PROVE  TypeInv'
<1> USE DEF TypeInv, TypeOK, HoldsFile, Holding, Attempting, boot
<1>0. /\ w \in Actors /\ held[w] \in File /\ held[w].env \in Envs /\ BodyOf[held[w].env] \in Bodies
      /\ pc[w] \in {"claimed", "done", "rescheduled", "buried"}
    <2>1. pc[w] \in {"claimed", "done", "rescheduled", "buried"}
        BY DEF UnlinkReplaced
    <2>2. w \in Actors /\ held[w] \in File
        BY <2>1, WorkerFacts
    <2> QED
        BY <2>1, <2>2, SpoolAssumption DEF File
<1>1. PICK there \in SUBSET inflight : there = Named(inflight, held[w]) /\ inflight' = inflight \ there
    BY DEF UnlinkReplaced, Named
<1>2. EnvsIn(there) \in SUBSET Envs
    BY <1>1, EnvsInType
<1>3. parked' \in SUBSET Envs /\ completed' \in SUBSET Envs /\ inflight' \in SUBSET File
    BY <1>0, <1>1, <1>2 DEF UnlinkReplaced
<1>4. /\ \/ pc' = [pc EXCEPT ![w] = "idle"] /\ held' = [held EXCEPT ![w] = NoFile]
         \/ pc' = [pc EXCEPT ![w] = "gc_q"] /\ held' = held
      /\ \/ gc' = gc
         \/ gc' = [gc EXCEPT ![w] = [body |-> BodyOf[held[w].env], except |-> held[w].env]]
      /\ UNCHANGED <<ready, quarantine, dead, data, now, boot, txn, handed, faulted, gen>>
    BY DEF UnlinkReplaced, Idle
<1>5. [body |-> BodyOf[held[w].env], except |-> held[w].env] \in [body : Bodies \cup {NoBody}, except : Envs \cup {NoEnv}]
    BY <1>0
<1>6. gc' \in [Actors -> [body : Bodies \cup {NoBody}, except : Envs \cup {NoEnv}]]
    BY <1>4, <1>5
<1>7. /\ pc' \in [Actors -> {"idle", "claimed", "done", "rescheduled", "buried", "gc_q",
                            "gc_inflight", "gc_quarantine", "gc_unlink"}]
      /\ held' \in [Actors -> File \cup {NoFile}]
    BY <1>4
<1>8. HoldsFile'
    BY <1>4, WorkerFacts
<1> QED
    BY <1>3, <1>4, <1>6, <1>7, <1>8

\* The delivery workers keep the types.
LEMMA WorkerType == TypeInv /\ WorkerNext => TypeInv'
<1> SUFFICES ASSUME TypeInv, NEW w \in Workers,
                    (\E f \in ready : Claim(w, f)) \/ Attempt(w) \/ Finish(w) \/ Collect(w)
             PROVE  TypeInv'
    BY DEF WorkerNext
<1> USE DEF TypeInv, TypeOK, HoldsFile, Holding, Attempting, disk, boot, actors, history
<1>0. w \in Actors /\ NoTarget \in [body : Bodies \cup {NoBody}, except : Envs \cup {NoEnv}]
    BY WorkerFacts DEF NoTarget
<1>1. ASSUME NEW f \in ready, Claim(w, f) PROVE TypeInv'
    BY <1>0, <1>1, PutType DEF Claim
<1>2. CASE Attempt(w)
    <2>0. Holding(w) /\ held[w] \in File
        BY <1>2 DEF Attempt, Park, Relay, RescheduleWrite, BuryWrite, MoveFail
    <2>a. held[w].env \in Envs /\ held[w].gen + 1 \in Nat
        BY <2>0 DEF File
    <2>1. CASE Park(w)
        BY <1>0, <2>a, <2>1 DEF Park, Idle
    <2>2. CASE Relay(w)
        BY <1>0, <2>0, <2>2 DEF Relay
    <2>3. CASE RescheduleWrite(w)
        <3>1. PICK due \in now .. MaxTime :
                ready' = Put(ready, [env |-> held[w].env, due |-> due, gen |-> held[w].gen + 1])
            BY <2>3 DEF RescheduleWrite
        <3>2. [env |-> held[w].env, due |-> due, gen |-> held[w].gen + 1] \in File
            BY <2>a DEF File
        <3>3. ready' \in SUBSET File
            BY <3>1, <3>2, PutType
        <3> QED
            BY <1>0, <2>0, <2>a, <2>3, <3>3 DEF RescheduleWrite
    <2>4. CASE BuryWrite(w)
        <3>1. [env |-> held[w].env, due |-> 0, gen |-> held[w].gen + 1] \in File
            BY <2>a DEF File
        <3> QED
            BY <1>0, <2>0, <2>4, <3>1, PutType DEF BuryWrite
    <2>5. CASE MoveFail(w)
        BY <1>0, <2>a, <2>5 DEF MoveFail, Idle
    <2> QED
        BY <1>2, <2>1, <2>2, <2>3, <2>4, <2>5 DEF Attempt
<1>3. CASE Finish(w)
    <2>4. CASE UnlinkReplaced(w)
        BY <2>4, ReplacedType
    <2> SUFFICES ASSUME ~UnlinkReplaced(w) PROVE TypeInv'
        BY <2>4
    <2>0. held[w] \in File
        BY <1>3 DEF Finish, Complete, RescheduleRemove, BuryRemove
    <2>a. held[w].env \in Envs /\ BodyOf[held[w].env] \in Bodies
        BY <2>0, SpoolAssumption DEF File
    <2>1. CASE Complete(w)
        BY <1>0, <2>a, <2>1 DEF Complete
    <2>2. CASE RescheduleRemove(w)
        BY <1>0, <2>2 DEF RescheduleRemove, Idle
    <2>3. CASE BuryRemove(w)
        BY <1>0, <2>a, <2>3 DEF BuryRemove
    <2> QED
        BY <1>3, <2>1, <2>2, <2>3 DEF Finish
<1>4. CASE Collect(w)
    BY <1>0, <1>4, CollectType DEF TypeInv
<1> QED
    BY <1>1, <1>2, <1>3, <1>4

\* The process: boot, recovery, shutdown, crash and the clock keep the types.
LEMMA ProcessType == TypeInv /\ (Start \/ Shutdown \/ Crash \/ Exit \/ Tick) => TypeInv'
<1> SUFFICES ASSUME TypeInv, Start \/ Shutdown \/ Crash \/ Exit \/ Tick PROVE TypeInv'
    OBVIOUS
<1> USE DEF TypeInv, TypeOK, HoldsFile, Holding, Attempting, disk, boot, actors, history
<1>0. "boot" \in Actors
    BY DEF Actors
<1>1. CASE SweepStart
    BY <1>1 DEF SweepStart
<1>2. ASSUME NEW b \in Bodies, SweepBody(b) PROVE TypeInv'
    BY <1>0, <1>2, WorkerFacts DEF SweepBody
<1>3. CASE Collect("boot")
    BY <1>0, <1>3, CollectType DEF TypeInv
<1>4. CASE RecoverStart
    BY <1>4, EnvsInType DEF RecoverStart, Recover
<1>5. ASSUME NEW f \in recTodo, RecoverEntry(f) PROVE TypeInv'
    <2>1. f \in File /\ [f EXCEPT !.due = recDue] \in File
        BY DEF File
    <2>2. ready' \in SUBSET File
        BY <1>5, <2>1, PutType DEF RecoverEntry
    <2> QED
        BY <1>5, <2>2 DEF RecoverEntry
<1>6. CASE RecoverDone
    BY <1>6 DEF RecoverDone
<1>7. CASE RecoverFail
    BY <1>7, EnvsInType DEF RecoverFail
<1>8. CASE Shutdown
    BY <1>8 DEF Shutdown
<1>9. CASE Crash \/ Exit
    <2> USE <1>9 DEF Crash, Exit, Halt
    <2>1. txn' \in [Bodies -> {"new", "spooled", "accepted", "refused", "aborted"}]
        OBVIOUS
    <2>2. /\ pc' \in [Actors -> {"idle", "claimed", "done", "rescheduled", "buried", "gc_q",
                                "gc_inflight", "gc_quarantine", "gc_unlink"}]
          /\ held' \in [Actors -> File \cup {NoFile}]
          /\ gc' \in [Actors -> [body : Bodies \cup {NoBody}, except : Envs \cup {NoEnv}]]
        BY DEF NoTarget
    <2>3. HoldsFile'
        BY WorkerFacts
    <2> QED
        BY <2>1, <2>2, <2>3
<1>10. CASE Tick
    BY <1>10 DEF Tick
<1> QED
    BY <1>1, <1>2, <1>3, <1>4, <1>5, <1>6, <1>7, <1>8, <1>9, <1>10 DEF Start

\* TypeInv is inductive.
LEMMA TypeStep == TypeInv /\ [Next]_vars => TypeInv'
<1> SUFFICES ASSUME TypeInv, [Next]_vars PROVE TypeInv'
    OBVIOUS
<1>1. CASE UNCHANGED vars
    BY <1>1 DEF TypeInv, TypeOK, HoldsFile, Holding, Attempting, vars, disk, boot, actors, history
<1>2. CASE Poll
    BY <1>1, <1>2 DEF Poll
<1> QED
    BY <1>1, <1>2, SessionType, WorkerType, ProcessType DEF Next

\* Every reachable state of the spool, its workers, sessions and process is well
\* typed; in particular a worker that owes the spool a move has a file in hand.
THEOREM TypeCorrect == Spec => []TypeOK
<1>1. Init => TypeInv
    BY InitType
<1>2. TypeInv /\ [Next]_vars => TypeInv'
    BY TypeStep
<1>3. TypeInv => TypeOK
    BY DEF TypeInv
<1> QED
    BY <1>1, <1>2, <1>3, PTL DEF Spec
----------------------------------------------------------------------------
(* Safety.  Safe is SpoolInv without its types; each action preserves it.   *)

Safe ==
    /\ IdleUnlessUp /\ ClaimOnDisk /\ ClaimsDiffer
    /\ ReadyUnique /\ ReadyUnattempted /\ ReadyLater /\ QueuedWasHanded
    /\ RecoverListing /\ RescheduledElsewhere /\ BuriedOnDisk
    /\ NoMailLost /\ OneAttempt

\* Renaming a file into a directory adds its envelope and hides no other.
LEMMA EnvsInPut ==
    ASSUME NEW dir \in SUBSET File, NEW f \in File
    PROVE  EnvsIn(Put(dir, f)) = EnvsIn(dir) \cup {f.env}
<1>1. ASSUME NEW e \in EnvsIn(dir) PROVE e \in EnvsIn(Put(dir, f))
    BY DEF EnvsIn, Put
<1> QED
    BY <1>1 DEF EnvsIn, Put

\* Unlinking a file can only take its own envelope out of a directory.
LEMMA EnvsInUnlink ==
    ASSUME NEW dir, NEW f
    PROVE  EnvsIn(dir) \subseteq EnvsIn(dir \ {f}) \cup {f.env}
BY DEF EnvsIn

\* The initial state is safe.
LEMMA InitSafe == Init => Safe
<1> SUFFICES ASSUME Init PROVE Safe
    OBVIOUS
<1>1. \A w \in Workers : pc[w] = "idle"
    BY WorkerFacts DEF Init
<1>2. /\ IdleUnlessUp /\ ClaimOnDisk /\ ClaimsDiffer /\ ReadyUnattempted /\ ReadyLater
      /\ RescheduledElsewhere /\ BuriedOnDisk /\ OneAttempt
    BY <1>1 DEF IdleUnlessUp, ClaimOnDisk, ClaimsDiffer, ReadyUnattempted, ReadyLater,
        RescheduledElsewhere, BuriedOnDisk, OneAttempt, Holding, Attempting
<1>3. ReadyUnique /\ RecoverListing
    BY DEF Init, ReadyUnique, RecoverListing
<1>4. EnvsIn(ready) = Spooled0 /\ EnvsIn(inflight) = {}
    <2>1. ASSUME NEW e \in Spooled0 PROVE e \in EnvsIn(ready)
        <3>1. [env |-> e, due |-> 0, gen |-> 0] \in ready
            BY DEF Init
        <3> QED
            BY <3>1 DEF EnvsIn
    <2>2. \A f \in ready : f.env \in Spooled0
        BY DEF Init
    <2> QED
        BY <2>1, <2>2 DEF EnvsIn, Init
<1>5. QueuedWasHanded /\ NoMailLost
    BY <1>4 DEF Init, QueuedWasHanded, NoMailLost, Stored
<1> QED
    BY <1>2, <1>3, <1>5 DEF Safe

\* Steps that touch no envelope file, and after which a worker either has the
\* claim it had before or none, are safe.
LEMMA Frame ==
    ASSUME SpoolInv,
           UNCHANGED <<ready, inflight, quarantine, dead, parked, now, phase,
                       recTodo, recSeen, recDue, handed, completed>>,
           \A w \in Workers : Holding(w)' => pc'[w] = pc[w] /\ held'[w] = held[w],
           phase \notin {"up", "stopping"} => \A w \in Workers : pc'[w] = "idle"
    PROVE  Safe'
<1> USE DEF SpoolInv, Holding, Attempting, EnvsIn, Stored, Settled
<1>1. IdleUnlessUp' /\ ClaimOnDisk' /\ BuriedOnDisk'
    BY DEF IdleUnlessUp, ClaimOnDisk, BuriedOnDisk
<1>2. ClaimsDiffer' /\ OneAttempt'
    BY DEF ClaimsDiffer, OneAttempt
<1>3. ReadyUnique' /\ ReadyUnattempted' /\ ReadyLater'
    BY DEF ReadyUnique, ReadyUnattempted, ReadyLater
<1>4. QueuedWasHanded' /\ RecoverListing' /\ NoMailLost'
    BY DEF QueuedWasHanded, RecoverListing, NoMailLost
<1>5. RescheduledElsewhere'
    BY DEF RescheduledElsewhere
<1> QED
    BY <1>1, <1>2, <1>3, <1>4, <1>5 DEF Safe

\* The session's steps outside the envelope directories are safe.
LEMMA SessionFrameSafe ==
    ASSUME SpoolInv, NEW b \in Bodies, WriteBody(b) \/ RemoveBody(b) \/ EnqueueFail(b) \/ Accept(b)
    PROVE  Safe'
<1>1. /\ UNCHANGED <<ready, inflight, quarantine, dead, parked, now, phase,
                     recTodo, recSeen, recDue, handed, completed>>
      /\ UNCHANGED <<pc, held>>
    BY DEF WriteBody, RemoveBody, EnqueueFail, Accept, disk, boot, actors, history
<1> QED
    BY <1>1, Frame DEF SpoolInv, IdleUnlessUp

\* So is collecting a body.
LEMMA CollectSafe ==
    ASSUME SpoolInv, NEW a \in Actors, Collect(a)
    PROVE  Safe'
<1>0. TypeOK /\ IdleUnlessUp
    BY DEF SpoolInv
<1>1. PICK s \in {"idle", "gc_inflight", "gc_quarantine", "gc_unlink"} : pc' = [pc EXCEPT ![a] = s]
    BY CollectEffect
<1>2. \A w \in Workers : Holding(w)' => pc'[w] = pc[w] /\ held'[w] = held[w]
    <2> SUFFICES ASSUME NEW w \in Workers, Holding(w)' PROVE pc'[w] = pc[w] /\ held'[w] = held[w]
        OBVIOUS
    <2>1. w # a
        BY <1>0, <1>1, WorkerFacts DEF Holding, Attempting, TypeOK
    <2> QED
        BY <1>0, <1>1, <2>1, WorkerFacts, CollectEffect DEF TypeOK
<1>3. phase \notin {"up", "stopping"} => \A w \in Workers : pc'[w] = "idle"
    BY <1>0, <1>1, CollectEffect, WorkerFacts DEF IdleUnlessUp, TypeOK
<1> QED
    BY <1>2, <1>3, CollectEffect, Frame DEF boot, history

\* Enqueue is safe: an envelope the session has not handed over is in neither
\* q/ nor inflight/, so the new file is its only one.
LEMMA EnqueueSafe ==
    ASSUME SpoolInv, NEW e \in Envs, Enqueue(e)
    PROVE  Safe'
<1> DEFINE f == [env |-> e, due |-> now, gen |-> 0]
<1>0. /\ TypeOK /\ f \in File /\ ready' = Put(ready, f)
      /\ UNCHANGED <<inflight, quarantine, dead, parked, now, phase, recTodo, recSeen, recDue,
                     pc, held, completed>>
    BY DEF SpoolInv, TypeOK, Enqueue, File, boot, actors, history
<1>1. EnvsIn(ready') = EnvsIn(ready) \cup {e} /\ handed' = handed \cup {e}
    BY <1>0, EnvsInPut DEF TypeOK, Enqueue
<1>2. e \notin EnvsIn(ready) /\ e \notin EnvsIn(inflight)
    BY DEF SpoolInv, QueuedWasHanded, Enqueue
<1>3. \A g \in ready' : g \in ready \/ (g = f /\ g.env = e)
    BY <1>0 DEF Put
<1>4. \A w \in Workers : Holding(w) => held[w].env # e
    BY <1>2 DEF SpoolInv, ClaimOnDisk, EnvsIn
<1>5. \A g \in recTodo : phase = "recover" => g.env # e
    BY <1>2 DEF SpoolInv, RecoverListing, EnvsIn
<1>6. IdleUnlessUp' /\ ClaimOnDisk' /\ ClaimsDiffer' /\ BuriedOnDisk' /\ OneAttempt'
    BY <1>0 DEF SpoolInv, IdleUnlessUp, ClaimOnDisk, ClaimsDiffer, BuriedOnDisk, OneAttempt,
        Holding, Attempting, EnvsIn
<1>7. ReadyUnique'
    BY <1>2, <1>3 DEF SpoolInv, ReadyUnique, EnvsIn
<1>8. ReadyUnattempted' /\ ReadyLater'
    BY <1>0, <1>3, <1>4 DEF SpoolInv, ReadyUnattempted, ReadyLater, Holding, Attempting
<1>9. QueuedWasHanded' /\ NoMailLost'
    BY <1>0, <1>1 DEF SpoolInv, QueuedWasHanded, NoMailLost, Stored, Settled, EnvsIn
<1>10. RecoverListing'
    BY <1>0, <1>1, <1>3, <1>5 DEF SpoolInv, RecoverListing, EnvsIn
<1>11. RescheduledElsewhere'
    BY <1>0, <1>1 DEF SpoolInv, RescheduledElsewhere, Settled, EnvsIn
<1> QED
    BY <1>6, <1>7, <1>8, <1>9, <1>10, <1>11 DEF Safe

\* Quarantine is safe: it adds a place where the envelope is stored.
LEMMA QuarantineSafe ==
    ASSUME SpoolInv, NEW e \in Envs, Quarantine(e)
    PROVE  Safe'
<1> DEFINE f == [env |-> e, due |-> 0, gen |-> 0]
<1>0. /\ TypeOK /\ f \in File /\ quarantine' = Put(quarantine, f) /\ handed' = handed \cup {e}
      /\ UNCHANGED <<ready, inflight, dead, parked, now, phase, recTodo, recSeen, recDue,
                     pc, held, completed>>
    BY DEF SpoolInv, TypeOK, Quarantine, File, boot, actors, history
<1>1. EnvsIn(quarantine') = EnvsIn(quarantine) \cup {e}
    BY <1>0, EnvsInPut DEF TypeOK
<1>2. IdleUnlessUp' /\ ClaimOnDisk' /\ ClaimsDiffer' /\ BuriedOnDisk' /\ OneAttempt'
    BY <1>0 DEF SpoolInv, IdleUnlessUp, ClaimOnDisk, ClaimsDiffer, BuriedOnDisk, OneAttempt,
        Holding, Attempting, EnvsIn
<1>3. ReadyUnique' /\ ReadyUnattempted' /\ ReadyLater' /\ RescheduledElsewhere'
    BY <1>0 DEF SpoolInv, ReadyUnique, ReadyUnattempted, ReadyLater, RescheduledElsewhere,
        Attempting, Settled, EnvsIn
<1>4. QueuedWasHanded' /\ NoMailLost'
    BY <1>0, <1>1 DEF SpoolInv, QueuedWasHanded, NoMailLost, Stored, Settled, EnvsIn
<1>5. RecoverListing'
    BY <1>0, <1>1 DEF SpoolInv, RecoverListing, EnvsIn
<1> QED
    BY <1>2, <1>3, <1>4, <1>5 DEF Safe

\* Claim is safe: the file is the only one of its envelope in q/ (ReadyUnique),
\* nobody attempts that envelope (ReadyUnattempted), and a claim of it that is
\* about to be removed has an earlier due time, hence another name (ReadyLater).
LEMMA ClaimSafe ==
    ASSUME SpoolInv, TypeInv', NEW w \in Workers, NEW f \in ready, Claim(w, f)
    PROVE  Safe'
<1>0. /\ TypeOK /\ f \in File /\ f.due <= now /\ phase = "up"
      /\ ready' = ready \ {f} /\ inflight' = Put(inflight, f)
      /\ UNCHANGED <<quarantine, dead, parked, now, phase, handed, completed>>
    BY DEF SpoolInv, TypeOK, Claim, boot, history
<1>1. EnvsIn(inflight') = EnvsIn(inflight) \cup {f.env} /\ f \in inflight'
    BY <1>0, EnvsInPut DEF TypeOK, Put
<1>2. \A g \in ready' : g \in ready /\ g.env # f.env
    BY <1>0 DEF SpoolInv, ReadyUnique
<1>3. pc' = [pc EXCEPT ![w] = "claimed"] /\ held' = [held EXCEPT ![w] = f] /\ w \in Actors
    BY WorkerFacts DEF Claim
<1>4. \A v \in Workers : v # w => pc'[v] = pc[v] /\ held'[v] = held[v]
    BY <1>0, <1>3, WorkerFacts DEF TypeOK
<1>5. pc'[w] = "claimed" /\ held'[w] = f
    BY <1>0, <1>3 DEF TypeOK
<1>6. \A v \in Workers : v # w /\ Holding(v) => held[v].env # f.env \/ held[v].due < f.due
    BY <1>0 DEF SpoolInv, ReadyUnattempted, ReadyLater, Holding
<1>7. \A v \in Workers : v # w /\ Attempting(v) => held[v].env # f.env
    BY DEF SpoolInv, ReadyUnattempted
<1>8. \A v \in Workers : v # w /\ Holding(v) => held[v] \in inflight' /\ held[v] \in File
    BY <1>0, <1>6 DEF SpoolInv, ClaimOnDisk, HoldsFile, Put, File
<1>9. IdleUnlessUp' /\ ClaimOnDisk' /\ BuriedOnDisk'
    BY <1>0, <1>1, <1>4, <1>5, <1>8 DEF SpoolInv, IdleUnlessUp, ClaimOnDisk, BuriedOnDisk,
        Holding, Attempting, EnvsIn
<1>10. ClaimsDiffer'
    <2> SUFFICES ASSUME NEW u \in Workers, NEW v \in Workers, Holding(u)', Holding(v)', u # v
                 PROVE  held'[u].env # held'[v].env \/ held'[u].due # held'[v].due
        BY DEF ClaimsDiffer
    <2>1. f.due \in Nat /\ \A x \in Workers : x # w /\ Holding(x) => held[x].due \in Nat
        BY <1>0, <1>8 DEF File
    <2> QED
        BY <1>4, <1>5, <1>6, <2>1 DEF SpoolInv, ClaimsDiffer, Holding, Attempting
<1>11. OneAttempt'
    BY <1>4, <1>5, <1>7 DEF SpoolInv, OneAttempt, Attempting
<1>12. ReadyUnique' /\ ReadyUnattempted' /\ ReadyLater'
    BY <1>0, <1>2, <1>4, <1>5 DEF SpoolInv, ReadyUnique, ReadyUnattempted, ReadyLater, Attempting
<1>13. QueuedWasHanded' /\ RecoverListing'
    BY <1>0, <1>1, <1>2 DEF SpoolInv, QueuedWasHanded, RecoverListing, EnvsIn
<1>14. NoMailLost'
    BY <1>0, <1>1, EnvsInUnlink DEF SpoolInv, NoMailLost, Stored, Settled, EnvsIn
<1>15. RescheduledElsewhere'
    <2> SUFFICES ASSUME NEW v \in Workers, pc'[v] = "rescheduled"
                 PROVE  \/ held'[v].env \in Settled' \cup EnvsIn(ready')
                        \/ \E g \in inflight' : g.env = held'[v].env /\ held'[v].due < g.due
        BY DEF RescheduledElsewhere
    <2>1. v # w /\ pc[v] = "rescheduled" /\ held'[v] = held[v]
        BY <1>4, <1>5
    <2>2. CASE held[v].env \in Settled
        BY <1>0, <2>1, <2>2 DEF Settled, EnvsIn
    <2>3. CASE held[v].env \in EnvsIn(ready)
        BY <1>0, <1>1, <1>6, <2>1, <2>3 DEF EnvsIn, Holding
    <2>4. ASSUME NEW g \in inflight, g.env = held[v].env, held[v].due < g.due
          PROVE  \E h \in inflight' : h.env = held[v].env /\ held[v].due < h.due
        BY <1>0, <1>1, <2>4 DEF Put
    <2> QED
        BY <2>1, <2>2, <2>3, <2>4 DEF SpoolInv, RescheduledElsewhere
<1> QED
    BY <1>9, <1>10, <1>11, <1>12, <1>13, <1>14, <1>15 DEF Safe

\* What Relay, BuryWrite and RescheduleWrite have in common: the files in
\* inflight/, the clock and the files in hand stay, one worker moves on.
LEMMA AdvanceSafe ==
    ASSUME SpoolInv, NEW w \in Workers, NEW s \in {"done", "rescheduled", "buried"},
           pc[w] = "claimed", pc' = [pc EXCEPT ![w] = s],
           UNCHANGED <<inflight, held, now, phase>>
    PROVE  /\ w \in Actors /\ pc'[w] = s /\ phase \in {"up", "stopping"}
           /\ \A v \in Workers : v # w => pc'[v] = pc[v]
           /\ IdleUnlessUp' /\ ClaimOnDisk' /\ ClaimsDiffer' /\ OneAttempt'
<1>1. /\ w \in Actors /\ pc'[w] = s
      /\ \A v \in Workers : v # w => pc'[v] = pc[v]
    BY WorkerFacts DEF SpoolInv, TypeOK
<1>2. phase \in {"up", "stopping"}
    BY DEF SpoolInv, IdleUnlessUp
<1>3. IdleUnlessUp' /\ ClaimOnDisk'
    BY <1>1, <1>2 DEF SpoolInv, IdleUnlessUp, ClaimOnDisk, Holding, Attempting
<1>4. ClaimsDiffer' /\ OneAttempt'
    BY <1>1 DEF SpoolInv, ClaimsDiffer, OneAttempt, Holding, Attempting
<1> QED
    BY <1>1, <1>2, <1>3, <1>4

\* A relay's answer changes nothing on disk.
LEMMA RelaySafe ==
    ASSUME SpoolInv, NEW w \in Workers, Relay(w)
    PROVE  Safe'
<1>0. /\ pc[w] = "claimed" /\ pc' = [pc EXCEPT ![w] = "done"]
      /\ UNCHANGED <<ready, inflight, quarantine, dead, parked, now, phase, recTodo, recSeen,
                     recDue, handed, held, completed>>
    BY DEF Relay, disk, boot, history
<1>1. /\ pc'[w] = "done" /\ \A v \in Workers : v # w => pc'[v] = pc[v]
      /\ IdleUnlessUp' /\ ClaimOnDisk' /\ ClaimsDiffer' /\ OneAttempt'
    BY <1>0, AdvanceSafe
<1>2. ReadyUnique' /\ ReadyUnattempted' /\ ReadyLater' /\ BuriedOnDisk' /\ RescheduledElsewhere'
    BY <1>0, <1>1 DEF SpoolInv, ReadyUnique, ReadyUnattempted, ReadyLater, BuriedOnDisk,
        RescheduledElsewhere, Attempting, Settled, EnvsIn
<1>3. QueuedWasHanded' /\ RecoverListing' /\ NoMailLost'
    BY <1>0 DEF SpoolInv, QueuedWasHanded, RecoverListing, NoMailLost, Stored, Settled, EnvsIn
<1> QED
    BY <1>1, <1>2, <1>3 DEF Safe

\* Reschedule's write is safe: the worker was the only one to attempt the envelope
\* and q/ had no copy of it; while the gateway runs the new one is due later than
\* the claim, which was due when it was taken: MinBackoff > 0 is used here only.
LEMMA RescheduleWriteSafe ==
    ASSUME MinBackoff > 0, SpoolInv, NEW w \in Workers, RescheduleWrite(w)
    PROVE  Safe'
<1>a. TypeOK /\ pc[w] = "claimed" /\ held[w] \in inflight /\ held[w] \in File /\ held[w].due <= now
    BY DEF SpoolInv, RescheduleWrite, ClaimOnDisk, HoldsFile, Holding, Attempting
<1>b. PICK due \in now .. MaxTime :
        /\ phase = "up" => due > now
        /\ ready' = Put(ready, [env |-> held[w].env, due |-> due, gen |-> held[w].gen + 1])
    BY <1>a, SpoolAssumption DEF RescheduleWrite, TypeOK
<1> DEFINE f == [env |-> held[w].env, due |-> due, gen |-> held[w].gen + 1]
<1>0. /\ f \in File /\ f.env = held[w].env /\ pc' = [pc EXCEPT ![w] = "rescheduled"]
      /\ UNCHANGED <<inflight, quarantine, dead, parked, now, phase, recTodo, recSeen, recDue,
                     handed, held, completed>>
    BY <1>a DEF RescheduleWrite, TypeOK, File, boot
<1>1. /\ pc'[w] = "rescheduled" /\ phase \in {"up", "stopping"}
      /\ \A v \in Workers : v # w => pc'[v] = pc[v]
      /\ IdleUnlessUp' /\ ClaimOnDisk' /\ ClaimsDiffer' /\ OneAttempt'
    BY <1>a, <1>0, AdvanceSafe
<1>2. EnvsIn(ready') = EnvsIn(ready) \cup {held[w].env}
    BY <1>a, <1>b, <1>0, EnvsInPut DEF TypeOK
<1>3. /\ \A g \in ready' : g \in ready \/ g = f
      /\ \A g \in ready : g.env # held[w].env
    BY <1>a, <1>b DEF SpoolInv, ReadyUnattempted, Attempting, Put
<1>4. ReadyUnique'
    BY <1>0, <1>3 DEF SpoolInv, ReadyUnique
<1>5. ReadyUnattempted'
    <2>1. \A v \in Workers : v # w /\ Attempting(v) => held[v].env # held[w].env
        BY <1>a DEF SpoolInv, OneAttempt, Attempting
    <2> QED
        BY <1>0, <1>1, <1>3, <2>1 DEF SpoolInv, ReadyUnattempted, Attempting
<1>6. ReadyLater'
    <2> SUFFICES ASSUME phase = "up", NEW v \in Workers, pc'[v] = "rescheduled",
                        NEW g \in ready', g.env = held[v].env
                 PROVE  held[v].due < g.due
        BY <1>0 DEF ReadyLater
    <2>1. CASE g = f
        <3>1. held[v] \in File /\ held[v].due <= now
            BY <1>a, <1>1 DEF SpoolInv, HoldsFile, ClaimOnDisk, Holding
        <3> QED
            BY <1>b, <2>1, <3>1 DEF File, SpoolInv, TypeOK
    <2>2. CASE g \in ready
        BY <1>1, <1>3, <2>2 DEF SpoolInv, ReadyLater
    <2> QED
        BY <1>3, <2>1, <2>2
<1>7. QueuedWasHanded' /\ NoMailLost'
    BY <1>a, <1>0, <1>2 DEF SpoolInv, QueuedWasHanded, NoMailLost, Stored, Settled, EnvsIn
<1>8. RecoverListing' /\ BuriedOnDisk'
    BY <1>0, <1>1 DEF SpoolInv, RecoverListing, BuriedOnDisk, EnvsIn
<1>9. RescheduledElsewhere'
    <2>1. Settled' = Settled
        BY <1>0 DEF Settled, EnvsIn
    <2> QED
        BY <1>0, <1>1, <1>2, <2>1 DEF SpoolInv, RescheduledElsewhere
<1> QED
    BY <1>1, <1>4, <1>5, <1>6, <1>7, <1>8, <1>9 DEF Safe

\* Bury's write is safe: it only adds the record in dead/.
LEMMA BuryWriteSafe ==
    ASSUME SpoolInv, NEW w \in Workers, BuryWrite(w)
    PROVE  Safe'
<1> DEFINE f == [env |-> held[w].env, due |-> 0, gen |-> held[w].gen + 1]
<1>a. TypeOK /\ pc[w] = "claimed" /\ held[w] \in File
    BY DEF SpoolInv, BuryWrite, HoldsFile, Holding, Attempting
<1>0. /\ f \in File /\ dead' = Put(dead, f) /\ pc' = [pc EXCEPT ![w] = "buried"]
      /\ UNCHANGED <<ready, inflight, quarantine, parked, now, phase, recTodo, recSeen, recDue,
                     handed, held, completed>>
    BY <1>a DEF BuryWrite, File, boot, history
<1>1. /\ pc'[w] = "buried" /\ phase \in {"up", "stopping"}
      /\ \A v \in Workers : v # w => pc'[v] = pc[v]
      /\ IdleUnlessUp' /\ ClaimOnDisk' /\ ClaimsDiffer' /\ OneAttempt'
    BY <1>a, <1>0, AdvanceSafe
<1>2. EnvsIn(dead') = EnvsIn(dead) \cup {held[w].env}
    BY <1>a, <1>0, EnvsInPut DEF TypeOK
<1>3. ReadyUnique' /\ ReadyUnattempted' /\ ReadyLater'
    BY <1>a, <1>0, <1>1 DEF SpoolInv, ReadyUnique, ReadyUnattempted, ReadyLater, Attempting
<1>4. BuriedOnDisk'
    BY <1>0, <1>1, <1>2 DEF SpoolInv, BuriedOnDisk
<1>5. QueuedWasHanded' /\ RecoverListing'
    BY <1>0, <1>1 DEF SpoolInv, QueuedWasHanded, RecoverListing, EnvsIn
<1>6. NoMailLost'
    BY <1>0, <1>2 DEF SpoolInv, NoMailLost, Stored, Settled, EnvsIn
<1>7. RescheduledElsewhere'
    <2>1. Settled \subseteq Settled' /\ EnvsIn(ready') = EnvsIn(ready)
        BY <1>0, <1>2 DEF Settled
    <2> QED
        BY <1>0, <1>1, <2>1 DEF SpoolInv, RescheduledElsewhere
<1> QED
    BY <1>1, <1>3, <1>4, <1>5, <1>6, <1>7 DEF Safe

\* Removing a claim is safe when its envelope is settled, back in q/, or claimed
\* again with a later due time: what Park, Complete and the second halves of
\* Reschedule and Bury rest on.
LEMMA UnlinkSafe ==
    ASSUME SpoolInv, NEW w \in Workers, Holding(w),
           inflight' = inflight \ {held[w]},
           NEW s \in {"idle", "gc_q"}, pc' = [pc EXCEPT ![w] = s],
           held' = held \/ held' = [held EXCEPT ![w] = NoFile],
           UNCHANGED <<ready, quarantine, dead, now, phase, recTodo, recSeen, recDue, handed>>,
           completed \subseteq completed', parked \subseteq parked',
           \/ held[w].env \in Settled' \cup EnvsIn(ready)
           \/ \E f \in inflight : f.env = held[w].env /\ held[w].due < f.due
    PROVE  Safe'
<1>1. pc'[w] = s /\ \A v \in Workers : v # w => pc'[v] = pc[v] /\ held'[v] = held[v]
    BY WorkerFacts DEF SpoolInv, TypeOK
<1>2. ~Holding(w)' /\ \A v \in Workers : v # w => Holding(v)' = Holding(v)
    BY <1>1 DEF Holding, Attempting
<1>3. phase \in {"up", "stopping"} /\ held[w] \in File
    BY DEF SpoolInv, IdleUnlessUp, HoldsFile, Holding, Attempting
<1>4. Settled \subseteq Settled'
    BY DEF Settled
<1>5. \/ held[w].env \in Settled' \cup EnvsIn(ready)
      \/ \E f \in inflight' : f.env = held[w].env /\ held[w].due < f.due
    BY <1>3 DEF File
<1>6. IdleUnlessUp' /\ ClaimOnDisk'
    BY <1>1, <1>2, <1>3 DEF SpoolInv, IdleUnlessUp, ClaimOnDisk, ClaimsDiffer
<1>7. ClaimsDiffer' /\ OneAttempt' /\ BuriedOnDisk'
    BY <1>1, <1>2 DEF SpoolInv, ClaimsDiffer, OneAttempt, BuriedOnDisk, Holding, Attempting
<1>8. ReadyUnique' /\ ReadyUnattempted' /\ ReadyLater'
    BY <1>1 DEF SpoolInv, ReadyUnique, ReadyUnattempted, ReadyLater, Attempting
<1>9. QueuedWasHanded' /\ RecoverListing'
    BY <1>3 DEF SpoolInv, QueuedWasHanded, RecoverListing, EnvsIn
<1>10. NoMailLost'
    <2>1. held[w].env \in Settled' \cup Stored'
        BY <1>5 DEF Stored, EnvsIn
    <2>2. EnvsIn(inflight) \subseteq EnvsIn(inflight') \cup {held[w].env}
        BY EnvsInUnlink
    <2> QED
        BY <1>4, <2>1, <2>2 DEF SpoolInv, NoMailLost, Stored
<1>11. RescheduledElsewhere'
    <2> SUFFICES ASSUME NEW v \in Workers, pc'[v] = "rescheduled"
                 PROVE  \/ held'[v].env \in Settled' \cup EnvsIn(ready')
                        \/ \E g \in inflight' : g.env = held'[v].env /\ held'[v].due < g.due
        BY DEF RescheduledElsewhere
    <2>1. v # w /\ pc[v] = "rescheduled" /\ held'[v] = held[v] /\ held[v] \in File
        BY <1>1 DEF SpoolInv, HoldsFile, Holding
    <2>2. CASE held[v].env \in Settled \cup EnvsIn(ready)
        BY <1>4, <2>1, <2>2 DEF EnvsIn
    <2>3. ASSUME NEW g \in inflight, g.env = held[v].env, held[v].due < g.due, g # held[w]
          PROVE  \E h \in inflight' : h.env = held[v].env /\ held[v].due < h.due
        BY <2>3
    <2>4. ASSUME held[w].env = held[v].env, held[v].due < held[w].due
          PROVE  \/ held[v].env \in Settled' \cup EnvsIn(ready)
                 \/ \E h \in inflight' : h.env = held[v].env /\ held[v].due < h.due
        <3>1. ASSUME NEW h \in inflight', h.env = held[w].env, held[w].due < h.due
              PROVE  h.env = held[v].env /\ held[v].due < h.due
            <4>1. h.due \in Nat /\ held[v].due \in Nat /\ held[w].due \in Nat
                BY <1>3, <2>1, <3>1 DEF SpoolInv, TypeOK, File
            <4> QED
                BY <2>4, <3>1, <4>1
        <3> QED
            BY <1>5, <2>4, <3>1
    <2> QED
        BY <2>1, <2>2, <2>3, <2>4 DEF SpoolInv, RescheduledElsewhere, EnvsIn
<1> QED
    BY <1>6, <1>7, <1>8, <1>9, <1>10, <1>11 DEF Safe

\* Parking an unreadable envelope is safe: dead/ has it.
LEMMA ParkSafe ==
    ASSUME SpoolInv, NEW w \in Workers, Park(w)
    PROVE  Safe'
BY UnlinkSafe DEF Park, Idle, Holding, Attempting, Settled, boot, history

\* Completing is safe: the envelope was delivered.
LEMMA CompleteSafe ==
    ASSUME SpoolInv, NEW w \in Workers, Complete(w)
    PROVE  Safe'
BY UnlinkSafe DEF Complete, Holding, Attempting, Settled, boot

\* Reschedule's removal is safe: the write before it, or whoever claimed and
\* finished that copy since, accounts for the envelope.
LEMMA RescheduleRemoveSafe ==
    ASSUME SpoolInv, NEW w \in Workers, RescheduleRemove(w)
    PROVE  Safe'
<1>1. Settled' = Settled
    BY DEF RescheduleRemove, Settled, EnvsIn, history
<1>2. \/ held[w].env \in Settled' \cup EnvsIn(ready)
      \/ \E f \in inflight : f.env = held[w].env /\ held[w].due < f.due
    BY <1>1 DEF RescheduleRemove, SpoolInv, RescheduledElsewhere
<1> QED
    BY <1>2, UnlinkSafe DEF RescheduleRemove, Idle, Holding, boot, history

\* Bury's removal is safe: dead/ has the envelope.
LEMMA BuryRemoveSafe ==
    ASSUME SpoolInv, NEW w \in Workers, BuryRemove(w)
    PROVE  Safe'
<1>1. held[w].env \in Settled'
    BY DEF BuryRemove, SpoolInv, BuriedOnDisk, Settled, EnvsIn
<1> QED
    BY <1>1, UnlinkSafe DEF BuryRemove, Holding, Attempting, boot, history

\* No claim is replaced: the one a worker holds is on disk.
LEMMA NoneReplaced ==
    ASSUME SpoolInv, NEW w \in Workers
    PROVE  ~UnlinkReplaced(w)
BY DEF SpoolInv, ClaimOnDisk, Holding, Attempting, UnlinkReplaced

\* A failed file operation leaves the claim where it is.
LEMMA MoveFailSafe ==
    ASSUME SpoolInv, NEW w \in Workers, MoveFail(w)
    PROVE  Safe'
<1>1. /\ UNCHANGED <<ready, inflight, quarantine, dead, parked, now, phase,
                     recTodo, recSeen, recDue, handed, completed>>
      /\ pc' = [pc EXCEPT ![w] = "idle"] /\ held' = [held EXCEPT ![w] = NoFile]
    BY DEF MoveFail, Idle, disk, boot
<1>2. pc'[w] = "idle" /\ \A v \in Workers : v # w => pc'[v] = pc[v] /\ held'[v] = held[v]
    BY <1>1, WorkerFacts DEF SpoolInv, TypeOK
<1>3. \A v \in Workers : Holding(v)' => pc'[v] = pc[v] /\ held'[v] = held[v]
    BY <1>2 DEF Holding, Attempting
<1>4. phase \notin {"up", "stopping"} => \A v \in Workers : pc'[v] = "idle"
    BY <1>2 DEF SpoolInv, IdleUnlessUp
<1> QED
    BY <1>1, <1>3, <1>4, Frame

----------------------------------------------------------------------------
(* Boot, recovery and shutdown.                                             *)

\* While no worker holds a claim, all that is asked of the spool is what is left.
LEMMA QuietSafe ==
    ASSUME \A w \in Workers : pc'[w] = "idle",
           ReadyUnique', QueuedWasHanded', RecoverListing', NoMailLost'
    PROVE  Safe'
<1>1. \A w \in Workers : ~Holding(w)' /\ ~Attempting(w)'
    BY DEF Holding, Attempting
<1>2. IdleUnlessUp' /\ ClaimOnDisk' /\ ClaimsDiffer' /\ ReadyUnattempted' /\ OneAttempt'
    BY <1>1 DEF IdleUnlessUp, ClaimOnDisk, ClaimsDiffer, ReadyUnattempted, OneAttempt
<1>3. ReadyLater' /\ RescheduledElsewhere' /\ BuriedOnDisk'
    BY DEF ReadyLater, RescheduledElsewhere, BuriedOnDisk
<1> QED
    BY <1>2, <1>3 DEF Safe

\* The sweep and the start and end of Recover move no envelope; Recover's listing
\* and its set of committed uuids are what is on disk.
LEMMA BootSafe ==
    ASSUME SpoolInv, SweepStart \/ RecoverStart \/ RecoverDone \/ RecoverFail
    PROVE  Safe'
<1>1. /\ UNCHANGED <<disk, handed, pc, completed>>
      /\ \A w \in Workers : pc[w] = "idle"
    BY DEF SpoolInv, IdleUnlessUp, SweepStart, RecoverStart, Recover, RecoverDone, RecoverFail,
        actors, history
<1>2. ReadyUnique' /\ QueuedWasHanded' /\ NoMailLost'
    BY <1>1 DEF SpoolInv, ReadyUnique, QueuedWasHanded, NoMailLost, Stored, Settled, EnvsIn, disk
<1>3. RecoverListing'
    BY <1>1 DEF RecoverListing, SweepStart, RecoverStart, Recover, RecoverDone, RecoverFail,
        EnvsIn, disk
<1> QED
    BY <1>1, <1>2, <1>3, QuietSafe

\* SweepBody only picks a body to look at.
LEMMA SweepBodySafe ==
    ASSUME SpoolInv, NEW b \in Bodies, SweepBody(b)
    PROVE  Safe'
<1>1. /\ UNCHANGED <<ready, inflight, quarantine, dead, parked, now, phase,
                     recTodo, recSeen, recDue, handed, held, completed>>
      /\ pc' = [pc EXCEPT !["boot"] = "gc_q"]
    BY DEF SweepBody, disk, history
<1>2. \A w \in Workers : pc'[w] = pc[w]
    BY <1>1, WorkerFacts DEF SpoolInv, TypeOK
<1> QED
    BY <1>1, <1>2, Frame DEF SpoolInv, IdleUnlessUp

\* One entry of Recover is safe: what it drops is committed in q/, dead/ or
\* quarantine/, and what it puts back is the only copy in q/, because an earlier
\* copy of the same envelope was put under the same name.
LEMMA RecoverEntrySafe ==
    ASSUME SpoolInv, NEW f \in recTodo, RecoverEntry(f)
    PROVE  Safe'
<1> DEFINE r == [f EXCEPT !.due = recDue]
<1>0. /\ TypeOK /\ phase = "recover" /\ f \in inflight /\ f \in File
      /\ recTodo \subseteq inflight
      /\ recSeen \subseteq EnvsIn(ready) \cup EnvsIn(dead) \cup EnvsIn(quarantine)
      /\ \A g \in recTodo, h \in ready : g.env = h.env => h.env \in recSeen \/ h.due = recDue
    BY DEF SpoolInv, TypeOK, RecoverEntry, RecoverListing
<1>1. /\ recTodo' = recTodo \ {f} /\ inflight' = inflight \ {f}
      /\ UNCHANGED <<quarantine, dead, parked, now, phase, recSeen, recDue, handed, pc, completed>>
    BY DEF RecoverEntry, actors, history
<1>2. \A w \in Workers : pc'[w] = "idle"
    BY <1>0, <1>1 DEF SpoolInv, IdleUnlessUp
<1>3. r \in File /\ r.env = f.env /\ r.due = recDue
    BY <1>0 DEF File, TypeOK
<1>4. CASE f.env \in recSeen
    <2>1. ready' = ready
        BY <1>4 DEF RecoverEntry
    <2>2. ReadyUnique' /\ QueuedWasHanded'
        BY <1>1, <2>1 DEF SpoolInv, ReadyUnique, QueuedWasHanded, EnvsIn
    <2>3. RecoverListing'
        BY <1>0, <1>1, <2>1 DEF RecoverListing, EnvsIn
    <2>4. NoMailLost'
        <3>1. EnvsIn(inflight) \subseteq EnvsIn(inflight') \cup {f.env}
            BY <1>1, EnvsInUnlink
        <3>2. f.env \in Stored' \cup Settled'
            BY <1>0, <1>1, <1>4, <2>1 DEF Stored, Settled
        <3> QED
            BY <1>1, <2>1, <3>1, <3>2 DEF SpoolInv, NoMailLost, Stored, Settled
    <2> QED
        BY <1>2, <2>2, <2>3, <2>4, QuietSafe
<1>5. CASE f.env \notin recSeen
    <2>1. ready' = Put(ready, r)
        BY <1>5 DEF RecoverEntry
    <2>2. EnvsIn(ready') = EnvsIn(ready) \cup {f.env}
        BY <1>0, <1>3, <2>1, EnvsInPut DEF TypeOK
    <2>3. \A g \in ready' : g = r \/ (g \in ready /\ g.env # f.env)
        <3>1. \A g \in ready : g.env = f.env => g.due = recDue
            BY <1>0, <1>5
        <3> QED
            BY <1>3, <2>1, <3>1 DEF Put
    <2>4. ReadyUnique'
        BY <1>3, <2>3 DEF SpoolInv, ReadyUnique
    <2>5. QueuedWasHanded'
        BY <1>0, <1>1, <2>2 DEF SpoolInv, QueuedWasHanded, EnvsIn
    <2>6. RecoverListing'
        BY <1>0, <1>1, <1>3, <2>2, <2>3 DEF RecoverListing
    <2>7. NoMailLost'
        <3>1. EnvsIn(inflight) \subseteq EnvsIn(inflight') \cup {f.env}
            BY <1>1, EnvsInUnlink
        <3> QED
            BY <1>1, <2>2, <3>1 DEF SpoolInv, NoMailLost, Stored, Settled
    <2> QED
        BY <1>2, <2>4, <2>5, <2>6, <2>7, QuietSafe
<1> QED
    BY <1>4, <1>5

\* Shutdown only stops the claiming.
LEMMA ShutdownSafe == ASSUME SpoolInv, Shutdown PROVE Safe'
<1>1. /\ UNCHANGED <<disk, now, handed, pc, held, completed>>
      /\ phase = "up" /\ phase' = "stopping"
    BY DEF Shutdown, actors, history
<1>2. IdleUnlessUp' /\ ClaimOnDisk' /\ ClaimsDiffer' /\ OneAttempt' /\ BuriedOnDisk'
    BY <1>1 DEF SpoolInv, IdleUnlessUp, ClaimOnDisk, ClaimsDiffer, OneAttempt, BuriedOnDisk,
        Holding, Attempting, EnvsIn, disk
<1>3. ReadyUnique' /\ ReadyUnattempted' /\ ReadyLater' /\ RecoverListing'
    BY <1>1 DEF SpoolInv, ReadyUnique, ReadyUnattempted, ReadyLater, RecoverListing, Attempting, disk
<1>4. QueuedWasHanded' /\ NoMailLost' /\ RescheduledElsewhere'
    BY <1>1 DEF SpoolInv, QueuedWasHanded, NoMailLost, RescheduledElsewhere, Stored, Settled, EnvsIn, disk
<1> QED
    BY <1>2, <1>3, <1>4 DEF Safe

\* A crash or an exit keeps the disk and forgets the workers.
LEMMA HaltSafe == ASSUME SpoolInv, Halt PROVE Safe'
<1>1. UNCHANGED <<disk, handed, completed>> /\ phase' = "down"
    BY DEF Halt, history
<1>2. \A w \in Workers : pc'[w] = "idle"
    BY WorkerFacts DEF Halt
<1>3. ReadyUnique' /\ QueuedWasHanded' /\ RecoverListing' /\ NoMailLost'
    BY <1>1 DEF SpoolInv, ReadyUnique, QueuedWasHanded, RecoverListing, NoMailLost,
        Stored, Settled, EnvsIn, disk
<1> QED
    BY <1>2, <1>3, QuietSafe

\* Time makes claims older and nothing else.
LEMMA TickSafe == ASSUME SpoolInv, Tick PROVE Safe'
<1>1. UNCHANGED <<disk, phase, recTodo, recSeen, recDue, handed, pc, held, completed>> /\ now' = now + 1
    BY DEF Tick, boot, actors, history
<1>2. ClaimOnDisk'
    <2> SUFFICES ASSUME NEW w \in Workers, Holding(w)
                 PROVE  held[w] \in inflight /\ held[w].due <= now + 1
        BY <1>1 DEF ClaimOnDisk, Holding, Attempting, disk
    <2>1. held[w].due \in Nat /\ now \in Nat
        BY DEF SpoolInv, TypeOK, HoldsFile, File
    <2> QED
        BY <2>1 DEF SpoolInv, ClaimOnDisk
<1>3. IdleUnlessUp' /\ ClaimsDiffer' /\ OneAttempt' /\ BuriedOnDisk'
    BY <1>1 DEF SpoolInv, IdleUnlessUp, ClaimsDiffer, OneAttempt, BuriedOnDisk,
        Holding, Attempting, EnvsIn, disk
<1>4. ReadyUnique' /\ ReadyUnattempted' /\ ReadyLater' /\ RecoverListing'
    BY <1>1 DEF SpoolInv, ReadyUnique, ReadyUnattempted, ReadyLater, RecoverListing, Attempting,
        EnvsIn, disk
<1>5. QueuedWasHanded' /\ NoMailLost' /\ RescheduledElsewhere'
    BY <1>1 DEF SpoolInv, QueuedWasHanded, NoMailLost, RescheduledElsewhere, Stored, Settled, EnvsIn, disk
<1> QED
    BY <1>2, <1>3, <1>4, <1>5 DEF Safe

----------------------------------------------------------------------------
(* The theorems.                                                            *)

\* SpoolInv is inductive when no backoff is shorter than a second.
LEMMA SpoolInvStep ==
    ASSUME MinBackoff > 0
    PROVE  SpoolInv /\ [Next]_vars => SpoolInv'
<1> SUFFICES ASSUME SpoolInv, [Next]_vars PROVE SpoolInv'
    OBVIOUS
<1>0. TypeInv'
    BY TypeStep DEF SpoolInv, TypeInv
<1> SUFFICES Safe'
    BY <1>0 DEF SpoolInv, TypeInv, Safe
<1>1. CASE SessionNext
    BY <1>1, SessionFrameSafe, EnqueueSafe, QuarantineSafe DEF SessionNext
<1>2. ASSUME NEW w \in Workers,
             (\E f \in ready : Claim(w, f)) \/ Attempt(w) \/ Finish(w) \/ Collect(w)
      PROVE  Safe'
    <2>1. CASE \E f \in ready : Claim(w, f)
        BY <1>0, <2>1, ClaimSafe
    <2>2. CASE Attempt(w)
        BY <2>2, ParkSafe, RelaySafe, RescheduleWriteSafe, BuryWriteSafe, MoveFailSafe DEF Attempt
    <2>3. CASE Finish(w)
        BY <2>3, CompleteSafe, RescheduleRemoveSafe, BuryRemoveSafe, NoneReplaced DEF Finish
    <2>4. CASE Collect(w)
        BY <2>4, CollectSafe, WorkerFacts
    <2> QED
        BY <1>2, <2>1, <2>2, <2>3, <2>4
<1>3. CASE Start
    <2>1. "boot" \in Actors
        BY DEF Actors
    <2> QED
        BY <1>3, <2>1, BootSafe, SweepBodySafe, CollectSafe, RecoverEntrySafe DEF Start
<1>4. CASE Shutdown \/ Crash \/ Exit \/ Tick
    BY <1>4, ShutdownSafe, HaltSafe, TickSafe DEF Crash, Exit
<1>5. CASE UNCHANGED vars
    BY <1>5, Frame DEF SpoolInv, IdleUnlessUp, vars, disk, boot, actors, history
<1> QED
    BY <1>1, <1>2, <1>3, <1>4, <1>5 DEF Next, WorkerNext, Poll

\* When no backoff is shorter than a second, every reachable state satisfies the
\* inductive invariant.
THEOREM SpoolInvariant ==
    ASSUME MinBackoff > 0
    PROVE  Spec => []SpoolInv
<1>1. Init => SpoolInv
    BY InitType, InitSafe DEF SpoolInv, TypeInv, Safe
<1>2. SpoolInv /\ [Next]_vars => SpoolInv'
    BY SpoolInvStep
<1> QED
    BY <1>1, <1>2, PTL DEF Spec

\* No envelope a session put into the spool is ever lost: whatever crashes,
\* restarts and failed file operations come between the file operations of Claim,
\* Reschedule, Bury, Complete and Recover, it is in q/, inflight/ or quarantine/
\* until it was delivered, buried or parked.  The hypothesis is about the
\* configuration, which does not enforce it: with a backoff that jitter brings
\* below a second the claim is lost in a race (run SpoolShortBackoff).
THEOREM MailIsNeverLost ==
    ASSUME MinBackoff > 0
    PROVE  Spec => []NoMailLost
<1>1. SpoolInv => NoMailLost
    BY DEF SpoolInv
<1> QED
    BY <1>1, SpoolInvariant, PTL

\* The rename in Claim is a lock: no two workers attempt the same envelope at the
\* same time, also after Recover requeued what a crashed process had claimed.
THEOREM ClaimIsExclusive ==
    ASSUME MinBackoff > 0
    PROVE  Spec => []OneAttempt
<1>1. SpoolInv => OneAttempt
    BY DEF SpoolInv
<1> QED
    BY <1>1, SpoolInvariant, PTL

============================================================================
