-------------------------- MODULE SpoolQueueProofs --------------------------
(***************************************************************************)
(* Theorems about module SpoolQueue, for any sets of envelopes, bodies,    *)
(* workers and operators and any number of restarts and failed file        *)
(* operations: what is buried or finished stays so, Recover keeps the      *)
(* newest contents, and the spool implements the queue with leases.        *)
(*                                                                         *)
(* OwnershipInv is inductive on a disk of any speed.  LeaseInv is          *)
(* inductive when SlowDisk = FALSE: a backoff outlasts the two file        *)
(* operations of Reschedule.                                               *)
(***************************************************************************)
EXTENDS SpoolQueue, SpoolProofs

OwnInv == SpoolInv /\ OwnershipInv

-----------------------------------------------------------------------------
(* The ownership invariant, action by action.                              *)

\* The initial state: everything is in q/, at generation 0.
LEMMA InitOwned == Init => OwnershipInv
<1> SUFFICES ASSUME Init PROVE OwnershipInv
    OBVIOUS
<1>1. \A w \in Workers : ~Attempting(w)
    BY WorkerFacts DEF Init, Attempting
<1> QED
    BY <1>1 DEF Init, OwnershipInv, OnlySessionsPut, QuarantineApart, BuriedUnattempted,
        BuriedStaysBuried, ClaimsOwned, RecoverKnowsDead, Gone, EnvsIn

\* Steps that leave the envelope files alone, and in which a worker either keeps
\* its claim or loses it to a failed operation.
LEMMA FrameOwned ==
    ASSUME OwnInv,
           UNCHANGED <<ready, inflight, quarantine, dead, parked, phase,
                       recTodo, recSeen, handed, completed, gen>>,
           faulted \subseteq faulted',
           \A w \in Workers : Attempting(w)' => Attempting(w) /\ held'[w] = held[w],
           \A w \in Workers : pc[w] = "buried" => pc'[w] = "buried" \/ ~Attempting(w)',
           \A w \in Workers : Holding(w) =>
               held[w].env \in faulted' \/ (Holding(w)' /\ held'[w] = held[w])
    PROVE  OwnershipInv'
<1> USE DEF OwnInv, OwnershipInv
<1>1. OnlySessionsPut' /\ QuarantineApart' /\ BuriedStaysBuried' /\ RecoverKnowsDead'
    BY DEF OnlySessionsPut, QuarantineApart, BuriedStaysBuried, RecoverKnowsDead, Gone, EnvsIn
<1>2. BuriedUnattempted'
    BY DEF BuriedUnattempted, EnvsIn
<1>3. ClaimsOwned'
    BY DEF ClaimsOwned
<1> QED
    BY <1>1, <1>2, <1>3

\* Enqueue puts an envelope that was never in the spool.
LEMMA EnqueueOwned ==
    ASSUME OwnInv, NEW e \in Envs, Enqueue(e)
    PROVE  OwnershipInv'
<1> DEFINE f == [env |-> e, due |-> now, gen |-> 0]
<1>0. /\ TypeOK /\ f \in File /\ ready' = Put(ready, f) /\ e \notin handed /\ handed' = handed \cup {e}
      /\ UNCHANGED <<inflight, quarantine, dead, parked, phase, recTodo, recSeen,
                     pc, held, completed, faulted, gen>>
    BY DEF OwnInv, SpoolInv, TypeOK, Enqueue, File, boot, actors, history
<1>1. EnvsIn(ready') = EnvsIn(ready) \cup {e}
    BY <1>0, EnvsInPut DEF TypeOK
<1>2. EnvsIn(inflight') = EnvsIn(inflight) /\ EnvsIn(quarantine') = EnvsIn(quarantine)
      /\ EnvsIn(dead') = EnvsIn(dead)
    BY <1>0
<1>3. OnlySessionsPut' /\ QuarantineApart' /\ BuriedStaysBuried'
    BY <1>0, <1>1, <1>2 DEF OwnInv, OwnershipInv, OnlySessionsPut, QuarantineApart, BuriedStaysBuried, Gone
<1>4. BuriedUnattempted' /\ ClaimsOwned' /\ RecoverKnowsDead'
    BY <1>0, <1>2 DEF OwnInv, OwnershipInv, BuriedUnattempted, ClaimsOwned, RecoverKnowsDead, Attempting, Holding
<1> QED
    BY <1>3, <1>4 DEF OwnershipInv

\* So does Quarantine.
LEMMA QuarantineOwned ==
    ASSUME OwnInv, NEW e \in Envs, Quarantine(e)
    PROVE  OwnershipInv'
<1> DEFINE f == [env |-> e, due |-> 0, gen |-> 0]
<1>0. /\ TypeOK /\ f \in File /\ quarantine' = Put(quarantine, f) /\ e \notin handed /\ handed' = handed \cup {e}
      /\ UNCHANGED <<ready, inflight, dead, parked, phase, recTodo, recSeen,
                     pc, held, completed, faulted, gen>>
    BY DEF OwnInv, SpoolInv, TypeOK, Quarantine, File, boot, actors, history
<1>1. EnvsIn(quarantine') = EnvsIn(quarantine) \cup {e}
    BY <1>0, EnvsInPut DEF TypeOK
<1>2. EnvsIn(inflight') = EnvsIn(inflight) /\ EnvsIn(ready') = EnvsIn(ready)
      /\ EnvsIn(dead') = EnvsIn(dead)
    BY <1>0
<1>3. e \notin EnvsIn(ready) \cup EnvsIn(inflight) \cup EnvsIn(dead) \cup Gone
    BY <1>0 DEF OwnInv, SpoolInv, QueuedWasHanded, OwnershipInv, OnlySessionsPut
<1>4. OnlySessionsPut' /\ QuarantineApart' /\ BuriedStaysBuried'
    BY <1>0, <1>1, <1>2, <1>3 DEF OwnInv, OwnershipInv, OnlySessionsPut, QuarantineApart, BuriedStaysBuried, Gone
<1>5. BuriedUnattempted' /\ ClaimsOwned' /\ RecoverKnowsDead'
    BY <1>0, <1>2 DEF OwnInv, OwnershipInv, BuriedUnattempted, ClaimsOwned, RecoverKnowsDead, Attempting, Holding
<1> QED
    BY <1>4, <1>5 DEF OwnershipInv

\* What Claim does to one worker, and that it touches no other.
LEMMA ClaimEffect ==
    ASSUME OwnInv, NEW w \in Workers, NEW f \in ready, Claim(w, f)
    PROVE  /\ TypeOK /\ f \in File /\ f.due <= now /\ phase = "up"
           /\ ready' = ready \ {f} /\ inflight' = Put(inflight, f)
           /\ UNCHANGED <<quarantine, dead, parked, now, phase, recTodo, recSeen, handed,
                          completed, faulted, gen>>
           /\ EnvsIn(inflight') = EnvsIn(inflight) \cup {f.env}
           /\ EnvsIn(ready') \subseteq EnvsIn(ready)
           /\ ~Holding(w) /\ pc'[w] = "claimed" /\ held'[w] = f
           /\ \A v \in Workers : v # w => pc'[v] = pc[v] /\ held'[v] = held[v]
<1>1. /\ TypeOK /\ f \in File /\ f.due <= now /\ phase = "up"
      /\ ready' = ready \ {f} /\ inflight' = Put(inflight, f)
      /\ UNCHANGED <<quarantine, dead, parked, now, phase, recTodo, recSeen, handed,
                     completed, faulted, gen>>
    BY DEF OwnInv, SpoolInv, TypeOK, Claim, boot, history
<1>2. EnvsIn(inflight') = EnvsIn(inflight) \cup {f.env} /\ EnvsIn(ready') \subseteq EnvsIn(ready)
    BY <1>1, EnvsInPut DEF TypeOK, EnvsIn
<1>3. /\ pc[w] = "idle" /\ pc' = [pc EXCEPT ![w] = "claimed"]
      /\ held' = [held EXCEPT ![w] = f] /\ w \in Actors
    BY WorkerFacts DEF Claim
<1>4. /\ ~Holding(w) /\ pc'[w] = "claimed" /\ held'[w] = f
      /\ \A v \in Workers : v # w => pc'[v] = pc[v] /\ held'[v] = held[v]
    BY <1>1, <1>3, WorkerFacts DEF TypeOK, Holding, Attempting
<1> QED
    BY <1>1, <1>2, <1>4

\* Claim takes an envelope that is not buried and owns it.
LEMMA ClaimOwned ==
    ASSUME OwnInv, NEW w \in Workers, NEW f \in ready, Claim(w, f)
    PROVE  OwnershipInv'
<1>0. f.env \in EnvsIn(ready)
    BY DEF EnvsIn
<1>1. OnlySessionsPut' /\ QuarantineApart' /\ BuriedStaysBuried' /\ RecoverKnowsDead'
    BY <1>0, ClaimEffect DEF OwnInv, OwnershipInv, OnlySessionsPut, QuarantineApart,
        BuriedStaysBuried, RecoverKnowsDead, Gone
<1>2. BuriedUnattempted'
    BY <1>0, ClaimEffect DEF OwnInv, OwnershipInv, BuriedUnattempted, BuriedStaysBuried, Attempting
<1>3. ClaimsOwned'
    <2> SUFFICES ASSUME NEW g \in inflight'
                 PROVE  g.env \in faulted \/ \E v \in Workers : Holding(v)' /\ held'[v] = g
        BY ClaimEffect DEF ClaimsOwned
    <2>1. CASE g = f
        BY <2>1, ClaimEffect DEF Holding, Attempting
    <2>2. CASE g \in inflight
        <3>1. g.env \in faulted \/ \E v \in Workers : Holding(v) /\ held[v] = g
            BY <2>2, ClaimEffect DEF OwnInv, OwnershipInv, ClaimsOwned
        <3> QED
            BY <3>1, ClaimEffect DEF Holding, Attempting
    <2> QED
        BY <2>1, <2>2, ClaimEffect DEF Put
<1> QED
    BY <1>1, <1>2, <1>3 DEF OwnershipInv

\* What Reschedule's write does: one worker moves on, q/ gains the one copy of its
\* envelope, a generation newer than the claim.
LEMMA RescheduleEffect ==
    ASSUME OwnInv, NEW w \in Workers, RescheduleWrite(w)
    PROVE  /\ TypeOK /\ Attempting(w) /\ pc[w] = "claimed" /\ held[w] \in inflight /\ held[w] \in File
           /\ \E due \in Nat :
                /\ phase = "up" => now + MinBackoff <= due
                /\ ready' = Put(ready, [env |-> held[w].env, due |-> due, gen |-> held[w].gen + 1])
                /\ [env |-> held[w].env, due |-> due, gen |-> held[w].gen + 1] \in File
           /\ EnvsIn(ready') = EnvsIn(ready) \cup {held[w].env}
           /\ UNCHANGED <<inflight, quarantine, dead, parked, now, phase, recTodo, recSeen,
                          handed, held, completed, faulted>>
           /\ gen' = [gen EXCEPT ![held[w].env] = held[w].gen + 1]
           /\ pc'[w] = "rescheduled" /\ \A v \in Workers : v # w => pc'[v] = pc[v]
<1>1. TypeOK /\ Attempting(w) /\ pc[w] = "claimed" /\ held[w] \in inflight /\ held[w] \in File
    BY DEF OwnInv, SpoolInv, RescheduleWrite, ClaimOnDisk, HoldsFile, Holding, Attempting
<1>2. PICK due \in now .. MaxTime :
        /\ phase = "up" => now + MinBackoff <= due
        /\ ready' = Put(ready, [env |-> held[w].env, due |-> due, gen |-> held[w].gen + 1])
    BY <1>1, SpoolAssumption DEF RescheduleWrite, TypeOK
<1>3. due \in Nat /\ [env |-> held[w].env, due |-> due, gen |-> held[w].gen + 1] \in File
    BY <1>1 DEF TypeOK, File
<1>4. EnvsIn(ready') = EnvsIn(ready) \cup {held[w].env}
    BY <1>1, <1>2, <1>3, EnvsInPut DEF TypeOK
<1>5. /\ UNCHANGED <<inflight, quarantine, dead, parked, now, phase, recTodo, recSeen,
                     handed, held, completed, faulted>>
      /\ gen' = [gen EXCEPT ![held[w].env] = held[w].gen + 1]
      /\ pc' = [pc EXCEPT ![w] = "rescheduled"]
    BY DEF RescheduleWrite, boot
<1>6. pc'[w] = "rescheduled" /\ \A v \in Workers : v # w => pc'[v] = pc[v]
    BY <1>1, <1>5, WorkerFacts DEF TypeOK
<1>7. \E d \in Nat :
        /\ phase = "up" => now + MinBackoff <= d
        /\ ready' = Put(ready, [env |-> held[w].env, due |-> d, gen |-> held[w].gen + 1])
        /\ [env |-> held[w].env, due |-> d, gen |-> held[w].gen + 1] \in File
    BY <1>2, <1>3
<1> QED
    BY <1>1, <1>4, <1>5, <1>6, <1>7

\* Reschedule's write: a worker that has not buried its envelope puts it back.
LEMMA RescheduleWriteOwned ==
    ASSUME OwnInv, NEW w \in Workers, RescheduleWrite(w)
    PROVE  OwnershipInv'
<1>0. /\ held[w].env \in EnvsIn(inflight) /\ held[w].env \notin EnvsIn(dead)
      /\ held[w].env \in handed /\ held[w].env \in Envs
    BY RescheduleEffect DEF OwnInv, SpoolInv, QueuedWasHanded, OwnershipInv, BuriedUnattempted, EnvsIn, File
<1>1. QuarantineApart' /\ BuriedStaysBuried' /\ RecoverKnowsDead'
    BY <1>0, RescheduleEffect DEF OwnInv, OwnershipInv, QuarantineApart, BuriedStaysBuried,
        RecoverKnowsDead, Gone
<1>2. OnlySessionsPut'
    BY <1>0, RescheduleEffect DEF OwnInv, OwnershipInv, OnlySessionsPut, Gone, TypeOK
<1>3. BuriedUnattempted' /\ ClaimsOwned'
    BY RescheduleEffect DEF OwnInv, OwnershipInv, BuriedUnattempted, ClaimsOwned, Attempting, Holding
<1> QED
    BY <1>1, <1>2, <1>3 DEF OwnershipInv

\* What Bury's write does.
LEMMA BuryEffect ==
    ASSUME OwnInv, NEW w \in Workers, BuryWrite(w)
    PROVE  /\ TypeOK /\ Attempting(w) /\ held[w] \in inflight /\ held[w] \in File
           /\ EnvsIn(dead') = EnvsIn(dead) \cup {held[w].env}
           /\ UNCHANGED <<ready, inflight, quarantine, parked, now, phase, recTodo, recSeen,
                          handed, held, completed, faulted, gen>>
           /\ phase # "recover"
           /\ pc'[w] = "buried" /\ \A v \in Workers : v # w => pc'[v] = pc[v]
<1>1. TypeOK /\ Attempting(w) /\ held[w] \in inflight /\ held[w] \in File /\ phase # "recover"
    BY DEF OwnInv, SpoolInv, BuryWrite, ClaimOnDisk, HoldsFile, IdleUnlessUp, Holding, Attempting
<1>2. /\ dead' = Put(dead, [env |-> held[w].env, due |-> 0, gen |-> held[w].gen + 1])
      /\ UNCHANGED <<ready, inflight, quarantine, parked, now, phase, recTodo, recSeen,
                     handed, held, completed, faulted, gen>>
      /\ pc' = [pc EXCEPT ![w] = "buried"]
    BY DEF BuryWrite, boot, history
<1>3. [env |-> held[w].env, due |-> 0, gen |-> held[w].gen + 1] \in File
    BY <1>1 DEF File
<1>4. EnvsIn(dead') = EnvsIn(dead) \cup {held[w].env}
    BY <1>1, <1>2, <1>3, EnvsInPut DEF TypeOK
<1>5. pc'[w] = "buried" /\ \A v \in Workers : v # w => pc'[v] = pc[v]
    BY <1>1, <1>2, WorkerFacts DEF TypeOK
<1> QED
    BY <1>1, <1>2, <1>4, <1>5

\* Bury's write: the envelope is in nobody else's hands and not in q/.
LEMMA BuryWriteOwned ==
    ASSUME OwnInv, NEW w \in Workers, BuryWrite(w)
    PROVE  OwnershipInv'
<1>0. /\ held[w].env \in EnvsIn(inflight) /\ held[w].env \notin EnvsIn(ready)
      /\ held[w].env \in handed
    BY BuryEffect DEF OwnInv, SpoolInv, QueuedWasHanded, ReadyUnattempted, EnvsIn
<1>1. OnlySessionsPut' /\ QuarantineApart' /\ BuriedStaysBuried' /\ RecoverKnowsDead'
    BY <1>0, BuryEffect DEF OwnInv, OwnershipInv, OnlySessionsPut, QuarantineApart,
        BuriedStaysBuried, RecoverKnowsDead, Gone
<1>2. BuriedUnattempted'
    <2> SUFFICES ASSUME NEW v \in Workers, Attempting(v)', held'[v].env \in EnvsIn(dead'), v # w
                 PROVE  pc'[v] = "buried"
        BY BuryEffect DEF BuriedUnattempted
    <2>1. Attempting(v) /\ held[v].env # held[w].env
        BY BuryEffect DEF OwnInv, SpoolInv, OneAttempt, Attempting
    <2> QED
        BY <2>1, BuryEffect DEF OwnInv, OwnershipInv, BuriedUnattempted
<1>3. ClaimsOwned'
    BY BuryEffect DEF OwnInv, OwnershipInv, ClaimsOwned, Attempting, Holding
<1> QED
    BY <1>1, <1>2, <1>3 DEF OwnershipInv

\* What the ends of Park, Complete, Reschedule and Bury have in common.
LEMMA UnlinkEffect ==
    ASSUME OwnInv, NEW w \in Workers,
           Park(w) \/ Complete(w) \/ RescheduleRemove(w) \/ BuryRemove(w)
    PROVE  /\ TypeOK /\ Holding(w) /\ held[w] \in inflight /\ held[w] \in File
           /\ phase \in {"up", "stopping"}
           /\ inflight' = inflight \ {held[w]}
           /\ EnvsIn(inflight') \subseteq EnvsIn(inflight)
           /\ UNCHANGED <<ready, quarantine, dead, now, phase, recTodo, recSeen, handed, faulted, gen>>
           /\ Gone' = Gone \/ (Attempting(w) /\ Gone' = Gone \cup {held[w].env})
           /\ pc'[w] \in {"idle", "gc_q"}
           /\ \A v \in Workers : v # w => pc'[v] = pc[v] /\ held'[v] = held[v]
<1>1. TypeOK /\ Holding(w) /\ held[w] \in inflight /\ held[w] \in File /\ phase \in {"up", "stopping"}
    BY DEF OwnInv, SpoolInv, Park, Complete, RescheduleRemove, BuryRemove, ClaimOnDisk, HoldsFile,
        IdleUnlessUp, Holding, Attempting
<1>2. /\ inflight' = inflight \ {held[w]}
      /\ UNCHANGED <<ready, quarantine, dead, now, phase, recTodo, recSeen, handed, faulted, gen>>
      /\ \E s \in {"idle", "gc_q"} : pc' = [pc EXCEPT ![w] = s]
      /\ held' = held \/ held' = [held EXCEPT ![w] = NoFile]
    BY DEF Park, Complete, RescheduleRemove, BuryRemove, Idle, boot, history
<1>3. Gone' = Gone \/ (Attempting(w) /\ Gone' = Gone \cup {held[w].env})
    <2>1. CASE Park(w)
        BY <2>1 DEF Park, Gone, Attempting, history
    <2>2. CASE Complete(w)
        BY <2>2 DEF Complete, Gone, Attempting
    <2>3. CASE RescheduleRemove(w) \/ BuryRemove(w)
        BY <2>3 DEF RescheduleRemove, BuryRemove, Gone, history
    <2> QED
        BY <2>1, <2>2, <2>3
<1>4. PICK s \in {"idle", "gc_q"} : pc' = [pc EXCEPT ![w] = s]
    BY <1>2
<1>5. /\ pc'[w] \in {"idle", "gc_q"}
      /\ \A v \in Workers : v # w => pc'[v] = pc[v] /\ held'[v] = held[v]
    BY <1>1, <1>2, <1>4, WorkerFacts DEF TypeOK
<1>6. EnvsIn(inflight') \subseteq EnvsIn(inflight)
    BY <1>2 DEF EnvsIn
<1> QED
    BY <1>1, <1>2, <1>3, <1>5, <1>6

\* The end of an attempt removes the worker's own claim.
LEMMA UnlinkOwned ==
    ASSUME OwnInv, NEW w \in Workers,
           Park(w) \/ Complete(w) \/ RescheduleRemove(w) \/ BuryRemove(w)
    PROVE  OwnershipInv'
<1>0. held[w].env \in EnvsIn(inflight) /\ held[w].env \in handed
    BY UnlinkEffect DEF OwnInv, SpoolInv, QueuedWasHanded, EnvsIn
<1>1. OnlySessionsPut' /\ QuarantineApart' /\ BuriedStaysBuried' /\ RecoverKnowsDead'
    BY <1>0, UnlinkEffect DEF OwnInv, OwnershipInv, OnlySessionsPut, QuarantineApart,
        BuriedStaysBuried, RecoverKnowsDead
<1>2. BuriedUnattempted'
    BY UnlinkEffect DEF OwnInv, OwnershipInv, BuriedUnattempted, Attempting
<1>3. ClaimsOwned'
    <2> SUFFICES ASSUME NEW g \in inflight'
                 PROVE  g.env \in faulted \/ \E v \in Workers : Holding(v)' /\ held'[v] = g
        BY UnlinkEffect DEF ClaimsOwned
    <2>1. g.env \in faulted \/ \E v \in Workers : Holding(v) /\ held[v] = g
        BY UnlinkEffect DEF OwnInv, OwnershipInv, ClaimsOwned
    <2> QED
        BY <2>1, UnlinkEffect DEF Holding, Attempting
<1> QED
    BY <1>1, <1>2, <1>3 DEF OwnershipInv

\* What the sweep, the start and the end of Recover, and the end of the process
\* have in common: the disk stays and no worker runs afterwards.
LEMMA BootEffect ==
    ASSUME OwnInv, SweepStart \/ RecoverStart \/ RecoverDone \/ RecoverFail \/ Halt
    PROVE  /\ UNCHANGED <<ready, inflight, quarantine, dead, parked, now, handed, completed, gen>>
           /\ faulted \subseteq faulted'
           /\ \A w \in Workers : pc'[w] = "idle"
<1>1. /\ UNCHANGED <<ready, inflight, quarantine, dead, parked, now, handed, completed, gen>>
      /\ faulted \subseteq faulted'
    BY DEF SweepStart, RecoverStart, Recover, RecoverDone, RecoverFail, Halt, disk, history
<1>2. \A w \in Workers : pc'[w] = "idle"
    <2>1. CASE SweepStart \/ RecoverStart \/ RecoverDone \/ RecoverFail
        BY <2>1 DEF OwnInv, SpoolInv, IdleUnlessUp, SweepStart, RecoverStart, Recover, RecoverDone,
            RecoverFail, actors
    <2>2. CASE Halt
        BY <2>2, WorkerFacts DEF Halt
    <2> QED
        BY <2>1, <2>2
<1> QED
    BY <1>1, <1>2

\* Recover lists all of inflight/ and every buried envelope; when it ends, no
\* claim is left, or the failure is on record for those that are.
LEMMA BootOwned ==
    ASSUME OwnInv, SweepStart \/ RecoverStart \/ RecoverDone \/ RecoverFail \/ Halt
    PROVE  OwnershipInv'
<1>1. OnlySessionsPut' /\ QuarantineApart' /\ BuriedStaysBuried'
    BY BootEffect DEF OwnInv, OwnershipInv, OnlySessionsPut, QuarantineApart, BuriedStaysBuried,
        Gone, EnvsIn
<1>2. BuriedUnattempted'
    BY BootEffect DEF BuriedUnattempted, Attempting
<1>3. ClaimsOwned' /\ RecoverKnowsDead'
    <2>1. CASE SweepStart \/ Halt
        BY <2>1 DEF SweepStart, Halt, ClaimsOwned, RecoverKnowsDead
    <2>2. CASE RecoverStart
        BY <2>2 DEF RecoverStart, Recover, ClaimsOwned, RecoverKnowsDead, disk, EnvsIn
    <2>3. CASE RecoverDone
        BY <2>3 DEF RecoverDone, OwnInv, OwnershipInv, ClaimsOwned, RecoverKnowsDead, disk
    <2>4. CASE RecoverFail
        BY <2>4 DEF RecoverFail, OwnInv, OwnershipInv, ClaimsOwned, RecoverKnowsDead, disk, EnvsIn
    <2> QED
        BY <2>1, <2>2, <2>3, <2>4
<1> QED
    BY <1>1, <1>2, <1>3 DEF OwnershipInv

\* What one entry of Recover does.
LEMMA RecoverEntryEffect ==
    ASSUME OwnInv, NEW f \in recTodo, RecoverEntry(f)
    PROVE  /\ TypeOK /\ phase = "recover" /\ f \in inflight /\ f \in File
           /\ recTodo' = recTodo \ {f} /\ inflight' = inflight \ {f}
           /\ EnvsIn(inflight') \subseteq EnvsIn(inflight)
           /\ IF f.env \in recSeen
              THEN ready' = ready
              ELSE /\ ready' = Put(ready, [env |-> f.env, due |-> recDue, gen |-> f.gen])
                   /\ EnvsIn(ready') = EnvsIn(ready) \cup {f.env}
           /\ UNCHANGED <<quarantine, dead, parked, now, phase, recSeen, handed, pc, held,
                          completed, faulted, gen>>
           /\ \A w \in Workers : pc[w] = "idle"
<1>1. /\ TypeOK /\ phase = "recover" /\ f \in inflight /\ f \in File
      /\ \A w \in Workers : pc[w] = "idle"
    BY DEF OwnInv, SpoolInv, TypeOK, RecoverEntry, RecoverListing, IdleUnlessUp
<1>2. /\ recTodo' = recTodo \ {f} /\ inflight' = inflight \ {f}
      /\ ready' = IF f.env \in recSeen THEN ready ELSE Put(ready, [f EXCEPT !.due = recDue])
      /\ UNCHANGED <<quarantine, dead, parked, now, phase, recSeen, handed, pc, held,
                     completed, faulted, gen>>
    BY DEF RecoverEntry, actors, history
<1>3. [f EXCEPT !.due = recDue] = [env |-> f.env, due |-> recDue, gen |-> f.gen]
    BY <1>1 DEF File, TypeOK
<1>4. [env |-> f.env, due |-> recDue, gen |-> f.gen] \in File
    BY <1>1 DEF File, TypeOK
<1>6. ASSUME f.env \notin recSeen
      PROVE  /\ ready' = Put(ready, [env |-> f.env, due |-> recDue, gen |-> f.gen])
             /\ EnvsIn(ready') = EnvsIn(ready) \cup {f.env}
    BY <1>1, <1>2, <1>3, <1>4, <1>6, EnvsInPut DEF TypeOK
<1>5. EnvsIn(inflight') \subseteq EnvsIn(inflight)
    BY <1>2 DEF EnvsIn
<1> QED
    BY <1>1, <1>2, <1>5, <1>6

\* Recover never puts a buried envelope back.
LEMMA RecoverEntryOwned ==
    ASSUME OwnInv, NEW f \in recTodo, RecoverEntry(f)
    PROVE  OwnershipInv'
<1>0. f.env \in EnvsIn(inflight) /\ (f.env \in EnvsIn(dead) => f.env \in recSeen)
    BY RecoverEntryEffect DEF OwnInv, OwnershipInv, RecoverKnowsDead, EnvsIn
<1>a. /\ EnvsIn(ready') \subseteq EnvsIn(ready) \cup {f.env}
      /\ f.env \in EnvsIn(dead) => EnvsIn(ready') = EnvsIn(ready)
    BY <1>0, RecoverEntryEffect
<1>b. /\ UNCHANGED <<quarantine, dead, handed, completed, parked, gen>>
      /\ EnvsIn(inflight') \subseteq EnvsIn(inflight)
    BY RecoverEntryEffect
<1>1. OnlySessionsPut' /\ QuarantineApart' /\ BuriedStaysBuried'
    BY <1>0, <1>a, <1>b DEF OwnInv, OwnershipInv, OnlySessionsPut, QuarantineApart,
        BuriedStaysBuried, Gone
<1>2. BuriedUnattempted' /\ RecoverKnowsDead' /\ ClaimsOwned'
    BY RecoverEntryEffect DEF OwnInv, OwnershipInv, BuriedUnattempted, RecoverKnowsDead,
        ClaimsOwned, Attempting
<1> QED
    BY <1>1, <1>2 DEF OwnershipInv

\* Shutdown and the clock move nothing.
LEMMA TimeOwned ==
    ASSUME OwnInv, Shutdown \/ Tick
    PROVE  OwnershipInv'
<1>1. /\ UNCHANGED <<ready, inflight, quarantine, dead, parked, handed, completed, faulted, gen,
                     recTodo, recSeen, pc, held>>
      /\ phase' = phase \/ (phase = "up" /\ phase' = "stopping")
    BY DEF Shutdown, Tick, disk, boot, actors, history
<1>2. OnlySessionsPut' /\ QuarantineApart' /\ BuriedStaysBuried' /\ RecoverKnowsDead'
    BY <1>1 DEF OwnInv, OwnershipInv, OnlySessionsPut, QuarantineApart, BuriedStaysBuried,
        RecoverKnowsDead, Gone, EnvsIn
<1>3. BuriedUnattempted' /\ ClaimsOwned'
    BY <1>1 DEF OwnInv, OwnershipInv, BuriedUnattempted, ClaimsOwned, Attempting, Holding, EnvsIn
<1> QED
    BY <1>2, <1>3 DEF OwnershipInv

-----------------------------------------------------------------------------
(* The steps by what they do to envelope files.                            *)

Unlink(w) == Park(w) \/ Complete(w) \/ RescheduleRemove(w) \/ BuryRemove(w)

BootStep == SweepStart \/ RecoverStart \/ RecoverDone \/ RecoverFail \/ Halt

FrameStep ==
    \/ \E b \in Bodies : WriteBody(b) \/ RemoveBody(b) \/ EnqueueFail(b) \/ Accept(b)
    \/ \E b \in Bodies : SweepBody(b)
    \/ \E a \in Actors : Collect(a)
    \/ \E w \in Workers : Relay(w) \/ MoveFail(w)
    \/ UNCHANGED vars

\* Every step is of one of these kinds.
LEMMA StepKinds ==
    ASSUME SpoolInv, [Next]_vars
    PROVE  \/ FrameStep \/ BootStep \/ Shutdown \/ Tick
           \/ \E e \in Envs : Enqueue(e) \/ Quarantine(e)
           \/ \E w \in Workers :
                 (\E f \in ready : Claim(w, f)) \/ RescheduleWrite(w) \/ BuryWrite(w) \/ Unlink(w)
           \/ \E f \in recTodo : RecoverEntry(f)
<1>1. CASE SessionNext
    BY <1>1 DEF SessionNext, FrameStep
<1>2. CASE WorkerNext
    BY <1>2, WorkerFacts, NoneReplaced DEF WorkerNext, Attempt, Finish, FrameStep, Unlink
<1>3. CASE Start
    <2>1. "boot" \in Actors
        BY DEF Actors
    <2> QED
        BY <1>3, <2>1 DEF Start, FrameStep, BootStep
<1>4. CASE Shutdown \/ Crash \/ Exit \/ Tick
    BY <1>4 DEF Crash, Exit, BootStep
<1>5. CASE Poll \/ UNCHANGED vars
    BY <1>5 DEF Poll, FrameStep
<1> QED
    BY <1>1, <1>2, <1>3, <1>4, <1>5 DEF Next

\* A frame step leaves every envelope file alone; a worker keeps its claim or
\* loses it to a failed operation, which is on record.
LEMMA FrameEffect ==
    ASSUME SpoolInv, FrameStep
    PROVE  /\ UNCHANGED <<ready, inflight, quarantine, dead, parked, now, phase,
                          recTodo, recSeen, handed, completed, gen>>
           /\ faulted \subseteq faulted'
           /\ \A w \in Workers : Holding(w)' =>
                 /\ held'[w] = held[w]
                 /\ pc'[w] = pc[w] \/ (pc[w] = "claimed" /\ pc'[w] = "done")
           /\ \A w \in Workers : Holding(w) =>
                 held[w].env \in faulted' \/ (Holding(w)' /\ held'[w] = held[w])
<1> USE DEF Holding, Attempting
<1>0. TypeOK
    BY DEF SpoolInv
<1>1. CASE \E b \in Bodies : WriteBody(b) \/ RemoveBody(b) \/ EnqueueFail(b) \/ Accept(b)
    BY <1>1 DEF WriteBody, RemoveBody, EnqueueFail, Accept, disk, boot, actors, history
<1>2. ASSUME NEW b \in Bodies, SweepBody(b)
      PROVE  /\ UNCHANGED <<ready, inflight, quarantine, dead, parked, now, phase,
                            recTodo, recSeen, handed, completed, gen, faulted, held>>
             /\ \A w \in Workers : pc'[w] = pc[w]
    BY <1>0, <1>2, WorkerFacts DEF SweepBody, TypeOK, disk, history
<1>3. ASSUME NEW a \in Actors, Collect(a)
      PROVE  /\ UNCHANGED <<ready, inflight, quarantine, dead, parked, now, phase,
                            recTodo, recSeen, handed, completed, gen, faulted>>
             /\ \A w \in Workers : Holding(w)' \/ Holding(w) => pc'[w] = pc[w] /\ held'[w] = held[w]
    <2>1. PICK s \in {"idle", "gc_inflight", "gc_quarantine", "gc_unlink"} : pc' = [pc EXCEPT ![a] = s]
        BY <1>3, CollectEffect
    <2>2. pc[a] \in {"gc_q", "gc_inflight", "gc_quarantine", "gc_unlink"} /\ pc'[a] = s
        BY <1>0, <1>3, <2>1, CollectEffect DEF TypeOK
    <2>3. ASSUME NEW w \in Workers, w # a PROVE pc'[w] = pc[w] /\ held'[w] = held[w]
        BY <1>0, <1>3, <2>1, <2>3, CollectEffect, WorkerFacts DEF TypeOK
    <2>4. UNCHANGED <<ready, inflight, quarantine, dead, parked, now, phase,
                      recTodo, recSeen, handed, completed, gen, faulted>>
        BY <1>3, CollectEffect DEF boot, history
    <2> QED
        BY <2>2, <2>3, <2>4
<1>4. ASSUME NEW w \in Workers, Relay(w)
      PROVE  /\ UNCHANGED <<ready, inflight, quarantine, dead, parked, now, phase,
                            recTodo, recSeen, handed, completed, gen, faulted, held>>
             /\ pc[w] = "claimed" /\ pc'[w] = "done" /\ \A v \in Workers : v # w => pc'[v] = pc[v]
    BY <1>0, <1>4, WorkerFacts DEF Relay, TypeOK, disk, boot, history
<1>5. ASSUME NEW w \in Workers, MoveFail(w)
      PROVE  /\ UNCHANGED <<ready, inflight, quarantine, dead, parked, now, phase,
                            recTodo, recSeen, handed, completed, gen>>
             /\ faulted' = faulted \cup {held[w].env} /\ pc'[w] = "idle"
             /\ \A v \in Workers : v # w => pc'[v] = pc[v] /\ held'[v] = held[v]
    BY <1>0, <1>5, WorkerFacts DEF MoveFail, Idle, TypeOK, disk, boot
<1>6. CASE UNCHANGED vars
    BY <1>6 DEF vars, disk, boot, actors, history
<1> QED
    BY <1>1, <1>2, <1>3, <1>4, <1>5, <1>6 DEF FrameStep

\* OwnershipInv is inductive relative to SpoolInv.
LEMMA OwnStep ==
    ASSUME MinBackoff > 0
    PROVE  OwnInv /\ [Next]_vars => OwnInv'
<1> SUFFICES ASSUME OwnInv, [Next]_vars PROVE OwnInv'
    OBVIOUS
<1>0. SpoolInv'
    BY SpoolInvStep DEF OwnInv
<1>1. CASE FrameStep
    <2>1. SpoolInv
        BY DEF OwnInv
    <2>2. \A w \in Workers : Attempting(w)' => Attempting(w) /\ held'[w] = held[w]
        BY <1>1, <2>1, FrameEffect DEF Holding, Attempting
    <2>3. \A w \in Workers : pc[w] = "buried" => pc'[w] = "buried" \/ ~Attempting(w)'
        BY <1>1, <2>1, FrameEffect DEF Holding
    <2>4. OwnershipInv'
        BY <1>1, <2>1, <2>2, <2>3, FrameEffect, FrameOwned
    <2> QED
        BY <1>0, <2>4 DEF OwnInv
<1>2. CASE \E e \in Envs : Enqueue(e) \/ Quarantine(e)
    BY <1>0, <1>2, EnqueueOwned, QuarantineOwned DEF OwnInv
<1>3. CASE \E w \in Workers :
              (\E f \in ready : Claim(w, f)) \/ RescheduleWrite(w) \/ BuryWrite(w) \/ Unlink(w)
    BY <1>0, <1>3, ClaimOwned, RescheduleWriteOwned, BuryWriteOwned, UnlinkOwned DEF OwnInv, Unlink
<1>4. CASE BootStep \/ (\E f \in recTodo : RecoverEntry(f))
    BY <1>0, <1>4, BootOwned, RecoverEntryOwned DEF OwnInv, BootStep
<1>5. CASE Shutdown \/ Tick
    BY <1>0, <1>5, TimeOwned DEF OwnInv
<1> QED
    BY <1>1, <1>2, <1>3, <1>4, <1>5, StepKinds DEF OwnInv

\* On a disk of any speed: only sessions bring envelopes into the spool, a buried
\* envelope is in nobody's way, and every claim has an owner or a recorded failure.
THEOREM OwnershipInvariant ==
    ASSUME MinBackoff > 0
    PROVE  Spec => []OwnershipInv
<1>1. Init => OwnInv
    BY InitOwned, InitType, InitSafe DEF OwnInv, SpoolInv, TypeInv, Safe
<1>2. OwnInv /\ [Next]_vars => OwnInv'
    BY OwnStep
<1>3. OwnInv => OwnershipInv
    BY DEF OwnInv
<1> QED
    BY <1>1, <1>2, <1>3, PTL DEF Spec

\* Once Recover is over, a claim waits in inflight/ only for its worker or because
\* a file operation failed.
THEOREM ClaimsHaveWorkers ==
    ASSUME MinBackoff > 0
    PROVE  Spec => []InflightOwned
<1>1. OwnershipInv => InflightOwned
    BY DEF OwnershipInv, ClaimsOwned, InflightOwned
<1> QED
    BY <1>1, OwnershipInvariant, PTL

\* A buried envelope never returns to q/ or quarantine/, also when the process died
\* between Bury's write and the removal of the claim.
THEOREM BuryIsFinal ==
    ASSUME MinBackoff > 0
    PROVE  Spec => []BuriedStaysBuried
<1>1. OwnershipInv => BuriedStaysBuried
    BY DEF OwnershipInv
<1> QED
    BY <1>1, OwnershipInvariant, PTL

-----------------------------------------------------------------------------
(* The lease invariant.                                                    *)

FullInv == SpoolInv /\ LeaseInv

Lease == RescheduledNotDue /\ InflightUnique /\ NewestKept /\ RecoverKnowsReady /\ GoneIsGone

\* The initial state has no claims, and what is in q/ was never rewritten.
LEMMA InitLease == Init => Lease
<1> SUFFICES ASSUME Init PROVE Lease
    OBVIOUS
<1>1. \A f \in ready : f.env \in Envs /\ f.gen = gen[f.env]
    BY SpoolAssumption DEF Init
<1> QED
    BY <1>1 DEF Init, Lease, RescheduledNotDue, InflightUnique, NewestKept, RecoverKnowsReady,
        GoneIsGone, Gone

\* Frame steps.
LEMMA FrameLease ==
    ASSUME FullInv, FrameStep
    PROVE  Lease'
<1>0. SpoolInv
    BY DEF FullInv
<1>1. RescheduledNotDue'
    BY <1>0, FrameEffect DEF FullInv, LeaseInv, RescheduledNotDue, Holding
<1>2. InflightUnique' /\ NewestKept' /\ RecoverKnowsReady' /\ GoneIsGone'
    BY <1>0, FrameEffect DEF FullInv, LeaseInv, InflightUnique, NewestKept, RecoverKnowsReady,
        GoneIsGone, Gone, Stored, EnvsIn
<1> QED
    BY <1>1, <1>2 DEF Lease

\* A session's new envelope is in no directory, was never finished, and has
\* generation 0.
LEMMA SessionLease ==
    ASSUME FullInv, NEW e \in Envs, Enqueue(e) \/ Quarantine(e)
    PROVE  Lease'
<1> DEFINE f == [env |-> e, due |-> now, gen |-> 0]
           q == [env |-> e, due |-> 0, gen |-> 0]
<1>0. /\ TypeOK /\ f \in File /\ q \in File /\ e \notin handed
      /\ UNCHANGED <<inflight, dead, parked, now, phase, recTodo, recSeen, pc, held,
                     completed, faulted, gen>>
    BY DEF FullInv, SpoolInv, TypeOK, Enqueue, Quarantine, File, boot, actors, history
<1>1. /\ e \notin EnvsIn(ready) \cup EnvsIn(inflight) \cup EnvsIn(quarantine) \cup Gone
      /\ gen[e] = 0
    BY <1>0 DEF FullInv, SpoolInv, QueuedWasHanded, LeaseInv, OwnershipInv, OnlySessionsPut
<1>2. /\ \A g \in ready' : g \in ready \/ g = f
      /\ EnvsIn(ready') \subseteq EnvsIn(ready) \cup {e}
      /\ EnvsIn(quarantine') \subseteq EnvsIn(quarantine) \cup {e}
      /\ EnvsIn(ready) \subseteq EnvsIn(ready')
    <2>1. CASE Enqueue(e)
        BY <1>0, <2>1, EnvsInPut DEF Enqueue, Put, TypeOK
    <2>2. CASE Quarantine(e)
        BY <1>0, <2>2, EnvsInPut DEF Quarantine, TypeOK
    <2> QED
        BY <2>1, <2>2
<1>3. \A w \in Workers : Holding(w) => held[w].env # e
    BY <1>1 DEF FullInv, SpoolInv, ClaimOnDisk, EnvsIn
<1>4. RescheduledNotDue'
    BY <1>0, <1>2, <1>3 DEF FullInv, LeaseInv, RescheduledNotDue, Holding
<1>5. InflightUnique' /\ NewestKept'
    BY <1>0, <1>1, <1>2 DEF FullInv, LeaseInv, InflightUnique, NewestKept
<1>6. RecoverKnowsReady'
    <2>1. phase = "recover" => \A g \in recTodo : g.env # e
        BY <1>1 DEF FullInv, SpoolInv, RecoverListing, EnvsIn
    <2> QED
        BY <1>0, <1>2, <2>1 DEF FullInv, LeaseInv, RecoverKnowsReady
<1>7. GoneIsGone'
    BY <1>0, <1>1, <1>2 DEF FullInv, LeaseInv, GoneIsGone, Gone, Stored
<1> QED
    BY <1>4, <1>5, <1>6, <1>7 DEF Lease

\* Claim finds no other claim of an envelope none of whose file operations failed:
\* its owner would be attempting it, or the copy in q/ would not be due yet.
LEMMA ClaimIsOnly ==
    ASSUME FullInv, NEW w \in Workers, NEW f \in ready, Claim(w, f), f.env \notin faulted,
           NEW g \in inflight
    PROVE  g.env # f.env
<1> SUFFICES ASSUME g.env = f.env PROVE FALSE
    OBVIOUS
<1>0. OwnInv
    BY DEF FullInv, LeaseInv, OwnInv
<1>1. phase = "up" /\ f.due <= now /\ f \in File /\ now \in Nat
    BY <1>0, ClaimEffect DEF TypeOK
<1>2. PICK v \in Workers : Holding(v) /\ held[v] = g
    BY <1>1 DEF FullInv, LeaseInv, OwnershipInv, ClaimsOwned
<1>3. pc[v] = "rescheduled"
    BY <1>2 DEF FullInv, SpoolInv, ReadyUnattempted, Holding
<1>4. now < f.due
    BY <1>1, <1>2, <1>3 DEF FullInv, LeaseInv, RescheduledNotDue
<1> QED
    BY <1>1, <1>4 DEF File

\* Claim moves the one copy of its envelope.
LEMMA ClaimLease ==
    ASSUME FullInv, NEW w \in Workers, NEW f \in ready, Claim(w, f)
    PROVE  Lease'
<1>0. OwnInv
    BY DEF FullInv, LeaseInv, OwnInv
<1>1. \A g \in inflight' : g \in inflight \/ g = f
    BY <1>0, ClaimEffect DEF Put
<1>2. f.env \notin faulted => \A g \in inflight : g.env # f.env
    BY ClaimIsOnly
<1>3. RescheduledNotDue'
    BY <1>0, ClaimEffect DEF FullInv, LeaseInv, RescheduledNotDue
<1>4. InflightUnique'
    BY <1>0, <1>1, <1>2, ClaimEffect DEF FullInv, LeaseInv, InflightUnique
<1>5. NewestKept'
    <2>1. ASSUME NEW g \in inflight', g.env \notin faulted
          PROVE  g.gen = gen[g.env] \/ g.env \in EnvsIn(ready')
        <3>1. CASE g = f
            BY <2>1, <3>1 DEF FullInv, LeaseInv, NewestKept
        <3>2. CASE g \in inflight /\ g.env # f.env
            <4>1. g.env \in EnvsIn(ready) => g.env \in EnvsIn(ready')
                BY <1>0, <3>2, ClaimEffect DEF EnvsIn
            <4> QED
                BY <2>1, <3>2, <4>1 DEF FullInv, LeaseInv, NewestKept
        <3> QED
            BY <1>1, <1>2, <2>1, <3>1, <3>2
    <2> QED
        BY <1>0, <2>1, ClaimEffect DEF FullInv, LeaseInv, NewestKept
<1>6. RecoverKnowsReady'
    BY <1>0, ClaimEffect DEF RecoverKnowsReady
<1>7. GoneIsGone'
    <2>1. f.env \in EnvsIn(ready)
        BY DEF EnvsIn
    <2> QED
        BY <1>0, <2>1, ClaimEffect DEF FullInv, LeaseInv, GoneIsGone, Gone, Stored
<1> QED
    BY <1>3, <1>4, <1>5, <1>6, <1>7 DEF Lease

\* A worker attempts the newest contents of its envelope.
LEMMA AttemptsNewest ==
    ASSUME FullInv, NEW w \in Workers, Attempting(w), held[w].env \notin faulted
    PROVE  held[w].gen = gen[held[w].env]
<1>1. held[w] \in inflight /\ held[w].env \notin EnvsIn(ready)
    BY DEF FullInv, SpoolInv, ClaimOnDisk, ReadyUnattempted, Holding, EnvsIn
<1> QED
    BY <1>1 DEF FullInv, LeaseInv, NewestKept

\* Reschedule's write makes the copy in q/ the newest, not due before the claim is
\* removed.
LEMMA RescheduleLease ==
    ASSUME MinBackoff > 0, FullInv, NEW w \in Workers, RescheduleWrite(w)
    PROVE  Lease'
<1>0. OwnInv
    BY DEF FullInv, LeaseInv, OwnInv
<1> DEFINE e == held[w].env
<1>a. PICK due \in Nat :
          /\ phase = "up" => now + MinBackoff <= due
          /\ ready' = Put(ready, [env |-> e, due |-> due, gen |-> held[w].gen + 1])
          /\ [env |-> e, due |-> due, gen |-> held[w].gen + 1] \in File
    BY <1>0, RescheduleEffect
<1>b. now \in Nat /\ MinBackoff \in Nat
    BY SpoolAssumption DEF FullInv, SpoolInv, TypeOK
<1>1. /\ phase = "up" => now < due
      /\ ready' = Put(ready, [env |-> e, due |-> due, gen |-> held[w].gen + 1])
      /\ [env |-> e, due |-> due, gen |-> held[w].gen + 1] \in File
    BY <1>a, <1>b
<1> DEFINE f == [env |-> e, due |-> due, gen |-> held[w].gen + 1]
<1>2. \A g \in ready' : g = f \/ (g \in ready /\ g.env # e)
    <2>1. \A g \in ready : g.env # e
        BY <1>0, RescheduleEffect DEF FullInv, SpoolInv, ReadyUnattempted
    <2> QED
        BY <1>1, <2>1 DEF Put
<1>3. e \in Envs /\ e \in EnvsIn(inflight) /\ e \in EnvsIn(ready') /\ EnvsIn(ready) \subseteq EnvsIn(ready')
    BY <1>0, RescheduleEffect DEF EnvsIn, File
<1>4. \A d \in Envs : d # e => gen'[d] = gen[d]
    BY <1>0, <1>3, RescheduleEffect DEF TypeOK
<1>5. gen'[e] = held[w].gen + 1
    BY <1>0, <1>3, RescheduleEffect DEF TypeOK
<1>6. \A g \in ready \cup inflight : g.env \in Envs
    BY <1>0, RescheduleEffect DEF TypeOK, File
<1>7. RescheduledNotDue'
    <2> SUFFICES ASSUME phase = "up", NEW v \in Workers, NEW g \in ready',
                        pc'[v] = "rescheduled", g.env = held[v].env
                 PROVE  now < g.due
        BY <1>0, RescheduleEffect DEF RescheduledNotDue
    <2>1. CASE g = f
        BY <1>1, <2>1
    <2>2. CASE g \in ready /\ g.env # e
        <3>1. v # w /\ pc[v] = "rescheduled"
            BY <1>0, <2>2, RescheduleEffect
        <3> QED
            BY <2>2, <3>1 DEF FullInv, LeaseInv, RescheduledNotDue
    <2> QED
        BY <1>2, <2>1, <2>2
<1>8. InflightUnique' /\ RecoverKnowsReady'
    <2>1. phase # "recover"
        BY <1>0, RescheduleEffect DEF OwnInv, SpoolInv, IdleUnlessUp
    <2> QED
        BY <1>0, <2>1, RescheduleEffect DEF FullInv, LeaseInv, InflightUnique, RecoverKnowsReady
<1>9. NewestKept'
    <2>1. ASSUME NEW g \in ready', g.env \notin faulted PROVE g.gen = gen'[g.env]
        BY <1>2, <1>4, <1>5, <1>6, <2>1 DEF FullInv, LeaseInv, NewestKept
    <2>2. ASSUME NEW g \in inflight, g.env \notin faulted
          PROVE  g.gen = gen'[g.env] \/ g.env \in EnvsIn(ready')
        BY <1>3, <1>4, <1>6, <2>2 DEF FullInv, LeaseInv, NewestKept
    <2> QED
        BY <1>0, <2>1, <2>2, RescheduleEffect DEF NewestKept
<1>10. GoneIsGone'
    BY <1>0, <1>3, RescheduleEffect DEF FullInv, LeaseInv, GoneIsGone, Gone, Stored
<1> QED
    BY <1>7, <1>8, <1>9, <1>10 DEF Lease

\* Bury's write adds a record and nothing else.
LEMMA BuryLease ==
    ASSUME FullInv, NEW w \in Workers, BuryWrite(w)
    PROVE  Lease'
<1>0. OwnInv
    BY DEF FullInv, LeaseInv, OwnInv
<1>1. RescheduledNotDue'
    BY <1>0, BuryEffect DEF FullInv, LeaseInv, RescheduledNotDue
<1>2. InflightUnique' /\ NewestKept' /\ RecoverKnowsReady' /\ GoneIsGone'
    BY <1>0, BuryEffect DEF FullInv, LeaseInv, InflightUnique, NewestKept, RecoverKnowsReady,
        GoneIsGone, Gone, Stored
<1> QED
    BY <1>1, <1>2 DEF Lease

\* The claim that Park or Complete removes is the envelope's only file.
LEMMA UnlinkLease ==
    ASSUME FullInv, NEW w \in Workers, Unlink(w)
    PROVE  Lease'
<1>0. OwnInv
    BY DEF FullInv, LeaseInv, OwnInv
<1> USE DEF Unlink
<1>1. RescheduledNotDue'
    BY <1>0, UnlinkEffect DEF FullInv, LeaseInv, RescheduledNotDue
<1>2. InflightUnique' /\ NewestKept' /\ RecoverKnowsReady'
    BY <1>0, UnlinkEffect DEF FullInv, LeaseInv, InflightUnique, NewestKept, RecoverKnowsReady
<1>3. GoneIsGone'
    <2>1. Stored' \subseteq Stored /\ faulted' = faulted
        BY <1>0, UnlinkEffect DEF Stored
    <2>2. ASSUME Attempting(w), held[w].env \notin faulted PROVE held[w].env \notin Stored'
        <3>1. held[w].env \notin EnvsIn(ready)
            BY <2>2 DEF FullInv, SpoolInv, ReadyUnattempted, EnvsIn
        <3>2. held[w].env \notin EnvsIn(quarantine)
            BY <1>0, UnlinkEffect DEF FullInv, LeaseInv, OwnershipInv, QuarantineApart, EnvsIn
        <3>3. held[w].env \notin EnvsIn(inflight')
            BY <1>0, <2>2, UnlinkEffect DEF FullInv, LeaseInv, InflightUnique, EnvsIn
        <3> QED
            BY <1>0, <3>1, <3>2, <3>3, UnlinkEffect DEF Stored
    <2> QED
        BY <1>0, <2>1, <2>2, UnlinkEffect DEF FullInv, LeaseInv, GoneIsGone
<1> QED
    BY <1>1, <1>2, <1>3 DEF Lease

\* Recover takes everything in q/ for committed.
LEMMA BootLease ==
    ASSUME FullInv, BootStep
    PROVE  Lease'
<1>0. OwnInv
    BY DEF FullInv, LeaseInv, OwnInv
<1> USE DEF BootStep
<1>1. RescheduledNotDue'
    BY <1>0, BootEffect DEF RescheduledNotDue
<1>2. InflightUnique' /\ NewestKept' /\ GoneIsGone'
    BY <1>0, BootEffect DEF FullInv, LeaseInv, InflightUnique, NewestKept, GoneIsGone, Gone,
        Stored, EnvsIn
<1>3. RecoverKnowsReady'
    <2>1. CASE SweepStart \/ RecoverDone \/ RecoverFail \/ Halt
        BY <2>1 DEF SweepStart, RecoverDone, RecoverFail, Halt, RecoverKnowsReady
    <2>2. CASE RecoverStart
        BY <2>2 DEF RecoverStart, Recover, RecoverKnowsReady, disk, EnvsIn
    <2> QED
        BY <2>1, <2>2
<1> QED
    BY <1>1, <1>2, <1>3 DEF Lease

\* What one entry of Recover puts back is the newest.
LEMMA RecoverEntryLease ==
    ASSUME FullInv, NEW f \in recTodo, RecoverEntry(f)
    PROVE  Lease'
<1>0. OwnInv
    BY DEF FullInv, LeaseInv, OwnInv
<1> DEFINE r == [env |-> f.env, due |-> recDue, gen |-> f.gen]
<1>1. /\ \A g \in ready' : g \in ready \/ (g = r /\ f.env \notin recSeen)
      /\ EnvsIn(ready) \subseteq EnvsIn(ready')
      /\ EnvsIn(ready') \subseteq EnvsIn(ready) \cup {f.env}
    <2>1. CASE f.env \in recSeen
        BY <1>0, <2>1, RecoverEntryEffect
    <2>2. CASE f.env \notin recSeen
        BY <1>0, <2>2, RecoverEntryEffect DEF Put
    <2> QED
        BY <2>1, <2>2
<1>2. f.env \notin recSeen /\ f.env \notin faulted => f.gen = gen[f.env]
    BY <1>0, RecoverEntryEffect DEF FullInv, LeaseInv, NewestKept, RecoverKnowsReady
<1>3. /\ phase' = "recover" /\ f \in inflight /\ inflight' = inflight \ {f} /\ recTodo' = recTodo \ {f}
      /\ UNCHANGED <<faulted, gen, recSeen, completed, parked, quarantine>>
    BY <1>0, RecoverEntryEffect
<1>4. RescheduledNotDue' /\ InflightUnique'
    BY <1>3 DEF FullInv, LeaseInv, RescheduledNotDue, InflightUnique
<1>5. NewestKept'
    BY <1>1, <1>2, <1>3 DEF FullInv, LeaseInv, NewestKept
<1>6. RecoverKnowsReady'
    <2> SUFFICES ASSUME NEW g \in recTodo', g.env \in EnvsIn(ready') \ faulted
                 PROVE  g.env \in recSeen
        BY <1>3 DEF RecoverKnowsReady
    <2>1. g \in inflight /\ g # f /\ phase = "recover"
        BY <1>0, <1>3, RecoverEntryEffect DEF FullInv, SpoolInv, RecoverListing
    <2>2. g.env # f.env
        BY <1>3, <2>1 DEF FullInv, LeaseInv, InflightUnique
    <2> QED
        BY <1>1, <1>3, <2>1, <2>2 DEF FullInv, LeaseInv, RecoverKnowsReady
<1>7. GoneIsGone'
    <2>1. f.env \in Stored /\ EnvsIn(inflight') \subseteq EnvsIn(inflight)
        BY <1>3 DEF Stored, EnvsIn
    <2>2. Stored' \subseteq Stored
        BY <1>1, <1>3, <2>1 DEF Stored
    <2> QED
        BY <1>3, <2>2 DEF FullInv, LeaseInv, GoneIsGone, Gone
<1> QED
    BY <1>4, <1>5, <1>6, <1>7 DEF Lease

\* The clock does not run between the halves of Reschedule (SlowDisk = FALSE).
LEMMA TimeLease ==
    ASSUME MinBackoff > 0, SlowDisk = FALSE, FullInv, Shutdown \/ Tick
    PROVE  Lease'
<1>1. /\ UNCHANGED <<ready, inflight, quarantine, dead, parked, handed, completed, faulted, gen,
                     recTodo, recSeen, pc, held>>
      /\ (phase' = phase /\ \A w \in Workers : pc[w] # "rescheduled") \/ phase' = "stopping"
    BY DEF Shutdown, Tick, disk, boot, actors, history
<1>2. phase' = phase \/ phase' = "stopping"
    BY <1>1
<1>3. RescheduledNotDue'
    BY <1>1 DEF RescheduledNotDue
<1>4. InflightUnique' /\ NewestKept' /\ RecoverKnowsReady' /\ GoneIsGone'
    BY <1>1, <1>2 DEF FullInv, LeaseInv, InflightUnique, NewestKept, RecoverKnowsReady,
        GoneIsGone, Gone, Stored, EnvsIn
<1> QED
    BY <1>3, <1>4 DEF Lease

\* LeaseInv is inductive when the disk is not slow.
LEMMA FullStep ==
    ASSUME MinBackoff > 0, SlowDisk = FALSE
    PROVE  FullInv /\ [Next]_vars => FullInv'
<1> SUFFICES ASSUME FullInv, [Next]_vars PROVE FullInv'
    OBVIOUS
<1>0. OwnInv'
    BY OwnStep DEF OwnInv, FullInv, LeaseInv
<1> SUFFICES Lease'
    BY <1>0 DEF OwnInv, FullInv, LeaseInv, Lease
<1>1. CASE FrameStep
    BY <1>1, FrameLease
<1>2. CASE \E e \in Envs : Enqueue(e) \/ Quarantine(e)
    BY <1>2, SessionLease
<1>3. CASE \E w \in Workers :
              (\E f \in ready : Claim(w, f)) \/ RescheduleWrite(w) \/ BuryWrite(w) \/ Unlink(w)
    BY <1>3, ClaimLease, RescheduleLease, BuryLease, UnlinkLease
<1>4. CASE BootStep \/ (\E f \in recTodo : RecoverEntry(f))
    BY <1>4, BootLease, RecoverEntryLease
<1>5. CASE Shutdown \/ Tick
    BY <1>5, TimeLease
<1> QED
    BY <1>1, <1>2, <1>3, <1>4, <1>5, StepKinds DEF FullInv

\* The initial state satisfies both invariants.
LEMMA FullInit == Init => FullInv
BY InitOwned, InitLease, InitType, InitSafe DEF FullInv, LeaseInv, Lease, SpoolInv, TypeInv, Safe

\* When a backoff outlasts the two halves of Reschedule, an envelope has one claim
\* at most, and the copy that will be used has the newest contents.
THEOREM LeaseInvariant ==
    ASSUME MinBackoff > 0, SlowDisk = FALSE
    PROVE  Spec => []LeaseInv
<1>1. Init => FullInv
    BY FullInit
<1>2. FullInv /\ [Next]_vars => FullInv'
    BY FullStep
<1>3. FullInv => LeaseInv
    BY DEF FullInv
<1> QED
    BY <1>1, <1>2, <1>3, PTL DEF Spec

\* Recover and the workers never fall back to an older envelope: what is queued or
\* attempted carries the statuses the last Reschedule committed.
THEOREM RecoverKeepsNewest ==
    ASSUME MinBackoff > 0, SlowDisk = FALSE
    PROVE  Spec => []NoRollback
<1>1. Init => FullInv
    BY FullInit
<1>2. FullInv /\ [Next]_vars => FullInv'
    BY FullStep
<1>3. FullInv => NoRollback
    BY AttemptsNewest DEF FullInv, LeaseInv, NewestKept, NoRollback
<1> QED
    BY <1>1, <1>2, <1>3, PTL DEF Spec

\* A completed envelope is in no directory from which a restart would deliver it
\* again.
THEOREM CompleteIsFinal ==
    ASSUME MinBackoff > 0, SlowDisk = FALSE
    PROVE  Spec => []FinishedStaysFinished
<1>1. LeaseInv => FinishedStaysFinished
    BY DEF LeaseInv, GoneIsGone, Gone, FinishedStaysFinished
<1> QED
    BY <1>1, LeaseInvariant, PTL

-----------------------------------------------------------------------------
(* The refinement: every step of the spool is a step of the queue or       *)
(* leaves its variables alone.                                             *)

Leases == [w \in Workers |-> IF Attempting(w) THEN held[w].env ELSE NoEnv]

\* Settled is what the queue calls settled.
LEMMA SettledIs == Settled = Gone \cup EnvsIn(dead)
BY DEF Settled, Gone

\* The queue's variables, seen through the mapping.
LEMMA QueueStutter ==
    ASSUME UNCHANGED <<handed, Leases, Settled, faulted>>
    PROVE  UNCHANGED Q!qvars
BY DEF Q!qvars, Leases

\* A failed operation on one envelope is a step of the queue.
LEMMA FailIsNext ==
    ASSUME NEW e \in Envs, Q!Fail({e})
    PROVE  Q!Next
<1>1. \E S \in SUBSET Envs : Q!Fail(S)
    OBVIOUS
<1> QED
    BY <1>1 DEF Q!Next

\* A frame step is a failure, the return of nothing, or invisible.  A failed
\* operation after Reschedule's write is a failure nobody holds a lease for, or it
\* is on record already.
LEMMA FrameRefines ==
    ASSUME FullInv, FrameStep
    PROVE  [Q!Next]_Q!qvars
<1>0. SpoolInv
    BY DEF FullInv
<1>1. handed' = handed /\ Settled' = Settled
    BY <1>0, FrameEffect DEF Settled, EnvsIn
<1>2. CASE \E b \in Bodies : EnqueueFail(b)
    <2>1. PICK b \in Bodies : EnqueueFail(b)
        BY <1>2
    <2>2. PICK e \in EnvsOf(b) \ handed : faulted' = faulted \cup {e}
        BY <2>1 DEF EnqueueFail
    <2>3. UNCHANGED <<pc, held>> /\ e \in Envs
        BY <2>1 DEF EnqueueFail, actors, EnvsOf
    <2>4. \A w \in Workers : Leases[w] # e
        <3>1. \A w \in Workers : Attempting(w) => held[w].env \in handed
            BY <1>0 DEF SpoolInv, ClaimOnDisk, QueuedWasHanded, Holding, EnvsIn
        <3> QED
            BY <2>2, <2>3, <3>1, SpoolAssumption DEF Leases
    <2>5. Q!Fail({e})
        BY <1>1, <2>2, <2>3, <2>4 DEF Q!Fail, Leases, Attempting
    <2> QED
        BY <2>3, <2>5 DEF Q!Next
<1>3. CASE \E w \in Workers : MoveFail(w)
    <2>1. PICK w \in Workers : MoveFail(w)
        BY <1>3
    <2>a. Holding(w) /\ held[w] \in File /\ held[w].env \in Envs
        BY <1>0, <2>1 DEF MoveFail, SpoolInv, HoldsFile, Holding, Attempting, File
    <2>b. PICK e \in Envs : e = held[w].env
        BY <2>a
    <2>2. /\ faulted' = faulted \cup {e} /\ Holding(w) /\ held[w] \in File /\ held[w].env = e
          /\ pc'[w] = "idle" /\ \A v \in Workers : v # w => pc'[v] = pc[v] /\ held'[v] = held[v]
        BY <1>0, <2>1, <2>a, <2>b, WorkerFacts DEF MoveFail, Idle, SpoolInv, TypeOK
    <2>3. CASE Attempting(w)
        <3>1. \A v \in Workers : v # w => (Attempting(v) => held[v].env # e) /\ Attempting(v)' = Attempting(v)
            BY <1>0, <2>2, <2>3 DEF SpoolInv, OneAttempt, Attempting
        <3>2. Q!Fail({e})
            BY <1>1, <2>2, <2>3, <3>1, SpoolAssumption DEF Q!Fail, Leases, Attempting
        <3> QED
            BY <3>2, FailIsNext
    <2>4. CASE ~Attempting(w) /\ e \in faulted
        <3>1. Leases' = Leases /\ faulted' = faulted
            BY <2>2, <2>4 DEF Leases, Attempting
        <3> QED
            BY <1>1, <3>1, QueueStutter
    <2>5. CASE ~Attempting(w) /\ e \notin faulted
        <3>1. \A v \in Workers : v # w /\ Holding(v) => held[v].env # e
            BY <1>0, <2>2, <2>5 DEF SpoolInv, ClaimOnDisk, ClaimsDiffer, FullInv, LeaseInv, InflightUnique
        <3>2. Q!Fail({e})
            BY <1>1, <2>2, <2>5, <3>1, SpoolAssumption DEF Q!Fail, Leases, Attempting, Holding
        <3> QED
            BY <3>2, FailIsNext
    <2> QED
        BY <2>3, <2>4, <2>5
<1>4. CASE ~(\E b \in Bodies : EnqueueFail(b)) /\ ~(\E w \in Workers : MoveFail(w))
    <2>1. faulted' = faulted
        <3>1. ASSUME NEW a \in Actors, Collect(a) PROVE faulted' = faulted
            BY <3>1, CollectEffect DEF history
        <3> QED
            BY <1>4, <3>1 DEF FrameStep, WriteBody, RemoveBody, Accept, SweepBody, Relay,
                vars, history
    <2>2. \A w \in Workers : Attempting(w)' = Attempting(w) /\ (Attempting(w) => held'[w] = held[w])
        <3>1. CASE \E w \in Workers : Relay(w)
            BY <1>0, <3>1, WorkerFacts DEF Relay, Attempting, SpoolInv, TypeOK
        <3>2. ASSUME NEW a \in Actors, Collect(a), NEW w \in Workers
              PROVE  Attempting(w)' = Attempting(w) /\ (Attempting(w) => held'[w] = held[w])
            <4>1. PICK s \in {"idle", "gc_inflight", "gc_quarantine", "gc_unlink"} :
                      pc' = [pc EXCEPT ![a] = s]
                BY <3>2, CollectEffect
            <4>2. CASE w = a
                <5>1. pc[w] \in {"gc_q", "gc_inflight", "gc_quarantine", "gc_unlink"} /\ pc'[w] = s
                    BY <1>0, <3>2, <4>1, <4>2, CollectEffect DEF SpoolInv, TypeOK
                <5> QED
                    BY <5>1 DEF Attempting
            <4>3. CASE w # a
                BY <1>0, <3>2, <4>1, <4>3, CollectEffect, WorkerFacts DEF Attempting, SpoolInv, TypeOK
            <4> QED
                BY <4>2, <4>3
        <3>3. CASE \E b \in Bodies : WriteBody(b) \/ RemoveBody(b) \/ Accept(b)
            BY <3>3 DEF WriteBody, RemoveBody, Accept, actors, Attempting
        <3>4. CASE \E b \in Bodies : SweepBody(b)
            BY <1>0, <3>4, WorkerFacts DEF SweepBody, Attempting, SpoolInv, TypeOK
        <3>5. CASE UNCHANGED vars
            BY <3>5 DEF vars, actors, Attempting
        <3> QED
            BY <1>4, <3>1, <3>2, <3>3, <3>4, <3>5 DEF FrameStep
    <2>3. Leases' = Leases
        BY <2>2 DEF Leases
    <2> QED
        BY <1>1, <2>1, <2>3, QueueStutter
<1> QED
    BY <1>2, <1>3, <1>4

\* A session's Enqueue or Quarantine puts an envelope.
LEMMA SessionRefines ==
    ASSUME FullInv, NEW e \in Envs, Enqueue(e) \/ Quarantine(e)
    PROVE  Q!Next
<1>1. /\ e \notin handed /\ handed' = handed \cup {e}
      /\ UNCHANGED <<dead, parked, completed, faulted, pc, held>>
    BY DEF Enqueue, Quarantine, actors, history
<1>2. Q!Put(e)
    BY <1>1 DEF Q!Put, Settled, EnvsIn, Attempting
<1> QED
    BY <1>2 DEF Q!Next

\* Claim takes a lease: nobody attempts the envelope, and it is not settled unless
\* an operation on it failed.
LEMMA ClaimRefines ==
    ASSUME FullInv, NEW w \in Workers, NEW f \in ready, Claim(w, f)
    PROVE  Q!Next
<1>0. OwnInv
    BY DEF FullInv, LeaseInv, OwnInv
<1>1. PICK e \in Envs : e = f.env
    BY <1>0, ClaimEffect DEF File
<1>2. e \in EnvsIn(ready) /\ e \in handed /\ e # NoEnv
    BY <1>1, SpoolAssumption DEF FullInv, SpoolInv, QueuedWasHanded, EnvsIn
<1>3. e \in Settled => e \in faulted
    BY <1>2, SettledIs DEF FullInv, LeaseInv, OwnershipInv, BuriedStaysBuried, GoneIsGone, Stored
<1>4. \A v \in Workers : Attempting(v) => held[v].env # e
    BY <1>1 DEF FullInv, SpoolInv, ReadyUnattempted
<1>5. UNCHANGED <<handed, Settled, faulted>>
    BY <1>0, ClaimEffect DEF Settled, EnvsIn
<1>6. ~Attempting(w) /\ Attempting(w)' /\ held'[w].env = e
    BY <1>0, <1>1, ClaimEffect DEF Holding, Attempting
<1>7. \A v \in Workers : v # w => Attempting(v)' = Attempting(v) /\ held'[v] = held[v]
    BY <1>0, ClaimEffect DEF Attempting
<1>8. Q!Take(w, e)
    BY <1>2, <1>3, <1>4, <1>5, <1>6, <1>7 DEF Q!Take
<1> QED
    BY <1>8 DEF Q!Next

\* Reschedule gives the envelope back with its first half, when the copy in q/ is
\* committed.
LEMMA RescheduleRefines ==
    ASSUME FullInv, NEW w \in Workers, RescheduleWrite(w)
    PROVE  Q!Next
<1>0. OwnInv
    BY DEF FullInv, LeaseInv, OwnInv
<1>1. UNCHANGED <<handed, Settled, faulted>> /\ held' = held
    BY <1>0, RescheduleEffect DEF Settled, EnvsIn
<1>2. Attempting(w) /\ ~Attempting(w)' /\ held[w].env # NoEnv
    BY <1>0, RescheduleEffect, SpoolAssumption DEF Attempting, File
<1>3. \A v \in Workers : v # w => Attempting(v)' = Attempting(v)
    BY <1>0, RescheduleEffect DEF Attempting
<1>4. Q!GiveBack(w)
    BY <1>1, <1>2, <1>3 DEF Q!GiveBack
<1> QED
    BY <1>4 DEF Q!Next

\* Bury settles the envelope with its first half and keeps the lease.
LEMMA BuryRefines ==
    ASSUME FullInv, NEW w \in Workers, BuryWrite(w)
    PROVE  Q!Next
<1>0. OwnInv
    BY DEF FullInv, LeaseInv, OwnInv
<1>1. UNCHANGED <<handed, faulted, held>> /\ Settled' = Settled \cup {held[w].env}
    BY <1>0, BuryEffect DEF Settled
<1>2. Attempting(w) /\ Attempting(w)' /\ held[w].env # NoEnv
    BY <1>0, BuryEffect, SpoolAssumption DEF Attempting, File
<1>3. \A v \in Workers : Attempting(v)' = Attempting(v)
    BY <1>0, <1>2, BuryEffect DEF Attempting
<1>4. Q!Settle(w)
    BY <1>1, <1>2, <1>3 DEF Q!Settle
<1> QED
    BY <1>4 DEF Q!Next

\* Park and Complete settle the envelope and end the lease, Bury's second half ends
\* it, and Reschedule's second half is invisible.
LEMMA UnlinkRefines ==
    ASSUME FullInv, NEW w \in Workers, Unlink(w)
    PROVE  [Q!Next]_Q!qvars
<1>0. OwnInv
    BY DEF FullInv, LeaseInv, OwnInv
<1> USE DEF Unlink
<1>1. UNCHANGED <<handed, faulted, dead>> /\ ~Attempting(w)' /\ held[w].env # NoEnv
    BY <1>0, UnlinkEffect, SpoolAssumption DEF Attempting, File
<1>2. \A v \in Workers : v # w => Attempting(v)' = Attempting(v) /\ held'[v] = held[v]
    BY <1>0, UnlinkEffect DEF Attempting
<1>3. CASE Park(w) \/ Complete(w)
    <2>1. Attempting(w) /\ Settled' = Settled \cup {held[w].env}
        BY <1>1, <1>3 DEF Park, Complete, Attempting, Settled, EnvsIn, history
    <2>2. Q!Settle(w)
        BY <1>1, <1>2, <2>1 DEF Q!Settle
    <2> QED
        BY <2>2 DEF Q!Next
<1>4. CASE BuryRemove(w)
    <2>1. Attempting(w) /\ Settled' = Settled
        BY <1>1, <1>4 DEF BuryRemove, Attempting, Settled, EnvsIn, history
    <2>2. Q!GiveBack(w)
        BY <1>1, <1>2, <2>1 DEF Q!GiveBack
    <2> QED
        BY <2>2 DEF Q!Next
<1>5. CASE RescheduleRemove(w)
    <2>1. ~Attempting(w) /\ Settled' = Settled
        BY <1>1, <1>5 DEF RescheduleRemove, Attempting, Settled, EnvsIn, history
    <2>2. Leases' = Leases
        BY <1>1, <1>2, <2>1 DEF Leases
    <2> QED
        BY <1>1, <2>1, <2>2, QueueStutter
<1> QED
    BY <1>3, <1>4, <1>5

\* Boot and the end of the process: no lease survives, and a failed Recover is a
\* failure for every envelope left on its list.
LEMMA BootRefines ==
    ASSUME FullInv, BootStep
    PROVE  [Q!Next]_Q!qvars
<1>0. OwnInv
    BY DEF FullInv, LeaseInv, OwnInv
<1> USE DEF BootStep
<1>1. UNCHANGED <<handed, Settled>> /\ \A w \in Workers : ~Attempting(w)'
    BY <1>0, BootEffect DEF Settled, EnvsIn, Attempting
<1>2. CASE Halt \/ SweepStart \/ RecoverStart \/ RecoverDone
    <2>1. faulted' = faulted
        BY <1>2 DEF Halt, SweepStart, RecoverStart, Recover, RecoverDone, history
    <2>2. Q!Restart
        BY <1>1, <2>1 DEF Q!Restart
    <2> QED
        BY <2>2 DEF Q!Next
<1>3. CASE RecoverFail
    <2>1. PICK S \in SUBSET Envs : S = EnvsIn(recTodo)
        BY EnvsInType DEF FullInv, SpoolInv, TypeOK
    <2>2. faulted' = faulted \cup S /\ \A w \in Workers : ~Attempting(w)
        BY <1>3, <2>1 DEF RecoverFail, FullInv, SpoolInv, IdleUnlessUp, Attempting
    <2>3. Q!Fail(S)
        BY <1>1, <2>2 DEF Q!Fail
    <2> QED
        BY <2>3 DEF Q!Next
<1> QED
    BY <1>2, <1>3

\* What Recover moves, shutdown and the clock are invisible.
LEMMA InvisibleRefines ==
    ASSUME FullInv, Shutdown \/ Tick \/ \E f \in recTodo : RecoverEntry(f)
    PROVE  UNCHANGED Q!qvars
<1>1. UNCHANGED <<handed, dead, parked, completed, faulted, pc, held>>
    BY DEF Shutdown, Tick, RecoverEntry, disk, actors, history
<1>2. UNCHANGED <<handed, Leases, Settled, faulted>>
    BY <1>1 DEF Leases, Attempting, Settled, EnvsIn
<1> QED
    BY <1>2, QueueStutter

\* Every step maps to a step of the queue or a stutter.
LEMMA StepRefines ==
    ASSUME FullInv, [Next]_vars
    PROVE  [Q!Next]_Q!qvars
<1>1. CASE FrameStep
    BY <1>1, FrameRefines
<1>2. CASE \E e \in Envs : Enqueue(e) \/ Quarantine(e)
    BY <1>2, SessionRefines
<1>3. CASE \E w \in Workers :
              (\E f \in ready : Claim(w, f)) \/ RescheduleWrite(w) \/ BuryWrite(w) \/ Unlink(w)
    BY <1>3, ClaimRefines, RescheduleRefines, BuryRefines, UnlinkRefines
<1>4. CASE BootStep
    BY <1>4, BootRefines
<1>5. CASE Shutdown \/ Tick \/ \E f \in recTodo : RecoverEntry(f)
    BY <1>5, InvisibleRefines
<1> QED
    BY <1>1, <1>2, <1>3, <1>4, <1>5, StepKinds DEF FullInv

\* The spool implements the queue with leases: a worker that takes an envelope has
\* it alone, a settled envelope is not taken again unless an operation on it
\* failed, and a restart forgets nothing.
THEOREM SpoolIsQueue ==
    ASSUME MinBackoff > 0, SlowDisk = FALSE
    PROVE  Spec => ImplementsQueue
<1>1. Init => FullInv
    BY FullInit
<1>2. FullInv /\ [Next]_vars => FullInv'
    BY FullStep
<1>3. Init => Q!Init
    <2> SUFFICES ASSUME Init PROVE Q!Init
        OBVIOUS
    <2>1. handed \in SUBSET Envs /\ Settled = {} /\ faulted = {}
        BY SpoolAssumption DEF Init, Settled, EnvsIn
    <2>2. \A w \in Workers : ~Attempting(w)
        BY WorkerFacts DEF Init, Attempting
    <2> QED
        BY <2>1, <2>2 DEF Q!Init
<1>4. FullInv /\ [Next]_vars => [Q!Next]_Q!qvars
    BY StepRefines
<1> QED
    BY <1>1, <1>2, <1>3, <1>4, PTL DEF Spec, ImplementsQueue, Q!Spec
=============================================================================
