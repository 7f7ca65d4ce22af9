-------------------------- MODULE SpoolBodyProofs --------------------------
(***************************************************************************)
(* Message bodies: gcBody and SweepBodies never take the body of an        *)
(* envelope that is still queued, claimed or held, provided that messages  *)
(* are not split into several envelopes (Unsplit) and a backoff outlasts   *)
(* the two file operations of Reschedule (SlowDisk = FALSE).  For split    *)
(* messages it does not hold: see run SpoolScanRace.                       *)
(* And, for split messages too, whatever finishes last leaves no body.     *)
(***************************************************************************)
EXTENDS SpoolQueueProofs

BodiesInv == FullInv /\ BodyInv

\* The initial state: every queued envelope has its body.
LEMMA InitBodies == Init => BodyInv
<1> SUFFICES ASSUME Init PROVE BodyInv
    OBVIOUS
<1>1. \A a \in Actors : ~Collecting(a)
    BY DEF Init, Collecting
<1>2. SessionBody
    BY DEF Init, SessionBody, Serving
<1>3. CollectsFinished /\ SweepAlone
    BY <1>1, WorkerFacts DEF CollectsFinished, SweepAlone, Actors
<1>4. BodyKept
    <2>1. \A e \in Stored : e \in Spooled0
        BY DEF Init, Stored, EnvsIn
    <2> QED
        BY <2>1 DEF Init, BodyKept
<1> QED
    BY <1>2, <1>3, <1>4 DEF BodyInv

\* Only a session brings an envelope into the queue: whatever else happens, no
\* envelope that had left it comes back.
LEMMA StoredGrows ==
    ASSUME FullInv, [Next]_vars
    PROVE  /\ Stored' \subseteq Stored \cup (handed' \ handed)
           /\ handed \subseteq handed' /\ faulted \subseteq faulted'
<1>0. OwnInv /\ SpoolInv
    BY DEF FullInv, LeaseInv, OwnInv
<1> USE DEF Stored
<1>1. CASE FrameStep
    BY <1>0, <1>1, FrameEffect DEF EnvsIn
<1>2. ASSUME NEW e \in Envs, Enqueue(e) \/ Quarantine(e)
      PROVE  /\ Stored' \subseteq Stored \cup (handed' \ handed)
             /\ handed \subseteq handed' /\ faulted \subseteq faulted'
    <2>1. /\ e \notin handed /\ handed' = handed \cup {e} /\ faulted' = faulted /\ inflight' = inflight
          /\ [env |-> e, due |-> now, gen |-> 0] \in File /\ [env |-> e, due |-> 0, gen |-> 0] \in File
          /\ ready \in SUBSET File /\ quarantine \in SUBSET File
        BY <1>0, <1>2 DEF Enqueue, Quarantine, SpoolInv, TypeOK, File, history
    <2>2. CASE Enqueue(e)
        BY <2>1, <2>2, EnvsInPut DEF Enqueue
    <2>3. CASE Quarantine(e)
        BY <2>1, <2>3, EnvsInPut DEF Quarantine
    <2> QED
        BY <1>2, <2>2, <2>3
<1>3. ASSUME NEW w \in Workers, NEW f \in ready, Claim(w, f)
      PROVE  Stored' \subseteq Stored /\ UNCHANGED <<handed, faulted>>
    <2>1. f.env \in EnvsIn(ready)
        BY DEF EnvsIn
    <2> QED
        BY <1>0, <1>3, <2>1, ClaimEffect
<1>4. ASSUME NEW w \in Workers, RescheduleWrite(w)
      PROVE  Stored' \subseteq Stored /\ UNCHANGED <<handed, faulted>>
    <2>1. held[w].env \in EnvsIn(inflight)
        BY <1>0, <1>4, RescheduleEffect DEF EnvsIn
    <2> QED
        BY <1>0, <1>4, <2>1, RescheduleEffect
<1>5. ASSUME NEW w \in Workers, BuryWrite(w)
      PROVE  Stored' \subseteq Stored /\ UNCHANGED <<handed, faulted>>
    BY <1>0, <1>5, BuryEffect
<1>6. ASSUME NEW w \in Workers, Unlink(w)
      PROVE  Stored' \subseteq Stored /\ UNCHANGED <<handed, faulted>>
    BY <1>0, <1>6, UnlinkEffect DEF Unlink
<1>7. CASE BootStep
    BY <1>0, <1>7, BootEffect DEF BootStep
<1>8. ASSUME NEW f \in recTodo, RecoverEntry(f)
      PROVE  Stored' \subseteq Stored /\ UNCHANGED <<handed, faulted>>
    <2>1. f.env \in EnvsIn(inflight)
        BY <1>0, <1>8, RecoverEntryEffect DEF EnvsIn
    <2> QED
        BY <1>0, <1>8, <2>1, RecoverEntryEffect
<1>9. CASE Shutdown \/ Tick
    BY <1>9 DEF Shutdown, Tick, disk, history
<1> QED
    BY <1>0, <1>1, <1>2, <1>3, <1>4, <1>5, <1>6, <1>7, <1>8, <1>9, StepKinds

\* Everything in the queue was handed over.
LEMMA StoredWasHanded == ASSUME FullInv PROVE Stored \subseteq handed
BY DEF FullInv, SpoolInv, QueuedWasHanded, LeaseInv, OwnershipInv, OnlySessionsPut, Stored

\* The envelope whose claim an attempt removes has then left the queue, unless an
\* operation on it failed or it was rescheduled.
LEMMA UnlinkLast ==
    ASSUME FullInv, NEW w \in Workers, Unlink(w), Attempting(w), held[w].env \notin faulted
    PROVE  held[w].env \notin Stored'
<1>0. OwnInv
    BY DEF FullInv, LeaseInv, OwnInv
<1> USE DEF Unlink
<1>1. held[w].env \notin EnvsIn(ready)
    BY DEF FullInv, SpoolInv, ReadyUnattempted, EnvsIn
<1>2. held[w].env \notin EnvsIn(quarantine)
    BY <1>0, UnlinkEffect DEF FullInv, LeaseInv, OwnershipInv, QuarantineApart, EnvsIn
<1>3. held[w].env \notin EnvsIn(inflight')
    BY <1>0, UnlinkEffect DEF FullInv, LeaseInv, InflightUnique, EnvsIn
<1> QED
    BY <1>0, <1>1, <1>2, <1>3, UnlinkEffect DEF Stored

\* Who is collecting after a step: a worker that collected before, on the same
\* target, or one that just completed or buried its envelope.
LEMMA CollectsKept ==
    ASSUME FullInv, [Next]_vars, NEW w \in Workers, Collecting(w)'
    PROVE  \/ Collecting(w) /\ gc'[w] = gc[w]
           \/ /\ Unlink(w) /\ Attempting(w)
              /\ gc'[w] = [body |-> BodyOf[held[w].env], except |-> held[w].env]
<1> USE DEF Collecting
<1>0. TypeOK /\ w \in Actors /\ w # "boot" /\ "boot" \in Actors /\ w \notin Operators
    BY WorkerFacts DEF FullInv, SpoolInv, Actors
<1>1. CASE SessionNext
    BY <1>1 DEF SessionNext, WriteBody, RemoveBody, EnqueueFail, Accept, Enqueue, Quarantine, actors
<1>2. ASSUME NEW v \in Workers, (\E f \in ready : Claim(v, f)) \/ Attempt(v)
      PROVE  Collecting(w) /\ gc'[w] = gc[w]
    <2>1. gc' = gc /\ \E s \in {"idle", "claimed", "done", "rescheduled", "buried"} : pc' = [pc EXCEPT ![v] = s]
        BY <1>2 DEF Claim, Attempt, Park, Relay, RescheduleWrite, BuryWrite, MoveFail, Idle
    <2>2. v \in Actors
        BY WorkerFacts
    <2> QED
        BY <1>0, <2>1, <2>2 DEF TypeOK
<1>3. ASSUME NEW v \in Workers, Finish(v)
      PROVE  \/ Collecting(w) /\ gc'[w] = gc[w]
             \/ /\ Unlink(w) /\ Attempting(w)
                /\ gc'[w] = [body |-> BodyOf[held[w].env], except |-> held[w].env]
    <2>1. v \in Actors
        BY WorkerFacts
    <2>2. CASE RescheduleRemove(v)
        BY <1>0, <2>1, <2>2 DEF RescheduleRemove, Idle, TypeOK
    <2>3. CASE Complete(v)
        <3>1. CASE v = w
            BY <1>0, <2>3, <3>1 DEF Complete, Unlink, Attempting, TypeOK
        <3>2. CASE v # w
            BY <1>0, <2>1, <2>3, <3>2 DEF Complete, TypeOK
        <3> QED
            BY <3>1, <3>2
    <2>4. CASE BuryRemove(v)
        <3>1. CASE v = w
            BY <1>0, <2>4, <3>1 DEF BuryRemove, Unlink, Attempting, TypeOK
        <3>2. CASE v # w
            BY <1>0, <2>1, <2>4, <3>2 DEF BuryRemove, TypeOK
        <3> QED
            BY <3>1, <3>2
    <2> QED
        BY <1>3, <2>2, <2>3, <2>4, NoneReplaced DEF Finish, FullInv
<1>4. ASSUME NEW a \in Actors, Collect(a)
      PROVE  Collecting(w) /\ gc'[w] = gc[w]
    <2>1. CASE a # w
        BY <1>0, <1>4, <2>1, CollectEffect DEF TypeOK
    <2>2. CASE a = w
        BY <1>0, <1>4, <2>2 DEF Collect, GcScanReady, GcScanInflight, GcScanQuarantine, GcUnlink,
            GcScan, GcStop, Idle, TypeOK
    <2> QED
        BY <2>1, <2>2
<1>5. CASE Start \/ Shutdown \/ Crash \/ Exit \/ Tick \/ Poll \/ UNCHANGED vars
    <2>1. CASE \E b \in Bodies : SweepBody(b)
        BY <1>0, <2>1 DEF SweepBody, TypeOK
    <2>2. CASE Collect("boot")
        BY <1>0, <1>4, <2>2
    <2>3. CASE SweepStart \/ RecoverStart \/ (\E f \in recTodo : RecoverEntry(f)) \/ RecoverDone \/ RecoverFail
        BY <2>3 DEF SweepStart, RecoverStart, Recover, RecoverEntry, RecoverDone, RecoverFail, actors
    <2>4. CASE Shutdown \/ Tick \/ Poll \/ UNCHANGED vars
        BY <2>4 DEF Shutdown, Tick, Poll, vars, actors
    <2>5. CASE Crash \/ Exit
        BY <1>0, <2>5 DEF Crash, Exit, Halt
    <2> QED
        BY <1>5, <2>1, <2>2, <2>3, <2>4, <2>5 DEF Start
<1> QED
    BY <1>1, <1>2, <1>3, <1>4, <1>5, WorkerFacts DEF Next, WorkerNext

\* CollectsFinished is inductive.
LEMMA CollectsFinishedStep ==
    ASSUME BodiesInv, [Next]_vars
    PROVE  CollectsFinished'
<1> SUFFICES ASSUME NEW w \in Workers, Collecting(w)'
             PROVE  \E e \in handed' : /\ gc'[w] = [body |-> BodyOf[e], except |-> e]
                                       /\ e \in Stored' => e \in faulted'
    BY DEF CollectsFinished
<1>0. FullInv
    BY DEF BodiesInv
<1>1. CASE Collecting(w) /\ gc'[w] = gc[w]
    <2>1. PICK e \in handed : gc[w] = [body |-> BodyOf[e], except |-> e] /\ (e \in Stored => e \in faulted)
        BY <1>1 DEF BodiesInv, BodyInv, CollectsFinished
    <2>2. e \in handed' /\ (e \in Stored' => e \in faulted')
        BY <1>0, <2>1, StoredGrows
    <2> QED
        BY <1>1, <2>1, <2>2
<1>2. CASE /\ Unlink(w) /\ Attempting(w)
           /\ gc'[w] = [body |-> BodyOf[held[w].env], except |-> held[w].env]
    <2>1. held[w].env \in handed
        BY <1>0, <1>2 DEF FullInv, SpoolInv, ClaimOnDisk, QueuedWasHanded, Holding, EnvsIn
    <2>2. held[w].env \in handed' /\ (held[w].env \in Stored' => held[w].env \in faulted')
        BY <1>0, <1>2, <2>1, StoredGrows, UnlinkLast
    <2> QED
        BY <1>2, <2>2
<1> QED
    BY <1>0, <1>1, <1>2, CollectsKept

\* Bodies disappear in two places: RemoveBody and the end of a collection.
LEMMA DataKept ==
    ASSUME [Next]_vars, NEW b \in data, b \notin data'
    PROVE  RemoveBody(b) \/ \E a \in Workers \cup {"boot"} : GcUnlink(a) /\ gc[a].body = b
<1>1. CASE SessionNext
    BY <1>1 DEF SessionNext, WriteBody, RemoveBody, EnqueueFail, Accept, Enqueue, Quarantine, disk
<1>2. ASSUME NEW a \in Workers \cup {"boot"}, Collect(a)
      PROVE  GcUnlink(a) /\ gc[a].body = b
    BY <1>2 DEF Collect, GcScanReady, GcScanInflight, GcScanQuarantine, GcScan, GcUnlink, disk
<1>3. ASSUME NEW w \in Workers, (\E f \in ready : Claim(w, f)) \/ Attempt(w) \/ Finish(w)
      PROVE  data' = data
    BY <1>3 DEF Claim, Attempt, Finish, UnlinkReplaced, Park, Relay, RescheduleWrite, BuryWrite, MoveFail, Complete,
        RescheduleRemove, BuryRemove, disk
<1>4. CASE Start
    BY <1>2, <1>4 DEF Start, SweepStart, SweepBody, RecoverStart, Recover, RecoverEntry, RecoverDone,
        RecoverFail, disk
<1>5. CASE Shutdown \/ Crash \/ Exit \/ Tick \/ Poll \/ UNCHANGED vars
    BY <1>5 DEF Shutdown, Crash, Exit, Halt, Tick, Poll, vars, disk
<1> QED
    BY <1>1, <1>2, <1>3, <1>4, <1>5 DEF Next, WorkerNext

\* A collection ends with the unlink of a body that no envelope in the queue needs:
\* a worker's target has left the queue, and the sweep found no other referrer.
LEMMA UnlinkUnneeded ==
    ASSUME Unsplit, BodiesInv, NEW a \in Workers \cup {"boot"}, GcUnlink(a),
           NEW e \in Envs, BodyOf[e] = gc[a].body
    PROVE  e \in Stored => e \in faulted
<1> SUFFICES ASSUME e \in Stored PROVE e \in faulted
    OBVIOUS
<1>0. Collecting(a) /\ pc[a] = "gc_unlink"
    BY DEF GcUnlink, Collecting
<1>1. CASE a \in Workers
    <2>1. PICK d \in handed : gc[a] = [body |-> BodyOf[d], except |-> d] /\ (d \in Stored => d \in faulted)
        BY <1>0, <1>1 DEF BodiesInv, BodyInv, CollectsFinished
    <2>2. d \in Envs
        BY <2>1 DEF BodiesInv, FullInv, SpoolInv, TypeOK
    <2>3. d = e
        BY <2>1, <2>2 DEF Unsplit
    <2> QED
        BY <2>1, <2>3
<1>2. CASE a = "boot"
    <2>1. /\ gc[a].except = NoEnv /\ ~bodyReferenced(ready, gc[a])
          /\ ~bodyReferenced(inflight, gc[a]) /\ ~bodyReferenced(quarantine, gc[a])
        BY <1>0, <1>2 DEF BodiesInv, BodyInv, SweepAlone
    <2>2. PICK f \in ready \cup inflight \cup quarantine : f.env = e
        BY DEF Stored, EnvsIn
    <2>3. f.env # NoEnv /\ BodyOf[f.env] = gc[a].body
        BY <2>2, SpoolAssumption
    <2> QED
        BY <2>1, <2>2, <2>3 DEF bodyReferenced
<1> QED
    BY <1>1, <1>2

\* An envelope is handed over by the session's Enqueue or Quarantine.
LEMMA HandedBy ==
    ASSUME [Next]_vars, NEW e \in handed' \ handed
    PROVE  \E d \in Envs : (Enqueue(d) \/ Quarantine(d)) /\ d = e
<1>1. handed' # handed
    OBVIOUS
<1>2. SessionNext
    <2>1. ASSUME NEW w \in Workers, (\E f \in ready : Claim(w, f)) \/ Attempt(w) \/ Finish(w)
          PROVE  handed' = handed
        BY <2>1 DEF Claim, Attempt, Finish, UnlinkReplaced, Park, Relay, RescheduleWrite, BuryWrite, MoveFail,
            Complete, RescheduleRemove, BuryRemove
    <2>2. ASSUME NEW a \in Workers \cup {"boot"}, Collect(a) PROVE handed' = handed
        BY <2>2 DEF Collect, GcScanReady, GcScanInflight, GcScanQuarantine, GcScan, GcUnlink
    <2>3. Start \/ Shutdown \/ Crash \/ Exit \/ Tick \/ Poll \/ UNCHANGED vars => handed' = handed
        BY <2>2 DEF Start, SweepStart, SweepBody, RecoverStart, Recover, RecoverEntry,
            RecoverDone, RecoverFail, Shutdown, Crash, Exit, Halt, Tick, Poll, vars
    <2> QED
        BY <1>1, <2>1, <2>2, <2>3 DEF Next, WorkerNext
<1> QED
    BY <1>2 DEF SessionNext, WriteBody, RemoveBody, EnqueueFail, Accept, Enqueue, Quarantine

\* What a session adds to a directory hides nothing.
LEMMA EnqueueKeeps ==
    ASSUME TypeOK, NEW e \in Envs, Enqueue(e) \/ Quarantine(e)
    PROVE  /\ UNCHANGED <<actors, data, txn, inflight, boot, parked, faulted>>
           /\ handed' = handed \cup {e} /\ Stored' = Stored \cup {e}
           /\ EnvsIn(ready) \subseteq EnvsIn(ready')
<1>1. /\ UNCHANGED <<actors, data, txn, inflight, boot, parked, faulted>> /\ handed' = handed \cup {e}
      /\ [env |-> e, due |-> now, gen |-> 0] \in File /\ [env |-> e, due |-> 0, gen |-> 0] \in File
      /\ ready \in SUBSET File /\ quarantine \in SUBSET File
    BY DEF Enqueue, Quarantine, TypeOK, File, history
<1>2. CASE Enqueue(e)
    <2>1. quarantine' = quarantine /\ EnvsIn(ready') = EnvsIn(ready) \cup {e}
        BY <1>1, <1>2, EnvsInPut DEF Enqueue
    <2> QED
        BY <1>1, <2>1 DEF Stored
<1>3. CASE Quarantine(e)
    <2>1. ready' = ready /\ EnvsIn(quarantine') = EnvsIn(quarantine) \cup {e}
        BY <1>1, <1>3, EnvsInPut DEF Quarantine
    <2> QED
        BY <1>1, <2>1 DEF Stored
<1> QED
    BY <1>2, <1>3

\* BodyKept is inductive.
LEMMA BodyKeptStep ==
    ASSUME Unsplit, BodiesInv, [Next]_vars
    PROVE  BodyKept'
<1> SUFFICES ASSUME NEW e \in Stored', e \notin faulted' PROVE BodyOf[e] \in data'
    BY DEF BodyKept
<1>0. FullInv /\ TypeOK
    BY DEF BodiesInv, FullInv, SpoolInv
<1>1. e \in Stored \cup (handed' \ handed) /\ e \notin faulted
    BY <1>0, StoredGrows
<1>2. CASE e \in Stored
    <2>1. e \in Envs /\ e \in handed /\ BodyOf[e] \in data
        BY <1>0, <1>1, <1>2, StoredWasHanded DEF BodiesInv, BodyInv, BodyKept, TypeOK
    <2> SUFFICES ASSUME BodyOf[e] \notin data' PROVE FALSE
        OBVIOUS
    <2>2. CASE RemoveBody(BodyOf[e])
        BY <2>1, <2>2 DEF RemoveBody, EnvsOf
    <2>3. ASSUME NEW a \in Workers \cup {"boot"}, GcUnlink(a), gc[a].body = BodyOf[e] PROVE FALSE
        BY <1>1, <1>2, <2>1, <2>3, UnlinkUnneeded
    <2> QED
        BY <2>1, <2>2, <2>3, DataKept
<1>3. CASE e \in handed' \ handed
    <2>1. PICK d \in Envs : (Enqueue(d) \/ Quarantine(d)) /\ d = e
        BY <1>3, HandedBy
    <2>2. txn[BodyOf[d]] = "spooled" /\ d \notin handed /\ data' = data /\ BodyOf[d] \in Bodies
        BY <2>1, SpoolAssumption DEF Enqueue, Quarantine
    <2>3. EnvsOf(BodyOf[d]) \cap handed = {}
        BY <2>2 DEF EnvsOf, Unsplit
    <2> QED
        BY <2>1, <2>2, <2>3 DEF BodiesInv, BodyInv, SessionBody
<1> QED
    BY <1>1, <1>2, <1>3

\* While SweepBodies runs nothing else does, so what it has read stays true.
LEMMA SweepAloneStep ==
    ASSUME BodiesInv, [Next]_vars
    PROVE  SweepAlone'
<1>0. /\ TypeOK /\ IdleUnlessUp /\ SweepAlone /\ "boot" \in Actors /\ "boot" \notin Operators
      /\ "boot" \notin Workers /\ Workers \subseteq Actors
    BY SpoolAssumption DEF BodiesInv, FullInv, SpoolInv, BodyInv, Actors
<1>1. CASE /\ pc'["boot"] = pc["boot"] /\ gc'["boot"] = gc["boot"]
           /\ ~Collecting("boot") \/ UNCHANGED <<phase, ready, inflight, quarantine>>
    BY <1>0, <1>1 DEF SweepAlone, Collecting, bodyReferenced
<1>2. CASE SessionNext
    <2>1. Serving /\ UNCHANGED actors
        BY <1>2 DEF SessionNext, WriteBody, RemoveBody, EnqueueFail, Accept, Enqueue, Quarantine
    <2> QED
        BY <1>0, <1>1, <2>1 DEF SweepAlone, Serving, actors
<1>3. ASSUME NEW w \in Workers, (\E f \in ready : Claim(w, f)) \/ Attempt(w) \/ Finish(w) \/ Collect(w)
      PROVE  SweepAlone'
    <2>1. pc'["boot"] = pc["boot"] /\ gc'["boot"] = gc["boot"]
        BY <1>0, <1>3 DEF TypeOK, Claim, Attempt, Finish, UnlinkReplaced, Park, Relay, RescheduleWrite, BuryWrite, MoveFail,
            Complete, RescheduleRemove, BuryRemove, Idle, Collect, GcScanReady, GcScanInflight,
            GcScanQuarantine, GcScan, GcUnlink, GcStop
    <2>2. phase \in {"up", "stopping"}
        <3>1. pc[w] = "idle" => phase = "up"
            BY <1>3 DEF Claim, Attempt, Finish, UnlinkReplaced, Park, Relay, RescheduleWrite, BuryWrite, MoveFail,
                Complete, RescheduleRemove, BuryRemove, Collect, GcScanReady, GcScanInflight,
                GcScanQuarantine, GcScan, GcUnlink
        <3> QED
            BY <1>0, <3>1 DEF IdleUnlessUp
    <2> QED
        BY <1>0, <1>1, <2>1, <2>2 DEF SweepAlone
<1>4. CASE Collect("boot")
    <2>1. /\ UNCHANGED <<phase, ready, inflight, quarantine>> /\ Collecting("boot")
          /\ phase = "sweep" /\ gc["boot"].except = NoEnv
        BY <1>0, <1>4 DEF Collect, GcScanReady, GcScanInflight, GcScanQuarantine, GcScan, GcUnlink,
            disk, boot, SweepAlone, Collecting
    <2>2. CASE pc'["boot"] = "idle"
        BY <2>2 DEF SweepAlone, Collecting
    <2>3. CASE pc'["boot"] # "idle"
        <3>1. /\ gc' = gc
              /\ \/ pc["boot"] = "gc_q" /\ pc'["boot"] = "gc_inflight" /\ ~bodyReferenced(ready, gc["boot"])
                 \/ pc["boot"] = "gc_inflight" /\ pc'["boot"] = "gc_quarantine" /\ ~bodyReferenced(inflight, gc["boot"])
                 \/ pc["boot"] = "gc_quarantine" /\ pc'["boot"] = "gc_unlink" /\ ~bodyReferenced(quarantine, gc["boot"])
            BY <1>0, <1>4, <2>3 DEF Collect, GcScanReady, GcScanInflight, GcScanQuarantine, GcScan,
                GcUnlink, GcStop, Idle, TypeOK
        <3> QED
            BY <1>0, <2>1, <3>1 DEF SweepAlone, Collecting, bodyReferenced
    <2> QED
        BY <2>2, <2>3
<1>5. CASE \E b \in Bodies : SweepBody(b)
    BY <1>0, <1>5 DEF SweepBody, SweepAlone, Collecting, TypeOK
<1>6. CASE SweepStart \/ RecoverStart \/ (\E f \in recTodo : RecoverEntry(f)) \/ RecoverDone \/ RecoverFail
    <2>1. UNCHANGED actors /\ ~Collecting("boot")
        BY <1>0, <1>6 DEF SweepStart, RecoverStart, Recover, RecoverEntry, RecoverDone, RecoverFail,
            SweepAlone, Collecting
    <2> QED
        BY <1>1, <2>1 DEF actors
<1>7. CASE Crash \/ Exit
    BY <1>0, <1>7 DEF Crash, Exit, Halt, SweepAlone, Collecting
<1>8. CASE Shutdown \/ Tick \/ Poll \/ UNCHANGED vars
    <2>1. /\ UNCHANGED <<actors, ready, inflight, quarantine>>
          /\ phase' = phase \/ phase = "up"
        BY <1>8 DEF Shutdown, Tick, Poll, vars, disk, boot
    <2> QED
        BY <1>0, <1>1, <2>1 DEF actors, SweepAlone
<1> QED
    BY <1>2, <1>3, <1>4, <1>5, <1>6, <1>7, <1>8 DEF Next, WorkerNext, Start

\* A session keeps its body until its first envelope is queued, and no session
\* outlives the process.
LEMMA SessionBodyStep ==
    ASSUME BodiesInv, [Next]_vars
    PROVE  SessionBody'
<1>0. FullInv /\ TypeOK /\ SessionBody /\ IdleUnlessUp /\ handed \subseteq handed'
    BY StoredGrows DEF BodiesInv, FullInv, SpoolInv, BodyInv
<1>1. CASE SessionNext
    <2>1. CASE \E b \in Bodies : WriteBody(b) \/ RemoveBody(b) \/ EnqueueFail(b) \/ Accept(b)
        <3>1. PICK b \in Bodies : WriteBody(b) \/ RemoveBody(b) \/ EnqueueFail(b) \/ Accept(b)
            BY <2>1
        <3>2. Serving' /\ handed' = handed
            BY <3>1 DEF WriteBody, RemoveBody, EnqueueFail, Accept, Serving, boot
        <3>3. ASSUME NEW c \in Bodies, txn'[c] = "spooled", EnvsOf(c) \cap handed = {} PROVE c \in data'
            BY <1>0, <3>1, <3>3 DEF WriteBody, RemoveBody, EnqueueFail, Accept, TypeOK, SessionBody, disk
        <3> QED
            BY <3>2, <3>3 DEF SessionBody, EnvsOf
    <2>2. CASE \E e \in Envs : Enqueue(e) \/ Quarantine(e)
        <3>1. Serving' /\ txn' = txn /\ data' = data
            BY <2>2 DEF Enqueue, Quarantine, Serving, boot
        <3> QED
            BY <1>0, <3>1 DEF SessionBody, EnvsOf
    <2> QED
        BY <1>1, <2>1, <2>2 DEF SessionNext
<1>2. CASE Crash \/ Exit
    <2>1. \A b \in Bodies : txn'[b] # "spooled"
        BY <1>0, <1>2 DEF Crash, Exit, Halt, TypeOK
    <2> QED
        BY <2>1 DEF SessionBody
<1>3. CASE txn' = txn /\ data' = data /\ (Serving => Serving')
    BY <1>0, <1>3 DEF SessionBody, EnvsOf
<1>4. CASE SweepStart \/ (\E b \in Bodies : SweepBody(b)) \/ RecoverStart
           \/ (\E f \in recTodo : RecoverEntry(f)) \/ RecoverDone \/ RecoverFail
    <2>1. txn' = txn /\ data' = data /\ (Serving => Serving')
        BY <1>4 DEF SweepStart, SweepBody, RecoverStart, Recover, RecoverEntry, RecoverDone,
            RecoverFail, disk, Serving
    <2> QED
        BY <1>3, <2>1
<1>5. CASE Shutdown \/ Tick \/ Poll \/ UNCHANGED vars
    <2>1. txn' = txn /\ data' = data /\ (Serving => Serving')
        BY <1>5 DEF Shutdown, Tick, Poll, vars, disk, boot, Serving
    <2> QED
        BY <1>3, <2>1
<1>6. ASSUME NEW w \in Workers, (\E f \in ready : Claim(w, f)) \/ Attempt(w) \/ Finish(w)
      PROVE  SessionBody'
    <2>1. txn' = txn /\ data' = data /\ phase' = phase
        BY <1>6 DEF Claim, Attempt, Finish, UnlinkReplaced, Park, Relay, RescheduleWrite, BuryWrite, MoveFail, Complete,
            RescheduleRemove, BuryRemove, disk, boot
    <2> QED
        BY <1>3, <2>1 DEF Serving
<1>7. ASSUME NEW a \in Workers \cup {"boot"}, Collect(a)
      PROVE  SessionBody'
    <2>1. txn' = txn /\ handed' = handed /\ (Serving' <=> Serving)
        BY <1>7 DEF Collect, GcScanReady, GcScanInflight, GcScanQuarantine, GcScan, GcUnlink, boot, Serving
    <2>2. CASE data' = data
        BY <1>3, <2>1, <2>2
    <2>3. CASE data' # data
        <3>1. GcUnlink(a) /\ data' = data \ {gc[a].body} /\ Collecting(a)
            BY <1>7, <2>3 DEF Collect, GcScanReady, GcScanInflight, GcScanQuarantine, GcScan, GcUnlink,
                disk, Collecting
        <3>2. CASE a \in Workers
            <4>1. PICK d \in handed : gc[a] = [body |-> BodyOf[d], except |-> d]
                BY <3>1, <3>2 DEF BodiesInv, BodyInv, CollectsFinished
            <4>2. d \in EnvsOf(gc[a].body) \cap handed
                BY <1>0, <4>1 DEF EnvsOf, TypeOK
            <4> QED
                BY <1>0, <2>1, <3>1, <4>2 DEF SessionBody, EnvsOf
        <3>3. CASE a = "boot"
            <4>1. ~Serving
                BY <3>1, <3>3 DEF BodiesInv, BodyInv, SweepAlone, Serving
            <4> QED
                BY <1>0, <2>1, <4>1 DEF SessionBody
        <3> QED
            BY <3>2, <3>3
    <2> QED
        BY <2>2, <2>3
<1> QED
    BY <1>1, <1>2, <1>4, <1>5, <1>6, <1>7 DEF Next, WorkerNext, Start

\* When no message is split and a backoff outlasts Reschedule, the collections
\* that Complete, Bury and the sweep at boot run leave every body that an envelope
\* in q/, inflight/ or quarantine/ still needs, in any interleaving with sessions
\* and crashes.
THEOREM BodiesKept ==
    ASSUME MinBackoff > 0, SlowDisk = FALSE, Unsplit
    PROVE  Spec => []BodyKept
<1>1. Init => BodiesInv
    BY FullInit, InitBodies DEF BodiesInv
<1>2. BodiesInv /\ [Next]_vars => BodiesInv'
    <2> SUFFICES ASSUME BodiesInv, [Next]_vars PROVE FullInv' /\ BodyInv'
        BY DEF BodiesInv
    <2>1. FullInv'
        BY FullStep DEF BodiesInv
    <2>2. SessionBody' /\ CollectsFinished' /\ SweepAlone' /\ BodyKept'
        BY SessionBodyStep, CollectsFinishedStep, SweepAloneStep, BodyKeptStep
    <2> QED
        BY <2>1, <2>2 DEF BodyInv
<1>3. BodiesInv => BodyKept
    BY DEF BodiesInv, BodyInv
<1> QED
    BY <1>1, <1>2, <1>3, PTL DEF Spec

-----------------------------------------------------------------------------
(* Collections leave no body behind, split messages included.              *)

OwedInv == FullInv /\ OrphanInv

\* The initial state: the bodies are those of the envelopes in q/.
LEMMA InitOrphans == Init => OrphanInv
<1> SUFFICES ASSUME Init PROVE OrphanInv
    OBVIOUS
<1>1. NewUnhanded
    BY DEF Init, NewUnhanded, EnvsOf
<1>2. FirstBoot /\ RescheduledReady
    BY WorkerFacts DEF Init, FirstBoot, RescheduledReady
<1>3. Spooled0 \subseteq Stored
    <2>1. ASSUME NEW e \in Spooled0 PROVE e \in EnvsIn(ready)
        <3>1. [env |-> e, due |-> 0, gen |-> 0] \in ready
            BY DEF Init
        <3> QED
            BY <3>1 DEF EnvsIn
    <2> QED
        BY <2>1 DEF Stored
<1>4. BodyOwed
    BY <1>3 DEF Init, BodyOwed, Owed
<1> QED
    BY <1>1, <1>2, <1>4 DEF OrphanInv

\* Envelopes are handed over only after WriteBody.
LEMMA NewUnhandedStep ==
    ASSUME OwedInv, [Next]_vars
    PROVE  NewUnhanded'
<1> SUFFICES ASSUME NEW b \in Bodies, txn'[b] = "new", NEW e \in EnvsOf(b) \cap handed' PROVE FALSE
    BY DEF NewUnhanded, EnvsOf
<1>0. FullInv /\ TypeOK /\ NewUnhanded /\ e \in Envs /\ BodyOf[e] = b
    BY DEF OwedInv, FullInv, SpoolInv, OrphanInv, EnvsOf
<1>1. txn[b] = "new"
    <2>1. CASE SessionNext
        BY <1>0, <2>1 DEF SessionNext, WriteBody, RemoveBody, EnqueueFail, Accept, Enqueue, Quarantine, TypeOK
    <2>2. ASSUME NEW w \in Workers, (\E f \in ready : Claim(w, f)) \/ Attempt(w) \/ Finish(w)
          PROVE  txn' = txn
        BY <2>2 DEF Claim, Attempt, Finish, UnlinkReplaced, Park, Relay, RescheduleWrite, BuryWrite, MoveFail, Complete,
            RescheduleRemove, BuryRemove
    <2>3. ASSUME NEW a \in Workers \cup {"boot"}, Collect(a) PROVE txn' = txn
        BY <2>3 DEF Collect, GcScanReady, GcScanInflight, GcScanQuarantine, GcScan, GcUnlink
    <2>4. CASE Start
        BY <2>3, <2>4 DEF Start, SweepStart, SweepBody, RecoverStart, Recover, RecoverEntry, RecoverDone,
            RecoverFail
    <2>5. CASE Shutdown \/ Tick \/ Poll \/ UNCHANGED vars
        BY <2>5 DEF Shutdown, Tick, Poll, vars
    <2>6. CASE Crash \/ Exit
        BY <2>6 DEF Crash, Exit, Halt
    <2> QED
        BY <2>1, <2>2, <2>3, <2>4, <2>5, <2>6 DEF Next, WorkerNext
<1>2. e \notin handed
    BY <1>0, <1>1 DEF NewUnhanded
<1>3. PICK d \in Envs : (Enqueue(d) \/ Quarantine(d)) /\ d = e
    BY <1>0, <1>2, HandedBy
<1> QED
    BY <1>0, <1>1, <1>3 DEF Enqueue, Quarantine

\* Before the first boot ends there are no claims.
LEMMA FirstBootStep ==
    ASSUME OwedInv, [Next]_vars
    PROVE  FirstBoot'
<1> SUFFICES ASSUME restarts' = 0, phase' \notin {"up", "stopping"}
             PROVE  inflight' = {} /\ recTodo' = {}
    BY DEF FirstBoot
<1>0. SpoolInv /\ OwnInv /\ TypeOK /\ FirstBoot
    BY DEF OwedInv, FullInv, LeaseInv, OwnInv, SpoolInv, OrphanInv
<1>1. CASE FrameStep
    <2>1. restarts' = restarts
        <3>1. ASSUME NEW a \in Actors, Collect(a) PROVE restarts' = restarts
            BY <3>1, CollectEffect DEF boot
        <3> QED
            BY <1>1, <3>1 DEF FrameStep, WriteBody, RemoveBody, EnqueueFail, Accept, SweepBody, Relay,
                MoveFail, vars, boot
    <2> QED
        BY <1>0, <1>1, <2>1, FrameEffect DEF FirstBoot
<1>2. CASE SweepStart \/ RecoverStart
    BY <1>0, <1>2 DEF SweepStart, RecoverStart, Recover, FirstBoot, disk
<1>3. CASE RecoverDone \/ RecoverFail \/ Shutdown
    BY <1>3 DEF RecoverDone, RecoverFail, Shutdown
<1>4. CASE Halt
    BY <1>0, <1>4 DEF Halt, TypeOK
<1>5. CASE Tick
    BY <1>0, <1>5 DEF Tick, FirstBoot, disk, boot
<1>6. CASE \E e \in Envs : Enqueue(e) \/ Quarantine(e)
    BY <1>0, <1>6 DEF Enqueue, Quarantine, FirstBoot, boot
<1>7. ASSUME NEW w \in Workers,
             (\E f \in ready : Claim(w, f)) \/ RescheduleWrite(w) \/ BuryWrite(w) \/ Unlink(w)
      PROVE  FALSE
    <2>1. phase' = phase /\ (pc[w] # "idle" \/ phase = "up")
        BY <1>7 DEF Claim, RescheduleWrite, BuryWrite, Unlink, Park, Complete, RescheduleRemove,
            BuryRemove, boot
    <2> QED
        BY <1>0, <2>1 DEF SpoolInv, IdleUnlessUp
<1>8. ASSUME NEW f \in recTodo, RecoverEntry(f) PROVE FALSE
    BY <1>0, <1>8 DEF RecoverEntry, FirstBoot
<1> QED
    BY <1>0, <1>1, <1>2, <1>3, <1>4, <1>5, <1>6, <1>7, <1>8, StepKinds DEF BootStep

\* Nobody claims a rescheduled copy while the old claim is being removed.
LEMMA RescheduledReadyStep ==
    ASSUME OwedInv, [Next]_vars
    PROVE  RescheduledReady'
<1> SUFFICES ASSUME NEW w \in Workers, pc'[w] = "rescheduled" PROVE held'[w].env \in EnvsIn(ready')
    BY DEF RescheduledReady
<1>0. FullInv /\ SpoolInv /\ OwnInv /\ TypeOK /\ RescheduledReady
    BY DEF OwedInv, FullInv, LeaseInv, OwnInv, SpoolInv, OrphanInv
<1>1. CASE FrameStep
    BY <1>0, <1>1, FrameEffect DEF RescheduledReady, Holding
<1>2. CASE BootStep
    BY <1>0, <1>2, BootEffect DEF BootStep
<1>3. CASE Shutdown \/ Tick
    BY <1>0, <1>3 DEF Shutdown, Tick, RescheduledReady, disk, actors
<1>4. ASSUME NEW e \in Envs, Enqueue(e) \/ Quarantine(e) PROVE held'[w].env \in EnvsIn(ready')
    <2>1. UNCHANGED actors /\ EnvsIn(ready) \subseteq EnvsIn(ready')
        BY <1>0, <1>4, EnqueueKeeps
    <2> QED
        BY <1>0, <2>1 DEF RescheduledReady, actors
<1>5. ASSUME NEW v \in Workers, NEW f \in ready, Claim(v, f) PROVE held'[w].env \in EnvsIn(ready')
    <2>1. w # v /\ pc[w] = "rescheduled" /\ held'[w] = held[w] /\ phase = "up" /\ ready' = ready \ {f}
          /\ f.due <= now
        BY <1>0, <1>5, ClaimEffect
    <2>2. PICK g \in ready : g.env = held[w].env
        BY <1>0, <2>1 DEF RescheduledReady, EnvsIn
    <2>3. now < g.due
        BY <1>0, <2>1, <2>2 DEF FullInv, LeaseInv, RescheduledNotDue
    <2>4. g # f
        BY <1>0, <2>1, <2>3 DEF TypeOK, File
    <2> QED
        BY <2>1, <2>2, <2>4 DEF EnvsIn
<1>6. ASSUME NEW v \in Workers, RescheduleWrite(v) PROVE held'[w].env \in EnvsIn(ready')
    BY <1>0, <1>6, RescheduleEffect DEF RescheduledReady
<1>7. ASSUME NEW v \in Workers, BuryWrite(v) PROVE held'[w].env \in EnvsIn(ready')
    BY <1>0, <1>7, BuryEffect DEF RescheduledReady
<1>8. ASSUME NEW v \in Workers, Unlink(v) PROVE held'[w].env \in EnvsIn(ready')
    BY <1>0, <1>8, UnlinkEffect DEF RescheduledReady, Unlink
<1>9. ASSUME NEW f \in recTodo, RecoverEntry(f) PROVE held'[w].env \in EnvsIn(ready')
    BY <1>0, <1>9 DEF RecoverEntry, SpoolInv, IdleUnlessUp, actors
<1> QED
    BY <1>0, <1>1, <1>2, <1>3, <1>4, <1>5, <1>6, <1>7, <1>8, <1>9, StepKinds

\* A body stays owed when no envelope leaves the queue, no session moves on and
\* every collector goes on.
LEMMA OwedKept ==
    ASSUME NEW b, Owed(b), UNCHANGED <<txn, handed>>, Stored \subseteq Stored',
           \A w \in Workers : Collecting(w) => Collecting(w)' /\ gc'[w] = gc[w]
    PROVE  Owed(b)'
BY DEF Owed, EnvsOf

\* A collection that ends has unlinked the body or has seen another referrer.
LEMMA CollectOwed ==
    ASSUME TypeOK, NEW a \in Actors, Collect(a), NEW b \in data', Owed(b)
    PROVE  Owed(b)'
<1>0. /\ UNCHANGED <<txn, handed>> /\ Stored' = Stored /\ Collecting(a)
      /\ \A w \in Workers : w # a => pc'[w] = pc[w] /\ gc'[w] = gc[w]
    BY CollectEffect, WorkerFacts DEF Stored, Collecting, TypeOK
<1>1. CASE Collecting(a)' /\ gc'[a] = gc[a]
    BY <1>0, <1>1, OwedKept DEF Collecting
<1>2. CASE gc[a].body # b
    BY <1>0, <1>2 DEF Owed, EnvsOf, Collecting
<1>3. CASE gc[a].body = b /\ ~(Collecting(a)' /\ gc'[a] = gc[a])
    <2>1. PICK dir \in {ready, inflight, quarantine} : bodyReferenced(dir, gc[a])
        BY <1>3 DEF Collect, GcScanReady, GcScanInflight, GcScanQuarantine, GcScan, GcUnlink,
            TypeOK, Collecting
    <2>2. PICK f \in dir : BodyOf[f.env] = b
        BY <1>3, <2>1 DEF bodyReferenced
    <2>3. f.env \in Stored
        BY <2>1, <2>2 DEF Stored, EnvsIn
    <2> QED
        BY <1>0, <2>2, <2>3 DEF Owed
<1> QED
    BY <1>1, <1>2, <1>3

\* BodyOwed is inductive.
LEMMA BodyOwedStep ==
    ASSUME OwedInv, [Next]_vars
    PROVE  BodyOwed'
<1> SUFFICES ASSUME Undisturbed', NEW b \in data' PROVE Owed(b)'
    BY DEF BodyOwed
<1>0. FullInv /\ SpoolInv /\ OwnInv /\ TypeOK /\ OrphanInv
    BY DEF OwedInv, FullInv, LeaseInv, OwnInv, SpoolInv
<1>1. \A w \in Workers : w \in Actors /\ w # "boot"
    BY WorkerFacts
<1>2. ASSUME Undisturbed, b \in data PROVE Owed(b)
    BY <1>0, <1>2 DEF OrphanInv, BodyOwed
<1>3. ASSUME NEW c \in Bodies, WriteBody(c) \/ RemoveBody(c) \/ EnqueueFail(c) \/ Accept(c)
      PROVE  Owed(b)'
    <2>1. UNCHANGED <<handed, actors, ready, inflight, quarantine>>
        BY <1>3 DEF WriteBody, RemoveBody, EnqueueFail, Accept, disk
    <2>2. ~EnqueueFail(c) /\ Undisturbed
        BY <1>3 DEF WriteBody, RemoveBody, EnqueueFail, Accept, Undisturbed, disk, boot, history
    <2>3. CASE b # c
        <3>1. b \in data /\ txn'[b] = txn[b]
            BY <1>0, <1>3, <2>3 DEF WriteBody, RemoveBody, EnqueueFail, Accept, TypeOK, disk
        <3> QED
            BY <1>2, <2>1, <2>2, <3>1 DEF Owed, Stored, EnvsOf, Collecting, actors
    <2>4. CASE b = c /\ WriteBody(c)
        <3>1. txn'[b] = "spooled" /\ EnvsOf(b) \cap handed = {}
            BY <1>0, <2>4 DEF WriteBody, TypeOK, OrphanInv, NewUnhanded
        <3> QED
            BY <2>1, <3>1 DEF Owed, EnvsOf
    <2>5. CASE b = c /\ RemoveBody(c)
        BY <2>5 DEF RemoveBody
    <2>6. CASE b = c /\ Accept(c)
        <3>1. EnvsOf(b) \cap handed # {} /\ b \in data
            BY <2>6 DEF Accept, disk
        <3> QED
            BY <1>2, <2>1, <2>2, <3>1 DEF Owed, Stored, EnvsOf, Collecting, actors
    <2> QED
        BY <1>3, <2>2, <2>3, <2>4, <2>5, <2>6
<1>4. ASSUME NEW e \in Envs, Enqueue(e) \/ Quarantine(e) PROVE Owed(b)'
    <2>1. /\ UNCHANGED <<actors, data, txn, restarts, parked, faulted>>
          /\ handed' = handed \cup {e} /\ Stored' = Stored \cup {e}
        BY <1>0, <1>4, EnqueueKeeps DEF boot
    <2>2. Owed(b)
        BY <1>2, <2>1 DEF Undisturbed
    <2>3. CASE BodyOf[e] = b
        BY <2>1, <2>3 DEF Owed
    <2>4. CASE BodyOf[e] # b
        <3>1. EnvsOf(b) \cap handed' = EnvsOf(b) \cap handed
            BY <2>1, <2>4 DEF EnvsOf
        <3>2. CASE txn[b] = "spooled" /\ EnvsOf(b) \cap handed = {}
            BY <2>1, <3>1, <3>2 DEF Owed, EnvsOf
        <3>3. CASE b \in {BodyOf[d] : d \in Stored}
            BY <2>1, <3>3 DEF Owed
        <3>4. CASE \E w \in Workers : Collecting(w) /\ gc[w].body = b
            BY <2>1, <3>4 DEF Owed, Collecting, actors
        <3> QED
            BY <2>2, <3>2, <3>3, <3>4 DEF Owed
    <2> QED
        BY <2>3, <2>4
<1>5. ASSUME NEW w \in Workers, NEW f \in ready, Claim(w, f) PROVE Owed(b)'
    <2>1. /\ UNCHANGED <<restarts, parked, faulted, data, txn, handed>> /\ pc[w] = "idle" /\ gc' = gc
          /\ \A v \in Workers : v # w => pc'[v] = pc[v]
        BY <1>0, <1>5, ClaimEffect DEF Claim, boot, history
    <2>2. Stored \subseteq Stored'
        BY <1>0, <1>5, ClaimEffect, EnvsInUnlink DEF Stored
    <2> QED
        BY <1>2, <2>1, <2>2, OwedKept DEF Undisturbed, Collecting
<1>6. ASSUME NEW w \in Workers, RescheduleWrite(w) PROVE Owed(b)'
    <2>1. /\ UNCHANGED <<restarts, parked, faulted, data, txn, handed>> /\ pc[w] = "claimed" /\ gc' = gc
          /\ \A v \in Workers : v # w => pc'[v] = pc[v]
        BY <1>0, <1>6, RescheduleEffect DEF RescheduleWrite, boot
    <2>2. Stored \subseteq Stored'
        BY <1>0, <1>6, RescheduleEffect DEF Stored
    <2> QED
        BY <1>2, <2>1, <2>2, OwedKept DEF Undisturbed, Collecting
<1>7. ASSUME NEW w \in Workers, BuryWrite(w) \/ Relay(w) PROVE Owed(b)'
    <2>1. /\ UNCHANGED <<restarts, parked, faulted, data, txn, handed, ready, inflight, quarantine>>
          /\ pc[w] = "claimed" /\ gc' = gc /\ \A v \in Workers : v # w => pc'[v] = pc[v]
        BY <1>0, <1>1, <1>7 DEF BuryWrite, Relay, TypeOK, boot, disk, history
    <2>2. Stored \subseteq Stored'
        BY <2>1 DEF Stored
    <2> QED
        BY <1>2, <2>1, <2>2, OwedKept DEF Undisturbed, Collecting
<1>8. ASSUME NEW w \in Workers, MoveFail(w) \/ Park(w) PROVE FALSE
    BY <1>8 DEF MoveFail, Park, Undisturbed
<1>9. ASSUME NEW w \in Workers, RescheduleRemove(w) PROVE Owed(b)'
    <2>1. /\ UNCHANGED <<restarts, parked, faulted, data, txn, handed, ready, quarantine>>
          /\ pc[w] = "rescheduled" /\ gc' = gc /\ inflight' = inflight \ {held[w]}
          /\ \A v \in Workers : v # w => pc'[v] = pc[v]
        BY <1>0, <1>1, <1>9 DEF RescheduleRemove, Idle, TypeOK, boot, history
    <2>2. held[w].env \in EnvsIn(ready)
        BY <1>0, <2>1 DEF OrphanInv, RescheduledReady
    <2>3. Stored \subseteq Stored'
        BY <2>1, <2>2, EnvsInUnlink DEF Stored
    <2> QED
        BY <1>2, <2>1, <2>3, OwedKept DEF Undisturbed, Collecting
<1>10. ASSUME NEW w \in Workers, Complete(w) \/ BuryRemove(w) PROVE Owed(b)'
    <2>1. /\ UNCHANGED <<restarts, parked, faulted, data, txn, handed, ready, quarantine>>
          /\ pc[w] \in {"done", "buried"} /\ inflight' = inflight \ {held[w]}
          /\ pc'[w] = "gc_q" /\ gc'[w].body = BodyOf[held[w].env]
          /\ \A v \in Workers : v # w => pc'[v] = pc[v] /\ gc'[v] = gc[v]
        BY <1>0, <1>1, <1>10 DEF Complete, BuryRemove, TypeOK, boot, history
    <2>2. Stored \subseteq Stored' \cup {held[w].env}
        BY <2>1, EnvsInUnlink DEF Stored
    <2>3. Owed(b)
        BY <1>2, <2>1 DEF Undisturbed
    <2>4. CASE BodyOf[held[w].env] = b
        BY <2>1, <2>4 DEF Owed, Collecting
    <2>5. CASE BodyOf[held[w].env] # b
        <3>1. CASE txn[b] = "spooled" /\ EnvsOf(b) \cap handed = {}
            BY <2>1, <3>1 DEF Owed, EnvsOf
        <3>2. CASE b \in {BodyOf[d] : d \in Stored}
            BY <2>2, <2>5, <3>2 DEF Owed
        <3>3. CASE \E v \in Workers : Collecting(v) /\ gc[v].body = b
            BY <2>1, <3>3 DEF Owed, Collecting
        <3> QED
            BY <2>3, <3>1, <3>2, <3>3 DEF Owed
    <2> QED
        BY <2>4, <2>5
<1>11. ASSUME NEW a \in Actors, Collect(a) PROVE Owed(b)'
    <2>1. UNCHANGED <<restarts, parked, faulted>> /\ data' \subseteq data
        BY <1>11, CollectEffect DEF boot, history
    <2> QED
        BY <1>0, <1>2, <1>11, <2>1, CollectOwed DEF Undisturbed
<1>12. CASE Shutdown \/ Tick \/ UNCHANGED vars \/ SweepStart \/ RecoverStart \/ RecoverDone
            \/ \E c \in Bodies : SweepBody(c)
    <2>1. /\ UNCHANGED <<restarts, parked, faulted, data, txn, handed, ready, inflight, quarantine>>
          /\ \A w \in Workers : pc'[w] = pc[w] /\ gc'[w] = gc[w]
        BY <1>0, <1>1, <1>12 DEF Shutdown, Tick, SweepStart, RecoverStart, Recover, RecoverDone, SweepBody,
            TypeOK, vars, disk, boot, actors, history
    <2>2. Stored \subseteq Stored'
        BY <2>1 DEF Stored
    <2> QED
        BY <1>2, <2>1, <2>2, OwedKept DEF Undisturbed, Collecting
<1>13. CASE Halt
    BY <1>0, <1>13 DEF Halt, Undisturbed, TypeOK
<1>14. CASE RecoverFail \/ \E f \in recTodo : RecoverEntry(f)
    <2>1. phase = "recover" /\ recTodo # {} /\ restarts' = restarts
        BY <1>14 DEF RecoverFail, RecoverEntry
    <2> QED
        BY <1>0, <2>1 DEF OrphanInv, FirstBoot, Undisturbed
<1> QED
    BY <1>0, <1>3, <1>4, <1>5, <1>6, <1>7, <1>8, <1>9, <1>10, <1>11, <1>12, <1>13, <1>14, StepKinds
    DEF FrameStep, BootStep, Unlink

\* Complete and Bury unlink their envelope before they look for other referrers, so
\* whichever envelope of a message finishes last takes the body along, in any
\* interleaving of the listings: in a quiet spool that never crashed, failed a file
\* operation or parked a file, every body has an envelope or an open session.
THEOREM CollectionsLeaveNoOrphans ==
    ASSUME MinBackoff > 0, SlowDisk = FALSE
    PROVE  Spec => []NoOrphans
<1>1. Init => OwedInv
    BY FullInit, InitOrphans DEF OwedInv
<1>2. OwedInv /\ [Next]_vars => OwedInv'
    <2> SUFFICES ASSUME OwedInv, [Next]_vars PROVE FullInv' /\ OrphanInv'
        BY DEF OwedInv
    <2>1. FullInv'
        BY FullStep DEF OwedInv
    <2> QED
        BY <2>1, NewUnhandedStep, FirstBootStep, RescheduledReadyStep, BodyOwedStep DEF OrphanInv
<1>3. OwedInv => NoOrphans
    BY WorkerFacts DEF OwedInv, OrphanInv, BodyOwed, Undisturbed, Owed, NoOrphans, Collecting
<1> QED
    BY <1>1, <1>2, <1>3, PTL DEF Spec
=============================================================================
