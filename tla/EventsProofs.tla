---------------------------- MODULE EventsProofs ----------------------------
(***************************************************************************)
(* Proofs about the audit pipeline: no event is lost without a trace, no   *)
(* event has two fates, and every row logservice stores twice is owed to a *)
(* fault, for any number of events, senders, faults, and any capacity.     *)
(***************************************************************************)
EXTENDS Events, FiniteSetTheorems, WellFoundedInduction, TLAPS

-----------------------------------------------------------------------------
(* What is counted, per event, written over the records of the replayers   *)
(* r and q and of the file.                                                *)

FileRow(f, r, p, w, e) ==
    IF \/ f.at = "pending"
       \/ /\ f.at = "claimed"
          /\ \/ f.aged
             \/ f.by = r /\ (p.pc # "remove" \/ p.event # e)
             \/ f.by # r /\ (w.pc # "remove" \/ w.event # e)
    THEN 1 ELSE 0

StaleRow(f, r, p, e) ==
    IF p.pc = "post" /\ p.event = e /\ ~(f.at = "claimed" /\ f.by = r /\ ~f.aged) THEN 1 ELSE 0

Rows(f, r, p, q, w, e) == FileRow(f, r, p, w, e) + StaleRow(f, r, p, e) + StaleRow(f, q, w, e)

\* The rows of an event are counted the same whichever replayer is named first.
LEMMA RowsSame ==
    ASSUME NEW e \in AuditEvents, file[e].at = "claimed" => file[e].by \in Replayers,
           NEW r \in Replayers, NEW q \in Replayers, q # r
    PROVE  FromFile(e) + FromStale("gateway", e) + FromStale("cli", e)
             = Rows(file[e], r, rep[r], q, rep[q], e)
<1>1. FromFile(e) = FileRow(file[e], r, rep[r], rep[q], e)
    BY DEF FromFile, FileRow, Replayers
<1>2. \A x \in Replayers : FromStale(x, e) = StaleRow(file[e], x, rep[x], e)
    BY DEF FromStale, StaleRow, HasClaim
<1>3. \A x \in Replayers : FromStale(x, e) \in Nat
    BY DEF FromStale
<1>4. FromFile(e) \in Nat
    BY DEF FromFile
<1>5. \/ r = "gateway" /\ q = "cli"
      \/ r = "cli" /\ q = "gateway"
    BY DEF Replayers
<1> QED
    BY <1>1, <1>2, <1>3, <1>4, <1>5 DEF Rows

\* The shape of the state, from the invariant.
LEMMA EventShapes ==
    ASSUME EventsInv
    PROVE  /\ file \in [AuditEvents -> Files] /\ rep \in [Replayers -> Passes]
           /\ hand \in [Senders -> [event : AuditEvents \cup {NoEvent}, failed : 0..Retries]]
           /\ \A e \in AuditEvents : accepted[e] \in Nat /\ owed[e] \in Nat
           /\ \A e \in AuditEvents : file[e].at = "claimed" => file[e].by \in Replayers
           /\ Named \subseteq AuditEvents /\ InFlight \subseteq AuditEvents
           /\ NoEvent \notin AuditEvents
           /\ \A r \in Replayers : /\ rep[r].todo \subseteq Named
                                   /\ rep[r].event \in Named \cup {NoEvent}
                                   /\ AtWork(rep[r])
<1>1. Named \subseteq AuditEvents
    BY DEF EventsInv, EventsTyped, Named
<1>2. InFlight \subseteq AuditEvents
    BY DEF EventsInv, TypeOK, InFlight, Held
<1>3. \A r \in Replayers : rep[r].todo \subseteq Named /\ rep[r].event \in Named \cup {NoEvent}
    BY DEF EventsInv, SpilledOnce
<1> QED
    BY <1>1, <1>2, <1>3, EventsAssumption DEF EventsInv, EventsTyped, TypeOK

\* A named event may come as often as its file and the replayers allow; one on its way
\* is in neither.
LEMMA RowsOf ==
    ASSUME EventsInv, NEW e \in AuditEvents, NEW r \in Replayers, NEW q \in Replayers, q # r
    PROVE  /\ Rows(file[e], r, rep[r], q, rep[q], e) \in Nat
           /\ accepted[e] + FromMemory(e) + Rows(file[e], r, rep[r], q, rep[q], e) <= 1 + owed[e]
           /\ e \in Named => FromMemory(e) = 0
           /\ e \notin Named => Rows(file[e], r, rep[r], q, rep[q], e) = 0
<1>1. FromFile(e) + FromStale("gateway", e) + FromStale("cli", e) = Rows(file[e], r, rep[r], q, rep[q], e)
    BY EventShapes, RowsSame
<1>2. /\ FromFile(e) \in Nat /\ FromStale("gateway", e) \in Nat /\ FromStale("cli", e) \in Nat
      /\ FromMemory(e) \in Nat
    BY DEF FromFile, FromStale, FromMemory
<1>3. accepted[e] + FromMemory(e) + FromFile(e) + FromStale("gateway", e) + FromStale("cli", e) <= 1 + owed[e]
    BY DEF EventsInv, RowsOwed
<1>4. accepted[e] \in Nat /\ owed[e] \in Nat
    BY EventShapes
<1>5. e \in Named => FromMemory(e) = 0
    BY DEF FromMemory, EventsInv, SpilledOnce
<1>6. ASSUME e \notin Named PROVE Rows(file[e], r, rep[r], q, rep[q], e) = 0
    <2>1. file[e].at = "absent"
        BY <1>6 DEF EventsInv, SpilledOnce, OnDisk
    <2>2. rep[r].event # e /\ rep[q].event # e
        BY <1>6, EventShapes
    <2> QED
        BY <2>1, <2>2 DEF Rows, FileRow, StaleRow
<1> QED
    BY <1>1, <1>2, <1>3, <1>4, <1>5, <1>6

\* From the counts of every event to the invariant, after a step.
LEMMA RowsOwedNext ==
    ASSUME \A e \in AuditEvents : file'[e].at = "claimed" => file'[e].by \in Replayers,
           \A e \in AuditEvents : accepted'[e] \in Nat /\ owed'[e] \in Nat,
           NEW r \in Replayers, NEW q \in Replayers, q # r,
           \A e \in AuditEvents :
               /\ Rows(file'[e], r, rep'[r], q, rep'[q], e) \in Nat
               /\ accepted'[e] + FromMemory(e)' + Rows(file'[e], r, rep'[r], q, rep'[q], e) <= 1 + owed'[e]
    PROVE  RowsOwed'
<1> SUFFICES ASSUME NEW e \in AuditEvents
             PROVE  accepted'[e] + FromMemory(e)' + FromFile(e)' + FromStale("gateway", e)'
                        + FromStale("cli", e)' <= 1 + owed'[e]
    BY DEF RowsOwed
<1>1. FromFile(e)' = FileRow(file'[e], r, rep'[r], rep'[q], e)
    BY DEF FromFile, FileRow, Replayers
<1>2. \A x \in Replayers : FromStale(x, e)' = StaleRow(file'[e], x, rep'[x], e)
    BY DEF FromStale, StaleRow, HasClaim
<1>3. FromStale("gateway", e)' \in Nat /\ FromStale("cli", e)' \in Nat
    BY DEF FromStale
<1>4. FromFile(e)' \in Nat /\ FromMemory(e)' \in Nat
    BY DEF FromFile, FromMemory
<1>5. \/ r = "gateway" /\ q = "cli"
      \/ r = "cli" /\ q = "gateway"
    BY DEF Replayers
<1>6. FromFile(e)' + FromStale("gateway", e)' + FromStale("cli", e)' = Rows(file'[e], r, rep'[r], q, rep'[q], e)
    BY <1>1, <1>2, <1>3, <1>4, <1>5 DEF Rows, Replayers
<1>7. accepted'[e] + FromMemory(e)' + Rows(file'[e], r, rep'[r], q, rep'[q], e) <= 1 + owed'[e]
    OBVIOUS
<1>8. accepted'[e] \in Nat /\ owed'[e] \in Nat
    OBVIOUS
<1> QED
    BY <1>3, <1>4, <1>6, <1>7, <1>8

\* Oldest picks one of the files it is given.
LEMMA OldestIsIn ==
    ASSUME names \in Seq(AuditEvents), NEW S, S \subseteq Named, S # {}
    PROVE  Oldest(S) \in S
<1>1. PICK R : R = OpToRel(<, Nat)
    OBVIOUS
<1>2. IsWellFoundedOn(R, Nat)
    BY <1>1, NatLessThanWellFounded, Zenon
<1>3. PICK T : T = {i \in DOMAIN names : names[i] \in S}
    OBVIOUS
<1>4. T \subseteq Nat /\ T # {} /\ DOMAIN names = 1..Len(names) /\ Len(names) \in Nat
    BY <1>3 DEF Named
<1>5. PICK i \in T : \A j \in T : ~(<<j, i>> \in R)
    BY <1>2, <1>4, WFMin
<1>6. \A j \in T : ~(j < i)
    BY <1>1, <1>4, <1>5 DEF OpToRel
<1>7. ASSUME NEW j \in 1..(i - 1) PROVE names[j] \notin S
    BY <1>3, <1>4, <1>6
<1>8. i \in DOMAIN names /\ names[i] \in S
    BY <1>3
<1>9. \E k \in DOMAIN names : names[k] \in S /\ \A j \in 1..(k - 1) : names[j] \notin S
    BY <1>7, <1>8
<1> QED
    BY <1>9 DEF Oldest

\* Every replayer has the other one beside it.
LEMMA OtherReplayer == \A r \in Replayers : \E q \in Replayers : q # r /\ Replayers = {r, q}
BY DEF Replayers

-----------------------------------------------------------------------------
(* The initial state.                                                      *)

\* Nothing was sent.
LEMMA EventsInitInv == Init => EventsInv
<1> SUFFICES ASSUME Init PROVE EventsInv
    OBVIOUS
<1>1. /\ accepted = [e \in AuditEvents |-> 0] /\ owed = [e \in AuditEvents |-> 0]
      /\ send = [e \in AuditEvents |-> "new"] /\ buffer = {} /\ dropped = {}
      /\ file = [e \in AuditEvents |-> Absent] /\ names = <<>> /\ verdict \in Verdicts
      /\ closer = "open" /\ running = Senders
    BY DEF Init
<1>2. hand = [s \in Senders |-> Empty] /\ rep = [r \in Replayers |-> Idle]
    BY DEF Init
<1>3. Absent \in Files /\ Absent.at = "absent"
    BY DEF Absent, File, Files
<1>4. Empty \in [event : AuditEvents \cup {NoEvent}, failed : 0..Retries] /\ Empty.event = NoEvent
    BY EventsAssumption DEF Empty
<1>5. Idle \in Passes /\ Idle.pc = "idle" /\ Idle.todo = {} /\ Idle.event = NoEvent /\ Idle.fails = 0
    BY EventsAssumption DEF Idle, Passes
<1>6. InFlight = {} /\ OnDisk = {} /\ Named = {}
    <2>1. Held = {}
        BY <1>2, <1>4 DEF Held
    <2>2. OnDisk = {}
        BY <1>1, <1>3 DEF OnDisk
    <2>3. Named = {}
        BY <1>1 DEF Named
    <2> QED
        BY <1>1, <2>1, <2>2, <2>3 DEF InFlight
<1>7. TypeOK
    <2>1. IsFiniteSet(buffer) /\ Cardinality(buffer) <= BufferSize
        BY <1>1, FS_EmptySet, EventsAssumption
    <2>2. hand \in [Senders -> [event : AuditEvents \cup {NoEvent}, failed : 0..Retries]]
        BY <1>2, <1>4
    <2>3. file \in [AuditEvents -> Files]
        BY <1>1, <1>3
    <2>4. \A r \in Replayers : rep[r].todo \subseteq AuditEvents /\ rep[r].fails \in 0..MaxFails
        BY <1>2, <1>5, EventsAssumption
    <2>5. DOMAIN names = {}
        BY <1>1
    <2> QED
        BY <1>1, <2>1, <2>2, <2>3, <2>4, <2>5 DEF TypeOK
<1>8. EventsTyped
    <2>1. IsFiniteSet(buffer)
        BY <1>1, FS_EmptySet
    <2>2. rep \in [Replayers -> Passes]
        BY <1>2, <1>5
    <2>3. \A e \in AuditEvents : file[e].at # "claimed"
        BY <1>1, <1>3
    <2>4. verdict \in [AuditEvents -> Answers]
        BY <1>1, EventsAssumption
    <2>5. names \in Seq(AuditEvents)
        BY <1>1
    <2> QED
        BY <1>1, <2>1, <2>2, <2>3, <2>4, <2>5 DEF EventsTyped
<1>9. SpilledOnce
    BY <1>1, <1>2, <1>5, <1>6 DEF SpilledOnce
<1>10. ClosedInOrder
    BY <1>1 DEF ClosedInOrder
<1>11. NoSilentLoss
    BY <1>1 DEF NoSilentLoss
<1>12. OneFate
    BY <1>1, <1>2, <1>4, <1>6 DEF OneFate
<1>13. RowsOwed
    <2> SUFFICES ASSUME NEW e \in AuditEvents
                 PROVE  accepted[e] + FromMemory(e) + FromFile(e) + FromStale("gateway", e)
                            + FromStale("cli", e) <= 1 + owed[e]
        BY DEF RowsOwed
    <2>1. FromMemory(e) = 0
        BY <1>6 DEF FromMemory
    <2>2. FromFile(e) = 0
        BY <1>1, <1>3 DEF FromFile
    <2>3. FromStale("gateway", e) = 0 /\ FromStale("cli", e) = 0
        BY <1>2, <1>5 DEF FromStale, Replayers
    <2> QED
        BY <1>1, <2>1, <2>2, <2>3
<1>14. \A r \in Replayers : AtWork(rep[r])
    BY <1>2, <1>5 DEF AtWork
<1> QED
    BY <1>7, <1>8, <1>9, <1>10, <1>11, <1>12, <1>13, <1>14 DEF EventsInv

-----------------------------------------------------------------------------
(* The replayers.                                                          *)

\* A step of the replayers' side leaves the client alone, files nothing new, and
\* makes a file disappear only once its event is stored.
LEMMA DiskStep ==
    ASSUME EventsInv, UNCHANGED <<verdict, clientVars, names>>,
           file' \in [AuditEvents -> Files], rep' \in [Replayers -> Passes],
           accepted' \in [AuditEvents -> Nat], owed' \in [AuditEvents -> Nat],
           \A e \in AuditEvents :
               /\ file'[e].at = "claimed" => file'[e].by \in Replayers
               /\ file'[e].at # "absent" => file[e].at # "absent"
               /\ file'[e].at = "absent" /\ file[e].at # "absent" => accepted'[e] > 0
               /\ accepted[e] <= accepted'[e] /\ (e \notin Named => accepted'[e] = accepted[e]),
           \A r \in Replayers : /\ rep'[r].todo \subseteq Named /\ rep'[r].event \in Named \cup {NoEvent}
                                 /\ AtWork(rep[r])',
           RowsOwed'
    PROVE  EventsInv'
<1>0. UNCHANGED <<verdict, send, buffer, hand, running, closer, deadline, dropped, unspilled, gone, late, names>>
    BY DEF clientVars
<1>1. InFlight' = InFlight /\ Held' = Held /\ Named' = Named /\ OnDisk' \subseteq OnDisk
    BY <1>0 DEF InFlight, Held, Named, OnDisk
<1>2. TypeOK'
    BY <1>0 DEF EventsInv, TypeOK, Passes
<1>3. EventsTyped'
    BY <1>0 DEF EventsInv, EventsTyped
<1>4. SpilledOnce'
    <2>1. \A e \in AuditEvents : send[e] # "done" \/ e \in dropped =>
              e \notin InFlight \cup Named /\ accepted'[e] = 0
        BY DEF EventsInv, SpilledOnce
    <2>2. \A e \in buffer : accepted'[e] = 0
        <3>1. \A e \in buffer : e \in AuditEvents /\ e \notin Named /\ accepted[e] = 0
            BY DEF EventsInv, SpilledOnce, TypeOK, InFlight
        <3> QED
            BY <3>1
    <2>3. OnDisk \subseteq Named /\ InFlight \cap Named = {} /\ \A e \in dropped : send[e] = "done"
        BY DEF EventsInv, SpilledOnce
    <2> QED
        BY <1>0, <1>1, <2>1, <2>2, <2>3 DEF SpilledOnce
<1>5. ClosedInOrder'
    BY <1>0 DEF EventsInv, ClosedInOrder
<1>6. NoSilentLoss'
    <2> SUFFICES ASSUME NEW e \in AuditEvents, send[e] = "done",
                        e \notin InFlight \cup dropped \cup unspilled \cup gone \cup late, accepted'[e] = 0
                 PROVE  e \in OnDisk'
        BY <1>0, <1>1 DEF NoSilentLoss, EventsInv, EventsTyped
    <2>1. accepted[e] = 0
        BY DEF EventsInv, EventsTyped
    <2>2. e \in OnDisk
        BY <2>1 DEF EventsInv, NoSilentLoss
    <2> QED
        BY <2>2 DEF OnDisk
<1>7. OneFate'
    <2>1. \A e \in dropped : e \notin InFlight \cup OnDisk' /\ accepted'[e] = 0
        <3>1. dropped \subseteq AuditEvents
            BY DEF EventsInv, EventsTyped
        <3> QED
            BY <1>1, <3>1 DEF EventsInv, SpilledOnce, OneFate
    <2> QED
        BY <1>0, <1>1, <2>1 DEF EventsInv, OneFate
<1> QED
    BY <1>2, <1>3, <1>4, <1>5, <1>6, <1>7 DEF EventsInv

\* A replayer moves on, its event e (if any) gets a new file state and new counts.
LEMMA RepStep ==
    ASSUME EventsInv, NEW r \in Replayers, NEW q \in Replayers, q # r, NEW e \in Named,
           NEW p \in Passes, NEW f \in Files, NEW a \in Nat, NEW o \in Nat,
           UNCHANGED <<verdict, clientVars, names>>,
           rep' = [rep EXCEPT ![r] = p], file' = [file EXCEPT ![e] = f],
           accepted' = [accepted EXCEPT ![e] = a], owed' = [owed EXCEPT ![e] = o],
           p = rep[r] \/ (rep[r].event \in {e, NoEvent} /\ p.event \in {e, NoEvent}),
           p.todo \subseteq Named, f.at = "claimed" => f.by \in Replayers,
           f.at # "absent" => file[e].at # "absent",
           f.at = "absent" /\ file[e].at # "absent" => a > 0,
           accepted[e] <= a,
           p.pc \in {"idle", "pass"} <=> p.event = NoEvent,
           p.event # NoEvent /\ p.pc = "remove" => accepted'[p.event] > 0,
           p.todo # {} \/ p.event # NoEvent => p.fails < MaxFails,
           Rows(f, r, p, q, rep[q], e) \in Nat, a + Rows(f, r, p, q, rep[q], e) <= 1 + o
    PROVE  EventsInv'
<1>0. /\ file \in [AuditEvents -> Files] /\ rep \in [Replayers -> Passes] /\ e \in AuditEvents
      /\ accepted \in [AuditEvents -> Nat] /\ owed \in [AuditEvents -> Nat]
      /\ Named \subseteq AuditEvents /\ NoEvent \notin AuditEvents
    BY EventShapes DEF EventsInv, EventsTyped
<1>1. /\ rep'[r] = p /\ rep'[q] = rep[q] /\ Replayers = {r, q}
      /\ file'[e] = f /\ accepted'[e] = a /\ owed'[e] = o
      /\ \A d \in AuditEvents \ {e} : file'[d] = file[d] /\ accepted'[d] = accepted[d] /\ owed'[d] = owed[d]
    BY <1>0 DEF Replayers
<1>2. /\ file' \in [AuditEvents -> Files] /\ rep' \in [Replayers -> Passes]
      /\ accepted' \in [AuditEvents -> Nat] /\ owed' \in [AuditEvents -> Nat]
    BY <1>0
<1>3. ASSUME NEW d \in AuditEvents
      PROVE  /\ file'[d].at = "claimed" => file'[d].by \in Replayers
             /\ file'[d].at # "absent" => file[d].at # "absent"
             /\ file'[d].at = "absent" /\ file[d].at # "absent" => accepted'[d] > 0
             /\ accepted[d] <= accepted'[d] /\ (d \notin Named => accepted'[d] = accepted[d])
    <2>1. CASE d = e
        BY <1>1, <2>1
    <2>2. CASE d # e
        <3>1. file'[d] = file[d] /\ accepted'[d] = accepted[d] /\ accepted[d] \in Nat
            BY <1>0, <1>1, <2>2
        <3>2. file[d].at = "claimed" => file[d].by \in Replayers
            BY EventShapes
        <3> QED
            BY <3>1, <3>2
    <2> QED
        BY <2>1, <2>2
<1>4. p.event \in Named \cup {NoEvent}
    BY EventShapes
<1>5. ASSUME NEW x \in Replayers
      PROVE  rep'[x].todo \subseteq Named /\ rep'[x].event \in Named \cup {NoEvent} /\ AtWork(rep[x])'
    <2>1. CASE x = r
        <3>1. p.pc = "remove" => p.event # NoEvent /\ accepted'[p.event] > 0
            OBVIOUS
        <3> QED
            BY <1>1, <1>4, <2>1, <3>1 DEF AtWork
    <2>2. CASE x = q
        <3>1. rep[q].todo \subseteq Named /\ rep[q].event \in Named \cup {NoEvent} /\ AtWork(rep[q])
            BY EventShapes
        <3>2. rep[q].pc = "remove" => accepted'[rep[q].event] > 0
            <4> SUFFICES ASSUME rep[q].pc = "remove" PROVE accepted'[rep[q].event] > 0
                OBVIOUS
            <4>1. rep[q].event \in Named /\ accepted[rep[q].event] > 0
                BY <3>1 DEF AtWork
            <4>2. PICK d \in AuditEvents : d = rep[q].event
                BY <1>0, <4>1
            <4>3. accepted[d] <= accepted'[d] /\ accepted[d] \in Nat /\ accepted'[d] \in Nat
                BY <1>0, <1>2, <1>3
            <4> QED
                BY <4>1, <4>2, <4>3
        <3> QED
            BY <1>1, <2>2, <3>1, <3>2 DEF AtWork
    <2> QED
        BY <1>1, <2>1, <2>2
<1>6. RowsOwed'
    <2>1. UNCHANGED <<buffer, hand>>
        BY DEF clientVars
    <2>2. \A d : FromMemory(d)' = FromMemory(d)
        BY <2>1 DEF FromMemory, InFlight, Held
    <2>3. ASSUME NEW d \in AuditEvents
          PROVE  /\ Rows(file'[d], r, rep'[r], q, rep'[q], d) \in Nat
                 /\ accepted'[d] + FromMemory(d)' + Rows(file'[d], r, rep'[r], q, rep'[q], d) <= 1 + owed'[d]
        <3>1. CASE d = e
            <4>1. FromMemory(d)' = 0
                BY <2>2, <3>1, RowsOf
            <4>2. Rows(file'[d], r, rep'[r], q, rep'[q], d) = Rows(f, r, p, q, rep[q], e)
                BY <1>1, <3>1
            <4> QED
                BY <1>1, <3>1, <4>1, <4>2
        <3>2. CASE d # e
            <4>1. Rows(file[d], r, p, q, rep[q], d) = Rows(file[d], r, rep[r], q, rep[q], d)
                <5>1. CASE p = rep[r]
                    BY <5>1
                <5>2. CASE rep[r].event # d /\ p.event # d
                    <6>1. FileRow(file[d], r, p, rep[q], d) = FileRow(file[d], r, rep[r], rep[q], d)
                        BY <5>2 DEF FileRow
                    <6>2. StaleRow(file[d], r, p, d) = StaleRow(file[d], r, rep[r], d)
                        BY <5>2 DEF StaleRow
                    <6> QED
                        BY <6>1, <6>2 DEF Rows
                <5> QED
                    BY <1>0, <3>2, <5>1, <5>2
            <4>2. /\ Rows(file[d], r, rep[r], q, rep[q], d) \in Nat
                  /\ accepted[d] + FromMemory(d) + Rows(file[d], r, rep[r], q, rep[q], d) <= 1 + owed[d]
                BY RowsOf
            <4>3. Rows(file'[d], r, rep'[r], q, rep'[q], d) = Rows(file[d], r, rep[r], q, rep[q], d)
                BY <1>1, <3>2, <4>1
            <4> QED
                BY <1>1, <2>2, <3>2, <4>2, <4>3
        <3> QED
            BY <3>1, <3>2
    <2>4. \A d \in AuditEvents : accepted'[d] \in Nat /\ owed'[d] \in Nat
        BY <1>2
    <2> QED
        BY <1>3, <2>3, <2>4, RowsOwedNext
<1> QED
    BY <1>2, <1>3, <1>5, <1>6, DiskStep

\* A replayer that has no event in hand begins or ends a pass, or is killed between
\* two files; some claims become pending again, some files are deleted.
LEMMA PassStep ==
    ASSUME EventsInv, NEW r \in Replayers, NEW p \in Passes,
           UNCHANGED <<verdict, accepted, clientVars, names, owed>>,
           rep' = [rep EXCEPT ![r] = p], rep[r].event = NoEvent,
           p.pc \in {"idle", "pass"}, p.event = NoEvent, p.todo \subseteq Named,
           p.todo # {} => p.fails < MaxFails,
           file' \in [AuditEvents -> Files],
           \A e \in AuditEvents :
               \/ file'[e] = file[e]
               \/ file[e].at = "claimed" /\ file[e].aged /\ file'[e].at = "pending"
               \/ file[e].at = "rejected" /\ file'[e].at = "deleted"
    PROVE  EventsInv'
<1>0. /\ file \in [AuditEvents -> Files] /\ rep \in [Replayers -> Passes]
      /\ accepted \in [AuditEvents -> Nat] /\ owed \in [AuditEvents -> Nat]
      /\ Named \subseteq AuditEvents /\ NoEvent \notin AuditEvents
    BY EventShapes DEF EventsInv, EventsTyped
<1>1. PICK q \in Replayers : q # r /\ Replayers = {r, q}
    BY OtherReplayer
<1>2. rep'[r] = p /\ rep'[q] = rep[q] /\ rep' \in [Replayers -> Passes]
    BY <1>0, <1>1
<1>3. ASSUME NEW x \in Replayers
      PROVE  rep'[x].todo \subseteq Named /\ rep'[x].event \in Named \cup {NoEvent} /\ AtWork(rep[x])'
    <2>1. CASE x = r
        BY <1>2, <2>1 DEF AtWork
    <2>2. CASE x = q
        <3>1. rep[q].todo \subseteq Named /\ rep[q].event \in Named \cup {NoEvent} /\ AtWork(rep[q])
            BY EventShapes
        <3> QED
            BY <1>2, <2>2, <3>1 DEF AtWork
    <2> QED
        BY <1>1, <2>1, <2>2
<1>4. ASSUME NEW e \in AuditEvents
      PROVE  /\ file'[e].at = "claimed" => file'[e].by \in Replayers
             /\ file'[e].at # "absent" => file[e].at # "absent"
             /\ ~(file'[e].at = "absent" /\ file[e].at # "absent")
    BY EventShapes
<1>5. RowsOwed'
    <2>1. UNCHANGED <<buffer, hand>>
        BY DEF clientVars
    <2>2. \A d : FromMemory(d)' = FromMemory(d)
        BY <2>1 DEF FromMemory, InFlight, Held
    <2>3. ASSUME NEW d \in AuditEvents
          PROVE  /\ Rows(file'[d], r, rep'[r], q, rep'[q], d) \in Nat
                 /\ accepted'[d] + FromMemory(d)' + Rows(file'[d], r, rep'[r], q, rep'[q], d) <= 1 + owed'[d]
        <3>1. rep[r].event # d /\ p.event # d
            BY <1>0
        <3>2. FileRow(file'[d], r, p, rep[q], d) = FileRow(file[d], r, rep[r], rep[q], d)
            BY <3>1 DEF FileRow
        <3>3. StaleRow(file'[d], r, p, d) = StaleRow(file[d], r, rep[r], d)
            BY <3>1 DEF StaleRow
        <3>4. StaleRow(file'[d], q, rep[q], d) = StaleRow(file[d], q, rep[q], d)
            BY DEF StaleRow
        <3>5. Rows(file'[d], r, rep'[r], q, rep'[q], d) = Rows(file[d], r, rep[r], q, rep[q], d)
            BY <1>2, <3>2, <3>3, <3>4 DEF Rows
        <3>6. /\ Rows(file[d], r, rep[r], q, rep[q], d) \in Nat
              /\ accepted[d] + FromMemory(d) + Rows(file[d], r, rep[r], q, rep[q], d) <= 1 + owed[d]
            BY <1>1, RowsOf
        <3> QED
            BY <2>2, <3>5, <3>6
    <2>4. \A d \in AuditEvents : accepted'[d] \in Nat /\ owed'[d] \in Nat
        BY <1>0
    <2>5. \A d \in AuditEvents : file'[d].at = "claimed" => file'[d].by \in Replayers
        BY <1>4
    <2> QED
        BY <1>1, <2>3, <2>4, <2>5, RowsOwedNext
<1>6. \A e \in AuditEvents : accepted[e] <= accepted'[e] /\ accepted'[e] = accepted[e]
    BY <1>0
<1> QED
    BY <1>0, <1>2, <1>3, <1>4, <1>5, <1>6, DiskStep

\* What holds of a named event and of a replayer before a step.
LEMMA Before ==
    ASSUME EventsInv, NEW e \in Named, NEW r \in Replayers, NEW q \in Replayers, q # r
    PROVE  /\ e \in AuditEvents /\ e # NoEvent /\ file[e] \in Files /\ rep[r] \in Passes /\ rep[r].todo \subseteq Named
           /\ accepted[e] \in Nat /\ owed[e] \in Nat /\ Rows(file[e], r, rep[r], q, rep[q], e) \in Nat
           /\ accepted[e] + Rows(file[e], r, rep[r], q, rep[q], e) <= 1 + owed[e]
           /\ file = [file EXCEPT ![e] = file[e]] /\ rep = [rep EXCEPT ![r] = rep[r]]
           /\ accepted = [accepted EXCEPT ![e] = accepted[e]] /\ owed = [owed EXCEPT ![e] = owed[e]]
           /\ (file[e].at = "claimed" => file[e].by \in Replayers) /\ AtWork(rep[r])
<1>1. /\ e \in AuditEvents /\ e # NoEvent /\ file[e] \in Files /\ rep[r] \in Passes /\ rep[r].todo \subseteq Named
      /\ accepted[e] \in Nat /\ owed[e] \in Nat
      /\ (file[e].at = "claimed" => file[e].by \in Replayers) /\ AtWork(rep[r])
    BY EventShapes
<1>2. /\ file = [file EXCEPT ![e] = file[e]] /\ rep = [rep EXCEPT ![r] = rep[r]]
      /\ accepted = [accepted EXCEPT ![e] = accepted[e]] /\ owed = [owed EXCEPT ![e] = owed[e]]
    BY <1>1, EventShapes DEF EventsInv, EventsTyped
<1>3. /\ Rows(file[e], r, rep[r], q, rep[q], e) \in Nat
      /\ accepted[e] + FromMemory(e) + Rows(file[e], r, rep[r], q, rep[q], e) <= 1 + owed[e]
      /\ FromMemory(e) = 0
    BY <1>1, RowsOf
<1>4. accepted[e] + Rows(file[e], r, rep[r], q, rep[q], e) <= 1 + owed[e]
    BY <1>1, <1>3
<1> QED
    BY <1>1, <1>2, <1>3, <1>4

\* The counts are numbers.
LEMMA RowsNat ==
    ASSUME NEW f, NEW r, NEW p, NEW q, NEW w, NEW e
    PROVE  Rows(f, r, p, q, w, e) \in Nat
<1>1. FileRow(f, r, p, w, e) \in Nat /\ StaleRow(f, r, p, e) \in Nat /\ StaleRow(f, q, w, e) \in Nat
    BY DEF FileRow, StaleRow
<1> QED
    BY <1>1 DEF Rows

\* Owe counts a fault for the event it is given.
LEMMA OweOne ==
    ASSUME EventsInv, NEW e \in AuditEvents, Owe({e})
    PROVE  owed' = [owed EXCEPT ![e] = owed[e] + 1]
BY DEF Owe, EventsInv, EventsTyped

\* Done: the replayer goes on with the rest of its list, or gives up.
LEMMA DoneFacts ==
    ASSUME EventsInv, NEW r \in Replayers, rep[r].event # NoEvent, NEW deferred \in BOOLEAN, Done(r, deferred)
    PROVE  \E p \in Passes : /\ rep' = [rep EXCEPT ![r] = p] /\ p.pc = "pass" /\ p.event = NoEvent
                             /\ p.todo \subseteq Named /\ (p.todo # {} => p.fails < MaxFails)
<1>1. /\ rep[r] \in Passes /\ rep[r].todo \subseteq Named /\ rep[r].fails < MaxFails
      /\ rep[r].fails \in 0..MaxFails /\ rep[r].todo \subseteq AuditEvents
    BY EventShapes DEF AtWork, Passes
<1>2. PICK n : n = IF deferred THEN rep[r].fails + 1 ELSE 0
    OBVIOUS
<1>3. n \in 0..MaxFails
    BY <1>1, <1>2, EventsAssumption
<1>4. PICK S : S = IF n >= MaxFails THEN {} ELSE rep[r].todo \ {rep[r].event}
    OBVIOUS
<1>5. S \subseteq Named /\ S \subseteq AuditEvents /\ (S # {} => n < MaxFails)
    BY <1>1, <1>3, <1>4, EventsAssumption
<1>6. PICK p : p = [pc |-> "pass", event |-> NoEvent, fails |-> n, todo |-> S]
    OBVIOUS
<1>7. p \in Passes /\ p.pc = "pass" /\ p.event = NoEvent /\ p.todo = S /\ p.fails = n
    BY <1>3, <1>5, <1>6 DEF Passes
<1>8. rep' = [rep EXCEPT ![r] = p]
    BY <1>2, <1>4, <1>6 DEF Done
<1> QED
    BY <1>5, <1>7, <1>8

\* The replayer is done with its event: the counts must still be right.
LEMMA EndStep ==
    ASSUME EventsInv, NEW r \in Replayers, NEW q \in Replayers, q # r, NEW e \in Named, e = rep[r].event,
           UNCHANGED <<verdict, accepted, clientVars, names>>,
           NEW p \in Passes, rep' = [rep EXCEPT ![r] = p], p.pc = "pass", p.event = NoEvent,
           p.todo \subseteq Named, p.todo # {} => p.fails < MaxFails,
           NEW f \in Files, file' = [file EXCEPT ![e] = f],
           f.at = "claimed" => f.by \in Replayers, f.at # "absent" => file[e].at # "absent",
           f.at = "absent" /\ file[e].at # "absent" => accepted[e] > 0,
           NEW o \in Nat, owed' = [owed EXCEPT ![e] = o],
           Rows(f, r, p, q, rep[q], e) <= Rows(file[e], r, rep[r], q, rep[q], e) + (o - owed[e])
    PROVE  EventsInv'
<1>1. PICK a \in Nat : a = accepted[e]
    BY Before
<1>2. accepted' = [accepted EXCEPT ![e] = a]
    BY <1>1, Before
<1>3. Rows(f, r, p, q, rep[q], e) \in Nat
    BY RowsNat
<1>4. a + Rows(f, r, p, q, rep[q], e) <= 1 + o
    BY <1>1, <1>3, Before
<1>5. rep[r].event \in {e, NoEvent} /\ p.event \in {e, NoEvent}
    OBVIOUS
<1>6. f.at = "absent" /\ file[e].at # "absent" => a > 0
    BY <1>1
<1>7. accepted[e] <= a
    BY <1>1
<1>8. p.pc \in {"idle", "pass"} <=> p.event = NoEvent
    OBVIOUS
<1>9. p.event # NoEvent /\ p.pc = "remove" => accepted'[p.event] > 0
    OBVIOUS
<1>10. p.todo # {} \/ p.event # NoEvent => p.fails < MaxFails
    OBVIOUS
<1>11. UNCHANGED <<verdict, clientVars, names>>
    OBVIOUS
<1> QED
    BY <1>2, <1>3, <1>4, <1>5, <1>6, <1>7, <1>8, <1>9, <1>10, <1>11, RepStep

\* Defer.
LEMMA DeferStep ==
    ASSUME EventsInv, NEW r \in Replayers, Defer(r)
    PROVE  EventsInv'
<1>0. /\ rep[r].event # NoEvent /\ rep[r].pc = "defer" /\ Done(r, TRUE)
      /\ UNCHANGED <<verdict, accepted, clientVars, file, names, owed>>
    BY EventShapes DEF Defer, AtWork, disk
<1>1. PICK e \in Named : e = rep[r].event
    BY <1>0, EventShapes
<1>2. PICK q \in Replayers : q # r
    BY OtherReplayer
<1>3. /\ e \in AuditEvents /\ e # NoEvent /\ file[e] \in Files /\ rep[r] \in Passes /\ rep[r].todo \subseteq Named
      /\ accepted[e] \in Nat /\ owed[e] \in Nat /\ Rows(file[e], r, rep[r], q, rep[q], e) \in Nat
      /\ accepted[e] + Rows(file[e], r, rep[r], q, rep[q], e) <= 1 + owed[e]
      /\ file = [file EXCEPT ![e] = file[e]] /\ rep = [rep EXCEPT ![r] = rep[r]]
      /\ accepted = [accepted EXCEPT ![e] = accepted[e]] /\ owed = [owed EXCEPT ![e] = owed[e]]
      /\ (file[e].at = "claimed" => file[e].by \in Replayers) /\ AtWork(rep[r])
    BY <1>1, <1>2, Before
<1>4. PICK p \in Passes : /\ rep' = [rep EXCEPT ![r] = p] /\ p.pc = "pass" /\ p.event = NoEvent
                          /\ p.todo \subseteq Named /\ (p.todo # {} => p.fails < MaxFails)
    BY <1>0, DoneFacts
<1>5. Rows(file[e], r, p, q, rep[q], e) = Rows(file[e], r, rep[r], q, rep[q], e)
    BY <1>0, <1>4 DEF Rows, FileRow, StaleRow
<1>6. Rows(file[e], r, p, q, rep[q], e) <= Rows(file[e], r, rep[r], q, rep[q], e) + (owed[e] - owed[e])
    BY <1>3, <1>5
<1>7. file' = [file EXCEPT ![e] = file[e]] /\ owed' = [owed EXCEPT ![e] = owed[e]]
    BY <1>0, <1>3
<1>8. UNCHANGED <<verdict, accepted, clientVars, names>>
    BY <1>0
<1>9. file[e].at # "absent" => file[e].at # "absent"
    OBVIOUS
<1>10. file[e].at = "absent" /\ file[e].at # "absent" => accepted[e] > 0
    OBVIOUS
<1> QED
    BY <1>1, <1>2, <1>3, <1>4, <1>6, <1>7, <1>8, <1>9, <1>10, EndStep

\* Remove: the claim goes once its event is stored; a removal that fails is owed.
LEMMA RemoveStep ==
    ASSUME EventsInv, NEW r \in Replayers, Remove(r)
    PROVE  EventsInv'
<1>0. /\ rep[r].event # NoEvent /\ rep[r].pc = "remove" /\ Done(r, FALSE)
      /\ UNCHANGED <<verdict, accepted, clientVars, names>>
    BY EventShapes DEF Remove, AtWork
<1>1. PICK e \in Named : e = rep[r].event
    BY <1>0, EventShapes
<1>2. PICK q \in Replayers : q # r
    BY OtherReplayer
<1>3. /\ e \in AuditEvents /\ e # NoEvent /\ file[e] \in Files /\ rep[r] \in Passes /\ rep[r].todo \subseteq Named
      /\ accepted[e] \in Nat /\ owed[e] \in Nat /\ Rows(file[e], r, rep[r], q, rep[q], e) \in Nat
      /\ accepted[e] + Rows(file[e], r, rep[r], q, rep[q], e) <= 1 + owed[e]
      /\ file = [file EXCEPT ![e] = file[e]] /\ rep = [rep EXCEPT ![r] = rep[r]]
      /\ accepted = [accepted EXCEPT ![e] = accepted[e]] /\ owed = [owed EXCEPT ![e] = owed[e]]
      /\ (file[e].at = "claimed" => file[e].by \in Replayers) /\ AtWork(rep[r])
    BY <1>1, <1>2, Before
<1>u. UNCHANGED <<verdict, accepted, clientVars, names>>
    BY <1>0
<1>f. file[e] \in Files /\ owed[e] \in Nat
    BY <1>3
<1>4. PICK p \in Passes : /\ rep' = [rep EXCEPT ![r] = p] /\ p.pc = "pass" /\ p.event = NoEvent
                          /\ p.todo \subseteq Named /\ (p.todo # {} => p.fails < MaxFails)
    BY <1>0, DoneFacts
<1>5. accepted[e] > 0
    BY <1>0, <1>1, <1>3 DEF AtWork
<1>6. CASE HasClaim(r, e) /\ file' = [file EXCEPT ![e] = Absent] /\ UNCHANGED owed
    <2>1. Absent \in Files /\ Absent.at = "absent"
        BY DEF Absent, File, Files
    <2>2. Rows(Absent, r, p, q, rep[q], e) <= Rows(file[e], r, rep[r], q, rep[q], e)
        BY <1>0, <1>2, <1>4, <1>6, <2>1 DEF Rows, FileRow, StaleRow, HasClaim
    <2>3. Rows(Absent, r, p, q, rep[q], e) <= Rows(file[e], r, rep[r], q, rep[q], e) + (owed[e] - owed[e])
        BY <1>3, <2>2, RowsNat
    <2>4. owed' = [owed EXCEPT ![e] = owed[e]]
        BY <1>3, <1>6
    <2>a. Absent.at = "claimed" => Absent.by \in Replayers
        BY <1>5, <2>1
    <2>b. Absent.at # "absent" => file[e].at # "absent"
        BY <1>5, <2>1
    <2>c. Absent.at = "absent" /\ file[e].at # "absent" => accepted[e] > 0
        BY <1>5, <2>1
    <2>d. Absent \in Files /\ file' = [file EXCEPT ![e] = Absent]
        BY <1>6, <2>1
    <2> QED
        BY <1>u, <1>f, <1>1, <1>2, <1>4, <2>3, <2>4, <2>a, <2>b, <2>c, <2>d, EndStep
<1>7. CASE ~HasClaim(r, e) /\ UNCHANGED <<file, owed>>
    <2>1. Rows(file[e], r, p, q, rep[q], e) = Rows(file[e], r, rep[r], q, rep[q], e)
        BY <1>0, <1>4, <1>7 DEF Rows, FileRow, StaleRow, HasClaim
    <2>2. Rows(file[e], r, p, q, rep[q], e) <= Rows(file[e], r, rep[r], q, rep[q], e) + (owed[e] - owed[e])
        BY <1>3, <2>1
    <2>3. file' = [file EXCEPT ![e] = file[e]] /\ owed' = [owed EXCEPT ![e] = owed[e]]
        BY <1>3, <1>7
    <2> QED
        BY <1>0, <1>1, <1>2, <1>3, <1>4, <1>5, <2>2, <2>3, EndStep
<1>8. CASE Owe({e}) /\ UNCHANGED file
    <2>1. Rows(file[e], r, p, q, rep[q], e) <= Rows(file[e], r, rep[r], q, rep[q], e) + 1
        BY <1>0, <1>4 DEF Rows, FileRow, StaleRow
    <2>2. owed' = [owed EXCEPT ![e] = owed[e] + 1]
        BY <1>3, <1>8, OweOne
    <2>3. PICK o \in Nat : o = owed[e] + 1
        BY <1>3
    <2>4. Rows(file[e], r, p, q, rep[q], e) <= Rows(file[e], r, rep[r], q, rep[q], e) + (o - owed[e])
        BY <1>3, <2>1, <2>3, RowsNat
    <2>5. file' = [file EXCEPT ![e] = file[e]] /\ owed' = [owed EXCEPT ![e] = o]
        BY <1>3, <1>8, <2>2, <2>3
    <2> QED
        BY <1>0, <1>1, <1>2, <1>3, <1>4, <1>5, <2>4, <2>5, EndStep
<1>9. \/ file' = (IF HasClaim(r, e) THEN [file EXCEPT ![e] = Absent] ELSE file) /\ UNCHANGED owed
      \/ Owe({e}) /\ UNCHANGED file
    BY <1>1 DEF Remove
<1> QED
    BY <1>6, <1>7, <1>8, <1>9

\* Unclaim: the claim becomes pending again, or stays.
LEMMA UnclaimStep ==
    ASSUME EventsInv, NEW r \in Replayers, Unclaim(r)
    PROVE  EventsInv'
<1>0. /\ rep[r].event # NoEvent /\ rep[r].pc = "unclaim" /\ Done(r, TRUE)
      /\ UNCHANGED <<verdict, accepted, clientVars, names, owed>>
    BY EventShapes DEF Unclaim, AtWork
<1>1. PICK e \in Named : e = rep[r].event
    BY <1>0, EventShapes
<1>2. PICK q \in Replayers : q # r
    BY OtherReplayer
<1>3. /\ e \in AuditEvents /\ e # NoEvent /\ file[e] \in Files /\ rep[r] \in Passes /\ rep[r].todo \subseteq Named
      /\ accepted[e] \in Nat /\ owed[e] \in Nat /\ Rows(file[e], r, rep[r], q, rep[q], e) \in Nat
      /\ accepted[e] + Rows(file[e], r, rep[r], q, rep[q], e) <= 1 + owed[e]
      /\ file = [file EXCEPT ![e] = file[e]] /\ rep = [rep EXCEPT ![r] = rep[r]]
      /\ accepted = [accepted EXCEPT ![e] = accepted[e]] /\ owed = [owed EXCEPT ![e] = owed[e]]
      /\ (file[e].at = "claimed" => file[e].by \in Replayers) /\ AtWork(rep[r])
    BY <1>1, <1>2, Before
<1>u. UNCHANGED <<verdict, accepted, clientVars, names>>
    BY <1>0
<1>f. file[e] \in Files /\ owed[e] \in Nat
    BY <1>3
<1>4. PICK p \in Passes : /\ rep' = [rep EXCEPT ![r] = p] /\ p.pc = "pass" /\ p.event = NoEvent
                          /\ p.todo \subseteq Named /\ (p.todo # {} => p.fails < MaxFails)
    BY <1>0, DoneFacts
<1>5. CASE HasClaim(r, e) /\ file' = [file EXCEPT ![e] = Pending]
    <2>1. Pending \in Files /\ Pending.at = "pending"
        BY DEF Pending, File, Files
    <2>2. Rows(Pending, r, p, q, rep[q], e) <= Rows(file[e], r, rep[r], q, rep[q], e)
        BY <1>0, <1>2, <1>4, <1>5, <2>1 DEF Rows, FileRow, StaleRow, HasClaim
    <2>3. Rows(Pending, r, p, q, rep[q], e) <= Rows(file[e], r, rep[r], q, rep[q], e) + (owed[e] - owed[e])
        BY <1>3, <2>2, RowsNat
    <2>4. owed' = [owed EXCEPT ![e] = owed[e]]
        BY <1>0, <1>3
    <2>5. file[e].at # "absent"
        BY <1>5 DEF HasClaim
    <2>a. Pending.at = "claimed" => Pending.by \in Replayers
        BY <2>1, <2>5
    <2>b. Pending.at # "absent" => file[e].at # "absent"
        BY <2>1, <2>5
    <2>c. Pending.at = "absent" /\ file[e].at # "absent" => accepted[e] > 0
        BY <2>1, <2>5
    <2> QED
        BY <1>u, <1>f, <1>1, <1>2, <1>4, <1>5, <2>1, <2>3, <2>4, <2>a, <2>b, <2>c, EndStep
<1>6. CASE UNCHANGED file
    <2>1. Rows(file[e], r, p, q, rep[q], e) = Rows(file[e], r, rep[r], q, rep[q], e)
        BY <1>0, <1>4, <1>6 DEF Rows, FileRow, StaleRow
    <2>2. Rows(file[e], r, p, q, rep[q], e) <= Rows(file[e], r, rep[r], q, rep[q], e) + (owed[e] - owed[e])
        BY <1>3, <2>1
    <2>3. file' = [file EXCEPT ![e] = file[e]] /\ owed' = [owed EXCEPT ![e] = owed[e]]
        BY <1>0, <1>3, <1>6
    <2>a. file[e].at = "claimed" => file[e].by \in Replayers
        BY <1>3
    <2>b. file[e].at # "absent" => file[e].at # "absent"
        BY <1>3
    <2>c. file[e].at = "absent" /\ file[e].at # "absent" => accepted[e] > 0
        BY <1>3
    <2> QED
        BY <1>u, <1>f, <1>1, <1>2, <1>4, <2>2, <2>3, <2>a, <2>b, <2>c, EndStep
<1>7. \/ file' = (IF HasClaim(r, e) THEN [file EXCEPT ![e] = Pending] ELSE file)
      \/ UNCHANGED file
    BY <1>1 DEF Unclaim
<1> QED
    BY <1>5, <1>6, <1>7

\* Stamp: the rejection gets its own age.
LEMMA StampStep ==
    ASSUME EventsInv, NEW r \in Replayers, Stamp(r)
    PROVE  EventsInv'
<1>0. /\ rep[r].event # NoEvent /\ rep[r].pc = "stamp" /\ Done(r, FALSE)
      /\ UNCHANGED <<verdict, accepted, clientVars, names, owed>>
    BY EventShapes DEF Stamp, AtWork
<1>1. PICK e \in Named : e = rep[r].event
    BY <1>0, EventShapes
<1>2. PICK q \in Replayers : q # r
    BY OtherReplayer
<1>3. /\ e \in AuditEvents /\ e # NoEvent /\ file[e] \in Files /\ rep[r] \in Passes /\ rep[r].todo \subseteq Named
      /\ accepted[e] \in Nat /\ owed[e] \in Nat /\ Rows(file[e], r, rep[r], q, rep[q], e) \in Nat
      /\ accepted[e] + Rows(file[e], r, rep[r], q, rep[q], e) <= 1 + owed[e]
      /\ file = [file EXCEPT ![e] = file[e]] /\ rep = [rep EXCEPT ![r] = rep[r]]
      /\ accepted = [accepted EXCEPT ![e] = accepted[e]] /\ owed = [owed EXCEPT ![e] = owed[e]]
      /\ (file[e].at = "claimed" => file[e].by \in Replayers) /\ AtWork(rep[r])
    BY <1>1, <1>2, Before
<1>u. UNCHANGED <<verdict, accepted, clientVars, names>>
    BY <1>0
<1>f. file[e] \in Files /\ owed[e] \in Nat
    BY <1>3
<1>4. PICK p \in Passes : /\ rep' = [rep EXCEPT ![r] = p] /\ p.pc = "pass" /\ p.event = NoEvent
                          /\ p.todo \subseteq Named /\ (p.todo # {} => p.fails < MaxFails)
    BY <1>0, DoneFacts
<1>5. PICK f : f = IF file[e].at = "rejected" THEN [file[e] EXCEPT !.aged = FALSE] ELSE file[e]
    OBVIOUS
<1>6. f \in Files /\ f.at = file[e].at /\ f.by = file[e].by /\ (f.at # "rejected" => f = file[e])
    BY <1>3, <1>5 DEF Files
<1>7. file' = [file EXCEPT ![e] = f]
    <2>1. file' = IF file[e].at = "rejected" THEN [file EXCEPT ![e].aged = FALSE] ELSE file
        BY <1>1 DEF Stamp
    <2> QED
        BY <1>3, <1>5, <2>1
<1>8. Rows(f, r, p, q, rep[q], e) = Rows(file[e], r, rep[r], q, rep[q], e)
    BY <1>0, <1>4, <1>6 DEF Rows, FileRow, StaleRow
<1>9. Rows(f, r, p, q, rep[q], e) <= Rows(file[e], r, rep[r], q, rep[q], e) + (owed[e] - owed[e])
    BY <1>3, <1>8
<1>10. owed' = [owed EXCEPT ![e] = owed[e]]
    BY <1>0, <1>3
<1>a. f.at = "claimed" => f.by \in Replayers
    BY <1>3, <1>6
<1>b. f.at # "absent" => file[e].at # "absent"
    BY <1>3, <1>6
<1>c. f.at = "absent" /\ file[e].at # "absent" => accepted[e] > 0
    BY <1>3, <1>6
<1> QED
    BY <1>u, <1>f, <1>1, <1>2, <1>4, <1>6, <1>7, <1>9, <1>10, <1>a, <1>b, <1>c, EndStep

\* The replayer goes on working on an event, or takes one up.
LEMMA WorkStep ==
    ASSUME EventsInv, NEW r \in Replayers, NEW q \in Replayers, q # r, NEW e \in Named,
           rep[r].event \in {e, NoEvent}, UNCHANGED <<verdict, clientVars, names>>,
           NEW p \in Passes, rep' = [rep EXCEPT ![r] = p], p.event = e,
           p.pc \notin {"idle", "pass"}, p.todo = rep[r].todo, p.fails < MaxFails,
           NEW f \in Files, file' = [file EXCEPT ![e] = f],
           f.at = "claimed" => f.by \in Replayers,
           f = file[e] \/ (f.at # "absent" /\ file[e].at # "absent"),
           NEW a \in Nat, accepted' = [accepted EXCEPT ![e] = a], accepted[e] <= a, p.pc = "remove" => a > 0,
           NEW o \in Nat, owed' = [owed EXCEPT ![e] = o],
           a + Rows(f, r, p, q, rep[q], e) + owed[e]
               <= accepted[e] + Rows(file[e], r, rep[r], q, rep[q], e) + o
    PROVE  EventsInv'
<1>1. Rows(f, r, p, q, rep[q], e) \in Nat
    BY RowsNat
<1>2. a + Rows(f, r, p, q, rep[q], e) <= 1 + o
    <2>1. /\ accepted[e] \in Nat /\ owed[e] \in Nat /\ Rows(file[e], r, rep[r], q, rep[q], e) \in Nat
          /\ accepted[e] + Rows(file[e], r, rep[r], q, rep[q], e) <= 1 + owed[e]
        BY Before
    <2> QED
        BY <1>1, <2>1
<1>3. rep[r].event \in {e, NoEvent} /\ p.event \in {e, NoEvent}
    OBVIOUS
<1>4. f.at = "absent" /\ file[e].at # "absent" => a > 0
    OBVIOUS
<1>5. f.at # "absent" => file[e].at # "absent"
    OBVIOUS
<1>6. p.pc \in {"idle", "pass"} <=> p.event = NoEvent
    BY Before
<1>7. p.event # NoEvent /\ p.pc = "remove" => accepted'[p.event] > 0
    <2>1. accepted'[e] = a
        BY Before DEF EventsInv, EventsTyped
    <2> QED
        BY <2>1
<1>8. p.todo # {} \/ p.event # NoEvent => p.fails < MaxFails
    OBVIOUS
<1>9. p.todo \subseteq Named
    BY Before
<1> QED
    BY <1>1, <1>2, <1>3, <1>4, <1>5, <1>6, <1>7, <1>8, <1>9, RepStep

Places == {"idle", "pass", "post", "defer", "remove", "unclaim", "reject", "stamp"}

Moved(p, pc) == [p EXCEPT !.pc = pc]
Taken(p, pc, e) == [p EXCEPT !.pc = pc, !.event = e]

\* A replayer's record with another place.
LEMMA MoveFacts ==
    ASSUME NEW p \in Passes, NEW pc \in Places, NEW e \in AuditEvents
    PROVE  /\ Moved(p, pc) \in Passes /\ Moved(p, pc).pc = pc /\ Moved(p, pc).event = p.event
           /\ Moved(p, pc).todo = p.todo /\ Moved(p, pc).fails = p.fails
           /\ Taken(p, pc, e) \in Passes /\ Taken(p, pc, e).pc = pc /\ Taken(p, pc, e).event = e
           /\ Taken(p, pc, e).todo = p.todo /\ Taken(p, pc, e).fails = p.fails
<1>1. /\ Moved(p, pc) \in Passes /\ Moved(p, pc).pc = pc /\ Moved(p, pc).event = p.event
      /\ Moved(p, pc).todo = p.todo /\ Moved(p, pc).fails = p.fails
    BY DEF Moved, Passes, Places
<1>2. /\ Taken(p, pc, e) \in Passes /\ Taken(p, pc, e).pc = pc /\ Taken(p, pc, e).event = e
      /\ Taken(p, pc, e).todo = p.todo /\ Taken(p, pc, e).fails = p.fails
    BY DEF Taken, Passes, Places
<1> QED
    BY <1>1, <1>2

\* Claim: one replayer takes the file, another one finds it taken.
LEMMA ClaimStep ==
    ASSUME EventsInv, NEW r \in Replayers, Claim(r)
    PROVE  EventsInv'
<1>0. /\ rep[r].pc = "pass" /\ rep[r].todo # {} /\ rep[r].event = NoEvent /\ rep[r].fails < MaxFails
      /\ rep[r].todo \subseteq Named
    BY EventShapes DEF Claim, AtWork
<1>a. UNCHANGED <<verdict, clientVars, names>>
    BY DEF Claim
<1>1. PICK e \in Named : e = Oldest(rep[r].todo)
    BY <1>0, OldestIsIn DEF EventsInv, EventsTyped
<1>2. PICK q \in Replayers : q # r
    BY OtherReplayer
<1>3. /\ e \in AuditEvents /\ file[e] \in Files /\ rep[r] \in Passes
      /\ accepted[e] \in Nat /\ owed[e] \in Nat
      /\ file = [file EXCEPT ![e] = file[e]] /\ (file[e].at = "claimed" => file[e].by \in Replayers)
    BY <1>2, Before
<1>c. file[e] \in Files /\ accepted[e] \in Nat /\ owed[e] \in Nat
    BY <1>3
<1>e. rep[r] \in Passes /\ e \in AuditEvents
    BY <1>3
<1>d. accepted' = [accepted EXCEPT ![e] = accepted[e]] /\ owed' = [owed EXCEPT ![e] = owed[e]]
    BY <1>2, Before DEF Claim
<1>b. rep[r].event \in {e, NoEvent}
    BY <1>0
<1>4. CASE file[e].at = "pending" /\ file' = [file EXCEPT ![e] = File("claimed", r, FALSE)]
            /\ rep' = [rep EXCEPT ![r].pc = "post", ![r].event = e]
    <2>1. PICK f : f = File("claimed", r, FALSE)
        OBVIOUS
    <2>2. f \in Files /\ f.at = "claimed" /\ f.by = r /\ f.aged = FALSE
        BY <2>1 DEF File, Files
    <2>b. "post" \in Places
        BY DEF Places
    <2>a. PICK p : p = Taken(rep[r], "post", e)
        OBVIOUS
    <2>3. p \in Passes /\ p.pc = "post" /\ p.event = e /\ p.todo = rep[r].todo /\ p.fails = rep[r].fails
        BY <1>e, <2>a, <2>b, MoveFacts
    <2>4. rep' = [rep EXCEPT ![r] = p]
        BY <1>4, <2>a DEF Taken
    <2>5. Rows(f, r, p, q, rep[q], e) <= Rows(file[e], r, rep[r], q, rep[q], e)
        BY <1>0, <1>2, <1>4, <2>2, <2>3 DEF Rows, FileRow, StaleRow
    <2>6. accepted[e] + Rows(f, r, p, q, rep[q], e) + owed[e]
              <= accepted[e] + Rows(file[e], r, rep[r], q, rep[q], e) + owed[e]
        BY <1>3, <2>5, RowsNat
    <2>7. file' = [file EXCEPT ![e] = f]
        BY <1>4, <2>1
    <2>8. f.at = "claimed" => f.by \in Replayers
        BY <2>2
    <2>9. f = file[e] \/ (f.at # "absent" /\ file[e].at # "absent")
        BY <1>4, <2>2
    <2>10. p.pc \notin {"idle", "pass"} /\ p.fails < MaxFails /\ (p.pc = "remove" => accepted[e] > 0)
           /\ accepted[e] <= accepted[e]
        BY <1>0, <1>3, <2>3
    <2> QED
        BY <1>a, <1>2, <1>b, <1>c, <1>d, <2>2, <2>3, <2>4, <2>6, <2>7, <2>8, <2>9, <2>10, WorkStep
<1>5. CASE rep' = [rep EXCEPT ![r].pc = "defer", ![r].event = e] /\ UNCHANGED file
    <2>b. "defer" \in Places
        BY DEF Places
    <2>a. PICK p : p = Taken(rep[r], "defer", e)
        OBVIOUS
    <2>3. p \in Passes /\ p.pc = "defer" /\ p.event = e /\ p.todo = rep[r].todo /\ p.fails = rep[r].fails
        BY <1>e, <2>a, <2>b, MoveFacts
    <2>4. rep' = [rep EXCEPT ![r] = p]
        BY <1>5, <2>a DEF Taken
    <2>5. Rows(file[e], r, p, q, rep[q], e) <= Rows(file[e], r, rep[r], q, rep[q], e)
        BY <1>0, <1>2, <2>3 DEF Rows, FileRow, StaleRow
    <2>6. accepted[e] + Rows(file[e], r, p, q, rep[q], e) + owed[e]
              <= accepted[e] + Rows(file[e], r, rep[r], q, rep[q], e) + owed[e]
        BY <1>3, <2>5, RowsNat
    <2>7. file' = [file EXCEPT ![e] = file[e]]
        BY <1>3, <1>5
    <2>8. file[e].at = "claimed" => file[e].by \in Replayers
        BY <1>3
    <2>9. file[e] = file[e] \/ (file[e].at # "absent" /\ file[e].at # "absent")
        OBVIOUS
    <2>10. p.pc \notin {"idle", "pass"} /\ p.fails < MaxFails /\ (p.pc = "remove" => accepted[e] > 0)
           /\ accepted[e] <= accepted[e]
        BY <1>0, <1>3, <2>3
    <2> QED
        BY <1>a, <1>2, <1>b, <1>c, <1>d, <2>3, <2>4, <2>6, <2>7, <2>8, <2>9, <2>10, WorkStep
<1> QED
    BY <1>1, <1>4, <1>5 DEF Claim

\* One POST: stored and answered, stored with the answer lost, or not stored.
LEMMA PostFacts ==
    ASSUME EventsInv, NEW e \in AuditEvents, NEW reached, NEW answer \in Answers, NEW lost \in {0, 1},
           PostEvent(e, reached, answer, lost)
    PROVE  \E a \in Nat, o \in Nat :
              /\ accepted' = [accepted EXCEPT ![e] = a] /\ owed' = [owed EXCEPT ![e] = o]
              /\ accepted[e] <= a
              /\ \/ a = accepted[e] /\ o = owed[e] /\ answer # "stores"
                 \/ a = accepted[e] + 1 /\ o = owed[e] + 1 /\ answer = "fails"
                 \/ a = accepted[e] + 1 /\ o = owed[e] /\ answer = "stores"
<1>0. /\ accepted \in [AuditEvents -> Nat] /\ owed \in [AuditEvents -> Nat]
      /\ accepted[e] \in Nat /\ owed[e] \in Nat
    BY DEF EventsInv, EventsTyped
<1>1. CASE lost = 1
    <2>1. accepted' = [accepted EXCEPT ![e] = accepted[e] + 1] /\ Owe({e}) /\ answer = "fails"
        BY <1>1 DEF PostEvent
    <2>2. owed' = [owed EXCEPT ![e] = owed[e] + 1]
        BY <2>1, OweOne
    <2>3. PICK a \in Nat : a = accepted[e] + 1
        BY <1>0
    <2>4. PICK o \in Nat : o = owed[e] + 1
        BY <1>0
    <2>5. accepted' = [accepted EXCEPT ![e] = a] /\ owed' = [owed EXCEPT ![e] = o]
        BY <2>1, <2>2, <2>3, <2>4
    <2>6. accepted[e] <= a /\ a = accepted[e] + 1 /\ o = owed[e] + 1 /\ answer = "fails"
        BY <1>0, <2>1, <2>3, <2>4
    <2> QED
        BY <2>5, <2>6
<1>2. CASE lost = 0 /\ reached /\ verdict[e] = "stores"
    <2>1. accepted' = [accepted EXCEPT ![e] = accepted[e] + 1] /\ UNCHANGED owed /\ answer = "stores"
        BY <1>2 DEF PostEvent
    <2>2. PICK a \in Nat : a = accepted[e] + 1
        BY <1>0
    <2>3. PICK o \in Nat : o = owed[e]
        BY <1>0
    <2>4. accepted' = [accepted EXCEPT ![e] = a]
        BY <2>1, <2>2
    <2>5. owed' = [owed EXCEPT ![e] = o]
        BY <1>0, <2>1, <2>3
    <2>6. accepted[e] <= a /\ a = accepted[e] + 1 /\ o = owed[e] /\ answer = "stores"
        BY <1>0, <2>1, <2>2, <2>3
    <2> QED
        BY <2>4, <2>5, <2>6
<1>3. CASE lost = 0 /\ ~(reached /\ verdict[e] = "stores")
    <2>1. UNCHANGED <<accepted, owed>>
        BY <1>3 DEF PostEvent
    <2>2. answer # "stores"
        <3>1. answer = IF reached THEN verdict[e] ELSE "fails"
            BY <1>3 DEF PostEvent
        <3> QED
            BY <1>3, <3>1
    <2>3. PICK a \in Nat : a = accepted[e]
        BY <1>0
    <2>4. PICK o \in Nat : o = owed[e]
        BY <1>0
    <2>5. accepted' = [accepted EXCEPT ![e] = a] /\ owed' = [owed EXCEPT ![e] = o]
        BY <1>0, <2>1, <2>3, <2>4
    <2>6. accepted[e] <= a
        BY <1>0, <2>3
    <2> QED
        BY <2>2, <2>3, <2>4, <2>5, <2>6
<1> QED
    BY <1>1, <1>2, <1>3

\* Post: a row is stored once for each claim, unless a fault is owed.
LEMMA PostStep ==
    ASSUME EventsInv, NEW r \in Replayers, Post(r)
    PROVE  EventsInv'
<1>0. /\ rep[r].event # NoEvent /\ rep[r].pc = "post"
      /\ UNCHANGED <<verdict, clientVars, file, names>>
    BY EventShapes DEF Post, AtWork, disk
<1>1. PICK e \in Named : e = rep[r].event
    BY <1>0, EventShapes
<1>2. PICK q \in Replayers : q # r
    BY OtherReplayer
<1>3. /\ e \in AuditEvents /\ file[e] \in Files /\ rep[r] \in Passes
      /\ accepted[e] \in Nat /\ owed[e] \in Nat /\ AtWork(rep[r]) /\ rep[r].fails < MaxFails
    BY <1>0, <1>1, <1>2, Before DEF AtWork
<1>4. file[e].at = "claimed" => file[e].by \in Replayers
    BY <1>2, Before
<1>5. PICK lost \in {0, 1}, answer \in Answers :
          PostEvent(e, up /\ ~Cancelled(r), answer, lost) /\ rep' = [rep EXCEPT ![r].pc = Outcome(answer)]
    BY <1>1 DEF Post, At
<1>6. PICK a \in Nat, o \in Nat :
          /\ accepted' = [accepted EXCEPT ![e] = a] /\ owed' = [owed EXCEPT ![e] = o]
          /\ accepted[e] <= a
          /\ \/ a = accepted[e] /\ o = owed[e] /\ answer # "stores"
             \/ a = accepted[e] + 1 /\ o = owed[e] + 1 /\ answer = "fails"
             \/ a = accepted[e] + 1 /\ o = owed[e] /\ answer = "stores"
    BY <1>3, <1>5, PostFacts
<1>7. PICK pc : pc = Outcome(answer)
    OBVIOUS
<1>8. /\ pc \in Places /\ pc \notin {"idle", "pass", "post", "defer"}
      /\ pc = "remove" <=> answer = "stores"
    BY <1>7 DEF Outcome, Answers, Places
<1>9. PICK p : p = Moved(rep[r], pc)
    OBVIOUS
<1>10. p \in Passes /\ p.pc = pc /\ p.event = e /\ p.todo = rep[r].todo /\ p.fails = rep[r].fails
    BY <1>1, <1>3, <1>8, <1>9, MoveFacts
<1>11. rep' = [rep EXCEPT ![r] = p]
    BY <1>5, <1>7, <1>9 DEF Moved
<1>12. a + Rows(file[e], r, p, q, rep[q], e) + owed[e]
           <= accepted[e] + Rows(file[e], r, rep[r], q, rep[q], e) + o
    <2>0. Rows(file[e], r, p, q, rep[q], e) \in Nat /\ Rows(file[e], r, rep[r], q, rep[q], e) \in Nat
        BY RowsNat
    <2>1. CASE answer = "stores"
        <3>1. Rows(file[e], r, p, q, rep[q], e) + 1 <= Rows(file[e], r, rep[r], q, rep[q], e)
            BY <1>0, <1>1, <1>2, <1>8, <1>10, <2>1 DEF Rows, FileRow, StaleRow
        <3> QED
            BY <1>3, <1>6, <2>0, <2>1, <3>1
    <2>2. CASE answer # "stores"
        <3>1. Rows(file[e], r, p, q, rep[q], e) <= Rows(file[e], r, rep[r], q, rep[q], e)
            BY <1>0, <1>1, <1>2, <1>8, <1>10, <2>2 DEF Rows, FileRow, StaleRow
        <3> QED
            BY <1>3, <1>6, <2>0, <2>2, <3>1
    <2> QED
        BY <2>1, <2>2
<1>13. file' = [file EXCEPT ![e] = file[e]]
    BY <1>0, <1>2, Before
<1>14. p.pc \notin {"idle", "pass"} /\ p.fails < MaxFails /\ (p.pc = "remove" => a > 0)
    BY <1>3, <1>6, <1>8, <1>10
<1>15. rep[r].event \in {e, NoEvent} /\ UNCHANGED <<verdict, clientVars, names>>
    BY <1>0, <1>1
<1>16. file[e] = file[e] \/ (file[e].at # "absent" /\ file[e].at # "absent")
    OBVIOUS
<1>17. file[e] \in Files
    BY <1>3
<1> QED
    BY <1>2, <1>4, <1>6, <1>10, <1>11, <1>12, <1>13, <1>14, <1>15, <1>16, <1>17, WorkStep

\* Reject: the claim becomes a rejection, or the rename fails.
LEMMA RejectStep ==
    ASSUME EventsInv, NEW r \in Replayers, Reject(r)
    PROVE  EventsInv'
<1>0. /\ rep[r].event # NoEvent /\ rep[r].pc = "reject"
      /\ UNCHANGED <<verdict, accepted, clientVars, names, owed>>
    BY EventShapes DEF Reject, AtWork
<1>1. PICK e \in Named : e = rep[r].event
    BY <1>0, EventShapes
<1>2. PICK q \in Replayers : q # r
    BY OtherReplayer
<1>3. /\ e \in AuditEvents /\ file[e] \in Files /\ rep[r] \in Passes
      /\ accepted[e] \in Nat /\ owed[e] \in Nat /\ AtWork(rep[r]) /\ rep[r].fails < MaxFails
    BY <1>0, <1>1, <1>2, Before DEF AtWork
<1>4. file[e].at = "claimed" => file[e].by \in Replayers
    BY <1>2, Before
<1>5. PICK pc \in {"stamp", "defer"}, f \in Files :
          /\ rep' = [rep EXCEPT ![r].pc = pc]
          /\ file' = [file EXCEPT ![e] = f]
          /\ \/ HasClaim(r, e) /\ \E aged \in BOOLEAN : f = File("rejected", "nobody", aged)
             \/ f = file[e]
    <2>1. CASE UNCHANGED file /\ At(r, "defer")
        <3>1. file' = [file EXCEPT ![e] = file[e]]
            BY <1>2, <2>1, Before
        <3> QED
            BY <1>3, <2>1, <3>1 DEF At
    <2>2. CASE /\ HasClaim(r, e) /\ At(r, "stamp")
               /\ \E aged \in BOOLEAN : file' = [file EXCEPT ![e] = File("rejected", "nobody", aged)]
        <3>1. PICK aged \in BOOLEAN : file' = [file EXCEPT ![e] = File("rejected", "nobody", aged)]
            BY <2>2
        <3>2. PICK f : f = File("rejected", "nobody", aged)
            OBVIOUS
        <3>3. file' = [file EXCEPT ![e] = f]
            BY <3>1, <3>2
        <3>4. f \in Files
            BY <3>2 DEF File, Files
        <3> QED
            BY <2>2, <3>2, <3>3, <3>4 DEF At
    <2> QED
        BY <1>1, <2>1, <2>2 DEF Reject
<1>6. /\ f \in Files /\ (f.at = "claimed" => f.by \in Replayers)
      /\ f = file[e] \/ (HasClaim(r, e) /\ f.at = "rejected")
    BY <1>3, <1>4, <1>5 DEF File, Files
<1>7. pc \in Places
    BY DEF Places
<1>8. PICK p : p = Moved(rep[r], pc)
    OBVIOUS
<1>9. p \in Passes /\ p.pc = pc /\ p.event = e /\ p.todo = rep[r].todo /\ p.fails = rep[r].fails
    BY <1>1, <1>3, <1>7, <1>8, MoveFacts
<1>10. rep' = [rep EXCEPT ![r] = p]
    BY <1>5, <1>8 DEF Moved
<1>11. Rows(f, r, p, q, rep[q], e) <= Rows(file[e], r, rep[r], q, rep[q], e)
    <2>1. CASE f = file[e]
        BY <1>0, <1>1, <1>2, <1>9, <2>1 DEF Rows, FileRow, StaleRow
    <2>2. CASE HasClaim(r, e) /\ f.at = "rejected"
        BY <1>0, <1>1, <1>2, <1>9, <2>2 DEF Rows, FileRow, StaleRow, HasClaim
    <2> QED
        BY <1>6, <2>1, <2>2
<1>12. accepted[e] + Rows(f, r, p, q, rep[q], e) + owed[e]
           <= accepted[e] + Rows(file[e], r, rep[r], q, rep[q], e) + owed[e]
    BY <1>3, <1>11, RowsNat
<1>13. accepted' = [accepted EXCEPT ![e] = accepted[e]] /\ owed' = [owed EXCEPT ![e] = owed[e]]
    BY <1>0, <1>2, Before
<1>14. /\ p.pc \notin {"idle", "pass"} /\ p.fails < MaxFails /\ (p.pc = "remove" => accepted[e] > 0)
       /\ accepted[e] <= accepted[e]
    BY <1>3, <1>9
<1>15. rep[r].event \in {e, NoEvent} /\ UNCHANGED <<verdict, clientVars, names>>
    BY <1>0, <1>1
<1>16. f = file[e] \/ (f.at # "absent" /\ file[e].at # "absent")
    BY <1>6 DEF HasClaim
<1>17. file' = [file EXCEPT ![e] = f]
    BY <1>5
<1>18. f \in Files /\ (f.at = "claimed" => f.by \in Replayers) /\ accepted[e] \in Nat /\ owed[e] \in Nat
    BY <1>3, <1>6
<1> QED
    BY <1>2, <1>9, <1>10, <1>12, <1>13, <1>14, <1>15, <1>16, <1>17, <1>18, WorkStep

\* PassBegins: what was abandoned is pending again, what is pending is listed.
LEMMA PassBeginsStep ==
    ASSUME EventsInv, NEW r \in Replayers, PassBegins(r)
    PROVE  EventsInv'
<1>0. /\ file \in [AuditEvents -> Files] /\ OnDisk \subseteq Named
      /\ rep[r].pc = "idle" /\ rep[r].event = NoEvent
    BY EventShapes DEF EventsInv, SpilledOnce, PassBegins, AtWork
<1>1. Pending \in Files /\ Pending.at = "pending"
    BY DEF Pending, File, Files
<1>2. file' \in [AuditEvents -> Files]
    BY <1>0, <1>1 DEF PassBegins, Reclaimed
<1>3. \A e \in AuditEvents :
          \/ file'[e] = file[e]
          \/ file[e].at = "claimed" /\ file[e].aged /\ file'[e].at = "pending"
          \/ file[e].at = "rejected" /\ file'[e].at = "deleted"
    BY <1>1 DEF PassBegins, Reclaimed
<1>4. PICK S : S = {e \in AuditEvents : file'[e].at = "pending"}
    OBVIOUS
<1>5. S \subseteq Named /\ S \subseteq AuditEvents
    BY <1>0, <1>3, <1>4 DEF OnDisk
<1>6. PICK p : p = [Idle EXCEPT !.pc = "pass", !.todo = S]
    OBVIOUS
<1>7. p = [pc |-> "pass", todo |-> S, event |-> NoEvent, fails |-> 0]
    BY <1>6 DEF Idle
<1>8. p \in Passes /\ p.pc = "pass" /\ p.event = NoEvent /\ p.todo = S /\ p.fails = 0
    BY <1>5, <1>7, EventsAssumption DEF Passes
<1>9. rep' = [rep EXCEPT ![r] = p]
    BY <1>4, <1>6 DEF PassBegins
<1>10. UNCHANGED <<verdict, accepted, clientVars, names, owed>>
    BY DEF PassBegins
<1>11. p.todo # {} => p.fails < MaxFails
    BY <1>8, EventsAssumption
<1>12. p.pc \in {"idle", "pass"} /\ p.todo \subseteq Named /\ rep[r].event = NoEvent
    BY <1>0, <1>5, <1>8
<1> QED
    BY <1>2, <1>3, <1>8, <1>9, <1>10, <1>11, <1>12, PassStep

\* The idle replayer is one of the records of a pass.
LEMMA IdleFacts == Idle \in Passes /\ Idle.pc = "idle" /\ Idle.event = NoEvent /\ Idle.todo = {} /\ Idle.fails = 0
BY EventsAssumption DEF Idle, Passes

\* PassEnds: the sweep deletes rejections that grew old.
LEMMA PassEndsStep ==
    ASSUME EventsInv, NEW r \in Replayers, PassEnds(r)
    PROVE  EventsInv'
<1>0. file \in [AuditEvents -> Files] /\ rep[r].pc = "pass" /\ rep[r].event = NoEvent
    BY EventShapes DEF PassEnds, AtWork
<1>1. PICK f : f = File("deleted", "nobody", FALSE)
    OBVIOUS
<1>2. f \in Files /\ f.at = "deleted"
    BY <1>1 DEF File, Files
<1>3. file' = [e \in AuditEvents |->
                 IF r = "gateway" /\ file[e].at = "rejected" /\ file[e].aged THEN f ELSE file[e]]
    BY <1>1 DEF PassEnds
<1>4. file' \in [AuditEvents -> Files]
    BY <1>0, <1>2, <1>3
<1>5. \A e \in AuditEvents :
          \/ file'[e] = file[e]
          \/ file[e].at = "claimed" /\ file[e].aged /\ file'[e].at = "pending"
          \/ file[e].at = "rejected" /\ file'[e].at = "deleted"
    BY <1>2, <1>3
<1>6. UNCHANGED <<verdict, accepted, clientVars, names, owed>> /\ rep' = [rep EXCEPT ![r] = Idle]
    BY DEF PassEnds
<1>7. /\ Idle.pc \in {"idle", "pass"} /\ Idle.event = NoEvent /\ Idle.todo \subseteq Named
      /\ (Idle.todo # {} => Idle.fails < MaxFails) /\ Idle \in Passes
    BY IdleFacts
<1> QED
    BY <1>0, <1>4, <1>5, <1>6, <1>7, PassStep

\* A file changes under the replayers: its count must still be right.
LEMMA FileStep ==
    ASSUME EventsInv, NEW r \in Replayers, NEW q \in Replayers, q # r, NEW e \in Named,
           UNCHANGED <<verdict, accepted, clientVars, names, rep>>,
           NEW f \in Files, file' = [file EXCEPT ![e] = f],
           f.at = "claimed" => f.by \in Replayers, f.at # "absent", file[e].at # "absent",
           NEW o \in Nat, owed' = [owed EXCEPT ![e] = o],
           Rows(f, r, rep[r], q, rep[q], e) + owed[e] <= Rows(file[e], r, rep[r], q, rep[q], e) + o
    PROVE  EventsInv'
<1>1. PICK a \in Nat : a = accepted[e]
    BY Before
<1>2. accepted' = [accepted EXCEPT ![e] = a] /\ rep' = [rep EXCEPT ![r] = rep[r]]
    BY <1>1, Before
<1>3. Rows(f, r, rep[r], q, rep[q], e) \in Nat
    BY RowsNat
<1>4. a + Rows(f, r, rep[r], q, rep[q], e) <= 1 + o
    <2>1. /\ owed[e] \in Nat /\ Rows(file[e], r, rep[r], q, rep[q], e) \in Nat
          /\ a + Rows(file[e], r, rep[r], q, rep[q], e) <= 1 + owed[e]
        BY <1>1, Before
    <2> QED
        BY <1>3, <2>1
<1>5. AtWork(rep[r]) /\ rep[r] \in Passes /\ rep[r].todo \subseteq Named
    BY Before
<1>6. accepted[e] <= a
    BY <1>1
<1>7. rep[r].pc \in {"idle", "pass"} <=> rep[r].event = NoEvent
    BY <1>5 DEF AtWork
<1>8. rep[r].event # NoEvent /\ rep[r].pc = "remove" => accepted'[rep[r].event] > 0
    BY <1>5 DEF AtWork
<1>9. rep[r].todo # {} \/ rep[r].event # NoEvent => rep[r].fails < MaxFails
    BY <1>5 DEF AtWork
<1>10. rep[r] = rep[r] \/ (rep[r].event \in {e, NoEvent} /\ rep[r].event \in {e, NoEvent})
    OBVIOUS
<1>11. f.at = "absent" /\ file[e].at # "absent" => a > 0
    OBVIOUS
<1>12. UNCHANGED <<verdict, clientVars, names>> /\ (f.at # "absent" => file[e].at # "absent")
    OBVIOUS
<1> QED
    BY <1>2, <1>3, <1>4, <1>5, <1>6, <1>7, <1>8, <1>9, <1>10, <1>11, <1>12, RepStep

\* events rm: a parked file.
LEMMA eventsRemoveStep ==
    ASSUME EventsInv, NEW e \in AuditEvents, eventsRemove(e)
    PROVE  EventsInv'
<1>1. file[e].at \in {"pending", "rejected"} /\ e \in Named
    BY DEF eventsRemove, EventsInv, SpilledOnce, OnDisk
<1>2. PICK r \in Replayers, q \in Replayers : q # r
    BY OtherReplayer DEF Replayers
<1>3. PICK f : f = File("deleted", "nobody", FALSE)
    OBVIOUS
<1>4. f \in Files /\ f.at = "deleted"
    BY <1>3 DEF File, Files
<1>5. file' = [file EXCEPT ![e] = f] /\ UNCHANGED <<verdict, accepted, clientVars, names, rep>>
    BY <1>3 DEF eventsRemove
<1>6. owed' = [owed EXCEPT ![e] = owed[e]] /\ owed[e] \in Nat
    BY <1>1, <1>2, Before DEF eventsRemove
<1>7. Rows(f, r, rep[r], q, rep[q], e) <= Rows(file[e], r, rep[r], q, rep[q], e)
    BY <1>1, <1>4 DEF Rows, FileRow, StaleRow
<1>8. Rows(f, r, rep[r], q, rep[q], e) + owed[e] <= Rows(file[e], r, rep[r], q, rep[q], e) + owed[e]
    BY <1>6, <1>7, RowsNat
<1>9. (f.at = "claimed" => f.by \in Replayers) /\ f.at # "absent" /\ file[e].at # "absent"
    BY <1>1, <1>4
<1> QED
    BY <1>1, <1>2, <1>4, <1>5, <1>6, <1>8, <1>9, FileStep

\* A claim or a rejection grows old; a claim whose holder is still at it is owed.
LEMMA AgesStep ==
    ASSUME EventsInv, NEW e \in AuditEvents, Ages(e)
    PROVE  EventsInv'
<1>1. file[e].at \in {"claimed", "rejected"} /\ e \in Named /\ file[e].aged = FALSE
    <2>1. file[e].aged \in BOOLEAN
        BY EventShapes DEF Files
    <2> QED
        BY <2>1 DEF Ages, EventsInv, SpilledOnce, OnDisk
<1>2. PICK r \in Replayers : file[e].at = "claimed" => file[e].by = r
    BY EventShapes DEF Replayers
<1>3. PICK q \in Replayers : q # r
    BY OtherReplayer
<1>4. file[e] \in Files /\ owed[e] \in Nat /\ file[e].at # "absent"
    BY <1>1, <1>3, Before
<1>5. PICK f : f = [file[e] EXCEPT !.aged = TRUE]
    OBVIOUS
<1>6. f \in Files /\ f.at = file[e].at /\ f.by = file[e].by /\ f.aged = TRUE
    BY <1>4, <1>5 DEF Files
<1>7. file' = [file EXCEPT ![e] = f] /\ UNCHANGED <<verdict, accepted, clientVars, names, rep>>
    BY <1>5 DEF Ages
<1>8. (f.at = "claimed" => f.by \in Replayers) /\ f.at # "absent"
    BY <1>2, <1>4, <1>6
<1>9. CASE UNCHANGED owed /\ (file[e].at = "rejected" \/ Abandoned(e))
    <2>1. Rows(f, r, rep[r], q, rep[q], e) <= Rows(file[e], r, rep[r], q, rep[q], e)
        <3>1. CASE file[e].at = "rejected"
            BY <1>6, <3>1 DEF Rows, FileRow, StaleRow
        <3>2. CASE file[e].at = "claimed" /\ rep[r].event # e
            BY <1>2, <1>3, <1>6, <3>2 DEF Rows, FileRow, StaleRow
        <3> QED
            BY <1>1, <1>2, <1>9, <3>1, <3>2 DEF Abandoned
    <2>2. Rows(f, r, rep[r], q, rep[q], e) + owed[e] <= Rows(file[e], r, rep[r], q, rep[q], e) + owed[e]
        BY <1>4, <2>1, RowsNat
    <2>3. owed' = [owed EXCEPT ![e] = owed[e]]
        BY <1>1, <1>3, <1>9, Before
    <2> QED
        BY <1>1, <1>3, <1>4, <1>6, <1>7, <1>8, <2>2, <2>3, FileStep
<1>10. CASE Owe({e}) /\ file[e].at = "claimed"
    <2>1. Rows(f, r, rep[r], q, rep[q], e) <= Rows(file[e], r, rep[r], q, rep[q], e) + 1
        BY <1>2, <1>3, <1>6, <1>10 DEF Rows, FileRow, StaleRow
    <2>2. PICK o \in Nat : o = owed[e] + 1
        BY <1>4
    <2>3. Rows(f, r, rep[r], q, rep[q], e) + owed[e] <= Rows(file[e], r, rep[r], q, rep[q], e) + o
        BY <1>4, <2>1, <2>2, RowsNat
    <2>4. owed' = [owed EXCEPT ![e] = o]
        <3>1. owed' = [owed EXCEPT ![e] = owed[e] + 1]
            BY <1>10, OweOne
        <3> QED
            BY <2>2, <3>1
    <2> QED
        BY <1>1, <1>3, <1>4, <1>6, <1>7, <1>8, <2>3, <2>4, FileStep
<1> QED
    BY <1>1, <1>9, <1>10 DEF Ages

\* A process killed between the POST and the removal may cost one row more.
LEMMA KilledRows ==
    ASSUME EventsInv, NEW r \in Replayers, NEW q \in Replayers, q # r, NEW d \in AuditEvents,
           UNCHANGED <<accepted, file>>, rep' = [rep EXCEPT ![r] = Idle], Owe(Unremoved(r))
    PROVE  /\ Rows(file'[d], r, rep'[r], q, rep'[q], d) \in Nat
           /\ accepted'[d] + FromMemory(d) + Rows(file'[d], r, rep'[r], q, rep'[q], d) <= 1 + owed'[d]
<1>1. rep'[r] = Idle /\ rep'[q] = rep[q]
    BY EventShapes
<1>2. Idle.pc = "idle" /\ Idle.event = NoEvent
    BY IdleFacts
<1>3. d # NoEvent
    BY EventsAssumption
<1>4. /\ Rows(file[d], r, rep[r], q, rep[q], d) \in Nat
      /\ accepted[d] + FromMemory(d) + Rows(file[d], r, rep[r], q, rep[q], d) <= 1 + owed[d]
    BY RowsOf
<1>5. accepted[d] \in Nat /\ owed[d] \in Nat /\ FromMemory(d) \in Nat
    BY EventShapes DEF FromMemory
<1>6. Rows(file[d], r, Idle, q, rep[q], d) \in Nat
    BY RowsNat
<1>7. CASE rep[r].pc = "remove" /\ rep[r].event = d
    <2>1. Rows(file[d], r, Idle, q, rep[q], d) <= Rows(file[d], r, rep[r], q, rep[q], d) + 1
        BY <1>2, <1>7 DEF Rows, FileRow, StaleRow
    <2>2. owed'[d] = owed[d] + 1
        BY <1>7 DEF Owe, Unremoved
    <2> QED
        BY <1>1, <1>4, <1>5, <1>6, <2>1, <2>2
<1>8. CASE ~(rep[r].pc = "remove" /\ rep[r].event = d)
    <2>1. Rows(file[d], r, Idle, q, rep[q], d) <= Rows(file[d], r, rep[r], q, rep[q], d)
        BY <1>2, <1>3, <1>8 DEF Rows, FileRow, StaleRow
    <2>2. owed'[d] = owed[d]
        BY <1>8 DEF Owe, Unremoved
    <2> QED
        BY <1>1, <1>4, <1>5, <1>6, <2>1, <2>2
<1> QED
    BY <1>7, <1>8

\* Owe keeps the counts numbers.
LEMMA OweNat ==
    ASSUME EventsInv, NEW S, Owe(S)
    PROVE  owed' \in [AuditEvents -> Nat]
BY DEF Owe, EventsInv, EventsTyped

\* After a kill the replayers are still in order.
LEMMA KilledReplayers ==
    ASSUME EventsInv, NEW r \in Replayers, rep' = [rep EXCEPT ![r] = Idle], UNCHANGED accepted
    PROVE  /\ rep' \in [Replayers -> Passes]
           /\ \A x \in Replayers : /\ rep'[x].todo \subseteq Named /\ rep'[x].event \in Named \cup {NoEvent}
                                   /\ AtWork(rep[x])'
<1>1. rep \in [Replayers -> Passes]
    BY EventShapes
<1>2. rep'[r] = Idle /\ \A x \in Replayers \ {r} : rep'[x] = rep[x]
    BY <1>1
<1>3. rep' \in [Replayers -> Passes]
    BY <1>1, IdleFacts
<1>4. ASSUME NEW x \in Replayers
      PROVE  rep'[x].todo \subseteq Named /\ rep'[x].event \in Named \cup {NoEvent} /\ AtWork(rep[x])'
    <2>1. CASE x = r
        BY <1>2, <2>1, IdleFacts DEF AtWork
    <2>2. CASE x # r
        <3>1. rep[x].todo \subseteq Named /\ rep[x].event \in Named \cup {NoEvent} /\ AtWork(rep[x])
            BY EventShapes
        <3> QED
            BY <1>2, <2>2, <3>1 DEF AtWork
    <2> QED
        BY <2>1, <2>2
<1> QED
    BY <1>3, <1>4

\* The command is killed.
LEMMA CommandKilledStep ==
    ASSUME EventsInv, CommandKilled
    PROVE  EventsInv'
<1>0. PICK r \in Replayers : r = "cli"
    BY DEF Replayers
<1>1. PICK q \in Replayers : q # r
    BY OtherReplayer
<1>2. /\ UNCHANGED <<verdict, accepted, clientVars, file, names>>
      /\ rep' = [rep EXCEPT ![r] = Idle] /\ Owe(Unremoved(r))
    BY <1>0 DEF CommandKilled, disk
<1>3. owed' \in [AuditEvents -> Nat]
    BY <1>2, OweNat
<1>4. /\ rep' \in [Replayers -> Passes]
      /\ \A x \in Replayers : /\ rep'[x].todo \subseteq Named /\ rep'[x].event \in Named \cup {NoEvent}
                              /\ AtWork(rep[x])'
    BY <1>2, KilledReplayers
<1>5. /\ file \in [AuditEvents -> Files] /\ accepted \in [AuditEvents -> Nat]
      /\ \A e \in AuditEvents : file[e].at = "claimed" => file[e].by \in Replayers
    BY EventShapes DEF EventsInv, EventsTyped
<1>6. RowsOwed'
    <2>1. \A d : FromMemory(d)' = FromMemory(d)
        BY <1>2 DEF FromMemory, InFlight, Held, clientVars
    <2>2. \A d \in AuditEvents :
              /\ Rows(file'[d], r, rep'[r], q, rep'[q], d) \in Nat
              /\ accepted'[d] + FromMemory(d)' + Rows(file'[d], r, rep'[r], q, rep'[q], d) <= 1 + owed'[d]
        BY <1>1, <1>2, <2>1, KilledRows
    <2>3. \A d \in AuditEvents : accepted'[d] \in Nat /\ owed'[d] \in Nat
        BY <1>2, <1>3, <1>5
    <2>4. \A e \in AuditEvents : file'[e].at = "claimed" => file'[e].by \in Replayers
        BY <1>2, <1>5
    <2> QED
        BY <1>1, <2>2, <2>3, <2>4, RowsOwedNext
<1>7. file' \in [AuditEvents -> Files] /\ accepted' \in [AuditEvents -> Nat]
    BY <1>2, <1>5
<1>8. UNCHANGED <<verdict, clientVars, names>>
    BY <1>2
<1>9. \A e \in AuditEvents :
          /\ file'[e].at = "claimed" => file'[e].by \in Replayers
          /\ file'[e].at # "absent" => file[e].at # "absent"
          /\ file'[e].at = "absent" /\ file[e].at # "absent" => accepted'[e] > 0
          /\ accepted[e] <= accepted'[e] /\ (e \notin Named => accepted'[e] = accepted[e])
    BY <1>2, <1>5
<1> QED
    BY <1>3, <1>4, <1>6, <1>7, <1>8, <1>9, DiskStep

\* A step of a replayer.
LEMMA ReplayStepInv ==
    ASSUME EventsInv, NEW r \in Replayers, ReplayStep(r)
    PROVE  EventsInv'
BY PassBeginsStep, PassEndsStep, ClaimStep, DeferStep, PostStep, RemoveStep, UnclaimStep, RejectStep,
   StampStep DEF ReplayStep

-----------------------------------------------------------------------------
(* The client.                                                             *)

\* A step of the client that stores and files nothing.
LEMMA ClientStep ==
    ASSUME EventsInv, UNCHANGED <<verdict, accepted, file, names, rep, owed>>,
           send' \in [AuditEvents -> {"new", "checked", "done"}],
           buffer' \subseteq AuditEvents, IsFiniteSet(buffer'), Cardinality(buffer') <= BufferSize,
           hand' \in [Senders -> [event : AuditEvents \cup {NoEvent}, failed : 0..Retries]],
           dropped' \subseteq AuditEvents, \A e \in dropped' : send'[e] = "done",
           \A e \in AuditEvents :
               send'[e] # "done" \/ e \in dropped' => e \notin InFlight' \cup Named /\ accepted[e] = 0,
           \A e \in InFlight' : e \in InFlight \/ send[e] # "done",
           \A e \in buffer' : e \notin Held' /\ accepted[e] = 0,
           \A s, t \in Senders :
               s # t /\ hand'[s].event # NoEvent => hand'[s].event # hand'[t].event,
           ClosedInOrder', NoSilentLoss'
    PROVE  EventsInv'
<1>1. Named' = Named /\ OnDisk' = OnDisk
    BY DEF Named, OnDisk
<1>2. InFlight' \subseteq AuditEvents
    BY DEF InFlight, Held
<1>3. TypeOK'
    BY DEF EventsInv, TypeOK
<1>4. EventsTyped'
    BY DEF EventsInv, EventsTyped
<1>5. InFlight' \cap Named = {} /\ \A e \in InFlight' : accepted[e] = 0 \/ e \in InFlight
    BY <1>2 DEF EventsInv, SpilledOnce
<1>6. SpilledOnce'
    BY <1>1, <1>5 DEF EventsInv, SpilledOnce
<1>7. OneFate'
    <2>1. OnDisk \subseteq Named
        BY DEF EventsInv, SpilledOnce
    <2>2. \A e \in dropped' : e \notin InFlight' \cup OnDisk' /\ accepted'[e] = 0
        BY <1>1, <2>1
    <2>3. InFlight' \cap OnDisk' = {} /\ buffer' \cap Held' = {}
        BY <1>1, <1>5, <2>1
    <2> QED
        BY <2>2, <2>3 DEF OneFate
<1>8. RowsOwed'
    <2>1. PICK r \in Replayers, q \in Replayers : q # r
        BY OtherReplayer DEF Replayers
    <2>2. ASSUME NEW d \in AuditEvents
          PROVE  /\ Rows(file'[d], r, rep'[r], q, rep'[q], d) \in Nat
                 /\ accepted'[d] + FromMemory(d)' + Rows(file'[d], r, rep'[r], q, rep'[q], d) <= 1 + owed'[d]
        <3>1. /\ Rows(file[d], r, rep[r], q, rep[q], d) \in Nat
              /\ accepted[d] + FromMemory(d) + Rows(file[d], r, rep[r], q, rep[q], d) <= 1 + owed[d]
              /\ d \notin Named => Rows(file[d], r, rep[r], q, rep[q], d) = 0
            BY <2>1, RowsOf
        <3>2. accepted[d] \in Nat /\ owed[d] \in Nat
            BY EventShapes
        <3>3. CASE d \in InFlight' /\ d \notin InFlight
            <4>1. accepted[d] = 0 /\ d \notin Named
                BY <1>5, <3>3
            <4>2. FromMemory(d)' = 1
                BY <3>3 DEF FromMemory
            <4> QED
                BY <3>1, <3>2, <4>1, <4>2
        <3>4. CASE d \notin InFlight' \/ d \in InFlight
            <4>1. FromMemory(d)' <= FromMemory(d) /\ FromMemory(d)' \in Nat /\ FromMemory(d) \in Nat
                BY <3>4 DEF FromMemory
            <4> QED
                BY <3>1, <3>2, <4>1
        <3> QED
            BY <3>3, <3>4
    <2>3. \A d \in AuditEvents : accepted'[d] \in Nat /\ owed'[d] \in Nat
        BY EventShapes
    <2>4. \A e \in AuditEvents : file'[e].at = "claimed" => file'[e].by \in Replayers
        BY EventShapes
    <2> QED
        BY <2>1, <2>2, <2>3, <2>4, RowsOwedNext
<1>9. \A r \in Replayers : AtWork(rep[r])'
    BY EventShapes DEF AtWork
<1> QED
    BY <1>3, <1>4, <1>6, <1>7, <1>8, <1>9 DEF EventsInv

\* A step that moves no event at all.
LEMMA QuietStep ==
    ASSUME EventsInv, ClosedInOrder',
           UNCHANGED <<verdict, accepted, send, buffer, hand, dropped, unspilled, gone, late, file, names, rep, owed>>
    PROVE  EventsInv'
<1>1. InFlight' = InFlight /\ Named' = Named /\ OnDisk' = OnDisk /\ Held' = Held
    BY DEF InFlight, Held, Named, OnDisk
<1>2. TypeOK'
    BY DEF EventsInv, TypeOK
<1>3. EventsTyped'
    BY DEF EventsInv, EventsTyped
<1>4. SpilledOnce'
    BY <1>1 DEF EventsInv, SpilledOnce
<1>5. NoSilentLoss' /\ OneFate'
    BY <1>1 DEF EventsInv, NoSilentLoss, OneFate
<1>6. RowsOwed'
    BY <1>1 DEF EventsInv, RowsOwed, FromMemory, FromFile, FromStale, HasClaim
<1>7. \A r \in Replayers : AtWork(rep[r])'
    BY EventShapes DEF AtWork
<1> QED
    BY <1>2, <1>3, <1>4, <1>5, <1>6, <1>7 DEF EventsInv

\* Where the events are, from the invariant.
LEMMA Whereabouts ==
    ASSUME EventsInv
    PROVE  /\ \A e \in AuditEvents : send[e] # "done" \/ e \in dropped =>
                  e \notin InFlight /\ e \notin Named /\ accepted[e] = 0
           /\ \A e \in dropped : e \in AuditEvents /\ send[e] = "done"
           /\ \A e \in buffer : e \in AuditEvents /\ e \notin Held /\ accepted[e] = 0 /\ send[e] = "done" /\ e \notin Named
           /\ \A e \in Held : e \in AuditEvents /\ send[e] = "done" /\ e \notin Named /\ e \notin dropped
           /\ InFlight = buffer \cup Held
           /\ \A s, t \in Senders : s # t /\ hand[s].event # NoEvent => hand[s].event # hand[t].event
<1>1. InFlight \subseteq AuditEvents
    BY EventShapes
<1>2. InFlight = buffer \cup Held
    BY DEF InFlight
<1>3. \A e \in AuditEvents : send[e] # "done" \/ e \in dropped => e \notin InFlight \cup Named /\ accepted[e] = 0
    BY DEF EventsInv, SpilledOnce
<1>4. (\A e \in dropped : send[e] = "done") /\ (\A e \in buffer : accepted[e] = 0) /\ InFlight \cap Named = {}
    BY DEF EventsInv, SpilledOnce
<1>5. dropped \subseteq AuditEvents
    BY DEF EventsInv, EventsTyped
<1>6. buffer \cap Held = {}
    BY DEF EventsInv, OneFate
<1>7. \A s, t \in Senders : s # t /\ hand[s].event # NoEvent => hand[s].event # hand[t].event
    BY DEF EventsInv, OneFate
<1>8. \A e \in InFlight : e \in AuditEvents /\ send[e] = "done" /\ e \notin Named /\ e \notin dropped
    BY <1>1, <1>3, <1>4
<1> QED
    BY <1>2, <1>3, <1>4, <1>5, <1>6, <1>7, <1>8

\* Send finds the client closed, or not.
LEMMA SendCheckStep ==
    ASSUME EventsInv, NEW e \in AuditEvents, SendCheck(e)
    PROVE  EventsInv'
<1>0. /\ UNCHANGED <<verdict, accepted, file, names, rep, owed>>
      /\ UNCHANGED <<buffer, hand, running, closer, unspilled, gone, late>>
    BY DEF SendCheck, disk
<1>1. /\ send \in [AuditEvents -> {"new", "checked", "done"}] /\ dropped \subseteq AuditEvents
      /\ buffer \subseteq AuditEvents /\ IsFiniteSet(buffer) /\ Cardinality(buffer) <= BufferSize
      /\ hand \in [Senders -> [event : AuditEvents \cup {NoEvent}, failed : 0..Retries]]
    BY DEF EventsInv, EventsTyped, TypeOK
<1>2. send[e] = "new" /\ e \notin InFlight /\ e \notin Named /\ accepted[e] = 0
    BY Whereabouts DEF SendCheck
<1>3. PICK w \in {"checked", "done"} :
          /\ send' = [send EXCEPT ![e] = w]
          /\ \/ w = "done" /\ dropped' = dropped \cup {e}
             \/ w = "checked" /\ dropped' = dropped
    <2>1. CASE Closed
        <3>1. send' = [send EXCEPT ![e] = "done"] /\ dropped' = dropped \cup {e}
            BY <2>1 DEF SendCheck
        <3> QED
            BY <3>1
    <2>2. CASE ~Closed
        <3>1. send' = [send EXCEPT ![e] = "checked"] /\ dropped' = dropped
            BY <2>2 DEF SendCheck
        <3> QED
            BY <3>1
    <2> QED
        BY <2>1, <2>2
<1>4. send' \in [AuditEvents -> {"new", "checked", "done"}] /\ dropped' \subseteq AuditEvents
    BY <1>1, <1>3
<1>5. send'[e] = w /\ \A d \in AuditEvents \ {e} : send'[d] = send[d]
    BY <1>1, <1>3
<1>6. \A d \in dropped' : send'[d] = "done"
    BY <1>1, <1>2, <1>3, <1>5, Whereabouts
<1>7. InFlight' = InFlight /\ Held' = Held
    BY <1>0 DEF InFlight, Held
<1>8. \A d \in AuditEvents : send'[d] # "done" \/ d \in dropped' => d \notin InFlight' \cup Named /\ accepted[d] = 0
    BY <1>2, <1>3, <1>5, <1>7, Whereabouts
<1>9. \A d \in InFlight' : d \in InFlight \/ send[d] # "done"
    BY <1>7
<1>10. \A d \in buffer' : d \notin Held' /\ accepted[d] = 0
    BY <1>0, <1>7, Whereabouts
<1>11. \A s, t \in Senders : s # t /\ hand'[s].event # NoEvent => hand'[s].event # hand'[t].event
    BY <1>0, Whereabouts
<1>12. ClosedInOrder'
    BY <1>0 DEF EventsInv, ClosedInOrder
<1>13. NoSilentLoss'
    <2>1. OnDisk' = OnDisk
        BY <1>0 DEF OnDisk
    <2>2. \A d \in AuditEvents : send'[d] = "done" => d \in dropped' \/ send[d] = "done"
        <3>1. send'[e] = "done" => e \in dropped'
            BY <1>3, <1>5
        <3> QED
            BY <1>5, <3>1
    <2>3. dropped \subseteq dropped'
        BY <1>3
    <2> QED
        BY <1>0, <1>7, <2>1, <2>2, <2>3 DEF EventsInv, NoSilentLoss
<1>14. /\ buffer' \subseteq AuditEvents /\ IsFiniteSet(buffer') /\ Cardinality(buffer') <= BufferSize
       /\ hand' \in [Senders -> [event : AuditEvents \cup {NoEvent}, failed : 0..Retries]]
    BY <1>0, <1>1
<1> QED
    BY <1>0, <1>4, <1>6, <1>8, <1>9, <1>10, <1>11, <1>12, <1>13, <1>14, ClientStep

\* Send puts the event into the buffer, or drops it.
LEMMA SendPutStep ==
    ASSUME EventsInv, NEW e \in AuditEvents, SendPut(e)
    PROVE  EventsInv'
<1>0. /\ UNCHANGED <<verdict, accepted, file, names, rep, owed>>
      /\ UNCHANGED <<hand, running, closer, unspilled, gone>>
    BY DEF SendPut, disk
<1>1. /\ send \in [AuditEvents -> {"new", "checked", "done"}] /\ dropped \subseteq AuditEvents
      /\ buffer \subseteq AuditEvents /\ IsFiniteSet(buffer) /\ Cardinality(buffer) <= BufferSize
      /\ hand \in [Senders -> [event : AuditEvents \cup {NoEvent}, failed : 0..Retries]]
    BY DEF EventsInv, EventsTyped, TypeOK
<1>2. send[e] = "checked" /\ e \notin InFlight /\ e \notin Named /\ accepted[e] = 0
    BY Whereabouts DEF SendPut
<1>3. send' = [send EXCEPT ![e] = "done"]
    BY DEF SendPut
<1>4. \/ /\ buffer' = buffer \cup {e} /\ Cardinality(buffer) < BufferSize /\ dropped' = dropped
         /\ late' = IF closer = "returned" THEN late \cup {e} ELSE late
      \/ buffer' = buffer /\ dropped' = dropped \cup {e} /\ late' = late
    BY DEF SendPut
<1>5. send' \in [AuditEvents -> {"new", "checked", "done"}] /\ dropped' \subseteq AuditEvents /\ buffer' \subseteq AuditEvents
    BY <1>1, <1>3, <1>4
<1>6. send'[e] = "done" /\ \A d \in AuditEvents \ {e} : send'[d] = send[d]
    BY <1>1, <1>3
<1>7. IsFiniteSet(buffer') /\ Cardinality(buffer') <= BufferSize
    <2>1. IsFiniteSet(buffer \cup {e}) /\ Cardinality(buffer \cup {e}) \in {Cardinality(buffer), Cardinality(buffer) + 1}
        BY <1>1, FS_AddElement
    <2>2. PICK n \in Nat : n = Cardinality(buffer)
        BY <1>1, FS_CardinalityType
    <2>3. PICK m : m = Cardinality(buffer \cup {e})
        OBVIOUS
    <2>4. n < BufferSize => m <= BufferSize
        BY <2>1, <2>2, <2>3, EventsAssumption
    <2>5. CASE buffer' = buffer \cup {e} /\ Cardinality(buffer) < BufferSize
        BY <2>1, <2>2, <2>3, <2>4, <2>5
    <2>6. CASE buffer' = buffer
        BY <1>1, <2>6
    <2> QED
        BY <1>4, <2>5, <2>6
<1>8. Held' = Held /\ InFlight' = buffer' \cup Held
    BY <1>0 DEF InFlight, Held
<1>9. \A d \in dropped' : send'[d] = "done"
    BY <1>1, <1>4, <1>5, <1>6, Whereabouts
<1>10. \A d \in AuditEvents : send'[d] # "done" \/ d \in dropped' => d \notin InFlight' \cup Named /\ accepted[d] = 0
    BY <1>2, <1>4, <1>6, <1>8, Whereabouts
<1>11. \A d \in InFlight' : d \in InFlight \/ send[d] # "done"
    BY <1>2, <1>4, <1>8, Whereabouts
<1>12. \A d \in buffer' : d \notin Held' /\ accepted[d] = 0
    BY <1>2, <1>4, <1>8, Whereabouts
<1>13. \A s, t \in Senders : s # t /\ hand'[s].event # NoEvent => hand'[s].event # hand'[t].event
    BY <1>0, Whereabouts
<1>14. ClosedInOrder'
    BY <1>0, <1>4 DEF EventsInv, ClosedInOrder
<1>15. NoSilentLoss'
    <2>1. OnDisk' = OnDisk
        BY <1>0 DEF OnDisk
    <2>2. \A d \in AuditEvents : send'[d] = "done" => d \in buffer' \cup dropped' \/ send[d] = "done"
        BY <1>4, <1>6
    <2>3. dropped \subseteq dropped' /\ buffer \subseteq buffer' /\ late \subseteq late'
        BY <1>4
    <2>4. InFlight \subseteq InFlight' /\ buffer' \subseteq InFlight'
        BY <1>8, <2>3, Whereabouts
    <2> QED
        BY <1>0, <2>1, <2>2, <2>3, <2>4 DEF EventsInv, NoSilentLoss
<1>16. hand' \in [Senders -> [event : AuditEvents \cup {NoEvent}, failed : 0..Retries]]
    BY <1>0, <1>1
<1> QED
    BY <1>0, <1>5, <1>7, <1>9, <1>10, <1>11, <1>12, <1>13, <1>14, <1>15, <1>16, ClientStep

\* A sender takes an event from the buffer.
LEMMA TakeStep ==
    ASSUME EventsInv, NEW s \in Senders, NEW e \in AuditEvents, Take(s, e)
    PROVE  EventsInv'
<1>0. /\ UNCHANGED <<verdict, accepted, file, names, rep, owed>>
      /\ UNCHANGED <<send, running, closer, dropped, unspilled, gone, late>>
    BY DEF Take, disk
<1>1. /\ send \in [AuditEvents -> {"new", "checked", "done"}] /\ dropped \subseteq AuditEvents
      /\ buffer \subseteq AuditEvents /\ IsFiniteSet(buffer) /\ Cardinality(buffer) <= BufferSize
      /\ hand \in [Senders -> [event : AuditEvents \cup {NoEvent}, failed : 0..Retries]]
    BY DEF EventsInv, EventsTyped, TypeOK
<1>2. /\ s \in running /\ hand[s].event = NoEvent /\ e \in buffer /\ buffer' = buffer \ {e}
      /\ hand' = [hand EXCEPT ![s].event = e]
    BY DEF Take, Empty
<1>3. hand'[s].event = e /\ \A t \in Senders \ {s} : hand'[t] = hand[t]
    BY <1>1, <1>2
<1>4. hand' \in [Senders -> [event : AuditEvents \cup {NoEvent}, failed : 0..Retries]]
    BY <1>1, <1>2
<1>5. Held' = Held \cup {e}
    BY <1>2, <1>3, EventsAssumption DEF Held
<1>6. InFlight' = InFlight
    BY <1>2, <1>5 DEF InFlight
<1>7. buffer' \subseteq AuditEvents /\ IsFiniteSet(buffer') /\ Cardinality(buffer') <= BufferSize
    <2>1. IsFiniteSet(buffer') /\ Cardinality(buffer') <= Cardinality(buffer)
        BY <1>1, <1>2, FS_Subset
    <2>2. Cardinality(buffer') \in Nat /\ Cardinality(buffer) \in Nat
        BY <1>1, <2>1, FS_CardinalityType
    <2> QED
        BY <1>1, <1>2, <2>1, <2>2, EventsAssumption
<1>8. \A d \in AuditEvents : send'[d] # "done" \/ d \in dropped' => d \notin InFlight' \cup Named /\ accepted[d] = 0
    BY <1>0, <1>6, Whereabouts
<1>9. \A d \in buffer' : d \notin Held' /\ accepted[d] = 0
    BY <1>2, <1>5, Whereabouts
<1>10. \A t, u \in Senders : t # u /\ hand'[t].event # NoEvent => hand'[t].event # hand'[u].event
    <2>1. \A t \in Senders : hand[t].event # e
        BY <1>2, Whereabouts, EventsAssumption DEF Held
    <2> QED
        BY <1>3, <2>1, Whereabouts
<1>11. ClosedInOrder'
    <2>1. \A t \in Senders : t \notin running => hand'[t] = Empty
        BY <1>2, <1>3 DEF EventsInv, ClosedInOrder
    <2>2. closer # "returned" /\ closer # "draining"
        BY <1>2 DEF EventsInv, ClosedInOrder
    <2> QED
        BY <1>0, <2>1, <2>2 DEF ClosedInOrder
<1>12. NoSilentLoss'
    BY <1>0, <1>6 DEF EventsInv, NoSilentLoss, OnDisk
<1>13. \A d \in dropped' : send'[d] = "done"
    BY <1>0, Whereabouts
<1>14. send' \in [AuditEvents -> {"new", "checked", "done"}] /\ dropped' \subseteq AuditEvents
    BY <1>0, <1>1
<1>15. \A d \in InFlight' : d \in InFlight \/ send[d] # "done"
    BY <1>6
<1> QED
    BY <1>0, <1>4, <1>7, <1>8, <1>9, <1>10, <1>11, <1>12, <1>13, <1>14, <1>15, ClientStep

\* Close drops what raced in behind the senders.
LEMMA DrainOneStep ==
    ASSUME EventsInv, DrainOne
    PROVE  EventsInv'
<1>0. /\ UNCHANGED <<verdict, accepted, file, names, rep, owed>>
      /\ UNCHANGED <<send, hand, running, unspilled, gone, late>> /\ closer = "draining"
    BY DEF DrainOne, disk
<1>1. /\ send \in [AuditEvents -> {"new", "checked", "done"}] /\ dropped \subseteq AuditEvents
      /\ buffer \subseteq AuditEvents /\ IsFiniteSet(buffer) /\ Cardinality(buffer) <= BufferSize
      /\ hand \in [Senders -> [event : AuditEvents \cup {NoEvent}, failed : 0..Retries]]
    BY DEF EventsInv, EventsTyped, TypeOK
<1>2. /\ buffer' \subseteq buffer /\ dropped' = dropped \cup (buffer \ buffer')
      /\ closer' = closer \/ (closer' = "returned" /\ buffer' = {})
    BY DEF DrainOne
<1>3. IsFiniteSet(buffer') /\ Cardinality(buffer') <= BufferSize
    <2>1. IsFiniteSet(buffer') /\ Cardinality(buffer') <= Cardinality(buffer)
        BY <1>1, <1>2, FS_Subset
    <2>2. Cardinality(buffer') \in Nat /\ Cardinality(buffer) \in Nat
        BY <1>1, <2>1, FS_CardinalityType
    <2> QED
        BY <1>1, <2>1, <2>2, EventsAssumption
<1>4. Held' = Held /\ InFlight' = buffer' \cup Held
    BY <1>0 DEF InFlight, Held
<1>5. dropped' \subseteq AuditEvents /\ buffer' \subseteq AuditEvents /\ \A d \in dropped' : send'[d] = "done"
    BY <1>0, <1>1, <1>2, Whereabouts
<1>6. \A d \in AuditEvents : send'[d] # "done" \/ d \in dropped' => d \notin InFlight' \cup Named /\ accepted[d] = 0
    BY <1>0, <1>2, <1>4, Whereabouts
<1>7. \A d \in InFlight' : d \in InFlight \/ send[d] # "done"
    BY <1>2, <1>4, Whereabouts
<1>8. \A d \in buffer' : d \notin Held' /\ accepted[d] = 0
    BY <1>2, <1>4, Whereabouts
<1>9. \A s, t \in Senders : s # t /\ hand'[s].event # NoEvent => hand'[s].event # hand'[t].event
    BY <1>0, Whereabouts
<1>10. ClosedInOrder'
    BY <1>0, <1>2 DEF EventsInv, ClosedInOrder
<1>11. NoSilentLoss'
    <2>1. InFlight \subseteq InFlight' \cup dropped' /\ dropped \subseteq dropped' /\ OnDisk' = OnDisk
        BY <1>0, <1>2, <1>4, Whereabouts DEF OnDisk
    <2> QED
        BY <1>0, <2>1 DEF EventsInv, NoSilentLoss
<1>12. /\ send' \in [AuditEvents -> {"new", "checked", "done"}]
       /\ hand' \in [Senders -> [event : AuditEvents \cup {NoEvent}, failed : 0..Retries]]
    BY <1>0, <1>1
<1> QED
    BY <1>0, <1>3, <1>5, <1>6, <1>7, <1>8, <1>9, <1>10, <1>11, <1>12, ClientStep

\* A sender returns, shutdown goes on, logservice goes or comes back: no event moves.
LEMMA QuietSteps ==
    ASSUME EventsInv,
           \/ Outage \/ Recover \/ StopReplayer \/ Deadline \/ CloseBegins \/ SendersDone
           \/ \E s \in Senders : SenderReturns(s)
    PROVE  EventsInv'
<1>1. UNCHANGED <<verdict, accepted, send, buffer, hand, dropped, unspilled, gone, late, file, names, rep, owed>>
    BY DEF Outage, Recover, StopReplayer, Deadline, CloseBegins, SendersDone, SenderReturns, clientVars, disk
<1>2. ClosedInOrder'
    <2>0. ClosedInOrder
        BY DEF EventsInv
    <2>1. CASE Outage \/ Recover \/ Deadline
        BY <1>1, <2>0, <2>1 DEF ClosedInOrder, Outage, Recover, Deadline, clientVars
    <2>2. CASE StopReplayer \/ CloseBegins \/ SendersDone
        BY <1>1, <2>0, <2>2 DEF ClosedInOrder, StopReplayer, CloseBegins, SendersDone
    <2>3. CASE \E s \in Senders : SenderReturns(s)
        BY <1>1, <2>0, <2>3 DEF ClosedInOrder, SenderReturns
    <2> QED
        BY <2>1, <2>2, <2>3
<1> QED
    BY <1>1, <1>2, QuietStep

\* What a sender has in hand was neither spilled nor counted as lost.
LEMMA InHand ==
    ASSUME EventsInv, NEW s \in Senders, hand[s].event # NoEvent
    PROVE  /\ hand[s].event \in Held /\ hand[s].event \in AuditEvents /\ hand[s].event \in InFlight
           /\ hand[s].event \notin Named /\ hand[s].event \notin dropped /\ hand[s].event \notin buffer
           /\ send[hand[s].event] = "done" /\ accepted[hand[s].event] <= owed[hand[s].event]
<1>1. PICK e : e = hand[s].event
    OBVIOUS
<1>2. e \in Held
    BY <1>1 DEF Held
<1>3. /\ e \in AuditEvents /\ e \in InFlight /\ e \notin Named /\ e \notin dropped /\ e \notin buffer
      /\ send[e] = "done"
    BY <1>2, Whereabouts
<1>4. accepted[e] <= owed[e]
    <2>1. PICK r \in Replayers, q \in Replayers : q # r
        BY OtherReplayer DEF Replayers
    <2>2. Rows(file[e], r, rep[r], q, rep[q], e) = 0 /\ accepted[e] + FromMemory(e) + 0 <= 1 + owed[e]
        BY <1>3, <2>1, RowsOf
    <2>3. FromMemory(e) = 1
        BY <1>3 DEF FromMemory
    <2>4. accepted[e] \in Nat /\ owed[e] \in Nat
        BY <1>3, EventShapes
    <2> QED
        BY <2>2, <2>3, <2>4
<1> QED
    BY <1>1, <1>2, <1>3, <1>4

\* One round of deliver, whatever it comes to: the event stays in hand, is stored, is
\* counted as lost, or is spilled under a new name.
LEMMA RoundStep ==
    ASSUME EventsInv, NEW s \in Senders, s \in running, NEW e, e = hand[s].event, e # NoEvent,
           UNCHANGED <<verdict, send, buffer, running, closer, dropped, gone, late, rep>>,
           NEW a \in Nat, accepted' = [accepted EXCEPT ![e] = a], accepted[e] <= a,
           NEW o \in Nat, owed' = [owed EXCEPT ![e] = o],
           NEW h \in [event : AuditEvents \cup {NoEvent}, failed : 0..Retries],
           hand' = [hand EXCEPT ![s] = h], h.event \in {e, NoEvent},
           unspilled \subseteq unspilled', h.event = NoEvent => e \in OnDisk' \cup unspilled' \/ a > 0,
           \/ UNCHANGED <<file, names>>
           \/ h.event = NoEvent /\ file' = [file EXCEPT ![e] = Pending] /\ names' = Append(names, e),
           a <= o \/ (a <= 1 + o /\ h.event = NoEvent /\ UNCHANGED <<file, names>>)
    PROVE  EventsInv'
<1>1. /\ e \in Held /\ e \in AuditEvents /\ e \in InFlight /\ e \notin Named /\ e \notin dropped
      /\ e \notin buffer /\ send[e] = "done"
    BY InHand
<1>2. /\ accepted \in [AuditEvents -> Nat] /\ owed \in [AuditEvents -> Nat] /\ names \in Seq(AuditEvents)
      /\ hand \in [Senders -> [event : AuditEvents \cup {NoEvent}, failed : 0..Retries]]
      /\ file \in [AuditEvents -> Files]
    BY DEF EventsInv, EventsTyped, TypeOK
<1>3. /\ hand'[s] = h /\ \A t \in Senders \ {s} : hand'[t] = hand[t]
    BY <1>2
<1>4. /\ accepted'[e] = a /\ owed'[e] = o
      /\ \A d \in AuditEvents \ {e} : accepted'[d] = accepted[d] /\ owed'[d] = owed[d]
    BY <1>1, <1>2
<1>5. \A t \in Senders \ {s} : hand[t].event # e
    BY Whereabouts
<1>6. Held' = IF h.event = NoEvent THEN Held \ {e} ELSE Held
    BY <1>1, <1>3, <1>5 DEF Held
<1>7. InFlight' = IF h.event = NoEvent THEN InFlight \ {e} ELSE InFlight
    BY <1>1, <1>6 DEF InFlight
<1>8. Pending \in Files /\ Pending.at = "pending"
    BY DEF Pending, File, Files
<1>9. \/ Named' = Named /\ OnDisk' = OnDisk /\ UNCHANGED <<file, names>>
      \/ /\ h.event = NoEvent /\ file'[e] = Pending /\ \A d \in AuditEvents \ {e} : file'[d] = file[d]
         /\ Named' = Named \cup {e} /\ OnDisk' = OnDisk \cup {e} /\ names' = Append(names, e)
    <2>1. CASE UNCHANGED <<file, names>>
        BY <2>1 DEF Named, OnDisk
    <2>2. CASE h.event = NoEvent /\ file' = [file EXCEPT ![e] = Pending] /\ names' = Append(names, e)
        <3>1. file'[e] = Pending /\ \A d \in AuditEvents \ {e} : file'[d] = file[d]
            BY <1>1, <1>2, <2>2
        <3>2. OnDisk' = OnDisk \cup {e}
            BY <1>1, <1>8, <3>1 DEF OnDisk
        <3>3. Named' = Named \cup {e}
            <4>1. /\ DOMAIN names' = 1..(Len(names) + 1) /\ DOMAIN names = 1..Len(names) /\ Len(names) \in Nat
                  /\ names'[Len(names) + 1] = e /\ \A i \in 1..Len(names) : names'[i] = names[i]
                BY <1>1, <1>2, <2>2
            <4>2. PICK n \in Nat : n = Len(names)
                BY <4>1
            <4>3. n + 1 \in 1..(n + 1) /\ \A i \in 1..(n + 1) : i = n + 1 \/ i \in 1..n
                OBVIOUS
            <4>4. Named' \subseteq Named \cup {e}
                BY <4>1, <4>2, <4>3 DEF Named
            <4>5. e \in Named'
                BY <4>1, <4>2, <4>3 DEF Named
            <4>6. Named \subseteq Named'
                BY <4>1, <4>2 DEF Named
            <4> QED
                BY <4>4, <4>5, <4>6
        <3> QED
            BY <2>2, <3>1, <3>2, <3>3
    <2> QED
        BY <2>1, <2>2
<1>10. file' \in [AuditEvents -> Files] /\ names' \in Seq(AuditEvents)
    <2>1. Append(names, e) \in Seq(AuditEvents)
        BY <1>1, <1>2
    <2>2. [file EXCEPT ![e] = Pending] \in [AuditEvents -> Files]
        BY <1>2, <1>8
    <2> QED
        BY <1>2, <2>1, <2>2
<1>11. TypeOK'
    <2>1. \A i, j \in DOMAIN names' : names'[i] = names'[j] => i = j
        <3>0. \A i, j \in DOMAIN names : names[i] = names[j] => i = j
            BY DEF EventsInv, TypeOK
        <3>1. CASE names' = names
            BY <3>0, <3>1
        <3>2. CASE names' = Append(names, e)
            <4>1. /\ DOMAIN names' = 1..(Len(names) + 1) /\ DOMAIN names = 1..Len(names) /\ Len(names) \in Nat
                  /\ names'[Len(names) + 1] = e /\ \A i \in 1..Len(names) : names'[i] = names[i]
                BY <1>1, <1>2, <3>2
            <4>2. \A i \in 1..Len(names) : names[i] # e
                BY <1>1, <4>1 DEF Named
            <4> QED
                BY <3>0, <4>1, <4>2
        <3> QED
            BY <1>9, <3>1, <3>2
    <2>2. hand' \in [Senders -> [event : AuditEvents \cup {NoEvent}, failed : 0..Retries]]
        BY <1>2
    <2> QED
        BY <1>10, <2>1, <2>2 DEF EventsInv, TypeOK
<1>12. EventsTyped'
    <2>1. accepted' \in [AuditEvents -> Nat] /\ owed' \in [AuditEvents -> Nat]
        BY <1>2
    <2>2. \A d \in AuditEvents : file'[d].at = "claimed" => file'[d].by \in Replayers
        BY <1>8, <1>9, EventShapes
    <2> QED
        BY <1>10, <2>1, <2>2 DEF EventsInv, EventsTyped
<1>13. SpilledOnce'
    <2>1. OnDisk \subseteq Named
        BY DEF EventsInv, SpilledOnce
    <2>2. OnDisk' \subseteq Named' /\ InFlight' \cap Named' = {}
        <3>1. InFlight \cap Named = {}
            BY DEF EventsInv, SpilledOnce
        <3> QED
            BY <1>7, <1>9, <2>1, <3>1
    <2>3. \A r \in Replayers : rep[r].todo \cup ({rep[r].event} \ {NoEvent}) \subseteq Named'
        BY <1>9 DEF EventsInv, SpilledOnce
    <2>4. \A d \in AuditEvents : send[d] # "done" \/ d \in dropped => d \notin InFlight' \cup Named' /\ accepted'[d] = 0
        BY <1>1, <1>4, <1>7, <1>9, Whereabouts
    <2>5. \A d \in buffer : accepted'[d] = 0
        BY <1>1, <1>4, Whereabouts
    <2>6. \A d \in dropped : send[d] = "done"
        BY Whereabouts
    <2> QED
        BY <2>2, <2>3, <2>4, <2>5, <2>6 DEF SpilledOnce
<1>14. ClosedInOrder'
    <2>1. \A t \in Senders : t \notin running => hand'[t] = Empty
        BY <1>3 DEF EventsInv, ClosedInOrder
    <2> QED
        BY <2>1 DEF EventsInv, ClosedInOrder
<1>15. NoSilentLoss'
    <2> SUFFICES ASSUME NEW d \in AuditEvents, send[d] = "done"
                 PROVE  \/ d \in InFlight' \cup OnDisk' \cup dropped \cup unspilled' \cup gone \cup late
                        \/ accepted'[d] > 0
        BY DEF NoSilentLoss
    <2>1. CASE d = e
        BY <1>1, <1>4, <1>7, <2>1
    <2>2. CASE d # e
        <3>1. \/ d \in InFlight \cup OnDisk \cup dropped \cup unspilled \cup gone \cup late
              \/ accepted[d] > 0
            BY DEF EventsInv, NoSilentLoss
        <3> QED
            BY <1>4, <1>7, <1>9, <2>2, <3>1
    <2> QED
        BY <2>1, <2>2
<1>16. OneFate'
    <2>0. OnDisk \subseteq Named
        BY DEF EventsInv, SpilledOnce
    <2>1. \A d \in dropped : d \in AuditEvents /\ d # e /\ d \notin InFlight /\ d \notin OnDisk /\ accepted[d] = 0
        BY <1>1, <2>0, Whereabouts
    <2>2. \A d \in dropped : d \notin InFlight' \cup OnDisk' /\ accepted'[d] = 0
        BY <1>4, <1>7, <1>9, <2>1
    <2>3. InFlight' \cap OnDisk' = {}
        <3>1. InFlight \cap OnDisk = {}
            BY DEF EventsInv, OneFate
        <3> QED
            BY <1>7, <1>9, <3>1
    <2>4. buffer \cap Held' = {}
        BY <1>6 DEF EventsInv, OneFate
    <2>5. \A t, u \in Senders : t # u /\ hand'[t].event # NoEvent => hand'[t].event # hand'[u].event
        <3>1. \A t, u \in Senders : t # u /\ hand[t].event # NoEvent => hand[t].event # hand[u].event
            BY Whereabouts
        <3> QED
            BY <1>3, <1>5, <3>1
    <2> QED
        BY <2>2, <2>3, <2>4, <2>5 DEF OneFate
<1>17. RowsOwed'
    <2>1. PICK r \in Replayers, q \in Replayers : q # r
        BY OtherReplayer DEF Replayers
    <2>2. ASSUME NEW d \in AuditEvents
          PROVE  /\ Rows(file'[d], r, rep'[r], q, rep'[q], d) \in Nat
                 /\ accepted'[d] + FromMemory(d)' + Rows(file'[d], r, rep'[r], q, rep'[q], d) <= 1 + owed'[d]
        <3>0. /\ Rows(file[d], r, rep[r], q, rep[q], d) \in Nat
              /\ accepted[d] + FromMemory(d) + Rows(file[d], r, rep[r], q, rep[q], d) <= 1 + owed[d]
              /\ d \notin Named => Rows(file[d], r, rep[r], q, rep[q], d) = 0
            BY <2>1, RowsOf
        <3>1. CASE d # e
            <4>1. file'[d] = file[d] /\ accepted'[d] = accepted[d] /\ owed'[d] = owed[d]
                BY <1>4, <1>9, <3>1
            <4>2. FromMemory(d)' = FromMemory(d)
                BY <1>7, <3>1 DEF FromMemory
            <4> QED
                BY <3>0, <4>1, <4>2
        <3>2. CASE d = e /\ UNCHANGED <<file, names>>
            <4>1. Rows(file'[d], r, rep'[r], q, rep'[q], d) = 0
                BY <1>1, <3>0, <3>2
            <4>2. FromMemory(d)' = IF h.event = NoEvent THEN 0 ELSE 1
                BY <1>1, <1>7, <3>2 DEF FromMemory
            <4>3. a + FromMemory(d)' <= 1 + o
                BY <4>2
            <4> QED
                BY <1>4, <3>2, <4>1, <4>2, <4>3
        <3>3. CASE d = e /\ h.event = NoEvent /\ file'[e] = Pending /\ a <= o
            <4>1. rep[r].event # e /\ rep[q].event # e
                BY <1>1, EventShapes
            <4>2. Rows(Pending, r, rep[r], q, rep[q], e) = 1
                BY <1>8, <4>1 DEF Rows, FileRow, StaleRow
            <4>3. FromMemory(d)' = 0
                BY <1>7, <3>3 DEF FromMemory
            <4> QED
                BY <1>4, <3>3, <4>2, <4>3
        <3> QED
            BY <1>9, <3>1, <3>2, <3>3
    <2>3. \A d \in AuditEvents : accepted'[d] \in Nat /\ owed'[d] \in Nat
        BY <1>2
    <2>4. \A d \in AuditEvents : file'[d].at = "claimed" => file'[d].by \in Replayers
        BY <1>8, <1>9, EventShapes
    <2> QED
        BY <2>1, <2>2, <2>3, <2>4, RowsOwedNext
<1>18. \A r \in Replayers : AtWork(rep[r])'
    <2> SUFFICES ASSUME NEW r \in Replayers PROVE AtWork(rep[r])'
        OBVIOUS
    <2>1. AtWork(rep[r]) /\ rep[r].event \in Named \cup {NoEvent} /\ Named \subseteq AuditEvents
        BY EventShapes
    <2>2. rep[r].pc = "remove" => accepted'[rep[r].event] > 0
        BY <1>1, <1>4, <2>1 DEF AtWork
    <2> QED
        BY <2>1, <2>2 DEF AtWork
<1> QED
    BY <1>11, <1>12, <1>13, <1>14, <1>15, <1>16, <1>17, <1>18 DEF EventsInv

\* Past the deadline nothing is posted.
LEMMA RoundFacts ==
    ASSUME EventsInv, NEW e \in AuditEvents, NEW lost \in {0, 1}, NEW answer \in Answers,
           \/ deadline /\ lost = 0 /\ answer = "fails" /\ UNCHANGED <<accepted, owed>>
           \/ ~deadline /\ PostEvent(e, up, answer, lost)
    PROVE  \E a \in Nat, o \in Nat :
              /\ accepted' = [accepted EXCEPT ![e] = a] /\ owed' = [owed EXCEPT ![e] = o]
              /\ accepted[e] <= a
              /\ \/ a = accepted[e] /\ o = owed[e] /\ answer # "stores"
                 \/ a = accepted[e] + 1 /\ o = owed[e] + 1 /\ answer = "fails"
                 \/ a = accepted[e] + 1 /\ o = owed[e] /\ answer = "stores"
<1>1. CASE PostEvent(e, up, answer, lost)
    BY <1>1, PostFacts
<1>2. CASE answer = "fails" /\ UNCHANGED <<accepted, owed>>
    <2>1. /\ accepted \in [AuditEvents -> Nat] /\ owed \in [AuditEvents -> Nat]
          /\ accepted[e] \in Nat /\ owed[e] \in Nat
        BY DEF EventsInv, EventsTyped
    <2>2. PICK a \in Nat : a = accepted[e]
        BY <2>1
    <2>3. PICK o \in Nat : o = owed[e]
        BY <2>1
    <2>4. accepted' = [accepted EXCEPT ![e] = a] /\ owed' = [owed EXCEPT ![e] = o]
        BY <1>2, <2>1, <2>2, <2>3
    <2>5. accepted[e] <= a
        BY <2>1, <2>2
    <2> QED
        BY <1>2, <2>2, <2>3, <2>4, <2>5
<1> QED
    BY <1>1, <1>2

\* A round of deliver.
LEMMA DeliverStep ==
    ASSUME EventsInv, NEW s \in Senders, Deliver(s)
    PROVE  EventsInv'
<1>1. PICK e : e = hand[s].event
    OBVIOUS
<1>2. e # NoEvent /\ s \in running
    BY <1>1 DEF Deliver
<1>3. e \in AuditEvents /\ e \notin Named /\ accepted[e] <= owed[e]
    BY <1>1, <1>2, InHand
<1>4. /\ accepted[e] \in Nat /\ owed[e] \in Nat
      /\ hand \in [Senders -> [event : AuditEvents \cup {NoEvent}, failed : 0..Retries]]
      /\ hand[s] \in [event : AuditEvents \cup {NoEvent}, failed : 0..Retries]
    BY <1>3, EventShapes
<1>5. UNCHANGED <<verdict, send, buffer, running, closer, dropped, gone, late, rep>>
    BY DEF Deliver
<1>6. PICK lost \in {0, 1}, full \in {0, 1}, answer \in Answers :
          /\ \/ deadline /\ lost = 0 /\ answer = "fails" /\ UNCHANGED <<accepted, owed>>
             \/ ~deadline /\ PostEvent(e, up, answer, lost)
          /\ \/ /\ answer = "stores" /\ full = 0
                /\ hand' = [hand EXCEPT ![s] = Empty]
                /\ UNCHANGED <<disk, unspilled>>
             \/ /\ answer # "stores"
                /\ hand' = [hand EXCEPT ![s] = Empty]
                /\ spill(e, full)
             \/ /\ answer = "fails" /\ full = 0
                /\ hand[s].failed < Retries
                /\ hand' = [hand EXCEPT ![s].failed = @ + 1]
                /\ UNCHANGED <<disk, unspilled>>
    BY <1>1 DEF Deliver
<1>7. PICK a \in Nat, o \in Nat :
          /\ accepted' = [accepted EXCEPT ![e] = a] /\ owed' = [owed EXCEPT ![e] = o]
          /\ accepted[e] <= a
          /\ \/ a = accepted[e] /\ o = owed[e] /\ answer # "stores"
             \/ a = accepted[e] + 1 /\ o = owed[e] + 1 /\ answer = "fails"
             \/ a = accepted[e] + 1 /\ o = owed[e] /\ answer = "stores"
    BY <1>3, <1>6, RoundFacts
<1>8. /\ accepted' = [accepted EXCEPT ![e] = a] /\ owed' = [owed EXCEPT ![e] = o]
      /\ accepted[e] <= a
    BY <1>7
<1>9. (answer # "stores" => a <= o) /\ (answer = "stores" => a <= 1 + o /\ a > 0)
    BY <1>3, <1>4, <1>7
<1>10. Empty \in [event : AuditEvents \cup {NoEvent}, failed : 0..Retries] /\ Empty.event = NoEvent
    BY EventsAssumption DEF Empty
<1>11. PICK h \in [event : AuditEvents \cup {NoEvent}, failed : 0..Retries] :
           /\ hand' = [hand EXCEPT ![s] = h] /\ h.event \in {e, NoEvent}
           /\ \/ answer = "stores" /\ h.event = NoEvent /\ UNCHANGED <<file, names, unspilled>>
              \/ answer # "stores" /\ h.event = NoEvent /\ spill(e, full)
              \/ answer # "stores" /\ h.event = e /\ UNCHANGED <<file, names, unspilled>>
    <2>1. CASE answer = "stores" /\ hand' = [hand EXCEPT ![s] = Empty] /\ UNCHANGED <<disk, unspilled>>
        BY <1>10, <2>1 DEF disk
    <2>2. CASE answer # "stores" /\ hand' = [hand EXCEPT ![s] = Empty] /\ spill(e, full)
        BY <1>10, <2>2
    <2>3. CASE /\ answer = "fails" /\ hand[s].failed < Retries /\ hand' = [hand EXCEPT ![s].failed = @ + 1]
               /\ UNCHANGED <<disk, unspilled>>
        <3>1. PICK h : h = [hand[s] EXCEPT !.failed = @ + 1]
            OBVIOUS
        <3>2. h \in [event : AuditEvents \cup {NoEvent}, failed : 0..Retries] /\ h.event = e
            BY <1>1, <1>4, <2>3, <3>1, EventsAssumption
        <3>3. hand' = [hand EXCEPT ![s] = h]
            BY <1>4, <2>3, <3>1
        <3> QED
            BY <2>3, <3>2, <3>3 DEF disk
    <2> QED
        BY <1>6, <2>1, <2>2, <2>3
<1>12. \/ UNCHANGED <<file, names>>
       \/ h.event = NoEvent /\ file' = [file EXCEPT ![e] = Pending] /\ names' = Append(names, e)
    BY <1>11 DEF spill, disk
<1>13. unspilled \subseteq unspilled'
    BY <1>11 DEF spill
<1>14. h.event = NoEvent => e \in OnDisk' \cup unspilled' \/ a > 0
    <2>1. CASE answer = "stores"
        BY <1>9, <2>1
    <2>2. CASE file' = [file EXCEPT ![e] = Pending]
        <3>1. file'[e] = Pending /\ Pending.at = "pending"
            BY <1>3, <2>2, EventShapes DEF Pending, File
        <3> QED
            BY <1>3, <3>1 DEF OnDisk
    <2>3. CASE e \in unspilled'
        BY <2>3
    <2>4. CASE h.event = e
        BY <1>2, <2>4
    <2> QED
        BY <1>11, <2>1, <2>2, <2>3, <2>4 DEF spill
<1>15. a <= o \/ (a <= 1 + o /\ h.event = NoEvent /\ UNCHANGED <<file, names>>)
    BY <1>9, <1>11
<1>16. hand' = [hand EXCEPT ![s] = h] /\ h.event \in {e, NoEvent}
    BY <1>11
<1> QED
    BY <1>1, <1>2, <1>5, <1>8, <1>12, <1>13, <1>14, <1>15, <1>16, RoundStep

\* The gateway ends and is started again: what was in memory is recorded as gone.
LEMMA GatewayRestartsStep ==
    ASSUME EventsInv, GatewayRestarts
    PROVE  EventsInv'
<1>0. PICK r \in Replayers : r = "gateway"
    BY DEF Replayers
<1>1. PICK q \in Replayers : q # r
    BY OtherReplayer
<1>2. /\ UNCHANGED <<verdict, accepted, file, names, dropped, unspilled, late>>
      /\ rep' = [rep EXCEPT ![r] = Idle] /\ Owe(Unremoved(r))
      /\ buffer' = {} /\ hand' = [s \in Senders |-> Empty] /\ running' = Senders /\ closer' = "open"
    BY <1>0 DEF GatewayRestarts, disk
<1>3. PICK cut : cut = {e \in AuditEvents : send[e] = "checked"}
    OBVIOUS
<1>4. /\ gone' = gone \cup cut \cup (IF closer = "returned" THEN {} ELSE buffer \cup Held)
      /\ send' = [e \in AuditEvents |-> IF e \in cut THEN "done" ELSE send[e]]
    BY <1>3 DEF GatewayRestarts
<1>5. Empty \in [event : AuditEvents \cup {NoEvent}, failed : 0..Retries] /\ Empty.event = NoEvent
    BY EventsAssumption DEF Empty
<1>6. Held' = {} /\ InFlight' = {} /\ Named' = Named /\ OnDisk' = OnDisk
    <2>1. Held' = {}
        BY <1>2, <1>5 DEF Held
    <2> QED
        BY <1>2, <2>1 DEF InFlight, Named, OnDisk
<1>7. /\ rep' \in [Replayers -> Passes]
      /\ \A x \in Replayers : /\ rep'[x].todo \subseteq Named /\ rep'[x].event \in Named \cup {NoEvent}
                              /\ AtWork(rep[x])'
    BY <1>2, KilledReplayers
<1>8. owed' \in [AuditEvents -> Nat]
    BY <1>2, OweNat
<1>9. TypeOK'
    <2>1. buffer' \subseteq AuditEvents /\ Cardinality(buffer') <= BufferSize
        BY <1>2, FS_EmptySet, EventsAssumption
    <2>2. hand' \in [Senders -> [event : AuditEvents \cup {NoEvent}, failed : 0..Retries]]
        BY <1>2, <1>5
    <2>3. \A x \in Replayers : rep'[x].todo \subseteq AuditEvents /\ rep'[x].fails \in 0..MaxFails
        BY <1>7 DEF Passes
    <2> QED
        BY <1>2, <2>1, <2>2, <2>3 DEF EventsInv, TypeOK
<1>10. send \in [AuditEvents -> {"new", "checked", "done"}]
    BY DEF EventsInv, EventsTyped
<1>11. \A e \in AuditEvents : (send'[e] # "done" => send[e] # "done") /\ (send[e] = "done" => send'[e] = "done")
    BY <1>3, <1>4, <1>10
<1>12. EventsTyped'
    <2>1. IsFiniteSet(buffer')
        BY <1>2, FS_EmptySet
    <2>2. send' \in [AuditEvents -> {"new", "checked", "done"}]
        BY <1>3, <1>4, <1>10
    <2> QED
        BY <1>2, <1>7, <1>8, <2>1, <2>2 DEF EventsInv, EventsTyped
<1>13. SpilledOnce'
    <2>1. OnDisk \subseteq Named
        BY DEF EventsInv, SpilledOnce
    <2>2. \A e \in AuditEvents : send'[e] # "done" \/ e \in dropped => e \notin Named /\ accepted[e] = 0
        BY <1>11, Whereabouts
    <2>3. \A e \in dropped : send'[e] = "done"
        BY <1>11, Whereabouts
    <2>4. \A x \in Replayers : rep'[x].todo \cup ({rep'[x].event} \ {NoEvent}) \subseteq Named
        BY <1>7
    <2> QED
        BY <1>2, <1>6, <2>1, <2>2, <2>3, <2>4 DEF SpilledOnce
<1>14. ClosedInOrder'
    BY <1>2 DEF ClosedInOrder
<1>15. NoSilentLoss'
    <2>1. InFlight \subseteq gone' \cup late
        <3>1. CASE closer = "returned"
            <4>1. Held = {} /\ buffer \subseteq late
                BY <1>5, <3>1 DEF EventsInv, ClosedInOrder, Held
            <4> QED
                BY <4>1, Whereabouts
        <3>2. CASE closer # "returned"
            BY <1>4, <3>2, Whereabouts
        <3> QED
            BY <3>1, <3>2
    <2>2. \A e \in AuditEvents : send'[e] = "done" => send[e] = "done" \/ e \in gone'
        BY <1>4
    <2>3. gone \subseteq gone'
        BY <1>4
    <2> QED
        BY <1>2, <1>6, <2>1, <2>2, <2>3 DEF EventsInv, NoSilentLoss
<1>16. OneFate'
    <2>1. \A e \in dropped : e \notin OnDisk /\ accepted[e] = 0
        BY DEF EventsInv, OneFate
    <2>2. \A s \in Senders : hand'[s].event = NoEvent
        BY <1>2, <1>5
    <2> QED
        BY <1>2, <1>6, <2>1, <2>2 DEF OneFate
<1>17. RowsOwed'
    <2>1. ASSUME NEW d \in AuditEvents
          PROVE  /\ Rows(file'[d], r, rep'[r], q, rep'[q], d) \in Nat
                 /\ accepted'[d] + FromMemory(d)' + Rows(file'[d], r, rep'[r], q, rep'[q], d) <= 1 + owed'[d]
        <3>1. /\ Rows(file'[d], r, rep'[r], q, rep'[q], d) \in Nat
              /\ accepted'[d] + FromMemory(d) + Rows(file'[d], r, rep'[r], q, rep'[q], d) <= 1 + owed'[d]
            BY <1>1, <1>2, KilledRows
        <3>2. FromMemory(d) \in Nat /\ FromMemory(d)' = 0 /\ accepted'[d] \in Nat /\ owed'[d] \in Nat
            BY <1>2, <1>6, <1>8, EventShapes DEF FromMemory
        <3> QED
            BY <3>1, <3>2
    <2>2. \A d \in AuditEvents : accepted'[d] \in Nat /\ owed'[d] \in Nat
        BY <1>2, <1>8, EventShapes
    <2>3. \A d \in AuditEvents : file'[d].at = "claimed" => file'[d].by \in Replayers
        BY <1>2, EventShapes
    <2> QED
        BY <1>1, <2>1, <2>2, <2>3, RowsOwedNext
<1>18. \A x \in Replayers : AtWork(rep[x])'
    BY <1>7
<1> QED
    BY <1>9, <1>12, <1>13, <1>14, <1>15, <1>16, <1>17, <1>18 DEF EventsInv

-----------------------------------------------------------------------------
(* The theorems.                                                           *)

\* Every step of the pipeline keeps the invariant.
LEMMA EventsNextInv == EventsInv /\ [Next]_vars => EventsInv'
<1> SUFFICES ASSUME EventsInv, [Next]_vars PROVE EventsInv'
    OBVIOUS
<1>1. CASE \E e \in AuditEvents : SendCheck(e) \/ SendPut(e) \/ Ages(e) \/ eventsRemove(e)
    BY <1>1, SendCheckStep, SendPutStep, AgesStep, eventsRemoveStep
<1>2. CASE \E s \in Senders : SenderStep(s)
    <2>1. PICK s \in Senders : Deliver(s) \/ SenderReturns(s) \/ \E e \in AuditEvents : Take(s, e)
        BY <1>2 DEF SenderStep
    <2> QED
        BY <2>1, DeliverStep, QuietSteps, TakeStep
<1>3. CASE \E r \in Replayers : ReplayStep(r)
    BY <1>3, ReplayStepInv
<1>4. CASE DrainOne
    BY <1>4, DrainOneStep
<1>5. CASE Outage \/ Recover \/ StopReplayer \/ Deadline \/ CloseBegins \/ SendersDone
    BY <1>5, QuietSteps
<1>6. CASE GatewayRestarts
    BY <1>6, GatewayRestartsStep
<1>7. CASE CommandKilled
    BY <1>7, CommandKilledStep
<1>8. CASE UNCHANGED vars
    <2>1. UNCHANGED <<verdict, accepted, send, buffer, hand, dropped, unspilled, gone, late, file, names, rep, owed>>
        BY <1>8 DEF vars, clientVars, disk
    <2>2. ClosedInOrder'
        BY <1>8 DEF EventsInv, ClosedInOrder, vars, clientVars
    <2> QED
        BY <2>1, <2>2, QuietStep
<1> QED
    BY <1>1, <1>2, <1>3, <1>4, <1>5, <1>6, <1>7, <1>8 DEF Next, CloseStep

\* The inductive invariant of the audit pipeline (client.go, replay.go).
THEOREM EventsInvariant == Spec => []EventsInv
<1>1. Init => EventsInv
    BY EventsInitInv
<1>2. EventsInv /\ [Next]_vars => EventsInv'
    BY EventsNextInv
<1> QED
    BY <1>1, <1>2, PTL DEF Spec

\* The channel never exceeds its capacity, no sender its retries, and no event is
\* spilled under two names.
THEOREM EventsTypes == Spec => []TypeOK
<1>1. EventsInv => TypeOK
    BY DEF EventsInv
<1> QED
    BY <1>1, EventsInvariant, PTL

\* An event that Send accepted is on its way, stored, in a file, or counted, unless the
\* process was killed or Send overtook the end of Close.
THEOREM NothingIsLostSilently == Spec => []NoSilentLoss
<1>1. EventsInv => NoSilentLoss
    BY DEF EventsInv
<1> QED
    BY <1>1, EventsInvariant, PTL

\* What Stats.Dropped counts never turns up again, and no event is in memory and in a
\* file, or in two hands.
THEOREM EveryEventHasOneFate == Spec => []OneFate
<1>1. EventsInv => OneFate
    BY DEF EventsInv
<1> QED
    BY <1>1, EventsInvariant, PTL

\* Two replayers over one directory never post an event twice by themselves.
THEOREM EveryDuplicateIsOwed == Spec => []DuplicatesOwed
<1>1. EventsInv => DuplicatesOwed
    <2> SUFFICES ASSUME EventsInv, NEW e \in AuditEvents PROVE accepted[e] <= 1 + owed[e]
        BY DEF DuplicatesOwed
    <2>1. accepted[e] + FromMemory(e) + FromFile(e) + FromStale("gateway", e) + FromStale("cli", e) <= 1 + owed[e]
        BY DEF EventsInv, RowsOwed
    <2>2. /\ FromFile(e) \in Nat /\ FromStale("gateway", e) \in Nat /\ FromStale("cli", e) \in Nat
          /\ FromMemory(e) \in Nat
        BY DEF FromFile, FromStale, FromMemory
    <2>3. accepted[e] \in Nat /\ owed[e] \in Nat
        BY EventShapes
    <2> QED
        BY <2>1, <2>2, <2>3
<1> QED
    BY <1>1, EventsInvariant, PTL
=============================================================================
