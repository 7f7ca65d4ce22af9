--------------------------- MODULE DeliveryProofs ---------------------------
(***************************************************************************)
(* Proofs about the delivery loop: what a relay took, what the spool says  *)
(* of it and what the sender is told agree, for any number of recipients,  *)
(* relays, retries, crashes, lost answers and failed notifications.        *)
(***************************************************************************)
EXTENDS Delivery, FiniteSetTheorems, TLAPS

Report == [id : Nat, kind : Kinds, rcpts : SUBSET Rcpts]

-----------------------------------------------------------------------------
(* Types.                                                                  *)

\* What Mark changes in an envelope.
LEMMA MarkFacts ==
    ASSUME NEW e \in Contents, NEW rs \in SUBSET Rcpts
    PROVE  /\ Mark(e, rs) \in Contents /\ Mark(e, rs).status = e.status
           /\ Mark(e, rs).DelayWarned = e.DelayWarned /\ Mark(e, rs).DSNSeq = e.DSNSeq
           /\ \A r \in Rcpts : Mark(e, rs).DSNSent[r] <=> (e.DSNSent[r] \/ r \in rs)
<1>1. PICK sent : sent = [r \in Rcpts |-> e.DSNSent[r] \/ r \in rs]
    OBVIOUS
<1>2. sent \in [Rcpts -> BOOLEAN] /\ \A r \in Rcpts : sent[r] <=> (e.DSNSent[r] \/ r \in rs)
    BY <1>1 DEF Contents
<1>3. Mark(e, rs) = [e EXCEPT !.DSNSent = sent]
    BY <1>1 DEF Mark
<1>4. /\ Mark(e, rs) \in Contents /\ Mark(e, rs).status = e.status /\ Mark(e, rs).DSNSent = sent
      /\ Mark(e, rs).DelayWarned = e.DelayWarned /\ Mark(e, rs).DSNSeq = e.DSNSeq
    BY <1>2, <1>3 DEF Contents
<1> QED
    BY <1>2, <1>4

\* What Bounce does: it writes the notification, or fails to, or has no one to write to.
LEMMA BounceFacts ==
    ASSUME TypeOK, NEW e \in Contents, NEW kind \in Kinds, NEW rs \in SUBSET Rcpts, Bounce(e, kind, rs)
    PROVE  /\ env' \in Contents /\ env'.status = e.status /\ env'.DSNSent = e.DSNSent
           /\ env'.DelayWarned = e.DelayWarned
           /\ \/ /\ UNCHANGED reports /\ env'.DSNSeq \in {e.DSNSeq, e.DSNSeq + 1}
                 /\ \/ faults' = faults + 1
                    \/ faults' = faults /\ (rs = {} \/ nullSender \/ ~DSNEnabled)
              \/ /\ ~nullSender /\ UNCHANGED faults /\ env'.DSNSeq = e.DSNSeq + 1
                 /\ \E m \in Report : /\ m.id = e.DSNSeq + 1 /\ m.kind = kind /\ m.rcpts = rs
                                      /\ reports' = Append(reports, m)
<1>1. CASE rs = {} \/ nullSender \/ ~DSNEnabled
    BY <1>1 DEF Bounce
<1>2. CASE ~(rs = {} \/ nullSender \/ ~DSNEnabled)
    <2>1. PICK n \in Nat : n = e.DSNSeq + 1
        BY DEF Contents
    <2>2. env' = [e EXCEPT !.DSNSeq = n]
        BY <1>2, <2>1 DEF Bounce
    <2>3. /\ env' \in Contents /\ env'.status = e.status /\ env'.DSNSent = e.DSNSent
          /\ env'.DelayWarned = e.DelayWarned /\ env'.DSNSeq = n
        BY <2>2 DEF Contents
    <2>4. PICK m : m = [id |-> n, kind |-> kind, rcpts |-> rs]
        OBVIOUS
    <2>5. m \in Report /\ m.id = n /\ m.kind = kind /\ m.rcpts = rs
        BY <2>4 DEF Report
    <2>6. \/ reports' = Append(reports, m) /\ UNCHANGED faults
          \/ faults' = faults + 1 /\ UNCHANGED reports
        BY <1>2, <2>1, <2>4 DEF Bounce
    <2> QED
        BY <1>2, <2>1, <2>3, <2>5, <2>6
<1> QED
    BY <1>1, <1>2

\* Recorded settles a pending recipient or leaves it; a settled one stays as it is.
LEMMA RecordedFacts ==
    ASSUME TypeOK, NEW r \in Rcpts, NEW rejected \in SUBSET Pending(env),
           NEW taken \in SUBSET Pending(env), NEW data
    PROVE  /\ Recorded(r, rejected, taken, data) \in {env.status[r], "delivered", "permfail"}
           /\ env.status[r] # "pending" => Recorded(r, rejected, taken, data) = env.status[r]
           /\ Recorded(r, rejected, taken, data) \in Statuses
           /\ r \in taken /\ r \notin rejected /\ data = "delivered" =>
                  Recorded(r, rejected, taken, data) = "delivered"
<1>1. env.status[r] \in Statuses
    BY DEF TypeOK, Contents
<1> QED
    BY <1>1 DEF Recorded, Pending, Statuses

\* One answer of a relay.
Answered(rejected, deferred, data) ==
    LET taken == Pending(env) \ (rejected \cup deferred) IN
    /\ rejected \cap deferred = {}
    /\ data = "lost" => taken # {} /\ lost < MaxLost
    /\ env' = [env EXCEPT !.status = [r \in Rcpts |-> Recorded(r, rejected, taken, data)]]
    /\ accepted' = [r \in Rcpts |-> IF r \in taken /\ data \in {"delivered", "lost"}
                                    THEN accepted[r] + 1 ELSE accepted[r]]
    /\ lost' = IF data = "lost" THEN lost + 1 ELSE lost

\* RelayAnswers is one answer.
LEMMA AnswerFacts ==
    ASSUME RelayAnswers
    PROVE  \E rejected \in SUBSET Pending(env), deferred \in SUBSET Pending(env) :
           \E data \in {"delivered", "rejected", "deferred", "lost"} : Answered(rejected, deferred, data)
BY Zenon DEF RelayAnswers, Answered

\* Types of what the worker's steps change.
LEMMA DeliveryTypes == TypeOK /\ [Next]_vars => TypeOK'
<1> SUFFICES ASSUME TypeOK, [Next]_vars PROVE TypeOK'
    OBVIOUS
<1>0. /\ disk \in Contents /\ env \in Contents /\ age \in Nat /\ due \in Nat /\ targets \in Nat
      /\ accepted \in [Rcpts -> Nat] /\ reports \in Seq(Report) /\ crashes \in Nat /\ lost \in Nat /\ faults \in Nat
    BY DEF TypeOK, Report
<1>1. CASE Claim
    BY <1>1 DEF Claim, TypeOK, Goto, message, bounds
<1>2. CASE UnknownGroup
    BY <1>2 DEF UnknownGroup, TypeOK, Goto, message, spool, bounds
<1>3. CASE Unclaim
    BY <1>3 DEF Unclaim, TypeOK, Goto, message, bounds
<1>4. CASE ListTargets
    BY <1>4, DeliveryAssumption DEF ListTargets, TypeOK, Goto, message, spool, bounds
<1>5. CASE CannotOpenBody
    BY <1>5 DEF CannotOpenBody, TypeOK, Goto, message, spool, bounds
<1>6. CASE RelayFails
    BY <1>6 DEF RelayFails, TypeOK, message, spool, bounds
<1>7. CASE RelayTakesPart
    <2>1. accepted' \in [Rcpts -> Nat]
        BY <1>0, <1>7 DEF RelayTakesPart
    <2> QED
        BY <1>7, <2>1 DEF RelayTakesPart, TypeOK, message, spool
<1>8. CASE RelayAnswers
    <2>1. PICK rejected \in SUBSET Pending(env), deferred \in SUBSET Pending(env),
               data \in {"delivered", "rejected", "deferred", "lost"} : Answered(rejected, deferred, data)
        BY <1>8, AnswerFacts
    <2>2. PICK s : s = [r \in Rcpts |-> Recorded(r, rejected, Pending(env) \ (rejected \cup deferred), data)]
        OBVIOUS
    <2>3. s \in [Rcpts -> Statuses]
        BY <2>2, RecordedFacts
    <2>4. env' = [env EXCEPT !.status = s]
        BY <2>1, <2>2 DEF Answered
    <2>5. env' \in Contents
        BY <1>0, <2>3, <2>4 DEF Contents
    <2>6. accepted' \in [Rcpts -> Nat] /\ lost' \in Nat
        BY <1>0, <2>1 DEF Answered
    <2> QED
        BY <1>8, <2>5, <2>6 DEF RelayAnswers, TypeOK, Goto, message, spool
<1>9. CASE NoRelayLeft
    BY <1>9 DEF NoRelayLeft, TypeOK, Goto, message, spool, bounds
<1>10. CASE Decide
    BY <1>10 DEF Decide, TypeOK, Goto, message, spool, bounds
<1>11. ASSUME NEW e \in Contents, NEW kind \in Kinds, NEW rs \in SUBSET Rcpts, Bounce(e, kind, rs)
       PROVE  env' \in Contents /\ reports' \in Seq(Report) /\ faults' \in Nat
    <2>1. reports' = reports \/ \E m \in Report : reports' = Append(reports, m)
        BY <1>11, BounceFacts
    <2>2. \A m \in Report : Append(reports, m) \in Seq(Report)
        BY <1>0
    <2>3. env' \in Contents /\ faults' \in Nat
        BY <1>0, <1>11, BounceFacts
    <2> QED
        BY <1>0, <2>1, <2>2, <2>3
<1>12. CASE BounceFailed
    <2>1. PICK rs \in SUBSET Rcpts : Bounce(IF nullSender THEN env ELSE Mark(env, rs), "failed", rs)
        BY <1>12 DEF BounceFailed
    <2>2. (IF nullSender THEN env ELSE Mark(env, rs)) \in Contents /\ "failed" \in Kinds
        BY <1>0, MarkFacts DEF Kinds
    <2>3. env' \in Contents /\ reports' \in Seq(Report) /\ faults' \in Nat
        BY <1>11, <2>1, <2>2
    <2> QED
        BY <1>12, <2>3 DEF BounceFailed, TypeOK, Goto, message, spool, Report
<1>13. CASE NotifyRelayed
    <2>1. PICK rs \in SUBSET Rcpts : Bounce(IF nullSender THEN env ELSE Mark(env, rs), "relayed", rs)
        BY <1>13 DEF NotifyRelayed
    <2>2. (IF nullSender THEN env ELSE Mark(env, rs)) \in Contents /\ "relayed" \in Kinds
        BY <1>0, MarkFacts DEF Kinds
    <2>3. env' \in Contents /\ reports' \in Seq(Report) /\ faults' \in Nat
        BY <1>11, <2>1, <2>2
    <2> QED
        BY <1>13, <2>3 DEF NotifyRelayed, TypeOK, Goto, message, spool, Report
<1>14. CASE Complete
    BY <1>14 DEF Complete, TypeOK, Goto, message, bounds
<1>15. CASE Expire
    <2>1. PICK gone : gone = [env EXCEPT !.status = [r \in Rcpts |-> IF r \in Pending(env) THEN "expired" ELSE @[r]]]
        OBVIOUS
    <2>2. gone \in Contents
        <3>1. PICK s : s = [r \in Rcpts |-> IF r \in Pending(env) THEN "expired" ELSE env.status[r]]
            OBVIOUS
        <3>2. s \in [Rcpts -> Statuses]
            BY <1>0, <3>1 DEF Contents, Statuses
        <3>3. gone = [env EXCEPT !.status = s]
            BY <2>1, <3>1
        <3> QED
            BY <1>0, <3>2, <3>3 DEF Contents
    <2>3. PICK rs \in SUBSET Rcpts : Bounce(Mark(gone, rs), "failed", rs)
        BY <1>15, <2>1 DEF Expire, Pending
    <2>4. Mark(gone, rs) \in Contents /\ "failed" \in Kinds
        BY <2>2, MarkFacts DEF Kinds
    <2>5. env' \in Contents /\ reports' \in Seq(Report) /\ faults' \in Nat
        BY <1>11, <2>3, <2>4
    <2> QED
        BY <1>15, <2>5 DEF Expire, TypeOK, Goto, message, spool, Report
<1>16. CASE Bury
    BY <1>16 DEF Bury, TypeOK, Goto, message, bounds
<1>17. CASE WarnDelayed
    <2>1. PICK rs \in SUBSET Rcpts :
              Bounce([env EXCEPT !.DelayWarned = TRUE], "delayed", rs) \/ UNCHANGED <<env, reports, faults>>
        BY <1>17 DEF WarnDelayed, Pending
    <2>2. [env EXCEPT !.DelayWarned = TRUE] \in Contents /\ "delayed" \in Kinds
        BY <1>0 DEF Contents, Kinds
    <2>3. env' \in Contents /\ reports' \in Seq(Report) /\ faults' \in Nat
        BY <1>0, <1>11, <2>1, <2>2
    <2> QED
        BY <1>17, <2>3 DEF WarnDelayed, TypeOK, Goto, message, spool, Report
<1>18. CASE Reschedule
    BY <1>18 DEF Reschedule, TypeOK, Goto, message, bounds
<1>19. CASE Crash
    <2>1. Fresh \in Contents
        BY DEF Fresh, Contents, Statuses
    <2> QED
        BY <1>19, <2>1 DEF Crash, TypeOK, Goto, message
<1>20. CASE Tick
    BY <1>20 DEF Tick, TypeOK, message, spool, worker, bounds
<1>21. CASE UNCHANGED vars
    BY <1>21 DEF TypeOK, vars, message, spool, worker, bounds
<1> QED
    BY <1>1, <1>2, <1>3, <1>4, <1>5, <1>6, <1>7, <1>8, <1>9, <1>10, <1>12, <1>13, <1>14, <1>15, <1>16,
       <1>17, <1>18, <1>19, <1>20, <1>21 DEF Next, Attempt, Rest

-----------------------------------------------------------------------------
(* Reports.                                                                *)

\* Every report has a number.
LEMMA ReportsNumbered ==
    ASSUME reports \in Seq(Report) PROVE \A i \in DOMAIN reports : reports[i].id \in Nat
<1>1. \A i \in DOMAIN reports : reports[i] \in Report
    OBVIOUS
<1>2. \A m \in Report : m.id \in Nat
    BY DEF Report
<1> QED
    BY <1>1, <1>2

\* The reports that name a recipient are finitely many.
LEMMA ToldFinite ==
    ASSUME reports \in Seq(Report), NEW r, NEW k
    PROVE  IsFiniteSet(Told(r, k)) /\ Cardinality(Told(r, k)) \in Nat
<1>1. IsFiniteSet(1..Len(reports)) /\ Told(r, k) \subseteq 1..Len(reports)
    BY FS_Interval DEF Told
<1>2. IsFiniteSet(Told(r, k))
    BY <1>1, FS_Subset
<1> QED
    BY <1>2, FS_CardinalityType

\* One more report names its recipients once more, for its kind, and nobody else.
LEMMA ToldAppend ==
    ASSUME reports \in Seq(Report), NEW m \in Report, reports' = Append(reports, m),
           NEW r \in Rcpts, NEW k \in Kinds
    PROVE  /\ m.kind = k /\ r \in m.rcpts =>
                  Told(r, k)' # {} /\ Cardinality(Told(r, k)') = Cardinality(Told(r, k)) + 1
           /\ ~(m.kind = k /\ r \in m.rcpts) => Told(r, k)' = Told(r, k)
           /\ Told(r, k) # {} => Told(r, k)' # {}
<1>1. PICK n \in Nat : n = Len(reports)
    OBVIOUS
<1>2. /\ DOMAIN reports = 1..n /\ DOMAIN reports' = 1..(n + 1)
      /\ reports'[n + 1] = m /\ \A i \in 1..n : reports'[i] = reports[i]
    BY <1>1
<1>3. n + 1 \in 1..(n + 1) /\ n + 1 \notin 1..n /\ \A i \in 1..(n + 1) : i = n + 1 \/ i \in 1..n
    OBVIOUS
<1>4. Told(r, k) \subseteq 1..n /\ Told(r, k) \subseteq Told(r, k)'
    BY <1>2, <1>3 DEF Told
<1>5. Told(r, k)' \subseteq Told(r, k) \cup {n + 1}
    BY <1>2, <1>3 DEF Told
<1>6. n + 1 \in Told(r, k)' <=> (m.kind = k /\ r \in m.rcpts)
    BY <1>2, <1>3 DEF Told
<1>7. CASE m.kind = k /\ r \in m.rcpts
    <2>1. Told(r, k)' = Told(r, k) \cup {n + 1} /\ n + 1 \notin Told(r, k)
        BY <1>3, <1>4, <1>5, <1>6, <1>7
    <2>2. IsFiniteSet(Told(r, k))
        BY ToldFinite
    <2>3. Cardinality(Told(r, k) \cup {n + 1}) = Cardinality(Told(r, k)) + 1
        BY <2>1, <2>2, FS_AddElement
    <2> QED
        BY <1>7, <2>1, <2>3
<1>8. CASE ~(m.kind = k /\ r \in m.rcpts)
    BY <1>3, <1>4, <1>5, <1>6, <1>8
<1> QED
    BY <1>4, <1>7, <1>8

-----------------------------------------------------------------------------
(* The invariant, step by step.                                            *)

\* Before the first attempt.
LEMMA DeliveryInitInv == Init => DeliveryInv
<1> SUFFICES ASSUME Init PROVE DeliveryInv
    OBVIOUS
<1>1. /\ disk = Fresh /\ env = Fresh /\ place = "queued" /\ step = "idle" /\ reports = <<>>
      /\ accepted = [r \in Rcpts |-> 0] /\ crashes = 0 /\ lost = 0 /\ faults = 0
      /\ nullSender \in BOOLEAN /\ notify \in [Rcpts -> NotifyChoices] /\ age = 0 /\ due = 0 /\ targets = 0
    BY DEF Init
<1>2. /\ Fresh \in Contents /\ \A r \in Rcpts : Fresh.status[r] = "pending" /\ Fresh.DSNSent[r] = FALSE
      /\ Fresh.DelayWarned = FALSE /\ Fresh.DSNSeq = 0
    BY DEF Fresh, Contents, Statuses
<1>3. DOMAIN reports = {} /\ reports \in Seq(Report)
    BY <1>1
<1>4. \A r, k : Told(r, k) = {} /\ Cardinality(Told(r, k)) = 0
    BY <1>3, FS_EmptySet DEF Told
<1>5. TypeOK
    BY <1>1, <1>2, <1>3, DeliveryAssumption DEF TypeOK, Report
<1>6. WorkerHolds /\ DiskKept
    BY <1>1 DEF WorkerHolds, DiskKept
<1>7. TakenOnce /\ MarksCount
    BY <1>1, <1>2, <1>4 DEF TakenOnce, MarksCount, Current
<1>8. NotifyRespected /\ NumbersUsed /\ DistinctReports
    BY <1>3 DEF NotifyRespected, NumbersUsed, DistinctReports
<1>9. MarksTell(disk) /\ MarksTell(env) /\ BounceTells
    BY <1>1, <1>2 DEF MarksTell, BounceTells
<1> QED
    BY <1>5, <1>6, <1>7, <1>8, <1>9 DEF DeliveryInv

\* The envelope changes hands, or nothing but the worker's position changes.
LEMMA MoveStep ==
    ASSUME DeliveryInv, TypeOK', WorkerHolds', DiskKept', Current' = Current,
           UNCHANGED <<nullSender, notify, accepted, reports, crashes, lost, faults>>,
           disk' \in {disk, env}, env' \in {disk, env},
           step' \in {"notify", "complete"} \/ place' = "completed" =>
               env' = env /\ (step \in {"notify", "complete"} \/ place = "completed")
    PROVE  DeliveryInv'
<1>1. \A r, k : Told(r, k)' = Told(r, k)
    BY DEF Told
<1>2. TakenOnce' /\ MarksCount' /\ NumbersUsed'
    BY <1>1 DEF DeliveryInv, TakenOnce, MarksCount, NumbersUsed
<1>3. NotifyRespected' /\ DistinctReports'
    BY DEF DeliveryInv, NotifyRespected, DistinctReports, WantsFailureDSN, WantsDelayDSN, WantsSuccessDSN
<1>4. ASSUME Reporting' PROVE MarksTell(disk)' /\ MarksTell(env)' /\ BounceTells'
    <2>1. MarksTell(disk) /\ MarksTell(env) /\ BounceTells
        BY <1>4 DEF DeliveryInv, Reporting
    <2>2. MarksTell(disk)' /\ MarksTell(env)'
        BY <1>1, <2>1 DEF MarksTell, WantsFailureDSN
    <2>3. BounceTells'
        BY <1>1, <2>1 DEF BounceTells, WantsFailureDSN
    <2> QED
        BY <2>2, <2>3
<1> QED
    BY <1>2, <1>3, <1>4 DEF DeliveryInv

\* A relay takes the message, rejects recipients, or puts them off: what was settled
\* stays, and what a relay took is settled or its answer lost.
LEMMA RelayStep ==
    ASSUME DeliveryInv, TypeOK', step = "relay", step' \in {"relay", "decide"}, place' = place,
           UNCHANGED <<nullSender, notify, disk, reports, crashes, faults>>,
           env'.DSNSent = env.DSNSent, env'.DelayWarned = env.DelayWarned, env'.DSNSeq = env.DSNSeq,
           \A r \in Rcpts :
               /\ env'.status[r] \in {env.status[r], "delivered", "permfail"}
               /\ env.status[r] # "pending" => env'.status[r] = env.status[r] /\ accepted'[r] = accepted[r]
               /\ \/ accepted'[r] = accepted[r]
                  \/ accepted'[r] = accepted[r] + 1 /\ (env'.status[r] # "pending" \/ lost' = lost + 1),
           lost' \in {lost, lost + 1}
    PROVE  DeliveryInv'
<1>1. \A r, k : Told(r, k)' = Told(r, k)
    BY DEF Told
<1>2. place = "claimed" /\ Current = env /\ Current' = env' /\ WorkerHolds'
    BY DEF DeliveryInv, WorkerHolds, Current
<1>3. /\ accepted \in [Rcpts -> Nat] /\ crashes \in Nat /\ lost \in Nat
      /\ \A r \in Rcpts : accepted[r] \in Nat
    BY DEF DeliveryInv, TypeOK
<1>4. DiskKept'
    <2>1. \A r \in Rcpts : disk.status[r] # "pending" => env.status[r] = disk.status[r]
        BY <1>2 DEF DeliveryInv, DiskKept
    <2> QED
        BY <2>1 DEF DiskKept
<1>5. TakenOnce'
    <2> SUFFICES ASSUME NEW r \in Rcpts
                 PROVE  accepted'[r] <= crashes + lost' + (IF env'.status[r] = "pending" THEN 0 ELSE 1)
        BY <1>2 DEF TakenOnce
    <2>1. accepted[r] <= crashes + lost + (IF env.status[r] = "pending" THEN 0 ELSE 1)
        BY <1>2 DEF DeliveryInv, TakenOnce
    <2>2. CASE env.status[r] # "pending"
        BY <1>3, <2>1, <2>2
    <2>3. CASE env.status[r] = "pending"
        BY <1>3, <2>1, <2>3
    <2> QED
        BY <2>2, <2>3
<1>6. MarksCount' /\ NumbersUsed'
    BY <1>1, <1>2 DEF DeliveryInv, MarksCount, NumbersUsed
<1>7. NotifyRespected' /\ DistinctReports'
    BY DEF DeliveryInv, NotifyRespected, DistinctReports, WantsFailureDSN, WantsDelayDSN, WantsSuccessDSN
<1>8. ASSUME Reporting' PROVE MarksTell(disk)' /\ MarksTell(env)' /\ BounceTells'
    <2>1. MarksTell(disk) /\ MarksTell(env)
        BY <1>8 DEF DeliveryInv, Reporting
    <2>2. MarksTell(disk)'
        BY <1>1, <2>1 DEF MarksTell, WantsFailureDSN
    <2>3. MarksTell(env)'
        BY <1>1, <2>1 DEF MarksTell, WantsFailureDSN
    <2>4. BounceTells'
        BY <1>2 DEF BounceTells
    <2> QED
        BY <2>2, <2>3, <2>4
<1> QED
    BY <1>2, <1>4, <1>5, <1>6, <1>7, <1>8 DEF DeliveryInv

\* The process dies: the spool's copy is what is left, and the count of crashes pays
\* for what the worker knew better.
LEMMA CrashStep ==
    ASSUME DeliveryInv, TypeOK', Crash
    PROVE  DeliveryInv'
<1>0. /\ place = "claimed" /\ crashes' = crashes + 1 /\ place' = "queued" /\ env' = Fresh /\ step' = "idle"
      /\ UNCHANGED <<nullSender, notify, disk, accepted, reports, lost, faults>>
    BY DEF Crash, Goto, message
<1>1. \A r, k : Told(r, k)' = Told(r, k)
    BY <1>0 DEF Told
<1>2. Current = env /\ Current' = disk
    BY <1>0 DEF Current
<1>3. /\ accepted \in [Rcpts -> Nat] /\ crashes \in Nat /\ lost \in Nat /\ reports \in Seq(Report)
      /\ \A r \in Rcpts : accepted[r] \in Nat
    BY DEF DeliveryInv, TypeOK, Report
<1>4. WorkerHolds' /\ DiskKept'
    BY <1>0 DEF WorkerHolds, DiskKept
<1>5. TakenOnce'
    <2> SUFFICES ASSUME NEW r \in Rcpts
                 PROVE  accepted[r] <= crashes + 1 + lost + (IF disk.status[r] = "pending" THEN 0 ELSE 1)
        BY <1>0, <1>2 DEF TakenOnce
    <2>1. accepted[r] <= crashes + lost + (IF env.status[r] = "pending" THEN 0 ELSE 1)
        BY <1>2 DEF DeliveryInv, TakenOnce
    <2> QED
        BY <1>3, <2>1
<1>6. MarksCount'
    <2> SUFFICES ASSUME NEW r \in Rcpts
                 PROVE  /\ Cardinality(Told(r, "delayed")) <= crashes + 1 + (IF disk.DelayWarned THEN 1 ELSE 0)
                        /\ \A k \in {"failed", "relayed"} :
                              Cardinality(Told(r, k)) <= crashes + 1 + (IF disk.DSNSent[r] THEN 1 ELSE 0)
        BY <1>0, <1>1, <1>2 DEF MarksCount
    <2>1. \A k : Cardinality(Told(r, k)) \in Nat
        BY <1>3, ToldFinite
    <2>2. Cardinality(Told(r, "delayed")) <= crashes + (IF env.DelayWarned THEN 1 ELSE 0)
        BY <1>2 DEF DeliveryInv, MarksCount
    <2>3. \A k \in {"failed", "relayed"} :
              Cardinality(Told(r, k)) <= crashes + (IF env.DSNSent[r] THEN 1 ELSE 0)
        BY <1>2 DEF DeliveryInv, MarksCount
    <2> QED
        BY <1>3, <2>1, <2>2, <2>3
<1>7. NumbersUsed' /\ DistinctReports'
    BY <1>0, <1>3 DEF NumbersUsed, DistinctReports
<1>8. NotifyRespected'
    BY <1>0 DEF DeliveryInv, NotifyRespected, WantsFailureDSN, WantsDelayDSN, WantsSuccessDSN
<1>9. ASSUME Reporting' PROVE MarksTell(disk)' /\ MarksTell(env)' /\ BounceTells'
    <2>1. MarksTell(disk)
        BY <1>0, <1>9 DEF DeliveryInv, Reporting
    <2>2. MarksTell(disk)'
        BY <1>0, <1>1, <2>1 DEF MarksTell, WantsFailureDSN
    <2>3. \A r \in Rcpts : Fresh.status[r] = "pending" /\ Fresh.DSNSent[r] = FALSE
        BY DEF Fresh
    <2>4. MarksTell(env)'
        BY <1>0, <2>3 DEF MarksTell
    <2>5. BounceTells'
        BY <1>0 DEF BounceTells
    <2> QED
        BY <2>2, <2>4, <2>5
<1> QED
    BY <1>4, <1>5, <1>6, <1>7, <1>8, <1>9 DEF DeliveryInv

\* Whoever a report names wants to hear of it.
Wanted(kind, rs) ==
    \A r \in rs : CASE kind = "failed" -> WantsFailureDSN(r)
                    [] kind = "delayed" -> WantsDelayDSN(r)
                    [] kind = "relayed" -> WantsSuccessDSN(r)

\* A report on the recipients rs, from the envelope e with its marks set.
LEMMA ReportStep ==
    ASSUME DeliveryInv, TypeOK', WorkerHolds', place = "claimed", place' = place,
           UNCHANGED <<nullSender, notify, disk, accepted, crashes, lost>>,
           NEW e \in Contents, NEW kind \in Kinds, NEW rs \in SUBSET Rcpts, Bounce(e, kind, rs),
           Wanted(kind, rs), e.DSNSeq = env.DSNSeq,
           \A r \in Rcpts :
               \/ e.status[r] = env.status[r]
               \/ env.status[r] = "pending" /\ e.status[r] = "expired" /\ (Reporting /\ WantsFailureDSN(r) => r \in rs /\ kind = "failed"),
           kind = "delayed" => ~env.DelayWarned /\ e.DelayWarned /\ e.DSNSent = env.DSNSent,
           kind # "delayed" =>
               /\ e.DelayWarned = env.DelayWarned
               /\ \A r \in rs : ~env.DSNSent[r] /\ e.status[r] # "pending"
               /\ \A r \in rs : kind = "relayed" => e.status[r] = "delivered"
               /\ ~nullSender => \A r \in Rcpts : e.DSNSent[r] <=> (env.DSNSent[r] \/ r \in rs),
           nullSender => \A r \in Rcpts : env.DSNSent[r] => e.DSNSent[r],
           step' \in {"notify", "complete"} =>
               \/ step \in {"notify", "complete"} /\ e.status = env.status
               \/ kind = "failed" /\ \A r \in Rcpts : e.status[r] = "permfail" /\ WantsFailureDSN(r) => e.DSNSent[r]
               \/ nullSender
    PROVE  DeliveryInv'
<1>0. /\ accepted \in [Rcpts -> Nat] /\ crashes \in Nat /\ lost \in Nat /\ faults \in Nat
      /\ reports \in Seq(Report) /\ env \in Contents /\ env.DSNSeq \in Nat /\ TypeOK
    BY DEF DeliveryInv, TypeOK, Report, Contents
<1>1. Current = env /\ Current' = env'
    BY DEF Current
<1>2. /\ env'.status = e.status /\ env'.DSNSent = e.DSNSent /\ env'.DelayWarned = e.DelayWarned
      /\ \/ /\ UNCHANGED reports /\ env'.DSNSeq \in {e.DSNSeq, e.DSNSeq + 1}
            /\ \/ faults' = faults + 1
               \/ faults' = faults /\ (rs = {} \/ nullSender \/ ~DSNEnabled)
         \/ /\ ~nullSender /\ UNCHANGED faults /\ env'.DSNSeq = e.DSNSeq + 1
            /\ \E m \in Report : /\ m.id = e.DSNSeq + 1 /\ m.kind = kind /\ m.rcpts = rs
                                 /\ reports' = Append(reports, m)
    BY <1>0, BounceFacts
<1>3. DiskKept'
    <2>1. \A r \in Rcpts : disk.status[r] # "pending" => env.status[r] = disk.status[r]
        BY DEF DeliveryInv, DiskKept
    <2> QED
        BY <1>2, <2>1 DEF DiskKept
<1>4. TakenOnce'
    <2> SUFFICES ASSUME NEW r \in Rcpts
                 PROVE  accepted[r] <= crashes + lost + (IF e.status[r] = "pending" THEN 0 ELSE 1)
        BY <1>1, <1>2 DEF TakenOnce
    <2>1. accepted[r] <= crashes + lost + (IF env.status[r] = "pending" THEN 0 ELSE 1)
        BY <1>1 DEF DeliveryInv, TakenOnce
    <2>2. e.status[r] = env.status[r] \/ (env.status[r] = "pending" /\ e.status[r] = "expired")
        OBVIOUS
    <2> QED
        BY <1>0, <2>1, <2>2
<1>5. ASSUME NEW r \in Rcpts
      PROVE  (env.DSNSent[r] => e.DSNSent[r]) /\ (env.DelayWarned => e.DelayWarned)
    BY <1>0 DEF Kinds
<1>6. CASE UNCHANGED reports
    <2>1. \A r, k : Told(r, k)' = Told(r, k)
        BY <1>6 DEF Told
    <2>2. MarksCount'
        <3> SUFFICES ASSUME NEW r \in Rcpts
                     PROVE  /\ Cardinality(Told(r, "delayed")) <= crashes + (IF e.DelayWarned THEN 1 ELSE 0)
                            /\ \A k \in {"failed", "relayed"} :
                                  Cardinality(Told(r, k)) <= crashes + (IF e.DSNSent[r] THEN 1 ELSE 0)
            BY <1>1, <1>2, <2>1 DEF MarksCount
        <3>1. \A k : Cardinality(Told(r, k)) \in Nat
            BY <1>0, ToldFinite
        <3>2. Cardinality(Told(r, "delayed")) <= crashes + (IF env.DelayWarned THEN 1 ELSE 0)
            BY <1>1 DEF DeliveryInv, MarksCount
        <3>3. \A k \in {"failed", "relayed"} :
                  Cardinality(Told(r, k)) <= crashes + (IF env.DSNSent[r] THEN 1 ELSE 0)
            BY <1>1 DEF DeliveryInv, MarksCount
        <3> QED
            BY <1>0, <1>5, <3>1, <3>2, <3>3
    <2>3. NumbersUsed' /\ DistinctReports'
        <3>1. \A i \in DOMAIN reports : reports[i].id \in Nat
            BY <1>0, ReportsNumbered
        <3>2. crashes = 0 => \A i \in DOMAIN reports : reports[i].id <= env.DSNSeq
            BY <1>1 DEF DeliveryInv, NumbersUsed
        <3>3. env'.DSNSeq \in Nat /\ env.DSNSeq <= env'.DSNSeq
            BY <1>0, <1>2
        <3>4. NumbersUsed'
            BY <1>0, <1>1, <1>6, <3>1, <3>2, <3>3 DEF NumbersUsed
        <3> QED
            BY <1>6, <3>4 DEF DeliveryInv, DistinctReports
    <2>4. NotifyRespected'
        BY <1>6 DEF DeliveryInv, NotifyRespected, WantsFailureDSN, WantsDelayDSN, WantsSuccessDSN
    <2>5. ASSUME Reporting' PROVE MarksTell(disk)' /\ MarksTell(env)' /\ BounceTells'
        <3>1. rs = {} /\ Reporting
            BY <1>0, <1>2, <1>6, <2>5 DEF Reporting
        <3>2. MarksTell(disk) /\ MarksTell(env) /\ BounceTells
            BY <3>1 DEF DeliveryInv
        <3>3. MarksTell(disk)'
            BY <2>1, <3>2 DEF MarksTell, WantsFailureDSN
        <3>4. \A r \in Rcpts : e.DSNSent[r] <=> env.DSNSent[r]
            BY <3>1 DEF Reporting
        <3>5. \A r \in Rcpts : e.status[r] = env.status[r] \/ (e.status[r] = "expired" /\ ~WantsFailureDSN(r))
            BY <3>1
        <3>6. \A r \in Rcpts : WantsFailureDSN(r)' = WantsFailureDSN(r)
            BY DEF WantsFailureDSN
        <3>7. MarksTell(env)'
            BY <1>2, <2>1, <3>2, <3>4, <3>5, <3>6 DEF MarksTell
        <3>8. BounceTells'
            <4> SUFFICES ASSUME step' \in {"notify", "complete"}, NEW r \in Rcpts,
                                e.status[r] = "permfail", WantsFailureDSN(r)
                         PROVE  Told(r, "failed") # {}
                BY <1>2, <2>1, <3>6 DEF BounceTells
            <4>1. env.status[r] = "permfail"
                BY <3>5
            <4>2. CASE step \in {"notify", "complete"}
                BY <3>2, <4>1, <4>2 DEF BounceTells
            <4>3. CASE e.DSNSent[r]
                BY <3>2, <3>4, <4>1, <4>3 DEF MarksTell
            <4> QED
                BY <3>1, <4>2, <4>3 DEF Reporting
        <3> QED
            BY <3>3, <3>7, <3>8
    <2> QED
        BY <1>3, <1>4, <2>2, <2>3, <2>4, <2>5 DEF DeliveryInv
<1>7. CASE ~UNCHANGED reports
    <2>1. ~nullSender /\ UNCHANGED faults /\ env'.DSNSeq = e.DSNSeq + 1
        BY <1>2, <1>7
    <2>2. PICK m \in Report : m.id = e.DSNSeq + 1 /\ m.kind = kind /\ m.rcpts = rs /\ reports' = Append(reports, m)
        BY <1>2, <1>7
    <2>3. \A r \in Rcpts, k \in Kinds :
              /\ m.kind = k /\ r \in m.rcpts =>
                    Told(r, k)' # {} /\ Cardinality(Told(r, k)') = Cardinality(Told(r, k)) + 1
              /\ ~(m.kind = k /\ r \in m.rcpts) => Told(r, k)' = Told(r, k)
              /\ Told(r, k) # {} => Told(r, k)' # {}
        BY <1>0, <2>2, ToldAppend
    <2>4. MarksCount'
        <3> SUFFICES ASSUME NEW r \in Rcpts
                     PROVE  /\ Cardinality(Told(r, "delayed")') <= crashes + (IF e.DelayWarned THEN 1 ELSE 0)
                            /\ \A k \in {"failed", "relayed"} :
                                  Cardinality(Told(r, k)') <= crashes + (IF e.DSNSent[r] THEN 1 ELSE 0)
            BY <1>1, <1>2 DEF MarksCount
        <3>1. \A k : Cardinality(Told(r, k)) \in Nat
            BY <1>0, ToldFinite
        <3>2. Cardinality(Told(r, "delayed")) <= crashes + (IF env.DelayWarned THEN 1 ELSE 0)
            BY <1>1 DEF DeliveryInv, MarksCount
        <3>3. \A k \in {"failed", "relayed"} :
                  Cardinality(Told(r, k)) <= crashes + (IF env.DSNSent[r] THEN 1 ELSE 0)
            BY <1>1 DEF DeliveryInv, MarksCount
        <3>4. \A k \in Kinds : \/ Cardinality(Told(r, k)') = Cardinality(Told(r, k)) + 1 /\ k = kind /\ r \in rs
                               \/ Cardinality(Told(r, k)') = Cardinality(Told(r, k))
            BY <2>2, <2>3
        <3>5. Cardinality(Told(r, "delayed")') <= crashes + (IF e.DelayWarned THEN 1 ELSE 0)
            <4>1. CASE kind = "delayed"
                BY <1>0, <3>1, <3>2, <3>4, <4>1 DEF Kinds
            <4>2. CASE kind # "delayed"
                BY <1>0, <3>1, <3>2, <3>4, <4>2 DEF Kinds
            <4> QED
                BY <4>1, <4>2
        <3>6. ASSUME NEW k \in {"failed", "relayed"}
              PROVE  Cardinality(Told(r, k)') <= crashes + (IF e.DSNSent[r] THEN 1 ELSE 0)
            <4>0. Cardinality(Told(r, k)) \in Nat /\ k \in Kinds /\ k # "delayed"
                BY <3>1 DEF Kinds
            <4>1. Cardinality(Told(r, k)) <= crashes + (IF env.DSNSent[r] THEN 1 ELSE 0)
                BY <3>3
            <4>2. CASE k = kind /\ r \in rs
                <5>1. ~env.DSNSent[r] /\ e.DSNSent[r]
                    BY <2>1, <4>0, <4>2
                <5>2. Cardinality(Told(r, k)) <= crashes
                    BY <1>0, <4>1, <5>1
                <5> QED
                    BY <1>0, <3>4, <4>0, <5>1, <5>2
            <4>3. CASE ~(k = kind /\ r \in rs)
                <5>1. Cardinality(Told(r, k)') = Cardinality(Told(r, k))
                    BY <3>4, <4>0, <4>3
                <5> QED
                    BY <1>0, <1>5, <4>0, <4>1, <5>1
            <4> QED
                BY <4>2, <4>3
        <3> QED
            BY <3>5, <3>6
    <2>5. PICK n \in Nat : n = Len(reports)
        BY <1>0
    <2>6. /\ DOMAIN reports = 1..n /\ DOMAIN reports' = 1..(n + 1)
          /\ reports'[n + 1] = m /\ \A i \in 1..n : reports'[i] = reports[i]
        BY <1>0, <2>2, <2>5
    <2>7. \A i \in DOMAIN reports' : \/ i = n + 1 /\ reports'[i] = m
                                     \/ i \in DOMAIN reports /\ i # n + 1 /\ reports'[i] = reports[i]
        BY <2>6
    <2>8. NumbersUsed' /\ DistinctReports'
        <3>1. \A i \in DOMAIN reports : reports[i].id \in Nat
            BY <1>0, ReportsNumbered
        <3>2. crashes = 0 => \A i \in DOMAIN reports : reports[i].id <= env.DSNSeq
            BY <1>1 DEF DeliveryInv, NumbersUsed
        <3>3. m.id = env.DSNSeq + 1 /\ env'.DSNSeq = env.DSNSeq + 1
            BY <2>1, <2>2
        <3>4. crashes = 0 => \A i \in DOMAIN reports : reports[i].id <= env.DSNSeq + 1 /\ reports[i].id # m.id
            BY <1>0, <3>1, <3>2, <3>3
        <3>5. NumbersUsed'
            BY <1>0, <1>1, <2>7, <3>3, <3>4 DEF NumbersUsed
        <3>6. crashes = 0 => \A i, j \in DOMAIN reports : reports[i].id = reports[j].id => i = j
            BY DEF DeliveryInv, DistinctReports
        <3>7. DistinctReports'
            BY <2>7, <3>4, <3>6 DEF DistinctReports
        <3> QED
            BY <3>5, <3>7
    <2>9. NotifyRespected'
        <3>1. \A r : /\ WantsFailureDSN(r)' = WantsFailureDSN(r) /\ WantsDelayDSN(r)' = WantsDelayDSN(r)
                     /\ WantsSuccessDSN(r)' = WantsSuccessDSN(r)
            BY DEF WantsFailureDSN, WantsDelayDSN, WantsSuccessDSN
        <3>2. \A i \in DOMAIN reports : Wanted(reports[i].kind, reports[i].rcpts)
            BY DEF DeliveryInv, NotifyRespected, Wanted
        <3>3. \A i \in DOMAIN reports' : Wanted(reports'[i].kind, reports'[i].rcpts)
            BY <2>2, <2>7, <3>2
        <3>4. nullSender' = FALSE
            <4>1. nullSender \in BOOLEAN
                BY <1>0 DEF TypeOK
            <4> QED
                BY <2>1, <4>1
        <3> QED
            BY <3>1, <3>3, <3>4 DEF NotifyRespected, Wanted
    <2>10. ASSUME Reporting' PROVE MarksTell(disk)' /\ MarksTell(env)' /\ BounceTells'
        <3>0. Reporting
            BY <2>1, <2>10 DEF Reporting
        <3>1. MarksTell(disk) /\ MarksTell(env) /\ BounceTells
            BY <3>0 DEF DeliveryInv
        <3>2. \A r \in Rcpts : WantsFailureDSN(r)' = WantsFailureDSN(r)
            BY DEF WantsFailureDSN
        <3>3. \A r \in Rcpts : Told(r, "failed") # {} => Told(r, "failed")' # {}
            BY <2>3 DEF Kinds
        <3>4. \A r \in rs : kind = "failed" => Told(r, "failed")' # {}
            BY <2>2, <2>3 DEF Kinds
        <3>5. MarksTell(disk)'
            BY <3>1, <3>2, <3>3 DEF MarksTell
        <3>6. ASSUME NEW r \in Rcpts
              PROVE  /\ e.DSNSent[r] => e.status[r] # "pending"
                     /\ e.status[r] = "expired" /\ WantsFailureDSN(r) => Told(r, "failed")' # {}
                     /\ e.status[r] = "permfail" /\ e.DSNSent[r] => Told(r, "failed")' # {}
            <4>1. /\ env.DSNSent[r] => env.status[r] # "pending"
                  /\ env.status[r] = "expired" /\ WantsFailureDSN(r) => Told(r, "failed")' # {}
                  /\ env.status[r] = "permfail" /\ env.DSNSent[r] => Told(r, "failed")' # {}
                BY <3>1, <3>3 DEF MarksTell
            <4>2. e.DSNSent[r] => env.DSNSent[r] \/ (r \in rs /\ kind # "delayed")
                BY <2>1
            <4>3. r \in rs /\ kind # "delayed" => e.status[r] # "pending"
                OBVIOUS
            <4>4. e.DSNSent[r] => e.status[r] # "pending"
                BY <4>1, <4>2, <4>3
            <4>5. e.status[r] = "expired" /\ WantsFailureDSN(r) => Told(r, "failed")' # {}
                BY <3>0, <3>4, <4>1
            <4>6. e.status[r] = "permfail" /\ e.DSNSent[r] => Told(r, "failed")' # {}
                BY <3>4, <4>1, <4>2 DEF Kinds
            <4> QED
                BY <4>4, <4>5, <4>6
        <3>7. MarksTell(env)'
            BY <1>2, <3>2, <3>6 DEF MarksTell
        <3>8. BounceTells'
            <4> SUFFICES ASSUME step' \in {"notify", "complete"}, NEW r \in Rcpts,
                                e.status[r] = "permfail", WantsFailureDSN(r)
                         PROVE  Told(r, "failed")' # {}
                BY <1>2, <3>2 DEF BounceTells
            <4>1. CASE step \in {"notify", "complete"} /\ e.status = env.status
                BY <3>1, <3>3, <4>1 DEF BounceTells
            <4>2. CASE e.DSNSent[r]
                BY <3>6, <4>2
            <4> QED
                BY <2>1, <4>1, <4>2
        <3> QED
            BY <3>5, <3>7, <3>8
    <2> QED
        BY <1>3, <1>4, <2>4, <2>8, <2>9, <2>10 DEF DeliveryInv
<1> QED
    BY <1>6, <1>7

-----------------------------------------------------------------------------
(* The steps of Next.                                                      *)

\* A step that leaves the envelope, or writes the worker's copy of it to the spool.
LEMMA HandOver ==
    ASSUME DeliveryInv, TypeOK',
           \/ Claim \/ UnknownGroup \/ Unclaim \/ ListTargets \/ CannotOpenBody \/ RelayFails \/ NoRelayLeft
           \/ Decide \/ Complete \/ Bury \/ Reschedule \/ Tick \/ UNCHANGED vars
    PROVE  DeliveryInv'
<1>0. WorkerHolds /\ DiskKept
    BY DEF DeliveryInv
<1>1. CASE Claim
    <2>1. /\ place = "queued" /\ place' = "claimed" /\ env' = disk /\ step' = "lookup"
          /\ UNCHANGED <<nullSender, notify, disk, accepted, reports, crashes, lost, faults>>
        BY <1>1 DEF Claim, Goto, message, bounds
    <2>2. WorkerHolds' /\ DiskKept' /\ Current' = Current
        BY <2>1 DEF WorkerHolds, DiskKept, Current
    <2> QED
        BY <2>1, <2>2, MoveStep
<1>2. CASE UnknownGroup \/ ListTargets \/ CannotOpenBody \/ RelayFails \/ NoRelayLeft \/ Decide
    <2>1. /\ step \in {"lookup", "relay", "decide"} /\ step' \in {"defer", "relay", "decide", "bounce"}
          /\ UNCHANGED <<nullSender, notify, place, disk, env, accepted, reports, crashes, lost, faults>>
        BY <1>2 DEF UnknownGroup, ListTargets, CannotOpenBody, RelayFails, NoRelayLeft, Decide, Goto,
                    message, spool, bounds
    <2>2. place = "claimed" /\ WorkerHolds' /\ DiskKept' /\ Current' = Current
        BY <1>0, <2>1 DEF WorkerHolds, DiskKept, Current
    <2> QED
        BY <2>1, <2>2, MoveStep
<1>3. CASE Unclaim \/ Reschedule
    <2>1. /\ step # "idle" /\ step' = "idle" /\ place' = "queued" /\ disk' = env
          /\ UNCHANGED <<nullSender, notify, env, accepted, reports, crashes, lost, faults>>
        BY <1>3 DEF Unclaim, Reschedule, Goto, message, bounds
    <2>2. place = "claimed" /\ WorkerHolds' /\ DiskKept' /\ Current' = Current
        BY <1>0, <2>1 DEF WorkerHolds, DiskKept, Current
    <2> QED
        BY <2>1, <2>2, MoveStep
<1>4. CASE Complete
    <2>1. /\ step = "complete" /\ step' = "idle" /\ place' = "completed"
          /\ UNCHANGED <<nullSender, notify, disk, env, accepted, reports, crashes, lost, faults>>
        BY <1>4 DEF Complete, Goto, message, bounds
    <2>2. place = "claimed" /\ WorkerHolds' /\ DiskKept' /\ Current' = Current
        BY <1>0, <2>1 DEF WorkerHolds, DiskKept, Current
    <2> QED
        BY <2>1, <2>2, MoveStep
<1>5. CASE Bury
    <2>1. /\ step = "bury" /\ step' = "idle" /\ place' = "buried" /\ disk' = env
          /\ UNCHANGED <<nullSender, notify, env, accepted, reports, crashes, lost, faults>>
        BY <1>5 DEF Bury, Goto, message, bounds
    <2>2. place = "claimed" /\ WorkerHolds' /\ DiskKept' /\ Current' = Current
        BY <1>0, <2>1 DEF WorkerHolds, DiskKept, Current
    <2> QED
        BY <2>1, <2>2, MoveStep
<1>6. CASE Tick \/ UNCHANGED vars
    <2>1. UNCHANGED <<nullSender, notify, place, step, disk, env, accepted, reports, crashes, lost, faults>>
        BY <1>6 DEF Tick, vars, message, spool, worker, bounds
    <2>2. WorkerHolds' /\ DiskKept' /\ Current' = Current
        BY <1>0, <2>1 DEF WorkerHolds, DiskKept, Current
    <2> QED
        BY <2>1, <2>2, MoveStep
<1> QED
    BY <1>1, <1>2, <1>3, <1>4, <1>5, <1>6

\* A relay answers, or takes what it got of a body that ends early.
LEMMA Conversation ==
    ASSUME DeliveryInv, TypeOK', RelayTakesPart \/ RelayAnswers
    PROVE  DeliveryInv'
<1>0. TypeOK /\ accepted \in [Rcpts -> Nat] /\ env \in Contents /\ lost \in Nat
    BY DEF DeliveryInv, TypeOK
<1>1. CASE RelayTakesPart
    <2>1. PICK taken \in SUBSET Pending(env) :
              accepted' = [r \in Rcpts |-> IF r \in taken THEN accepted[r] + 1 ELSE accepted[r]]
        BY <1>1 DEF RelayTakesPart
    <2>2. /\ step = "relay" /\ step' = step /\ place' = place /\ lost' = lost + 1
          /\ UNCHANGED <<nullSender, notify, disk, env, reports, crashes, faults>>
        BY <1>1 DEF RelayTakesPart, message, spool
    <2>3. \A r \in Rcpts :
              /\ env.status[r] # "pending" => accepted'[r] = accepted[r]
              /\ accepted'[r] = accepted[r] \/ accepted'[r] = accepted[r] + 1
        BY <2>1 DEF Pending
    <2> QED
        BY <2>2, <2>3, RelayStep
<1>2. CASE RelayAnswers
    <2>1. PICK rejected \in SUBSET Pending(env), deferred \in SUBSET Pending(env),
               data \in {"delivered", "rejected", "deferred", "lost"} : Answered(rejected, deferred, data)
        BY <1>2, AnswerFacts
    <2>2. PICK taken \in SUBSET Pending(env) : taken = Pending(env) \ (rejected \cup deferred)
        OBVIOUS
    <2>3. PICK s : s = [r \in Rcpts |-> Recorded(r, rejected, taken, data)]
        OBVIOUS
    <2>4. env' = [env EXCEPT !.status = s]
        BY <2>1, <2>2, <2>3 DEF Answered
    <2>5. /\ env'.status = s /\ env'.DSNSent = env.DSNSent
          /\ env'.DelayWarned = env.DelayWarned /\ env'.DSNSeq = env.DSNSeq
        BY <1>0, <2>4 DEF Contents
    <2>6. /\ step = "relay" /\ step' = "decide" /\ place' = place
          /\ UNCHANGED <<nullSender, notify, disk, reports, crashes, faults>>
        BY <1>2 DEF RelayAnswers, Goto, message, spool
    <2>7. /\ accepted' = [r \in Rcpts |-> IF r \in taken /\ data \in {"delivered", "lost"}
                                          THEN accepted[r] + 1 ELSE accepted[r]]
          /\ lost' = IF data = "lost" THEN lost + 1 ELSE lost
        BY <2>1, <2>2 DEF Answered
    <2>8. ASSUME NEW r \in Rcpts
          PROVE  /\ env'.status[r] \in {env.status[r], "delivered", "permfail"}
                 /\ env.status[r] # "pending" => env'.status[r] = env.status[r] /\ accepted'[r] = accepted[r]
                 /\ \/ accepted'[r] = accepted[r]
                    \/ accepted'[r] = accepted[r] + 1 /\ (env'.status[r] # "pending" \/ lost' = lost + 1)
        <3>1. env'.status[r] = Recorded(r, rejected, taken, data)
            BY <2>3, <2>5
        <3>2. /\ Recorded(r, rejected, taken, data) \in {env.status[r], "delivered", "permfail"}
              /\ env.status[r] # "pending" => Recorded(r, rejected, taken, data) = env.status[r]
              /\ r \in taken /\ r \notin rejected /\ data = "delivered" =>
                     Recorded(r, rejected, taken, data) = "delivered"
            BY <1>0, RecordedFacts
        <3>3. r \in taken => r \notin rejected /\ env.status[r] = "pending"
            BY <2>2 DEF Pending
        <3>4. accepted'[r] = IF r \in taken /\ data \in {"delivered", "lost"}
                             THEN accepted[r] + 1 ELSE accepted[r]
            BY <2>7
        <3> QED
            BY <2>7, <3>1, <3>2, <3>3, <3>4
    <2>9. lost' \in {lost, lost + 1}
        BY <2>7
    <2> QED
        BY <2>5, <2>6, <2>8, <2>9, RelayStep
<1> QED
    BY <1>1, <1>2

\* The failure report before Complete.
LEMMA FailureReport ==
    ASSUME DeliveryInv, TypeOK', BounceFailed
    PROVE  DeliveryInv'
<1>0. TypeOK /\ env \in Contents /\ WorkerHolds
    BY DEF DeliveryInv, TypeOK
<1>1. PICK rs \in SUBSET Rcpts :
          /\ rs = {r \in Rcpts : env.status[r] = "permfail" /\ ~env.DSNSent[r] /\ WantsFailureDSN(r)}
          /\ Bounce(IF nullSender THEN env ELSE Mark(env, rs), "failed", rs)
    BY DEF BounceFailed
<1>2. PICK e : e = IF nullSender THEN env ELSE Mark(env, rs)
    OBVIOUS
<1>3. /\ Mark(env, rs) \in Contents /\ Mark(env, rs).status = env.status
      /\ Mark(env, rs).DelayWarned = env.DelayWarned /\ Mark(env, rs).DSNSeq = env.DSNSeq
      /\ \A r \in Rcpts : Mark(env, rs).DSNSent[r] <=> (env.DSNSent[r] \/ r \in rs)
    BY <1>0, MarkFacts
<1>4. /\ e \in Contents /\ e.status = env.status /\ e.DelayWarned = env.DelayWarned /\ e.DSNSeq = env.DSNSeq
      /\ nullSender => e.DSNSent = env.DSNSent
      /\ ~nullSender => \A r \in Rcpts : e.DSNSent[r] <=> (env.DSNSent[r] \/ r \in rs)
    BY <1>0, <1>2, <1>3
<1>5. /\ step = "bounce" /\ step' = "notify" /\ place' = place
      /\ UNCHANGED <<nullSender, notify, disk, accepted, crashes, lost>>
    BY DEF BounceFailed, Goto, message, spool
<1>6. place = "claimed" /\ WorkerHolds'
    BY <1>0, <1>5 DEF WorkerHolds
<1>7. Bounce(e, "failed", rs) /\ "failed" \in Kinds
    BY <1>1, <1>2 DEF Kinds
<1>8. Wanted("failed", rs) /\ \A r \in rs : env.status[r] = "permfail" /\ ~env.DSNSent[r]
    BY <1>1 DEF Wanted
<1>9. nullSender \/ \A r \in Rcpts : e.status[r] = "permfail" /\ WantsFailureDSN(r) => e.DSNSent[r]
    BY <1>1, <1>4
<1> QED
    BY <1>4, <1>5, <1>6, <1>7, <1>8, <1>9, ReportStep

\* The "relayed" report.
LEMMA SuccessReport ==
    ASSUME DeliveryInv, TypeOK', NotifyRelayed
    PROVE  DeliveryInv'
<1>0. TypeOK /\ env \in Contents /\ WorkerHolds
    BY DEF DeliveryInv, TypeOK
<1>1. PICK rs \in SUBSET Rcpts :
          /\ rs = {r \in Rcpts : env.status[r] = "delivered" /\ ~env.DSNSent[r] /\ WantsSuccessDSN(r)}
          /\ Bounce(IF nullSender THEN env ELSE Mark(env, rs), "relayed", rs)
    BY DEF NotifyRelayed
<1>2. PICK e : e = IF nullSender THEN env ELSE Mark(env, rs)
    OBVIOUS
<1>3. /\ Mark(env, rs) \in Contents /\ Mark(env, rs).status = env.status
      /\ Mark(env, rs).DelayWarned = env.DelayWarned /\ Mark(env, rs).DSNSeq = env.DSNSeq
      /\ \A r \in Rcpts : Mark(env, rs).DSNSent[r] <=> (env.DSNSent[r] \/ r \in rs)
    BY <1>0, MarkFacts
<1>4. /\ e \in Contents /\ e.status = env.status /\ e.DelayWarned = env.DelayWarned /\ e.DSNSeq = env.DSNSeq
      /\ nullSender => e.DSNSent = env.DSNSent
      /\ ~nullSender => \A r \in Rcpts : e.DSNSent[r] <=> (env.DSNSent[r] \/ r \in rs)
    BY <1>0, <1>2, <1>3
<1>5. /\ step = "notify" /\ step' = "complete" /\ place' = place
      /\ UNCHANGED <<nullSender, notify, disk, accepted, crashes, lost>>
    BY DEF NotifyRelayed, Goto, message, spool
<1>6. place = "claimed" /\ WorkerHolds'
    BY <1>0, <1>5 DEF WorkerHolds
<1>7. Bounce(e, "relayed", rs) /\ "relayed" \in Kinds
    BY <1>1, <1>2 DEF Kinds
<1>8. Wanted("relayed", rs) /\ \A r \in rs : env.status[r] = "delivered" /\ ~env.DSNSent[r]
    BY <1>1 DEF Wanted
<1> QED
    BY <1>4, <1>5, <1>6, <1>7, <1>8, ReportStep

\* The failure report of an envelope whose lifetime is over.
LEMMA ExpiryReport ==
    ASSUME DeliveryInv, TypeOK', Expire
    PROVE  DeliveryInv'
<1>0. TypeOK /\ env \in Contents /\ WorkerHolds /\ (Reporting => MarksTell(env))
    BY DEF DeliveryInv, TypeOK
<1>1. PICK s : s = [r \in Rcpts |-> IF r \in Pending(env) THEN "expired" ELSE env.status[r]]
    OBVIOUS
<1>2. PICK gone : gone = [env EXCEPT !.status = s]
    OBVIOUS
<1>3. s \in [Rcpts -> Statuses] /\ \A r \in Rcpts : s[r] = IF env.status[r] = "pending" THEN "expired" ELSE env.status[r]
    BY <1>0, <1>1 DEF Contents, Statuses, Pending
<1>4. /\ gone \in Contents /\ gone.status = s /\ gone.DSNSent = env.DSNSent
      /\ gone.DelayWarned = env.DelayWarned /\ gone.DSNSeq = env.DSNSeq
    BY <1>0, <1>2, <1>3 DEF Contents
<1>5. [env EXCEPT !.status = [r \in Rcpts |-> IF r \in Pending(env) THEN "expired" ELSE @[r]]] = gone
    BY <1>1, <1>2
<1>6. PICK rs \in SUBSET Rcpts :
          /\ rs = {r \in Pending(env) : WantsFailureDSN(r) /\ ~env.DSNSent[r]}
          /\ Bounce(Mark(gone, rs), "failed", rs)
    BY <1>5 DEF Expire, Pending
<1>7. PICK e : e = Mark(gone, rs)
    OBVIOUS
<1>8. /\ e \in Contents /\ e.status = s /\ e.DelayWarned = env.DelayWarned /\ e.DSNSeq = env.DSNSeq
      /\ \A r \in Rcpts : e.DSNSent[r] <=> (env.DSNSent[r] \/ r \in rs)
    BY <1>4, <1>7, MarkFacts
<1>9. /\ step = "defer" /\ step' = "bury" /\ place' = place
      /\ UNCHANGED <<nullSender, notify, disk, accepted, crashes, lost>>
    BY DEF Expire, Goto, message, spool
<1>10. place = "claimed" /\ WorkerHolds'
    BY <1>0, <1>9 DEF WorkerHolds
<1>11. Bounce(e, "failed", rs) /\ "failed" \in Kinds
    BY <1>6, <1>7 DEF Kinds
<1>12. Wanted("failed", rs) /\ \A r \in rs : env.status[r] = "pending" /\ ~env.DSNSent[r]
    BY <1>6 DEF Wanted, Pending
<1>13. Reporting => \A r \in Rcpts : env.status[r] = "pending" /\ WantsFailureDSN(r) => r \in rs
    BY <1>0, <1>6 DEF MarksTell, Pending
<1>14. \A r \in Rcpts :
           \/ e.status[r] = env.status[r]
           \/ env.status[r] = "pending" /\ e.status[r] = "expired" /\ (Reporting /\ WantsFailureDSN(r) => r \in rs)
    BY <1>3, <1>8, <1>13
<1>15. \A r \in rs : ~env.DSNSent[r] /\ e.status[r] # "pending"
    BY <1>3, <1>8, <1>12
<1> QED
    BY <1>8, <1>9, <1>10, <1>11, <1>12, <1>14, <1>15, ReportStep

\* The warning, or none, before the envelope is put off.
LEMMA DelayReport ==
    ASSUME DeliveryInv, TypeOK', WarnDelayed
    PROVE  DeliveryInv'
<1>0. TypeOK /\ env \in Contents /\ WorkerHolds /\ DiskKept
    BY DEF DeliveryInv, TypeOK
<1>1. /\ step = "defer" /\ step' = "reschedule" /\ place' = place
      /\ UNCHANGED <<nullSender, notify, disk, accepted, crashes, lost>>
    BY DEF WarnDelayed, Goto, message, spool
<1>2. place = "claimed" /\ WorkerHolds'
    BY <1>0, <1>1 DEF WorkerHolds
<1>3. CASE UNCHANGED <<env, reports, faults>>
    <2>1. DiskKept' /\ Current' = Current
        BY <1>0, <1>1, <1>3 DEF DiskKept, Current
    <2> QED
        BY <1>1, <1>2, <1>3, <2>1, MoveStep
<1>4. CASE ~UNCHANGED <<env, reports, faults>>
    <2>1. PICK e : e = [env EXCEPT !.DelayWarned = TRUE]
        OBVIOUS
    <2>2. /\ e \in Contents /\ e.status = env.status /\ e.DSNSent = env.DSNSent
          /\ e.DelayWarned /\ e.DSNSeq = env.DSNSeq
        BY <1>0, <2>1 DEF Contents
    <2>3. PICK rs \in SUBSET Rcpts :
              /\ rs = {r \in Pending(env) : WantsDelayDSN(r)}
              /\ ~env.DelayWarned /\ ~nullSender /\ Bounce(e, "delayed", rs)
        BY <1>4, <2>1 DEF WarnDelayed, Pending
    <2>4. Wanted("delayed", rs) /\ "delayed" \in Kinds
        BY <2>3 DEF Wanted, Kinds
    <2> QED
        BY <1>1, <1>2, <2>2, <2>3, <2>4, ReportStep
<1> QED
    BY <1>3, <1>4

\* Every step keeps the invariant.
LEMMA DeliveryNextInv == DeliveryInv /\ [Next]_vars => DeliveryInv'
<1> SUFFICES ASSUME DeliveryInv, [Next]_vars PROVE DeliveryInv'
    OBVIOUS
<1>1. TypeOK'
    BY DeliveryTypes DEF DeliveryInv
<1> QED
    BY <1>1, HandOver, Conversation, FailureReport, SuccessReport, ExpiryReport, DelayReport, CrashStep
    DEF Next, Attempt, Rest

-----------------------------------------------------------------------------
(* The theorems.                                                           *)

\* The marks and statuses in the envelope, the relays' copies and the reports queued
\* agree in every reachable state, whatever is retried, lost or crashes.
THEOREM DeliveryInvariant == Spec => []DeliveryInv
BY DeliveryInitInv, DeliveryNextInv, PTL DEF Spec

\* Every variable of the delivery loop has its type.
THEOREM DeliveryTyped == Spec => []TypeOK
<1>1. DeliveryInv => TypeOK
    BY DEF DeliveryInv
<1> QED
    BY <1>1, DeliveryInvariant, PTL

\* Runner.record makes the retries of an envelope pass over whom a relay has taken: the
\* message reaches a recipient once, and once more for each crash and each lost answer.
THEOREM RetriesExplained == Spec => []DuplicatesExplained
<1>1. DeliveryInv => DuplicatesExplained
    <2> SUFFICES ASSUME DeliveryInv, NEW r \in Rcpts PROVE accepted[r] <= 1 + crashes + lost
        BY DEF DuplicatesExplained
    <2>1. accepted[r] \in Nat /\ crashes \in Nat /\ lost \in Nat
        BY DEF DeliveryInv, TypeOK
    <2>2. accepted[r] <= crashes + lost + (IF Current.status[r] = "pending" THEN 0 ELSE 1)
        BY DEF DeliveryInv, TakenOnce
    <2> QED
        BY <2>1, <2>2
<1> QED
    BY <1>1, DeliveryInvariant, PTL

\* Runner.bounceFailed and Runner.expire: no rejected recipient of a completed envelope, and no
\* expired one of a buried envelope, goes unreported to a sender who can be told and wants to be.
THEOREM FailuresAreTold == Spec => []FailuresReported
<1>1. DeliveryInv => FailuresReported
    <2> SUFFICES ASSUME DeliveryInv, Reporting PROVE FailuresReported
        BY DEF FailuresReported, Reporting
    <2>1. MarksTell(disk) /\ BounceTells
        BY DEF DeliveryInv
    <2> QED
        BY <2>1 DEF FailuresReported, MarksTell, BounceTells
<1> QED
    BY <1>1, DeliveryInvariant, PTL

\* DSNSent and DelayWarned keep every kind of report to one per recipient and crash.
THEOREM ReportsNotRepeated == Spec => []ReportedOnce
<1>1. DeliveryInv => ReportedOnce
    <2> SUFFICES ASSUME DeliveryInv, NEW r \in Rcpts, NEW k \in Kinds
                 PROVE  Cardinality(Told(r, k)) <= 1 + crashes
        BY DEF ReportedOnce
    <2>1. reports \in Seq(Report) /\ crashes \in Nat
        BY DEF DeliveryInv, TypeOK, Report
    <2>2. Cardinality(Told(r, k)) \in Nat
        BY <2>1, ToldFinite
    <2>3. /\ Cardinality(Told(r, "delayed")) <= crashes + (IF Current.DelayWarned THEN 1 ELSE 0)
          /\ \A q \in {"failed", "relayed"} :
                Cardinality(Told(r, q)) <= crashes + (IF Current.DSNSent[r] THEN 1 ELSE 0)
        BY DEF DeliveryInv, MarksCount
    <2>4. Cardinality(Told(r, k)) <= crashes + 1
        <3>1. CASE k = "delayed"
            BY <2>1, <2>2, <2>3, <3>1
        <3>2. CASE k \in {"failed", "relayed"}
            BY <2>1, <2>2, <2>3, <3>2
        <3> QED
            BY <3>1, <3>2 DEF Kinds
    <2> QED
        BY <2>1, <2>2, <2>4
<1> QED
    BY <1>1, DeliveryInvariant, PTL

\* DSNSeq gives each notification of an envelope a number, and so a spool file, of its own.
THEOREM ReportsAreDistinct == Spec => []DistinctReports
<1>1. DeliveryInv => DistinctReports
    BY DEF DeliveryInv
<1> QED
    BY <1>1, DeliveryInvariant, PTL

\* Bounce never writes to a null sender, nor of what a sender declined with NOTIFY.
THEOREM NotifyIsRespected == Spec => []NotifyRespected
<1>1. DeliveryInv => NotifyRespected
    BY DEF DeliveryInv
<1> QED
    BY <1>1, DeliveryInvariant, PTL

\* Unclaim, Reschedule and Bury write the worker's copy over the spool's, and never undo
\* what an earlier attempt recorded of a recipient.
THEOREM StatusStaysFinal == Spec => StatusIsFinal
<1>1. ASSUME DeliveryInv, [Next]_vars
      PROVE  [\A r \in Rcpts : disk.status[r] # "pending" => disk'.status[r] = disk.status[r]]_vars
    <2>1. CASE disk' = disk
        BY <2>1
    <2>2. CASE disk' # disk
        <3>1. Unclaim \/ Bury \/ Reschedule
            BY <1>1, <2>2 DEF Next, Attempt, Rest, vars, Claim, UnknownGroup, ListTargets, CannotOpenBody,
               RelayFails, RelayTakesPart, RelayAnswers, NoRelayLeft, Decide, BounceFailed, NotifyRelayed,
               Complete, Expire, WarnDelayed, Crash, Tick, spool
        <3>2. disk' = env /\ step # "idle"
            BY <3>1 DEF Unclaim, Bury, Reschedule
        <3>3. place = "claimed"
            BY <1>1, <3>2 DEF DeliveryInv, WorkerHolds
        <3> QED
            BY <1>1, <3>2, <3>3 DEF DeliveryInv, DiskKept
    <2> QED
        BY <2>1, <2>2
<1> QED
    BY <1>1, DeliveryInvariant, PTL DEF Spec, StatusIsFinal
=============================================================================
