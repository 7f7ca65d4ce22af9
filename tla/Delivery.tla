------------------------------ MODULE Delivery ------------------------------
(***************************************************************************)
(* The life of one envelope in the delivery loop: Runner.attempt and the   *)
(* paths out of it (internal/queue/runner.go), the recipient statuses      *)
(* (internal/queue/envelope.go), the relay conversation that decides them  *)
(* (internal/deliver/client.go) and the status notifications sent back to  *)
(* the sender (internal/queue/bounce.go).                                  *)
(*                                                                         *)
(* `disk` is the envelope as last written to the spool and `env` the copy  *)
(* the worker changes in memory; a crash loses the second.  The two-step   *)
(* moves of the spool itself are the subject of module Spool.              *)
(***************************************************************************)
EXTENDS Naturals, Sequences, FiniteSets

CONSTANTS
    Rcpts,           \* recipients of the envelope
    NotifyChoices,   \* NOTIFY parameters senders use; {} is none given
    Relays,          \* how many dial targets the relay group has
    DelayWarnAfter, MaxLifetime,  \* outbound.delay_warning_after, .max_lifetime
    DSNEnabled,      \* dsn.enabled, and a relay group takes the notification
    MaxAge,          \* bound: how long the clock runs
    MaxCrashes,      \* bound: restarts in the middle of an attempt
    MaxLost,         \* bound: replies to end-of-DATA lost or ignored
    MaxFaults        \* bound: notifications that fail to be written

Keywords == {"NEVER", "DELAY", "FAILURE", "SUCCESS"}

ASSUME DeliveryAssumption ==
    /\ IsFiniteSet(Rcpts) /\ Rcpts # {}
    /\ NotifyChoices \subseteq SUBSET Keywords /\ NotifyChoices # {}
    /\ Relays \in Nat /\ DelayWarnAfter \in Nat /\ MaxLifetime \in Nat
    /\ DSNEnabled \in BOOLEAN
    /\ MaxAge \in Nat /\ MaxCrashes \in Nat /\ MaxLost \in Nat /\ MaxFaults \in Nat

VARIABLES
    nullSender, notify,  \* the message: MAIL FROM:<> or a notification; NOTIFY per recipient
    place,               \* where the spool has the envelope
    disk, env,           \* its contents on disk, and in the worker's memory
    age, due,            \* time since QueuedAt; when the next attempt is due
    step, targets,       \* the worker's position; relays left to try
    accepted,            \* history: how often a relay took the message for a recipient
    reports,             \* history: the notifications queued, in order
    crashes, lost, faults

message == <<nullSender, notify>>
spool == <<place, disk, due>>
worker == <<env, step, targets>>
bounds == <<crashes, lost, faults>>
vars == <<message, spool, age, worker, accepted, reports, bounds>>

Kinds == {"failed", "delayed", "relayed"}
Statuses == {"pending", "delivered", "permfail", "expired"}
Contents == [status : [Rcpts -> Statuses], DSNSent : [Rcpts -> BOOLEAN],
             DelayWarned : BOOLEAN, DSNSeq : Nat]
Fresh == [status |-> [r \in Rcpts |-> "pending"], DSNSent |-> [r \in Rcpts |-> FALSE],
          DelayWarned |-> FALSE, DSNSeq |-> 0]

Pending(e) == {r \in Rcpts : e.status[r] = "pending"}
Done(e) == Pending(e) = {}

\* RFC 3461: nothing said means failures and, by this gateway's choice, delays.
WantsFailureDSN(r) == notify[r] = {} \/ "FAILURE" \in notify[r]
WantsDelayDSN(r) == notify[r] = {} \/ "DELAY" \in notify[r]
WantsSuccessDSN(r) == "SUCCESS" \in notify[r]

Init ==
    /\ nullSender \in BOOLEAN /\ notify \in [Rcpts -> NotifyChoices]
    /\ place = "queued" /\ disk = Fresh /\ env = Fresh
    /\ age = 0 /\ due = 0 /\ step = "idle" /\ targets = 0
    /\ accepted = [r \in Rcpts |-> 0] /\ reports = <<>>
    /\ crashes = 0 /\ lost = 0 /\ faults = 0

Goto(s) == step' = s

----------------------------------------------------------------------------
(* The attempt. *)

\* drain: the envelope is due, and its contents are read from inflight/.
Claim ==
    /\ place = "queued" /\ due <= age
    /\ place' = "claimed" /\ env' = disk /\ Goto("lookup")
    /\ UNCHANGED <<message, disk, due, age, targets, accepted, reports, bounds>>

\* Mutation: an unknown group is put back at once, past the lifetime check.
UnknownGroup_Requeues ==
    /\ step = "lookup" /\ Goto("idle")
    /\ place' = "queued" /\ disk' = env /\ due' = age
    /\ UNCHANGED <<message, age, env, targets, accepted, reports, bounds>>

\* The relay group is not in the configuration.
UnknownGroup ==
    /\ step = "lookup" /\ Goto("defer")
    /\ UNCHANGED <<message, spool, age, env, targets, accepted, reports, bounds>>

\* The context ended while waiting for a slot: back to q/, due now.
Unclaim ==
    /\ step = "lookup" /\ Goto("idle")
    /\ place' = "queued" /\ disk' = env /\ due' = age
    /\ UNCHANGED <<message, age, env, targets, accepted, reports, bounds>>

\* Runner.targets: a member whose MX lookup fails is skipped.
ListTargets ==
    /\ step = "lookup" /\ Goto("relay")
    /\ targets' \in 0 .. Relays
    /\ UNCHANGED <<message, spool, age, env, accepted, reports, bounds>>

\* The spooled body does not open.
CannotOpenBody ==
    /\ step = "relay" /\ targets > 0 /\ Goto("defer")
    /\ targets' = 0
    /\ UNCHANGED <<message, spool, age, env, accepted, reports, bounds>>

\* Result.Err: no connection, TLS, AUTH, MAIL FROM or a write that failed; the
\* next relay of the group is tried.
RelayFails ==
    /\ step = "relay" /\ targets > 0
    /\ targets' = targets - 1
    /\ UNCHANGED <<message, spool, age, env, step, accepted, reports, bounds>>

\* The spooled body cannot be read to its end: Deliver still closes the DATA stream,
\* ignores the reply, and the next relay is tried.  The relay may have taken what
\* it got.
RelayTakesPart ==
    /\ step = "relay" /\ targets > 0 /\ lost < MaxLost
    /\ targets' = targets - 1 /\ lost' = lost + 1
    /\ \E taken \in SUBSET Pending(env) :
        accepted' = [r \in Rcpts |-> IF r \in taken THEN accepted[r] + 1 ELSE accepted[r]]
    /\ UNCHANGED <<message, spool, age, env, step, reports, crashes, faults>>

\* Mutations of Runner.record: a 4xx is stored as a status of its own; only
\* rejections are stored.
Recorded_Tempfail(r, rejected, taken, data) ==
    CASE r \in rejected \/ (r \in taken /\ data = "rejected") -> "permfail"
      [] r \in taken /\ data = "delivered" -> "delivered"
      [] env.status[r] = "pending" -> "tempfail"
      [] OTHER -> env.status[r]
Recorded_OnlyRejections(r, rejected, taken, data) ==
    IF r \in rejected \/ (r \in taken /\ data = "rejected") THEN "permfail" ELSE env.status[r]

\* Runner.record: 2xx and 5xx settle a recipient, anything else leaves it as it is.
Recorded(r, rejected, taken, data) ==
    CASE r \in rejected \/ (r \in taken /\ data = "rejected") -> "permfail"
      [] r \in taken /\ data = "delivered" -> "delivered"
      [] OTHER -> env.status[r]

\* The relay answers.  RCPT decides some recipients one by one (classify), the
\* reply to DATA decides the others together, and record applies the result.
RelayAnswers ==
    /\ step = "relay" /\ targets > 0 /\ Goto("decide") /\ targets' = 0
    /\ \E rejected, deferred \in SUBSET Pending(env) :
       \E data \in {"delivered", "rejected", "deferred", "lost"} :
        LET taken == Pending(env) \ (rejected \cup deferred) IN
        /\ rejected \cap deferred = {}
        /\ data = "lost" => taken # {} /\ lost < MaxLost
        /\ env' = [env EXCEPT !.status = [r \in Rcpts |-> Recorded(r, rejected, taken, data)]]
        /\ accepted' = [r \in Rcpts |-> IF r \in taken /\ data \in {"delivered", "lost"}
                                        THEN accepted[r] + 1 ELSE accepted[r]]
        /\ lost' = IF data = "lost" THEN lost + 1 ELSE lost
    /\ UNCHANGED <<message, spool, age, reports, crashes, faults>>

NoRelayLeft ==
    /\ step = "relay" /\ targets = 0 /\ Goto("decide")
    /\ UNCHANGED <<message, spool, age, env, targets, accepted, reports, bounds>>

Decide ==
    /\ step = "decide" /\ Goto(IF Done(env) THEN "bounce" ELSE "defer")
    /\ UNCHANGED <<message, spool, age, env, targets, accepted, reports, bounds>>

----------------------------------------------------------------------------
(* Notifications. *)

\* Mutations: every notification gets the number 1; a null sender is written to.
Bounce_SameNumber(e, kind, rs) ==
    IF rs = {} \/ nullSender \/ ~DSNEnabled
      THEN env' = e /\ UNCHANGED <<reports, faults>>
      ELSE /\ env' = [e EXCEPT !.DSNSeq = 1]
           /\ reports' = Append(reports, [id |-> 1, kind |-> kind, rcpts |-> rs])
           /\ UNCHANGED faults
Bounce_ToNullSender(e, kind, rs) ==
    IF rs = {} \/ ~DSNEnabled
      THEN env' = e /\ UNCHANGED <<reports, faults>>
      ELSE /\ env' = [e EXCEPT !.DSNSeq = @ + 1]
           /\ reports' = Append(reports, [id |-> e.DSNSeq + 1, kind |-> kind, rcpts |-> rs])
           /\ UNCHANGED faults

\* Bouncer.Bounce: numbered by DSNSeq, spooled as an envelope of its own.  A
\* write that fails is logged and has used up the number.
Bounce(e, kind, rs) ==
    IF rs = {} \/ nullSender \/ ~DSNEnabled
      THEN env' = e /\ UNCHANGED <<reports, faults>>
      ELSE /\ env' = [e EXCEPT !.DSNSeq = @ + 1]
           /\ \/ /\ reports' = Append(reports, [id |-> e.DSNSeq + 1, kind |-> kind, rcpts |-> rs])
                 /\ UNCHANGED faults
              \/ faults < MaxFaults /\ faults' = faults + 1 /\ UNCHANGED reports

Mark(e, rs) == [e EXCEPT !.DSNSent = [r \in Rcpts |-> @[r] \/ r \in rs]]

\* Mutation: a message some recipient got is not reported on.
BounceFailed_OnlyTotal ==
    /\ step = "bounce" /\ Goto("notify")
    /\ LET rs == {r \in Rcpts : env.status[r] = "permfail" /\ ~env.DSNSent[r] /\ WantsFailureDSN(r)
                               /\ \A q \in Rcpts : env.status[q] # "delivered"} IN
       Bounce(IF nullSender THEN env ELSE Mark(env, rs), "failed", rs)
    /\ UNCHANGED <<message, spool, age, targets, accepted, crashes, lost>>

\* One failure report for the recipients relays rejected, before Complete.
BounceFailed ==
    /\ step = "bounce" /\ Goto("notify")
    /\ LET rs == {r \in Rcpts : env.status[r] = "permfail" /\ ~env.DSNSent[r] /\ WantsFailureDSN(r)} IN
       Bounce(IF nullSender THEN env ELSE Mark(env, rs), "failed", rs)
    /\ UNCHANGED <<message, spool, age, targets, accepted, crashes, lost>>

\* One "relayed" report for the senders who asked with NOTIFY=SUCCESS.
NotifyRelayed ==
    /\ step = "notify" /\ Goto("complete")
    /\ LET rs == {r \in Rcpts : env.status[r] = "delivered" /\ ~env.DSNSent[r] /\ WantsSuccessDSN(r)} IN
       Bounce(IF nullSender THEN env ELSE Mark(env, rs), "relayed", rs)
    /\ UNCHANGED <<message, spool, age, targets, accepted, crashes, lost>>

Complete ==
    /\ step = "complete" /\ Goto("idle") /\ place' = "completed"
    /\ UNCHANGED <<message, disk, due, age, env, targets, accepted, reports, bounds>>

Expired == MaxLifetime > 0 /\ age > MaxLifetime

\* Mutation: every recipient expires, the delivered ones too.
Expire_Everyone ==
    /\ step = "defer" /\ Expired /\ Goto("bury")
    /\ LET rs == {r \in Pending(env) : WantsFailureDSN(r) /\ ~env.DSNSent[r]}
           gone == [env EXCEPT !.status = [r \in Rcpts |-> "expired"]] IN
       Bounce(Mark(gone, rs), "failed", rs)
    /\ UNCHANGED <<message, spool, age, targets, accepted, crashes, lost>>

\* Runner.expire: pending recipients become expired, those who want to hear of
\* it are marked and reported, and the envelope goes to dead/.
Expire ==
    /\ step = "defer" /\ Expired /\ Goto("bury")
    /\ LET rs == {r \in Pending(env) : WantsFailureDSN(r) /\ ~env.DSNSent[r]}
           gone == [env EXCEPT !.status = [r \in Rcpts |-> IF r \in Pending(env) THEN "expired" ELSE @[r]]] IN
       Bounce(Mark(gone, rs), "failed", rs)
    /\ UNCHANGED <<message, spool, age, targets, accepted, crashes, lost>>

Bury ==
    /\ step = "bury" /\ Goto("idle") /\ place' = "buried" /\ disk' = env
    /\ UNCHANGED <<message, due, age, env, targets, accepted, reports, bounds>>

\* Mutation: the warning is not remembered.
WarnDelayed_Forgotten ==
    /\ step = "defer" /\ ~Expired /\ Goto("reschedule")
    /\ LET rs == {r \in Pending(env) : WantsDelayDSN(r)}
           late == DelayWarnAfter > 0 /\ ~nullSender /\ age > DelayWarnAfter IN
       IF late /\ rs # {} THEN Bounce(env, "delayed", rs) ELSE UNCHANGED <<env, reports, faults>>
    /\ UNCHANGED <<message, spool, age, targets, accepted, crashes, lost>>

\* Runner.warnDelayed: one delay report per envelope.
WarnDelayed ==
    /\ step = "defer" /\ ~Expired /\ Goto("reschedule")
    /\ LET rs == {r \in Pending(env) : WantsDelayDSN(r)}
           late == DelayWarnAfter > 0 /\ ~env.DelayWarned /\ ~nullSender /\ age > DelayWarnAfter IN
       IF late /\ rs # {}
         THEN Bounce([env EXCEPT !.DelayWarned = TRUE], "delayed", rs)
         ELSE UNCHANGED <<env, reports, faults>>
    /\ UNCHANGED <<message, spool, age, targets, accepted, crashes, lost>>

\* deferEnvelope's Reschedule persists what the attempt changed.
Reschedule ==
    /\ step = "reschedule" /\ Goto("idle")
    /\ place' = "queued" /\ disk' = env /\ due' = age + 1
    /\ UNCHANGED <<message, age, env, targets, accepted, reports, bounds>>

----------------------------------------------------------------------------
\* The process dies during the attempt; Recover queues the envelope as it was.
Crash ==
    /\ place = "claimed" /\ crashes < MaxCrashes
    /\ crashes' = crashes + 1
    /\ place' = "queued" /\ due' = age /\ env' = Fresh /\ targets' = 0 /\ Goto("idle")
    /\ UNCHANGED <<message, disk, age, accepted, reports, lost, faults>>

\* Past its bound the clock still runs until a queued envelope is due.
Tick ==
    /\ age < MaxAge \/ (place = "queued" /\ age < due)
    /\ age' = age + 1
    /\ UNCHANGED <<message, spool, worker, accepted, reports, bounds>>

\* The envelope is settled; the worker serves others.
Settled == place \in {"completed", "buried"}
Rest == Settled /\ UNCHANGED vars

Attempt ==
    \/ Claim \/ UnknownGroup \/ ListTargets \/ CannotOpenBody \/ RelayFails \/ RelayTakesPart
    \/ RelayAnswers \/ NoRelayLeft \/ Decide \/ BounceFailed \/ NotifyRelayed \/ Complete
    \/ Expire \/ Bury \/ WarnDelayed \/ Reschedule

Next == Attempt \/ Unclaim \/ Crash \/ Tick \/ Rest

\* The runner keeps running and time passes; a cancelled context is a shutdown,
\* so the worker that meets it every time is not a fair schedule.
Spec == Init /\ [][Next]_vars
FairSpec == Spec /\ WF_vars(Attempt) /\ SF_vars(UnknownGroup \/ ListTargets) /\ WF_vars(Tick)

----------------------------------------------------------------------------
\* Every variable has its type.
TypeOK ==
    /\ nullSender \in BOOLEAN /\ notify \in [Rcpts -> SUBSET Keywords]
    /\ place \in {"queued", "claimed", "completed", "buried"}
    /\ disk \in Contents /\ env \in Contents
    /\ age \in Nat /\ due \in Nat /\ targets \in Nat
    /\ step \in {"idle", "lookup", "relay", "decide", "bounce", "notify", "complete",
                 "defer", "bury", "reschedule"}
    /\ accepted \in [Rcpts -> Nat]
    /\ reports \in Seq([id : Nat, kind : Kinds, rcpts : SUBSET Rcpts])
    /\ crashes \in Nat /\ lost \in Nat /\ faults \in Nat

Told(r, kind) == {i \in DOMAIN reports : reports[i].kind = kind /\ r \in reports[i].rcpts}

\* Nobody receives the message twice unless the gateway crashed after a relay
\* took it, or the relay's answer was lost or ignored: a recipient recorded as delivered is
\* not sent again when the others of the envelope are retried.
DuplicatesExplained == \A r \in Rcpts : accepted[r] <= 1 + crashes + lost

\* A finished envelope leaves no failure untold: every rejected recipient of a
\* completed envelope, and every expired one of a buried envelope, is in a
\* failure report, if its sender can be told and has not declined.
FailuresReported ==
    faults = 0 /\ DSNEnabled /\ ~nullSender =>
        \A r \in Rcpts :
            /\ place = "completed" /\ env.status[r] = "permfail" /\ WantsFailureDSN(r)
                  => Told(r, "failed") # {}
            /\ place = "buried" /\ disk.status[r] = "expired" /\ WantsFailureDSN(r)
                  => Told(r, "failed") # {}

\* DSNSent and DelayWarned stop repeats: over all the attempts an envelope makes,
\* a recipient is named in one report of a kind, plus one for each crash.
ReportedOnce ==
    \A r \in Rcpts, k \in Kinds : Cardinality(Told(r, k)) <= 1 + crashes

\* The notifications of one envelope have different uuids, hence different spool
\* files, unless a crash made the worker forget how many it had numbered.
DistinctReports ==
    crashes = 0 => \A i, j \in DOMAIN reports : reports[i].id = reports[j].id => i = j

\* Nothing is sent to a null sender, or to a sender who declined that kind.
NotifyRespected ==
    \A i \in DOMAIN reports :
        /\ ~nullSender
        /\ \A r \in reports[i].rcpts :
            CASE reports[i].kind = "failed" -> WantsFailureDSN(r)
              [] reports[i].kind = "delayed" -> WantsDelayDSN(r)
              [] reports[i].kind = "relayed" -> WantsSuccessDSN(r)

\* What an attempt wrote to disk about a recipient is final: neither a retry nor
\* a restart makes a delivered or rejected recipient pending again.
StatusIsFinal ==
    [][\A r \in Rcpts : disk.status[r] # "pending" => disk'.status[r] = disk.status[r]]_vars

\* No envelope is retried for ever: with a lifetime configured, it is completed or
\* buried even if its relay group is gone or its body does not open.
EventuallySettled == <>Settled

\* docs: a notification is sent when "a relay rejected a recipient 5xx".  Every
\* rejected recipient of a settled envelope has been reported.
RejectionsReported ==
    faults = 0 /\ DSNEnabled /\ ~nullSender /\ Settled =>
        \A r \in Rcpts : env.status[r] = "permfail" /\ WantsFailureDSN(r) => Told(r, "failed") # {}

----------------------------------------------------------------------------
(* The inductive invariant behind the properties above.                     *)

\* The copy of the envelope the next step starts from.
Current == IF place = "queued" THEN disk ELSE env

\* The worker holds the envelope exactly while it is claimed.
WorkerHolds == place = "claimed" <=> step # "idle"

\* The worker never forgets what is settled on disk.
DiskKept ==
    place # "queued" =>
        \A r \in Rcpts : disk.status[r] # "pending" => env.status[r] = disk.status[r]

\* A recipient that is still pending was taken only by relays whose answer was lost
\* or whose attempt a crash cut short.
TakenOnce ==
    \A r \in Rcpts :
        accepted[r] <= crashes + lost + (IF Current.status[r] = "pending" THEN 0 ELSE 1)

\* The marks in the envelope count the reports that were queued.
MarksCount ==
    \A r \in Rcpts :
        /\ Cardinality(Told(r, "delayed")) <= crashes + (IF Current.DelayWarned THEN 1 ELSE 0)
        /\ \A k \in {"failed", "relayed"} :
              Cardinality(Told(r, k)) <= crashes + (IF Current.DSNSent[r] THEN 1 ELSE 0)

\* DSNSeq is the highest number in use.
NumbersUsed == crashes = 0 => \A i \in DOMAIN reports : reports[i].id <= Current.DSNSeq

\* Nothing keeps a report from being queued.
Reporting == faults = 0 /\ DSNEnabled /\ ~nullSender

\* Who is marked is settled; who expired, or was rejected and marked, was told.
MarksTell(e) ==
    \A r \in Rcpts :
        /\ e.DSNSent[r] => e.status[r] # "pending"
        /\ e.status[r] = "expired" /\ WantsFailureDSN(r) => Told(r, "failed") # {}
        /\ e.status[r] = "permfail" /\ e.DSNSent[r] => Told(r, "failed") # {}

\* After the bounce every rejected recipient was told.
BounceTells ==
    step \in {"notify", "complete"} \/ place = "completed" =>
        \A r \in Rcpts : env.status[r] = "permfail" /\ WantsFailureDSN(r) => Told(r, "failed") # {}

DeliveryInv ==
    /\ TypeOK /\ WorkerHolds /\ DiskKept /\ TakenOnce
    /\ NotifyRespected /\ MarksCount /\ NumbersUsed /\ DistinctReports
    /\ Reporting => MarksTell(disk) /\ MarksTell(env) /\ BounceTells
============================================================================
