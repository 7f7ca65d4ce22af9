------------------------------- MODULE Events -------------------------------
(***************************************************************************)
(* The audit pipeline of mailgw-go: the bounded client that posts events   *)
(* to logservice and spills what it cannot deliver (events/client.go), and *)
(* the replayers that resend spilled files (events/replay.go): the         *)
(* gateway's own background pass and an operator's command, two processes  *)
(* on one directory.                                                       *)
(*                                                                         *)
(* An event is in the buffer, in a sender's hand, counted as dropped, or   *)
(* in a file; logservice counts how often it accepted it.                  *)
(***************************************************************************)
EXTENDS Naturals, FiniteSets, Sequences

CONSTANTS
    AuditEvents,  \* the events the gateway wants to send
    Verdicts,     \* how logservice may take each of them
    Senders,      \* sender goroutines
    BufferSize,   \* capacity of the channel
    Retries,      \* retries after the first attempt
    MaxFails,     \* maxConsecutiveFailures of a replay pass
    MaxFaults,    \* bound: outages, lost answers, crashes, stalls, disk errors
    NoEvent

(* logservice stores an event (2xx), refuses it (4xx), or fails (5xx, no   *)
(* connection, no answer); it fails time after time for fewer events than  *)
(* MaxFails.                                                               *)
Answers == {"stores", "refuses", "fails"}

ASSUME EventsAssumption ==
    /\ Verdicts \subseteq [AuditEvents -> Answers]
    /\ \A f \in Verdicts : Cardinality({e \in AuditEvents : f[e] = "fails"}) < MaxFails
    /\ BufferSize \in Nat \ {0} /\ Retries \in Nat
    /\ MaxFails \in Nat \ {0} /\ MaxFaults \in Nat
    /\ NoEvent \notin AuditEvents

Replayers == {"gateway", "cli"}

VARIABLES
    verdict,   \* verdict[e]: how logservice takes e, the same every time
    up,        \* logservice is reachable
    accepted,  \* accepted[e]: how often logservice stored e
    send,      \* send[e]: the SMTP path's call of Send for e
    buffer,    \* the channel c.ch
    hand,      \* hand[s]: the event sender s delivers, and failed attempts
    running,   \* senders that have not returned
    closer,    \* shutdown: "open", "stopping" (the replayer), then Close:
               \* "waiting", "draining", "returned"
    deadline,  \* the shutdown's context has expired
    dropped,   \* events counted in Stats.Dropped
    unspilled, \* events counted in Stats.SpillFail
    gone,      \* history: events in memory when the gateway was killed
    late,      \* history: events put in the buffer after Close returned
    file,      \* file[e]: where e's spill file is
    names,     \* the spill files in the order of their names, oldest first
    rep,       \* rep[r]: a replayer
    owed,      \* history: owed[e], the times a fault may have doubled e
    faults     \* faults so far

clientVars == <<send, buffer, hand, running, closer, deadline, dropped, unspilled,
                gone, late>>
disk == <<file, names>>
vars == <<verdict, up, accepted, clientVars, disk, rep, owed, faults>>

(* A spill file: absent, pending, claimed by a replayer, filed under       *)
(* rejected/, or deleted by the retention sweep or the operator.  "aged"   *)
(* is the age of the claim or of the rejection; a file just moved to       *)
(* rejected/ still has the age of the spill.                               *)
File(at, by, aged) == [at |-> at, by |-> by, aged |-> aged]
Absent  == File("absent", "nobody", FALSE)
Pending == File("pending", "nobody", FALSE)
Files == [at : {"absent", "pending", "claimed", "rejected", "deleted"},
          by : Replayers \cup {"nobody"}, aged : BOOLEAN]

Empty == [event |-> NoEvent, failed |-> 0]
Idle  == [pc |-> "idle", todo |-> {}, event |-> NoEvent, fails |-> 0]

Held == {hand[s].event : s \in Senders} \ {NoEvent}

Init ==
    /\ verdict \in Verdicts
    /\ up = TRUE
    /\ accepted = [e \in AuditEvents |-> 0]
    /\ send = [e \in AuditEvents |-> "new"]
    /\ buffer = {}
    /\ hand = [s \in Senders |-> Empty]
    /\ running = Senders
    /\ closer = "open"
    /\ deadline = FALSE
    /\ dropped = {} /\ unspilled = {} /\ gone = {} /\ late = {}
    /\ file = [e \in AuditEvents |-> Absent]
    /\ names = <<>>
    /\ rep = [r \in Replayers |-> Idle]
    /\ owed = [e \in AuditEvents |-> 0]
    /\ faults = 0

(* n faults happen in this step; n = 0 is the undisturbed step.            *)
Faulty(n) == faults + n <= MaxFaults /\ faults' = faults + n

Owe(S) == owed' = [e \in AuditEvents |-> IF e \in S THEN owed[e] + 1 ELSE owed[e]]

Outage ==
    /\ up /\ Faulty(1)
    /\ up' = FALSE
    /\ UNCHANGED <<verdict, accepted, clientVars, disk, rep, owed>>

Recover ==
    /\ ~up
    /\ up' = TRUE
    /\ UNCHANGED <<verdict, accepted, clientVars, disk, rep, owed, faults>>

-----------------------------------------------------------------------------
(* Send: a check of c.closed and, later, a non-blocking send.              *)

Closed == closer \notin {"open", "stopping"}

\* Mutation: no return after the check of c.closed.
SendCheck_NoReturn(e) ==
    /\ send[e] = "new"
    /\ send' = [send EXCEPT ![e] = "checked"]
    /\ dropped' = IF Closed THEN dropped \cup {e} ELSE dropped
    /\ UNCHANGED <<verdict, up, accepted, buffer, hand, running, closer, deadline,
                   unspilled, gone, late, disk, rep, owed, faults>>

SendCheck(e) ==
    /\ send[e] = "new"
    /\ IF Closed
       THEN send' = [send EXCEPT ![e] = "done"] /\ dropped' = dropped \cup {e}
       ELSE send' = [send EXCEPT ![e] = "checked"] /\ UNCHANGED dropped
    /\ UNCHANGED <<verdict, up, accepted, buffer, hand, running, closer, deadline,
                   unspilled, gone, late, disk, rep, owed, faults>>

\* Mutation: one event more than the channel holds.
SendPut_OverCapacity(e) ==
    /\ send[e] = "checked"
    /\ send' = [send EXCEPT ![e] = "done"]
    /\ Cardinality(buffer) <= BufferSize
    /\ buffer' = buffer \cup {e}
    /\ UNCHANGED <<verdict, up, accepted, hand, running, closer, deadline, dropped,
                   unspilled, gone, late, disk, rep, owed, faults>>

SendPut(e) ==
    /\ send[e] = "checked"
    /\ send' = [send EXCEPT ![e] = "done"]
    /\ \/ /\ Cardinality(buffer) < BufferSize
          /\ buffer' = buffer \cup {e}
          /\ late' = IF closer = "returned" THEN late \cup {e} ELSE late
          /\ UNCHANGED dropped
       \/ /\ Cardinality(buffer) >= BufferSize
          /\ dropped' = dropped \cup {e}
          /\ UNCHANGED <<buffer, late>>
    /\ UNCHANGED <<verdict, up, accepted, hand, running, closer, deadline, unspilled,
                   gone, disk, rep, owed, faults>>

-----------------------------------------------------------------------------
(* A sender: take, attempt (several times), and return once Close has      *)
(* begun and the buffer is empty.                                          *)

Take(s, e) ==
    /\ s \in running /\ hand[s] = Empty /\ e \in buffer
    /\ buffer' = buffer \ {e}
    /\ hand' = [hand EXCEPT ![s].event = e]
    /\ UNCHANGED <<verdict, up, accepted, send, running, closer, deadline, dropped,
                   unspilled, gone, late, disk, rep, owed, faults>>

\* Mutation: a sender waits for the end of Close, which waits for it.
SenderReturns_AfterClose(s) ==
    /\ s \in running /\ hand[s] = Empty
    /\ closer = "returned" /\ buffer = {}
    /\ running' = running \ {s}
    /\ UNCHANGED <<verdict, up, accepted, send, buffer, hand, closer, deadline, dropped,
                   unspilled, gone, late, disk, rep, owed, faults>>

SenderReturns(s) ==
    /\ s \in running /\ hand[s] = Empty
    /\ Closed /\ buffer = {}
    /\ running' = running \ {s}
    /\ UNCHANGED <<verdict, up, accepted, send, buffer, hand, closer, deadline, dropped,
                   unspilled, gone, late, disk, rep, owed, faults>>

(* spill commits through a rename, under a name newer than all others; or  *)
(* it fails (full = 1) and is counted.                                     *)
spill(e, full) ==
    \/ /\ full = 0
       /\ file' = [file EXCEPT ![e] = Pending]
       /\ names' = Append(names, e)
       /\ UNCHANGED unspilled
    \/ /\ full = 1
       /\ unspilled' = unspilled \cup {e}
       /\ UNCHANGED disk

(* One POST: logservice stores the event or not, and answers; when the     *)
(* answer is lost the row stays, and may come a second time.               *)
PostEvent(e, reached, answer, lost) ==
    /\ answer = IF reached /\ lost = 0 THEN verdict[e] ELSE "fails"
    /\ lost = 1 => reached /\ verdict[e] = "stores"
    /\ IF reached /\ verdict[e] = "stores"
       THEN accepted' = [accepted EXCEPT ![e] = @ + 1] ELSE UNCHANGED accepted
    /\ IF lost = 1 THEN Owe({e}) ELSE UNCHANGED owed

(* One round of deliver's loop.  Past the deadline the event is spilled    *)
(* without an attempt; a 4xx spills it at once; anything else is tried     *)
(* again until the retries are used up, and then spilled.                  *)
Deliver(s) ==
    LET e == hand[s].event
        Finish == hand' = [hand EXCEPT ![s] = Empty]
    IN  /\ s \in running /\ e # NoEvent
        /\ \E lost, full \in {0, 1}, answer \in Answers :
              /\ Faulty(lost + full)
              /\ \/ deadline /\ lost = 0 /\ answer = "fails" /\ UNCHANGED <<accepted, owed>>
                 \/ ~deadline /\ PostEvent(e, up, answer, lost)
              /\ \/ /\ answer = "stores" /\ full = 0
                    /\ Finish
                    /\ UNCHANGED <<disk, unspilled>>
                 \/ /\ deadline \/ answer = "refuses" \/ hand[s].failed = Retries
                    /\ answer # "stores"
                    /\ Finish
                    /\ spill(e, full)
                 \/ /\ ~deadline /\ answer = "fails" /\ full = 0
                    /\ hand[s].failed < Retries
                    /\ hand' = [hand EXCEPT ![s].failed = @ + 1]
                    /\ UNCHANGED <<disk, unspilled>>
        /\ UNCHANGED <<verdict, up, send, buffer, running, closer, deadline, dropped,
                       gone, late, rep>>

-----------------------------------------------------------------------------
(* The end of shutdown: cancel the replayer and wait for it as long as the *)
(* deadline allows, then Close: mark, wait for the senders, and drop what  *)
(* raced in behind them.                                                   *)

StopReplayer ==
    /\ closer = "open"
    /\ closer' = "stopping"
    /\ UNCHANGED <<verdict, up, accepted, send, buffer, hand, running, deadline, dropped,
                   unspilled, gone, late, disk, rep, owed, faults>>

Deadline ==
    /\ closer \notin {"open", "returned"} /\ ~deadline
    /\ deadline' = TRUE
    /\ UNCHANGED <<verdict, up, accepted, send, buffer, hand, running, closer, dropped,
                   unspilled, gone, late, disk, rep, owed, faults>>

CloseBegins ==
    /\ closer = "stopping"
    /\ rep["gateway"].pc = "idle" \/ deadline
    /\ closer' = "waiting"
    /\ UNCHANGED <<verdict, up, accepted, send, buffer, hand, running, deadline, dropped,
                   unspilled, gone, late, disk, rep, owed, faults>>

SendersDone ==
    /\ closer = "waiting" /\ running = {}
    /\ closer' = "draining"
    /\ UNCHANGED <<verdict, up, accepted, send, buffer, hand, running, deadline, dropped,
                   unspilled, gone, late, disk, rep, owed, faults>>

\* Mutation: Close returns as soon as the senders have.
DrainOne_Skipped ==
    /\ closer = "draining"
    /\ closer' = "returned"
    /\ UNCHANGED <<verdict, up, accepted, send, buffer, hand, running, deadline, dropped,
                   unspilled, gone, late, disk, rep, owed, faults>>

DrainOne ==
    /\ closer = "draining"
    /\ \/ \E e \in buffer : /\ buffer' = buffer \ {e}
                            /\ dropped' = dropped \cup {e}
                            /\ UNCHANGED closer
       \/ /\ buffer = {}
          /\ closer' = "returned"
          /\ UNCHANGED <<buffer, dropped>>
    /\ UNCHANGED <<verdict, up, accepted, send, hand, running, deadline, unspilled, gone,
                   late, disk, rep, owed, faults>>

(* The replayer's row is stored and its file not yet removed.              *)
Unremoved(r) == IF rep[r].pc = "remove" THEN {rep[r].event} ELSE {}

(* The gateway process ends, killed or after Close, and is started again.  *)
(* What was in memory is gone; the files and the claims it held stay.      *)
GatewayRestarts ==
    LET cut == {e \in AuditEvents : send[e] = "checked"} IN
    /\ Faulty(1)
    /\ gone' = gone \cup cut \cup (IF closer = "returned" THEN {} ELSE buffer \cup Held)
    /\ send' = [e \in AuditEvents |-> IF e \in cut THEN "done" ELSE send[e]]
    /\ buffer' = {}
    /\ hand' = [s \in Senders |-> Empty]
    /\ running' = Senders
    /\ closer' = "open" /\ deadline' = FALSE
    /\ rep' = [rep EXCEPT !["gateway"] = Idle]
    /\ Owe(Unremoved("gateway"))
    /\ UNCHANGED <<verdict, up, accepted, dropped, unspilled, late, disk>>

-----------------------------------------------------------------------------
(* A replayer: one pass of RunOnce, file by file.                          *)

(* The gateway's pass runs under a context that shutdown cancels, in a     *)
(* goroutine that ends with the process.                                   *)
Cancelled(r) == r = "gateway" /\ closer # "open"
Alive(r) == r = "cli" \/ closer # "returned"

At(r, pc) == rep' = [rep EXCEPT ![r].pc = pc]

(* The file is dealt with: go on with the next one, or stop after too many *)
(* failures in a row.                                                      *)
Done(r, deferred) ==
    LET fails == IF deferred THEN rep[r].fails + 1 ELSE 0 IN
    rep' = [rep EXCEPT ![r] =
              [pc |-> "pass", event |-> NoEvent, fails |-> fails,
               todo |-> IF fails >= MaxFails THEN {} ELSE @.todo \ {@.event}]]

(* r's claim is still where r left it.                                     *)
HasClaim(r, e) == file[e].at = "claimed" /\ file[e].by = r

\* Mutation: nothing releases a claim its holder never got back to.
Reclaimed_Never == file

Reclaimed == [e \in AuditEvents |->
                IF file[e].at = "claimed" /\ file[e].aged THEN Pending ELSE file[e]]

(* Reclaim what was abandoned, then list what is pending.                  *)
PassBegins(r) ==
    /\ rep[r].pc = "idle" /\ ~Cancelled(r)
    /\ file' = Reclaimed
    /\ rep' = [rep EXCEPT ![r] = [Idle EXCEPT !.pc = "pass",
                 !.todo = {e \in AuditEvents : file'[e].at = "pending"}]]
    /\ UNCHANGED <<verdict, up, accepted, clientVars, names, owed, faults>>

Oldest(S) == LET first == CHOOSE i \in DOMAIN names :
                            /\ names[i] \in S
                            /\ \A j \in 1..(i - 1) : names[j] \notin S
             IN  names[first]

\* Mutation: a claim that leaves the file for others to claim as well.
Claim_Shared(r) ==
    /\ rep[r].pc = "pass" /\ ~Cancelled(r) /\ rep[r].todo # {}
    /\ LET e == Oldest(rep[r].todo) IN
          /\ file[e].at \in {"pending", "claimed"}
          /\ file' = [file EXCEPT ![e] = File("claimed", r, FALSE)]
          /\ rep' = [rep EXCEPT ![r].pc = "post", ![r].event = e]
    /\ UNCHANGED <<verdict, up, accepted, clientVars, names, owed, faults>>

(* The oldest file first.  The rename is the lock: it fails when another   *)
(* replayer got there before.                                              *)
Claim(r) ==
    /\ rep[r].pc = "pass" /\ ~Cancelled(r) /\ rep[r].todo # {}
    /\ LET e == Oldest(rep[r].todo) IN
       \/ /\ file[e].at = "pending"
          /\ file' = [file EXCEPT ![e] = File("claimed", r, FALSE)]
          /\ rep' = [rep EXCEPT ![r].pc = "post", ![r].event = e]
       \/ /\ file[e].at # "pending"
          /\ rep' = [rep EXCEPT ![r].pc = "defer", ![r].event = e]
          /\ UNCHANGED file
    /\ UNCHANGED <<verdict, up, accepted, clientVars, names, owed, faults>>

Defer(r) ==
    /\ rep[r].pc = "defer" /\ Alive(r)
    /\ Done(r, TRUE)
    /\ UNCHANGED <<verdict, up, accepted, clientVars, disk, owed, faults>>

Outcome(answer) == CASE answer = "stores"  -> "remove"
                     [] answer = "refuses" -> "reject"
                     [] OTHER              -> "unclaim"

Post(r) ==
    /\ rep[r].pc = "post" /\ Alive(r)
    /\ \E lost \in {0, 1}, answer \in Answers :
          /\ Faulty(lost)
          /\ PostEvent(rep[r].event, up /\ ~Cancelled(r), answer, lost)
          /\ At(r, Outcome(answer))
    /\ UNCHANGED <<verdict, up, clientVars, disk>>

(* A claim that cannot be removed stays, to be reclaimed and sent again.   *)
Remove(r) ==
    /\ rep[r].pc = "remove" /\ Alive(r)
    /\ LET e == rep[r].event IN
       \/ /\ file' = IF HasClaim(r, e) THEN [file EXCEPT ![e] = Absent] ELSE file
          /\ UNCHANGED <<owed, faults>>
       \/ Faulty(1) /\ Owe({e}) /\ UNCHANGED file
    /\ Done(r, FALSE)
    /\ UNCHANGED <<verdict, up, accepted, clientVars, names>>

(* One that cannot be renamed back stays as well.                          *)
Unclaim(r) ==
    /\ rep[r].pc = "unclaim" /\ Alive(r)
    /\ LET e == rep[r].event IN
       \/ /\ file' = IF HasClaim(r, e) THEN [file EXCEPT ![e] = Pending] ELSE file
          /\ UNCHANGED faults
       \/ Faulty(1) /\ UNCHANGED file
    /\ Done(r, TRUE)
    /\ UNCHANGED <<verdict, up, accepted, clientVars, names, owed>>

(* reject renames first; the file keeps the spill's mtime until Stamp.  A  *)
(* rename that fails leaves the claim and counts as deferred.              *)
Reject(r) ==
    /\ rep[r].pc = "reject" /\ Alive(r)
    /\ LET e == rep[r].event IN
       \/ /\ HasClaim(r, e)
          /\ \E aged \in BOOLEAN : file' = [file EXCEPT ![e] = File("rejected", "nobody", aged)]
          /\ At(r, "stamp")
          /\ UNCHANGED faults
       \/ /\ Faulty(IF HasClaim(r, e) THEN 1 ELSE 0)
          /\ At(r, "defer")
          /\ UNCHANGED file
    /\ UNCHANGED <<verdict, up, accepted, clientVars, names, owed>>

Stamp(r) ==
    /\ rep[r].pc = "stamp" /\ Alive(r)
    /\ LET e == rep[r].event IN
       file' = IF file[e].at = "rejected" THEN [file EXCEPT ![e].aged = FALSE] ELSE file
    /\ Done(r, FALSE)
    /\ UNCHANGED <<verdict, up, accepted, clientVars, names, owed, faults>>

(* The gateway's pass ends with the retention sweep of rejected/.          *)
PassEnds(r) ==
    /\ rep[r].pc = "pass" /\ Alive(r)
    /\ rep[r].todo = {} \/ Cancelled(r)
    /\ rep' = [rep EXCEPT ![r] = Idle]
    /\ file' = [e \in AuditEvents |->
                  IF r = "gateway" /\ file[e].at = "rejected" /\ file[e].aged
                  THEN File("deleted", "nobody", FALSE) ELSE file[e]]
    /\ UNCHANGED <<verdict, up, accepted, clientVars, names, owed, faults>>

(* mailgw-go events rm: a parked file, pending or rejected.                *)
eventsRemove(e) ==
    /\ file[e].at \in {"pending", "rejected"}
    /\ file' = [file EXCEPT ![e] = File("deleted", "nobody", FALSE)]
    /\ UNCHANGED <<verdict, up, accepted, clientVars, names, rep, owed, faults>>

CommandKilled ==
    /\ rep["cli"].pc # "idle" /\ Faulty(1)
    /\ rep' = [rep EXCEPT !["cli"] = Idle]
    /\ Owe(Unremoved("cli"))
    /\ UNCHANGED <<verdict, up, accepted, clientVars, disk>>

(* Time passes: a claim outlives claimGrace, a rejection its retention.    *)
(* The holder of a claim is bounded by the HTTP timeout, so its claim ages *)
(* only when the whole process stalls.                                     *)
Abandoned(e) == file[e].at = "claimed" /\ rep[file[e].by].event # e

Ages(e) ==
    /\ file[e].at \in {"claimed", "rejected"} /\ ~file[e].aged
    /\ IF file[e].at = "rejected" \/ Abandoned(e)
       THEN UNCHANGED <<owed, faults>> ELSE Faulty(1) /\ Owe({e})
    /\ file' = [file EXCEPT ![e].aged = TRUE]
    /\ UNCHANGED <<verdict, up, accepted, clientVars, names, rep>>

-----------------------------------------------------------------------------

SenderStep(s) == Deliver(s) \/ SenderReturns(s) \/ \E e \in AuditEvents : Take(s, e)

ReplayStep(r) ==
    \/ PassBegins(r) \/ PassEnds(r) \/ Claim(r) \/ Defer(r) \/ Post(r)
    \/ Remove(r) \/ Unclaim(r) \/ Reject(r) \/ Stamp(r)

CloseStep == CloseBegins \/ SendersDone \/ DrainOne

Next ==
    \/ \E e \in AuditEvents : SendCheck(e) \/ SendPut(e) \/ Ages(e) \/ eventsRemove(e)
    \/ \E s \in Senders : SenderStep(s)
    \/ \E r \in Replayers : ReplayStep(r)
    \/ StopReplayer \/ Deadline \/ CloseStep
    \/ Outage \/ Recover \/ GatewayRestarts \/ CommandKilled

(* The goroutines run, a command that was started runs to its end, an      *)
(* outage ends, an abandoned claim grows old.  Nothing is assumed of the   *)
(* SMTP path, of the deadline, of the operator, or of who shuts down.      *)
Spec ==
    /\ Init /\ [][Next]_vars
    /\ \A s \in Senders : WF_vars(SenderStep(s))
    /\ WF_vars(ReplayStep("gateway"))
    /\ WF_vars(rep["cli"].pc # "idle" /\ ReplayStep("cli"))
    /\ WF_vars(CloseStep) /\ WF_vars(Recover)
    /\ \A e \in AuditEvents : WF_vars(Abandoned(e) /\ Ages(e))

-----------------------------------------------------------------------------
(* Properties.                                                             *)

(* The buffer never holds more than its capacity, a sender's retry count   *)
(* stays within the configured retries, files and replayers are in one of  *)
(* their states, and no event is spilled under two names.                  *)
TypeOK ==
    /\ buffer \subseteq AuditEvents /\ Cardinality(buffer) <= BufferSize
    /\ hand \in [Senders -> [event : AuditEvents \cup {NoEvent}, failed : 0..Retries]]
    /\ file \in [AuditEvents -> Files]
    /\ \A i, j \in DOMAIN names : names[i] = names[j] => i = j
    /\ \A r \in Replayers : /\ rep[r].todo \subseteq AuditEvents
                            /\ rep[r].fails \in 0..MaxFails

InFlight == buffer \cup Held

OnDisk == {e \in AuditEvents : file[e].at # "absent"}

(* No event disappears without a trace: once Send has returned, the event  *)
(* is on its way, stored by logservice, in a file, or in the counter that  *)
(* says it is lost, whatever races with Close; the exceptions are a killed *)
(* process and a Send that overtakes the end of Close.                     *)
NoSilentLoss ==
    \A e \in AuditEvents :
        send[e] = "done" =>
            \/ e \in InFlight \cup OnDisk \cup dropped \cup unspilled \cup gone \cup late
            \/ accepted[e] > 0

(* The counter that means "no row and no file" tells the truth, and an     *)
(* event is never both on its way and in a file: nothing counted as lost   *)
(* turns up again, nothing spilled is still being retried, and no two      *)
(* senders have the same event.                                            *)
OneFate ==
    /\ \A e \in dropped : e \notin InFlight \cup OnDisk /\ accepted[e] = 0
    /\ InFlight \cap OnDisk = {}
    /\ buffer \cap Held = {}
    /\ \A s, t \in Senders :
          s # t /\ hand[s].event # NoEvent => hand[s].event # hand[t].event

(* Two replayers over one directory never post the same event twice by     *)
(* themselves: every copy beyond the first in the log tables is owed to an *)
(* answer lost, a claim that could not be removed, a process killed        *)
(* between the POST and the removal, or one stalled past claimGrace.       *)
DuplicatesOwed ==
    \A e \in AuditEvents : accepted[e] <= 1 + owed[e]

(* Shutdown is bounded: it gets through the replayer, the senders and the  *)
(* final drain, however full the buffer is and however unreachable         *)
(* logservice, or the process is started anew.                             *)
CloseReturns == closer = "stopping" ~> closer \in {"returned", "open"}

(* A spilled event does not stay behind: it is stored, or refused and      *)
(* filed, also when the process that claimed it died and when an older     *)
(* file fails every time ("one unusable record must not stop the other     *)
(* nine hundred", replay.go), unless the gateway is shut down first.       *)
SpillsResolve ==
    \A e \in AuditEvents :
        verdict[e] # "fails" /\ file[e].at \in {"pending", "claimed"} ~>
            file[e].at \in {"absent", "rejected", "deleted"} \/ closer # "open"

-----------------------------------------------------------------------------
(* The inductive invariant behind TypeOK, NoSilentLoss, OneFate and        *)
(* DuplicatesOwed.                                                         *)

Passes == [pc : {"idle", "pass", "post", "defer", "remove", "unclaim", "reject", "stamp"},
           todo : SUBSET AuditEvents, event : AuditEvents \cup {NoEvent},
           fails : 0..MaxFails]

EventsTyped ==
    /\ verdict \in [AuditEvents -> Answers]
    /\ accepted \in [AuditEvents -> Nat] /\ owed \in [AuditEvents -> Nat]
    /\ send \in [AuditEvents -> {"new", "checked", "done"}]
    /\ IsFiniteSet(buffer) /\ dropped \subseteq AuditEvents
    /\ names \in Seq(AuditEvents)
    /\ rep \in [Replayers -> Passes]
    /\ \A e \in AuditEvents : file[e].at = "claimed" => file[e].by \in Replayers

Named == {names[i] : i \in DOMAIN names}

(* An event gets its file name once, out of a sender's hand: what has none *)
(* was never spilled, and what is on its way, not sent yet or counted as   *)
(* lost has none.                                                          *)
SpilledOnce ==
    /\ OnDisk \subseteq Named
    /\ \A r \in Replayers : rep[r].todo \cup ({rep[r].event} \ {NoEvent}) \subseteq Named
    /\ InFlight \cap Named = {}
    /\ \A e \in AuditEvents :
          send[e] # "done" \/ e \in dropped =>
              e \notin InFlight \cup Named /\ accepted[e] = 0
    /\ \A e \in dropped : send[e] = "done"
    /\ \A e \in buffer : accepted[e] = 0

(* A sender that returned holds nothing, Close returns after them, and     *)
(* what is in the buffer from then on came late.                           *)
ClosedInOrder ==
    /\ \A s \in Senders : s \notin running => hand[s] = Empty
    /\ closer \in {"draining", "returned"} => running \cap Senders = {}
    /\ closer = "returned" => buffer \subseteq late

(* A replayer at work has a file, removes only what logservice stored, and *)
(* has not failed too often.                                               *)
AtWork(p) ==
    /\ p.pc \in {"idle", "pass"} <=> p.event = NoEvent
    /\ p.pc = "remove" => accepted[p.event] > 0
    /\ p.todo # {} \/ p.event # NoEvent => p.fails < MaxFails

(* How many more rows of e may come without another fault: one from the    *)
(* memory of the gateway, one from its file, unless the holder of the      *)
(* claim is about to remove it, and one from each replayer that will post  *)
(* e although its claim has aged or is gone.                               *)
FromMemory(e) == IF e \in InFlight THEN 1 ELSE 0

FromFile(e) ==
    IF \/ file[e].at = "pending"
       \/ /\ file[e].at = "claimed"
          /\ \/ file[e].aged
             \/ rep[file[e].by].pc # "remove" \/ rep[file[e].by].event # e
    THEN 1 ELSE 0

FromStale(r, e) ==
    IF rep[r].pc = "post" /\ rep[r].event = e /\ ~(HasClaim(r, e) /\ ~file[e].aged)
    THEN 1 ELSE 0

RowsOwed ==
    \A e \in AuditEvents :
        accepted[e] + FromMemory(e) + FromFile(e) + FromStale("gateway", e)
            + FromStale("cli", e) <= 1 + owed[e]

EventsInv ==
    /\ TypeOK /\ EventsTyped /\ SpilledOnce /\ ClosedInOrder
    /\ NoSilentLoss /\ OneFate /\ RowsOwed
    /\ \A r \in Replayers : AtWork(rep[r])
=============================================================================
