------------------------------- MODULE Mailq -------------------------------
(***************************************************************************)
(* `mailgw-go mailq` (cmd/mailgw-go/mailq.go, internal/queue/inspect.go):  *)
(* another process that lists the spool of module Spool and moves or       *)
(* deletes envelopes in it.  There is no lock between the two: a command   *)
(* first finds the envelope by listing q/, inflight/, quarantine/ and      *)
(* dead/, one after the other, and acts later on the file name it saw.     *)
(***************************************************************************)
EXTENDS Spool

CONSTANT MaxCommands   \* bound: mailq commands run
ASSUME MailqAssumption == MaxCommands \in Nat

VARIABLES
    cmd,       \* per operator: the verb, the envelope it names, the step reached
    commands,  \* commands run so far
    removed,   \* history: envelopes deleted with `mailq rm`
    clobbered  \* history: envelopes one claim of which was renamed over another

mailqVars == <<vars, cmd, commands, removed, clobbered>>

Verbs == {"flush", "rm", "release", "hold"}
Steps == {"find_q", "find_inflight", "find_quarantine", "find_dead",
          "in_q", "in_quarantine", "in_dead", "written", "gc"}
NoCmd == [verb |-> "none", env |-> NoEnv, at |-> "none"]

MailqInit ==
    /\ Init
    /\ cmd = [o \in Operators |-> NoCmd]
    /\ commands = 0
    /\ removed = {} /\ clobbered = {}

OpIdle(o) == cmd' = [cmd EXCEPT ![o] = NoCmd] /\ held' = [held EXCEPT ![o] = NoFile]
At(o, step) == cmd' = [cmd EXCEPT ![o].at = step]

----------------------------------------------------------------------------
\* mailq <verb> <uuid>
Run(o) ==
    /\ cmd[o] = NoCmd /\ pc[o] = "idle" /\ commands < MaxCommands
    /\ commands' = commands + 1
    /\ \E v \in Verbs, e \in handed : cmd' = [cmd EXCEPT ![o] = [verb |-> v, env |-> e, at |-> "find_q"]]
    /\ UNCHANGED <<vars, removed, clobbered>>

\* One directory of Spool.find.  The first hit in the listing order wins; the
\* verbs the directory admits go on with the file seen, the others are refused.
Find(o, here, dir, verbs, found, next) ==
    /\ cmd[o].at = here
    /\ IF cmd[o].env \notin EnvsIn(dir)
         THEN (IF next = "none" THEN OpIdle(o) ELSE At(o, next) /\ UNCHANGED held)
         ELSE IF cmd[o].verb \in verbs
           THEN /\ \E f \in dir : f.env = cmd[o].env /\ held' = [held EXCEPT ![o] = f]
                /\ At(o, found)
           ELSE OpIdle(o)
    /\ UNCHANGED <<disk, now, boot, txn, handed, pc, gc, history, commands, removed, clobbered>>

\* Mutation: rm goes on with an envelope that is being delivered.
FindInflight_AdmitsRemove(o) ==
    Find(o, "find_inflight", inflight, {"rm"}, "in_inflight", "find_quarantine")

FindReady(o) == Find(o, "find_q", ready, {"flush", "rm", "hold"}, "in_q", "find_inflight")
FindInflight(o) == Find(o, "find_inflight", inflight, {}, "none", "find_quarantine")
FindQuarantine(o) == Find(o, "find_quarantine", quarantine, {"rm", "release"}, "in_quarantine", "find_dead")
FindDead(o) == Find(o, "find_dead", dead, {"rm"}, "in_dead", "none")

\* Spool.Flush: a rename inside q/; a file that is gone is "in flight".
Flush(o) ==
    /\ cmd[o].verb = "flush" /\ cmd[o].at = "in_q"
    /\ LET seen == Named(ready, held[o]) IN
       IF seen = {} THEN UNCHANGED ready
       ELSE \E f \in seen : ready' = Put(ready \ {f}, [f EXCEPT !.due = now])
    /\ OpIdle(o)
    /\ UNCHANGED <<inflight, quarantine, dead, parked, data, now, boot, txn, handed, pc, gc, history, commands, removed, clobbered>>

\* Spool.Remove: the unlink, which must still find the file, then gcBody.
Remove(o) ==
    /\ cmd[o].verb = "rm" /\ cmd[o].at \in {"in_q", "in_quarantine", "in_dead"}
    /\ LET dir == [in_q |-> ready, in_quarantine |-> quarantine, in_dead |-> dead][cmd[o].at]
           gone == Named(dir, held[o]) IN
       /\ ready' = IF cmd[o].at = "in_q" THEN ready \ gone ELSE ready
       /\ quarantine' = IF cmd[o].at = "in_quarantine" THEN quarantine \ gone ELSE quarantine
       /\ dead' = IF cmd[o].at = "in_dead" THEN dead \ gone ELSE dead
       /\ IF gone = {} THEN OpIdle(o) /\ UNCHANGED <<pc, gc, removed>>
          ELSE /\ removed' = removed \cup {held[o].env}
               /\ cmd' = [cmd EXCEPT ![o] = NoCmd]
               /\ pc' = [pc EXCEPT ![o] = "gc_q"]
               /\ gc' = [gc EXCEPT ![o] = [body |-> BodyOf[held[o].env], except |-> held[o].env]]
               /\ UNCHANGED held
    /\ UNCHANGED <<inflight, parked, data, now, boot, txn, handed, history, commands, clobbered>>

\* Mutation: out of quarantine/ before it is in q/.
ReleaseWrite_RemovesFirst(o) ==
    /\ cmd[o].verb = "release" /\ cmd[o].at = "in_quarantine"
    /\ quarantine' = quarantine \ Named(quarantine, held[o])
    /\ At(o, "written")
    /\ UNCHANGED <<ready, inflight, dead, parked, data, now, boot, txn, handed, actors, history, commands, removed, clobbered>>

\* Spool.Release: rewritten into q/, due now, ...
ReleaseWrite(o) ==
    /\ cmd[o].verb = "release" /\ cmd[o].at = "in_quarantine"
    /\ ready' = Put(ready, [held[o] EXCEPT !.due = now])
    /\ At(o, "written")
    /\ UNCHANGED <<inflight, quarantine, dead, parked, data, now, boot, txn, handed, actors, history, commands, removed, clobbered>>

\* ... then removed from quarantine/; a file that is gone is not an error.
ReleaseRemove(o) ==
    /\ cmd[o].verb = "release" /\ cmd[o].at = "written"
    /\ quarantine' = quarantine \ Named(quarantine, held[o])
    /\ OpIdle(o)
    /\ UNCHANGED <<ready, inflight, dead, parked, data, now, boot, txn, handed, pc, gc, history, commands, removed, clobbered>>

\* Spool.Hold: written to quarantine/, ...
HoldWrite(o) ==
    /\ cmd[o].verb = "hold" /\ cmd[o].at = "in_q"
    /\ quarantine' = Put(quarantine, [held[o] EXCEPT !.due = 0])
    /\ At(o, "written")
    /\ UNCHANGED <<ready, inflight, dead, parked, data, now, boot, txn, handed, actors, history, commands, removed, clobbered>>

\* ... then removed from q/; a file that is gone is not an error either.
HoldRemove(o) ==
    /\ cmd[o].verb = "hold" /\ cmd[o].at = "written"
    /\ ready' = ready \ Named(ready, held[o])
    /\ OpIdle(o)
    /\ UNCHANGED <<inflight, quarantine, dead, parked, data, now, boot, txn, handed, pc, gc, history, commands, removed, clobbered>>

\* The operator interrupts the command.
Interrupt(o) ==
    /\ cmd[o] # NoCmd
    /\ OpIdle(o)
    /\ UNCHANGED <<disk, now, boot, txn, handed, pc, gc, history, commands, removed, clobbered>>

OperatorNext ==
    \E o \in Operators :
        \/ Run(o) \/ FindReady(o) \/ FindInflight(o) \/ FindQuarantine(o) \/ FindDead(o)
        \/ Flush(o) \/ Remove(o) \/ ReleaseWrite(o) \/ ReleaseRemove(o)
        \/ HoldWrite(o) \/ HoldRemove(o) \/ Interrupt(o)
        \/ Collect(o) /\ UNCHANGED <<cmd, commands, removed, clobbered>>

----------------------------------------------------------------------------
(* The workers beside it.  A claim is named after the process, the due second   *)
(* and the envelope, so a copy flushed or released in the second another was    *)
(* due, or rescheduled with a backoff shorter than a second, takes the name of  *)
(* that other's claim: rename(2) replaces the file.                             *)

ClaimBeside(w, f) ==
    /\ Claim(w, f)
    /\ clobbered' = clobbered \cup EnvsIn(Named(inflight, f))
    /\ UNCHANGED <<cmd, commands, removed>>

GatewayNext ==
    \/ SessionNext \/ Start \/ Shutdown \/ Crash \/ Exit \/ Tick \/ Poll
    \/ \E w \in Workers : Attempt(w) \/ Finish(w) \/ Collect(w)

MailqNext ==
    \/ OperatorNext
    \/ \E w \in Workers, f \in ready : ClaimBeside(w, f)
    \/ GatewayNext /\ UNCHANGED <<cmd, commands, removed, clobbered>>
MailqSpec == MailqInit /\ [][MailqNext]_mailqVars

----------------------------------------------------------------------------
\* Types of the variables this module adds.
MailqTypeOK ==
    /\ cmd \in [Operators -> [verb : Verbs, env : Envs, at : Steps] \cup {NoCmd}]
    /\ commands \in 0 .. MaxCommands
    /\ removed \in SUBSET Envs /\ clobbered \in SUBSET Envs

\* While the gateway runs, the commands of one operator lose no mail, whatever
\* the workers do between a command's listing and its renames, whatever file
\* operations fail, and wherever a command is interrupted: an envelope is stored
\* until it settles or is deleted with `mailq rm`.  Not claimed of an envelope one
\* claim of which replaced another: see README, which also says why a restart in
\* the middle of Release is excluded.
MailqNoMailLost == handed \subseteq Stored \cup Settled \cup removed \cup clobbered

----------------------------------------------------------------------------
(* The inductive invariant behind MailqNoMailLost, for one operator and a     *)
(* gateway that keeps running, with any number of workers, commands and faults. *)

Alone == \A o, p \in Operators : o = p

\* The envelopes nothing more is claimed of.
Gone == Settled \cup removed \cup clobbered

\* The claims no worker holds: a file operation failed on them.
Stranded == {f \in inflight : \A w \in Workers : Holding(w) => held[w] # f}

\* The envelopes in q/, stranded until the next restart, or with a worker that will
\* settle them or put them back.
Queued == EnvsIn(ready) \cup EnvsIn(Stranded) \cup {held[w].env : w \in {v \in Workers : Attempting(v)}}
Kept == Queued \cup EnvsIn(quarantine) \cup Gone

\* A command holds the file it found, and is not collecting a body yet.
CommandHolds ==
    \A o \in Operators : cmd[o] # NoCmd =>
        /\ pc[o] = "idle"
        /\ cmd[o].at \in {"in_q", "in_quarantine", "in_dead", "written"} => held[o] \in File

\* Before Hold or Release unlinks the old copy, the new one is safe.
CommandCommits ==
    \A o \in Operators : cmd[o].at = "written" =>
        /\ cmd[o].verb = "hold" => held[o].env \in EnvsIn(quarantine) \cup Gone
        /\ cmd[o].verb = "release" => held[o].env \in Queued \cup Gone

\* The process has not been restarted: Recover finds nothing.
FirstRun ==
    /\ phase # "stopping" /\ recTodo = {}
    /\ phase # "up" => inflight = {} /\ \A w \in Workers : ~Holding(w)

\* A claim is on disk under a name of its own, unless it was replaced.
ClaimKept == \A w \in Workers : Holding(w) => held[w] \in inflight \/ held[w].env \in Gone
ClaimsApart ==
    \A w, v \in Workers :
        Holding(w) /\ Holding(v) /\ w # v /\ held[w].env = held[v].env /\ held[w].due = held[v].due =>
            held[w].env \in Gone

\* Before Reschedule or Bury unlinks a claim, the envelope is safe elsewhere.
MoveCommits ==
    \A w \in Workers :
        /\ pc[w] = "rescheduled" => held[w].env \in Kept
        /\ pc[w] = "buried" => held[w].env \in Gone

MailqInv ==
    /\ TypeOK /\ HoldsFile /\ MailqTypeOK /\ CommandHolds /\ CommandCommits
    /\ FirstRun /\ ClaimKept /\ ClaimsApart /\ MoveCommits /\ MailqNoMailLost
============================================================================
