---------------------------- MODULE MailqProofs ----------------------------
(***************************************************************************)
(* Proofs about `mailq` beside a running gateway: the types for any number *)
(* of operators and restarts, and that the commands of one operator lose   *)
(* no mail, for any number of envelopes, workers, commands and faults.     *)
(***************************************************************************)
EXTENDS Mailq, SpoolProofs

CommandType == [verb : Verbs, env : Envs, at : Steps] \cup {NoCmd}
MailqTypes == TypeInv /\ MailqTypeOK /\ CommandHolds

\* A worker unlinks the claim it took.
Unlink(w) == Park(w) \/ Complete(w) \/ RescheduleRemove(w) \/ BuryRemove(w)

-----------------------------------------------------------------------------
(* Types.                                                                  *)

\* An operator is an actor of its own.
LEMMA OperatorFacts ==
    ASSUME NEW o \in Operators
    PROVE  o \in Actors /\ o \notin Workers /\ o # "boot"
BY SpoolAssumption DEF Actors

\* Nothing the gateway does changes where a command is or what it holds.
LEMMA OperatorsApart ==
    ASSUME TypeOK, NEW o \in Operators,
           GatewayNext \/ \E w \in Workers, f \in ready : Claim(w, f)
    PROVE  pc'[o] = pc[o] /\ held'[o] = held[o]
<1>0. o \in Actors /\ o \notin Workers /\ o # "boot" /\ pc \in [Actors -> {"idle", "claimed", "done",
          "rescheduled", "buried", "gc_q", "gc_inflight", "gc_quarantine", "gc_unlink"}]
      /\ held \in [Actors -> File \cup {NoFile}]
    BY OperatorFacts DEF TypeOK
<1>1. CASE SessionNext
    BY <1>1 DEF SessionNext, WriteBody, RemoveBody, EnqueueFail, Accept, Enqueue, Quarantine, actors
<1>2. ASSUME NEW a \in Actors, a # o, Collect(a) PROVE pc'[o] = pc[o] /\ held'[o] = held[o]
    BY <1>0, <1>2, CollectEffect
<1>3. CASE Start
    <2>1. CASE Collect("boot")
        BY <1>0, <1>2, <2>1 DEF Actors
    <2> QED
        BY <1>0, <1>3, <2>1 DEF Start, SweepStart, SweepBody, RecoverStart, Recover, RecoverEntry, RecoverDone,
           RecoverFail, actors
<1>4. CASE Shutdown \/ Crash \/ Exit \/ Tick \/ Poll
    BY <1>0, <1>4 DEF Shutdown, Crash, Exit, Halt, Tick, Poll, actors, vars
<1>5. ASSUME NEW w \in Workers,
             \/ Relay(w) \/ RescheduleWrite(w) \/ BuryWrite(w) \/ MoveFail(w)
             \/ Unlink(w) \/ UnlinkReplaced(w) \/ \E f \in ready : Claim(w, f)
      PROVE  pc'[o] = pc[o] /\ held'[o] = held[o]
    BY <1>0, <1>5 DEF Relay, RescheduleWrite, BuryWrite, MoveFail, Unlink, UnlinkReplaced, Claim, Park,
       Complete, RescheduleRemove, BuryRemove, Idle
<1>6. ASSUME NEW w \in Workers, Collect(w) PROVE pc'[o] = pc[o] /\ held'[o] = held[o]
    BY <1>0, <1>2, <1>6, WorkerFacts
<1> QED
    BY <1>1, <1>3, <1>4, <1>5, <1>6 DEF GatewayNext, Attempt, Finish, Unlink

\* Beside a step of the gateway a command stays as it is.
LEMMA GatewayTypes ==
    ASSUME MailqTypes,
           \/ GatewayNext /\ UNCHANGED <<cmd, commands, removed, clobbered>>
           \/ \E w \in Workers, f \in ready : ClaimBeside(w, f)
    PROVE  MailqTypes'
<1>1. UNCHANGED <<cmd, commands, removed>>
    BY DEF ClaimBeside
<1>2. \A o \in Operators : pc'[o] = pc[o] /\ held'[o] = held[o]
    BY OperatorsApart DEF ClaimBeside, MailqTypes, TypeInv
<1>3. CommandHolds'
    BY <1>1, <1>2 DEF CommandHolds, MailqTypes
<1>4. TypeInv'
    <2>1. ASSUME NEW w \in Workers, NEW f \in ready, Claim(w, f) PROVE TypeInv'
        BY <2>1, WorkerType DEF WorkerNext, MailqTypes
    <2>2. ASSUME NEW w \in Workers, Attempt(w) \/ Finish(w) \/ Collect(w) PROVE TypeInv'
        BY <2>2, WorkerType DEF WorkerNext, MailqTypes
    <2>3. CASE Poll
        BY <2>3 DEF Poll, MailqTypes, TypeInv, TypeOK, HoldsFile, Holding, Attempting, vars, disk, boot, actors, history
    <2> QED
        BY <2>1, <2>2, <2>3, SessionType, ProcessType DEF GatewayNext, ClaimBeside, MailqTypes
<1>5. clobbered' \in SUBSET Envs
    <2>1. ASSUME NEW f PROVE EnvsIn(Named(inflight, f)) \in SUBSET Envs
        <3>1. Named(inflight, f) \in SUBSET File
            BY DEF Named, MailqTypes, TypeInv, TypeOK
        <3> QED
            BY <3>1, EnvsInType
    <2> QED
        BY <2>1 DEF ClaimBeside, MailqTypes, MailqTypeOK
<1> QED
    BY <1>1, <1>3, <1>4, <1>5 DEF MailqTypes, MailqTypeOK

\* A command moves on to c with the file h in hand.
LEMMA CommandType1 ==
    ASSUME MailqTypes, NEW o \in Operators, NEW c \in CommandType, NEW h \in File \cup {NoFile},
           cmd' = [cmd EXCEPT ![o] = c], held' = [held EXCEPT ![o] = h], pc' = pc, gc' = gc,
           c # NoCmd => pc[o] = "idle" /\ (c.at \in {"in_q", "in_quarantine", "in_dead", "written"} => h \in File),
           ready' \in SUBSET File, quarantine' \in SUBSET File, dead' \in SUBSET File,
           UNCHANGED <<inflight, parked, data, now, boot, txn, handed, history, clobbered, removed>>,
           commands' \in 0 .. MaxCommands
    PROVE  MailqTypes'
<1>0. /\ TypeOK /\ HoldsFile /\ MailqTypeOK /\ CommandHolds
      /\ o \in Actors /\ o \notin Workers
    BY OperatorFacts DEF MailqTypes, TypeInv
<1>1. held' \in [Actors -> File \cup {NoFile}] /\ held'[o] = h /\ \A a \in Actors : a # o => held'[a] = held[a]
    BY <1>0 DEF TypeOK
<1>2. cmd' \in [Operators -> CommandType] /\ cmd'[o] = c /\ \A p \in Operators : p # o => cmd'[p] = cmd[p]
    BY <1>0 DEF MailqTypeOK, CommandType
<1>3. TypeOK'
    BY <1>0, <1>1 DEF TypeOK, boot, history
<1>4. HoldsFile'
    BY <1>0, <1>1, WorkerFacts DEF HoldsFile, Holding, Attempting
<1>5. CommandHolds'
    <2> SUFFICES ASSUME NEW p \in Operators, cmd'[p] # NoCmd
                 PROVE  /\ pc'[p] = "idle"
                        /\ cmd'[p].at \in {"in_q", "in_quarantine", "in_dead", "written"} => held'[p] \in File
        BY DEF CommandHolds
    <2>1. CASE p = o
        BY <1>1, <1>2, <2>1
    <2>2. CASE p # o
        BY <1>0, <1>1, <1>2, <2>2, OperatorFacts DEF CommandHolds
    <2> QED
        BY <2>1, <2>2
<1> QED
    BY <1>0, <1>2, <1>3, <1>4, <1>5 DEF MailqTypes, TypeInv, MailqTypeOK, CommandType

\* What At and OpIdle do.
LEMMA MoveFacts ==
    ASSUME MailqTypes, NEW o \in Operators
    PROVE  /\ held[o] \in File \cup {NoFile} /\ held = [held EXCEPT ![o] = held[o]]
           /\ NoCmd \in CommandType /\ NoFile \in File \cup {NoFile} /\ NoCmd.at = "none" /\ NoCmd.verb = "none"
           /\ cmd[o] # NoCmd =>
                 /\ pc[o] = "idle" /\ cmd[o].verb \in Verbs
                 /\ cmd[o].at \in {"in_q", "in_quarantine", "in_dead", "written"} => held[o] \in File
                 /\ \A s \in Steps : At(o, s) =>
                       \E c \in CommandType : /\ c # NoCmd /\ c.at = s /\ c.verb = cmd[o].verb
                                              /\ cmd' = [cmd EXCEPT ![o] = c]
<1>1. held \in [Actors -> File \cup {NoFile}] /\ o \in Actors /\ cmd \in [Operators -> CommandType]
    BY OperatorFacts DEF MailqTypes, TypeInv, TypeOK, MailqTypeOK, CommandType
<1>2. held[o] \in File \cup {NoFile} /\ held = [held EXCEPT ![o] = held[o]]
    BY <1>1
<1>3. NoCmd \in CommandType /\ NoFile \in File \cup {NoFile} /\ NoCmd.at = "none" /\ NoCmd.verb = "none"
    BY DEF CommandType, NoCmd
<1>4. ASSUME cmd[o] # NoCmd
      PROVE  /\ pc[o] = "idle" /\ cmd[o].verb \in Verbs
             /\ cmd[o].at \in {"in_q", "in_quarantine", "in_dead", "written"} => held[o] \in File
             /\ \A s \in Steps : At(o, s) =>
                   \E c \in CommandType : /\ c # NoCmd /\ c.at = s /\ c.verb = cmd[o].verb
                                          /\ cmd' = [cmd EXCEPT ![o] = c]
    <2>1. cmd[o] \in [verb : Verbs, env : Envs, at : Steps]
        BY <1>1, <1>4 DEF CommandType
    <2>2. ASSUME NEW s \in Steps, At(o, s)
          PROVE  \E c \in CommandType : c # NoCmd /\ c.at = s /\ c.verb = cmd[o].verb /\ cmd' = [cmd EXCEPT ![o] = c]
        <3>1. PICK c : c = [cmd[o] EXCEPT !.at = s]
            OBVIOUS
        <3>2. c \in [verb : Verbs, env : Envs, at : Steps] /\ c.at = s /\ c.verb = cmd[o].verb
            BY <2>1, <3>1
        <3>3. cmd' = [cmd EXCEPT ![o] = c]
            BY <2>2, <3>1 DEF At
        <3>4. c # NoCmd
            BY <1>3, <3>2 DEF Steps
        <3> QED
            BY <3>2, <3>3, <3>4 DEF CommandType
    <2>3. pc[o] = "idle" /\ (cmd[o].at \in {"in_q", "in_quarantine", "in_dead", "written"} => held[o] \in File)
        BY <1>4 DEF MailqTypes, CommandHolds
    <2> QED
        BY <2>1, <2>2, <2>3
<1> QED
    BY <1>2, <1>3, <1>4

\* One directory of the listing: the command has found nothing yet, or holds what
\* it found, or is refused.
LEMMA FindFacts ==
    ASSUME MailqTypes, NEW o \in Operators, NEW here \in Steps, NEW dir \in SUBSET File, NEW verbs,
           NEW found \in {"in_q", "in_quarantine", "in_dead", "none"}, NEW next \in Steps \cup {"none"},
           next \notin {"in_q", "in_quarantine", "in_dead", "written"}, found = "none" => verbs = {},
           Find(o, here, dir, verbs, found, next)
    PROVE  /\ cmd[o] # NoCmd
           /\ UNCHANGED <<disk, now, boot, txn, handed, pc, gc, history, commands, removed, clobbered>>
           /\ \E c \in CommandType, h \in File \cup {NoFile} :
                 /\ cmd' = [cmd EXCEPT ![o] = c] /\ held' = [held EXCEPT ![o] = h]
                 /\ c.at # "written" /\ (c.at \in {"in_q", "in_quarantine", "in_dead"} => h \in File)
<1>0. /\ held[o] \in File \cup {NoFile} /\ held = [held EXCEPT ![o] = held[o]]
      /\ NoCmd \in CommandType /\ NoFile \in File \cup {NoFile} /\ NoCmd.at = "none"
    BY MoveFacts
<1>1. cmd[o] # NoCmd
    BY <1>0 DEF Find, Steps
<1>2. \A s \in Steps : At(o, s) => \E c \in CommandType : c.at = s /\ cmd' = [cmd EXCEPT ![o] = c]
    BY <1>1, MoveFacts
<1>3. UNCHANGED <<disk, now, boot, txn, handed, pc, gc, history, commands, removed, clobbered>>
    BY DEF Find
<1>4. CASE OpIdle(o)
    BY <1>0, <1>1, <1>3, <1>4 DEF OpIdle
<1>5. CASE next # "none" /\ At(o, next) /\ UNCHANGED held
    <2>1. PICK c \in CommandType : c.at = next /\ cmd' = [cmd EXCEPT ![o] = c]
        BY <1>2, <1>5
    <2>2. held' = [held EXCEPT ![o] = held[o]]
        BY <1>0, <1>5
    <2> QED
        BY <1>0, <1>1, <1>3, <2>1, <2>2
<1>6. CASE found # "none" /\ At(o, found) /\ \E f \in dir : held' = [held EXCEPT ![o] = f]
    <2>1. PICK c \in CommandType : c.at = found /\ cmd' = [cmd EXCEPT ![o] = c]
        BY <1>2, <1>6 DEF Steps
    <2>2. PICK f \in dir : held' = [held EXCEPT ![o] = f]
        BY <1>6
    <2> QED
        BY <1>1, <1>3, <2>1, <2>2
<1> QED
    BY <1>4, <1>5, <1>6 DEF Find

\* The listing, directory by directory, is one of these.
LEMMA ListingFacts ==
    ASSUME MailqTypes, NEW o \in Operators, FindReady(o) \/ FindInflight(o) \/ FindQuarantine(o) \/ FindDead(o)
    PROVE  /\ cmd[o] # NoCmd
           /\ UNCHANGED <<disk, now, boot, txn, handed, pc, gc, history, commands, removed, clobbered>>
           /\ \E c \in CommandType, h \in File \cup {NoFile} :
                 /\ cmd' = [cmd EXCEPT ![o] = c] /\ held' = [held EXCEPT ![o] = h]
                 /\ c.at # "written" /\ (c.at \in {"in_q", "in_quarantine", "in_dead"} => h \in File)
<1>0. ready \in SUBSET File /\ inflight \in SUBSET File /\ quarantine \in SUBSET File /\ dead \in SUBSET File
    BY DEF MailqTypes, TypeInv, TypeOK
<1>1. CASE FindReady(o)
    <2>1. Find(o, "find_q", ready, {"flush", "rm", "hold"}, "in_q", "find_inflight")
        BY <1>1 DEF FindReady
    <2>2. "find_q" \in Steps /\ "find_inflight" \in Steps \cup {"none"}
        BY DEF Steps
    <2> QED
        BY <1>0, <2>1, <2>2, FindFacts
<1>2. CASE FindInflight(o)
    <2>1. Find(o, "find_inflight", inflight, {}, "none", "find_quarantine")
        BY <1>2 DEF FindInflight
    <2>2. "find_inflight" \in Steps /\ "find_quarantine" \in Steps \cup {"none"}
        BY DEF Steps
    <2> QED
        BY <1>0, <2>1, <2>2, FindFacts
<1>3. CASE FindQuarantine(o)
    <2>1. Find(o, "find_quarantine", quarantine, {"rm", "release"}, "in_quarantine", "find_dead")
        BY <1>3 DEF FindQuarantine
    <2>2. "find_quarantine" \in Steps /\ "find_dead" \in Steps \cup {"none"}
        BY DEF Steps
    <2> QED
        BY <1>0, <2>1, <2>2, FindFacts
<1>4. CASE FindDead(o)
    <2>1. Find(o, "find_dead", dead, {"rm"}, "in_dead", "none")
        BY <1>4 DEF FindDead
    <2>2. "find_dead" \in Steps /\ "none" \in Steps \cup {"none"}
        BY DEF Steps
    <2> QED
        BY <1>0, <2>1, <2>2, FindFacts
<1> QED
    BY <1>1, <1>2, <1>3, <1>4

\* A file under another due time is a file.
LEMMA StampFacts ==
    ASSUME NEW f \in File, NEW d \in Nat
    PROVE  [f EXCEPT !.due = d] \in File /\ [f EXCEPT !.due = d].env = f.env
BY DEF File

\* A first copy is a file.
LEMMA FreshFile ==
    ASSUME NEW e \in Envs, NEW d \in Nat
    PROVE  \E f \in File : f = [env |-> e, due |-> d, gen |-> 0] /\ f.env = e
<1>1. PICK f : f = [env |-> e, due |-> d, gen |-> 0]
    OBVIOUS
<1>2. f \in File /\ f.env = e
    BY <1>1 DEF File
<1> QED
    BY <1>1, <1>2

\* Flush puts back what it takes.
LEMMA FlushFacts ==
    ASSUME MailqTypes, NEW o \in Operators, Flush(o)
    PROVE  /\ ready' \in SUBSET File /\ EnvsIn(ready') = EnvsIn(ready)
           /\ cmd' = [cmd EXCEPT ![o] = NoCmd] /\ held' = [held EXCEPT ![o] = NoFile]
           /\ UNCHANGED <<inflight, quarantine, dead, parked, data, now, boot, txn, handed, pc, gc, history,
                          commands, removed, clobbered>>
<1>0. ready \in SUBSET File /\ now \in Nat
    BY DEF MailqTypes, TypeInv, TypeOK
<1>1. ready' = ready \/ \E f \in Named(ready, held[o]) : ready' = Put(ready \ {f}, [f EXCEPT !.due = now])
    BY DEF Flush
<1>2. ASSUME NEW f \in Named(ready, held[o]), ready' = Put(ready \ {f}, [f EXCEPT !.due = now])
      PROVE  ready' \in SUBSET File /\ EnvsIn(ready') = EnvsIn(ready)
    <2>1. f \in ready /\ f \in File
        BY <1>0 DEF Named
    <2>2. PICK g \in File : g = [f EXCEPT !.due = now] /\ g.env = f.env
        BY <1>0, <2>1, StampFacts
    <2>3. ready \ {f} \in SUBSET File /\ ready' = Put(ready \ {f}, g)
        BY <1>0, <1>2, <2>2
    <2>4. EnvsIn(ready') = EnvsIn(ready \ {f}) \cup {g.env}
        BY <2>3, EnvsInPut
    <2>5. EnvsIn(ready \ {f}) \cup {f.env} = EnvsIn(ready)
        BY <2>1 DEF EnvsIn
    <2>6. ready' \in SUBSET File
        BY <2>3, PutType
    <2> QED
        BY <2>2, <2>4, <2>5, <2>6
<1>3. ready' \in SUBSET File /\ EnvsIn(ready') = EnvsIn(ready)
    BY <1>0, <1>1, <1>2
<1> QED
    BY <1>3 DEF Flush, OpIdle

\* Remove deletes an envelope of the name seen, or finds none.
LEMMA RemoveFacts ==
    ASSUME MailqTypes, NEW o \in Operators, Remove(o)
    PROVE  /\ held[o] \in File /\ cmd[o] # NoCmd /\ cmd' = [cmd EXCEPT ![o] = NoCmd]
           /\ ready' \in SUBSET ready /\ quarantine' \in SUBSET quarantine /\ dead' \in SUBSET dead
           /\ \/ /\ UNCHANGED <<ready, quarantine, dead, pc, gc, removed>>
                 /\ held' = [held EXCEPT ![o] = NoFile]
              \/ /\ removed' = removed \cup {held[o].env}
                 /\ \A f \in (ready \ ready') \cup (quarantine \ quarantine') \cup (dead \ dead') : f.env = held[o].env
                 /\ pc' = [pc EXCEPT ![o] = "gc_q"]
                 /\ gc' = [gc EXCEPT ![o] = [body |-> BodyOf[held[o].env], except |-> held[o].env]]
                 /\ UNCHANGED held
           /\ UNCHANGED <<inflight, parked, data, now, boot, txn, handed, history, commands, clobbered>>
<1>0. cmd[o] # NoCmd /\ held[o] \in File
    <2>1. cmd[o].at \in {"in_q", "in_quarantine", "in_dead"}
        BY DEF Remove
    <2> QED
        BY <2>1, MoveFacts
<1>1. UNCHANGED <<inflight, parked, data, now, boot, txn, handed, history, commands, clobbered>>
    BY DEF Remove
<1>2. PICK gone :
          /\ gone = Named([in_q |-> ready, in_quarantine |-> quarantine, in_dead |-> dead][cmd[o].at], held[o])
          /\ ready' = IF cmd[o].at = "in_q" THEN ready \ gone ELSE ready
          /\ quarantine' = IF cmd[o].at = "in_quarantine" THEN quarantine \ gone ELSE quarantine
          /\ dead' = IF cmd[o].at = "in_dead" THEN dead \ gone ELSE dead
          /\ IF gone = {} THEN OpIdle(o) /\ UNCHANGED <<pc, gc, removed>>
             ELSE /\ removed' = removed \cup {held[o].env}
                  /\ cmd' = [cmd EXCEPT ![o] = NoCmd]
                  /\ pc' = [pc EXCEPT ![o] = "gc_q"]
                  /\ gc' = [gc EXCEPT ![o] = [body |-> BodyOf[held[o].env], except |-> held[o].env]]
                  /\ UNCHANGED held
    BY DEF Remove
<1>3. \A g \in gone : g.env = held[o].env
    BY <1>2 DEF Named
<1>4. cmd' = [cmd EXCEPT ![o] = NoCmd]
    BY <1>2 DEF OpIdle
<1>5. ready' \in SUBSET ready /\ quarantine' \in SUBSET quarantine /\ dead' \in SUBSET dead
    BY <1>2
<1>6. \A f \in (ready \ ready') \cup (quarantine \ quarantine') \cup (dead \ dead') : f \in gone
    BY <1>2
<1>7. CASE gone = {}
    <2>1. UNCHANGED <<ready, quarantine, dead, pc, gc, removed>> /\ held' = [held EXCEPT ![o] = NoFile]
        BY <1>2, <1>7 DEF OpIdle
    <2> QED
        BY <1>0, <1>1, <1>4, <1>5, <2>1
<1>8. CASE gone # {}
    <2>1. /\ removed' = removed \cup {held[o].env} /\ pc' = [pc EXCEPT ![o] = "gc_q"]
          /\ gc' = [gc EXCEPT ![o] = [body |-> BodyOf[held[o].env], except |-> held[o].env]] /\ UNCHANGED held
        BY <1>2, <1>8
    <2>2. \A f \in (ready \ ready') \cup (quarantine \ quarantine') \cup (dead \ dead') : f.env = held[o].env
        BY <1>3, <1>6
    <2> QED
        BY <1>0, <1>1, <1>4, <1>5, <2>1, <2>2
<1> QED
    BY <1>7, <1>8

\* The first half of Release and of Hold: the file in hand is written elsewhere.
LEMMA CommitFacts ==
    ASSUME MailqTypes, NEW o \in Operators, ReleaseWrite(o) \/ HoldWrite(o)
    PROVE  /\ held[o] \in File /\ pc[o] = "idle"
           /\ ready' \in SUBSET File /\ quarantine' \in SUBSET File
           /\ \/ /\ ReleaseWrite(o) /\ cmd[o].verb = "release" /\ UNCHANGED quarantine
                 /\ EnvsIn(ready') = EnvsIn(ready) \cup {held[o].env}
              \/ /\ HoldWrite(o) /\ cmd[o].verb = "hold" /\ UNCHANGED ready
                 /\ EnvsIn(quarantine') = EnvsIn(quarantine) \cup {held[o].env}
           /\ \E c \in CommandType : c # NoCmd /\ c.at = "written" /\ c.verb = cmd[o].verb /\ cmd' = [cmd EXCEPT ![o] = c]
           /\ UNCHANGED <<inflight, dead, parked, data, now, boot, txn, handed, pc, held, gc, history,
                          commands, removed, clobbered>>
<1>0. ready \in SUBSET File /\ quarantine \in SUBSET File /\ now \in Nat /\ 0 \in Nat
    BY DEF MailqTypes, TypeInv, TypeOK
<1>1. cmd[o].at \in {"in_q", "in_quarantine"} /\ At(o, "written") /\ "written" \in Steps
    BY DEF ReleaseWrite, HoldWrite, Steps
<1>2. cmd[o] # NoCmd
    BY <1>1, MoveFacts
<1>3. /\ held[o] \in File /\ pc[o] = "idle"
      /\ \E c \in CommandType : c # NoCmd /\ c.at = "written" /\ c.verb = cmd[o].verb /\ cmd' = [cmd EXCEPT ![o] = c]
    BY <1>1, <1>2, MoveFacts
<1>4. UNCHANGED <<inflight, dead, parked, data, now, boot, txn, handed, pc, held, gc, history,
                  commands, removed, clobbered>>
    BY DEF ReleaseWrite, HoldWrite, actors
<1>5. CASE ReleaseWrite(o)
    <2>1. PICK g \in File : g = [held[o] EXCEPT !.due = now] /\ g.env = held[o].env
        BY <1>0, <1>3, StampFacts
    <2>2. ready' = Put(ready, g) /\ cmd[o].verb = "release" /\ UNCHANGED quarantine
        BY <1>5, <2>1 DEF ReleaseWrite
    <2>3. ready' \in SUBSET File /\ EnvsIn(ready') = EnvsIn(ready) \cup {g.env}
        BY <1>0, <2>2, PutType, EnvsInPut
    <2> QED
        BY <1>0, <1>3, <1>4, <1>5, <2>1, <2>2, <2>3
<1>6. CASE HoldWrite(o)
    <2>1. PICK g \in File : g = [held[o] EXCEPT !.due = 0] /\ g.env = held[o].env
        BY <1>0, <1>3, StampFacts
    <2>2. quarantine' = Put(quarantine, g) /\ cmd[o].verb = "hold" /\ UNCHANGED ready
        BY <1>6, <2>1 DEF HoldWrite
    <2>3. quarantine' \in SUBSET File /\ EnvsIn(quarantine') = EnvsIn(quarantine) \cup {g.env}
        BY <1>0, <2>2, PutType, EnvsInPut
    <2> QED
        BY <1>0, <1>3, <1>4, <1>6, <2>1, <2>2, <2>3
<1> QED
    BY <1>5, <1>6

\* The second half: the old copy is unlinked.
LEMMA CommitEndFacts ==
    ASSUME MailqTypes, NEW o \in Operators, ReleaseRemove(o) \/ HoldRemove(o)
    PROVE  /\ held[o] \in File /\ cmd[o].at = "written"
           /\ ready' \in SUBSET ready /\ quarantine' \in SUBSET quarantine
           /\ \/ /\ cmd[o].verb = "release" /\ UNCHANGED ready
                 /\ EnvsIn(quarantine) \subseteq EnvsIn(quarantine') \cup {held[o].env}
              \/ /\ cmd[o].verb = "hold" /\ UNCHANGED quarantine
                 /\ EnvsIn(ready) \subseteq EnvsIn(ready') \cup {held[o].env}
           /\ cmd' = [cmd EXCEPT ![o] = NoCmd] /\ held' = [held EXCEPT ![o] = NoFile]
           /\ UNCHANGED <<inflight, dead, parked, data, now, boot, txn, handed, pc, gc, history,
                          commands, removed, clobbered>>
<1>1. cmd[o].at = "written"
    BY DEF ReleaseRemove, HoldRemove
<1>2. cmd[o] # NoCmd
    BY <1>1, MoveFacts
<1>3. held[o] \in File
    BY <1>1, <1>2, MoveFacts
<1>4. CASE ReleaseRemove(o)
    <2>1. quarantine' = quarantine \ Named(quarantine, held[o]) /\ cmd[o].verb = "release" /\ UNCHANGED ready
        BY <1>4 DEF ReleaseRemove
    <2>2. EnvsIn(quarantine) \subseteq EnvsIn(quarantine') \cup {held[o].env}
        BY <2>1 DEF EnvsIn, Named
    <2> QED
        BY <1>1, <1>3, <1>4, <2>1, <2>2 DEF ReleaseRemove, OpIdle
<1>5. CASE HoldRemove(o)
    <2>1. ready' = ready \ Named(ready, held[o]) /\ cmd[o].verb = "hold" /\ UNCHANGED quarantine
        BY <1>5 DEF HoldRemove
    <2>2. EnvsIn(ready) \subseteq EnvsIn(ready') \cup {held[o].env}
        BY <2>1 DEF EnvsIn, Named
    <2> QED
        BY <1>1, <1>3, <1>5, <2>1, <2>2 DEF HoldRemove, OpIdle
<1> QED
    BY <1>4, <1>5

\* Run names an envelope; nothing is in hand yet.
LEMMA RunFacts ==
    ASSUME MailqTypes, NEW o \in Operators, Run(o)
    PROVE  /\ pc[o] = "idle" /\ cmd[o] = NoCmd /\ UNCHANGED <<vars, removed, clobbered>>
           /\ commands' \in 0 .. MaxCommands
           /\ \E c \in CommandType : cmd' = [cmd EXCEPT ![o] = c] /\ c.at = "find_q"
<1>1. handed \subseteq Envs /\ commands \in 0 .. MaxCommands
    BY DEF MailqTypes, TypeInv, TypeOK, MailqTypeOK
<1>2. commands' \in 0 .. MaxCommands
    BY <1>1, MailqAssumption DEF Run
<1>3. PICK v \in Verbs, e \in handed : cmd' = [cmd EXCEPT ![o] = [verb |-> v, env |-> e, at |-> "find_q"]]
    BY DEF Run
<1>4. PICK c : c = [verb |-> v, env |-> e, at |-> "find_q"]
    OBVIOUS
<1>5. c \in [verb : Verbs, env : Envs, at : Steps] /\ c.at = "find_q"
    BY <1>1, <1>4 DEF Steps
<1> QED
    BY <1>2, <1>3, <1>4, <1>5 DEF Run, CommandType

\* Every step of a command keeps the types.
LEMMA OperatorTypes ==
    ASSUME MailqTypes, OperatorNext
    PROVE  MailqTypes'
<1>0. /\ ready \in SUBSET File /\ quarantine \in SUBSET File /\ dead \in SUBSET File
      /\ commands \in 0 .. MaxCommands
    BY DEF MailqTypes, TypeInv, TypeOK, MailqTypeOK
<1>1. PICK o \in Operators :
          \/ Run(o) \/ FindReady(o) \/ FindInflight(o) \/ FindQuarantine(o) \/ FindDead(o)
          \/ Flush(o) \/ Remove(o) \/ ReleaseWrite(o) \/ ReleaseRemove(o)
          \/ HoldWrite(o) \/ HoldRemove(o) \/ Interrupt(o)
          \/ Collect(o) /\ UNCHANGED <<cmd, commands, removed, clobbered>>
    BY DEF OperatorNext
<1>2. /\ held[o] \in File \cup {NoFile} /\ held = [held EXCEPT ![o] = held[o]]
      /\ NoCmd \in CommandType /\ NoFile \in File \cup {NoFile}
    BY MoveFacts
<1>3. CASE Run(o)
    <2>1. PICK c \in CommandType : cmd' = [cmd EXCEPT ![o] = c] /\ c.at = "find_q"
        BY <1>3, RunFacts
    <2>2. pc[o] = "idle" /\ commands' \in 0 .. MaxCommands
        BY <1>3, RunFacts
    <2>3. UNCHANGED <<ready, inflight, quarantine, dead, parked, data, now, boot, txn, handed, pc, held, gc, history,
                      removed, clobbered>>
        BY <1>3, RunFacts DEF vars, disk, actors
    <2>4. held' = [held EXCEPT ![o] = held[o]]
        BY <1>2, <2>3
    <2> QED
        BY <1>0, <1>2, <2>1, <2>2, <2>3, <2>4, CommandType1
<1>4. CASE FindReady(o) \/ FindInflight(o) \/ FindQuarantine(o) \/ FindDead(o)
    <2>1. PICK c \in CommandType, h \in File \cup {NoFile} :
              /\ cmd' = [cmd EXCEPT ![o] = c] /\ held' = [held EXCEPT ![o] = h]
              /\ c.at # "written" /\ (c.at \in {"in_q", "in_quarantine", "in_dead"} => h \in File)
        BY <1>4, ListingFacts
    <2>2. /\ cmd[o] # NoCmd
          /\ UNCHANGED <<ready, inflight, quarantine, dead, parked, data, now, boot, txn, handed, pc, gc, history,
                         commands, removed, clobbered>>
        BY <1>4, ListingFacts DEF disk
    <2>3. pc[o] = "idle"
        BY <2>2, MoveFacts
    <2> QED
        BY <1>0, <2>1, <2>2, <2>3, CommandType1
<1>5. CASE Flush(o)
    BY <1>0, <1>2, <1>5, FlushFacts, CommandType1
<1>6. CASE Remove(o)
    <2>1. /\ held[o] \in File /\ cmd' = [cmd EXCEPT ![o] = NoCmd]
          /\ ready' \in SUBSET File /\ quarantine' \in SUBSET File /\ dead' \in SUBSET File
          /\ UNCHANGED <<inflight, parked, data, now, boot, txn, handed, history, commands, clobbered>>
        BY <1>0, <1>6, RemoveFacts
    <2>2. CASE UNCHANGED <<pc, gc, removed>> /\ held' = [held EXCEPT ![o] = NoFile]
        BY <1>0, <1>2, <2>1, <2>2, CommandType1
    <2>3. CASE /\ removed' = removed \cup {held[o].env} /\ pc' = [pc EXCEPT ![o] = "gc_q"]
               /\ gc' = [gc EXCEPT ![o] = [body |-> BodyOf[held[o].env], except |-> held[o].env]]
               /\ UNCHANGED held
        <3>0. /\ TypeOK /\ HoldsFile /\ MailqTypeOK /\ CommandHolds
              /\ o \in Actors /\ o \notin Workers
            BY OperatorFacts DEF MailqTypes, TypeInv
        <3>1. held[o].env \in Envs /\ BodyOf[held[o].env] \in Bodies
            BY <2>1, SpoolAssumption DEF File
        <3>2. [body |-> BodyOf[held[o].env], except |-> held[o].env] \in [body : Bodies \cup {NoBody}, except : Envs \cup {NoEnv}]
            BY <3>1
        <3>3. gc' \in [Actors -> [body : Bodies \cup {NoBody}, except : Envs \cup {NoEnv}]]
            BY <2>3, <3>0, <3>2 DEF TypeOK
        <3>4. /\ pc' \in [Actors -> {"idle", "claimed", "done", "rescheduled", "buried", "gc_q",
                                    "gc_inflight", "gc_quarantine", "gc_unlink"}]
              /\ \A a \in Actors : a # o => pc'[a] = pc[a]
            BY <2>3, <3>0 DEF TypeOK
        <3>5. TypeOK'
            BY <2>1, <2>3, <3>0, <3>3, <3>4 DEF TypeOK, boot, history
        <3>6. HoldsFile'
            BY <2>3, <3>0, <3>4, WorkerFacts DEF HoldsFile, Holding, Attempting
        <3>7. cmd' \in [Operators -> CommandType] /\ cmd'[o] = NoCmd /\ \A p \in Operators : p # o => cmd'[p] = cmd[p]
            BY <1>2, <2>1, <3>0 DEF MailqTypeOK, CommandType
        <3>8. CommandHolds'
            BY <2>3, <3>0, <3>4, <3>7, OperatorFacts DEF CommandHolds
        <3> QED
            BY <2>1, <2>3, <3>0, <3>1, <3>5, <3>6, <3>7, <3>8 DEF MailqTypes, TypeInv, MailqTypeOK, CommandType
    <2> QED
        BY <1>6, <2>2, <2>3, RemoveFacts
<1>7. CASE ReleaseWrite(o) \/ HoldWrite(o)
    <2>1. PICK c \in CommandType : c # NoCmd /\ c.at = "written" /\ cmd' = [cmd EXCEPT ![o] = c]
        BY <1>7, CommitFacts
    <2>2. /\ held[o] \in File /\ pc[o] = "idle" /\ ready' \in SUBSET File /\ quarantine' \in SUBSET File
          /\ UNCHANGED <<inflight, dead, parked, data, now, boot, txn, handed, pc, held, gc, history,
                         commands, removed, clobbered>>
        BY <1>7, CommitFacts
    <2>3. held' = [held EXCEPT ![o] = held[o]]
        BY <1>2, <2>2
    <2> QED
        BY <1>0, <1>2, <2>1, <2>2, <2>3, CommandType1
<1>8. CASE ReleaseRemove(o) \/ HoldRemove(o)
    <2>1. /\ cmd' = [cmd EXCEPT ![o] = NoCmd] /\ held' = [held EXCEPT ![o] = NoFile]
          /\ ready' \in SUBSET File /\ quarantine' \in SUBSET File
          /\ UNCHANGED <<inflight, dead, parked, data, now, boot, txn, handed, pc, gc, history,
                         commands, removed, clobbered>>
        BY <1>0, <1>8, CommitEndFacts
    <2> QED
        BY <1>0, <1>2, <2>1, CommandType1
<1>9. CASE Interrupt(o)
    <2>1. /\ cmd' = [cmd EXCEPT ![o] = NoCmd] /\ held' = [held EXCEPT ![o] = NoFile]
          /\ UNCHANGED <<ready, inflight, quarantine, dead, parked, data, now, boot, txn, handed, pc, gc, history,
                         commands, removed, clobbered>>
        BY <1>9 DEF Interrupt, OpIdle, disk
    <2> QED
        BY <1>0, <1>2, <2>1, CommandType1
<1>10. CASE Collect(o) /\ UNCHANGED <<cmd, commands, removed, clobbered>>
    <2>0. o \in Actors /\ pc \in [Actors -> {"idle", "claimed", "done", "rescheduled", "buried", "gc_q",
                                    "gc_inflight", "gc_quarantine", "gc_unlink"}]
          /\ held \in [Actors -> File \cup {NoFile}]
        BY OperatorFacts DEF MailqTypes, TypeInv, TypeOK
    <2>1. TypeInv'
        BY <1>10, <2>0, CollectType DEF MailqTypes
    <2>2. pc[o] # "idle" /\ \A a \in Actors : a # o => pc'[a] = pc[a] /\ held'[a] = held[a]
        BY <1>10, <2>0, CollectEffect
    <2>3. CommandHolds'
        BY <1>10, <2>2, OperatorFacts DEF MailqTypes, CommandHolds
    <2> QED
        BY <1>10, <2>1, <2>3 DEF MailqTypes, MailqTypeOK
<1> QED
    BY <1>1, <1>3, <1>4, <1>5, <1>6, <1>7, <1>8, <1>9, <1>10

\* The types are inductive.
LEMMA MailqTypesStep == MailqTypes /\ [MailqNext]_mailqVars => MailqTypes'
<1> SUFFICES ASSUME MailqTypes, [MailqNext]_mailqVars PROVE MailqTypes'
    OBVIOUS
<1>1. CASE UNCHANGED mailqVars
    BY <1>1 DEF mailqVars, vars, disk, boot, actors, history, MailqTypes, MailqTypeOK, CommandHolds, TypeInv,
       TypeOK, HoldsFile, Holding, Attempting
<1> QED
    BY <1>1, OperatorTypes, GatewayTypes DEF MailqNext

\* Before the first command.
LEMMA MailqTypesInit == MailqInit => MailqTypes
<1> SUFFICES ASSUME MailqInit PROVE MailqTypes
    OBVIOUS
<1>1. TypeInv
    BY InitType DEF MailqInit
<1>2. MailqTypeOK /\ CommandHolds
    BY MailqAssumption DEF MailqInit, MailqTypeOK, CommandHolds
<1> QED
    BY <1>1, <1>2 DEF MailqTypes

\* A command of mailq is always at one of its steps, with an envelope the gateway knows;
\* it never goes on with a file of inflight/.
THEOREM CommandsTyped == MailqSpec => []MailqTypeOK
<1>1. MailqTypes => MailqTypeOK
    BY DEF MailqTypes
<1> QED
    BY <1>1, MailqTypesInit, MailqTypesStep, PTL DEF MailqSpec

-----------------------------------------------------------------------------
(* Safety, for one operator and a gateway that is not restarted.           *)

\* What MailqInv says beyond the types.
LEMMA MailqInvParts ==
    MailqInv <=> /\ MailqTypes /\ CommandCommits /\ FirstRun /\ ClaimKept /\ ClaimsApart /\ MoveCommits
                 /\ MailqNoMailLost
BY DEF MailqInv, MailqTypes, TypeInv

\* What keeps the invariant: nothing that is safe gets unsafe, a claim that is
\* unlinked is of an envelope that is safe, and of no other worker's.
LEMMA SafeStep ==
    ASSUME MailqInv, MailqTypes', FirstRun', CommandCommits', Gone \subseteq Gone', Kept \subseteq Kept',
           \A w \in Workers : Holding(w)' =>
               /\ Holding(w) /\ held'[w] = held[w]
               /\ pc'[w] = "rescheduled" => pc[w] = "rescheduled" \/ held[w].env \in Kept'
               /\ pc'[w] = "buried" => pc[w] = "buried" \/ held[w].env \in Gone',
           \A f \in inflight \ inflight' :
               /\ f.env \in Kept'
               /\ \A w \in Workers : Holding(w)' /\ held[w] = f => f.env \in Gone',
           handed' \subseteq handed \cup Kept'
    PROVE  MailqInv'
<1>0. ClaimKept /\ ClaimsApart /\ MoveCommits /\ MailqNoMailLost
    BY MailqInvParts
<1>1. ClaimKept'
    <2> SUFFICES ASSUME NEW w \in Workers, Holding(w)' PROVE held'[w] \in inflight' \/ held'[w].env \in Gone'
        BY DEF ClaimKept
    <2>1. Holding(w) /\ held'[w] = held[w]
        OBVIOUS
    <2>2. held[w] \in inflight \/ held[w].env \in Gone
        BY <1>0, <2>1 DEF ClaimKept
    <2> QED
        BY <2>1, <2>2
<1>2. ClaimsApart'
    <2> SUFFICES ASSUME NEW w \in Workers, NEW v \in Workers, Holding(w)', Holding(v)', w # v,
                        held'[w].env = held'[v].env, held'[w].due = held'[v].due
                 PROVE  held'[w].env \in Gone'
        BY DEF ClaimsApart
    <2>1. Holding(w) /\ held'[w] = held[w] /\ Holding(v) /\ held'[v] = held[v]
        OBVIOUS
    <2>2. held[w].env \in Gone
        BY <1>0, <2>1 DEF ClaimsApart
    <2> QED
        BY <2>1, <2>2
<1>3. MoveCommits'
    <2> SUFFICES ASSUME NEW w \in Workers
                 PROVE  /\ pc'[w] = "rescheduled" => held'[w].env \in Kept'
                        /\ pc'[w] = "buried" => held'[w].env \in Gone'
        BY DEF MoveCommits
    <2>1. pc'[w] \in {"rescheduled", "buried"} => Holding(w)'
        BY DEF Holding, Attempting
    <2>2. /\ pc[w] = "rescheduled" => held[w].env \in Kept
          /\ pc[w] = "buried" => held[w].env \in Gone
        BY <1>0 DEF MoveCommits
    <2> QED
        BY <2>1, <2>2
<1>4. Kept' \subseteq Stored' \cup Gone'
    <2>1. \A w \in Workers : Attempting(w)' => held'[w].env \in EnvsIn(inflight') \cup Gone'
        BY <1>1 DEF ClaimKept, Holding, EnvsIn
    <2>2. EnvsIn(Stranded') \subseteq EnvsIn(inflight')
        BY DEF Stranded, EnvsIn
    <2> QED
        BY <2>1, <2>2 DEF Kept, Queued, Stored
<1>5. MailqNoMailLost'
    <2> SUFFICES ASSUME NEW e \in handed' PROVE e \in Stored' \cup Gone'
        BY DEF MailqNoMailLost, Gone
    <2>1. CASE e \in Kept'
        BY <1>4, <2>1
    <2>2. CASE e \in handed /\ e \notin Kept'
        <3>1. e \in Stored \cup Gone
            BY <1>0, <2>2 DEF MailqNoMailLost, Gone
        <3>2. e \notin Kept
            BY <2>2
        <3>3. PICK f \in inflight : f.env = e
            BY <3>1, <3>2 DEF Stored, Kept, Queued, EnvsIn
        <3>4. f \in inflight'
            BY <2>2, <3>3
        <3> QED
            BY <3>3, <3>4 DEF Stored, EnvsIn
    <2> QED
        BY <2>1, <2>2
<1> QED
    BY <1>1, <1>2, <1>3, <1>5 DEF MailqInv, MailqTypes, TypeInv

\* A step of the gateway: no command is touched, and what was in q/ or in a worker's
\* hands still is, or is settled.
LEMMA GatewayStep ==
    ASSUME MailqInv, MailqTypes', FirstRun', UNCHANGED cmd,
           \A o \in Operators : held'[o] = held[o],
           Gone \subseteq Gone', EnvsIn(quarantine) \subseteq EnvsIn(quarantine'), EnvsIn(ready) \subseteq EnvsIn(ready'),
           \A v \in Workers : Attempting(v) =>
               \/ Attempting(v)' /\ held'[v] = held[v]
               \/ held[v].env \in EnvsIn(ready') \cup EnvsIn(Stranded') \cup Gone',
           \A w \in Workers : Holding(w)' =>
               /\ Holding(w) /\ held'[w] = held[w]
               /\ pc'[w] = "rescheduled" => pc[w] = "rescheduled" \/ held[w].env \in EnvsIn(ready')
               /\ pc'[w] = "buried" => pc[w] = "buried" \/ held[w].env \in Gone',
           \A f \in inflight \ inflight' :
               /\ f.env \in Kept'
               /\ f \in Stranded => f.env \in Gone'
               /\ \A w \in Workers : Holding(w)' /\ held[w] = f => f.env \in Gone',
           handed' \subseteq handed \cup EnvsIn(ready') \cup EnvsIn(quarantine')
    PROVE  MailqInv'
<1>1. Queued \subseteq Queued' \cup Gone'
    <2> SUFFICES ASSUME NEW e \in Queued PROVE e \in Queued' \cup Gone'
        OBVIOUS
    <2>0. EnvsIn(ready') \subseteq Queued' /\ EnvsIn(Stranded') \subseteq Queued'
        BY DEF Queued
    <2>1. CASE e \in EnvsIn(ready)
        BY <2>0, <2>1
    <2>2. CASE e \in EnvsIn(Stranded)
        <3>1. PICK f \in Stranded : f.env = e
            BY <2>2 DEF EnvsIn
        <3>2. f \in inflight /\ \A w \in Workers : Holding(w) => held[w] # f
            BY <3>1 DEF Stranded
        <3>3. CASE f \in inflight'
            <4>1. f \in Stranded'
                BY <3>2, <3>3 DEF Stranded
            <4> QED
                BY <2>0, <3>1, <4>1 DEF EnvsIn
        <3> QED
            BY <3>1, <3>2, <3>3
    <2>3. CASE e \notin EnvsIn(ready) \cup EnvsIn(Stranded)
        <3>1. PICK v \in Workers : Attempting(v) /\ e = held[v].env
            BY <2>3 DEF Queued
        <3>2. Attempting(v)' => held'[v].env \in Queued'
            BY DEF Queued
        <3> QED
            BY <2>0, <3>1, <3>2
    <2> QED
        BY <2>1, <2>2, <2>3
<1>2. Kept \subseteq Kept' /\ EnvsIn(ready') \subseteq Kept' /\ EnvsIn(quarantine') \subseteq Kept'
    BY <1>1 DEF Kept, Queued
<1>3. CommandCommits'
    <2>1. CommandCommits
        BY MailqInvParts
    <2> QED
        BY <1>1, <2>1 DEF CommandCommits
<1> QED
    BY <1>2, <1>3, SafeStep

\* A step that moves no envelope and leaves every worker that holds one alone.
LEMMA QuietStep ==
    ASSUME MailqInv, MailqTypes', FirstRun', UNCHANGED cmd,
           \A o \in Operators : held'[o] = held[o],
           UNCHANGED <<ready, inflight, quarantine, dead, parked, handed, completed, removed, clobbered>>,
           \A w \in Workers : (pc'[w] = pc[w] /\ held'[w] = held[w]) \/ (~Holding(w) /\ ~Holding(w)')
    PROVE  MailqInv'
<1>1. Gone \subseteq Gone'
    BY DEF Gone, Settled, EnvsIn
<1>2. \A v \in Workers : Attempting(v) => Attempting(v)' /\ held'[v] = held[v]
    BY DEF Holding, Attempting
<1>3. \A w \in Workers : Holding(w)' => Holding(w) /\ held'[w] = held[w] /\ pc'[w] = pc[w]
    BY DEF Holding, Attempting
<1> QED
    BY <1>1, <1>2, <1>3, GatewayStep

\* Sessions and the boot sequence.
LEMMA SessionKeeps ==
    ASSUME MailqInv, SessionNext, UNCHANGED <<cmd, commands, removed, clobbered>>
    PROVE  MailqInv'
<1>0. MailqTypes /\ FirstRun /\ TypeOK
    BY MailqInvParts DEF MailqTypes, TypeInv
<1>1. MailqTypes'
    BY <1>0, GatewayTypes DEF GatewayNext
<1>2. UNCHANGED <<inflight, dead, parked, boot, pc, held, gc, completed>>
    BY DEF SessionNext, WriteBody, RemoveBody, EnqueueFail, Accept, Enqueue, Quarantine, disk, actors, history
<1>3. FirstRun'
    BY <1>0, <1>2 DEF FirstRun, boot, Holding, Attempting
<1>4. ASSUME NEW b \in Bodies, WriteBody(b) \/ RemoveBody(b) \/ EnqueueFail(b) \/ Accept(b) PROVE MailqInv'
    <2>1. UNCHANGED <<ready, quarantine, handed>>
        BY <1>4 DEF WriteBody, RemoveBody, EnqueueFail, Accept, disk
    <2> QED
        BY <1>1, <1>2, <1>3, <2>1, QuietStep
<1>5. ASSUME NEW e \in Envs, Enqueue(e) \/ Quarantine(e) PROVE MailqInv'
    <2>0. ready \in SUBSET File /\ quarantine \in SUBSET File /\ now \in Nat /\ 0 \in Nat
        BY <1>0 DEF TypeOK
    <2>1. handed' = handed \cup {e}
        BY <1>5 DEF Enqueue, Quarantine
    <2>2. Gone \subseteq Gone'
        BY <1>2, <2>1 DEF Gone, Settled, EnvsIn
    <2>3. /\ EnvsIn(ready) \subseteq EnvsIn(ready') /\ EnvsIn(quarantine) \subseteq EnvsIn(quarantine')
          /\ e \in EnvsIn(ready') \cup EnvsIn(quarantine')
        <3>1. CASE Enqueue(e)
            <4>1. PICK f \in File : f = [env |-> e, due |-> now, gen |-> 0] /\ f.env = e
                BY <2>0, FreshFile
            <4>2. ready' = Put(ready, f) /\ quarantine' = quarantine
                BY <3>1, <4>1 DEF Enqueue
            <4>3. EnvsIn(ready') = EnvsIn(ready) \cup {f.env}
                BY <2>0, <4>2, EnvsInPut
            <4> QED
                BY <4>1, <4>2, <4>3
        <3>2. CASE Quarantine(e)
            <4>1. PICK f \in File : f = [env |-> e, due |-> 0, gen |-> 0] /\ f.env = e
                BY <2>0, FreshFile
            <4>2. quarantine' = Put(quarantine, f) /\ ready' = ready
                BY <3>2, <4>1 DEF Quarantine
            <4>3. EnvsIn(quarantine') = EnvsIn(quarantine) \cup {f.env}
                BY <2>0, <4>2, EnvsInPut
            <4> QED
                BY <4>1, <4>2, <4>3
        <3> QED
            BY <1>5, <3>1, <3>2
    <2>4. \A w \in Workers : (Attempting(w)' <=> Attempting(w)) /\ (Holding(w)' <=> Holding(w))
        BY <1>2 DEF Holding, Attempting
    <2> QED
        BY <1>1, <1>2, <1>3, <2>1, <2>2, <2>3, <2>4, GatewayStep
<1> QED
    BY <1>4, <1>5 DEF SessionNext

\* The process and the clock.
LEMMA ProcessKeeps ==
    ASSUME MailqInv, MaxRestarts = 0, Start \/ Shutdown \/ Crash \/ Exit \/ Tick \/ Poll,
           UNCHANGED <<cmd, commands, removed, clobbered>>
    PROVE  MailqInv'
<1>0. MailqTypes /\ FirstRun /\ TypeOK /\ restarts \in Nat
    BY MailqInvParts DEF MailqTypes, TypeInv, TypeOK
<1>1. MailqTypes'
    BY <1>0, GatewayTypes DEF GatewayNext
<1>2. \A o \in Operators : held'[o] = held[o]
    BY <1>0, OperatorsApart DEF GatewayNext
<1>3. ~(Shutdown \/ Crash \/ Exit)
    BY <1>0 DEF Shutdown, Crash, Exit, Halt
<1>4. CASE Tick \/ Poll
    <2>1. UNCHANGED <<ready, inflight, quarantine, dead, parked, boot, handed, pc, held, completed, faulted>>
        BY <1>4 DEF Tick, Poll, vars, disk, actors, history
    <2>2. FirstRun'
        BY <1>0, <2>1 DEF FirstRun, boot, Holding, Attempting
    <2> QED
        BY <1>1, <1>2, <2>1, <2>2, QuietStep
<1>5. CASE SweepStart \/ RecoverStart \/ RecoverDone
    <2>1. UNCHANGED <<ready, inflight, quarantine, dead, parked, handed, pc, held, completed, faulted>>
        BY <1>5 DEF SweepStart, RecoverStart, Recover, RecoverDone, disk, actors, history
    <2>2. /\ phase \in {"down", "sweep", "recover"} /\ phase' \in {"sweep", "recover", "up"}
          /\ recTodo' \in {recTodo, inflight}
        BY <1>5 DEF SweepStart, RecoverStart, Recover, RecoverDone
    <2>3. FirstRun'
        BY <1>0, <2>1, <2>2 DEF FirstRun, Holding, Attempting
    <2> QED
        BY <1>1, <1>2, <2>1, <2>3, QuietStep
<1>6. ASSUME NEW b \in Bodies, SweepBody(b) PROVE MailqInv'
    <2>1. /\ UNCHANGED <<ready, inflight, quarantine, dead, parked, phase, recTodo, handed, held, completed, faulted>>
          /\ pc' = [pc EXCEPT !["boot"] = "gc_q"]
        BY <1>6 DEF SweepBody, disk, history
    <2>2. \A w \in Workers : pc'[w] = pc[w]
        BY <1>0, <2>1, WorkerFacts DEF TypeOK
    <2>3. FirstRun'
        BY <1>0, <2>1, <2>2 DEF FirstRun, Holding, Attempting
    <2> QED
        BY <1>1, <1>2, <2>1, <2>2, <2>3, QuietStep
<1>7. CASE Collect("boot")
    <2>0. "boot" \in Actors
        BY DEF Actors
    <2>1. /\ UNCHANGED <<ready, inflight, quarantine, dead, parked, boot, handed, completed, faulted>>
          /\ \A w \in Workers : pc'[w] = pc[w] /\ held'[w] = held[w]
        BY <1>0, <1>7, <2>0, CollectEffect, WorkerFacts DEF TypeOK, history
    <2>2. FirstRun'
        BY <1>0, <2>1 DEF FirstRun, boot, Holding, Attempting
    <2> QED
        BY <1>1, <1>2, <2>1, <2>2, QuietStep
<1>8. ~(RecoverFail \/ \E f \in recTodo : RecoverEntry(f))
    BY <1>0 DEF FirstRun, RecoverFail
<1> QED
    BY <1>3, <1>4, <1>5, <1>6, <1>7, <1>8 DEF Start

\* A worker's steps before it unlinks anything.
LEMMA WorkerKeeps ==
    ASSUME MailqInv, NEW w \in Workers,
           Relay(w) \/ RescheduleWrite(w) \/ BuryWrite(w) \/ MoveFail(w) \/ Collect(w),
           UNCHANGED <<cmd, commands, removed, clobbered>>
    PROVE  MailqInv'
<1>0. MailqTypes /\ FirstRun /\ TypeOK /\ HoldsFile /\ w \in Actors
    BY MailqInvParts, WorkerFacts DEF MailqTypes, TypeInv
<1>1. MailqTypes'
    BY <1>0, GatewayTypes DEF GatewayNext, Attempt, Finish, Unlink
<1>2. \A o \in Operators : held'[o] = held[o]
    BY <1>0, OperatorsApart DEF GatewayNext, Attempt, Finish, Unlink
<1>3. /\ ready \in SUBSET File /\ dead \in SUBSET File
      /\ pc \in [Actors -> {"idle", "claimed", "done", "rescheduled", "buried", "gc_q",
                            "gc_inflight", "gc_quarantine", "gc_unlink"}]
      /\ held \in [Actors -> File \cup {NoFile}]
      /\ \A v \in Workers : v \in Actors
    BY <1>0, WorkerFacts DEF TypeOK
<1>4. CASE Collect(w)
    <2>1. PICK s \in {"idle", "gc_inflight", "gc_quarantine", "gc_unlink"} : pc' = [pc EXCEPT ![w] = s]
        BY <1>0, <1>4, CollectEffect
    <2>2. /\ UNCHANGED <<ready, inflight, quarantine, dead, parked, boot, handed, completed, faulted>>
          /\ pc[w] \in {"gc_q", "gc_inflight", "gc_quarantine", "gc_unlink"}
          /\ \A v \in Workers : v # w => held'[v] = held[v]
        BY <1>0, <1>3, <1>4, CollectEffect DEF history
    <2>3. ~Holding(w) /\ ~Holding(w)' /\ \A v \in Workers : v # w => pc'[v] = pc[v]
        BY <1>0, <1>3, <2>1, <2>2 DEF Holding, Attempting
    <2>4. FirstRun'
        BY <1>0, <2>2, <2>3 DEF FirstRun, boot, Holding, Attempting
    <2> QED
        BY <1>1, <1>2, <2>2, <2>3, <2>4, QuietStep
<1>5. CASE Relay(w) \/ RescheduleWrite(w) \/ BuryWrite(w) \/ MoveFail(w)
    <2>0. Holding(w) /\ held[w] \in File /\ held[w].env \in Envs /\ held[w].gen + 1 \in Nat /\ phase = "up"
        <3>1. Holding(w)
            BY <1>5 DEF Relay, RescheduleWrite, BuryWrite, MoveFail, Holding, Attempting
        <3>2. held[w] \in File
            BY <1>0, <3>1 DEF HoldsFile
        <3>3. phase = "up"
            BY <1>0, <3>1 DEF FirstRun
        <3> QED
            BY <3>1, <3>2, <3>3 DEF File
    <2>1. UNCHANGED <<inflight, quarantine, parked, boot, handed, completed>>
        BY <1>5 DEF Relay, RescheduleWrite, BuryWrite, MoveFail, disk, history
    <2>2. FirstRun'
        BY <1>0, <2>0, <2>1 DEF FirstRun, boot
    <2>3. CASE Relay(w)
        <3>1. UNCHANGED <<ready, dead, held, faulted>> /\ pc[w] = "claimed" /\ pc' = [pc EXCEPT ![w] = "done"]
            BY <2>3 DEF Relay, disk, history
        <3>2. pc'[w] = "done" /\ \A v \in Workers : v # w => pc'[v] = pc[v]
            BY <1>0, <1>3, <3>1
        <3>3. Gone \subseteq Gone'
            BY <2>1, <3>1 DEF Gone, Settled, EnvsIn
        <3>4. \A v \in Workers : /\ Attempting(v) => Attempting(v)'
                                 /\ Holding(v)' => Holding(v) /\ (pc'[v] # "done" => pc'[v] = pc[v])
            BY <3>1, <3>2 DEF Holding, Attempting
        <3> QED
            BY <1>1, <1>2, <2>1, <2>2, <3>1, <3>3, <3>4, GatewayStep
    <2>4. CASE RescheduleWrite(w)
        <3>1. PICK due \in now .. MaxTime :
                ready' = Put(ready, [env |-> held[w].env, due |-> due, gen |-> held[w].gen + 1])
            BY <2>4 DEF RescheduleWrite
        <3>2. PICK f : f = [env |-> held[w].env, due |-> due, gen |-> held[w].gen + 1]
            OBVIOUS
        <3>3. f \in File /\ f.env = held[w].env
            <4>1. due \in Nat
                BY <1>0, SpoolAssumption DEF TypeOK
            <4> QED
                BY <2>0, <3>2, <4>1 DEF File
        <3>4. EnvsIn(ready') = EnvsIn(ready) \cup {held[w].env}
            BY <1>3, <3>1, <3>2, <3>3, EnvsInPut
        <3>5. UNCHANGED <<dead, held, faulted>> /\ pc[w] = "claimed" /\ pc' = [pc EXCEPT ![w] = "rescheduled"]
            BY <2>4 DEF RescheduleWrite
        <3>6. pc'[w] = "rescheduled" /\ \A v \in Workers : v # w => pc'[v] = pc[v]
            BY <1>0, <1>3, <3>5
        <3>7. Gone \subseteq Gone'
            BY <2>1, <3>5 DEF Gone, Settled, EnvsIn
        <3>8. \A v \in Workers : /\ Attempting(v) => Attempting(v)' \/ v = w
                                 /\ Holding(v)' => Holding(v) /\ (v # w => pc'[v] = pc[v])
            BY <3>5, <3>6 DEF Holding, Attempting
        <3> QED
            BY <1>1, <1>2, <2>1, <2>2, <3>4, <3>5, <3>6, <3>7, <3>8, GatewayStep
    <2>5. CASE BuryWrite(w)
        <3>1. PICK f : f = [env |-> held[w].env, due |-> 0, gen |-> held[w].gen + 1]
            OBVIOUS
        <3>2. f \in File /\ f.env = held[w].env
            BY <2>0, <3>1 DEF File
        <3>3. dead' = Put(dead, f)
            BY <2>5, <3>1 DEF BuryWrite
        <3>4. EnvsIn(dead') = EnvsIn(dead) \cup {held[w].env}
            BY <1>3, <3>2, <3>3, EnvsInPut
        <3>5. UNCHANGED <<ready, held, faulted>> /\ pc[w] = "claimed" /\ pc' = [pc EXCEPT ![w] = "buried"]
            BY <2>5 DEF BuryWrite, history
        <3>6. pc'[w] = "buried" /\ \A v \in Workers : v # w => pc'[v] = pc[v]
            BY <1>0, <1>3, <3>5
        <3>7. Gone \subseteq Gone' /\ held[w].env \in Gone'
            BY <2>1, <3>4, <3>5 DEF Gone, Settled
        <3>8. \A v \in Workers : /\ Attempting(v) => Attempting(v)'
                                 /\ Holding(v)' => Holding(v) /\ (v # w => pc'[v] = pc[v])
            BY <3>5, <3>6 DEF Holding, Attempting
        <3> QED
            BY <1>1, <1>2, <2>1, <2>2, <3>5, <3>6, <3>7, <3>8, GatewayStep
    <2>6. CASE MoveFail(w)
        <3>1. /\ UNCHANGED <<ready, dead>>
              /\ pc' = [pc EXCEPT ![w] = "idle"] /\ held' = [held EXCEPT ![w] = NoFile]
            BY <2>6 DEF MoveFail, Idle, disk
        <3>2. pc'[w] = "idle" /\ \A v \in Workers : v # w => pc'[v] = pc[v] /\ held'[v] = held[v]
            BY <1>0, <1>3, <3>1
        <3>3. Gone \subseteq Gone'
            BY <2>1, <3>1 DEF Gone, Settled, EnvsIn
        <3>4. \A v \in Workers : /\ Attempting(v) => (Attempting(v)' /\ held'[v] = held[v]) \/ v = w
                                 /\ Holding(v)' => v # w /\ Holding(v)
            BY <3>2 DEF Holding, Attempting
        <3>5. held[w].env \in EnvsIn(Stranded') \cup Gone'
            <4> SUFFICES ASSUME held[w].env \notin Gone PROVE held[w].env \in EnvsIn(Stranded')
                BY <3>3
            <4>1. ClaimKept /\ ClaimsApart
                BY MailqInvParts
            <4>2. held[w] \in inflight'
                BY <2>0, <2>1, <4>1 DEF ClaimKept
            <4>3. \A v \in Workers : Holding(v)' => held'[v] # held[w]
                BY <2>0, <3>2, <3>4, <4>1 DEF ClaimsApart
            <4>4. held[w] \in Stranded'
                BY <4>2, <4>3 DEF Stranded
            <4> QED
                BY <4>4 DEF EnvsIn
        <3> QED
            BY <1>1, <1>2, <2>1, <2>2, <3>1, <3>2, <3>3, <3>4, <3>5, GatewayStep
    <2> QED
        BY <1>5, <2>3, <2>4, <2>5, <2>6
<1> QED
    BY <1>4, <1>5

\* A claim is unlinked.  What a worker settled or put back is safe, and if another's
\* claim has the same name the envelope is one that nothing is claimed of.
LEMMA UnlinkKeeps ==
    ASSUME MailqInv, NEW w \in Workers, Unlink(w) \/ UnlinkReplaced(w),
           UNCHANGED <<cmd, commands, removed, clobbered>>
    PROVE  MailqInv'
<1>0. /\ MailqTypes /\ FirstRun /\ ClaimKept /\ ClaimsApart /\ MoveCommits
      /\ TypeOK /\ HoldsFile /\ w \in Actors
    BY MailqInvParts, WorkerFacts DEF MailqTypes, TypeInv
<1>g. GatewayNext
    BY DEF GatewayNext, Attempt, Finish, Unlink, Complete, RescheduleRemove, BuryRemove, UnlinkReplaced
<1>1. MailqTypes'
    BY <1>0, <1>g, GatewayTypes
<1>2. \A o \in Operators : held'[o] = held[o]
    BY <1>0, <1>g, OperatorsApart
<1>3. /\ pc \in [Actors -> {"idle", "claimed", "done", "rescheduled", "buried", "gc_q",
                            "gc_inflight", "gc_quarantine", "gc_unlink"}]
      /\ held \in [Actors -> File \cup {NoFile}]
      /\ \A v \in Workers : v \in Actors
    BY <1>0, WorkerFacts DEF TypeOK
<1>4. /\ UNCHANGED <<ready, quarantine, dead, boot, handed, faulted>>
      /\ pc[w] \in {"claimed", "done", "rescheduled", "buried"}
      /\ \/ pc' = [pc EXCEPT ![w] = "idle"] /\ held' = [held EXCEPT ![w] = NoFile]
         \/ pc' = [pc EXCEPT ![w] = "gc_q"] /\ held' = held
      /\ inflight' \in SUBSET inflight /\ completed \subseteq completed' /\ parked \subseteq parked'
    <2>1. CASE Unlink(w)
        BY <2>1 DEF Unlink, Park, Complete, RescheduleRemove, BuryRemove, Idle, history
    <2>2. CASE UnlinkReplaced(w)
        BY <2>2 DEF UnlinkReplaced, Idle
    <2> QED
        BY <2>1, <2>2
<1>5. /\ \A v \in Workers : v # w => pc'[v] = pc[v] /\ held'[v] = held[v]
      /\ pc'[w] \in {"idle", "gc_q"}
    BY <1>0, <1>3, <1>4
<1>6. Holding(w) /\ held[w] \in File /\ phase = "up" /\ ~Holding(w)'
    BY <1>0, <1>4, <1>5 DEF Holding, Attempting, HoldsFile, FirstRun
<1>7. FirstRun'
    BY <1>0, <1>4, <1>6 DEF FirstRun, boot
<1>8. Gone \subseteq Gone'
    BY <1>4 DEF Gone, Settled
<1>9. \A f \in inflight \ inflight' : f.env = held[w].env /\ f.due = held[w].due
    <2>1. CASE Unlink(w)
        BY <2>1 DEF Unlink, Park, Complete, RescheduleRemove, BuryRemove
    <2>2. CASE UnlinkReplaced(w)
        BY <2>2 DEF UnlinkReplaced, Named
    <2> QED
        BY <2>1, <2>2
<1>10. pc[w] # "rescheduled" => held[w].env \in Gone'
    <2>1. CASE UnlinkReplaced(w)
        BY <1>0, <1>6, <1>8, <2>1 DEF UnlinkReplaced, ClaimKept
    <2>2. CASE Unlink(w)
        <3>1. CASE pc[w] = "buried"
            BY <1>0, <1>8, <3>1 DEF MoveCommits
        <3>2. CASE pc[w] = "claimed"
            <4>1. held[w].env \in parked'
                BY <2>2, <3>2 DEF Unlink, Park, Complete, RescheduleRemove, BuryRemove
            <4> QED
                BY <4>1 DEF Gone, Settled
        <3>3. CASE pc[w] = "done"
            <4>1. held[w].env \in completed'
                BY <2>2, <3>3 DEF Unlink, Park, Complete, RescheduleRemove, BuryRemove
            <4> QED
                BY <4>1 DEF Gone, Settled
        <3> QED
            BY <1>4, <3>1, <3>2, <3>3
    <2> QED
        BY <2>1, <2>2
<1>11. \A v \in Workers : Attempting(v) =>
           (Attempting(v)' /\ held'[v] = held[v]) \/ held[v].env \in Gone'
    <2> SUFFICES ASSUME NEW v \in Workers, Attempting(v)
                 PROVE  (Attempting(v)' /\ held'[v] = held[v]) \/ held[v].env \in Gone'
        OBVIOUS
    <2>1. CASE v = w
        BY <1>10, <2>1 DEF Attempting
    <2>2. CASE v # w
        BY <1>5, <2>2 DEF Attempting
    <2> QED
        BY <2>1, <2>2
<1>a. \A f \in Stranded \ inflight' : f.env \in Gone'
    <2> SUFFICES ASSUME NEW f \in Stranded, f \notin inflight' PROVE f.env \in Gone'
        OBVIOUS
    <2>1. f \in inflight /\ held[w] # f
        BY <1>6 DEF Stranded
    <2>2. UnlinkReplaced(w)
        BY <2>1 DEF Unlink, Park, Complete, RescheduleRemove, BuryRemove
    <2>3. held[w].env \in Gone
        BY <1>0, <1>6, <2>2 DEF UnlinkReplaced, ClaimKept
    <2> QED
        BY <1>8, <1>9, <2>1, <2>3
<1>b. \A f \in Stranded : f \in inflight' => f \in Stranded'
    <2>1. \A v \in Workers : Holding(v)' => Holding(v) /\ held'[v] = held[v]
        BY <1>5, <1>6 DEF Holding, Attempting
    <2> QED
        BY <2>1 DEF Stranded
<1>12. held[w].env \in Kept'
    <2>1. CASE pc[w] # "rescheduled"
        BY <1>10, <2>1 DEF Kept
    <2>2. CASE pc[w] = "rescheduled"
        <3>1. held[w].env \in Kept
            BY <1>0, <2>2 DEF MoveCommits
        <3>2. \A v \in Workers : Attempting(v) => Attempting(v)' /\ held'[v] = held[v]
            BY <1>5, <2>2 DEF Attempting
        <3>3. EnvsIn(Stranded) \subseteq EnvsIn(Stranded') \cup Gone'
            BY <1>a, <1>b DEF EnvsIn
        <3>4. Queued \subseteq Queued' \cup Gone'
            BY <1>4, <3>2, <3>3 DEF Queued
        <3> QED
            BY <1>4, <1>8, <3>1, <3>4 DEF Kept
    <2> QED
        BY <2>1, <2>2
<1>13. \A f \in inflight \ inflight' :
           /\ f.env \in Kept'
           /\ f \in Stranded => f.env \in Gone'
           /\ \A v \in Workers : Holding(v)' /\ held[v] = f => f.env \in Gone'
    <2> SUFFICES ASSUME NEW f \in inflight \ inflight', NEW v \in Workers, Holding(v)', held[v] = f
                 PROVE  f.env \in Gone'
        BY <1>9, <1>12, <1>a
    <2>1. v # w /\ Holding(v)
        BY <1>5, <1>6 DEF Holding, Attempting
    <2>2. held[w].env = held[v].env /\ held[w].due = held[v].due
        BY <1>9
    <2>3. held[w].env \in Gone
        BY <1>0, <1>6, <2>1, <2>2 DEF ClaimsApart
    <2> QED
        BY <1>8, <2>2, <2>3
<1>14. \A v \in Workers : Holding(v)' => Holding(v) /\ held'[v] = held[v] /\ pc'[v] = pc[v]
    BY <1>5, <1>6 DEF Holding, Attempting
<1> QED
    BY <1>1, <1>2, <1>4, <1>7, <1>8, <1>11, <1>13, <1>14, GatewayStep

\* A claim takes a copy out of q/ into a worker's hands.  If its name is taken the
\* envelope is clobbered; otherwise the new claim is apart from every other.
LEMMA ClaimKeeps ==
    ASSUME MailqInv, NEW w \in Workers, NEW f \in ready, ClaimBeside(w, f)
    PROVE  MailqInv'
<1>0. /\ MailqTypes /\ FirstRun /\ ClaimKept /\ ClaimsApart /\ MoveCommits /\ CommandCommits /\ MailqNoMailLost
      /\ TypeOK /\ HoldsFile /\ w \in Actors /\ f \in File
    BY MailqInvParts, WorkerFacts DEF MailqTypes, TypeInv, TypeOK
<1>1. MailqTypes'
    BY <1>0, GatewayTypes
<1>2. \A o \in Operators : held'[o] = held[o]
    BY <1>0, OperatorsApart DEF ClaimBeside
<1>3. /\ pc \in [Actors -> {"idle", "claimed", "done", "rescheduled", "buried", "gc_q",
                            "gc_inflight", "gc_quarantine", "gc_unlink"}]
      /\ held \in [Actors -> File \cup {NoFile}]
      /\ \A v \in Workers : v \in Actors
    BY <1>0, WorkerFacts DEF TypeOK
<1>4. /\ phase = "up" /\ pc[w] = "idle" /\ ready' = ready \ {f} /\ inflight' = Put(inflight, f)
      /\ pc' = [pc EXCEPT ![w] = "claimed"] /\ held' = [held EXCEPT ![w] = f]
      /\ UNCHANGED <<quarantine, dead, parked, boot, handed, completed, faulted, cmd, removed>>
      /\ clobbered' = clobbered \cup EnvsIn(Named(inflight, f))
    BY DEF ClaimBeside, Claim, history
<1>5. /\ pc'[w] = "claimed" /\ held'[w] = f
      /\ \A v \in Workers : v # w => pc'[v] = pc[v] /\ held'[v] = held[v]
    BY <1>0, <1>3, <1>4
<1>6. /\ ~Holding(w) /\ Attempting(w)' /\ Holding(w)'
      /\ \A v \in Workers : v # w => (Holding(v)' <=> Holding(v)) /\ (Attempting(v)' <=> Attempting(v))
    BY <1>4, <1>5 DEF Holding, Attempting
<1>7. FirstRun'
    BY <1>0, <1>4 DEF FirstRun, boot
<1>8. Gone \subseteq Gone'
    BY <1>4 DEF Gone, Settled
<1>9. f \in inflight' /\ \A g \in inflight \ inflight' : g.env = f.env /\ g.due = f.due
    BY <1>4 DEF Put
<1>10. \A g \in inflight : g.env = f.env /\ g.due = f.due => g.env \in Gone'
    <2>1. \A g \in inflight : g.env = f.env /\ g.due = f.due => g.env \in EnvsIn(Named(inflight, f))
        BY DEF Named, EnvsIn
    <2> QED
        BY <1>4, <2>1 DEF Gone
<1>11. Queued \subseteq Queued' \cup Gone'
    <2>1. f.env \in Queued'
        BY <1>5, <1>6 DEF Queued
    <2>2. EnvsIn(ready) \subseteq EnvsIn(ready') \cup {f.env}
        BY <1>4, EnvsInUnlink
    <2>3. \A v \in Workers : Attempting(v) => Attempting(v)' /\ held'[v] = held[v]
        BY <1>5, <1>6 DEF Holding
    <2>4. ASSUME NEW g \in Stranded, g.env \notin Gone' PROVE g \in Stranded'
        <3>1. g \in inflight /\ \A v \in Workers : Holding(v) => held[v] # g
            BY DEF Stranded
        <3>2. g \in inflight' /\ g # f
            BY <1>9, <1>10, <2>4, <3>1
        <3> QED
            BY <1>5, <1>6, <3>1, <3>2 DEF Stranded
    <2>5. EnvsIn(Stranded) \subseteq EnvsIn(Stranded') \cup Gone'
        BY <2>4 DEF EnvsIn
    <2> QED
        BY <2>1, <2>2, <2>3, <2>5 DEF Queued
<1>12. Kept \subseteq Kept'
    BY <1>4, <1>8, <1>11 DEF Kept
<1>13. ClaimKept'
    <2> SUFFICES ASSUME NEW v \in Workers, Holding(v)' PROVE held'[v] \in inflight' \/ held'[v].env \in Gone'
        BY DEF ClaimKept
    <2>1. CASE v = w
        BY <1>5, <1>9, <2>1
    <2>2. CASE v # w
        <3>1. Holding(v) /\ held'[v] = held[v]
            BY <1>5, <1>6, <2>2
        <3>2. held[v] \in inflight \/ held[v].env \in Gone
            BY <1>0, <3>1 DEF ClaimKept
        <3> QED
            BY <1>8, <1>9, <1>10, <3>1, <3>2
    <2> QED
        BY <2>1, <2>2
<1>14. ASSUME NEW v \in Workers, v # w, Holding(v), held[v].env = f.env, held[v].due = f.due
       PROVE  f.env \in Gone'
    <2>1. held[v] \in inflight \/ held[v].env \in Gone
        BY <1>0, <1>14 DEF ClaimKept
    <2> QED
        BY <1>8, <1>10, <1>14, <2>1
<1>15. ClaimsApart'
    <2> SUFFICES ASSUME NEW u \in Workers, NEW v \in Workers, Holding(u)', Holding(v)', u # v,
                        held'[u].env = held'[v].env, held'[u].due = held'[v].due
                 PROVE  held'[u].env \in Gone'
        BY DEF ClaimsApart
    <2>1. CASE u = w
        BY <1>5, <1>6, <1>14, <2>1
    <2>2. CASE v = w
        BY <1>5, <1>6, <1>14, <2>2
    <2>3. CASE u # w /\ v # w
        <3>1. Holding(u) /\ Holding(v) /\ held'[u] = held[u] /\ held'[v] = held[v]
            BY <1>5, <1>6, <2>3
        <3>2. held[u].env \in Gone
            BY <1>0, <3>1 DEF ClaimsApart
        <3> QED
            BY <1>8, <3>1, <3>2
    <2> QED
        BY <2>1, <2>2, <2>3
<1>16. MoveCommits'
    <2> SUFFICES ASSUME NEW v \in Workers
                 PROVE  /\ pc'[v] = "rescheduled" => held'[v].env \in Kept'
                        /\ pc'[v] = "buried" => held'[v].env \in Gone'
        BY DEF MoveCommits
    <2>1. v # w => /\ pc[v] = "rescheduled" => held[v].env \in Kept
                   /\ pc[v] = "buried" => held[v].env \in Gone
        BY <1>0 DEF MoveCommits
    <2> QED
        BY <1>5, <1>8, <1>12, <2>1
<1>17. CommandCommits'
    BY <1>0, <1>2, <1>4, <1>8, <1>11 DEF CommandCommits
<1>18. MailqNoMailLost'
    <2> SUFFICES ASSUME NEW e \in handed PROVE e \in Stored' \cup Gone'
        BY <1>4 DEF MailqNoMailLost, Gone
    <2>1. e \in Stored \cup Gone
        BY <1>0 DEF MailqNoMailLost, Gone
    <2>2. EnvsIn(ready) \subseteq EnvsIn(ready') \cup EnvsIn(inflight')
        <3>1. EnvsIn(ready) \subseteq EnvsIn(ready') \cup {f.env}
            BY <1>4, EnvsInUnlink
        <3> QED
            BY <1>9, <3>1 DEF EnvsIn
    <2>3. EnvsIn(inflight) \subseteq EnvsIn(inflight')
        BY <1>9 DEF EnvsIn
    <2> QED
        BY <1>4, <1>8, <2>1, <2>2, <2>3 DEF Stored
<1> QED
    BY <1>1, <1>7, <1>13, <1>15, <1>16, <1>17, <1>18, MailqInvParts DEF MailqInv, MailqTypes, TypeInv

\* A step of the one operator leaves the workers and their claims alone.
LEMMA CommandStep ==
    ASSUME MailqInv, MailqTypes', Alone, NEW o \in Operators,
           UNCHANGED <<inflight, phase, recTodo, handed>>,
           \A w \in Workers : pc'[w] = pc[w] /\ held'[w] = held[w],
           Gone \subseteq Gone', Kept \subseteq Kept',
           cmd'[o].at = "written" =>
               /\ cmd'[o].verb = "hold" => held'[o].env \in EnvsIn(quarantine') \cup Gone'
               /\ cmd'[o].verb = "release" => held'[o].env \in Queued' \cup Gone'
    PROVE  MailqInv'
<1>1. CommandCommits'
    BY DEF CommandCommits, Alone
<1>2. FirstRun
    BY MailqInvParts
<1>3. FirstRun'
    BY <1>2 DEF FirstRun, Holding, Attempting
<1>4. \A w \in Workers : Holding(w)' => Holding(w) /\ held'[w] = held[w] /\ pc'[w] = pc[w]
    BY DEF Holding, Attempting
<1> QED
    BY <1>1, <1>3, <1>4, SafeStep

\* Listing, flushing, deleting, releasing, holding, collecting, and being interrupted.
LEMMA OperatorKeeps ==
    ASSUME MailqInv, Alone, OperatorNext
    PROVE  MailqInv'
<1>0. /\ MailqTypes /\ CommandCommits
      /\ pc \in [Actors -> {"idle", "claimed", "done", "rescheduled", "buried", "gc_q",
                            "gc_inflight", "gc_quarantine", "gc_unlink"}]
      /\ held \in [Actors -> File \cup {NoFile}] /\ cmd \in [Operators -> CommandType]
    BY MailqInvParts DEF MailqTypes, TypeInv, TypeOK, MailqTypeOK, CommandType
<1>1. MailqTypes'
    BY <1>0, OperatorTypes
<1>2. PICK o \in Operators :
          \/ Run(o) \/ FindReady(o) \/ FindInflight(o) \/ FindQuarantine(o) \/ FindDead(o)
          \/ Flush(o) \/ Remove(o) \/ ReleaseWrite(o) \/ ReleaseRemove(o)
          \/ HoldWrite(o) \/ HoldRemove(o) \/ Interrupt(o)
          \/ Collect(o) /\ UNCHANGED <<cmd, commands, removed, clobbered>>
    BY DEF OperatorNext
<1>3. o \in Actors /\ \A w \in Workers : w \in Actors /\ w # o
    BY OperatorFacts, WorkerFacts
<1>4. NoCmd.at = "none" /\ NoCmd.verb = "none"
    BY DEF NoCmd
<1>5. ASSUME UNCHANGED <<pc, gc>>, \E h : held' = [held EXCEPT ![o] = h]
      PROVE  \A w \in Workers : pc'[w] = pc[w] /\ held'[w] = held[w]
    BY <1>0, <1>3, <1>5
<1>a. ASSUME UNCHANGED inflight, \A w \in Workers : pc'[w] = pc[w] /\ held'[w] = held[w]
       PROVE  Stranded' = Stranded
    <2>1. \A w \in Workers : Holding(w)' <=> Holding(w)
        BY <1>a DEF Holding, Attempting
    <2> QED
        BY <1>a, <2>1 DEF Stranded
<1>6. ASSUME UNCHANGED <<ready, inflight, quarantine, dead, parked, completed, removed, clobbered>>,
             \A w \in Workers : pc'[w] = pc[w] /\ held'[w] = held[w]
      PROVE  Gone' = Gone /\ Queued' = Queued /\ Kept' = Kept
    <2>1. Gone' = Gone
        BY <1>6 DEF Gone, Settled
    <2>2. \A w \in Workers : Attempting(w)' <=> Attempting(w)
        BY <1>6 DEF Attempting
    <2>3. Queued' = Queued
        BY <1>6, <1>a, <2>2 DEF Queued
    <2> QED
        BY <1>6, <2>1, <2>3 DEF Kept
<1>7. CASE Run(o)
    <2>1. PICK c \in CommandType : cmd' = [cmd EXCEPT ![o] = c] /\ c.at = "find_q"
        BY <1>0, <1>7, RunFacts
    <2>2. UNCHANGED <<ready, inflight, quarantine, dead, parked, boot, handed, pc, held, completed, faulted,
                      removed, clobbered>>
        BY <1>0, <1>7, RunFacts DEF vars, disk, actors, history
    <2>3. cmd'[o].at = "find_q"
        BY <1>0, <2>1
    <2> QED
        BY <1>1, <1>6, <2>2, <2>3, CommandStep DEF boot
<1>8. CASE FindReady(o) \/ FindInflight(o) \/ FindQuarantine(o) \/ FindDead(o)
    <2>1. PICK c \in CommandType, h \in File \cup {NoFile} :
              cmd' = [cmd EXCEPT ![o] = c] /\ held' = [held EXCEPT ![o] = h] /\ c.at # "written"
        BY <1>0, <1>8, ListingFacts
    <2>2. UNCHANGED <<ready, inflight, quarantine, dead, parked, boot, handed, pc, gc, completed, faulted,
                      removed, clobbered>>
        BY <1>0, <1>8, ListingFacts DEF disk, history
    <2>3. cmd'[o].at # "written"
        BY <1>0, <2>1
    <2>4. \A w \in Workers : pc'[w] = pc[w] /\ held'[w] = held[w]
        BY <1>5, <2>1, <2>2
    <2> QED
        BY <1>1, <1>6, <2>2, <2>3, <2>4, CommandStep DEF boot
<1>9. CASE Interrupt(o)
    <2>1. /\ cmd' = [cmd EXCEPT ![o] = NoCmd] /\ held' = [held EXCEPT ![o] = NoFile]
          /\ UNCHANGED <<ready, inflight, quarantine, dead, parked, boot, handed, pc, gc, completed, faulted,
                         removed, clobbered>>
        BY <1>9 DEF Interrupt, OpIdle, disk, history
    <2>2. cmd'[o].at # "written"
        BY <1>0, <1>4, <2>1
    <2>3. \A w \in Workers : pc'[w] = pc[w] /\ held'[w] = held[w]
        BY <1>5, <2>1
    <2> QED
        BY <1>1, <1>6, <2>1, <2>2, <2>3, CommandStep DEF boot
<1>10. CASE Collect(o) /\ UNCHANGED <<cmd, commands, removed, clobbered>>
    <2>1. /\ UNCHANGED <<ready, inflight, quarantine, dead, parked, boot, handed, completed, faulted>>
          /\ pc[o] # "idle"
          /\ \A w \in Workers : pc'[w] = pc[w] /\ held'[w] = held[w]
        BY <1>0, <1>3, <1>10, CollectEffect DEF history
    <2>2. cmd[o] = NoCmd
        BY <1>0, <2>1 DEF MailqTypes, CommandHolds
    <2>3. cmd'[o].at # "written"
        BY <1>4, <1>10, <2>2
    <2> QED
        BY <1>1, <1>6, <1>10, <2>1, <2>3, CommandStep DEF boot
<1>11. CASE Flush(o)
    <2>1. /\ EnvsIn(ready') = EnvsIn(ready)
          /\ cmd' = [cmd EXCEPT ![o] = NoCmd] /\ held' = [held EXCEPT ![o] = NoFile]
          /\ UNCHANGED <<inflight, quarantine, dead, parked, boot, handed, pc, gc, completed, faulted,
                         removed, clobbered>>
        BY <1>0, <1>11, FlushFacts DEF history
    <2>2. cmd'[o].at # "written"
        BY <1>0, <1>4, <2>1
    <2>3. \A w \in Workers : pc'[w] = pc[w] /\ held'[w] = held[w]
        BY <1>5, <2>1
    <2>4. \A w \in Workers : Attempting(w)' <=> Attempting(w)
        BY <2>3 DEF Attempting
    <2>5. Gone' = Gone /\ Queued' = Queued
        BY <1>a, <2>1, <2>3, <2>4 DEF Gone, Settled, Queued
    <2>6. Kept' = Kept
        BY <2>1, <2>5 DEF Kept
    <2> QED
        BY <1>1, <2>1, <2>2, <2>3, <2>5, <2>6, CommandStep DEF boot
<1>12. CASE Remove(o)
    <2>1. /\ cmd' = [cmd EXCEPT ![o] = NoCmd]
          /\ UNCHANGED <<inflight, parked, boot, handed, completed, faulted, clobbered>>
        BY <1>0, <1>12, RemoveFacts DEF history
    <2>2. cmd'[o].at # "written"
        BY <1>0, <1>4, <2>1
    <2>3. CASE UNCHANGED <<ready, quarantine, dead, pc, gc, removed>> /\ held' = [held EXCEPT ![o] = NoFile]
        <3>1. \A w \in Workers : pc'[w] = pc[w] /\ held'[w] = held[w]
            BY <1>5, <2>3
        <3> QED
            BY <1>1, <1>6, <2>1, <2>2, <2>3, <3>1, CommandStep DEF boot
    <2>4. CASE /\ removed' = removed \cup {held[o].env}
               /\ \A f \in (ready \ ready') \cup (quarantine \ quarantine') \cup (dead \ dead') : f.env = held[o].env
               /\ pc' = [pc EXCEPT ![o] = "gc_q"] /\ UNCHANGED held
        <3>1. \A w \in Workers : pc'[w] = pc[w] /\ held'[w] = held[w] /\ (Attempting(w)' <=> Attempting(w))
            BY <1>0, <1>3, <2>4 DEF Attempting
        <3>2. held[o].env \in Gone'
            BY <2>4 DEF Gone
        <3>3. /\ EnvsIn(ready) \subseteq EnvsIn(ready') \cup {held[o].env}
              /\ EnvsIn(quarantine) \subseteq EnvsIn(quarantine') \cup {held[o].env}
              /\ EnvsIn(dead) \subseteq EnvsIn(dead') \cup {held[o].env}
            BY <2>4 DEF EnvsIn
        <3>4. Gone \subseteq Gone'
            BY <2>1, <2>4, <3>3 DEF Gone, Settled
        <3>5. Queued \subseteq Queued' \cup Gone'
            BY <1>a, <2>1, <3>1, <3>2, <3>3 DEF Queued
        <3>6. Kept \subseteq Kept'
            BY <3>2, <3>3, <3>4, <3>5 DEF Kept
        <3> QED
            BY <1>1, <2>1, <2>2, <3>1, <3>4, <3>6, CommandStep DEF boot
    <2> QED
        BY <1>0, <1>12, <2>3, <2>4, RemoveFacts
<1>13. CASE ReleaseWrite(o) \/ HoldWrite(o)
    <2>1. PICK c \in CommandType : c.at = "written" /\ c.verb = cmd[o].verb /\ cmd' = [cmd EXCEPT ![o] = c]
        BY <1>0, <1>13, CommitFacts
    <2>2. /\ \/ cmd[o].verb = "release" /\ UNCHANGED quarantine /\ EnvsIn(ready') = EnvsIn(ready) \cup {held[o].env}
             \/ cmd[o].verb = "hold" /\ UNCHANGED ready /\ EnvsIn(quarantine') = EnvsIn(quarantine) \cup {held[o].env}
          /\ UNCHANGED <<inflight, dead, parked, boot, handed, pc, held, completed, faulted, removed, clobbered>>
        BY <1>0, <1>13, CommitFacts DEF history
    <2>3. cmd'[o].verb = cmd[o].verb
        BY <1>0, <2>1
    <2>4. Gone' = Gone
        BY <2>2 DEF Gone, Settled
    <2>5. \A w \in Workers : Attempting(w)' <=> Attempting(w)
        BY <2>2 DEF Attempting
    <2>6. Queued \subseteq Queued' /\ EnvsIn(ready') \subseteq Queued'
        BY <1>a, <2>2, <2>5 DEF Queued
    <2>7. Kept \subseteq Kept'
        BY <2>2, <2>4, <2>6 DEF Kept
    <2>8. /\ cmd'[o].verb = "hold" => held'[o].env \in EnvsIn(quarantine')
          /\ cmd'[o].verb = "release" => held'[o].env \in Queued'
        BY <2>2, <2>3, <2>6
    <2> QED
        BY <1>1, <2>2, <2>4, <2>7, <2>8, CommandStep DEF boot
<1>14. CASE ReleaseRemove(o) \/ HoldRemove(o)
    <2>1. /\ cmd[o].at = "written"
          /\ \/ /\ cmd[o].verb = "release" /\ UNCHANGED ready
                /\ EnvsIn(quarantine) \subseteq EnvsIn(quarantine') \cup {held[o].env}
             \/ /\ cmd[o].verb = "hold" /\ UNCHANGED quarantine
                /\ EnvsIn(ready) \subseteq EnvsIn(ready') \cup {held[o].env}
          /\ cmd' = [cmd EXCEPT ![o] = NoCmd] /\ held' = [held EXCEPT ![o] = NoFile]
          /\ UNCHANGED <<inflight, dead, parked, boot, handed, pc, gc, completed, faulted, removed, clobbered>>
        BY <1>0, <1>14, CommitEndFacts DEF history
    <2>2. cmd'[o].at # "written"
        BY <1>0, <1>4, <2>1
    <2>3. \A w \in Workers : pc'[w] = pc[w] /\ held'[w] = held[w]
        BY <1>5, <2>1
    <2>4. \A w \in Workers : Attempting(w)' <=> Attempting(w)
        BY <2>3 DEF Attempting
    <2>5. Gone' = Gone
        BY <2>1 DEF Gone, Settled
    <2>6. /\ cmd[o].verb = "hold" => held[o].env \in EnvsIn(quarantine) \cup Gone
          /\ cmd[o].verb = "release" => held[o].env \in Queued \cup Gone
        BY <1>0, <2>1 DEF CommandCommits
    <2>7. Kept \subseteq Kept'
        <3>1. CASE cmd[o].verb = "release" /\ UNCHANGED ready
            <4>1. Queued' = Queued
                BY <1>a, <2>1, <2>3, <2>4, <3>1 DEF Queued
            <4> QED
                BY <2>1, <2>5, <2>6, <3>1, <4>1 DEF Kept
        <3>2. CASE /\ cmd[o].verb = "hold" /\ UNCHANGED quarantine
                   /\ EnvsIn(ready) \subseteq EnvsIn(ready') \cup {held[o].env}
            <4>1. Queued \subseteq Queued' \cup {held[o].env}
                BY <1>a, <2>1, <2>3, <2>4, <3>2 DEF Queued
            <4> QED
                BY <2>5, <2>6, <3>2, <4>1 DEF Kept
        <3> QED
            BY <2>1, <3>1, <3>2
    <2> QED
        BY <1>1, <2>1, <2>2, <2>3, <2>5, <2>7, CommandStep DEF boot
<1> QED
    BY <1>2, <1>7, <1>8, <1>9, <1>10, <1>11, <1>12, <1>13, <1>14

\* Before the first command.
LEMMA MailqInitInv == MailqInit => MailqInv
<1> SUFFICES ASSUME MailqInit PROVE MailqInv
    OBVIOUS
<1>1. MailqTypes
    BY MailqTypesInit
<1>2. /\ inflight = {} /\ phase = "down" /\ recTodo = {} /\ handed = Spooled0
      /\ ready = {[env |-> e, due |-> 0, gen |-> 0] : e \in Spooled0}
      /\ \A a \in Actors : pc[a] = "idle"
      /\ \A o \in Operators : cmd[o].at = "none"
    BY DEF MailqInit, Init, NoCmd
<1>3. \A w \in Workers : pc[w] = "idle"
    BY <1>2, WorkerFacts
<1>4. FirstRun /\ ClaimKept /\ ClaimsApart /\ MoveCommits
    BY <1>2, <1>3 DEF FirstRun, ClaimKept, ClaimsApart, MoveCommits, Holding, Attempting
<1>5. CommandCommits
    BY <1>2 DEF CommandCommits
<1>6. MailqNoMailLost
    <2>1. ASSUME NEW e \in Spooled0 PROVE e \in EnvsIn(ready)
        <3> DEFINE f == [env |-> e, due |-> 0, gen |-> 0]
        <3>1. f \in ready /\ f.env = e
            BY <1>2
        <3> QED
            BY <3>1 DEF EnvsIn
    <2> QED
        BY <1>2, <2>1 DEF MailqNoMailLost, Stored
<1> QED
    BY <1>1, <1>4, <1>5, <1>6, MailqInvParts

\* Every step of one operator, and of a gateway that is not restarted, keeps the invariant.
LEMMA MailqNextInv ==
    ASSUME Alone, MaxRestarts = 0
    PROVE  MailqInv /\ [MailqNext]_mailqVars => MailqInv'
<1> SUFFICES ASSUME MailqInv, [MailqNext]_mailqVars PROVE MailqInv'
    OBVIOUS
<1>1. CASE UNCHANGED mailqVars
    <2>1. MailqTypes'
        BY <1>1, MailqInvParts, MailqTypesStep
    <2>2. UNCHANGED <<ready, inflight, quarantine, dead, parked, phase, recTodo, handed, pc, held, completed, faulted,
                      cmd, removed, clobbered>>
        BY <1>1 DEF mailqVars, vars, disk, boot, actors, history
    <2>3. FirstRun'
        BY <2>2, MailqInvParts DEF FirstRun, Holding, Attempting
    <2> QED
        BY <2>1, <2>2, <2>3, QuietStep
<1>2. CASE GatewayNext /\ UNCHANGED <<cmd, commands, removed, clobbered>>
    BY <1>2, SessionKeeps, ProcessKeeps, WorkerKeeps, UnlinkKeeps DEF GatewayNext, Attempt, Finish, Unlink
<1> QED
    BY <1>1, <1>2, OperatorKeeps, ClaimKeeps DEF MailqNext

\* Beside a running gateway, what the commands of one operator write and unlink agrees with
\* what the workers hold, in every reachable state.
THEOREM MailqInvariant ==
    ASSUME Alone, MaxRestarts = 0
    PROVE  MailqSpec => []MailqInv
BY MailqInitInv, MailqNextInv, PTL DEF MailqSpec

\* Flush, rm, release and hold, run by one operator beside the gateway and interrupted
\* anywhere, lose no mail: an envelope is on disk until it settles or is deleted, if no
\* claim of it was renamed over another, whatever file operations fail.
THEOREM OperatorLosesNoMail ==
    ASSUME Alone, MaxRestarts = 0
    PROVE  MailqSpec => []MailqNoMailLost
<1>1. MailqInv => MailqNoMailLost
    BY DEF MailqInv
<1> QED
    BY <1>1, MailqInvariant, PTL
=============================================================================
