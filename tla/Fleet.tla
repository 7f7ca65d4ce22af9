------------------------------- MODULE Fleet -------------------------------
(***************************************************************************)
(* The console and the managed gateways that pull their configuration from *)
(* it: module Central plus, for every gateway, the agent of mailgw-go      *)
(* (node/agent.go), the local store it boots from (store/config.go) and    *)
(* the part of node/gateway.go that turns a bundle into what runs.         *)
(*                                                                         *)
(* An agent has two goroutines that apply configurations: the poll loop,   *)
(* whose place is node[g].pc, and the SIGHUP handler, hup[g].pc.  The      *)
(* store survives a crash, everything else does not.  A request that fails *)
(* before the console changes anything is a poll that did not happen.      *)
(***************************************************************************)
EXTENDS Central

CONSTANTS
    MaxFaults    \* bound: crashes, lost answers, failed bring-ups, SIGHUPs

ASSUME FleetAssumption == MaxFaults \in Nat

VARIABLES
    store,    \* store[g]: identity, recorded intent and config cache on disk
    node,     \* node[g]: the gateway process
    hup,      \* hup[g]: its SIGHUP handler
    faults    \* faults and SIGHUPs so far

agentVars == <<store, node, hup, faults>>
vars == <<centralVars, agentVars>>

Pcs == {"down", "idle", "fetch", "serve", "apply", "mark", "report", "sent"}
HupPcs == {"none", "apply", "mark"}

(* The report of one tick, a full snapshot.                                *)
Reports == [applied : VersionIds \cup {None}, error : BOOLEAN, restart : BOOLEAN]

EmptyStore == [uid |-> None,        \* KeyGatewayUID
               desired |-> None,    \* KeyDesiredVersionID
               cache |-> [v \in VersionIds |-> None],  \* config_cache.bundle
               failed |-> {},       \* rows with an apply_error
               applied |-> None]    \* the row with the highest applied_seq

Down == [pc |-> "down",
         row |-> None, version |-> None,      \* the row, the version in hand
         ok |-> FALSE, restarts |-> FALSE,    \* what its apply returned
         failed |-> None, backoff |-> FALSE,  \* failedVersion, failedUntil
         restart |-> FALSE,                   \* lastRestart
         live |-> None, running |-> None, listening |-> FALSE,  \* the gateway
         crossed |-> FALSE,    \* history: what runs was applied between
                               \* another apply and its mark
         report |-> None]                     \* the report on its way

NoHup == [pc |-> "none", version |-> None, ok |-> FALSE, restarts |-> FALSE]

FleetInit ==
    /\ CentralInit
    /\ store = [g \in Gateways |->
                   IF g \in Enrolled THEN [EmptyStore EXCEPT !.uid = gw[g].id]
                                     ELSE EmptyStore]
    /\ node = [g \in Gateways |-> Down]
    /\ hup = [g \in Gateways |-> NoHup]
    /\ faults = 0

Fault == faults < MaxFaults /\ faults' = faults + 1

-----------------------------------------------------------------------------
(* store/config.go.  pruneConfigs keeps the ten rows fetched last besides  *)
(* everything ever applied: below MaxVersions = 10 it deletes nothing.     *)

SaveConfig(st, v, bundle) ==
    [st EXCEPT !.cache[v] = bundle, !.failed = @ \ {v}]

MarkApplied(st, v) == [st EXCEPT !.applied = v, !.failed = @ \ {v}]

MarkApplyError(st, v) == [st EXCEPT !.failed = @ \cup {v}]

-----------------------------------------------------------------------------
(* node/gateway.go.                                                        *)

GroupsNamed(bundle) == {bundle.rules} \cap Groups

(* loadBundle: the rules compile against the relays that came with them.   *)
loadBundle(bundle) ==
    /\ bundle.rules # Broken
    /\ GroupsNamed(bundle) \subseteq DOMAIN bundle.relays

(* Bringing the process up uses the bundle's server section, or the        *)
(* defaults; neither loadBundle nor a swap tries it.                       *)
Section(bundle) == IF bundle.server = None THEN "ok" ELSE bundle.server

(* What it can meet besides, whatever the bundle says: nothing, a failure  *)
(* before g.live is set (a full disk, signing keys that changed), or an    *)
(* address that something else took.                                       *)
BringUps(n) == IF n.live = None THEN {"ok", "early", "bind"} ELSE {"ok"}

Spent(f) == IF f = "ok" THEN 0 ELSE 1

Outcome(n, ok, restarts) ==
    [live |-> n.live, running |-> n.running, listening |-> n.listening,
     ok |-> ok, restarts |-> restarts]

bringUp(n, v, bundle, f) ==
    LET fails == {Section(bundle), f}
        up    == [n EXCEPT !.live = bundle, !.running = v]
    IN  CASE "early" \in fails -> Outcome(n, FALSE, FALSE)
          [] "early" \notin fails /\ "bind" \in fails -> Outcome(up, FALSE, FALSE)
          [] OTHER -> Outcome([up EXCEPT !.listening = TRUE], TRUE, FALSE)

(* The relays and everything in the server section are bound for the life  *)
(* of the process.                                                         *)
restartRequired(live, bundle) ==
    live.relays # bundle.relays \/ live.server # bundle.server

validateAgainstLiveRelays(live, bundle) ==
    GroupsNamed(bundle) \subseteq DOMAIN live.relays

(* Load and apply a bundle as version v.                                   *)
apply(n, v, bundle, f) ==
    CASE ~loadBundle(bundle) -> Outcome(n, FALSE, FALSE)
      [] loadBundle(bundle) /\ n.live = None -> bringUp(n, v, bundle, f)
      [] OTHER ->
           LET ok == validateAgainstLiveRelays(n.live, bundle) IN
           Outcome(IF ok THEN [n EXCEPT !.running = v] ELSE n,
                   ok, restartRequired(n.live, bundle))

Install(n, out) == [n EXCEPT !.live = out.live, !.running = out.running,
                             !.listening = out.listening]

(* The history of an apply beside another goroutine that may be between    *)
(* its own apply and mark.                                                 *)
Cross(n, out, between) == [n EXCEPT !.crossed = between \/ (@ /\ ~out.ok)]

-----------------------------------------------------------------------------
(* node/agent.go: applyCached is an apply followed by its bookkeeping.     *)

MarkStore(st, v, ok) == IF ok THEN MarkApplied(st, v) ELSE MarkApplyError(st, v)

MarkNode(n, v, ok, restarts) ==
    IF ok THEN [n EXCEPT !.failed = None, !.backoff = FALSE, !.restart = restarts]
          ELSE [n EXCEPT !.failed = v, !.backoff = TRUE]

\* Mutation: a restart goes back to what last applied.
bootConfig_LastApplied(st) == st.applied

(* The version the console last asked for if its bytes are here, else the  *)
(* one that last applied.                                                  *)
bootConfig(st) ==
    IF st.desired # None /\ st.cache[st.desired] # None
    THEN st.desired ELSE st.applied

(* applyCached as one step, for the boot path, where nothing runs beside   *)
(* it: the process and the store afterwards.                               *)
BootApply(p, v, f) ==
    LET out == apply(p.node, v, p.store.cache[v], f) IN
    [node  |-> MarkNode(Install(p.node, out), v, out.ok, out.restarts),
     store |-> MarkStore(p.store, v, out.ok),
     ok    |-> out.ok]

\* Mutation: no second try with the last good configuration.
bootFromCache_NoFallback(st, f1, f2) ==
    LET p0 == [node |-> [Down EXCEPT !.pc = "idle"], store |-> st, ok |-> FALSE]
        v  == bootConfig(st)
    IN  IF v = None THEN p0 ELSE BootApply(p0, v, f1)

(* bootFromCache: what the console asked for, else the last good one.      *)
bootFromCache(st, f1, f2) ==
    LET p0 == [node |-> [Down EXCEPT !.pc = "idle"], store |-> st, ok |-> FALSE]
        v  == bootConfig(st)
        p1 == BootApply(p0, v, f1)
    IN  IF v = None THEN p0
        ELSE IF p1.ok \/ st.applied \in {None, v} THEN p1
        ELSE BootApply(p1, st.applied, f2)

Boot(g) ==
    /\ node[g].pc = "down"
    /\ \E f1, f2 \in {"ok", "early", "bind"} :
          /\ faults + Spent(f1) + Spent(f2) <= MaxFaults
          /\ faults' = faults + Spent(f1) + Spent(f2)
          /\ LET p == bootFromCache(store[g], f1, f2) IN
                /\ node' = [node EXCEPT ![g] = p.node]
                /\ store' = [store EXCEPT ![g] = p.store]
    /\ UNCHANGED <<centralVars, hup>>

(* The process dies; the disk stays.                                       *)
Crash(g) ==
    /\ node[g].pc # "down"
    /\ Fault
    /\ node' = [node EXCEPT ![g] = Down]
    /\ hup' = [hup EXCEPT ![g] = NoHup]
    /\ UNCHANGED <<centralVars, store>>

(* The wizard of the admin UI: the console's answer may be lost after the  *)
(* console created the row.                                                *)
Register(g) ==
    /\ node[g].pc # "down"
    /\ authenticateGateway(g, store[g].uid) = None
    /\ registerRow(g)
    /\ \/ store' = [store EXCEPT ![g].uid = gw'[g].id] /\ UNCHANGED faults
       \/ Fault /\ UNCHANGED store
    /\ UNCHANGED <<blocks, assign, versions, lastVersion, audit, tx, ops, granted,
                   node, hup>>

-----------------------------------------------------------------------------
(* The poll loop.                                                          *)

Goto(g, pc) == node' = [node EXCEPT ![g].pc = pc]

(* pull up to the point where the bytes are in hand or must be fetched:    *)
(* the process and the store afterwards.  The intent is recorded first.    *)
pull(n, st, want, digest) ==
    LET noted == [st EXCEPT !.desired = want]
        c == st.cache[want]
    IN  CASE st.applied = want ->
               [node  |-> [n EXCEPT !.pc = "report", !.failed = None, !.backoff = FALSE],
                store |-> noted]
          [] st.applied # want /\ n.failed = want /\ n.backoff ->
               [node |-> [n EXCEPT !.pc = "report"], store |-> noted]
          [] OTHER ->
               IF c # None /\ digest \in {None, c}
               THEN [node  |-> [n EXCEPT !.pc = "apply", !.version = want],
                     store |-> SaveConfig(noted, want, c)]
               ELSE [node |-> [n EXCEPT !.pc = "fetch"], store |-> noted]

(* A wake-up or the timer: ask for the status.  One the console does not   *)
(* know waits for the next tick; a pending gateway and one with nothing    *)
(* deployed go straight to the report; an approved one pulls, a local      *)
(* affair until it fetches.                                                *)
Poll(g) ==
    /\ node[g].pc = "idle"
    /\ LET row == authenticateGateway(g, store[g].uid)
           answer == statusAnswer(row)
           p == pull(node[g], store[g], answer.desired, answer.digest)
       IN  \/ row = None /\ UNCHANGED <<node, store>>
           \/ /\ row # None /\ (row.status # "approved" \/ row.desired = None)
              /\ Goto(g, "report")
              /\ UNCHANGED store
           \/ /\ row # None /\ row.status = "approved" /\ row.desired # None
              /\ node' = [node EXCEPT ![g] = p.node]
              /\ store' = [store EXCEPT ![g] = p.store]
    /\ UNCHANGED <<centralVars, hup, faults>>

(* GET /agent/config reaches the console, which reads the gateway's row... *)
FetchAuth(g) ==
    /\ node[g].pc = "fetch"
    /\ node' = [node EXCEPT ![g].pc = "serve",
                            ![g].row = authenticateGateway(g, store[g].uid)]
    /\ UNCHANGED <<centralVars, store, hup, faults>>

(* ...and answers from that row.  The version in the answer is the one the *)
(* row pointed at then, not necessarily the one the status named.          *)
FetchServe(g) ==
    /\ node[g].pc = "serve"
    /\ LET v == configAnswer(node[g].row) IN
       IF v # None
       THEN /\ node' = [node EXCEPT ![g].pc = "apply", ![g].row = None,
                                    ![g].version = v.id]
            /\ store' = [store EXCEPT ![g] = SaveConfig(@, v.id, v.bundle)]
       ELSE /\ node' = [node EXCEPT ![g].pc = "report", ![g].row = None]
            /\ UNCHANGED store
    /\ UNCHANGED <<centralVars, hup, faults>>

FetchLost(g) ==
    /\ node[g].pc = "serve"
    /\ Fault
    /\ node' = [node EXCEPT ![g].pc = "report", ![g].row = None]
    /\ UNCHANGED <<centralVars, store, hup>>

Apply(g) ==
    /\ node[g].pc = "apply"
    /\ \E f \in BringUps(node[g]) :
          /\ faults + Spent(f) <= MaxFaults
          /\ faults' = faults + Spent(f)
          /\ LET v == node[g].version
                 out == apply(node[g], v, store[g].cache[v], f)
             IN  node' = [node EXCEPT ![g] =
                             [Cross(Install(@, out), out, hup[g].pc = "mark")
                                 EXCEPT !.pc = "mark", !.ok = out.ok,
                                        !.restarts = out.restarts]]
    /\ UNCHANGED <<centralVars, store, hup>>

Mark(g) ==
    /\ node[g].pc = "mark"
    /\ LET n == node[g] IN
          /\ store' = [store EXCEPT ![g] = MarkStore(@, n.version, n.ok)]
          /\ node' = [node EXCEPT ![g] =
                         [MarkNode(n, n.version, n.ok, n.restarts)
                             EXCEPT !.pc = "report", !.version = None,
                                    !.ok = FALSE, !.restarts = FALSE]]
    /\ UNCHANGED <<centralVars, hup, faults>>

\* Mutation: the failed version is sent as the error.
report_Version(g) ==
    /\ node[g].pc = "report"
    /\ node' = [node EXCEPT ![g].pc = "sent",
                            ![g].report = [applied |-> store[g].applied,
                                           error |-> node[g].failed,
                                           restart |-> node[g].restart]]
    /\ UNCHANGED <<centralVars, store, hup, faults>>

(* report: the applied row, the failed version's error, lastRestart.       *)
report(g) ==
    /\ node[g].pc = "report"
    /\ LET n == node[g] IN
       node' = [node EXCEPT
                  ![g].pc = "sent",
                  ![g].report = [applied |-> store[g].applied,
                                 error |-> n.failed # None /\ n.failed \in store[g].failed,
                                 restart |-> n.restart]]
    /\ UNCHANGED <<centralVars, store, hup, faults>>

(* POST /agent/report: the console stores the snapshot.                    *)
ReportArrives(g) ==
    /\ node[g].pc = "sent"
    /\ reportHandler(store[g].uid, node[g].report)
    /\ node' = [node EXCEPT ![g].pc = "idle", ![g].report = None]
    /\ UNCHANGED <<lastRow, blocks, assign, versions, lastVersion, audit, tx, ops,
                   granted, store, hup, faults>>

ReportLost(g) ==
    /\ node[g].pc = "sent"
    /\ Fault
    /\ node' = [node EXCEPT ![g].pc = "idle", ![g].report = None]
    /\ UNCHANGED <<centralVars, store, hup>>

(* applyRetryBackoff has passed.                                           *)
BackoffOver(g) ==
    /\ node[g].backoff
    /\ node' = [node EXCEPT ![g].backoff = FALSE]
    /\ UNCHANGED <<centralVars, store, hup, faults>>

-----------------------------------------------------------------------------
(* SIGHUP: applyFromCache, in a goroutine of its own.                      *)

HupRead(g) ==
    /\ node[g].pc # "down" /\ hup[g].pc = "none"
    /\ Fault
    /\ bootConfig(store[g]) # None
    /\ hup' = [hup EXCEPT ![g].pc = "apply",
                            ![g].version = bootConfig(store[g])]
    /\ UNCHANGED <<centralVars, store, node>>

HupApply(g) ==
    /\ hup[g].pc = "apply"
    /\ \E f \in BringUps(node[g]) :
          /\ faults + Spent(f) <= MaxFaults
          /\ faults' = faults + Spent(f)
          /\ LET v == hup[g].version
                 out == apply(node[g], v, store[g].cache[v], f)
             IN  /\ node' = [node EXCEPT ![g] =
                                Cross(Install(@, out), out, @.pc = "mark")]
                 /\ hup' = [hup EXCEPT ![g].pc = "mark", ![g].ok = out.ok,
                                       ![g].restarts = out.restarts]
    /\ UNCHANGED <<centralVars, store>>

HupMark(g) ==
    /\ hup[g].pc = "mark"
    /\ LET h == hup[g] IN
          /\ store' = [store EXCEPT ![g] = MarkStore(@, h.version, h.ok)]
          /\ node' = [node EXCEPT ![g] = MarkNode(@, h.version, h.ok, h.restarts)]
    /\ hup' = [hup EXCEPT ![g] = NoHup]
    /\ UNCHANGED <<centralVars, faults>>

-----------------------------------------------------------------------------

PollLoop(g) ==
    \/ Boot(g) \/ Poll(g) \/ FetchAuth(g) \/ FetchServe(g)
    \/ Apply(g) \/ Mark(g) \/ report(g) \/ ReportArrives(g)

HupHandler(g) == HupApply(g) \/ HupMark(g)

FleetNext ==
    \/ CentralNext /\ UNCHANGED agentVars
    \/ \E g \in Gateways :
          \/ PollLoop(g) \/ HupHandler(g) \/ HupRead(g) \/ BackoffOver(g)
          \/ Register(g) \/ Crash(g) \/ FetchLost(g) \/ ReportLost(g)

(* The poll loop runs on a timer and a stopped process is started again by *)
(* its supervisor; a signal handler that has begun finishes; time passes.  *)
(* Nothing is assumed of the operators, the wizard or the faults.          *)
FleetSpec ==
    /\ FleetInit /\ [][FleetNext]_vars
    /\ \A g \in Gateways : /\ WF_vars(PollLoop(g))
                           /\ WF_vars(HupHandler(g))
                           /\ WF_vars(BackoffOver(g))

-----------------------------------------------------------------------------
(* Properties.                                                             *)

Stores == [uid : RowIds \cup {None}, desired : VersionIds \cup {None},
           cache : [VersionIds -> Bundles \cup {None}], failed : SUBSET VersionIds,
           applied : VersionIds \cup {None}]

Nodes == [pc : Pcs, row : Row \cup {None}, version : VersionIds \cup {None},
          ok : BOOLEAN, restarts : BOOLEAN, failed : VersionIds \cup {None},
          backoff : BOOLEAN, restart : BOOLEAN, live : Bundles \cup {None},
          running : VersionIds \cup {None}, listening : BOOLEAN, crossed : BOOLEAN,
          report : Reports \cup {None}]

Hups == [pc : HupPcs, version : VersionIds \cup {None}, ok : BOOLEAN,
         restarts : BOOLEAN]

(* The process, the store and the console's rows have the shape the code   *)
(* gives them: no version id outside the ones the console issued reaches   *)
(* the store, a report or failedVersion.                                   *)
TypeOK ==
    /\ CentralTypeOK
    /\ store \in [Gateways -> Stores]
    /\ node \in [Gateways -> Nodes]
    /\ hup \in [Gateways -> Hups]
    /\ faults \in 0..MaxFaults

(* Every bundle in a gateway's cache is, byte for byte, one that the       *)
(* console pointed this very gateway at while it was approved: a status    *)
(* that changes between the poll, the authentication of the fetch and its  *)
(* answer never lets another one through.                                  *)
CachedWasGranted ==
    \A g \in Gateways, v \in VersionIds :
        store[g].cache[v] # None => <<g, v, store[g].cache[v]>> \in granted

Loads(st, v) == st.cache[v] # None /\ loadBundle(st.cache[v])

(* A process starts on a disk with a configuration that once applied, and  *)
(* nothing goes wrong that is not the configuration's doing.               *)
Restarts(g) ==
    /\ node[g].pc = "down" /\ node'[g].pc # "down"
    /\ store[g].applied # None /\ faults' = faults

(* The configuration that last applied survives a deploy that does not     *)
(* load or cannot be brought up: if its own server section is usable, the  *)
(* gateway comes back listening after a restart, unless the version asked  *)
(* for since got as far as opening its listeners and could not bind them   *)
(* (bootFromCache's fallback; that attempt is final for the process).      *)
LastGoodServes ==
    [][\A g \in Gateways :
          LET st == store[g]
              wanted == bootConfig(st)
          IN  /\ Restarts(g) /\ Section(st.cache[st.applied]) = "ok"
              /\ Loads(st, wanted) => Section(st.cache[wanted]) # "bind"
              => node'[g].listening]_vars

(* bootFromCache's own comment asks for more: "Fall back to the known-good *)
(* one rather than sitting idle because the newest deploy happens to be    *)
(* broken" (agent.go).  It does not hold.  A version is marked applied     *)
(* once it is swapped in, and its server section is first used at the next *)
(* restart, where no earlier version is tried; and a version that cannot   *)
(* bind leaves the fallback nothing to listen with.                        *)
KnownGoodServes ==
    [][\A g \in Gateways : Restarts(g) => node'[g].listening]_vars

(* A restart runs what the console last asked for, a rollback included,    *)
(* when those bytes are here, load and can be brought up (bootConfig).     *)
BootsWanted ==
    [][\A g \in Gateways :
          LET st == store[g] IN
          /\ node[g].pc = "down" /\ node'[g].pc # "down" /\ faults' = faults
          /\ st.desired # None
          /\ Loads(st, st.desired) /\ Section(st.cache[st.desired]) = "ok"
          => node'[g].running = st.desired]_vars

(* The console's word on a gateway that it approved and gave a version.    *)
Managed(g) ==
    LET r == gw[g] IN
    r # None /\ store[g].uid = r.id /\ r.status = "approved" /\ r.desired # None

(* The version it wants is reported as applied without an error.           *)
ReportedDone(g) == gw[g].applied = gw[g].desired /\ ~gw[g].error

(* The console knows where a gateway stands.  The version it wants is      *)
(* reported as applied without an error and is what a listening gateway    *)
(* runs; or an error is on display and the version is not reported as      *)
(* applied.  Two states are excused, in which ReportsWhatRuns fails: two   *)
(* applies that crossed, and a process whose bring-up failed, which does   *)
(* not listen.                                                             *)
Settled(g) ==
    Managed(g) =>
        /\ gw[g].applied = gw[g].desired <=> ~gw[g].error
        /\ ReportedDone(g) /\ node[g].listening /\ ~node[g].crossed
              => node[g].running = gw[g].desired

(* Once the operators and the faults stop, every gateway that is           *)
(* registered and approved ends up settled: no lost report, restart,       *)
(* backoff, or signal handled between two polls leaves the console with a  *)
(* stale picture or the gateway on another version.                        *)
EventuallySettled == <>[](\A g \in Gateways : Settled(g))

(* "report tells the console what this gateway is actually running, and    *)
(* why not, if not" (agent.go): a gateway whose desired version is         *)
(* reported as applied, without an error, ends up running and serving it.  *)
(* It does not hold: pull compares the desired version with the applied    *)
(* mark ("Applied is the authority here") and never with what runs.        *)
(* - After a bind failure the retry takes the swap path, succeeds and is   *)
(*   marked, although SMTP will not listen in this process any more.       *)
(* - After a restart whose bring-up failed the mark is true of the         *)
(*   previous process only.                                                *)
(* - The SIGHUP handler and the poll loop both apply and then mark; when   *)
(*   the two pairs cross, the version marked last need not be the one      *)
(*   swapped in last.                                                      *)
ReportsWhatRuns ==
    <>[](\A g \in Gateways :
            Managed(g) /\ ReportedDone(g)
                => node[g].listening /\ node[g].running = gw[g].desired)

-----------------------------------------------------------------------------
(* The inductive invariant behind TypeOK, CachedWasGranted and             *)
(* LastGoodServes, besides the console's own.                              *)

(* What the console would hand out now is on record.                       *)
EntitledGranted == Entitled(gw, versions) \subseteq granted

(* The row a fetch was authenticated with was entitled to the version it   *)
(* points at; that version may be gone since, and no other takes its id.   *)
FetchEntitled(g, n) ==
    /\ n.pc = "serve" /\ n.row # None
    /\ n.row.status = "approved" /\ n.row.desired # None
    => /\ n.row.desired <= lastVersion
       /\ \A v \in versions : v.id = n.row.desired => <<g, v.id, v.bundle>> \in granted

(* The bytes in the cache are those of the version, so a second fetch of a *)
(* version changes nothing.                                                *)
CacheFaithful(g, st) ==
    \A v \in VersionIds :
        st.cache[v] # None =>
            /\ v <= lastVersion
            /\ <<g, v, st.cache[v]>> \in granted
            /\ \A w \in versions : w.id = v => w.bundle = st.cache[v]

(* A version that applied, or is about to be marked so, is in the cache    *)
(* and loads.                                                              *)
AppliedLoads(st, n, h) ==
    /\ st.applied # None => Loads(st, st.applied)
    /\ n.pc = "mark" /\ n.ok => Loads(st, n.version)
    /\ h.pc = "mark" /\ h.ok => Loads(st, h.version)

(* A version in hand is in the cache, and a report on its way is complete. *)
InHandCached(st, n, h) ==
    /\ n.pc = "sent" => n.report \in Reports
    /\ n.pc \in {"apply", "mark"} => n.version # None /\ st.cache[n.version] # None
    /\ h.pc # "none" => h.version # None /\ st.cache[h.version] # None

AgentOK(g, st, n, h) ==
    /\ FetchEntitled(g, n) /\ CacheFaithful(g, st)
    /\ AppliedLoads(st, n, h) /\ InHandCached(st, n, h)

FleetInv ==
    /\ CentralInv /\ TypeOK /\ EntitledGranted
    /\ \A g \in Gateways : AgentOK(g, store[g], node[g], hup[g])
=============================================================================
