# mailgw: TLA+ specifications of the mail gateway

This directory specifies the parts of the system that have to survive crashes,
concurrent workers and other processes working on the same state: the gateway's
on-disk queue, its delivery loop and the queue tool `mailq`, its audit events with
their spill directory, and the way a configuration gets from the central console
into a running gateway.  TLC checks the modules on small instances; TLAPS proves
nearly all of their safety properties, and the refinement of the abstract queue, for
every instance.

Paths of the gateway are relative to `mailgw-go/` in the repository, paths of the
console to `webui-fastify/`.

## 1. The system

`mailgw-go` is an SMTP gateway.  A session (`internal/smtpsrv`) takes a message,
writes its body to the spool, lets the rules decide per recipient, splits the
recipients into envelopes (one per relay group, quarantine flag and header set)
and queues them.  A runner (`internal/queue/runner.go`) claims due envelopes,
hands them to a relay (`internal/deliver`), records each recipient's fate and
completes, reschedules or buries the envelope; failures and delays are told to
the sender with notifications that go through the same queue.  `mailq` is a
separate process that lists and moves envelopes.  Audit events go to a log
service over HTTP, with a spill directory and a replayer behind them
(`internal/events`).  An agent (`internal/node`) pulls configuration from the
central console and applies it to the running gateway.

The console (`webui-fastify`) keeps gateways, configuration blocks (profiles, relay
groups, credential sets), the assignment of blocks to gateways, and immutable
configuration versions in MySQL.  *Deploy* freezes what is assigned to a gateway as
a new version and points the gateway at it; *rollback* points it at an older one.

| Part | State it keeps | Operations | Talks to |
|---|---|---|---|
| spool (`queue/spool.go`) | directories `q/`, `inflight/`, `quarantine/`, `dead/`, `data/`, `tmp/`; nothing in memory | WriteBody, Enqueue, Quarantine, Claim, Complete, Reschedule, Bury, Recover, SweepBodies | everything below, through files |
| session (`smtpsrv/session.go`) | transaction: recipients, body name, decisions | MAIL, RCPT, DATA, RSET | spool, rules, events |
| runner (`queue/runner.go`) | slots, per-group semaphores, envelope in memory | drain, attempt, record, deferEnvelope, expire, reports | spool, deliver, bouncer, events |
| bouncer (`queue/bounce.go`) | the envelope's `DSNSeq` | Bounce | spool |
| deliver (`deliver/*.go`) | idle connections, MX cache | Deliver, Get, Put, Close | relays |
| mailq (`queue/inspect.go`, `cmd/mailgw-go/mailq.go`) | none | ls, flush, rm, release, hold | spool, as another process |
| events (`events/*.go`) | buffer, `failed-events/` | Send, Close, spill, RunOnce, Reclaim | log service |
| limits (`ratelimit`, `smtpsrv/limit.go`, `throttle.go`) | token buckets, connection slots | Allow, Spend, Accept, Close | listeners, sessions |
| gateway (`node/gateway.go`, `listeners.go`) | running configuration | bringUp, apply, swap, shutdown | all of the above |
| agent (`node/agent.go`, `store`, `central`) | identity, desired version, cached configuration (SQLite); failed version, backoff, restart flag (memory) | Register, poll, pull, applyCached, SIGHUP, boot, report | console, gateway |
| console configuration (`src/central/bundle.ts`, `src/controllers/*`) | tables of blocks, assignments, versions, deployments, gateways | edit, delete, assign, deploy, rollback, approve, revoke, delete gateway | operators |
| console agent API (`src/routes/agent.ts`, `src/agent/verify.ts`) | gateway rows | register, status, config, report | agents |

Pure or out-of-reach parts (rules, MIME, SPF/DKIM/DMARC, report text, PROXY
protocol, admin pages, accounts and sessions, and the services `logservice-go` and
`logservice-fiber`) are listed with the reason in `PROJECT.json`.

What is hard here, and what correct means:

- *Two-step moves.*  Reschedule and Bury write the new file and then unlink the
  old one.  A crash between leaves two copies; Recover must keep the newer and
  neither lose nor double the message.
- *Locking by rename.*  Claim's rename is the only lock.  It must stay a lock
  after recovery has put old claims back.
- *Shared bodies.*  All envelopes of a message share one body, deleted by
  whoever finds no other referrer, by listing three directories that change
  meanwhile.
- *What survives in memory only.*  Statuses, "already warned" and notification
  numbers count only once the envelope is rewritten; a crash forgets the rest.
- *A second process.*  `mailq` acts on names it listed earlier.
- *Giving up.*  Every path that does not finish an envelope must reach the
  lifetime check, or mail is retried for ever.
- *Audit events.*  Sessions send into a bounded buffer that shutdown closes under
  them; two replayers work on one spill directory with a rename as the lock, and
  either can die holding a claim.  An event must end as a row, a file or a count.
- *Overlapping deploys.*  A deploy computes its version number from a snapshot;
  another deploy, or the deletion of the gateway, may commit first.
- *Three copies of "which version".*  The console's wish, the store's mark and the
  running process change in different steps; crashes, lost reports, failed applies
  and SIGHUP come between.  They must agree again once things are quiet, and a
  restart must serve.

## 2. Modules

| Module | Models | Composes |
|---|---|---|
| `Spool` | the spool directories, the session's DATA phase, the workers' claims, boot (sweep, recover), shutdown, crash | |
| `Mailq` | `mailq` flush, rm, release, hold | extends `Spool` |
| `Delivery` | the attempts of one envelope, recipient statuses and notifications | |
| `Queue` | abstract: a queue with leases | |
| `SpoolQueue` | the refinement mapping from `Spool` to `Queue` | extends `Spool`, instance of `Queue` |
| `Events` | the event client, the replayers, the end of shutdown, logservice | |
| `Central` | the console's configuration tables, deploy and rollback, the agent API | |
| `Fleet` | a gateway's agent, its store and the apply path, beside the console | extends `Central` |
| `MCSpool`, `MCMailq`, `MCDelivery`, `MCEvents`, `MCCentral`, `MCFleet` | constants for TLC | |
| `SpoolProofs` | theorems about `Spool` | extends `Spool` |
| `SpoolQueueProofs` | the refinement, and what needs its invariants | extends `SpoolQueue`, `SpoolProofs` |
| `SpoolBodyProofs` | message bodies | extends `SpoolQueueProofs` |
| `MailqProofs` | `mailq` beside the gateway | extends `Mailq`, `SpoolProofs` |
| `DeliveryProofs`, `EventsProofs` | theorems about `Delivery`, `Events` | |
| `CentralProofs` | theorems about the console | extends `Central` |
| `FleetProofs` | theorems about the agent beside the console | extends `Fleet`, `CentralProofs` |

### Spool

A file is `[env, due, gen]`.  `(env, due)` is its name in `q/` (`<due>.<uuid>.json`,
whole seconds) and, behind the process id, in `inflight/`; `quarantine/` and
`dead/` use the uuid alone (`due = 0`).  `gen` counts rewrites and stands for the
contents.  `Put` is rename(2): it replaces a file of the same name.  Since every
write goes through `tmp/` and fsync, a file is complete or absent.

Each action is one file operation that another goroutine or process can see.
`pc`, `held` and `gc` are the position of an actor (a worker, `boot`, or a `mailq`
process), the file it has in hand and the body it wants to collect.  `gcBody` is
five steps: the unlink of the envelope (in `Complete`, `BuryRemove` or
`Remove`), one listing per directory, and the unlink of the body.  The scheduler
goroutine and the delivery goroutines it starts are one `worker` each from Claim
on; a scheduler that waits for a free slot with a claim in hand is a worker that
has not started.  `Halt` clears everything that is memory and keeps everything
that is disk.

The SMTP session appears as the file operations of `Data`: body first, then
envelopes one by one, then 250; a failed enqueue answers 451 and leaves what it
queued.  A notification (`Bouncer.Bounce`) is a transaction with one envelope.

`MinBackoff` is the number of whole seconds the shortest backoff is sure to last.  The
configuration accepts any duration, jitter shortens it and names are cut to seconds, so it
can be 0: a rescheduled copy may then have the name of the claim it is written from.
Another worker's claim of it replaces the first one, the workers' unlinks go by name, and
one of them takes the other's file while the other finds none (`UnlinkReplaced`, which has
Claim's, Complete's, Reschedule's and Bury's answers to a missing file).

`completed`, `faulted`, `gen`, `handed` are history.

### Mailq

A command lists `q/`, `inflight/`, `quarantine/`, `dead/` one after the other
(`Find`), remembers the first hit and later acts on that name.  Any command can be
interrupted between two steps.

Beside `mailq`, a claim's name is no longer its worker's alone.  `inflight/` names are
process id, due second and uuid; a flush or release in the second in which the claimed
copy was due makes a second file of that name, and claiming it replaces the
first claim (`ClaimBeside`), however long the backoff is.  What the two workers' unlinks
then do is `Spool`'s `UnlinkReplaced`.  `clobbered` is history: the envelopes this happened
to.

### Delivery

One envelope, from the first claim to completion or burial.  `disk` is what is
written, `env` what the worker has changed.  The relay's replies are chosen freely
per recipient (RCPT) and once for the rest (DATA), and the reply to DATA can be
lost, or never looked at, after the relay took the message (`RelayTakesPart`: a
body read error closes DATA and the next relay is tried).  The spool's own moves
are atomic here; `Spool` is about them.

### Queue and SpoolQueue

`Queue` says what the rest of the gateway may rely on: an envelope is put once,
leased to one worker at a time, given back or settled, and not leased again once
settled; a restart ends leases and forgets nothing; a failed file operation excuses
its envelope.  `SpoolQueue` maps `handed` to what was put, an attempt in progress to
a lease, and `completed`, `dead/` and parked files to what is settled.  `ImplementsQueue`
is `Queue`'s specification under that mapping: the halves of Reschedule and Bury,
the duplicates a crash leaves and Recover's choices are invisible in it.

### Events

`send[e]` is the position of the SMTP path in `Send(e)`, which checks `closed` and
then sends: two steps.  `buffer` is the channel, `hand[s]` what a sender is posting
and how often it failed, `running` the senders `wg.Wait` waits for, `closer` the
position of shutdown from the cancellation of the replayer to Close's return.
`file[e]` is the spill file (pending, claimed by whom, rejected, deleted), `names`
the order of the spill names, `rep[r]` a pass of RunOnce by the gateway or by the
`events replay` command.  `verdict[e]` is what logservice will say of the event when
it is reached.  `dropped` and `unspilled` are the code's counters.  `gone` (a killed
process), `late` (a Send that passed its check and sends after Close's last drain, which
nobody receives) and `owed` (reasons for one more row) are history.

### Central

One record per gateway row, one set of version rows, one of deployment records.  A
bundle is a record of what a gateway can tell apart: the rules (none, plain, broken,
or naming a relay group), the server section, the relay table, the credentials.  A server
section (listen addresses, TLS files, spool directory) is what comes of it when a gateway is
brought up: it works, fails before there are listeners, or cannot bind.  An assignment form
may be empty.  Digests are compared by comparing bundles.  A deploy is `deployRead` (its snapshot: MySQL's REPEATABLE
READ) and one of `deployUnchanged`, `deployNewVersion`, `deployAborted`; everything
else commits in one step, except the deletion of a credential set, which is two
statements in the code.  `granted` is history: every (gateway, version, bundle)
some state allowed the gateway to fetch.

### Fleet

`store[g]` survives a crash, `node[g]` does not.  A poll is: status and the local
part of `pull` (`Poll`), authentication of the fetch (`FetchAuth`), its answer
(`FetchServe`), `Apply`, `Mark`, `report` and its arrival, with operators, SIGHUP,
crashes and lost messages between any two.  SIGHUP (`HupRead`,
`HupApply`, `HupMark`) is a goroutine of its own and shares the agent's memory
with the poll loop, unlike the comment at `agent.go:71` says.

`bringUp` can fail before the process holds anything or, after that, on a bind.  The
bundle's server section decides it, and a fault from outside may add to it; `loadBundle`
and the swap of a running gateway use no part of that section, so a version is marked
applied there whatever its section is worth.  `restartRequired` compares the relays and the
section; two sections with the same outcome count as the same one, as with the rate limits
and allowlists that do swap live.

`crossed` is history: a configuration was swapped in by the poll loop between the signal
handler's swap and its mark, or the other way round, and nothing was swapped in since.

## 3. Runs

| Run | Asks | Result |
|---|---|---|
| `SpoolCrash` | two messages, one of them found in `q/` at boot; two workers; up to two crashes or shutdowns and one failed file operation at any point: `NoRollback`, `BuriedStaysBuried`, `FinishedStaysFinished`, `BodyKept` | holds |
| `SpoolLive` | one message split in two, two workers, one crash, one failed file operation: `NoMailLost`, `OneAttempt`, `InflightOwned`, `NoOrphans`, the proofs' `SpoolInv`, `ImplementsQueue`, and `EventuallySettled` under fairness | holds |
| `Mailq` | three commands beside two workers on a slow disk, one failed file operation: `MailqNoMailLost`, the proof's `MailqInv` | holds |
| `Delivery` | two recipients, two relays, three kinds of sender, delay warning before expiry, one crash, one lost reply, one failed notification: eight properties, `EventuallySettled` under fairness | holds |
| `Events` | two events, two senders, buffer of one, one retry, two replayers, one fault (outage, lost answer, full disk, failed rename, killed process, stalled holder): `NoSilentLoss`, `OneFate`, `DuplicatesOwed`, the proofs' `EventsInv`, and `CloseReturns`, `SpillsResolve` under fairness | holds |
| `Central` | five operator requests over one gateway in service and one that enrols, two deploys open at once: `NumberingConsecutive`, `DesiredRecorded`, `VersionsImmutable`, the proofs' `CentralInv` | holds |
| `Fleet` | one gateway and the console, three operator requests, two faults or signals, server sections that work or fail: `CachedWasGranted`, `LastGoodServes`, `BootsWanted`, and `EventuallySettled` under fairness | holds |
| `SpoolScanRace` | `BodyKept` for two envelopes of one message, no crash, no fault | violated |
| `SpoolShortBackoff` | `NoMailLost` when a backoff may end in the second the claim was due in, one crash | violated |
| `DeliveryRejections` | a rejected recipient is always reported | violated |
| `FleetReport` | a gateway reported as up to date serves that version in the end (`ReportsWhatRuns`) | violated |
| `FleetFallback` | a restart falls back to a version that serves (`KnownGoodServes`) | violated |

The violations are disagreements between the code and what its comments or
documentation say:

1. `SpoolScanRace`: `bodyReferenced` lists `q/`, then `inflight/`.  A sibling
   rescheduled between the two listings (`inflight/` to `q/`) is in neither, and
   the body it needs is deleted.  Reversing the order would only move the race:
   Claim moves files the other way.
2. `SpoolShortBackoff`: with `outbound.backoff` of a second or less (jitter makes 0.85 s
   of 1 s) a rescheduled copy can have the name of its claim.  Between Reschedule's write and
   its unlink another worker claims the copy, replacing the claim; the unlink then
   deletes the second worker's file.  The envelope is in that worker's memory only and a
   crash loses it.
3. `DeliveryRejections`: `bounceFailed` runs only when all recipients are done;
   an envelope that expires with one recipient rejected earlier never reports the
   rejection.
4. `FleetReport`: `pull` compares the desired version with the applied mark in the store and
   never with what runs.  Three ways lead to a gateway that is reported as up to date,
   without an error, for ever, and is not.  A bind fails in `bringUp`; the retry after the
   backoff finds a started gateway, takes the swap path, succeeds and is marked, and SMTP
   never listens (the trace TLC prints).  A restart's bring-up fails; the mark is the previous
   process's, and the next poll clears the failure.  The poll loop swaps v2 in; SIGHUP,
   which had read v1, swaps it in and marks it; the poll loop marks v2: v1 runs.
5. `FleetFallback`: a version whose spool directory or certificate cannot be used is
   swapped into a running gateway and marked applied.  After the next restart it is both
   the wanted and the "known-good" version, `bootFromCache` tries nothing else, and SMTP
   does not listen, although the version before it served.  A wanted version that cannot
   bind is a second way to miss the fallback: after it `bringUp` counts as done, the
   fallback is only swapped in, and nothing listens; `LastGoodServes` excepts it.

Disagreements met while modelling that have no run of their own:

- The first envelope of a split message can be delivered and its body collected before the
  session enqueues the second (`session.go:764`), although bodies are "shared by every envelope
  of a transaction" (`spool.go:100`): `BodyKept` fails with `Spooled0 = {}` in `SpoolScanRace`.
- `mailq.go:36` says that an envelope being delivered cannot be held.  `Hold` ignores that
  the file it wanted to move is gone (`inspect.go:263`), so it can report a message as held
  while a worker delivers it.
- The comment in `Close` (`events/client.go:216`) says that whatever raced in behind the
  senders "is drained here".  A Send that has passed its check of `closed` and sends after
  the last drain is not: its event stays in a channel nobody reads and is counted nowhere.
  `NoSilentLoss` excuses exactly these events (`late`).
- `CtrlCredential.ts:131` says a missing credential set counts as nothing assigned;
  `inboundAuth` never looks at the set, so a credential inserted while the set is
  being deleted in two statements is still deployed.
- `CtrlGateway.ts:408` says a forgotten gateway "will re-register as `pending` on its
  next boot"; the agent registers only from the wizard, and until then its polls
  are answered 401.
- A deploy whose snapshot is older than a concurrent deploy, but whose bundle equals
  the version it saw, points the gateway back at that older version
  (`deployUnchanged`) without a deployment record of its own.
- The comment on `Claim` (`spool.go:237`) calls its rename a lock.  Beside `mailq` the name of
  a claim is not its worker's alone even with a long backoff, and the loss of
  `SpoolShortBackoff` can happen without a short one: a worker has written
  its rescheduled copy and not yet unlinked its claim; `mailq flush` makes the copy due in the
  same second as the claim was; another worker claims it, replacing the first claim; the
  first worker's unlink then deletes the second worker's file.  The envelope is now in that
  worker's memory only, and is lost if the worker had not read the file yet, if its next
  move fails, or in a crash.

### Bounds

Two envelopes are enough for everything that concerns siblings; two workers for
everything that concerns claims (workers are symmetric; the third would repeat
what one of the two does).  `MaxTime = 2` allows a claim, a rescheduled copy and a
second rescheduling with three different due times.  Two restarts let a crash hit
the recovery of an earlier crash.  `MaxFaults = 1` lets one file operation fail at any
point.  In `Delivery` a lifetime of 3 with a warning after 1 leaves room for two
attempts after the warning, where a second warning would be wrong.  The clock in
`Delivery` runs past its bound while a queued envelope waits, so that the bound
never makes an envelope unsettleable.

`MinBackoff = 1` in all runs but `SpoolShortBackoff` (the default backoff is 60 s), where it
is 0, as the tests of the repository configure it (300 ms, 1 s, none).  Negative
durations, which the configuration accepts too, are not modelled.

In `Central`, two open deploys are enough for a race (a third repeats it), two
gateways for one to be pointed at the other's version, and three rows for a gateway
that is deleted and enrols again while a deploy of its old row is open.  Five
requests reach deploy, delete, enrol, approve and deploy.  In `Fleet` three requests
reach edit, deploy, rollback, or edit, deploy, revoke; two faults reach a crash
whose restart fails.  It has no relay groups and one kind of unusable section, so that
liveness can be checked in minutes: broken rules and that section make applies and boots
fail, and a bind fails as a fault.  With a relay group the run passes
too but takes too long to repeat often: `EventuallySettled` with sections that work or
cannot bind (1,083,859 states), the others with all three kinds (1,286,470 states).  Below ten
versions `pruneConfigs` deletes nothing.  In `Events` the first event is taken by
logservice and the second refused or failed on each time, so a failing file precedes
a good one; `MaxFails = 2` is one more than the events that always fail, as a
`maxConsecutiveFailures` of 3 is meant to be.  With as many failing files at the head of
the directory as the limit, every pass stops before the good ones: `SpillsResolve`
does not hold then, which the code accepts for an unreachable service.

`SlowDisk = FALSE` says that a backoff is not over between the two file operations
of one Reschedule (the default backoff starts at 60 s; the configuration accepts
less).  With `SlowDisk = TRUE`, `NoRollback`, `FinishedStaysFinished`, `NoOrphans`
and `BodyKept` fail: the new copy can be claimed and finished before the old claim
is unlinked, and a crash then requeues the old one.  `NoMailLost` and `OneAttempt`
hold for both as long as a backoff lasts a second (`MinBackoff > 0`), and are proved for
both.

`Mailq` has no restarts and one operator.  Beyond that `MailqNoMailLost` does not
hold: `committedUUIDs` counts a copy in `quarantine/` as committed, so a restart
while a `release` is between its two steps drops the claimed copy, and the
release then removes the other one.  Its comment calls including `quarantine/`
inert.  An interrupted `release` also leaves a copy in `q/` and one in
`quarantine/`, which Recover, contrary to the comment in `Release`, does not
resolve: it looks only at `inflight/`.  For the same reason `OneAttempt` is not
claimed of `Mailq`: a raced `hold` leaves a second copy that a later `release`
queues again.  An envelope in `clobbered` is excused (the
interleaving above); one whose file operation failed is not: its claim waits in
`inflight/`.

### Fairness

Workers that can take a step do (goroutines are scheduled, every relay operation
has a timeout), the scheduler wakes by `sleepFor`, by the poll interval or by
Nudge and claims what is due, a supervisor restarts a gateway that stopped, and
time passes.  Nothing is assumed of SMTP clients: a session may stop anywhere.
`Claim` is weakly fair per envelope: the listing is in due order, so a due envelope
is reached.  In `Delivery` the choice between going on and a cancelled context is
strongly fair, since a context is cancelled once, at shutdown.

In `Events` the senders, the gateway's replay loop, a command that has begun and
Close's own steps are weakly fair (goroutines; every POST has a timeout), outages
end, and a claim whose holder is gone grows old.  The shutdown deadline is not
needed for `CloseReturns`.  In `Fleet` the poll loop is weakly fair (a timer, and a
supervisor that restarts the process), a signal handler that began finishes, and a
backoff passes.  Operators, the wizard and faults are never fair.

## 4. Proofs

TLAPS proves every safety property of the passing runs, some under the hypotheses below,
for every value of the constants: any number of envelopes, workers, recipients, relays,
events, senders, gateways and operators' requests, and any bound on time, restarts and
faults.  It also proves the refinement `ImplementsQueue`.  Each proof has the same shape:
an inductive invariant, stated at the end of the module it is about and accepted by TLC
before it was proved; one lemma per action; a combining step by temporal logic.  TLC
checks `SpoolInv`, `MailqInv`, `EventsInv` and `CentralInv` in the runs; `OwnershipInv`,
`LeaseInv`, `BodyInv`, `OrphanInv`, `DeliveryInv` and `FleetInv` were checked on the runs'
instances and left out of the cfgs because their parts that matter are there as
properties.

| Theorem | States | For |
|---|---|---|
| `TypeCorrect` | `TypeOK` | `Spool` |
| `SpoolInvariant`, `MailIsNeverLost`, `ClaimIsExclusive` | `SpoolInv`, `NoMailLost`, `OneAttempt` | `Spool`, `MinBackoff > 0` |
| `OwnershipInvariant`, `ClaimsHaveWorkers`, `BuryIsFinal` | `OwnershipInv`, `InflightOwned`, `BuriedStaysBuried` | `Spool`, `MinBackoff > 0` |
| `LeaseInvariant`, `RecoverKeepsNewest`, `CompleteIsFinal`, `SpoolIsQueue` | `LeaseInv`, `NoRollback`, `FinishedStaysFinished`, `ImplementsQueue` | `Spool`, `MinBackoff > 0`, `SlowDisk = FALSE` |
| `BodiesKept` | `BodyKept` | `Spool`, `MinBackoff > 0`, `SlowDisk = FALSE` and `Unsplit` |
| `CollectionsLeaveNoOrphans` | `NoOrphans` | `Spool`, `MinBackoff > 0`, `SlowDisk = FALSE` |
| `CommandsTyped` | `MailqTypeOK` | `Mailq` |
| `MailqInvariant`, `OperatorLosesNoMail` | `MailqInv`, `MailqNoMailLost` | `Mailq`, `Alone` and `MaxRestarts = 0` |
| `DeliveryInvariant`, `DeliveryTyped`, `RetriesExplained`, `FailuresAreTold`, `ReportsNotRepeated`, `ReportsAreDistinct`, `NotifyIsRespected`, `StatusStaysFinal` | `DeliveryInv`, `TypeOK`, `DuplicatesExplained`, `FailuresReported`, `ReportedOnce`, `DistinctReports`, `NotifyRespected`, `StatusIsFinal` | `Delivery` |
| `EventsInvariant`, `EventsTypes`, `NothingIsLostSilently`, `EveryEventHasOneFate`, `EveryDuplicateIsOwed` | `EventsInv`, `TypeOK`, `NoSilentLoss`, `OneFate`, `DuplicatesOwed` | `Events` |
| `ConsoleInvariant`, `ConsoleTypes`, `NumbersAreConsecutive`, `PointersAreRecorded`, `VersionsNeverChange` | `CentralInv`, `CentralTypeOK`, `NumberingConsecutive`, `DesiredRecorded`, `VersionsImmutable` | `Central` |
| `FleetInvariant`, `FleetTypes`, `CacheIsGranted`, `LastGoodIsServed`, `WantedIsBooted` | `FleetInv`, `TypeOK`, `CachedWasGranted`, `LastGoodServes`, `BootsWanted` | `Fleet` |

### What is assumed

Of the constants, only the named assumptions of the modules that declare them: numbers
are natural numbers, sentinels are not values, and what the console starts with fits its
bounds.  For the proofs `CentralAssumption` says in addition that the gateways enrolled
at the start are finitely many (otherwise their row ids cannot be 1 to their number),
that there is a relay table at all, and that the absent bundle is not a bundle.

Five hypotheses appear in theorems, because without them the code does not keep the
promise:

- `MinBackoff > 0`: a backoff, after jitter, lasts at least a second, so that a rescheduled
  copy never has the name of its claim.  The default does; the configuration does not
  require it, and `SpoolShortBackoff` is the counterexample.
- `SlowDisk = FALSE`: a backoff outlasts the two file operations of one Reschedule.  Section
  3 says what happens otherwise.
- `Unsplit`: every message has one envelope.  `SpoolScanRace` is the counterexample for split
  messages.
- `Alone`: one operator runs one command at a time.  With two, a hold begun between the
  two steps of a release of the same envelope ends with each having unlinked the copy the
  other had written (TLC finds it in 15 steps).
- `MaxRestarts = 0` (for `mailq` only): the gateway is not restarted during the commands.
  Section 3 says what a restart in the middle of a release does.

### Spool

None of the properties is inductive.  For `NoMailLost` and `OneAttempt`:

- *Claim* needs that the file is the envelope's only one in `q/` (`ReadyUnique`),
  that nobody attempts the envelope (`ReadyUnattempted`) and that a claim of it
  that is about to be unlinked was due earlier, so the rename does not replace it
  (`ReadyLater`).
- *Reschedule's write* re-establishes these: the claim was due when it was taken
  (`ClaimOnDisk`) and the new copy is due later, the only use of `MinBackoff > 0`.
- *Unlinking a claim* (`UnlinkSafe`, used for Park, Complete and the second halves
  of Reschedule and Bury) loses nothing because the envelope is settled, in `q/`,
  or claimed again with a strictly later due time (`RescheduledElsewhere`).  On a
  slow disk several stale claims of one envelope can coexist; the strict order of
  due times is what makes the last one safe.
- *Enqueue* needs that an envelope not handed over yet has no file
  (`QueuedWasHanded`).
- *Recover* runs while no worker holds a claim (`IdleUnlessUp`) and drops only
  what is committed elsewhere (`RecoverListing`).

`BuriedStaysBuried` needs that Recover's list of committed envelopes has every buried
one (`RecoverKnowsDead`) and that the worker that holds a buried envelope is the one
about to let it go (`BuriedUnattempted`).  `NoRollback` needs that the rescheduled copy
is not due while its claim is being removed (`RescheduledNotDue`); then an envelope has
one claim (`InflightUnique`), the copy in `q/` is the newest or else the claim is
(`NewestKept`), and Recover prefers the former (`RecoverKnowsReady`).  The refinement is
then a case per action: Enqueue and Quarantine put, Claim takes the lease, Reschedule's
write gives it back, Bury's write settles and keeps the lease, Park and Complete settle
and end it, a failed operation is the queue's failure, the end of the process its
restart, and everything else is a stutter.  That an envelope taken again was not settled
is `GoneIsGone` with `BuriedStaysBuried`.

`BodyKept` needs that a collection by a worker is about an envelope that has left the
queue (`CollectsFinished`), which in a message of one envelope leaves no other referrer;
that the sweep at boot runs alone, so what it has read is still true (`SweepAlone`); and
that a session which has handed nothing over has its body (`SessionBody`).

`NoOrphans` holds for split messages too.  A body is owed to a session that has handed
nothing over, to an envelope in the queue, or to a collector (`BodyOwed`): Complete and
Bury hand it from the envelope to their own collector, and a collector that gives up has
just read another envelope of the message in a directory, so the body is owed to that one.
Unlinking a rescheduled claim takes no envelope out of the queue because the copy is still
in `q/` (`RescheduledReady`, which is where the fast disk is needed); Recover has nothing
to do on a first boot (`FirstBoot`); a body that WriteBody brings has no envelope yet
(`NewUnhanded`).

### Mailq

The commands rename files the workers hold, so `SpoolInv` does not survive them and
`MailqInv` starts again from what a file's *name* guarantees.  A claim is where its
worker left it unless it was replaced (`ClaimKept`, `ClaimsApart`); whoever is about to
unlink the old copy knows that the envelope is kept elsewhere (`CommandCommits`,
`MoveCommits`).  *Kept* must be a set that no step of anybody else shrinks: in `q/`, in
`quarantine/`, in a claim a failed operation stranded, with a worker that has not yet
put it anywhere, or gone for good.  A claim that is only waiting to be unlinked does not
count, which is what makes two unlinks of one envelope safe.

### Delivery

`Current`, the copy of the envelope the next step starts from (the worker's while it has
the envelope, the spool's otherwise), is what the bounds are about: a pending recipient
was taken at most once per crash or lost answer, a settled one once more (`TakenOnce`);
each mark accounts for one report beyond the crashes (`MarksCount`).  A crash throws
`Current` back to `disk`, and the counter of crashes pays for it; that only settled
statuses survive on disk, and are never forgotten, is `DiskKept`.  `FailuresReported`
needs that a mark is only set on those who were told (`MarksTell`), on both copies.

### Events

`DuplicatesOwed` bounds the rows of an event by one plus the reasons recorded for
another.  The invariant (`RowsOwed`) counts also the rows still to come: one if the
event is in memory, one if its file may still be posted, and one for each replayer that
will post it although its claim has been taken back.  Every step moves such a unit
(spilling: from memory to the file; reclaiming: the holder becomes stale, which is
recorded in `owed`), turns it into a row, or drops it.  `OneFate` needs that a spill
name is given once and out of a sender's hand (`SpilledOnce`), and `NoSilentLoss` that
Close returns after the senders (`ClosedInOrder`).  That a pass finds an oldest file
uses that a nonempty set of positions has a least element (`OldestIsIn`, from the
library's `WFMin` and the well-foundedness of the natural numbers).

### Central and Fleet

An overlapping deploy computes its number from a version it read earlier.
`SnapshotKept` says that this version is still there, or the gateway is gone: then the
computed number is either taken, and the unique index aborts the deploy, or it is the
next one.  Numbers are consecutive in the sense that they are 1 to their count; that a
new one extends the range is a lemma about cardinalities. `DesiredRecorded` needs
`RowsDiffer`: a row id is never given again, so a late deploy for a deleted gateway
points nobody at its version.

`FleetInv` adds to it that what the console would hand out now is on record
(`EntitledGranted`), that a row read by the authentication hook pointed at a version
that was granted, and no other version takes its id when that one is deleted
(`FetchEntitled`), and that the cache holds what the version holds (`CacheFaithful`), so
that a second fetch changes nothing under a version that applied.  `LastGoodServes`
follows from `AppliedLoads`: a version marked applied, or about to be marked by the poll
loop or by the signal handler, is cached and loads.  It does not follow that it can be
brought up, so the property asks for a usable server section in the version that last
applied; the version asked for since may have broken rules, or a section that fails before
the process holds anything, and then the fallback serves.  `BootsWanted` is an action
property of the boot step (`BootOnly`): what `bootConfig` chooses is what `bootFromCache`
brings up.

### What is only model-checked

- Liveness under fairness (`EventuallySettled` of `Spool`, `Delivery` and `Fleet`,
  `CloseReturns`, `SpillsResolve`): out of the prover's reach.
- The five violations, which are counterexamples.
- What recursion over data computes: no module has such an operator.

## 5. Plan

Done: `Spool`, `Delivery`, `Mailq`, the abstract `Queue` and its refinement, `Events`,
the console (`Central`) and the agent (`Fleet`), with proofs of their safety.  Left, in
order:

1. Proof of `BodyKept` for split messages that are enqueued as a whole and never
   rescheduled, the case the scan does handle.
2. `Limits`: connection slots, token buckets with the key cap, the connection pool
   with its cap and Close.
3. `Session`: the SMTP command sequence, per-recipient decisions and the split into
   envelopes; what happens to recipients refused after acceptance.

## 6. Not modelled

- Queue: `tmp/` and its leftovers (never read), file permissions, the text of
  envelopes, headers and notifications, metrics.  Parked files (unreadable JSON) are
  counted as settled: they stay in `dead/` for a person to look at.
- Events: payloads that cannot be encoded (a programming error, logged), an empty
  spill directory setting, spill files that do not parse, the length of backoffs.
- Console: MySQL below REPEATABLE READ, the allowlist profile (it travels like the
  ruleset and cannot fail to apply), creating and renaming blocks, password changes of a credential, the
  metrics snapshot in a report, accounts and sessions, encryption of stored secrets,
  request signatures.  `register` reads and inserts in one step: the unique
  fingerprint makes the second of two concurrent inserts fail.
- Agent: the WebSocket only wakes the poll loop earlier, and `Poll` may happen at any
  time; configurations injected by the test control API; errors of the local SQLite
  store.  The status request and the local part of `pull` are one step, `Poll`: what an
  operator does in between commutes with the local part, and what SIGHUP does with
  the request.  The few SQLite statements of that local part are taken together.
- The parts listed as `not_modelled` in `PROJECT.json`.  Most of the repository's
  JavaScript is third-party code: two copies each of jQuery and Bootstrap make up
  more than two thirds of it; the rest of it that is not mapped is the retired Express
  implementation under `legacy/`, tests, and read-only log pages.  The gateway itself
  is Go.
