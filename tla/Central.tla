------------------------------ MODULE Central ------------------------------
(***************************************************************************)
(* The configuration side of the central console (webui-fastify): the      *)
(* gateway rows, the building blocks an operator edits (ruleset and server *)
(* profiles, relay groups with their relays, credential sets), the         *)
(* assignments, the immutable configuration versions, and the deploy and   *)
(* rollback transactions.  The requests a gateway makes are operators here; module  *)
(* Fleet composes them with the gateway's agent.                           *)
(*                                                                         *)
(* The database is MySQL at REPEATABLE READ: a transaction reads one       *)
(* snapshot, taken by its first read, and writes current rows.  Deploy     *)
(* writes what it computed from its reads, so it is split into two         *)
(* actions.  Rollback only reads a version row, which never changes and    *)
(* goes only with its gateway; it and the others are one action each.      *)
(***************************************************************************)
EXTENDS Naturals, FiniteSets

CONSTANTS
    Gateways,         \* gateways, each with one key (one fingerprint)
    Enrolled,         \* those already in service at the start
    MaxOpen,          \* bound: deploy transactions open together
    Rulesets,         \* ids of the ruleset profiles
    ServerProfiles,   \* ids of the server profiles
    ServerBodies,     \* what a server profile may say, see Sections
    Groups,           \* relay groups; a rule may name one
    RelayBodies,      \* what the relays of a group may say
    CredentialSets,   \* inbound credential sets
    Usernames,        \* usernames a credential may have
    Forms,            \* the assignments an operator may post, besides none
    MaxOps,           \* bound: operator requests
    MaxRows,          \* bound: gateway rows ever created
    MaxVersions,      \* bound: configuration versions ever created
    None              \* SQL NULL, a missing row, "not assigned"

(* The gateway's answer to a ruleset depends on what the rules say: rules  *)
(* that name no group, rules that do not compile, or rules that name one.  *)
Plain  == "plain"
Broken == "broken"
Rules  == Groups \cup {Plain, Broken}

(* Its answer to a server section is the fate of a process that is brought *)
(* up with it: it listens, it fails before the listeners are opened (the   *)
(* spool directory, the certificate), or it cannot bind an address.        *)
Sections == {"ok", "early", "bind"}

Profiles == Rulesets \cup ServerProfiles
Bodies(p) == IF p \in Rulesets THEN Rules ELSE ServerBodies

VARIABLES
    gw,        \* gw[g]: the row with g's fingerprint, or None
    lastRow,   \* auto-increment of Gateways.id
    profile,   \* profile[p]: the profile's body, None once deleted
    group,     \* group[x]: the group's relays, None once deleted
    creds,     \* creds[s]: usernames whose credential has set_id = s
    dropping,  \* sets whose credentials are deleted and whose row is next
    sets,      \* credential sets that have a row
    assign,    \* assign[id]: what is assigned to gateway row id
    versions,  \* the ConfigVersions rows
    lastVersion, \* auto-increment of ConfigVersions.id
    audit,     \* the ConfigDeployments rows: <<gateway row, version id>>
    tx,        \* tx[o]: the open deploy transaction in slot o, or None
    ops,       \* operator requests made so far
    granted    \* history: what each gateway was ever entitled to fetch

blocks == <<profile, group, creds, dropping, sets>>
centralVars == <<gw, lastRow, blocks, assign, versions, lastVersion, audit,
                 tx, ops, granted>>

Slots      == 1..MaxOpen
RowIds     == 1..MaxRows
VersionIds == 1..MaxVersions
Statuses   == {"pending", "approved", "refused"}  \* refused: rejected or revoked

Tables  == UNION {[S -> RelayBodies] : S \in SUBSET Groups}
Bundles == [server : ServerBodies \cup {None}, rules : Rules \cup {None},
            relays : Tables, auth : SUBSET Usernames]

Unassigned == [server |-> None, ruleset |-> None, groups |-> {}, set |-> None]
Assignments == [server : ServerProfiles \cup {None},
                ruleset : Rulesets \cup {None}, groups : SUBSET Groups,
                set : CredentialSets \cup {None}]

Row == [id : RowIds, status : Statuses, desired : VersionIds \cup {None},
        applied : VersionIds \cup {None}, error : BOOLEAN, restart : BOOLEAN]

NewRow(id) == [id |-> id, status |-> "pending", desired |-> None,
               applied |-> None, error |-> FALSE, restart |-> FALSE]

(* The row of a gateway in service, pointed at the version of its own id.  *)
ServingRow(id) == [id |-> id, status |-> "approved", desired |-> id,
                   applied |-> None, error |-> FALSE, restart |-> FALSE]

Version == [id : VersionIds, gateway : RowIds, version : VersionIds,
            bundle : Bundles]

ASSUME CentralAssumption ==
    /\ {MaxOpen, MaxOps, MaxRows, MaxVersions} \subseteq Nat
    /\ None \notin Nat
    /\ Enrolled \subseteq Gateways /\ IsFiniteSet(Enrolled)
    /\ Cardinality(Enrolled) <= MaxRows
    /\ Cardinality(Enrolled) <= MaxVersions
    /\ Forms \subseteq Assignments \ {Unassigned}
    /\ ServerBodies \subseteq Sections /\ "ok" \in ServerBodies
    /\ Rulesets \cap ServerProfiles = {}
    /\ None \notin Rules /\ None \notin ServerBodies /\ None \notin RelayBodies
    /\ None \notin Profiles /\ None \notin CredentialSets
    /\ Plain \notin Groups /\ Broken \notin Groups
    /\ RelayBodies # {}
    /\ None \notin Bundles

Live(id) == \E g \in Gateways : gw[g] # None /\ gw[g].id = id

(* The versions of a gateway row.                                          *)
Own(id) == {v \in versions : v.gateway = id}

(* A row of ConfigVersions by its id, or None.                             *)
VersionById(id) ==
    IF \E v \in versions : v.id = id
    THEN CHOOSE v \in versions : v.id = id
    ELSE None

(* The inbound credentials of the assigned set; whether the set itself     *)
(* still has a row is not asked.                                           *)
inboundAuth(a) == IF a.set = None THEN {} ELSE creds[a.set]

(* The body of an assigned profile, None when it was deleted since.        *)
bodyOfKind(p) == IF p = None THEN None ELSE profile[p]

\* Mutation: a deleted group stays in the bundle, without relays.
composeBundle_KeepsDeleted(id) ==
    LET a == assign[id] IN
    [server |-> bodyOfKind(a.server),
     rules  |-> bodyOfKind(a.ruleset),
     relays |-> [x \in a.groups |-> group[x]],
     auth   |-> inboundAuth(a)]

(* A deleted profile or group counts as not assigned.                      *)
composeBundle(id) ==
    LET a == assign[id] IN
    [server |-> bodyOfKind(a.server),
     rules  |-> bodyOfKind(a.ruleset),
     relays |-> [x \in {y \in a.groups : group[y] # None} |-> group[x]],
     auth   |-> inboundAuth(a)]

(* What the console may hand out in this state: to each approved gateway,  *)
(* the version its row points at.                                          *)
Entitled(rows, vs) ==
    UNION {{<<g, v.id, v.bundle>> : v \in {w \in vs : rows[g].desired = w.id}} :
              g \in {h \in Gateways : rows[h] # None /\ rows[h].status = "approved"}}

RecordGrant == granted' = granted \cup Entitled(gw', versions')

(* An operator's request.                                                  *)
Request == ops < MaxOps /\ ops' = ops + 1

(* A console in service: every enrolled gateway is approved, has something *)
(* assigned, and what is assigned was deployed as its version 1.           *)
CentralInit ==
    /\ lastRow = Cardinality(Enrolled)
    /\ lastVersion = lastRow
    /\ gw \in {f \in [Gateways -> {None} \cup {ServingRow(id) : id \in 1..lastRow}] :
                 /\ \A g \in Gateways : f[g] # None <=> g \in Enrolled
                 /\ \A g, h \in Enrolled : f[g] = f[h] => g = h}
    /\ assign \in {f \in [RowIds -> Forms \cup {Unassigned}] :
                      \A id \in RowIds : f[id] = Unassigned <=> id > lastRow}
    /\ profile = [p \in Profiles |-> IF p \in Rulesets THEN Plain ELSE "ok"]
    /\ group = [x \in Groups |-> CHOOSE b \in RelayBodies : TRUE]
    /\ creds = [s \in CredentialSets |-> {}]
    /\ dropping = {}
    /\ sets = CredentialSets
    /\ versions = {[id |-> id, gateway |-> id, version |-> 1,
                    bundle |-> composeBundle(id)] : id \in 1..lastRow}
    /\ audit = {<<id, id>> : id \in 1..lastRow}
    /\ tx = [o \in Slots |-> None]
    /\ ops = 0
    /\ granted = Entitled(gw, versions)

-----------------------------------------------------------------------------
(* The building blocks.  None of these operations touches a version.       *)

editProfile(p, body) ==
    /\ Request
    /\ profile[p] # None /\ profile[p] # body
    /\ profile' = [profile EXCEPT ![p] = body]
    /\ UNCHANGED <<gw, lastRow, group, creds, dropping, sets, assign, versions,
                   lastVersion, audit, tx, granted>>

(* The assignments that name the profile stay behind.                      *)
deleteProfile(p) ==
    /\ Request
    /\ profile[p] # None
    /\ profile' = [profile EXCEPT ![p] = None]
    /\ UNCHANGED <<gw, lastRow, group, creds, dropping, sets, assign, versions,
                   lastVersion, audit, tx, granted>>

(* Relays are created, edited and deleted one by one; what a bundle shows  *)
(* of it is that the group's relays say something else afterwards.         *)
editRelays(x, body) ==
    /\ Request
    /\ group[x] # None /\ group[x] # body
    /\ group' = [group EXCEPT ![x] = body]
    /\ UNCHANGED <<gw, lastRow, profile, creds, dropping, sets, assign, versions,
                   lastVersion, audit, tx, granted>>

deleteGroup(x) ==
    /\ Request
    /\ group[x] # None
    /\ group' = [group EXCEPT ![x] = None]
    /\ UNCHANGED <<gw, lastRow, profile, creds, dropping, sets, assign, versions,
                   lastVersion, audit, tx, granted>>

(* The insert checks nothing but the form: the set may be gone.            *)
createCredential(s, u) ==
    /\ Request
    /\ u \notin creds[s]
    /\ creds' = [creds EXCEPT ![s] = @ \cup {u}]
    /\ UNCHANGED <<gw, lastRow, profile, group, dropping, sets, assign, versions,
                   lastVersion, audit, tx, granted>>

deleteCredential(s, u) ==
    /\ Request
    /\ u \in creds[s]
    /\ creds' = [creds EXCEPT ![s] = @ \ {u}]
    /\ UNCHANGED <<gw, lastRow, profile, group, dropping, sets, assign, versions,
                   lastVersion, audit, tx, granted>>

(* Two statements outside a transaction: the credentials, then the set.    *)
deleteSetCredentials(s) ==
    /\ Request
    /\ s \in sets \ dropping
    /\ creds' = [creds EXCEPT ![s] = {}]
    /\ dropping' = dropping \cup {s}
    /\ UNCHANGED <<gw, lastRow, profile, group, sets, assign, versions,
                   lastVersion, audit, tx, granted>>

deleteSetRow(s) ==
    /\ s \in dropping
    /\ dropping' = dropping \ {s}
    /\ sets' = sets \ {s}
    /\ UNCHANGED <<gw, lastRow, profile, group, creds, assign, versions,
                   lastVersion, audit, tx, ops, granted>>

-----------------------------------------------------------------------------
(* A gateway's row.  A page may post the id of a row deleted meanwhile.    *)

(* POST /agent/register: a known fingerprint keeps its row and its status, *)
(* a new one starts as pending.                                            *)
registerRow(g) ==
    \/ gw[g] # None /\ UNCHANGED <<gw, lastRow>>
    \/ /\ gw[g] = None
       /\ lastRow < MaxRows
       /\ lastRow' = lastRow + 1
       /\ gw' = [gw EXCEPT ![g] = NewRow(lastRow')]

(* Approve, reject or revoke.                                              *)
setStatus(g, status) ==
    /\ Request
    /\ status # "pending"
    /\ gw[g] # None /\ gw[g].status # status
    /\ gw' = [gw EXCEPT ![g].status = status]
    /\ UNCHANGED <<lastRow, blocks, assign, versions, lastVersion, audit, tx>>
    /\ RecordGrant

(* The whole set of assignments is replaced, by nothing when the form is   *)
(* empty.  A profile must exist; a group and a set are taken as they come. *)
saveAssignments(id, a) ==
    /\ Request
    /\ \A p \in {a.server, a.ruleset} \ {None} : profile[p] # None
    /\ assign[id] # a
    /\ assign' = [assign EXCEPT ![id] = a]
    /\ UNCHANGED <<gw, lastRow, blocks, versions, lastVersion, audit, tx, granted>>

(* Forget a gateway: its deployments, versions, assignments and its row.   *)
deleteGateway(g) ==
    /\ Request
    /\ gw[g] # None
    /\ LET id == gw[g].id IN
          /\ audit' = {d \in audit : d[1] # id}
          /\ versions' = {v \in versions : v.gateway # id}
          /\ assign' = [assign EXCEPT ![id] = Unassigned]
    /\ gw' = [gw EXCEPT ![g] = None]
    /\ UNCHANGED <<lastRow, blocks, lastVersion, tx, granted>>

-----------------------------------------------------------------------------
(* Deploy and rollback.                                                    *)

LatestVersion(id) ==
    IF Own(id) = {} THEN None
    ELSE CHOOSE v \in Own(id) : \A w \in Own(id) : w.version <= v.version

(* The transaction's reads, from its snapshot.  It takes the first free    *)
(* slot.                                                                   *)
deployRead(o, id) ==
    /\ Request
    /\ tx[o] = None /\ \A p \in 1..(o - 1) : tx[p] # None
    /\ tx' = [tx EXCEPT ![o] = [id |-> id, bundle |-> composeBundle(id),
                                latest |-> LatestVersion(id)]]
    /\ UNCHANGED <<gw, lastRow, blocks, assign, versions, lastVersion, audit, granted>>

(* The columns an UPDATE of a gateway's row sets.                          *)
PointAt(row, version) == [row EXCEPT !.desired = version]
ClearError(row) == [row EXCEPT !.error = FALSE]
StoreReport(row, r) == [row EXCEPT !.applied = r.applied, !.error = r.error,
                                   !.restart = r.restart]

(* UPDATE Gateways ... WHERE id = ?: no row, no effect.                    *)
Repoint(id, change(_)) ==
    gw' = [g \in Gateways |-> IF gw[g] # None /\ gw[g].id = id
                              THEN change(gw[g]) ELSE gw[g]]

Unchanged(t) == t.latest # None /\ t.latest.bundle = t.bundle

(* The digest of the latest version is the digest just composed: point at  *)
(* that version again.  No new version, no deployment record, and an       *)
(* earlier apply error stays.                                              *)
deployUnchanged(o) ==
    /\ tx[o] # None /\ Unchanged(tx[o])
    /\ Repoint(tx[o].id, LAMBDA r : PointAt(r, tx[o].latest.id))
    /\ tx' = [tx EXCEPT ![o] = None]
    /\ UNCHANGED <<lastRow, blocks, assign, versions, lastVersion, audit, ops>>
    /\ RecordGrant

NextNumber(t) == IF t.latest = None THEN 1 ELSE t.latest.version + 1

\* Mutation: no unique index.
NumberTaken_Unchecked(t) == FALSE

(* The unique index on (gateway_id, version).                              *)
NumberTaken(t) ==
    \E v \in versions : v.gateway = t.id /\ v.version = NextNumber(t)

\* Mutation: the new version takes the place of the latest one.
deployNewVersion_InPlace(o) ==
    /\ tx[o] # None /\ ~Unchanged(tx[o])
    /\ ~NumberTaken(tx[o])
    /\ lastVersion < MaxVersions
    /\ LET t == tx[o] IN
          /\ lastVersion' = lastVersion + 1
          /\ versions' = (versions \ {t.latest}) \cup
                             {[id |-> lastVersion', gateway |-> t.id,
                               version |-> NextNumber(t), bundle |-> t.bundle]}
          /\ audit' = audit \cup {<<t.id, lastVersion'>>}
          /\ Repoint(t.id, LAMBDA r : ClearError(PointAt(r, lastVersion')))
    /\ tx' = [tx EXCEPT ![o] = None]
    /\ UNCHANGED <<lastRow, blocks, assign, ops>>
    /\ RecordGrant

deployNewVersion(o) ==
    /\ tx[o] # None /\ ~Unchanged(tx[o])
    /\ ~NumberTaken(tx[o])
    /\ lastVersion < MaxVersions
    /\ LET t == tx[o] IN
          /\ lastVersion' = lastVersion + 1
          /\ versions' = versions \cup {[id |-> lastVersion', gateway |-> t.id,
                                         version |-> NextNumber(t),
                                         bundle |-> t.bundle]}
          /\ audit' = audit \cup {<<t.id, lastVersion'>>}
          /\ Repoint(t.id, LAMBDA r : ClearError(PointAt(r, lastVersion')))
    /\ tx' = [tx EXCEPT ![o] = None]
    /\ UNCHANGED <<lastRow, blocks, assign, ops>>
    /\ RecordGrant

(* A duplicate number, a deadlock, a bundle that cannot be composed (a     *)
(* malformed allowlist, a secret that does not decrypt): nothing happened. *)
deployAborted(o) ==
    /\ tx[o] # None
    /\ tx' = [tx EXCEPT ![o] = None]
    /\ UNCHANGED <<gw, lastRow, blocks, assign, versions, lastVersion, audit, ops,
                   granted>>

\* Mutation: any gateway's version will do.
rollbackTo_AnyVersion(id, v) ==
    /\ Request
    /\ Repoint(id, LAMBDA r : ClearError(PointAt(r, v.id)))
    /\ audit' = audit \cup {<<id, v.id>>}
    /\ UNCHANGED <<lastRow, blocks, assign, versions, lastVersion, tx>>
    /\ RecordGrant

(* Repoint at one of the gateway's own earlier versions.                   *)
rollbackTo(id, v) ==
    /\ Request
    /\ v.gateway = id
    /\ Repoint(id, LAMBDA r : ClearError(PointAt(r, v.id)))
    /\ audit' = audit \cup {<<id, v.id>>}
    /\ UNCHANGED <<lastRow, blocks, assign, versions, lastVersion, tx>>
    /\ RecordGrant

CentralNext ==
    \/ \E p \in Profiles : deleteProfile(p) \/ \E b \in Bodies(p) : editProfile(p, b)
    \/ \E x \in Groups : deleteGroup(x) \/ \E b \in RelayBodies : editRelays(x, b)
    \/ \E s \in CredentialSets :
          \/ deleteSetCredentials(s)
          \/ deleteSetRow(s)
          \/ \E u \in Usernames : createCredential(s, u) \/ deleteCredential(s, u)
    \/ \E g \in Gateways : deleteGateway(g) \/ \E st \in Statuses : setStatus(g, st)
    \/ \E id \in 1..lastRow :
          \/ \E a \in Forms \cup {Unassigned} : saveAssignments(id, a)
          \/ \E v \in versions : rollbackTo(id, v)
          \/ \E o \in Slots : deployRead(o, id)
    \/ \E o \in Slots :
          deployUnchanged(o) \/ deployNewVersion(o) \/ deployAborted(o)

-----------------------------------------------------------------------------
(* What the agent's requests see.  Every signed request is authenticated   *)
(* by reading the row with the gateway_uid it names, None when there is no *)
(* such row (401), and its handler then works from that row.               *)

authenticateGateway(g, uid) ==
    IF gw[g] # None /\ gw[g].id = uid THEN gw[g] ELSE None

(* GET /agent/status                                                       *)
statusAnswer(row) ==
    LET v == VersionById(row.desired) IN
    [approval |-> row.status, desired |-> row.desired,
     digest |-> IF v = None THEN None ELSE v.bundle]

\* Mutation: a configuration is served whatever the approval says.
configAnswer_AnyStatus(row) ==
    IF row # None /\ row.desired # None THEN VersionById(row.desired) ELSE None

(* GET /agent/config: 403 unless approved, 404 when nothing is deployed or *)
(* the version is gone.                                                    *)
configAnswer(row) ==
    IF row # None /\ row.status = "approved" /\ row.desired # None
    THEN VersionById(row.desired) ELSE None

\* Mutation: a report without an error leaves the stored one.
reportHandler_KeepsError(uid, r) ==
    Repoint(uid, LAMBDA row : [row EXCEPT !.applied = r.applied,
                                          !.error = @ \/ r.error,
                                          !.restart = r.restart])

(* POST /agent/report                                                      *)
reportHandler(uid, r) ==
    Repoint(uid, LAMBDA row : StoreReport(row, r))

-----------------------------------------------------------------------------
(* The console by itself: operators, and gateways that register.           *)

enroll(g) ==
    /\ gw[g] = None
    /\ registerRow(g)
    /\ UNCHANGED <<blocks, assign, versions, lastVersion, audit, tx, ops, granted>>

CentralSpec ==
    CentralInit /\ [][CentralNext \/ \E g \in Gateways : enroll(g)]_centralVars

(* The tables hold rows of their types; an open transaction holds a bundle *)
(* that can be stored and the row it took for the latest version.          *)
CentralTypeOK ==
    /\ gw \in [Gateways -> Row \cup {None}]
    /\ lastRow \in 0..MaxRows /\ lastVersion \in 0..MaxVersions
    /\ assign \in [RowIds -> Assignments]
    /\ versions \subseteq Version
    /\ tx \in [Slots -> [id : RowIds, bundle : Bundles,
                         latest : Version \cup {None}] \cup {None}]

(* Two deploys of one gateway that overlap never produce two versions of   *)
(* the same number, nor a gap: the versions of a gateway that exists are   *)
(* numbered 1, 2, 3, ... (deployInTransaction, uniq_version_gateway).      *)
NumberingConsecutive ==
    \A g \in Gateways :
        gw[g] # None =>
            {v.version : v \in Own(gw[g].id)} = 1..Cardinality(Own(gw[g].id))

(* A gateway never points at a version that is gone, that belongs to       *)
(* another gateway, or that no deployment record names, however deploys,   *)
(* rollbacks and deletions interleave (the transaction comment of          *)
(* deployBundle).                                                          *)
DesiredRecorded ==
    \A g \in Gateways :
        gw[g] # None /\ gw[g].desired # None =>
            \E v \in versions : /\ v.id = gw[g].desired
                                /\ v.gateway = gw[g].id
                                /\ <<v.gateway, v.id>> \in audit

(* A version row is never changed, and disappears only with its gateway.   *)
VersionsImmutable ==
    [][\A v \in versions : v \in versions' \/ ~Live(v.gateway)']_centralVars

-----------------------------------------------------------------------------
(* The inductive invariant behind these, for any number of gateways,       *)
(* operators, open transactions, rows and versions.                        *)

(* What a bundle is composed from.                                         *)
BlocksTyped ==
    /\ profile \in [Profiles -> Rules \cup ServerBodies \cup {None}]
    /\ \A p \in Profiles : profile[p] \in Bodies(p) \cup {None}
    /\ group \in [Groups -> RelayBodies \cup {None}]
    /\ creds \in [CredentialSets -> SUBSET Usernames]

(* A row id is given once, to one gateway.                                 *)
RowsDiffer ==
    \A g, h \in Gateways :
        gw[g] # None =>
            /\ gw[g].id <= lastRow
            /\ gw[h] # None /\ gw[h].id = gw[g].id => g = h

(* So is a version id, and a number never runs ahead of the ids; every     *)
(* version, also one a late deploy adds for a gateway that was deleted     *)
(* meanwhile, has its deployment record.                                   *)
VersionsKnown ==
    /\ IsFiniteSet(versions)
    /\ \A v \in versions :
          /\ v.id <= lastVersion /\ v.version <= v.id /\ v.gateway <= lastRow
          /\ <<v.gateway, v.id>> \in audit
          /\ \A w \in versions : w.id = v.id => w = v

(* The latest version exists, of deleted gateways too.                     *)
LatestExists ==
    \A id \in RowIds :
        Own(id) # {} => \E v \in Own(id) : \A w \in Own(id) : w.version <= v.version

(* What an open transaction read is still there, unless the gateway was    *)
(* deleted under it.                                                       *)
SnapshotKept ==
    \A o \in Slots :
        tx[o] # None =>
            /\ tx[o].id <= lastRow
            /\ tx[o].latest # None =>
                  /\ tx[o].latest.gateway = tx[o].id
                  /\ tx[o].latest.version <= lastVersion
                  /\ Live(tx[o].id) => tx[o].latest \in versions

(* The console's tables agree however deploys, rollbacks, deletions and    *)
(* registrations interleave.                                               *)
CentralInv ==
    /\ CentralTypeOK /\ BlocksTyped /\ RowsDiffer /\ VersionsKnown
    /\ LatestExists /\ SnapshotKept /\ NumberingConsecutive /\ DesiredRecorded
=============================================================================
