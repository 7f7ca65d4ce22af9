--------------------------- MODULE CentralProofs ---------------------------
(***************************************************************************)
(* Proofs about the console: the versions of a gateway are numbered 1, 2,  *)
(* 3, ... and a gateway points at a version of its own that a deployment   *)
(* record names, for any number of gateways, rows, versions and open       *)
(* transactions.                                                           *)
(***************************************************************************)
EXTENDS Central, FiniteSetTheorems, TLAPS

\* The bounds and slots are natural numbers.
LEMMA Bounds ==
    /\ MaxOpen \in Nat /\ MaxOps \in Nat /\ MaxRows \in Nat /\ MaxVersions \in Nat
    /\ RowIds \subseteq Nat /\ VersionIds \subseteq Nat /\ None \notin RowIds /\ None \notin VersionIds
    /\ Unassigned \in Assignments /\ Forms \subseteq Assignments
BY CentralAssumption DEF RowIds, VersionIds, Unassigned, Assignments

\* composeBundle builds a bundle from whatever is assigned, deleted profiles, groups
\* and sets included.
LEMMA ComposeType ==
    ASSUME BlocksTyped, assign \in [RowIds -> Assignments], NEW id \in RowIds
    PROVE  composeBundle(id) \in Bundles
<1> DEFINE a == assign[id]
           S == {y \in a.groups : group[y] # None}
<1>1. /\ a.server \in ServerProfiles \cup {None} /\ a.ruleset \in Rulesets \cup {None}
      /\ a.groups \in SUBSET Groups /\ a.set \in CredentialSets \cup {None}
    BY DEF Assignments
<1>2. /\ bodyOfKind(a.server) \in ServerBodies \cup {None}
      /\ bodyOfKind(a.ruleset) \in Rules \cup {None}
    BY <1>1, CentralAssumption DEF BlocksTyped, Profiles, Bodies, bodyOfKind
<1>3. [x \in S |-> group[x]] \in Tables
    <2>1. S \in SUBSET Groups
        BY <1>1
    <2>2. [x \in S |-> group[x]] \in [S -> RelayBodies]
        BY <1>1 DEF BlocksTyped
    <2> QED
        BY <2>1, <2>2 DEF Tables
<1>4. inboundAuth(a) \in SUBSET Usernames
    BY <1>1 DEF BlocksTyped, inboundAuth
<1> QED
    BY <1>2, <1>3, <1>4 DEF composeBundle, Bundles

\* The version a transaction takes for the latest is one of the gateway's own and has
\* the highest number.
LEMMA LatestIsLast ==
    ASSUME LatestExists, NEW id \in RowIds
    PROVE  \/ Own(id) = {} /\ LatestVersion(id) = None
           \/ /\ LatestVersion(id) \in Own(id)
              /\ \A w \in Own(id) : w.version <= LatestVersion(id).version
<1>1. CASE Own(id) = {}
    BY <1>1 DEF LatestVersion
<1>2. CASE Own(id) # {}
    <2>1. \E v \in Own(id) : \A w \in Own(id) : w.version <= v.version
        BY <1>2 DEF LatestExists
    <2> QED
        BY <1>2, <2>1 DEF LatestVersion
<1> QED
    BY <1>1, <1>2

\* A gateway's row ids and the rows of the tables, from the invariant.
LEMMA RowFacts ==
    ASSUME CentralInv, NEW g \in Gateways, gw[g] # None
    PROVE  gw[g] \in Row /\ gw[g].id \in RowIds /\ gw[g].id \in 1..lastRow /\ Live(gw[g].id)
BY DEF CentralInv, CentralTypeOK, RowsDiffer, Row, RowIds, Live

\* The columns of a version, from the invariant.
LEMMA VersionFacts ==
    ASSUME CentralInv, NEW v \in versions
    PROVE  /\ v \in Version /\ v.id \in VersionIds /\ v.version \in VersionIds /\ v.gateway \in RowIds
           /\ v.id \in Nat /\ v.version \in Nat /\ v.gateway \in Nat /\ lastVersion \in Nat
           /\ v.version <= v.id /\ v.id <= lastVersion /\ v.version <= lastVersion /\ v.gateway <= lastRow
<1>1. v \in Version /\ v.id \in VersionIds /\ v.version \in VersionIds /\ v.gateway \in RowIds
    BY DEF CentralInv, CentralTypeOK, Version
<1>2. v.id \in Nat /\ v.version \in Nat /\ v.gateway \in Nat
    BY <1>1, Bounds
<1>3. lastVersion \in Nat
    BY Bounds DEF CentralInv, CentralTypeOK
<1>4. v.version <= v.id /\ v.id <= lastVersion /\ v.gateway <= lastRow
    BY DEF CentralInv, VersionsKnown
<1> QED
    BY <1>1, <1>2, <1>3, <1>4

-----------------------------------------------------------------------------
(* The initial state: a console in service.                                *)

\* Every enrolled gateway has its row and its version 1.
LEMMA CentralInitInv == CentralInit => CentralInv
<1> SUFFICES ASSUME CentralInit PROVE CentralInv
    OBVIOUS
<1>0. lastRow \in 0..MaxRows /\ lastVersion = lastRow /\ lastVersion \in 0..MaxVersions
    <2>1. lastRow = Cardinality(Enrolled) /\ lastVersion = lastRow
        BY DEF CentralInit
    <2>2. Cardinality(Enrolled) \in Nat
        BY FS_CardinalityType, CentralAssumption
    <2> QED
        BY <2>1, <2>2, CentralAssumption, Bounds
<1>a. /\ gw \in [Gateways -> {None} \cup {ServingRow(id) : id \in 1..lastRow}]
      /\ \A g \in Gateways : gw[g] # None <=> g \in Enrolled
      /\ \A g, h \in Enrolled : gw[g] = gw[h] => g = h
    BY DEF CentralInit
<1>b. versions = {[id |-> id, gateway |-> id, version |-> 1, bundle |-> composeBundle(id)] : id \in 1..lastRow}
    BY DEF CentralInit
<1>c. audit = {<<id, id>> : id \in 1..lastRow}
    BY DEF CentralInit
<1>1. \A id \in 1..lastRow : id \in RowIds /\ id \in VersionIds /\ 1 \in VersionIds
    BY <1>0, Bounds DEF RowIds, VersionIds
<1>2. ASSUME NEW g \in Gateways, gw[g] # None
      PROVE  /\ gw[g] \in Row /\ gw[g].id \in 1..lastRow /\ gw[g].desired = gw[g].id
             /\ g \in Enrolled
             /\ \A h \in Gateways : gw[h] # None /\ gw[h].id = gw[g].id => h = g
    <2>1. \A h \in Gateways : gw[h] # None => h \in Enrolled /\ \E id \in 1..lastRow : gw[h] = ServingRow(id)
        BY <1>a
    <2>2. \A id \in 1..lastRow : ServingRow(id) \in Row
        BY <1>1 DEF Row, Statuses, ServingRow
    <2>3. \A h \in Gateways : gw[h] # None => gw[h].id \in 1..lastRow /\ gw[h] = ServingRow(gw[h].id)
        <3> SUFFICES ASSUME NEW h \in Gateways, gw[h] # None
                     PROVE  gw[h].id \in 1..lastRow /\ gw[h] = ServingRow(gw[h].id)
            OBVIOUS
        <3>1. PICK id \in 1..lastRow : gw[h] = ServingRow(id)
            BY <2>1
        <3>2. gw[h].id = id
            BY <3>1 DEF ServingRow
        <3> QED
            BY <3>1, <3>2
    <2>4. \A h \in Enrolled : gw[g] = gw[h] => g = h
        BY <1>a, <1>2, <2>1
    <2>5. gw[g].desired = gw[g].id
        <3>1. ServingRow(gw[g].id).desired = gw[g].id
            BY DEF ServingRow
        <3> QED
            BY <1>2, <2>3, <3>1
    <2> QED
        BY <1>2, <2>1, <2>2, <2>3, <2>4, <2>5
<1>3. BlocksTyped
    BY CentralAssumption DEF CentralInit, BlocksTyped, Rules, Plain, Profiles, Bodies
<1>4. assign \in [RowIds -> Assignments]
    BY Bounds DEF CentralInit
<1>5. versions \subseteq Version
    BY <1>1, <1>3, <1>4, <1>b, ComposeType DEF Version
<1>6. CentralTypeOK
    <2>1. gw \in [Gateways -> Row \cup {None}]
        <3>1. gw = [g \in Gateways |-> gw[g]]
            BY DEF CentralInit
        <3> QED
            BY <1>2, <3>1
    <2>2. tx \in [Slots -> [id : RowIds, bundle : Bundles, latest : Version \cup {None}] \cup {None}]
        BY DEF CentralInit
    <2> QED
        BY <1>0, <1>4, <1>5, <2>1, <2>2 DEF CentralTypeOK
<1>7. RowsDiffer
    BY <1>2, <1>0 DEF RowsDiffer
<1>8. VersionsKnown
    <2> DEFINE f == [id \in 1..lastRow |-> [id |-> id, gateway |-> id, version |-> 1,
                                            bundle |-> composeBundle(id)]]
    <2>1. versions = {f[id] : id \in 1..lastRow}
        BY DEF CentralInit
    <2>2. IsFiniteSet(1..lastRow)
        BY <1>0, FS_Interval
    <2>3. IsFiniteSet({f[id] : id \in 1..lastRow})
        <3> DEFINE T == {f[id] : id \in 1..lastRow}
        <3>1. f \in Surjection(1..lastRow, T)
            BY DEF Surjection
        <3> HIDE DEF f, T
        <3>2. IsFiniteSet(T)
            BY <2>2, <3>1, FS_Surjection
        <3> QED
            BY <3>2 DEF T
    <2>4. \A v \in versions : v.id \in 1..lastRow /\ v.version = 1 /\ v.gateway = v.id
        BY <1>b
    <2>5. \A v, w \in versions : v.id = w.id => v = w
        BY <1>b
    <2>6. \A v \in versions : <<v.gateway, v.id>> \in audit
        BY <1>c, <2>4
    <2>7. \A v \in versions : v.id <= lastVersion /\ v.version <= v.id /\ v.gateway <= lastRow
        BY <1>0, <2>4, Bounds
    <2> QED
        BY <2>1, <2>3, <2>5, <2>6, <2>7 DEF VersionsKnown
<1>9. \A id \in 1..lastRow : \E v \in versions : Own(id) = {v} /\ v.version = 1 /\ v.id = id /\ v.gateway = id
    <2> SUFFICES ASSUME NEW id \in 1..lastRow
                 PROVE  \E v \in versions : Own(id) = {v} /\ v.version = 1 /\ v.id = id /\ v.gateway = id
        OBVIOUS
    <2> DEFINE v == [id |-> id, gateway |-> id, version |-> 1, bundle |-> composeBundle(id)]
    <2>1. v \in versions /\ v.gateway = id /\ v.version = 1 /\ v.id = id
        BY <1>b
    <2>2. \A w \in versions : w.gateway = id => w = v
        BY <1>b
    <2> QED
        BY <2>1, <2>2 DEF Own
<1>10. LatestExists
    <2>1. \A v, w \in versions : w.version <= v.version
        BY <1>b
    <2> QED
        BY <2>1 DEF LatestExists, Own
<1>11. SnapshotKept
    BY DEF CentralInit, SnapshotKept
<1>12. NumberingConsecutive
    <2> SUFFICES ASSUME NEW g \in Gateways, gw[g] # None
                 PROVE  {v.version : v \in Own(gw[g].id)} = 1..Cardinality(Own(gw[g].id))
        BY DEF NumberingConsecutive
    <2>1. PICK v \in versions : Own(gw[g].id) = {v} /\ v.version = 1
        BY <1>2, <1>9
    <2>2. Cardinality({v}) = 1
        BY FS_Singleton
    <2>3. {w.version : w \in {v}} = {1} /\ 1..1 = {1}
        BY <2>1
    <2> QED
        BY <2>1, <2>2, <2>3
<1>13. DesiredRecorded
    BY <1>2, <1>8, <1>9 DEF DesiredRecorded, VersionsKnown
<1> QED
    BY <1>3, <1>6, <1>7, <1>8, <1>10, <1>11, <1>12, <1>13 DEF CentralInv

-----------------------------------------------------------------------------
(* One lemma per way in which a request changes the tables.                *)

\* A building block or an assignment changes: no version and no pointer moves.
LEMMA BlockStepInv ==
    ASSUME CentralInv, UNCHANGED <<gw, lastRow, versions, lastVersion, audit, tx>>,
           BlocksTyped', assign' \in [RowIds -> Assignments]
    PROVE  CentralInv'
<1>1. CentralTypeOK' /\ RowsDiffer' /\ VersionsKnown'
    BY DEF CentralInv, CentralTypeOK, RowsDiffer, VersionsKnown
<1>2. \A id : Own(id)' = Own(id) /\ (Live(id)' <=> Live(id))
    BY DEF Own, Live
<1>3. LatestExists' /\ SnapshotKept' /\ NumberingConsecutive' /\ DesiredRecorded'
    BY <1>2 DEF CentralInv, LatestExists, SnapshotKept, NumberingConsecutive, DesiredRecorded
<1> QED
    BY <1>1, <1>3 DEF CentralInv

\* Rows change, each to the same pointer or to one of its own versions, and open
\* transactions end: setStatus, a deploy that finds nothing changed, rollback, a report.
LEMMA PointStepInv ==
    ASSUME CentralInv, UNCHANGED <<lastRow, profile, group, creds, assign, versions, lastVersion>>,
           audit \subseteq audit', gw' \in [Gateways -> Row \cup {None}],
           \A g \in Gateways : gw'[g] # None =>
               /\ gw[g] # None /\ gw'[g].id = gw[g].id
               /\ \/ gw'[g].desired = gw[g].desired
                  \/ \E v \in Own(gw[g].id) : v.id = gw'[g].desired,
           tx' \in [Slots -> [id : RowIds, bundle : Bundles, latest : Version \cup {None}] \cup {None}],
           \A o \in Slots : tx'[o] = tx[o] \/ tx'[o] = None
    PROVE  CentralInv'
<1>1. CentralTypeOK' /\ BlocksTyped'
    BY DEF CentralInv, CentralTypeOK, BlocksTyped
<1>2. RowsDiffer' /\ VersionsKnown'
    BY DEF CentralInv, RowsDiffer, VersionsKnown
<1>3. \A id : Own(id)' = Own(id) /\ (Live(id)' => Live(id))
    BY DEF Own, Live
<1>4. LatestExists'
    BY <1>3 DEF CentralInv, LatestExists
<1>5. SnapshotKept'
    BY <1>3 DEF CentralInv, SnapshotKept
<1>6. NumberingConsecutive'
    BY <1>3 DEF CentralInv, NumberingConsecutive
<1>7. DesiredRecorded'
    <2> SUFFICES ASSUME NEW g \in Gateways, gw'[g] # None, gw'[g].desired # None
                 PROVE  \E v \in versions : /\ v.id = gw'[g].desired /\ v.gateway = gw'[g].id
                                            /\ <<v.gateway, v.id>> \in audit'
        BY DEF DesiredRecorded
    <2>1. CASE gw'[g].desired = gw[g].desired
        BY <2>1 DEF CentralInv, DesiredRecorded
    <2>2. CASE \E v \in Own(gw[g].id) : v.id = gw'[g].desired
        BY <2>2 DEF CentralInv, VersionsKnown, Own
    <2> QED
        BY <2>1, <2>2
<1> QED
    BY <1>1, <1>2, <1>4, <1>5, <1>6, <1>7 DEF CentralInv

\* A gateway without a row gets one, under an id never used before.
LEMMA RegisterStepInv ==
    ASSUME CentralInv, NEW g \in Gateways, registerRow(g),
           UNCHANGED <<profile, group, creds, assign, versions, lastVersion, audit, tx>>
    PROVE  CentralInv'
<1>1. CASE gw[g] # None
    BY <1>1, BlockStepInv DEF registerRow, CentralInv, CentralTypeOK, BlocksTyped
<1>2. CASE gw[g] = None
    <2>1. /\ lastRow < MaxRows /\ lastRow' = lastRow + 1 /\ gw' = [gw EXCEPT ![g] = NewRow(lastRow')]
        BY <1>2 DEF registerRow
    <2>2. lastRow \in Nat /\ lastRow' \in 0..MaxRows /\ lastRow' \in RowIds
        BY <2>1, Bounds DEF CentralInv, CentralTypeOK, RowIds
    <2>3. NewRow(lastRow') \in Row /\ NewRow(lastRow').id = lastRow' /\ NewRow(lastRow').desired = None
        BY <2>2 DEF NewRow, Row, Statuses
    <2>4. /\ gw' \in [Gateways -> Row \cup {None}]
          /\ gw'[g] = NewRow(lastRow') /\ \A h \in Gateways \ {g} : gw'[h] = gw[h]
        BY <2>1, <2>3 DEF CentralInv, CentralTypeOK
    <2>5. \A h \in Gateways \ {g} : gw'[h] # None => gw'[h].id \in Nat /\ gw'[h].id <= lastRow
        BY <2>4, RowFacts DEF RowIds
    <2>6. \A id : Own(id)' = Own(id)
        BY DEF Own
    <2>7. \A id \in 1..lastRow : Live(id)' => Live(id)
        BY <2>2, <2>3, <2>4, <2>1 DEF Live
    <2>8. CentralTypeOK' /\ BlocksTyped'
        BY <2>2, <2>4 DEF CentralInv, CentralTypeOK, BlocksTyped
    <2>9. RowsDiffer'
        BY <2>1, <2>2, <2>3, <2>4, <2>5 DEF CentralInv, RowsDiffer
    <2>10. VersionsKnown'
        <3>1. \A v \in versions : v.gateway \in Nat
            BY Bounds DEF CentralInv, CentralTypeOK, Version
        <3> QED
            BY <2>1, <2>2, <3>1 DEF CentralInv, VersionsKnown
    <2>11. LatestExists'
        BY <2>6 DEF CentralInv, LatestExists
    <2>12. SnapshotKept'
        <3>1. \A o \in Slots : tx[o] # None => tx[o].id \in RowIds /\ tx[o].id \in 1..lastRow
            BY <2>2 DEF CentralInv, CentralTypeOK, SnapshotKept, RowIds
        <3> QED
            BY <2>1, <2>2, <2>7, <3>1 DEF CentralInv, SnapshotKept
    <2>13. NumberingConsecutive'
        <3>1. Own(lastRow') = {}
            <4>1. \A v \in versions : v.gateway \in Nat /\ v.gateway <= lastRow
                BY Bounds DEF CentralInv, CentralTypeOK, VersionsKnown, Version
            <4> QED
                BY <2>1, <2>2, <4>1 DEF Own
        <3>2. {v.version : v \in {}} = 1..Cardinality({})
            BY FS_EmptySet
        <3>3. {v.version : v \in Own(gw'[g].id)} = 1..Cardinality(Own(gw'[g].id))
            BY <2>3, <2>4, <3>1, <3>2
        <3> QED
            BY <2>4, <2>6, <3>3 DEF CentralInv, NumberingConsecutive
    <2>14. DesiredRecorded'
        BY <2>3, <2>4 DEF CentralInv, DesiredRecorded
    <2> QED
        BY <2>8, <2>9, <2>10, <2>11, <2>12, <2>13, <2>14 DEF CentralInv
<1> QED
    BY <1>1, <1>2

\* Forgetting a gateway takes its versions and records along; a transaction that is
\* open for it keeps a snapshot nobody can act on.
LEMMA DeleteStepInv ==
    ASSUME CentralInv, NEW g \in Gateways, deleteGateway(g)
    PROVE  CentralInv'
<1>a. gw[g] # None
    BY DEF deleteGateway
<1>b. PICK id \in RowIds : id = gw[g].id
    BY <1>a, RowFacts
<1>0. /\ gw[g] # None /\ UNCHANGED <<lastRow, profile, group, creds, lastVersion, tx>>
      /\ audit' = {d \in audit : d[1] # id} /\ versions' = {v \in versions : v.gateway # id}
      /\ assign' = [assign EXCEPT ![id] = Unassigned] /\ gw' = [gw EXCEPT ![g] = None]
    BY <1>b DEF deleteGateway, blocks
<1>1. /\ gw'[g] = None /\ \A h \in Gateways \ {g} : gw'[h] = gw[h]
      /\ \A h \in Gateways : gw'[h] # None => gw'[h] = gw[h] /\ gw[h].id # id
    BY <1>0, <1>b DEF CentralInv, CentralTypeOK, RowsDiffer
<1>2. \A i : i # id => Own(i)' = Own(i)
    BY <1>0 DEF Own
<1>3. Own(id)' = {} /\ ~Live(id)'
    BY <1>0, <1>1 DEF Own, Live
<1>4. \A i : Live(i)' => Live(i)
    BY <1>1 DEF Live
<1>5. CentralTypeOK' /\ BlocksTyped'
    <2>1. gw' \in [Gateways -> Row \cup {None}] /\ assign' \in [RowIds -> Assignments]
        BY <1>0, Bounds DEF CentralInv, CentralTypeOK
    <2> QED
        BY <1>0, <2>1 DEF CentralInv, CentralTypeOK, BlocksTyped
<1>6. RowsDiffer'
    BY <1>0, <1>1 DEF CentralInv, RowsDiffer
<1>7. VersionsKnown'
    <2>1. IsFiniteSet(versions')
        BY <1>0, FS_Subset DEF CentralInv, VersionsKnown
    <2>2. \A v \in versions' : <<v.gateway, v.id>> \in audit'
        BY <1>0 DEF CentralInv, VersionsKnown
    <2> QED
        BY <1>0, <2>1, <2>2 DEF CentralInv, VersionsKnown
<1>8. LatestExists'
    BY <1>2, <1>3 DEF CentralInv, LatestExists
<1>9. SnapshotKept'
    <2>1. \A o \in Slots : tx[o] # None /\ tx[o].latest # None /\ Live(tx[o].id)'
                              => tx[o].id # id /\ tx[o].latest \in versions'
        BY <1>0, <1>3, <1>4 DEF CentralInv, SnapshotKept
    <2> QED
        BY <1>0, <2>1 DEF CentralInv, SnapshotKept
<1>10. NumberingConsecutive'
    BY <1>1, <1>2 DEF CentralInv, NumberingConsecutive
<1>11. DesiredRecorded'
    <2> SUFFICES ASSUME NEW h \in Gateways, gw'[h] # None, gw'[h].desired # None
                 PROVE  \E v \in versions' : /\ v.id = gw'[h].desired /\ v.gateway = gw'[h].id
                                             /\ <<v.gateway, v.id>> \in audit'
        BY DEF DesiredRecorded
    <2>1. PICK v \in versions : /\ v.id = gw[h].desired /\ v.gateway = gw[h].id
                                /\ <<v.gateway, v.id>> \in audit
        BY <1>1 DEF CentralInv, DesiredRecorded
    <2>2. v \in versions' /\ <<v.gateway, v.id>> \in audit'
        BY <1>0, <1>1, <2>1
    <2> QED
        BY <1>1, <2>1, <2>2
<1> QED
    BY <1>5, <1>6, <1>7, <1>8, <1>9, <1>10, <1>11 DEF CentralInv

\* The reads of a deploy: a bundle that can be stored and the latest version.
LEMMA ReadStepInv ==
    ASSUME CentralInv, NEW o \in Slots, NEW id \in 1..lastRow, deployRead(o, id)
    PROVE  CentralInv'
<1> DEFINE t == [id |-> id, bundle |-> composeBundle(id), latest |-> LatestVersion(id)]
<1>0. /\ UNCHANGED <<gw, lastRow, profile, group, creds, assign, versions, lastVersion, audit>>
      /\ tx' = [tx EXCEPT ![o] = t]
    BY DEF deployRead, blocks
<1>1. id \in RowIds /\ id <= lastRow
    BY Bounds DEF CentralInv, CentralTypeOK, RowIds
<1>2. \/ LatestVersion(id) = None
      \/ LatestVersion(id) \in versions /\ LatestVersion(id).gateway = id
    BY <1>1, LatestIsLast DEF CentralInv, Own
<1>3. t \in [id : RowIds, bundle : Bundles, latest : Version \cup {None}]
    BY <1>1, <1>2, ComposeType DEF CentralInv, CentralTypeOK
<1>4. /\ tx'[o] = t /\ \A p \in Slots \ {o} : tx'[p] = tx[p]
      /\ tx' \in [Slots -> [id : RowIds, bundle : Bundles, latest : Version \cup {None}] \cup {None}]
    BY <1>0, <1>3 DEF CentralInv, CentralTypeOK
<1>5. /\ t.id <= lastRow
      /\ t.latest # None => /\ t.latest.gateway = t.id /\ t.latest.version <= lastVersion
                            /\ t.latest \in versions
    <2>1. \A v \in versions : v.version <= lastVersion
        BY VersionFacts
    <2> QED
        BY <1>1, <1>2, <2>1
<1> HIDE DEF t
<1>6. CentralTypeOK' /\ BlocksTyped' /\ RowsDiffer' /\ VersionsKnown'
    BY <1>0, <1>4 DEF CentralInv, CentralTypeOK, BlocksTyped, RowsDiffer, VersionsKnown
<1>7. \A i : Own(i)' = Own(i) /\ (Live(i)' <=> Live(i))
    BY <1>0 DEF Own, Live
<1>8. LatestExists' /\ NumberingConsecutive' /\ DesiredRecorded'
    BY <1>0, <1>7 DEF CentralInv, LatestExists, NumberingConsecutive, DesiredRecorded
<1>9. SnapshotKept'
    BY <1>0, <1>4, <1>5, <1>7 DEF CentralInv, SnapshotKept
<1> QED
    BY <1>6, <1>8, <1>9 DEF CentralInv

\* What an UPDATE of a gateway's row leaves of it.
LEMMA UpdatedRow ==
    ASSUME NEW r \in Row
    PROVE  /\ \A d \in VersionIds :
                /\ PointAt(r, d) \in Row /\ PointAt(r, d).id = r.id
                /\ PointAt(r, d).status = r.status /\ PointAt(r, d).desired = d
           /\ /\ ClearError(r) \in Row /\ ClearError(r).id = r.id
              /\ ClearError(r).status = r.status /\ ClearError(r).desired = r.desired
<1>1. ASSUME NEW d \in VersionIds
      PROVE  /\ PointAt(r, d) \in Row /\ PointAt(r, d).id = r.id
             /\ PointAt(r, d).status = r.status /\ PointAt(r, d).desired = d
    BY DEF PointAt, Row
<1>2. /\ ClearError(r) \in Row /\ ClearError(r).id = r.id
      /\ ClearError(r).status = r.status /\ ClearError(r).desired = r.desired
    BY DEF ClearError, Row
<1> QED
    BY <1>1, <1>2

\* The second half of a deploy that changes something: the version gets the number
\* after the one the snapshot ended with, which the unique index finds free.
LEMMA NewVersionStepInv ==
    ASSUME CentralInv, NEW o \in Slots, deployNewVersion(o)
    PROVE  CentralInv'
<1>a. tx[o] # None
    BY DEF deployNewVersion
<1>b. PICK t : t = tx[o]
    OBVIOUS
<1>c. PICK n : n = lastVersion + 1
    OBVIOUS
<1>d. PICK new : new = [id |-> n, gateway |-> t.id, version |-> NextNumber(t), bundle |-> t.bundle]
    OBVIOUS
<1>0. /\ ~NumberTaken(t) /\ lastVersion < MaxVersions /\ lastVersion' = n
      /\ versions' = versions \cup {new} /\ audit' = audit \cup {<<t.id, n>>}
      /\ tx' = [tx EXCEPT ![o] = None]
      /\ UNCHANGED <<lastRow, profile, group, creds, assign>>
    BY <1>b, <1>c, <1>d DEF deployNewVersion, blocks
<1>e. gw' = [g \in Gateways |-> IF gw[g] # None /\ gw[g].id = t.id
                               THEN ClearError(PointAt(gw[g], n)) ELSE gw[g]]
    BY <1>b, <1>c DEF deployNewVersion, Repoint
<1>1. /\ lastVersion \in Nat /\ n \in VersionIds /\ n \in Nat /\ n \in 0..MaxVersions
    BY <1>0, <1>c, Bounds DEF CentralInv, CentralTypeOK, VersionIds
<1>2. /\ t.id \in RowIds /\ t.bundle \in Bundles /\ t.id <= lastRow
      /\ t.latest # None => /\ t.latest \in Version /\ t.latest.version <= lastVersion
                            /\ t.latest.gateway = t.id
                            /\ Live(t.id) => t.latest \in versions
    BY <1>a, <1>b DEF CentralInv, CentralTypeOK, SnapshotKept
<1>3. NextNumber(t) \in Nat /\ 1 <= NextNumber(t) /\ NextNumber(t) <= n
    <2>1. t.latest # None => t.latest.version \in Nat
        BY <1>2, Bounds DEF Version
    <2> QED
        BY <1>1, <1>2, <1>c, <2>1 DEF NextNumber
<1>4. /\ new \in Version /\ new.id = n /\ new.gateway = t.id /\ new.version = NextNumber(t)
    <2>1. NextNumber(t) \in VersionIds
        BY <1>1, <1>3, Bounds DEF VersionIds
    <2> QED
        BY <1>1, <1>2, <1>d, <2>1 DEF Version
<1>5. \A v \in versions : v.id < n
    BY <1>1, <1>c, VersionFacts
<1>6. ASSUME NEW g \in Gateways, gw'[g] # None
      PROVE  /\ gw[g] # None /\ gw'[g] \in Row /\ gw'[g].id = gw[g].id
             /\ IF gw[g].id = t.id THEN gw'[g].desired = n ELSE gw'[g] = gw[g]
    <2>1. CASE gw[g] # None /\ gw[g].id = t.id
        <3>1. gw'[g] = ClearError(PointAt(gw[g], n))
            BY <1>e, <2>1
        <3> QED
            <4>1. gw[g] \in Row
                BY <2>1, RowFacts
            <4>2. PointAt(gw[g], n) \in Row /\ PointAt(gw[g], n).id = gw[g].id /\ PointAt(gw[g], n).desired = n
                BY <1>1, <4>1, UpdatedRow
            <4>3. gw'[g] \in Row /\ gw'[g].id = gw[g].id /\ gw'[g].desired = n
                BY <3>1, <4>2, UpdatedRow
            <4> QED
                BY <2>1, <4>3
    <2>2. CASE gw[g] = None \/ gw[g].id # t.id
        <3>1. gw'[g] = gw[g]
            BY <1>e, <2>2
        <3> QED
            BY <1>6, <2>2, <3>1, RowFacts
    <2> QED
        BY <2>1, <2>2
<1>7. CentralTypeOK' /\ BlocksTyped'
    <2>1. gw' \in [Gateways -> Row \cup {None}]
        BY <1>e, <1>6
    <2> QED
        BY <1>0, <1>1, <1>4, <2>1 DEF CentralInv, CentralTypeOK, BlocksTyped
<1>8. RowsDiffer'
    BY <1>0, <1>6 DEF CentralInv, RowsDiffer
<1>9. VersionsKnown'
    <2>1. IsFiniteSet(versions')
        BY <1>0, FS_AddElement DEF CentralInv, VersionsKnown
    <2>2. \A v \in versions' : <<v.gateway, v.id>> \in audit'
        BY <1>0, <1>4 DEF CentralInv, VersionsKnown
    <2>3. \A v \in versions' : v.id <= lastVersion' /\ v.version <= v.id /\ v.gateway <= lastRow'
        BY <1>0, <1>1, <1>2, <1>3, <1>4, <1>c, VersionFacts
    <2>4. \A v, w \in versions' : w.id = v.id => w = v
        <3>1. \A v \in versions : v.id # n
            BY <1>1, <1>c, VersionFacts
        <3>2. \A v, w \in versions : w.id = v.id => w = v
            BY DEF CentralInv, VersionsKnown
        <3> QED
            BY <1>0, <1>4, <3>1, <3>2
    <2> QED
        BY <2>1, <2>2, <2>3, <2>4 DEF VersionsKnown
<1>10. /\ Own(t.id)' = Own(t.id) \cup {new} /\ new \notin Own(t.id)
       /\ \A i : i # t.id => Own(i)' = Own(i)
    BY <1>0, <1>1, <1>4, <1>5 DEF Own
<1>11. LatestExists'
    <2> SUFFICES ASSUME NEW i \in RowIds, Own(i)' # {}
                 PROVE  \E v \in Own(i)' : \A w \in Own(i)' : w.version <= v.version
        BY DEF LatestExists
    <2>1. CASE i # t.id
        BY <1>10, <2>1 DEF CentralInv, LatestExists
    <2>2. CASE i = t.id /\ Own(i) = {}
        BY <1>3, <1>4, <1>10, <2>2
    <2>3. CASE i = t.id /\ Own(i) # {}
        <3>1. PICK v \in Own(i) : \A w \in Own(i) : w.version <= v.version
            BY <2>3 DEF CentralInv, LatestExists
        <3>2. \A w \in Own(i) : w.version \in Nat
            BY VersionFacts DEF Own
        <3>3. CASE v.version <= new.version
            BY <1>3, <1>4, <1>10, <2>3, <3>1, <3>2, <3>3
        <3>4. CASE ~(v.version <= new.version)
            BY <1>3, <1>4, <1>10, <2>3, <3>1, <3>2, <3>4
        <3> QED
            BY <3>3, <3>4
    <2> QED
        BY <2>1, <2>2, <2>3
<1>12. SnapshotKept'
    <2>1. \A i : Live(i)' => Live(i)
        BY <1>6 DEF Live
    <2> SUFFICES ASSUME NEW p \in Slots, tx'[p] # None
                 PROVE  (/\ tx[p].id <= lastRow
                         /\ tx[p].latest # None =>
                               /\ tx[p].latest.gateway = tx[p].id
                               /\ tx[p].latest.version <= lastVersion
                               /\ Live(tx[p].id) => tx[p].latest \in versions)'
        BY DEF SnapshotKept
    <2>2. tx'[p] = tx[p]
        BY <1>0 DEF CentralInv, CentralTypeOK
    <2>3. tx[p].latest # None => tx[p].latest.version \in Nat
        BY <2>2, Bounds DEF CentralInv, CentralTypeOK, Version
    <2>4. /\ tx[p].id <= lastRow
          /\ tx[p].latest # None => /\ tx[p].latest.gateway = tx[p].id
                                    /\ tx[p].latest.version <= lastVersion
                                    /\ Live(tx[p].id) => tx[p].latest \in versions
        BY <2>2 DEF CentralInv, SnapshotKept
    <2>5. PICK i : i = tx[p].id
        OBVIOUS
    <2>6. (Live(tx[p].id))' <=> Live(i)'
        BY <2>2, <2>5 DEF Live
    <2>7. tx[p].latest # None => tx[p].latest.version <= lastVersion'
        BY <1>0, <1>1, <1>c, <2>3, <2>4
    <2>8. (Live(tx[p].id))' => Live(tx[p].id)
        BY <2>1, <2>5, <2>6
    <2> QED
        BY <1>0, <2>2, <2>4, <2>7, <2>8
<1>13. NumberingConsecutive'
    <2> SUFFICES ASSUME NEW g \in Gateways, gw'[g] # None
                 PROVE  ({v.version : v \in Own(gw[g].id)} = 1..Cardinality(Own(gw[g].id)))'
        BY DEF NumberingConsecutive
    <2>0. PICK i : i = gw[g].id /\ i = gw'[g].id
        BY <1>6
    <2>a. SUFFICES {v.version : v \in Own(i)'} = 1..Cardinality(Own(i)')
        BY <2>0 DEF Own
    <2>1. {v.version : v \in Own(gw[g].id)} = 1..Cardinality(Own(gw[g].id))
        BY <1>6 DEF CentralInv, NumberingConsecutive
    <2>2. CASE gw[g].id # t.id
        BY <1>10, <2>0, <2>1, <2>2
    <2>3. CASE gw[g].id = t.id
        <3>1. PICK k : k = Cardinality(Own(t.id))
            OBVIOUS
        <3>2. IsFiniteSet(Own(t.id))
            BY FS_Subset DEF CentralInv, VersionsKnown, Own
        <3>3. k \in Nat /\ Cardinality(Own(t.id) \cup {new}) = k + 1
            BY <1>10, <3>1, <3>2, FS_CardinalityType, FS_AddElement
        <3>4. {v.version : v \in Own(t.id)} = 1..k
            BY <2>1, <2>3, <3>1
        <3>5. NextNumber(t) \notin 1..k
            BY <1>0, <3>4 DEF NumberTaken, Own
        <3>6. NextNumber(t) = k + 1
            <4>1. CASE t.latest = None
                BY <3>3, <3>5, <4>1 DEF NextNumber
            <4>2. CASE t.latest # None
                <5>1. t.latest \in Own(t.id)
                    BY <1>2, <1>6, <2>3, <4>2, RowFacts DEF Own
                <5>2. t.latest.version \in 1..k
                    BY <3>4, <5>1
                <5> QED
                    BY <3>3, <3>5, <4>2, <5>2 DEF NextNumber
            <4> QED
                BY <4>1, <4>2
        <3>7. {v.version : v \in Own(t.id) \cup {new}} = (1..k) \cup {k + 1}
            BY <1>4, <3>4, <3>6
        <3>8. (1..k) \cup {k + 1} = 1..(k + 1)
            BY <3>3
        <3> QED
            BY <1>10, <2>0, <2>3, <3>3, <3>7, <3>8
    <2> QED
        BY <2>2, <2>3
<1>14. DesiredRecorded'
    <2> SUFFICES ASSUME NEW g \in Gateways, gw'[g] # None, gw'[g].desired # None
                 PROVE  \E v \in versions' : /\ v.id = gw'[g].desired /\ v.gateway = gw'[g].id
                                             /\ <<v.gateway, v.id>> \in audit'
        BY DEF DesiredRecorded
    <2>1. CASE gw[g].id = t.id
        BY <1>0, <1>4, <1>6, <2>1
    <2>2. CASE gw[g].id # t.id
        BY <1>0, <1>6, <2>2 DEF CentralInv, DesiredRecorded
    <2> QED
        BY <2>1, <2>2
<1> QED
    BY <1>7, <1>8, <1>9, <1>11, <1>12, <1>13, <1>14 DEF CentralInv

-----------------------------------------------------------------------------
(* Every request of an operator.                                           *)

\* The building blocks keep their types.
LEMMA BlocksInv ==
    ASSUME CentralInv,
           \/ \E p \in Profiles : deleteProfile(p) \/ \E b \in Bodies(p) : editProfile(p, b)
           \/ \E x \in Groups : deleteGroup(x) \/ \E b \in RelayBodies : editRelays(x, b)
           \/ \E s \in CredentialSets :
                 \/ deleteSetCredentials(s)
                 \/ deleteSetRow(s)
                 \/ \E u \in Usernames : createCredential(s, u) \/ deleteCredential(s, u)
    PROVE  CentralInv' /\ UNCHANGED <<gw, versions, lastVersion, tx, granted>>
<1>0. BlocksTyped /\ assign \in [RowIds -> Assignments]
    BY DEF CentralInv, CentralTypeOK
<1>1. CASE \E p \in Profiles : deleteProfile(p) \/ \E b \in Bodies(p) : editProfile(p, b)
    <2>1. /\ UNCHANGED <<gw, lastRow, versions, lastVersion, audit, tx, assign, group, creds, granted>>
          /\ profile' \in [Profiles -> Rules \cup ServerBodies \cup {None}]
          /\ \A p \in Profiles : profile'[p] \in Bodies(p) \cup {None}
        BY <1>0, <1>1 DEF deleteProfile, editProfile, BlocksTyped, Bodies
    <2> QED
        BY <1>0, <2>1, BlockStepInv DEF BlocksTyped
<1>2. CASE \E x \in Groups : deleteGroup(x) \/ \E b \in RelayBodies : editRelays(x, b)
    <2>1. /\ UNCHANGED <<gw, lastRow, versions, lastVersion, audit, tx, assign, profile, creds, granted>>
          /\ group' \in [Groups -> RelayBodies \cup {None}]
        BY <1>0, <1>2 DEF deleteGroup, editRelays, BlocksTyped
    <2> QED
        BY <1>0, <2>1, BlockStepInv DEF BlocksTyped
<1>3. ASSUME NEW s \in CredentialSets,
             \/ deleteSetCredentials(s)
             \/ deleteSetRow(s)
             \/ \E u \in Usernames : createCredential(s, u) \/ deleteCredential(s, u)
      PROVE  CentralInv' /\ UNCHANGED <<gw, versions, lastVersion, tx, granted>>
    <2>1. /\ UNCHANGED <<gw, lastRow, versions, lastVersion, audit, tx, assign, profile, group, granted>>
          /\ creds' \in [CredentialSets -> SUBSET Usernames]
        BY <1>0, <1>3 DEF deleteSetCredentials, deleteSetRow, createCredential, deleteCredential, BlocksTyped
    <2> QED
        BY <1>0, <2>1, BlockStepInv DEF BlocksTyped
<1> QED
    BY <1>1, <1>2, <1>3

\* What the requests that move pointers do to a row.
LEMMA PointEffect ==
    ASSUME CentralInv,
           \/ \E g \in Gateways : \E st \in Statuses : setStatus(g, st)
           \/ \E id \in 1..lastRow : \E v \in versions : rollbackTo(id, v)
           \/ \E o \in Slots : deployUnchanged(o)
    PROVE  /\ RecordGrant /\ UNCHANGED <<lastRow, profile, group, creds, assign, versions, lastVersion>>
           /\ audit \subseteq audit' /\ gw' \in [Gateways -> Row \cup {None}]
           /\ \A g \in Gateways : gw'[g] # None =>
                 /\ gw[g] # None /\ gw'[g].id = gw[g].id
                 /\ \/ gw'[g].desired = gw[g].desired
                    \/ \E v \in Own(gw[g].id) : v.id = gw'[g].desired
           /\ tx' \in [Slots -> [id : RowIds, bundle : Bundles, latest : Version \cup {None}] \cup {None}]
           /\ \A o \in Slots : tx'[o] = tx[o] \/ tx'[o] = None
<1>0. /\ gw \in [Gateways -> Row \cup {None}] /\ \A g \in Gateways : gw[g] # None => gw[g] \in Row
      /\ tx \in [Slots -> [id : RowIds, bundle : Bundles, latest : Version \cup {None}] \cup {None}]
    BY DEF CentralInv, CentralTypeOK
<1>1. ASSUME NEW g \in Gateways, NEW st \in Statuses, setStatus(g, st)
      PROVE  /\ UNCHANGED <<lastRow, profile, group, creds, assign, versions, lastVersion, audit, tx>>
             /\ gw' \in [Gateways -> Row \cup {None}]
             /\ \A h \in Gateways : gw'[h] # None =>
                   gw[h] # None /\ gw'[h].id = gw[h].id /\ gw'[h].desired = gw[h].desired
    <2>1. UNCHANGED <<lastRow, profile, group, creds, assign, versions, lastVersion, audit, tx>>
        BY <1>1 DEF setStatus, blocks
    <2>2. gw[g] # None /\ gw' = [gw EXCEPT ![g].status = st]
        BY <1>1 DEF setStatus
    <2>3. gw[g] \in Row
        BY <1>0, <2>2
    <2>4. PICK r : r = [gw[g] EXCEPT !.status = st]
        OBVIOUS
    <2>5. gw' = [gw EXCEPT ![g] = r]
        BY <2>2, <2>4
    <2>6. r \in Row /\ r.id = gw[g].id /\ r.desired = gw[g].desired
        BY <2>3, <2>4 DEF Row
    <2> QED
        BY <1>0, <2>1, <2>2, <2>5, <2>6
<1>2. ASSUME NEW i, NEW d,
             \A g \in Gateways : gw[g] # None /\ gw[g].id = i =>
                 d \in VersionIds /\ \E v \in Own(i) : v.id = d,
             gw' = [g \in Gateways |-> IF gw[g] # None /\ gw[g].id = i
                                      THEN ClearError(PointAt(gw[g], d)) ELSE gw[g]]
      PROVE  /\ gw' \in [Gateways -> Row \cup {None}]
             /\ \A g \in Gateways : gw'[g] # None =>
                   /\ gw[g] # None /\ gw'[g].id = gw[g].id
                   /\ gw'[g].desired = gw[g].desired \/ \E v \in Own(gw[g].id) : v.id = gw'[g].desired
    <2> SUFFICES ASSUME NEW g \in Gateways
                 PROVE  /\ gw'[g] \in Row \cup {None}
                        /\ gw'[g] # None =>
                             /\ gw[g] # None /\ gw'[g].id = gw[g].id
                             /\ \/ gw'[g].desired = gw[g].desired
                                \/ \E v \in Own(gw[g].id) : v.id = gw'[g].desired
        BY <1>2
    <2>1. CASE gw[g] # None /\ gw[g].id = i
        <3>1. gw'[g] = ClearError(PointAt(gw[g], d))
            BY <1>2, <2>1
        <3>2. gw'[g] \in Row /\ gw'[g].id = gw[g].id /\ gw'[g].desired = d
            <4>1. gw[g] \in Row /\ d \in VersionIds
                BY <1>0, <1>2, <2>1
            <4>2. PointAt(gw[g], d) \in Row /\ PointAt(gw[g], d).id = gw[g].id /\ PointAt(gw[g], d).desired = d
                BY <4>1, UpdatedRow
            <4> QED
                BY <3>1, <4>2, UpdatedRow
        <3> QED
            BY <1>2, <2>1, <3>2
    <2>2. CASE ~(gw[g] # None /\ gw[g].id = i)
        <3>1. gw'[g] = gw[g]
            BY <1>2, <2>2
        <3> QED
            BY <1>0, <3>1
    <2> QED
        BY <2>1, <2>2
<1>3. ASSUME NEW id \in 1..lastRow, NEW v \in versions, rollbackTo(id, v)
      PROVE  /\ UNCHANGED <<lastRow, profile, group, creds, assign, versions, lastVersion, tx>>
             /\ audit \subseteq audit' /\ gw' \in [Gateways -> Row \cup {None}]
             /\ \A g \in Gateways : gw'[g] # None =>
                   /\ gw[g] # None /\ gw'[g].id = gw[g].id
                   /\ gw'[g].desired = gw[g].desired \/ \E w \in Own(gw[g].id) : w.id = gw'[g].desired
    <2>1. /\ UNCHANGED <<lastRow, profile, group, creds, assign, versions, lastVersion, tx>>
          /\ audit \subseteq audit' /\ v.gateway = id
        BY <1>3 DEF rollbackTo, blocks
    <2>2. gw' = [g \in Gateways |-> IF gw[g] # None /\ gw[g].id = id
                                   THEN ClearError(PointAt(gw[g], v.id)) ELSE gw[g]]
        BY <1>3 DEF rollbackTo, Repoint
    <2>3. PICK d \in VersionIds : d = v.id
        BY VersionFacts
    <2>4. v \in Own(id)
        BY <2>1 DEF Own
    <2> QED
        BY <1>2, <2>1, <2>2, <2>3, <2>4
<1>4. ASSUME NEW o \in Slots, deployUnchanged(o)
      PROVE  /\ UNCHANGED <<lastRow, profile, group, creds, assign, versions, lastVersion, audit>>
             /\ gw' \in [Gateways -> Row \cup {None}]
             /\ \A g \in Gateways : gw'[g] # None =>
                   /\ gw[g] # None /\ gw'[g].id = gw[g].id
                   /\ gw'[g].desired = gw[g].desired \/ \E w \in Own(gw[g].id) : w.id = gw'[g].desired
             /\ tx' = [tx EXCEPT ![o] = None]
    <2>1. /\ UNCHANGED <<lastRow, profile, group, creds, assign, versions, lastVersion, audit>>
          /\ tx' = [tx EXCEPT ![o] = None] /\ tx[o] # None /\ tx[o].latest # None
        BY <1>4 DEF deployUnchanged, Unchanged, blocks
    <2>2. PICK i, d : i = tx[o].id /\ d = tx[o].latest.id
        OBVIOUS
    <2>3. gw' = [g \in Gateways |-> IF gw[g] # None /\ gw[g].id = i THEN PointAt(gw[g], d) ELSE gw[g]]
        BY <1>4, <2>2 DEF deployUnchanged, Repoint
    <2>4. ASSUME NEW g \in Gateways, gw[g] # None, gw[g].id = i
          PROVE  d \in VersionIds /\ \E v \in Own(i) : v.id = d
        <3>1. tx[o].latest \in versions /\ tx[o].latest.gateway = i
            BY <2>1, <2>2, <2>4 DEF CentralInv, SnapshotKept, Live
        <3> QED
            BY <2>2, <3>1, VersionFacts DEF Own
    <2>5. ASSUME NEW g \in Gateways
          PROVE  /\ gw'[g] \in Row \cup {None}
                 /\ gw'[g] # None =>
                      /\ gw[g] # None /\ gw'[g].id = gw[g].id
                      /\ \/ gw'[g].desired = gw[g].desired
                         \/ \E v \in Own(gw[g].id) : v.id = gw'[g].desired
        <3>1. CASE gw[g] # None /\ gw[g].id = i
            <4>1. gw'[g] = PointAt(gw[g], d)
                BY <2>3, <3>1
            <4> QED
                BY <1>0, <2>4, <3>1, <4>1, UpdatedRow
        <3>2. CASE ~(gw[g] # None /\ gw[g].id = i)
            <4>1. gw'[g] = gw[g]
                BY <2>3, <3>2
            <4> QED
                BY <1>0, <4>1
        <3> QED
            BY <3>1, <3>2
    <2> QED
        BY <2>1, <2>3, <2>5
<1>5. RecordGrant
    BY DEF setStatus, rollbackTo, deployUnchanged
<1> QED
    BY <1>0, <1>1, <1>3, <1>4, <1>5

\* Every request of an operator keeps the tables in agreement.
LEMMA CentralStepInv ==
    ASSUME CentralInv, CentralNext
    PROVE  CentralInv'
<1>1. CASE \/ \E p \in Profiles : deleteProfile(p) \/ \E b \in Bodies(p) : editProfile(p, b)
           \/ \E x \in Groups : deleteGroup(x) \/ \E b \in RelayBodies : editRelays(x, b)
           \/ \E s \in CredentialSets :
                 \/ deleteSetCredentials(s)
                 \/ deleteSetRow(s)
                 \/ \E u \in Usernames : createCredential(s, u) \/ deleteCredential(s, u)
    BY <1>1, BlocksInv
<1>2. CASE \/ \E g \in Gateways : \E st \in Statuses : setStatus(g, st)
           \/ \E id \in 1..lastRow : \E v \in versions : rollbackTo(id, v)
           \/ \E o \in Slots : deployUnchanged(o)
    BY <1>2, PointEffect, PointStepInv
<1>3. ASSUME NEW g \in Gateways, deleteGateway(g) PROVE CentralInv'
    BY <1>3, DeleteStepInv
<1>4. ASSUME NEW id \in 1..lastRow, NEW a \in Forms \cup {Unassigned}, saveAssignments(id, a) PROVE CentralInv'
    <2>1. /\ UNCHANGED <<gw, lastRow, versions, lastVersion, audit, tx, profile, group, creds>>
          /\ assign' = [assign EXCEPT ![id] = a]
        BY <1>4 DEF saveAssignments, blocks
    <2>2. assign' \in [RowIds -> Assignments] /\ BlocksTyped'
        BY <2>1, Bounds DEF CentralInv, CentralTypeOK, BlocksTyped
    <2> QED
        BY <2>1, <2>2, BlockStepInv
<1>5. ASSUME NEW id \in 1..lastRow, NEW o \in Slots, deployRead(o, id) PROVE CentralInv'
    BY <1>5, ReadStepInv
<1>6. ASSUME NEW o \in Slots, deployNewVersion(o) PROVE CentralInv'
    BY <1>6, NewVersionStepInv
<1>7. ASSUME NEW o \in Slots, deployAborted(o) PROVE CentralInv'
    <2>1. /\ UNCHANGED <<gw, lastRow, profile, group, creds, assign, versions, lastVersion, audit>>
          /\ tx' = [tx EXCEPT ![o] = None]
        BY <1>7 DEF deployAborted, blocks
    <2> QED
        BY <2>1, PointStepInv DEF CentralInv, CentralTypeOK
<1> QED
    BY <1>1, <1>2, <1>3, <1>4, <1>5, <1>6, <1>7 DEF CentralNext

\* The console by itself.
LEMMA ConsoleStep ==
    CentralInv /\ [CentralNext \/ \E g \in Gateways : enroll(g)]_centralVars => CentralInv'
<1> SUFFICES ASSUME CentralInv, [CentralNext \/ \E g \in Gateways : enroll(g)]_centralVars
             PROVE  CentralInv'
    OBVIOUS
<1>1. CASE CentralNext
    BY <1>1, CentralStepInv
<1>2. ASSUME NEW g \in Gateways, enroll(g) PROVE CentralInv'
    BY <1>2, RegisterStepInv DEF enroll, blocks
<1>3. CASE UNCHANGED centralVars
    BY <1>3, BlockStepInv DEF centralVars, blocks, CentralInv, CentralTypeOK, BlocksTyped
<1> QED
    BY <1>1, <1>2, <1>3

-----------------------------------------------------------------------------

\* The console's tables agree in every reachable state.
THEOREM ConsoleInvariant == CentralSpec => []CentralInv
<1> QED
    BY CentralInitInv, ConsoleStep, PTL DEF CentralSpec

\* Rows, versions and open transactions have their types: composeBundle always
\* yields a bundle that can be stored, and a number never exceeds the ids.
THEOREM ConsoleTypes == CentralSpec => []CentralTypeOK
<1>1. CentralInv => CentralTypeOK
    BY DEF CentralInv
<1> QED
    BY <1>1, ConsoleInvariant, PTL

\* The versions of a gateway are numbered 1, 2, 3, ... however many deploys of it
\* overlap, abort or are rolled back, and whatever is deleted and registered again.
THEOREM NumbersAreConsecutive == CentralSpec => []NumberingConsecutive
<1>1. CentralInv => NumberingConsecutive
    BY DEF CentralInv
<1> QED
    BY <1>1, ConsoleInvariant, PTL

\* A gateway points at a version of its own that exists and that a deployment
\* record names.
THEOREM PointersAreRecorded == CentralSpec => []DesiredRecorded
<1>1. CentralInv => DesiredRecorded
    BY DEF CentralInv
<1> QED
    BY <1>1, ConsoleInvariant, PTL

\* A version row never changes; it goes only with the gateway it belongs to, whose
\* row id is not in use afterwards.
THEOREM VersionsNeverChange == CentralSpec => VersionsImmutable
<1> DEFINE Kept == \A v \in versions : v \in versions' \/ ~Live(v.gateway)'
<1>1. CentralInv /\ [CentralNext \/ \E g \in Gateways : enroll(g)]_centralVars => [Kept]_centralVars
    <2> SUFFICES ASSUME CentralInv, CentralNext \/ \E g \in Gateways : enroll(g) PROVE Kept
        OBVIOUS
    <2>1. ASSUME NEW g \in Gateways, deleteGateway(g) PROVE Kept
        <3>1. PICK id : id = gw[g].id
            OBVIOUS
        <3>2. versions' = {v \in versions : v.gateway # id} /\ gw' = [gw EXCEPT ![g] = None] /\ gw[g] # None
            BY <2>1, <3>1 DEF deleteGateway
        <3>3. ~Live(id)'
            BY <3>1, <3>2 DEF Live, CentralInv, CentralTypeOK, RowsDiffer
        <3> QED
            BY <3>2, <3>3
    <2>2. ASSUME NEW o \in Slots, deployNewVersion(o) PROVE Kept
        BY <2>2 DEF deployNewVersion
    <2>3. CASE \E g \in Gateways : enroll(g)
        BY <2>3 DEF enroll
    <2>4. ASSUME CentralNext, ~\E g \in Gateways : deleteGateway(g), ~\E o \in Slots : deployNewVersion(o)
          PROVE  versions' = versions
        BY <2>4, BlocksInv, PointEffect DEF CentralNext, saveAssignments, deployRead, deployAborted
    <2> QED
        BY <2>1, <2>2, <2>3, <2>4
<1>2. [][Kept]_centralVars => VersionsImmutable
    BY PTL DEF VersionsImmutable
<1> QED
    BY <1>1, <1>2, ConsoleInvariant, PTL DEF CentralSpec
=============================================================================
