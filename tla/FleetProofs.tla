---------------------------- MODULE FleetProofs ----------------------------
(***************************************************************************)
(* Proofs about the console together with the agents that pull from it:    *)
(* what a gateway has in its cache was granted to it, and a restart runs   *)
(* what it should, for any number of gateways, versions, faults, signals   *)
(* and operator requests.                                                  *)
(***************************************************************************)
EXTENDS Fleet, CentralProofs

-----------------------------------------------------------------------------
(* What the store's and the agent's helpers return.                        *)

\* SaveConfig and the notes of an apply change nothing else in the store.
LEMMA StoreFacts ==
    ASSUME NEW st \in Stores, NEW v \in VersionIds
    PROVE  /\ \A b \in Bundles \cup {None} :
                /\ SaveConfig(st, v, b) \in Stores
                /\ SaveConfig(st, v, b).cache = [st.cache EXCEPT ![v] = b]
                /\ SaveConfig(st, v, b).applied = st.applied
           /\ \A ok \in BOOLEAN :
                /\ MarkStore(st, v, ok) \in Stores
                /\ MarkStore(st, v, ok).cache = st.cache
                /\ MarkStore(st, v, ok).applied = IF ok THEN v ELSE st.applied
<1>1. ASSUME NEW b \in Bundles \cup {None}
      PROVE  /\ SaveConfig(st, v, b) \in Stores
             /\ SaveConfig(st, v, b).cache = [st.cache EXCEPT ![v] = b]
             /\ SaveConfig(st, v, b).applied = st.applied
    BY DEF SaveConfig, Stores
<1>2. /\ MarkApplied(st, v) \in Stores /\ MarkApplied(st, v).cache = st.cache
      /\ MarkApplied(st, v).applied = v
    BY DEF MarkApplied, Stores
<1>3. /\ MarkApplyError(st, v) \in Stores /\ MarkApplyError(st, v).cache = st.cache
      /\ MarkApplyError(st, v).applied = st.applied
    BY DEF MarkApplyError, Stores
<1> QED
    BY <1>1, <1>2, <1>3 DEF MarkStore

Outcomes == [live : Bundles \cup {None}, running : VersionIds \cup {None}, listening : BOOLEAN,
             ok : BOOLEAN, restarts : BOOLEAN]

\* Installing an outcome and noting it leave the place of the poll loop alone.
LEMMA NodeFacts ==
    ASSUME NEW n \in Nodes
    PROVE  /\ \A out \in Outcomes :
                /\ Install(n, out) \in Nodes /\ Install(n, out).pc = n.pc
                /\ Install(n, out).version = n.version /\ Install(n, out).ok = n.ok
                /\ Install(n, out).row = n.row
                /\ Install(n, out).live = out.live /\ Install(n, out).running = out.running
                /\ Install(n, out).listening = out.listening
           /\ \A v \in VersionIds, ok \in BOOLEAN, rs \in BOOLEAN :
                /\ MarkNode(n, v, ok, rs) \in Nodes /\ MarkNode(n, v, ok, rs).pc = n.pc
                /\ MarkNode(n, v, ok, rs).version = n.version /\ MarkNode(n, v, ok, rs).ok = n.ok
                /\ MarkNode(n, v, ok, rs).row = n.row
                /\ MarkNode(n, v, ok, rs).live = n.live /\ MarkNode(n, v, ok, rs).running = n.running
                /\ MarkNode(n, v, ok, rs).listening = n.listening
<1>1. ASSUME NEW out \in Outcomes
      PROVE  /\ Install(n, out) \in Nodes /\ Install(n, out).pc = n.pc
             /\ Install(n, out).version = n.version /\ Install(n, out).ok = n.ok
             /\ Install(n, out).row = n.row
             /\ Install(n, out).live = out.live /\ Install(n, out).running = out.running
             /\ Install(n, out).listening = out.listening
    <2>1. /\ out.live \in Bundles \cup {None} /\ out.running \in VersionIds \cup {None}
          /\ out.listening \in BOOLEAN
        BY DEF Outcomes
    <2> QED
        BY <2>1 DEF Install, Nodes
<1>2. ASSUME NEW v \in VersionIds, NEW ok \in BOOLEAN, NEW rs \in BOOLEAN
      PROVE  /\ MarkNode(n, v, ok, rs) \in Nodes /\ MarkNode(n, v, ok, rs).pc = n.pc
             /\ MarkNode(n, v, ok, rs).version = n.version /\ MarkNode(n, v, ok, rs).ok = n.ok
             /\ MarkNode(n, v, ok, rs).row = n.row
             /\ MarkNode(n, v, ok, rs).live = n.live /\ MarkNode(n, v, ok, rs).running = n.running
             /\ MarkNode(n, v, ok, rs).listening = n.listening
    <2>1. CASE ok = TRUE
        BY <2>1 DEF MarkNode, Nodes
    <2>2. CASE ok = FALSE
        BY <2>2 DEF MarkNode, Nodes
    <2> QED
        BY <2>1, <2>2
<1> QED
    BY <1>1, <1>2

\* Recording that two applies crossed changes nothing else.
LEMMA CrossFacts ==
    ASSUME NEW n \in Nodes, NEW out, NEW b \in BOOLEAN, NEW m, m = Cross(n, out, b)
    PROVE  /\ m \in Nodes /\ m.pc = n.pc /\ m.version = n.version /\ m.ok = n.ok
           /\ m.row = n.row /\ m.report = n.report
<1>1. PICK c \in BOOLEAN : c = (b \/ (n.crossed /\ ~out.ok))
    OBVIOUS
<1>2. m = [n EXCEPT !.crossed = c]
    BY <1>1 DEF Cross
<1> QED
    BY <1>2 DEF Nodes

\* A server section is usable, fails before the listeners, or cannot bind.
LEMMA SectionType ==
    ASSUME NEW b \in Bundles PROVE Section(b) \in {"ok", "early", "bind"}
BY CentralAssumption DEF Section, Bundles, Sections

\* apply reports success only of a bundle that loads.  A process that ran nothing
\* then runs and serves it if its server section is usable; one that could not load
\* it, or failed before its listeners, still runs nothing.
LEMMA ApplyFacts ==
    ASSUME NEW n \in Nodes, NEW v \in VersionIds, NEW b \in Bundles, NEW f \in {"ok", "early", "bind"}
    PROVE  /\ apply(n, v, b, f) \in Outcomes
           /\ apply(n, v, b, f).ok => loadBundle(b)
           /\ n.live = None /\ f = "ok" /\ loadBundle(b) /\ Section(b) = "ok" =>
                /\ apply(n, v, b, f).ok /\ apply(n, v, b, f).listening
                /\ apply(n, v, b, f).running = v
           /\ ~loadBundle(b) \/ (n.live = None /\ Section(b) = "early") =>
                ~apply(n, v, b, f).ok /\ apply(n, v, b, f).live = n.live
<1>1. ASSUME NEW m \in Nodes, NEW ok \in BOOLEAN, NEW rs \in BOOLEAN
      PROVE  /\ Outcome(m, ok, rs) \in Outcomes
             /\ Outcome(m, ok, rs).ok = ok /\ Outcome(m, ok, rs).live = m.live
             /\ Outcome(m, ok, rs).running = m.running /\ Outcome(m, ok, rs).listening = m.listening
    BY DEF Outcome, Outcomes, Nodes
<1>2. PICK m1 \in Nodes : m1 = [n EXCEPT !.live = b, !.running = v]
    BY DEF Nodes
<1>3. PICK m2 \in Nodes : m2 = [m1 EXCEPT !.listening = TRUE]
    BY DEF Nodes
<1>a. m2.listening = TRUE /\ m2.running = v
    BY <1>2, <1>3 DEF Nodes
<1>4. PICK m3 \in Nodes : m3 = [n EXCEPT !.running = v]
    BY DEF Nodes
<1>5. CASE ~loadBundle(b)
    <2>1. apply(n, v, b, f) = Outcome(n, FALSE, FALSE)
        BY <1>5 DEF apply
    <2> QED
        BY <1>1, <1>5, <2>1
<1>6. CASE loadBundle(b) /\ n.live = None
    <2>1. apply(n, v, b, f) = bringUp(n, v, b, f)
        BY <1>6 DEF apply
    <2>b. PICK F : F = {Section(b), f}
        OBVIOUS
    <2>c. bringUp(n, v, b, f) =
              CASE "early" \in F -> Outcome(n, FALSE, FALSE)
                [] "early" \notin F /\ "bind" \in F -> Outcome(m1, FALSE, FALSE)
                [] OTHER -> Outcome(m2, TRUE, FALSE)
        BY <1>2, <1>3, <2>b DEF bringUp
    <2>2. CASE "early" \notin F /\ "bind" \notin F
        <3>1. bringUp(n, v, b, f) = Outcome(m2, TRUE, FALSE)
            BY <2>2, <2>c
        <3>2. /\ Outcome(m2, TRUE, FALSE) \in Outcomes /\ Outcome(m2, TRUE, FALSE).ok = TRUE
              /\ Outcome(m2, TRUE, FALSE).running = v /\ Outcome(m2, TRUE, FALSE).listening = TRUE
            BY <1>1, <1>a
        <3> QED
            BY <1>6, <2>1, <2>2, <2>b, <3>1, <3>2
    <2>3. CASE "early" \in F
        <3>1. bringUp(n, v, b, f) = Outcome(n, FALSE, FALSE)
            BY <2>3, <2>c
        <3>2. /\ Outcome(n, FALSE, FALSE) \in Outcomes /\ Outcome(n, FALSE, FALSE).ok = FALSE
              /\ Outcome(n, FALSE, FALSE).live = n.live
            BY <1>1
        <3> QED
            BY <1>6, <2>1, <2>3, <2>b, <3>1, <3>2
    <2>4. CASE "early" \notin F /\ "bind" \in F
        <3>1. bringUp(n, v, b, f) = Outcome(m1, FALSE, FALSE)
            BY <2>4, <2>c
        <3>2. Outcome(m1, FALSE, FALSE) \in Outcomes /\ Outcome(m1, FALSE, FALSE).ok = FALSE
            BY <1>1
        <3> QED
            BY <1>6, <2>1, <2>4, <2>b, <3>1, <3>2
    <2> QED
        BY <2>2, <2>3, <2>4
<1>7. CASE loadBundle(b) /\ n.live # None
    <2>1. PICK ok \in BOOLEAN : ok = validateAgainstLiveRelays(n.live, b)
        BY DEF validateAgainstLiveRelays
    <2>2. PICK rs \in BOOLEAN : rs = restartRequired(n.live, b)
        BY DEF restartRequired
    <2>3. apply(n, v, b, f) = Outcome(IF ok THEN m3 ELSE n, ok, rs)
        BY <1>4, <1>7, <2>1, <2>2 DEF apply
    <2> QED
        BY <1>1, <1>7, <2>3
<1> QED
    BY <1>5, <1>6, <1>7

Boots == [node : Nodes, store : Stores, ok : BOOLEAN]

\* applyCached on the boot path.
LEMMA BootApplyFacts ==
    ASSUME NEW p \in Boots, NEW v \in VersionIds, p.store.cache[v] # None,
           NEW f \in {"ok", "early", "bind"}, NEW q, q = BootApply(p, v, f)
    PROVE  /\ q \in Boots /\ q.node.pc = p.node.pc /\ q.store.cache = p.store.cache
           /\ q.store.applied = IF q.ok THEN v ELSE p.store.applied
           /\ q.ok => loadBundle(p.store.cache[v])
           /\ /\ p.node.live = None /\ f = "ok"
              /\ loadBundle(p.store.cache[v]) /\ Section(p.store.cache[v]) = "ok"
              => q.ok /\ q.node.listening /\ q.node.running = v
           /\ ~loadBundle(p.store.cache[v]) \/ (p.node.live = None /\ Section(p.store.cache[v]) = "early") =>
                ~q.ok /\ q.node.live = p.node.live
<1>1. p.node \in Nodes /\ p.store \in Stores
    BY DEF Boots
<1>2. p.store.cache[v] \in Bundles
    BY <1>1 DEF Stores
<1>3. PICK b \in Bundles : b = p.store.cache[v]
    BY <1>2
<1>4. PICK out : out = apply(p.node, v, b, f)
    OBVIOUS
<1>5. /\ out \in Outcomes /\ out.ok \in BOOLEAN /\ out.restarts \in BOOLEAN
      /\ out.ok => loadBundle(b)
      /\ p.node.live = None /\ f = "ok" /\ loadBundle(b) /\ Section(b) = "ok" =>
            out.ok /\ out.listening /\ out.running = v
      /\ ~loadBundle(b) \/ (p.node.live = None /\ Section(b) = "early") => ~out.ok /\ out.live = p.node.live
    BY <1>1, <1>4, ApplyFacts DEF Outcomes
<1>6. PICK n1 \in Nodes : /\ n1 = Install(p.node, out) /\ n1.pc = p.node.pc /\ n1.live = out.live
                          /\ n1.running = out.running /\ n1.listening = out.listening
    BY <1>1, <1>5, NodeFacts
<1>7. PICK n2 \in Nodes : /\ n2 = MarkNode(n1, v, out.ok, out.restarts) /\ n2.pc = n1.pc /\ n2.live = n1.live
                          /\ n2.running = n1.running /\ n2.listening = n1.listening
    BY <1>5, NodeFacts
<1>8. PICK st \in Stores : /\ st = MarkStore(p.store, v, out.ok) /\ st.cache = p.store.cache
                           /\ st.applied = IF out.ok THEN v ELSE p.store.applied
    BY <1>1, <1>5, StoreFacts
<1>9. q = [node |-> n2, store |-> st, ok |-> out.ok]
    BY <1>3, <1>4, <1>6, <1>7, <1>8 DEF BootApply
<1>10. q.node = n2 /\ q.store = st /\ q.ok = out.ok /\ q \in Boots
    BY <1>5, <1>9 DEF Boots
<1> QED
    BY <1>3, <1>5, <1>6, <1>7, <1>8, <1>10

\* A boot leaves the cache alone, marks as applied only what loads, and serves what
\* last applied, if that can be brought up, when the version the console asked for does
\* not load or fails before its listeners.
LEMMA BootFacts ==
    ASSUME NEW st \in Stores, NEW f1 \in {"ok", "early", "bind"}, NEW f2 \in {"ok", "early", "bind"},
           st.applied # None => st.cache[st.applied] # None /\ loadBundle(st.cache[st.applied]),
           NEW p, p = bootFromCache(st, f1, f2)
    PROVE  /\ p.node \in Nodes /\ p.store \in Stores /\ p.node.pc = "idle" /\ p.store.cache = st.cache
           /\ p.store.applied # None =>
                st.cache[p.store.applied] # None /\ loadBundle(st.cache[p.store.applied])
           /\ f1 = "ok" /\ f2 = "ok" =>
                /\ /\ st.applied # None /\ Section(st.cache[st.applied]) = "ok"
                   /\ Loads(st, bootConfig(st)) => Section(st.cache[bootConfig(st)]) # "bind"
                   => p.node.listening
                /\ /\ st.desired # None /\ Loads(st, st.desired) /\ Section(st.cache[st.desired]) = "ok"
                   => p.node.running = st.desired
<1>1. /\ st.desired \in VersionIds \cup {None} /\ st.applied \in VersionIds \cup {None}
      /\ st.cache \in [VersionIds -> Bundles \cup {None}]
    BY DEF Stores
<1>2. Down \in Nodes /\ Down.live = None
    BY DEF Down, Nodes, Pcs
<1>a. PICK d : d = [Down EXCEPT !.pc = "idle"]
    OBVIOUS
<1>b. d \in Nodes /\ d.pc = "idle" /\ d.live = None
    BY <1>2, <1>a DEF Nodes, Pcs
<1>c. PICK p0 : p0 = [node |-> d, store |-> st, ok |-> FALSE]
    OBVIOUS
<1>3. p0 \in Boots /\ p0.node = d /\ p0.store = st
    BY <1>b, <1>c DEF Boots
<1>4. PICK v : v = bootConfig(st)
    OBVIOUS
<1>5. \/ v = None /\ st.applied = None
      \/ v \in VersionIds /\ st.cache[v] # None
    BY <1>1, <1>4 DEF bootConfig
<1>6. st.desired # None /\ st.cache[st.desired] # None => v = st.desired
    BY <1>4 DEF bootConfig
<1>7. CASE v = None
    <2>1. p = p0
        BY <1>a, <1>c, <1>4, <1>7 DEF bootFromCache
    <2>2. st.applied = None
        BY <1>5, <1>7, Bounds
    <2>3. ~(st.desired # None /\ Loads(st, st.desired))
        BY <1>6, <1>7 DEF Loads
    <2> QED
        BY <1>b, <1>3, <2>1, <2>2, <2>3
<1>8. CASE v # None
    <2>1. v \in VersionIds /\ st.cache[v] # None
        BY <1>5, <1>8
    <2>2. PICK p1 : p1 = BootApply(p0, v, f1)
        OBVIOUS
    <2>3. /\ p1 \in Boots /\ p1.node.pc = "idle" /\ p1.store.cache = st.cache
          /\ p1.store.applied = IF p1.ok THEN v ELSE st.applied
          /\ p1.ok => loadBundle(st.cache[v])
          /\ f1 = "ok" /\ loadBundle(st.cache[v]) /\ Section(st.cache[v]) = "ok" =>
                p1.ok /\ p1.node.listening /\ p1.node.running = v
          /\ ~loadBundle(st.cache[v]) \/ Section(st.cache[v]) = "early" => ~p1.ok /\ p1.node.live = None
        BY <1>b, <1>3, <2>1, <2>2, BootApplyFacts
    <2>b. Section(st.cache[v]) \in {"ok", "early", "bind"} /\ (Loads(st, v) <=> loadBundle(st.cache[v]))
        BY <1>1, <2>1, SectionType DEF Loads
    <2>c. st.desired # None /\ Loads(st, st.desired) => v = st.desired
        BY <1>6 DEF Loads
    <2>4. p = IF p1.ok \/ st.applied \in {None, v} THEN p1 ELSE BootApply(p1, st.applied, f2)
        BY <1>a, <1>c, <1>4, <1>8, <2>2 DEF bootFromCache
    <2>a. p1.node \in Nodes /\ p1.store \in Stores /\ p1.ok \in BOOLEAN
        BY <2>3 DEF Boots
    <2>5. CASE p1.ok \/ st.applied \in {None, v}
        BY <1>4, <2>1, <2>3, <2>4, <2>5, <2>a, <2>b, <2>c
    <2>6. CASE ~(p1.ok \/ st.applied \in {None, v})
        <3>1. st.applied \in VersionIds /\ st.cache[st.applied] # None /\ loadBundle(st.cache[st.applied])
            BY <1>1, <2>6
        <3>2. p = BootApply(p1, st.applied, f2)
            BY <2>4, <2>6
        <3>3. /\ p \in Boots /\ p.node.pc = "idle" /\ p.store.cache = st.cache
              /\ p.store.applied = IF p.ok THEN st.applied ELSE p1.store.applied
              /\ p1.node.live = None /\ f2 = "ok" /\ Section(st.cache[st.applied]) = "ok" => p.node.listening
            BY <2>3, <3>1, <3>2, BootApplyFacts
        <3>4. p1.store.applied = st.applied
            BY <2>3, <2>6
        <3>5. /\ f1 = "ok" => ~(loadBundle(st.cache[v]) /\ Section(st.cache[v]) = "ok")
              /\ f1 = "ok" /\ (loadBundle(st.cache[v]) => Section(st.cache[v]) # "bind") => p1.node.live = None
            BY <2>3, <2>6, <2>b
        <3>6. p.node \in Nodes /\ p.store \in Stores
            BY <3>3 DEF Boots
        <3> QED
            BY <1>4, <2>b, <2>c, <3>1, <3>3, <3>4, <3>5, <3>6
    <2> QED
        BY <2>5, <2>6
<1> QED
    BY <1>7, <1>8

-----------------------------------------------------------------------------
(* The initial state, and the steps of the console.                        *)

\* Nothing is cached, and what is deployed is on record as granted.
LEMMA FleetInitInv == FleetInit => FleetInv
<1> SUFFICES ASSUME FleetInit PROVE FleetInv
    OBVIOUS
<1>1. CentralInv /\ EntitledGranted
    BY CentralInitInv DEF FleetInit, CentralInit, EntitledGranted
<1>2. Down \in Nodes /\ Down.pc = "down"
    BY DEF Down, Nodes, Pcs
<1>3. NoHup \in Hups /\ NoHup.pc = "none"
    BY DEF NoHup, Hups, HupPcs
<1>4. /\ EmptyStore \in Stores /\ EmptyStore.applied = None
      /\ \A v \in VersionIds : EmptyStore.cache[v] = None
    BY DEF EmptyStore, Stores
<1>5. ASSUME NEW g \in Gateways
      PROVE  /\ store[g] \in Stores /\ store[g].applied = None
             /\ \A v \in VersionIds : store[g].cache[v] = None
             /\ node[g] = Down /\ hup[g] = NoHup
    <2>1. node[g] = Down /\ hup[g] = NoHup
        BY DEF FleetInit
    <2>2. CASE g \in Enrolled
        <3>1. store[g] = [EmptyStore EXCEPT !.uid = gw[g].id]
            BY <2>2 DEF FleetInit
        <3>2. gw[g].id \in RowIds
            <4>1. gw[g] # None
                BY <2>2 DEF FleetInit, CentralInit
            <4> QED
                BY <1>1, <4>1, RowFacts
        <3>3. PICK i \in RowIds : i = gw[g].id
            BY <3>2
        <3>4. PICK st : st = [EmptyStore EXCEPT !.uid = i]
            OBVIOUS
        <3>5. st \in Stores /\ st.applied = EmptyStore.applied /\ st.cache = EmptyStore.cache
            BY <1>4, <3>4 DEF Stores
        <3>6. store[g] = st
            BY <3>1, <3>3, <3>4
        <3> QED
            BY <1>4, <2>1, <3>5, <3>6
    <2>3. CASE g \notin Enrolled
        BY <1>4, <2>1, <2>3 DEF FleetInit
    <2> QED
        BY <2>2, <2>3
<1>6. TypeOK
    <2>1. store = [g \in Gateways |-> store[g]] /\ node \in [Gateways -> Nodes] /\ hup \in [Gateways -> Hups]
        BY <1>2, <1>3 DEF FleetInit
    <2>2. store \in [Gateways -> Stores] /\ faults \in 0..MaxFaults
        BY <1>5, <2>1, FleetAssumption DEF FleetInit
    <2> QED
        BY <1>1, <2>1, <2>2 DEF TypeOK, CentralInv
<1>7. ASSUME NEW g \in Gateways PROVE AgentOK(g, store[g], node[g], hup[g])
    BY <1>2, <1>3, <1>5 DEF AgentOK, FetchEntitled, CacheFaithful, AppliedLoads, InHandCached
<1> QED
    BY <1>1, <1>6, <1>7 DEF FleetInv

\* What a step of the console may do to the versions and the record of grants.
HistoryKept ==
    /\ lastVersion \in Nat /\ lastVersion' \in Nat /\ lastVersion <= lastVersion'
    /\ granted \subseteq granted'
    /\ \A v \in versions' : v \in versions \/ v.id = lastVersion + 1

\* The agents do not notice it.
LEMMA AgentKept ==
    ASSUME HistoryKept, NEW g, NEW st, NEW n \in Nodes, NEW h, AgentOK(g, st, n, h)
    PROVE  AgentOK(g, st, n, h)'
<1>1. FetchEntitled(g, n)'
    <2> SUFFICES ASSUME n.pc = "serve", n.row # None, n.row.status = "approved", n.row.desired # None
                 PROVE  /\ n.row.desired <= lastVersion'
                        /\ \A v \in versions' : v.id = n.row.desired => <<g, v.id, v.bundle>> \in granted'
        BY DEF FetchEntitled
    <2>1. n.row.desired \in Nat
        BY Bounds DEF Nodes, Row
    <2>2. /\ n.row.desired <= lastVersion
          /\ \A v \in versions : v.id = n.row.desired => <<g, v.id, v.bundle>> \in granted
        BY DEF AgentOK, FetchEntitled
    <2> QED
        BY <2>1, <2>2 DEF HistoryKept
<1>2. CacheFaithful(g, st)'
    <2> SUFFICES ASSUME NEW v \in VersionIds, st.cache[v] # None
                 PROVE  /\ v <= lastVersion'
                        /\ <<g, v, st.cache[v]>> \in granted'
                        /\ \A w \in versions' : w.id = v => w.bundle = st.cache[v]
        BY DEF CacheFaithful
    <2>1. /\ v <= lastVersion /\ <<g, v, st.cache[v]>> \in granted
          /\ \A w \in versions : w.id = v => w.bundle = st.cache[v]
        BY DEF AgentOK, CacheFaithful
    <2>2. v \in Nat
        BY Bounds
    <2> QED
        BY <2>1, <2>2 DEF HistoryKept
<1> QED
    BY <1>1, <1>2 DEF AgentOK, AppliedLoads, InHandCached, Loads, loadBundle, GroupsNamed

\* An operator's request grants what it makes available and withdraws nothing that
\* was granted.
LEMMA RequestKept ==
    ASSUME CentralInv, EntitledGranted, CentralNext
    PROVE  CentralInv' /\ EntitledGranted' /\ HistoryKept
<1>0. CentralInv' /\ lastVersion \in Nat /\ lastVersion' \in Nat
    BY CentralStepInv, Bounds DEF CentralInv, CentralTypeOK
<1>1. CASE UNCHANGED <<gw, versions, lastVersion, granted>>
    BY <1>0, <1>1 DEF EntitledGranted, Entitled, HistoryKept
<1>2. CASE RecordGrant /\ UNCHANGED <<versions, lastVersion>>
    BY <1>0, <1>2 DEF RecordGrant, EntitledGranted, HistoryKept
<1>3. CASE \/ \E p \in Profiles : deleteProfile(p) \/ \E b \in Bodies(p) : editProfile(p, b)
           \/ \E x \in Groups : deleteGroup(x) \/ \E b \in RelayBodies : editRelays(x, b)
           \/ \E s \in CredentialSets :
                 \/ deleteSetCredentials(s)
                 \/ deleteSetRow(s)
                 \/ \E u \in Usernames : createCredential(s, u) \/ deleteCredential(s, u)
    BY <1>1, <1>3, BlocksInv
<1>4. CASE \/ \E g \in Gateways : \E st \in Statuses : setStatus(g, st)
           \/ \E id \in 1..lastRow : \E v \in versions : rollbackTo(id, v)
           \/ \E o \in Slots : deployUnchanged(o)
    BY <1>2, <1>4, PointEffect
<1>5. ASSUME NEW g \in Gateways, deleteGateway(g) PROVE EntitledGranted' /\ HistoryKept
    <2>1. /\ gw' = [gw EXCEPT ![g] = None] /\ UNCHANGED <<lastVersion, granted>> /\ versions' \subseteq versions
        BY <1>5 DEF deleteGateway
    <2>2. \A h \in Gateways : gw'[h] # None => gw'[h] = gw[h]
        BY <2>1 DEF CentralInv, CentralTypeOK
    <2>3. Entitled(gw', versions') \subseteq Entitled(gw, versions)
        BY <2>1, <2>2 DEF Entitled
    <2>4. EntitledGranted'
        BY <2>1, <2>3 DEF EntitledGranted
    <2>5. HistoryKept
        BY <1>0, <2>1 DEF HistoryKept
    <2> QED
        BY <2>4, <2>5
<1>6. CASE \/ \E id \in 1..lastRow : \E a \in Forms \cup {Unassigned} : saveAssignments(id, a)
           \/ \E id \in 1..lastRow : \E o \in Slots : deployRead(o, id)
           \/ \E o \in Slots : deployAborted(o)
    BY <1>1, <1>6 DEF saveAssignments, deployRead, deployAborted
<1>7. ASSUME NEW o \in Slots, deployNewVersion(o) PROVE EntitledGranted' /\ HistoryKept
    <2>1. /\ RecordGrant /\ lastVersion' = lastVersion + 1
          /\ versions' = versions \cup {[id |-> lastVersion', gateway |-> tx[o].id,
                                         version |-> NextNumber(tx[o]), bundle |-> tx[o].bundle]}
        BY <1>7 DEF deployNewVersion
    <2>2. \A v \in versions' : v \in versions \/ v.id = lastVersion + 1
        BY <2>1
    <2> QED
        BY <1>0, <2>1, <2>2 DEF RecordGrant, EntitledGranted, HistoryKept
<1> QED
    BY <1>0, <1>3, <1>4, <1>5, <1>6, <1>7 DEF CentralNext

\* A registration or a report grants nothing.
LEMMA RowsKept ==
    ASSUME CentralInv, EntitledGranted, UNCHANGED <<versions, lastVersion, granted>>,
           \A g \in Gateways : gw'[g] # None /\ gw'[g].desired # None =>
               gw[g] # None /\ gw'[g].status = gw[g].status /\ gw'[g].desired = gw[g].desired
    PROVE  EntitledGranted' /\ HistoryKept
<1>0. lastVersion \in Nat /\ \A v \in versions : v.id # None
    BY Bounds, VersionFacts DEF CentralInv, CentralTypeOK
<1>1. Entitled(gw', versions') \subseteq Entitled(gw, versions)
    <2> SUFFICES ASSUME NEW g \in Gateways, gw'[g] # None, gw'[g].status = "approved",
                        NEW v \in versions, gw'[g].desired = v.id
                 PROVE  <<g, v.id, v.bundle>> \in Entitled(gw, versions)
        BY DEF Entitled
    <2> QED
        BY <1>0 DEF Entitled
<1> QED
    BY <1>0, <1>1 DEF EntitledGranted, HistoryKept

\* The invariant survives a step that leaves every agent alone, or one that replaces
\* the state of one agent by an acceptable one.
LEMMA AgentStep ==
    ASSUME FleetInv, CentralInv', EntitledGranted', HistoryKept, faults' \in 0..MaxFaults,
           NEW g \in Gateways, NEW st \in Stores, NEW n \in Nodes, NEW h \in Hups,
           store' = [store EXCEPT ![g] = st], node' = [node EXCEPT ![g] = n], hup' = [hup EXCEPT ![g] = h],
           AgentOK(g, st, n, h)
    PROVE  FleetInv'
<1>0. store \in [Gateways -> Stores] /\ node \in [Gateways -> Nodes] /\ hup \in [Gateways -> Hups]
    BY DEF FleetInv, TypeOK
<1>1. TypeOK'
    BY <1>0 DEF TypeOK, CentralInv
<1>2. ASSUME NEW k \in Gateways PROVE AgentOK(k, store[k], node[k], hup[k])'
    <2>1. PICK s1 \in Stores, n1 \in Nodes, h1 \in Hups :
              /\ s1 = store'[k] /\ n1 = node'[k] /\ h1 = hup'[k] /\ AgentOK(k, s1, n1, h1)
        <3>1. CASE k = g
            <4>1. store'[k] = st /\ node'[k] = n /\ hup'[k] = h
                BY <1>0, <3>1
            <4> QED
                BY <3>1, <4>1
        <3>2. CASE k # g
            <4>1. store'[k] = store[k] /\ node'[k] = node[k] /\ hup'[k] = hup[k]
                BY <1>0, <3>2
            <4> QED
                BY <1>0, <4>1 DEF FleetInv
        <3> QED
            BY <3>1, <3>2
    <2>2. AgentOK(k, s1, n1, h1)'
        BY <2>1, AgentKept
    <2> QED
        BY <2>1, <2>2 DEF AgentOK, FetchEntitled, CacheFaithful, AppliedLoads, InHandCached, Loads,
            loadBundle, GroupsNamed
<1> QED
    BY <1>1, <1>2 DEF FleetInv

-----------------------------------------------------------------------------
(* The steps of an agent.                                                  *)

\* What the invariant says of one agent.
LEMMA AgentFacts ==
    ASSUME FleetInv, NEW g \in Gateways
    PROVE  /\ store[g] \in Stores /\ node[g] \in Nodes /\ hup[g] \in Hups
           /\ AgentOK(g, store[g], node[g], hup[g])
           /\ store = [store EXCEPT ![g] = store[g]] /\ node = [node EXCEPT ![g] = node[g]]
           /\ hup = [hup EXCEPT ![g] = hup[g]]
BY DEF FleetInv, TypeOK

\* The console stands still.
LEMMA LocalStep ==
    ASSUME FleetInv, UNCHANGED centralVars, faults' \in 0..MaxFaults,
           NEW g \in Gateways, NEW st \in Stores, NEW n \in Nodes, NEW h \in Hups,
           store' = [store EXCEPT ![g] = st], node' = [node EXCEPT ![g] = n], hup' = [hup EXCEPT ![g] = h],
           AgentOK(g, st, n, h)
    PROVE  FleetInv'
<1>1. /\ CentralInv /\ EntitledGranted /\ CentralTypeOK /\ BlocksTyped
      /\ UNCHANGED <<gw, lastRow, versions, lastVersion, audit, tx, profile, group, creds, assign, granted>>
    BY DEF FleetInv, centralVars, blocks, CentralInv
<1>2. CentralInv'
    BY <1>1, BlockStepInv DEF BlocksTyped, CentralTypeOK
<1>3. EntitledGranted' /\ HistoryKept
    BY <1>1, RowsKept
<1> QED
    BY <1>2, <1>3, AgentStep

\* Faults are counted up to their bound.
LEMMA FaultBound ==
    ASSUME FleetInv
    PROVE  /\ faults \in 0..MaxFaults /\ (Fault => faults' \in 0..MaxFaults)
           /\ \A f \in {"ok", "early", "bind"} : faults + Spent(f) <= MaxFaults => faults + Spent(f) \in 0..MaxFaults
           /\ \A f1, f2 \in {"ok", "early", "bind"} :
                 faults + Spent(f1) + Spent(f2) <= MaxFaults => faults + Spent(f1) + Spent(f2) \in 0..MaxFaults
BY FleetAssumption DEF FleetInv, TypeOK, Fault, Spent

\* Boot: whatever comes up, the store still holds what it held.
LEMMA BootStep ==
    ASSUME FleetInv, NEW g \in Gateways, Boot(g)
    PROVE  FleetInv'
<1>1. PICK st \in Stores : st = store[g]
    BY AgentFacts
<1>2. PICK f1 \in {"ok", "early", "bind"}, f2 \in {"ok", "early", "bind"} :
          /\ faults + Spent(f1) + Spent(f2) <= MaxFaults
          /\ faults' = faults + Spent(f1) + Spent(f2)
          /\ node' = [node EXCEPT ![g] = bootFromCache(st, f1, f2).node]
          /\ store' = [store EXCEPT ![g] = bootFromCache(st, f1, f2).store]
    BY <1>1 DEF Boot
<1>3. PICK p : p = bootFromCache(st, f1, f2)
    OBVIOUS
<1>4. faults' \in 0..MaxFaults
    <2>1. faults + Spent(f1) + Spent(f2) \in 0..MaxFaults
        BY <1>2, FaultBound
    <2> QED
        BY <1>2, <2>1
<1>5. node' = [node EXCEPT ![g] = p.node] /\ store' = [store EXCEPT ![g] = p.store]
    BY <1>2, <1>3
<1>6. UNCHANGED centralVars /\ hup' = [hup EXCEPT ![g] = hup[g]]
    BY AgentFacts DEF Boot
<1>7. AgentOK(g, st, node[g], hup[g]) /\ hup[g] \in Hups
    BY <1>1, AgentFacts
<1>8. st.applied # None => st.cache[st.applied] # None /\ loadBundle(st.cache[st.applied])
    BY <1>7 DEF AgentOK, AppliedLoads, Loads
<1>9. /\ p.node \in Nodes /\ p.store \in Stores /\ p.node.pc = "idle" /\ p.store.cache = st.cache
      /\ p.store.applied # None =>
            st.cache[p.store.applied] # None /\ loadBundle(st.cache[p.store.applied])
    BY <1>3, <1>8, BootFacts
<1>10. AgentOK(g, p.store, p.node, hup[g])
    BY <1>7, <1>9 DEF AgentOK, FetchEntitled, CacheFaithful, AppliedLoads, InHandCached, Loads
<1> QED
    BY <1>4, <1>5, <1>6, <1>7, <1>9, <1>10, LocalStep

\* pull records the intent and leaves the cache as it is; it goes on to apply only
\* what is in the cache.
LEMMA PullFacts ==
    ASSUME NEW n \in Nodes, NEW st \in Stores, NEW want \in VersionIds, NEW digest,
           NEW p, p = pull(n, st, want, digest)
    PROVE  /\ p.node \in Nodes /\ p.store \in Stores
           /\ p.store.cache = st.cache /\ p.store.applied = st.applied
           /\ p.node.pc \in {"report", "fetch", "apply"}
           /\ p.node.pc = "apply" => p.node.version = want /\ st.cache[want] # None
<1>1. PICK noted : noted = [st EXCEPT !.desired = want]
    OBVIOUS
<1>2. noted \in Stores /\ noted.cache = st.cache /\ noted.applied = st.applied
    BY <1>1 DEF Stores
<1>3. PICK n1 : n1 = [n EXCEPT !.pc = "report", !.failed = None, !.backoff = FALSE]
    OBVIOUS
<1>4. n1 \in Nodes /\ n1.pc = "report"
    BY <1>3 DEF Nodes, Pcs
<1>5. PICK n2 : n2 = [n EXCEPT !.pc = "report"]
    OBVIOUS
<1>6. n2 \in Nodes /\ n2.pc = "report"
    BY <1>5 DEF Nodes, Pcs
<1>7. PICK n3 : n3 = [n EXCEPT !.pc = "apply", !.version = want]
    OBVIOUS
<1>8. n3 \in Nodes /\ n3.pc = "apply" /\ n3.version = want
    BY <1>7 DEF Nodes, Pcs
<1>9. PICK n4 : n4 = [n EXCEPT !.pc = "fetch"]
    OBVIOUS
<1>10. n4 \in Nodes /\ n4.pc = "fetch"
    BY <1>9 DEF Nodes, Pcs
<1>11. PICK c : c = st.cache[want]
    OBVIOUS
<1>12. PICK saved : saved = SaveConfig(noted, want, c)
    OBVIOUS
<1>13. saved \in Stores /\ saved.cache = st.cache /\ saved.applied = st.applied
    <2>1. c \in Bundles \cup {None} /\ st.cache \in [VersionIds -> Bundles \cup {None}]
        BY <1>11 DEF Stores
    <2>2. [st.cache EXCEPT ![want] = c] = st.cache
        BY <1>11, <2>1
    <2> QED
        BY <1>2, <1>12, <2>1, <2>2, StoreFacts
<1>14. \/ p = [node |-> n1, store |-> noted]
       \/ p = [node |-> n2, store |-> noted]
       \/ p = [node |-> n3, store |-> saved] /\ c # None
       \/ p = [node |-> n4, store |-> noted]
    BY <1>1, <1>3, <1>5, <1>7, <1>9, <1>11, <1>12 DEF pull
<1> QED
    BY <1>2, <1>4, <1>6, <1>8, <1>10, <1>11, <1>13, <1>14

\* Crash: the disk stays.
LEMMA CrashStep ==
    ASSUME FleetInv, NEW g \in Gateways, Crash(g)
    PROVE  FleetInv'
<1>1. /\ store[g] \in Stores /\ AgentOK(g, store[g], node[g], hup[g])
      /\ store' = [store EXCEPT ![g] = store[g]]
    BY AgentFacts DEF Crash
<1>2. /\ UNCHANGED centralVars /\ faults' \in 0..MaxFaults
      /\ node' = [node EXCEPT ![g] = Down] /\ hup' = [hup EXCEPT ![g] = NoHup]
    BY FaultBound DEF Crash
<1>3. Down \in Nodes /\ Down.pc = "down"
    BY DEF Down, Nodes, Pcs
<1>4. NoHup \in Hups /\ NoHup.pc = "none"
    BY DEF NoHup, Hups, HupPcs
<1>5. AgentOK(g, store[g], Down, NoHup)
    BY <1>1, <1>3, <1>4 DEF AgentOK, FetchEntitled, AppliedLoads, InHandCached
<1> QED
    BY <1>1, <1>2, <1>3, <1>4, <1>5, LocalStep

\* A step that only moves the poll loop on, to a place that asks nothing of the state.
LEMMA MoveStep ==
    ASSUME FleetInv, NEW g \in Gateways, UNCHANGED <<centralVars, store, hup>>, faults' \in 0..MaxFaults,
           NEW n \in Nodes, node' = [node EXCEPT ![g] = n],
           \/ n.pc \in {"idle", "report", "fetch"}
           \/ n.pc = "sent" /\ n.report \in Reports
           \/ /\ n.pc = node[g].pc /\ n.version = node[g].version /\ n.ok = node[g].ok
              /\ n.row = node[g].row /\ n.report = node[g].report
    PROVE  FleetInv'
<1>1. /\ store[g] \in Stores /\ AgentOK(g, store[g], node[g], hup[g]) /\ hup[g] \in Hups
      /\ store' = [store EXCEPT ![g] = store[g]] /\ hup' = [hup EXCEPT ![g] = hup[g]]
    BY AgentFacts
<1>2. AgentOK(g, store[g], n, hup[g])
    BY <1>1 DEF AgentOK, FetchEntitled, AppliedLoads, InHandCached
<1> QED
    BY <1>1, <1>2, LocalStep

\* FetchLost, ReportLost and BackoffOver.
LEMMA IdleSteps ==
    ASSUME FleetInv, NEW g \in Gateways, FetchLost(g) \/ ReportLost(g) \/ BackoffOver(g)
    PROVE  FleetInv'
<1>0. node[g] \in Nodes
    BY AgentFacts
<1>a. faults' \in 0..MaxFaults /\ UNCHANGED <<centralVars, store, hup>>
    BY FaultBound DEF FetchLost, ReportLost, BackoffOver
<1>1. CASE FetchLost(g)
    <2>1. PICK n : n = [node[g] EXCEPT !.pc = "report", !.row = None]
        OBVIOUS
    <2>2. n \in Nodes /\ n.pc = "report"
        BY <1>0, <2>1 DEF Nodes, Pcs
    <2>3. node' = [node EXCEPT ![g] = n]
        BY <1>1, <2>1 DEF FetchLost
    <2> QED
        BY <1>a, <2>2, <2>3, MoveStep
<1>2. CASE ReportLost(g)
    <2>1. PICK n : n = [node[g] EXCEPT !.pc = "idle", !.report = None]
        OBVIOUS
    <2>2. n \in Nodes /\ n.pc = "idle"
        BY <1>0, <2>1 DEF Nodes, Pcs
    <2>3. node' = [node EXCEPT ![g] = n]
        BY <1>2, <2>1 DEF ReportLost
    <2> QED
        BY <1>a, <2>2, <2>3, MoveStep
<1>3. CASE BackoffOver(g)
    <2>1. PICK n : n = [node[g] EXCEPT !.backoff = FALSE]
        OBVIOUS
    <2>2. /\ n \in Nodes /\ n.pc = node[g].pc /\ n.version = node[g].version /\ n.ok = node[g].ok
          /\ n.row = node[g].row /\ n.report = node[g].report
        BY <1>0, <2>1 DEF Nodes
    <2>3. node' = [node EXCEPT ![g] = n]
        BY <1>3, <2>1 DEF BackoffOver
    <2> QED
        BY <1>a, <2>2, <2>3, MoveStep
<1> QED
    BY <1>1, <1>2, <1>3

\* The row a signed request is authenticated with is the gateway's own.
LEMMA AuthFacts ==
    ASSUME FleetInv, NEW g \in Gateways, NEW uid
    PROVE  \/ authenticateGateway(g, uid) = None
           \/ /\ gw[g] # None /\ authenticateGateway(g, uid) = gw[g] /\ gw[g] \in Row
              /\ gw[g].desired \in VersionIds \cup {None}
BY RowFacts DEF authenticateGateway, FleetInv, Row

\* Poll: the intent is recorded, the cache stays.
LEMMA PollStep ==
    ASSUME FleetInv, NEW g \in Gateways, Poll(g)
    PROVE  FleetInv'
<1>0. /\ store[g] \in Stores /\ node[g] \in Nodes /\ hup[g] \in Hups /\ AgentOK(g, store[g], node[g], hup[g])
      /\ store = [store EXCEPT ![g] = store[g]] /\ node = [node EXCEPT ![g] = node[g]]
      /\ hup = [hup EXCEPT ![g] = hup[g]] /\ faults \in 0..MaxFaults
    BY AgentFacts, FaultBound
<1>1. UNCHANGED <<centralVars, hup, faults>>
    BY DEF Poll
<1>2. CASE UNCHANGED <<node, store>>
    BY <1>0, <1>1, <1>2, LocalStep
<1>3. CASE Goto(g, "report") /\ UNCHANGED store
    <2>1. PICK n : n = [node[g] EXCEPT !.pc = "report"]
        OBVIOUS
    <2>2. n \in Nodes /\ n.pc = "report"
        BY <1>0, <2>1 DEF Nodes, Pcs
    <2>3. node' = [node EXCEPT ![g] = n]
        BY <1>3, <2>1 DEF Goto
    <2> QED
        BY <1>0, <1>1, <1>3, <2>2, <2>3, MoveStep
<1>4. ASSUME NEW want \in VersionIds, NEW digest, NEW p, p = pull(node[g], store[g], want, digest),
             node' = [node EXCEPT ![g] = p.node], store' = [store EXCEPT ![g] = p.store]
      PROVE  FleetInv'
    <2>1. /\ p.node \in Nodes /\ p.store \in Stores
          /\ p.store.cache = store[g].cache /\ p.store.applied = store[g].applied
          /\ p.node.pc \in {"report", "fetch", "apply"}
          /\ p.node.pc = "apply" => p.node.version = want /\ store[g].cache[want] # None
        BY <1>0, <1>4, PullFacts
    <2>2. AgentOK(g, p.store, p.node, hup[g])
        <3>0. want # None
            BY Bounds
        <3> QED
            BY <1>0, <2>1, <3>0 DEF AgentOK, FetchEntitled, CacheFaithful, AppliedLoads, InHandCached, Loads
    <2> QED
        BY <1>0, <1>1, <1>4, <2>1, <2>2, LocalStep
<1>5. PICK row : row = authenticateGateway(g, store[g].uid)
    OBVIOUS
<1>6. row = None \/ row.desired \in VersionIds \cup {None}
    BY <1>5, AuthFacts
<1>7. PICK p, digest : p = pull(node[g], store[g], row.desired, digest) /\ digest = statusAnswer(row).digest
    OBVIOUS
<1>8. statusAnswer(row).desired = row.desired
    BY DEF statusAnswer
<1>9. \/ row = None /\ UNCHANGED <<node, store>>
      \/ Goto(g, "report") /\ UNCHANGED store
      \/ /\ row # None /\ row.desired # None
         /\ node' = [node EXCEPT ![g] = p.node] /\ store' = [store EXCEPT ![g] = p.store]
    BY <1>5, <1>7, <1>8 DEF Poll
<1> QED
    BY <1>2, <1>3, <1>4, <1>6, <1>7, <1>9

\* FetchAuth: the row pointed at a version that exists and was granted.
LEMMA FetchAuthStep ==
    ASSUME FleetInv, NEW g \in Gateways, FetchAuth(g)
    PROVE  FleetInv'
<1>0. /\ store[g] \in Stores /\ node[g] \in Nodes /\ hup[g] \in Hups /\ AgentOK(g, store[g], node[g], hup[g])
      /\ store = [store EXCEPT ![g] = store[g]]
      /\ hup = [hup EXCEPT ![g] = hup[g]] /\ faults \in 0..MaxFaults
    BY AgentFacts, FaultBound
<1>1. UNCHANGED <<centralVars, store, hup, faults>>
    BY DEF FetchAuth
<1>2. PICK row : row = authenticateGateway(g, store[g].uid)
    OBVIOUS
<1>3. row = None \/ (gw[g] # None /\ row = gw[g] /\ row \in Row)
    BY <1>2, AuthFacts
<1>4. PICK n : n = [node[g] EXCEPT !.pc = "serve", !.row = row]
    OBVIOUS
<1>5. node' = [node EXCEPT ![g] = n]
    BY <1>2, <1>4 DEF FetchAuth
<1>6. row \in Row \cup {None}
    BY <1>3
<1>7. n \in Nodes /\ n.pc = "serve" /\ n.row = row
    BY <1>0, <1>4, <1>6 DEF Nodes, Pcs
<1>8. FetchEntitled(g, n)
    <2> SUFFICES ASSUME row # None, row.status = "approved", row.desired # None
                 PROVE  /\ row.desired <= lastVersion
                        /\ \A v \in versions : v.id = row.desired => <<g, v.id, v.bundle>> \in granted
        BY <1>7 DEF FetchEntitled
    <2>1. gw[g] # None /\ row = gw[g]
        BY <1>3
    <2>2. PICK w \in versions : w.id = row.desired
        BY <2>1 DEF FleetInv, CentralInv, DesiredRecorded
    <2>3. w.id <= lastVersion
        BY DEF FleetInv, CentralInv, VersionsKnown
    <2>4. ASSUME NEW v \in versions, v.id = row.desired PROVE <<g, v.id, v.bundle>> \in granted
        BY <2>1, <2>4 DEF FleetInv, EntitledGranted, Entitled
    <2> QED
        BY <2>2, <2>3, <2>4
<1>9. AgentOK(g, store[g], n, hup[g])
    BY <1>0, <1>7, <1>8 DEF AgentOK, AppliedLoads, InHandCached
<1> QED
    BY <1>0, <1>1, <1>5, <1>7, <1>9, LocalStep

\* FetchServe: what is cached was granted, and a version fetched before is the same.
LEMMA FetchServeStep ==
    ASSUME FleetInv, NEW g \in Gateways, FetchServe(g)
    PROVE  FleetInv'
<1>0. /\ store[g] \in Stores /\ node[g] \in Nodes /\ hup[g] \in Hups /\ AgentOK(g, store[g], node[g], hup[g])
      /\ store = [store EXCEPT ![g] = store[g]]
      /\ hup = [hup EXCEPT ![g] = hup[g]] /\ faults \in 0..MaxFaults
    BY AgentFacts, FaultBound
<1>1. UNCHANGED <<centralVars, hup, faults>> /\ node[g].pc = "serve"
    BY DEF FetchServe
<1>2. PICK v : v = configAnswer(node[g].row)
    OBVIOUS
<1>3. CASE v = None
    <2>1. PICK n : n = [node[g] EXCEPT !.pc = "report", !.row = None]
        OBVIOUS
    <2>2. n \in Nodes /\ n.pc = "report"
        BY <1>0, <2>1 DEF Nodes, Pcs
    <2>3. node' = [node EXCEPT ![g] = n] /\ UNCHANGED store
        BY <1>2, <1>3, <2>1 DEF FetchServe
    <2> QED
        BY <1>0, <1>1, <2>2, <2>3, MoveStep
<1>4. CASE v # None
    <2>1. /\ node[g].row # None /\ node[g].row.status = "approved" /\ node[g].row.desired # None
          /\ v = VersionById(node[g].row.desired)
        BY <1>2, <1>4 DEF configAnswer
    <2>2. v \in versions /\ v.id = node[g].row.desired
        BY <1>4, <2>1 DEF VersionById
    <2>3. CentralInv
        BY DEF FleetInv
    <2>4. v.id \in VersionIds /\ v.bundle \in Bundles /\ v.id <= lastVersion
        BY <2>2, <2>3, VersionFacts DEF Version
    <2>5. <<g, v.id, v.bundle>> \in granted
        BY <1>0, <1>1, <2>1, <2>2 DEF AgentOK, FetchEntitled
    <2>6. \A w \in versions : w.id = v.id => w = v
        BY <2>2, <2>3 DEF CentralInv, VersionsKnown
    <2>7. PICK st : st = SaveConfig(store[g], v.id, v.bundle)
        OBVIOUS
    <2>8. /\ st \in Stores /\ st.applied = store[g].applied
          /\ st.cache = [store[g].cache EXCEPT ![v.id] = v.bundle]
        BY <1>0, <2>4, <2>7, StoreFacts
    <2>9. PICK n : n = [node[g] EXCEPT !.pc = "apply", !.row = None, !.version = v.id]
        OBVIOUS
    <2>10. n \in Nodes /\ n.pc = "apply" /\ n.version = v.id
        BY <1>0, <2>4, <2>9 DEF Nodes, Pcs
    <2>11. store' = [store EXCEPT ![g] = st] /\ node' = [node EXCEPT ![g] = n]
        BY <1>2, <1>4, <2>7, <2>9 DEF FetchServe
    <2>a. store[g].cache \in [VersionIds -> Bundles \cup {None}]
        BY <1>0 DEF Stores
    <2>12. /\ st.cache[v.id] = v.bundle /\ v.bundle # None
           /\ \A u \in VersionIds : u # v.id => st.cache[u] = store[g].cache[u]
           /\ \A u \in VersionIds : store[g].cache[u] # None => st.cache[u] = store[g].cache[u]
        <3>1. v.bundle # None
            BY <2>4, CentralAssumption
        <3>2. store[g].cache[v.id] # None => store[g].cache[v.id] = v.bundle
            BY <1>0, <2>2, <2>4 DEF AgentOK, CacheFaithful
        <3>3. st.cache[v.id] = v.bundle /\ \A u \in VersionIds : u # v.id => st.cache[u] = store[g].cache[u]
            BY <2>4, <2>8, <2>a
        <3> QED
            BY <3>1, <3>2, <3>3
    <2>13. CacheFaithful(g, st)
        BY <1>0, <2>4, <2>5, <2>6, <2>12 DEF AgentOK, CacheFaithful
    <2>14. /\ store[g].applied \in VersionIds \cup {None} /\ hup[g].version \in VersionIds \cup {None}
           /\ v.id # None
        BY <1>0, <2>4, Bounds DEF Stores, Hups
    <2>15. AppliedLoads(st, n, hup[g]) /\ InHandCached(st, n, hup[g])
        <3>1. AppliedLoads(store[g], node[g], hup[g]) /\ InHandCached(store[g], node[g], hup[g])
            BY <1>0 DEF AgentOK
        <3>2. hup[g].pc = "mark" => hup[g].version \in VersionIds
            BY <2>14, <3>1 DEF InHandCached
        <3>3. hup[g].pc # "none" => hup[g].version # None /\ st.cache[hup[g].version] # None
            BY <2>12, <2>14, <3>1 DEF InHandCached
        <3>4. st.applied # None => Loads(st, st.applied)
            BY <2>8, <2>12, <2>14, <3>1 DEF AppliedLoads, Loads
        <3>5. hup[g].pc = "mark" /\ hup[g].ok => Loads(st, hup[g].version)
            BY <2>12, <3>1, <3>2 DEF AppliedLoads, Loads
        <3> QED
            BY <2>10, <2>12, <2>14, <3>3, <3>4, <3>5 DEF AppliedLoads, InHandCached
    <2>16. AgentOK(g, st, n, hup[g])
        BY <2>10, <2>13, <2>15 DEF AgentOK, FetchEntitled
    <2> QED
        BY <1>0, <1>1, <2>8, <2>10, <2>11, <2>16, LocalStep
<1> QED
    BY <1>3, <1>4

\* An apply of a cached version, whoever makes it: what it reports as done loads.
LEMMA ApplyCachedFacts ==
    ASSUME NEW n \in Nodes, NEW st \in Stores, NEW v \in VersionIds \cup {None}, v # None, st.cache[v] # None,
           NEW f \in BringUps(n), NEW out, out = apply(n, v, st.cache[v], f)
    PROVE  out \in Outcomes /\ (out.ok => Loads(st, v))
<1>1. st.cache[v] \in Bundles /\ v \in VersionIds /\ f \in {"ok", "early", "bind"}
    BY DEF Stores, BringUps
<1>2. PICK b \in Bundles : b = st.cache[v]
    BY <1>1
<1> QED
    BY <1>1, <1>2, ApplyFacts DEF Loads

\* Apply.
LEMMA ApplyStep ==
    ASSUME FleetInv, NEW g \in Gateways, Apply(g)
    PROVE  FleetInv'
<1>0. /\ store[g] \in Stores /\ node[g] \in Nodes /\ hup[g] \in Hups /\ AgentOK(g, store[g], node[g], hup[g])
      /\ store = [store EXCEPT ![g] = store[g]] /\ node = [node EXCEPT ![g] = node[g]]
      /\ hup = [hup EXCEPT ![g] = hup[g]] /\ faults \in 0..MaxFaults
    BY AgentFacts, FaultBound
<1>1. UNCHANGED <<centralVars, store, hup>> /\ node[g].pc = "apply"
    BY DEF Apply
<1>2. PICK v : v = node[g].version
    OBVIOUS
<1>3. v \in VersionIds \cup {None} /\ v # None /\ store[g].cache[v] # None
    BY <1>0, <1>1, <1>2 DEF Nodes, AgentOK, InHandCached
<1>4. PICK f \in BringUps(node[g]) :
          /\ faults + Spent(f) <= MaxFaults /\ faults' = faults + Spent(f)
          /\ node' = [node EXCEPT ![g] =
                 [Cross(Install(@, apply(node[g], v, store[g].cache[v], f)),
                        apply(node[g], v, store[g].cache[v], f), hup[g].pc = "mark")
                    EXCEPT !.pc = "mark", !.ok = apply(node[g], v, store[g].cache[v], f).ok,
                           !.restarts = apply(node[g], v, store[g].cache[v], f).restarts]]
    BY <1>2 DEF Apply
<1>5. PICK out : out = apply(node[g], v, store[g].cache[v], f)
    OBVIOUS
<1>6. out \in Outcomes /\ (out.ok => Loads(store[g], v))
    BY <1>0, <1>3, <1>4, <1>5, ApplyCachedFacts
<1>7. faults' \in 0..MaxFaults
    <2>1. faults + Spent(f) \in 0..MaxFaults
        BY <1>4, FaultBound DEF BringUps
    <2> QED
        BY <1>4, <2>1
<1>a. PICK m0 : m0 = Install(node[g], out)
    OBVIOUS
<1>b. m0 \in Nodes /\ m0.version = v
    BY <1>0, <1>2, <1>6, <1>a, NodeFacts
<1>c. PICK c \in BOOLEAN : c = (hup[g].pc = "mark")
    OBVIOUS
<1>8. PICK m : m = Cross(m0, out, c)
    OBVIOUS
<1>9. m \in Nodes /\ m.version = v
    BY <1>b, <1>8, CrossFacts
<1>10. PICK n : n = [m EXCEPT !.pc = "mark", !.ok = out.ok, !.restarts = out.restarts]
    OBVIOUS
<1>11. out.ok \in BOOLEAN /\ out.restarts \in BOOLEAN
    BY <1>6 DEF Outcomes
<1>12. n \in Nodes /\ n.pc = "mark" /\ n.ok = out.ok /\ n.version = v
    BY <1>9, <1>10, <1>11 DEF Nodes, Pcs
<1>13. node' = [node EXCEPT ![g] = n]
    <2>1. node' = [node EXCEPT ![g] =
                 [Cross(Install(@, out), out, hup[g].pc = "mark")
                    EXCEPT !.pc = "mark", !.ok = out.ok, !.restarts = out.restarts]]
        BY <1>4, <1>5
    <2> QED
        BY <1>a, <1>c, <1>8, <1>10, <2>1
<1>14. AgentOK(g, store[g], n, hup[g])
    BY <1>0, <1>3, <1>6, <1>12 DEF AgentOK, FetchEntitled, AppliedLoads, InHandCached
<1> QED
    BY <1>0, <1>1, <1>7, <1>12, <1>13, <1>14, LocalStep

\* Marking a version as applied when its apply succeeded keeps AppliedLoads.
LEMMA MarkFacts ==
    ASSUME NEW g, NEW st \in Stores, NEW n, NEW h, AgentOK(g, st, n, h),
           NEW v \in VersionIds \cup {None}, v # None, NEW ok \in BOOLEAN, ok => Loads(st, v),
           NEW st1, st1 = MarkStore(st, v, ok)
    PROVE  st1 \in Stores /\ AgentOK(g, st1, n, h)
<1>1. v \in VersionIds
    OBVIOUS
<1>2. st1 \in Stores /\ st1.cache = st.cache /\ st1.applied = IF ok THEN v ELSE st.applied
    BY <1>1, StoreFacts
<1> QED
    BY <1>2 DEF AgentOK, CacheFaithful, AppliedLoads, InHandCached, Loads

\* Mark.
LEMMA MarkStep ==
    ASSUME FleetInv, NEW g \in Gateways, Mark(g)
    PROVE  FleetInv'
<1>0. /\ store[g] \in Stores /\ node[g] \in Nodes /\ hup[g] \in Hups /\ AgentOK(g, store[g], node[g], hup[g])
      /\ store = [store EXCEPT ![g] = store[g]] /\ node = [node EXCEPT ![g] = node[g]]
      /\ hup = [hup EXCEPT ![g] = hup[g]] /\ faults \in 0..MaxFaults
    BY AgentFacts, FaultBound
<1>1. UNCHANGED <<centralVars, hup, faults>> /\ node[g].pc = "mark"
    BY DEF Mark
<1>2. PICK n0 \in Nodes : n0 = node[g]
    BY <1>0
<1>3. PICK v \in VersionIds \cup {None}, ok \in BOOLEAN, rs \in BOOLEAN :
          v = n0.version /\ ok = n0.ok /\ rs = n0.restarts
    BY <1>2 DEF Nodes
<1>4. v # None /\ (ok => Loads(store[g], v))
    BY <1>0, <1>1, <1>2, <1>3 DEF AgentOK, InHandCached, AppliedLoads
<1>5. PICK st : st = MarkStore(store[g], v, ok)
    OBVIOUS
<1>6. st \in Stores /\ AgentOK(g, st, node[g], hup[g])
    BY <1>0, <1>4, <1>5, MarkFacts
<1>7. PICK m : m = MarkNode(n0, v, ok, rs)
    OBVIOUS
<1>8. m \in Nodes
    BY <1>3, <1>4, <1>7, NodeFacts
<1>9. PICK n : n = [m EXCEPT !.pc = "report", !.version = None, !.ok = FALSE, !.restarts = FALSE]
    OBVIOUS
<1>10. n \in Nodes /\ n.pc = "report"
    BY <1>8, <1>9 DEF Nodes, Pcs
<1>11. store' = [store EXCEPT ![g] = st] /\ node' = [node EXCEPT ![g] = n]
    <2>1. /\ store' = [store EXCEPT ![g] = MarkStore(store[g], node[g].version, node[g].ok)]
          /\ node' = [node EXCEPT ![g] = [MarkNode(node[g], node[g].version, node[g].ok, node[g].restarts)
                             EXCEPT !.pc = "report", !.version = None, !.ok = FALSE, !.restarts = FALSE]]
        BY DEF Mark
    <2> QED
        BY <1>2, <1>3, <1>5, <1>7, <1>9, <2>1
<1>12. AgentOK(g, st, n, hup[g])
    BY <1>6, <1>10 DEF AgentOK, FetchEntitled, AppliedLoads, InHandCached
<1> QED
    BY <1>0, <1>1, <1>6, <1>10, <1>11, <1>12, LocalStep

\* report.
LEMMA ReportStep ==
    ASSUME FleetInv, NEW g \in Gateways, report(g)
    PROVE  FleetInv'
<1>0. /\ store[g] \in Stores /\ node[g] \in Nodes /\ hup[g] \in Hups /\ AgentOK(g, store[g], node[g], hup[g])
      /\ store = [store EXCEPT ![g] = store[g]] /\ node = [node EXCEPT ![g] = node[g]]
      /\ hup = [hup EXCEPT ![g] = hup[g]] /\ faults \in 0..MaxFaults
    BY AgentFacts, FaultBound
<1>1. UNCHANGED <<centralVars, store, hup, faults>>
    BY DEF report
<1>2. PICK e \in BOOLEAN : e = (node[g].failed # None /\ node[g].failed \in store[g].failed)
    OBVIOUS
<1>3. PICK r : r = [applied |-> store[g].applied, error |-> e, restart |-> node[g].restart]
    OBVIOUS
<1>4. store[g].applied \in VersionIds \cup {None} /\ node[g].restart \in BOOLEAN
    BY <1>0 DEF Stores, Nodes
<1>5. r \in Reports
    BY <1>3, <1>4 DEF Reports
<1>6. PICK n : n = [node[g] EXCEPT !.pc = "sent", !.report = r]
    OBVIOUS
<1>7. n \in Nodes /\ n.pc = "sent" /\ n.report \in Reports
    BY <1>0, <1>5, <1>6 DEF Nodes, Pcs
<1>8. node' = [node EXCEPT ![g] = n]
    BY <1>2, <1>3, <1>6 DEF report
<1> QED
    BY <1>0, <1>1, <1>7, <1>8, MoveStep

\* ReportArrives: the console stores the snapshot and points nowhere else.
LEMMA ReportArrivesStep ==
    ASSUME FleetInv, NEW g \in Gateways, ReportArrives(g)
    PROVE  FleetInv'
<1>0. /\ store[g] \in Stores /\ node[g] \in Nodes /\ hup[g] \in Hups /\ AgentOK(g, store[g], node[g], hup[g])
      /\ store = [store EXCEPT ![g] = store[g]] /\ node = [node EXCEPT ![g] = node[g]]
      /\ hup = [hup EXCEPT ![g] = hup[g]] /\ faults \in 0..MaxFaults
    BY AgentFacts, FaultBound
<1>1. /\ UNCHANGED <<lastRow, profile, group, creds, assign, versions, lastVersion, audit, tx,
                     granted, store, hup, faults>>
      /\ node[g].pc = "sent"
    BY DEF ReportArrives, blocks
<1>2. PICK r \in Reports : r = node[g].report
    BY <1>0, <1>1 DEF AgentOK, InHandCached
<1>3. PICK n : n = [node[g] EXCEPT !.pc = "idle", !.report = None]
    OBVIOUS
<1>4. n \in Nodes /\ n.pc = "idle"
    BY <1>0, <1>3 DEF Nodes, Pcs
<1>5. node' = [node EXCEPT ![g] = n]
    BY <1>3 DEF ReportArrives
<1>6. gw' = [k \in Gateways |-> IF gw[k] # None /\ gw[k].id = store[g].uid
                                THEN StoreReport(gw[k], r) ELSE gw[k]]
    BY <1>2 DEF ReportArrives, reportHandler, Repoint
<1>7. r.applied \in VersionIds \cup {None} /\ r.error \in BOOLEAN /\ r.restart \in BOOLEAN
    BY DEF Reports
<1>8. ASSUME NEW w \in Row
      PROVE  /\ StoreReport(w, r) \in Row /\ StoreReport(w, r).id = w.id
             /\ StoreReport(w, r).status = w.status /\ StoreReport(w, r).desired = w.desired
    BY <1>7 DEF StoreReport, Row
<1>9. CentralInv /\ EntitledGranted /\ gw \in [Gateways -> Row \cup {None}]
      /\ tx \in [Slots -> [id : RowIds, bundle : Bundles, latest : Version \cup {None}] \cup {None}]
    BY DEF FleetInv, CentralInv, CentralTypeOK
<1>10. \A k \in Gateways :
          /\ gw'[k] \in Row \cup {None}
          /\ gw'[k] # None => /\ gw[k] # None /\ gw'[k].id = gw[k].id
                              /\ gw'[k].status = gw[k].status /\ gw'[k].desired = gw[k].desired
    <2> SUFFICES ASSUME NEW k \in Gateways
                 PROVE  /\ gw'[k] \in Row \cup {None}
                        /\ gw'[k] # None => /\ gw[k] # None /\ gw'[k].id = gw[k].id
                                            /\ gw'[k].status = gw[k].status /\ gw'[k].desired = gw[k].desired
        OBVIOUS
    <2>1. gw[k] \in Row \cup {None}
        BY <1>9
    <2>2. CASE gw[k] # None /\ gw[k].id = store[g].uid
        <3>1. PICK w \in Row : w = gw[k]
            BY <2>1, <2>2
        <3>2. gw'[k] = StoreReport(w, r)
            BY <1>6, <2>2, <3>1
        <3> QED
            BY <1>8, <2>2, <3>1, <3>2
    <2>3. CASE ~(gw[k] # None /\ gw[k].id = store[g].uid)
        <3>1. gw'[k] = gw[k]
            BY <1>6, <2>3
        <3> QED
            BY <2>1, <3>1
    <2> QED
        BY <2>2, <2>3
<1>11. gw' \in [Gateways -> Row \cup {None}]
    <2>1. gw' = [k \in Gateways |-> gw'[k]]
        BY <1>6
    <2> QED
        BY <1>10, <2>1
<1>12. CentralInv'
    BY <1>1, <1>9, <1>10, <1>11, PointStepInv
<1>13. EntitledGranted' /\ HistoryKept
    BY <1>1, <1>9, <1>10, RowsKept
<1>14. AgentOK(g, store[g], n, hup[g])
    BY <1>0, <1>4 DEF AgentOK, FetchEntitled, AppliedLoads, InHandCached
<1> QED
    BY <1>0, <1>1, <1>4, <1>5, <1>12, <1>13, <1>14, AgentStep

\* Register: a new row points at nothing.
LEMMA RegisterStep ==
    ASSUME FleetInv, NEW g \in Gateways, Register(g)
    PROVE  FleetInv'
<1>0. /\ store[g] \in Stores /\ node[g] \in Nodes /\ hup[g] \in Hups /\ AgentOK(g, store[g], node[g], hup[g])
      /\ store = [store EXCEPT ![g] = store[g]] /\ node = [node EXCEPT ![g] = node[g]]
      /\ hup = [hup EXCEPT ![g] = hup[g]] /\ faults \in 0..MaxFaults
    BY AgentFacts, FaultBound
<1>1. /\ UNCHANGED <<profile, group, creds, assign, versions, lastVersion, audit, tx, granted, node, hup>>
      /\ registerRow(g) /\ faults' \in 0..MaxFaults
    BY <1>0, FaultBound DEF Register, blocks
<1>2. CentralInv /\ EntitledGranted /\ gw \in [Gateways -> Row \cup {None}]
    BY DEF FleetInv, CentralInv, CentralTypeOK
<1>3. CentralInv'
    BY <1>1, <1>2, RegisterStepInv
<1>4. /\ gw'[g].id \in RowIds
      /\ \A k \in Gateways : gw'[k] # None /\ gw'[k].desired # None =>
            gw[k] # None /\ gw'[k].status = gw[k].status /\ gw'[k].desired = gw[k].desired
    <2>1. CASE gw[g] # None
        BY <1>1, <1>2, <2>1, RowFacts DEF registerRow
    <2>2. CASE gw[g] = None
        <3>1. gw' = [gw EXCEPT ![g] = NewRow(lastRow')]
            BY <1>1, <2>2 DEF registerRow
        <3>2. gw'[g] = NewRow(lastRow') /\ \A k \in Gateways \ {g} : gw'[k] = gw[k]
            BY <1>2, <3>1
        <3>3. gw'[g].desired = None
            BY <3>2 DEF NewRow
        <3>4. lastRow' \in RowIds
            BY <1>1, <1>2, <2>2, Bounds DEF registerRow, CentralInv, CentralTypeOK, RowIds
        <3>5. gw'[g].id = lastRow'
            BY <3>2 DEF NewRow
        <3> QED
            BY <3>2, <3>3, <3>4, <3>5
    <2> QED
        BY <2>1, <2>2
<1>5. EntitledGranted' /\ HistoryKept
    BY <1>1, <1>2, <1>4, RowsKept
<1>6. CASE UNCHANGED store
    BY <1>0, <1>1, <1>3, <1>5, <1>6, AgentStep
<1>7. CASE store' = [store EXCEPT ![g].uid = gw'[g].id]
    <2>1. PICK i : i = gw'[g].id
        OBVIOUS
    <2>3. i \in RowIds
        BY <1>4, <2>1
    <2>4. PICK st : st = [store[g] EXCEPT !.uid = i]
        OBVIOUS
    <2>5. st \in Stores /\ st.cache = store[g].cache /\ st.applied = store[g].applied
        BY <1>0, <2>3, <2>4 DEF Stores
    <2>6. store' = [store EXCEPT ![g] = st]
        BY <1>7, <2>1, <2>4
    <2>7. AgentOK(g, st, node[g], hup[g])
        BY <1>0, <2>5 DEF AgentOK, CacheFaithful, AppliedLoads, InHandCached, Loads
    <2> QED
        BY <1>0, <1>1, <1>3, <1>5, <2>5, <2>6, <2>7, AgentStep
<1> QED
    BY <1>6, <1>7 DEF Register

\* HupRead: the version the handler takes is in the cache.
LEMMA HupReadStep ==
    ASSUME FleetInv, NEW g \in Gateways, HupRead(g)
    PROVE  FleetInv'
<1>0. /\ store[g] \in Stores /\ node[g] \in Nodes /\ hup[g] \in Hups /\ AgentOK(g, store[g], node[g], hup[g])
      /\ store = [store EXCEPT ![g] = store[g]] /\ node = [node EXCEPT ![g] = node[g]]
      /\ hup = [hup EXCEPT ![g] = hup[g]] /\ faults \in 0..MaxFaults
    BY AgentFacts, FaultBound
<1>1. UNCHANGED <<centralVars, store, node>> /\ faults' \in 0..MaxFaults /\ bootConfig(store[g]) # None
    BY FaultBound DEF HupRead
<1>2. PICK v : v = bootConfig(store[g])
    OBVIOUS
<1>3. v \in VersionIds /\ v # None /\ store[g].cache[v] # None
    <2>1. store[g].desired \in VersionIds \cup {None} /\ store[g].applied \in VersionIds \cup {None}
        BY <1>0 DEF Stores
    <2>2. store[g].applied # None => store[g].cache[store[g].applied] # None
        BY <1>0 DEF AgentOK, AppliedLoads, Loads
    <2> QED
        BY <1>1, <1>2, <2>1, <2>2 DEF bootConfig
<1>4. PICK h : h = [hup[g] EXCEPT !.pc = "apply", !.version = v]
    OBVIOUS
<1>5. h \in Hups /\ h.pc = "apply" /\ h.version = v
    BY <1>0, <1>3, <1>4 DEF Hups, HupPcs
<1>6. hup' = [hup EXCEPT ![g] = h]
    BY <1>2, <1>4 DEF HupRead
<1>7. AgentOK(g, store[g], node[g], h)
    BY <1>0, <1>3, <1>5 DEF AgentOK, AppliedLoads, InHandCached
<1> QED
    BY <1>0, <1>1, <1>5, <1>6, <1>7, LocalStep

\* HupApply: the poll loop's own place and what it has in hand are left alone.
LEMMA HupApplyStep ==
    ASSUME FleetInv, NEW g \in Gateways, HupApply(g)
    PROVE  FleetInv'
<1>0. /\ store[g] \in Stores /\ node[g] \in Nodes /\ hup[g] \in Hups /\ AgentOK(g, store[g], node[g], hup[g])
      /\ store = [store EXCEPT ![g] = store[g]] /\ node = [node EXCEPT ![g] = node[g]]
      /\ hup = [hup EXCEPT ![g] = hup[g]] /\ faults \in 0..MaxFaults
    BY AgentFacts, FaultBound
<1>1. UNCHANGED <<centralVars, store>> /\ hup[g].pc = "apply"
    BY DEF HupApply
<1>2. PICK v : v = hup[g].version
    OBVIOUS
<1>3. v \in VersionIds \cup {None} /\ v # None /\ store[g].cache[v] # None
    BY <1>0, <1>1, <1>2 DEF Hups, AgentOK, InHandCached
<1>4. PICK f \in BringUps(node[g]) :
          /\ faults + Spent(f) <= MaxFaults /\ faults' = faults + Spent(f)
          /\ node' = [node EXCEPT ![g] = Cross(Install(@, apply(node[g], v, store[g].cache[v], f)),
                                               apply(node[g], v, store[g].cache[v], f), @.pc = "mark")]
          /\ hup' = [hup EXCEPT ![g].pc = "mark", ![g].ok = apply(node[g], v, store[g].cache[v], f).ok,
                                ![g].restarts = apply(node[g], v, store[g].cache[v], f).restarts]
    BY <1>2 DEF HupApply
<1>5. PICK out : out = apply(node[g], v, store[g].cache[v], f)
    OBVIOUS
<1>6. out \in Outcomes /\ (out.ok => Loads(store[g], v))
    BY <1>0, <1>3, <1>4, <1>5, ApplyCachedFacts
<1>7. faults' \in 0..MaxFaults
    <2>1. faults + Spent(f) \in 0..MaxFaults
        BY <1>4, FaultBound DEF BringUps
    <2> QED
        BY <1>4, <2>1
<1>a. PICK m : m = Install(node[g], out)
    OBVIOUS
<1>b. m \in Nodes /\ m.pc = node[g].pc /\ m.version = node[g].version /\ m.ok = node[g].ok /\ m.row = node[g].row
    BY <1>0, <1>6, <1>a, NodeFacts
<1>c. m.report = node[g].report
    BY <1>0, <1>a DEF Install, Nodes
<1>d. PICK b \in BOOLEAN : b = (node[g].pc = "mark")
    OBVIOUS
<1>8. PICK n : n = Cross(m, out, b)
    OBVIOUS
<1>9. /\ n \in Nodes /\ n.pc = node[g].pc /\ n.version = node[g].version /\ n.ok = node[g].ok
      /\ n.row = node[g].row /\ n.report = node[g].report
    BY <1>b, <1>c, <1>8, CrossFacts
<1>10. out.ok \in BOOLEAN /\ out.restarts \in BOOLEAN
    BY <1>6 DEF Outcomes
<1>11. PICK h : h = [hup[g] EXCEPT !.pc = "mark", !.ok = out.ok, !.restarts = out.restarts]
    OBVIOUS
<1>12. h \in Hups /\ h.pc = "mark" /\ h.ok = out.ok /\ h.version = v
    BY <1>0, <1>2, <1>10, <1>11 DEF Hups, HupPcs
<1>13. node' = [node EXCEPT ![g] = n]
    BY <1>4, <1>5, <1>8, <1>a, <1>d
<1>14. hup' = [hup EXCEPT ![g] = h]
    <2>1. hup' = [hup EXCEPT ![g].pc = "mark", ![g].ok = out.ok, ![g].restarts = out.restarts]
        BY <1>4, <1>5
    <2> QED
        BY <1>11, <2>1
<1>15. AgentOK(g, store[g], n, h)
    BY <1>0, <1>3, <1>6, <1>9, <1>12 DEF AgentOK, FetchEntitled, AppliedLoads, InHandCached
<1> QED
    BY <1>0, <1>1, <1>7, <1>9, <1>12, <1>13, <1>14, <1>15, LocalStep

\* HupMark, also between the poll loop's own apply and its mark.
LEMMA HupMarkStep ==
    ASSUME FleetInv, NEW g \in Gateways, HupMark(g)
    PROVE  FleetInv'
<1>0. /\ store[g] \in Stores /\ node[g] \in Nodes /\ hup[g] \in Hups /\ AgentOK(g, store[g], node[g], hup[g])
      /\ store = [store EXCEPT ![g] = store[g]] /\ node = [node EXCEPT ![g] = node[g]]
      /\ hup = [hup EXCEPT ![g] = hup[g]] /\ faults \in 0..MaxFaults
    BY AgentFacts, FaultBound
<1>1. UNCHANGED <<centralVars, faults>> /\ hup[g].pc = "mark" /\ hup' = [hup EXCEPT ![g] = NoHup]
    BY DEF HupMark
<1>2. PICK v \in VersionIds \cup {None}, ok \in BOOLEAN, rs \in BOOLEAN :
          v = hup[g].version /\ ok = hup[g].ok /\ rs = hup[g].restarts
    BY <1>0 DEF Hups
<1>3. v # None /\ (ok => Loads(store[g], v))
    BY <1>0, <1>1, <1>2 DEF AgentOK, InHandCached, AppliedLoads
<1>4. PICK st : st = MarkStore(store[g], v, ok)
    OBVIOUS
<1>5. st \in Stores /\ AgentOK(g, st, node[g], hup[g])
    BY <1>0, <1>3, <1>4, MarkFacts
<1>6. PICK n : n = MarkNode(node[g], v, ok, rs)
    OBVIOUS
<1>7. n \in Nodes /\ n.pc = node[g].pc /\ n.version = node[g].version /\ n.ok = node[g].ok /\ n.row = node[g].row
    BY <1>0, <1>3, <1>6, NodeFacts
<1>8. n.report = node[g].report
    <2>1. CASE ok = TRUE
        BY <1>0, <1>6, <2>1 DEF MarkNode, Nodes
    <2>2. CASE ok = FALSE
        BY <1>0, <1>6, <2>2 DEF MarkNode, Nodes
    <2> QED
        BY <2>1, <2>2
<1>9. store' = [store EXCEPT ![g] = st] /\ node' = [node EXCEPT ![g] = n]
    <2>1. /\ store' = [store EXCEPT ![g] = MarkStore(store[g], hup[g].version, hup[g].ok)]
          /\ node' = [node EXCEPT ![g] = MarkNode(node[g], hup[g].version, hup[g].ok, hup[g].restarts)]
        BY DEF HupMark
    <2> QED
        BY <1>2, <1>4, <1>6, <2>1
<1>10. NoHup \in Hups /\ NoHup.pc = "none"
    BY DEF NoHup, Hups, HupPcs
<1>11. AgentOK(g, st, n, NoHup)
    BY <1>5, <1>7, <1>8, <1>10 DEF AgentOK, FetchEntitled, AppliedLoads, InHandCached
<1> QED
    BY <1>0, <1>1, <1>5, <1>7, <1>9, <1>10, <1>11, LocalStep

\* An operator's request: no agent moves.
LEMMA OperatorStep ==
    ASSUME FleetInv, CentralNext, UNCHANGED agentVars
    PROVE  FleetInv'
<1>1. CentralInv' /\ EntitledGranted' /\ HistoryKept
    BY RequestKept DEF FleetInv
<1>2. UNCHANGED <<store, node, hup, faults>>
    BY DEF agentVars
<1>3. TypeOK'
    BY <1>1, <1>2 DEF FleetInv, TypeOK, CentralInv
<1>4. ASSUME NEW k \in Gateways PROVE AgentOK(k, store[k], node[k], hup[k])'
    <2>1. PICK s1 \in Stores, n1 \in Nodes, h1 \in Hups :
              s1 = store[k] /\ n1 = node[k] /\ h1 = hup[k] /\ AgentOK(k, s1, n1, h1)
        BY AgentFacts
    <2>2. AgentOK(k, s1, n1, h1)'
        BY <1>1, <2>1, AgentKept
    <2> QED
        BY <1>2, <2>1, <2>2 DEF AgentOK, FetchEntitled, CacheFaithful, AppliedLoads, InHandCached, Loads,
            loadBundle, GroupsNamed
<1> QED
    BY <1>1, <1>3, <1>4 DEF FleetInv

\* A step that changes nothing.
LEMMA FleetStutter ==
    ASSUME FleetInv, UNCHANGED vars
    PROVE  FleetInv'
<1>1. /\ CentralInv /\ EntitledGranted /\ CentralTypeOK /\ BlocksTyped
      /\ UNCHANGED <<gw, lastRow, versions, lastVersion, audit, tx, profile, group, creds, assign, granted>>
      /\ UNCHANGED <<store, node, hup, faults>>
    BY DEF FleetInv, vars, agentVars, centralVars, blocks, CentralInv
<1>2. CentralInv'
    BY <1>1, BlockStepInv DEF BlocksTyped, CentralTypeOK
<1>3. EntitledGranted' /\ HistoryKept
    BY <1>1, RowsKept
<1>4. TypeOK'
    BY <1>1, <1>2 DEF FleetInv, TypeOK, CentralInv
<1>5. ASSUME NEW k \in Gateways PROVE AgentOK(k, store[k], node[k], hup[k])'
    BY <1>1 DEF FleetInv, AgentOK, FetchEntitled, CacheFaithful, AppliedLoads, InHandCached, Loads,
        loadBundle, GroupsNamed
<1> QED
    BY <1>2, <1>3, <1>4, <1>5 DEF FleetInv

\* Every step of the fleet.
LEMMA FleetStep == FleetInv /\ [FleetNext]_vars => FleetInv'
<1> SUFFICES ASSUME FleetInv, [FleetNext]_vars PROVE FleetInv'
    OBVIOUS
<1>1. CASE CentralNext /\ UNCHANGED agentVars
    BY <1>1, OperatorStep
<1>2. CASE UNCHANGED vars
    BY <1>2, FleetStutter
<1>3. ASSUME NEW g \in Gateways,
             \/ PollLoop(g) \/ HupHandler(g) \/ HupRead(g) \/ BackoffOver(g)
             \/ Register(g) \/ Crash(g) \/ FetchLost(g) \/ ReportLost(g)
      PROVE  FleetInv'
    BY <1>3, BootStep, PollStep, FetchAuthStep, FetchServeStep, ApplyStep, MarkStep, ReportStep,
        ReportArrivesStep, HupApplyStep, HupMarkStep, HupReadStep, IdleSteps, RegisterStep, CrashStep
        DEF PollLoop, HupHandler
<1> QED
    BY <1>1, <1>2, <1>3 DEF FleetNext

-----------------------------------------------------------------------------
(* The theorems.                                                           *)

\* The inductive invariant: the console's tables, the caches, the versions in hand and
\* the record of grants agree.
THEOREM FleetInvariant == FleetSpec => []FleetInv
<1> QED
    BY FleetInitInv, FleetStep, PTL DEF FleetSpec

\* No version id outside the ones the console issued reaches a store, a report or
\* failedVersion.
THEOREM FleetTypes == FleetSpec => []TypeOK
<1>1. FleetInv => TypeOK
    BY DEF FleetInv
<1> QED
    BY <1>1, FleetInvariant, PTL

\* A gateway only ever caches bytes that the console pointed this very gateway at while
\* it was approved, however approvals, revocations, deploys, rollbacks and deletions
\* fall between the poll, the authentication of the fetch and its answer.
THEOREM CacheIsGranted == FleetSpec => []CachedWasGranted
<1>1. FleetInv => CachedWasGranted
    BY DEF FleetInv, AgentOK, CacheFaithful, CachedWasGranted
<1> QED
    BY <1>1, FleetInvariant, PTL

\* Only Boot brings a process up, and without a fault it comes up as bootFromCache says.
LEMMA BootOnly ==
    ASSUME FleetInv, FleetNext, NEW g \in Gateways, node[g].pc = "down", node'[g].pc # "down", faults' = faults
    PROVE  /\ LET st == store[g] IN
              /\ st.applied # None /\ Section(st.cache[st.applied]) = "ok"
              /\ Loads(st, bootConfig(st)) => Section(st.cache[bootConfig(st)]) # "bind"
              => node'[g].listening
           /\ LET st == store[g] IN
              /\ st.desired # None /\ Loads(st, st.desired) /\ Section(st.cache[st.desired]) = "ok"
              => node'[g].running = st.desired
<1>0. node \in [Gateways -> Nodes] /\ node[g] \in Nodes
    BY DEF FleetInv, TypeOK
<1>1. Boot(g)
    <2>1. ~(CentralNext /\ UNCHANGED agentVars)
        BY DEF agentVars
    <2>2. PICK k \in Gateways :
              \/ PollLoop(k) \/ HupHandler(k) \/ HupRead(k) \/ BackoffOver(k)
              \/ Register(k) \/ Crash(k) \/ FetchLost(k) \/ ReportLost(k)
        BY <2>1 DEF FleetNext
    <2>3. k = g
        <3> SUFFICES ASSUME k # g PROVE node'[g] = node[g]
            OBVIOUS
        <3> QED
            BY <1>0, <2>2 DEF PollLoop, HupHandler, Boot, Poll, Goto, FetchAuth, FetchServe, Apply, Mark, report,
                ReportArrives, HupApply, HupMark, HupRead, BackoffOver, Register, Crash, FetchLost, ReportLost
    <2>4. ~(Poll(g) \/ FetchAuth(g) \/ FetchServe(g) \/ Apply(g) \/ Mark(g) \/ report(g) \/ ReportArrives(g))
        BY DEF Poll, FetchAuth, FetchServe, Apply, Mark, report, ReportArrives
    <2>5. ~(HupRead(g) \/ Register(g) \/ Crash(g) \/ FetchLost(g) \/ ReportLost(g))
        BY DEF HupRead, Register, Crash, FetchLost, ReportLost
    <2>6. ~BackoffOver(g)
        <3>1. BackoffOver(g) => node'[g] = [node[g] EXCEPT !.backoff = FALSE]
            BY <1>0 DEF BackoffOver
        <3>2. [node[g] EXCEPT !.backoff = FALSE].pc = node[g].pc
            BY <1>0 DEF Nodes
        <3> QED
            BY <3>1, <3>2
    <2>7. ~HupApply(g)
        <3>1. HupApply(g) => \E out, b : node'[g] = Cross(Install(node[g], out), out, b)
            BY <1>0 DEF HupApply
        <3>2. ASSUME NEW out, NEW b PROVE Cross(Install(node[g], out), out, b).pc = node[g].pc
            BY <1>0 DEF Cross, Install, Nodes
        <3> QED
            BY <3>1, <3>2
    <2>8. ~HupMark(g)
        <3>1. HupMark(g) => node'[g] = MarkNode(node[g], hup[g].version, hup[g].ok, hup[g].restarts)
            BY <1>0 DEF HupMark
        <3>2. PICK v, ok, rs : v = hup[g].version /\ ok = hup[g].ok /\ rs = hup[g].restarts
            OBVIOUS
        <3>3. CASE ok
            BY <1>0, <3>1, <3>2, <3>3 DEF MarkNode, Nodes
        <3>4. CASE ~ok
            BY <1>0, <3>1, <3>2, <3>4 DEF MarkNode, Nodes
        <3> QED
            BY <3>3, <3>4
    <2> QED
        BY <2>2, <2>3, <2>4, <2>5, <2>6, <2>7, <2>8 DEF PollLoop, HupHandler
<1>2. PICK st \in Stores : st = store[g]
    BY AgentFacts
<1>3. PICK f1 \in {"ok", "early", "bind"}, f2 \in {"ok", "early", "bind"} :
          /\ faults' = faults + Spent(f1) + Spent(f2)
          /\ node' = [node EXCEPT ![g] = bootFromCache(st, f1, f2).node]
    BY <1>1, <1>2 DEF Boot
<1>4. f1 = "ok" /\ f2 = "ok"
    BY <1>3, FleetAssumption DEF FleetInv, TypeOK, Spent
<1>5. PICK p : p = bootFromCache(st, f1, f2)
    OBVIOUS
<1>6. node'[g] = p.node
    BY <1>0, <1>3, <1>5
<1>7. st.applied # None => st.cache[st.applied] # None /\ loadBundle(st.cache[st.applied])
    BY <1>2, AgentFacts DEF AgentOK, AppliedLoads, Loads
<1>8. /\ /\ st.applied # None /\ Section(st.cache[st.applied]) = "ok"
         /\ Loads(st, bootConfig(st)) => Section(st.cache[bootConfig(st)]) # "bind"
         => p.node.listening
      /\ /\ st.desired # None /\ Loads(st, st.desired) /\ Section(st.cache[st.desired]) = "ok"
         => p.node.running = st.desired
    BY <1>4, <1>5, <1>7, BootFacts
<1> QED
    BY <1>2, <1>6, <1>8

\* The configuration that last applied survives a deploy that does not load or fails
\* before its listeners: if its own server section is usable, the gateway comes back
\* listening after a restart that meets no fault from outside, unless the version asked
\* for since opens listeners it cannot bind.
THEOREM LastGoodIsServed == FleetSpec => LastGoodServes
<1> DEFINE Up == \A g \in Gateways :
                   LET st == store[g]
                       wanted == bootConfig(st)
                   IN  /\ Restarts(g) /\ Section(st.cache[st.applied]) = "ok"
                       /\ Loads(st, wanted) => Section(st.cache[wanted]) # "bind"
                       => node'[g].listening
<1>1. FleetInv /\ [FleetNext]_vars => [Up]_vars
    BY BootOnly DEF Restarts
<1> QED
    BY <1>1, FleetInvariant, PTL DEF FleetSpec, LastGoodServes

\* A restart runs what the console last asked for, a rollback included, when those
\* bytes are in the cache, load and have a usable server section.
THEOREM WantedIsBooted == FleetSpec => BootsWanted
<1> DEFINE Right == \A g \in Gateways :
                      LET st == store[g] IN
                      /\ node[g].pc = "down" /\ node'[g].pc # "down" /\ faults' = faults
                      /\ st.desired # None
                      /\ Loads(st, st.desired) /\ Section(st.cache[st.desired]) = "ok"
                      => node'[g].running = st.desired
<1>1. FleetInv /\ [FleetNext]_vars => [Right]_vars
    BY BootOnly
<1> QED
    BY <1>1, FleetInvariant, PTL DEF FleetSpec, BootsWanted
=============================================================================
