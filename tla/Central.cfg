SPECIFICATION CentralSpec
CONSTANTS
    r1 = r1
    sp1 = sp1
    s1 = s1
    Gateways = {g1, g2}
    Enrolled = {g1}
    Rulesets = {r1}
    ServerProfiles = {sp1}
    ServerBodies = {"ok", "bind"}
    Groups = {"x"}
    RelayBodies = {1, 2}
    CredentialSets = {s1}
    Usernames = {u1}
    Forms <- MCForms
    MaxOpen = 2
    MaxOps = 5
    MaxRows = 3
    MaxVersions = 3
    None = None
INVARIANTS CentralTypeOK NumberingConsecutive DesiredRecorded CentralInv
PROPERTIES VersionsImmutable
CHECK_DEADLOCK FALSE
