SPECIFICATION FleetSpec
CONSTANTS
    r1 = r1
    sp1 = sp1
    Gateways = {g1}
    Enrolled = {g1}
    Rulesets = {r1}
    ServerProfiles = {}
    ServerBodies = {"ok"}
    Groups = {"x"}
    RelayBodies = {1}
    CredentialSets = {}
    Usernames = {}
    Forms <- MCForms
    MaxOpen = 1
    MaxOps = 2
    MaxRows = 2
    MaxVersions = 3
    MaxFaults = 1
    None = None
PROPERTY ReportsWhatRuns
