SPECIFICATION FairSpec
CONSTANTS
    Roles = {"junior", "senior", "lead", "visitor", "guest"}
    Users <- RolesTogether
    RoleHierarchy <- Hierarchy
    RolePolicyIds <- PolicyIdsOfRoles
    Ids = {"base", "guard", "gone", "made"}
    Generated = {"made"}
    Absent = Absent
    Seeded <- AtStart
    Writes <- AdministratorWrites
    Targets <- TwoTargets
    Protocols = {"ssh", "rdp"}
    Calls = {c1, c2}
    CacheDuration = 2
    FillTime = 1
    MaxVersions = 2
INVARIANTS TypeOK DenyOverrides
PROPERTIES DecisionsAreRecent PoliciesTakeEffect
