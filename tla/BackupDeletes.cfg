\* An admin and a command, two backups of an empty database, the newest
\* automatic one kept.
SPECIFICATION FairSpec
CONSTANTS
    n1 = n1  tag1 = tag1  nodetag1 = nodetag1  note1 = note1  log1 = log1
    k1 = k1  k2 = k2
    admin1 = admin1  admin2 = admin2  command1 = command1
    Archives = {k1, k2}
    Parents = {}
    Late = {}
    Kids = {}
    ParentsOf <- NoRows
    Tables = {"nodes"}
    Before <- OneTable
    TableOf <- NoRows
    Embedded = {}
    Skipping = {}
    Processes = {admin1, command1}
    Commands = {command1}
    Keep = 1
    Refusable = {k1, k2}
    None = None
INVARIANTS ListAgreesWithStorage PruneSparesNewest
PROPERTIES DeletedArchivesGo
