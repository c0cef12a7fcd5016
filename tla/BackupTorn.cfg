\* Two admins, two backups, a node, a note on it and an entry of its log.
SPECIFICATION Spec
CONSTANTS
    n1 = n1  tag1 = tag1  nodetag1 = nodetag1  note1 = note1  log1 = log1
    k1 = k1  k2 = k2
    admin1 = admin1  admin2 = admin2  command1 = command1
    Archives = {k1, k2}
    Parents = {n1}
    Late = {}
    Kids = {note1, log1}
    ParentsOf <- ParentsOfKid
    Tables = {"nodes", "notes", "activity"}
    Before <- NodesFirst
    TableOf <- TableOfRow
    Embedded = {}
    Skipping = {"activity"}
    Processes = {admin1, admin2}
    Commands = {}
    Keep = 1
    Refusable = {k1, k2}
    None = None
INVARIANTS BackupsRestore
