\* Two admins, two backups, a node, a tag, and the tag on the node; what S3
\* refuses is the matter of BackupDeletes.
SPECIFICATION Spec
CONSTANTS
    n1 = n1  tag1 = tag1  nodetag1 = nodetag1  note1 = note1  log1 = log1
    k1 = k1  k2 = k2
    admin1 = admin1  admin2 = admin2  command1 = command1
    Archives = {k1, k2}
    Parents = {n1, tag1}
    Late = {tag1}
    Kids = {nodetag1}
    ParentsOf <- ParentsOfNodeTag
    Tables = {"nodes", "node_tags", "tags"}
    Before <- TagsLast
    TableOf <- TableOfTagged
    Embedded = {"node_tags"}
    Skipping = {}
    Processes = {admin1, admin2}
    Commands = {}
    Keep = 1
    Refusable = {}
    None = None
SYMMETRY SymmetryOfAdmins
INVARIANTS Inv SnapshotKeepsReplaced QuietBackupsRestore
