---------------------------- MODULE MCBackupJobs ----------------------------
(* Instances of BackupJobs for TLC.                                        *)
EXTENDS BackupJobs, TLC

CONSTANTS n1, tag1, nodetag1, note1, log1, k1, k2, admin1, admin2, command1

(* One node, a note on it and an entry of its log.                         *)
ParentsOfKid == [r \in {note1, log1} |-> {n1}]
TableOfRow == (n1 :> "nodes") @@ (note1 :> "notes") @@ (log1 :> "activity")
NodesFirst == [t \in Tables |-> {"nodes"} \ {t}]

(* One node, one tag, and the tag on the node.                             *)
ParentsOfNodeTag == [r \in {nodetag1} |-> {n1, tag1}]
TableOfTagged == (n1 :> "nodes") @@ (nodetag1 :> "node_tags") @@ (tag1 :> "tags")
TagsLast == ("nodes" :> {}) @@ ("node_tags" :> {"nodes"})
                @@ ("tags" :> {"nodes", "node_tags"})

(* A database without rows.                                                *)
NoRows == <<>>
OneTable == [t \in Tables |-> {}]

(* Archives are told apart only by when they were made.                    *)
Symmetry == Permutations(Archives)
SymmetryOfAdmins == Symmetry \cup Permutations(Processes)
==============================================================================
