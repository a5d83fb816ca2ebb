------------------------------ MODULE MCMirror -------------------------------
(* Instances of Mirror and XattrUtil for TLC. *)
EXTENDS XattrUtil, TLC

CONSTANTS f1, f2, p1, d1, s1
MCKind == f1 :> "file" @@ f2 :> "file" @@ p1 :> "fifo" @@ d1 :> "dir" @@ s1 :> "symlink"

\* Files, handles, names and hidden names are alike.
Symmetry == Permutations({f1, f2}) \cup Permutations(Handles) \cup Permutations(Hidden)
            \cup Permutations(Names)
=============================================================================
