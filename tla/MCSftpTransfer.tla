--------------------------- MODULE MCSftpTransfer ---------------------------
(* SftpTransfer on files of a few bytes. *)
EXTENDS SftpTransfer, TLC

C(a, b) == [start |-> a, end |-> b]

\* Two files, in two chunks that arrive in any order and in one. The chunks of the first
\* are sent three times: after a copy is committed, two more can be under way at a time.
TwoFiles == "big" :> {C(0, 1), C(1, 2)} @@ "small" :> {C(0, 1)}
TwoSizes == "big" :> 2 @@ "small" :> 1
OwnPaths == "big" :> "a" @@ "small" :> "b"
Thrice == "big" :> 3 @@ "small" :> 1

\* Two versions of one file: the second, shorter, has a transfer id of its own.
TwoVersions == "long" :> {C(0, 1), C(1, 2)} @@ "short" :> {C(0, 1)}
VersionSizes == "long" :> 2 @@ "short" :> 1
OnePath == "long" :> "a" @@ "short" :> "a"
Once == "long" :> 1 @@ "short" :> 1

AllButAnswer == FaultKinds \ {"answer"}

NoFaults == {}

Symmetry == Permutations(Workers)

=============================================================================
