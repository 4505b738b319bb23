--------------------------- MODULE MCOssTransfer ---------------------------
(***************************************************************************)
(* OssTransfer on small files. With a part size of 2 the limit on waiting  *)
(* bytes is 4.                                                             *)
(***************************************************************************)
EXTENDS OssTransfer, TLC

C(a, b) == [start |-> a, end |-> b]

\* A file of seven bytes: the second and third chunk together pass the limit.
SevenBytes == {C(0, 2), C(2, 5), C(5, 7)}
AllFaults == FaultKinds

Symmetry == Permutations(Workers)

=============================================================================
