---------------------------- MODULE MCFileUpload ----------------------------
(* Instances of FileUpload for TLC. *)
EXTENDS FileUpload, TLC

CONSTANTS s1, m1, m2, p1, p2, f1, f2, i1, i2

Symmetry == Permutations(Singles) \cup Permutations(Clients) \cup Permutations(Files)
              \cup Permutations(UploadIds) \cup Permutations(Parts)
=============================================================================
