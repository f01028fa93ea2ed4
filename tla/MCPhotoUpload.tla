---------------------------- MODULE MCPhotoUpload ----------------------------
(* Small instances of PhotoUpload for TLC. *)
EXTENDS PhotoUpload, TLC

CONSTANTS p1, p2, p3, i1, i2

Interchangeable == Permutations({p1, p2, p3}) \cup Permutations({i1, i2})
=============================================================================
