----------------------------- MODULE MCCutover -------------------------------
(* Small instances of Cutover for TLC. *)
EXTENDS Cutover

CONSTANT w1

\* The second commit brings a migration.
OneEach == [c \in Commits |-> c]

=============================================================================
