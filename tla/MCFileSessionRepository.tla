------------------------ MODULE MCFileSessionRepository ------------------------
(***************************************************************************)
(* Instances of FileSessionRepository for TLC.                             *)
(***************************************************************************)
EXTENDS FileSessionRepository, TLC

(* Safety runs only: sessions and records are interchangeable. *)
Interchangeable == Permutations(Ids) \cup Permutations(Values)

=============================================================================
