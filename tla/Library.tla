------------------------------ MODULE Library ------------------------------
(***************************************************************************)
(* What several components speak of: the scenes of the Stash library that  *)
(* the sidecar mirrors (source_scene, src/core/migrations/0001_initial.sql)*)
(***************************************************************************)
CONSTANT Scene   \* scenes of the library
=============================================================================
