-------------------------- MODULE MCServerStartup --------------------------
(* The seed of seed.go: four accounts in sixteen rows. *)
EXTENDS ServerStartup
============================================================================
