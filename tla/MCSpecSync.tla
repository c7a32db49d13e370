----------------------------- MODULE MCSpecSync ------------------------------
(* Three keys: one that the environment overrides, one that sync never sets. *)
EXTENDS SpecSync

CONSTANTS v1, v2

MCEmbedded == [k \in Keys |-> v1]
MCEnv == [k \in EnvKeys |-> v2]
=============================================================================
