------------------------------ MODULE MCH2Pool ------------------------------
(***************************************************************************)
(* Two requests, one of which cannot send its body twice and one of which  *)
(* may ask for a connection of its own, over two dials.                    *)
(***************************************************************************)
EXTENDS H2Pool, TLC

MCLayout == <<"grease", "supported_groups", "alpn", "key_share", "alps">>
MCBody == [r \in Requests |-> IF r = "a" THEN "once" ELSE "again"]
=============================================================================
