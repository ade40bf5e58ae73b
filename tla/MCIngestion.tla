---------------------------- MODULE MCIngestion -----------------------------
(***************************************************************************)
(* Small instances of the ingestion pipeline for TLC.                      *)
(***************************************************************************)
EXTENDS Ingestion

CONSTANT g1

GameKinds == Stored \ {"InsufficientBalance"}
Traffic == GameKinds \cup {"unstorable", "malformed"}
=============================================================================
