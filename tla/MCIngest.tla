------------------------------- MODULE MCIngest -------------------------------
(* Ingest, for TLC. *)
EXTENDS IngestProperties
=============================================================================
