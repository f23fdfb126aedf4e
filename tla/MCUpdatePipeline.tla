-------------------------- MODULE MCUpdatePipeline --------------------------
(* One auth file, one configured key and one relay session; a reload of    *)
(* start and one of the configuration, which can overlap.                  *)
EXTENDS UpdatePipeline
MCVersions == {1}
=============================================================================
