----------------------------- MODULE MCFirehose ------------------------------
(* A sink that publishes one job at a time, and one that may publish more. *)
EXTENDS Firehose

MCSinks == <<"tap", "jet">>
MCJets == {"jet"}
=============================================================================
