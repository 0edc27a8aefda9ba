---------------------------- MODULE MCEventStore ----------------------------
(***************************************************************************)
(* Two replicas; a stream whose entries may be copies of one another, and  *)
(* a second stream.                                                        *)
(***************************************************************************)
EXTENDS EventStore

MCEntry == {<<"listing", 1>>, <<"listing", 2>>, <<"listing", 3>>, <<"scored", 1>>}
============================================================================
