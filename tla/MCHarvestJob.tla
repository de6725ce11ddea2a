---------------------------- MODULE MCHarvestJob ----------------------------
(* JobProgress for TLC: Boom is a text of an exception that is not empty.  *)
EXTENDS JobProgress
CONSTANTS Boom
=============================================================================
