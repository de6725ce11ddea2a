---------------------------- MODULE MCValidation ----------------------------
(* Validation for TLC: with the default settings for registration.        *)
EXTENDS Validation
CONSTANTS id
MCShows == {{"fail", "warn", "rec", "pass"}, {"warn"}}
=============================================================================
