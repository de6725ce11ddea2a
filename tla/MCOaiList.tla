----------------------------- MODULE MCOaiList -----------------------------
(* OaiVerbs for TLC: requests name an instant of 1969 and two of the clock, *)
(* all other instants of the probes lie between.                           *)
EXTENDS OaiVerbs
MCEpoch == -8
MCInstants == {-10, 0, 2}
MCIdentifier ==
  <<"ivo://ivoa.net/rofr", "ivo://ivoa.net/std/a", "ivo://ivoa.net/std/b",
    "ivo://ivoa.net/std/c">>
=============================================================================
