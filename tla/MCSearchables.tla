---------------------------- MODULE MCSearchables ----------------------------
(* Searchables for TLC: two home pages and one run of the command, which    *)
(* come back for as long as they like; the home pages are alike.            *)
EXTENDS Searchables, TLC
CONSTANTS h1, h2, s1
Alike == Permutations({h1, h2})
=============================================================================
