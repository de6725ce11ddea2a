-------------------------- MODULE MCPublisherFile --------------------------
(* PublisherFile for TLC: two endpoints, one of them with a spelling that  *)
(* ends in a slash, which is dropped when the row is stored.               *)
EXTENDS PublisherFile, TLC
CONSTANTS u1, u1slash, u2
MCNorm == [u \in Urls |-> IF u = u1slash THEN u1 ELSE u]
\* No definition tells one identifier or one file from another.
Interchangeable == Permutations(Ids) \cup Permutations(Inodes)
=============================================================================
