--------------------------- MODULE MCHighLevelQueue ---------------------------
(* Instances of HighLevelQueue for TLC.                                      *)
EXTENDS HighLevelQueue

CONSTANTS
  \* requests of distinct ids; one more with the id of r1; one to an unknown
  \* account; one that lacks a required field
  r1, r2, r3, again, stray, bad,
  id1, id2, id3, id4, id5

MCRequestId ==
  [r \in {r1, r2, r3, again, stray, bad} |->
     CASE r \in {r1, again} -> id1
       [] r = r2 -> id2
       [] r = r3 -> id3
       [] r = stray -> id4
       [] r = bad -> id5]

\* Arrays that share ids and that do not, with an unknown account first or
\* last, an invalid request, and no request at all
MCArrays == {<<r1, r2>>, <<again, r3>>, <<r3>>, <<stray, r2>>, <<r1, stray>>, <<>>, <<bad>>}

Symmetry == Permutations(Callers)
=============================================================================
