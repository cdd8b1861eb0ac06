------------------------------ MODULE MCScripts ------------------------------
(* Every copy of a script with URL u has the URL oldUrl.  One pattern      *)
(* matches the scripts and one the copies.                                 *)
EXTENDS Scripts, TLC

CONSTANTS i1, i2, t1, t2, bad, u, oldUrl, p, q

MCOldUrl   == [url \in AnyUrl |-> oldUrl]
MCMatches  == {<<p, u>>, <<q, oldUrl>>}
Symmetry   == Permutations(ScriptIds) \cup Permutations({t1, t2})
=============================================================================
