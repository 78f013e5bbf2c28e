------------------------------ MODULE MCOpenCall ------------------------------
(* Instances of OpenCall for TLC.                                           *)
EXTENDS OpenCall, TLC

\* The contributors with a memory agent are interchangeable, and so are those
\* without one.
Symmetry == Permutations(Agents) \cup Permutations(Users \ Agents)
===============================================================================
