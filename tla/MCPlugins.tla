----------------------------- MODULE MCPlugins -----------------------------
(* Instances of PsidPlugins for TLC. *)
EXTENDS PsidPlugins

\* Every plugin may require any of the others, in one order.
AllGraphs ==
  LET Sets == [Plugin -> SUBSET Plugin]
  IN  {[p \in Plugin |-> SetToSortSeq(f[p], <)] :
         f \in {f \in Sets : \A p \in Plugin : p \notin f[p]}}

\* Plugins in a loop require nothing but each other and initialize.
TidyLoops ==
  {g \in AllGraphs :
     \A p \in Plugin : Needs(g, p, p) =>
       p \notin Faulty /\ \A q \in ToSet(g[p]) : Needs(g, q, p)}
=============================================================================
