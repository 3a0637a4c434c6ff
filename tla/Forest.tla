------------------------------- MODULE Forest -------------------------------
(***************************************************************************)
(* The links the configurations of a network allow, as the edges E of an   *)
(* undirected graph on the servers V, in which there is only one way from  *)
(* a server to another.                                                    *)
(***************************************************************************)
EXTENDS FiniteSets

\* No edge of E leaves S.
Closed(S, E) == \A e \in E : e \subseteq S \/ e \cap S = {}

\* What y has behind its link to x: the servers x reaches without that link.
Behind(V, E, x, y) ==
    {s \in V : \A S \in SUBSET V : x \in S /\ Closed(S, E \ {{x, y}}) => s \in S}

\* Without a link, its two ends cannot reach each other.
IsForest(V, E) ==
    /\ \A e \in E : e \subseteq V /\ Cardinality(e) = 2
    /\ \A e \in E : \A x, y \in e : x # y => y \notin Behind(V, E, x, y)
=============================================================================
