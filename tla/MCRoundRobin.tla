---------------------------- MODULE MCRoundRobin ----------------------------
(* RoundRobin on small instances.  Servers are alike in every action, so one *)
(* iteration order of the DashMap stands for all of them.                    *)
EXTENDS RoundRobin

OneOrder == {CHOOSE f \in [Servers -> 1..Cardinality(Servers)] :
               \A s, t \in Servers : f[s] = f[t] => s = t}
=============================================================================
