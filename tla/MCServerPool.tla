---------------------------- MODULE MCServerPool ----------------------------
(* ServerPool on small instances: the DashMap's iteration orders.          *)
EXTENDS ServerPool

Bijections == {f \in [Servers -> 1..Cardinality(Servers)] :
                 \A s, t \in Servers : f[s] = f[t] => s = t}

\* Servers are alike in every action, so one order stands for all of them
\* wherever no property names a particular server.
OneOrder == {CHOOSE f \in Bijections : TRUE}
=============================================================================
