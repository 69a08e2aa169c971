----------------------------- MODULE RoundRobin -----------------------------
(***************************************************************************)
(* ServerPool with a history of what round robin handed out: for every     *)
(* ticket of round_robin_index, in order, the server picked and the list   *)
(* it was picked from.                                                     *)
(***************************************************************************)
EXTENDS ServerPool, Sequences

VARIABLE picks

Picked(u) == pc[u] = "pick" /\ pc'[u] # "pick"

HInit == Init /\ picks = <<>>

HNext ==
    /\ Next
    /\ picks' = IF \E u \in Users : Picked(u)
                THEN LET u == CHOOSE v \in Users : Picked(v)
                     IN  Append(picks, [server |-> target'[u],
                                        from |-> healthy_servers[u]])
                ELSE picks

HSpec == HInit /\ [][HNext]_<<vars, picks>>

\* However the users' tickets interleave with one another and with changes of
\* health, any run of picks made from one and the same list of n servers hands
\* out n different servers before it repeats one.
FairRotation ==
    \A i, j \in 1..Len(picks) :
        (/\ i < j
         /\ j - i < Cardinality(picks[i].from)
         /\ \A k \in i..j : picks[k].from = picks[i].from)
            => picks[i].server # picks[j].server
=============================================================================
