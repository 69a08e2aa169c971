----------------------------- MODULE MCCiSuite ------------------------------
(* CiSuite on two ports, one of them possibly listed twice.                *)
EXTENDS CiSuite

MCPortLists == {<<1>>, <<1, 2>>, <<1, 1>>}

Switches(on, percent) ==
    [stall |-> on, disconnect |-> on, no_return |-> on, max_fail |-> percent,
     floor |-> on, ceiling |-> on]

\* The defaults, every rule, and none but those that cannot be switched off.
MCDetects == {[Switches(TRUE, 10) EXCEPT !.floor = FALSE, !.ceiling = FALSE],
              Switches(TRUE, 0), Switches(FALSE, 50)}
=============================================================================
