------------------------- MODULE MCSessionTargets -------------------------
(* TLC instance of SessionTargets: the targets an operator connects to,    *)
(* the servers, the references and the requests are interchangeable.       *)
EXTENDS SessionTargets, TLC

Symmetry == Permutations(Target) \union Permutations(Server)
            \union Permutations(Ref) \union Permutations(Client)

(* Three logins alone, one with an elevation, and two elevations.          *)
MCExtent == {<<3, 0>>, <<1, 1>>, <<0, 2>>}
=============================================================================
