------------------------- MODULE MCCatalogRequests -------------------------
(* TLC instances of CatalogRequests.                                       *)
EXTENDS CatalogRequests, TLC

(* The ids of requests, subscribers and administrators are interchangeable;*)
(* used by the run without liveness properties only.                       *)
Symmetry == Permutations(Request) \union Permutations(User) \union Permutations(Admin)

(* All but the histories and patterns, which neither a step nor the life   *)
(* cycle looks at.                                                         *)
Remembered == <<mode, published, tested, torn, next,
                [r \in Request |-> [row[r] EXCEPT !.pattern = None]],
                hook, batch, at, work, vm, settler, restarts>>
=============================================================================
