------------------------- MODULE MCHostOperations -------------------------
(* TLC instance of HostOperations: two requests of any kind at once.       *)
EXTENDS HostOperations

CONSTANTS p1, p2

On == [kind |-> "multipath", path |-> p1, on |-> TRUE, evacuate |-> FALSE]

MCAsked ==
  {On, [On EXCEPT !.on = FALSE],
   [On EXCEPT !.kind = "repair", !.on = FALSE],
   [On EXCEPT !.kind = "exit", !.on = FALSE],
   [On EXCEPT !.kind = "enter", !.on = FALSE],
   [On EXCEPT !.kind = "enter", !.on = FALSE, !.evacuate = TRUE]}
=============================================================================
