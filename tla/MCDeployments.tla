--------------------------- MODULE MCDeployments ---------------------------
(* TLC instance of Deployments: a request of every kind, one compose spec  *)
(* with a machine that floats between two that are pinned, one request by  *)
(* an administrator, and three where host records do not name their pool.  *)
EXTENDS Deployments

CONSTANT a1

Vm(pinned, mode, start, big) ==
  [pinned |-> pinned, mode |-> mode, start |-> start, big |-> big]

Ask(kind, plans, project, approval) ==
  [kind |-> kind, plans |-> plans, project |-> project, approval |-> approval,
   admin |-> FALSE, named |-> TRUE]

ByAdmin(q) == [q EXCEPT !.admin = TRUE]
Unnamed(q) == [q EXCEPT !.named = FALSE]

MCRequest ==
  {Ask("compose", <<Vm(TRUE, "template", FALSE, FALSE),
                    Vm(TRUE, "operating-system", FALSE, TRUE)>>, TRUE, a1),
   Ask("compose", <<Vm(TRUE, "template", FALSE, TRUE),
                    Vm(FALSE, "template", TRUE, FALSE),
                    Vm(TRUE, "template", FALSE, TRUE)>>, TRUE, a1),
   Ask("catalog", <<Vm(FALSE, "operating-system", FALSE, FALSE)>>, FALSE, None),
   Ask("template", <<Vm(TRUE, "template", TRUE, FALSE)>>, FALSE, None),
   ByAdmin(Ask("create", <<Vm(FALSE, "template", TRUE, TRUE)>>, TRUE, None)),
   Unnamed(Ask("compose", <<Vm(TRUE, "template", FALSE, FALSE),
                            Vm(TRUE, "template", FALSE, FALSE)>>, FALSE, None)),
   Unnamed(Ask("catalog", <<Vm(FALSE, "template", FALSE, FALSE),
                            Vm(TRUE, "template", FALSE, FALSE)>>, FALSE, None)),
   Unnamed(Ask("template", <<Vm(TRUE, "template", TRUE, FALSE)>>, FALSE, None))}

MCLimit == [s \in Scope |-> IF s = "pool" THEN 2 ELSE 3]
=============================================================================
