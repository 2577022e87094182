------------------------ MODULE MCScenarioValidation ------------------------
(* Small instances of ScenarioValidation for TLC. *)
EXTENDS ScenarioValidation

\* A probe of the actions alone, which carries along the statuses of the other
\* checks, and a collection with every check: the scopes share one kind of
\* check.  Neither is about a single edge: a run released in place of another
\* takes a third scope.
MCScopes ==
  {[kinds |-> {"actions"}, phase |-> "probe", edge |-> "all"],
   [kinds |-> {"actions", "node", "graph"}, phase |-> "collect", edge |-> "all"]}
=============================================================================
