------------------------- MODULE MCRuntimeControls ---------------------------
(***************************************************************************)
(* A small instance of RuntimeControls.  A behaviour mixes requests with   *)
(* resets, budgets with resets, or puts, holds, purges and backups: tables *)
(* that no method reads together need not grow together.                   *)
(***************************************************************************)
EXTENDS RuntimeControls, TLC

Context(tenant, groups) ==
  [tenant |-> tenant, user |-> "ryan", projects |-> {"aurora"}, groups |-> groups]
MCContexts == {Context("tessera", {"records_admin"}), Context("synthetic", {})}
MCProjects == {"aurora", "borealis"}
MCSlots == {[tenant |-> t, workflow |-> "route", day |-> "today"] : t \in {"tessera", "synthetic"}}
Use(tokens, cost) == [r \in Resources |-> IF r = "tokens" THEN tokens ELSE cost]
MCAmounts == {Use(1, 0), Use(1, 1)}
MCLimits  == {Use(1, 2), Use(2, 1)}
MCWorkloads == {{"route", "reset"}, {"budget", "reset"}, {"retain"}}
MCRetentions == {1, 2}

\* Threads and ids carry no meaning of their own.
Symmetric == Permutations(Callers) \cup Permutations(ArtifactIds)
=============================================================================
