-------------------------- MODULE MCArtifactReview ---------------------------
(***************************************************************************)
(* Small instances of ArtifactReview: one project, two reviewers who are   *)
(* both qualified counsel and may both ask for drafts.                     *)
(***************************************************************************)
EXTENDS ArtifactReview, TLC

Person(user, projects, groups) ==
  [tenant |-> "synthetic", user |-> user, projects |-> projects,
   groups |-> groups]

Ann == Person("ann", {"aurora"}, {"qualified_counsel"})
Bob == Person("bob", {"aurora"}, {"qualified_counsel"})

Counsel    == {Ann, Bob}
OneCounsel == {Ann}

MCProjects == {"aurora"}
MCGroups   == {"qualified_counsel"}
MCAgents   == {"legal_agent"}
MCTenants  == {"synthetic"}
MCSynthetic == "synthetic"

\* Ids and threads carry no meaning of their own.
Symmetric == Permutations(ArtifactIds) \cup Permutations(ItemIds)
               \cup Permutations(Callers)
=============================================================================
