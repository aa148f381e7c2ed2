--------------------------- MODULE MCPortalAccess ----------------------------
(***************************************************************************)
(* Small instances of PortalAccess: two invited partners and a stranger.   *)
(* Sessions live one hour, so that a privilege can be seen to end.        *)
(***************************************************************************)
EXTENDS PortalAccess, TLC

MCGroups == {"qualified_counsel"}
MCProjects == {"aurora"}
MCTenants  == {"tessera"}
MCHome     == "tessera"
MCInvited  == {"ryan", "derrick"} \cap Users
MCForeign  == {"stranger"} \cap Users
MCCreators == {"structure_manager", "ryan"}
ContextsOf(users) ==
  [tenant : MCTenants, user : users, projects : {MCProjects},
   groups : {{"tessera_user"} \cup g : g \in SUBSET MCGroups}]
OnePartner  == ContextsOf({"ryan", "stranger"})
TwoPartners == ContextsOf({"ryan", "derrick"})

\* States of flows, ids and threads carry no meaning of their own.
Symmetric == Permutations(FlowIds) \cup Permutations(ItemIds)
               \cup Permutations(Callers)
=============================================================================
