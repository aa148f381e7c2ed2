------------------------- MODULE MCStructureHandoff --------------------------
(***************************************************************************)
(* Small instances of StructureHandoff.                                    *)
(*                                                                         *)
(* Contested: two ventures of one project share its confirmations and      *)
(* selections while people still decide.  What the waterfall menu calls    *)
(* its third option depends on the venture, so an option selected for one  *)
(* is unknown to the other.                                                *)
(*                                                                         *)
(* Settled: everything was decided beforehand, for ventures of every       *)
(* sector, with and without a licence, alone or with equal, unequal and    *)
(* passive owners.                                                         *)
(***************************************************************************)
EXTENDS StructureHandoff, TLC

Bob == [tenant |-> "synthetic", user |-> "bob", projects |-> {"aurora"},
        groups |-> {"qualified_counsel"}]

OnlyBob     == {Bob}
MCProjects  == {"aurora"}
MCGroups    == {"qualified_counsel"}
MCAgents    == {"structure_manager", "contract_manager"}
MCTenants   == {"synthetic"}
MCSynthetic == "synthetic"

\* Two equal operators of one line of business, with their own money.
Partners ==
  [home_state |-> "Oklahoma", active_principals |-> 2, passive_investors |-> 0,
   equal_ownership |-> TRUE, key_person_dependency |-> FALSE,
   estate_planning_relevant |-> FALSE, activity |-> "operating",
   regulated_regime |-> None, business_lines |-> 1, states_of_operation |-> {},
   real_property |-> FALSE, material_ip |-> FALSE, operating_liability |-> TRUE,
   capital_source |-> "founders_only", initial_capital |-> 600000,
   operators_take_compensation |-> FALSE, tiered_economics |-> FALSE,
   exit_intent |-> "hold_indefinitely", expected_hold_years |-> 5,
   role |-> "advisor"]

Request(p, freshness) ==
  [project |-> "aurora", profile |-> p, answers |-> OpenQuestions(p),
   retrieved |-> 0, freshness |-> freshness]

\* A figure of its own for every label, none of them what the engine proposes.
Confirmations(approval) ==
  [label \in Labels |->
     CASE label = Approval -> approval
       [] label = Threshold -> 30000
       [] label = "cash_percent" -> 40
       [] label = "promote" -> 25
       [] OTHER -> 11]

Selections(waterfall) ==
  [area \in MenuAreas |->
     CASE area = "valuation" -> "appraisal"
       [] area = "payment" -> "note"
       [] area = "capital call" -> "member_loan"
       [] area = "tax" -> "advance"
       [] area = "waterfall" -> waterfall]

-----------------------------------------------------------------------------
Tiered == [Partners EXCEPT !.tiered_economics = TRUE]
Fund   == [Tiered EXCEPT !.activity = "fund"]

Contested ==
  [requests  |-> {Request(Tiered, 0), Request(Fund, 1)},
   confirmed |-> [Confirmations(100) EXCEPT !["promote"] = None],
   selected  |-> Selections(None),
   figures   |-> {<<"promote", 25>>},
   choices   |-> {<<"waterfall", HurdleOption(Tiered)>>,
                  <<"waterfall", HurdleOption(Fund)>>},
   days      |-> 1]

Settled(p, approval) ==
  [requests  |-> {Request(p, 0)}, confirmed |-> Confirmations(approval),
   selected  |-> Selections("preferred return with catch-up"),
   figures   |-> {}, choices |-> {}, days |-> 0]

\* Operators, passive investors, and whether the owners are equal.
Ownerships == {<<1, 0, TRUE>>, <<2, 0, TRUE>>, <<3, 0, TRUE>>, <<4, 0, TRUE>>,
               <<2, 0, FALSE>>, <<2, 1, TRUE>>}

Ventures ==
  {[Partners EXCEPT !.activity = activity, !.regulated_regime = licence,
                    !.active_principals = owners[1], !.passive_investors = owners[2],
                    !.equal_ownership = owners[3], !.material_ip = assets,
                    !.real_property = assets, !.estate_planning_relevant = assets] :
     activity \in DOMAIN SECTOR_PATTERNS, licence \in {None, "liquor", "contractor_licensing", "other"},
     owners \in Ownerships, assets \in BOOLEAN}

\* Every way to value and to pay for an interest.
Priced ==
  {[Settled(Partners, 100) EXCEPT !.selected =
      [@ EXCEPT !["valuation"] = valuation, !["payment"] = payment]] :
     valuation \in DOMAIN ValuationMenu(Partners), payment \in DOMAIN PaymentMenu}

Survey ==
  {Contested} \cup Priced \cup {Settled(Partners, 50)}
    \cup {Settled(p, approval) : p \in Ventures, approval \in {60, 75}}

-----------------------------------------------------------------------------
\* Options are selected again after counsel has accepted.
Reselected ==
  {[Settled(Partners, 100) EXCEPT !.choices = {<<"payment", "cash">>}]}

\* Equal owners who mean to sell.
Selling == {Settled([Partners EXCEPT !.exit_intent = "sale"], 100)}

\* Ids carry no meaning of their own.
Symmetric == Permutations(ArtifactIds) \cup Permutations(ItemIds)
=============================================================================
