--------------------------- MODULE VentureStructure ---------------------------
(***************************************************************************)
(* The structure a venture is advised to have: tessera_os/governance.py,   *)
(* from the venture profile to the entities, the control and exit          *)
(* architecture, the conflicts and the questions it leaves open.           *)
(*                                                                         *)
(* A venture profile p is a record with the fields of VentureProfile that  *)
(* decide something.  Everything here is a function of the profile and of  *)
(* the approval threshold people have confirmed.                           *)
(***************************************************************************)
EXTENDS SectorPatterns, Integers, FiniteSets

When(condition, set) == IF condition THEN set ELSE {}

-----------------------------------------------------------------------------
(* What a profile says of itself.                                          *)
sector(p)        == pattern_for(p.activity)
regime(p)        == regime_for(p.regulated_regime)
total_members(p) == p.active_principals + p.passive_investors
is_regulated(p)  == p.regulated_regime # None

OutsideSources == {"private_placement", "institutional"}

has_passive_capital(p) ==
  p.passive_investors > 0 \/ p.capital_source \in OutsideSources

TesseraOwns(p) == p.role \in {"principal", "both"}

-----------------------------------------------------------------------------
(* Control.                                                                *)

\* A fiftieth of an amount in whole thousands, halves to the even thousand.
FiftiethInThousands(dollars) ==
  LET q == dollars \div 50000
      r == dollars % 50000
  IN  IF r > 25000 \/ (r = 25000 /\ q % 2 = 1) THEN (q + 1) * 1000 ELSE q * 1000

(* Two per cent of the stated capital, between a floor and a cap; no       *)
(* figure for a venture that states none.                                  *)
OrdinaryCourseThreshold(p) ==
  LET scaled == FiftiethInThousands(p.initial_capital)
  IN  IF p.initial_capital <= 0 THEN None
      ELSE IF scaled < 10000 THEN 10000
      ELSE IF scaled > 250000 THEN 250000
      ELSE scaled

BaseReserved == {"debt", "new interests", "material asset", "merger",
  "amendment", "distributions and calls", "other business", "executives",
  "litigation", "accountants"}

ReservedMatters(p) ==
  BaseReserved
  \cup When(is_regulated(p),
         {"licence application", "change of control", "triggering owner"})
  \cup When(p.real_property, {"real property", "mortgage", "long lease"})
  \cup When(has_passive_capital(p),
         {"related party", "manager change", "capital event"})
  \cup (IF sector(p) = None THEN {} ELSE sector(p).reserved)
  \cup (IF regime(p) = None THEN {} ELSE regime(p).reserved)

ManagementModel(p) ==
  IF has_passive_capital(p) \/ total_members(p) > 3
    THEN "manager_managed" ELSE "member_managed"

ApprovalRule(p) ==
  IF p.equal_ownership /\ total_members(p) = 2 THEN "unanimous"
  ELSE IF p.equal_ownership /\ total_members(p) > 2 THEN "supermajority"
  ELSE "majority_with_minority_veto"

ProposedApproval ==
  [unanimous |-> 100, supermajority |-> 75, majority_with_minority_veto |-> 51]

\* How many of n equal members make up a threshold, in whole members.
MembersRequired(n, threshold) == (n * threshold + 99) \div 100

\* Mutant of DeadlockNeeded: a threshold just met by all but one is a ladder.
DeadlockIfAlmostAll(p, threshold) ==
  /\ ApprovalRule(p) # "majority_with_minority_veto"
  /\ \/ ApprovalRule(p) = "unanimous"
     \/ MembersRequired(total_members(p), threshold) + 1 >= total_members(p)

(* A ladder belongs only where no coalition without a dissenter can carry. *)
DeadlockNeeded(p, threshold) ==
  /\ ApprovalRule(p) # "majority_with_minority_veto"
  /\ \/ ApprovalRule(p) = "unanimous"
     \/ MembersRequired(total_members(p), threshold) >= total_members(p)

BuySell(p) ==
  IF total_members(p) <= 1 THEN "none"
  ELSE IF has_passive_capital(p) \/ ~p.equal_ownership THEN "appraisal"
  ELSE "shotgun"

Control(p, threshold) ==
  [management_model |-> ManagementModel(p),
   approval_rule    |-> ApprovalRule(p),
   reserved_matters |-> ReservedMatters(p),
   deadlock_ladder  |-> DeadlockNeeded(p, threshold),
   buy_sell         |-> BuySell(p)]

-----------------------------------------------------------------------------
(* Exit, tax and capital.                                                  *)
Exit(p) ==
  [permitted_estate_transfer |-> p.estate_planning_relevant,
   tag_along         |-> ~p.equal_ownership \/ has_passive_capital(p),
   drag_along        |-> p.exit_intent = "sale",
   insurance_funded  |-> p.key_person_dependency]

TaxTreatment(p) ==
  IF total_members(p) = 1 THEN "disregarded" ELSE "partnership"

(* Without tiers or outside capital the economics are straight pro rata    *)
(* and there is no waterfall.                                              *)
WaterfallApplies(p) == p.tiered_economics \/ has_passive_capital(p)

-----------------------------------------------------------------------------
(* The structure chart.                                                    *)
Entity(stem, index, role, state, owner) ==
  [name |-> <<stem, index>>, role |-> role, state |-> state, owned_by |-> owner]

Numbered(count) == IF count > 1 THEN 1..count ELSE {0}
Units(p)        == IF p.business_lines > 1 THEN p.business_lines ELSE 1

SectorSpecs(p) == IF sector(p) = None THEN {} ELSE sector(p).layers
Superseded(p)  == {spec.supersedes : spec \in SectorSpecs(p)}

HoldCo == <<"Holdings", 0>>

HoldCoNeeded(p) ==
  \/ p.business_lines > 1
  \/ has_passive_capital(p)
  \/ p.real_property /\ p.operating_liability
  \/ is_regulated(p)
  \/ p.material_ip
  \/ SectorSpecs(p) # {}

HoldCoState(p) == IF has_passive_capital(p) THEN "Delaware" ELSE p.home_state

SoleEntity(p) == Entity("", 0, "Sole entity", p.home_state, None)

SectorLayers(p) ==
  UNION {{Entity(spec.stem, i, spec.role, p.home_state, HoldCo) :
            i \in Numbered(IF spec.perUnit THEN Units(p) ELSE 1)} :
         spec \in SectorSpecs(p)}

PropertyLayers(p) ==
  LET count == IF p.activity \in {"real_estate_hold", "development"}
                 THEN Units(p) ELSE 1
  IN  {Entity("PropCo", i, "Property-owning entity", p.home_state, HoldCo) :
         i \in Numbered(count)}

\* Mutant of EntityLayers: what the sector supersedes is not asked.
AllEntityLayers(p) ==
  IF ~HoldCoNeeded(p) THEN {SoleEntity(p)}
  ELSE {Entity("Holdings", 0, "HoldCo", HoldCoState(p), None)}
       \cup When(p.material_ip,
              {Entity("IP", 0, "IP holding entity", HoldCoState(p), HoldCo)})
       \cup When(p.real_property, PropertyLayers(p))
       \cup When(is_regulated(p),
              {Entity("Licensing", 0, "Licence holder", p.home_state, HoldCo)})
       \cup SectorLayers(p)

EntityLayers(p) ==
  IF ~HoldCoNeeded(p) THEN {SoleEntity(p)}
  ELSE {Entity("Holdings", 0, "HoldCo", HoldCoState(p), None)}
       \cup When(p.material_ip /\ "ip" \notin Superseded(p),
              {Entity("IP", 0, "IP holding entity", HoldCoState(p), HoldCo)})
       \cup When(p.real_property, PropertyLayers(p))
       \cup When(/\ p.activity # "real_estate_hold" \/ p.operating_liability
                 /\ \A spec \in SectorSpecs(p) : ~spec.perUnit,
              {Entity("Operations", 0, "OpCo", p.home_state, HoldCo)})
       \cup When(is_regulated(p) /\ "licence" \notin Superseded(p),
              {Entity("Licensing", 0, "Licence holder", p.home_state, HoldCo)})
       \cup SectorLayers(p)

(* The agreement is governed by Delaware as soon as one entity is formed   *)
(* there.                                                                  *)
FormationState(p) ==
  IF \E e \in EntityLayers(p) : e.state = "Delaware" THEN "Delaware" ELSE p.home_state

-----------------------------------------------------------------------------
(* The positions of the memo, by area.                                     *)
PositionAreas(p) ==
  {"Entity form", "Tax treatment", "Management", "Titles",
   "Ordinary-course authority", "Reserved matters", "Deadlock",
   "Transfer restrictions", "Triggering events", "Work product",
   "Restrictive covenants", "Dispute resolution"}
  \cup When(BuySell(p) # "none", {"Buy-sell"})
  \cup When(Exit(p).insurance_funded, {"Key-person funding"})
  \cup When(Exit(p).tag_along \/ Exit(p).drag_along,
         {"Tag-along and drag-along"})
  \cup When(is_regulated(p), {"Regulatory overlay"})
  \cup (IF sector(p) = None THEN {} ELSE sector(p).positions)
  \cup (IF regime(p) = None THEN {} ELSE regime(p).positions)
  \cup When(p.role = "both", {"Dual-role disclosure"})

-----------------------------------------------------------------------------
(* Two choices that cannot both stand.                                     *)
Conflicts(p, threshold) ==
  LET control == Control(p, threshold)
  IN  When(p.tiered_economics /\ TaxTreatment(p) = "s_corp",
           {"S-corporation election and tiered economics"})
      \cup When(/\ control.deadlock_ladder
                /\ control.approval_rule = "majority_with_minority_veto",
             {"Deadlock ladder and majority control"})
      \cup When(control.buy_sell = "shotgun" /\ has_passive_capital(p),
             {"Shotgun buy-sell and passive investors"})
      \cup When(/\ control.management_model = "manager_managed"
                /\ control.approval_rule = "unanimous"
                /\ Cardinality(control.reserved_matters) > 12,
             {"Manager management and a long unanimous list"})
      \cup When(total_members(p) >= 3 /\ control.approval_rule = "unanimous",
             {"Unanimity and three or more members"})
      \cup When(p.capital_source \in OutsideSources,
             {"Outside capital and the equity itself"})

(* What nobody can decide from the profile alone.                          *)
OpenQuestions(p) ==
  {"contributions", "services or property", "registered agent"}
  \cup When(p.operators_take_compensation, {"compensation"})
  \cup When(p.expected_hold_years = None, {"hold"})
  \cup When(p.initial_capital <= 0, {"threshold"})
  \cup When(p.states_of_operation \ {p.home_state} # {},
         {"foreign qualification"})
  \cup When(is_regulated(p), {"owners under the regime"})
  \cup (IF sector(p) = None THEN {"no sector pattern"} ELSE sector(p).questions)
  \cup (IF regime(p) # None THEN regime(p).questions
        ELSE When(is_regulated(p), {"no regime pattern"}))
  \cup When(p.role = "both", {"consent to both roles"})
=============================================================================
