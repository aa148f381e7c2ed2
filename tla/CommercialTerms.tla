--------------------------- MODULE CommercialTerms ----------------------------
(***************************************************************************)
(* The commercial terms of a structure: the menus of tessera_os/           *)
(* governance.py, the figures inside their options, and how the figures    *)
(* people confirm (numbers.py) and the options they select (terms.py) turn *)
(* a proposal into what an agreement is drafted from.                      *)
(*                                                                         *)
(* A menu is a function from the labels of its options to the figures of   *)
(* the option, each with the value the engine proposes, None where it has  *)
(* no basis for one.  Confirmations map labels of figures to values, and   *)
(* selections areas of menus to labels of options; None where nobody has   *)
(* decided.                                                                *)
(***************************************************************************)
EXTENDS VentureStructure

\* The figures outside every menu.
Threshold == "ordinary-course threshold"
Approval  == "approval threshold"
ShotgunUnit == "shotgun unit percent"
ShotgunDays == "shotgun election window"

NoFigures == [label \in {} |-> None]

-----------------------------------------------------------------------------
(* The menus.  What the promote is called depends on the sector, and with  *)
(* it the label of the third option of the waterfall.                      *)
HurdleOption(p) ==
  IF p.activity = "fund" THEN "carried interest above a hurdle"
                         ELSE "promote above a hurdle"

PreferredReturn(p) == IF p.activity = "development" THEN 9 ELSE 8

Promote(p) ==
  IF p.activity \in {"fund", "real_estate_hold", "development"} THEN 20 ELSE 15

WaterfallMenu(p) ==
  LET labels == {"pro rata", "preferred return with catch-up", HurdleOption(p)}
  IN  [o \in labels |->
         CASE o = "pro rata" -> NoFigures
           [] o = "preferred return with catch-up" ->
                [preferred_return |-> PreferredReturn(p)]
           [] OTHER ->
                [preferred_return |-> PreferredReturn(p), promote |-> Promote(p)]]

CapitalCallMenu ==
  [mandatory |-> [dilution_multiple |-> 150, cure_days |-> 15],
   optional  |-> [dilution_multiple |-> 150],
   member_loan |-> [loan_rate |-> 10]]

ValuationMenu(p) ==
  [appraisal |-> [agreement_days |-> 20, appraiser_days |-> 10,
                  convergence_percent |-> 15, determination_days |-> 30],
   formula   |-> [earnings_multiple |-> None],
   fixed     |-> [fixed_value |-> IF p.initial_capital > 0
                                    THEN p.initial_capital ELSE None,
                  reset_months |-> 12]]

PaymentMenu ==
  [cash    |-> NoFigures,
   note    |-> [cash_percent |-> 25, note_months |-> 24],
   earnout |-> [earnout_percent |-> 30, earnout_months |-> 24]]

TaxDistributionMenu ==
  [advance  |-> [tax_rate |-> 37, distribution_days |-> 90],
   priority |-> [tax_rate |-> 37, distribution_days |-> 90]]

MenuAreas == {"valuation", "payment", "capital call", "tax", "waterfall"}

menus(p) ==
  LET areas == IF WaterfallApplies(p) THEN MenuAreas ELSE MenuAreas \ {"waterfall"}
  IN  [area \in areas |->
         CASE area = "valuation"    -> ValuationMenu(p)
           [] area = "payment"      -> PaymentMenu
           [] area = "capital call" -> CapitalCallMenu
           [] area = "tax"          -> TaxDistributionMenu
           [] area = "waterfall"    -> WaterfallMenu(p)]

-----------------------------------------------------------------------------
(* A person's figure replaces the proposal.                                *)
Number(label, proposed, confirmations) ==
  IF confirmations[label] # None
    THEN [label |-> label, value |-> confirmations[label], state |-> "stated"]
    ELSE [label |-> label, value |-> proposed,
          state |-> IF proposed = None THEN "unresolved" ELSE "proposed"]

\* Mutant of Picks: areas the structure has no menu for are kept.
EveryAreaPicks(p, selections) ==
  [area \in MenuAreas |->
     IF area \in DOMAIN menus(p) /\ selections[area] \in DOMAIN menus(p)[area]
       THEN selections[area] ELSE None]

(* A selection of an option the menu no longer has counts for nothing.     *)
Picks(p, selections) ==
  [area \in DOMAIN menus(p) |->
     IF selections[area] \in DOMAIN menus(p)[area] THEN selections[area] ELSE None]

\* The figures inside the options picked, with their proposed values.
PickedFigures(p, picks) ==
  UNION {LET figures == menus(p)[area][picks[area]]
         IN  {<<label, figures[label]>> : label \in DOMAIN figures} :
         area \in {m \in DOMAIN picks : picks[m] # None}}

\* Mutant of DerivedNumbers: figures inside the selected options are not due.
StandaloneNumbers(p, confirmations, picks) ==
  {Number(Threshold, OrdinaryCourseThreshold(p), confirmations),
   Number(Approval, ProposedApproval[ApprovalRule(p)], confirmations)}
  \cup When(BuySell(p) = "shotgun",
         {Number(ShotgunUnit, 1, confirmations),
          Number(ShotgunDays, 30, confirmations)})

(* Every figure that must be stated before an agreement is drafted.        *)
DerivedNumbers(p, confirmations, picks) ==
  {Number(Threshold, OrdinaryCourseThreshold(p), confirmations),
   Number(Approval, ProposedApproval[ApprovalRule(p)], confirmations)}
  \cup When(BuySell(p) = "shotgun",
         {Number(ShotgunUnit, 1, confirmations),
          Number(ShotgunDays, 30, confirmations)})
  \cup {Number(figure[1], figure[2], confirmations) :
          figure \in PickedFigures(p, picks)}

Unconfirmed(p, confirmations, picks) ==
  {n.label : n \in {m \in DerivedNumbers(p, confirmations, picks) :
                      m.state # "stated"}}

Unselected(picks) == {area \in DOMAIN picks : picks[area] = None}

\* The threshold the ladder is decided by: the confirmed one, if there is one.
ApprovalThreshold(p, confirmations) ==
  Number(Approval, ProposedApproval[ApprovalRule(p)], confirmations).value

-----------------------------------------------------------------------------
(* The variables of the clause library the structure decides.              *)
VariableOf ==
  [preferred_return    |-> "preferred_return",
   promote             |-> "residual_split",
   agreement_days      |-> "fmv_agreement_days",
   appraiser_days      |-> "fmv_appraiser_days",
   convergence_percent |-> "fmv_convergence_percent",
   determination_days  |-> "fmv_determination_days",
   cash_percent        |-> "buyout_cash_percent",
   note_months         |-> "buyout_note_months",
   earnings_multiple   |-> "earnings_multiple",
   fixed_value         |-> "fixed_value",
   reset_months        |-> "fixed_value_reset_months",
   earnout_percent     |-> "earnout_price_percent",
   earnout_months      |-> "earnout_period_months",
   distribution_days   |-> "tax_distribution_days",
   loan_rate           |-> "default_loan_rate",
   cure_days           |-> "capital_call_days"]

(* Every figure a person can confirm.                                      *)
Labels == {Threshold, Approval, ShotgunUnit, ShotgunDays, "dilution_multiple", "tax_rate"}
            \cup DOMAIN VariableOf

(* Only a stated figure becomes a value of the agreement.                  *)
DerivedValues(p, confirmations, picks) ==
  LET Stated(label) == confirmations[label] # None
  IN  When(Stated(Threshold),
           {<<"ordinary_course_threshold", confirmations[Threshold]>>})
      \cup When(ApprovalRule(p) = "supermajority" /\ Stated(Approval),
             {<<"member_approval_threshold", confirmations[Approval]>>})
      \cup When(BuySell(p) = "shotgun" /\ Stated(ShotgunDays),
             {<<"buysell_election_days", confirmations[ShotgunDays]>>})
      \cup {<<VariableOf[label], confirmations[label]>> :
              label \in {f[1] : f \in {g \in PickedFigures(p, picks) :
                                         /\ g[1] \in DOMAIN VariableOf
                                         /\ Stated(g[1])}}}
=============================================================================
