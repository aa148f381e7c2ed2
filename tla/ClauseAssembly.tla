---------------------------- MODULE ClauseAssembly ----------------------------
(***************************************************************************)
(* From a structure to the clauses of its operating agreement:             *)
(* tessera_os/clauses.py over the operating-agreement clauses of           *)
(* fixtures/clause_library.                                                *)
(*                                                                         *)
(* A deal profile d selects the clauses that apply to it and one variant   *)
(* of each.  Of a variant's text the model keeps the clauses it cites and  *)
(* the figures of the structure it has a place for; of a clause its        *)
(* category, its condition, the terms it defines and those it relies on.   *)
(* The library restricts none of these clauses by industry, deal value or  *)
(* jurisdiction.                                                           *)
(***************************************************************************)
EXTENDS CommercialTerms

\* That there is no option is none of the options a variant stands for.
ASSUME ClauseAssumption == None \notin {"formula", "fixed", "earnout", "cash"}

\* Most protective first.
Rank == [protective |-> 0, standard |-> 1, accommodating |-> 2]

Always == [management |-> {"member_managed", "manager_managed"},
           shapes |-> {"single", "equal", "majority_minority"}, min |-> 1, max |-> 99]

Managed(model)  == [Always EXCEPT !.management = {model}]
EqualUpTo(n)    == [Always EXCEPT !.shapes = {"equal"}, !.max = n]
UnequalFrom(n)  == [Always EXCEPT !.shapes = {"majority_minority"}, !.min = n]

(* A clause with one variant at each posture given; the variants that cite *)
(* other clauses or carry figures of the structure; one more variant, for  *)
(* an option of a menu.                                                    *)
Variant(posture, option, figures) ==
  [posture |-> posture, option |-> option, refs |-> {}, figures |-> figures]

Clause(id, category, postures, defines, relies) ==
  [id |-> id, category |-> category, condition |-> Always, required |-> TRUE,
   defines |-> defines, relies |-> relies,
   variants |-> {Variant(q, None, {}) : q \in postures}]

Cites(refs, postures, c) ==
  [c EXCEPT !.variants =
     {IF v.posture \in postures THEN [v EXCEPT !.refs = refs] ELSE v : v \in @}]

Carries(figures, postures, c) ==
  [c EXCEPT !.variants =
     {IF v.posture \in postures THEN [v EXCEPT !.figures = figures] ELSE v : v \in @}]

ForOption(option, figures, c) ==
  [c EXCEPT !.variants = @ \cup {Variant("standard", option, figures)}]

Under(condition, c) == [c EXCEPT !.condition = condition]
Optional(c)         == [c EXCEPT !.required = FALSE]

Firm     == {"protective", "standard"}
Owners   == {"Member", "Units", "Company", "Affiliate"}

-----------------------------------------------------------------------------
(* The library.                                                            *)
Confidentiality == Clause("confidentiality", "confidentiality", Firm, {}, {})

GoverningLaw == Clause("governing-law", "dispute", Firm, {}, {})

Purpose == Clause("purpose", "purpose", {"protective", "accommodating"},
                  {"Company", "Agreement"}, {"Member", "Company"})

Capital ==
  Cites({"capital-call-default"}, Firm,
    Clause("capital", "capital", Firm,
           {"Member", "Units", "Capital Contribution", "Unreturned Capital"},
           {"Company", "Manager"}))

Distributions ==
  Carries({"tax_distribution_days"}, {"standard"},
    Carries({"tax_distribution_days", "preferred_return", "residual_split"},
            {"protective"},
      Clause("distributions", "distributions", Firm,
             {"Distributable Cash", "Unreturned Preferred", "Assumed Tax Rate"},
             {"Member", "Units", "Capital Contribution", "Unreturned Capital",
              "Manager"})))

ManagerManaged ==
  Under(Managed("manager_managed"),
    Cites({"ordinary-course-authority"}, {"protective"},
      Clause("management", "governance", {"protective"},
             {"Manager", "Affiliate"}, Owners)))

MemberManaged ==
  Under(Managed("member_managed"),
    Cites({"authority-partners", "restrictive-covenants"}, {"protective"},
      Clause("management-members", "governance", {"protective"},
             {"Manager", "Affiliate"}, Owners)))

TransferOfInterests ==
  Cites({"permitted-estate-transfer"}, {"protective"},
    Clause("transfer", "transfer", Firm, {"Transfer"}, Owners))

DragTag ==
  Optional(Under(UnequalFrom(2),
    Clause("drag-tag", "transfer", {"protective", "accommodating"}, {},
           {"Member", "Units", "Transfer", "Company"})))

Fiduciary == Clause("fiduciary", "duties", {"protective"}, {},
                    {"Manager", "Member", "Company", "Affiliate"})

Information ==
  Clause("information", "information", Firm, {}, {"Member", "Manager", "Company"})

Dissolution ==
  Clause("dissolution", "exit", {"standard"}, {"Certificate of Formation"},
         {"Member", "Company", "Manager", "Certificate of Formation"})

TitlesAuthority == Clause("titles-authority", "titles", {"standard"}, {}, {})

TriggeringEvents == Clause("triggering-events", "triggering_events", Firm,
                           {"Triggering Event", "Disability"}, {})

FairMarketValue ==
  ForOption("fixed", {"fixed_value", "fixed_value_reset_months"},
    ForOption("formula", {"earnings_multiple"},
      Carries({"fmv_agreement_days", "fmv_appraiser_days",
               "fmv_convergence_percent", "fmv_determination_days"}, {"standard"},
        Clause("fair-market-value", "valuation", {"standard"},
               {"Fair Market Value"}, {}))))

BuySellOffer ==
  Carries({"buysell_election_days"}, {"protective"},
    Cites({"buyout-payment", "fair-market-value"}, Firm,
      Clause("buysell", "buysell", Firm, {}, {})))

BuyoutPayment ==
  ForOption("cash", {},
    ForOption("earnout", {"earnout_period_months", "earnout_price_percent"},
      Carries({"buyout_cash_percent", "buyout_note_months"}, {"standard"},
        Clause("buyout-payment", "buyout_payment", {"standard"}, {}, {}))))

TaxDistributions ==
  Carries({"tax_distribution_days"}, {"protective"},
    Clause("tax-distributions", "tax_distributions", {"protective"}, {}, {}))

WorkProduct == Clause("work-product", "work_product", {"protective"}, {}, {})

CapitalCallDefault ==
  Clause("capital-call-default", "capital_default", Firm, {}, {})

ManagerAuthority ==
  Under(Managed("manager_managed"),
    Carries({"ordinary_course_threshold"}, {"protective"},
      Clause("ordinary-course-authority", "authority", {"protective"},
             {"Ordinary Course Threshold", "Major Decision"}, {})))

MemberAuthority ==
  Under(Managed("member_managed"),
    Carries({"ordinary_course_threshold"}, {"protective"},
      Clause("authority-partners", "authority", {"protective"},
             {"Ordinary Course Threshold", "Major Decision", "Managing Member"}, {})))

DeadlockLadder ==
  Optional(Under(EqualUpTo(3),
    Clause("deadlock-ladder", "deadlock", {"protective"}, {"Deadlock"}, {})))

EstateTransfer ==
  Optional(Clause("permitted-estate-transfer", "estate_transfer", {"standard"}, {}, {}))

RestrictiveCovenants ==
  Clause("restrictive-covenants", "restrictive_covenants", Firm, {}, {})

Library ==
  {Confidentiality, GoverningLaw, Purpose, Capital, Distributions, ManagerManaged,
   MemberManaged, TransferOfInterests, DragTag, Fiduciary, Information, Dissolution,
   TitlesAuthority, TriggeringEvents, FairMarketValue, BuySellOffer, BuyoutPayment,
   TaxDistributions, WorkProduct, CapitalCallDefault, ManagerAuthority, MemberAuthority,
   DeadlockLadder, EstateTransfer, RestrictiveCovenants}

Essentials ==
  {"purpose", "capital", "distributions", "governance", "authority", "transfer",
   "duties", "information", "exit", "dispute", "triggering_events", "valuation",
   "buysell", "buyout_payment", "tax_distributions", "work_product"}

-----------------------------------------------------------------------------
(* The deal a structure is drafted as.                                     *)
Shape(p) ==
  CASE total_members(p) = 1                        -> "single"
    [] total_members(p) > 1 /\ p.equal_ownership   -> "equal"
    [] OTHER                                       -> "majority_minority"

\* The category of clause a menu picks the variant of.
MenuOf == [valuation |-> "valuation", buyout_payment |-> "payment"]

\* Mutant of DealProfile: the management model is left to the deal.
DerivedManagement(p, picks) ==
  [regulated |-> is_regulated(p), jurisdiction |-> FormationState(p),
   represented |-> p.capital_source = "institutional",
   own_capital |-> TesseraOwns(p), value |-> p.initial_capital,
   party_role |-> IF TesseraOwns(p) THEN "co_venturer" ELSE "sponsor",
   shape |-> Shape(p), members |-> total_members(p),
   management |-> IF Shape(p) \in {"single", "equal"} /\ total_members(p) <= 3
                    THEN "member_managed" ELSE "manager_managed",
   terms |-> [c \in DOMAIN MenuOf |-> picks[MenuOf[c]]]]

DealProfile(p, picks) ==
  [regulated |-> is_regulated(p), jurisdiction |-> FormationState(p),
   represented |-> p.capital_source = "institutional",
   own_capital |-> TesseraOwns(p), value |-> p.initial_capital,
   party_role |-> IF TesseraOwns(p) THEN "co_venturer" ELSE "sponsor",
   shape |-> Shape(p), members |-> total_members(p),
   management |-> ManagementModel(p),
   terms |-> [c \in DOMAIN MenuOf |-> picks[MenuOf[c]]]]

HighValue == 1000000

(* How protective the paper is.  A structure comes with no fee and no      *)
(* relationship, so the accommodating posture is out of its reach.         *)
Posture(d) ==
  IF \/ d.regulated \/ d.own_capital \/ ~d.represented
     \/ d.value >= HighValue
     \/ /\ d.shape = "majority_minority"
        /\ d.party_role \in {"investor", "co_venturer"}
  THEN "protective" ELSE "standard"

-----------------------------------------------------------------------------
(* Selection.                                                              *)
Matches(c, d) ==
  /\ d.management \in c.condition.management
  /\ d.shape \in c.condition.shapes
  /\ d.members \in c.condition.min..c.condition.max

Applicable(d) == {c \in Library : Matches(c, d)}

MissingEssentials(d) == Essentials \ {c.category : c \in Applicable(d)}

(* The variants standing for the option selected, or else those that stand *)
(* for none.                                                               *)
Group(variants, option) ==
  LET tagged == {v.option : v \in variants} \ {None}
  IN  IF tagged = {} THEN variants
      ELSE {v \in variants : v.option = IF option \in tagged THEN option ELSE None}

(* The variant at a posture, else the next more protective one, else the   *)
(* next less protective one.                                               *)
Nearest(variants, posture) ==
  LET firm == {v \in variants : Rank[v.posture] <= Rank[posture]}
  IN  IF firm # {}
        THEN CHOOSE v \in firm : \A w \in firm : Rank[w.posture] <= Rank[v.posture]
        ELSE CHOOSE v \in variants : \A w \in variants :
               Rank[v.posture] <= Rank[w.posture]

Option(c, d) == IF c.category \in DOMAIN d.terms THEN d.terms[c.category] ELSE None

\* Mutant of Usable: a clause the library can do without is left out.
UsableRequired(d) ==
  {c \in Applicable(d) : c.required /\ Group(c.variants, Option(c, d)) # {}}

\* The clauses with a variant to put into the paper, and those without.
Usable(d)          == {c \in Applicable(d) : Group(c.variants, Option(c, d)) # {}}
OmittedRequired(d) == {c \in Applicable(d) \ Usable(d) : c.required}

(* The sections of the paper: a clause and its variant each.               *)
Sections(d) ==
  {[clause |-> c, variant |-> Nearest(Group(c.variants, Option(c, d)), Posture(d))] :
     c \in Usable(d)}

-----------------------------------------------------------------------------
(* What the assembled paper has and lacks.                                 *)
Categories(sections) == {s.clause.category : s \in sections}

BrokenReferences(sections) ==
  (UNION {s.variant.refs : s \in sections}) \ {s.clause.id : s \in sections}

UndefinedTerms(sections) ==
  (UNION {s.clause.relies : s \in sections})
    \ UNION {s.clause.defines : s \in sections}

\* The figures of the structure the text has a place for.
OpenFigures(sections) == UNION {s.variant.figures : s \in sections}

(* The categories the memo promises language for.                          *)
ExpectedCategories(p, threshold) ==
  {"titles", "governance", "authority", "capital", "capital_default",
   "distributions", "transfer", "duties", "information", "triggering_events",
   "valuation", "buysell", "buyout_payment", "work_product",
   "restrictive_covenants", "tax_distributions", "exit", "dispute", "purpose"}
  \cup When(DeadlockNeeded(p, threshold), {"deadlock"})
  \cup When(p.estate_planning_relevant, {"estate_transfer"})

Unmet(p, threshold, sections) ==
  ExpectedCategories(p, threshold) \ Categories(sections)
=============================================================================
