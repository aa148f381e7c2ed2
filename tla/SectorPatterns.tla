---------------------------- MODULE SectorPatterns ----------------------------
(***************************************************************************)
(* What an industry and a licensing regime add to a structure:             *)
(* tessera_os/sectors.py.                                                  *)
(*                                                                         *)
(* A pattern is data.  Of an entity layer the model keeps its role, the    *)
(* stem of its name, whether there is one per unit and which entity of the *)
(* general rules it replaces; a reserved matter, a position and an open    *)
(* question are reduced to a name.  Two sources may name the same matter,  *)
(* and then it has one name here.                                          *)
(***************************************************************************)
EXTENDS AbsentValue

Layer(stem, role) ==
  [stem |-> stem, role |-> role, perUnit |-> FALSE, supersedes |-> ""]

PerUnit(layer)        == [layer EXCEPT !.perUnit = TRUE]
InsteadOf(kind, layer) == [layer EXCEPT !.supersedes = kind]

Pattern(layers, reserved, positions, questions) ==
  [layers |-> layers, reserved |-> reserved, positions |-> positions,
   questions |-> questions]

Regime(reserved, positions, questions) ==
  [reserved |-> reserved, positions |-> positions, questions |-> questions]

-----------------------------------------------------------------------------
FILM == Pattern(
  {PerUnit(Layer("Productions", "Production vehicle")),
   InsteadOf("ip", Layer("Rights", "Rights and library entity"))},
  {"greenlight", "underlying rights", "distribution rights", "final cut",
   "completion bond"},
  {"Production vehicles", "Rights separation", "Participation definitions"},
  {"chain of title", "participations", "collection account", "guilds"})

SKILLED_TRADES == Pattern(
  {InsteadOf("licence", Layer("Licensing", "Licence and qualifier entity")),
   Layer("Fleet", "Equipment and vehicle entity")},
  {"qualifier of the trade", "new state or trade", "worker classification",
   "membership plan"},
  {"Licence isolation", "Fleet separation", "Succession"},
  {"qualifying individual", "crews", "unearned membership"})

HOSPITALITY == Pattern(
  {InsteadOf("ip", Layer("Brand", "Brand and recipe entity")),
   PerUnit(Layer("Location", "Location operating entity")),
   InsteadOf("licence", Layer("Beverage", "Liquor licence entity"))},
  {"premises lease", "liquor licence", "new site", "franchise",
   "personal guarantee"},
  {"One entity per location", "Brand held apart", "Guarantee discipline"},
  {"lease guarantee", "licence on a change of ownership", "franchising"})

REAL_ESTATE_HOLD == Pattern(
  {Layer("Property Management", "Property management entity")},
  {"property loan", "manager transaction", "property sale",
   "independent manager"},
  {"Property management separated from ownership", "One entity per property",
   "SPE covenants"},
  {"single-purpose lender", "income or sale", "carve-out guaranty",
   "matching names"})

DEVELOPMENT == Pattern(
  {PerUnit(Layer("Development", "Development entity"))},
  {"construction contract", "contractor affiliate", "permanent loan",
   "lien claim"},
  {"Development held apart", "Change orders reserved", "Dissolution timed"},
  {"statute of repose", "transfer to hold", "change order authority",
   "contractor bond"})

FUND == Pattern(
  {PerUnit(Layer("Fund", "Fund entity")),
   Layer("GP", "General partner entity"),
   Layer("Management Company", "Management company")},
  {"new limited partner", "fund capital call", "concentration limit",
   "general partner removal"},
  {"Three entities", "Fund and portfolio governance", "Securities counsel"},
  {"exemption", "carried interest", "fee offset", "plan assets"})

IP_LICENSING == Pattern(
  {InsteadOf("ip", Layer("IP Holdings", "IP portfolio entity")),
   Layer("Licensing", "Licensing and royalty administration entity")},
  {"exclusive licence", "registration", "infringement claim", "royalty terms"},
  {"Holding and administration", "Change-of-control inventory",
   "Audit rights"},
  {"where the value is", "consent on a change of control", "royalty audit",
   "improvements"})

PROFESSIONAL_SERVICES == Pattern(
  {Layer("Professional PLLC", "Professional entity"),
   Layer("Management Company", "Management services entity")},
  {"professional owner", "services agreement", "scope of services",
   "licensed practitioner"},
  {"Entity and management company", "Fee structure", "Departure mechanism"},
  {"permitted owners", "management fee", "departing owner",
   "reach into practice"})

OPERATING == Pattern(
  {},
  {"concentrated contract", "benefit plan", "insurance coverage"},
  {"Generic by design", "Concentration", "Work product assigned"},
  {"largest customer", "work-product assignment", "insurance review",
   "outgrown generic"})

SECTOR_PATTERNS ==
  [film_production       |-> FILM,
   skilled_trades        |-> SKILLED_TRADES,
   hospitality           |-> HOSPITALITY,
   real_estate_hold      |-> REAL_ESTATE_HOLD,
   development           |-> DEVELOPMENT,
   fund                  |-> FUND,
   ip_licensing          |-> IP_LICENSING,
   professional_services |-> PROFESSIONAL_SERVICES,
   operating             |-> OPERATING]

(* A pattern is not the absent value.                                      *)
ASSUME PatternsAssumption ==
  None \notin {SECTOR_PATTERNS[s] : s \in DOMAIN SECTOR_PATTERNS}

-----------------------------------------------------------------------------
CANNABIS == Regime(
  {"disclosed owner", "regulated change of control"},
  {"Ownership eligibility", "Banking and cash", "Tax exposure"},
  {"plant-touching entity", "disclosure percentage"})

HEMP == Regime(
  {"formulation", "divergent state"},
  {"Testing chain", "State-by-state divergence"},
  {"THC threshold", "states of sale"})

LIQUOR == Regime(
  {"liquor licence", "beverage authority"},
  {"Licence entity"},
  {"licence transfer"})

CONTRACTOR == Regime(
  {"qualifier of the licence"},
  {"Qualifier continuity"},
  {"entity or individual"})

FOOD_SERVICE == Regime(
  {"food permit", "uncovered service"},
  {"Permit continuity", "Inspection tracking"},
  {"food manager", "mobile unit"})

TRANSPORTATION == Regime(
  {"operating authority", "vehicle class"},
  {"Authority and insurance", "Driver files"},
  {"vehicle coverage", "safety official"})

REGIME_PATTERNS ==
  [cannabis            |-> CANNABIS,
   hemp                |-> HEMP,
   liquor              |-> LIQUOR,
   contractor_licensing |-> CONTRACTOR,
   food_service        |-> FOOD_SERVICE,
   transportation      |-> TRANSPORTATION]

-----------------------------------------------------------------------------
pattern_for(activity) ==
  IF activity \in DOMAIN SECTOR_PATTERNS THEN SECTOR_PATTERNS[activity] ELSE None

(* A regime is matched loosely, by one name inside the other: here a name  *)
(* stands for every wording that matches it, and any other matches none.   *)
regime_for(regime) ==
  IF regime \in DOMAIN REGIME_PATTERNS THEN REGIME_PATTERNS[regime] ELSE None
=============================================================================
