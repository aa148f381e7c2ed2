---------------------------- MODULE FigureManagers ----------------------------
(***************************************************************************)
(* The rules of the managers that compute figures: construction.py and     *)
(* capital.py.  Ratios are in hundredths, as quantize leaves them.         *)
(***************************************************************************)
EXTENDS ManagerControls

CONSTANT LimitUnit   \* parts of a hundredth that covenant limits are given in

ASSUME LimitAssumption == LimitUnit \in Nat \ {0}

TotalOf(f) == FoldFunction(LAMBDA x, y : x + y, 0, f)

(* construction.py: milestones [baseline, forecast], costs [budget,        *)
(* forecast, actual], tracking [status], changes [status, forecast,        *)
(* approved] and safety signals [severity], each by id with its sources.   *)
ConstructionValid(r) ==
  \A table \in {r.milestones, r.costs, r.tracking, r.changes, r.safety} :
    \A id \in DOMAIN table : Cited(table[id].sources, r.evidence)

OpenIn(table) == {id \in DOMAIN table : table[id].status # "closed"}

ConstructionDraft(r) ==
  [slips |-> [m \in DOMAIN r.milestones |-> r.milestones[m].forecast - r.milestones[m].baseline],
   variance |-> [c \in DOMAIN r.costs |-> r.costs[c].forecast - r.costs[c].budget],
   remaining |-> [c \in DOMAIN r.costs |-> r.costs[c].forecast - r.costs[c].actual],
   exposure |-> TotalOf([c \in OpenIn(r.changes) |->
                           r.changes[c].forecast - r.changes[c].approved]),
   tracking |-> OpenIn(r.tracking), safety |-> r.safety]

\* Mutant of Imminent: the two highest severities are confused.
HighOnly(safety) == {s \in DOMAIN safety : safety[s].severity = "high"}

Imminent(safety) == {s \in DOMAIN safety : safety[s].severity = "imminent"}

-----------------------------------------------------------------------------
(* capital.py: models are [id, version, uses, sources, noi, service, debt, *)
(* value, equity, cites], covenants [metric, minimum, maximum, cites].     *)
(* Ratios are rounded to hundredths, limits are not: any decimals, they    *)
(* are counted in a unit as fine as the finest of them.                    *)
CapitalValid(r) ==
  /\ \A m, n \in r.models : <<m.id, m.version>> = <<n.id, n.version>> => m = n
  /\ \A m \in r.models :
       /\ TotalOf(m.sources) = TotalOf(m.uses)
       /\ m.service > 0 /\ m.value > 0
       /\ Cited(m.cites, r.evidence)
  /\ \A k \in DOMAIN r.covenants : Cited(r.covenants[k].cites, r.evidence)

ModelOf(r, ask) == CHOOSE m \in r.models : <<m.id, m.version>> = ask

Dscr(m, change) == HalfEven(m.noi * (100 + change), m.service)
Ltv(m)          == HalfEven(10000 * m.debt, m.value)
Multiple(m)     == IF m.equity = 0 THEN 0 ELSE HalfEven(100 * (m.value - m.debt), m.equity)

\* Mutant of Breaches: only floors are tested.
BelowFloor(covenant, actual) == covenant.minimum # None /\ LimitUnit * actual < covenant.minimum

Breaches(covenant, actual) ==
  \/ covenant.minimum # None /\ LimitUnit * actual < covenant.minimum
  \/ covenant.maximum # None /\ LimitUnit * actual > covenant.maximum

(* The comparison is between the rounded ratio and the limit as given.     *)
CovenantStatus(covenant, m) ==
  LET actual == IF covenant.metric = "dscr" THEN Dscr(m, 0) ELSE Ltv(m)
  IN IF covenant.metric \notin {"dscr", "ltv_percent"} THEN "unknown"
     ELSE IF Breaches(covenant, actual) THEN "breach" ELSE "compliant"

CapitalDraft(r, ask) ==
  LET m == ModelOf(r, ask) IN
  [dscr |-> Dscr(m, 0), ltv |-> Ltv(m), multiple |-> Multiple(m),
   covenants |-> [k \in DOMAIN r.covenants |-> CovenantStatus(r.covenants[k], m)],
   downside |-> Dscr(m, -10), upside |-> Dscr(m, 10)]
=============================================================================
