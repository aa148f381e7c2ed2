--------------------------- MODULE EvidenceManagers ---------------------------
(***************************************************************************)
(* The rules of the managers whose drafts rest on sources that age:        *)
(* contracts.py, diligence.py and intelligence.py.                         *)
(***************************************************************************)
EXTENDS ManagerControls

(* contracts.py: clauses and playbook rules are lists.                     *)
ContractValid(r) ==
  \A x \in ToSet(r.clauses) \cup ToSet(r.rules) : Cited(x.sources, r.evidence)

(* Only what the clauses cite has to be fresh, not what the rules cite.    *)
ContractDraftable(r, day) ==
  \A c \in ToSet(r.clauses) :
    StaleAmong(c.sources, r.evidence, day, FreshFor["contract"]) = {}

(* Of several approved rules on a topic the last is used.                  *)
RulesOn(r, topic) ==
  {k \in DOMAIN r.rules : r.rules[k].topic = topic /\ r.rules[k].approved}

Issue(r, clause) ==
  IF RulesOn(r, clause.topic) = {}
  THEN [risk |-> "high", rule |-> None, sources |-> clause.sources]
  ELSE LET rule == r.rules[Max(RulesOn(r, clause.topic))]
       IN [risk |-> rule.risk, rule |-> rule.id, sources |-> clause.sources \cup rule.sources]

ContractDraft(r) == [k \in DOMAIN r.clauses |-> Issue(r, r.clauses[k])]

-----------------------------------------------------------------------------
(* diligence.py: claims are [class, material, protected, sources].         *)
DiligenceValid(r) ==
  \A c \in r.claims :
    /\ ~c.protected
    /\ Cited(c.sources, r.evidence)
    /\ c.material /\ c.class = "verified_fact" => Cardinality(c.sources) >= 2

OfClass(r, class) == {c \in r.claims : c.class = class}

DiligenceDraft(r, day) ==
  [facts |-> OfClass(r, "verified_fact"), allegations |-> OfClass(r, "allegation"),
   open |-> OfClass(r, "open_item"),
   red_flags |-> {c \in OfClass(r, "allegation") : c.material},
   stale |-> StaleAmong(UNION {c.sources : c \in r.claims}, r.evidence, day,
                        FreshFor["diligence"])]

-----------------------------------------------------------------------------
(* intelligence.py: the evidence of a dataset is its snapshots; sources    *)
(* have [kind, max_age, licensed] and findings [id, impact, sources].      *)
Grave == {"high", "critical"}

KindsOf(r, sources) == {r.sources[s].kind : s \in sources}

Corroborated(r, f) ==
  f.impact \in Grave => Cardinality(f.sources) >= 2 /\ Cardinality(KindsOf(r, f.sources)) >= 2

IntelligenceValid(r) ==
  /\ \A s \in DOMAIN r.sources : r.sources[s].licensed
  /\ DOMAIN r.evidence \subseteq DOMAIN r.sources
  /\ \A f \in r.findings : Cited(f.sources, r.evidence) /\ Corroborated(r, f)

StaleSnapshots(r, day) ==
  {s \in DOMAIN r.evidence : r.evidence[s] < day - r.sources[s].max_age}

Usable(r, day) == {f \in r.findings : f.sources \cap StaleSnapshots(r, day) = {}}

IntelligenceDraft(r, day) ==
  [findings |-> Usable(r, day), stale |-> StaleSnapshots(r, day),
   alerts |-> {f \in Usable(r, day) : f.impact \in Grave}]
=============================================================================
