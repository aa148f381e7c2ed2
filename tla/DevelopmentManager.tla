-------------------------- MODULE DevelopmentManager --------------------------
(***************************************************************************)
(* The rules of tessera_os/development.py: which dataset is well formed,   *)
(* how schedule and budget compare with their approved baseline, and when  *)
(* a stage gate is ready.  A dataset's register lists its approvals,       *)
(* constraints, deliverables and RAID entries in the order the gate reads  *)
(* them; schedules and budgets list [id, version, baseline, items,         *)
(* sources] with items from milestone or line ids to planned and later     *)
(* figures.                                                                *)
(***************************************************************************)
EXTENDS ManagerControls

Claims == {"complete", "approved"}

DevelopmentValid(d) ==
  /\ \A k \in DOMAIN d.register :
       /\ d.register[k].sources \subseteq DOMAIN d.evidence
       /\ d.register[k].status \in Claims => d.register[k].sources # {}
  /\ \A v \in ToSet(d.schedules) \cup ToSet(d.budgets) : Cited(v.sources, d.evidence)

(* What add refuses: one version twice, or two baselines under one id.     *)
ConflictFree(versions) ==
  \A j, k \in DOMAIN versions : j # k /\ versions[j].id = versions[k].id =>
    /\ versions[j].version # versions[k].version
    /\ ~(versions[j].baseline /\ versions[k].baseline)

Baselines(versions) == {k \in DOMAIN versions : versions[k].baseline}
Baseline(versions)  == versions[CHOOSE k \in Baselines(versions) : TRUE]

(* max() keeps the first of several highest versions.                      *)
Current(versions) ==
  versions[CHOOSE k \in DOMAIN versions : \A j \in DOMAIN versions :
    \/ versions[j].version < versions[k].version
    \/ versions[j].version = versions[k].version /\ k <= j]

Comparable(versions) ==
  /\ Cardinality(Baselines(versions)) = 1
  /\ DOMAIN Current(versions).items = DOMAIN Baseline(versions).items

(* The outlook of a milestone; of a budget line it is the forecast, for    *)
(* such items have none called actual: what was spent is not compared.     *)
Outlook(item) ==
  IF item.actual # None THEN item.actual
  ELSE IF item.forecast # None THEN item.forecast
  ELSE item.planned

Variance(versions) ==
  [i \in DOMAIN Baseline(versions).items |->
     Outlook(Current(versions).items[i]) - Baseline(versions).items[i].planned]

(* In hundredths of a percent; there is none of a line planned at zero.    *)
VariancePercent(versions) ==
  [i \in DOMAIN Baseline(versions).items |->
     LET planned == Baseline(versions).items[i].planned
     IN IF planned = 0 THEN None
        ELSE HalfEven(10000 * Variance(versions)[i], planned)]

-----------------------------------------------------------------------------
(* evaluate_gate indexes the register by id: of two entries under one id   *)
(* it sees the later.                                                      *)
EntriesOf(d, id) == {k \in DOMAIN d.register : d.register[k].id = id}
Present(d, ids)  == {id \in ids : EntriesOf(d, id) # {}}
Entry(d, id)     == d.register[Max(EntriesOf(d, id))]

SourcesOf(d, c) == UNION {Entry(d, id).sources : id \in Present(d, c.records)}

\* Mutant of Evidenced: evidence once cited supports the gate for ever.
CitedOnly(d, c, day) ==
  Present(d, c.records) = c.records /\ Cited(SourcesOf(d, c), d.evidence)

Evidenced(d, c, day) ==
  /\ Present(d, c.records) = c.records
  /\ Cited(SourcesOf(d, c), d.evidence)
  /\ StaleAmong(SourcesOf(d, c), d.evidence, day, FreshFor["development"]) = {}

Met(d, c, day) ==
  /\ Evidenced(d, c, day)
  /\ \A id \in c.records : Entry(d, id).status = c.required

Recommendation(d, gate, day) ==
  IF \E c \in d.gates[gate] : ~Evidenced(d, c, day) THEN "insufficient_evidence"
  ELSE IF \A c \in d.gates[gate] : Met(d, c, day) THEN "ready"
  ELSE "not_ready"

DevelopmentDraftable(d) == Comparable(d.schedules) /\ Comparable(d.budgets)

DevelopmentDraft(d, gate, day) ==
  [schedule |-> Variance(d.schedules), budget |-> Variance(d.budgets),
   percent |-> VariancePercent(d.budgets), met |-> {c \in d.gates[gate] : Met(d, c, day)},
   recommendation |-> Recommendation(d, gate, day)]
=============================================================================
