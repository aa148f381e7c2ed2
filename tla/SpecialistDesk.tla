---------------------------- MODULE SpecialistDesk ----------------------------
(***************************************************************************)
(* The specialist managers at work: each keeps a library of records that   *)
(* are added once and never replaced, computes drafts from them on some    *)
(* day, and submits drafts to the review queue, where they wait for a      *)
(* qualified reviewer.  Records are [manager, access, id, ...]; the        *)
(* manager's module says what else they hold.  A call to a library or a    *)
(* manager touches memory only and is one action; escalate_safety submits  *)
(* signal by signal, each in a transaction of its own.                     *)
(***************************************************************************)
EXTENDS DevelopmentManager, EvidenceManagers, FigureManagers, ReleaseManagers

CONSTANTS
  Records,      \* well-formed and ill-formed datasets the sources may supply
  DraftIds,     \* uuid4 identities of drafts
  MaxDay,       \* bound: the last day
  MaxRecords    \* bound: records held, all of one manager

VARIABLES
  library,      \* records added
  day,
  drafts,       \* drafts handed out, by id
  about,        \* what each review item was queued for
  escalating    \* running escalate_safety calls: [by, todo], by draft

vars == <<library, day, drafts, about, escalating, items>>

Managers == {"development", "contract", "diligence", "intelligence",
             "construction", "capital", "engineering", "assurance"}

ReviewerGroup(manager) ==
  CASE manager = "development"  -> "development_approver"
    [] manager = "contract"     -> "qualified_counsel"
    [] manager = "diligence"    -> "diligence_reviewer"
    [] manager = "intelligence" -> "intelligence_reviewer"
    [] manager = "construction" -> "construction_reviewer"
    [] manager = "capital"      -> "investment_reviewer"
    [] manager = "engineering"  -> "engineering_reviewer"
    [] manager = "assurance"    -> "assurance_reviewer"

(* Records and drafts belong to a manager, every manager's reviewers are a *)
(* group, and whoever is signed in can be a creator.                       *)
ASSUME SpecialistAssumption ==
  /\ None \notin Managers /\ None \notin DraftIds
  /\ Users \subseteq Creators
  /\ \A r \in Records : r.manager \in Managers
  /\ \A m \in Managers : ReviewerGroup(m) \in Groups
  /\ MaxDay \in Nat

(* What the fields of a record are: days, finite tables, and amounts and   *)
(* limits counted in units fine enough for their decimals.                 *)
Days(f) == \A s \in DOMAIN f : f[s] = None \/ f[s] \in Nat
Bounds(covenant) == {covenant.minimum, covenant.maximum} \ {None} \subseteq Int

ASSUME RecordsAssumption ==
  /\ None \notin Int /\ {"development", "diligence"} \subseteq DOMAIN FreshFor
  /\ \A r \in Records :
       /\ r.manager \in {"development", "diligence"} => Days(r.evidence)
       /\ r.manager = "development" => r.register \in Seq(ToSet(r.register))
       /\ r.manager = "intelligence" => \A s \in DOMAIN r.evidence :
            r.evidence[s] \in Nat /\ r.sources[s].max_age \in Nat
       /\ r.manager = "assurance" => r.candidate.day \in Nat /\ r.policy.cadence \in Nat
       /\ r.manager = "construction" => IsFiniteSet(DOMAIN r.safety)
       /\ r.manager = "capital" =>
            /\ \A m \in r.models : {m.noi, m.service, m.debt, m.value} \subseteq Int
            /\ \A k \in DOMAIN r.covenants : Bounds(r.covenants[k])

NoDraft == [manager |-> None]
NoCall  == [by |-> None, todo |-> <<>>]
Nothing == [kind |-> "nothing", draft |-> None, signal |-> None]

Drafted(d) == drafts[d] # NoDraft

Init ==
  /\ QueueInit
  /\ library = {}
  /\ day = 0
  /\ drafts = [d \in DraftIds |-> NoDraft]
  /\ about = [i \in ItemIds |-> Nothing]
  /\ escalating = [d \in DraftIds |-> NoCall]

-----------------------------------------------------------------------------
(* The schemas' validators.                                                *)
Valid(r) ==
  CASE r.manager = "development"  -> DevelopmentValid(r)
    [] r.manager = "contract"     -> ContractValid(r)
    [] r.manager = "diligence"    -> DiligenceValid(r)
    [] r.manager = "intelligence" -> IntelligenceValid(r)
    [] r.manager = "construction" -> ConstructionValid(r)
    [] r.manager = "capital"      -> CapitalValid(r)
    [] r.manager = "engineering"  -> EngineeringValid(r)
    [] r.manager = "assurance"    -> AssuranceValid(r)

(* The keys a record takes in its library: a project has one development   *)
(* dataset; a workspace and a change set have a key each.                  *)
Keys(r) ==
  IF r.manager = "development" THEN {<<r.access>>}
  ELSE IF r.manager = "engineering"
       THEN {<<r.access, "workspace", r.workspace.id>>, <<r.access, "change", r.change.id>>}
       ELSE {<<r.access, r.id>>}

Conflicts(r, s) == r.manager = s.manager /\ Keys(r) \cap Keys(s) # {}

\* Mutant of Store: a second record is kept under a key that is taken.
Duplicate(r) == library' = library \cup {r}

\* Mutant of Store: an added record takes the place of the one it conflicts with.
Replace(r) == library' = {s \in library : ~Conflicts(r, s)} \cup {r}

Store(r) ==
  /\ ~\E s \in library : Conflicts(r, s)
  /\ library' = library \cup {r}

Add(r) ==
  /\ Valid(r)
  /\ r.manager = "development" => ConflictFree(r.schedules) /\ ConflictFree(r.budgets)
  /\ Cardinality(library) < MaxRecords /\ \A s \in library : s.manager = r.manager
  /\ Store(r)
  /\ UNCHANGED <<day, drafts, about, escalating, items>>

-----------------------------------------------------------------------------
(* What a caller names besides the record: the gate, the version of the    *)
(* capital model, the change set to put in the workspace.                  *)
Asks(r) ==
  CASE r.manager = "development" -> DOMAIN r.gates
    [] r.manager = "capital"     -> {<<m.id, m.version>> : m \in r.models}
    [] r.manager = "engineering" ->
         {s.change.id : s \in {s \in library : s.manager = r.manager /\ s.access = r.access}}
    [] OTHER                     -> {None}

ChangeNamed(r, ask) ==
  (CHOOSE s \in library :
     s.manager = r.manager /\ s.access = r.access /\ s.change.id = ask).change

Draftable(r) ==
  /\ r.manager = "development" => DevelopmentDraftable(r)
  /\ r.manager = "contract"    => ContractDraftable(r, day)

Content(r, ask, on) ==
  CASE r.manager = "development"  -> DevelopmentDraft(r, ask, on)
    [] r.manager = "contract"     -> ContractDraft(r)
    [] r.manager = "diligence"    -> DiligenceDraft(r, on)
    [] r.manager = "intelligence" -> IntelligenceDraft(r, on)
    [] r.manager = "construction" -> ConstructionDraft(r)
    [] r.manager = "capital"      -> CapitalDraft(r, ask)
    [] r.manager = "engineering"  -> EngineeringDraft(r.workspace, ChangeNamed(r, ask))
    [] r.manager = "assurance"    -> AssuranceDraft(r, on)

(* get, then create_control_draft, analyze, report, build_brief, dashboard,*)
(* underwrite, prepare_packet or evaluate.  The library copies out.        *)
MakeDraft(ctx, d, r, ask) ==
  /\ drafts[d] = NoDraft
  /\ r \in library /\ Authorized(r.access, ctx)
  /\ ask \in Asks(r)
  /\ Draftable(r)
  /\ drafts' = [drafts EXCEPT ![d] =
       [manager |-> r.manager, access |-> r.access, id |-> r.id, ask |-> ask,
        day |-> day, content |-> Content(r, ask, day)]]
  /\ UNCHANGED <<library, day, about, escalating, items>>

-----------------------------------------------------------------------------
\* Mutant of Queue: a manager files its drafts under a name of its own.
QueueAsManager(ctx, i, access, manager, purpose) ==
  /\ Authorized(access, ctx)
  /\ Enqueue(i, access.tenant, access.project, manager, ReviewerGroup(manager))
  /\ about' = [about EXCEPT ![i] = purpose]

(* _submit and its copies: the draft's scope is tested again, against the  *)
(* context of whoever submits it; the call that queued an item is noted.   *)
Queue(ctx, i, access, manager, purpose) ==
  /\ Authorized(access, ctx)
  /\ Enqueue(i, access.tenant, access.project, ctx.user, ReviewerGroup(manager))
  /\ about' = [about EXCEPT ![i] = purpose]

Purpose(kind, draft, signal, ctx) ==
  [kind |-> kind, draft |-> draft, signal |-> signal, by |-> ctx.user]

SubmitForReview(ctx, d, i) ==
  /\ Drafted(d)
  /\ Queue(ctx, i, drafts[d].access, drafts[d].manager, Purpose("draft", d, None, ctx))
  /\ UNCHANGED <<library, day, drafts, escalating>>

RequestBaselineChange(ctx, r, i) ==
  /\ r \in library /\ r.manager = "development"
  /\ Queue(ctx, i, r.access, r.manager, Purpose("baseline", None, None, ctx))
  /\ UNCHANGED <<library, day, drafts, escalating>>

(* escalate_safety may be called again once it has returned.               *)
EscalateSafety(ctx, d) ==
  /\ Drafted(d) /\ drafts[d].manager = "construction"
  /\ Authorized(drafts[d].access, ctx)
  /\ escalating[d].todo = <<>>
  /\ escalating' = [escalating EXCEPT ![d] =
       [by |-> ctx, todo |-> SetToSeq(Imminent(drafts[d].content.safety))]]
  /\ UNCHANGED <<library, day, drafts, about, items>>

EscalateNext(d, i) ==
  /\ escalating[d].todo # <<>>
  /\ Queue(escalating[d].by, i, drafts[d].access, drafts[d].manager,
           Purpose("signal", d, Head(escalating[d].todo), escalating[d].by))
  /\ escalating' = [escalating EXCEPT ![d].todo = Tail(@)]
  /\ UNCHANGED <<library, day, drafts>>

Decide(ctx, i, status) ==
  /\ Disposition(ctx, i, status)
  /\ UNCHANGED <<library, day, drafts, about, escalating>>

Tick ==
  /\ day < MaxDay
  /\ day' = day + 1
  /\ UNCHANGED <<library, drafts, about, escalating, items>>

Next ==
  \/ \E r \in Records : Add(r)
  \/ \E ctx \in Contexts, d \in DraftIds, r \in library :
       \E ask \in Asks(r) : MakeDraft(ctx, d, r, ask)
  \/ \E ctx \in Contexts, d \in DraftIds, i \in ItemIds : SubmitForReview(ctx, d, i)
  \/ \E ctx \in Contexts, r \in library, i \in ItemIds : RequestBaselineChange(ctx, r, i)
  \/ \E ctx \in Contexts, d \in DraftIds : EscalateSafety(ctx, d)
  \/ \E d \in DraftIds, i \in ItemIds : EscalateNext(d, i)
  \/ \E ctx \in Contexts, i \in ItemIds, s \in Decided : Decide(ctx, i, s)
  \/ Tick

Spec == Init /\ [][Next]_vars

-----------------------------------------------------------------------------
(* The library holds valid records, at most one under any key; drafts, the *)
(* queue and what it was filled for keep their shape.                      *)
SpecialistTypeOK ==
  /\ QueueTypeOK
  /\ library \subseteq {r \in Records : Valid(r)}
  /\ \A r, s \in library : Conflicts(r, s) => r = s
  /\ day \in 0 .. MaxDay
  /\ \A d \in DraftIds : Drafted(d) => drafts[d].manager \in Managers /\ drafts[d].day <= day
  /\ \A i \in ItemIds : (items[i] = NoItem) = (about[i] = Nothing)
  /\ \A d \in DraftIds : escalating[d].todo # <<>> => Drafted(d)

SourceOf(d, r) == r.manager = d.manager /\ r.access = d.access /\ r.id = d.id

(* A draft can be computed again, from the record its library still holds  *)
(* and the day it was made on: what a reviewer reads is what the record    *)
(* says (DevelopmentLibrary.add, "records are immutable").                 *)
Reproducible ==
  \A d \in DraftIds : Drafted(d) =>
    \E r \in library : SourceOf(drafts[d], r) /\
      drafts[d].content = Content(r, drafts[d].ask, drafts[d].day)

(* What a draft holds its evidence to support.                             *)
Supported(d, r) ==
  CASE d.manager = "development" ->
         {<<"met", c>> : c \in d.content.met} \cup {<<g>> : g \in {d.content.recommendation} \cap {"ready"}}
    [] d.manager = "diligence"    -> DOMAIN r.evidence \ d.content.stale
    [] d.manager = "intelligence" -> d.content.findings
    [] d.manager = "assurance"    -> {d.content.decision} \cap {"pass"}
    [] d.manager \in {"contract", "construction", "capital", "engineering"} -> {}

(* Evidence only ages: of two drafts that answer the same question from    *)
(* the same record, the later supports nothing the earlier did not.        *)
SupportOnlyWanes ==
  \A d, e \in DraftIds :
    /\ Drafted(d) /\ Drafted(e) /\ drafts[d].day <= drafts[e].day
    /\ drafts[d].ask = drafts[e].ask
    => \A r \in library : SourceOf(drafts[d], r) /\ SourceOf(drafts[e], r) =>
         Supported(drafts[e], r) \subseteq Supported(drafts[d], r)

(* A gate reported ready has, for each record its criteria name, an entry  *)
(* of the register with the required status whose evidence was all         *)
(* retrieved within the window before the draft (evaluate_gate).           *)
ReadyIsEvidenced ==
  \A d \in DraftIds : Drafted(d) /\ drafts[d].manager = "development"
                      /\ drafts[d].content.recommendation = "ready" =>
    \A r \in library : SourceOf(drafts[d], r) =>
      \A c \in r.gates[drafts[d].ask] : \A id \in c.records :
        \E k \in DOMAIN r.register :
          /\ r.register[k].id = id /\ r.register[k].status = c.required
          /\ \A s \in r.register[k].sources :
               /\ r.evidence[s] # None
               /\ r.evidence[s] + FreshFor["development"] >= drafts[d].day

Ratio(covenant, m) == IF covenant.metric = "dscr" THEN <<100 * m.noi, m.service>>
                                                  ELSE <<10000 * m.debt, m.value>>

\* A ratio against half of `twice`, in the unit of the limits.
Below(q, twice) == 2 * LimitUnit * q[1] < twice * q[2]
Above(q, twice) == 2 * LimitUnit * q[1] > twice * q[2]
\* Twice what rounding can put between a ratio and a limit it seems to miss.
Missed(limit) == IF limit % LimitUnit = 0 THEN 0 ELSE LimitUnit

(* A covenant reported compliant is met, and one reported breached is      *)
(* missed, to within half a hundredth of the ratio: what rounding before   *)
(* comparing may hide or invent.  A limit in whole hundredths is never     *)
(* reported breached when it is met.                                       *)
CovenantsWithinRounding ==
  \A d \in DraftIds : Drafted(d) /\ drafts[d].manager = "capital" =>
    \A r \in library : SourceOf(drafts[d], r) =>
      \A k \in {k \in DOMAIN r.covenants : r.covenants[k].metric \in {"dscr", "ltv_percent"}} :
        LET min == r.covenants[k].minimum
            max == r.covenants[k].maximum
            q   == Ratio(r.covenants[k], ModelOf(r, drafts[d].ask))
        IN IF drafts[d].content.covenants[k] = "breach"
           THEN \/ min # None /\ Below(q, 2 * min + Missed(min))
                \/ max # None /\ Above(q, 2 * max - Missed(max))
           ELSE /\ min # None => ~Below(q, 2 * min - LimitUnit)
                /\ max # None => ~Above(q, 2 * max + LimitUnit)

(* An item about a draft is decided by a member of the manager's reviewer  *)
(* group in the draft's scope, and never by whoever submitted it.          *)
SubmitterNeverDecides ==
  \A i \in ItemIds : items[i].status \in Decided =>
    /\ items[i].reviewed_by # about[i].by
    /\ about[i].draft # None =>
         \E ctx \in Contexts : LET d == drafts[about[i].draft] IN
           /\ ctx.user = items[i].reviewed_by
           /\ ReviewerGroup(d.manager) \in ctx.groups /\ Authorized(d.access, ctx)

(* Once escalate_safety has returned, every imminent signal of the project *)
(* has an item of its own for review.                                      *)
ImminentEscalated ==
  \A d \in DraftIds : escalating[d].by # None /\ escalating[d].todo = <<>> =>
    \A r \in library : SourceOf(drafts[d], r) =>
      \A s \in DOMAIN r.safety : r.safety[s].severity = "imminent" =>
        \E i \in ItemIds : about[i].draft = d /\ about[i].signal = s
=============================================================================
