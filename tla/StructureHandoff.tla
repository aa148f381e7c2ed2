-------------------------- MODULE StructureHandoff ---------------------------
(***************************************************************************)
(* From a structure memo to an agreement: tessera_os/drafting.py over the  *)
(* structure engine (VentureStructure, CommercialTerms), the clause        *)
(* library (ClauseAssembly), the confirmations of numbers.py, the          *)
(* selections of terms.py and the review desk (ArtifactReview).            *)
(*                                                                         *)
(* A memo is computed from a request and from what people have confirmed   *)
(* and selected for the project so far.  Counsel accepts the memo.  Then   *)
(* the agreement is drafted from the request and from what is confirmed    *)
(* and selected by then.  The confirmations, the selections, the artifacts *)
(* and the queue are four databases, read one after the other.             *)
(***************************************************************************)
EXTENDS ArtifactReview, ClauseAssembly

CONSTANT
  Engagements  \* what a project may be about, see the assumption below

VARIABLES
  engagement,  \* the one this behaviour is about; it never changes
  now,         \* the clock, in days
  confirmed,   \* number_confirmations: a value for each label, by project
  selected,    \* menu_selections: an option for each area, by project
  stated,      \* history: the figures ever confirmed for a project
  chosen,      \* history: the options ever selected for a project
  memos,       \* what a structure memo was computed from and shows
  agreements   \* what an agreement was drafted from

StructureAgent == "structure_manager"
DraftingAgent  == "contract_manager"
Counsel        == "qualified_counsel"

(* An engagement: the requests made for its project, what was confirmed    *)
(* and selected before, and what people may confirm and select while it    *)
(* lasts, which is the BOUND on the clock.  A request carries the venture, *)
(* the questions it answers, the day its evidence was retrieved and how    *)
(* old that may be.                                                        *)
ASSUME HandoffAssumption ==
  /\ {StructureAgent, DraftingAgent} \subseteq Agents /\ Counsel \in Groups
  /\ None \notin Nat
  /\ \A e \in Engagements :
       /\ None \notin e.requests /\ e.days \in Nat
       /\ \A r \in e.requests :
            /\ r.project \in Projects
            /\ {r.retrieved, r.freshness, r.profile.active_principals,
                r.profile.passive_investors, r.profile.initial_capital} \subseteq Nat
       /\ e.confirmed \in [Labels -> Nat \cup {None}]
       /\ e.selected = [area \in MenuAreas |-> e.selected[area]]
       /\ \A d \in e.figures : d[1] \in Labels /\ d[2] \in Nat
       /\ \A d \in e.choices : d[1] \in MenuAreas /\ d[2] # None

termVars    == <<confirmed, selected, stated, chosen>>
handoffVars == <<engagement, now, termVars, memos, agreements>>
allVars     == <<deskVars, handoffVars>>

Keys == Tenants \X Projects
Key(ctx, r) == <<ctx.tenant, r.project>>

Recorded(f) == {<<x, f[x]>> : x \in {y \in DOMAIN f : f[y] # None}}

HandoffInit ==
  /\ DeskInit
  /\ engagement \in Engagements
  /\ now = 0
  /\ confirmed = [k \in Keys |-> engagement.confirmed]
  /\ selected = [k \in Keys |-> engagement.selected]
  /\ stated = [k \in Keys |-> Recorded(engagement.confirmed)]
  /\ chosen = [k \in Keys |-> Recorded(engagement.selected)]
  /\ memos = [a \in ArtifactIds |-> None]
  /\ agreements = [a \in ArtifactIds |-> None]

-----------------------------------------------------------------------------
(* What stands between a recommendation and an agreement.                  *)
Unresolved(r, threshold) ==
  \/ Conflicts(r.profile, threshold) # {}
  \/ ~(OpenQuestions(r.profile) \subseteq r.answers)

Undecided(p, figures, picks) ==
  Unconfirmed(p, figures, picks) # {} \/ Unselected(picks) # {}

Fresh(r) == now - r.retrieved <= r.freshness

(* recommend reads the confirmations ...                                   *)
RecommendRead(c, ctx, r) ==
  /\ jobs[c] = IdleJob
  /\ r.project \in ctx.projects
  /\ jobs' = [jobs EXCEPT ![c] = [phase |-> "recommend", ctx |-> ctx,
                request |-> r, figures |-> confirmed[Key(ctx, r)]]]
  /\ UNCHANGED <<items, artifacts, restarts, handoffVars>>

(* What the memo says: the chart, the control architecture under the       *)
(* threshold known by then, the positions and the options picked.          *)
Memo(r, figures, picks, refused) ==
  LET p         == r.profile
      threshold == ApprovalThreshold(p, figures)
  IN  [request |-> r, picks |-> picks, refused |-> refused,
       threshold |-> threshold, control |-> Control(p, threshold),
       chart |-> EntityLayers(p), positions |-> PositionAreas(p)]

(* ... then the selections, and saves the memo, refused or not.            *)
RecommendSave(c, a) ==
  /\ jobs[c].phase = "recommend"
  /\ LET r       == jobs[c].request
         ctx     == jobs[c].ctx
         figures == jobs[c].figures
         picks   == Picks(r.profile, selected[Key(ctx, r)])
         refused == \/ ~Fresh(r)
                    \/ Unresolved(r, ApprovalThreshold(r.profile, figures))
                    \/ Undecided(r.profile, figures, picks)
     IN  /\ Save(a, NewArtifact(ctx, r.project, StructureAgent, Counsel,
                      IF refused THEN "insufficient_evidence" ELSE "draft"))
         /\ memos' = [memos EXCEPT ![a] = Memo(r, figures, picks, refused)]
  /\ Finish(c)
  /\ UNCHANGED <<items, restarts, engagement, now, termVars, agreements>>

-----------------------------------------------------------------------------
\* Mutant of Eligible: only the status is asked for a refusal.
EligibleByStatus(a, r) ==
  /\ memos[a] # None
  /\ memos[a].request = r
  /\ artifacts[a].status # "insufficient_evidence"

(* The memo offered for a hand-off is of the same request and carries no   *)
(* refusal.                                                                *)
Eligible(a, r) ==
  /\ memos[a] # None
  /\ memos[a].request = r
  /\ artifacts[a].status # "insufficient_evidence"
  /\ ~memos[a].refused

\* A hand-off of the memo a, reviewed as i.
Hold(phase, ctx, r, a, i) ==
  [phase |-> phase, ctx |-> ctx, request |-> r, id |-> a, item |-> i]

(* to_draft_request reads the artifact ...                                 *)
HandoffRead(c, ctx, a, r) ==
  /\ jobs[c] = IdleJob
  /\ r.project \in ctx.projects
  /\ Exists(a) /\ InArtifactScope(a, ctx)
  /\ artifacts[a].project = r.project
  /\ Eligible(a, r)
  /\ artifacts[a].item # None
  /\ jobs' = [jobs EXCEPT ![c] = Hold("review", ctx, r, a, artifacts[a].item)]
  /\ UNCHANGED <<items, artifacts, restarts, handoffVars>>

(* ... then the review item it is linked to ...                            *)
HandoffReview(c) ==
  /\ jobs[c].phase = "review"
  /\ IF items[jobs[c].item].status = "accepted"
       THEN jobs' = [jobs EXCEPT ![c] = Hold("figures", jobs[c].ctx,
                       jobs[c].request, jobs[c].id, jobs[c].item)]
       ELSE Finish(c)
  /\ UNCHANGED <<items, artifacts, restarts, handoffVars>>

(* ... then the confirmations ...                                          *)
HandoffFigures(c) ==
  /\ jobs[c].phase = "figures"
  /\ jobs' = [jobs EXCEPT ![c] = [phase |-> "draft", ctx |-> jobs[c].ctx,
                request |-> jobs[c].request, id |-> jobs[c].id, item |-> jobs[c].item,
                figures |-> confirmed[Key(jobs[c].ctx, jobs[c].request)]]]
  /\ UNCHANGED <<items, artifacts, restarts, handoffVars>>

(* The request for a draft is made when nothing is open and the library    *)
(* has every clause the memo promises and the document cannot be without.  *)
Draftable(r, figures, picks) ==
  LET p         == r.profile
      deal      == DealProfile(p, picks)
      threshold == ApprovalThreshold(p, figures)
  IN  /\ ~Unresolved(r, threshold)
      /\ ~Undecided(p, figures, picks)
      /\ Unmet(p, threshold, Sections(deal)) = {}
      /\ MissingEssentials(deal) = {}

(* The assembled agreement is saved as an artifact of its own (draft).     *)
SaveAgreement(b, ctx, r) ==
  Save(b, NewArtifact(ctx, r.project, DraftingAgent, Counsel, "draft"))

(* ... then the selections, and the agreement is drafted from them.  That  *)
(* it keeps the item by which its memo was accepted is history.            *)
HandoffDraft(c, b) ==
  /\ jobs[c].phase = "draft"
  /\ LET r     == jobs[c].request
         ctx   == jobs[c].ctx
         picks == Picks(r.profile, selected[Key(ctx, r)])
     IN  /\ Draftable(r, jobs[c].figures, picks)
         /\ SaveAgreement(b, ctx, r)
         /\ agreements' = [agreements EXCEPT ![b] =
              [source |-> jobs[c].id, item |-> jobs[c].item, key |-> Key(ctx, r),
               picks |-> picks, deal |-> DealProfile(r.profile, picks),
               values |-> DerivedValues(r.profile, jobs[c].figures, picks)]]
  /\ Finish(c)
  /\ UNCHANGED <<items, restarts, engagement, now, termVars, memos>>

HandoffRefused(c) ==
  /\ jobs[c].phase = "draft"
  /\ LET r == jobs[c].request IN
       ~Draftable(r, jobs[c].figures,
                  Picks(r.profile, selected[Key(jobs[c].ctx, r)]))
  /\ Finish(c)
  /\ UNCHANGED <<items, artifacts, restarts, handoffVars>>

-----------------------------------------------------------------------------
(* People decide figures and menus at any time.                            *)
ConfirmNumber(ctx, p, label, value) ==
  /\ p \in ctx.projects
  /\ confirmed' = [confirmed EXCEPT ![<<ctx.tenant, p>>][label] = value]
  /\ stated' = [stated EXCEPT ![<<ctx.tenant, p>>] = @ \cup {<<label, value>>}]
  /\ UNCHANGED <<deskVars, engagement, now, selected, chosen, memos, agreements>>

SelectMenuOption(ctx, p, area, option) ==
  /\ p \in ctx.projects
  /\ selected' = [selected EXCEPT ![<<ctx.tenant, p>>][area] = option]
  /\ chosen' = [chosen EXCEPT ![<<ctx.tenant, p>>] = @ \cup {<<area, option>>}]
  /\ UNCHANGED <<deskVars, engagement, now, confirmed, stated, memos, agreements>>

Tick ==
  /\ now < engagement.days
  /\ now' = now + 1
  /\ UNCHANGED <<deskVars, engagement, termVars, memos, agreements>>

HandoffStep(c) ==
  \/ \E a \in ArtifactIds : RecommendSave(c, a)
  \/ HandoffReview(c)
  \/ HandoffFigures(c)
  \/ \E b \in ArtifactIds : HandoffDraft(c, b)
  \/ HandoffRefused(c)

HandoffNext ==
  \/ ReviewNext /\ UNCHANGED handoffVars
  \/ \E c \in Callers : HandoffStep(c)
  \/ \E c \in Callers, ctx \in Contexts, r \in engagement.requests :
       RecommendRead(c, ctx, r)
  \/ \E c \in Callers, ctx \in Contexts, a \in ArtifactIds, r \in engagement.requests :
       HandoffRead(c, ctx, a, r)
  \/ \E ctx \in Contexts, p \in Projects, d \in engagement.figures :
       ConfirmNumber(ctx, p, d[1], d[2])
  \/ \E ctx \in Contexts, p \in Projects, d \in engagement.choices :
       SelectMenuOption(ctx, p, d[1], d[2])
  \/ Tick

HandoffSpec == HandoffInit /\ [][HandoffNext]_allVars

-----------------------------------------------------------------------------
(* Properties.                                                             *)

Drafts      == {b \in ArtifactIds : agreements[b] # None}
Memos       == {a \in ArtifactIds : memos[a] # None}
MemoOf(b)   == memos[agreements[b].source]
Paper(b)    == Sections(agreements[b].deal)

(* Confirmations, selections, memos and agreements keep their columns.     *)
HandoffTypeOK ==
  /\ now \in 0..engagement.days
  /\ confirmed \in [Keys -> [Labels -> Nat \cup {None}]]
  /\ \A k \in Keys : DOMAIN selected[k] = MenuAreas
  /\ \A a \in Memos : LET p == memos[a].request.profile IN
       /\ memos[a].request \in engagement.requests
       /\ memos[a].refused \in BOOLEAN
       /\ DOMAIN memos[a].picks = DOMAIN menus(p)
       /\ \A m \in DOMAIN memos[a].picks :
            memos[a].picks[m] \in DOMAIN menus(p)[m] \cup {None}
  /\ \A b \in Drafts : /\ agreements[b].source \in Memos /\ agreements[b].item \in ItemIds
                       /\ agreements[b].key \in Keys

(* Every agreement goes back to a memo that carried no refusal, and to a   *)
(* review of it that somebody in qualified counsel accepted as it stood:   *)
(* a refused, rejected, amended or still pending memo never becomes an     *)
(* agreement, whatever its status says and however its link has changed.   *)
(* (A reset may have removed the review since.  It does not say that the   *)
(* item was queued for that memo: the link alone says so.)                 *)
DraftsRestOnAcceptance ==
  \A b \in Drafts : LET review == items[agreements[b].item] IN
    /\ ~MemoOf(b).refused
    /\ review = DeletedItem \/
         /\ review.status = "accepted" /\ review.group = Counsel
         /\ \E ctx \in Contexts : /\ ctx.user = review.reviewed_by
                                  /\ Counsel \in ctx.groups

(* The values that go with an agreement and the options it picked were     *)
(* each decided by a person for this project, and every figure inside an   *)
(* option picked that the library can write into the text is among them:   *)
(* reading figures and options at different moments lets no proposal of    *)
(* the engine through and loses no decision.                               *)
OnlyDecidedTerms ==
  \A b \in Drafts :
    LET p     == MemoOf(b).request.profile
        key   == agreements[b].key
        picks == agreements[b].picks
    IN  /\ \A v \in agreements[b].values : \E d \in stated[key] :
             /\ d[2] = v[2]
             /\ \/ d[1] \in DOMAIN VariableOf /\ VariableOf[d[1]] = v[1]
                \/ <<d[1], v[1]>> \in
                     {<<Threshold, "ordinary_course_threshold">>,
                      <<Approval, "member_approval_threshold">>,
                      <<ShotgunDays, "buysell_election_days">>}
        /\ \A m \in DOMAIN picks : <<m, picks[m]>> \in chosen[key]
        /\ \A m \in DOMAIN picks :
             \A label \in DOMAIN menus(p)[m][picks[m]] \cap DOMAIN VariableOf :
               \E v \in agreements[b].values : v[1] = VariableOf[label]

(* The paper is run the way the accepted memo says: it has one clause on   *)
(* governance and one on authority, both for the memo's management model,  *)
(* and the law of the state where the chart's first entity is formed.  Its *)
(* deadlock clause is not compared: it goes by ownership alone, not by the *)
(* ladder of the memo.                                                     *)
PaperAgreesWithMemo ==
  \A b \in Drafts : LET memo == MemoOf(b) IN
    /\ \A category \in {"governance", "authority"} :
         Cardinality({s \in Paper(b) : s.clause.category = category}) = 1
    /\ \A s \in Paper(b) :
         memo.control.management_model \in s.clause.condition.management
    /\ agreements[b].deal.jurisdiction =
         IF \E e \in memo.chart : e.state = "Delaware" THEN "Delaware"
                                                       ELSE memo.request.profile.home_state

(* Whatever venture it is for, the paper cites only clauses it has, relies *)
(* only on terms it defines, leaves out no clause it must have, and has a  *)
(* place for every figure inside the valuation and the payment picked: the *)
(* library's variants and the menus' options are two lists kept in step.   *)
PaperSelfContained ==
  \A b \in Drafts :
    /\ BrokenReferences(Paper(b)) = {}
    /\ UndefinedTerms(Paper(b)) = {}
    /\ OmittedRequired(agreements[b].deal) = {}
    /\ \A m \in {"valuation", "payment"} :
         LET option == menus(MemoOf(b).request.profile)[m][agreements[b].picks[m]]
         IN  {VariableOf[label] : label \in DOMAIN option} \subseteq OpenFigures(Paper(b))

LicenceRoles == {"Licence holder", "Licence and qualifier entity",
                 "Liquor licence entity"}
RightsRoles  == {"IP holding entity", "Rights and library entity",
                 "Brand and recipe entity", "IP portfolio entity"}

\* Whose licence an entity is for: any, a contractor's, a liquor licence.
HoldsLicence(role, of) ==
  \/ role = "Licence holder"
  \/ role = "Licence and qualifier entity" /\ of = "contractor_licensing"
  \/ role = "Liquor licence entity" /\ of = "liquor"

\* The sector brings an entity for a licence the venture is not under.
OtherLicence(p) ==
  \/ p.activity = "skilled_trades" /\ p.regulated_regime # "contractor_licensing"
  \/ p.activity = "hospitality" /\ p.regulated_regime # "liquor"

(* What the sector adds to a chart and what the general rules add do not   *)
(* double: one entity is for a licence and it holds the licence of the     *)
(* venture's regime; one holds the rights; the business is in one          *)
(* operating company or in entities per unit, not in both; no two entities *)
(* have the same name.  Two exceptions are what the code does: the entity  *)
(* a trade or a restaurant has for its usual licence replaces the general  *)
(* one also under another regime, whose licence no entity then holds; and  *)
(* a regulated licensing business has two entities named Licensing.        *)
OneEntityPerJob ==
  \A a \in Memos :
    LET p     == memos[a].request.profile
        chart == memos[a].chart
        Holding(roles) == Cardinality({e \in chart : e.role \in roles})
        PerUnitRoles   == {spec.role : spec \in {s \in SectorSpecs(p) : s.perUnit}}
    IN  /\ is_regulated(p) =>
             /\ Holding(LicenceRoles) = 1
             /\ (\E e \in chart : HoldsLicence(e.role, p.regulated_regime)) <=> ~OtherLicence(p)
        /\ p.material_ip => Holding(RightsRoles) = 1
        /\ Holding({"OpCo"}) > 0 => Holding(PerUnitRoles) = 0
        /\ \A e, f \in chart : e.name = f.name =>
             e = f \/ (p.activity = "ip_licensing" /\ is_regulated(p))

\* The votes of so many of its equal owners carry a reserved matter.
Suffice(memo, votes) ==
  LET n == total_members(memo.request.profile)
  IN  IF memo.control.approval_rule = "unanimous"
        THEN votes = n ELSE votes * 100 >= n * memo.threshold

(* The memo promises a deadlock ladder exactly when, under the rule and    *)
(* the threshold it states, equal owners carry nothing over one dissent.   *)
(* Two are under unanimity whatever threshold people confirm, so theirs is *)
(* promised even at a threshold one of them reaches; a venture that is not *)
(* owned equally by two or more is promised none.                          *)
LadderIffDissentBlocks ==
  \A a \in Memos :
    LET p == memos[a].request.profile
        n == total_members(p)
    IN  memos[a].control.deadlock_ladder <=>
          /\ p.equal_ownership /\ n > 1
          /\ \A votes \in 1..(n - 1) : ~Suffice(memos[a], votes)

-----------------------------------------------------------------------------
(* What the repository says and the code does not do.                      *)

(* An agreement has the options of the memo that counsel accepted.         *)
AcceptedTermsAreDrafted ==
  \A b \in Drafts : \A m \in DOMAIN agreements[b].picks :
    agreements[b].picks[m] = MemoOf(b).picks[m]

(* A position of the memo that promises language is matched by a section   *)
(* of the paper that contains it, here the tag-along and the drag-along.   *)
PromisedLanguage ==
  \A b \in Drafts : "Tag-along and drag-along" \in MemoOf(b).positions =>
    \E s \in Paper(b) : s.clause.id = "drag-tag"
=============================================================================
