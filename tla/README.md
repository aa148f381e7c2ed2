# Tessera OS: specification, model checking and proofs

Tessera OS is a Python service (`src/src/tessera_os`, about 14,800 lines) that
drafts governance and legal artifacts for real-estate ventures, puts every
draft in front of a qualified human, and performs outside actions only through
a gate that needs a second person. This directory holds TLA+ models of the
parts of it that keep state, TLC configurations that check them on small
instances, and TLAPS proofs of the properties that matter most.

    tlc -workers 2 -config MCActionControl.cfg MCActionControl.tla
    tlapm ActionControlProofs.tla

`PROJECT.json` lists the runs with their properties, the mutants, the source
lines behind every definition, the findings, the hazards and the theorems.

## 1. The system

The service is one process (`maxReplicas: 1`, docs/DEPLOYMENT.md:83) that
serves FastAPI handlers on a pool of threads. Its durable state is a handful of
SQLite files opened through `sqlite_store.connect`, which holds one
process-wide lock from the opening of a connection to its close and rolls back
when the `with` block raises. So **one `with connection` block is one atomic
step, and everything a handler does outside such blocks interleaves**. Most of
what is hard here follows from that: handlers are rarely one block.

| component | files | state | operations | what makes it correct |
|---|---|---|---|---|
| Gated action control | automation.py | packets, tokens, receipts, dead letters, kill switches, audit rows; the adapter's records in memory | submit, approve, issue, execute, set_kill_switch | one approval by another person buys one outcome; nothing runs late, twice or unrecorded, or after its switch was thrown |
| Review queue | review.py | review items | submit, accept, reject, amend_and_accept, reset | a decision is made once, by a qualified person in scope who is not the creator |
| Artifact store and review desk | workspace.py, console.py | artifacts; copies of them in the threads | run, compare, draft agreement, submit, read and refresh, decide, reset | a decision an artifact shows is the reviewers'; its events are those of its status |
| Structure hand-off | drafting.py, numbers.py, terms.py | memos, confirmed figures, selected options | recommend, confirm, select, to_draft_request | an agreement is drafted from an accepted memo and decided terms |
| Structure engine | governance.py, sectors.py | none | recommend a structure for a profile: entities, control, exit, positions, menus, conflicts | each job has one entity; owners who can block have a way out; no rule doubles another |
| Sign-in and sessions | microsoft.py, portal.py, sessions.py, identity.py | pending flows, token cache and its file, signed cookies | begin, complete, token, disconnect, logout, session decoding | strangers are kept out; privileges come from the directory and end; users do not disturb one another |
| Runtime controls | runtime_controls.py, service.py | rate windows, budgets, traces, encrypted artifacts | check, set_budget, reserve_usage, record_trace, put, hold, purge, backup | limits are never exceeded, held artifacts never purged |
| Clauses and assembly | clauses.py | none | select and assemble clauses | the paper says what the memo says, and cites, defines and contains what it needs |
| Specialist managers | manager_controls.py, development.py, contracts.py, diligence.py, intelligence.py, construction.py, capital.py, engineering.py, assurance.py | a library of immutable records each; drafts, in the callers' hands | add, draft, submit, request a baseline change, escalate | a draft says what its record says; stale or single-sourced evidence supports nothing; who submits does not decide |
| Proposals, formation, diagnosis, digest | proposals.py, formation.py, diagnosis.py, digest.py | the service catalog | price, check, summarise | pure rules |
| Policy, routing, registry | policy.py, router.py, registry.py, orchestrator.py, adoption.py | the adoption ledger | evaluate, route, record | forbidden actions are refused whoever asks |
| Knowledge and Graph reader | knowledge.py, integrations.py | an index | search, fetch | ACLs are applied to every read |
| Intake, rendering, tools | intake.py, agreement_docx.py, cli.py, ... | none | parse, format, load | pure I/O |

How they interact: the console (console.py) is mounted on the portal
(portal.py), which gives it the user and groups of the session. The console
drafts through the workspace, queues review items, copies decisions back into
artifacts when somebody reads them, and drafts agreements from accepted memos.
Memo and agreement are both computed by the structure engine, the agreement
through the clause library, from what people have confirmed and selected by then.
The review queue is shared by everything that asks a human. The action gate
has its own packets and approvers and touches only its adapter.

What is hard: handlers that read, call another store and write back a whole
copy (submit_artifact, compare, refreshed_artifact); execute, which checks
before its transaction and touches memory inside it; one token cache shared by
all users and saved in two steps; requests lost at a restart between two steps;
privileges that travel in an eight-hour session; a memo that is accepted at one
time and used at another; and, in the engine, rules that are each simple and meet
only for one combination of sector, licence, owners and threshold. The `hazards` of PROJECT.json give the lines.

## 2. Modules

| module | models | uses |
|---|---|---|
| `GatedAction` | what the action gate promises: each packet moves none → asked → granted → done or given up, no key is done twice, and the world changes as a packet is done or by a fault that is counted | |
| `ActionControl` | automation.py | `GatedAction` (refinement) |
| `ActionControlProofs` | theorems about `ActionControl` | |
| `AbsentValue` | the value of a field that holds nothing | |
| `ReviewQueue` | review.py | EXTENDS `AbsentValue` |
| `ReviewQueueProofs` | theorems about `ReviewQueue` | |
| `ArtifactReview` | workspace.py and the endpoints of console.py | EXTENDS `ReviewQueue` |
| `ArtifactReviewProofs` | theorems about `ArtifactReview` | |
| `SectorPatterns` | sectors.py, as data | EXTENDS `AbsentValue` |
| `VentureStructure` | governance.py: entities, control, exit, positions, conflicts, open questions | EXTENDS `SectorPatterns` |
| `CommercialTerms` | governance.py: menus, figures and how decisions apply to them | EXTENDS `VentureStructure` |
| `ClauseAssembly` | clauses.py over the clause library, and the deal profile of governance.py | EXTENDS `CommercialTerms` |
| `EngineProofs` | theorems about the four | |
| `StructureHandoff` | drafting.py, numbers.py, terms.py | EXTENDS `ArtifactReview`, `ClauseAssembly` |
| `HandoffProofs` | theorems about `StructureHandoff` | `ArtifactReviewProofs`, `EngineProofs` |
| `PortalAccess` | microsoft.py, portal.py, sessions.py, identity.py | EXTENDS `ReviewQueue` |
| `PortalAccessProofs` | theorems about `PortalAccess` | `ReviewQueueProofs` |
| `RuntimeControls` | runtime_controls.py, the route endpoint of service.py | |
| `RuntimeControlsProofs` | theorems about `RuntimeControls` | |
| `ManagerControls` | manager_controls.py: scope, citations, staleness, rounding | EXTENDS `ReviewQueue` |
| `DevelopmentManager`, `EvidenceManagers`, `FigureManagers`, `ReleaseManagers` | the rules of development.py; contracts.py, diligence.py, intelligence.py; construction.py, capital.py; engineering.py, assurance.py, as operators | EXTEND `ManagerControls` |
| `SpecialistDesk` | the managers at work: libraries, drafts, submissions, decisions | EXTENDS the four |
| `SpecialistDeskProofs` | theorems about `SpecialistDesk` | `ReviewQueueProofs` |
| `MC*` | small instances for TLC | |

**ActionControl.** One variable per table of the store, plus `records` (the
adapter's memory), `calls` (the execute call each thread is in), `now`, and the
history variable `effects`, which counts how often a token's action changed a
record. submit, approve, issue and set_kill_switch are one action each.
execute is split where the code releases the lock: `ExecuteBegin` is everything
up to its transaction (clock, authorization, token, kill switch, binding to the
request), and the transaction ends in `ExecuteSucceed`, `ExecuteDeadLetter`,
`ExecuteReject` or `ExecuteCommitFails`. `Restart` loses calls and reloads the
adapter's fixture. Receipts, dead letters and spent tokens are sets of the
nonces whose transactions wrote them. Signatures and request hashes are
injective: a token *is* its claims, a hash *is* its request.

**ReviewQueue.** `items` by id. Accept, reject and amend differ in the status
they set and are one action, `Disposition`. The modules that extend it take
`Enqueue`, `Disposition` and `ResetQueue` and say what happens around them.

**ArtifactReview.** `artifacts` is the table; `jobs` has what each thread is
doing and the copy it holds. submit_artifact is `SubmitRead`, `SubmitEnqueue`,
`Store`; a read is `ViewRead`, `Refresh`, `Store`; compare is `CompareFirst`,
`CompareSecond` or `CompareFails`, `ComparePair`, `Store`; a reset is
`ResetArtifacts`, `ResetReviews`. What a run writes into a draft is abstracted
to the status it ends with.

**The engine** (`SectorPatterns`, `VentureStructure`, `CommercialTerms`). Pure
operators of a venture profile, a record of the VentureProfile fields that
decide something. The chart is a set of entities, each with its role, its name
and, for entities per unit, its number; names are kept as the pieces they are
put together from, because the code tells layers apart by name. Control, exit
and tax are the choices the memo makes; positions are names of areas. A menu
is a function from the labels of its options to the figures inside, each with
the value the engine proposes or `None`. Confirmations and selections are
functions from labels and areas to values. Nothing recurses: the engine is sets,
functions and set comprehension.

**ClauseAssembly.** The clauses of the library that an operating agreement can
have: category, condition, defined terms, terms relied on, and for each variant
its posture, the menu option it belongs to, the clauses it cites and the figures
it has a place for. `DealProfile` turns a profile and picks into what selects
clauses; `Sections` is the assembled paper.

**StructureHandoff.** Adds to the desk the clock, the confirmations, the
selections, what each memo was computed from and shows, and what each agreement
was drafted from. An *engagement* is what a project is about: the requests made
for it, what was decided before it, and what people may decide while it lasts;
each behaviour is about one. recommend reads the confirmations, then the
selections, and saves the memo; to_draft_request reads the memo, the review
item, the confirmations and the selections out of four databases. Each read is a
step, and decisions, reviews, resets and other requests fall between them.

**PortalAccess.** `flows`, `accounts`, `dirty` and `disk` are the broker's
memory, MSAL's has_state_changed and the cache file; `cookie` is the session in
each user's browser; `member` and `left` are the directory, outside the
program. A sign-in is `Callback`, `Exchange`, `Serialize`, `WriteCache`, then
`Admit`, or `Refuse`, `Wipe`, `Unlink`; a logout is the last two. A write or a
deletion of the file may fail and end the request (`FileFails`). Saving and
forgetting are two steps each because other threads and crashes come between.
Sessions authorize decisions on the queue this module extends.

**RuntimeControls.** `events` is the limiter's memory; `traces`, `budgets` and
`artifacts` are tables, `backups` the files. A request is `Arrive` (it reads
the clock), `Admit` or `Refuse` (under the limiter's lock), then `RecordTrace`,
`RecordFails` or `Decline`. `SetBudget` and `Reserve` are the writing
transaction and `ReadBack` the second one. `PurgeExpired` reads the clock and
`DeleteExpired` deletes; `Backup` looks for the file, and `CopyRows` or
`CopyFails` opens it. History variables: `dropped` keeps the stamps the limiter let
go and each stamp the time it was admitted at, `ledger` what was booked and the highest
limit, `answered` the traces of answered requests, `held` the holds answered.

**SpecialistDesk.** `library` holds the records of all managers, `drafts` what
callers hold, `about` what each review item was queued for and by whom,
`escalating` the running escalate_safety calls. The eight managers share one
life cycle (add, get, draft, submit) and differ in their rules: which datasets
their validators accept, which key a record takes, which drafts are refused,
and what a draft says. Those rules are the operators of the four rule modules,
in integers: days for dates, hundredths for rounded ratios, so that rounding
half to even and the comparisons after it are exact. A draft is stored with
the day it was made on, so that its content can be computed again.

## 3. Runs

Ids, nonces, flows and threads are symmetric model values (no symmetry in the
liveness run); `CHECK_DEADLOCK FALSE` everywhere, because the bounded supply of
ids, time and restarts runs out and the system may then stop.

| run | what it shows | bounds, and why they are enough |
|---|---|---|
| action_control | `OneOutcome`, `EffectsAccounted`, `EffectsChain`, `TrailTellsState`, `ApprovedByAnother`, `StartedBeforeExpiry`, `OnlyStragglers`, `ReceiptKeysUnique`, `ImplementsGatedAction`, `TypeOK` | an action, its rollback and a rival of it under its idempotency key in another project; 2 packets, 2 tokens, 2 threads, 2 people and an administrator, 2 faults, 2 rows of switches at a time (a call meets no more), each set and cleared at will, clock 0..1 with lifetimes of 1. Two tokens of one packet and two packets on one record or under one key are the smallest collisions; two faults allow a failed commit, a retry, and a restart |
| artifact_races | `DecisionBacked`, `EventsTellStatus`, `DeskTypeOK` | 2 artifacts, 2 items, 2 threads, 1 restart, live comparison on: every pair of handlers overlaps at every step |
| artifact_sync | `DecisionReachesArtifact` under fairness | 1 artifact, 2 items, 2 threads |
| handoff | `DraftsRestOnAcceptance`, `OnlyDecidedTerms`, `PaperAgreesWithMemo`, `PaperSelfContained`, `OneEntityPerJob`, `LadderIffDissentBlocks`, `HandoffTypeOK` | 875 engagements: 864 decided ones (9 sectors; no licence, a liquor, a contractor's or another one; 6 ownerships; with and without land, rights and an estate; approval at 60 and 75 per cent), two equal owners who confirmed 50 per cent, 9 ways to value and pay for an interest, and one of two ventures that share a figure and a menu whose labels they disagree on, still being decided. 2 artifacts, 1 item, 1 thread, clock 0..1: a memo and its agreement. The thresholds are on either side of what one dissent of two, of three and of four can block. A sector meets its usual licence and another one. Overlapping requests are left to the theorems, which hold for any number of threads |
| portal_access | `RecentMembersDecide`, `StrangersDropped`, `PortalTypeOK`, and of the queue `QualifiedDecisions`, `DecisionsFinal` | a partner and a stranger, 2 flows, 2 threads, 1 item, 1 fault (a restart, or a cache file that cannot be written or deleted), sessions of one hour and a clock 0..1, so that a session and a privilege both end |
| runtime_controls | `WindowBound`, `RefusalsEarned`, `AnswersTraced`, `UsageKept`, `HeldStays`, `KeptUntilExpiry`, `ControlsTypeOK` | 2 threads, 2 tenants, 1 correlation id so that ids collide, a limit of 2 per window of 1, 4 admissions and clock 0..2: two old stamps, a late one that prunes them and a straggler overrun the limit by one, which is `WindowBound`'s bound exactly. `Workloads` keeps requests, budgets and artifacts in separate behaviours, for their tables are never read together |
| specialist_desk | `Reproducible`, `SupportOnlyWanes`, `ReadyIsEvidenced`, `CovenantsWithinRounding`, `SubmitterNeverDecides`, `ImminentEscalated`, `SpecialistTypeOK` | for each manager, records on either side of each rule (dates known and unknown, one source and two, versions with and without a baseline, ratios at half a hundredth from limits in hundredths and in thousandths, paths inside and outside); 2 records of one manager, 2 drafts, 2 items, 3 users of whom one has another project, days 0..2 with windows of 1 and 2: two records collide on a key, two drafts of one record straddle the end of a window, and an escalation of two signals fills the queue |
| tenant_switch, submit_twice, handoff_terms, promised_language, logout | one property each that a document, comment or statement of the repository claims, violated by the code | as small as the violation allows |

Every property of a passing run has a mutant: an operator "Mutant of X" beside
X that makes X wrong the way a plausible bug would (a dropped guard, a swapped
column, a check not repeated inside the transaction). With the mutant in X's
place TLC finds that property violated.

**Fairness.** Only `FairDeskSpec` assumes any: a thread that has begun a
request finishes it (`WF` of each thread's own steps). The code justifies it:
no step of a request waits for another request, the lock is released at the end
of every block, and store errors end the request. Nothing obliges anyone to read an artifact, so the property is
about the decision once somebody is reading.

### What the code does and the repository says otherwise

1. **submit_twice.** Two overlapping submissions queue two review items; the
   endpoint is documented as idempotent.
2. **handoff_terms.** Options selected after counsel accepted the memo go into
   the agreement.
3. **promised_language.** Equal owners who mean to sell are promised a
   drag-along; the clause that has one is only for unequal owners, and the check
   that every promise has its section goes by category, which another clause
   of the category satisfies.
4. **logout.** Logging out disconnects every user of the shared token cache.
5. **tenant_switch.** A kill switch of the whole tenant does not stop the actions
   of a type that has a row of its own, even a cleared one: only the first of
   the two rows by name is read (automation.py:390), while execution is
   said to be "disabled for a workflow or tenant" (automation.py:37).

Met on the way and stated by no run.

*The action gate.* execute's kill-switch check can be overtaken by the switch
(`OnlyStragglers` says by how much). An approved action can be refused as
"already executed" when another project used its key. approve marks a late packet
EXPIRED and raises inside the same transaction, which undoes the mark
(automation.py:339).

*Reviews and requests.* The console names the drafting *agent* as the item's
creator (console.py:912), so the queue's separation of duties never meets the
person who asked for the draft. A retried route request with the same correlation
id fails, because the id is the traces' primary key. A comparison writes back
the draft it read before it asked a model (workspace.py:403), and an overlapping
submission the draft it read first: either takes a link, a submission or a
decision stored meanwhile away together with its events. `EventsTellStatus`
speaks of the status that is left and does not forbid it.

*Sign-in.* Of two overlapping saves of the token cache the older contents can be
what stays on disk. A save that fails ends the sign-in before anybody looks whose
account it was (portal.py:197-204), and the account stays in memory; a file cut
short keeps the portal from starting again (`FileFails`).

*Memo and paper.* to_draft_request never looks at the age of the evidence. The paper of a venture is at the protective posture whenever
it can be drafted at all (`ProtectivePaper`): only institutional money reaches
another one, and that is always a conflict. Four of the six conflicts
`_conflicts` looks for cannot occur (`LiveConflicts`). At the protective posture
the paper contains a preferred return with promote, a shotgun and a capital call
although nobody chose them, the restrictive covenants though the memo
recommends none yet, and the estate transfer clause for everybody. Four equal members who approve by 80 per cent
are promised a ladder whose clause stops at three members, so that the hand-off
is refused after counsel has accepted; three members at 60 per cent have the
ladder in the paper though the memo says they need none. The confirmed member
approval threshold, default loan rate and capital call days have no place in any
clause, and derived_values never fill a draft. A confirmed promote fills
`residual_split` (governance.py:531), the split after the promote. A regulated
ip_licensing venture gets two entities of one name. A trade or a restaurant under
another regime than its usual one has only the entity for the usual licence
(sectors.py:268, governance.py:1020), so that nothing holds its own.
`OneEntityPerJob` names both as its exceptions: `OtherLicence` is the exact
condition under which no entity holds the regime's licence.

*Managers and knowledge.* A stage gate looks its records up by id over four
lists, so that two of one id shadow each other (development.py:420). A contract
review tests the age of what the clauses cite and not of what the playbook
rules cite (contracts.py:136). An engineering packet can put a change set into a
workspace it was not made for, whose allowed paths then gate it
(engineering.py:145, where add compares the two at line 132). A covenant is
compared with a ratio rounded to hundredths (capital.py:152-164), whatever the
precision of its limit: with a minimum of 1.254 a ratio of 1.2545 is reported
breached. A library of
proposals replaces an entry added again under the same id and version
(proposals.py:237-247), which the specialists' libraries refuse.
The rule of trust zones (identity.py:169) never runs in the service:
console.py:498 builds the workspace without a zone policy, and nothing sets the
project an evidence comes from.

## 4. Proofs

The theorems hold for every value of the constants that satisfies the module's
named ASSUMEs: absent values differ from present ones; lifetimes and retention
periods are positive; amounts and the bounds on time and faults are natural;
everybody's tenant is a tenant; tokens and threads are finitely many, of which
there is one at least; the adapter's fixture has a record for each target
(`ConstantsAssumption`, `QueueAssumption`, `DeskAssumption`,
`ControlsAssumption`, `SpecialistAssumption`). `ClauseAssumption` says that the
absent option is none of those a variant is for. `PortalAssumption` adds that the
sessions of mapped groups are among the queue's contexts and that no review item
asks for the group every signed-in user has; `HandoffAssumption`, that an
engagement's figures are natural numbers and its menus the engine's;
`RecordsAssumption`, that the specialists' dates are days or unknown, their
amounts integers and their tables finite; a covenant's limit is an integer in a
unit that is any fraction of a hundredth (`LimitAssumption`), which is every
Decimal. `PatternsAssumption` says that no sector's pattern is the absent value.

| theorem | states |
|---|---|
| `ActionControlProofs!Typing` | `Spec => []TypeOK` |
| `ActionControlProofs!Settlement` | `Spec => []OneOutcome` |
| `ActionControlProofs!KeyUniqueness` | `Spec => []ReceiptKeysUnique` |
| `ActionControlProofs!Timeliness` | `Spec => []StartedBeforeExpiry` |
| `ActionControlProofs!Audited` | `Spec => []TrailTellsState` |
| `ActionControlProofs!Approval` | `Spec => []ApprovedByAnother` |
| `ActionControlProofs!Accounting` | `Spec => []EffectsAccounted` |
| `ActionControlProofs!Chain` | `Spec => []EffectsChain` |
| `ActionControlProofs!SwitchesStop` | `Spec => []OnlyStragglers` |
| `ActionControlProofs!Refinement` | `Spec => ImplementsGatedAction`, failed commits and restarts included |
| `ReviewQueueProofs!QueueTyping` | `QueueSpec => []QueueTypeOK` |
| `ReviewQueueProofs!Qualification` | `QueueSpec => []QualifiedDecisions` |
| `ReviewQueueProofs!Finality` | `QueueSpec => DecisionsFinal` |
| `ArtifactReviewProofs!DeskTyping` | `DeskSpec => []DeskTypeOK` |
| `ArtifactReviewProofs!Backing` | `DeskSpec => []DecisionBacked` |
| `ArtifactReviewProofs!History` | `DeskSpec => []EventsTellStatus` |
| `ArtifactReviewProofs!DeskQueue` | `DeskSpec => QueueSpec` |
| `ArtifactReviewProofs!DeskDecisions` | `DeskSpec => []QualifiedDecisions /\ DecisionsFinal` |
| `EngineProofs!ThresholdBand` | the proposed threshold stays between floor and cap for every capital |
| `EngineProofs!LiveConflicts` | at most two of the six conflicts can occur |
| `EngineProofs!ProtectivePaper` | a paper without a conflict is protective |
| `EngineProofs!NearestProtects` | the variant chosen protects at least as asked, or as much as any |
| `HandoffProofs!HandoffTyping` | `HandoffSpec => []HandoffTypeOK` |
| `HandoffProofs!Acceptance` | `HandoffSpec => []DraftsRestOnAcceptance` |
| `HandoffProofs!DecidedTerms` | `HandoffSpec => []OnlyDecidedTerms` |
| `HandoffProofs!Ladder` | `HandoffSpec => []LadderIffDissentBlocks` |
| `HandoffProofs!OneEntity` | `HandoffSpec => []OneEntityPerJob` |
| `HandoffProofs!PaperComplete` | `HandoffSpec => []PaperSelfContained` |
| `HandoffProofs!PaperAgrees` | `HandoffSpec => []PaperAgreesWithMemo` |
| `HandoffProofs!HandoffQueue` | `HandoffSpec => QueueSpec` |
| `HandoffProofs!HandoffDesk` | `HandoffSpec => [](DecisionBacked /\ EventsTellStatus)` |
| `PortalAccessProofs!PortalTyping` | `PortalSpec => []PortalTypeOK` |
| `PortalAccessProofs!PortalQueue` | `PortalSpec => QueueSpec` |
| `PortalAccessProofs!PortalDecisions` | `PortalSpec => []QualifiedDecisions /\ DecisionsFinal` |
| `PortalAccessProofs!Recency` | `PortalSpec => RecentMembersDecide` |
| `PortalAccessProofs!Strangers` | `PortalSpec => []StrangersDropped` |
| `RuntimeControlsProofs!Ledger` | `Spec => []UsageKept` |
| `RuntimeControlsProofs!Holds` | `Spec => []HeldStays` |
| `RuntimeControlsProofs!Retention` | `Spec => KeptUntilExpiry` |
| `RuntimeControlsProofs!Tracing` | `Spec => []AnswersTraced` |
| `RuntimeControlsProofs!Windows` | `Spec => []WindowBound` |
| `RuntimeControlsProofs!Refusals` | `Spec => RefusalsEarned` |
| `RuntimeControlsProofs!ControlsTyping` | `Spec => []ControlsTypeOK` |
| `SpecialistDeskProofs!Separation` | `Spec => []SubmitterNeverDecides` |
| `SpecialistDeskProofs!Reproduction` | `Spec => []Reproducible` |
| `SpecialistDeskProofs!SpecialistTyping` | `Spec => []SpecialistTypeOK` |
| `SpecialistDeskProofs!Waning` | `Spec => []SupportOnlyWanes` |
| `SpecialistDeskProofs!Readiness` | `Spec => []ReadyIsEvidenced` |
| `SpecialistDeskProofs!Rounding` | `Spec => []CovenantsWithinRounding` |
| `SpecialistDeskProofs!Escalation` | `Spec => []ImminentEscalated` |
| `SpecialistDeskProofs!SpecialistQueue` | `Spec => QueueSpec` |
| `SpecialistDeskProofs!SpecialistDecisions` | `Spec => []QualifiedDecisions /\ DecisionsFinal` |

**The action gate.** `OneOutcome` is not inductive: that two tokens of one packet
are never both spent needs to know that a packet is consumed exactly when one of
them is, and a call in flight must be known to hold an issued token of the
packet and request it was checked against. `IInv` adds those facts (`PacketInv`,
`TokenInv`, `SpentInv`, `CallInv`); each action preserves each conjunct it can
disturb, and the first four theorems are corollaries. The proof uses that
`TokenAccepted` and `AlreadyExecuted` are evaluated inside the transaction; the
mutants that skip one of them are exactly where it breaks. The audit rows need
`TrailInv`: the rows a packet has in each state, and that each grant among them is
that of its token. `Steady` says what a step leaves of a packet it is not about,
so that one lemma covers the packets every action passes by. For the switches,
`SwitchInv` says that a call under way began no later than now, so that a row
written after its checks is no older. `SwitchesStop` is about the two
rows themselves and not about the one the code picks: a '*' row stops only types
without a row, which is all that can be proved, as run tenant_switch shows. The
refinement maps Submit, Approve, ExecuteSucceed and ExecuteDeadLetter to Ask,
Grant, Perform and GiveUp, ExecuteCommitFails and Restart to Fault, and every
other step to a stutter; it needs `IInv` and `ChangedIssued`, that only tokens
there are have changed a record.

What a fault leaves behind is what `AccountInv` bounds: the total of the effects
is at most the receipts and the faults together, because each step that
changes a record adds to one of the two. `ChainInv` is the balance of
`EffectsChain` over every value there is and all tokens, those without an effect
weighing nothing; an applied action leaves the value it expected, which the
adapter has just compared with the record, and enters the one it sets. Both need
sums over sets that grow by an element. A total is the community modules' fold,
whose recursion is shown to have a solution on a finite set (`SummingExists`, by
looking at the least size at which it would not), and then to be independent of
the order (`TotalAny`), by looking at a smallest subset where it would not be
(`Shrinking`).

**The desk.** What threads hold are copies, so an invariant of the table alone
is not inductive: a copy may be stored over anything later. `DeskInv` demands of
every copy what it demands of the table (`Good`: its events tell its status, its
decision is that of its item, the item it links to was routed to its group) and
that it is a copy of the artifact it will replace (`CopyOf`). Two relations then
carry it through any step: items keep their decisions (`Kept`), and artifacts are
only replaced by what they can become (`Carried`).

**The queue and its users.** `ReviewQueue` is the abstract specification of
everything that asks a human, and the four modules that extend it are shown to
implement it: the desk, the hand-off, the portal and the specialists each make
only steps of `QueueNext` or leave the items alone (`DeskQueue`, `HandoffQueue`,
`PortalQueue`, `SpecialistQueue`). What has to be shown is that each queues items
with columns the queue accepts and decides in sessions there are: a thread of the
desk queues from a copy, an escalation in the name of who began it. The
queue's theorems then hold of all four.

**The hand-off.** What a thread has read stays true (`TermJobOK`), because an
item accepted stays accepted, a memo is written once (`MemosKept`) and the
histories of decisions only grow. `DecidedTerms` then says of the engine that
picking, deriving and filling in loses no decided figure and invents none
(`Matched`), for every menu. `Ladder` is stated with the memo's own rule and
threshold (`Suffice`): under unanimity no number short of all carries anything,
which is why two equal owners have a ladder whatever they confirm; otherwise it
is arithmetic, rounding up a share of members, as `LadderNeeded` states it, and
if all but one do not carry a matter, fewer do not (`AllButOneSuffice`).

`OneEntity` goes through the chart's layers: a layer of a sector does the job
of a general one exactly when it replaces it, and at most one layer does, which
the sectors' data say one by one (`SectorOnce`); the chart has the general
layers not replaced and the sector's (`HeldOnce`, `NotBoth`). Whose licence the
one entity holds is read off the layer that is there (`LicenceHeld`). Names are
told apart by their stems: the general ones, and in each sector those of its
layers (`SectorNames`), so that two entities of one name are of one kind and one
number (`ChartKinds`, `StemsDiffer`, `ChartNames`). `PaperComplete`
and `PaperAgrees` are about the library, clause by clause (`Fits`: what its
variants cite, and that one of them is for every option). Ordinary clauses cite
and rely on only what is in every paper that has a section on governance
(`OrdinaryClauses`, `Reach`); of the governance and authority clauses there is
one for each management model, and the one for the deal's applies
(`OneGoverning`). A figure of a menu has its place because the option picked
selects the variant that has one (`FiguresPlaced`). `MemoOK` and `PaperOK`
carry this from the hand-off's steps: a memo's chart is its venture's, and an
agreement is drafted only when nothing essential is missing.

**The portal.** `Recency` rests on `CookieInv`: the groups of a session are
still the user's, or ended no earlier than a lifetime before the session does;
and `JobGroups`, that a sign-in in progress read its groups within the hour.
`Strangers` rests on `StrangerInv`: an account of a stranger is always watched
by the thread that let it in and has yet to turn it away. Both it and the
property speak of the time before a first restart or a first failed write of the
cache file, which can end that thread.

**Controls and managers.** `BudgetInv` adds to `UsageKept` that no limit is
above the highest one; `RetentionInv` adds to `HeldStays` that held rows have
their hold on and that a purge under way was stamped no later than now, which
is what `KeptUntilExpiry` needs of the wait between clock and deletion.
`JobInv` and `TraceInv` follow a request from the insert of its trace to its
answer.

`Windows` is the deepest of these. Once a stamp of a window was let go, some
request with a stamp past the window's end has been checked, so the clock is
past it too: no request arrives any more that could fall into it, and only
those that wait for the lock with an older stamp can be added. At that moment
the limiter held at most the limit, and at most one less than the threads wait.
`Closing` says so of each window, counting what was admitted and who waits
together (`CheckCloses`); while nothing of a window was let go, all of it is
still in the limiter's list, which is never longer than the limit (`KeyInv`).
The histories need not be in order of their stamps, only of their admissions
(`Ordered`), and this is also what `Refusals` needs: the head kept by the
pruning is no older than the window, so everything behind it was admitted after
the window began.

In `SpecialistDeskProofs`, `DeskInv` adds to the queue's invariant that an item
names its submitter as creator and carries the scope and the reviewer group of
the draft it is about, which with `QualifiedDecisions` gives `Separation`;
`LibraryInv` adds that keys are unique, without which a change set named by its
id could become another one when the library grows. Outside engineering the
record with a draft's key is therefore the one it was computed from
(`OneSource`), so that the rules below are about one record and one day.
`Waning` needs that evidence fresh on a day was fresh on the days before
(`FreshBefore`, `GateBefore`). `Rounding` is arithmetic on `HalfEven`: rounding
moves a ratio by at most half a hundredth (`RoundingError`), so a comparison
with a limit of any precision errs by no more (`RoundedLimit`), and one in whole
hundredths is passed by the rounded ratio only if it is passed by the ratio
(`WholeLimits`). `Readiness` needs
that of the register's entries under one id there is a last one, the one the
gate reads (`LastEntry`). `Escalation` rests on `Pursued`: a call still has, or
has queued, each imminent signal of its draft; it uses that a finite set is
listed without loss (`ListsAll`), and that what a queued item was for is never
overwritten.

Every invariant and action property that a passing run checks has a theorem.
Only model-checked is liveness, `DecisionReachesArtifact`: fairness and ENABLED
are outside what the installed provers do. The library's induction theorems are
also outside, so that sums and lists are reasoned about by a smallest
counterexample. The five disagreements of section 3 are violations, which TLC
exhibits.

## 5. Abstractions

- **Clocks.** A handler reads the clock before it waits for the lock; the model
  reads it in the same step, except in execute, the limiter and a purge, where
  the gap is what is modelled. One tick of `PortalAccess` is an hour and passes only between
  requests.
- **Hashes, signatures and encryption** are injective and never fail.
- **Lists of artifacts.** Reading a list refreshes its members one by one; the
  model refreshes each by a request of its own. In the code an artifact deleted in
  between ends the whole list with a KeyError, and those after it wait for the
  next reader.
- **Decimals.** Divisions of amounts are exact before they are rounded to
  hundredths; the code keeps 28 digits.
- **One replica.** The lock files between processes in sqlite_store.py are not
  modelled. A restart never overlaps the process it replaces.
- **External.** Microsoft Entra (who signs in, which groups a token names,
  failing exchanges) and the live model of a comparison are nondeterministic. A
  refreshed token does not bring back an account that was removed meanwhile.
- **The sign-in redirect** reaches the portal's callback, the address that the
  configuration registers; the console's second callback is not modelled.
- **The engine's words.** Rationales, failure modes, the glossary and the tiers
  are text of the memo, and the formatting of amounts and percentages is left
  out; a reserved matter, a question or a position is its name, and two sources
  that mean the same one have one name. The fee menu has no caller.
- **The clause library** is that of operating agreements: other agreements take
  the same path over other clauses. Of a text the citations, terms and places
  for figures are kept.
- **The specialists' libraries** are filled with one record per call and hold one
  manager's records in a behaviour, because managers share nothing but the
  queue. Items of the desk are not reset: `ReviewQueue` models the reset.
- **Fixtures** seeded by resets have ids no artifact refers to.

## 6. Plan and what is left out

The modules were written in this order, the behaviour that decides most first:
`ActionControl` with `GatedAction`; `ReviewQueue`, `ArtifactReview`;
`StructureHandoff`; `PortalAccess`; `RuntimeControls`; `SpecialistDesk` and its
rule modules; then the engine and the clause library under the hand-off. Next
would be a module of `SqliteStore`'s lock and rollback, whose atomic blocks the
others assume.

### Not modelled

- **Proposals and formation** (proposals.py, formation.py): a fee is one product
  and a total one sum, and the checklist one filter, each a function of one
  input that tests cover case by case. A property of them would repeat the
  assignment it is about.
- **Policy, routing, registry, adoption** (policy.py, router.py, registry.py,
  orchestrator.py, adoption.py): decisions over configuration without state, and
  scores of keywords. The adoption ledger appends what people note, and changes
  only the label a position is shown under.
- **Knowledge index, Graph reader, trust zones** (knowledge.py, integrations.py,
  part of identity.py): an index in memory with a filter, and I/O; the zone rule
  is not reached by the service (section 3).
- **Diagnosis, digest, intake, rendering, command line, settings** read, parse
  and format. They keep no state a model would tell apart.
- **The per-user token broker** of microsoft.py, which nothing creates.
