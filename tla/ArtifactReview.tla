--------------------------- MODULE ArtifactReview ----------------------------
(***************************************************************************)
(* Draft artifacts and their human review in the console: the endpoints of *)
(* tessera_os/console.py over the artifact store of workspace.py and the   *)
(* queue of review.py.                                                     *)
(*                                                                         *)
(* The two stores are separate databases and every call to one is its own  *)
(* transaction.  A handler runs on a thread of the server's pool: it reads *)
(* an artifact into memory, talks to the queue, changes its copy and       *)
(* writes the whole copy back.  `jobs` holds what each thread is doing;    *)
(* other handlers run between its steps, and a restart loses it.           *)
(***************************************************************************)
EXTENDS ReviewQueue, Naturals, Sequences, FiniteSets

CONSTANTS
  ArtifactIds,   \* uuid4 identities for artifacts
  Callers,       \* threads of the server's pool
  Agents,        \* agent_id of the specialists that draft
  Production,    \* TESSERA_ENV is production
  LiveEnabled,   \* TESSERA_PILOT_LIVE_DRAFTING is on
  MaxRestarts    \* BOUND on restarts

VARIABLES
  artifacts,     \* pilot_artifacts, by id
  jobs,          \* the request each thread is handling
  restarts

deskVars == <<items, artifacts, jobs, restarts>>

(* Drafting agents are among the identities an item may name.              *)
ASSUME DeskAssumption ==
  /\ Agents \subseteq Creators
  /\ None \notin ArtifactIds
  /\ MaxRestarts \in Nat

NoArtifact      == [status |-> "none"]
DeletedArtifact == [status |-> "deleted"]

(* A stored artifact.  `events` keeps the kinds of its events in order.    *)
NewArtifact(ctx, project, agent, group, status) ==
  [status |-> status, tenant |-> ctx.tenant, project |-> project,
   agent |-> agent, group |-> group, item |-> None,
   amended_by |-> None, pair |-> None, events |-> <<"created">>]

(* What a run leaves: a draft, or one whose evidence does not carry it.    *)
Drafted == {"draft", "insufficient_evidence"}

IdleJob == [phase |-> "idle"]
Finish(c) == jobs' = [jobs EXCEPT ![c] = IdleJob]
Continue(c, phase, id, copy) ==
  jobs' = [jobs EXCEPT ![c] = [phase |-> phase, id |-> id, copy |-> copy]]

Exists(a) == artifacts[a] \notin {NoArtifact, DeletedArtifact}

InArtifactScope(a, ctx) ==
  /\ artifacts[a].tenant = ctx.tenant
  /\ artifacts[a].project \in ctx.projects

DeskInit ==
  /\ QueueInit
  /\ artifacts = [a \in ArtifactIds |-> NoArtifact]
  /\ jobs = [c \in Callers |-> IdleJob]
  /\ restarts = 0

-----------------------------------------------------------------------------
(* A draft that was produced is saved.                                     *)
Save(a, artifact) ==
  /\ artifacts[a] = NoArtifact
  /\ artifacts' = [artifacts EXCEPT ![a] = artifact]

RunWorkspace(ctx, a, project, agent, group, status) ==
  /\ ~Production
  /\ project \in ctx.projects
  /\ Save(a, NewArtifact(ctx, project, agent, group, status))
  /\ UNCHANGED <<items, jobs, restarts>>

(* The agreement endpoint drafts in production too.                        *)
DraftAgreement(ctx, a, project, agent, group) ==
  /\ project \in ctx.projects
  /\ Save(a, NewArtifact(ctx, project, agent, group, "draft"))
  /\ UNCHANGED <<items, jobs, restarts>>

(* compare: a deterministic run and a live one, each saved, then both      *)
(* written again from the copies kept in memory, now naming each other.    *)
(* The live run asks a model outside the process and may fail.             *)
CompareFirst(c, ctx, a, project, agent, group, status) ==
  /\ ~Production
  /\ jobs[c] = IdleJob
  /\ project \in ctx.projects
  /\ Save(a, NewArtifact(ctx, project, agent, group, status))
  /\ Continue(c, "compare", a, artifacts'[a])
  /\ UNCHANGED <<items, restarts>>

CompareSecond(c, b, status) ==
  /\ jobs[c].phase = "compare"
  /\ LiveEnabled
  /\ Save(b, [jobs[c].copy EXCEPT !.status = status])
  /\ jobs' = [jobs EXCEPT ![c] = [phase |-> "pair", id |-> jobs[c].id,
       copy |-> [jobs[c].copy EXCEPT !.pair = b], other |-> b,
       next |-> [artifacts'[b] EXCEPT !.pair = jobs[c].id]]]
  /\ UNCHANGED <<items, restarts>>

CompareFails(c) ==
  /\ jobs[c].phase = "compare"
  /\ Finish(c)
  /\ UNCHANGED <<items, artifacts, restarts>>

(* store.update: the whole row is replaced when it is still there, and     *)
(* KeyError ends the request when it is not.                               *)
Update(a, copy) ==
  artifacts' = IF Exists(a) THEN [artifacts EXCEPT ![a] = copy] ELSE artifacts

ComparePair(c) ==
  /\ jobs[c].phase = "pair"
  /\ Update(jobs[c].id, jobs[c].copy)
  /\ IF Exists(jobs[c].id) THEN Continue(c, "store", jobs[c].other, jobs[c].next)
                           ELSE Finish(c)
  /\ UNCHANGED <<items, restarts>>

-----------------------------------------------------------------------------
AlreadySubmitted(artifact) == artifact.item # None

(* submit_artifact reads the artifact.                                     *)
SubmitRead(c, ctx, a) ==
  /\ jobs[c] = IdleJob
  /\ Exists(a) /\ InArtifactScope(a, ctx)
  /\ Continue(c, IF AlreadySubmitted(artifacts[a]) THEN "refresh" ELSE "enqueue",
              a, artifacts[a])
  /\ UNCHANGED <<items, artifacts, restarts>>

Submitted(copy, i) ==
  [copy EXCEPT !.status = "submitted", !.item = i,
               !.events = Append(@, "submitted_for_review")]

(* It queues a review item in the name of the drafting agent, and marks    *)
(* its copy as submitted.                                                  *)
SubmitEnqueue(c, i) ==
  /\ jobs[c].phase = "enqueue"
  /\ LET copy == jobs[c].copy IN
       /\ Enqueue(i, copy.tenant, copy.project, copy.agent, copy.group)
       /\ Continue(c, "store", jobs[c].id, Submitted(copy, i))
  /\ UNCHANGED <<artifacts, restarts>>

(* The copy a thread has finished with is written back.                    *)
Store(c) ==
  /\ jobs[c].phase = "store"
  /\ Update(jobs[c].id, jobs[c].copy)
  /\ Finish(c)
  /\ UNCHANGED <<items, restarts>>

(* Reading one artifact or a list of them refreshes each that is linked.   *)
ViewRead(c, ctx, a) ==
  /\ jobs[c] = IdleJob
  /\ Exists(a) /\ InArtifactScope(a, ctx)
  /\ artifacts[a].item # None
  /\ Continue(c, "refresh", a, artifacts[a])
  /\ UNCHANGED <<items, artifacts, restarts>>

\* Mutants of DecisionToCopy: the shown status is not compared; amended
\* decisions are forgotten.
DecidedItem(copy) == items[copy.item].status \in Decided
AcceptedOrRejected(copy) ==
  /\ items[copy.item].status \in {"accepted", "rejected"}
  /\ items[copy.item].status # copy.status

(* The item of the copy has a decision the copy does not show yet.         *)
DecisionToCopy(copy) ==
  /\ items[copy.item].status \in Decided
  /\ items[copy.item].status # copy.status

\* Mutants of WithDecision: whoever decided counts as amender; the wrong
\* column is copied.
ReviewerAmends(copy) ==
  LET item == items[copy.item] IN
    [copy EXCEPT !.status = item.status, !.amended_by = item.reviewed_by,
                 !.events = Append(@, item.status)]
GroupAmends(copy) ==
  LET item == items[copy.item] IN
    [copy EXCEPT !.status = item.status, !.amended_by = item.group,
                 !.events = Append(@, item.status)]

WithDecision(copy) ==
  LET item == items[copy.item] IN
    [copy EXCEPT !.status = item.status,
                 !.amended_by = IF item.status = "amended_and_accepted"
                                  THEN item.reviewed_by ELSE None,
                 !.events = Append(@, item.status)]

(* refreshed_artifact, once the artifact has been read: an item that is    *)
(* gone, pending or already shown leaves it as it is.                      *)
Refresh(c) ==
  /\ jobs[c].phase = "refresh"
  /\ IF DecisionToCopy(jobs[c].copy)
       THEN Continue(c, "store", jobs[c].id, WithDecision(jobs[c].copy))
       ELSE Finish(c)
  /\ UNCHANGED <<items, artifacts, restarts>>

Decide(ctx, i, status) ==
  /\ Disposition(ctx, i, status)
  /\ UNCHANGED <<artifacts, jobs, restarts>>

(* reset_workspace deletes the caller's artifacts, then the queue.         *)
ResetArtifacts(c, ctx) ==
  /\ ~Production
  /\ jobs[c] = IdleJob
  /\ ctx.tenant = Synthetic
  /\ artifacts' = [a \in ArtifactIds |->
       IF Exists(a) /\ InArtifactScope(a, ctx) THEN DeletedArtifact
                                                ELSE artifacts[a]]
  /\ Continue(c, "reset", None, ctx)
  /\ UNCHANGED <<items, restarts>>

ResetReviews(c) ==
  /\ jobs[c].phase = "reset"
  /\ ResetQueue(jobs[c].copy)
  /\ Finish(c)
  /\ UNCHANGED <<artifacts, restarts>>

(* The process is replaced; the stores stay, requests in progress do not.  *)
Restart ==
  /\ restarts < MaxRestarts
  /\ restarts' = restarts + 1
  /\ jobs' = [c \in Callers |-> IdleJob]
  /\ UNCHANGED <<items, artifacts>>

-----------------------------------------------------------------------------
(* The steps of a request in progress.                                     *)
JobStep(c) ==
  \/ \E b \in ArtifactIds, s \in Drafted : CompareSecond(c, b, s)
  \/ CompareFails(c)
  \/ ComparePair(c)
  \/ \E i \in ItemIds : SubmitEnqueue(c, i)
  \/ Store(c)
  \/ Refresh(c)
  \/ ResetReviews(c)

(* Everything but the making of drafts.                                    *)
ReviewNext ==
  \/ \E c \in Callers : JobStep(c)
  \/ \E c \in Callers, ctx \in Contexts, a \in ArtifactIds :
       SubmitRead(c, ctx, a) \/ ViewRead(c, ctx, a)
  \/ \E ctx \in Contexts, i \in ItemIds, s \in Decided : Decide(ctx, i, s)
  \/ \E c \in Callers, ctx \in Contexts : ResetArtifacts(c, ctx)
  \/ Restart

DeskNext ==
  \/ ReviewNext
  \/ \E ctx \in Contexts, a \in ArtifactIds, p \in Projects, g \in Agents,
        r \in Groups \cup {None}, s \in Drafted : RunWorkspace(ctx, a, p, g, r, s)
  \/ \E c \in Callers, ctx \in Contexts, a \in ArtifactIds, p \in Projects,
        g \in Agents, r \in Groups \cup {None}, s \in Drafted :
       CompareFirst(c, ctx, a, p, g, r, s)
  \/ \E ctx \in Contexts, a \in ArtifactIds, p \in Projects, g \in Agents,
        r \in Groups : DraftAgreement(ctx, a, p, g, r)

DeskSpec == DeskInit /\ [][DeskNext]_deskVars

(* A thread that has begun a request finishes it.                          *)
FairDeskSpec == DeskSpec /\ \A c \in Callers : WF_deskVars(JobStep(c))

-----------------------------------------------------------------------------
(* Properties.                                                             *)

Shown     == Drafted \cup {"submitted"} \cup Decided
EventKind == {"created", "submitted_for_review"} \cup Decided
Artifact  == [status : Shown, tenant : Tenants, project : Projects,
              agent : Agents, group : Groups \cup {None},
              item : ItemIds \cup {None}, amended_by : Users \cup {None},
              pair : ArtifactIds \cup {None}, events : Seq(EventKind)]
Phases    == {"idle", "compare", "pair", "enqueue", "refresh", "store", "reset"}

(* Every stored artifact, and every copy a thread holds, keeps its columns.*)
DeskTypeOK ==
  /\ QueueTypeOK
  /\ artifacts \in [ArtifactIds -> Artifact \cup {NoArtifact, DeletedArtifact}]
  /\ \A c \in Callers :
       /\ jobs[c].phase \in Phases
       /\ jobs[c].phase \in Phases \ {"idle", "reset"} =>
            jobs[c].id \in ArtifactIds /\ jobs[c].copy \in Artifact
  /\ restarts \in 0..MaxRestarts

(* An artifact shows a decision only when the review item it is linked to  *)
(* carries that decision, and names as its amender the one who amended it, *)
(* whatever stale copies were written over one another on the way there.   *)
(* After a reset the item may be gone.                                     *)
DecisionBacked ==
  \A a \in ArtifactIds : artifacts[a].status \in Decided =>
    LET item == items[artifacts[a].item] IN
      \/ item = DeletedItem
      \/ /\ artifacts[a].status = item.status
         /\ artifacts[a].amended_by =
              IF item.status = "amended_and_accepted" THEN item.reviewed_by
                                                      ELSE None

(* The events of an artifact are those of the status and link it shows,    *)
(* each once and in order: no interleaving writes a status with the events *)
(* of another.  It does not say that nothing is lost: the copy that a      *)
(* comparison or an overlapping submission writes back takes a link or a   *)
(* decision stored meanwhile away together with its events.                *)
EventsTellStatus ==
  \A a \in ArtifactIds : Exists(a) =>
    LET artifact == artifacts[a]
        queued   == <<"created", "submitted_for_review">>
    IN  /\ artifact.status \in Drafted =>
             artifact.events = <<"created">> /\ artifact.item = None
        /\ artifact.status = "submitted" =>
             artifact.events = queued /\ artifact.item # None
        /\ artifact.status \in Decided =>
             artifact.events = Append(queued, artifact.status)

(* Whoever reads an artifact whose review item has been decided brings the *)
(* decision into the artifact, unless a reset or an overlapping submission *)
(* has taken the artifact, the item or the link away.                      *)
DecisionReachesArtifact ==
  \A c \in Callers, a \in ArtifactIds, i \in ItemIds :
    (/\ jobs[c].phase = "refresh"
     /\ jobs[c].id = a /\ jobs[c].copy.item = i
     /\ items[i].status \in Decided)
    ~> (\/ ~Queued(i) \/ ~Exists(a)
        \/ Exists(a) /\ (artifacts[a].item # i \/ artifacts[a].status = items[i].status))

-----------------------------------------------------------------------------
(* What the repository says and the code does not do.                      *)

(* Submission is idempotent: an artifact has one review item, however      *)
(* often and from wherever it is submitted.                                *)
OneItemPerArtifact ==
  Cardinality({i \in ItemIds : items[i] # NoItem})
    <= Cardinality({a \in ArtifactIds : artifacts[a] # NoArtifact})
=============================================================================
