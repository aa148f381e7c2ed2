--------------------------- MODULE RuntimeControls ---------------------------
(***************************************************************************)
(* Rate limits, traces, usage budgets and retained artifacts:              *)
(* tessera_os/runtime_controls.py and the route endpoint of service.py.    *)
(*                                                                         *)
(* The limiter's windows are memory under a lock, but a request reads the  *)
(* clock before it takes that lock.  Traces, budgets and artifacts are     *)
(* tables; each `with connection` block is one step, and what a method     *)
(* does before or after its block is a step of its own.  `jobs` holds what *)
(* each thread of the pool is doing.                                       *)
(***************************************************************************)
EXTENDS Integers, Sequences, FiniteSets

CONSTANTS
  Contexts,      \* records: tenant, user, projects, groups
  Projects,
  Synthetic,     \* the tenant that may be reset
  Callers,       \* threads of the server's pool
  Limit, Window, \* requests admitted per key and window
  TraceIds,      \* correlation ids, the callers' or fresh ones
  Slots,         \* budgets' keys: records of tenant, workflow, day
  Amounts,       \* BOUND: [tokens, cost] of reservations
  Limits,        \* BOUND: [tokens, cost] of budgets
  ArtifactIds,
  Retentions,    \* BOUND on retention periods
  Paths,         \* files backups are written to
  Workloads,     \* BOUND: the operations that one behaviour mixes
  MaxTime,       \* BOUND on the clock
  MaxAdmitted,   \* BOUND on admissions before new requests stop
  MaxFaults,     \* BOUND on restarts and failing backups
  None, Purged

Tenants   == {ctx.tenant : ctx \in Contexts}
Keys      == {<<ctx.tenant, ctx.user>> : ctx \in Contexts}
Resources == {"tokens", "cost"}
Usage     == [Resources -> Nat]
Budget    == [limit : Usage, used : Usage]
Artifact  == [tenant : Tenants, project : Projects, expires : Nat, hold : BOOLEAN]

ASSUME ControlsAssumption ==
  /\ Limit \in Nat \ {0} /\ Window \in Nat \ {0}
  /\ IsFiniteSet(Callers) /\ Callers # {}   \* a pool has threads, and finitely many
  /\ MaxTime \in Nat /\ MaxFaults \in Nat
  /\ Retentions \subseteq Nat \ {0}      \* retention_days >= 1
  /\ Amounts \subseteq Usage /\ Limits \subseteq Usage
  /\ None # Purged /\ None \notin Artifact /\ Purged \notin Artifact
  /\ None \notin Budget

VARIABLES
  workload,   \* the operations of this behaviour, one of Workloads
  now,
  events,     \* _events: the stamps the limiter holds for each key
  dropped,    \* history: the stamps it has let go, since the process started
  traces,     \* table traces
  answered,   \* history: the traces whose requests were answered
  budgets,    \* table usage_budgets
  ledger,     \* history: what was booked, and the highest limit, since a reset
  artifacts,  \* table secure_artifacts
  held,       \* history: artifacts whose last answered hold is on
  backups,    \* files written by backup
  jobs,
  faults

vars == <<workload, now, events, dropped, traces, answered, budgets, ledger,
          artifacts, held, backups, jobs, faults>>
limiter   == <<events, dropped>>
tracing   == <<traces, answered>>
spending  == <<budgets, ledger>>
retention == <<artifacts, held, backups>>

Key(ctx)  == <<ctx.tenant, ctx.user>>
Nothing   == [r \in Resources |-> 0]
IdleJob   == [phase |-> "idle"]
Finish(c) == jobs' = [jobs EXCEPT ![c] = IdleJob]
Start(c, op, job) ==
  /\ op \in workload
  /\ jobs[c] = IdleJob
  /\ jobs' = [jobs EXCEPT ![c] = job]

Init ==
  /\ workload \in Workloads
  /\ now = 0
  /\ events = [k \in Keys |-> <<>>] /\ dropped = [k \in Keys |-> <<>>]
  /\ traces = {} /\ answered = {}
  /\ budgets = [s \in Slots |-> None]
  /\ ledger = [s \in Slots |-> [booked |-> Nothing, cap |-> Nothing]]
  /\ artifacts = [i \in ArtifactIds |-> None]
  /\ held = {}
  /\ backups = [p \in Paths |-> None]
  /\ jobs = [c \in Callers |-> IdleJob]
  /\ faults = 0

-----------------------------------------------------------------------------
History(k)    == dropped[k] \o events[k]
Admissions(k) == {<<k, i>> : i \in DOMAIN History(k)}

(* POST /v1/route.  check reads the clock, then waits for the lock.        *)
Arrive(c, ctx, project, id) ==
  /\ Cardinality(UNION {Admissions(k) : k \in Keys}) < MaxAdmitted
  /\ Start(c, "route", [phase |-> "limit", ctx |-> ctx, project |-> project,
                        id |-> id, stamp |-> now])
  /\ UNCHANGED <<workload, now, limiter, tracing, spending, retention, faults>>

\* Mutant of Stale: a stamp exactly one window old is kept.
YoungStale(q, s) ==
  CHOOSE n \in 0 .. Len(q) :
    /\ \A i \in 1 .. n : q[i].stamp < s - Window
    /\ n < Len(q) => q[n + 1].stamp >= s - Window

\* The stamps at the head of a window that a request stamped s pops: the
\* while loop stops at the first that is young enough.
Stale(q, s) ==
  CHOOSE n \in 0 .. Len(q) :
    /\ \A i \in 1 .. n : q[i].stamp <= s - Window
    /\ n < Len(q) => q[n + 1].stamp > s - Window

Kept(q, s) == SubSeq(q, Stale(q, s) + 1, Len(q))

\* Mutant of Full: one request too many.
Overfull(q) == Len(q) > Limit

Full(q) == Len(q) >= Limit

Pop(k, s) == dropped' = [dropped EXCEPT ![k] = @ \o SubSeq(events[k], 1, Stale(events[k], s))]

Admit(c) ==
  /\ jobs[c].phase = "limit"
  /\ LET k == Key(jobs[c].ctx)  s == jobs[c].stamp  q == Kept(events[k], s) IN
       /\ ~Full(q)
       /\ events' = [events EXCEPT ![k] = Append(q, [stamp |-> s, at |-> now])]
       /\ Pop(k, s)
  /\ jobs' = [jobs EXCEPT ![c].phase = "trace"]
  /\ UNCHANGED <<workload, now, tracing, spending, retention, faults>>

Refuse(c) ==
  /\ jobs[c].phase = "limit"
  /\ LET k == Key(jobs[c].ctx)  s == jobs[c].stamp  q == Kept(events[k], s) IN
       /\ Full(q)
       /\ events' = [events EXCEPT ![k] = q]
       /\ Pop(k, s)
  /\ Finish(c)
  /\ UNCHANGED <<workload, now, tracing, spending, retention, faults>>

\* Out of scope, denied by the policy gateway or with an id that is no UUID:
\* the request has used its place in the window all the same.
InScope(ctx, project) == project \in ctx.projects
Decline(c) ==
  /\ jobs[c].phase = "trace"
  /\ Finish(c)
  /\ UNCHANGED <<workload, now, limiter, tracing, spending, retention, faults>>

\* Mutant of TraceOf: two columns swapped.
SwappedTraceOf(job) == [id |-> job.id, tenant |-> job.project, project |-> job.ctx.tenant,
                        user |-> job.ctx.user]

TraceOf(job) == [id |-> job.id, tenant |-> job.ctx.tenant, project |-> job.project,
                 user |-> job.ctx.user]
\* Mutant of Insert: INSERT OR REPLACE.
Replace(row) == traces' = {t \in traces : t.id # row.id} \cup {row}

\* The correlation id is the table's primary key, whosever it was before.
Insert(row) == row.id \notin {t.id : t \in traces} /\ traces' = traces \cup {row}

RecordTrace(c) ==
  /\ jobs[c].phase = "trace"
  /\ InScope(jobs[c].ctx, jobs[c].project)
  /\ Insert(TraceOf(jobs[c]))
  /\ answered' = answered \cup {TraceOf(jobs[c])}
  /\ Finish(c)
  /\ UNCHANGED <<workload, now, limiter, spending, retention, faults>>

\* An id that has a trace already: the insert raises, for a retry as well.
RecordFails(c) ==
  /\ jobs[c].phase = "trace"
  /\ InScope(jobs[c].ctx, jobs[c].project)
  /\ jobs[c].id \in {t.id : t \in traces}
  /\ Finish(c)
  /\ UNCHANGED <<workload, now, limiter, tracing, spending, retention, faults>>

TracesOf(ctx, project) ==
  {t \in traces : InScope(ctx, project) /\ t.tenant = ctx.tenant /\ t.project = project}

-----------------------------------------------------------------------------
(* Usage budgets.  A method writes in one transaction and then reads the   *)
(* row back in another, so its thread stays in phase "readback".           *)
\* Mutant of Relimited: the upsert inserts a new row.
Renewed(row, limit) == [limit |-> limit, used |-> Nothing]

Relimited(row, limit) ==
  IF row = None THEN [limit |-> limit, used |-> Nothing]
                ELSE [row EXCEPT !.limit = limit]

Higher(a, b) == [r \in Resources |-> IF a[r] < b[r] THEN b[r] ELSE a[r]]

SetBudget(c, s, limit) ==
  /\ Start(c, "budget", [phase |-> "readback"])
  /\ budgets' = [budgets EXCEPT ![s] = Relimited(@, limit)]
  /\ ledger' = [ledger EXCEPT ![s].cap = Higher(@, limit)]
  /\ UNCHANGED <<workload, now, limiter, tracing, retention, faults>>

Plus(a, b) == [r \in Resources |-> a[r] + b[r]]

\* Mutant of Fits: only the tokens are compared.
FitsTokens(row, amount) == row.used["tokens"] + amount["tokens"] <= row.limit["tokens"]

\* A reservation that does not fit, or finds no budget, changes nothing.
Fits(row, amount) == \A r \in Resources : row.used[r] + amount[r] <= row.limit[r]

Reserve(c, s, amount) ==
  /\ Start(c, "budget", [phase |-> "readback"])
  /\ budgets[s] # None
  /\ Fits(budgets[s], amount)
  /\ budgets' = [budgets EXCEPT ![s].used = Plus(@, amount)]
  /\ ledger' = [ledger EXCEPT ![s].booked = Plus(@, amount)]
  /\ UNCHANGED <<workload, now, limiter, tracing, retention, faults>>

\* The row as it is now, or KeyError after a reset.
ReadBack(c) ==
  /\ jobs[c].phase = "readback"
  /\ Finish(c)
  /\ UNCHANGED <<workload, now, limiter, tracing, spending, retention, faults>>

ResetSynthetic(ctx) ==
  /\ "reset" \in workload
  /\ ctx.tenant = Synthetic
  /\ traces' = {t \in traces : t.tenant # ctx.tenant}
  /\ answered' = {t \in answered : t.tenant # ctx.tenant}
  /\ budgets' = [s \in Slots |-> IF s.tenant = ctx.tenant THEN None ELSE budgets[s]]
  /\ ledger' = [s \in Slots |-> IF s.tenant = ctx.tenant
                                  THEN [booked |-> Nothing, cap |-> Nothing]
                                  ELSE ledger[s]]
  /\ UNCHANGED <<workload, now, limiter, retention, jobs, faults>>

-----------------------------------------------------------------------------
(* Retained artifacts.                                                     *)
Stored     == {i \in ArtifactIds : artifacts[i] \notin {None, Purged}}
Admin(ctx) == "records_admin" \in ctx.groups

Put(ctx, project, days, i) ==
  /\ "retain" \in workload
  /\ InScope(ctx, project)
  /\ artifacts[i] = None
  /\ artifacts' = [artifacts EXCEPT ![i] =
                     [tenant |-> ctx.tenant, project |-> project,
                      expires |-> now + days, hold |-> FALSE]]
  /\ UNCHANGED <<workload, now, limiter, tracing, spending, held, backups, jobs, faults>>

SetLegalHold(ctx, i, active) ==
  /\ "retain" \in workload
  /\ Admin(ctx)
  /\ i \in Stored
  /\ artifacts[i].tenant = ctx.tenant /\ InScope(ctx, artifacts[i].project)
  /\ artifacts' = [artifacts EXCEPT ![i].hold = active]
  /\ held' = IF active THEN held \cup {i} ELSE held \ {i}
  /\ UNCHANGED <<workload, now, limiter, tracing, spending, backups, jobs, faults>>

\* purge_expired reads the clock and then waits for the store.
PurgeExpired(c, ctx) ==
  /\ Admin(ctx)
  /\ Start(c, "retain", [phase |-> "purge", tenant |-> ctx.tenant, stamp |-> now])
  /\ UNCHANGED <<workload, now, limiter, tracing, spending, retention, faults>>

\* Mutants of Expired: the hold is not looked at; the day before counts.
ExpiredHeld(i, tenant, s) ==
  artifacts[i].tenant = tenant /\ artifacts[i].expires <= s
ExpiredEarly(i, tenant, s) ==
  artifacts[i].tenant = tenant /\ artifacts[i].expires <= s + 1 /\ ~artifacts[i].hold

Expired(i, tenant, s) ==
  artifacts[i].tenant = tenant /\ artifacts[i].expires <= s /\ ~artifacts[i].hold

DeleteExpired(c) ==
  /\ jobs[c].phase = "purge"
  /\ artifacts' = [i \in ArtifactIds |->
                     IF i \in Stored /\ Expired(i, jobs[c].tenant, jobs[c].stamp)
                       THEN Purged ELSE artifacts[i]]
  /\ Finish(c)
  /\ UNCHANGED <<workload, now, limiter, tracing, spending, held, backups, faults>>

\* backup looks for the file before it opens it: two may aim at one path.
Backup(c, ctx, p) ==
  /\ Admin(ctx)
  /\ backups[p] = None
  /\ Start(c, "retain", [phase |-> "backup", tenant |-> ctx.tenant, path |-> p])
  /\ UNCHANGED <<workload, now, limiter, tracing, spending, retention, faults>>

Creatable(p) == backups[p] = None

CopyRows(c) ==
  /\ jobs[c].phase = "backup"
  /\ LET p == jobs[c].path IN
       backups' = IF Creatable(p)
                    THEN [backups EXCEPT ![p] =
                            {i \in Stored : artifacts[i].tenant = jobs[c].tenant}]
                    ELSE backups
  /\ Finish(c)
  /\ UNCHANGED <<workload, now, limiter, tracing, spending, artifacts, held, faults>>

\* The table is created before the rows are copied, and stays if they are not.
CopyFails(c) ==
  /\ faults < MaxFaults
  /\ jobs[c].phase = "backup"
  /\ Creatable(jobs[c].path)
  /\ backups' = [backups EXCEPT ![jobs[c].path] = {}]
  /\ Finish(c)
  /\ faults' = faults + 1
  /\ UNCHANGED <<workload, now, limiter, tracing, spending, artifacts, held>>

-----------------------------------------------------------------------------
(* A new process: the tables survive, the windows and the threads do not.  *)
Restart ==
  /\ faults < MaxFaults
  /\ faults' = faults + 1
  /\ events' = [k \in Keys |-> <<>>] /\ dropped' = [k \in Keys |-> <<>>]
  /\ jobs' = [c \in Callers |-> IdleJob]
  /\ UNCHANGED <<workload, now, tracing, spending, retention>>

Tick ==
  /\ now < MaxTime
  /\ now' = now + 1
  /\ UNCHANGED <<workload, limiter, tracing, spending, retention, jobs, faults>>

Serve(c) ==
  \/ \E ctx \in Contexts, project \in Projects, id \in TraceIds : Arrive(c, ctx, project, id)
  \/ Admit(c) \/ Refuse(c) \/ Decline(c) \/ RecordTrace(c) \/ RecordFails(c)
  \/ \E s \in Slots, limit \in Limits : SetBudget(c, s, limit)
  \/ \E s \in Slots, amount \in Amounts : Reserve(c, s, amount)
  \/ ReadBack(c)
  \/ \E ctx \in Contexts : PurgeExpired(c, ctx)
  \/ \E ctx \in Contexts, p \in Paths : Backup(c, ctx, p)
  \/ DeleteExpired(c) \/ CopyRows(c) \/ CopyFails(c)

Next ==
  \/ \E c \in Callers : Serve(c)
  \/ \E ctx \in Contexts : ResetSynthetic(ctx)
  \/ \E ctx \in Contexts, project \in Projects, days \in Retentions, i \in ArtifactIds :
       Put(ctx, project, days, i)
  \/ \E ctx \in Contexts, i \in ArtifactIds, active \in BOOLEAN : SetLegalHold(ctx, i, active)
  \/ Tick
  \/ Restart

Spec == Init /\ [][Next]_vars

-----------------------------------------------------------------------------
(* Types: the stamps of a window are never ahead of their admission, what  *)
(* a backup holds was once stored, and a thread serves one request.        *)
Stamps == [stamp : 0 .. MaxTime, at : 0 .. MaxTime]
ControlsTypeOK ==
  /\ workload \in Workloads /\ now \in 0 .. MaxTime /\ faults \in 0 .. MaxFaults
  /\ events \in [Keys -> Seq(Stamps)] /\ dropped \in [Keys -> Seq(Stamps)]
  /\ traces \subseteq [id : TraceIds, tenant : Tenants, project : Projects,
                       user : {ctx.user : ctx \in Contexts}]
  /\ answered \subseteq [id : TraceIds, tenant : Tenants, project : Projects,
                         user : {ctx.user : ctx \in Contexts}]
  /\ budgets \in [Slots -> Budget \cup {None}]
  /\ ledger \in [Slots -> [booked : Usage, cap : Usage]]
  /\ artifacts \in [ArtifactIds -> Artifact \cup {None, Purged}]
  /\ held \subseteq ArtifactIds
  /\ backups \in [Paths -> (SUBSET ArtifactIds) \cup {None}]
  /\ \A c \in Callers : jobs[c].phase \in {"idle", "limit", "trace", "readback",
                                           "purge", "backup"}

Within(q, lo, hi) == {i \in DOMAIN q : lo < q[i].stamp /\ q[i].stamp <= hi}

(* A window of the limiter never holds more than the limit and one request *)
(* for each other thread: a late stamp makes check forget requests which   *)
(* threads that read the clock earlier still ought to count.               *)
WindowBound ==
  \A k \in Keys : \A t \in 0 .. now :
    Cardinality(Within(History(k), t - Window, t)) <= Limit + Cardinality(Callers) - 1

(* Whoever is refused was admitted as often as the limit allows during the *)
(* window before the request's stamp, or since, although the windows are   *)
(* out of order and only their heads are ever pruned.                      *)
Refused(c) == jobs[c].phase = "limit" /\ jobs[c].phase # jobs'[c].phase
              /\ jobs'[c].phase = "idle" /\ faults' = faults
RefusalsEarned ==
  [][\A c \in Callers : Refused(c) =>
       LET h == History(Key(jobs[c].ctx)) IN
         Cardinality({i \in DOMAIN h : h[i].at > jobs[c].stamp - Window}) >= Limit]_vars

(* A request that was answered with its correlation id is found under that *)
(* id in the traces of its own tenant and project, whoever sends the id    *)
(* again, until the synthetic tenant is reset.                             *)
AnswersTraced ==
  \A t \in answered : \E ctx \in Contexts :
    ctx.tenant = t.tenant /\ t \in TracesOf(ctx, t.project)

(* A budget has used exactly what was reserved since it was created or     *)
(* reset, however its limit was moved meanwhile, and never more than the   *)
(* highest limit it had.                                                   *)
UsageKept ==
  \A s \in Slots :
    IF budgets[s] = None
      THEN ledger[s].booked = Nothing
      ELSE /\ budgets[s].used = ledger[s].booked
           /\ \A r \in Resources : budgets[s].used[r] <= ledger[s].cap[r]

(* An artifact whose hold was answered is there until the hold is lifted,  *)
(* also when a purge that began before the hold deletes after it.          *)
HeldStays == held \subseteq Stored

(* An artifact is deleted only when its retention is over.                 *)
KeptUntilExpiry ==
  [][\A i \in Stored : artifacts'[i] = Purged => artifacts[i].expires <= now]_vars
=============================================================================
