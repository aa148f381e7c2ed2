------------------------ MODULE RuntimeControlsProofs ------------------------
(***************************************************************************)
(* Theorems about the limiter, traces, budgets and retained artifacts, for *)
(* any tenants, threads, limits, amounts and retention periods.            *)
(***************************************************************************)
EXTENDS RuntimeControls, TLAPS, FiniteSetTheorems, SequenceTheorems, WellFoundedInduction

(* Budgets and what was booked have their types, and no limit is above the *)
(* highest one.                                                            *)
BudgetInv ==
  /\ budgets \in [Slots -> Budget \cup {None}]
  /\ ledger \in [Slots -> [booked : Usage, cap : Usage]]
  /\ \A s \in Slots : \A r \in Resources :
       budgets[s] # None => budgets[s].limit[r] <= ledger[s].cap[r]
  /\ UsageKept

(* Artifacts have their types, a held one is stored with its hold on, and  *)
(* a purge under way was stamped by a clock that only moves forward.       *)
RetentionInv ==
  /\ now \in Nat
  /\ artifacts \in [ArtifactIds -> Artifact \cup {None, Purged}]
  /\ \A i \in held : i \in Stored /\ artifacts[i].hold
  /\ jobs = [c \in Callers |-> jobs[c]]
  /\ \A c \in Callers :
       /\ jobs[c].phase = "limit" => "phase" \in DOMAIN jobs[c]
       /\ jobs[c].phase = "purge" => jobs[c].stamp \in Nat /\ jobs[c].stamp <= now

-----------------------------------------------------------------------------
(* Budgets.                                                                *)
LEMMA NothingUsed == Nothing \in Usage
  BY DEF Nothing, Usage

(* At the start no budget exists and nothing was booked.                   *)
LEMMA BudgetInit == Init => BudgetInv
<1> SUFFICES ASSUME Init PROVE BudgetInv
  OBVIOUS
<1>1. budgets = [s \in Slots |-> None]
      /\ ledger = [s \in Slots |-> [booked |-> Nothing, cap |-> Nothing]]
  BY DEF Init
<1> QED BY <1>1, NothingUsed DEF BudgetInv, UsageKept

(* Raising or lowering a limit leaves what was used.                       *)
LEMMA SetBudgetInv ==
  ASSUME BudgetInv, NEW c \in Callers, NEW s \in Slots, NEW limit \in Limits,
         SetBudget(c, s, limit)
  PROVE  BudgetInv'
<1> DEFINE row == Relimited(budgets[s], limit)
           cap == Higher(ledger[s].cap, limit)
<1>1. budgets' = [budgets EXCEPT ![s] = row] /\ ledger' = [ledger EXCEPT ![s].cap = cap]
  BY DEF SetBudget
<1>2. limit \in Usage
  BY ControlsAssumption
<1>3. /\ row \in Budget /\ row.limit = limit
      /\ row.used = IF budgets[s] = None THEN Nothing ELSE budgets[s].used
  BY <1>2, NothingUsed DEF Relimited, Budget, BudgetInv
<1>4. /\ cap \in Usage
      /\ \A r \in Resources : ledger[s].cap[r] <= cap[r] /\ limit[r] <= cap[r]
  BY <1>2 DEF Higher, Usage, BudgetInv
<1>5. \A t \in Slots \ {s} : budgets'[t] = budgets[t] /\ ledger'[t] = ledger[t]
  BY <1>1 DEF BudgetInv
<1>6. /\ budgets'[s] = row /\ row # None
      /\ ledger'[s].cap = cap /\ ledger'[s].booked = ledger[s].booked
  BY <1>1, <1>3, ControlsAssumption DEF BudgetInv
<1>7. row.used = ledger[s].booked
  BY <1>3 DEF BudgetInv, UsageKept
<1>8. \A r \in Resources : row.used[r] <= cap[r]
  <2> SUFFICES ASSUME NEW r \in Resources PROVE row.used[r] <= cap[r]
    OBVIOUS
  <2>1. CASE budgets[s] = None
    BY <2>1, <1>3, <1>4 DEF Nothing, Usage
  <2>2. CASE budgets[s] # None
    <3>1. budgets[s].used[r] <= ledger[s].cap[r]
      BY <2>2 DEF BudgetInv, UsageKept
    <3>2. /\ budgets[s].used[r] \in Nat /\ ledger[s].cap[r] \in Nat /\ cap[r] \in Nat
      BY <2>2, <1>4 DEF BudgetInv, Budget, Usage
    <3> QED BY <2>2, <3>1, <3>2, <1>3, <1>4
  <2> QED BY <2>1, <2>2
<1>9. budgets' \in [Slots -> Budget \cup {None}]
      /\ ledger' \in [Slots -> [booked : Usage, cap : Usage]]
  BY <1>1, <1>3, <1>4 DEF BudgetInv
<1> HIDE DEF row, cap
<1>10. ASSUME NEW t \in Slots, NEW r \in Resources, budgets'[t] # None
       PROVE  budgets'[t].limit[r] <= ledger'[t].cap[r]
  BY <1>10, <1>3, <1>4, <1>5, <1>6 DEF BudgetInv
<1>11. UsageKept'
  BY <1>5, <1>6, <1>7, <1>8 DEF BudgetInv, UsageKept
<1> QED BY <1>9, <1>10, <1>11 DEF BudgetInv

(* A reservation adds what it took to what was booked, within the limit.   *)
LEMMA ReserveInv ==
  ASSUME BudgetInv, NEW c \in Callers, NEW s \in Slots, NEW amount \in Amounts,
         Reserve(c, s, amount)
  PROVE  BudgetInv'
<1> DEFINE used == Plus(budgets[s].used, amount)
           booked == Plus(ledger[s].booked, amount)
<1>1. /\ budgets' = [budgets EXCEPT ![s].used = used]
      /\ ledger' = [ledger EXCEPT ![s].booked = booked]
      /\ budgets[s] # None /\ Fits(budgets[s], amount)
  BY DEF Reserve
<1>2. amount \in Usage
  BY ControlsAssumption
<1>3. budgets[s] \in Budget /\ budgets[s].used = ledger[s].booked
  BY <1>1 DEF BudgetInv, UsageKept
<1>4. used \in Usage /\ booked = used
  BY <1>2, <1>3 DEF Plus, Usage, Budget
<1>5. \A r \in Resources : used[r] <= ledger[s].cap[r]
  <2> SUFFICES ASSUME NEW r \in Resources PROVE used[r] <= ledger[s].cap[r]
    OBVIOUS
  <2>1. used[r] = budgets[s].used[r] + amount[r]
    BY DEF Plus
  <2>2. used[r] <= budgets[s].limit[r]
    BY <1>1, <2>1 DEF Fits
  <2>3. budgets[s].limit[r] <= ledger[s].cap[r]
    BY <1>1 DEF BudgetInv
  <2>4. used[r] \in Nat /\ budgets[s].limit[r] \in Nat /\ ledger[s].cap[r] \in Nat
    BY <1>3, <1>4 DEF BudgetInv, Budget, Usage
  <2> QED BY <2>2, <2>3, <2>4
<1>6. \A t \in Slots \ {s} : budgets'[t] = budgets[t] /\ ledger'[t] = ledger[t]
  BY <1>1 DEF BudgetInv
<1>7. /\ budgets'[s].used = used /\ budgets'[s].limit = budgets[s].limit
      /\ ledger'[s].booked = used /\ ledger'[s].cap = ledger[s].cap
      /\ budgets'[s] \in Budget
  BY <1>1, <1>3, <1>4 DEF BudgetInv, Budget
<1>8. budgets' \in [Slots -> Budget \cup {None}]
      /\ ledger' \in [Slots -> [booked : Usage, cap : Usage]]
  BY <1>1, <1>3, <1>4 DEF BudgetInv, Budget
<1> HIDE DEF used, booked
<1>9. budgets'[s] # None
  BY <1>7, ControlsAssumption
<1>10. ASSUME NEW t \in Slots, NEW r \in Resources, budgets'[t] # None
       PROVE  budgets'[t].limit[r] <= ledger'[t].cap[r]
  BY <1>10, <1>1, <1>6, <1>7 DEF BudgetInv
<1>11. UsageKept'
  BY <1>5, <1>6, <1>7, <1>9 DEF BudgetInv, UsageKept
<1> QED BY <1>8, <1>10, <1>11 DEF BudgetInv

(* A reset takes rows away together with what was booked on them.          *)
LEMMA ResetInv ==
  ASSUME BudgetInv, NEW ctx \in Contexts, ResetSynthetic(ctx)
  PROVE  BudgetInv'
<1> DEFINE fresh == [booked |-> Nothing, cap |-> Nothing]
<1>1. /\ budgets' = [s \in Slots |-> IF s.tenant = ctx.tenant THEN None ELSE budgets[s]]
      /\ ledger' = [s \in Slots |-> IF s.tenant = ctx.tenant THEN fresh ELSE ledger[s]]
  BY DEF ResetSynthetic
<1>2. fresh \in [booked : Usage, cap : Usage] /\ fresh.booked = Nothing
  BY NothingUsed
<1> HIDE DEF fresh
<1>3. budgets' \in [Slots -> Budget \cup {None}]
      /\ ledger' \in [Slots -> [booked : Usage, cap : Usage]]
  BY <1>1, <1>2 DEF BudgetInv
<1>4. ASSUME NEW s \in Slots
      PROVE  \/ budgets'[s] = None /\ ledger'[s].booked = Nothing
             \/ budgets'[s] = budgets[s] /\ ledger'[s] = ledger[s]
  BY <1>1, <1>2
<1>5. UsageKept'
  BY <1>4 DEF BudgetInv, UsageKept
<1>6. \A s \in Slots : \A r \in Resources :
        budgets'[s] # None => budgets'[s].limit[r] <= ledger'[s].cap[r]
  BY <1>4 DEF BudgetInv
<1> QED BY <1>3, <1>5, <1>6 DEF BudgetInv

(* What was booked moves only in the transaction that writes the budget.   *)
LEMMA BudgetStep == BudgetInv /\ [Next]_vars => BudgetInv'
<1> SUFFICES ASSUME BudgetInv, [Next]_vars PROVE BudgetInv'
  OBVIOUS
<1>1. ASSUME UNCHANGED spending PROVE BudgetInv'
  BY <1>1 DEF BudgetInv, UsageKept, spending
<1>2. CASE UNCHANGED vars
  BY <1>1, <1>2 DEF vars, spending
<1>3. ASSUME NEW c \in Callers, Serve(c) PROVE BudgetInv'
  <2>1. ASSUME NEW s \in Slots, NEW limit \in Limits, SetBudget(c, s, limit) PROVE BudgetInv'
    BY <2>1, SetBudgetInv
  <2>2. ASSUME NEW s \in Slots, NEW amount \in Amounts, Reserve(c, s, amount) PROVE BudgetInv'
    BY <2>2, ReserveInv
  <2>3. ASSUME NEW ctx \in Contexts, NEW project \in Projects, NEW id \in TraceIds,
               Arrive(c, ctx, project, id)
        PROVE  UNCHANGED spending
    BY <2>3 DEF Arrive
  <2>4. Admit(c) \/ Refuse(c) \/ Decline(c) \/ RecordTrace(c) \/ RecordFails(c)
          => UNCHANGED spending
    BY DEF Admit, Refuse, Decline, RecordTrace, RecordFails
  <2>5. ReadBack(c) \/ DeleteExpired(c) \/ CopyRows(c) \/ CopyFails(c) => UNCHANGED spending
    BY DEF ReadBack, DeleteExpired, CopyRows, CopyFails
  <2>6. ASSUME NEW ctx \in Contexts, PurgeExpired(c, ctx) PROVE UNCHANGED spending
    BY <2>6 DEF PurgeExpired
  <2>7. ASSUME NEW ctx \in Contexts, NEW p \in Paths, Backup(c, ctx, p)
        PROVE  UNCHANGED spending
    BY <2>7 DEF Backup
  <2> QED BY <1>1, <1>3, <2>1, <2>2, <2>3, <2>4, <2>5, <2>6, <2>7 DEF Serve
<1>4. ASSUME NEW ctx \in Contexts, ResetSynthetic(ctx) PROVE BudgetInv'
  BY <1>4, ResetInv
<1>5. ASSUME NEW ctx \in Contexts, NEW project \in Projects, NEW days \in Retentions,
             NEW i \in ArtifactIds, Put(ctx, project, days, i)
      PROVE  UNCHANGED spending
  BY <1>5 DEF Put
<1>6. ASSUME NEW ctx \in Contexts, NEW i \in ArtifactIds, NEW active \in BOOLEAN,
             SetLegalHold(ctx, i, active)
      PROVE  UNCHANGED spending
  BY <1>6 DEF SetLegalHold
<1>7. Tick \/ Restart => UNCHANGED spending
  BY DEF Tick, Restart
<1> QED BY <1>1, <1>2, <1>3, <1>4, <1>5, <1>6, <1>7 DEF Next

(* Whatever reservations, limits and resets interleave, a budget shows     *)
(* exactly what was reserved since it was created, and no more than its    *)
(* highest limit.                                                          *)
THEOREM Ledger == Spec => []UsageKept
<1>1. BudgetInv => UsageKept
  BY DEF BudgetInv
<1> QED BY BudgetInit, BudgetStep, <1>1, PTL DEF Spec

-----------------------------------------------------------------------------
(* Retained artifacts.                                                     *)
LEMMA RetentionInit == Init => RetentionInv
<1> SUFFICES ASSUME Init PROVE RetentionInv
  OBVIOUS
<1>1. /\ now = 0 /\ held = {}
      /\ artifacts = [i \in ArtifactIds |-> None]
      /\ jobs = [c \in Callers |-> IdleJob]
  BY DEF Init
<1>2. IdleJob.phase = "idle"
  BY DEF IdleJob
<1> QED BY <1>1, <1>2 DEF RetentionInv

(* What an idle thread begins is no purge, or one that is stamped now.     *)
LEMMA StartJobs ==
  ASSUME RetentionInv, NEW c \in Callers, NEW op, NEW job, Start(c, op, job),
         now' = now,
         job.phase = "limit" => "phase" \in DOMAIN job,
         job.phase = "purge" => job.stamp = now
  PROVE  /\ jobs' = [d \in Callers |-> jobs'[d]]
         /\ \A d \in Callers :
              /\ jobs'[d].phase = "limit" => "phase" \in DOMAIN jobs'[d]
              /\ jobs'[d].phase = "purge" => jobs'[d].stamp \in Nat /\ jobs'[d].stamp <= now'
<1>1. jobs' = [jobs EXCEPT ![c] = job]
  BY DEF Start
<1>2. \A d \in Callers : jobs'[d] = IF d = c THEN job ELSE jobs[d]
  BY <1>1 DEF RetentionInv
<1>3. jobs' = [d \in Callers |-> jobs'[d]]
  BY <1>1 DEF RetentionInv
<1> QED BY <1>2, <1>3 DEF RetentionInv

(* A thread that finishes is idle.                                         *)
LEMMA FinishJobs ==
  ASSUME RetentionInv, NEW c \in Callers, Finish(c), now' = now
  PROVE  /\ jobs' = [d \in Callers |-> jobs'[d]]
         /\ \A d \in Callers :
              /\ jobs'[d].phase = "limit" => "phase" \in DOMAIN jobs'[d]
              /\ jobs'[d].phase = "purge" => jobs'[d].stamp \in Nat /\ jobs'[d].stamp <= now'
<1>1. jobs' = [jobs EXCEPT ![c] = IdleJob] /\ IdleJob.phase = "idle"
  BY DEF Finish, IdleJob
<1>2. \A d \in Callers : jobs'[d] = IF d = c THEN IdleJob ELSE jobs[d]
  BY <1>1 DEF RetentionInv
<1>3. jobs' = [d \in Callers |-> jobs'[d]]
  BY <1>1 DEF RetentionInv
<1> QED BY <1>1, <1>2, <1>3 DEF RetentionInv

(* An admitted request is no purge.                                        *)
LEMMA AdmitJobs ==
  ASSUME RetentionInv, NEW c \in Callers, Admit(c)
  PROVE  RetentionInv'
<1>1. jobs' = [jobs EXCEPT ![c].phase = "trace"] /\ jobs[c].phase = "limit"
      /\ UNCHANGED <<now, artifacts, held>>
  BY DEF Admit, retention
<1>2. jobs'[c].phase = "trace"
  BY <1>1 DEF RetentionInv
<1>3. \A d \in Callers \ {c} : jobs'[d] = jobs[d]
  BY <1>1 DEF RetentionInv
<1>4. jobs' = [d \in Callers |-> jobs'[d]]
  BY <1>1 DEF RetentionInv
<1> QED BY <1>1, <1>2, <1>3, <1>4 DEF RetentionInv, Stored

(* A new artifact takes no place of a held one.                            *)
LEMMA PutInv ==
  ASSUME RetentionInv, NEW ctx \in Contexts, NEW project \in Projects,
         NEW days \in Retentions, NEW i \in ArtifactIds, Put(ctx, project, days, i)
  PROVE  RetentionInv'
<1> DEFINE new == [tenant |-> ctx.tenant, project |-> project,
                   expires |-> now + days, hold |-> FALSE]
<1>1. /\ artifacts' = [artifacts EXCEPT ![i] = new] /\ artifacts[i] = None
      /\ UNCHANGED <<now, held, jobs>>
  BY DEF Put
<1>2. now + days \in Nat /\ ctx.tenant \in Tenants
  BY ControlsAssumption DEF RetentionInv, Tenants
<1>3. new \in Artifact
  BY <1>2 DEF Artifact
<1> HIDE DEF new
<1>4. i \notin held
  BY <1>1 DEF RetentionInv, Stored
<1>5. \A j \in held : artifacts'[j] = artifacts[j] /\ j \in ArtifactIds
  BY <1>1, <1>4 DEF RetentionInv, Stored
<1>6. \A j \in held' : j \in Stored' /\ artifacts'[j].hold
  BY <1>1, <1>5 DEF RetentionInv, Stored
<1> QED BY <1>1, <1>3, <1>6 DEF RetentionInv

(* A hold is set and lifted in the row and in what was answered at once.   *)
LEMMA HoldInv ==
  ASSUME RetentionInv, NEW ctx \in Contexts, NEW i \in ArtifactIds, NEW active \in BOOLEAN,
         SetLegalHold(ctx, i, active)
  PROVE  RetentionInv'
<1>1. /\ artifacts' = [artifacts EXCEPT ![i].hold = active] /\ i \in Stored
      /\ held' = IF active THEN held \cup {i} ELSE held \ {i}
      /\ UNCHANGED <<now, jobs>>
  BY DEF SetLegalHold
<1>2. artifacts[i] \in Artifact
  BY <1>1 DEF RetentionInv, Stored
<1>3. artifacts'[i] \in Artifact /\ artifacts'[i].hold = active
  BY <1>1, <1>2 DEF RetentionInv, Artifact
<1>4. \A j \in ArtifactIds \ {i} : artifacts'[j] = artifacts[j]
  BY <1>1 DEF RetentionInv
<1>5. artifacts' \in [ArtifactIds -> Artifact \cup {None, Purged}]
  BY <1>1, <1>2 DEF RetentionInv, Artifact
<1>6. artifacts'[i] \notin {None, Purged}
  BY <1>3, ControlsAssumption
<1>7. ASSUME NEW j \in held' PROVE j \in Stored' /\ artifacts'[j].hold
  <2>1. CASE j = i
    BY <1>1, <1>3, <1>6, <1>7, <2>1 DEF Stored
  <2>2. CASE j # i
    <3>1. j \in held
      BY <1>1, <1>7, <2>2
    <3> QED BY <3>1, <2>2, <1>4 DEF RetentionInv, Stored
  <2> QED BY <2>1, <2>2
<1> QED BY <1>1, <1>5, <1>7 DEF RetentionInv

(* A purge looks at the hold when it deletes, whatever it was before.      *)
LEMMA DeleteInv ==
  ASSUME RetentionInv, NEW c \in Callers, DeleteExpired(c)
  PROVE  RetentionInv'
<1>1. /\ artifacts' = [i \in ArtifactIds |->
                         IF i \in Stored /\ Expired(i, jobs[c].tenant, jobs[c].stamp)
                           THEN Purged ELSE artifacts[i]]
      /\ UNCHANGED <<now, held>> /\ Finish(c)
  BY DEF DeleteExpired
<1>2. artifacts' \in [ArtifactIds -> Artifact \cup {None, Purged}]
  BY <1>1 DEF RetentionInv
<1>3. \A i \in held : artifacts'[i] = artifacts[i] /\ i \in ArtifactIds
  BY <1>1 DEF RetentionInv, Expired, Stored
<1>4. \A i \in held' : i \in Stored' /\ artifacts'[i].hold
  BY <1>1, <1>3 DEF RetentionInv, Stored
<1>5. /\ jobs' = [d \in Callers |-> jobs'[d]]
      /\ \A d \in Callers :
           /\ jobs'[d].phase = "limit" => "phase" \in DOMAIN jobs'[d]
           /\ jobs'[d].phase = "purge" => jobs'[d].stamp \in Nat /\ jobs'[d].stamp <= now'
  BY <1>1, FinishJobs
<1> QED BY <1>1, <1>2, <1>4, <1>5 DEF RetentionInv

(* A held artifact is neither deleted nor released but by lifting its      *)
(* hold.                                                                   *)
LEMMA RetentionStep == RetentionInv /\ [Next]_vars => RetentionInv'
<1> SUFFICES ASSUME RetentionInv, [Next]_vars PROVE RetentionInv'
  OBVIOUS
<1> DEFINE JobsKept ==
      /\ jobs' = [d \in Callers |-> jobs'[d]]
      /\ \A d \in Callers :
           /\ jobs'[d].phase = "limit" => "phase" \in DOMAIN jobs'[d]
           /\ jobs'[d].phase = "purge" => jobs'[d].stamp \in Nat /\ jobs'[d].stamp <= now'
<1>1. ASSUME UNCHANGED <<now, artifacts, held>>, JobsKept PROVE RetentionInv'
  BY <1>1 DEF RetentionInv, Stored
<1> HIDE DEF JobsKept
<1>2. UNCHANGED jobs /\ UNCHANGED now => JobsKept
  BY DEF RetentionInv, JobsKept
<1>3. ASSUME NEW c \in Callers, Finish(c), UNCHANGED now PROVE JobsKept
  BY <1>3, FinishJobs DEF JobsKept
<1>4. CASE UNCHANGED vars
  BY <1>1, <1>2, <1>4 DEF vars
<1>5. ASSUME NEW c \in Callers, Serve(c) PROVE RetentionInv'
  <2>1. ASSUME NEW ctx \in Contexts, NEW project \in Projects, NEW id \in TraceIds,
               Arrive(c, ctx, project, id)
        PROVE  RetentionInv'
    <3> DEFINE job == [phase |-> "limit", ctx |-> ctx, project |-> project,
                       id |-> id, stamp |-> now]
    <3>1. Start(c, "route", job) /\ UNCHANGED <<now, artifacts, held>>
      BY <2>1 DEF Arrive, retention
    <3>2. job.phase # "purge" /\ "phase" \in DOMAIN job
      OBVIOUS
    <3> HIDE DEF job
    <3> QED BY <3>1, <3>2, <1>1, StartJobs DEF JobsKept
  <2>2. CASE Admit(c)
    BY <2>2, AdmitJobs
  <2>3. CASE Refuse(c) \/ Decline(c) \/ RecordTrace(c) \/ RecordFails(c) \/ ReadBack(c)
    <3>1. Finish(c) /\ UNCHANGED <<now, artifacts, held>>
      BY <2>3 DEF Refuse, Decline, RecordTrace, RecordFails, ReadBack, retention
    <3> QED BY <3>1, <1>1, <1>3
  <2>4. CASE CopyRows(c) \/ CopyFails(c)
    <3>1. Finish(c) /\ UNCHANGED <<now, artifacts, held>>
      BY <2>4 DEF CopyRows, CopyFails
    <3> QED BY <3>1, <1>1, <1>3
  <2>5. CASE (\E s \in Slots, limit \in Limits : SetBudget(c, s, limit))
             \/ (\E s \in Slots, amount \in Amounts : Reserve(c, s, amount))
    <3> DEFINE job == [phase |-> "readback"]
    <3>1. Start(c, "budget", job) /\ UNCHANGED <<now, artifacts, held>>
      BY <2>5 DEF SetBudget, Reserve, retention
    <3>2. job.phase # "purge" /\ job.phase # "limit"
      OBVIOUS
    <3> HIDE DEF job
    <3> QED BY <3>1, <3>2, <1>1, StartJobs DEF JobsKept
  <2>6. ASSUME NEW ctx \in Contexts, PurgeExpired(c, ctx) PROVE RetentionInv'
    <3> DEFINE job == [phase |-> "purge", tenant |-> ctx.tenant, stamp |-> now]
    <3>1. Start(c, "retain", job) /\ UNCHANGED <<now, artifacts, held>>
      BY <2>6 DEF PurgeExpired, retention
    <3>2. job.phase # "limit" /\ job.stamp = now
      OBVIOUS
    <3> HIDE DEF job
    <3> QED BY <3>1, <3>2, <1>1, StartJobs DEF JobsKept
  <2>7. ASSUME NEW ctx \in Contexts, NEW p \in Paths, Backup(c, ctx, p) PROVE RetentionInv'
    <3> DEFINE job == [phase |-> "backup", tenant |-> ctx.tenant, path |-> p]
    <3>1. Start(c, "retain", job) /\ UNCHANGED <<now, artifacts, held>>
      BY <2>7 DEF Backup, retention
    <3>2. job.phase # "purge" /\ job.phase # "limit"
      OBVIOUS
    <3> HIDE DEF job
    <3> QED BY <3>1, <3>2, <1>1, StartJobs DEF JobsKept
  <2>8. CASE DeleteExpired(c)
    BY <2>8, DeleteInv
  <2> QED BY <1>5, <2>1, <2>2, <2>3, <2>4, <2>5, <2>6, <2>7, <2>8 DEF Serve
<1>6. ASSUME NEW ctx \in Contexts, ResetSynthetic(ctx) PROVE RetentionInv'
  BY <1>1, <1>2, <1>6 DEF ResetSynthetic, retention
<1>7. ASSUME NEW ctx \in Contexts, NEW project \in Projects, NEW days \in Retentions,
             NEW i \in ArtifactIds, Put(ctx, project, days, i)
      PROVE  RetentionInv'
  BY <1>7, PutInv
<1>8. ASSUME NEW ctx \in Contexts, NEW i \in ArtifactIds, NEW active \in BOOLEAN,
             SetLegalHold(ctx, i, active)
      PROVE  RetentionInv'
  BY <1>8, HoldInv
<1>9. CASE Tick
  <2>1. now' = now + 1 /\ UNCHANGED <<artifacts, held, jobs>>
    BY <1>9 DEF Tick, retention
  <2> QED BY <2>1 DEF RetentionInv, Stored
<1>10. CASE Restart
  <2>1. UNCHANGED <<now, artifacts, held>> /\ jobs' = [c \in Callers |-> IdleJob]
        /\ IdleJob.phase = "idle"
    BY <1>10 DEF Restart, retention, IdleJob
  <2>2. JobsKept
    BY <2>1 DEF JobsKept
  <2> QED BY <2>1, <2>2, <1>1
<1> QED BY <1>4, <1>5, <1>6, <1>7, <1>8, <1>9, <1>10 DEF Next

(* Only the end of a purge takes artifacts away, and it takes those whose  *)
(* time was over when the purge began.                                     *)
LEMMA DeletedLate ==
  ASSUME RetentionInv, [Next]_vars, NEW i \in Stored, artifacts'[i] = Purged
  PROVE  artifacts[i].expires <= now
<1>1. artifacts[i] \in Artifact /\ artifacts[i] # Purged /\ i \in ArtifactIds
  BY DEF RetentionInv, Stored
<1>2. artifacts' # artifacts
  BY <1>1
<1>3. ASSUME NEW ctx \in Contexts, NEW project \in Projects, NEW days \in Retentions,
             NEW j \in ArtifactIds, Put(ctx, project, days, j)
      PROVE  FALSE
  <2>1. artifacts[j] = None /\ \A k \in ArtifactIds \ {j} : artifacts'[k] = artifacts[k]
    BY <1>3 DEF Put, RetentionInv
  <2> QED BY <2>1, <1>1 DEF Stored
<1>4. ASSUME NEW ctx \in Contexts, NEW j \in ArtifactIds, NEW active \in BOOLEAN,
             SetLegalHold(ctx, j, active)
      PROVE  FALSE
  <2>1. artifacts' = [artifacts EXCEPT ![j].hold = active]
    BY <1>4 DEF SetLegalHold
  <2>2. artifacts'[i] \in Artifact
    BY <2>1, <1>1 DEF RetentionInv, Artifact
  <2> QED BY <2>2, ControlsAssumption
<1>5. ASSUME NEW c \in Callers, DeleteExpired(c)
      PROVE  artifacts[i].expires <= now
  <2>1. jobs[c].phase = "purge" /\ Expired(i, jobs[c].tenant, jobs[c].stamp)
    BY <1>1, <1>5 DEF DeleteExpired
  <2>2. jobs[c].stamp \in Nat /\ jobs[c].stamp <= now /\ now \in Nat
    BY <2>1 DEF RetentionInv
  <2>3. artifacts[i].expires \in Nat /\ artifacts[i].expires <= jobs[c].stamp
    BY <1>1, <2>1 DEF Expired, Artifact
  <2> QED BY <2>2, <2>3
<1>6. ASSUME NEW c \in Callers, Serve(c), ~DeleteExpired(c) PROVE FALSE
  <2>1. ~(Admit(c) \/ Refuse(c) \/ Decline(c) \/ RecordTrace(c) \/ RecordFails(c))
    BY <1>2 DEF Admit, Refuse, Decline, RecordTrace, RecordFails, retention
  <2>2. ~(ReadBack(c) \/ CopyRows(c) \/ CopyFails(c))
    BY <1>2 DEF ReadBack, CopyRows, CopyFails, retention
  <2>3. \A ctx \in Contexts, project \in Projects, id \in TraceIds : ~Arrive(c, ctx, project, id)
    BY <1>2 DEF Arrive, retention
  <2>4. /\ \A s \in Slots, limit \in Limits : ~SetBudget(c, s, limit)
        /\ \A s \in Slots, amount \in Amounts : ~Reserve(c, s, amount)
    BY <1>2 DEF SetBudget, Reserve, retention
  <2>5. /\ \A ctx \in Contexts : ~PurgeExpired(c, ctx)
        /\ \A ctx \in Contexts, p \in Paths : ~Backup(c, ctx, p)
    BY <1>2 DEF PurgeExpired, Backup, retention
  <2> QED BY <1>6, <2>1, <2>2, <2>3, <2>4, <2>5 DEF Serve
<1>7. ~(Tick \/ Restart \/ UNCHANGED vars)
  BY <1>2 DEF Tick, Restart, vars, retention
<1>8. \A ctx \in Contexts : ~ResetSynthetic(ctx)
  BY <1>2 DEF ResetSynthetic, retention
<1> QED BY <1>3, <1>4, <1>5, <1>6, <1>7, <1>8 DEF Next

(* An artifact whose hold was answered is there until the hold is lifted,  *)
(* whatever purges run before, beside or after it.                         *)
THEOREM Holds == Spec => []HeldStays
<1>1. RetentionInv => HeldStays
  BY DEF RetentionInv, HeldStays
<1> QED BY RetentionInit, RetentionStep, <1>1, PTL DEF Spec

(* Nothing is deleted before its retention is over, although a purge waits *)
(* for the store after it has read the clock.                              *)
THEOREM Retention == Spec => KeptUntilExpiry
<1> DEFINE Late == \A i \in Stored : artifacts'[i] = Purged => artifacts[i].expires <= now
<1>1. RetentionInv /\ [Next]_vars => Late
  BY DeletedLate
<1>2. RetentionInv /\ [Next]_vars => [Late]_vars
  BY <1>1
<1> HIDE DEF Late
<1>3. Spec => [][Late]_vars
  BY RetentionInit, RetentionStep, <1>2, PTL DEF Spec
<1> QED BY <1>3 DEF Late, KeptUntilExpiry

-----------------------------------------------------------------------------
(* Traces.                                                                 *)

RouteJob(phase) == [phase : {phase}, ctx : Contexts, project : Projects,
                    id : TraceIds, stamp : Int]

(* A request under way keeps who sent it for which project, and every      *)
(* answered row is stored and in the scope of the one who was answered.    *)
JobInv ==
  /\ jobs = [c \in Callers |-> jobs[c]]
  /\ \A c \in Callers : /\ jobs[c].phase = "limit" => jobs[c] \in RouteJob("limit")
                        /\ jobs[c].phase = "trace" => jobs[c] \in RouteJob("trace")

Reader(t) == \E ctx \in Contexts : InScope(ctx, t.project) /\ ctx.tenant = t.tenant

TraceInv == \A t \in answered : t \in traces /\ Reader(t)

(* At the start nobody was answered.                                       *)
LEMMA InitTraces == Init => JobInv /\ TraceInv
BY DEF Init, JobInv, TraceInv, IdleJob

(* Only Arrive starts a route request, with the sender's own session.      *)
LEMMA StartRoute ==
  ASSUME JobInv, NEW c \in Callers, NEW job, jobs' = [jobs EXCEPT ![c] = job],
         job.phase = "limit" => job \in RouteJob("limit"), job.phase # "trace"
  PROVE  JobInv'
BY DEF JobInv

(* A thread carries the session and the id it arrived with to the end.     *)
LEMMA StepJobs ==
  ASSUME JobInv, [Next]_vars, now \in Int
  PROVE  JobInv'
<1>1. ASSUME NEW c \in Callers, Finish(c) PROVE JobInv'
  <2>1. IdleJob.phase = "idle"
    BY DEF IdleJob
  <2> QED BY <1>1, <2>1, StartRoute DEF Finish
<1>2. ASSUME NEW c \in Callers, NEW ctx \in Contexts, NEW project \in Projects,
             NEW id \in TraceIds, Arrive(c, ctx, project, id)
      PROVE  JobInv'
  <2> DEFINE job == [phase |-> "limit", ctx |-> ctx, project |-> project,
                     id |-> id, stamp |-> now]
  <2>1. job \in RouteJob("limit") /\ job.phase = "limit"
    BY DEF RouteJob
  <2>2. jobs' = [jobs EXCEPT ![c] = job]
    BY <1>2 DEF Arrive, Start
  <2> HIDE DEF job
  <2> QED BY <2>1, <2>2, StartRoute
<1>3. ASSUME NEW c \in Callers, Admit(c) PROVE JobInv'
  <2>1. jobs[c] \in RouteJob("limit")
    BY <1>3 DEF Admit, JobInv
  <2> DEFINE job == [jobs[c] EXCEPT !.phase = "trace"]
  <2>2. job \in RouteJob("trace") /\ job.phase = "trace"
    BY <2>1 DEF RouteJob
  <2>3. jobs' = [jobs EXCEPT ![c] = job]
    BY <1>3 DEF Admit
  <2> HIDE DEF job
  <2> QED BY <2>2, <2>3 DEF JobInv
<1>4. ASSUME NEW c \in Callers, NEW op, NEW job, Start(c, op, job),
             job.phase \notin {"limit", "trace"}
      PROVE  JobInv'
  BY <1>4, StartRoute DEF Start
<1>5. ASSUME NEW c \in Callers,
             \/ \E s \in Slots, limit \in Limits : SetBudget(c, s, limit)
             \/ \E s \in Slots, amount \in Amounts : Reserve(c, s, amount)
      PROVE  JobInv'
  <2>1. Start(c, "budget", [phase |-> "readback"])
    BY <1>5 DEF SetBudget, Reserve
  <2> QED BY <1>4, <2>1
<1>6. ASSUME NEW c \in Callers, NEW ctx \in Contexts, PurgeExpired(c, ctx) PROVE JobInv'
  BY <1>4, <1>6 DEF PurgeExpired
<1>7. ASSUME NEW c \in Callers, NEW ctx \in Contexts, NEW p \in Paths, Backup(c, ctx, p)
      PROVE  JobInv'
  BY <1>4, <1>7 DEF Backup
<1>8. ASSUME NEW c \in Callers,
             \/ Refuse(c) \/ Decline(c) \/ RecordTrace(c) \/ RecordFails(c)
             \/ ReadBack(c) \/ DeleteExpired(c) \/ CopyRows(c) \/ CopyFails(c)
      PROVE  JobInv'
  BY <1>1, <1>8 DEF Refuse, Decline, RecordTrace, RecordFails, ReadBack,
                    DeleteExpired, CopyRows, CopyFails
<1>9. ASSUME UNCHANGED jobs PROVE JobInv'
  BY <1>9 DEF JobInv
<1>10. CASE Restart
  BY <1>10 DEF Restart, JobInv, IdleJob
<1> QED BY <1>2, <1>3, <1>5, <1>6, <1>7, <1>8, <1>9, <1>10
        DEF Next, Serve, ResetSynthetic, Put, SetLegalHold, Tick, vars

(* An answer follows the insert of its trace, and a reset takes both back. *)
LEMMA StepTraces ==
  ASSUME JobInv, TraceInv, [Next]_vars
  PROVE  TraceInv'
<1>1. ASSUME UNCHANGED tracing PROVE TraceInv'
  BY <1>1 DEF TraceInv, tracing, Reader, InScope
<1>2. ASSUME NEW c \in Callers, RecordTrace(c) PROVE TraceInv'
  <2> DEFINE row == TraceOf(jobs[c])
  <2>1. jobs[c] \in RouteJob("trace")
    BY <1>2 DEF RecordTrace, JobInv
  <2>2. Reader(row)
    BY <1>2, <2>1 DEF RecordTrace, Reader, TraceOf, RouteJob
  <2>3. traces' = traces \cup {row} /\ answered' = answered \cup {row}
    BY <1>2 DEF RecordTrace, Insert
  <2> HIDE DEF row
  <2> QED BY <2>2, <2>3 DEF TraceInv, Reader
<1>3. ASSUME NEW ctx \in Contexts, ResetSynthetic(ctx) PROVE TraceInv'
  BY <1>3 DEF ResetSynthetic, TraceInv, Reader
<1>4. ASSUME NEW c \in Callers, Serve(c), ~RecordTrace(c) PROVE UNCHANGED tracing
  <2>1. CASE \/ Admit(c) \/ Refuse(c) \/ Decline(c) \/ RecordFails(c) \/ ReadBack(c)
             \/ DeleteExpired(c) \/ CopyRows(c) \/ CopyFails(c)
    BY <2>1 DEF Admit, Refuse, Decline, RecordFails, ReadBack, DeleteExpired,
                CopyRows, CopyFails
  <2>2. ASSUME NEW ctx \in Contexts, NEW project \in Projects, NEW id \in TraceIds,
               Arrive(c, ctx, project, id)
        PROVE  UNCHANGED tracing
    BY <2>2 DEF Arrive
  <2>3. ASSUME NEW s \in Slots, NEW limit \in Limits, SetBudget(c, s, limit)
        PROVE  UNCHANGED tracing
    BY <2>3 DEF SetBudget
  <2>4. ASSUME NEW s \in Slots, NEW amount \in Amounts, Reserve(c, s, amount)
        PROVE  UNCHANGED tracing
    BY <2>4 DEF Reserve
  <2>5. ASSUME NEW ctx \in Contexts, PurgeExpired(c, ctx) PROVE UNCHANGED tracing
    BY <2>5 DEF PurgeExpired
  <2>6. ASSUME NEW ctx \in Contexts, NEW p \in Paths, Backup(c, ctx, p)
        PROVE  UNCHANGED tracing
    BY <2>6 DEF Backup
  <2> QED BY <1>4, <2>1, <2>2, <2>3, <2>4, <2>5, <2>6 DEF Serve
<1>5. CASE Tick \/ Restart \/ UNCHANGED vars
  BY <1>1, <1>5 DEF Tick, Restart, vars, tracing
<1>6. ASSUME NEW ctx \in Contexts, NEW project \in Projects, NEW days \in Retentions,
             NEW i \in ArtifactIds, Put(ctx, project, days, i)
      PROVE  TraceInv'
  BY <1>1, <1>6 DEF Put
<1>7. ASSUME NEW ctx \in Contexts, NEW i \in ArtifactIds, NEW active \in BOOLEAN,
             SetLegalHold(ctx, i, active)
      PROVE  TraceInv'
  BY <1>1, <1>7 DEF SetLegalHold
<1> QED BY <1>1, <1>2, <1>3, <1>4, <1>5, <1>6, <1>7 DEF Next

(* Whoever was answered with a correlation id finds the trace under it,    *)
(* until the synthetic tenant is reset.                                    *)
THEOREM Tracing == Spec => []AnswersTraced
<1>1. TraceInv => AnswersTraced
  BY DEF TraceInv, AnswersTraced, Reader, TracesOf
<1>2. RetentionInv => now \in Int
  BY DEF RetentionInv
<1>3. JobInv /\ TraceInv /\ RetentionInv /\ [Next]_vars => JobInv' /\ TraceInv'
  BY <1>2, StepJobs, StepTraces
<1>4. Init => JobInv /\ TraceInv
  BY InitTraces
<1> QED BY RetentionInit, RetentionStep, <1>1, <1>3, <1>4, PTL DEF Spec

-----------------------------------------------------------------------------
(* The limiter.  A window is pruned from its head, so what a request pops  *)
(* is a prefix, and what was ever admitted only grows at its end.          *)

(* Of the natural numbers in a set there is a least one.                   *)
LEMMA Least ==
  ASSUME NEW S \in SUBSET Nat, S # {}
  PROVE  \E x \in S : \A y \in S : x <= y
<1> DEFINE less == {pair \in Nat \X Nat : pair[1] < pair[2]}
<1>1. IsWellFoundedOn(less, Nat)
  BY NatLessThanWellFounded DEF OpToRel
<1>2. PICK x \in S : \A y \in S : ~(<<y, x>> \in less)
  <2> HIDE DEF less
  <2> QED BY <1>1, WFMin
<1>3. ASSUME NEW y \in S PROVE x <= y
  <2>1. x \in Nat /\ y \in Nat /\ ~(<<y, x>> \in less)
    BY <1>2
  <2> QED BY <2>1
<1> QED BY <1>3

(* The prefix that a request stamped s pops: all old, up to one that is    *)
(* young enough.                                                           *)
LEMMA StalePrefix ==
  ASSUME NEW q \in Seq(Stamps), NEW s \in Int
  PROVE  /\ Stale(q, s) \in 0 .. Len(q)
         /\ \A i \in 1 .. Stale(q, s) : q[i].stamp <= s - Window
         /\ Stale(q, s) < Len(q) => q[Stale(q, s) + 1].stamp > s - Window
<1> DEFINE Cut(n) == /\ \A i \in 1 .. n : q[i].stamp <= s - Window
                     /\ n < Len(q) => q[n + 1].stamp > s - Window
           Young == {i \in 1 .. Len(q) : q[i].stamp > s - Window}
<1>1. /\ Len(q) \in Nat /\ s - Window \in Int
      /\ \A i \in 1 .. Len(q) : q[i].stamp \in Int
  <2>1. \A i \in 1 .. Len(q) : q[i] \in Stamps
    BY ElementOfSeq
  <2> QED BY <2>1, ControlsAssumption DEF Stamps
<1>2. \E n \in 0 .. Len(q) : Cut(n)
  <2>1. CASE Young = {}
    <3>1. Cut(Len(q))
      BY <1>1, <2>1
    <3> QED BY <1>1, <3>1
  <2>2. CASE Young # {}
    <3>1. Young \subseteq Nat
      BY <1>1
    <3>2. PICK x \in Young : \A y \in Young : x <= y
      BY <2>2, <3>1, Least
    <3>3. Cut(x - 1) /\ x - 1 \in 0 .. Len(q)
      BY <1>1, <3>2
    <3> QED BY <3>3
  <2> QED BY <2>1, <2>2
<1>3. Stale(q, s) = CHOOSE n \in 0 .. Len(q) : Cut(n)
  BY DEF Stale
<1> QED BY <1>2, <1>3

Popped(q, s) == SubSeq(q, 1, Stale(q, s))

(* A window falls into what is popped and what is kept.                    *)
LEMMA Pruned ==
  ASSUME NEW q \in Seq(Stamps), NEW s \in Int
  PROVE  /\ Popped(q, s) \in Seq(Stamps) /\ Kept(q, s) \in Seq(Stamps)
         /\ Len(Kept(q, s)) <= Len(q)
         /\ \A i \in DOMAIN Popped(q, s) : i \in DOMAIN q /\ Popped(q, s)[i] = q[i]
                                           /\ q[i].stamp <= s - Window
         /\ Popped(q, s) \o Kept(q, s) = q
         /\ Kept(q, s) # <<>> => Kept(q, s)[1].stamp > s - Window
<1> DEFINE n == Stale(q, s)
<1>1. /\ n \in 0 .. Len(q) /\ Len(q) \in Nat
      /\ \A i \in 1 .. n : q[i].stamp <= s - Window
      /\ n < Len(q) => q[n + 1].stamp > s - Window
  BY StalePrefix
<1> HIDE DEF n
<1>2. \A i \in 1 .. Len(q) : q[i] \in Stamps
  BY ElementOfSeq
<1>3. /\ SubSeq(q, 1, n) \in Seq(Stamps) /\ Len(SubSeq(q, 1, n)) = n
      /\ \A i \in 1 .. n : SubSeq(q, 1, n)[i] = q[i]
  BY <1>1, <1>2
<1>4. /\ SubSeq(q, n + 1, Len(q)) \in Seq(Stamps) /\ Len(SubSeq(q, n + 1, Len(q))) = Len(q) - n
      /\ \A i \in 1 .. Len(q) - n : SubSeq(q, n + 1, Len(q))[i] = q[n + i]
  BY <1>1, <1>2
<1>5. SubSeq(q, 1, n) \o SubSeq(q, n + 1, Len(q)) = q
  <2>1. 1 \in 1 .. Len(q) + 1 /\ n \in 1 - 1 .. Len(q) /\ Len(q) \in n .. Len(q)
    BY <1>1
  <2>2. SubSeq(q, 1, n) \o SubSeq(q, n + 1, Len(q)) = SubSeq(q, 1, Len(q))
    BY <2>1, ConcatAdjacentSubSeq, Zenon
  <2> QED BY <2>2, SubSeqFull
<1>6. \A i \in DOMAIN SubSeq(q, 1, n) : i \in DOMAIN q /\ SubSeq(q, 1, n)[i] = q[i]
                                        /\ q[i].stamp <= s - Window
  BY <1>1, <1>3
<1>7. SubSeq(q, n + 1, Len(q)) # <<>> => SubSeq(q, n + 1, Len(q))[1].stamp > s - Window
  BY <1>1, <1>4
<1>8. Len(SubSeq(q, n + 1, Len(q))) <= Len(q)
  BY <1>1, <1>4
<1> QED BY <1>3, <1>4, <1>5, <1>6, <1>7, <1>8, Zenon DEF Popped, Kept, n

(* Pruning moves stamps from the window to the history, and an admission   *)
(* adds one at the end.                                                    *)
LEMMA HistoryGrows ==
  ASSUME NEW d \in Seq(Stamps), NEW q \in Seq(Stamps), NEW s \in Int, NEW new \in Stamps
  PROVE  /\ d \o Popped(q, s) \in Seq(Stamps) /\ Append(Kept(q, s), new) \in Seq(Stamps)
         /\ (d \o Popped(q, s)) \o Kept(q, s) = d \o q
         /\ (d \o Popped(q, s)) \o Append(Kept(q, s), new) = Append(d \o q, new)
<1> DEFINE P == Popped(q, s)
           K == Kept(q, s)
<1>1. P \in Seq(Stamps) /\ K \in Seq(Stamps) /\ P \o K = q
  BY Pruned
<1> HIDE DEF P, K
<1>2. d \o P \in Seq(Stamps) /\ d \o q \in Seq(Stamps)
  BY <1>1, ConcatProperties
<1>3. (d \o P) \o K = d \o q
  <2>1. d \in Seq(Stamps) /\ P \in Seq(Stamps) /\ K \in Seq(Stamps)
    BY <1>1
  <2>2. (d \o P) \o K = d \o (P \o K)
    BY <2>1, ConcatAssociative
  <2> QED BY <1>1, <2>2
<1>4. Append(K, new) = K \o <<new>> /\ <<new>> \in Seq(Stamps)
      /\ Append(d \o q, new) = (d \o q) \o <<new>> /\ Append(K, new) \in Seq(Stamps)
  BY <1>1, <1>2, AppendIsConcat, AppendProperties
<1>5. (d \o P) \o (K \o <<new>>) = ((d \o P) \o K) \o <<new>>
  BY <1>1, <1>2, <1>4, ConcatAssociative
<1> QED BY <1>2, <1>3, <1>4, <1>5 DEF P, K

(* How many stamps of a sequence lie in a window.                          *)
LEMMA WithinFinite ==
  ASSUME NEW h \in Seq(Stamps), NEW lo, NEW hi
  PROVE  IsFiniteSet(Within(h, lo, hi)) /\ Cardinality(Within(h, lo, hi)) \in Nat
<1>1. Within(h, lo, hi) \in SUBSET (1 .. Len(h)) /\ Len(h) \in Nat
  BY DEF Within
<1>2. IsFiniteSet(1 .. Len(h))
  BY <1>1, FS_Interval
<1>3. IsFiniteSet(Within(h, lo, hi))
  BY <1>1, <1>2, FS_Subset, Zenon
<1> QED BY <1>3, FS_CardinalityType

(* A stamp added counts in the intervals it falls in, and in no other.     *)
LEMMA WithinAppend ==
  ASSUME NEW h \in Seq(Stamps), NEW new \in Stamps, NEW lo, NEW hi
  PROVE  Cardinality(Within(Append(h, new), lo, hi)) =
           Cardinality(Within(h, lo, hi)) + IF lo < new.stamp /\ new.stamp <= hi THEN 1 ELSE 0
<1> DEFINE W == Within(h, lo, hi)
           n == Len(h) + 1
<1>1. /\ Len(h) \in Nat /\ Len(Append(h, new)) = n /\ Append(h, new)[n] = new
      /\ \A i \in 1 .. Len(h) : Append(h, new)[i] = h[i]
      /\ DOMAIN Append(h, new) = 1 .. n /\ DOMAIN h = 1 .. Len(h)
  BY AppendProperties, LenProperties
<1>2. IsFiniteSet(W) /\ Cardinality(W) \in Nat /\ n \notin W
  <2>1. n \notin W
    BY <1>1 DEF Within
  <2> QED BY <2>1, WithinFinite
<1>3. CASE lo < new.stamp /\ new.stamp <= hi
  <2>1. Within(Append(h, new), lo, hi) = W \cup {n}
    BY <1>1, <1>3 DEF Within
  <2> QED BY <1>2, <1>3, <2>1, FS_AddElement
<1>4. CASE ~(lo < new.stamp /\ new.stamp <= hi)
  <2>1. Within(Append(h, new), lo, hi) = W
    BY <1>1, <1>4 DEF Within
  <2> QED BY <1>2, <1>4, <2>1
<1> QED BY <1>3, <1>4

(* While nothing of a window was let go, the limiter still holds it.       *)
LEMMA WithinHeld ==
  ASSUME NEW d \in Seq(Stamps), NEW q \in Seq(Stamps), NEW lo, NEW hi, Within(d, lo, hi) = {}
  PROVE  Cardinality(Within(d \o q, lo, hi)) <= Len(q)
<1> DEFINE kept == (Len(d) + 1) .. (Len(d) + Len(q))
<1>1. /\ Len(d) \in Nat /\ Len(q) \in Nat /\ Len(d \o q) = Len(d) + Len(q) /\ d \o q \in Seq(Stamps)
      /\ \A i \in 1 .. Len(d) + Len(q) : (d \o q)[i] = IF i <= Len(d) THEN d[i] ELSE q[i - Len(d)]
  BY ConcatProperties
<1>2. Within(d \o q, lo, hi) \in SUBSET kept
  BY <1>1 DEF Within
<1>3. IsFiniteSet(kept) /\ Cardinality(kept) = Len(q)
  <2> DEFINE a == Len(d) + 1
             b == Len(d) + Len(q)
  <2>1. a \in Int /\ b \in Int /\ Len(q) = IF a > b THEN 0 ELSE b - a + 1
    BY <1>1
  <2> HIDE DEF a, b
  <2>2. IsFiniteSet(a .. b) /\ Cardinality(a .. b) = IF a > b THEN 0 ELSE b - a + 1
    BY <2>1, FS_Interval
  <2> QED BY <2>1, <2>2 DEF a, b
<1> HIDE DEF kept
<1> QED BY <1>2, <1>3, FS_Subset

-----------------------------------------------------------------------------
(* Requests that have read the clock by t and wait for the limiter's lock. *)
Pending(k, t) ==
  {c \in Callers : jobs[c].phase = "limit" /\ Key(jobs[c].ctx) = k /\ jobs[c].stamp <= t}

(* Once a stamp of a window was let go, the window's time is over, and     *)
(* only requests that wait already can still fall into it.                 *)
Closing(d, q, t, clock, pending) ==
  Within(d, t - Window, t) # {} =>
    /\ clock > t
    /\ Cardinality(Within(d \o q, t - Window, t)) + pending <= Limit + Cardinality(Callers) - 1

(* A request that takes the lock lets go only of windows that its own      *)
(* stamp is past, and leaves the requests that wait with one less.         *)
LEMMA CheckCloses ==
  ASSUME NEW d \in Seq(Stamps), NEW q \in Seq(Stamps), Len(q) <= Limit,
         NEW t \in Nat, NEW clock \in Nat, NEW s \in Nat, s <= clock,
         NEW before \in Nat, NEW after \in Nat, Closing(d, q, t, clock, before),
         after + (IF s <= t THEN 1 ELSE 0) <= before, after <= Cardinality(Callers) - 1,
         NEW rest \in Seq(Stamps),
         NEW new \in Stamps, new.stamp = s,
         (d \o Popped(q, s)) \o rest \in {d \o q, Append(d \o q, new)}
  PROVE  Closing(d \o Popped(q, s), rest, t, clock, after)
<1> DEFINE P == Popped(q, s)
           lo == t - Window
           all == Cardinality(Within(d \o q, lo, t))
           most == Limit + Cardinality(Callers) - 1
<1>1. P \in Seq(Stamps) /\ d \o q \in Seq(Stamps)
  BY Pruned, ConcatProperties
<1>2. lo \in Int /\ lo < t /\ Cardinality(Callers) \in Nat /\ most \in Int /\ Limit \in Nat
  BY ControlsAssumption, FS_CardinalityType
<1>3. all \in Nat /\ Len(q) \in Nat
  <2>1. all \in Nat
    BY <1>1, WithinFinite, Zenon
  <2> QED BY <2>1
<1>4. Cardinality(Within((d \o P) \o rest, lo, t)) <= all + IF lo < s /\ s <= t THEN 1 ELSE 0
  <2>1. Cardinality(Within(Append(d \o q, new), lo, t)) = all + IF lo < s /\ s <= t THEN 1 ELSE 0
    <3>1. \A hi : Cardinality(Within(Append(d \o q, new), lo, hi)) =
                     Cardinality(Within(d \o q, lo, hi))
                       + IF lo < new.stamp /\ new.stamp <= hi THEN 1 ELSE 0
      BY <1>1, WithinAppend, Zenon
    <3> QED BY <3>1
  <2>2. (d \o P) \o rest \in {d \o q, Append(d \o q, new)}
    OBVIOUS
  <2> HIDE DEF all, lo, P
  <2>3. CASE (d \o P) \o rest = d \o q
    <3>1. Cardinality(Within((d \o P) \o rest, lo, t)) = all
      BY <2>3, Zenon DEF all
    <3> QED BY <1>2, <1>3, <3>1
  <2>4. CASE (d \o P) \o rest = Append(d \o q, new)
    BY <1>2, <1>3, <2>1, <2>4
  <2> QED BY <2>2, <2>3, <2>4
<1>5. Cardinality(Within((d \o P) \o rest, lo, t)) \in Nat
  <2>1. Append(d \o q, new) \in Seq(Stamps)
    BY <1>1, AppendProperties
  <2> QED BY <1>1, <2>1, WithinFinite
<1> SUFFICES ASSUME Within(d \o P, lo, t) # {}
             PROVE  /\ clock > t
                    /\ Cardinality(Within((d \o P) \o rest, lo, t)) + after <= most
  BY DEF Closing
<1>6. CASE Within(d, lo, t) # {}
  <2>1. clock > t /\ all + before <= most
    BY <1>6 DEF Closing
  <2> HIDE DEF all, most, lo, P
  <2> QED BY <1>2, <1>3, <1>4, <1>5, <2>1
<1>7. CASE Within(d, lo, t) = {}
  <2>1. PICK i \in DOMAIN (d \o P) : lo < (d \o P)[i].stamp /\ (d \o P)[i].stamp <= t
    BY DEF Within
  <2>2. \E j \in DOMAIN P : lo < P[j].stamp
    <3>1. /\ Len(d) \in Nat /\ Len(P) \in Nat /\ DOMAIN P = 1 .. Len(P) /\ DOMAIN d = 1 .. Len(d)
          /\ DOMAIN (d \o P) = 1 .. Len(d) + Len(P)
          /\ (d \o P)[i] = IF i <= Len(d) THEN d[i] ELSE P[i - Len(d)]
      BY <1>1, <2>1, ConcatProperties, LenProperties
    <3>2. ~(i <= Len(d))
      BY <1>7, <2>1, <3>1 DEF Within
    <3> QED BY <2>1, <3>1, <3>2
  <2>3. PICK j \in DOMAIN P : lo < P[j].stamp
    BY <2>2
  <2>4. j \in DOMAIN q /\ P[j] = q[j] /\ q[j].stamp <= s - Window
    BY <2>3, Pruned
  <2>5. q[j].stamp \in Int
    <3>1. q[j] \in Stamps
      BY <2>4, ElementOfSeq, LenProperties
    <3> QED BY <3>1 DEF Stamps
  <2>6. t < s
    BY <2>3, <2>4, <2>5, ControlsAssumption
  <2>7. all <= Limit
    <3>1. all <= Len(q)
      BY <1>7, WithinHeld
    <3> QED BY <1>2, <1>3, <3>1
  <2> HIDE DEF all, most, lo, P
  <2>8. Cardinality(Within((d \o P) \o rest, lo, t)) <= all
    BY <1>2, <1>3, <1>4, <2>6
  <2>9. Cardinality(Within((d \o P) \o rest, lo, t)) + after <= Limit + (Cardinality(Callers) - 1)
    BY <1>2, <1>3, <1>5, <2>7, <2>8
  <2> QED BY <1>2, <2>6, <2>9 DEF most
<1> QED BY <1>6, <1>7

(* A window that is closing goes on closing while time passes and no new   *)
(* request can fall into it.                                               *)
LEMMA ClosingKept ==
  ASSUME NEW d \in Seq(Stamps), NEW q \in Seq(Stamps), NEW t \in Nat,
         NEW clock \in Nat, NEW later \in Nat, clock <= later,
         NEW before \in Nat, NEW after \in Nat, clock > t => after <= before,
         Closing(d, q, t, clock, before)
  PROVE  Closing(d, q, t, later, after)
<1> DEFINE all == Cardinality(Within(d \o q, t - Window, t))
           most == Limit + Cardinality(Callers) - 1
<1>1. all \in Nat
  <2>1. d \o q \in Seq(Stamps)
    BY ConcatProperties
  <2> QED BY <2>1, WithinFinite
<1>2. most \in Int
  BY ControlsAssumption, FS_CardinalityType
<1> SUFFICES ASSUME Within(d, t - Window, t) # {} PROVE later > t /\ all + after <= most
  BY DEF Closing
<1>3. clock > t /\ all + before <= most
  BY DEF Closing
<1> HIDE DEF all, most
<1> QED BY <1>1, <1>2, <1>3

-----------------------------------------------------------------------------
(* Admissions are stamped before they happen and happen in their order.    *)
Ordered(h, clock) ==
  \A i \in DOMAIN h : /\ h[i].stamp <= h[i].at /\ h[i].at <= clock
                      /\ \A j \in 1 .. i : h[j].at <= h[i].at

KeyInv(k) ==
  /\ events[k] \in Seq(Stamps) /\ dropped[k] \in Seq(Stamps)
  /\ Len(events[k]) <= Limit
  /\ Ordered(History(k), now)
  /\ \A t \in Nat : Closing(dropped[k], events[k], t, now, Cardinality(Pending(k, t)))

(* What the limiter keeps so that its windows are bounded: no window is    *)
(* pruned while its time is not over, and of one that is pruned, what was  *)
(* admitted and what waits cannot exceed the bound together.               *)
WindowInv ==
  /\ now \in 0 .. MaxTime
  /\ events = [k \in Keys |-> events[k]] /\ dropped = [k \in Keys |-> dropped[k]]
  /\ \A c \in Callers : jobs[c].phase = "limit" => jobs[c].stamp \in 0 .. now
  /\ \A k \in Keys : KeyInv(k)

(* A stamp added no later than the clock keeps a history in order of       *)
(* admission.                                                              *)
LEMMA OrderedAppend ==
  ASSUME NEW h \in Seq(Stamps), NEW clock \in Nat, Ordered(h, clock),
         NEW new \in Stamps, new.stamp <= clock, new.at = clock
  PROVE  Ordered(Append(h, new), clock)
<1> DEFINE g == Append(h, new)
<1>1. /\ Len(h) \in Nat /\ DOMAIN g = 1 .. Len(h) + 1 /\ DOMAIN h = 1 .. Len(h)
      /\ g[Len(h) + 1] = new /\ \A i \in 1 .. Len(h) : g[i] = h[i]
  BY AppendProperties, LenProperties
<1> HIDE DEF g
<1>2. ASSUME NEW i \in 1 .. Len(h) + 1
      PROVE  /\ g[i].stamp <= g[i].at /\ g[i].at <= clock
             /\ \A j \in 1 .. i : g[j].at <= g[i].at
  <2>1. CASE i \in 1 .. Len(h)
    <3>1. \A j \in 1 .. i : g[j] = h[j] /\ j \in 1 .. Len(h)
      BY <1>1, <2>1
    <3>2. g[i] = h[i] /\ i \in DOMAIN h
      BY <1>1, <2>1
    <3> QED BY <3>1, <3>2 DEF Ordered
  <2>2. CASE i = Len(h) + 1
    <3>1. g[i] = new
      BY <1>1, <2>2
    <3>2. ASSUME NEW j \in 1 .. i PROVE g[j].at <= clock
      <4>1. CASE j = i
        BY <3>1, <4>1
      <4>2. CASE j # i
        <5>1. j \in DOMAIN h /\ g[j] = h[j]
          BY <1>1, <2>2, <4>2
        <5> QED BY <5>1 DEF Ordered
      <4> QED BY <4>1, <4>2
    <3> QED BY <3>1, <3>2
  <2> QED BY <1>1, <2>1, <2>2
<1> QED BY <1>1, <1>2 DEF Ordered, g

(* Waiting requests are threads of the pool.                               *)
LEMMA PendingFinite ==
  ASSUME NEW k, NEW t
  PROVE  IsFiniteSet(Pending(k, t)) /\ Cardinality(Pending(k, t)) \in Nat
BY ControlsAssumption, FS_Subset, FS_CardinalityType, Zenon DEF Pending

(* After a step, too, the requests that wait are finitely many.            *)
LEMMA PendingFiniteNext ==
  ASSUME NEW k, NEW t
  PROVE  IsFiniteSet(Pending(k, t)') /\ Cardinality(Pending(k, t)') \in Nat
<1>1. Pending(k, t)' \in SUBSET Callers
  BY DEF Pending
<1> QED BY <1>1, ControlsAssumption, FS_Subset, FS_CardinalityType, Zenon

(* At the start no stamp was admitted or let go.                           *)
LEMMA WindowInit == Init => WindowInv
<1> SUFFICES ASSUME Init PROVE WindowInv
  OBVIOUS
<1>1. /\ now = 0 /\ events = [k \in Keys |-> <<>>] /\ dropped = [k \in Keys |-> <<>>]
      /\ \A c \in Callers : jobs[c].phase = "idle"
  BY DEF Init, IdleJob
<1>2. ASSUME NEW k \in Keys PROVE KeyInv(k)
  <2>1. events[k] = <<>> /\ dropped[k] = <<>> /\ History(k) = <<>>
    BY <1>1 DEF History
  <2>2. \A lo, hi : Within(<<>>, lo, hi) = {}
    BY DEF Within
  <2>3. <<>> \in Seq(Stamps) /\ Len(<<>>) = 0
    OBVIOUS
  <2> QED BY <1>1, <2>1, <2>2, <2>3, ControlsAssumption DEF KeyInv, Ordered, Closing
<1> QED BY <1>1, <1>2, ControlsAssumption DEF WindowInv

(* What a request that takes the lock does to the limiter: stale stamps    *)
(* move to the history, and an admission is added at the end.              *)
Checked(c, k) ==
  LET s == jobs[c].stamp IN
    \E rest \in Seq(Stamps), new \in Stamps :
      /\ events' = [events EXCEPT ![k] = rest]
      /\ dropped' = [dropped EXCEPT ![k] = @ \o Popped(events[k], s)]
      /\ new.stamp = s /\ new.at = now
      /\ Len(rest) <= Limit
      /\ (dropped[k] \o Popped(events[k], s)) \o rest \in {History(k), Append(History(k), new)}

(* A check pops the stamps that are past its window, and either adds its   *)
(* own or, with the window full, does not.                                 *)
LEMMA CheckMoves ==
  ASSUME JobInv, WindowInv, NEW c \in Callers, Admit(c) \/ Refuse(c)
  PROVE  /\ jobs[c].phase = "limit" /\ Key(jobs[c].ctx) \in Keys
         /\ Checked(c, Key(jobs[c].ctx))
<1> DEFINE k == Key(jobs[c].ctx)
           s == jobs[c].stamp
           q == events[k]
           d == dropped[k]
           new == [stamp |-> s, at |-> now]
<1>1. jobs[c].phase = "limit" /\ k \in Keys
  BY DEF Admit, Refuse, JobInv, RouteJob, Key, Keys
<1>2. /\ s \in 0 .. now /\ now \in 0 .. MaxTime /\ s \in Int
      /\ q \in Seq(Stamps) /\ d \in Seq(Stamps) /\ Len(q) <= Limit
  BY <1>1 DEF WindowInv, KeyInv
<1>3. new \in Stamps /\ new.stamp = s /\ new.at = now
  BY <1>2, ControlsAssumption DEF Stamps
<1>4. dropped' = [dropped EXCEPT ![k] = @ \o Popped(q, s)]
  BY DEF Admit, Refuse, Pop, Popped
<1>5. /\ Append(Kept(q, s), new) \in Seq(Stamps)
      /\ (d \o Popped(q, s)) \o Kept(q, s) = d \o q
      /\ (d \o Popped(q, s)) \o Append(Kept(q, s), new) = Append(d \o q, new)
  <2> HIDE DEF new, s, q, d
  <2> QED BY <1>2, <1>3, HistoryGrows
<1>6. Kept(q, s) \in Seq(Stamps) /\ Len(Kept(q, s)) <= Len(q)
  <2> HIDE DEF s, q
  <2> QED BY <1>2, Pruned
<1>7. CASE Admit(c)
  <2>1. events' = [events EXCEPT ![k] = Append(Kept(q, s), new)] /\ ~Full(Kept(q, s))
    BY <1>7 DEF Admit
  <2> HIDE DEF new, s, q
  <2>2. Len(Append(Kept(q, s), new)) <= Limit
    <3>1. Len(Append(Kept(q, s), new)) = Len(Kept(q, s)) + 1 /\ Len(Kept(q, s)) \in Nat
      BY <1>3, <1>6, AppendProperties, LenProperties
    <3> QED BY <2>1, <3>1, ControlsAssumption DEF Full
  <2> HIDE DEF k
  <2> QED BY <1>1, <1>3, <1>4, <1>5, <2>1, <2>2 DEF Checked, History, k, q, s, d
<1>8. CASE Refuse(c)
  <2>1. events' = [events EXCEPT ![k] = Kept(q, s)]
    BY <1>8 DEF Refuse
  <2>2. Len(Kept(q, s)) <= Limit
    <3>1. Len(Kept(q, s)) \in Nat /\ Len(q) \in Nat
      BY <1>2, <1>6, LenProperties
    <3> QED BY <1>2, <1>6, <3>1, ControlsAssumption
  <2> HIDE DEF new, k
  <2> QED BY <1>1, <1>3, <1>4, <1>5, <1>6, <2>1, <2>2 DEF Checked, History, k, q, s, d
<1> QED BY <1>7, <1>8

(* The request itself waits no longer, and the others wait as before.      *)
LEMMA CheckWaits ==
  ASSUME JobInv, WindowInv, NEW c \in Callers, Admit(c) \/ Refuse(c)
  PROVE  /\ now' = now
         /\ \A e \in Callers : jobs'[e].phase = "limit" => e # c /\ jobs'[e] = jobs[e]
<1>1. now' = now
  BY DEF Admit, Refuse
<1>2. \A e \in Callers \ {c} : jobs'[e] = jobs[e]
  BY DEF Admit, Refuse, Finish, JobInv
<1>3. jobs'[c].phase # "limit"
  <2>1. CASE Admit(c)
    <3>1. jobs[c] \in RouteJob("limit") /\ jobs'[c] = [jobs[c] EXCEPT !.phase = "trace"]
      BY <2>1 DEF Admit, JobInv
    <3> QED BY <3>1 DEF RouteJob
  <2>2. CASE Refuse(c)
    BY <2>2 DEF Refuse, Finish, JobInv, IdleJob
  <2> QED BY <2>1, <2>2
<1> QED BY <1>1, <1>2, <1>3

(* Whoever has waited for the lock and is through no longer counts.        *)
LEMMA CheckPending ==
  ASSUME JobInv, WindowInv, NEW c \in Callers, Admit(c) \/ Refuse(c), NEW t \in Nat, NEW k
  PROVE  /\ Cardinality(Pending(k, t)') <= Cardinality(Pending(k, t))
         /\ k = Key(jobs[c].ctx) =>
              /\ Cardinality(Pending(k, t)') + (IF jobs[c].stamp <= t THEN 1 ELSE 0)
                   <= Cardinality(Pending(k, t))
              /\ Cardinality(Pending(k, t)') <= Cardinality(Callers) - 1
<1>1. /\ IsFiniteSet(Pending(k, t)) /\ Cardinality(Pending(k, t)) \in Nat
      /\ IsFiniteSet(Pending(k, t)') /\ Cardinality(Pending(k, t)') \in Nat
  BY PendingFinite, PendingFiniteNext
<1>2. \A e \in Callers : jobs'[e].phase = "limit" => e # c /\ jobs'[e] = jobs[e]
  BY CheckWaits
<1>3. Pending(k, t)' \in SUBSET (Pending(k, t) \ {c})
  BY <1>2 DEF Pending
<1>4. Cardinality(Pending(k, t)') <= Cardinality(Pending(k, t))
  BY <1>1, <1>3, FS_Subset
<1>5. Cardinality(Pending(k, t)') <= Cardinality(Callers) - 1
  <2>1. IsFiniteSet(Callers \ {c}) /\ Cardinality(Callers \ {c}) = Cardinality(Callers) - 1
    BY ControlsAssumption, FS_RemoveElement
  <2>2. Pending(k, t)' \in SUBSET (Callers \ {c})
    BY <1>3 DEF Pending
  <2> QED BY <2>1, <2>2, FS_Subset
<1>6. ASSUME k = Key(jobs[c].ctx), jobs[c].stamp <= t
      PROVE  Cardinality(Pending(k, t)') <= Cardinality(Pending(k, t)) - 1
  <2>1. c \in Pending(k, t)
    BY <1>6 DEF Pending, Admit, Refuse
  <2>2. IsFiniteSet(Pending(k, t) \ {c})
        /\ Cardinality(Pending(k, t) \ {c}) = Cardinality(Pending(k, t)) - 1
    BY <1>1, <2>1, FS_RemoveElement
  <2> QED BY <1>3, <2>2, FS_Subset
<1> QED BY <1>1, <1>4, <1>5, <1>6

(* A check keeps the invariant of the key that it is for.                  *)
LEMMA CheckKey ==
  ASSUME JobInv, WindowInv, NEW c \in Callers, Admit(c) \/ Refuse(c)
  PROVE  \A k \in Keys : k = Key(jobs[c].ctx) => KeyInv(k)'
<1> SUFFICES ASSUME NEW k \in Keys, k = Key(jobs[c].ctx) PROVE KeyInv(k)'
  OBVIOUS
<1>1. PICK s \in Nat : k = Key(jobs[c].ctx) /\ s = jobs[c].stamp
  BY CheckMoves DEF WindowInv
<1>2. PICK q \in Seq(Stamps), d \in Seq(Stamps) : q = events[k] /\ d = dropped[k]
  BY <1>1 DEF WindowInv, KeyInv
<1>3. PICK clock \in Nat : clock = now
  BY DEF WindowInv
<1>4. PICK rest \in Seq(Stamps), new \in Stamps :
        /\ events' = [events EXCEPT ![k] = rest]
        /\ dropped' = [dropped EXCEPT ![k] = @ \o Popped(q, s)]
        /\ new.stamp = s /\ new.at = clock
        /\ Len(rest) <= Limit
        /\ (d \o Popped(q, s)) \o rest \in {d \o q, Append(d \o q, new)}
  <2>1. Checked(c, k)
    BY <1>1, CheckMoves
  <2> QED BY <1>1, <1>2, <1>3, <2>1, Zenon DEF Checked, History
<1>5. events'[k] = rest /\ dropped'[k] = d \o Popped(q, s) /\ now' = clock
  BY <1>2, <1>3, <1>4, CheckWaits DEF WindowInv
<1>6. Len(q) <= Limit /\ Ordered(d \o q, clock) /\ s <= clock
      /\ \A t \in Nat : Closing(d, q, t, clock, Cardinality(Pending(k, t)))
  <2>1. KeyInv(k)
    BY <1>1 DEF WindowInv
  <2>2. s <= clock
    BY <1>1, <1>3, CheckMoves DEF WindowInv
  <2> QED BY <1>2, <1>3, <2>1, <2>2 DEF KeyInv, History
<1>7. Popped(q, s) \in Seq(Stamps) /\ d \o Popped(q, s) \in Seq(Stamps) /\ d \o q \in Seq(Stamps)
  BY Pruned, ConcatProperties
<1>8. Ordered((d \o Popped(q, s)) \o rest, clock)
  <2>1. Ordered(Append(d \o q, new), clock)
    BY <1>4, <1>6, <1>7, OrderedAppend
  <2> QED BY <1>4, <1>6, <2>1
<1>9. ASSUME NEW t \in Nat
      PROVE  Closing(d \o Popped(q, s), rest, t, clock, Cardinality(Pending(k, t)'))
  <2>1. PICK before \in Nat, after \in Nat :
          before = Cardinality(Pending(k, t)) /\ after = Cardinality(Pending(k, t)')
    BY PendingFinite, PendingFiniteNext
  <2>2. after + (IF s <= t THEN 1 ELSE 0) <= before /\ after <= Cardinality(Callers) - 1
    BY <1>1, <2>1, CheckPending
  <2>3. Closing(d, q, t, clock, before)
    BY <1>6, <2>1
  <2>4. Closing(d \o Popped(q, s), rest, t, clock, after)
    BY <1>4, <1>6, <2>2, <2>3, CheckCloses
  <2> QED BY <2>1, <2>4
<1> QED BY <1>4, <1>5, <1>7, <1>8, <1>9 DEF KeyInv, History

(* Where nothing is checked, a key keeps its invariant while time passes,  *)
(* threads arrive with a fresh stamp and threads leave.                    *)
LEMMA OtherKey ==
  ASSUME WindowInv, NEW k \in Keys,
         events'[k] = events[k], dropped'[k] = dropped[k], now' \in Nat, now <= now',
         \A t \in Nat : now > t =>
            Cardinality(Pending(k, t)') <= Cardinality(Pending(k, t))
  PROVE  KeyInv(k)'
<1>1. PICK q \in Seq(Stamps), d \in Seq(Stamps) : q = events[k] /\ d = dropped[k]
  BY DEF WindowInv, KeyInv
<1>2. PICK clock \in Nat, later \in Nat : clock = now /\ later = now' /\ clock <= later
  BY DEF WindowInv
<1>3. Len(q) <= Limit /\ Ordered(d \o q, clock)
      /\ \A t \in Nat : Closing(d, q, t, clock, Cardinality(Pending(k, t)))
  <2>1. KeyInv(k)
    BY DEF WindowInv
  <2> QED BY <1>1, <1>2, <2>1 DEF KeyInv, History
<1>4. Ordered(d \o q, later)
  <2>1. \A i \in DOMAIN (d \o q) : (d \o q)[i].at \in Int
    <3>1. d \o q \in Seq(Stamps)
      BY ConcatProperties
    <3>2. \A i \in DOMAIN (d \o q) : (d \o q)[i] \in Stamps
      BY <3>1, ElementOfSeq, LenProperties
    <3> QED BY <3>2 DEF Stamps
  <2> QED BY <1>2, <1>3, <2>1 DEF Ordered
<1>5. ASSUME NEW t \in Nat
      PROVE  Closing(d, q, t, later, Cardinality(Pending(k, t)'))
  <2>1. PICK before \in Nat, after \in Nat :
          before = Cardinality(Pending(k, t)) /\ after = Cardinality(Pending(k, t)')
    BY PendingFinite, PendingFiniteNext
  <2>2. clock > t => after <= before
    BY <1>2, <2>1
  <2>3. Closing(d, q, t, clock, before)
    BY <1>3, <2>1
  <2>4. Closing(d, q, t, later, after)
    BY <1>2, <2>2, <2>3, ClosingKept
  <2> QED BY <2>1, <2>4
<1> QED BY <1>1, <1>2, <1>3, <1>4, <1>5 DEF KeyInv, History

(* A thread that starts to wait has just read the clock.                   *)
Waits(c) == jobs'[c].phase = "limit" => jobs'[c] = jobs[c] \/ jobs'[c].stamp = now

(* Every other step leaves the limiter alone, and so do the stamps of the  *)
(* requests that wait already.                                             *)
LEMMA QuietStep ==
  ASSUME JobInv, WindowInv, UNCHANGED limiter, now' \in now .. MaxTime,
         \A c \in Callers : Waits(c)
  PROVE  WindowInv'
<1>1. now' \in Nat /\ now <= now' /\ now \in Nat /\ now' \in 0 .. MaxTime
  BY ControlsAssumption DEF WindowInv
<1>2. ASSUME NEW k, NEW t \in Nat, now > t
      PROVE  Cardinality(Pending(k, t)') <= Cardinality(Pending(k, t))
  <2>1. Pending(k, t)' \in SUBSET Pending(k, t)
    <3>1. ASSUME NEW c \in Pending(k, t)' PROVE c \in Pending(k, t)
      <4>1. c \in Callers /\ jobs'[c].phase = "limit" /\ Key(jobs'[c].ctx) = k
            /\ jobs'[c].stamp <= t
        BY <3>1 DEF Pending
      <4>2. jobs'[c] = jobs[c]
        BY <1>1, <1>2, <4>1 DEF Waits
      <4> QED BY <4>1, <4>2 DEF Pending
    <3> QED BY <3>1
  <2> QED BY <2>1, PendingFinite, FS_Subset
<1>3. \A k \in Keys : KeyInv(k)'
  BY <1>1, <1>2, OtherKey DEF limiter
<1>4. \A c \in Callers : jobs'[c].phase = "limit" => jobs'[c].stamp \in 0 .. now'
  BY <1>1 DEF Waits, WindowInv
<1> QED BY <1>1, <1>3, <1>4 DEF WindowInv, limiter

(* A check, whether it admits or refuses, keeps the window of every key.   *)
LEMMA CheckStep ==
  ASSUME JobInv, WindowInv, NEW c \in Callers, Admit(c) \/ Refuse(c)
  PROVE  WindowInv'
<1> DEFINE key == Key(jobs[c].ctx)
<1>1. now' = now /\ \A e \in Callers : jobs'[e].phase = "limit" => jobs'[e] = jobs[e]
  BY CheckWaits
<1>2. key \in Keys /\ \A k \in Keys : k = key => KeyInv(k)'
  BY CheckKey, CheckMoves
<1>3. /\ events' = [events EXCEPT ![key] = events'[key]]
      /\ dropped' = [dropped EXCEPT ![key] = dropped'[key]]
  BY <1>2, CheckMoves DEF Checked, WindowInv
<1> HIDE DEF key
<1>4. ASSUME NEW k \in Keys, k # key PROVE KeyInv(k)'
  <2>1. events'[k] = events[k] /\ dropped'[k] = dropped[k]
    BY <1>3, <1>4 DEF WindowInv
  <2>2. \A t \in Nat : Cardinality(Pending(k, t)') <= Cardinality(Pending(k, t))
    BY CheckPending
  <2>3. now' \in Nat /\ now <= now'
    BY <1>1 DEF WindowInv
  <2> QED BY <2>1, <2>2, <2>3, OtherKey
<1>5. ASSUME NEW k \in Keys PROVE KeyInv(k)'
  BY <1>2, <1>4
<1>6. \A e \in Callers : jobs'[e].phase = "limit" => jobs'[e].stamp \in 0 .. now'
  BY <1>1 DEF WindowInv
<1> QED BY <1>1, <1>2, <1>3, <1>5, <1>6 DEF WindowInv

(* Only a route request waits for the limiter, stamped when it arrives.    *)
LEMMA StartWaits ==
  ASSUME JobInv, NEW c \in Callers, NEW op, NEW job, Start(c, op, job),
         job.phase = "limit" => job.stamp = now
  PROVE  \A e \in Callers : Waits(e)
BY DEF Start, JobInv, Waits

(* A thread that is done leaves the requests that wait alone.              *)
LEMMA FinishWaits ==
  ASSUME JobInv, NEW c \in Callers, Finish(c)
  PROVE  \A e \in Callers : Waits(e)
<1>1. IdleJob.phase # "limit"
  BY DEF IdleJob
<1> QED BY <1>1 DEF Finish, JobInv, Waits

(* Every step keeps the windows: only checks touch the stamps, and waiting *)
(* requests only get fewer or arrive with the stamp of the moment.         *)
LEMMA WindowStep == JobInv /\ WindowInv /\ [Next]_vars => WindowInv'
<1> SUFFICES ASSUME JobInv, WindowInv, [Next]_vars PROVE WindowInv'
  OBVIOUS
<1>1. ASSUME UNCHANGED <<now, limiter>>, \A e \in Callers : Waits(e) PROVE WindowInv'
  <2>1. now' \in now .. MaxTime
    BY <1>1, ControlsAssumption DEF WindowInv
  <2> QED BY <1>1, <2>1, QuietStep
<1>2. UNCHANGED jobs => \A e \in Callers : Waits(e)
  BY DEF Waits
<1>3. CASE UNCHANGED vars
  BY <1>1, <1>2, <1>3 DEF vars, limiter
<1>4. ASSUME NEW c \in Callers, Serve(c) PROVE WindowInv'
  <2>1. CASE Admit(c) \/ Refuse(c)
    BY <2>1, CheckStep
  <2>2. ASSUME NEW ctx \in Contexts, NEW project \in Projects, NEW id \in TraceIds,
               Arrive(c, ctx, project, id)
        PROVE  WindowInv'
    <3> DEFINE job == [phase |-> "limit", ctx |-> ctx, project |-> project,
                       id |-> id, stamp |-> now]
    <3>1. Start(c, "route", job) /\ UNCHANGED <<now, limiter>> /\ job.stamp = now
      BY <2>2 DEF Arrive
    <3> HIDE DEF job
    <3> QED BY <3>1, <1>1, StartWaits
  <2>3. CASE Decline(c) \/ RecordTrace(c) \/ RecordFails(c) \/ ReadBack(c)
             \/ DeleteExpired(c) \/ CopyRows(c) \/ CopyFails(c)
    <3>1. Finish(c) /\ UNCHANGED <<now, limiter>>
      BY <2>3 DEF Decline, RecordTrace, RecordFails, ReadBack, DeleteExpired, CopyRows,
                  CopyFails
    <3> QED BY <3>1, <1>1, FinishWaits
  <2>4. CASE (\E s \in Slots, limit \in Limits : SetBudget(c, s, limit))
             \/ (\E s \in Slots, amount \in Amounts : Reserve(c, s, amount))
    <3> DEFINE job == [phase |-> "readback"]
    <3>1. Start(c, "budget", job) /\ UNCHANGED <<now, limiter>>
      BY <2>4 DEF SetBudget, Reserve
    <3>2. job.phase # "limit"
      OBVIOUS
    <3> HIDE DEF job
    <3> QED BY <3>1, <3>2, <1>1, StartWaits
  <2>5. ASSUME NEW ctx \in Contexts, PurgeExpired(c, ctx) PROVE WindowInv'
    <3> DEFINE job == [phase |-> "purge", tenant |-> ctx.tenant, stamp |-> now]
    <3>1. Start(c, "retain", job) /\ UNCHANGED <<now, limiter>> /\ job.phase # "limit"
      BY <2>5 DEF PurgeExpired
    <3> HIDE DEF job
    <3> QED BY <3>1, <1>1, StartWaits
  <2>6. ASSUME NEW ctx \in Contexts, NEW p \in Paths, Backup(c, ctx, p) PROVE WindowInv'
    <3> DEFINE job == [phase |-> "backup", tenant |-> ctx.tenant, path |-> p]
    <3>1. Start(c, "retain", job) /\ UNCHANGED <<now, limiter>> /\ job.phase # "limit"
      BY <2>6 DEF Backup
    <3> HIDE DEF job
    <3> QED BY <3>1, <1>1, StartWaits
  <2> QED BY <1>4, <2>1, <2>2, <2>3, <2>4, <2>5, <2>6 DEF Serve
<1>5. ASSUME NEW ctx \in Contexts, ResetSynthetic(ctx) PROVE WindowInv'
  BY <1>1, <1>2, <1>5 DEF ResetSynthetic
<1>6. ASSUME NEW ctx \in Contexts, NEW project \in Projects, NEW days \in Retentions,
             NEW i \in ArtifactIds, Put(ctx, project, days, i)
      PROVE  WindowInv'
  BY <1>1, <1>2, <1>6 DEF Put
<1>7. ASSUME NEW ctx \in Contexts, NEW i \in ArtifactIds, NEW active \in BOOLEAN,
             SetLegalHold(ctx, i, active)
      PROVE  WindowInv'
  BY <1>1, <1>2, <1>7 DEF SetLegalHold
<1>8. CASE Tick
  <2>1. now' \in now .. MaxTime /\ UNCHANGED <<limiter, jobs>>
    BY <1>8, ControlsAssumption DEF Tick, WindowInv
  <2> QED BY <2>1, <1>2, QuietStep
<1>9. CASE Restart
  <2>1. /\ now' = now /\ \A c \in Callers : jobs'[c].phase = "idle"
        /\ events' = [k \in Keys |-> <<>>] /\ dropped' = [k \in Keys |-> <<>>]
    BY <1>9 DEF Restart, IdleJob
  <2>2. ASSUME NEW k \in Keys PROVE KeyInv(k)'
    <3>1. events'[k] = <<>> /\ dropped'[k] = <<>> /\ History(k)' = <<>>
      BY <2>1 DEF History
    <3>2. \A lo, hi : Within(<<>>, lo, hi) = {}
      BY DEF Within
    <3>3. <<>> \in Seq(Stamps) /\ Len(<<>>) = 0
      OBVIOUS
    <3> QED BY <3>1, <3>2, <3>3, ControlsAssumption DEF KeyInv, Ordered, Closing
  <2> QED BY <2>1, <2>2 DEF WindowInv
<1> QED BY <1>3, <1>4, <1>5, <1>6, <1>7, <1>8, <1>9 DEF Next

(* A window holds the limit and a request of each other thread, at most.   *)
LEMMA WindowHolds == WindowInv => WindowBound
<1> SUFFICES ASSUME WindowInv, NEW k \in Keys, NEW t \in 0 .. now
             PROVE  Cardinality(Within(History(k), t - Window, t))
                      <= Limit + Cardinality(Callers) - 1
  BY DEF WindowBound
<1>1. t \in Nat /\ KeyInv(k)
  BY DEF WindowInv
<1>2. Cardinality(Callers) \in Nat /\ Cardinality(Callers) # 0 /\ Limit \in Nat
  BY ControlsAssumption, FS_CardinalityType, FS_EmptySet
<1>3. PICK q \in Seq(Stamps), d \in Seq(Stamps) : q = events[k] /\ d = dropped[k]
  BY <1>1 DEF KeyInv
<1> DEFINE all == Cardinality(Within(d \o q, t - Window, t))
<1>4. all \in Nat
  <2>1. d \o q \in Seq(Stamps)
    BY ConcatProperties
  <2> QED BY <2>1, WithinFinite
<1>5. CASE Within(d, t - Window, t) = {}
  <2>1. all <= Len(q) /\ Len(q) \in Nat /\ Len(q) <= Limit
    <3>1. all <= Len(q)
      BY <1>5, WithinHeld
    <3> QED BY <1>1, <1>3, <3>1 DEF KeyInv
  <2> HIDE DEF all
  <2>2. all <= Limit + Cardinality(Callers) - 1
    BY <1>2, <1>4, <2>1
  <2> QED BY <1>3, <2>2 DEF all, History
<1>6. CASE Within(d, t - Window, t) # {}
  <2>1. PICK pending \in Nat : pending = Cardinality(Pending(k, t))
    BY PendingFinite
  <2>2. all + pending <= Limit + Cardinality(Callers) - 1
    BY <1>1, <1>3, <1>6, <2>1 DEF KeyInv, Closing
  <2> HIDE DEF all
  <2>3. all <= Limit + Cardinality(Callers) - 1
    BY <1>2, <1>4, <2>1, <2>2
  <2> QED BY <1>3, <2>3 DEF all, History
<1> QED BY <1>5, <1>6

(* Whatever threads arrive, wait and pass in which order, a window never   *)
(* holds more than the limit and one request for each other thread.        *)
THEOREM Windows == Spec => []WindowBound
<1>1. WindowInv => now \in Int
  BY DEF WindowInv
<1>2. JobInv /\ WindowInv /\ [Next]_vars => JobInv' /\ WindowInv'
  BY <1>1, StepJobs, WindowStep
<1>3. Init => JobInv /\ WindowInv
  BY InitTraces, WindowInit
<1> QED BY WindowHolds, <1>2, <1>3, PTL DEF Spec

-----------------------------------------------------------------------------
(* Types.                                                                  *)
Phases == {"idle", "limit", "trace", "readback", "purge", "backup"}
Rows   == [id : TraceIds, tenant : Tenants, project : Projects,
           user : {ctx.user : ctx \in Contexts}]

TablesInv ==
  /\ workload \in Workloads /\ faults \in 0 .. MaxFaults
  /\ traces \subseteq Rows /\ answered \subseteq Rows
  /\ backups \in [Paths -> (SUBSET ArtifactIds) \cup {None}]
  /\ \A c \in Callers : jobs[c].phase \in Phases

(* Whatever a thread begins or ends leaves it in one of the phases.        *)
LEMMA PhaseKept ==
  ASSUME JobInv, TablesInv, NEW c \in Callers, NEW job, jobs' = [jobs EXCEPT ![c] = job],
         job.phase \in Phases
  PROVE  \A e \in Callers : jobs'[e].phase \in Phases
BY DEF JobInv, TablesInv

(* A thread that is done has a phase.                                      *)
LEMMA PhaseIdle ==
  ASSUME JobInv, TablesInv, NEW c \in Callers, Finish(c)
  PROVE  \A e \in Callers : jobs'[e].phase \in Phases
<1>1. IdleJob.phase \in Phases
  BY DEF IdleJob, Phases
<1> QED BY <1>1, PhaseKept DEF Finish

(* A thread that starts has a phase.                                       *)
LEMMA PhaseBegun ==
  ASSUME JobInv, TablesInv, NEW c \in Callers, NEW op, NEW job, Start(c, op, job),
         job.phase \in Phases
  PROVE  \A e \in Callers : jobs'[e].phase \in Phases
BY PhaseKept DEF Start

(* Every operation writes rows of the tables' types.                       *)
LEMMA TablesStep ==
  ASSUME JobInv, TablesInv, [Next]_vars
  PROVE  TablesInv'
<1> DEFINE Same == UNCHANGED <<workload, tracing, backups>>
           Phased == \A e \in Callers : jobs'[e].phase \in Phases
<1>1. ASSUME Same, UNCHANGED faults, Phased PROVE TablesInv'
  BY <1>1 DEF TablesInv, tracing
<1> HIDE DEF Phased
<1>2. UNCHANGED jobs => Phased
  BY DEF Phased, TablesInv
<1>3. ASSUME NEW c \in Callers, Finish(c) PROVE Phased
  BY <1>3, PhaseIdle DEF Phased
<1>4. CASE UNCHANGED vars
  BY <1>1, <1>2, <1>4 DEF vars, tracing
<1>5. ASSUME NEW c \in Callers, Serve(c) PROVE TablesInv'
  <2>1. CASE Admit(c)
    <3>1. jobs[c] \in RouteJob("limit") /\ Same /\ UNCHANGED faults
      BY <2>1 DEF Admit, JobInv, retention
    <3> DEFINE job == [jobs[c] EXCEPT !.phase = "trace"]
    <3>2. job.phase \in Phases
      BY <3>1 DEF RouteJob, Phases
    <3>3. jobs' = [jobs EXCEPT ![c] = job]
      BY <2>1 DEF Admit
    <3> HIDE DEF job
    <3> QED BY <1>1, <3>1, <3>2, <3>3, PhaseKept DEF Phased
  <2>2. CASE RecordTrace(c)
    <3>1. jobs[c] \in RouteJob("trace")
      BY <2>2 DEF RecordTrace, JobInv
    <3>2. TraceOf(jobs[c]) \in Rows
      BY <3>1 DEF TraceOf, RouteJob, Rows, Tenants
    <3>3. /\ traces' = traces \cup {TraceOf(jobs[c])} /\ answered' = answered \cup {TraceOf(jobs[c])}
          /\ UNCHANGED <<workload, backups, faults>> /\ Finish(c)
      BY <2>2 DEF RecordTrace, Insert, retention
    <3> QED BY <1>3, <3>2, <3>3 DEF TablesInv, Phased
  <2>3. CASE Refuse(c) \/ Decline(c) \/ RecordFails(c) \/ ReadBack(c) \/ DeleteExpired(c)
    <3>1. Finish(c) /\ Same /\ UNCHANGED faults
      BY <2>3 DEF Refuse, Decline, RecordFails, ReadBack, DeleteExpired, retention
    <3> QED BY <1>1, <1>3, <3>1
  <2>4. CASE CopyRows(c)
    <3>1. /\ UNCHANGED <<workload, tracing, faults>> /\ Finish(c)
          /\ \/ backups' = backups
             \/ backups' = [backups EXCEPT ![jobs[c].path] =
                              {i \in Stored : artifacts[i].tenant = jobs[c].tenant}]
      BY <2>4 DEF CopyRows
    <3>2. {i \in Stored : artifacts[i].tenant = jobs[c].tenant} \in SUBSET ArtifactIds
      BY DEF Stored
    <3> QED BY <1>3, <3>1, <3>2 DEF TablesInv, Phased, tracing
  <2>5. CASE CopyFails(c)
    <3>1. /\ UNCHANGED <<workload, tracing>> /\ Finish(c) /\ faults < MaxFaults
          /\ faults' = faults + 1 /\ backups' = [backups EXCEPT ![jobs[c].path] = {}]
      BY <2>5 DEF CopyFails
    <3>2. faults' \in 0 .. MaxFaults
      BY <3>1, ControlsAssumption DEF TablesInv
    <3> QED BY <1>3, <3>1, <3>2 DEF TablesInv, Phased, tracing
  <2>6. ASSUME NEW ctx \in Contexts, NEW project \in Projects, NEW id \in TraceIds,
               Arrive(c, ctx, project, id)
        PROVE  TablesInv'
    <3> DEFINE job == [phase |-> "limit", ctx |-> ctx, project |-> project,
                       id |-> id, stamp |-> now]
    <3>1. Start(c, "route", job) /\ Same /\ UNCHANGED faults
      BY <2>6 DEF Arrive, retention
    <3>2. job.phase \in Phases
      BY DEF Phases
    <3> HIDE DEF job
    <3> QED BY <1>1, <3>1, <3>2, PhaseBegun DEF Phased
  <2>7. CASE (\E s \in Slots, limit \in Limits : SetBudget(c, s, limit))
             \/ (\E s \in Slots, amount \in Amounts : Reserve(c, s, amount))
    <3> DEFINE job == [phase |-> "readback"]
    <3>1. Start(c, "budget", job) /\ Same /\ UNCHANGED faults
      BY <2>7 DEF SetBudget, Reserve, retention
    <3>2. job.phase \in Phases
      BY DEF Phases
    <3> HIDE DEF job
    <3> QED BY <1>1, <3>1, <3>2, PhaseBegun DEF Phased
  <2>8. ASSUME NEW ctx \in Contexts, PurgeExpired(c, ctx) PROVE TablesInv'
    <3> DEFINE job == [phase |-> "purge", tenant |-> ctx.tenant, stamp |-> now]
    <3>1. Start(c, "retain", job) /\ Same /\ UNCHANGED faults
      BY <2>8 DEF PurgeExpired, retention
    <3>2. job.phase \in Phases
      BY DEF Phases
    <3> HIDE DEF job
    <3> QED BY <1>1, <3>1, <3>2, PhaseBegun DEF Phased
  <2>9. ASSUME NEW ctx \in Contexts, NEW p \in Paths, Backup(c, ctx, p) PROVE TablesInv'
    <3> DEFINE job == [phase |-> "backup", tenant |-> ctx.tenant, path |-> p]
    <3>1. Start(c, "retain", job) /\ Same /\ UNCHANGED faults
      BY <2>9 DEF Backup, retention
    <3>2. job.phase \in Phases
      BY DEF Phases
    <3> HIDE DEF job
    <3> QED BY <1>1, <3>1, <3>2, PhaseBegun DEF Phased
  <2> QED BY <1>5, <2>1, <2>2, <2>3, <2>4, <2>5, <2>6, <2>7, <2>8, <2>9 DEF Serve
<1>6. ASSUME NEW ctx \in Contexts, ResetSynthetic(ctx) PROVE TablesInv'
  <2>1. /\ traces' \subseteq traces /\ answered' \subseteq answered
        /\ UNCHANGED <<workload, backups, jobs, faults>>
    BY <1>6 DEF ResetSynthetic, retention
  <2> QED BY <1>2, <2>1 DEF TablesInv, Phased
<1>7. ASSUME NEW ctx \in Contexts, NEW project \in Projects, NEW days \in Retentions,
             NEW i \in ArtifactIds, Put(ctx, project, days, i)
      PROVE  TablesInv'
  BY <1>1, <1>2, <1>7 DEF Put
<1>8. ASSUME NEW ctx \in Contexts, NEW i \in ArtifactIds, NEW active \in BOOLEAN,
             SetLegalHold(ctx, i, active)
      PROVE  TablesInv'
  BY <1>1, <1>2, <1>8 DEF SetLegalHold
<1>9. CASE Tick
  BY <1>1, <1>2, <1>9 DEF Tick, retention
<1>10. CASE Restart
  <2>1. /\ UNCHANGED <<workload, tracing, backups>> /\ faults < MaxFaults /\ faults' = faults + 1
        /\ \A e \in Callers : jobs'[e].phase \in Phases
    BY <1>10 DEF Restart, retention, IdleJob, Phases
  <2>2. faults' \in 0 .. MaxFaults
    BY <2>1, ControlsAssumption DEF TablesInv
  <2> QED BY <2>1, <2>2 DEF TablesInv, tracing
<1> QED BY <1>4, <1>5, <1>6, <1>7, <1>8, <1>9, <1>10 DEF Next

(* The empty tables have their types.                                      *)
LEMMA TablesInit == Init => TablesInv
<1>1. IdleJob.phase \in Phases
  BY DEF IdleJob, Phases
<1> QED BY <1>1, ControlsAssumption DEF Init, TablesInv

(* Every variable of the controls keeps its type.                          *)
THEOREM ControlsTyping == Spec => []ControlsTypeOK
<1> DEFINE All == BudgetInv /\ RetentionInv /\ JobInv /\ WindowInv /\ TablesInv
<1>1. All => ControlsTypeOK
  <2> SUFFICES ASSUME All PROVE ControlsTypeOK
    OBVIOUS
  <2>1. events \in [Keys -> Seq(Stamps)] /\ dropped \in [Keys -> Seq(Stamps)]
        /\ now \in 0 .. MaxTime
    BY DEF WindowInv, KeyInv
  <2>2. budgets \in [Slots -> Budget \cup {None}]
        /\ ledger \in [Slots -> [booked : Usage, cap : Usage]]
    BY DEF BudgetInv
  <2>3. artifacts \in [ArtifactIds -> Artifact \cup {None, Purged}] /\ held \subseteq ArtifactIds
    BY DEF RetentionInv, Stored
  <2> QED BY <2>1, <2>2, <2>3 DEF TablesInv, Rows, Phases, ControlsTypeOK
<1>2. All /\ [Next]_vars => All'
  <2>1. WindowInv => now \in Int
    BY DEF WindowInv
  <2> QED BY <2>1, BudgetStep, RetentionStep, StepJobs, WindowStep, TablesStep
<1>3. Init => All
  BY BudgetInit, RetentionInit, InitTraces, WindowInit, TablesInit
<1> QED BY <1>1, <1>2, <1>3, PTL DEF Spec

-----------------------------------------------------------------------------
(* Refusals.  The stamp at the head of what is kept is young, its request  *)
(* was admitted at that stamp or later, and those behind it later still.   *)
LEMMA KeptRecent ==
  ASSUME NEW d \in Seq(Stamps), NEW q \in Seq(Stamps), NEW s \in Int, NEW clock \in Nat,
         Ordered(d \o q, clock), Full(Kept(q, s))
  PROVE  Cardinality({i \in DOMAIN (d \o q) : (d \o q)[i].at > s - Window}) >= Limit
<1> DEFINE h == d \o q
           recent == {i \in DOMAIN h : h[i].at > s - Window}
<1>1. PICK p \in Seq(Stamps), kept \in Seq(Stamps) :
        /\ p = d \o Popped(q, s) /\ kept = Kept(q, s) /\ p \o kept = h
  <2>1. d \o Popped(q, s) \in Seq(Stamps) /\ Kept(q, s) \in Seq(Stamps)
        /\ Popped(q, s) \in Seq(Stamps) /\ Popped(q, s) \o Kept(q, s) = q
    BY Pruned, ConcatProperties
  <2>2. (d \o Popped(q, s)) \o Kept(q, s) = d \o (Popped(q, s) \o Kept(q, s))
    <3> DEFINE x == Popped(q, s)
               y == Kept(q, s)
    <3>1. d \in Seq(Stamps) /\ x \in Seq(Stamps) /\ y \in Seq(Stamps)
      BY <2>1
    <3> HIDE DEF x, y
    <3>2. (d \o x) \o y = d \o (x \o y)
      BY <3>1, ConcatAssociative
    <3> QED BY <3>2 DEF x, y
  <2> QED BY <2>1, <2>2
<1>2. PICK a \in Int, b \in Int, m \in Nat :
        /\ a = Len(p) + 1 /\ b = Len(p) + Len(kept) /\ m = Len(kept) /\ m >= Limit
        /\ m # 0 /\ a >= 1 /\ b - a + 1 = m
  <2>1. Len(p) \in Nat /\ Len(kept) \in Nat /\ Len(kept) >= Limit /\ Limit \in Nat \ {0}
    BY <1>1, LenProperties, ControlsAssumption DEF Full
  <2> HIDE DEF h, recent
  <2>2. /\ Len(p) + 1 \in Int /\ Len(p) + Len(kept) \in Int /\ Len(kept) # 0 /\ Len(p) + 1 >= 1
        /\ (Len(p) + Len(kept)) - (Len(p) + 1) + 1 = Len(kept)
    BY <2>1
  <2> QED BY <2>1, <2>2
<1>3. /\ DOMAIN h = 1 .. b /\ h[a] = kept[1] /\ a \in a .. b /\ h \in Seq(Stamps)
  <2>1. /\ p \o kept \in Seq(Stamps) /\ Len(p \o kept) = b /\ Len(p) \in Nat
        /\ \A i \in 1 .. Len(p) + Len(kept) :
             (p \o kept)[i] = IF i <= Len(p) THEN p[i] ELSE kept[i - Len(p)]
    BY <1>1, <1>2, ConcatProperties
  <2>2. a \in 1 .. Len(p) + Len(kept) /\ ~(a <= Len(p)) /\ a - Len(p) = 1 /\ a \in a .. b
    BY <1>2, <2>1
  <2>3. (p \o kept)[a] = kept[1]
    BY <2>1, <2>2
  <2> QED BY <1>1, <2>1, <2>2, <2>3, LenProperties
<1>4. h[a].stamp > s - Window
  <2>1. kept # <<>>
    BY <1>2
  <2>2. Kept(q, s) # <<>> => Kept(q, s)[1].stamp > s - Window
    BY Pruned
  <2> QED BY <1>1, <1>3, <2>1, <2>2
<1>5. \A i \in a .. b : i \in DOMAIN h /\ h[i].at > s - Window
  <2> SUFFICES ASSUME NEW i \in a .. b PROVE i \in DOMAIN h /\ h[i].at > s - Window
    OBVIOUS
  <2>1. i \in DOMAIN h /\ a \in DOMAIN h /\ a \in 1 .. i
    BY <1>2, <1>3
  <2>2. h[a].stamp <= h[a].at /\ h[a].at <= h[i].at
    BY <2>1 DEF Ordered
  <2>3. h[a] \in Stamps /\ h[i] \in Stamps
    BY <1>3, <2>1, ElementOfSeq, LenProperties
  <2> HIDE DEF h
  <2>4. h[a].stamp \in Int /\ h[a].at \in Int /\ h[i].at \in Int
    BY <2>3 DEF Stamps
  <2> QED BY <1>4, <2>1, <2>2, <2>4, ControlsAssumption
<1>6. a .. b \in SUBSET recent /\ recent \in SUBSET (1 .. b)
  BY <1>3, <1>5
<1>7. IsFiniteSet(a .. b) /\ Cardinality(a .. b) = m
  <2>1. IsFiniteSet(a .. b) /\ Cardinality(a .. b) = IF a > b THEN 0 ELSE b - a + 1
    BY FS_Interval
  <2> QED BY <1>2, <2>1
<1>8. IsFiniteSet(recent) /\ Cardinality(recent) \in Nat
  <2>1. IsFiniteSet(1 .. b)
    BY FS_Interval
  <2> QED BY <1>6, <2>1, FS_Subset, FS_CardinalityType, Zenon
<1>9. m <= Cardinality(recent)
  BY <1>6, <1>7, <1>8, FS_Subset
<1> HIDE DEF recent
<1>10. Cardinality(recent) >= Limit
  BY <1>2, <1>8, <1>9, ControlsAssumption
<1> QED BY <1>10 DEF recent, h

(* A thread that waits for the limiter becomes idle by its refusal only.   *)
LEMMA RefusedOnly ==
  ASSUME JobInv, TablesInv, [Next]_vars, NEW c \in Callers, Refused(c)
  PROVE  Refuse(c)
<1>1. jobs[c].phase = "limit" /\ jobs'[c].phase = "idle" /\ faults' = faults
  BY DEF Refused
<1>2. IdleJob.phase = "idle"
  BY DEF IdleJob
<1>3. ~UNCHANGED jobs
  BY <1>1
<1>4. ASSUME NEW e \in Callers, Serve(e), e # c PROVE jobs'[c] = jobs[c]
  <2>1. \A op, job : Start(e, op, job) => jobs'[c] = jobs[c]
    BY <1>4 DEF Start, JobInv
  <2>2. Finish(e) => jobs'[c] = jobs[c]
    BY <1>4 DEF Finish, JobInv
  <2>3. Admit(e) => jobs'[c] = jobs[c]
    BY <1>4 DEF Admit, JobInv
  <2> QED BY <1>4, <2>1, <2>2, <2>3
          DEF Serve, Arrive, Refuse, Decline, RecordTrace, RecordFails, ReadBack, SetBudget,
              Reserve, PurgeExpired, Backup, DeleteExpired, CopyRows, CopyFails
<1>5. CASE Serve(c)
  <2>1. \A op, job : ~Start(c, op, job)
    BY <1>1, <1>2 DEF Start
  <2>2. ~Admit(c)
    <3>1. ASSUME Admit(c) PROVE FALSE
      <4>1. jobs[c] \in RouteJob("limit") /\ jobs'[c] = [jobs[c] EXCEPT !.phase = "trace"]
        BY <3>1 DEF Admit, JobInv
      <4>2. jobs'[c].phase = "trace"
        BY <4>1 DEF RouteJob
      <4> QED BY <1>1, <4>2
    <3> QED BY <3>1
  <2> QED BY <1>1, <1>5, <2>1, <2>2
          DEF Serve, Arrive, Decline, RecordTrace, RecordFails, ReadBack, SetBudget, Reserve,
              PurgeExpired, Backup, DeleteExpired, CopyRows, CopyFails
<1>6. ~Restart
  <2>1. faults \in Int
    BY DEF TablesInv
  <2> QED BY <1>1, <2>1 DEF Restart
<1> QED BY <1>1, <1>3, <1>4, <1>5, <1>6 DEF Next, vars, ResetSynthetic, Put, SetLegalHold, Tick

(* A request is refused only when as many as the limit were admitted after *)
(* the window before its stamp.                                            *)
LEMMA RefusalEarned ==
  ASSUME JobInv, WindowInv, TablesInv, [Next]_vars, NEW c \in Callers, Refused(c)
  PROVE  LET h == History(Key(jobs[c].ctx)) IN
           Cardinality({i \in DOMAIN h : h[i].at > jobs[c].stamp - Window}) >= Limit
<1>1. Refuse(c)
  BY RefusedOnly
<1>2. PICK k \in Keys, s \in Nat : k = Key(jobs[c].ctx) /\ s = jobs[c].stamp
  BY <1>1, CheckMoves DEF WindowInv
<1>3. KeyInv(k) /\ now \in Nat
  BY DEF WindowInv
<1>4. PICK q \in Seq(Stamps), d \in Seq(Stamps) : q = events[k] /\ d = dropped[k]
  BY <1>3 DEF KeyInv
<1>5. Full(Kept(q, s))
  BY <1>1, <1>2, <1>4 DEF Refuse
<1>6. Ordered(d \o q, now)
  BY <1>3, <1>4 DEF KeyInv, History
<1>7. Cardinality({i \in DOMAIN (d \o q) : (d \o q)[i].at > s - Window}) >= Limit
  BY <1>3, <1>5, <1>6, KeptRecent
<1> QED BY <1>2, <1>4, <1>7 DEF History

(* Whoever is refused was admitted as often as the limit allows, since the *)
(* beginning of the window before the stamp of the refused request.        *)
THEOREM Refusals == Spec => RefusalsEarned
<1> DEFINE All == JobInv /\ WindowInv /\ TablesInv
           Earned == \A c \in Callers : Refused(c) =>
                       LET h == History(Key(jobs[c].ctx)) IN
                         Cardinality({i \in DOMAIN h : h[i].at > jobs[c].stamp - Window}) >= Limit
<1>1. All /\ [Next]_vars => All'
  <2>1. WindowInv => now \in Int
    BY DEF WindowInv
  <2> QED BY <2>1, StepJobs, WindowStep, TablesStep
<1>2. Init => All
  BY InitTraces, WindowInit, TablesInit
<1>3. All /\ [Next]_vars => [Earned]_vars
  BY RefusalEarned
<1> HIDE DEF All, Earned
<1>4. Spec => [][Earned]_vars
  BY <1>1, <1>2, <1>3, PTL DEF Spec
<1> QED BY <1>4, PTL DEF Earned, RefusalsEarned
=============================================================================
