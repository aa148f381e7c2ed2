-------------------------- MODULE PortalAccessProofs --------------------------
(***************************************************************************)
(* Theorems about sign-in and sessions, for any users, groups, threads and *)
(* session lifetime: the portal uses the review queue as ReviewQueue says, *)
(* a session keeps no privilege alive, and no stranger stays connected.    *)
(***************************************************************************)
EXTENDS PortalAccess, ReviewQueueProofs

Phases == {"exchange", "persist", "write", "admit", "wipe", "unlink"}
JobsOK == jobs \in [Callers -> JobType \cup {IdleJob}]

-----------------------------------------------------------------------------
(* What a thread does.                                                     *)

(* A thread in a phase has a job.                                          *)
LEMMA BusyJob ==
  ASSUME JobsOK, NEW c \in Callers, jobs[c].phase \in Phases
  PROVE  jobs[c] \in JobType
BY DEF JobsOK, IdleJob, Phases

(* A thread that is done leaves the others alone.                          *)
LEMMA FinishOK ==
  ASSUME JobsOK, NEW c \in Callers, Finish(c)
  PROVE  /\ JobsOK'
         /\ jobs'[c] = IdleJob /\ \A d \in Callers : d # c => jobs'[d] = jobs[d]
BY DEF JobsOK, Finish

(* A thread that goes on keeps its user, groups and purpose.               *)
LEMMA EnterOK ==
  ASSUME JobsOK, NEW c \in Callers, jobs[c].phase \in Phases, NEW to \in Phases,
         Enter(c, to)
  PROVE  /\ JobsOK'
         /\ jobs'[c] \in JobType /\ jobs'[c].phase = to
         /\ jobs'[c].user = jobs[c].user /\ jobs'[c].groups = jobs[c].groups
         /\ jobs'[c].then = jobs[c].then
         /\ \A d \in Callers : d # c => jobs'[d] = jobs[d]
<1> DEFINE job == [jobs[c] EXCEPT !.phase = to]
<1>1. jobs[c] \in JobType
  BY BusyJob
<1>2. /\ job \in JobType /\ job.phase = to /\ job.user = jobs[c].user
      /\ job.groups = jobs[c].groups /\ job.then = jobs[c].then
  BY <1>1 DEF JobType, Phases
<1>3. jobs' = [jobs EXCEPT ![c] = job]
  BY DEF Enter
<1> HIDE DEF job
<1>4. jobs'[c] = job /\ \A d \in Callers : d # c => jobs'[d] = jobs[d]
  BY <1>3 DEF JobsOK
<1>5. JobsOK'
  BY <1>2, <1>3 DEF JobsOK
<1> QED BY <1>2, <1>4, <1>5

(* A thread that starts has read no groups yet.                            *)
LEMMA BeginOK ==
  ASSUME JobsOK, NEW c \in Callers, NEW to \in Phases, NEW u \in Users,
         NEW then \in {"admit", "end", "logout"}, Begin(c, to, u, then)
  PROVE  /\ JobsOK'
         /\ jobs[c] = IdleJob
         /\ jobs'[c].groups = {} /\ jobs'[c].phase = to /\ jobs'[c].then = then
         /\ \A d \in Callers : d # c => jobs'[d] = jobs[d]
<1> DEFINE job == [phase |-> to, user |-> u, groups |-> {}, copy |-> {}, then |-> then]
<1>1. job \in JobType /\ job.groups = {} /\ job.phase = to /\ job.then = then
  BY DEF JobType, Phases
<1>2. jobs' = [jobs EXCEPT ![c] = job] /\ jobs[c] = IdleJob
  BY DEF Begin
<1> HIDE DEF job
<1> QED BY <1>1, <1>2 DEF JobsOK

(* A job goes on as the request it was, or ends.                           *)
Continues(c) ==
  /\ \A d \in Callers : d # c => jobs'[d] = jobs[d]
  /\ \/ jobs'[c] = IdleJob
     \/ /\ jobs'[c].user = jobs[c].user /\ jobs'[c].groups = jobs[c].groups
        /\ jobs'[c].then = jobs[c].then
        /\ jobs'[c].phase \in Phases \ {"exchange"}

(* After the cache is saved or forgotten a sign-in is admitted, and any    *)
(* other request is done.                                                  *)
LEMMA AfterOK ==
  ASSUME JobsOK, NEW c \in Callers, jobs[c].phase \in Phases, After(c)
  PROVE  /\ JobsOK' /\ Continues(c)
         /\ jobs[c].then = "admit" => jobs'[c].phase = "admit" /\ jobs'[c] # IdleJob
<1>1. CASE jobs[c].then = "admit"
  <2>1. Enter(c, "admit") /\ "admit" \in Phases
    BY <1>1 DEF After, Phases
  <2>2. /\ JobsOK' /\ jobs'[c].phase = "admit"
        /\ jobs'[c].user = jobs[c].user /\ jobs'[c].groups = jobs[c].groups
        /\ jobs'[c].then = jobs[c].then
        /\ \A d \in Callers : d # c => jobs'[d] = jobs[d]
    BY <2>1, EnterOK, Zenon
  <2>3. jobs'[c] # IdleJob
    BY <2>2 DEF IdleJob
  <2> QED BY <2>1, <2>2, <2>3 DEF Continues
<1>2. CASE jobs[c].then # "admit"
  BY <1>2, FinishOK DEF After, Continues
<1> QED BY <1>1, <1>2

-----------------------------------------------------------------------------
(* Types.                                                                  *)

(* The empty broker, without sessions, has the types.                      *)
LEMMA InitTypes == PortalInit => PortalTypeOK
<1> SUFFICES ASSUME PortalInit PROVE PortalTypeOK
  OBVIOUS
<1>1. 0 \in 0..MaxTime /\ 0 \in 0..MaxFaults /\ 0 - SessionHours \in (0 - SessionHours)..MaxTime
  BY PortalAssumption
<1> QED BY <1>1 DEF PortalInit, PortalTypeOK

(* Joining and leaving groups keeps the types.                             *)
LEMMA DirectoryStep ==
  ASSUME PortalTypeOK, NEW u \in Users, NEW g \in Groups,
         JoinGroup(u, g) \/ LeaveGroup(u, g)
  PROVE  PortalTypeOK'
<1>1. now \in (0 - SessionHours)..MaxTime
  BY PortalAssumption DEF PortalTypeOK
<1>2. member' \in [Users -> SUBSET Groups]
  BY DEF PortalTypeOK, JoinGroup, LeaveGroup
<1> DEFINE Hours == (0 - SessionHours)..MaxTime
<1>3. left' \in [Users -> [Groups -> Hours]]
  <2>1. left \in [Users -> [Groups -> Hours]] /\ now \in Hours
    BY <1>1 DEF PortalTypeOK
  <2> HIDE DEF Hours
  <2>2. CASE left' = left
    BY <2>1, <2>2
  <2>3. CASE left' = [left EXCEPT ![u][g] = now]
    BY <2>1, <2>3
  <2> QED BY <2>2, <2>3 DEF JoinGroup, LeaveGroup
<1> QED BY <1>2, <1>3 DEF PortalTypeOK, JoinGroup, LeaveGroup

(* A flow begun keeps the types.                                           *)
LEMMA StartTypes ==
  ASSUME PortalTypeOK, NEW u \in Users, NEW f \in FlowIds, StartSignIn(u, f)
  PROVE  PortalTypeOK'
BY DEF PortalTypeOK, directory, StartSignIn

(* A flow redeemed keeps the types.                                        *)
LEMMA CallbackTypes ==
  ASSUME PortalTypeOK, NEW c \in Callers, NEW f \in FlowIds, Callback(c, f)
  PROVE  PortalTypeOK'
<1>1. JobsOK /\ flows[f] \in Users
  BY DEF PortalTypeOK, JobsOK, Callback, Pending
<1>2. JobsOK'
  <2>1. Begin(c, "exchange", flows[f], "admit") /\ "exchange" \in Phases
    BY DEF Callback, Phases
  <2> QED BY <1>1, <2>1, BeginOK
<1> QED BY <1>2 DEF PortalTypeOK, directory, JobsOK, Callback

(* The three requests that start with nothing of the session's groups.     *)
LEMMA RequestTypes ==
  ASSUME PortalTypeOK, NEW c \in Callers, NEW u \in Users,
         Logout(c, u) \/ GraphToken(c, u) \/ ConsoleDisconnect(c, u)
  PROVE  PortalTypeOK'
<1>1. JobsOK
  BY DEF PortalTypeOK, JobsOK
<1>2. JobsOK'
  <2>1. \/ Begin(c, "wipe", u, "logout") \/ Begin(c, "persist", u, "end")
    BY DEF Logout, GraphToken, ConsoleDisconnect
  <2>2. "wipe" \in Phases /\ "persist" \in Phases
    BY DEF Phases
  <2> QED BY <1>1, <2>1, <2>2, BeginOK
<1> QED BY <1>2 DEF PortalTypeOK, directory, JobsOK, Logout, GraphToken, ConsoleDisconnect

(* Every step of a request under way keeps the types.                      *)
LEMMA JobTypes ==
  ASSUME PortalTypeOK, NEW c \in Callers, JobStep(c)
  PROVE  PortalTypeOK'
<1>a. JobsOK
  BY DEF PortalTypeOK, JobsOK
<1>b. /\ "exchange" \in Phases /\ "persist" \in Phases /\ "write" \in Phases
      /\ "admit" \in Phases /\ "wipe" \in Phases /\ "unlink" \in Phases
  BY DEF Phases
<1>1. CASE Exchange(c)
  <2>1. jobs[c] \in JobType
    BY <1>1, <1>a, <1>b, BusyJob DEF Exchange
  <2>2. PICK g \in {member[jobs[c].user], {}} :
          jobs' = [jobs EXCEPT ![c].phase = "persist", ![c].groups = g]
    BY <1>1 DEF Exchange
  <2> DEFINE job == [jobs[c] EXCEPT !.phase = "persist", !.groups = g]
  <2>3. jobs[c].user \in Users /\ g \in SUBSET Groups
    BY <2>1, <2>2 DEF JobType, PortalTypeOK
  <2>4. job \in JobType
    BY <2>1, <2>3 DEF JobType
  <2>5. jobs' = [jobs EXCEPT ![c] = job]
    BY <2>2
  <2> HIDE DEF job
  <2>6. JobsOK'
    BY <1>a, <2>4, <2>5 DEF JobsOK
  <2> QED BY <1>1, <2>3, <2>6 DEF PortalTypeOK, directory, JobsOK, Exchange
<1>2. CASE ExchangeFails(c)
  <2>1. JobsOK'
    BY <1>2, <1>a, FinishOK DEF ExchangeFails
  <2> QED BY <1>2, <2>1 DEF PortalTypeOK, directory, JobsOK, ExchangeFails
<1>3. CASE Serialize(c)
  <2>1. CASE dirty
    <3>1. jobs[c] \in JobType
      BY <1>3, <1>a, <1>b, BusyJob DEF Serialize
    <3> DEFINE job == [jobs[c] EXCEPT !.phase = "write", !.copy = accounts]
    <3>2. job \in JobType
      BY <3>1 DEF JobType, PortalTypeOK
    <3>3. jobs' = [jobs EXCEPT ![c] = job]
      BY <1>3, <2>1 DEF Serialize
    <3> HIDE DEF job
    <3>4. JobsOK'
      BY <1>a, <3>2, <3>3 DEF JobsOK
    <3> QED BY <1>3, <3>4 DEF PortalTypeOK, directory, JobsOK, Serialize
  <2>2. CASE ~dirty
    <3>1. After(c) /\ jobs[c].phase = "persist"
      BY <1>3, <2>2 DEF Serialize
    <3>2. JobsOK'
      BY <1>a, <1>b, <3>1, AfterOK
    <3> QED BY <1>3, <3>2 DEF PortalTypeOK, directory, JobsOK, Serialize
  <2> QED BY <2>1, <2>2
<1>4. CASE WriteCache(c)
  <2>1. After(c) /\ jobs[c].phase = "write"
    BY <1>4 DEF WriteCache
  <2>2. JobsOK'
    BY <1>a, <1>b, <2>1, AfterOK
  <2>3. jobs[c] \in JobType
    BY <1>a, <1>b, <2>1, BusyJob
  <2>4. jobs[c].copy \subseteq Users
    BY <2>3 DEF JobType
  <2> QED BY <1>4, <2>2, <2>4 DEF PortalTypeOK, directory, JobsOK, WriteCache
<1>5. CASE Admit(c)
  <2>1. JobsOK'
    BY <1>5, <1>a, FinishOK DEF Admit
  <2>2. jobs[c] \in JobType
    BY <1>5, <1>a, <1>b, BusyJob DEF Admit
  <2>3. jobs[c].user \in Users /\ jobs[c].groups \in SUBSET Groups
    BY <2>2 DEF JobType
  <2>4. now + SessionHours \in 0..(MaxTime + SessionHours)
    BY PortalAssumption DEF PortalTypeOK
  <2>5. NewSession(jobs[c].groups) \in Session
    BY <2>3, <2>4 DEF NewSession, Session
  <2>6. cookie' \in [Users -> Session \cup {None}]
    BY <1>5, <2>3, <2>5 DEF Admit, PortalTypeOK
  <2> QED BY <1>5, <2>1, <2>6 DEF PortalTypeOK, directory, JobsOK, Admit
<1>6. CASE Refuse(c)
  <2>1. Enter(c, "wipe") /\ jobs[c].phase = "admit"
    BY <1>6 DEF Refuse, TurnAway
  <2>2. JobsOK'
    BY <1>a, <1>b, <2>1, EnterOK
  <2> QED BY <1>6, <2>2 DEF PortalTypeOK, directory, JobsOK, Refuse
<1>7. CASE Wipe(c)
  <2>1. Enter(c, "unlink") /\ jobs[c].phase = "wipe"
    BY <1>7 DEF Wipe
  <2>2. JobsOK'
    BY <1>a, <1>b, <2>1, EnterOK
  <2>3. flows' \in [FlowIds -> Users \cup {NoFlow, GoneFlow}]
    BY <1>7 DEF Wipe, PortalTypeOK
  <2> QED BY <1>7, <2>2, <2>3 DEF PortalTypeOK, directory, JobsOK, Wipe
<1>8. CASE Unlink(c)
  <2>1. JobsOK'
    BY <1>8, <1>a, FinishOK DEF Unlink
  <2>2. cookie' \in [Users -> Session \cup {None}]
    BY <1>8 DEF Unlink, PortalTypeOK
  <2> QED BY <1>8, <2>1, <2>2 DEF PortalTypeOK, directory, JobsOK, Unlink
<1>9. CASE FileFails(c)
  <2>1. JobsOK'
    BY <1>9, <1>a, FinishOK DEF FileFails
  <2>2. faults' \in 0..MaxFaults
    BY <1>9, PortalAssumption DEF FileFails, PortalTypeOK
  <2>3. disk' \in (SUBSET Users) \cup {None}
    BY <1>9 DEF FileFails, PortalTypeOK
  <2> QED BY <1>9, <2>1, <2>2, <2>3 DEF PortalTypeOK, directory, JobsOK, FileFails
<1> QED BY <1>1, <1>2, <1>3, <1>4, <1>5, <1>6, <1>7, <1>8, <1>9 DEF JobStep

(* Every step keeps the types.                                             *)
LEMMA StepTypes == PortalTypeOK /\ [PortalNext]_portalVars => PortalTypeOK'
<1> SUFFICES ASSUME PortalTypeOK, [PortalNext]_portalVars PROVE PortalTypeOK'
  OBVIOUS
<1>1. ASSUME UNCHANGED <<directory, flows, accounts, dirty, disk, cookie, jobs, faults>>
      PROVE  PortalTypeOK'
  BY <1>1 DEF PortalTypeOK, directory
<1>2. ASSUME NEW i \in ItemIds, NEW creator \in Creators, NEW g \in Groups \cup {None},
             QueueItem(i, creator, g)
      PROVE  PortalTypeOK'
  BY <1>1, <1>2 DEF QueueItem
<1>3. ASSUME NEW u \in Users, NEW i \in ItemIds, NEW s \in Decided, DecideItem(u, i, s)
      PROVE  PortalTypeOK'
  BY <1>1, <1>3 DEF DecideItem
<1>4. CASE Restart
  <2>1. flows' \in [FlowIds -> Users \cup {NoFlow, GoneFlow}]
    BY <1>4 DEF Restart, PortalTypeOK
  <2>2. faults' \in 0..MaxFaults
    BY <1>4, PortalAssumption DEF Restart, PortalTypeOK
  <2> QED BY <1>4, <2>1, <2>2 DEF Restart, PortalTypeOK, directory
<1>5. CASE Tick
  <2>1. now' \in 0..MaxTime
    BY <1>5, PortalAssumption DEF Tick, PortalTypeOK
  <2> QED BY <1>5, <2>1 DEF Tick, PortalTypeOK
<1>6. CASE UNCHANGED portalVars
  BY <1>1, <1>6 DEF portalVars, directory
<1> QED BY <1>2, <1>3, <1>4, <1>5, <1>6, DirectoryStep, StartTypes, CallbackTypes,
           RequestTypes, JobTypes, PortalAssumption DEF PortalNext

(* The broker's memory and file, the sessions and the requests keep their  *)
(* shapes for any number of users, flows and threads.                      *)
THEOREM PortalTyping == PortalSpec => []PortalTypeOK
BY InitTypes, StepTypes, PTL DEF PortalSpec

-----------------------------------------------------------------------------
(* Requests under way.                                                     *)

(* Every step of a job but the exchange leaves the groups it has read.     *)
LEMMA JobGoesOn ==
  ASSUME PortalTypeOK, NEW c \in Callers, JobStep(c), ~Exchange(c)
  PROVE  /\ Continues(c) /\ jobs[c].phase \in Phases
         /\ UNCHANGED <<items, directory>> /\ accounts' \in {accounts, {}}
         /\ faults' = faults \/ (faults' = faults + 1 /\ FileFails(c))
         /\ \/ Admit(c) \/ Unlink(c) \/ cookie' = cookie
<1>a. JobsOK
  BY DEF PortalTypeOK, JobsOK
<1>b. /\ "exchange" \in Phases /\ "persist" \in Phases /\ "write" \in Phases
      /\ "admit" \in Phases /\ "wipe" \in Phases /\ "unlink" \in Phases
  BY DEF Phases
<1>f. ASSUME Finish(c) PROVE Continues(c)
  BY <1>a, <1>f, FinishOK DEF Continues
<1>e. ASSUME NEW to \in Phases \ {"exchange"}, jobs[c].phase \in Phases, Enter(c, to) PROVE Continues(c)
  <2>1. /\ jobs'[c].user = jobs[c].user /\ jobs'[c].groups = jobs[c].groups
        /\ jobs'[c].then = jobs[c].then /\ jobs'[c].phase = to
        /\ \A d \in Callers : d # c => jobs'[d] = jobs[d]
    BY <1>a, <1>e, EnterOK, Zenon
  <2> QED BY <2>1 DEF Continues
<1>1. CASE ExchangeFails(c)
  BY <1>1, <1>b, <1>f DEF ExchangeFails
<1>2. CASE Serialize(c)
  <2>1. CASE dirty
    <3>1. jobs[c] \in JobType
      BY <1>2, <1>a, <1>b, BusyJob DEF Serialize
    <3> DEFINE job == [jobs[c] EXCEPT !.phase = "write", !.copy = accounts]
    <3>2. /\ job.user = jobs[c].user /\ job.groups = jobs[c].groups
          /\ job.then = jobs[c].then /\ job.phase = "write"
      BY <3>1 DEF JobType
    <3>3. jobs' = [jobs EXCEPT ![c] = job]
      BY <1>2, <2>1 DEF Serialize
    <3> HIDE DEF job
    <3>4. Continues(c)
      BY <1>a, <1>b, <3>2, <3>3 DEF JobsOK, Continues
    <3> QED BY <1>2, <1>b, <3>4 DEF Serialize
  <2>2. CASE ~dirty
    <3>1. After(c) /\ jobs[c].phase = "persist"
      BY <1>2, <2>2 DEF Serialize
    <3>2. Continues(c)
      BY <1>a, <1>b, <3>1, AfterOK
    <3> QED BY <1>2, <1>b, <3>2 DEF Serialize
  <2> QED BY <2>1, <2>2
<1>3. CASE WriteCache(c)
  <2>1. After(c) /\ jobs[c].phase = "write"
    BY <1>3 DEF WriteCache
  <2>2. Continues(c)
    BY <1>a, <1>b, <2>1, AfterOK
  <2> QED BY <1>3, <1>b, <2>2 DEF WriteCache
<1>4. CASE Admit(c)
  BY <1>4, <1>b, <1>f DEF Admit
<1>5. CASE Refuse(c)
  <2>1. Enter(c, "wipe") /\ jobs[c].phase = "admit"
    BY <1>5 DEF Refuse, TurnAway
  <2>2. Continues(c)
    BY <1>b, <1>e, <2>1
  <2> QED BY <1>5, <1>b, <2>2 DEF Refuse
<1>6. CASE Wipe(c)
  <2>1. Enter(c, "unlink") /\ jobs[c].phase = "wipe"
    BY <1>6 DEF Wipe
  <2>2. Continues(c)
    BY <1>b, <1>e, <2>1
  <2> QED BY <1>6, <1>b, <2>2 DEF Wipe
<1>7. CASE Unlink(c)
  BY <1>7, <1>b, <1>f DEF Unlink
<1>8. CASE FileFails(c)
  BY <1>8, <1>b, <1>f DEF FileFails
<1> QED BY <1>1, <1>2, <1>3, <1>4, <1>5, <1>6, <1>7, <1>8 DEF JobStep

(* What the exchange leaves its thread with.                               *)
LEMMA ExchangeJob ==
  ASSUME PortalTypeOK, NEW c \in Callers, Exchange(c)
  PROVE  /\ jobs[c].user \in Users /\ jobs'[c].user = jobs[c].user
         /\ jobs'[c].groups \in {member[jobs[c].user], {}}
         /\ jobs'[c].phase = "persist" /\ jobs'[c].then = jobs[c].then
         /\ \A d \in Callers : d # c => jobs'[d] = jobs[d]
<1>1. jobs[c] \in JobType
  BY BusyJob DEF Exchange, Phases, PortalTypeOK, JobsOK
<1>2. PICK g \in {member[jobs[c].user], {}} :
        jobs' = [jobs EXCEPT ![c].phase = "persist", ![c].groups = g]
  BY DEF Exchange
<1> DEFINE job == [jobs[c] EXCEPT !.phase = "persist", !.groups = g]
<1>3. /\ job.user = jobs[c].user /\ job.groups = g /\ job.phase = "persist"
      /\ job.then = jobs[c].then
  BY <1>1 DEF JobType
<1>4. jobs' = [jobs EXCEPT ![c] = job]
  BY <1>2
<1>5. jobs[c].user \in Users
  BY <1>1 DEF JobType
<1> HIDE DEF job
<1> QED BY <1>2, <1>3, <1>4, <1>5 DEF PortalTypeOK

(* The three requests that start in the middle carry no groups.            *)
LEMMA RequestJob ==
  ASSUME PortalTypeOK, NEW c \in Callers, NEW u \in Users,
         Logout(c, u) \/ GraphToken(c, u) \/ ConsoleDisconnect(c, u)
  PROVE  /\ jobs[c] = IdleJob /\ jobs'[c].groups = {}
         /\ jobs'[c].phase # "exchange" /\ accounts' \subseteq accounts
         /\ \A d \in Callers : d # c => jobs'[d] = jobs[d]
         /\ UNCHANGED <<items, directory, cookie, faults>>
<1>1. JobsOK /\ "wipe" \in Phases /\ "persist" \in Phases
  BY DEF PortalTypeOK, JobsOK, Phases
<1>2. \/ Begin(c, "wipe", u, "logout") \/ Begin(c, "persist", u, "end")
  BY DEF Logout, GraphToken, ConsoleDisconnect
<1>3. /\ jobs[c] = IdleJob /\ jobs'[c].groups = {} /\ jobs'[c].phase # "exchange"
      /\ \A d \in Callers : d # c => jobs'[d] = jobs[d]
  BY <1>1, <1>2, BeginOK
<1> QED BY <1>3 DEF Logout, GraphToken, ConsoleDisconnect

(* A callback gives its thread a sign-in without groups and changes no     *)
(* session or account.                                                     *)
LEMMA CallbackJob ==
  ASSUME PortalTypeOK, NEW c \in Callers, NEW f \in FlowIds, Callback(c, f)
  PROVE  /\ jobs[c] = IdleJob /\ jobs'[c].groups = {} /\ jobs'[c].then = "admit"
         /\ \A d \in Callers : d # c => jobs'[d] = jobs[d]
         /\ UNCHANGED <<items, directory, cookie, accounts, faults>>
<1>1. JobsOK /\ flows[f] \in Users /\ "exchange" \in Phases
  BY DEF PortalTypeOK, JobsOK, Callback, Pending, Phases
<1>2. Begin(c, "exchange", flows[f], "admit")
  BY DEF Callback
<1>3. /\ jobs[c] = IdleJob /\ jobs'[c].groups = {} /\ jobs'[c].then = "admit"
      /\ \A d \in Callers : d # c => jobs'[d] = jobs[d]
  BY <1>1, <1>2, BeginOK
<1> QED BY <1>3 DEF Callback

-----------------------------------------------------------------------------
(* Privileges.                                                             *)

(* Every group a session carries is still its user's, or ended no earlier  *)
(* than a session's lifetime before the session does.                      *)
CookieInv ==
  \A u \in Users : cookie[u] # None =>
    /\ cookie[u].expires <= now + SessionHours
    /\ \A g \in cookie[u].groups :
         g \in member[u] \/ cookie[u].expires <= left[u][g] + SessionHours

(* Every group a request has read is still its user's, or ended this hour. *)
JobGroups ==
  \A c \in Callers : jobs[c] # IdleJob =>
    \A g \in jobs[c].groups :
      g \in member[jobs[c].user] \/ left[jobs[c].user][g] >= now

RecentInv == PortalTypeOK /\ CookieInv /\ JobGroups

(* At the start there are no sessions and no sign-ins.                     *)
LEMMA InitRecent == PortalInit => CookieInv /\ JobGroups
BY DEF PortalInit, CookieInv, JobGroups

(* Sessions stay recent while neither they nor the directory move.         *)
LEMMA CookiesKept ==
  ASSUME CookieInv, UNCHANGED <<directory, cookie>>
  PROVE  CookieInv'
BY DEF CookieInv, directory

(* A job that goes on, or starts with no groups, carries nothing new.      *)
LEMMA JobsKept ==
  ASSUME JobGroups, UNCHANGED directory,
         \A c \in Callers :
           \/ jobs'[c] = jobs[c] \/ jobs'[c] = IdleJob \/ jobs'[c].groups = {}
           \/ /\ jobs[c] # IdleJob
              /\ jobs'[c].user = jobs[c].user /\ jobs'[c].groups = jobs[c].groups
  PROVE  JobGroups'
<1> SUFFICES ASSUME NEW c \in Callers, jobs'[c] # IdleJob, NEW g \in jobs'[c].groups
             PROVE  g \in member'[jobs'[c].user] \/ left'[jobs'[c].user][g] >= now'
  BY DEF JobGroups, IdleJob
<1>1. jobs[c] # IdleJob /\ jobs'[c].user = jobs[c].user /\ jobs'[c].groups = jobs[c].groups
  OBVIOUS
<1> QED BY <1>1 DEF JobGroups, directory

(* The clock and the bounds as numbers.                                    *)
LEMMA Hours ==
  ASSUME PortalTypeOK
  PROVE  /\ now \in Int /\ SessionHours \in Int /\ SessionHours > 0
         /\ \A u \in Users, g \in Groups : left[u][g] \in Int
         /\ \A u \in Users : cookie[u] # None =>
              cookie[u].expires \in Int /\ cookie[u].groups \subseteq Groups
<1>1. now \in Int /\ SessionHours \in Int /\ SessionHours > 0
  BY PortalAssumption DEF PortalTypeOK
<1>2. ASSUME NEW u \in Users, NEW g \in Groups PROVE left[u][g] \in Int
  <2>1. left[u][g] \in (0 - SessionHours)..MaxTime
    BY DEF PortalTypeOK
  <2> QED BY <2>1
<1>3. ASSUME NEW u \in Users, cookie[u] # None
      PROVE  cookie[u].expires \in Int /\ cookie[u].groups \subseteq Groups
  <2>1. cookie[u] \in Session
    BY <1>3 DEF PortalTypeOK
  <2> QED BY <2>1 DEF Session
<1> QED BY <1>1, <1>2, <1>3

(* A privilege that ends is noted at the hour it ends, so the sessions     *)
(* that carry it are still recent.                                         *)
LEMMA LeaveRecent ==
  ASSUME RecentInv, NEW u \in Users, NEW g \in Groups, LeaveGroup(u, g)
  PROVE  (CookieInv /\ JobGroups)'
<1>a. /\ PortalTypeOK /\ now \in Int /\ SessionHours \in Int
      /\ UNCHANGED <<now, cookie, jobs>>
  BY Hours DEF RecentInv, LeaveGroup
<1>1. \A v \in Users, h \in Groups :
        /\ h \in member'[v] <=> h \in member[v] /\ ~(v = u /\ h = g)
        /\ left'[v][h] = IF v = u /\ h = g THEN now ELSE left[v][h]
  <2>1. \A v \in Users, h \in Groups : h \in member'[v] <=> h \in member[v] /\ ~(v = u /\ h = g)
    BY <1>a DEF LeaveGroup, PortalTypeOK
  <2>2. left' = [left EXCEPT ![u][g] = now] /\ left \in [Users -> [Groups -> Int]]
    <3>1. (0 - SessionHours)..MaxTime \subseteq Int
      OBVIOUS
    <3> QED BY <1>a, <3>1 DEF LeaveGroup, PortalTypeOK
  <2>3. \A v \in Users, h \in Groups : left'[v][h] = IF v = u /\ h = g THEN now ELSE left[v][h]
    BY <2>2
  <2> QED BY <2>1, <2>3
<1>2. CookieInv'
  <2> SUFFICES ASSUME NEW v \in Users, cookie[v] # None, NEW h \in cookie[v].groups
               PROVE  /\ cookie[v].expires <= now + SessionHours
                      /\ h \in member'[v] \/ cookie[v].expires <= left'[v][h] + SessionHours
    BY <1>a DEF CookieInv, RecentInv
  <2>1. h \in Groups
    BY <1>a, Hours
  <2>2. /\ cookie[v].expires <= now + SessionHours
        /\ h \in member[v] \/ cookie[v].expires <= left[v][h] + SessionHours
    BY DEF RecentInv, CookieInv
  <2> QED BY <1>1, <2>1, <2>2
<1>3. JobGroups'
  <2> SUFFICES ASSUME NEW c \in Callers, jobs[c] # IdleJob, NEW h \in jobs[c].groups
               PROVE  h \in member'[jobs[c].user] \/ left'[jobs[c].user][h] >= now
    BY <1>a DEF JobGroups, IdleJob
  <2>1. jobs[c] \in JobType
    BY <1>a DEF PortalTypeOK
  <2>2. jobs[c].user \in Users /\ h \in Groups
    BY <2>1 DEF JobType
  <2>3. h \in member[jobs[c].user] \/ left[jobs[c].user][h] >= now
    BY DEF RecentInv, JobGroups
  <2> QED BY <1>a, <1>1, <2>2, <2>3
<1> QED BY <1>2, <1>3

(* A session starts with the groups its sign-in read within the hour.      *)
LEMMA AdmitRecent ==
  ASSUME RecentInv, NEW c \in Callers, Admit(c)
  PROVE  CookieInv'
<1>1. jobs[c] \in JobType /\ jobs[c] # IdleJob
  BY BusyJob DEF Admit, Phases, RecentInv, PortalTypeOK, JobsOK, IdleJob
<1>2. PICK u \in Users : u = jobs[c].user
  BY <1>1 DEF JobType
<1>3. /\ \A g \in jobs[c].groups : g \in member[u] \/ left[u][g] >= now
      /\ jobs[c].groups \subseteq Groups
  BY <1>1, <1>2 DEF RecentInv, JobGroups, JobType
<1> DEFINE new == NewSession(jobs[c].groups)
<1>4. new.groups = jobs[c].groups /\ new.expires = now + SessionHours
  BY DEF NewSession
<1>5. UNCHANGED directory /\ cookie' = [cookie EXCEPT ![u] = new]
  BY <1>2 DEF Admit
<1>6. /\ now \in Int /\ SessionHours \in Int
      /\ \A g \in Groups : left[u][g] \in Int
  BY Hours DEF RecentInv
<1> HIDE DEF new
<1>7. cookie'[u] = new /\ \A v \in Users : v # u => cookie'[v] = cookie[v]
  BY <1>5 DEF RecentInv, PortalTypeOK
<1>8. \A g \in new.groups : g \in member[u] \/ new.expires <= left[u][g] + SessionHours
  BY <1>3, <1>4, <1>6
<1>9. new.expires <= now + SessionHours
  BY <1>4, <1>6
<1> QED BY <1>5, <1>7, <1>8, <1>9 DEF RecentInv, CookieInv, directory

(* Every step keeps sessions and sign-ins recent.                          *)
LEMMA StepRecent ==
  ASSUME RecentInv, [PortalNext]_portalVars
  PROVE  (CookieInv /\ JobGroups)'
<1> USE DEF RecentInv
<1>1. ASSUME UNCHANGED <<directory, cookie, jobs>> PROVE (CookieInv /\ JobGroups)'
  BY <1>1, CookiesKept, JobsKept
<1>2. ASSUME NEW u \in Users, NEW g \in Groups, JoinGroup(u, g)
      PROVE  (CookieInv /\ JobGroups)'
  <2>1. /\ \A v \in Users : member[v] \subseteq member'[v]
        /\ UNCHANGED <<now, left, cookie, jobs>>
    BY <1>2 DEF JoinGroup, PortalTypeOK
  <2>2. CookieInv'
    BY <2>1 DEF CookieInv
  <2>3. \A c \in Callers : jobs[c] # IdleJob => jobs[c].user \in Users
    BY DEF PortalTypeOK, JobType
  <2>4. JobGroups'
    BY <2>1, <2>3 DEF JobGroups, IdleJob
  <2> QED BY <2>2, <2>4
<1>3. ASSUME NEW c \in Callers, Exchange(c) PROVE (CookieInv /\ JobGroups)'
  <2>1. /\ jobs[c].user \in Users /\ jobs'[c].user = jobs[c].user
        /\ jobs'[c].groups \in {member[jobs[c].user], {}}
        /\ \A d \in Callers : d # c => jobs'[d] = jobs[d]
    BY <1>3, ExchangeJob
  <2>2. UNCHANGED <<directory, cookie>>
    BY <1>3 DEF Exchange
  <2>3. JobGroups'
    <3>1. \A g \in jobs'[c].groups : g \in member'[jobs'[c].user]
      BY <2>1, <2>2 DEF directory
    <3> QED BY <2>1, <2>2, <3>1 DEF JobGroups, directory, IdleJob
  <2> QED BY <2>2, <2>3, CookiesKept
<1>4. ASSUME NEW c \in Callers, JobStep(c), ~Exchange(c) PROVE (CookieInv /\ JobGroups)'
  <2>1. /\ Continues(c) /\ jobs[c].phase \in Phases /\ UNCHANGED directory
        /\ \/ Admit(c) \/ Unlink(c) \/ cookie' = cookie
    BY <1>4, JobGoesOn
  <2>2. jobs[c] # IdleJob
    BY <2>1 DEF IdleJob, Phases
  <2>3. JobGroups'
    BY <2>1, <2>2, JobsKept DEF Continues
  <2>4. CASE Unlink(c)
    <3>1. \A u \in Users : cookie'[u] = cookie[u] \/ cookie'[u] = None
      BY <2>4 DEF Unlink, PortalTypeOK
    <3> QED BY <2>1, <2>3, <3>1 DEF CookieInv, directory
  <2>5. CookieInv'
    BY <2>1, <2>4, AdmitRecent, CookiesKept
  <2> QED BY <2>3, <2>5
<1>5. ASSUME NEW c \in Callers, NEW u \in Users,
             Logout(c, u) \/ GraphToken(c, u) \/ ConsoleDisconnect(c, u)
      PROVE  (CookieInv /\ JobGroups)'
  <2>1. /\ jobs'[c].groups = {} /\ UNCHANGED <<directory, cookie>>
        /\ \A d \in Callers : d # c => jobs'[d] = jobs[d]
    BY <1>5, RequestJob
  <2> QED BY <2>1, CookiesKept, JobsKept
<1>6. ASSUME NEW c \in Callers, NEW f \in FlowIds, Callback(c, f)
      PROVE  (CookieInv /\ JobGroups)'
  <2>1. /\ jobs'[c].groups = {} /\ UNCHANGED <<directory, cookie>>
        /\ \A d \in Callers : d # c => jobs'[d] = jobs[d]
    BY <1>6, CallbackJob
  <2> QED BY <2>1, CookiesKept, JobsKept
<1>7. CASE Restart
  <2>1. UNCHANGED <<directory, cookie>> /\ \A c \in Callers : jobs'[c] = IdleJob
    BY <1>7 DEF Restart
  <2> QED BY <2>1, CookiesKept, JobsKept
<1>8. CASE Tick
  <2>1. /\ UNCHANGED <<member, left, cookie, jobs>> /\ now' = now + 1
        /\ \A c \in Callers : jobs[c] = IdleJob
    BY <1>8 DEF Tick, Quiet
  <2>2. JobGroups'
    BY <2>1 DEF JobGroups, IdleJob
  <2>3. CookieInv'
    <3>1. \A u \in Users : cookie[u] # None =>
            cookie[u].expires \in Int /\ cookie[u].expires <= now + SessionHours
      BY Hours DEF CookieInv
    <3>2. now \in Int /\ SessionHours \in Int
      BY Hours
    <3>3. \A u \in Users : cookie[u] # None => cookie[u].expires <= now + 1 + SessionHours
      BY <3>1, <3>2
    <3> QED BY <2>1, <3>3 DEF CookieInv
  <2> QED BY <2>2, <2>3
<1>9. CASE UNCHANGED portalVars
  BY <1>1, <1>9 DEF portalVars, directory
<1>10. ASSUME NEW u \in Users, NEW f \in FlowIds, StartSignIn(u, f)
       PROVE  (CookieInv /\ JobGroups)'
  BY <1>1, <1>10 DEF StartSignIn
<1>11. ASSUME NEW i \in ItemIds, NEW creator \in Creators, NEW g \in Groups \cup {None},
              QueueItem(i, creator, g)
       PROVE  (CookieInv /\ JobGroups)'
  BY <1>1, <1>11 DEF QueueItem
<1>12. ASSUME NEW u \in Users, NEW i \in ItemIds, NEW s \in Decided, DecideItem(u, i, s)
       PROVE  (CookieInv /\ JobGroups)'
  BY <1>1, <1>12 DEF DecideItem
<1>13. ASSUME NEW c \in Callers, JobStep(c) PROVE (CookieInv /\ JobGroups)'
  BY <1>3, <1>4, <1>13
<1>14. ASSUME NEW u \in Movers, NEW g \in Groups, JoinGroup(u, g) \/ LeaveGroup(u, g)
       PROVE  (CookieInv /\ JobGroups)'
  <2>1. u \in Users
    BY PortalAssumption
  <2> QED BY <1>2, <1>14, <2>1, LeaveRecent
<1> QED BY <1>5, <1>6, <1>7, <1>8, <1>9, <1>10, <1>11, <1>12, <1>13, <1>14 DEF PortalNext

-----------------------------------------------------------------------------
(* The portal's use of the review queue.                                   *)

(* A session of the portal is one of the queue's authenticated users.      *)
LEMMA SessionContext ==
  ASSUME PortalTypeOK, NEW u \in Users, cookie[u] # None
  PROVE  ContextOf(u) \in Contexts
<1>1. cookie[u].groups \in SUBSET Groups
  BY Hours
<1> QED BY <1>1, PortalAssumption DEF ContextOf

(* Signing in and out touches no review item.                              *)
LEMMA JobLeavesQueue ==
  ASSUME NEW c \in Callers, JobStep(c)
  PROVE  UNCHANGED items
BY DEF JobStep, Exchange, ExchangeFails, Serialize, WriteCache, FileFails, Admit,
       Refuse, Wipe, Unlink

(* Only the two queue handlers touch the queue.                            *)
LEMMA QueueSteps ==
  ASSUME PortalTypeOK, [PortalNext]_portalVars
  PROVE  \/ UNCHANGED items
         \/ \E i \in ItemIds, creator \in Creators, g \in Groups \cup {None} :
              QueueItem(i, creator, g)
         \/ \E u \in Users, i \in ItemIds, s \in Decided : DecideItem(u, i, s)
<1>1. ASSUME NEW c \in Callers, NEW u \in Users,
             Logout(c, u) \/ GraphToken(c, u) \/ ConsoleDisconnect(c, u)
      PROVE  UNCHANGED items
  BY <1>1 DEF Logout, GraphToken, ConsoleDisconnect
<1>2. ASSUME NEW u, NEW g, JoinGroup(u, g) \/ LeaveGroup(u, g) PROVE UNCHANGED items
  BY <1>2 DEF JoinGroup, LeaveGroup
<1>3. ASSUME NEW u, NEW f, StartSignIn(u, f) PROVE UNCHANGED items
  BY <1>3 DEF StartSignIn
<1>4. ASSUME NEW c, NEW f, Callback(c, f) PROVE UNCHANGED items
  BY <1>4 DEF Callback
<1>5. CASE Restart \/ Tick \/ UNCHANGED portalVars
  BY <1>5 DEF Restart, Tick, portalVars
<1> QED BY <1>1, <1>2, <1>3, <1>4, <1>5, JobLeavesQueue DEF PortalNext

(* Every step of the portal is one of the queue or leaves the queue alone. *)
LEMMA QueueStep ==
  ASSUME PortalTypeOK, [PortalNext]_portalVars
  PROVE  [QueueNext]_items
<1>1. ASSUME NEW i \in ItemIds, NEW creator \in Creators, NEW g \in Groups \cup {None},
             QueueItem(i, creator, g)
      PROVE  QueueNext
  BY <1>1, PortalAssumption DEF QueueItem, QueueNext
<1>2. ASSUME NEW u \in Users, NEW i \in ItemIds, NEW s \in Decided, DecideItem(u, i, s)
      PROVE  QueueNext
  <2>1. ContextOf(u) \in Contexts /\ Disposition(ContextOf(u), i, s)
    BY <1>2, SessionContext DEF DecideItem, Honoured
  <2> QED BY <2>1 DEF QueueNext
<1> QED BY <1>1, <1>2, QueueSteps

(* The portal is a user of the queue: what ReviewQueue promises holds of   *)
(* every run of the portal, whatever sessions, threads and faults do.    *)
THEOREM PortalQueue == PortalSpec => QueueSpec
<1>1. PortalInit => QueueInit
  BY DEF PortalInit
<1>2. PortalTypeOK /\ [PortalNext]_portalVars => [QueueNext]_items
  BY QueueStep
<1> QED BY <1>1, <1>2, PortalTyping, PTL DEF PortalSpec, QueueSpec

(* So a decision that asks for a group is a group member's, and is final.  *)
THEOREM PortalDecisions == PortalSpec => []QualifiedDecisions /\ DecisionsFinal
BY PortalQueue, Qualification, Finality, PTL

(* Whoever decides on an item that asks for a group is invited, and in the *)
(* group or out of it for less than a session's lifetime.                  *)
LEMMA RecentDecision ==
  ASSUME RecentInv, QueueTypeOK, [PortalNext]_portalVars, NEW i \in ItemIds,
         items[i].status = "pending", items'[i].status \in Decided, items[i].group # None
  PROVE  LET u == items'[i].reviewed_by
             g == items[i].group
         IN  /\ u \in Invited
             /\ g \in member[u] \/ now - left[u][g] < SessionHours
<1>1. ASSUME NEW j \in ItemIds, NEW creator, NEW g, QueueItem(j, creator, g) PROVE FALSE
  <2>1. PICK p : items[j] = NoItem /\ items' = [items EXCEPT ![j] =
                   [tenant |-> HomeTenant, project |-> p, created_by |-> creator,
                    group |-> g, status |-> "pending", reviewed_by |-> None]]
    BY <1>1 DEF QueueItem, Enqueue
  <2>2. i # j
    BY <2>1, MissingItems
  <2> QED BY <2>1, <2>2 DEF QueueTypeOK, Decided
<1>2. PICK u \in Users, j \in ItemIds, s \in Decided : DecideItem(u, j, s)
  <2>1. ~UNCHANGED items
    BY DEF Decided
  <2> QED BY <1>1, <2>1, QueueSteps DEF RecentInv
<1>3. /\ Honoured(u) /\ Qualified(items[j], ContextOf(u))
      /\ items' = [items EXCEPT ![j] = Dispositioned(items[j], s, u)]
  BY <1>2 DEF DecideItem, Disposition, ContextOf
<1>4. i = j
  BY <1>3 DEF QueueTypeOK, Decided
<1>5. items[i] \in Item
  BY MissingItems DEF QueueTypeOK
<1>6. items'[i].reviewed_by = u
  BY <1>3, <1>4, <1>5 DEF Dispositioned, QueueTypeOK, Item
<1> DEFINE g == items[i].group
<1>7. g \in Groups /\ g \in cookie[u].groups
  <2>1. g \in {"tessera_user"} \cup cookie[u].groups
    BY <1>3, <1>4 DEF Qualified, ContextOf
  <2>2. g \in Groups
    BY <1>5 DEF Item
  <2> QED BY <2>1, <2>2, PortalAssumption
<1>8. u \in Invited /\ cookie[u] # None /\ now < cookie[u].expires
  BY <1>3 DEF Honoured, Unexpired
<1> HIDE DEF g
<1>9. g \in member[u] \/ cookie[u].expires <= left[u][g] + SessionHours
  BY <1>7, <1>8 DEF RecentInv, CookieInv
<1>10. /\ now \in Int /\ SessionHours \in Int /\ left[u][g] \in Int
       /\ cookie[u].expires \in Int
  BY <1>7, <1>8, Hours DEF RecentInv
<1>11. g \in member[u] \/ now - left[u][g] < SessionHours
  BY <1>8, <1>9, <1>10
<1> QED BY <1>6, <1>8, <1>11 DEF g

(* A session keeps no privilege alive for longer than its own lifetime,    *)
(* whoever signs in, out and in again and changes groups meanwhile.        *)
THEOREM Recency == PortalSpec => RecentMembersDecide
<1> DEFINE Recent ==
      \A i \in ItemIds :
        (/\ items[i].status = "pending" /\ items'[i].status \in Decided
         /\ items[i].group # None)
        => LET u == items'[i].reviewed_by
               g == items[i].group
           IN  /\ u \in Invited
               /\ g \in member[u] \/ now - left[u][g] < SessionHours
<1>1. RecentInv /\ QueueTypeOK /\ [PortalNext]_portalVars => Recent
  BY RecentDecision
<1>2. PortalInit => RecentInv
  BY InitTypes, InitRecent DEF RecentInv
<1>3. RecentInv /\ [PortalNext]_portalVars => RecentInv'
  BY StepTypes, StepRecent DEF RecentInv
<1>4. RecentInv /\ QueueTypeOK /\ [PortalNext]_portalVars => [Recent]_portalVars
  BY <1>1
<1> HIDE DEF Recent
<1>5. PortalSpec => [][Recent]_portalVars
  BY <1>2, <1>3, <1>4, PortalQueue, QueueTyping, PTL DEF PortalSpec
<1> QED BY <1>5 DEF Recent, RecentMembersDecide

-----------------------------------------------------------------------------
(* Strangers.                                                              *)

(* The thread that let a stranger's account in is on its way to look.      *)
Watched(c, u) ==
  /\ jobs[c].phase \in {"persist", "write", "admit", "wipe"}
  /\ jobs[c].user = u /\ jobs[c].then = "admit"

StrangerInv ==
  /\ \A c \in Callers : jobs[c].phase = "exchange" => jobs[c].then = "admit"
  /\ faults = 0 => \A u \in accounts : \/ u \in Invited \ Foreign
                                        \/ \E c \in Callers : Watched(c, u)

(* A watched account is let go of, accepted, or watched on.                *)
LEMMA WatchedOn ==
  ASSUME PortalTypeOK, NEW c \in Callers, NEW u \in Users, Watched(c, u),
         JobStep(c), ~Exchange(c), ~FileFails(c)
  PROVE  Watched(c, u)' \/ u \in Invited \ Foreign \/ accounts' = {}
<1>a. JobsOK /\ jobs[c].phase \in Phases
  BY DEF PortalTypeOK, JobsOK, Watched, Phases
<1>b. jobs[c].user = u /\ jobs[c].then = "admit"
  BY DEF Watched
<1>c. Continues(c)
  BY JobGoesOn
<1>d. ASSUME jobs'[c] # IdleJob, jobs'[c].phase \in {"persist", "write", "admit", "wipe"}
      PROVE  Watched(c, u)'
  BY <1>b, <1>c, <1>d DEF Continues, Watched
<1>1. CASE Serialize(c)
  <2>1. CASE dirty
    <3>1. jobs[c] \in JobType
      BY <1>a, BusyJob
    <3>2. jobs' = [jobs EXCEPT ![c] = [jobs[c] EXCEPT !.phase = "write", !.copy = accounts]]
      BY <1>1, <2>1 DEF Serialize
    <3>3. jobs'[c] = [jobs[c] EXCEPT !.phase = "write", !.copy = accounts]
      BY <1>a, <3>2 DEF JobsOK
    <3>4. jobs'[c].phase = "write"
      BY <3>1, <3>3 DEF JobType
    <3> QED BY <1>d, <3>4 DEF IdleJob
  <2>2. CASE ~dirty
    BY <1>1, <1>a, <1>b, <1>d, <2>2, AfterOK DEF Serialize
  <2> QED BY <2>1, <2>2
<1>2. CASE WriteCache(c)
  BY <1>2, <1>a, <1>b, <1>d, AfterOK DEF WriteCache
<1>3. CASE Refuse(c)
  <2>1. Enter(c, "wipe") /\ "wipe" \in Phases
    BY <1>3 DEF Refuse, TurnAway, Phases
  <2>2. jobs'[c].phase = "wipe"
    BY <1>a, <2>1, EnterOK, Zenon
  <2> QED BY <1>d, <2>2 DEF IdleJob
<1>4. CASE Admit(c)
  BY <1>4, <1>b DEF Admit, MayEnter
<1>5. CASE Wipe(c)
  BY <1>5 DEF Wipe
<1>6. ~(ExchangeFails(c) \/ Unlink(c))
  BY DEF ExchangeFails, Unlink, Watched
<1> QED BY <1>1, <1>2, <1>3, <1>4, <1>5, <1>6 DEF JobStep

(* Every step keeps each stranger's account watched by the thread that let *)
(* it in.                                                                  *)
LEMMA StepStrangers ==
  ASSUME PortalTypeOK, StrangerInv, [PortalNext]_portalVars
  PROVE  StrangerInv'
<1>1. ASSUME UNCHANGED <<accounts, jobs, faults>> PROVE StrangerInv'
  BY <1>1 DEF StrangerInv, Watched
<1>2. ASSUME NEW c \in Callers, jobs[c] = IdleJob, accounts' \subseteq accounts,
             faults' = faults, \A d \in Callers : d # c => jobs'[d] = jobs[d],
             jobs'[c].phase = "exchange" => jobs'[c].then = "admit"
      PROVE  StrangerInv'
  <2>1. \A u, d : d \in Callers /\ Watched(d, u) => Watched(d, u)'
    BY <1>2 DEF Watched, IdleJob
  <2> QED BY <1>2, <2>1 DEF StrangerInv
<1>3. ASSUME NEW c \in Callers, Exchange(c) PROVE StrangerInv'
  <2>0. PICK u \in Users : u = jobs[c].user
    BY <1>3, ExchangeJob
  <2>1. /\ jobs'[c].user = u /\ jobs'[c].phase = "persist"
        /\ jobs'[c].then = jobs[c].then
        /\ \A d \in Callers : d # c => jobs'[d] = jobs[d]
    BY <1>3, <2>0, ExchangeJob
  <2>2. /\ jobs[c].phase = "exchange" /\ accounts' = accounts \cup {u}
        /\ faults' = faults
    BY <1>3, <2>0 DEF Exchange
  <2>3. Watched(c, u)'
    BY <2>1, <2>2 DEF Watched, StrangerInv
  <2>4. \A v, d : d \in Callers /\ Watched(d, v) => Watched(d, v)'
    BY <2>1, <2>2 DEF Watched
  <2> QED BY <2>1, <2>2, <2>3, <2>4 DEF StrangerInv
<1>4. ASSUME NEW c \in Callers, JobStep(c), ~Exchange(c) PROVE StrangerInv'
  <2>1. /\ Continues(c) /\ accounts' \in {accounts, {}}
        /\ faults' = faults \/ (faults' = faults + 1 /\ FileFails(c))
    BY <1>4, JobGoesOn
  <2>0. faults \in Nat
    BY PortalAssumption DEF PortalTypeOK
  <2>a. faults' = 0 => faults = 0 /\ ~FileFails(c)
    BY <2>0, <2>1 DEF FileFails
  <2>2. accounts \subseteq Users
    BY DEF PortalTypeOK
  <2>3. ASSUME NEW u \in Users, NEW d \in Callers, Watched(d, u), ~FileFails(c)
        PROVE  Watched(d, u)' \/ u \in Invited \ Foreign \/ accounts' = {}
    <3>1. CASE d = c
      BY <1>4, <2>3, <3>1, WatchedOn
    <3>2. CASE d # c
      BY <2>1, <2>3, <3>2 DEF Watched, Continues
    <3> QED BY <3>1, <3>2
  <2>4. jobs'[c].phase # "exchange"
    BY <2>1 DEF Continues, IdleJob
  <2>5. \A d \in Callers : jobs'[d].phase = "exchange" => jobs'[d].then = "admit"
    BY <2>1, <2>4 DEF Continues, StrangerInv
  <2> QED BY <2>a, <2>1, <2>2, <2>3, <2>5 DEF StrangerInv
<1>5. ASSUME NEW c \in Callers, NEW u \in Users,
             Logout(c, u) \/ GraphToken(c, u) \/ ConsoleDisconnect(c, u)
      PROVE  StrangerInv'
  BY <1>2, <1>5, RequestJob
<1>6. ASSUME NEW c \in Callers, NEW f \in FlowIds, Callback(c, f)
      PROVE  StrangerInv'
  BY <1>2, <1>6, CallbackJob
<1>7. CASE Restart
  <2>1. faults \in Nat /\ faults' = faults + 1
    BY <1>7, PortalAssumption DEF Restart, PortalTypeOK
  <2>2. faults' # 0 /\ \A c \in Callers : jobs'[c].phase # "exchange"
    BY <1>7, <2>1 DEF Restart, IdleJob
  <2> QED BY <2>2 DEF StrangerInv
<1>8. CASE Tick \/ UNCHANGED portalVars
  BY <1>1, <1>8 DEF Tick, portalVars
<1>9. ASSUME NEW u, NEW g, JoinGroup(u, g) \/ LeaveGroup(u, g) PROVE StrangerInv'
  BY <1>1, <1>9 DEF JoinGroup, LeaveGroup
<1>10. ASSUME NEW u, NEW f, StartSignIn(u, f) PROVE StrangerInv'
  BY <1>1, <1>10 DEF StartSignIn
<1>11. ASSUME NEW i, NEW creator, NEW g, QueueItem(i, creator, g) PROVE StrangerInv'
  BY <1>1, <1>11 DEF QueueItem
<1>12. ASSUME NEW u, NEW i, NEW s, DecideItem(u, i, s) PROVE StrangerInv'
  BY <1>1, <1>12 DEF DecideItem
<1>13. ASSUME NEW c \in Callers, JobStep(c) PROVE StrangerInv'
  BY <1>3, <1>4, <1>13
<1> QED BY <1>5, <1>6, <1>7, <1>8, <1>9, <1>10, <1>11, <1>12, <1>13 DEF PortalNext

(* Whoever is not invited, or is of another tenant, has no account in the  *)
(* broker between requests, though every sign-in adds it before it looks,  *)
(* as long as no write of the cache has failed and no restart has come.    *)
THEOREM Strangers == PortalSpec => []StrangersDropped
<1>1. PortalInit => StrangerInv
  BY DEF PortalInit, StrangerInv, IdleJob
<1>2. PortalTypeOK /\ StrangerInv /\ [PortalNext]_portalVars => StrangerInv'
  BY StepStrangers
<1>3. StrangerInv => StrangersDropped
  BY DEF StrangerInv, StrangersDropped, Quiet, Watched, IdleJob
<1> QED BY <1>1, <1>2, <1>3, PortalTyping, PTL DEF PortalSpec
=============================================================================
