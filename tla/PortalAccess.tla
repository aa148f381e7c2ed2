---------------------------- MODULE PortalAccess -----------------------------
(***************************************************************************)
(* Microsoft sign-in and portal sessions, and the review decisions they    *)
(* authorize: tessera_os/microsoft.py, portal.py, sessions.py and          *)
(* identity.py in front of the review queue of review.py.                  *)
(*                                                                         *)
(* One broker serves every user: pending authorization flows and the       *)
(* signed-in Microsoft accounts are shared memory, and the accounts are    *)
(* saved in one encrypted file.  Saving is two steps, taking the cache's   *)
(* contents and writing the file; so is forgetting, emptying the cache and *)
(* deleting the file.  Handlers run on a pool of threads, and `jobs` holds *)
(* what each thread is doing.  A session travels in a signed cookie with   *)
(* the groups its user had in the directory at sign-in.                    *)
(***************************************************************************)
EXTENDS ReviewQueue, Integers, FiniteSets

CONSTANTS
  Invited,        \* TESSERA_ALLOWED_USER_IDS
  Foreign,        \* users whose token is of another tenant
  HomeTenant,     \* the tenant of the portal's settings
  Movers,         \* BOUND on the users who join and leave mapped groups
  FlowIds,        \* states of authorization flows
  Callers,        \* threads of the server's pool
  SessionHours,   \* lifetime of a session, 8 in the code
  MaxTime,        \* BOUND on the clock, in hours
  MaxFaults       \* BOUND on restarts and failed writes of the cache file

NoFlow   == "none"
GoneFlow == "gone"

ASSUME PortalAssumption ==
  /\ Invited \subseteq Users /\ Foreign \subseteq Users /\ Movers \subseteq Users
  /\ HomeTenant \in Tenants
  /\ SessionHours \in Nat \ {0} /\ MaxTime \in Nat /\ MaxFaults \in Nat
  /\ "tessera_user" \notin Groups   \* BASE_GROUP: no item asks for it
  /\ NoFlow \notin Users /\ GoneFlow \notin Users
  /\ \A u \in Users, g \in SUBSET Groups :      \* sessions of mapped groups
       [tenant |-> HomeTenant, user |-> u, projects |-> Projects,
        groups |-> {"tessera_user"} \cup g] \in Contexts

VARIABLES
  now,        \* the clock, in hours
  member,     \* the directory's groups of each user
  left,       \* the hour a user last left a group
  flows,      \* _flows: pending authorization flows and who began them
  accounts,   \* the users with an account in the token cache
  dirty,      \* the cache's has_state_changed
  disk,       \* the users in the saved token cache; None if it was cut short
  cookie,     \* the session in each user's browser
  jobs,       \* the request each thread is handling
  faults      \* restarts and failed writes so far

portalVars == <<items, now, member, left, flows, accounts, dirty, disk, cookie,
                jobs, faults>>
directory  == <<now, member, left>>

Pending  == {f \in FlowIds : flows[f] \notin {NoFlow, GoneFlow}}

IdleJob   == [phase |-> "idle"]
Finish(c) == jobs' = [jobs EXCEPT ![c] = IdleJob]
Enter(c, phase) == jobs' = [jobs EXCEPT ![c].phase = phase]
Begin(c, phase, u, then) ==
  /\ jobs[c] = IdleJob
  /\ jobs' = [jobs EXCEPT ![c] = [phase |-> phase, user |-> u, groups |-> {},
                                  copy |-> {}, then |-> then]]

Quiet == \A c \in Callers : jobs[c] = IdleJob

PortalInit ==
  /\ QueueInit
  /\ now = 0
  /\ member = [u \in Users |-> {}]
  /\ left = [u \in Users |-> [g \in Groups |-> 0 - SessionHours]]
  /\ flows = [f \in FlowIds |-> NoFlow]
  /\ accounts = {} /\ disk = {} /\ dirty = FALSE
  /\ cookie = [u \in Users |-> None]
  /\ jobs = [c \in Callers |-> IdleJob]
  /\ faults = 0

-----------------------------------------------------------------------------
(* The directory, outside the program.                                     *)
JoinGroup(u, g) ==
  /\ g \notin member[u]
  /\ member' = [member EXCEPT ![u] = @ \cup {g}]
  /\ UNCHANGED <<items, now, left, flows, accounts, dirty, disk, cookie, jobs,
                 faults>>

LeaveGroup(u, g) ==
  /\ g \in member[u]
  /\ member' = [member EXCEPT ![u] = @ \ {g}]
  /\ left' = [left EXCEPT ![u][g] = now]
  /\ UNCHANGED <<items, now, flows, accounts, dirty, disk, cookie, jobs, faults>>

-----------------------------------------------------------------------------
(* begin: nobody has to be signed in to start signing in.                  *)
StartSignIn(u, f) ==
  /\ flows[f] = NoFlow
  /\ flows' = [flows EXCEPT ![f] = u]
  /\ UNCHANGED <<items, directory, accounts, dirty, disk, cookie, jobs, faults>>

(* complete takes the flow out of the pending ones, so a second callback   *)
(* with the same state finds none; then it asks Microsoft for the tokens.  *)
Callback(c, f) ==
  /\ f \in Pending
  /\ Begin(c, "exchange", flows[f], "admit")
  /\ flows' = [flows EXCEPT ![f] = GoneFlow]
  /\ UNCHANGED <<items, directory, accounts, dirty, disk, cookie, faults>>

(* The account enters the shared cache before anyone looks at whose it is. *)
(* A user in too many groups has no groups claim at all.                   *)
Exchange(c) ==
  /\ jobs[c].phase = "exchange"
  /\ LET u == jobs[c].user IN
       /\ accounts' = accounts \cup {u}
       /\ \E g \in {member[u], {}} :
            jobs' = [jobs EXCEPT ![c].phase = "persist", ![c].groups = g]
  /\ dirty' = TRUE
  /\ UNCHANGED <<items, directory, flows, disk, cookie, faults>>

ExchangeFails(c) ==
  /\ jobs[c].phase = "exchange"
  /\ Finish(c)
  /\ UNCHANGED <<items, directory, flows, accounts, dirty, disk, cookie, faults>>

After(c) == IF jobs[c].then = "admit" THEN Enter(c, "admit") ELSE Finish(c)

(* persist: serializing the cache marks it as saved, before it is.         *)
Serialize(c) ==
  /\ jobs[c].phase = "persist"
  /\ IF dirty
       THEN jobs' = [jobs EXCEPT ![c].phase = "write", ![c].copy = accounts]
       ELSE After(c)
  /\ dirty' = FALSE
  /\ UNCHANGED <<items, directory, flows, accounts, disk, cookie, faults>>

WriteCache(c) ==
  /\ jobs[c].phase = "write"
  /\ disk' = jobs[c].copy
  /\ After(c)
  /\ UNCHANGED <<items, directory, flows, accounts, dirty, cookie, faults>>

(* The file cannot be written, and may be cut short, or cannot be deleted  *)
(* (another request has just done so).  The request ends there: the portal *)
(* catches the errors of its configuration only, so nobody looks whose the *)
(* account is, and a browser that logs out keeps its session.              *)
FileFails(c) ==
  /\ jobs[c].phase \in {"write", "unlink"}
  /\ faults < MaxFaults
  /\ faults' = faults + 1
  /\ disk' \in IF jobs[c].phase = "write" THEN {disk, None} ELSE {disk}
  /\ Finish(c)
  /\ UNCHANGED <<items, directory, flows, accounts, dirty, cookie>>

MayEnter(u) == u \in Invited /\ u \notin Foreign

\* Mutant of NewSession: the lifetime is subtracted.
PastSession(groups) == [groups |-> groups, expires |-> now - SessionHours]

NewSession(groups) == [groups |-> groups, expires |-> now + SessionHours]

(* The end of a sign-in: an invited user of the tenant gets a session.     *)
Admit(c) ==
  /\ jobs[c].phase = "admit"
  /\ MayEnter(jobs[c].user)
  /\ cookie' = [cookie EXCEPT ![jobs[c].user] = NewSession(jobs[c].groups)]
  /\ Finish(c)
  /\ UNCHANGED <<items, directory, flows, accounts, dirty, disk, faults>>

\* Mutant of TurnAway: the account of the refused user is left behind.
OnlyRefuse(c) == Finish(c)

(* Refusing a user disconnects every account of the broker.                *)
TurnAway(c) == Enter(c, "wipe")

Refuse(c) ==
  /\ jobs[c].phase = "admit"
  /\ ~MayEnter(jobs[c].user)
  /\ TurnAway(c)
  /\ UNCHANGED <<items, directory, flows, accounts, dirty, disk, cookie, faults>>

(* logout asks for no session, and names no user to disconnect.            *)
Logout(c, u) ==
  /\ Begin(c, "wipe", u, "logout")
  /\ UNCHANGED <<items, directory, flows, accounts, dirty, disk, cookie, faults>>

(* disconnect without a user: accounts, pending flows and the cache go,    *)
(* then the file.  logout's response takes the cookie away.                *)
Wipe(c) ==
  /\ jobs[c].phase = "wipe"
  /\ accounts' = {}
  /\ flows' = [f \in FlowIds |-> IF f \in Pending THEN GoneFlow ELSE flows[f]]
  /\ dirty' = FALSE
  /\ Enter(c, "unlink")
  /\ UNCHANGED <<items, directory, disk, cookie, faults>>

Unlink(c) ==
  /\ jobs[c].phase = "unlink"
  /\ disk' = {}
  /\ cookie' = IF jobs[c].then = "logout"
                 THEN [cookie EXCEPT ![jobs[c].user] = None] ELSE cookie
  /\ Finish(c)
  /\ UNCHANGED <<items, directory, flows, accounts, dirty, faults>>

-----------------------------------------------------------------------------
\* Mutant of Unexpired: the deadline is not required of a session.
Undated(session) == TRUE

Unexpired(session) == now < session.expires

(* The session a request carries is honoured.                              *)
Honoured(u) == cookie[u] # None /\ Unexpired(cookie[u]) /\ u \in Invited

ContextOf(u) ==
  [tenant |-> HomeTenant, user |-> u, projects |-> Projects,
   groups |-> {"tessera_user"} \cup cookie[u].groups]

(* A Graph read takes the account of its user; a refreshed token goes back *)
(* into the cache, which is saved.                                         *)
GraphToken(c, u) ==
  /\ Honoured(u) /\ u \in accounts
  /\ Begin(c, "persist", u, "end")
  /\ dirty' \in {dirty, TRUE}
  /\ UNCHANGED <<items, directory, flows, accounts, disk, cookie, faults>>

(* The console disconnects the one user who asks.                          *)
ConsoleDisconnect(c, u) ==
  /\ Honoured(u)
  /\ Begin(c, "persist", u, "end")
  /\ accounts' = accounts \ {u}
  /\ dirty' = (dirty \/ u \in accounts)
  /\ UNCHANGED <<items, directory, flows, disk, cookie, faults>>

QueueItem(i, creator, group) ==
  /\ \E p \in Projects : Enqueue(i, HomeTenant, p, creator, group)
  /\ UNCHANGED <<directory, flows, accounts, dirty, disk, cookie, jobs, faults>>

DecideItem(u, i, status) ==
  /\ Honoured(u)
  /\ Disposition(ContextOf(u), i, status)
  /\ UNCHANGED <<directory, flows, accounts, dirty, disk, cookie, jobs, faults>>

(* The process is replaced: flows and requests are lost, the accounts are  *)
(* loaded from the file, cookies and queue stay where they are.  The       *)
(* portal does not start from a file that was cut short.                   *)
Restart ==
  /\ faults < MaxFaults
  /\ disk # None
  /\ faults' = faults + 1
  /\ flows' = [f \in FlowIds |-> IF f \in Pending THEN GoneFlow ELSE flows[f]]
  /\ accounts' = disk
  /\ dirty' = FALSE
  /\ jobs' = [c \in Callers |-> IdleJob]
  /\ UNCHANGED <<items, directory, disk, cookie>>

(* An hour passes.  BOUND: a request is over within the hour.              *)
Tick ==
  /\ Quiet
  /\ now < MaxTime
  /\ now' = now + 1
  /\ UNCHANGED <<items, member, left, flows, accounts, dirty, disk, cookie, jobs,
                 faults>>

JobStep(c) ==
  \/ Exchange(c) \/ ExchangeFails(c)
  \/ Serialize(c) \/ WriteCache(c) \/ FileFails(c)
  \/ Admit(c) \/ Refuse(c)
  \/ Wipe(c) \/ Unlink(c)

PortalNext ==
  \/ \E c \in Callers : JobStep(c)
  \/ \E u \in Movers, g \in Groups : JoinGroup(u, g) \/ LeaveGroup(u, g)
  \/ \E u \in Users, f \in FlowIds : StartSignIn(u, f)
  \/ \E c \in Callers, f \in FlowIds : Callback(c, f)
  \/ \E c \in Callers, u \in Users :
       Logout(c, u) \/ GraphToken(c, u) \/ ConsoleDisconnect(c, u)
  \/ \E i \in ItemIds, creator \in Creators, g \in Groups \cup {None} :
       QueueItem(i, creator, g)
  \/ \E u \in Users, i \in ItemIds, s \in Decided : DecideItem(u, i, s)
  \/ Restart
  \/ Tick

PortalSpec == PortalInit /\ [][PortalNext]_portalVars

-----------------------------------------------------------------------------
(* Properties.                                                             *)

Session == [groups : SUBSET Groups, expires : 0..(MaxTime + SessionHours)]
JobType == [phase : {"exchange", "persist", "write", "admit", "wipe", "unlink"},
            user : Users, groups : SUBSET Groups, copy : SUBSET Users,
            then : {"admit", "end", "logout"}]

(* The broker's memory and file, the browsers' sessions and the threads'   *)
(* requests keep their shapes.                                             *)
PortalTypeOK ==
  /\ now \in 0..MaxTime
  /\ member \in [Users -> SUBSET Groups]
  /\ left \in [Users -> [Groups -> (0 - SessionHours)..MaxTime]]
  /\ flows \in [FlowIds -> Users \cup {NoFlow, GoneFlow}]
  /\ accounts \subseteq Users /\ dirty \in BOOLEAN
  /\ disk \in (SUBSET Users) \cup {None}
  /\ cookie \in [Users -> Session \cup {None}]
  /\ jobs \in [Callers -> JobType \cup {IdleJob}]
  /\ faults \in 0..MaxFaults

(* A decision that asks for a group is made only by an invited user whom   *)
(* the directory has in that group, or had in it less than eight hours     *)
(* ago: a session does not keep a privilege alive any longer, whoever      *)
(* signs in, out and in again meanwhile.                                   *)
RecentMembersDecide ==
  [][\A i \in ItemIds :
       (/\ items[i].status = "pending" /\ items'[i].status \in Decided
        /\ items[i].group # None)
       => LET u == items'[i].reviewed_by
              g == items[i].group
          IN  /\ u \in Invited
              /\ g \in member[u] \/ now - left[u][g] < SessionHours]_portalVars

(* While no write of the cache file has failed and the process has not     *)
(* been replaced, the token cache holds between requests the accounts of   *)
(* invited users of the tenant only, though every sign-in adds the account *)
(* first and looks at it later.  A failed write ends the sign-in before it *)
(* looks and leaves a stranger's account; a restart may load one that was  *)
(* saved in between.                                                       *)
StrangersDropped ==
  (Quiet /\ faults = 0) => accounts \subseteq Invited \ Foreign

-----------------------------------------------------------------------------
(* What the repository says and the code does not do.                      *)

(* A user who logs out leaves the other users connected.                   *)
LogoutLeavesOthers ==
  [][\A c \in Callers :
       (/\ jobs[c].phase = "wipe" /\ jobs'[c].phase = "unlink"
        /\ jobs[c].then = "logout" /\ jobs[c].user \in accounts)
       => accounts \ {jobs[c].user} \subseteq accounts']_portalVars
=============================================================================
