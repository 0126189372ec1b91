------------------------------- MODULE Tenancy -------------------------------
(***************************************************************************)
(* How somebody signed in gets to a workspace: the account choice          *)
(* (apps/web/app/welcome), the session path of the guard (tenant/          *)
(* tenant-sync.service.ts, common/policy.ts) and the gate on a trial or a  *)
(* paid period that has run out (common/trial.ts).                         *)
(*                                                                         *)
(* Clerk is external: it holds who belongs to which organization in which  *)
(* role and which organization a session has active; a request carries     *)
(* what was true when its token was issued.  An activation reaches the     *)
(* session first and the page's own hook later.  Each database statement   *)
(* of a request is a step of its own and any of them may fail.             *)
(***************************************************************************)
EXTENDS Integers, Sequences, FiniteSets

CONSTANTS
    Users,          \* Clerk user ids
    Visitor,        \* the one whose account-choice page is modelled
    Orgs,           \* Clerk organizations, existing or yet to be created
    None,
    Email,          \* Clerk user id -> e-mail address in the token
    Existing,       \* rows of users before the first step: [clerk, email]
    Joined,         \* <<user, organization>> -> role, before the first step
    Offered,        \* <<user, route>>: what the rest of the product asks
    TrialDays,      \* length of a free trial
    MaxTime, MaxCalls, MaxPlanChanges, MaxLeft   \* bounds

Roles == {"OWNER", "ADMIN", "MEMBER", "VIEWER"}
ClerkRoles == {"org:admin", "org:member", "org:guest"}
Routes == {"me", "members", "send", "checkout", "personal"}

ASSUME TenancyAssumption ==
    /\ Visitor \in Users /\ None \notin Users \cup Orgs /\ None \notin {"ok", "onboarding"}
    /\ Users \cap Orgs = {}
    /\ \A x, y \in Existing : x.clerk = y.clerk \/ x.email = y.email => x = y
    /\ Joined \in [Users \X Orgs -> ClerkRoles \cup {None}]
    /\ Offered \subseteq Users \X (Routes \ {"personal"})
    /\ TrialDays \in Nat \ {0}
    /\ MaxTime \in Nat /\ MaxCalls \in Nat /\ MaxPlanChanges \in Nat /\ MaxLeft \in Nat

VARIABLES
    time,
    roles,      \* Clerk: <<user, organization>> -> role or None
    active,     \* Clerk: the organization of each user's session
    activating, \* Clerk: the organization the page is waiting to have active
    seen,       \* useAuth().orgId in the visitor's page
    left,       \* history: the pairs of Joined or created memberships that ended
    users,      \* rows of users
    tenants,    \* rows of tenants, in order of insertion
    members,    \* rows of memberships: [tenant, clerk, role]
    calls,      \* requests, in order of arrival
    page,       \* the visitor's page
    changes     \* plan changes so far

clerk == <<roles, active, activating, seen, left>>
db == <<users, tenants, members>>
vars == <<time, clerk, db, calls, page, changes>>

\* Welcome, as it is mounted.
Welcome == [at |-> "welcome", mode |-> "choose", busy |-> FALSE, entering |-> FALSE,
            awaits |-> 0]
Home(i) == [Welcome EXCEPT !.at = "home", !.awaits = i]

Init ==
    /\ time = 0
    /\ roles = Joined
    /\ active \in {f \in [Users -> Orgs \cup {None}] :
            /\ f[Visitor] = None
            /\ \A u \in Users \ {Visitor} :
                IF f[u] = None THEN \A o \in Orgs : Joined[u, o] = None ELSE Joined[u, f[u]] # None}
    /\ activating = None /\ seen = None
    /\ left = {}
    /\ users = Existing /\ tenants = <<>> /\ members = {}
    /\ calls = <<>> /\ page = Welcome /\ changes = 0

-----------------------------------------------------------------------------
(* Entitlement.                                                            *)

\* What a workspace is owed: its trial, its paid period, or pro for good.
Open(t, now) ==
    \/ t.plan = "trial" /\ t.trialEnds > now
    \/ t.plan = "pro" /\ (t.paidUntil = None \/ t.paidUntil > now)

LockedOnceTrialEnds(t, now) == t.plan = "trial" /\ t.trialEnds <= now

\* accessLocked(tenantAccess(...)): the trial or the paid period is over.  A
\* pro workspace with no paid period never runs out.
Locked(t, now) ==
    IF t.plan = "pro" THEN t.paidUntil # None /\ t.paidUntil <= now
    ELSE t.trialEnds <= now

\* toMembershipRole: what is not known is a viewer.
Role(raw) == CASE raw = "org:admin" -> "ADMIN" [] raw = "org:member" -> "MEMBER" [] OTHER -> "VIEWER"

Rank == [OWNER |-> 4, ADMIN |-> 3, MEMBER |-> 2, VIEWER |-> 1]
MinRole == [me |-> "VIEWER", members |-> "VIEWER", send |-> "MEMBER", checkout |-> "ADMIN"]
AllowWhenLocked == {"me", "checkout"}
RoleSatisfies(role, route) == Rank[role] >= Rank[MinRole[route]]

-----------------------------------------------------------------------------
(* A request: policy.ts:256-302 and tenant-sync.service.ts.                *)

InsertsAlways(owner) ==
    Append(tenants, [owner |-> owner, trialEnds |-> time + TrialDays, plan |-> "trial", paidUntil |-> None])

RestartsTrial(owner) ==
    IF \E i \in DOMAIN tenants : tenants[i].owner = owner
    THEN [i \in DOMAIN tenants |->
            IF tenants[i].owner = owner
            THEN [tenants[i] EXCEPT !.trialEnds = time + TrialDays] ELSE tenants[i]]
    ELSE InsertsAlways(owner)

\* ensure_tenant and ensure_personal_tenant: the row of this owner, inserted on
\* a trial the first time.
Ensured(owner) ==
    IF \E i \in DOMAIN tenants : tenants[i].owner = owner THEN tenants ELSE InsertsAlways(owner)

TenantOf(owner, rows) == CHOOSE i \in DOMAIN rows : rows[i].owner = owner

Called(u, route, from) ==
    [user |-> u, org |-> active[u], raw |-> IF active[u] = None THEN None ELSE roles[u, active[u]],
     route |-> route, from |-> from, stage |-> "called", tenant |-> 0, role |-> None,
     entitlement |-> None, wasOpen |-> FALSE, answer |-> None]

Personal(c) == c.org = None \/ c.route = "personal"
Asked(c) == Append(calls, c)
Becomes(i, c) == calls' = [calls EXCEPT ![i] = c]

\* The answer; of the rest only what the properties ask is remembered.
Answers(c, a) ==
    [c EXCEPT !.stage = "over", !.answer = a,
              !.org = None, !.raw = None, !.tenant = 0, !.role = None, !.entitlement = None]

\* The company of the session, or the workspace onboarding asked for.
Ensure(i) ==
    LET c == calls[i]
        owner == IF c.route = "personal" THEN c.user ELSE c.org
    IN  /\ c.stage = "called"
        /\ c.route = "personal" \/ c.org # None
        /\ tenants' = Ensured(owner)
        /\ Becomes(i, [c EXCEPT !.stage = "named", !.tenant = TenantOf(owner, tenants')])
        /\ UNCHANGED <<time, clerk, users, members, page, changes>>

NeverTaken(row) == FALSE
Taken(row) == \E x \in users : x.email = row.email /\ x.clerk # row.clerk

\* The user row, by Clerk id.  users.email is unique: an address another row
\* holds fails the request.
UpsertUser(i) ==
    LET c == calls[i]
        row == [clerk |-> c.user, email |-> Email[c.user]]
    IN  /\ \/ c.stage = "named"
           \/ c.stage = "called" /\ c.org = None /\ c.route # "personal"
        /\ IF Taken(row)
           THEN Becomes(i, Answers(c, "error")) /\ UNCHANGED users
           ELSE /\ users' = {x \in users : x.clerk # row.clerk} \cup {row}
                /\ Becomes(i, [c EXCEPT !.stage = IF c.tenant = 0 THEN "finding" ELSE "known"])
        /\ UNCHANGED <<time, clerk, tenants, members, page, changes>>

\* No organization active: the personal workspace, or onboarding first.
FindPersonal(i) ==
    LET c == calls[i] IN
    /\ c.stage = "finding"
    /\ IF \E t \in DOMAIN tenants : tenants[t].owner = c.user
       THEN Becomes(i, [c EXCEPT !.stage = "known", !.tenant = TenantOf(c.user, tenants)])
       ELSE Becomes(i, Answers(c, "onboarding"))
    /\ UNCHANGED <<time, clerk, db, page, changes>>

\* Membership and entitlement, in one transaction.
Enter(i) ==
    LET c == calls[i]
        role == IF Personal(c) THEN "OWNER" ELSE Role(c.raw)
        t == tenants[c.tenant]
    IN  /\ c.stage = "known"
        /\ members' = {m \in members : ~(m.tenant = c.tenant /\ m.clerk = c.user)}
                        \cup {[tenant |-> c.tenant, clerk |-> c.user, role |-> role]}
        /\ Becomes(i, IF c.route = "personal" THEN Answers(c, "ok")
                      ELSE [c EXCEPT !.stage = "entered", !.role = role, !.entitlement = t,
                                     !.wasOpen = Open(t, time)])
        /\ UNCHANGED <<time, clerk, users, tenants, page, changes>>

\* The role check and the trial gate, on what Enter read; then the handler.
Gate(i) ==
    LET c == calls[i] IN
    /\ c.stage = "entered"
    /\ Becomes(i, CASE ~RoleSatisfies(c.role, c.route) -> Answers(c, "forbidden")
                    [] Locked(c.entitlement, time) /\ c.route \notin AllowWhenLocked -> Answers(c, "locked")
                    [] OTHER -> Answers(c, "ok"))
    /\ UNCHANGED <<time, clerk, db, page, changes>>

\* A statement fails, or the caller never hears.
Fail(i) ==
    /\ calls[i].stage # "over"
    /\ Becomes(i, Answers(calls[i], "error"))
    /\ UNCHANGED <<time, clerk, db, page, changes>>

\* Any page of anybody: their own requests.
Call(u, route) ==
    /\ Len(calls) < MaxCalls
    /\ <<u, route>> \in Offered
    /\ calls' = Asked(Called(u, route, "shell"))
    /\ UNCHANGED <<time, clerk, db, page, changes>>

-----------------------------------------------------------------------------
(* Plans: a payment, its refund (Billing) and the owner's script.          *)

Tick == time < MaxTime /\ time' = time + 1 /\ UNCHANGED <<clerk, db, calls, page, changes>>

Replan(i, t) ==
    /\ changes < MaxPlanChanges /\ changes' = changes + 1
    /\ tenants' = [tenants EXCEPT ![i] = t]
    /\ UNCHANGED <<time, clerk, users, members, calls, page>>

Paid(i) == Replan(i, [tenants[i] EXCEPT !.plan = "pro", !.paidUntil = time + 1])
Refunded(i) ==
    tenants[i].paidUntil # None /\ Replan(i, [tenants[i] EXCEPT !.paidUntil = time])

\* set-plan.mjs: pro by hand touches only the plan, trial starts a new one.
SetPro(i) == Replan(i, [tenants[i] EXCEPT !.plan = "pro"])
SetTrial(i) == Replan(i, [tenants[i] EXCEPT !.plan = "trial", !.trialEnds = time + 1])

-----------------------------------------------------------------------------
(* Clerk.                                                                  *)

\* The organization the visitor's page asked for becomes the session's.
Activate ==
    /\ activating # None
    /\ active' = [active EXCEPT ![Visitor] =
                    IF roles[Visitor, activating] = None THEN @ ELSE activating]
    /\ activating' = None
    /\ UNCHANGED <<time, roles, seen, left, db, calls, page, changes>>

\* The page's hook catches up with the session.
ClientSees ==
    /\ seen # active[Visitor]
    /\ seen' = active[Visitor]
    /\ UNCHANGED <<time, roles, active, activating, left, db, calls, page, changes>>

\* Somebody leaves a company, or is removed from it.
Leave(u, o) ==
    /\ roles[u, o] # None /\ Cardinality(left) < MaxLeft
    /\ roles' = [roles EXCEPT ![<<u, o>>] = None]
    /\ active' = [active EXCEPT ![u] = IF @ = o THEN None ELSE @]
    /\ left' = left \cup {<<u, o>>}
    /\ UNCHANGED <<time, activating, seen, db, calls, page, changes>>

-----------------------------------------------------------------------------
(* The account choice: account-choice.tsx.                                 *)

OnWelcome(mode) == page.at = "welcome" /\ page.mode = mode

\* "Use a personal account".
StartPersonal ==
    /\ OnWelcome("choose") /\ ~page.busy /\ Len(calls) < MaxCalls
    /\ calls' = Asked(Called(Visitor, "personal", "choice"))
    /\ page' = [page EXCEPT !.busy = TRUE, !.awaits = Len(calls')]
    /\ UNCHANGED <<time, clerk, db, changes>>

\* The server renders /home with the session as it is now.
Navigates ==
    /\ Len(calls) < MaxCalls
    /\ calls' = Asked(Called(Visitor, "me", "home"))
    /\ page' = Home(Len(calls'))

PersonalAnswered ==
    /\ OnWelcome("choose") /\ page.awaits # 0
    /\ calls[page.awaits].stage = "over"
    /\ IF calls[page.awaits].answer = "ok" THEN Navigates
       ELSE /\ page' = [page EXCEPT !.busy = FALSE, !.awaits = 0]
            /\ UNCHANGED calls
    /\ UNCHANGED <<time, clerk, db, changes>>

\* "Open" beside a company the visitor belongs to.
OpenCompany(o) ==
    /\ OnWelcome("choose") /\ ~page.busy /\ activating = None
    /\ roles[Visitor, o] # None
    /\ activating' = o
    /\ page' = [page EXCEPT !.busy = TRUE, !.entering = TRUE]
    /\ UNCHANGED <<time, roles, active, seen, left, db, calls, changes>>

\* setActive is refused.
OpenFails ==
    /\ OnWelcome("choose") /\ page.busy /\ page.entering /\ activating # None
    /\ activating' = None
    /\ page' = [page EXCEPT !.busy = FALSE, !.entering = FALSE]
    /\ UNCHANGED <<time, roles, active, seen, left, db, calls, changes>>

SetUpCompany ==
    /\ OnWelcome("choose") /\ ~page.busy
    /\ page' = [page EXCEPT !.mode = "company", !.entering = TRUE]
    /\ UNCHANGED <<time, clerk, db, calls, changes>>

\* Clerk's form: the organization exists first and is made active afterwards.
CreateOrganization(o) ==
    /\ OnWelcome("company") /\ activating = None
    /\ \A u \in Users : Joined[u, o] = None /\ roles[u, o] = None /\ <<u, o>> \notin left
    /\ roles' = [roles EXCEPT ![<<Visitor, o>>] = "org:admin"]
    /\ activating' = o
    /\ UNCHANGED <<time, active, seen, left, db, calls, page, changes>>

Back ==
    /\ OnWelcome("company")
    /\ page' = [page EXCEPT !.mode = "choose", !.entering = FALSE]
    /\ UNCHANGED <<time, clerk, db, calls, changes>>

\* The effect: the claim has arrived.
EntersOnceCreated == page.entering /\ (seen # None \/ activating # None)
Enters == page.entering /\ seen # None

NavigateHome ==
    /\ page.at = "welcome" /\ Enters
    /\ Navigates
    /\ UNCHANGED <<time, clerk, db, changes>>

\* layout.tsx: a caller with no workspace is sent back to the choice.
HomeAnswered ==
    /\ page.at = "home" /\ page.awaits # 0
    /\ calls[page.awaits].stage = "over"
    /\ page' = IF calls[page.awaits].answer = "onboarding" THEN Welcome ELSE Home(0)
    /\ UNCHANGED <<time, clerk, db, calls, changes>>

\* "Set up your workspace" leads here again.
Revisit ==
    /\ page.at = "home" /\ page.awaits = 0
    /\ page' = Welcome
    /\ UNCHANGED <<time, clerk, db, calls, changes>>

-----------------------------------------------------------------------------

Choice ==
    \/ StartPersonal \/ PersonalAnswered \/ SetUpCompany \/ Back \/ OpenFails
    \/ NavigateHome \/ HomeAnswered \/ Revisit
    \/ \E o \in Orgs : OpenCompany(o) \/ CreateOrganization(o)

Request(i) == Ensure(i) \/ UpsertUser(i) \/ FindPersonal(i) \/ Enter(i) \/ Gate(i) \/ Fail(i)

Next ==
    \/ Tick \/ Choice \/ Activate \/ ClientSees
    \/ \E u \in Users, route \in Routes : Call(u, route)
    \/ \E u \in Users, o \in Orgs : Leave(u, o)
    \/ \E i \in DOMAIN calls : Request(i)
    \/ \E i \in DOMAIN tenants : Paid(i) \/ Refunded(i) \/ SetPro(i) \/ SetTrial(i)

Spec == Init /\ [][Next]_vars

-----------------------------------------------------------------------------
(* Properties.                                                             *)

TypeOK ==
    /\ active \in [Users -> Orgs \cup {None}] /\ seen \in Orgs \cup {None}
    /\ \A m \in members : m.tenant \in DOMAIN tenants /\ m.clerk \in Users /\ m.role \in Roles
    /\ \A x, y \in users : x.clerk = y.clerk \/ x.email = y.email => x = y
    /\ \A i \in DOMAIN calls : calls[i].tenant \in 0 .. Len(tenants)
    /\ page.awaits \in 0 .. Len(calls)

\* The page leaves for home only when home will open: whoever it takes there
\* is sent back to the choice only if the company let them go in between
\* (account-choice.tsx:27-39, layout.tsx:21-23).
HomeOpens ==
    \A i \in DOMAIN calls :
        calls[i].from = "home" /\ calls[i].answer = "onboarding" =>
            \E o \in Orgs : <<Visitor, o>> \in left

\* However many first requests race, fail and are repeated, an owner has one
\* workspace and signing in never moves the end of its trial
\* (migration 20260725065451:1-4, trial_gate:13-15).
WorkspacesKept ==
    [][/\ \A i \in DOMAIN tenants : tenants'[i].owner = tenants[i].owner
       /\ \A i, j \in DOMAIN tenants' : tenants'[i].owner = tenants'[j].owner => i = j
       /\ calls' # calls =>
            \A i \in DOMAIN tenants : tenants'[i] = tenants[i]]_vars

\* The product's own work is done only for a workspace that was open when the
\* request came in, however its plan changed meanwhile (policy.ts:272-299).
ServedWasOpen ==
    \A i \in DOMAIN calls :
        calls[i].answer = "ok" /\ calls[i].route \in {"send", "members"} => calls[i].wasOpen

\* tenant-sync.service.ts:9-10: the rows mirror Clerk's memberships.  Nothing
\* removes the row of somebody who left, and an older token may land last.
MirrorsClerk ==
    \A m \in members : \A o \in Orgs :
        (tenants[m.tenant].owner = o /\ \A i \in DOMAIN calls : calls[i].stage = "over")
            => roles[m.clerk, o] # None
=============================================================================
