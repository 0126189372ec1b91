---------------------------- MODULE TenancyProofs ----------------------------
(***************************************************************************)
(* Proofs about Tenancy for any number of users, organizations, requests   *)
(* and plan changes.  What the properties say of requests follows from a   *)
(* condition on each request alone (Sound), which keeps holding while      *)
(* tenants are added, time passes and people leave (SoundLater).           *)
(***************************************************************************)
EXTENDS Tenancy, TLAPS

Tenant == [owner : Users \cup Orgs, trialEnds : Int, plan : {"trial", "pro"}, paidUntil : Int \cup {None}]

Requests ==
    [user : Users, org : Orgs \cup {None}, raw : ClerkRoles \cup {None}, route : Routes,
     from : {"shell", "choice", "home"},
     stage : {"called", "named", "finding", "known", "entered", "over"},
     tenant : Nat, role : Roles \cup {None}, entitlement : Tenant \cup {None}, wasOpen : BOOLEAN,
     answer : {None, "ok", "error", "onboarding", "forbidden", "locked"}]

Pages == [at : {"welcome", "home"}, mode : {"choose", "company"}, busy : BOOLEAN,
          entering : BOOLEAN, awaits : Nat]

Typed ==
    /\ time \in Int
    /\ roles \in [Users \X Orgs -> ClerkRoles \cup {None}]
    /\ active \in [Users -> Orgs \cup {None}]
    /\ activating \in Orgs \cup {None} /\ seen \in Orgs \cup {None}
    /\ tenants \in Seq(Tenant)
    /\ calls \in Seq(Requests)
    /\ page \in Pages

\* u has a workspace among ts; the visitor has left a company.
Owns(u, ts) == \E t \in DOMAIN ts : ts[t].owner = u
Gone(pairs) == \E o \in Orgs : <<Visitor, o>> \in pairs

\* A request that got somewhere has what it needs from there on.
Sound(c, ts, now, pairs) ==
    /\ c.tenant \in 0 .. Len(ts)
    /\ c.answer = "ok" => c.stage = "over"
    /\ c.stage \in {"named", "known"} => c.tenant # 0
    /\ c.stage = "finding" => c.org = None
    /\ c.route = "personal" =>
        /\ c.stage \notin {"finding", "entered"}
        /\ c.stage \in {"named", "known"} \/ c.answer = "ok" => Owns(c.user, ts)
    /\ c.stage = "entered" =>
        /\ c.entitlement \in Tenant
        /\ Open(c.entitlement, now) => c.wasOpen
    /\ c.answer = "ok" /\ c.route \in {"send", "members"} => c.wasOpen
    /\ c.from = "home" =>
        /\ c.user = Visitor
        /\ c.answer = "onboarding" => Gone(pairs)
        /\ c.stage # "over" /\ c.org = None => Owns(Visitor, ts) \/ Gone(pairs)

OneWorkspaceEach == \A i, j \in DOMAIN tenants : tenants[i].owner = tenants[j].owner => i = j

RequestsSound == \A i \in DOMAIN calls : Sound(calls[i], tenants, time, left)

RowsSound ==
    /\ \A m \in members : m.tenant \in DOMAIN tenants /\ m.clerk \in Users /\ m.role \in Roles
    /\ \A x, y \in users : x.clerk = y.clerk \/ x.email = y.email => x = y

\* What the page has seen was true once, and the answer it waits for is its own.
PageSound ==
    /\ seen # None => active[Visitor] # None \/ Gone(left)
    /\ page.awaits \in 0 .. Len(calls)
    /\ page.at = "welcome" /\ page.awaits # 0 =>
        calls[page.awaits].route = "personal" /\ calls[page.awaits].user = Visitor

IInv == Typed /\ OneWorkspaceEach /\ RequestsSound /\ RowsSound /\ PageSound

\* Workspaces stay, under their owners; time passes; who left has left.
Later(ts, now, pairs, ts2, now2, pairs2) ==
    /\ DOMAIN ts \subseteq DOMAIN ts2
    /\ \A t \in DOMAIN ts : ts2[t].owner = ts[t].owner
    /\ now2 >= now
    /\ pairs \subseteq pairs2

-------------------------------------------------------------------------------
\* An entitlement open later was open before.
LEMMA OpenEarlier ==
    ASSUME NEW t \in Tenant, NEW now \in Int, NEW now2 \in Int, now2 >= now, Open(t, now2)
    PROVE  Open(t, now)
BY DEF Open, Tenant

\* What holds of a request goes on holding while it rests.
LEMMA SoundLater ==
    ASSUME NEW c \in Requests, NEW ts \in Seq(Tenant), NEW ts2 \in Seq(Tenant),
           NEW now \in Int, NEW now2 \in Int, NEW pairs, NEW pairs2,
           Sound(c, ts, now, pairs), Later(ts, now, pairs, ts2, now2, pairs2)
    PROVE  Sound(c, ts2, now2, pairs2)
<1>1. Len(ts) <= Len(ts2)
  <2>1. DOMAIN ts = 1 .. Len(ts) /\ DOMAIN ts2 = 1 .. Len(ts2) /\ Len(ts) \in Nat /\ Len(ts2) \in Nat
    OBVIOUS
  <2>2. CASE Len(ts) = 0
    BY <2>1, <2>2
  <2>3. CASE Len(ts) > 0
    BY <2>1, <2>3 DEF Later
  <2>4. QED BY <2>1, <2>2, <2>3
<1>2. c.tenant \in 0 .. Len(ts2)
    BY <1>1 DEF Sound, Requests
<1>3. \A u : Owns(u, ts) => Owns(u, ts2)
    BY DEF Owns, Later
<1>4. Gone(pairs) => Gone(pairs2)
    BY DEF Gone, Later
<1>5. c.entitlement \in Tenant /\ Open(c.entitlement, now2) => Open(c.entitlement, now)
    BY OpenEarlier DEF Later
<1>6. QED BY <1>2, <1>3, <1>4, <1>5 DEF Sound

\* Requests at rest stay sound.
LEMMA RestSound ==
    ASSUME IInv, Typed', UNCHANGED calls, Later(tenants, time, left, tenants', time', left')
    PROVE  RequestsSound'
<1>1. ASSUME NEW i \in DOMAIN calls PROVE Sound(calls[i], tenants', time', left')
  <2>1. calls[i] \in Requests /\ tenants \in Seq(Tenant) /\ tenants' \in Seq(Tenant)
        /\ time \in Int /\ time' \in Int
    BY DEF IInv, Typed
  <2>2. Sound(calls[i], tenants, time, left)
    BY DEF IInv, RequestsSound
  <2>3. QED BY <2>1, <2>2, SoundLater
<1>2. QED BY <1>1 DEF RequestsSound

\* A request that comes in is the last one, and the others stay sound.
LEMMA AskedSound ==
    ASSUME IInv, NEW c \in Requests, calls' = Append(calls, c), UNCHANGED <<tenants, time, left>>,
           Sound(c, tenants, time, left)
    PROVE  /\ calls' \in Seq(Requests) /\ Len(calls') = Len(calls) + 1
           /\ \A i \in DOMAIN calls : calls'[i] = calls[i]
           /\ calls'[Len(calls')] = c
           /\ RequestsSound'
<1>1. calls \in Seq(Requests)
    BY DEF IInv, Typed
<1>2. /\ calls' \in Seq(Requests) /\ Len(calls') = Len(calls) + 1
      /\ \A i \in DOMAIN calls : calls'[i] = calls[i]
      /\ calls'[Len(calls')] = c
    BY <1>1
<1>3. DOMAIN calls = 1 .. Len(calls) /\ DOMAIN calls' = 1 .. Len(calls') /\ Len(calls) \in Nat
    BY <1>1, <1>2
<1>4. ASSUME NEW i \in DOMAIN calls' PROVE Sound(calls'[i], tenants, time, left)
  <2>1. CASE i \in DOMAIN calls
    BY <2>1, <1>2 DEF IInv, RequestsSound
  <2>2. CASE i = Len(calls')
    BY <2>2, <1>2
  <2>3. QED BY <2>1, <2>2, <1>2, <1>3
<1>5. QED BY <1>2, <1>4 DEF RequestsSound

\* A request that goes on leaves the others sound.
LEMMA BecomesSound ==
    ASSUME IInv, NEW i \in DOMAIN calls, NEW c \in Requests, Becomes(i, c),
           tenants' \in Seq(Tenant), time' \in Int,
           Later(tenants, time, left, tenants', time', left'),
           Sound(c, tenants', time', left')
    PROVE  /\ calls' \in Seq(Requests) /\ Len(calls') = Len(calls)
           /\ RequestsSound'
<1>1. calls \in Seq(Requests) /\ tenants \in Seq(Tenant) /\ time \in Int
    BY DEF IInv, Typed
<1>2. calls' \in Seq(Requests) /\ Len(calls') = Len(calls) /\ DOMAIN calls' = DOMAIN calls
    BY <1>1 DEF Becomes
<1>3. ASSUME NEW k \in DOMAIN calls PROVE Sound(calls'[k], tenants', time', left')
  <2>1. CASE k = i
    BY <2>1, <1>1 DEF Becomes
  <2>2. CASE k # i
    <3>1. calls'[k] = calls[k] /\ calls[k] \in Requests
        BY <2>2, <1>1 DEF Becomes
    <3>2. Sound(calls[k], tenants, time, left)
        BY DEF IInv, RequestsSound
    <3>3. QED BY <3>1, <3>2, <1>1, SoundLater
  <2>3. QED BY <2>1, <2>2
<1>4. QED BY <1>2, <1>3 DEF RequestsSound

\* The step of a request that goes on as itself.
LEMMA GoesOn ==
    ASSUME IInv, NEW i \in DOMAIN calls, NEW c \in Requests, Becomes(i, c),
           c.route = calls[i].route, c.user = calls[i].user,
           UNCHANGED <<time, clerk, page>>,
           tenants' \in Seq(Tenant), Later(tenants, time, left, tenants', time, left),
           Sound(c, tenants', time, left)
    PROVE  Typed' /\ RequestsSound' /\ PageSound'
<1>1. UNCHANGED <<time, roles, active, activating, seen, left, page>>
    BY DEF clerk
<1>2. time' \in Int /\ Later(tenants, time, left, tenants', time', left') /\ Sound(c, tenants', time', left')
    BY <1>1 DEF IInv, Typed
<1>3. calls' \in Seq(Requests) /\ Len(calls') = Len(calls) /\ RequestsSound'
    BY <1>2, BecomesSound
<1>4. Typed'
    BY <1>1, <1>3 DEF IInv, Typed
<1>5. PageSound'
  <2>1. calls \in Seq(Requests)
    BY DEF IInv, Typed
  <2>2. \A k \in DOMAIN calls : calls'[k].route = calls[k].route /\ calls'[k].user = calls[k].user
    BY <2>1 DEF Becomes
  <2>3. page.awaits # 0 => page.awaits \in DOMAIN calls
    BY <2>1 DEF IInv, PageSound
  <2>4. QED BY <1>1, <1>3, <2>2, <2>3 DEF IInv, PageSound
<1>6. QED BY <1>3, <1>4, <1>5

\* Later than itself.
LEMMA LaterSame ==
    ASSUME NEW ts, NEW now \in Int, NEW pairs
    PROVE  Later(ts, now, pairs, ts, now, pairs)
BY DEF Later

\* A request that ends with anything but a success is sound.
LEMMA AnswersSound ==
    ASSUME NEW c \in Requests, NEW ts \in Seq(Tenant), NEW now \in Int, NEW pairs,
           NEW a \in {"ok", "error", "onboarding", "forbidden", "locked"},
           Sound(c, ts, now, pairs),
           a = "onboarding" /\ c.from = "home" => Gone(pairs),
           a = "ok" /\ c.route \in {"send", "members"} => c.wasOpen,
           a = "ok" /\ c.route = "personal" => Owns(c.user, ts)
    PROVE  /\ Answers(c, a) \in Requests
           /\ Answers(c, a).route = c.route /\ Answers(c, a).user = c.user
           /\ Sound(Answers(c, a), ts, now, pairs)
<1>1. /\ Answers(c, a) \in Requests
      /\ Answers(c, a).route = c.route /\ Answers(c, a).user = c.user
      /\ Answers(c, a).from = c.from /\ Answers(c, a).wasOpen = c.wasOpen
      /\ Answers(c, a).stage = "over" /\ Answers(c, a).answer = a /\ Answers(c, a).tenant = 0
    BY DEF Answers, Requests
<1>2. 0 \in 0 .. Len(ts)
    OBVIOUS
<1>3. QED BY <1>1, <1>2 DEF Sound

\* The row of an owner is found, or added on a trial.
LEMMA EnsuredKeeps ==
    ASSUME IInv, NEW owner \in Users \cup Orgs
    PROVE  /\ Ensured(owner) \in Seq(Tenant)
           /\ DOMAIN tenants \subseteq DOMAIN Ensured(owner)
           /\ \A t \in DOMAIN tenants : Ensured(owner)[t] = tenants[t]
           /\ \A i, j \in DOMAIN Ensured(owner) :
                  Ensured(owner)[i].owner = Ensured(owner)[j].owner => i = j
           /\ TenantOf(owner, Ensured(owner)) \in DOMAIN Ensured(owner)
           /\ Ensured(owner)[TenantOf(owner, Ensured(owner))].owner = owner
<1> DEFINE row == [owner |-> owner, trialEnds |-> time + TrialDays, plan |-> "trial", paidUntil |-> None]
<1>1. tenants \in Seq(Tenant) /\ time \in Int
    BY DEF IInv, Typed
<1>2. row \in Tenant /\ row.owner = owner
    BY <1>1, TenancyAssumption DEF Tenant
<1> HIDE DEF row
<1>3. ASSUME NEW ts, \E t \in DOMAIN ts : ts[t].owner = owner
      PROVE  TenantOf(owner, ts) \in DOMAIN ts /\ ts[TenantOf(owner, ts)].owner = owner
    BY <1>3 DEF TenantOf
<1>4. CASE \E t \in DOMAIN tenants : tenants[t].owner = owner
  <2>1. Ensured(owner) = tenants
    BY <1>4 DEF Ensured
  <2>2. QED BY <1>1, <1>3, <1>4, <2>1 DEF IInv, OneWorkspaceEach
<1>5. CASE ~ \E t \in DOMAIN tenants : tenants[t].owner = owner
  <2>1. Ensured(owner) = Append(tenants, row)
    BY <1>5 DEF Ensured, InsertsAlways, row
  <2>2. /\ Append(tenants, row) \in Seq(Tenant)
        /\ Len(Append(tenants, row)) = Len(tenants) + 1
        /\ \A t \in DOMAIN tenants : Append(tenants, row)[t] = tenants[t]
        /\ Append(tenants, row)[Len(tenants) + 1] = row
        /\ DOMAIN tenants = 1 .. Len(tenants) /\ Len(tenants) \in Nat
        /\ DOMAIN Append(tenants, row) = 1 .. Len(tenants) + 1
    <3>1. /\ Append(tenants, row) \in Seq(Tenant)
          /\ Len(Append(tenants, row)) = Len(tenants) + 1
        BY <1>1, <1>2
    <3>2. \A t \in DOMAIN tenants : Append(tenants, row)[t] = tenants[t]
        BY <1>1, <1>2
    <3>3. Append(tenants, row)[Len(tenants) + 1] = row
        BY <1>1, <1>2
    <3>4. DOMAIN tenants = 1 .. Len(tenants) /\ Len(tenants) \in Nat
        BY <1>1
    <3>5. DOMAIN Append(tenants, row) = 1 .. Len(tenants) + 1
        BY <3>1
    <3>6. QED BY <3>1, <3>2, <3>3, <3>4, <3>5
  <2>3. \A k \in DOMAIN Ensured(owner) : k \in DOMAIN tenants \/ k = Len(tenants) + 1
    BY <2>1, <2>2
  <2>4. \A i, j \in DOMAIN Ensured(owner) :
            Ensured(owner)[i].owner = Ensured(owner)[j].owner => i = j
    BY <1>2, <1>5, <2>1, <2>2, <2>3 DEF IInv, OneWorkspaceEach
  <2>5. \E t \in DOMAIN Ensured(owner) : Ensured(owner)[t].owner = owner
    BY <1>2, <2>1, <2>2
  <2>6. /\ TenantOf(owner, Ensured(owner)) \in DOMAIN Ensured(owner)
        /\ Ensured(owner)[TenantOf(owner, Ensured(owner))].owner = owner
    BY <1>3, <2>5
  <2>7. DOMAIN tenants \subseteq DOMAIN Ensured(owner)
    BY <2>1, <2>2
  <2>8. QED BY <2>1, <2>2, <2>4, <2>6, <2>7
<1>6. QED BY <1>4, <1>5

-------------------------------------------------------------------------------
\* A request with another stage and tenant is otherwise the same.
MovedTo(c, s, n) == [c EXCEPT !.stage = s, !.tenant = n]
Like(d, c, s, n) ==
    /\ d \in Requests
    /\ d.stage = s /\ d.tenant = n /\ d.org = c.org /\ d.route = c.route /\ d.user = c.user
    /\ d.from = c.from /\ d.answer = c.answer /\ d.wasOpen = c.wasOpen

LEMMA Moved ==
    ASSUME NEW c \in Requests, NEW n \in Nat, NEW s \in {"named", "finding", "known"}
    PROVE  Like(MovedTo(c, s, n), c, s, n)
BY DEF Requests, MovedTo, Like

\* What is known of a request under way.
LEMMA UnderWay ==
    ASSUME IInv, NEW i \in DOMAIN calls
    PROVE  /\ calls[i] \in Requests /\ Sound(calls[i], tenants, time, left)
           /\ tenants \in Seq(Tenant) /\ time \in Int
           /\ Later(tenants, time, left, tenants, time, left)
BY LaterSame DEF IInv, Typed, RequestsSound

\* A step that answers, and writes no row.
LEMMA EndsWell ==
    ASSUME IInv, NEW i \in DOMAIN calls,
           NEW a \in {"ok", "error", "onboarding", "forbidden", "locked"},
           Becomes(i, Answers(calls[i], a)),
           UNCHANGED <<time, clerk, tenants, page>>, RowsSound',
           a = "onboarding" /\ calls[i].from = "home" => Gone(left),
           a = "ok" /\ calls[i].route \in {"send", "members"} => calls[i].wasOpen,
           a = "ok" /\ calls[i].route = "personal" => Owns(calls[i].user, tenants)
    PROVE  IInv'
<1> DEFINE c == Answers(calls[i], a)
<1>1. /\ calls[i] \in Requests /\ Sound(calls[i], tenants, time, left)
      /\ tenants \in Seq(Tenant) /\ time \in Int
      /\ Later(tenants, time, left, tenants, time, left)
    BY UnderWay
<1>2. /\ c \in Requests /\ c.route = calls[i].route /\ c.user = calls[i].user
      /\ Sound(c, tenants, time, left)
    BY <1>1, AnswersSound
<1>3. Typed' /\ RequestsSound' /\ PageSound'
  <2>1. Becomes(i, c) /\ tenants' \in Seq(Tenant)
        /\ Later(tenants, time, left, tenants', time, left) /\ Sound(c, tenants', time, left)
    BY <1>1, <1>2
  <2>2. UNCHANGED <<time, clerk, page>>
    OBVIOUS
  <2>3. QED BY <1>2, <2>1, <2>2, GoesOn
<1>4. OneWorkspaceEach'
    BY DEF IInv, OneWorkspaceEach
<1>5. QED BY <1>3, <1>4 DEF IInv

LEMMA FailKeeps ==
    ASSUME IInv, NEW i \in DOMAIN calls, Fail(i)
    PROVE  IInv'
<1>1. RowsSound'
    BY DEF IInv, RowsSound, Fail, db
<1>2. Becomes(i, Answers(calls[i], "error")) /\ UNCHANGED <<time, clerk, tenants, page>>
    BY DEF Fail, db
<1>3. QED BY <1>1, <1>2, EndsWell

\* Enter saw the workspace open if the gate finds it open.
LEMMA GateKeeps ==
    ASSUME IInv, NEW i \in DOMAIN calls, Gate(i)
    PROVE  IInv'
<1> DEFINE c == calls[i]
<1>1. RowsSound' /\ UNCHANGED <<time, clerk, tenants, page>>
    BY DEF IInv, RowsSound, Gate, db
<1>2. c \in Requests /\ Sound(c, tenants, time, left) /\ time \in Int
    BY UnderWay
<1>3. c.stage = "entered"
    BY DEF Gate
<1>4. c.entitlement \in Tenant /\ c.route # "personal" /\ (Open(c.entitlement, time) => c.wasOpen)
    BY <1>2, <1>3 DEF Sound
<1>5. \/ Becomes(i, Answers(c, "forbidden"))
      \/ Becomes(i, Answers(c, "locked"))
      \/ /\ Becomes(i, Answers(c, "ok"))
         /\ ~ (Locked(c.entitlement, time) /\ c.route \notin AllowWhenLocked)
  <2>1. CASE ~RoleSatisfies(c.role, c.route)
    BY <2>1 DEF Gate
  <2>2. CASE RoleSatisfies(c.role, c.route) /\ Locked(c.entitlement, time) /\ c.route \notin AllowWhenLocked
    BY <2>2 DEF Gate
  <2>3. CASE RoleSatisfies(c.role, c.route) /\ ~ (Locked(c.entitlement, time) /\ c.route \notin AllowWhenLocked)
    BY <2>3 DEF Gate
  <2>4. QED BY <2>1, <2>2, <2>3
<1>6. ~Locked(c.entitlement, time) => Open(c.entitlement, time)
    BY <1>2, <1>4 DEF Locked, Open, Tenant
<1>7. CASE Becomes(i, Answers(c, "forbidden"))
    BY <1>1, <1>7, EndsWell
<1>8. CASE Becomes(i, Answers(c, "locked"))
    BY <1>1, <1>8, EndsWell
<1>9. CASE Becomes(i, Answers(c, "ok")) /\ ~ (Locked(c.entitlement, time) /\ c.route \notin AllowWhenLocked)
  <2>1. c.route \in {"send", "members"} => c.wasOpen
    BY <1>4, <1>6, <1>9 DEF AllowWhenLocked
  <2>2. QED BY <1>1, <1>4, <1>9, <2>1, EndsWell
<1>10. QED BY <1>5, <1>7, <1>8, <1>9

\* Whoever came from the choice with nothing active has a workspace, or was
\* let go of.
LEMMA FindPersonalKeeps ==
    ASSUME IInv, NEW i \in DOMAIN calls, FindPersonal(i)
    PROVE  IInv'
<1> DEFINE c == calls[i]
           found == MovedTo(c, "known", TenantOf(c.user, tenants))
<1>1. RowsSound' /\ OneWorkspaceEach' /\ UNCHANGED <<time, clerk, tenants, page>>
    BY DEF IInv, RowsSound, OneWorkspaceEach, FindPersonal, db
<1>2. /\ c \in Requests /\ Sound(c, tenants, time, left) /\ time \in Int /\ tenants \in Seq(Tenant)
      /\ Later(tenants, time, left, tenants, time, left)
    BY UnderWay
<1>3. c.stage = "finding"
    BY DEF FindPersonal
<1>4. CASE \E t \in DOMAIN tenants : tenants[t].owner = c.user
  <2>1. TenantOf(c.user, tenants) \in DOMAIN tenants
    BY <1>4 DEF TenantOf
  <2>2. TenantOf(c.user, tenants) \in 1 .. Len(tenants)
    BY <1>2, <2>1
  <2>3. Like(found, c, "known", TenantOf(c.user, tenants))
    <3>1. TenantOf(c.user, tenants) \in Nat
        BY <1>2, <2>2
    <3>2. QED BY <1>2, <3>1, Moved
  <2> HIDE DEF found
  <2>4. Sound(found, tenants, time, left)
    BY <1>2, <1>3, <2>2, <2>3 DEF Sound, Like
  <2>5. Becomes(i, found)
    BY <1>4 DEF FindPersonal, MovedTo, found
  <2>6. Typed' /\ RequestsSound' /\ PageSound'
    <3>1. /\ tenants' \in Seq(Tenant) /\ Later(tenants, time, left, tenants', time, left)
          /\ Sound(found, tenants', time, left)
        BY <1>1, <1>2, <2>4
    <3>2. QED BY <1>1, <2>3, <2>5, <3>1, GoesOn DEF Like
  <2>7. QED BY <1>1, <2>6 DEF IInv
<1>5. CASE ~ \E t \in DOMAIN tenants : tenants[t].owner = c.user
  <2>1. Becomes(i, Answers(c, "onboarding"))
    BY <1>5 DEF FindPersonal
  <2>2. c.from = "home" => Gone(left)
    BY <1>2, <1>3, <1>5 DEF Sound, Owns
  <2>3. QED BY <1>1, <2>1, <2>2, EndsWell
<1>6. QED BY <1>4, <1>5

LEMMA EnsureKeeps ==
    ASSUME IInv, NEW i \in DOMAIN calls, Ensure(i)
    PROVE  IInv'
<1> DEFINE c == calls[i]
           owner == IF c.route = "personal" THEN c.user ELSE c.org
           named == MovedTo(c, "named", TenantOf(owner, tenants'))
<1>1. /\ c.stage = "called" /\ (c.route = "personal" \/ c.org # None)
      /\ tenants' = Ensured(owner) /\ Becomes(i, named)
      /\ UNCHANGED <<time, clerk, users, members, page>>
    BY DEF Ensure, MovedTo
<1>2. /\ c \in Requests /\ Sound(c, tenants, time, left)
      /\ tenants \in Seq(Tenant) /\ time \in Int
    BY UnderWay
<1>3. owner \in Users \cup Orgs
    BY <1>1, <1>2 DEF Requests
<1> HIDE DEF owner
<1>4. /\ tenants' \in Seq(Tenant)
      /\ DOMAIN tenants \subseteq DOMAIN tenants'
      /\ \A t \in DOMAIN tenants : tenants'[t] = tenants[t]
      /\ \A j, k \in DOMAIN tenants' : tenants'[j].owner = tenants'[k].owner => j = k
      /\ TenantOf(owner, tenants') \in DOMAIN tenants'
      /\ tenants'[TenantOf(owner, tenants')].owner = owner
    BY <1>1, <1>3, EnsuredKeeps
<1>5. TenantOf(owner, tenants') \in 1 .. Len(tenants') /\ TenantOf(owner, tenants') \in Nat
    BY <1>4
<1>6. Like(named, c, "named", TenantOf(owner, tenants'))
    BY <1>2, <1>5, Moved
<1> HIDE DEF named
<1>7. Later(tenants, time, left, tenants', time, left)
    BY <1>2, <1>4 DEF Later
<1>8. Sound(c, tenants', time, left)
    BY <1>2, <1>4, <1>7, SoundLater
<1>9. c.route = "personal" => Owns(c.user, tenants')
    BY <1>4 DEF Owns, owner
<1>10. Sound(named, tenants', time, left)
    BY <1>1, <1>5, <1>6, <1>8, <1>9 DEF Sound, Like
<1>11. Typed' /\ RequestsSound' /\ PageSound'
    BY <1>1, <1>4, <1>6, <1>7, <1>10, GoesOn DEF Like
<1>12. OneWorkspaceEach'
    BY <1>4 DEF OneWorkspaceEach
<1>13. RowsSound'
    BY <1>1, <1>4 DEF IInv, RowsSound
<1>14. QED BY <1>11, <1>12, <1>13 DEF IInv

LEMMA UpsertUserKeeps ==
    ASSUME IInv, NEW i \in DOMAIN calls, UpsertUser(i)
    PROVE  IInv'
<1> DEFINE c == calls[i]
           row == [clerk |-> c.user, email |-> Email[c.user]]
           s == IF c.tenant = 0 THEN "finding" ELSE "known"
           on == MovedTo(c, s, c.tenant)
<1>1. /\ \/ c.stage = "named"
         \/ c.stage = "called" /\ c.org = None /\ c.route # "personal"
      /\ UNCHANGED <<time, clerk, tenants, members, page>>
    BY DEF UpsertUser
<1>2. /\ c \in Requests /\ Sound(c, tenants, time, left)
      /\ tenants \in Seq(Tenant) /\ time \in Int
      /\ Later(tenants, time, left, tenants, time, left)
    BY UnderWay
<1>3. CASE Taken(row)
  <2>1. Becomes(i, Answers(c, "error")) /\ UNCHANGED users
    BY <1>3 DEF UpsertUser
  <2>2. RowsSound'
    BY <1>1, <2>1 DEF IInv, RowsSound
  <2>3. QED BY <1>1, <2>1, <2>2, EndsWell
<1>4. CASE ~Taken(row)
  <2>1. users' = {x \in users : x.clerk # row.clerk} \cup {row}
        /\ Becomes(i, [c EXCEPT !.stage = s])
    BY <1>4 DEF UpsertUser
  <2>2. [c EXCEPT !.stage = s] = on /\ s \in {"named", "finding", "known"} /\ c.tenant \in Nat
    BY <1>2 DEF Requests, MovedTo
  <2>3. Like(on, c, s, c.tenant)
    BY <1>2, <2>2, Moved
  <2> HIDE DEF on
  <2>4. Sound(on, tenants, time, left)
    BY <1>1, <1>2, <2>3 DEF Sound, Like
  <2>5. Typed' /\ RequestsSound' /\ PageSound'
    <3>1. tenants' \in Seq(Tenant) /\ Later(tenants, time, left, tenants', time, left)
          /\ Sound(on, tenants', time, left) /\ Becomes(i, on)
        BY <1>1, <1>2, <2>1, <2>2, <2>4
    <3>2. QED BY <1>1, <2>3, <3>1, GoesOn DEF Like
  <2>6. \A x, y \in users' : x.clerk = y.clerk \/ x.email = y.email => x = y
    <3> HIDE DEF row
    <3>1. \A x \in users : x.clerk # row.clerk => x.email # row.email
        BY <1>4 DEF Taken
    <3>2. QED BY <2>1, <3>1 DEF IInv, RowsSound
  <2>7. RowsSound'
    BY <1>1, <2>6 DEF IInv, RowsSound
  <2>8. OneWorkspaceEach'
    BY <1>1 DEF IInv, OneWorkspaceEach
  <2>9. QED BY <2>5, <2>7, <2>8 DEF IInv
<1>5. QED BY <1>3, <1>4

LEMMA EnterKeeps ==
    ASSUME IInv, NEW i \in DOMAIN calls, Enter(i)
    PROVE  IInv'
<1> DEFINE c == calls[i]
           role == IF Personal(c) THEN "OWNER" ELSE Role(c.raw)
           t == tenants[c.tenant]
           entered == [c EXCEPT !.stage = "entered", !.role = role, !.entitlement = t, !.wasOpen = Open(t, time)]
<1>1. /\ c.stage = "known"
      /\ members' = {m \in members : ~(m.tenant = c.tenant /\ m.clerk = c.user)}
                      \cup {[tenant |-> c.tenant, clerk |-> c.user, role |-> role]}
      /\ Becomes(i, IF c.route = "personal" THEN Answers(c, "ok") ELSE entered)
      /\ UNCHANGED <<time, clerk, users, tenants, page>>
    BY DEF Enter
<1>2. /\ c \in Requests /\ Sound(c, tenants, time, left)
      /\ tenants \in Seq(Tenant) /\ time \in Int
      /\ Later(tenants, time, left, tenants, time, left)
    BY UnderWay
<1>3. c.tenant \in 1 .. Len(tenants)
    BY <1>1, <1>2 DEF Sound
<1>4. c.tenant \in DOMAIN tenants /\ t \in Tenant
    BY <1>2, <1>3
<1>5. role \in Roles
    BY DEF Role, Roles
<1>6. Open(t, time) \in BOOLEAN
    BY DEF Open
<1> HIDE DEF role, t
<1>7. RowsSound'
  <2>1. c.user \in Users
    BY <1>2 DEF Requests
  <2>2. \A m \in members' : m.tenant \in DOMAIN tenants /\ m.clerk \in Users /\ m.role \in Roles
    BY <1>1, <1>4, <1>5, <2>1 DEF IInv, RowsSound
  <2>3. QED BY <1>1, <2>2 DEF IInv, RowsSound
<1>8. CASE c.route = "personal"
  <2>1. Becomes(i, Answers(c, "ok"))
    BY <1>1, <1>8
  <2>2. Owns(c.user, tenants)
    BY <1>1, <1>2, <1>8 DEF Sound
  <2>3. QED BY <1>1, <1>7, <1>8, <2>1, <2>2, EndsWell
<1>9. CASE c.route # "personal"
  <2>1. /\ entered \in Requests
        /\ entered.stage = "entered" /\ entered.entitlement = t /\ entered.wasOpen = Open(t, time)
        /\ entered.tenant = c.tenant /\ entered.org = c.org /\ entered.route = c.route /\ entered.user = c.user
        /\ entered.from = c.from /\ entered.answer = c.answer
    BY <1>2, <1>4, <1>5, <1>6 DEF Requests
  <2>2. Becomes(i, entered)
    BY <1>1, <1>9
  <2> HIDE DEF entered
  <2>3. Sound(entered, tenants, time, left)
    BY <1>1, <1>2, <1>4, <1>9, <2>1 DEF Sound
  <2>4. Typed' /\ RequestsSound' /\ PageSound'
    <3>1. tenants' \in Seq(Tenant) /\ Later(tenants, time, left, tenants', time, left)
          /\ Sound(entered, tenants', time, left)
        BY <1>1, <1>2, <2>3
    <3>2. QED BY <1>1, <2>1, <2>2, <3>1, GoesOn
  <2>5. OneWorkspaceEach'
    BY <1>1 DEF IInv, OneWorkspaceEach
  <2>6. QED BY <1>7, <2>4, <2>5 DEF IInv
<1>10. QED BY <1>8, <1>9

-------------------------------------------------------------------------------
\* A request carries what Clerk says, and begins sound.
LEMMA CalledSound ==
    ASSUME IInv, NEW u \in Users, NEW route \in Routes, NEW from \in {"shell", "choice", "home"},
           from = "home" =>
               /\ u = Visitor
               /\ active[Visitor] = None => Owns(Visitor, tenants) \/ Gone(left)
    PROVE  /\ Called(u, route, from) \in Requests
           /\ Called(u, route, from).route = route /\ Called(u, route, from).user = u
           /\ Sound(Called(u, route, from), tenants, time, left)
<1> DEFINE c == Called(u, route, from)
<1>1. /\ active[u] \in Orgs \cup {None}
      /\ active[u] # None => roles[u, active[u]] \in ClerkRoles \cup {None}
    BY DEF IInv, Typed
<1>2. c \in Requests
    BY <1>1 DEF Called, Requests
<1>3. /\ c.user = u /\ c.org = active[u] /\ c.route = route /\ c.from = from
      /\ c.stage = "called" /\ c.tenant = 0 /\ c.answer = None
    BY DEF Called
<1>4. 0 \in 0 .. Len(tenants)
    BY DEF IInv, Typed
<1>5. None \notin {"ok", "onboarding"}
    BY TenancyAssumption
<1> HIDE DEF c
<1>6. Sound(c, tenants, time, left)
  <2>1. c.answer # "ok" /\ c.answer # "onboarding"
    BY <1>3, <1>5
  <2>2. QED BY <1>3, <1>4, <2>1 DEF Sound
<1>7. QED BY <1>2, <1>3, <1>6 DEF c

\* A request is sent; the page awaits it, or what it awaited before.
LEMMA AskKeeps ==
    ASSUME IInv, NEW u \in Users, NEW route \in Routes, NEW from \in {"shell", "choice", "home"},
           calls' = Asked(Called(u, route, from)), UNCHANGED <<time, clerk, db>>,
           from = "home" =>
               /\ u = Visitor
               /\ active[Visitor] = None => Owns(Visitor, tenants) \/ Gone(left),
           page' \in Pages,
           \/ page' = page
           \/ /\ page'.awaits = Len(calls')
              /\ page'.at = "welcome" => route = "personal" /\ u = Visitor
    PROVE  IInv'
<1> DEFINE c == Called(u, route, from)
<1>1. c \in Requests /\ c.route = route /\ c.user = u /\ Sound(c, tenants, time, left)
    BY CalledSound
<1> HIDE DEF c
<1>2. /\ calls' = Append(calls, c)
      /\ UNCHANGED <<time, roles, active, activating, seen, left, users, tenants, members>>
    BY DEF Asked, c, clerk, db
<1>3. /\ calls' \in Seq(Requests) /\ Len(calls') = Len(calls) + 1
      /\ \A i \in DOMAIN calls : calls'[i] = calls[i]
      /\ calls'[Len(calls')] = c
      /\ RequestsSound'
    BY <1>1, <1>2, AskedSound
<1>4. Typed'
    BY <1>2, <1>3 DEF IInv, Typed
<1>5. Len(calls) \in Nat /\ DOMAIN calls = 1 .. Len(calls)
    BY DEF IInv, Typed
<1>6. PageSound'
  <2>1. CASE page' = page
    <3>1. page.awaits # 0 => page.awaits \in DOMAIN calls
        BY <1>5 DEF IInv, PageSound
    <3>2. QED BY <1>2, <1>3, <1>5, <2>1, <3>1 DEF IInv, PageSound
  <2>2. CASE /\ page'.awaits = Len(calls')
             /\ page'.at = "welcome" => route = "personal" /\ u = Visitor
    BY <1>1, <1>2, <1>3, <1>5, <2>2 DEF IInv, PageSound
  <2>3. QED BY <2>1, <2>2
<1>7. RowsSound' /\ OneWorkspaceEach'
    BY <1>2 DEF IInv, RowsSound, OneWorkspaceEach
<1>8. QED BY <1>3, <1>4, <1>6, <1>7 DEF IInv

\* A step of Clerk, of the clock or of the page that sends nothing.
LEMMA QuietKeeps ==
    ASSUME IInv, Typed', UNCHANGED <<calls, db>>, time' >= time, left \subseteq left',
           seen' # None => active'[Visitor] # None \/ Gone(left'),
           page'.awaits \in {0, page.awaits},
           page'.at = "welcome" /\ page'.awaits # 0 => page.at = "welcome"
    PROVE  IInv'
<1>1. UNCHANGED <<users, tenants, members>>
    BY DEF db
<1>2. Later(tenants, time, left, tenants', time', left')
    BY <1>1 DEF Later
<1>3. RequestsSound'
    BY <1>2, RestSound
<1>4. PageSound'
    BY DEF IInv, PageSound, Typed
<1>5. RowsSound' /\ OneWorkspaceEach'
    BY <1>1 DEF IInv, RowsSound, OneWorkspaceEach
<1>6. QED BY <1>3, <1>4, <1>5 DEF IInv

\* A plan changes, its owner does not.
LEMMA ReplanKeeps ==
    ASSUME IInv, NEW i \in DOMAIN tenants, NEW t \in Tenant, t.owner = tenants[i].owner,
           Replan(i, t)
    PROVE  IInv'
<1>1. /\ tenants' = [tenants EXCEPT ![i] = t]
      /\ UNCHANGED <<time, roles, active, activating, seen, left, users, members, calls, page>>
    BY DEF Replan, clerk
<1>2. tenants \in Seq(Tenant) /\ time \in Int
    BY DEF IInv, Typed
<1>3. /\ tenants' \in Seq(Tenant) /\ DOMAIN tenants' = DOMAIN tenants
      /\ \A k \in DOMAIN tenants : tenants'[k].owner = tenants[k].owner
    BY <1>1, <1>2
<1>4. Typed'
    BY <1>1, <1>3 DEF IInv, Typed
<1>5. Later(tenants, time, left, tenants', time', left')
    BY <1>1, <1>2, <1>3 DEF Later
<1>6. RequestsSound'
    BY <1>1, <1>4, <1>5, RestSound
<1>7. OneWorkspaceEach' /\ RowsSound' /\ PageSound'
    BY <1>1, <1>3 DEF IInv, OneWorkspaceEach, RowsSound, PageSound
<1>8. QED BY <1>4, <1>6, <1>7 DEF IInv

LEMMA PlanRows ==
    ASSUME NEW i \in DOMAIN tenants, tenants[i] \in Tenant, time \in Int,
           Paid(i) \/ Refunded(i) \/ SetPro(i) \/ SetTrial(i)
    PROVE  \E t \in Tenant : t.owner = tenants[i].owner /\ Replan(i, t)
<1>1. /\ [tenants[i] EXCEPT !.plan = "pro", !.paidUntil = time + 1] \in Tenant
      /\ [tenants[i] EXCEPT !.paidUntil = time] \in Tenant
      /\ [tenants[i] EXCEPT !.plan = "pro"] \in Tenant
      /\ [tenants[i] EXCEPT !.plan = "trial", !.trialEnds = time + 1] \in Tenant
  <2>1. time + 1 \in Int
    OBVIOUS
  <2>2. ASSUME NEW t \in Tenant, NEW n \in Int
        PROVE  /\ [t EXCEPT !.plan = "pro", !.paidUntil = n] \in Tenant
               /\ [t EXCEPT !.paidUntil = n] \in Tenant
               /\ [t EXCEPT !.plan = "pro"] \in Tenant
               /\ [t EXCEPT !.plan = "trial", !.trialEnds = n] \in Tenant
    BY DEF Tenant
  <2>3. QED BY <2>1, <2>2
<1>2. CASE Paid(i)
    BY <1>1, <1>2 DEF Paid, Tenant
<1>3. CASE Refunded(i)
    BY <1>1, <1>3 DEF Refunded, Tenant
<1>4. CASE SetPro(i)
    BY <1>1, <1>4 DEF SetPro, Tenant
<1>5. CASE SetTrial(i)
    BY <1>1, <1>5 DEF SetTrial, Tenant
<1>6. QED BY <1>2, <1>3, <1>4, <1>5

LEMMA PlansKeep ==
    ASSUME IInv, NEW i \in DOMAIN tenants, Paid(i) \/ Refunded(i) \/ SetPro(i) \/ SetTrial(i)
    PROVE  IInv'
<1>1. tenants[i] \in Tenant /\ time \in Int
    BY DEF IInv, Typed
<1>2. QED BY <1>1, PlanRows, ReplanKeeps

LEMMA ClerkKeeps ==
    ASSUME IInv,
           Tick \/ Activate \/ ClientSees \/ \E u \in Users, o \in Orgs : Leave(u, o)
    PROVE  IInv'
<1>1. time \in Int /\ Visitor \in Users /\ None \notin Orgs
    BY TenancyAssumption DEF IInv, Typed
<1>2. CASE Tick
  <2>1. UNCHANGED <<calls, db, page, left, seen, active>> /\ time' = time + 1
    BY <1>2 DEF Tick, clerk
  <2>2. Typed'
    BY <1>2, <2>1 DEF Tick, clerk, db, IInv, Typed
  <2>3. QED BY <1>1, <2>1, <2>2, QuietKeeps DEF IInv, PageSound
<1>3. CASE Activate
  <2>1. /\ UNCHANGED <<calls, db, page, left, seen, time>>
        /\ active'[Visitor] \in {active[Visitor], activating} /\ activating # None
        /\ active' \in [Users -> Orgs \cup {None}]
    BY <1>1, <1>3 DEF Activate, IInv, Typed
  <2>2. Typed'
    BY <1>3, <2>1 DEF Activate, db, IInv, Typed
  <2>3. seen' # None => active'[Visitor] # None \/ Gone(left')
    BY <2>1 DEF IInv, PageSound
  <2>4. QED BY <1>1, <2>1, <2>2, <2>3, QuietKeeps
<1>4. CASE ClientSees
  <2>1. UNCHANGED <<calls, db, page, left, active, time>> /\ seen' = active[Visitor]
    BY <1>4 DEF ClientSees
  <2>2. Typed'
    BY <1>1, <1>4, <2>1 DEF ClientSees, db, IInv, Typed
  <2>3. QED BY <1>1, <2>1, <2>2, QuietKeeps
<1>5. CASE \E u \in Users, o \in Orgs : Leave(u, o)
  <2>1. PICK u \in Users, o \in Orgs : Leave(u, o)
    BY <1>5
  <2>2. /\ UNCHANGED <<calls, db, page, seen, time, activating>>
        /\ left' = left \cup {<<u, o>>}
        /\ active' = [active EXCEPT ![u] = IF active[u] = o THEN None ELSE active[u]]
        /\ roles' = [roles EXCEPT ![<<u, o>>] = None]
    BY <2>1 DEF Leave
  <2>3. Typed'
    BY <2>2 DEF db, IInv, Typed
  <2>4. active'[Visitor] # None \/ active[Visitor] = None \/ Gone(left')
    <3>1. CASE u = Visitor /\ active[u] = o
        BY <2>2, <3>1 DEF Gone
    <3>2. CASE ~ (u = Visitor /\ active[u] = o)
      <4>1. active'[Visitor] = active[Visitor]
        BY <1>1, <2>2, <3>2 DEF IInv, Typed
      <4>2. QED BY <4>1
    <3>3. QED BY <3>1, <3>2
  <2>5. Gone(left) => Gone(left')
    BY <2>2 DEF Gone
  <2>6. seen' # None => active'[Visitor] # None \/ Gone(left')
    BY <2>2, <2>4, <2>5 DEF IInv, PageSound
  <2>7. QED BY <1>1, <2>2, <2>3, <2>6, QuietKeeps
<1>6. QED BY <1>2, <1>3, <1>4, <1>5

\* The page leaves for home with a company active, or a workspace of its own.
LEMMA NavigatesKeeps ==
    ASSUME IInv, Navigates, UNCHANGED <<time, clerk, db>>,
           active[Visitor] = None => Owns(Visitor, tenants) \/ Gone(left)
    PROVE  IInv'
<1>1. calls' = Asked(Called(Visitor, "me", "home")) /\ page' = Home(Len(calls'))
    BY DEF Navigates
<1>2. Visitor \in Users /\ "me" \in Routes
    BY TenancyAssumption DEF Routes
<1>3. Len(calls') \in Nat
  <2>1. Called(Visitor, "me", "home") \in Requests
    BY <1>2, CalledSound
  <2>2. QED BY <1>1, <2>1 DEF Asked, IInv, Typed
<1>4. page' \in Pages /\ page'.at = "home" /\ page'.awaits = Len(calls')
    BY <1>1, <1>3 DEF Home, Welcome, Pages
<1>5. QED BY <1>1, <1>2, <1>4, AskKeeps

LEMMA ChoiceKeeps ==
    ASSUME IInv, Choice
    PROVE  IInv'
<1>1. /\ page \in Pages /\ time \in Int /\ Visitor \in Users
      /\ seen # None => active[Visitor] # None \/ Gone(left)
      /\ None \notin Orgs
    BY TenancyAssumption DEF IInv, Typed, PageSound
<1>2. CASE StartPersonal
  <2>1. /\ calls' = Asked(Called(Visitor, "personal", "choice"))
        /\ page' = [page EXCEPT !.busy = TRUE, !.awaits = Len(calls')]
        /\ UNCHANGED <<time, clerk, db>>
    BY <1>2 DEF StartPersonal
  <2>2. Called(Visitor, "personal", "choice") \in Requests
    BY <1>1, CalledSound DEF Routes
  <2>3. Len(calls') \in Nat
    BY <2>1, <2>2 DEF Asked, IInv, Typed
  <2>4. page' \in Pages /\ page'.awaits = Len(calls')
    BY <1>1, <2>1, <2>3 DEF Pages
  <2>5. "personal" \in Routes
    BY DEF Routes
  <2>6. QED BY <1>1, <2>1, <2>4, <2>5, AskKeeps
<1>3. CASE PersonalAnswered
  <2>1. /\ page.at = "welcome" /\ page.awaits # 0 /\ calls[page.awaits].stage = "over"
        /\ UNCHANGED <<time, clerk, db>>
    BY <1>3 DEF PersonalAnswered, OnWelcome
  <2>2. CASE calls[page.awaits].answer = "ok"
    <3>1. page.awaits \in DOMAIN calls
        BY <2>1 DEF IInv, Typed, PageSound
    <3>2. Sound(calls[page.awaits], tenants, time, left)
        BY <3>1, UnderWay
    <3>3. calls[page.awaits].route = "personal" /\ calls[page.awaits].user = Visitor
        BY <2>1 DEF IInv, PageSound
    <3>4. Owns(Visitor, tenants)
        BY <2>2, <3>2, <3>3 DEF Sound
    <3>5. Navigates
        BY <1>3, <2>2 DEF PersonalAnswered
    <3>6. QED BY <2>1, <3>4, <3>5, NavigatesKeeps
  <2>3. CASE calls[page.awaits].answer # "ok"
    <3>1. page' = [page EXCEPT !.busy = FALSE, !.awaits = 0] /\ UNCHANGED calls
        BY <1>3, <2>3 DEF PersonalAnswered
    <3>2. page' \in Pages /\ page'.awaits = 0
        BY <1>1, <3>1 DEF Pages
    <3>3. Typed' /\ UNCHANGED <<seen, active, left>>
        BY <2>1, <3>1, <3>2 DEF clerk, db, IInv, Typed
    <3>4. QED BY <1>1, <2>1, <3>1, <3>2, <3>3, QuietKeeps
  <2>4. QED BY <2>2, <2>3
<1>4. CASE \E o \in Orgs : OpenCompany(o) \/ CreateOrganization(o)
  <2>1. PICK o \in Orgs : OpenCompany(o) \/ CreateOrganization(o)
    BY <1>4
  <2>2. /\ UNCHANGED <<calls, db, time, seen, active, left>> /\ activating' = o
        /\ page' \in {page, [page EXCEPT !.busy = TRUE, !.entering = TRUE]}
        /\ roles' \in {roles, [roles EXCEPT ![<<Visitor, o>>] = "org:admin"]}
    BY <2>1 DEF OpenCompany, CreateOrganization
  <2>3. page' \in Pages /\ page'.awaits = page.awaits /\ page'.at = page.at
    BY <1>1, <2>2 DEF Pages
  <2>4. roles' \in [Users \X Orgs -> ClerkRoles \cup {None}]
    BY <1>1, <2>2 DEF ClerkRoles, IInv, Typed
  <2>5. Typed'
    BY <2>2, <2>3, <2>4 DEF db, IInv, Typed
  <2>6. QED BY <1>1, <2>2, <2>3, <2>5, QuietKeeps
<1>5. CASE OpenFails \/ SetUpCompany \/ Back
  <2>1. /\ UNCHANGED <<calls, db, time, seen, active, left, roles>>
        /\ activating' \in {activating, None}
        /\ page' \in {[page EXCEPT !.busy = FALSE, !.entering = FALSE],
                      [page EXCEPT !.mode = "company", !.entering = TRUE],
                      [page EXCEPT !.mode = "choose", !.entering = FALSE]}
    BY <1>5 DEF OpenFails, SetUpCompany, Back, clerk
  <2>2. page' \in Pages /\ page'.awaits = page.awaits /\ page'.at = page.at
    BY <1>1, <2>1 DEF Pages
  <2>3. Typed'
    BY <2>1, <2>2 DEF db, IInv, Typed
  <2>4. QED BY <1>1, <2>1, <2>2, <2>3, QuietKeeps
<1>6. CASE NavigateHome
  <2>1. seen # None /\ Navigates /\ UNCHANGED <<time, clerk, db>>
    BY <1>6 DEF NavigateHome, Enters
  <2>2. QED BY <1>1, <2>1, NavigatesKeeps
<1>7. CASE HomeAnswered \/ Revisit
  <2>1. page' \in {Welcome, Home(0)} /\ UNCHANGED <<time, clerk, db, calls>>
    BY <1>7 DEF HomeAnswered, Revisit
  <2>2. page' \in Pages /\ page'.awaits = 0
    <3>1. Welcome \in Pages /\ Welcome.awaits = 0
        BY DEF Welcome, Pages
    <3>2. Home(0) \in Pages /\ Home(0).awaits = 0
        BY DEF Home, Welcome, Pages
    <3>3. QED BY <2>1, <3>1, <3>2
  <2>3. Typed' /\ UNCHANGED <<seen, active, left>>
    BY <2>1, <2>2 DEF clerk, db, IInv, Typed
  <2>4. QED BY <1>1, <2>1, <2>2, <2>3, QuietKeeps
<1>8. QED BY <1>2, <1>3, <1>4, <1>5, <1>6, <1>7 DEF Choice

-------------------------------------------------------------------------------
LEMMA InitHolds == Init => IInv
<1> SUFFICES ASSUME Init PROVE IInv
    OBVIOUS
<1>1. /\ time = 0 /\ roles = Joined /\ activating = None /\ seen = None
      /\ users = Existing /\ tenants = <<>> /\ members = {} /\ calls = <<>> /\ page = Welcome
    BY Zenon DEF Init
<1>2. active \in [Users -> Orgs \cup {None}]
    BY Zenon DEF Init
<1>3. Typed
  <2>1. page \in Pages
    BY <1>1 DEF Welcome, Pages
  <2>2. QED BY <1>1, <1>2, <2>1, TenancyAssumption DEF Typed
<1>4. DOMAIN tenants = {} /\ DOMAIN calls = {} /\ Len(calls) = 0
    BY <1>1
<1>5. OneWorkspaceEach /\ RequestsSound
    BY <1>4 DEF OneWorkspaceEach, RequestsSound
<1>6. RowsSound
    BY <1>1, TenancyAssumption DEF RowsSound
<1>7. PageSound
    BY <1>1, <1>4 DEF PageSound, Welcome
<1>8. QED BY <1>3, <1>5, <1>6, <1>7 DEF IInv

LEMMA NextKeeps == IInv /\ [Next]_vars => IInv'
<1> SUFFICES ASSUME IInv, [Next]_vars PROVE IInv'
    OBVIOUS
<1>1. ASSUME NEW i \in DOMAIN calls, Request(i) PROVE IInv'
    BY <1>1, EnsureKeeps, UpsertUserKeeps, FindPersonalKeeps, EnterKeeps, GateKeeps, FailKeeps
    DEF Request
<1>2. ASSUME NEW u \in Users, NEW route \in Routes, Call(u, route) PROVE IInv'
  <2>1. /\ calls' = Asked(Called(u, route, "shell"))
        /\ UNCHANGED <<time, clerk, db, page>> /\ page' \in Pages
    BY <1>2 DEF Call, IInv, Typed
  <2>2. QED BY <2>1, AskKeeps
<1>3. CASE UNCHANGED vars
  <2>1. UNCHANGED <<time, roles, active, activating, seen, left, users, tenants, members, calls, page>>
    BY <1>3 DEF vars, clerk, db
  <2>2. QED BY <2>1 DEF IInv, Typed, OneWorkspaceEach, RequestsSound, RowsSound, PageSound
<1>4. QED BY <1>1, <1>2, <1>3, ClerkKeeps, ChoiceKeeps, PlansKeep DEF Next

\* Only a request that names its workspace and a change of plan write tenants.
LEMMA WhoWritesTenants ==
    ASSUME Next
    PROVE  \/ UNCHANGED tenants
           \/ \E i \in DOMAIN calls : Ensure(i)
           \/ \E i \in DOMAIN tenants : Paid(i) \/ Refunded(i) \/ SetPro(i) \/ SetTrial(i)
<1>1. CASE Tick \/ Activate \/ ClientSees
    BY <1>1 DEF Tick, Activate, ClientSees, db
<1>2. CASE Choice
    BY <1>2 DEF Choice, StartPersonal, PersonalAnswered, SetUpCompany, Back, OpenFails, NavigateHome,
        HomeAnswered, Revisit, OpenCompany, CreateOrganization, db
<1>3. CASE \E u \in Users, o \in Orgs : Leave(u, o)
    BY <1>3 DEF Leave, db
<1>4. CASE \E u \in Users, route \in Routes : Call(u, route)
    BY <1>4 DEF Call, db
<1>5. ASSUME NEW i \in DOMAIN calls, Request(i), ~Ensure(i) PROVE UNCHANGED tenants
    BY <1>5 DEF Request, UpsertUser, FindPersonal, Enter, Gate, Fail, db
<1>6. QED BY <1>1, <1>2, <1>3, <1>4, <1>5 DEF Next

\* The inductive invariant holds, whatever the constants.
THEOREM Invariance == Spec => []IInv
BY InitHolds, NextKeeps, PTL DEF Spec

\* Rows, requests and the page stay well formed: in particular the rows of
\* users never repeat a Clerk id or an address (tenant-sync.service.ts:58-73).
THEOREM TypeCorrect == Spec => []TypeOK
<1>1. IInv => TypeOK
  <2> SUFFICES ASSUME IInv PROVE TypeOK
    OBVIOUS
  <2>1. \A i \in DOMAIN calls : calls[i].tenant \in 0 .. Len(tenants)
    BY DEF IInv, RequestsSound, Sound
  <2>2. QED BY <2>1 DEF IInv, Typed, RowsSound, PageSound, TypeOK
<1>2. QED BY <1>1, Invariance, PTL

\* Home opens for whoever the account choice sends there, unless a company let
\* them go (account-choice.tsx:27-39, layout.tsx:21-23).
THEOREM ArrivalOpens == Spec => []HomeOpens
<1>1. IInv => HomeOpens
    BY DEF IInv, RequestsSound, Sound, Gone, HomeOpens
<1>2. QED BY <1>1, Invariance, PTL

\* The product works only for a workspace that was open when the request came
\* in, whatever became of its plan meanwhile (policy.ts:272-299).
THEOREM OnlyOpenServed == Spec => []ServedWasOpen
<1>1. IInv => ServedWasOpen
    BY DEF IInv, RequestsSound, Sound, ServedWasOpen
<1>2. QED BY <1>1, Invariance, PTL

\* First requests may race and fail: an owner has one workspace and its trial
\* ends when it was going to (migration 20260725065451:1-4).
THEOREM OneWorkspacePerOwner == Spec => WorkspacesKept
<1> DEFINE Kept == /\ \A i \in DOMAIN tenants : tenants'[i].owner = tenants[i].owner
                   /\ \A i, j \in DOMAIN tenants' : tenants'[i].owner = tenants'[j].owner => i = j
                   /\ calls' # calls => \A i \in DOMAIN tenants : tenants'[i] = tenants[i]
<1>1. IInv /\ IInv' /\ [Next]_vars => [Kept]_vars
  <2> SUFFICES ASSUME IInv, IInv', Next PROVE Kept
    BY DEF vars
  <2>1. \A i, j \in DOMAIN tenants' : tenants'[i].owner = tenants'[j].owner => i = j
    BY DEF IInv, OneWorkspaceEach
  <2>2. CASE UNCHANGED tenants
    BY <2>1, <2>2
  <2>3. ASSUME NEW i \in DOMAIN calls, Ensure(i) PROVE Kept
    <3> DEFINE owner == IF calls[i].route = "personal" THEN calls[i].user ELSE calls[i].org
    <3>1. calls[i] \in Requests
        BY UnderWay
    <3>2. owner \in Users \cup Orgs /\ tenants' = Ensured(owner)
        BY <2>3, <3>1 DEF Ensure, Requests
    <3>3. \A t \in DOMAIN tenants : tenants'[t] = tenants[t]
        BY <3>2, EnsuredKeeps
    <3>4. QED BY <2>1, <3>3
  <2>4. ASSUME NEW i \in DOMAIN tenants, Paid(i) \/ Refunded(i) \/ SetPro(i) \/ SetTrial(i)
        PROVE  Kept
    <3>1. PICK t \in Tenant : t.owner = tenants[i].owner /\ Replan(i, t)
      <4>1. tenants[i] \in Tenant /\ time \in Int
        BY DEF IInv, Typed
      <4>2. QED BY <2>4, <4>1, PlanRows
    <3>2. tenants' = [tenants EXCEPT ![i] = t] /\ UNCHANGED calls /\ tenants \in Seq(Tenant)
        BY <3>1 DEF Replan, IInv, Typed
    <3>3. \A k \in DOMAIN tenants : tenants'[k].owner = tenants[k].owner
        BY <3>1, <3>2
    <3>4. QED BY <2>1, <3>2, <3>3
  <2>5. QED
    <3>1. \/ UNCHANGED tenants
          \/ \E i \in DOMAIN calls : Ensure(i)
          \/ \E i \in DOMAIN tenants : Paid(i) \/ Refunded(i) \/ SetPro(i) \/ SetTrial(i)
        BY WhoWritesTenants
    <3>2. QED BY <2>2, <2>3, <2>4, <3>1
<1>2. QED BY <1>1, Invariance, PTL DEF Spec, WorkspacesKept
=============================================================================
