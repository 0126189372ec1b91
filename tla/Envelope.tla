------------------------------- MODULE Envelope -------------------------------
(***************************************************************************)
(* One envelope (a signature request and the people on it) from send to    *)
(* its end, as the API process and the worker's sweeps drive it.           *)
(*                                                                         *)
(* A handler is one HTTP request being served or one sweep item being      *)
(* worked on.  Every db.tx of the code runs at READ COMMITTED without row  *)
(* locks on its reads, so a handler's read and its later conditional       *)
(* UPDATE are two steps here, and any other handler may run between them.  *)
(* The rows a single transaction writes become visible together, so the    *)
(* writes of one transaction are one step.                                 *)
(*                                                                         *)
(* A link is a pair <<r, n>>: the n-th signing token minted for recipient  *)
(* r (tokens are 256 random bits, never equal).  hash[r] = n says that the *)
(* recipient's row stores the hash of that token, 0 that it stores none.   *)
(* A recipient whose row does not exist has status "gone".                 *)
(***************************************************************************)
EXTENDS Naturals, FiniteSets

CONSTANTS
    Recipients,  \* the people on the envelope
    Role,        \* [Recipients -> {"signer", "cc"}]
    Order,       \* [Recipients -> Nat], the routing group of each
    Mode,        \* "parallel" or "sequential"
    Handlers,    \* requests and sweep items that may be in flight at once
    MaxMints,    \* bound: tokens ever minted for one recipient
    ReminderMax, \* REMINDER_MAX, reminders per recipient
    Ops          \* which optional operations and failures happen in a run

VARIABLES
    env,         \* signature_requests.status, "none" before send, "gone" after a rollback
    rcStatus,    \* recipients.status
    hash,        \* recipients.signing_token_hash
    consent,     \* recipients.consent_at is set
    reminders,   \* recipients.reminder_count
    pastExpiry,  \* expires_at <= now()
    ripe,        \* COALESCE(last_reminded_at, sent_at) is REMINDER_AFTER_DAYS old
    h,           \* what each handler is doing, and what it read so far
    jobs,        \* e-mails with a link, waiting in the queue
    inbox,       \* links each recipient has received
    sealJob,     \* the completion job complete-<id> has been enqueued
    \* History: what happened, read by no action.
    mints,       \* tokens minted so far
    uses,        \* signatures recorded with each link
    window       \* links issued by send, hand-off and resend in the current cooldown

rows == <<env, rcStatus, hash, consent, reminders, ripe>>
mail == <<jobs, inbox>>
vars == <<env, rcStatus, hash, consent, reminders, pastExpiry, ripe, h,
          jobs, inbox, sealJob, mints, uses, window>>

Optional == {"resend", "remind", "nudge", "void", "expire",
             "crash", "mailfail", "queuefail"}

ASSUME ConstantsAssumption ==
    /\ Role \in [Recipients -> {"signer", "cc"}]
    /\ Order \in [Recipients -> Nat]
    /\ Mode \in {"parallel", "sequential"}
    /\ MaxMints \in Nat
    /\ ReminderMax \in Nat
    /\ Ops \subseteq Optional

\* SendRequestSchema refuses an envelope without a signer.
ASSUME SomeSigner == \E r \in Recipients : Role[r] = "signer"

-------------------------------------------------------------------------------
EnvStatus == {"none", "sent", "viewed", "completed", "voided", "expired", "gone"}
RcStatus  == {"gone", "pending", "sent", "viewed", "completed"}
Link      == Recipients \X (1..MaxMints)
Job       == [kind : {"send", "route", "resend"}, link : Link]

Signers   == {r \in Recipients : Role[r] = "signer"}
Open      == env \in {"sent", "viewed"}
Active(r) == rcStatus[r] \in {"sent", "viewed"}

Idle == [at |-> "idle"]
\* The stages of a handler.  A stage holds what the code read or computed
\* before its last await and still uses after it.
Stage ==
    [at : {"idle", "advance", "seal", "rollback", "void", "retire", "retiring"}]
    \cup [at : {"view", "consent", "claim"}, rc : Recipients, tok : 1..MaxMints]
    \cup [at : {"decide"}, seen : [Recipients -> RcStatus]]
    \cup [at : {"dispatch", "invite"}, todo : SUBSET Link]
    \cup [at : {"reissue", "resend", "remind"}, rc : Recipients]
    \cup [at : {"rotate"}, rc : Recipients, count : Nat]
    \cup [at : {"mail", "nudge"}, link : Link]

TypeOK ==
    /\ env \in EnvStatus
    /\ rcStatus \in [Recipients -> RcStatus]
    /\ hash \in [Recipients -> 0..MaxMints]
    /\ consent \in [Recipients -> BOOLEAN]
    /\ reminders \in [Recipients -> Nat]
    /\ pastExpiry \in BOOLEAN
    /\ ripe \in [Recipients -> BOOLEAN]
    /\ h \in [Handlers -> Stage]
    /\ jobs \subseteq Job
    /\ inbox \in [Recipients -> SUBSET (1..MaxMints)]
    /\ sealJob \in BOOLEAN
    /\ mints \in [Recipients -> 0..MaxMints]
    /\ uses \in [Recipients -> [1..MaxMints -> Nat]]
    /\ window \in [Recipients -> Nat]

Init ==
    /\ env = "none"
    /\ rcStatus = [r \in Recipients |-> "gone"]
    /\ hash = [r \in Recipients |-> 0]
    /\ consent = [r \in Recipients |-> FALSE]
    /\ reminders = [r \in Recipients |-> 0]
    /\ pastExpiry = FALSE
    /\ ripe = [r \in Recipients |-> FALSE]
    /\ h = [p \in Handlers |-> Idle]
    /\ jobs = {}
    /\ inbox = [r \in Recipients |-> {}]
    /\ sealJob = FALSE
    /\ mints = [r \in Recipients |-> 0]
    /\ uses = [r \in Recipients |-> [n \in 1..MaxMints |-> 0]]
    /\ window = [r \in Recipients |-> 0]

-------------------------------------------------------------------------------
\* Helpers.

Become(p, stage) == h' = [h EXCEPT ![p] = stage]
At(p, stage)     == h[p].at = stage
Quiet            == jobs = {} /\ \A p \in Handlers : At(p, "idle")

\* mintSigningToken for every member of R, and the links it makes.
Mintable(R) == \A r \in R : mints[r] < MaxMints
Minted(R)   == [r \in Recipients |-> IF r \in R THEN mints[r] + 1 ELSE mints[r]]
StaleLinks(R) == {<<r, mints[r]>> : r \in R}
NewLinks(R)   == {<<r, mints[r] + 1>> : r \in R}

\* updateMany({ where: { id, status: { in: from } }, data: { status: to } })
SettleAnyway(from, to) == to
Settle(from, to) == IF env \in from THEN to ELSE env

\* loadForToken: the resolver looks the token up by its hash, then request and
\* recipient are re-checked.  Every failure is the same 404, no step at all.
LoadForToken(r, n) ==
    /\ n \in inbox[r]
    /\ hash[r] = n
    /\ ~pastExpiry
    /\ env \notin {"none", "gone", "voided"}
    /\ Active(r)

\* Put a link job in the queue.  The routing invite's id is invite-<rid>: while
\* one for the recipient is still in the queue, BullMQ ignores the second.
EnqueuedOncePerPerson(kind, l) ==
    IF \E j \in jobs : j.kind = kind /\ j.link[1] = l[1]
    THEN jobs
    ELSE jobs \cup {[kind |-> kind, link |-> l]}
Enqueued(kind, l) ==
    IF kind = "route" /\ \E j \in jobs : j.kind = "route" /\ j.link[1] = l[1]
    THEN jobs
    ELSE jobs \cup {[kind |-> kind, link |-> l]}

\* The rows a void or an expiry sweep strips of their hash.
Unfinished == {r \in Recipients : rcStatus[r] \in {"pending", "sent", "viewed"}}
NotStripped == hash
Stripped   == [r \in Recipients |-> IF r \in Unfinished THEN 0 ELSE hash[r]]

-------------------------------------------------------------------------------
(***************************************************************************)
(* send: one transaction creates the request and its recipients, then the  *)
(* invites are queued one by one; a queue failure deletes the request.     *)
(***************************************************************************)
FirstGroup == {r \in Recipients : \A o \in Recipients : Order[r] <= Order[o]}

InvitedNow == {r \in Signers : Mode = "parallel" \/ r \in FirstGroup}

Send(p) ==
    /\ At(p, "idle")
    /\ env = "none"
    /\ Mintable(InvitedNow)
    /\ env' = "sent"
    /\ rcStatus' = [r \in Recipients |-> IF r \in InvitedNow THEN "sent" ELSE "pending"]
    /\ hash' = [r \in Recipients |-> IF r \in InvitedNow THEN mints[r] + 1 ELSE 0]
    /\ mints' = Minted(InvitedNow)
    /\ window' = [r \in Recipients |-> IF r \in InvitedNow THEN 1 ELSE 0]
    /\ Become(p, [at |-> "dispatch", todo |-> NewLinks(InvitedNow)])
    /\ UNCHANGED <<consent, reminders, pastExpiry, ripe, mail, sealJob, uses>>

DispatchInvite(p) ==
    /\ At(p, "dispatch")
    /\ \E l \in h[p].todo :
         LET rest == h[p].todo \ {l} IN
         /\ jobs' = Enqueued("send", l)
         /\ Become(p, IF rest = {} THEN Idle ELSE [at |-> "dispatch", todo |-> rest])
    /\ UNCHANGED <<rows, pastExpiry, inbox, sealJob, mints, uses, window>>

\* queue.add fails, or answers after the 8 s timeout and so lands all the same.
DispatchFail(p) ==
    /\ "queuefail" \in Ops
    /\ At(p, "dispatch")
    /\ \E l \in h[p].todo : jobs' \in {jobs, Enqueued("send", l)}
    /\ Become(p, [at |-> "rollback"])
    /\ UNCHANGED <<rows, pastExpiry, inbox, sealJob, mints, uses, window>>

\* deleteMany by id alone; the recipients go with the request.
Rollback(p) ==
    /\ At(p, "rollback")
    /\ env' = "gone"
    /\ rcStatus' = [r \in Recipients |-> "gone"]
    /\ hash' = [r \in Recipients |-> 0]
    /\ Become(p, Idle)
    /\ UNCHANGED <<consent, reminders, pastExpiry, ripe, mail, sealJob, mints,
                   uses, window>>

-------------------------------------------------------------------------------
(***************************************************************************)
(* The ceremony: view, consent and submit, each a load followed by         *)
(* conditional UPDATEs in a transaction of its own.                        *)
(***************************************************************************)
ViewLoad(p, r, n) ==
    /\ At(p, "idle")
    /\ LoadForToken(r, n)
    /\ rcStatus[r] = "sent"
    /\ Become(p, [at |-> "view", rc |-> r, tok |-> n])
    /\ UNCHANGED <<rows, pastExpiry, mail, sealJob, mints, uses, window>>

ViewWrite(p) ==
    LET r == h[p].rc IN
    /\ At(p, "view")
    /\ rcStatus' = IF rcStatus[r] = "sent" THEN [rcStatus EXCEPT ![r] = "viewed"]
                                           ELSE rcStatus
    /\ env' = Settle({"sent"}, "viewed")
    /\ Become(p, Idle)
    /\ UNCHANGED <<hash, consent, reminders, pastExpiry, ripe, mail, sealJob,
                   mints, uses, window>>

ConsentLoad(p, r, n) ==
    /\ At(p, "idle")
    /\ LoadForToken(r, n)
    /\ ~consent[r]
    /\ Become(p, [at |-> "consent", rc |-> r, tok |-> n])
    /\ UNCHANGED <<rows, pastExpiry, mail, sealJob, mints, uses, window>>

ConsentWrite(p) ==
    LET r == h[p].rc IN
    /\ At(p, "consent")
    /\ consent' = [consent EXCEPT ![r] = @ \/ Active(r)]
    /\ Become(p, Idle)
    /\ UNCHANGED <<env, rcStatus, hash, reminders, pastExpiry, ripe, mail,
                   sealJob, mints, uses, window>>

SubmitLoad(p, r, n) ==
    /\ At(p, "idle")
    /\ LoadForToken(r, n)
    /\ consent[r]
    /\ Become(p, [at |-> "claim", rc |-> r, tok |-> n])
    /\ UNCHANGED <<rows, pastExpiry, mail, sealJob, mints, uses, window>>

\* The claim's WHERE: this token is still stored and the row still signable.
ClaimHoldsByToken(r, n) == hash[r] = n
ClaimHolds(r, n) == hash[r] = n /\ Active(r)

\* After a claim the handler always looks at the envelope as a whole.
AfterClaimIfWaiting ==
    IF \E r \in Recipients : rcStatus[r] = "pending" THEN [at |-> "advance"] ELSE Idle
AfterClaim == [at |-> "advance"]

Claim(p) ==
    LET r == h[p].rc
        n == h[p].tok
    IN  /\ At(p, "claim")
        /\ IF ClaimHolds(r, n)
           THEN /\ rcStatus' = [rcStatus EXCEPT ![r] = "completed"]
                /\ uses' = [uses EXCEPT ![r][n] = @ + 1]
                /\ Become(p, AfterClaim)
           ELSE /\ Become(p, Idle)
                /\ UNCHANGED <<rcStatus, uses>>
        /\ UNCHANGED <<env, hash, consent, reminders, pastExpiry, ripe, mail,
                       sealJob, mints, window>>

-------------------------------------------------------------------------------
(***************************************************************************)
(* advanceEnvelope, in a transaction after the claim's: read everyone,     *)
(* then complete the envelope, or hand off to the next routing group.      *)
(***************************************************************************)
AdvanceRead(p) ==
    /\ At(p, "advance")
    /\ Become(p, IF env = "gone" THEN Idle ELSE [at |-> "decide", seen |-> rcStatus])
    /\ UNCHANGED <<rows, pastExpiry, mail, sealJob, mints, uses, window>>

SomeCompleted(seen) == \E r \in Signers : seen[r] = "completed"
AllCompleted(seen) == \A r \in Signers : seen[r] = "completed"
Waiting(seen)      == {r \in Recipients : seen[r] = "pending"}
NextGroup(seen)    == {r \in Waiting(seen) : \A o \in Waiting(seen) : Order[r] <= Order[o]}

\* Nobody in a group before the next one is still signing.
EarlierIgnored(seen) == TRUE
GroupFinished(seen) ==
    \A r \in NextGroup(seen), s \in Signers : Order[s] <= Order[r] => seen[s] = "completed"
EarlierFinished(seen) ==
    \A r \in NextGroup(seen), s \in Signers : Order[s] < Order[r] => seen[s] = "completed"

HandsOff(seen) ==
    /\ ~AllCompleted(seen)
    /\ Mode = "sequential"
    /\ Waiting(seen) # {}
    /\ EarlierFinished(seen)

\* The update's count is not read: the caller enqueues the seal either way.
AdvanceComplete(p) ==
    /\ At(p, "decide")
    /\ AllCompleted(h[p].seen)
    /\ env' = Settle({"sent", "viewed"}, "completed")
    /\ Become(p, [at |-> "seal"])
    /\ UNCHANGED <<rcStatus, hash, consent, reminders, pastExpiry, ripe, mail,
                   sealJob, mints, uses, window>>

\* A cc of the group is written by id alone; a signer's row takes the new hash
\* only while it is still pending, but the invite goes out in either case.
AdvanceHandOff(p) ==
    LET group   == NextGroup(h[p].seen)
        called  == group \cap Signers
        entered == {r \in called : rcStatus[r] = "pending"}
        copied  == {r \in group \ Signers : rcStatus[r] # "gone"}
    IN  /\ At(p, "decide")
        /\ HandsOff(h[p].seen)
        /\ Mintable(called)
        /\ rcStatus' = [r \in Recipients |->
                          IF r \in entered \cup copied THEN "sent" ELSE rcStatus[r]]
        /\ hash' = [r \in Recipients |-> IF r \in entered THEN mints[r] + 1 ELSE hash[r]]
        /\ mints' = Minted(called)
        /\ window' = [r \in Recipients |-> IF r \in entered THEN 1 ELSE window[r]]
        /\ Become(p, IF called = {} THEN Idle
                                    ELSE [at |-> "invite", todo |-> NewLinks(called)])
        /\ UNCHANGED <<env, consent, reminders, pastExpiry, ripe, mail, sealJob,
                       uses>>

AdvanceNothing(p) ==
    /\ At(p, "decide")
    /\ ~AllCompleted(h[p].seen)
    /\ ~HandsOff(h[p].seen)
    /\ Become(p, Idle)
    /\ UNCHANGED <<rows, pastExpiry, mail, sealJob, mints, uses, window>>

\* sendInvite for each; a queue failure is logged and swallowed.
RouteInvite(p) ==
    /\ At(p, "invite")
    /\ \E l \in h[p].todo :
         LET rest == h[p].todo \ {l} IN
         /\ \/ jobs' = Enqueued("route", l)
            \/ "queuefail" \in Ops /\ jobs' = jobs
         /\ Become(p, IF rest = {} THEN Idle ELSE [at |-> "invite", todo |-> rest])
    /\ UNCHANGED <<rows, pastExpiry, inbox, sealJob, mints, uses, window>>

EnqueueSeal(p) ==
    /\ At(p, "seal")
    /\ \/ sealJob' = TRUE
       \/ "queuefail" \in Ops /\ sealJob' = sealJob
    /\ Become(p, Idle)
    /\ UNCHANGED <<rows, pastExpiry, mail, mints, uses, window>>

-------------------------------------------------------------------------------
(***************************************************************************)
(* void: read the envelope, then cancel and strip the hashes in one        *)
(* transaction.  The e-mails that announce a cancellation or an expiry     *)
(* touch no state here and are left out, with expired_notified_at.         *)
(***************************************************************************)
VoidRead(p) ==
    /\ "void" \in Ops
    /\ At(p, "idle")
    /\ env \in {"sent", "viewed", "expired"}
    /\ Become(p, [at |-> "void"])
    /\ UNCHANGED <<rows, pastExpiry, mail, sealJob, mints, uses, window>>

VoidWrite(p) ==
    /\ At(p, "void")
    /\ env' = Settle({"sent", "viewed", "expired"}, "voided")
    /\ hash' = Stripped
    /\ Become(p, Idle)
    /\ UNCHANGED <<rcStatus, consent, reminders, pastExpiry, ripe, mail, sealJob,
                   mints, uses, window>>

-------------------------------------------------------------------------------
(***************************************************************************)
(* resend, and remind, which checks in transactions of its own and then    *)
(* calls resend.  The cooldown is a set window: sentAt less than a minute  *)
(* old.                                                                    *)
(***************************************************************************)
ResendAllowed(r) == Open /\ r \in Signers /\ Active(r) /\ window[r] = 0

Resend(p, r) ==
    /\ "resend" \in Ops
    /\ At(p, "idle")
    /\ ResendAllowed(r)
    /\ Become(p, [at |-> "resend", rc |-> r])
    /\ UNCHANGED <<rows, pastExpiry, mail, sealJob, mints, uses, window>>

Remind(p, r) ==
    /\ "remind" \in Ops
    /\ At(p, "idle")
    /\ Open
    /\ rcStatus[r] \notin {"completed", "gone"}
    /\ hash[r] # 0
    /\ Become(p, [at |-> "reissue", rc |-> r])
    /\ UNCHANGED <<rows, pastExpiry, mail, sealJob, mints, uses, window>>

ResendRead(p) ==
    LET r == h[p].rc IN
    /\ At(p, "reissue")
    /\ Become(p, IF ResendAllowed(r) THEN [at |-> "resend", rc |-> r] ELSE Idle)
    /\ UNCHANGED <<rows, pastExpiry, mail, sealJob, mints, uses, window>>

\* The update is by id alone.
ResendWrite(p) ==
    LET r == h[p].rc IN
    /\ At(p, "resend")
    /\ Mintable({r})
    /\ mints' = Minted({r})
    /\ IF rcStatus[r] = "gone"
       THEN UNCHANGED <<rcStatus, hash, window, ripe>>
       ELSE /\ rcStatus' = [rcStatus EXCEPT ![r] = "sent"]
            /\ hash' = [hash EXCEPT ![r] = mints[r] + 1]
            /\ window' = [window EXCEPT ![r] = @ + 1]
            /\ ripe' = [ripe EXCEPT ![r] = @ /\ reminders[r] > 0]
    /\ Become(p, [at |-> "mail", link |-> <<r, mints[r] + 1>>])
    /\ UNCHANGED <<env, consent, reminders, pastExpiry, mail, sealJob, uses>>

\* The job id is time-suffixed, so it is never deduplicated.
ResendMail(p) ==
    /\ At(p, "mail")
    /\ \/ jobs' = Enqueued("resend", h[p].link)
       \/ "queuefail" \in Ops /\ jobs' = jobs
    /\ Become(p, Idle)
    /\ UNCHANGED <<rows, pastExpiry, inbox, sealJob, mints, uses, window>>

-------------------------------------------------------------------------------
(***************************************************************************)
(* The worker's sweeps.  Each first lists what is due in one query and     *)
(* then works through the list, item by item.                              *)
(***************************************************************************)
RemindFind(p, r) ==
    /\ "nudge" \in Ops
    /\ At(p, "idle")
    /\ r \in Signers /\ Active(r) /\ hash[r] # 0
    /\ reminders[r] < ReminderMax
    /\ Open /\ ~pastExpiry
    /\ ripe[r]
    /\ Become(p, [at |-> "remind", rc |-> r])
    /\ UNCHANGED <<rows, pastExpiry, mail, sealJob, mints, uses, window>>

RemindRead(p) ==
    LET r == h[p].rc IN
    /\ At(p, "remind")
    /\ Become(p, IF rcStatus[r] \in {"completed", "gone"} THEN Idle
                 ELSE [at |-> "rotate", rc |-> r, count |-> reminders[r]])
    /\ UNCHANGED <<rows, pastExpiry, mail, sealJob, mints, uses, window>>

\* The claim: the row is found by its id and the reminder count alone.
RemindClaim(p) ==
    LET r == h[p].rc IN
    /\ At(p, "rotate")
    /\ Mintable({r})
    /\ mints' = Minted({r})
    /\ IF rcStatus[r] # "gone" /\ reminders[r] = h[p].count
       THEN /\ hash' = [hash EXCEPT ![r] = mints[r] + 1]
            /\ reminders' = [reminders EXCEPT ![r] = @ + 1]
            /\ ripe' = [ripe EXCEPT ![r] = FALSE]
            /\ Become(p, [at |-> "nudge", link |-> <<r, mints[r] + 1>>])
       ELSE /\ Become(p, Idle)
            /\ UNCHANGED <<hash, reminders, ripe>>
    /\ UNCHANGED <<env, rcStatus, consent, pastExpiry, mail, sealJob, uses, window>>

\* The link l reaches its recipient.
Receive(l) == inbox' = [inbox EXCEPT ![l[1]] = @ \cup {l[2]}]

\* email.send, straight from the sweep; when it throws the sweep stops.
Nudge(p) ==
    /\ At(p, "nudge")
    /\ \/ Receive(h[p].link)
       \/ "mailfail" \in Ops /\ UNCHANGED inbox
    /\ Become(p, Idle)
    /\ UNCHANGED <<rows, pastExpiry, jobs, sealJob, mints, uses, window>>

ExpireFind(p) ==
    /\ "expire" \in Ops
    /\ At(p, "idle")
    /\ Open /\ pastExpiry
    /\ Become(p, [at |-> "retire"])
    /\ UNCHANGED <<rows, pastExpiry, mail, sealJob, mints, uses, window>>

ExpireRead(p) ==
    /\ At(p, "retire")
    /\ Become(p, IF env = "gone" THEN Idle ELSE [at |-> "retiring"])
    /\ UNCHANGED <<rows, pastExpiry, mail, sealJob, mints, uses, window>>

ExpireWrite(p) ==
    /\ At(p, "retiring")
    /\ env' = Settle({"sent", "viewed"}, "expired")
    /\ hash' = Stripped
    /\ Become(p, Idle)
    /\ UNCHANGED <<rcStatus, consent, reminders, pastExpiry, ripe, mail, sealJob,
                   mints, uses, window>>

-------------------------------------------------------------------------------
(***************************************************************************)
(* The surroundings: the mail worker, the clock, a process that dies.      *)
(***************************************************************************)
DeliverJob(j) ==
    /\ jobs' = jobs \ {j}
    /\ \/ Receive(j.link)
       \/ "mailfail" \in Ops /\ UNCHANGED inbox
    /\ UNCHANGED <<rows, pastExpiry, h, sealJob, mints, uses, window>>

Expiry ==
    /\ "expire" \in Ops
    /\ env # "none" /\ ~pastExpiry
    /\ pastExpiry' = TRUE
    /\ UNCHANGED <<rows, h, mail, sealJob, mints, uses, window>>

\* A minute passes after the last link issued to r.
CooldownEnds(r) ==
    /\ "resend" \in Ops \/ "remind" \in Ops
    /\ window[r] # 0
    /\ window' = [window EXCEPT ![r] = 0]
    /\ UNCHANGED <<rows, pastExpiry, h, mail, sealJob, mints, uses>>

\* REMINDER_AFTER_DAYS pass since r was last invited or reminded.  Days are
\* long beside a request or a queued e-mail, so none of them spans one.
Ripens(r) ==
    /\ "nudge" \in Ops
    /\ r \in Signers /\ Active(r) /\ ~ripe[r]
    /\ Quiet
    /\ ripe' = [ripe EXCEPT ![r] = TRUE]
    /\ UNCHANGED <<env, rcStatus, hash, consent, reminders, pastExpiry, h,
                   mail, sealJob, mints, uses, window>>

\* The process dies, or the next transaction of the handler fails.
Crash(p) ==
    /\ "crash" \in Ops
    /\ ~At(p, "idle")
    /\ Become(p, Idle)
    /\ UNCHANGED <<rows, pastExpiry, mail, sealJob, mints, uses, window>>

\* A handler that has started goes on.
Continue(p) ==
    \/ DispatchInvite(p) \/ DispatchFail(p) \/ Rollback(p)
    \/ ViewWrite(p) \/ ConsentWrite(p) \/ Claim(p)
    \/ AdvanceRead(p) \/ AdvanceComplete(p) \/ AdvanceHandOff(p) \/ AdvanceNothing(p)
    \/ RouteInvite(p) \/ EnqueueSeal(p)
    \/ VoidWrite(p)
    \/ ResendRead(p) \/ ResendWrite(p) \/ ResendMail(p)
    \/ RemindRead(p) \/ RemindClaim(p) \/ Nudge(p)
    \/ ExpireRead(p) \/ ExpireWrite(p)

Start(p) ==
    \/ Send(p) \/ VoidRead(p) \/ ExpireFind(p)
    \/ \E r \in Recipients : Resend(p, r) \/ Remind(p, r) \/ RemindFind(p, r)
    \/ \E r \in Recipients, n \in 1..MaxMints :
         ViewLoad(p, r, n) \/ ConsentLoad(p, r, n) \/ SubmitLoad(p, r, n)

Next ==
    \/ \E p \in Handlers : Start(p) \/ Continue(p) \/ Crash(p)
    \/ \E j \in jobs : DeliverJob(j)
    \/ Expiry
    \/ \E r \in Recipients : CooldownEnds(r) \/ Ripens(r)

Spec == Init /\ [][Next]_vars

\* A started handler runs on (the event loop and the database answer) and
\* the queue's worker delivers; nobody is obliged to start anything.
Fairness ==
    /\ \A p \in Handlers : WF_vars(Continue(p))
    /\ WF_vars(\E j \in jobs : DeliverJob(j))

FairSpec == Spec /\ Fairness

-------------------------------------------------------------------------------
(***************************************************************************)
(* Properties.                                                             *)
(***************************************************************************)
EverSigned(r) == \E n \in 1..MaxMints : uses[r][n] > 0
AllSigned     == \A r \in Signers : rcStatus[r] = "completed"
Earlier(s, r) == s \in Signers /\ Order[s] < Order[r]

\* A link records at most one signature, however many tabs submit it and
\* whatever is re-issued meanwhile (the atomic claim of submit).
LinkSingleUse == \A r \in Recipients, n \in 1..MaxMints : uses[r][n] <= 1

\* Nobody's turn comes before everyone in the earlier groups has signed:
\* with sequential routing a later signer holds no link before that.
RoutingOrderKept ==
    Mode = "sequential" =>
        \A r \in Signers, s \in Signers :
            Order[s] < Order[r] /\ mints[r] > 0 => EverSigned(s)

\* The envelope completes, and its seal is ordered, only when every signer
\* has signed.
SealedOnlyWhenAllSigned ==
    env = "completed" \/ sealJob => \A r \in Signers : EverSigned(r)

\* Once an envelope is cancelled or retired no signature is recorded on it any
\* more, not even by a submit that had loaded its page before that.
NoSignatureOnceRetired ==
    [][(env \in {"voided", "expired"}) => uses' = uses]_vars

\* Of the signers who finish at the same moment one sees all the others, so a
\* fully signed open envelope always has a handler about to complete it.
CompletionOwed ==
    Open /\ AllSigned =>
        \E p \in Handlers :
            \/ At(p, "advance")
            \/ At(p, "decide") /\ AllCompleted(h[p].seen)

\* When everyone before a waiting signer has signed, a handler is about to
\* invite that signer.
HandOffOwed ==
    \A r \in Signers :
        (/\ Open /\ rcStatus[r] = "pending"
         /\ \A s \in Signers : Earlier(s, r) => rcStatus[s] = "completed") =>
            \E p \in Handlers :
                \/ At(p, "advance")
                \/ /\ At(p, "decide")
                   /\ HandsOff(h[p].seen)
                   /\ r \in NextGroup(h[p].seen)

\* When nothing is in flight, whoever is asked to sign has received the link
\* their row now stores.
InvitedHoldLiveLink ==
    Quiet /\ Open => \A r \in Signers : Active(r) => hash[r] \in inbox[r]

\* A fully signed envelope does not stay open.
SignedEnvelopeSettles == (Open /\ AllSigned) ~> ~(Open /\ AllSigned)

\* The envelope implements its abstract specification.
Abs == INSTANCE EnvelopeAbs WITH
         state  <- IF Open THEN "open" ELSE env,
         signed <- {r \in Signers : EverSigned(r)}

\* The promise as a whole: who may sign when, and that completed, voided and
\* expired envelopes stay what they are (the mapping forgets links and handlers).
KeepsPromise == Abs!Spec

-------------------------------------------------------------------------------
(***************************************************************************)
(* The inductive invariant behind the proofs: why the properties above     *)
(* hold, one reason per conjunct.                                          *)
(***************************************************************************)
\* The link a row stores is one that was minted and, while the person may still
\* sign, one that nobody has signed with.  A cc has none.
LinksFresh ==
    \A r \in Recipients :
        /\ hash[r] <= mints[r]
        /\ r \notin Signers => hash[r] = 0
        /\ \A n \in 1..MaxMints :
             /\ uses[r][n] > 0 => n <= mints[r]
             /\ Active(r) /\ hash[r] = n => uses[r][n] = 0

\* "completed" stands for a recorded signature, in the rows and in whatever a
\* handler read from them.
SignaturesRecorded ==
    /\ \A r \in Recipients : rcStatus[r] = "completed" => EverSigned(r)
    /\ \A p \in Handlers :
         /\ At(p, "decide") =>
              \A r \in Recipients : h[p].seen[r] = "completed" => EverSigned(r)
         /\ At(p, "seal") => \A r \in Signers : EverSigned(r)

\* Whoever may be sent another link has had one before.
TurnsTaken ==
    /\ \A r \in Signers : Active(r) => mints[r] > 0
    /\ \A p \in Handlers :
         h[p].at \in {"resend", "remind", "rotate"} =>
             h[p].rc \in Signers /\ mints[h[p].rc] > 0

\* Before the send and after a rollback there is nothing to act on.
NothingOutsideLife ==
    /\ env \in {"none", "gone"} => \A r \in Recipients : rcStatus[r] = "gone"
    /\ env = "none" => /\ \A r \in Recipients : mints[r] = 0
                       /\ \A p \in Handlers : At(p, "idle")

\* Only what is past its expiry expires.
ExpiredIsPast ==
    /\ env = "expired" => pastExpiry
    /\ \A p \in Handlers : h[p].at \in {"retire", "retiring"} => pastExpiry

\* A submit that loaded its page before the envelope was retired claims with
\* an old token: the row's was cleared, and any later one is new.
NoClaimOnceRetired ==
    \A p \in Handlers :
        At(p, "claim") =>
            /\ h[p].tok <= mints[h[p].rc]
            /\ env \in {"voided", "expired"} => ~ClaimHolds(h[p].rc, h[p].tok)

IInv ==
    /\ TypeOK
    /\ LinksFresh /\ LinkSingleUse
    /\ SignaturesRecorded /\ SealedOnlyWhenAllSigned
    /\ TurnsTaken /\ RoutingOrderKept
    /\ NothingOutsideLife /\ ExpiredIsPast /\ NoClaimOnceRetired

(***************************************************************************)
(* When what is owed is done, and why: the condition and the invariants    *)
(* behind the proofs that nobody waits in vain.                            *)
(***************************************************************************)
\* With sequential routing no copy alone is a group that signers wait behind,
\* and none is in the first.
CopiesFollow ==
    Mode = "sequential" =>
        \A c \in Recipients \ Signers, r \in Signers : Order[c] < Order[r] =>
            /\ \E s \in Signers : Order[s] = Order[c]
            /\ \E s \in Signers : Order[s] < Order[c]

\* Whoever waits was seen waiting by every handler that has read the rows, waits
\* for a turn, is sent no other link, and waits with the copies of their group.
WaitingTogether ==
    /\ \A p \in Handlers : At(p, "decide") =>
         \A r \in Recipients : rcStatus[r] = "pending" => h[p].seen[r] = "pending"
    /\ Mode = "parallel" => \A r \in Signers : rcStatus[r] # "pending"
    /\ \A p \in Handlers : At(p, "resend") => rcStatus[h[p].rc] # "pending"
    /\ Mode = "sequential" => \A c \in Recipients \ Signers, s \in Signers :
         /\ Order[s] = Order[c] /\ \E t \in Signers : Order[t] < Order[c]
         /\ rcStatus[c] = "pending"
         => rcStatus[s] = "pending"

\* Everyone signs or reads in a turn of their own, as the editor has it, and
\* links are renewed by the reminder sweep alone.
SoloTurns ==
    /\ Mode = "sequential"
    /\ \A r, s \in Recipients : Order[r] = Order[s] => r = s
    /\ Ops \cap {"resend", "remind"} = {}

\* One signer at a time, and none while a handler makes up its mind who is next;
\* whom it saw waiting still waits.
TurnByTurn ==
    /\ \A r, s \in Signers : Active(r) /\ Active(s) => r = s
    /\ \A p \in Handlers : h[p].at \in {"advance", "decide"} =>
         /\ \A r \in Signers : ~Active(r)
         /\ \A q \in Handlers : h[q].at \in {"advance", "decide"} => q = p
    /\ \A p \in Handlers : At(p, "decide") =>
         \A r \in Recipients : h[p].seen[r] = "pending" => rcStatus[r] = "pending"
    /\ \A p \in Handlers : h[p].at \notin {"rollback", "reissue", "resend"}

\* Nobody is invited to a turn twice, so no invite is dropped for another.
InvitedOnce ==
    /\ env = "none" => jobs = {}
    /\ \A j \in jobs : j.kind = "route" => rcStatus[j.link[1]] # "pending"
    /\ \A p \in Handlers : At(p, "invite") => \A l \in h[p].todo :
         /\ rcStatus[l[1]] # "pending"
         /\ \A j \in jobs : j.kind = "route" => j.link[1] # l[1]
         /\ \A q \in Handlers : At(q, "invite") =>
              \A k \in h[q].todo : k[1] = l[1] => q = p /\ k = l

\* A link that has arrived, is in the queue, or that a handler is about to send.
OnItsWay(r, n) ==
    \/ n \in inbox[r]
    \/ \E j \in jobs : j.link = <<r, n>>
    \/ \E p \in Handlers :
         \/ h[p].at \in {"dispatch", "invite"} /\ <<r, n>> \in h[p].todo
         \/ h[p].at \in {"mail", "nudge"} /\ h[p].link = <<r, n>>

LinksOnTheirWay == Open => \A r \in Signers : Active(r) => OnItsWay(r, hash[r])

(***************************************************************************)
(* What the repository says and these steps refute.                        *)
(***************************************************************************)
\* "They have already signed": a recorded signature is not undone.
SignedStaysSigned ==
    [][\A r \in Recipients :
         rcStatus[r] = "completed" => rcStatus'[r] \in {"completed", "gone"}]_vars

\* "The next group's signers are invited now": at rest each has a working link.
NextGroupInvited ==
    Mode = "sequential" /\ Quiet /\ Open =>
        \A r \in Signers : Active(r) => \E n \in inbox[r] : hash[r] = n

\* Rolling back a committed signature "would destroy real evidence".
EvidenceNeverDeleted == [][env' = "gone" => \A r \in Recipients : ~EverSigned(r)]_vars

\* "The signature is never lost": a fully signed envelope is completed.
SignatureNeverLost == (Open /\ AllSigned) ~> env = "completed"
===============================================================================
