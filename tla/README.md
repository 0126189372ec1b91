# Formal models of the signing service

TLA+ models of the service: the API and its worker (`src/apps/api`), the
signing application (`src/apps/sign`), the senders' web application
(`src/apps/web`), with the tables in `src/packages/db` and the contracts in
`src/packages/contracts`. They say how an envelope goes from *send* to its end,
how the signed document is sealed and delivered, how payments buy access, what
the signer's and the sender's pages do while calls are lost or overtake each
other, how a newcomer gets to a workspace, and what the limits on the public
doors admit. TLC checks every module on small instances; TLAPS proves every safety
property the runs check for every value of the constants, three of them under a
condition that section 5 names.

To run it: `tlc -config <cfg> <MC module>` for each row of the table under
*Runs*, and `tlapm` on the modules named `*Proofs`.

## 1. The system

### Processes and what they share

An API process (NestJS) serves the sender, the signers and the payment
providers; a worker process runs queued jobs (BullMQ on Redis) and three timers:
the reconciler, the expiry sweep and the reminder sweep. Both work on one
Postgres database and one object store. Every `db.tx` is a READ COMMITTED
transaction. Nearly every operation is *read in one transaction, decide, write
in another*, and what protects it is a condition on the UPDATE. Whether that
condition is strong enough is what most of this project is about.

### Inventory

| Component | State | Operations | Hard part | Correct when |
|---|---|---|---|---|
| Envelope lifecycle (`signature-requests.service.ts`) | request status, expiry; recipients' status, token hash, reminder count, sent-at | send (+ rollback), void, resend, remind | reads that are stale when written; half-failed send | links sign once; an ended envelope stays ended |
| Signing ceremony (`signing.service.ts`) | consent, signature, same rows | loadForToken, view, consent, submit, advanceEnvelope, sendInvite | two last signers at once; crash between claim and advance; two hand-offs | order kept; sealed only when all signed; always goes on |
| Sweeps (`lifecycle.ts`, SQL functions) | reminder count, `expired_notified_at` | sweepExpiredEnvelopes, sweepReminders | list is stale when worked on; sweeps overlap | nobody asked to sign is left with dead links only |
| Queue (`queue.service.ts`, `processors.ts`) | jobs by id | enqueue, run, retry, stall | dedupe by job id, at-least-once, 8 s timeout | – (used by the others) |
| Completion (`completion.ts`, `worker.ts`) | `signed_pdf_key`, hashes, seal, `completion_emailed_at`, bucket | completeSignature, deliver, reconcile | runs overlap, any call fails, process dies | one sealed document; everyone gets that one; never lost |
| Alerts (`ops/alerts.ts`) | streak and cooldown in memory | FailureStreak, Alerter | fires on one exact count; restart forgets | told once, and told |
| Billing (`modules/billing`) | `payments`, `tenants.plan/paid_until/trial_ends_at` | checkout, Payme's and Click's calls, activate, cancel | providers repeat and overlap calls; refunds of stacked periods | paid once, granted once, nothing sold twice or given away |
| Plan gate (`common/policy.ts`, `common/trial.ts`) | none | tenantAccess, isLocked | boundary instants | paid time is open |
| Rate limiting (`common/rate-limit.ts`, `common/policy.ts`, `lib/edge-rate-limit.ts`) | hits per key in memory, sorted sets in Redis | allow, the Lua script, falling back | replicas, a Redis that answers late, the limit itself | no window admits more than its budget; nobody pays for another's calls |
| Workspaces (`tenant/tenant-sync.service.ts`, `policy.ts`, account choice) | tenants, users, memberships; Clerk's organizations and session (external) | establish, the gate, onboarding, open, create, set-plan | concurrent first requests; a claim that arrives later than the page; entitlement read before it is used | one workspace per owner, its trial never moved; home opens when the page goes there; only open workspaces are served |
| Preparing (`apps/web/app/prepare/[id]`) | recipients, boxes, the box a pointer holds, history, clipboard, review; the stored template | every edit, gesture, undo, redo, save, review, send | saves nobody waits for; keys and copies; edits behind the review and in the middle of a gesture; two rules for an address | what goes out is what was on screen; a refusal has a cause the sender can see |
| Documents table (`apps/web/app/(app)/agreements`) | filters, selection; a copy of the rows | views, move, delete, restore, folders | overlapping actions and refreshes; lists read one by one, some of which fail; stale selection | the page catches up with the server |
| Templates, documents, picker | objects, `documents`, `templates`; section and selection | upload, starters, update, star, pick | a step that fails after another; two edits of one template | rows have bytes behind them; concurrent edits survive |
| Signing application (`apps/sign`) | the page: consent, fields, adopted mark, progress; calls on their way | resolve, consent, adopt, fill, finish, poll, reload | answers lost or overtaken; two copies of the field rules | no submit refused for its fields; the screen is true; the copy is shown |
| Field values (`signing/field-values.ts`, `contracts`) | none | sanitize, validate | the page and the server decide separately | they agree |
| Seal and verify (`packages/crypto`, `modules/verify`) | key ring | seal, verify, rotate | a rotated key | old seals keep verifying |
| Reports, home, help, landing, e-mail texts, configuration, health | – | – | – | – |

### How they interact

send → queue → e-mail → link → view/consent/submit → advanceEnvelope → (invite
the next group | job `complete-<id>`) → completeSignature → e-mails. resend, remind,
void and both sweeps cut into the middle of that chain on the same rows, and the
reconciler repeats its last part for whatever stands still. Billing touches
none of it: it only decides whether the product is open.

The browsers are clients of this: the signing page reaches the API only through a
relay with a window of its own; the senders' pages render a copy of the rows, call
the API, and ask the router for a new copy. A send is two calls, a save of the
template and a post that snapshots whatever is stored by then.

## 2. Modules

| Module | Models | Lines |
|---|---|---|
| `EnvelopeAbs` | what an envelope promises: who may sign when, how it ends | abstract |
| `Envelope` | one envelope with every operation, sweep and queued link e-mail on it | lifecycle, ceremony, sweeps, queue |
| `EnvelopeProofs` | its theorems | |
| `MCEnvelope` | two to four people for TLC | |
| `Completion` | jobs, runs of completeSignature, reconciler sweeps, alerts | completion, worker, alerts |
| `CompletionProofs` | its theorems | |
| `MCCompletion` | one or two requests for TLC | |
| `Billing` | a workspace's payments and the access they buy | billing, trial, set-plan |
| `BillingProofs` | its theorems | |
| `MCBilling` | two purchases for TLC | |
| `SignFields` | the types of fields and the rules of both sides of the wire | contracts, sign-fields, field-values |
| `AdoptDialog` | the dialog in which a mark is typed, drawn or uploaded | adopt-signature-dialog, signature-image |
| `Ceremony`, `MCCeremony` | the signing page, its calls and the server behind them | ceremony, completion-flow, relay |
| `CeremonyProofs` | theorems about it and the two sets of field rules | |
| `History` | undo and redo in the abstract: a line of versions and a place on it | abstract |
| `Layout` | the boxes of a document and every edit of them | editor, pdf-page, field-properties |
| `Prepare`, `MCPrepare` | recipients, layout, saving and sending | editor, setup-step, send-review, send |
| `PrepareProofs` | theorems about it, and that it refines `History` | |
| `RateLimit`, `MCRateLimit` | the five windows on two replicas and Redis | rate-limit, policy, edge-rate-limit |
| `RateLimitProofs` | its theorems | |
| `Tenancy`, `MCTenancy` | Clerk, the session path, the gate, the account choice | tenant-sync, policy, trial, account-choice |
| `TenancyProofs` | its theorems | |
| `Shell` | what pages share: rows, the copy shown, the renders that renew it | page.tsx, queries, apiGet; the router |
| `Agreements` | the table of documents and its filing | agreements-client, views, folders |
| `Library` | templates, documents, the picker | templates, documents, template-picker |
| `Dashboard`, `MCDashboard` | `Agreements` and `Library` composed over one workspace | navigation |
| `DashboardProofs` | theorems about the composition | |

### Envelope

A *handler* is one HTTP request or one sweep item. Its stage `h[p]` holds what
the code read before its last `await` and still uses. Reads and conditional
UPDATEs are separate steps; the writes of one transaction are one step.

| Code | Actions |
|---|---|
| `send` | `Send` (the create transaction), `DispatchInvite` per queue add, `DispatchFail` → `Rollback` |
| `view`, `consent` | `ViewLoad`/`ViewWrite`, `ConsentLoad`/`ConsentWrite` |
| `submit` | `SubmitLoad`, `Claim`, then `AdvanceRead`, one of `AdvanceComplete` / `AdvanceHandOff` / `AdvanceNothing`, then `EnqueueSeal` or `RouteInvite` |
| `void` | `VoidRead`, `VoidWrite` |
| `resend`, `remind` | `Remind` → `ResendRead`, `Resend` → `ResendWrite` → `ResendMail` |
| `sweepReminders` | `RemindFind`, `RemindRead`, `RemindClaim`, `Nudge` |
| `sweepExpiredEnvelopes` | `ExpireFind`, `ExpireRead`, `ExpireWrite` |
| mail jobs, clock, failures | `DeliverJob`, `Expiry`, `CooldownEnds`, `Ripens`, `Crash` |

Abstractions, and why they lose nothing here:

- A signing token is 256 random bits, so it is the pair (person, how many were
  minted for them before). `hash[r] = n` is the stored hash, 0 a NULL.
- `loadForToken`'s resolver lookup and re-checks are one read; so are a request and
  the recipients read with it by `include`. Nothing is written between them.
- The resend cooldown is a window that the clock may close at any moment; the
  reminder interval (days) only elapses while nothing is in flight, because a
  request or a queued e-mail lasts seconds.
- `Crash` is both a dead process and a failed transaction (a lock-order abort
  between `view` and `void` is one). `"mailfail"` is an e-mail that throws or a job that
  has used its attempts. `"queuefail"` includes the 8 s timeout after which the
  add still lands.
- Contracts refuse two recipients with one e-mail address and an envelope without a
  signer (`SomeSigner`).
- Left out: folders, soft delete and restore (dashboard only), the legacy
  single-recipient token, the announcements of a cancellation or an expiry.

### Completion

A *run* of completeSignature belongs to a worker slot or to a sweep: `Load`, `Stamp`
(or `StampRefused` for a PDF that can never be stamped), `Upload`, `Record` (the
conditional update that lets one run win), `Send` per e-mail, `Mark`. `Fail` may cut
it at any call, with or without the call's effect. `TakeJob`, `Stall`, `JobDone`,
`JobFailed` are BullMQ's side: a failed run uses one of the job's `Attempts`, a lost
lock counts against `MaxStalled` (BullMQ's default, 1) instead, and a run that lost its
lock is not listened to. `SweepFind`, `SweepNext`, `SweepDone`, `SweepFailed` are the
reconciler's, with the alert bookkeeping in the last two. `Restart` forgets
everything in memory. An artifact is a number: every stamping makes new bytes.
The audience's order is not fixed. Failure counts saturate one past the
threshold, which is all the code compares them with.

### Billing

A *callback* reads the payment (`PaymeCreate`, `PaymePerform`, `PaymeCancel`,
`ClickPrepare`, `ClickComplete`) and later writes (`Attach`, `AttachPrepareId`,
`Activate`, `Cancel`). activate and cancel hold `SELECT … FOR UPDATE` on the
workspace's row from start to end, so each is one step. `Checkout`, `SetPlan`
(`set-plan.mjs`), the clock and `Crash` are the surroundings. Time is a small counter,
0 is NULL, and the length of a purchase is any of `PeriodLengths`, since calendar
months vary. A prepare id is any of `PrepareIds`. Signatures, amounts and the calls
that only answer are left out. `reported` and `forHuman` are history: the
perform_times answered and the reversals logged as "needs a human".

### Ceremony, AdoptDialog, SignFields

The page (`page`, `filled`, `adopted`, the dialog) and the server meet only in
calls; of each kind one is on its way, `Serve(c)` answers it, `Lose` loses the
call or the answer, and a `Take…` action is the continuation after the `await`.
The server's part is what `signing.service.ts` does for this one link: `Envelope`
has it in full. `Retire`, `Complete` and `SealCopy` are everybody else. A lost
submit may still land (`StrayLands`). `FillBox` gives a box any text its control
lets through, `Texts` being the shortest set that tells the rules apart: blank,
spaces, half a phone number, a good one, and so on. Canvas geometry is reduced to
"there is ink"; zooming to painting the pages again.

| Code | Actions |
|---|---|
| effects of `Ceremony` | `OpeningCalls` (in `Init` and `Reload`), `TakeView`, `TakeDocument`, `TakeStatus` |
| consent gate | `TickAgreement`, `AcceptConsent`, `TakeConsent` |
| fields and marks | `FillBox`, `ClickMark`, `UseDialog`, `AdoptAndSign`, `CloseDialog` |
| `onFinish` | `Finish`, `TakeSubmit` |
| `CompletionFlow` | `LeaveTo`, `CopyOffered` |

### Prepare, Layout, History

`Layout` keeps the boxes in one dimension, in rows of a page, since the code treats
the other alike. What a filter of an array keeps is `Only(s, I)`, the elements at the
places in `I`; the mth copy for everyone is `Copy(keys, m)`, counted over the donor's boxes
and the signers who have none. `Commit` is the one way into the history.

A gesture is three actions. `StartGesture` keeps the box as it is when the button goes
down (`held`), `PointerMoves` changes the box of that identity by clamps that count with
`held`, `EndGesture` lets go. In between the keyboard may undo, redo, paste or delete,
since the listeners are the window's. `slipped` is history: a move met the box with another
height, or for a resize another place, than `held` has. `Storable` is what the contract
lets the API keep: on the page (`OnPage`), no blank option. `Layouts` adds identities of
their own (`crypto.randomUUID`).

`Prepare` adds the recipients and the two calls of a send: `SaveLands`, `SaveRefused` (the
layout is not `Storable`) or `SaveFails`, then `Post` or `PostLost`, with `LateSaveLands` (a
save of the menu nobody waited for) and `ColleagueSaves` between them. `Verdict` is what
the API made of it. There are two rules for an address: `IsComplete` is the regular
expression of the setup step (`recipients.ts:49`), `IsEmail` the API's `z.email()`
(`contracts/src/index.ts:287`); the addresses in `Unmailable` pass the first only
(`r&d@company.uz`, `a..b@c.uz`). `unready`, `touched` and `disturbed` are history: the sender
bypassed the completeness check, edited behind the review, or another save landed in between.

### RateLimit

A call carries the instant of its arrival through its windows. `MeetFloor` is the
synchronous part (`SlidingWindowRateLimiter.allow`, or as far as the `await` of the
shared form); `Verdict` is Redis in time, `TimesOut` everything else, with `LateRun`
for a script that runs after all. No call passes a window twice, so a floor's list of
instants is kept as the set of the calls that pushed them, `hits[<<replica, window, key>>]`,
and a call's instant is its `stamp`. Clean-up of idle keys and `PEXPIRE` drop only what
the next prune would, and are left out.

### Tenancy

A request is `Ensure` (the tenant, by organization or person), `UpsertUser`,
`FindPersonal`, `Enter` (membership and entitlement, one transaction), `Gate`; `Fail`
may end it at any statement. Clerk is external: memberships, the session's active
organization, an activation that reaches the session first and the page's hook
later. The account choice has its own state (`page`), and `Navigates` is the
server's rendering of home. `wasOpen` is history: the workspace was open when its
entitlement was read.

### Dashboard

`Shell` has the rows and the page's copy. A render (`coming`), of a page a link leads to or
again of the one that is open, reads each list that page shows on its own (`Read`), at a moment of
its own, or fails to (`ReadFails`: no token, no answer, a status that is not OK), which
gives an empty list; then it `Lands`. `blank` are the lists on screen that failed. The page
stays in use until then. The router is external: it runs one refresh at a time
and in order, and a navigation drops the render under way and the refreshes still waiting.
`Agreements` and `Library` are the two pages, each with its calls, which go on when the
page is left (`mounted` tells whether anybody still listens). A link to the page that is
open keeps its component and its state (`Looks`), any other starts anew (`Leaves`). Buttons
wait for a call only where the code has them do so: Enter submits the upload form again, a star waits
for no other, and of two overlapping actions the first to end frees the button of both.
Left out: an answer that does not fit its schema, which makes the whole render fail; a
failed read of the starters, which leaves that section empty as well.
 `behind` is history: something changed that the page was never told.
`written` is history: what was last asked of each column of a template.

## 3. Runs

`race` takes about two minutes with two workers, `workspaces`, `limits`, `signing`,
`delivery`, `preparing` and `dashboard` one to two, the others less. Bounds: `MaxMints` tokens per
person, `ReminderMax` reminders, `MaxStamps`, `MaxFaults`, `MaxTime`, `MaxAttempts` polls,
`MaxReloads`, `MaxBoxes`, `MaxEvents`, `MaxCalls`, `MaxLate`, `MaxPlanChanges`, `MaxLeft`,
`MaxTemplates`, `MaxJobs`, `MaxChanges`, and the constraints `OneHand` and `TwoAtATime`; the
rest are sets.

| Run | Instance | Shows |
|---|---|---|
| `routing` | 2 signers in 2 groups, 2 handlers, void, expire, nudge, crash, queue and mail failures | `TypeOK`, `SealedOnlyWhenAllSigned`, `NoSignatureOnceRetired`; `KeepsPromise`: refines `EnvelopeAbs` |
| `reissue` | 1 signer, 3 handlers, 3 tokens, resend, remind, nudge, void | `LinkSingleUse`, `InvitedHoldLiveLink` |
| `handoff` | 2 signers, then a signer and a cc, void and expire, fairness | `RoutingOrderKept`, `HandOffOwed`, `CompletionOwed`, `SignedEnvelopeSettles` |
| `race` | 1 request, 2 slots, 2 overlapping sweeps, 2 failures, stalls or lost jobs anywhere | `CopiesMatchSeal`, `SealedBytesStored`, `MarkedMeansDelivered` |
| `delivery` | a request that cannot be stamped before one that can, 1 slot, 1 sweep, fairness | `SignatureDelivered`, `OneAlarmPerFault` |
| `ledger` | a Payme and a Click purchase, 2 callbacks in flight, 3 instants, periods of 1 or 2 | `PeriodsDisjoint`, `PaidNeverLocked`, `OpenTimeWasBought`, `SettledOnce` |
| `signing` | a signature, an initial, a required phone box and a date; 3 polls, 1 lost answer, 1 reload, fairness | `SubmitsAreAccepted`, `ScreenTruthful`, `NeverLockedOut`, `CopyRevealed`, `TypeOK` |
| `preparing` | a page of 4 rows, 2 recipients, an address for each rule, 2 boxes by hand, history of 1, 4 events, gestures | `EnvelopeSound`, `RefusalsExplained`, `TypeOK` (on the page unless a gesture slipped; what is stored always is); `KeepsTimeline`: refines `History` |
| `limits` | 2 replicas, 3 calls of three surfaces, budgets of 1 and 2, a window of 2 instants | `CapHolds`, `RefusedOnlyOverBudget`, `TypeOK` |
| `workspaces` | a newcomer and a colleague, 2 organizations, 2 requests, one plan change, one departure | `HomeOpens`, `ServedWasOpen`, `WorkspacesKept`, `TypeOK` |
| `dashboard` | a document sent, a template kept, one folder, and any two of: a call, a job, a colleague's change, a send, a failed read, a page not as it first shows | `CatchesUp`, `BytesBehindEveryRow`, `ChangesKept`, `PickIsOffered` |
| `undone` | the smallest instance that shows it | `SignedStaysSigned`, which the code breaks, below |

Why the bounds are enough to be interesting: every race above is between two
operations on one row, and two handlers (three where a third operation is
needed: submit, resend and void) interleave all of their steps. Two signers
in a group and one after them are the least for a hand-off race; three tokens the
least for a link that is replaced twice. Two faults are enough to fail a job and its
retry, or to stall one and cut off its double; restarts happen in
`delivery`, and overlapping sweeps with alerts are left to the proof. Three instants and two period lengths let a purchase be
early, late, refunded and overtaken. In `signing` one fault is enough to lose any one
answer, and a reload comes at any moment; two faults only lose two. In `preparing` a send,
a late save and a colleague's save fit within the four events together with an edit
on each side of the review; a history of one entry makes the limit bite at once. A gesture
moves by any rows of `Pointed` at no cost in events, before, between and after the edits;
`OneHand` keeps it apart from calls under way, which do not see it: they carry a layout of
their own. In `limits` the budgets of one are reached by the second call, and the sequence number
wraps at two. Two requests in `workspaces` are the least for a race of first requests, and
one instant the least for a trial that ends on the way. `dashboard` bounds its events and
the ways a page is turned together (`TwoAtATime`), since each of its properties is about two of them meeting: an
action and an action, an action and a colleague or a failed read, a save and a star; renders,
refreshes and navigations are not counted. What the bounds cut off, the proofs cover
for safety.

`CHECK_DEADLOCK FALSE` in the envelope and completion runs: an envelope that has
ended, or a delivered request, may rest for ever, and in the five runs of pages and
requests, where the bounds end a behaviour. The ledger never stops.

**Fairness.** Envelope: a handler that started goes on (the event loop runs and
Postgres answers) and the queue delivers; nobody has to sign, send or click.
Completion: each worker slot and each sweep goes on and time passes; failures end
because `MaxFaults` bounds them, which is the assumption that the queue, the store
and the mail server recover. Ceremony: the page's continuations and its poll run
(`WF(Page)`: the event loop and the interval) and each call that is on its way is
answered (`WF(Serve(c))`: fetch settles); nobody has to tick, fill or finish. The
other runs state no liveness. No strong fairness is used.

## 4. What the code does otherwise than it says

`undone` is the run of its own: resend reads a recipient, they sign, resend writes
`sent` and a new hash by id alone. The signature is undone (`SignedStaysSigned`), and
the sealed document may lack that mark.

These are stated in the modules, and no run of the table checks them. Each can be
reproduced by a cfg like the one named, with the definition as its `PROPERTY` or
`INVARIANT`; TLC finds every one of them violated.

| Definition | Instance | Scenario |
|---|---|---|
| `Envelope!SignatureNeverLost` | `routing` with one signer in one group, `Ops = {"crash"}`, `FairSpec` | the process dies after submit's claim and before advanceEnvelope; the reconciler looks only at `completed` envelopes |
| `Envelope!EvidenceNeverDeleted` | `routing` with both signers in one group, `Ops = {"queuefail"}` | the first invitee signs while a later invitation fails to be queued; send's rollback deletes the envelope |
| `Envelope!NextGroupInvited` | `handoff` with two signers and then a third, `Ops = {}` | two signers of a group finish at once and both hand off; the e-mail that survives the job-id deduplication carries the token that was not stored |
| `Envelope!InvitedHoldLiveLink` | `routing` with 3 handlers, 3 tokens, `Ops = {"resend"}` | resend undoes a signature before its handler has looked at the envelope, the person signs again, and both handlers hand off to the next signer: of the two invitations the one with the dead token survives |
| `Envelope!HandOffOwed` | `handoff` with a signer, a cc and a signer in groups 1, 2 and 3, `Ops = {}` | the hand-off to the group of the cc marks it as sent, invites nobody and goes no further, so the last signer waits for ever (`signing.service.ts:178`, against `schema.prisma:150`: a cc "never blocks"); the editor gives every recipient a group of its own (`editor.tsx:360`) |
| `Completion!StuckIsReported` | `delivery` with `MaxFaults = 0`, a single request and `Ops = {"alertfail"}` | the alert e-mail fails at the one failure that equals the threshold; nothing raises it again |
| `Billing!PerformTimesRecorded` | `ledger` with one payment | performTransaction ignores what activate returns; after a cancel or an overlapping repeat it answers a perform_time that is not recorded |
| `Ceremony!ToldToFinishCanFinish` | `signing` with one phone box | Finish asks for an adopted mark even when no field does, while the page says to select it |
| `Prepare!AlwaysOnPage` | `preparing` | undo, redo or paste in the middle of a gesture: the next move clamps with the box as it was at mousedown, and the box of now ends past the edge |
| `Prepare!ReadyIsAccepted` | `preparing` | an address the setup step calls ready is refused by the API's rule |
| `Prepare!DistinctKeys` | `preparing` with `MaxRecipients = 3` | a row added after a middle one was removed takes the key of another |
| `RateLimit!CapIsGlobal` | `limits` | two replicas write one member of the Redis set for two calls |
| `Tenancy!MirrorsClerk` | `workspaces` | the row of somebody who left a company stays, or comes back with an older token |
| `Dashboard!ShowsTheServers` | `dashboard` | a read that fails is an empty list: the page settles on a table with nothing in it and no error |
| `Agreements!ActsOnWhatIsShown` | `dashboard` | rows ticked before a filter or a tab hid them are moved or deleted with the rest |

What the page modules show and no definition states:

- "Add Fields" in the header skips the completeness check of "Next", so a recipient
  without an address reaches send, which drops them (`editor.tsx:416`; `Prepare` keeps it
  as `unready`, and it is an exception of `EnvelopeSound`);
- a drag or a resize enters no history (`editor.tsx:160`, against its comment), and counts with the
  box of its mousedown whatever the keyboard has done since (`pdf-page.tsx:137`; `slipped`);
- an option of a dropdown may be cleared, and the first to object is the API at the save
  of the send (`field-properties.tsx:126`, `contracts/src/index.ts:681`; `SaveRefused`);
- "Save layout" is not waited for and may land after the save of a send
  (`editor.tsx:538`; `disturbed`);
- a submit whose answer is lost leaves an error, and a reload "not valid", though the
  signature stands (`ceremony.tsx:317`; the exceptions of `ScreenTruthful` and
  `NeverLockedOut`); after its last poll the page still says the copy is being prepared
  (`ceremony.tsx:216`); the first of several signers is told that all have a completed copy
  (`completion-flow.tsx:76`);
- the review promises that the first signer has been e-mailed when a cc comes first
  (`send-review.tsx:72`);
- pro granted by hand leaves a lapsed `paid_until`, so the workspace stays locked
  (`set-plan.mjs:124`);
- the picker's search box leaves its selection alone (`template-picker.tsx:71`); "Sign
  something myself" does what its neighbour does (`new-packet-button.tsx:60`); the list ends
  at 500 rows (`signature-requests.service.ts:554`); `lastChange` does not see a recipient
  sign (`signature-requests.service.ts:675`).

Seen while modelling, without a property:

- a resend or reminder that read before a void stores a fresh hash after it
  (`signature-requests.service.ts:350`, against 270-271); loadForToken still refuses the link;
- an older link queued by resend may arrive after a newer reminder, so the newest
  e-mail is not always the one that works (`lifecycle.ts:76-78`);
- two overlapping reminder sweeps may both remind (`lifecycle.ts:89-92`), two resends may
  pass one cooldown (`signature-requests.service.ts:340-343`), two expiry sweeps may both tell
  the sender (`lifecycle.ts:41`), and void may announce a cancellation that did not
  happen (`signature-requests.service.ts:299`);
- a cc alone in the lowest group: nobody is invited (`signature-requests.service.ts:177`,
  against `schema.prisma:150`), which is why every first group of the runs holds a signer
  (`CopiesFollow`);
- a reminder can replace the token of someone who has just signed, so the link
  they signed with no longer shows them their copy (`signing.service.ts:301-303`);
- deliver keeps no record per person, so a retry mails some people twice (`completion.ts:23-25`);
- the sweep takes the oldest `Limit` requests: when that many can never be sealed,
  younger ones wait for ever. `delivery` has room for one healthy request; with
  `Limit = 1` TLC finds `SignatureDelivered` violated;
- two CreateTransactions for one order both succeed and the second id overwrites the
  first (`payme.service.ts:49-69`); two Prepares may issue two ids (`click.service.ts:69-72`);
  cancel reports a state it read earlier (`payme.service.ts:110`); a refund during a trial or of a
  workspace granted pro by hand closes access it had before (`billing.service.ts:187`);
- `view` locks recipient and then envelope, `void` and the expiry sweep the other way round,
  so Postgres may abort one (`signing.service.ts:254`; a `Crash` of the handler);
- each period starts at `paid_until`, which a short month has already cut: twelve single
  months bought from 31 January end on the 28th, against `billing.math.ts:54-55` (any length
  in `PeriodLengths`);
- the API refuses a document name over 200 letters and a layout of over 500 boxes, and the
  editor limits neither (`editor.tsx:427`, `contracts/src/index.ts:722` and 692);
- the Redis client is awaited outside the limiter's timeout (`rate-limit.ts:112`);
- an address that another Clerk user's row holds fails every request of the second user
  (`tenant-sync.service.ts:65`; `Taken`).

## 5. Proofs

Assumptions: only the named ones on the constants (every `ASSUME` is called `…Assumption`,
and `SomeSigner`); TLC evaluates each on a run. Besides types they say that periods are
not empty, that the rows and layouts a workspace starts with are ones the schema and the
contract admit, that an envelope has a signer, that an absent submit (`Nothing`) is not a
submit. No bound on people, handlers,
tokens, payments, requests, calls, boxes, fields or time. Each module states an inductive
invariant `IInv`, which was checked with TLC before it was proved, and shows `Init => IInv` and
`IInv /\ [Next]_vars => IInv'` action by action.

**`EnvelopeProofs`.** None of the properties is inductive. `IInv` adds why they hold:

- `LinksFresh`: a stored hash belongs to a minted token and, while its owner may sign,
  to one nobody signed with. This is what makes `LinkSingleUse` survive re-issues.
- `SignaturesRecorded`: *completed*, in a row or in what a handler read, stands for a
  recorded signature, and a handler about to order the seal has seen all of them.
- `TurnsTaken`: whoever can be sent another link had one before, so no re-issue
  jumps the order.
- `NoClaimOnceRetired`: a claim in flight on a retired envelope holds an old token,
  whose hash is gone; tokens minted later are larger.
- `NothingOutsideLife`, `ExpiredIsPast`: before the send nothing is there; only
  what is past its expiry expires.

From it: `TypeCorrect`, `InvariantHolds`, `EachLinkSignsOnce`, `SealsAreEarned`,
`TurnsAreKept`, `RetiredStaysUnsigned`, and `ImplementsAbs`: every step maps to a step of
`EnvelopeAbs` or to a stutter.

Three properties are true only while nothing is lost, so their theorems carry the condition:

- `CompletionIsOwed` (`"crash" \notin Ops`): of two signers who finish together, the one whose
  claim commits second reads the envelope after both, so `CompletionOwed` needs no more
  than itself and `IInv`.
- `HandOffIsOwed` (`"crash" \notin Ops` and `CopiesFollow`). `WaitingTogether` says why a
  handler about to hand off is right: whoever still waits was waiting when it read the rows,
  and a cc waits with the signers of its group. `CopiesFollow` is that no cc stands alone
  before a signer. It was found in proving this: without it the property is false
  (section 4). The group next in turn is the least of those waiting, which exists since the
  naturals below any bound are finite.
- `InvitedHaveTheirLink` (parallel routing, or `SoloTurns`; no lost e-mail, job or process).
  `LinksOnTheirWay`: the link whose hash is stored has arrived, is queued, or a handler holds it.
  Only the jobs of a hand-off are dropped for a taken id, so `InvitedOnce` is needed: nobody
  has two of them. With parallel routing there are none. `SoloTurns` is the editor's
  sequential routing (`editor.tsx:360`: everyone an order of their own), with the sweep's
  reminders, void and expiry; `TurnByTurn` then says that at most one signer is asked
  at a time, that none is while a handler decides who is next, and that there is one
  such handler, so whom it calls was waiting. Both conditions are sharp: a group of two has the
  race of `NextGroupInvited`, and resend brings it to groups of one (section 4).

**`CompletionProofs`.** That everyone holds the same document says nothing about the
runs still to send one, so `IInv` adds:

- `RunsHoldTheSeal`: who is about to record has uploaded; who is about to send has
  the artifact on the row, and whoever it need not write to any more has a copy.
- `SignedWork`: jobs, runs and sweeps are about signed requests.
- `JobsWithinLimits`: a job that waits or runs has a try and a stall left, and only one
  that runs is locked, so the queue never overdraws either count.
- `SickUnsealed`: a run of a PDF that cannot be stamped never ends well, so only a new
  process resets its failure streak.
- `AlarmsCounted`: an alert of this life of the process comes with a streak at or
  past the threshold.

The one other fact is monotone (`Grows`): seals, files, copies and marks stay, which
is `Record`'s condition on a row without an artifact. From it: `TypeCorrect`,
`Invariance`, `CopiesAreSealed`, `SealsAreStored`, `MarksAreDelivered`, `OneAlarm`.

**`BillingProofs`.** `IInv` says that periods are real (`PeriodsReal`), disjoint, none
reaches past `paid_until` (`PaidTimeKept`), each starts in the past or where another that
still counts ends (`PeriodsStacked`), open time was bought, and clock readings are not
from the future. Disjointness needs `PaidTimeKept`: a new period starts at or after
`paid_until`. Refunds need `PeriodsStacked` and disjointness: taking the last period back to
its start leaves every other one below it. From it: `TypeCorrect`, `Invariance`,
`PeriodsNeverOverlap`, `PaidStaysOpen`, `OpenTimeSold`, `PaymentsSettleOnce`.

**`TenancyProofs`.** What the properties say of requests follows from a condition on each
request alone, `Sound`: a named or known workspace exists and is the caller's own
on the personal path; one that has entered carries the entitlement it read, and if that is
open now it was open then (time only runs forward); one sent from the account
choice with nothing active has a workspace to find, or was let go of. `SoundLater` shows
that a request at rest stays sound while tenants are added, time passes and
people leave, so each action has to be looked at only for the request it moves. `PageSound`
is the page's half of `HomeOpens`: what its hook has seen was active once. From it:
`TypeCorrect`, `Invariance`, `OneWorkspacePerOwner`, `OnlyOpenServed`, `ArrivalOpens`. The
assumption about constants, `TenancyAssumption`, says among other things that the rows
of users that exist before are unique by Clerk id and by address, which the schema's
constraints give.

**`CeremonyProofs`.** The heart is `FinishableIsAccepted`, about no behaviour at all: for any
boxes with any contents, once `BlockingFields` is empty, the API's copy of the rules finds
nothing missing and nothing to refuse. `SubmitsAreAccepted` follows, since all that travels
is what Finish let through. For the others `IInv` says what an answer on its way stands
for, so that it may arrive at any time: `ConsentRecorded`, `AnswersTrue`, `SubmitFit`; the mark
boxes are all empty or all show the adopted image (`MarksAgree`); an answer that closes the
page has a cause outside it (`ClosedFor`); and until the first fault or reload the
signature can only be this page's own (`SignedHere`). From it: `TypeCorrect`,
`NothingSentIsRefused`, `ScreenIsTrue`, `SignerIsNeverLockedOut`.

**`PrepareProofs`.** Three arguments. `EnvelopeSound`: from the moment its save lands the
template is what a send saved, unless `disturbed` says otherwise (`SendsInStep`).
`RefusalsExplained`: opening the review gives every signer a box (the copies cover each key
that had none, which is arithmetic on `Turn` and `CopiedBox`), and only an edit behind it takes
one away (`ReviewInStep`); of the addresses it knows what the editor's rule checked, so that the
API's, where it is stricter, is a cause of its own. `TypeOK` is more than shapes here: every new
identity is unused, and every clamp keeps a box on the page. The clamp of a gesture counts with the box
held, so it keeps the box on screen there only while the two agree; `slipped` marks the first move
where they do not (`DraggedFacts`), and from then on only what is stored is known to be on the
page, because the contract refuses the rest. From these: `TypeCorrect`, `Invariance`, `EnvelopesAreSound`,
`RefusalsHaveCauses`.

`UndoWalksOneLine` is the refinement of `History` by `past \o <<fields>> \o future` and its
place: an edit cuts the line behind the place and drops its oldest versions at the
limit (`CommitIsEdit`), undo and redo move along the same line (`UndoIsBack`, `RedoIsForth`), a drag
changes the version in place (`DragIsDrag`), everything else stutters.

**`RateLimitProofs`.** Counting needs both halves of being in step. `FloorsInStep`: a floor's list
holds every call it let through whose instant is still in the window, and only calls it
let through. `SharedInStep`: the same of a Redis set and the members it granted, and that a
member in the set, or one a late script may still add, was written by a call that no longer
waits for that answer. The first half bounds what gets through (`CapIsKept`), the second
is what a refusal rests on: members of different calls differ or count once, so there are
at least as many calls as members (`RefusalsAreEarned`). From it also `TypeCorrect`.

**`DashboardProofs`.** `StoreSound`: what a job's stage says it has stored is there, and each
update under way writes only the columns it was asked to, so updates that overlap keep each
other (`BytesFirst`, `UpdatesKeepEachOther`). `Told`: the page's copy, or the one on its way, is
current, or a refresh is asked for, or an answer is still to come that will ask for one,
or it was never told (`PageCatchesUp`). The copy on its way is current in the lists it has read so far, and each may be read
at another moment: a change in between is followed by a refresh or marked by `behind`.
`SelectionIsOffered` has an invariant of its own, about the picker alone; it says what a section offers, not
what the search box leaves of it.

**Only model-checked.** Liveness (`SignedEnvelopeSettles`, `SignatureDelivered`,
`CopyRevealed`) is out of the prover's reach. That the two sides agree on each *text* is
part of what `Accepts` and `Trim` say of the members of `Texts`, which stand for what the
regular expressions tell apart.

## 6. Not modelled

- Sealing and verification: a pure function of a row, a key ring and a hash, with the
  signature algorithm in a library. Its public door is a window of `RateLimit`.
- Row-level security: Postgres's; the code sets one session variable per transaction.
- Home, reports, request details, help and landing pages only show what the server
  sent; the details page's actions are `Envelope`'s. The checkout button starts `Billing`'s
  `Checkout`.
- The catalogue of starter templates is data, of which `Library` uses the keys.
- E-mail texts, PDF layout, configuration, health, authentication plumbing: wording, pure
  I/O or start-up. Calendar months are any of `PeriodLengths`.

## 7. Plan

Done: the components of the table in section 1, without its last two rows, and the proofs
of their safety properties. Next, in this order:

1. `DeliveryAbs` and `LedgerAbs`: one delivery without runs, a ledger of periods without
   callbacks, refined by `Completion` and `Billing`, with the refinements proved as
   `ImplementsAbs` is.
2. `Ceremony` composed with `Envelope` in place of its own short server, so that one
   behaviour has the page, the relay's window and the other signers in it.
3. `Calendar`: `grantedPeriod` and `addMonths` on real month lengths; `SealRing`: rotation.
