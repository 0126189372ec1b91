------------------------------ MODULE Ceremony ------------------------------
(***************************************************************************)
(* One signer's page (apps/sign, ceremony.tsx and completion-flow.tsx)     *)
(* between that person, the relay in front of the API, and what the API    *)
(* keeps of that person's link.                                            *)
(*                                                                         *)
(* The page is a client: every call may be refused by the relay (its       *)
(* limiter, its body ceiling, an API it cannot reach), may be carried out  *)
(* and its answer lost, or may fail in the browser.  The relay answers     *)
(* every failure of its own with the same 404 the API gives a dead link.   *)
(* The API's side is what Envelope promises of it: a live link can be      *)
(* viewed, agreed with and signed once.                                    *)
(***************************************************************************)
EXTENDS SignFields, AdoptDialog, Naturals

CONSTANTS
    MaxAttempts,    \* how often the page asks whether the copy is ready (40)
    MaxFaults,      \* bound: calls that are refused, lost or fail
    MaxReloads,     \* bound: times the page is opened again
    Nothing         \* no submit

\* What Finish sends and the API stores: one mark and the values of some boxes.
Marks == {"name", "strokes"} \cup Files
Contents == Texts \cup Options \cup Marks \cup {"true", "today", "signing day"}
Submits == [mark : Marks, values : UNION {[S -> Contents] : S \in SUBSET Fields}]

ASSUME CeremonyAssumption ==
    /\ MaxAttempts \in Nat \ {0} /\ MaxFaults \in Nat /\ MaxReloads \in Nat
    /\ Nothing \notin Submits

VARIABLES
    page,       \* what the page shows, see FreshPage
    adopted,    \* the adopted image, "" before
    pendingField, \* the box whose click opened the dialog, or NoField
    filled,     \* box -> text or image
    net,        \* call -> "idle", "sent", or its answer
    attempts,   \* status calls made
    payload,    \* what the submit under way carries, or Nothing
    strays,     \* submits sent by a page that is gone, still on their way
    server,     \* what the API keeps of the link
    faults, reloads

form == <<dialog, adopted, pendingField, filled>>
wire == <<net, attempts, payload>>
world == <<strays, server, faults, reloads>>
vars == <<page, form, wire, world>>

NoField == "none"
Calls == {"view", "document", "consent", "submit", "status"}

FreshPage ==
    [view |-> FALSE, pdf |-> FALSE, dead |-> FALSE, done |-> FALSE, consented |-> FALSE,
     agreeChecked |-> FALSE, submitError |-> FALSE, artifactsReady |-> FALSE,
     stage |-> "timeline"]

\* A page just opened asks for its view at once.
OpeningCalls == [c \in Calls |-> IF c = "view" THEN "sent" ELSE "idle"]

\* Date Signed shows the day; every other box starts empty.
EmptyBoxes == [f \in Fields |-> IF Kind(f.type) = "auto" THEN "today" ELSE ""]

Init ==
    /\ page = FreshPage
    /\ dialog = Closed /\ adopted = "" /\ pendingField = NoField /\ filled = EmptyBoxes
    /\ net = OpeningCalls /\ attempts = 0 /\ payload = Nothing
    /\ strays = {}
    /\ server = [live |-> TRUE, consentAt |-> FALSE, signed |-> Nothing,
                 completed |-> FALSE, sealed |-> FALSE]
    /\ faults = 0 /\ reloads = 0

-----------------------------------------------------------------------------
(* The API's answer to each call.                                          *)

LoadsForToken == server.live /\ server.signed = Nothing

\* submit: the link, the consent, the values, then the claim.
Signs(p) == LoadsForToken /\ server.consentAt /\ ResolvedOk(p.values)

Signed(p) == IF Signs(p) THEN [server EXCEPT !.signed = [mark |-> p.mark,
                                                         values |-> ResolvedValues(p.values)]]
             ELSE server

\* completedStatus: open to a signer of a completed envelope until it expires.
CompletedStatus == server.live /\ server.completed /\ server.signed # Nothing

ServerAfter(c) ==
    CASE c = "consent" /\ LoadsForToken -> [server EXCEPT !.consentAt = TRUE]
      [] c = "submit" -> Signed(payload)
      [] OTHER -> server

AnswerTo(c) ==
    CASE c = "view" -> IF ~LoadsForToken THEN "gone"
                       ELSE IF server.consentAt THEN "agreed" ELSE "ok"
      [] c = "submit" -> IF Signs(payload) THEN "ok" ELSE "gone"
      [] c = "status" -> IF ~CompletedStatus THEN "gone"
                         ELSE IF server.sealed THEN "ready" ELSE "ok"
      [] OTHER -> IF LoadsForToken THEN "ok" ELSE "gone"

\* The relay forwards the call and brings back the answer.
Serve(c) ==
    /\ net[c] = "sent"
    /\ server' = ServerAfter(c)
    /\ net' = [net EXCEPT ![c] = AnswerTo(c)]
    /\ UNCHANGED <<page, form, attempts, payload, strays, faults, reloads>>

\* The relay sheds or cannot forward the call, or loses the API's answer: a
\* 404 either way.  Or the browser, or the API, fails with something else.
Lose(c, answer) ==
    /\ net[c] = "sent" /\ faults < MaxFaults
    /\ server' \in {server, ServerAfter(c)}
    /\ net' = [net EXCEPT ![c] = answer]
    /\ faults' = faults + 1
    /\ UNCHANGED <<page, form, attempts, payload, strays, reloads>>

StrayLands(p) ==
    /\ p \in strays
    /\ server' \in {server, Signed(p)}
    /\ strays' = strays \ {p}
    /\ UNCHANGED <<page, form, wire, faults, reloads>>

\* The link ends (voided, expired, replaced), the envelope completes once the
\* others have signed too, the worker seals it.  A completed one only expires.
Retire ==
    /\ server.live
    /\ server' = [server EXCEPT !.live = FALSE]
    /\ UNCHANGED <<page, form, wire, strays, faults, reloads>>

Complete ==
    /\ server.signed # Nothing /\ ~server.completed
    /\ server' = [server EXCEPT !.completed = TRUE]
    /\ UNCHANGED <<page, form, wire, strays, faults, reloads>>

SealCopy ==
    /\ server.completed /\ ~server.sealed
    /\ server' = [server EXCEPT !.sealed = TRUE]
    /\ UNCHANGED <<page, form, wire, strays, faults, reloads>>

-----------------------------------------------------------------------------
(* The page takes an answer.                                               *)

Idle(c) == [net EXCEPT ![c] = "idle"]

\* The view opens the form and, with it, the document.
TakeView ==
    /\ net.view \notin {"idle", "sent"}
    /\ IF net.view \in {"ok", "agreed"}
       THEN /\ page' = [page EXCEPT !.view = TRUE, !.consented = (net.view = "agreed")]
            /\ net' = [net EXCEPT !.view = "idle", !.document = "sent"]
       ELSE /\ page' = [page EXCEPT !.dead = TRUE]
            /\ net' = Idle("view")
    /\ UNCHANGED <<form, attempts, payload, world>>

TakeDocument ==
    /\ net.document \notin {"idle", "sent"}
    /\ page' = IF net.document = "ok" THEN [page EXCEPT !.pdf = TRUE]
               ELSE [page EXCEPT !.dead = TRUE]
    /\ net' = Idle("document")
    /\ UNCHANGED <<form, attempts, payload, world>>

TakeConsent ==
    /\ net.consent \notin {"idle", "sent"}
    /\ page' = IF net.consent = "ok" THEN [page EXCEPT !.consented = TRUE]
               ELSE [page EXCEPT !.dead = TRUE]
    /\ net' = Idle("consent")
    /\ UNCHANGED <<form, attempts, payload, world>>

DoneUnlessGone(answer) == IF answer = "gone" THEN "dead" ELSE "done"

\* What an answer to Finish sets: done, a dead link for a 404, or an error
\* to try again.
AfterSubmit(answer) ==
    CASE answer = "ok" -> "done"
      [] answer = "gone" -> "dead"
      [] OTHER -> "submitError"

\* Done starts the first status call.
TakeSubmit ==
    /\ net.submit \notin {"idle", "sent"}
    /\ page' = [page EXCEPT ![AfterSubmit(net.submit)] = TRUE]
    /\ net' = [net EXCEPT !.submit = "idle",
                          !.status = IF page'.done THEN "sent" ELSE "idle"]
    /\ attempts' = IF page'.done THEN 1 ELSE 0
    /\ payload' = Nothing
    /\ UNCHANGED <<form, world>>

RevealsAnyAnswer(answer) == answer # "gone"
Reveals(answer) == answer = "ready"

AsksUnlessRefused(answer) == ~Reveals(answer) /\ answer # "gone" /\ attempts < MaxAttempts
AsksOnceMore(answer) == ~Reveals(answer) /\ attempts <= MaxAttempts
AsksAgain(answer) == ~Reveals(answer) /\ attempts < MaxAttempts

\* A tick of the poll: the copy is ready, or another call while any are left.
TakeStatus ==
    /\ net.status \notin {"idle", "sent"}
    /\ page' = [page EXCEPT !.artifactsReady = Reveals(net.status)]
    /\ net' = [net EXCEPT !.status = IF AsksAgain(net.status) THEN "sent" ELSE "idle"]
    /\ attempts' = IF AsksAgain(net.status) THEN attempts + 1 ELSE attempts
    /\ UNCHANGED <<form, payload, world>>

-----------------------------------------------------------------------------
(* The signer.                                                             *)

DeadFirst == IF page.dead THEN "dead" ELSE IF page.done THEN "done" ELSE "document"

\* Which screen shows: done wins over dead, dead over the document.
Screen == IF page.done THEN "done" ELSE IF page.dead THEN "dead" ELSE "document"
Shown == page.view /\ Screen = "document"
BoxesShown == Shown /\ page.pdf /\ page.consented

TickAgreement ==
    /\ Shown /\ ~page.consented
    /\ page' = [page EXCEPT !.agreeChecked = ~page.agreeChecked]
    /\ UNCHANGED <<form, wire, world>>

AcceptConsent ==
    /\ Shown /\ ~page.consented /\ page.agreeChecked /\ net.consent = "idle"
    /\ net' = [net EXCEPT !.consent = "sent"]
    /\ UNCHANGED <<page, form, attempts, payload, world>>

\* Another zoom step opens the document again; an older answer is dropped.
Zoom ==
    /\ Shown /\ ~dialog.open
    /\ net' = [net EXCEPT !.document = "sent"]
    /\ UNCHANGED <<page, form, attempts, payload, world>>

FillBox(f, v) ==
    /\ BoxesShown /\ ~dialog.open
    /\ f \in InputFields
    /\ filled' = [filled EXCEPT ![f] = v]
    /\ UNCHANGED <<page, dialog, adopted, pendingField, wire, world>>

ClickMark(f) ==
    /\ BoxesShown /\ ~dialog.open /\ f \in MarkFields
    /\ IF adopted = ""
       THEN /\ pendingField' = f.id /\ dialog' = Opened
            /\ UNCHANGED filled
       ELSE /\ filled' = [filled EXCEPT ![f] = adopted]
            /\ UNCHANGED <<pendingField, dialog>>
    /\ UNCHANGED <<page, adopted, wire, world>>

OnlyTheClicked(image) ==
    [f \in Fields |-> IF f.id = pendingField THEN image ELSE filled[f]]

\* The adopted image goes into the box that was clicked and into every other
\* mark box that is still empty.
AdoptedInto(image) ==
    [f \in Fields |-> IF f.id = pendingField \/ (f \in MarkFields /\ filled[f] = "")
                      THEN image ELSE filled[f]]

AdoptAndSign ==
    /\ Shown /\ dialog.open /\ CanAdopt /\ Prepared # ""
    /\ adopted' = Prepared
    /\ filled' = AdoptedInto(Prepared)
    /\ pendingField' = NoField
    /\ dialog' = Closed
    /\ UNCHANGED <<page, wire, world>>

CloseDialog ==
    /\ Shown /\ Close
    /\ pendingField' = NoField
    /\ UNCHANGED <<page, adopted, filled, wire, world>>

UseDialog ==
    /\ Shown /\ DialogNext
    /\ UNCHANGED <<page, adopted, pendingField, filled, wire, world>>

Ready == CanFinish(filled) /\ adopted # ""

Finish ==
    /\ Shown /\ page.consented /\ ~dialog.open
    /\ Ready /\ net.submit = "idle"
    /\ payload' = [mark |-> adopted, values |-> FieldValues(filled)]
    /\ net' = [net EXCEPT !.submit = "sent"]
    /\ page' = [page EXCEPT !.submitError = FALSE]
    /\ UNCHANGED <<form, attempts, world>>

\* What follows the signature: the timeline, then "Save a Copy" or "No Thanks".
LeaveTo(next) ==
    /\ Screen = "done"
    /\ \/ page.stage = "timeline" /\ next = "account"
       \/ page.stage # "closed" /\ next = "closed"
    /\ page' = [page EXCEPT !.stage = next]
    /\ UNCHANGED <<form, wire, world>>

\* The links to the signed copy and its certificate.
CopyOffered == Screen = "done" /\ page.stage # "timeline" /\ page.artifactsReady

\* The link is opened again.  A consent on its way may or may not arrive; a
\* submit on its way still can.
Reload ==
    /\ reloads < MaxReloads
    /\ reloads' = reloads + 1
    /\ server' \in IF net.consent = "sent" THEN {server, ServerAfter("consent")} ELSE {server}
    /\ strays' = IF net.submit = "sent" THEN strays \cup {payload} ELSE strays
    /\ page' = FreshPage
    /\ dialog' = Closed /\ adopted' = "" /\ pendingField' = NoField /\ filled' = EmptyBoxes
    /\ net' = OpeningCalls /\ attempts' = 0 /\ payload' = Nothing
    /\ UNCHANGED faults

-----------------------------------------------------------------------------

Signer ==
    \/ TickAgreement
    \/ AcceptConsent
    \/ Zoom
    \/ \E f \in Fields : \E v \in Enterable(f) : FillBox(f, v)
    \/ \E f \in Fields : ClickMark(f)
    \/ UseDialog
    \/ AdoptAndSign
    \/ CloseDialog
    \/ Finish
    \/ \E next \in {"account", "closed"} : LeaveTo(next)
    \/ Reload

Page == TakeView \/ TakeDocument \/ TakeConsent \/ TakeSubmit \/ TakeStatus

Next ==
    \/ Signer
    \/ Page
    \/ \E c \in Calls : Serve(c)
    \/ \E c \in Calls, answer \in {"gone", "error"} : Lose(c, answer)
    \/ \E p \in strays : StrayLands(p)
    \/ Retire
    \/ Complete
    \/ SealCopy

Spec == Init /\ [][Next]_vars

\* Calls are answered and the page reacts; nobody has to sign, and neither
\* has the worker to seal.
FairSpec ==
    /\ Spec
    /\ WF_vars(Page)
    /\ \A c \in Calls : WF_vars(Serve(c))

-----------------------------------------------------------------------------
(* Properties.                                                             *)

TypeOK ==
    /\ page \in [view : BOOLEAN, pdf : BOOLEAN, dead : BOOLEAN, done : BOOLEAN,
                 consented : BOOLEAN, agreeChecked : BOOLEAN, submitError : BOOLEAN,
                 artifactsReady : BOOLEAN, stage : {"timeline", "account", "closed"}]
    /\ DialogOK
    /\ adopted \in {""} \cup Marks
    /\ pendingField \in {NoField} \cup {f.id : f \in Fields}
    /\ filled \in [Fields -> Contents]
    /\ net \in [Calls -> {"idle", "sent", "ok", "agreed", "ready", "gone", "error"}]
    /\ payload \in Submits \cup {Nothing}
    /\ strays \subseteq Submits
    /\ server \in [live : BOOLEAN, consentAt : BOOLEAN, signed : Submits \cup {Nothing},
                   completed : BOOLEAN, sealed : BOOLEAN]
    /\ attempts \in 0 .. MaxAttempts /\ faults \in 0 .. MaxFaults /\ reloads \in 0 .. MaxReloads

\* What the page lets through, the API accepts: whatever Finish sends has no
\* required box empty and no value the API's own rules refuse.  Otherwise the
\* signer would be told that the link is not valid (sign-fields.ts:60-66).
SubmitsAreAccepted ==
    payload # Nothing => ResolvedOk(payload.values)

\* Every signature and initial box shows the adopted image: it is sent once
\* and the stamper draws it into all of them.
BoxesShowTheMark == adopted # "" => \A f \in MarkFields : filled[f] = adopted

\* Nobody is told "You signed" whose signature is not recorded.
DoneMeansSigned == page.done => server.signed # Nothing

\* The links to the copy are offered once both doors answer.
CopyOfferedExists == CopyOffered => server.sealed

\* What the signer is shown is so (ceremony.tsx:268-269 and 796-799,
\* signing.service.ts:301-304): what they approve on screen is what is sealed.
ScreenTruthful == BoxesShowTheMark /\ DoneMeansSigned /\ CopyOfferedExists

\* While the link lives and no call fails, no order of clicks, zooms and
\* answers ends at "This signing link is not valid" before the document is
\* signed, nor after it unless the link is opened again (the document call of
\* a zoom may well be answered after the signature: done wins over dead).
NeverLockedOut ==
    Screen = "dead" /\ net.submit = "idle" =>
        \/ faults > 0 \/ ~server.live
        \/ server.signed # Nothing /\ reloads > 0

\* A signer who is still asking when the copy is sealed gets to see it.
CopyRevealed ==
    (page.done /\ server.sealed /\ server.live /\ attempts < MaxAttempts /\ faults = MaxFaults)
        ~> (page.artifactsReady \/ ~page.done \/ ~server.live)

\* ceremony.tsx:417-420 tells the signer "Everything's filled in - select Finish."
\* as soon as no box blocks: Finish can then be selected.
ToldToFinishCanFinish ==
    BoxesShown /\ BlockingFields(filled) = {} => Ready
=============================================================================
