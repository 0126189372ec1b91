------------------------------- MODULE Prepare ------------------------------
(***************************************************************************)
(* Preparing a document and sending it (apps/web, prepare/[id]: editor.tsx,*)
(* setup-step.tsx, recipients.ts, send-review.tsx), with the template the  *)
(* API keeps and the two calls that make an envelope of it: the layout is  *)
(* saved, then the API snapshots whatever is stored.                       *)
(*                                                                         *)
(* Between the two, saves of the same template may land that the menu sent *)
(* earlier and did not wait for, or that a colleague's editor sends.  The  *)
(* keyboard edits the layout behind the review as well.  Key n stands for  *)
(* 'signer' (1) and 'signer-n'.                                            *)
(***************************************************************************)
EXTENDS Layout

CONSTANTS
    Stored,         \* layouts the template may hold when the editor opens
    Foreign,        \* layouts a colleague may save
    Addresses,      \* what may be typed into an address field
    Malformed,      \* those the editor refuses, and the API as well
    Unmailable,     \* those that pass the editor's check and not the API's
    MaxRecipients,  \* rows of the setup step (6)
    MaxEvents       \* bound: edits of rows and boxes, saves of the menu and of
                    \* colleagues, calls that fail or whose answer is lost

ASSUME PrepareAssumption ==
    /\ "" \in Addresses /\ Malformed \cup Unmailable \subseteq Addresses \ {""}
    /\ MaxRecipients \in Nat \ {0} /\ MaxEvents \in Nat
    /\ \A boxes \in Stored \cup Foreign : Storable(boxes)
    /\ \A boxes \in Stored : KeysOf(boxes) \subseteq 1 .. MaxRecipients

VARIABLES
    step,           \* "setup" or "fields"
    recipients,     \* rows: [key, email, role]
    review,         \* "closed", or the state of the review dialog
    touched,        \* the layout was edited behind the review
    template,       \* the layout the API keeps
    saves,          \* layouts on their way that nobody waits for
    sends,          \* sends under way
    answer,         \* what the API made of the last one it answered, if anything
    events

people == <<step, recipients>>
calls == <<template, saves, sends, answer>>
vars == <<layout, people, review, touched, calls, events>>

blankRecipient(n) == [key |-> n, email |-> "", role |-> "signer"]

\* How many roles a stored layout implies, never fewer than one.
rolesInFields(boxes) == CHOOSE n \in {1} \cup KeysOf(boxes) :
                            \A k \in {1} \cup KeysOf(boxes) : k <= n

Init ==
    /\ \E boxes \in Stored :
        /\ LayoutInit(boxes)
        /\ template = boxes
        /\ recipients = [n \in 1 .. rolesInFields(boxes) |-> blankRecipient(n)]
    /\ step = "setup"
    /\ review = "closed" /\ touched = FALSE
    /\ saves = {} /\ sends = {} /\ answer = <<>>
    /\ events = 0

Counted == events < MaxEvents /\ events' = events + 1

-----------------------------------------------------------------------------
(* Step one: who receives the document.                                    *)

Rows1 == 1 .. Len(recipients)
SignerRows == Only(recipients, {i \in Rows1 : recipients[i].role = "signer"})
SignerKeys == [i \in 1 .. Len(SignerRows) |-> SignerRows[i].key]
Filled(rows) == Only(rows, {i \in DOMAIN rows : rows[i].email # ""})
Distinct(rows) == \A i, j \in 1 .. Len(rows) : rows[i].email = rows[j].email => i = j

\* The editor's idea of an address, and the API's, which is stricter.
IsComplete(r) == r.email \notin {""} \cup Malformed
IsEmail(r) == IsComplete(r) /\ r.email \notin Unmailable

SetupReady(rows) ==
    /\ \E i \in 1 .. Len(rows) : rows[i].role = "signer" /\ IsComplete(rows[i])
    /\ \A i \in 1 .. Len(rows) : IsComplete(rows[i])
    /\ Distinct(Filled(rows))

ChangeRecipients(rows) ==
    /\ step = "setup" /\ review = "closed" /\ Counted
    /\ recipients' = rows
    /\ UNCHANGED <<layout, step, review, touched, calls>>

SetEmail(i, email) ==
    /\ recipients[i].email # email
    /\ ChangeRecipients([recipients EXCEPT ![i].email = email])

SetRole(i, role) ==
    /\ recipients[i].role # role
    /\ ChangeRecipients([recipients EXCEPT ![i].role = role])

\* The new row takes the key of its position.
AddRecipient ==
    /\ Len(recipients) < MaxRecipients
    /\ ChangeRecipients(Append(recipients, blankRecipient(Len(recipients) + 1)))

\* Refused while the row has boxes.
RemoveRecipient(i) ==
    /\ Len(recipients) > 1 /\ recipients[i].key \notin KeysOf(fields)
    /\ ChangeRecipients(RemoveAt(recipients, i))

\* "Next: add fields" asks for complete rows; the header's "Add Fields" only
\* for a signer.
GoToFields ==
    /\ step = "setup" /\ review = "closed"
    /\ SetupReady(recipients) \/ SignerRows # <<>>
    /\ step' = "fields"
    /\ UNCHANGED <<layout, recipients, review, touched, calls, events>>

GoToSetup ==
    /\ step = "fields" /\ review = "closed"
    /\ step' = "setup"
    /\ UNCHANGED <<layout, recipients, review, touched, calls, events>>

-----------------------------------------------------------------------------
(* Step two: the layout.                                                   *)

Pointing ==
    \/ \E i \in Rows1, row \in Pointed : AddField(recipients[i].key, row)
    \/ \E b \in ToSet(fields), byCorner \in BOOLEAN : StartGesture(b, byCorner)
    \/ \E b \in ToSet(fields), i \in Rows1 : Reassign(b, recipients[i].key)
    \/ \E b \in ToSet(fields), blank \in BOOLEAN : EditOptions(b, blank)
    \/ CopyFieldsToEverySigner(SignerKeys)

Menu ==
    \/ MakeEveryRequired
    \/ \E i \in Rows1 : ClearFieldsOf(recipients[i].key)
    \/ RemoveAll

Keyboard ==
    \/ Undo
    \/ Redo
    \/ \E b \in ToSet(fields) : CopySelected(b)
    \/ Paste
    \/ \E b \in ToSet(fields) : DeleteSelected(b)

\* The pointer needs the editor in front; the menu is there in both steps.
\* The shortcuts work wherever the fields step is mounted, and so do the
\* toolbar's buttons for the same edits.
Behind == review # "closed" /\ fields' # fields

EditLayout ==
    /\ Counted
    /\ \/ step = "fields" /\ review = "closed" /\ Pointing
       \/ review = "closed" /\ Menu
       \/ step = "fields" /\ review # "sent" /\ Keyboard
    /\ touched' = (touched \/ Behind)
    /\ UNCHANGED <<people, review, calls>>

\* A gesture under way follows the pointer over the whole window, whatever the
\* keyboard has opened or changed since.
Drag ==
    /\ review # "sent" /\ \E row \in Pointed : PointerMoves(row)
    /\ touched' = (touched \/ Behind)
    /\ UNCHANGED <<people, review, calls, events>>

Release ==
    /\ EndGesture
    /\ UNCHANGED <<people, review, touched, calls, events>>

-----------------------------------------------------------------------------
(* Saving and sending.                                                     *)

\* "Save layout" and "Save without sending" are not waited for.
SaveFromMenu ==
    /\ review = "closed" /\ Counted
    /\ saves' = saves \cup {fields}
    /\ UNCHANGED <<layout, people, review, touched, template, sends, answer>>

\* Another layout is stored: a send between its two calls will snapshot it.
Disturbed == {IF s.stage = "posting" THEN [s EXCEPT !.disturbed = TRUE] ELSE s : s \in sends}

\* The API stores it, or refuses it.
LateSaveLands(boxes) ==
    /\ boxes \in saves
    /\ saves' = saves \ {boxes}
    /\ IF Storable(boxes) THEN template' = boxes /\ sends' = Disturbed
       ELSE UNCHANGED <<template, sends>>
    /\ UNCHANGED <<layout, people, review, touched, answer, events>>

\* Seen between the two calls of a send only: its own save overwrites an
\* earlier one.
ColleagueSaves(boxes) ==
    /\ \E s \in sends : s.stage = "posting"
    /\ Counted
    /\ template' = boxes /\ sends' = Disturbed
    /\ UNCHANGED <<layout, people, review, touched, saves, answer>>

CanSend == SignerRows # <<>> /\ fields # <<>>

\* "Review and send" first hands copies to signers without boxes.
OpenReview ==
    /\ review = "closed" /\ CanSend /\ Counted
    /\ CopyFieldsToEverySigner(SignerKeys)
    /\ review' = "review" /\ touched' = FALSE /\ answer' = <<>>
    /\ UNCHANGED <<people, template, saves, sends>>

\* Closing the dialog stops no send: its answer finds nobody.
KeepEditing ==
    /\ review \in {"review", "sending"}
    /\ review' = "closed"
    /\ sends' = {[s EXCEPT !.watched = FALSE] : s \in sends} /\ answer' = <<>>
    /\ touched' = FALSE
    /\ UNCHANGED <<layout, people, template, saves, events>>

PostsAtOnce == "posting"
FirstCall == "saving"

SendNow ==
    /\ review = "review"
    /\ review' = "sending" /\ answer' = <<>>
    /\ sends' = sends \cup
        {[stage |-> FirstCall, boxes |-> fields, people |-> Filled(recipients), watched |-> TRUE,
          unready |-> ~SetupReady(recipients), touched |-> touched, disturbed |-> FALSE]}
    /\ UNCHANGED <<layout, people, touched, template, saves, events>>

Over(s) == sends \ {s}
ReviewAfter(s, outcome) == IF s.watched THEN outcome ELSE review

SaveLands(s) ==
    /\ s \in sends /\ s.stage = "saving" /\ Storable(s.boxes)
    /\ template' = s.boxes
    /\ sends' = {IF t = s THEN [s EXCEPT !.stage = "posting"]
                 ELSE IF t.stage = "posting" THEN [t EXCEPT !.disturbed = TRUE] ELSE t : t \in sends}
    /\ UNCHANGED <<layout, people, review, touched, saves, answer, events>>

\* The save fails, or its answer does: nothing is posted.
SaveFails(s) ==
    /\ s \in sends /\ s.stage = "saving" /\ Counted
    /\ template' \in {template} \cup {boxes \in {s.boxes} : Storable(boxes)}
    /\ sends' = IF template' = template THEN Over(s) ELSE Disturbed \ {s}
    /\ review' = ReviewAfter(s, "review")
    /\ UNCHANGED <<layout, people, touched, saves, answer>>

\* What the API made of a send.
Verdict(s, accepted) ==
    <<[accepted |-> accepted, people |-> s.people, boxes |-> template, sent |-> s.boxes,
       unready |-> s.unready, touched |-> s.touched, disturbed |-> s.disturbed]>>

\* The contract refuses the layout: nothing is stored, and nothing posted.
SaveRefused(s) ==
    /\ s \in sends /\ s.stage = "saving" /\ ~Storable(s.boxes)
    /\ sends' = Over(s)
    /\ answer' = Verdict(s, FALSE)
    /\ review' = ReviewAfter(s, "review")
    /\ UNCHANGED <<layout, people, touched, template, saves, events>>

AnyKeys(s) == TRUE

\* assertSignersAreTagged, on the layout the API has just read.
SignersAreTagged(s) ==
    \A i \in 1 .. Len(s.people) :
        s.people[i].role = "signer" => s.people[i].key \in KeysOf(template)

\* SendRequestSchema and the door of send.
Accepted(s) ==
    /\ \E i \in 1 .. Len(s.people) : s.people[i].role = "signer"
    /\ \A i \in 1 .. Len(s.people) : IsEmail(s.people[i])
    /\ Distinct(s.people)
    /\ template # <<>>
    /\ SignersAreTagged(s)

Post(s) ==
    /\ s \in sends /\ s.stage = "posting"
    /\ sends' = Over(s)
    /\ answer' = Verdict(s, Accepted(s))
    /\ review' = ReviewAfter(s, IF Accepted(s) THEN "sent" ELSE "review")
    /\ UNCHANGED <<layout, people, touched, template, saves, events>>

\* The answer, or the call, is lost: the sender may send again.
PostLost(s) ==
    /\ s \in sends /\ s.stage = "posting" /\ Counted
    /\ sends' = Over(s)
    /\ answer' \in {<<>>, Verdict(s, Accepted(s))}
    /\ review' = ReviewAfter(s, "review")
    /\ UNCHANGED <<layout, people, touched, template, saves>>

-----------------------------------------------------------------------------

Next ==
    \/ \E i \in Rows1, email \in Addresses : SetEmail(i, email)
    \/ \E i \in Rows1, role \in {"signer", "cc"} : SetRole(i, role)
    \/ AddRecipient
    \/ \E i \in Rows1 : RemoveRecipient(i)
    \/ GoToFields
    \/ GoToSetup
    \/ EditLayout
    \/ Drag
    \/ Release
    \/ SaveFromMenu
    \/ \E boxes \in saves : LateSaveLands(boxes)
    \/ \E boxes \in Foreign : ColleagueSaves(boxes)
    \/ OpenReview
    \/ KeepEditing
    \/ SendNow
    \/ \E s \in sends : SaveLands(s)
    \/ \E s \in sends : SaveFails(s)
    \/ \E s \in sends : SaveRefused(s)
    \/ \E s \in sends : Post(s)
    \/ \E s \in sends : PostLost(s)

Spec == Init /\ [][Next]_vars

-----------------------------------------------------------------------------
(* Properties.                                                             *)

RecipientRows == [key : Nat, email : Addresses, role : {"signer", "cc"}]

Sends == [stage : {"saving", "posting"}, boxes : Layouts(TRUE), people : Seq(RecipientRows),
          watched : BOOLEAN, unready : BOOLEAN, touched : BOOLEAN, disturbed : BOOLEAN]

Answers == [accepted : BOOLEAN, people : Seq(RecipientRows), boxes : Layouts(FALSE),
            sent : Layouts(TRUE), unready : BOOLEAN, touched : BOOLEAN, disturbed : BOOLEAN]

\* Shapes, and of the layout: every box has an identity of its own, and all that
\* can be on screen, undone to or pasted stays on the page through every clamp,
\* until a pointer moves a box that an edit has changed since the pointer took
\* hold of it (editor.tsx:270-272, pdf-page.tsx:137-152).  What is stored is
\* always what the contract asks (contracts/src/index.ts:664-685).
TypeOK ==
    /\ LayoutOK
    /\ step \in {"setup", "fields"} /\ review \in {"closed", "review", "sending", "sent"}
    /\ recipients \in Seq(RecipientRows) \ {<<>>} /\ Len(recipients) <= MaxRecipients
    /\ touched \in BOOLEAN /\ events \in 0 .. MaxEvents
    /\ Storable(template) /\ saves \subseteq Layouts(TRUE)
    /\ sends \subseteq Sends /\ answer \in Seq(Answers) /\ Len(answer) <= 1

Timeline == INSTANCE History WITH line <- past \o <<fields>> \o future, at <- Len(past) + 1,
                                  Limit <- HISTORY_LIMIT + 1

\* Undo and redo walk one line of versions (editor.tsx:90-91): an edit forgets
\* what was undone, nothing else loses or changes a version.
KeepsTimeline == Timeline!Spec

\* What went out is what was on the screen when the sender said "Send now",
\* unless another save of the template landed between the two calls, and even
\* then every signer on it has a box of their own (editor.tsx:307,
\* signature-requests.service.ts:56-82).
EnvelopeSound ==
    \A e \in ToSet(answer) : e.accepted =>
        /\ ~e.disturbed => e.boxes = e.sent
        /\ \A i \in 1 .. Len(e.people) :
            e.people[i].role = "signer" => e.people[i].key \in KeysOf(e.boxes)

\* What can make the API refuse a send: the sender by-passed the check of the
\* setup step or edited behind the review, another save came between, an
\* address passes the editor and not the API, or a box left the page or has a
\* blank option.  Nothing else does: a signer without a box, say
\* (signature-requests.service.ts:57-59).
RefusalsExplained ==
    \A r \in ToSet(answer) : ~r.accepted =>
        \/ r.unready \/ r.touched \/ r.disturbed
        \/ \E i \in 1 .. Len(r.people) : r.people[i].email \in Unmailable
        \/ ~Storable(r.sent)

\* editor.tsx:270 "Clamp, never wrap ... one past the edge fails validation",
\* and pdf-page.tsx clamps every move: all that is on screen is on the page.
AlwaysOnPage == \A i \in DOMAIN fields : OnPage(fields[i])

\* recipients.ts:47 "A recipient is ready to send to once it has a plausible
\* address".
ReadyIsAccepted ==
    \A r \in ToSet(answer) : ~r.accepted =>
        r.unready \/ r.touched \/ r.disturbed \/ ~Storable(r.sent)

\* signature-requests.service.ts:57 "The editor already assigns a distinct key
\* per recipient".
DistinctKeys == \A i, j \in Rows1 : recipients[i].key = recipients[j].key => i = j
=============================================================================
