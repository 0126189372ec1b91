---------------------------- MODULE CeremonyProofs ----------------------------
(***************************************************************************)
(* Proofs about Ceremony for any boxes, files, number of faults, reloads   *)
(* and status calls.  An answer that closes the page always has a cause    *)
(* outside it (ClosedFor): a failed call, a dead link or a recorded        *)
(* signature; and while the link was opened only once, the signature can   *)
(* only be the one this page sent and is told of (SignedHere).             *)
(***************************************************************************)
EXTENDS Ceremony, TLAPS

Answers(c) ==
    {"idle", "sent", "ok", "gone", "error"}
        \cup (IF c = "view" THEN {"agreed"} ELSE IF c = "status" THEN {"ready"} ELSE {})

AnswersFit == \A c \in Calls : net[c] \in Answers(c)

\* The mark boxes are all empty or all show the adopted image; the dialog is
\* only open before there is one.
MarksAgree ==
    /\ \A f \in MarkFields : filled[f] = adopted
    /\ dialog.open => adopted = ""

\* What the page believes of the consent is recorded.
ConsentRecorded ==
    page.consented \/ net.view = "agreed" \/ net.consent = "ok" => server.consentAt

\* What the page is told, or about to be told, of the signature and the copy.
AnswersTrue ==
    /\ page.done \/ net.submit = "ok" => server.signed # Nothing
    /\ page.artifactsReady \/ net.status = "ready" => server.sealed

\* Only a submit that can be accepted is on its way.
SubmitFit == net.submit = "sent" => payload # Nothing /\ server.consentAt

ClosedFor == faults > 0 \/ ~server.live \/ server.signed # Nothing

Closing ==
    \/ page.dead
    \/ \E c \in Calls \ {"status"} : net[c] \in {"gone", "error"}

SignedHere ==
    faults = 0 /\ reloads = 0 =>
        /\ strays = {}
        /\ server.signed # Nothing => page.done \/ net.submit = "ok"

IInv ==
    /\ TypeOK /\ AnswersFit /\ SubmitsAreAccepted /\ MarksAgree /\ ConsentRecorded
    /\ AnswersTrue /\ SubmitFit /\ (Closing => ClosedFor) /\ SignedHere

-------------------------------------------------------------------------------
(* What the page lets through, the API accepts.                             *)

LEMMA TrimTwice == \A v : Trim(Trim(v)) = Trim(v)
BY DEF Trim

\* An input box reaches the API as the trimmed text it holds, sent or not.
LEMMA SuppliedIsTrimmed ==
    ASSUME NEW boxes, NEW f \in InputFields
    PROVE  Supplied(FieldValues(boxes), f) = Trim(boxes[f])
<1>1. f \in Fields /\ Kind(f.type) = "input"
  BY DEF InputFields
<1>2. CASE boxes[f] = ""
  <2>1. f \notin DOMAIN FieldValues(boxes)
    BY <1>2 DEF FieldValues
  <2> QED BY <2>1, <1>2 DEF Supplied, Trim
<1>3. CASE boxes[f] # ""
  <2>1. f \in DOMAIN FieldValues(boxes) /\ FieldValues(boxes)[f] = boxes[f]
    BY <1>1, <1>3 DEF FieldValues
  <2> QED BY <2>1 DEF Supplied
<1> QED BY <1>2, <1>3

\* Whatever the boxes hold: once none of them blocks Finish, the API finds
\* no required box missing and no value to refuse.
THEOREM FinishableIsAccepted ==
    ASSUME NEW boxes, CanFinish(boxes)
    PROVE  ResolvedOk(FieldValues(boxes))
<1> DEFINE V == FieldValues(boxes)
<1>1. UnsignedFields(boxes) = {} /\ InvalidFields(boxes) = {}
  BY DEF CanFinish, BlockingFields
<1>2. ASSUME NEW f \in InputFields
      PROVE  f \notin MissingRequired(V) /\ f \notin Refused(V)
  <2>1. Supplied(V, f) = Trim(boxes[f])
    BY <1>2, SuppliedIsTrimmed
  <2>2. f \in Fields /\ Kind(f.type) = "input"
    BY <1>2 DEF InputFields
  <2>3. f \notin MissingRequired(V)
    BY <1>1, <2>1, <2>2 DEF MissingRequired, UnsignedFields
  <2>4. ~FieldProblem(f, boxes[f])
    BY <1>1, <2>2 DEF InvalidFields
  <2>5. f \notin Refused(V)
    BY <2>1, <2>2, <2>4, TrimTwice DEF Refused, FieldProblem, FieldValueProblem
  <2> QED BY <2>3, <2>5
<1> QED BY <1>2 DEF ResolvedOk, MissingRequired, Refused

\* What Finish sends and what the API stores are submits.
LEMMA SubmitsTyped ==
    /\ \A boxes \in [Fields -> Contents], m \in Marks :
            [mark |-> m, values |-> FieldValues(boxes)] \in Submits
    /\ \A p \in Submits : [mark |-> p.mark, values |-> ResolvedValues(p.values)] \in Submits
<1>1. ASSUME NEW boxes \in [Fields -> Contents], NEW m \in Marks
      PROVE  [mark |-> m, values |-> FieldValues(boxes)] \in Submits
  <2> DEFINE S == {g \in Fields : Kind(g.type) # "signature" /\ boxes[g] # ""}
  <2>1. S \in SUBSET Fields /\ FieldValues(boxes) \in [S -> Contents]
    BY DEF FieldValues
  <2>2. FieldValues(boxes) \in UNION {[T -> Contents] : T \in SUBSET Fields}
    BY <2>1, Zenon
  <2> QED BY <2>2 DEF Submits
<1>2. ASSUME NEW p \in Submits
      PROVE  [mark |-> p.mark, values |-> ResolvedValues(p.values)] \in Submits
  <2> DEFINE S == {g \in Fields : \/ Kind(g.type) = "auto"
                                  \/ g \in InputFields /\ Supplied(p.values, g) # ""}
  <2>1. p.mark \in Marks /\ p.values \in UNION {[T -> Contents] : T \in SUBSET Fields}
    BY DEF Submits
  <2>2. \A g \in DOMAIN p.values : p.values[g] \in Contents
    BY <2>1
  <2>3. \A g : Supplied(p.values, g) \in Contents
    BY <2>2 DEF Supplied, Trim, Contents, Texts
  <2>4. ResolvedValues(p.values) \in [S -> Contents]
    BY <2>3 DEF ResolvedValues, Contents
  <2>5. ResolvedValues(p.values) \in UNION {[T -> Contents] : T \in SUBSET Fields}
    BY <2>4, Zenon
  <2> QED BY <2>1, <2>5 DEF Submits
<1> QED BY <1>1, <1>2

-------------------------------------------------------------------------------
(* Types.                                                                    *)

Pages == [view : BOOLEAN, pdf : BOOLEAN, dead : BOOLEAN, done : BOOLEAN,
          consented : BOOLEAN, agreeChecked : BOOLEAN, submitError : BOOLEAN,
          artifactsReady : BOOLEAN, stage : {"timeline", "account", "closed"}]

Servers == [live : BOOLEAN, consentAt : BOOLEAN, signed : Submits \cup {Nothing},
            completed : BOOLEAN, sealed : BOOLEAN]

Nets == [Calls -> {"idle", "sent", "ok", "agreed", "ready", "gone", "error"}]

FormOK ==
    /\ DialogOK
    /\ adopted \in {""} \cup Marks
    /\ pendingField \in {NoField} \cup {f.id : f \in Fields}
    /\ filled \in [Fields -> Contents]

BoundsOK == attempts \in 0 .. MaxAttempts /\ faults \in 0 .. MaxFaults /\ reloads \in 0 .. MaxReloads

RestOK ==
    /\ page \in Pages /\ net \in Nets /\ payload \in Submits \cup {Nothing}
    /\ strays \subseteq Submits /\ server \in Servers /\ BoundsOK

LEMMA TypeParts ==
    /\ TypeOK <=> FormOK /\ RestOK
    /\ TypeOK' <=> FormOK' /\ RestOK'
<1>1. TypeOK <=> FormOK /\ RestOK
  BY DEF TypeOK, Pages, FormOK, RestOK, Nets, Servers, BoundsOK
<1>2. TypeOK' <=> FormOK' /\ RestOK'
  BY DEF TypeOK, Pages, FormOK, RestOK, Nets, Servers, BoundsOK
<1> QED BY <1>1, <1>2

\* Storing a submit records it.
LEMMA SignedRecords ==
    ASSUME server \in Servers, NEW p \in Submits
    PROVE  /\ Signed(p) \in Servers
           /\ Signs(p) => Signed(p).signed # Nothing
           /\ ~Signs(p) => Signed(p) = server
           /\ Signed(p).live = server.live /\ Signed(p).consentAt = server.consentAt
           /\ Signed(p).sealed = server.sealed
<1> DEFINE r == [mark |-> p.mark, values |-> ResolvedValues(p.values)]
<1>1. r \in Submits /\ r # Nothing
  BY SubmitsTyped, CeremonyAssumption
<1> HIDE DEF r
<1>2. Signed(p) = IF Signs(p) THEN [server EXCEPT !.signed = r] ELSE server
  BY DEF Signed, r
<1> QED BY <1>1, <1>2 DEF Servers

\* What an answered call leaves of the server's record.
Grows(s, t) ==
    /\ t.live = s.live
    /\ s.consentAt => t.consentAt
    /\ s.signed # Nothing => t.signed = s.signed
    /\ t.sealed = s.sealed

LEMMA ServerAfterCall ==
    ASSUME server \in Servers, NEW c \in Calls, c = "submit" => payload \in Submits
    PROVE  ServerAfter(c) \in Servers /\ Grows(server, ServerAfter(c))
<1>1. CASE c = "submit"
  <2>1. ServerAfter(c) = Signed(payload)
    BY <1>1 DEF ServerAfter
  <2>2. server.signed # Nothing => ~Signs(payload)
    BY DEF Signs, LoadsForToken
  <2> QED BY <1>1, <2>1, <2>2, SignedRecords DEF Grows
<1>2. CASE c = "consent" /\ LoadsForToken
  <2>1. ServerAfter(c) = [server EXCEPT !.consentAt = TRUE]
    BY <1>2, Zenon DEF ServerAfter
  <2> QED BY <2>1 DEF Grows, Servers
<1>3. CASE ~(c = "submit") /\ ~(c = "consent" /\ LoadsForToken)
  <2>1. ServerAfter(c) = server
    BY <1>3, Zenon DEF ServerAfter
  <2> QED BY <2>1 DEF Grows
<1> QED BY <1>1, <1>2, <1>3

LEMMA DialogSteps ==
    ASSUME DialogOK, DialogNext
    PROVE  DialogOK' /\ dialog.open /\ dialog'.open
<1>1. dialog.open
  BY DEF DialogNext, ShowTab, TypeName, Stroke, ClearDrawing, PickFile, Decoded
<1>2. dialog \in Dialogs
  BY <1>1 DEF DialogOK, Closed
<1>3. dialog' \in Dialogs
  <2>1. ASSUME NEW t \in Tabs, ShowTab(t) PROVE dialog' \in Dialogs
    BY <1>2, <2>1 DEF ShowTab, Dialogs
  <2>2. ASSUME NEW b \in BOOLEAN, TypeName(b) PROVE dialog' \in Dialogs
    BY <1>2, <2>2 DEF TypeName, Dialogs
  <2>3. CASE Stroke \/ ClearDrawing
    BY <1>2, <2>3 DEF Stroke, ClearDrawing, Dialogs
  <2>4. ASSUME NEW f \in Files, PickFile(f) PROVE dialog' \in Dialogs
    BY <1>2, <2>4 DEF PickFile, Dialogs
  <2>5. ASSUME NEW f \in Files, NEW ok \in BOOLEAN, Decoded(f, ok) PROVE dialog' \in Dialogs
    BY <1>2, <2>5 DEF Decoded, Dialogs
  <2> QED BY <2>1, <2>2, <2>3, <2>4, <2>5 DEF DialogNext
<1>4. dialog'.open
  BY <1>3 DEF Dialogs
<1> QED BY <1>1, <1>3, <1>4 DEF DialogOK

LEMMA PreparedTyped == ASSUME DialogOK, dialog.open PROVE Prepared \in {""} \cup Marks
<1>1. dialog \in Dialogs
  BY DEF DialogOK, Closed
<1>2. CASE dialog.tab = "type"
  <2>1. Prepared = IF dialog.typed THEN "name" ELSE ""
    BY <1>2, Zenon DEF Prepared
  <2> QED BY <2>1 DEF Marks
<1>3. CASE dialog.tab = "draw"
  <2>1. Prepared = IF dialog.ink THEN "strokes" ELSE ""
    BY <1>3, Zenon DEF Prepared
  <2> QED BY <2>1 DEF Marks
<1>4. CASE dialog.tab \notin {"type", "draw"}
  <2>1. Prepared = dialog.preview
    BY <1>4, Zenon DEF Prepared
  <2> QED BY <1>1, <2>1 DEF Marks, Dialogs
<1> QED BY <1>2, <1>3, <1>4

\* What the API answers to each call, and when it answers like a dead link.
LEMMA AnswersTyped ==
    ASSUME NEW c \in Calls
    PROVE  /\ AnswerTo(c) \in {"ok", "agreed", "ready", "gone"}
           /\ AnswerTo(c) \in Answers(c)
           /\ AnswerTo(c) = "gone" =>
                  c = "status" \/ ~LoadsForToken \/ (c = "submit" /\ ~Signs(payload))
           /\ AnswerTo(c) = "agreed" => server.consentAt
           /\ AnswerTo(c) = "ready" => server.sealed
           /\ c = "submit" /\ AnswerTo(c) = "ok" => Signs(payload)
           /\ c = "consent" /\ AnswerTo(c) = "ok" => LoadsForToken
<1>1. CASE c = "view"
  <2>1. AnswerTo(c) = IF ~LoadsForToken THEN "gone" ELSE IF server.consentAt THEN "agreed" ELSE "ok"
    BY <1>1, Zenon DEF AnswerTo
  <2> QED BY <1>1, <2>1 DEF Answers
<1>2. CASE c = "submit"
  <2>1. AnswerTo(c) = IF Signs(payload) THEN "ok" ELSE "gone"
    BY <1>2, Zenon DEF AnswerTo
  <2> QED BY <1>2, <2>1 DEF Answers
<1>3. CASE c = "status"
  <2>1. AnswerTo(c) = IF ~CompletedStatus THEN "gone" ELSE IF server.sealed THEN "ready" ELSE "ok"
    BY <1>3, Zenon DEF AnswerTo
  <2> QED BY <1>3, <2>1 DEF Answers
<1>4. CASE c \in {"document", "consent"}
  <2>1. AnswerTo(c) = IF LoadsForToken THEN "ok" ELSE "gone"
    BY <1>4, Zenon DEF AnswerTo
  <2> QED BY <1>4, <2>1 DEF Answers
<1> QED BY <1>1, <1>2, <1>3, <1>4 DEF Calls

-------------------------------------------------------------------------------
(* The steps, grouped by what they leave alone.                              *)

LEMMA FormKept == ASSUME FormOK, MarksAgree, UNCHANGED form PROVE FormOK' /\ MarksAgree'
<1>1. dialog' = dialog /\ adopted' = adopted /\ pendingField' = pendingField /\ filled' = filled
  BY DEF form
<1> QED BY <1>1 DEF FormOK, MarksAgree, DialogOK

\* Steps that only fill in the form.
LEMMA FormStep ==
    ASSUME IInv, FormOK', MarksAgree', UNCHANGED <<page, wire, world>>
    PROVE  IInv'
<1>1. /\ page' = page /\ net' = net /\ attempts' = attempts /\ payload' = payload
      /\ strays' = strays /\ server' = server /\ faults' = faults /\ reloads' = reloads
  BY DEF wire, world
<1>2. TypeOK'
  BY <1>1, TypeParts DEF IInv, RestOK, BoundsOK
<1> QED BY <1>1, <1>2 DEF IInv, AnswersFit, SubmitsAreAccepted, ConsentRecorded, AnswersTrue,
                          SubmitFit, Closing, ClosedFor, SignedHere

LEMMA FormSteps ==
    ASSUME IInv,
           \/ \E f \in Fields : \E v \in Enterable(f) : FillBox(f, v)
           \/ \E f \in Fields : ClickMark(f)
           \/ UseDialog
           \/ AdoptAndSign
           \/ CloseDialog
    PROVE  IInv'
<1>1. FormOK /\ MarksAgree
  BY TypeParts DEF IInv
<1>2. ASSUME NEW f \in Fields, NEW v \in Enterable(f), FillBox(f, v) PROVE IInv'
  <2>1. v \in Contents
    <3>1. CASE f.type = "checkbox"
      <4>1. Enterable(f) = {"", "true"}
        BY <3>1, Zenon DEF Enterable
      <4> QED BY <4>1 DEF Contents, Texts
    <3>2. CASE f.type = "dropdown"
      <4>1. Enterable(f) = {""} \cup Options
        BY <3>2, Zenon DEF Enterable
      <4> QED BY <4>1 DEF Contents, Texts
    <3>3. CASE f.type \notin {"checkbox", "dropdown"}
      <4>1. Enterable(f) = {Sanitized(f.type, w) : w \in Texts}
        BY <3>3, Zenon DEF Enterable
      <4> QED BY <4>1 DEF Contents, Texts, Sanitized
    <3> QED BY <3>1, <3>2, <3>3
  <2>2. /\ filled' = [filled EXCEPT ![f] = v] /\ f \notin MarkFields
        /\ dialog' = dialog /\ adopted' = adopted /\ pendingField' = pendingField
        /\ UNCHANGED <<page, wire, world>>
    BY <1>2 DEF FillBox, InputFields, MarkFields
  <2>3. FormOK'
    BY <1>1, <2>1, <2>2 DEF FormOK, DialogOK
  <2>4. MarksAgree'
    BY <1>1, <2>2 DEF FormOK, MarksAgree, MarkFields
  <2> QED BY <2>2, <2>3, <2>4, FormStep
<1>3. ASSUME NEW f \in Fields, ClickMark(f) PROVE IInv'
  <2>1. UNCHANGED <<page, wire, world>> /\ adopted' = adopted /\ f \in MarkFields /\ ~dialog.open
    BY <1>3 DEF ClickMark
  <2>2. CASE adopted = ""
    <3>1. pendingField' = f.id /\ dialog' = Opened /\ filled' = filled
      BY <1>3, <2>2 DEF ClickMark
    <3>2. Opened \in Dialogs
      BY DEF Opened, Dialogs, Tabs
    <3>3. FormOK'
      BY <1>1, <2>1, <3>1, <3>2 DEF FormOK, DialogOK
    <3>4. MarksAgree'
      BY <1>1, <2>1, <2>2, <3>1 DEF MarksAgree
    <3> QED BY <2>1, <3>3, <3>4, FormStep
  <2>3. CASE adopted # ""
    <3>1. pendingField' = pendingField /\ dialog' = dialog /\ filled' = [filled EXCEPT ![f] = adopted]
      BY <1>3, <2>3 DEF ClickMark
    <3>2. FormOK'
      BY <1>1, <2>1, <2>3, <3>1 DEF FormOK, DialogOK, Contents
    <3>3. MarksAgree'
      BY <1>1, <2>1, <3>1 DEF MarksAgree, FormOK, MarkFields
    <3> QED BY <2>1, <3>2, <3>3, FormStep
  <2> QED BY <2>2, <2>3
<1>4. CASE UseDialog
  <2>1. /\ DialogNext /\ adopted' = adopted /\ pendingField' = pendingField /\ filled' = filled
        /\ UNCHANGED <<page, wire, world>>
    BY <1>4 DEF UseDialog
  <2>2. DialogOK' /\ dialog.open
    BY <1>1, <2>1, DialogSteps DEF FormOK
  <2>3. FormOK' /\ MarksAgree'
    BY <1>1, <2>1, <2>2 DEF FormOK, MarksAgree
  <2> QED BY <2>1, <2>3, FormStep
<1>5. CASE AdoptAndSign
  <2>1. /\ dialog.open /\ Prepared # "" /\ adopted' = Prepared /\ filled' = AdoptedInto(Prepared)
        /\ pendingField' = NoField /\ dialog' = Closed
        /\ UNCHANGED <<page, wire, world>>
    BY <1>5 DEF AdoptAndSign
  <2>2. Prepared \in Marks
    BY <1>1, <2>1, PreparedTyped DEF FormOK
  <2>3. adopted = "" /\ \A f \in MarkFields : filled[f] = ""
    BY <1>1, <2>1 DEF MarksAgree
  <2>4. \A f \in Fields : filled'[f] \in {Prepared, filled[f]}
    BY <2>1 DEF AdoptedInto
  <2>5. filled' \in [Fields -> Contents]
    BY <1>1, <2>1, <2>2, <2>4 DEF FormOK, AdoptedInto, Contents
  <2>6. FormOK'
    BY <2>1, <2>2, <2>5 DEF FormOK, DialogOK
  <2>7. MarksAgree'
    BY <2>1, <2>3 DEF MarksAgree, AdoptedInto, MarkFields, Closed
  <2> QED BY <2>1, <2>6, <2>7, FormStep
<1>6. CASE CloseDialog
  <2>1. /\ dialog' = Closed /\ pendingField' = NoField /\ adopted' = adopted /\ filled' = filled
        /\ UNCHANGED <<page, wire, world>>
    BY <1>6 DEF CloseDialog, Close
  <2>2. FormOK' /\ MarksAgree'
    BY <1>1, <2>1 DEF FormOK, DialogOK, MarksAgree, Closed
  <2> QED BY <2>1, <2>2, FormStep
<1> QED BY <1>2, <1>3, <1>4, <1>5, <1>6

Talk == /\ AnswersFit /\ SubmitsAreAccepted /\ ConsentRecorded /\ AnswersTrue /\ SubmitFit
        /\ (Closing => ClosedFor) /\ SignedHere

LEMMA TalkStep == ASSUME IInv, UNCHANGED form, RestOK', Talk' PROVE IInv'
BY FormKept, TypeParts DEF IInv, Talk

LEMMA IInvParts == IInv <=> FormOK /\ MarksAgree /\ RestOK /\ Talk
BY TypeParts DEF IInv, Talk

\* What happens to the link while the page waits.
LEMMA WorldSteps ==
    ASSUME IInv, Retire \/ Complete \/ SealCopy \/ (\E p \in strays : StrayLands(p))
    PROVE  IInv'
<1>1. /\ UNCHANGED form /\ RestOK /\ Talk
      /\ page' = page /\ net' = net /\ attempts' = attempts /\ payload' = payload
      /\ faults' = faults /\ reloads' = reloads
  BY IInvParts DEF Retire, Complete, SealCopy, StrayLands, wire
<1>2. \/ strays' = strays /\ server' \in {[server EXCEPT !.live = FALSE],
                                         [server EXCEPT !.completed = TRUE],
                                         [server EXCEPT !.sealed = TRUE]}
      \/ \E p \in strays : strays' = strays \ {p} /\ server' \in {server, Signed(p)}
  BY DEF Retire, Complete, SealCopy, StrayLands
<1>3. CASE strays' = strays /\ server' \in {[server EXCEPT !.live = FALSE],
                                           [server EXCEPT !.completed = TRUE],
                                           [server EXCEPT !.sealed = TRUE]}
  <2>1. /\ server' \in Servers
        /\ server'.consentAt = server.consentAt /\ server'.signed = server.signed
        /\ server'.live => server.live
        /\ server.sealed => server'.sealed
    BY <1>1, <1>3 DEF RestOK, Servers
  <2>2. RestOK'
    BY <1>1, <1>3, <2>1 DEF RestOK, BoundsOK
  <2>3. Talk'
    BY <1>1, <1>3, <2>1 DEF Talk, AnswersFit, SubmitsAreAccepted, ConsentRecorded, AnswersTrue,
                            SubmitFit, Closing, ClosedFor, SignedHere
  <2> QED BY <1>1, <2>2, <2>3, TalkStep
<1>4. ASSUME NEW p \in strays, strays' = strays \ {p}, server' \in {server, Signed(p)}
      PROVE  IInv'
  <2>1. p \in Submits
    BY <1>1, <1>4 DEF RestOK
  <2>2. /\ server' \in Servers
        /\ server'.consentAt = server.consentAt /\ server'.live = server.live
        /\ server'.sealed = server.sealed
        /\ server.signed # Nothing => server'.signed # Nothing
    <3>1. server \in Servers
      BY <1>1 DEF RestOK
    <3>2. server.signed # Nothing => ~Signs(p)
      BY DEF Signs, LoadsForToken
    <3> QED BY <1>4, <2>1, <3>1, <3>2, SignedRecords
  <2>3. ~(faults = 0 /\ reloads = 0)
    BY <1>1, <1>4 DEF Talk, SignedHere
  <2>4. RestOK'
    BY <1>1, <1>4, <2>2 DEF RestOK, BoundsOK
  <2>5. Talk'
    BY <1>1, <2>2, <2>3 DEF Talk, AnswersFit, SubmitsAreAccepted, ConsentRecorded, AnswersTrue,
                            SubmitFit, Closing, ClosedFor, SignedHere
  <2> QED BY <1>1, <2>4, <2>5, TalkStep
<1> QED BY <1>2, <1>3, <1>4

\* Calls that are answered, and calls that are refused or lost.
LEMMA ServeStep == ASSUME IInv, NEW c \in Calls, Serve(c) PROVE IInv'
<1>1. /\ UNCHANGED form /\ RestOK /\ Talk
      /\ net[c] = "sent" /\ server' = ServerAfter(c) /\ net' = [net EXCEPT ![c] = AnswerTo(c)]
      /\ page' = page /\ attempts' = attempts /\ payload' = payload
      /\ strays' = strays /\ faults' = faults /\ reloads' = reloads
  BY IInvParts DEF Serve
<1>2. server \in Servers /\ (c = "submit" => payload \in Submits /\ server.consentAt /\ ResolvedOk(payload.values))
  BY <1>1 DEF RestOK, Talk, SubmitFit, SubmitsAreAccepted
<1>3. server' \in Servers /\ Grows(server, server')
  BY <1>1, <1>2, ServerAfterCall
<1>4. net \in Nets /\ net' \in Nets /\ \A d \in Calls : net'[d] = IF d = c THEN AnswerTo(c) ELSE net[d]
  BY <1>1, AnswersTyped DEF RestOK, Nets
<1>5. RestOK'
  BY <1>1, <1>3, <1>4 DEF RestOK, BoundsOK
<1>6. AnswersFit' /\ SubmitsAreAccepted' /\ SubmitFit'
  BY <1>1, <1>3, <1>4, AnswersTyped DEF Talk, AnswersFit, SubmitsAreAccepted, SubmitFit, Calls, Grows
<1>7. ConsentRecorded'
  <2>1. c = "consent" /\ AnswerTo(c) = "ok" => server'.consentAt
    <3>1. c = "consent" /\ LoadsForToken => ServerAfter(c) = [server EXCEPT !.consentAt = TRUE]
      BY Zenon DEF ServerAfter
    <3> QED BY <1>1, <1>2, <3>1, AnswersTyped DEF Servers
  <2> QED BY <1>1, <1>3, <1>4, <2>1, AnswersTyped DEF Talk, ConsentRecorded, Calls, Grows
<1>8. c = "submit" /\ Signs(payload) => server'.signed # Nothing /\ net'["submit"] = "ok"
  <2>1. c = "submit" => ServerAfter(c) = Signed(payload)
    BY DEF ServerAfter
  <2>2. c = "submit" /\ Signs(payload) => AnswerTo(c) = "ok"
    BY Zenon DEF AnswerTo
  <2> QED BY <1>1, <1>2, <1>4, <2>1, <2>2, SignedRecords
<1>9. AnswersTrue'
  BY <1>1, <1>3, <1>4, <1>8, AnswersTyped DEF Talk, AnswersTrue, Calls, Grows
<1>10. (Closing => ClosedFor)'
  <2>1. LoadsForToken /\ c = "submit" => Signs(payload)
    BY <1>2 DEF Signs
  <2>2. c # "status" /\ AnswerTo(c) \in {"gone", "error"} => ~LoadsForToken
    BY <2>1, AnswersTyped
  <2>3. ~LoadsForToken => ClosedFor'
    BY <1>1, <1>3 DEF LoadsForToken, ClosedFor, Grows
  <2>4. ClosedFor => ClosedFor'
    BY <1>1, <1>3 DEF ClosedFor, Grows
  <2>5. Closing' => Closing \/ (c # "status" /\ AnswerTo(c) \in {"gone", "error"})
    BY <1>1, <1>4 DEF Closing
  <2> QED BY <1>1, <2>2, <2>3, <2>4, <2>5 DEF Talk
<1>11. SignedHere'
  <2>1. server'.signed # Nothing => server.signed # Nothing \/ (c = "submit" /\ Signs(payload))
    <3>1. c = "submit" => ServerAfter(c) = Signed(payload)
      BY DEF ServerAfter
    <3>2. c # "submit" => ServerAfter(c) = server \/ ServerAfter(c) = [server EXCEPT !.consentAt = TRUE]
      BY Zenon DEF ServerAfter
    <3> QED BY <1>1, <1>2, <3>1, <3>2, SignedRecords DEF Servers
  <2>2. net["submit"] = "ok" => net'["submit"] = "ok"
    BY <1>1, <1>4 DEF Calls
  <2> QED BY <1>1, <1>8, <2>1, <2>2 DEF Talk, SignedHere
<1> QED BY <1>1, <1>5, <1>6, <1>7, <1>9, <1>10, <1>11, TalkStep DEF Talk

LEMMA LoseStep ==
    ASSUME IInv, NEW c \in Calls, NEW answer \in {"gone", "error"}, Lose(c, answer) PROVE IInv'
<1>1. /\ UNCHANGED form /\ RestOK /\ Talk
      /\ net[c] = "sent" /\ server' \in {server, ServerAfter(c)} /\ net' = [net EXCEPT ![c] = answer]
      /\ page' = page /\ attempts' = attempts /\ payload' = payload
      /\ strays' = strays /\ faults' = faults + 1 /\ faults < MaxFaults /\ reloads' = reloads
  BY IInvParts DEF Lose
<1>2. server \in Servers /\ (c = "submit" => payload \in Submits)
  BY <1>1 DEF RestOK, Talk, SubmitFit
<1>3. server' \in Servers /\ Grows(server, server')
  BY <1>1, <1>2, ServerAfterCall DEF Grows
<1>4. net' \in Nets /\ \A d \in Calls : net'[d] = IF d = c THEN answer ELSE net[d]
  BY <1>1 DEF RestOK, Nets
<1>5. faults' \in 0 .. MaxFaults /\ faults' > 0
  BY <1>1, CeremonyAssumption DEF RestOK, BoundsOK
<1>6. RestOK'
  BY <1>1, <1>3, <1>4, <1>5 DEF RestOK, BoundsOK
<1>7. AnswersFit' /\ SubmitsAreAccepted' /\ SubmitFit' /\ ConsentRecorded' /\ AnswersTrue'
  BY <1>1, <1>3, <1>4 DEF Talk, AnswersFit, SubmitsAreAccepted, SubmitFit, Calls, Grows,
                          ConsentRecorded, AnswersTrue, Answers
<1>8. (Closing => ClosedFor)' /\ SignedHere'
  BY <1>5 DEF ClosedFor, SignedHere
<1> QED BY <1>1, <1>6, <1>7, <1>8, TalkStep DEF Talk

\* The page takes an answer.
LEMMA TakeOpening == ASSUME IInv, TakeView \/ TakeDocument \/ TakeConsent PROVE IInv'
<1>1. /\ UNCHANGED form /\ RestOK /\ Talk
      /\ attempts' = attempts /\ payload' = payload /\ server' = server
      /\ strays' = strays /\ faults' = faults /\ reloads' = reloads
  BY IInvParts DEF TakeView, TakeDocument, TakeConsent, world
<1>2. page \in Pages /\ net \in Nets
  BY <1>1 DEF RestOK
<1>3. CASE TakeView /\ net.view \in {"ok", "agreed"}
  <2>1. /\ page' = [page EXCEPT !.view = TRUE, !.consented = (net.view = "agreed")]
        /\ net' = [net EXCEPT !.view = "idle", !.document = "sent"]
    BY <1>3 DEF TakeView
  <2>2. /\ page' \in Pages /\ net' \in Nets
        /\ \A c \in Calls : net'[c] = IF c = "view" THEN "idle" ELSE IF c = "document" THEN "sent" ELSE net[c]
        /\ page'.consented => net.view = "agreed"
        /\ page'.dead = page.dead /\ page'.done = page.done /\ page'.artifactsReady = page.artifactsReady
    BY <1>2, <2>1 DEF Pages, Nets, Calls
  <2>3. RestOK' /\ Talk'
    BY <1>1, <2>2 DEF RestOK, BoundsOK, Talk, AnswersFit, SubmitsAreAccepted, SubmitFit, Calls,
                      ConsentRecorded, AnswersTrue, Answers, Closing, ClosedFor, SignedHere
  <2> QED BY <1>1, <2>3, TalkStep
<1>4. CASE TakeConsent /\ net.consent = "ok"
  <2>1. page' = [page EXCEPT !.consented = TRUE] /\ net' = [net EXCEPT !["consent"] = "idle"]
    BY <1>4 DEF TakeConsent, Idle
  <2>2. /\ page' \in Pages /\ net' \in Nets
        /\ \A c \in Calls : net'[c] = IF c = "consent" THEN "idle" ELSE net[c]
        /\ page'.dead = page.dead /\ page'.done = page.done /\ page'.artifactsReady = page.artifactsReady
    BY <1>2, <2>1 DEF Pages, Nets, Calls
  <2>3. RestOK' /\ Talk'
    BY <1>1, <1>4, <2>2 DEF RestOK, BoundsOK, Talk, AnswersFit, SubmitsAreAccepted, SubmitFit, Calls,
                      ConsentRecorded, AnswersTrue, Answers, Closing, ClosedFor, SignedHere
  <2> QED BY <1>1, <2>3, TalkStep
<1>5. CASE TakeDocument /\ net.document = "ok"
  <2>1. page' = [page EXCEPT !.pdf = TRUE] /\ net' = [net EXCEPT !["document"] = "idle"]
    BY <1>5 DEF TakeDocument, Idle
  <2>2. /\ page' \in Pages /\ net' \in Nets
        /\ \A c \in Calls : net'[c] = IF c = "document" THEN "idle" ELSE net[c]
        /\ page'.consented = page.consented
        /\ page'.dead = page.dead /\ page'.done = page.done /\ page'.artifactsReady = page.artifactsReady
    BY <1>2, <2>1 DEF Pages, Nets, Calls
  <2>3. RestOK' /\ Talk'
    BY <1>1, <1>5, <2>2 DEF RestOK, BoundsOK, Talk, AnswersFit, SubmitsAreAccepted, SubmitFit, Calls,
                      ConsentRecorded, AnswersTrue, Answers, Closing, ClosedFor, SignedHere
  <2> QED BY <1>1, <2>3, TalkStep
<1>6. ASSUME NEW c \in {"view", "document", "consent"}, net[c] \notin {"idle", "sent", "ok", "agreed"},
             page' = [page EXCEPT !.dead = TRUE], net' = [net EXCEPT ![c] = "idle"]
      PROVE  IInv'
  <2>1. net[c] \in {"gone", "error"}
    BY <1>1, <1>6 DEF Talk, AnswersFit, Answers, Calls
  <2>2. /\ page' \in Pages /\ net' \in Nets
        /\ \A d \in Calls : net'[d] = IF d = c THEN "idle" ELSE net[d]
        /\ page'.consented = page.consented
        /\ page'.done = page.done /\ page'.artifactsReady = page.artifactsReady
    BY <1>2, <1>6 DEF Pages, Nets, Calls
  <2>3. ClosedFor
    BY <1>1, <2>1 DEF Talk, Closing, Calls
  <2>4. RestOK' /\ Talk'
    BY <1>1, <2>2, <2>3 DEF RestOK, BoundsOK, Talk, AnswersFit, SubmitsAreAccepted, SubmitFit, Calls,
                      ConsentRecorded, AnswersTrue, Answers, ClosedFor, SignedHere
  <2> QED BY <1>1, <2>4, TalkStep
<1>7. CASE TakeView /\ net.view \notin {"ok", "agreed"}
  <2>1. net["view"] \notin {"idle", "sent", "ok", "agreed"} /\ page' = [page EXCEPT !.dead = TRUE]
        /\ net' = [net EXCEPT !["view"] = "idle"]
    BY <1>7 DEF TakeView, Idle
  <2> QED BY <2>1, <1>6
<1>8. CASE TakeDocument /\ net.document # "ok"
  <2>1. net["document"] \notin {"idle", "sent", "ok", "agreed"} /\ page' = [page EXCEPT !.dead = TRUE]
        /\ net' = [net EXCEPT !["document"] = "idle"]
    BY <1>1, <1>8 DEF TakeDocument, Idle, Talk, AnswersFit, Answers, Calls
  <2> QED BY <2>1, <1>6
<1>9. CASE TakeConsent /\ net.consent # "ok"
  <2>1. net["consent"] \notin {"idle", "sent", "ok", "agreed"} /\ page' = [page EXCEPT !.dead = TRUE]
        /\ net' = [net EXCEPT !["consent"] = "idle"]
    BY <1>1, <1>9 DEF TakeConsent, Idle, Talk, AnswersFit, Answers, Calls
  <2> QED BY <2>1, <1>6
<1> QED BY <1>3, <1>4, <1>5, <1>7, <1>8, <1>9

LEMMA TakeSubmitStep == ASSUME IInv, TakeSubmit PROVE IInv'
<1>1. /\ UNCHANGED form /\ RestOK /\ Talk
      /\ net["submit"] \notin {"idle", "sent"} /\ payload' = Nothing /\ server' = server
      /\ strays' = strays /\ faults' = faults /\ reloads' = reloads
      /\ page' = [page EXCEPT ![AfterSubmit(net["submit"])] = TRUE]
      /\ net' = [net EXCEPT !["submit"] = "idle", !["status"] = IF page'.done THEN "sent" ELSE "idle"]
      /\ attempts' = IF page'.done THEN 1 ELSE 0
  BY IInvParts DEF TakeSubmit, world
<1>2. page \in Pages /\ net \in Nets
  BY <1>1 DEF RestOK
<1>3. net["submit"] \in {"ok", "gone", "error"}
  BY <1>1 DEF Talk, AnswersFit, Answers, Calls
<1>4. /\ page' \in Pages
      /\ page'.done <=> page.done \/ net["submit"] = "ok"
      /\ page'.dead <=> page.dead \/ net["submit"] = "gone"
      /\ page'.consented = page.consented /\ page'.artifactsReady = page.artifactsReady
  <2>1. CASE net["submit"] = "ok"
    <3>1. page' = [page EXCEPT !.done = TRUE]
      BY <1>1, <2>1, Zenon DEF AfterSubmit
    <3> QED BY <1>2, <2>1, <3>1 DEF Pages
  <2>2. CASE net["submit"] = "gone"
    <3>1. AfterSubmit("gone") = "dead"
      BY Zenon DEF AfterSubmit
    <3>2. page' = [page EXCEPT !.dead = TRUE]
      BY <1>1, <2>2, <3>1, Zenon
    <3> QED BY <1>2, <2>2, <3>2 DEF Pages
  <2>3. CASE net["submit"] = "error"
    <3>1. AfterSubmit("error") = "submitError"
      BY Zenon DEF AfterSubmit
    <3>2. page' = [page EXCEPT !.submitError = TRUE]
      BY <1>1, <2>3, <3>1, Zenon
    <3> QED BY <1>2, <2>3, <3>2 DEF Pages
  <2> QED BY <1>3, <2>1, <2>2, <2>3
<1>5. /\ net' \in Nets
      /\ \A c \in Calls : net'[c] = IF c = "submit" THEN "idle"
                                    ELSE IF c = "status" THEN IF page'.done THEN "sent" ELSE "idle"
                                    ELSE net[c]
  BY <1>1, <1>2 DEF Nets, Calls
<1>6. RestOK'
  BY <1>1, <1>4, <1>5, CeremonyAssumption DEF RestOK, BoundsOK
<1>7. /\ net'["submit"] = "idle" /\ net'["status"] \in {"idle", "sent"}
      /\ \A c \in Calls \ {"submit", "status"} : net'[c] = net[c]
  BY <1>5 DEF Calls
<1>8. AnswersFit' /\ SubmitsAreAccepted' /\ SubmitFit'
  BY <1>1, <1>7 DEF Talk, AnswersFit, SubmitsAreAccepted, SubmitFit, Answers
<1>9. ConsentRecorded' /\ AnswersTrue'
  BY <1>1, <1>4, <1>7 DEF Talk, ConsentRecorded, AnswersTrue, Calls
<1>10. SignedHere'
  BY <1>1, <1>4 DEF Talk, SignedHere
<1>11. (Closing => ClosedFor)'
  <2>1. net["submit"] = "gone" => Closing
    BY DEF Closing, Calls
  <2>2. Closing' => Closing
    BY <1>4, <1>7, <2>1 DEF Closing
  <2> QED BY <1>1, <2>2 DEF Talk, ClosedFor
<1> QED BY <1>1, <1>6, <1>8, <1>9, <1>10, <1>11, TalkStep DEF Talk

LEMMA TakeStatusStep == ASSUME IInv, TakeStatus PROVE IInv'
<1>1. /\ UNCHANGED form /\ RestOK /\ Talk
      /\ net["status"] \notin {"idle", "sent"} /\ payload' = payload /\ server' = server
      /\ strays' = strays /\ faults' = faults /\ reloads' = reloads
      /\ page' = [page EXCEPT !.artifactsReady = Reveals(net["status"])]
      /\ net' = [net EXCEPT !["status"] = IF AsksAgain(net["status"]) THEN "sent" ELSE "idle"]
      /\ attempts' = IF AsksAgain(net["status"]) THEN attempts + 1 ELSE attempts
  BY IInvParts DEF TakeStatus, world
<1>2. page \in Pages /\ net \in Nets
  BY <1>1 DEF RestOK
<1>3. /\ page' \in Pages
      /\ page'.done = page.done /\ page'.dead = page.dead /\ page'.consented = page.consented
      /\ page'.artifactsReady => net["status"] = "ready"
  BY <1>1, <1>2 DEF Pages, Reveals
<1>4. /\ net' \in Nets /\ net'["status"] \in {"sent", "idle"}
      /\ \A c \in Calls : c # "status" => net'[c] = net[c]
  BY <1>1, <1>2 DEF Nets, Calls
<1>5. attempts' \in 0 .. MaxAttempts
  BY <1>1, CeremonyAssumption DEF RestOK, BoundsOK, AsksAgain
<1>6. RestOK'
  BY <1>1, <1>3, <1>4, <1>5 DEF RestOK, BoundsOK
<1>7. Talk'
  BY <1>1, <1>3, <1>4 DEF Talk, AnswersFit, SubmitsAreAccepted, SubmitFit, Calls,
                      ConsentRecorded, AnswersTrue, Answers, Closing, ClosedFor, SignedHere
<1> QED BY <1>1, <1>6, <1>7, TalkStep

\* The signer's clicks outside the form, and opening the link again.
LEMMA ClickSteps ==
    ASSUME IInv,
           \/ TickAgreement \/ AcceptConsent \/ Zoom
           \/ \E next \in {"account", "closed"} : LeaveTo(next)
    PROVE  IInv'
<1>1. /\ UNCHANGED form /\ RestOK /\ Talk
      /\ attempts' = attempts /\ payload' = payload /\ server' = server
      /\ strays' = strays /\ faults' = faults /\ reloads' = reloads
  BY IInvParts DEF TickAgreement, AcceptConsent, Zoom, LeaveTo, world, wire
<1>2. page \in Pages /\ net \in Nets
  BY <1>1 DEF RestOK
<1>3. /\ page' \in Pages
      /\ page'.dead = page.dead /\ page'.done = page.done
      /\ page'.consented = page.consented /\ page'.artifactsReady = page.artifactsReady
  <2>1. \/ page' = page
        \/ page' = [page EXCEPT !.agreeChecked = ~page.agreeChecked]
        \/ \E next \in {"account", "closed"} : page' = [page EXCEPT !.stage = next]
    BY DEF TickAgreement, AcceptConsent, Zoom, LeaveTo
  <2> QED BY <1>2, <2>1 DEF Pages
<1>4. /\ net' \in Nets
      /\ \A c \in Calls : net'[c] = net[c] \/ (c \in {"consent", "document"} /\ net'[c] = "sent")
  BY <1>2 DEF TickAgreement, AcceptConsent, Zoom, LeaveTo, wire, Nets, Calls
<1>5. RestOK'
  BY <1>1, <1>3, <1>4 DEF RestOK, BoundsOK
<1>6. /\ net'["view"] = net["view"] /\ net'["submit"] = net["submit"] /\ net'["status"] = net["status"]
      /\ net'["consent"] = "ok" => net["consent"] = "ok"
      /\ \A c \in Calls : net'[c] # "sent" => net'[c] = net[c]
  BY <1>4 DEF Calls
<1>7. AnswersFit'
  BY <1>1, <1>4 DEF Talk, AnswersFit, Answers
<1>8. SubmitsAreAccepted' /\ SubmitFit' /\ ConsentRecorded' /\ AnswersTrue' /\ SignedHere'
  BY <1>1, <1>3, <1>6 DEF Talk, SubmitsAreAccepted, SubmitFit, ConsentRecorded, AnswersTrue, SignedHere
<1>9. (Closing => ClosedFor)'
  <2>1. Closing' => Closing
    BY <1>3, <1>6 DEF Closing
  <2> QED BY <1>1, <2>1 DEF Talk, ClosedFor
<1> QED BY <1>1, <1>5, <1>7, <1>8, <1>9, TalkStep DEF Talk

LEMMA FinishStep == ASSUME IInv, Finish PROVE IInv'
<1>1. /\ UNCHANGED form /\ FormOK /\ RestOK /\ Talk
      /\ page.consented /\ CanFinish(filled) /\ adopted # ""
      /\ payload' = [mark |-> adopted, values |-> FieldValues(filled)]
      /\ net' = [net EXCEPT !["submit"] = "sent"]
      /\ page' = [page EXCEPT !.submitError = FALSE]
      /\ attempts' = attempts /\ server' = server
      /\ strays' = strays /\ faults' = faults /\ reloads' = reloads
  BY IInvParts DEF Finish, Ready, world
<1>2. page \in Pages /\ net \in Nets
  BY <1>1 DEF RestOK
<1>3. /\ page' \in Pages
      /\ page'.dead = page.dead /\ page'.done = page.done
      /\ page'.consented = page.consented /\ page'.artifactsReady = page.artifactsReady
  BY <1>1, <1>2 DEF Pages
<1>4. net' \in Nets /\ net'["submit"] = "sent" /\ \A c \in Calls \ {"submit"} : net'[c] = net[c]
  BY <1>1, <1>2 DEF Nets, Calls
<1>5. filled \in [Fields -> Contents] /\ adopted \in Marks
  BY <1>1 DEF FormOK
<1>6. payload' \in Submits /\ payload' # Nothing
  BY <1>1, <1>5, SubmitsTyped, CeremonyAssumption
<1>7. payload'.values = FieldValues(filled)
  BY <1>1
<1>8. RestOK'
  BY <1>1, <1>3, <1>4, <1>6 DEF RestOK, BoundsOK
<1>9. SubmitsAreAccepted'
  <2>1. ResolvedOk(FieldValues(filled))
    BY <1>1, FinishableIsAccepted
  <2>2. ResolvedOk(payload'.values)
    BY <1>7, <2>1
  <2> QED BY <2>2 DEF SubmitsAreAccepted
<1>10. AnswersFit'
  BY <1>1, <1>4 DEF Talk, AnswersFit, Answers
<1>11. ConsentRecorded' /\ SubmitFit'
  BY <1>1, <1>3, <1>4, <1>6 DEF Talk, ConsentRecorded, SubmitFit, Calls
<1>12. AnswersTrue'
  BY <1>1, <1>3, <1>4 DEF Talk, AnswersTrue, Calls
<1>13. (Closing => ClosedFor)'
  <2>1. Closing' => Closing
    BY <1>3, <1>4 DEF Closing
  <2> QED BY <1>1, <2>1 DEF Talk, ClosedFor
<1>14. SignedHere'
  <2>1. net["submit"] = "idle"
    BY DEF Finish
  <2> QED BY <1>1, <1>3, <2>1 DEF Talk, SignedHere
<1> QED BY <1>1, <1>8, <1>9, <1>10, <1>11, <1>12, <1>13, <1>14, TalkStep DEF Talk

\* A page just opened.
LEMMA FreshForm ==
    /\ EmptyBoxes \in [Fields -> Contents]
    /\ \A f \in MarkFields : EmptyBoxes[f] = ""
    /\ FreshPage \in Pages
    /\ OpeningCalls \in Nets
    /\ OpeningCalls["view"] = "sent" /\ \A c \in Calls \ {"view"} : OpeningCalls[c] = "idle"
BY DEF EmptyBoxes, Contents, Texts, MarkFields, FreshPage, Pages, OpeningCalls, Nets, Calls

Fresh ==
    /\ page = FreshPage
    /\ dialog = Closed /\ adopted = "" /\ pendingField = NoField /\ filled = EmptyBoxes
    /\ net = OpeningCalls /\ attempts = 0 /\ payload = Nothing

LEMMA FreshIsSound ==
    ASSUME Fresh, strays \subseteq Submits, server \in Servers, faults \in 0 .. MaxFaults,
           reloads \in 0 .. MaxReloads,
           faults = 0 /\ reloads = 0 => strays = {} /\ server.signed = Nothing
    PROVE  IInv
<1>1. FormOK /\ MarksAgree
  <2>1. FormOK
    BY FreshForm DEF Fresh, FormOK, DialogOK
  <2>2. MarksAgree
    BY FreshForm DEF Fresh, MarksAgree
  <2> QED BY <2>1, <2>2
<1>2. /\ page.dead = FALSE /\ page.done = FALSE /\ page.consented = FALSE
      /\ page.artifactsReady = FALSE
  BY DEF Fresh, FreshPage
<1>3. /\ net["view"] = "sent" /\ \A c \in Calls \ {"view"} : net[c] = "idle"
      /\ \A c \in Calls : net[c] \in {"sent", "idle"}
  BY FreshForm DEF Fresh
<1>4. RestOK
  <2>1. page \in Pages /\ net \in Nets /\ payload \in Submits \cup {Nothing}
    BY Zenon, FreshForm DEF Fresh
  <2>2. attempts = 0 /\ MaxAttempts \in Nat
    BY CeremonyAssumption, Zenon DEF Fresh
  <2> QED BY <2>1, <2>2 DEF RestOK, BoundsOK
<1>5. AnswersFit /\ SubmitsAreAccepted /\ SubmitFit
  BY <1>3 DEF Fresh, AnswersFit, Answers, SubmitsAreAccepted, SubmitFit, Calls
<1>6. ConsentRecorded /\ AnswersTrue /\ (Closing => ClosedFor)
  BY <1>2, <1>3 DEF ConsentRecorded, AnswersTrue, Closing, Calls
<1>7. SignedHere
  BY DEF SignedHere
<1> QED BY <1>1, <1>4, <1>5, <1>6, <1>7, IInvParts DEF Talk

LEMMA ReloadStep == ASSUME IInv, Reload PROVE IInv'
<1>1. /\ RestOK /\ Talk /\ Fresh'
      /\ reloads < MaxReloads /\ reloads' = reloads + 1 /\ faults' = faults
      /\ server' \in IF net["consent"] = "sent" THEN {server, ServerAfter("consent")} ELSE {server}
      /\ strays' = IF net["submit"] = "sent" THEN strays \cup {payload} ELSE strays
  BY IInvParts DEF Reload, Fresh
<1>2. server' \in Servers
  <2>1. ServerAfter("consent") \in Servers
    BY <1>1, ServerAfterCall DEF RestOK, Calls
  <2> QED BY <1>1, <2>1 DEF RestOK
<1>3. strays' \subseteq Submits
  BY <1>1 DEF RestOK, Talk, SubmitFit
<1>4. faults' \in 0 .. MaxFaults /\ reloads' \in 0 .. MaxReloads /\ reloads' # 0
  BY <1>1, CeremonyAssumption DEF RestOK, BoundsOK
<1>5. FormOK' /\ MarksAgree'
  <2>1. FormOK'
    BY <1>1, FreshForm DEF Fresh, FormOK, DialogOK
  <2>2. MarksAgree'
    BY <1>1, FreshForm DEF Fresh, MarksAgree
  <2> QED BY <2>1, <2>2
<1>6. /\ page'.dead = FALSE /\ page'.done = FALSE /\ page'.consented = FALSE
      /\ page'.artifactsReady = FALSE
  BY <1>1 DEF Fresh, FreshPage
<1>7. /\ net'["view"] = "sent" /\ \A c \in Calls \ {"view"} : net'[c] = "idle"
      /\ \A c \in Calls : net'[c] \in {"sent", "idle"}
  BY <1>1, FreshForm DEF Fresh
<1>8. RestOK'
  <2>1. page' \in Pages /\ net' \in Nets /\ payload' \in Submits \cup {Nothing}
    BY <1>1, Zenon, FreshForm DEF Fresh
  <2>2. attempts' = 0 /\ MaxAttempts \in Nat
    BY <1>1, CeremonyAssumption, Zenon DEF Fresh
  <2> QED BY <1>2, <1>3, <1>4, <2>1, <2>2 DEF RestOK, BoundsOK
<1>9. AnswersFit' /\ SubmitsAreAccepted' /\ SubmitFit'
  BY <1>1, <1>7 DEF Fresh, AnswersFit, Answers, SubmitsAreAccepted, SubmitFit, Calls
<1>10. ConsentRecorded' /\ AnswersTrue' /\ (Closing => ClosedFor)' /\ SignedHere'
  BY <1>4, <1>6, <1>7 DEF ConsentRecorded, AnswersTrue, Closing, SignedHere, Calls
<1>11. TypeOK'
  BY <1>5, <1>8, TypeParts
<1> QED BY <1>5, <1>9, <1>10, <1>11 DEF IInv

-------------------------------------------------------------------------------
LEMMA IInvInit == Init => IInv
<1> SUFFICES ASSUME Init PROVE IInv
  OBVIOUS
<1>1. Fresh /\ strays = {} /\ faults = 0 /\ reloads = 0
  BY DEF Init, Fresh
<1>2. server \in Servers /\ server.signed = Nothing
  BY DEF Init, Servers
<1> QED BY <1>1, <1>2, FreshIsSound, CeremonyAssumption

LEMMA IInvStep == IInv /\ [Next]_vars => IInv'
<1> SUFFICES ASSUME IInv, [Next]_vars PROVE IInv'
  OBVIOUS
<1>1. CASE UNCHANGED vars
  <2>1. UNCHANGED <<page, wire, world>> /\ UNCHANGED form
    BY <1>1 DEF vars
  <2> QED BY <2>1, FormKept, FormStep, IInvParts
<1>2. CASE Signer
  BY <1>2, ClickSteps, FormSteps, FinishStep, ReloadStep DEF Signer
<1>3. CASE Page
  BY <1>3, TakeOpening, TakeSubmitStep, TakeStatusStep DEF Page
<1>4. CASE \E c \in Calls : Serve(c)
  BY <1>4, ServeStep
<1>5. CASE \E c \in Calls, answer \in {"gone", "error"} : Lose(c, answer)
  BY <1>5, LoseStep
<1>6. CASE (\E p \in strays : StrayLands(p)) \/ Retire \/ Complete \/ SealCopy
  BY <1>6, WorldSteps
<1> QED BY <1>1, <1>2, <1>3, <1>4, <1>5, <1>6 DEF Next

LEMMA Invariant == Spec => []IInv
BY IInvInit, IInvStep, PTL DEF Spec

\* The types of what the page, the relay and the API keep of one link.
THEOREM TypeCorrect == Spec => []TypeOK
<1>1. IInv => TypeOK
  BY DEF IInv
<1> QED BY <1>1, Invariant, PTL

\* Whatever Finish sends, with any boxes of any types, the API's own rules
\* accept: no signer is turned away for a value the page let through.
THEOREM NothingSentIsRefused == Spec => []SubmitsAreAccepted
<1>1. IInv => SubmitsAreAccepted
  BY DEF IInv
<1> QED BY <1>1, Invariant, PTL

\* The page shows every mark box as it will be stamped, says "You signed" only
\* of a recorded signature, and offers the copy only once it is sealed.
THEOREM ScreenIsTrue == Spec => []ScreenTruthful
<1>1. IInv => ScreenTruthful
  BY DEF IInv, MarksAgree, AnswersTrue, ScreenTruthful, BoxesShowTheMark, DoneMeansSigned,
         CopyOfferedExists, CopyOffered
<1> QED BY <1>1, Invariant, PTL

\* Without a failed call, and while the link lives, the page never ends at
\* "not valid" before the signature, nor after it in the page that signed.
THEOREM SignerIsNeverLockedOut == Spec => []NeverLockedOut
<1>1. IInv => NeverLockedOut
  <2> SUFFICES ASSUME IInv, Screen = "dead", net["submit"] = "idle", ~(faults > 0), server.live
               PROVE  server.signed # Nothing /\ reloads > 0
    BY DEF NeverLockedOut
  <2>1. page.dead /\ ~page.done
    BY DEF Screen
  <2>2. server.signed # Nothing
    BY <2>1 DEF IInv, Closing, ClosedFor
  <2>3. faults \in Nat /\ reloads \in Nat
    BY TypeParts, CeremonyAssumption DEF IInv, RestOK, BoundsOK
  <2>4. reloads # 0
    BY <2>1, <2>2, <2>3 DEF IInv, SignedHere
  <2> QED BY <2>2, <2>3, <2>4
<1> QED BY <1>1, Invariant, PTL
===============================================================================
