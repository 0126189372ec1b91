----------------------------- MODULE SignFields -----------------------------
(***************************************************************************)
(* What a signer may put into the boxes of a document, as the signing page *)
(* decides it (apps/sign/lib/sign-fields.ts) and as the API decides it     *)
(* again on submit (field-values.ts), both from the rules of               *)
(* packages/contracts.  Values stand for classes of text: a blank one, a   *)
(* number, and one that a number or phone box lets through while it is     *)
(* typed but does not accept in the end.                                   *)
(***************************************************************************)
EXTENDS FiniteSets

CONSTANTS
    Fields      \* the boxes carrying this signer's key: [id, type, required]

Types == {"signature", "initial", "date", "text", "number", "phone", "checkbox", "dropdown"}

ASSUME FieldsAssumption ==
    /\ \A f \in Fields : f.type \in Types /\ f.required \in BOOLEAN
    /\ \A f, g \in Fields : f.id = g.id => f = g

MarkTypes == {"signature", "initial"}
AutoTypes == {"date"}
ChoiceTypes == {"dropdown"}
Options == {"offered"}

Kind(type) == IF type \in MarkTypes THEN "signature"
              ELSE IF type \in AutoTypes THEN "auto" ELSE "input"

MarkFields == {f \in Fields : Kind(f.type) = "signature"}
InputFields == {f \in Fields : Kind(f.type) = "input"}

Texts == {"", "blank", "42", "-"}
Trim(v) == IF v = "blank" THEN "" ELSE v

\* FIELD_VALUE_RULES: the values a box of each type accepts.
Accepts == [text     |-> {"42", "-"},
            number   |-> {"42"},
            phone    |-> {"42"},
            checkbox |-> {"true"},
            dropdown |-> {"offered", "42", "-"}]

\* What is left of a text typed into a box: characters no valid value can
\* contain are dropped as they are typed; a phone number may hold spaces.
Sanitized(type, v) == IF type = "number" /\ v = "blank" THEN "" ELSE v

\* What the controls of a box can put into it.
Enterable(f) ==
    CASE f.type = "checkbox" -> {"", "true"}
      [] f.type = "dropdown" -> {""} \cup Options
      [] OTHER -> {Sanitized(f.type, v) : v \in Texts}

FieldValueProblem(type, v) == Trim(v) # "" /\ Trim(v) \notin Accepts[type]

-----------------------------------------------------------------------------
(* The page.  filled maps every box to a text or to the adopted image.     *)

FieldProblem(f, v) ==
    /\ Kind(f.type) = "input"
    /\ Trim(v) # ""
    /\ \/ f.type \in ChoiceTypes /\ Trim(v) \notin Options
       \/ FieldValueProblem(f.type, v)

UnsignedUntrimmed(filled) ==
    {f \in Fields : f.required /\ Kind(f.type) # "auto" /\ filled[f] = ""}

UnsignedFields(filled) ==
    {f \in Fields : f.required /\ Kind(f.type) # "auto" /\ Trim(filled[f]) = ""}

InvalidFields(filled) == {f \in Fields : FieldProblem(f, filled[f])}

BlockingFields(filled) == UnsignedFields(filled) \cup InvalidFields(filled)
CanFinish(filled) == BlockingFields(filled) = {}

\* What onFinish sends beside the image: every box but the marks that holds
\* anything at all, untrimmed.
FieldValues(filled) ==
    [f \in {g \in Fields : Kind(g.type) # "signature" /\ filled[g] # ""} |-> filled[f]]

-----------------------------------------------------------------------------
(* The API: resolveFieldValues, keyed by the snapshot of the fields.       *)

Supplied(values, f) == IF f \in DOMAIN values THEN Trim(values[f]) ELSE ""

MissingRequired(values) ==
    {f \in InputFields : f.required /\ Supplied(values, f) = ""}

Refused(values) ==
    {f \in InputFields :
        LET v == Supplied(values, f)
        IN  /\ v # ""
            /\ \/ f.type \in ChoiceTypes /\ v \notin Options
               \/ FieldValueProblem(f.type, v)}

ResolvedOk(values) == MissingRequired(values) = {} /\ Refused(values) = {}

\* What is stored and stamped: the server's own day in a Date Signed box,
\* the trimmed text of an input box that holds any.
ResolvedValues(values) ==
    [f \in {g \in Fields : \/ Kind(g.type) = "auto"
                           \/ g \in InputFields /\ Supplied(values, g) # ""} |->
        IF Kind(f.type) = "auto" THEN "signing day" ELSE Supplied(values, f)]
=============================================================================
