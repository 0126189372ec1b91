------------------------------- MODULE Layout -------------------------------
(***************************************************************************)
(* The boxes a sender lays out on a document (apps/web, prepare/[id]/      *)
(* editor.tsx, pdf-page.tsx and field-properties.tsx): placing, dragging,  *)
(* resizing, re-assigning, copying and deleting them, with undo and redo.  *)
(*                                                                         *)
(* Fractions of the page are whole rows of a page Rows high, in one        *)
(* dimension; the code treats the other the same way.  A box keeps what    *)
(* the operations tell apart: its identity, whose it is, where it is, how  *)
(* tall, and whether one of its options is blank.  The selected box and    *)
(* the recipient whose boxes are placed are chosen when an operation uses  *)
(* them: a click sets either.                                              *)
(*                                                                         *)
(* A drag or a resize takes hold of a box as it is when the button goes    *)
(* down, and every move of the pointer places by that: the keyboard can    *)
(* undo, redo, paste or delete in between.                                 *)
(***************************************************************************)
EXTENDS Integers, SequencesExt

CONSTANTS
    Rows,           \* height of the page
    Pointed,        \* rows a pointer may end on, outside the page as well
    NewHeight,      \* height of a box just placed
    HISTORY_LIMIT,
    MaxBoxes        \* bound: boxes placed by hand or pasted

ASSUME LayoutAssumption ==
    /\ Rows \in Nat /\ NewHeight \in 1 .. Rows
    /\ Pointed \subseteq Int
    /\ HISTORY_LIMIT \in Nat \ {0} /\ MaxBoxes \in Nat

VARIABLES
    fields,         \* the layout on screen
    past, future,   \* whole layouts, as undo and redo find them
    clipboard,      \* the copied box, in a sequence of at most one
    held,           \* the box the pointer took hold of, as it was then; likewise
    resizing,       \* it was taken by its corner
    slipped         \* history: a move met another box than the one held

hand == <<held, resizing, slipped>>
layout == <<fields, past, future, clipboard, hand>>

LayoutInit(boxes) ==
    /\ fields = boxes
    /\ past = <<>> /\ future = <<>> /\ clipboard = <<>>
    /\ held = <<>> /\ resizing = FALSE /\ slipped = FALSE

Smaller(a, b) == IF a < b THEN a ELSE b
Larger(a, b) == IF a < b THEN b ELSE a
Clamp(v, lo, hi) == Smaller(hi, Larger(lo, v))

\* The elements of s at the places in I, in their order.
Nth(I, n) == CHOOSE i \in I : Cardinality({j \in I : j <= i}) = n
Only(s, I) == [n \in 1 .. Cardinality(I) |-> s[Nth(I, n)]]

IdsOf(boxes) == {boxes[i].id : i \in DOMAIN boxes}
UsedIds == UNION {IdsOf(boxes) : boxes \in {fields, clipboard, held} \cup ToSet(past) \cup ToSet(future)}

\* crypto.randomUUID(): the nth identity nothing has.
FreshId(n) ==
    CHOOSE i \in 1 .. Cardinality(UsedIds) + n :
        i \notin UsedIds /\ Cardinality((1 .. i) \ UsedIds) = n

KeysOf(boxes) == {b.key : b \in ToSet(boxes)}

-----------------------------------------------------------------------------
(* History: layouts are values, so an edit of several boxes is one entry.  *)

LatestOf(s, n) == SubSeq(s, Larger(1, Len(s) - n + 1), Len(s))

KeepsFuture(f) == f
ForgetsFuture(f) == <<>>

Commit(next) ==
    /\ fields' = next
    /\ past' = Append(LatestOf(past, HISTORY_LIMIT), fields)
    /\ future' = ForgetsFuture(future)

Undo ==
    /\ past # <<>>
    /\ fields' = Last(past)
    /\ past' = Front(past)
    /\ future' = <<fields>> \o future
    /\ UNCHANGED <<clipboard, hand>>

Redo ==
    /\ future # <<>>
    /\ fields' = Head(future)
    /\ future' = Tail(future)
    /\ past' = Append(past, fields)
    /\ UNCHANGED <<clipboard, hand>>

-----------------------------------------------------------------------------
(* Edits.                                                                  *)

\* Dropped from the palette, or placed by a double click.
AddField(key, row) ==
    /\ Len(fields) < MaxBoxes
    /\ Commit(Append(fields, [id |-> FreshId(1), key |-> key,
                              y |-> Smaller(Rows - NewHeight, Larger(0, row)),
                              h |-> NewHeight, blank |-> FALSE]))
    /\ UNCHANGED <<clipboard, hand>>

Patched(id, b) == [i \in 1 .. Len(fields) |-> IF fields[i].id = id THEN b ELSE fields[i]]

\* From the properties of the selected box.
Reassign(b, key) ==
    /\ Commit(Patched(b.id, [b EXCEPT !.key = key]))
    /\ UNCHANGED <<clipboard, hand>>

\* An option may be left empty.
EditOptions(b, blank) ==
    /\ b.blank # blank
    /\ Commit(Patched(b.id, [b EXCEPT !.blank = blank]))
    /\ UNCHANGED <<clipboard, hand>>

DeleteSelected(b) ==
    /\ Commit(Only(fields, {i \in DOMAIN fields : fields[i].id # b.id}))
    /\ UNCHANGED <<clipboard, hand>>

CopySelected(b) ==
    /\ clipboard' = <<b>>
    /\ UNCHANGED <<fields, past, future, hand>>

\* A little below its original, but on the page.
Paste ==
    /\ clipboard # <<>> /\ Len(fields) < MaxBoxes
    /\ LET src == Head(clipboard)
       IN  Commit(Append(fields, [src EXCEPT !.id = FreshId(1),
                                             !.y = Smaller(Rows - src.h, src.y + 1)]))
    /\ UNCHANGED <<clipboard, hand>>

\* Menu: make every field required (the boxes stay where they are), clear one
\* recipient's boxes, remove all.
MakeEveryRequired ==
    /\ fields # <<>>
    /\ Commit(fields)
    /\ UNCHANGED <<clipboard, hand>>

ClearFieldsOf(key) ==
    /\ key \in KeysOf(fields)
    /\ Commit(Only(fields, {i \in DOMAIN fields : fields[i].key # key}))
    /\ UNCHANGED <<clipboard, hand>>

RemoveAll ==
    /\ fields # <<>>
    /\ Commit(<<>>)
    /\ UNCHANGED <<clipboard, hand>>

-----------------------------------------------------------------------------
(* The pointer: geometry alone stays out of the history.                   *)

\* The button goes down on a box, or on the corner of one.  Bound: one gesture
\* at a time.
StartGesture(b, byCorner) ==
    /\ held = <<>>
    /\ held' = <<b>> /\ resizing' = byCorner
    /\ UNCHANGED <<fields, past, future, clipboard, slipped>>

PastTheEdge(o, b, row) == [b EXCEPT !.y = Larger(0, row)]

\* What a move makes of box b when o is what the pointer took hold of.
MovedTo(o, b, row) == [b EXCEPT !.y = Clamp(row, 0, Rows - o.h)]
ResizedTo(o, b, row) == [b EXCEPT !.h = Clamp(row - o.y, 1, Rows - o.y)]
Dragged(o, b, row) == IF resizing THEN ResizedTo(o, b, row) ELSE MovedTo(o, b, row)

\* An edit has given the box held another height, or another place, than the
\* clamp of this gesture counts with.
Slips(o, b) == b.id = o.id /\ IF resizing THEN b.y # o.y ELSE b.h # o.h

PointerMoves(row) ==
    /\ held # <<>>
    /\ LET o == Head(held)
       IN  /\ fields' = [i \in 1 .. Len(fields) |->
                           IF fields[i].id = o.id THEN Dragged(o, fields[i], row) ELSE fields[i]]
           /\ slipped' = (slipped \/ \E i \in 1 .. Len(fields) : Slips(o, fields[i]))
    /\ UNCHANGED <<past, future, clipboard, held, resizing>>

EndGesture ==
    /\ held # <<>>
    /\ held' = <<>> /\ resizing' = FALSE
    /\ UNCHANGED <<fields, past, future, clipboard, slipped>>

-----------------------------------------------------------------------------
(* Copies for everyone who has none.                                       *)

Donor == Only(fields, {i \in DOMAIN fields : fields[i].key = fields[1].key})

Untagged(signerKeys) ==
    Only(signerKeys, {n \in DOMAIN signerKeys : signerKeys[n] \notin KeysOf(fields)})

\* The mth copy is of one of the donor's boxes, for the nth of the keys without
\* any: pushed down by its own height and a gap for each of them, but on the page.
CopiedBox(m) == Donor[((m - 1) % Len(Donor)) + 1]
Turn(m) == ((m - 1) \div Len(Donor)) + 1

PushedDown(b, n) == Smaller(b.y + (b.h + 1) * n, Rows - b.h)

CopyOfDonor(keys, m) ==
    [CopiedBox(m) EXCEPT !.id = FreshId(m), !.y = PushedDown(CopiedBox(m), Turn(m))]

Copy(keys, m) ==
    [CopiedBox(m) EXCEPT !.id = FreshId(m), !.y = PushedDown(CopiedBox(m), Turn(m)),
                         !.key = keys[Turn(m)]]

AllCopies(signerKeys) ==
    [m \in 1 .. Len(Untagged(signerKeys)) * Len(Donor) |-> Copy(Untagged(signerKeys), m)]

CopyFieldsToEverySigner(signerKeys) ==
    /\ IF fields = <<>> THEN UNCHANGED <<fields, past, future>>
       ELSE Commit(fields \o AllCopies(signerKeys))
    /\ UNCHANGED <<clipboard, hand>>

-----------------------------------------------------------------------------

Boxes == {b \in [id : Nat, key : Nat, y : Nat, h : Nat, blank : BOOLEAN] :
              b.y < Rows /\ b.h \in 1 .. Rows}
OnPage(b) == b.y + b.h <= Rows

\* Boxes with identities of their own, all of each on the page unless off.
Layouts(off) ==
    {s \in Seq(Boxes) :
        /\ \A i, j \in DOMAIN s : s[i].id = s[j].id => i = j
        /\ off \/ \A i \in DOMAIN s : OnPage(s[i])}

\* What the contract lets the API store (TemplateFieldSchema).
Storable(boxes) == boxes \in Layouts(FALSE) /\ \A b \in ToSet(boxes) : ~b.blank

\* Every layout the editor can bring back lies on the page, unless a gesture
\* met another box than the one it held; the history is bounded.
LayoutOK ==
    /\ fields \in Layouts(slipped)
    /\ clipboard \in Layouts(slipped) /\ Len(clipboard) <= 1
    /\ past \in Seq(Layouts(slipped)) /\ future \in Seq(Layouts(slipped))
    /\ Len(past) + Len(future) <= HISTORY_LIMIT + 1
    /\ held \in Layouts(slipped) /\ Len(held) <= 1
    /\ resizing \in BOOLEAN /\ slipped \in BOOLEAN
=============================================================================
