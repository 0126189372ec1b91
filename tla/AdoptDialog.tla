---------------------------- MODULE AdoptDialog ----------------------------
(***************************************************************************)
(* The dialog in which a signer makes the mark that will be stamped        *)
(* (apps/sign, adopt-signature-dialog.tsx and lib/signature-image.ts): a   *)
(* typed name, a drawing or an uploaded picture.  An image is told apart   *)
(* only by where it came from and whether anything can be seen on it.      *)
(*                                                                         *)
(* The drawing surface exists only while its tab is shown: leaving the tab *)
(* wipes it, while hasInk, which enables the button, stays as it was.      *)
(* Files are decoded asynchronously, so an earlier choice may overtake a   *)
(* later one; `busy' is a single flag for all of them.                     *)
(***************************************************************************)
EXTENDS FiniteSets

CONSTANTS
    Files       \* pictures the signer may pick

VARIABLES
    dialog      \* the state of the dialog, or Closed

Closed == [open |-> FALSE]

Tabs == {"type", "draw", "upload"}

Opened ==
    [open |-> TRUE, tab |-> "type", typed |-> TRUE, ink |-> FALSE, hasInk |-> FALSE,
     preview |-> "", decoding |-> {}, busy |-> FALSE]

Dialogs ==
    [open : {TRUE}, tab : Tabs, typed : BOOLEAN, ink : BOOLEAN, hasInk : BOOLEAN,
     preview : {""} \cup Files, decoding : SUBSET Files, busy : BOOLEAN]

DialogOK == dialog \in {Closed} \cup Dialogs

\* Choosing a tab unmounts the others.
ShowTab(t) ==
    /\ dialog.open
    /\ dialog' = [dialog EXCEPT !.tab = t,
                                !.ink = IF t = dialog.tab THEN dialog.ink ELSE FALSE]

TypeName(nonblank) ==
    /\ dialog.open /\ dialog.tab = "type"
    /\ dialog' = [dialog EXCEPT !.typed = nonblank]

Stroke ==
    /\ dialog.open /\ dialog.tab = "draw"
    /\ dialog' = [dialog EXCEPT !.ink = TRUE, !.hasInk = TRUE]

ClearDrawing ==
    /\ dialog.open /\ dialog.tab = "draw"
    /\ dialog' = [dialog EXCEPT !.ink = FALSE, !.hasInk = FALSE]

PickFile(f) ==
    /\ dialog.open /\ dialog.tab = "upload"
    /\ dialog' = [dialog EXCEPT !.decoding = @ \cup {f}, !.busy = TRUE]

\* uploadedFileToPng answers, whichever file it was asked for last.
Decoded(f, ok) ==
    /\ dialog.open /\ f \in dialog.decoding
    /\ dialog' = [dialog EXCEPT !.decoding = @ \ {f}, !.busy = FALSE,
                                !.preview = IF ok THEN f ELSE ""]

\* The image each tab would hand over now, or "" for none: typed text and
\* drawings are cropped to their ink, and nothing is left of an empty one.
Prepared ==
    CASE dialog.tab = "type" -> IF dialog.typed THEN "name" ELSE ""
      [] dialog.tab = "draw" -> IF dialog.ink THEN "strokes" ELSE ""
      [] OTHER -> dialog.preview

CanAdopt ==
    /\ ~dialog.busy
    /\ CASE dialog.tab = "type" -> dialog.typed
         [] dialog.tab = "draw" -> dialog.hasInk
         [] OTHER -> dialog.preview # ""

Close ==
    /\ dialog.open
    /\ dialog' = Closed

DialogNext ==
    \/ \E t \in Tabs : ShowTab(t)
    \/ \E b \in BOOLEAN : TypeName(b)
    \/ Stroke
    \/ ClearDrawing
    \/ \E f \in Files : PickFile(f)
    \/ \E f \in Files, ok \in BOOLEAN : Decoded(f, ok)
=============================================================================
