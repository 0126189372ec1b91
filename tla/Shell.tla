-------------------------------- MODULE Shell --------------------------------
(***************************************************************************)
(* What the pages of the signed-in product share: the workspace's rows on  *)
(* the server, the copy of them the page was rendered from, and the        *)
(* renders that bring a new copy: a navigation, or a refresh               *)
(* (router.refresh()).  A page acts on its copy while colleagues, signers  *)
(* and its own earlier calls change the rows, and stays in use until the   *)
(* render that replaces it is complete.                                    *)
(*                                                                         *)
(* A render reads each list the page shows by a call of its own, in any    *)
(* order; a read that fails shows as an empty list (apiGet, queries.ts).   *)
(* The router (external) runs one refresh at a time, in order; a           *)
(* navigation drops the render under way and the refreshes still waiting.  *)
(***************************************************************************)
EXTENDS Integers, Sequences, FiniteSets, SequencesExt

CONSTANTS
    None,
    Sent,       \* documents the workspace has sent already
    Kept        \* how many templates it keeps already

VARIABLES
    rows,       \* documents sent: id -> [status, folder, deleted]
    folders,    \* folders of the workspace
    templates,  \* id -> [document, pages, fields, favorite, used]
    at,         \* the page open: "agreements", "templates" or "prepare"
    shown,      \* the copy it was rendered from: [rows, folders, templates]
    blank,      \* the lists of it that are empty because their read failed
    refreshes,  \* refreshes asked for and not begun
    coming,     \* the render under way, if any: a set of at most one
    behind      \* history: the newest copy may miss what the page was not told of

server == <<rows, folders, templates>>
shell == <<at, shown, blank, refreshes, coming, behind>>

\* f with x mapped to v.
With(f, x, v) == [y \in DOMAIN f \cup {x} |-> IF y = x THEN v ELSE f[y]]

\* The templates as a page lists them.
Cards == [t \in DOMAIN templates |-> [favorite |-> templates[t].favorite, used |-> templates[t].used]]

Copy == [rows |-> rows, folders |-> folders, templates |-> Cards]
Empty == [rows |-> <<>>, folders |-> {}, templates |-> <<>>]

\* The lists a page reads.  (The editor reads the one template it opens: Prepare.)
Reads(page) ==
    {list \in {"rows", "folders", "templates"} :
        page = "agreements" \/ (page = "templates" /\ list = "templates")}

ASSUME ShellAssumption == Kept \in Nat

NewRow == [status |-> "sent", folder |-> None, deleted |-> FALSE]
NewTemplate(document, pages, fields) ==
    [document |-> document, pages |-> pages, fields |-> fields, favorite |-> FALSE, used |-> FALSE]

ShellInit ==
    /\ rows = [d \in Sent |-> NewRow]
    /\ folders = {}
    /\ templates = [t \in 1 .. Kept |-> NewTemplate(0, 1, {})]
    /\ at = "agreements" /\ shown = Copy /\ blank = {}
    /\ refreshes = 0 /\ coming = {} /\ behind = FALSE

\* Where a link leads: a page, and of its URL the view and folder of the table
\* and whether the upload dialog opens.
Link(page, view, folder, dialog) ==
    [page |-> page, view |-> view, folder |-> folder, dialog |-> dialog]

\* A render of the page a link leads to, or (None) of the one that is open.
Rendering(to) ==
    [to |-> to, copy |-> Empty, blank |-> {},
     unread |-> Reads(IF to = None THEN at ELSE to.page)]

Follow(to) ==
    /\ coming' = {Rendering(to)} /\ refreshes' = 0 /\ behind' = FALSE
    /\ UNCHANGED <<at, shown, blank>>

AskUnlessUnderWay ==
    /\ refreshes' = IF refreshes > 0 \/ coming # {} THEN refreshes ELSE 1
    /\ UNCHANGED <<at, shown, blank, coming, behind>>
AskRefresh == refreshes' = refreshes + 1 /\ UNCHANGED <<at, shown, blank, coming, behind>>

StartRefresh ==
    /\ refreshes > 0 /\ coming = {}
    /\ coming' = {Rendering(None)} /\ refreshes' = refreshes - 1 /\ behind' = FALSE
    /\ UNCHANGED <<at, shown, blank, server>>

\* One list is read, or its read fails: no token, no answer, a status that is
\* not OK.
Read(r, list) ==
    /\ r \in coming /\ list \in r.unread
    /\ coming' = {[r EXCEPT !.unread = @ \ {list}, !.copy[list] = Copy[list]]}
    /\ UNCHANGED <<at, shown, blank, refreshes, behind, server>>

ReadFails(r, list) ==
    /\ r \in coming /\ list \in r.unread
    /\ coming' = {[r EXCEPT !.unread = @ \ {list}, !.blank = @ \cup {list}]}
    /\ UNCHANGED <<at, shown, blank, refreshes, behind, server>>

Renders == StartRefresh \/ \E r \in coming : \E list \in r.unread : Read(r, list) \/ ReadFails(r, list)

\* The page of a complete render takes its place on the screen.
Lands(r) ==
    /\ r \in coming /\ r.unread = {}
    /\ coming' = {} /\ shown' = r.copy /\ blank' = r.blank
    /\ at' = IF r.to = None THEN at ELSE r.to.page
    /\ UNCHANGED <<refreshes, behind, server>>

\* Something changes that the page will not hear of.
Unseen == behind' = TRUE /\ UNCHANGED <<at, shown, blank, refreshes, coming>>
=============================================================================
