------------------------------ MODULE Dashboard ------------------------------
(***************************************************************************)
(* The signed-in product: the table of documents, the templates page and   *)
(* the way between them, over the rows of one workspace.  One page is open *)
(* at a time; what a page asked for goes on after it is left.              *)
(***************************************************************************)
EXTENDS Agreements, Library

vars == <<server, shell, agreements, lib>>

Init ==
    /\ ShellInit
    /\ table = Table("sent", None) /\ calls = <<>> /\ changes = 0
    /\ LibraryInit

-----------------------------------------------------------------------------

Follows(to) == Follow(to) /\ UNCHANGED <<server, agreements, lib>>

GoTo(page) == Follows(Link(page, "sent", None, FALSE))

\* "New Document": the templates page with its dialog open.
NewDocument == at = "agreements" /\ ~picker.open /\ Follows(Link("templates", "sent", None, TRUE))

\* A template of one's own, from the picker, which closes at once, from the
\* shelf or from the drafts.
OpenPicked ==
    /\ picker.open /\ picker.selected # None /\ picker.section # "starter" /\ ~picker.busy
    /\ picker' = Closed
    /\ Follow(Editor)
    /\ UNCHANGED <<server, agreements, store, jobs, library, written>>

OpenTemplate ==
    /\ \/ at = "agreements" /\ ~picker.open /\ table.view = "drafts" /\ Drafts # {}
       \/ at = "templates" /\ library.section # "starter" /\ DOMAIN shown.templates # {}
    /\ Follows(Editor)

\* The new page replaces the old one and its state.  One that is open already
\* keeps its state: a refresh, or a tab of the table.
Leaves(to, copy) ==
    /\ table' = Table(to.view, to.folder) /\ TableLeft
    /\ library' = Page(copy, to.dialog) /\ picker' = Closed
    /\ jobs' = [i \in DOMAIN jobs |-> [jobs[i] EXCEPT !.mounted = FALSE]]
    /\ UNCHANGED <<changes, store, written>>

Arrive(r) ==
    /\ Lands(r)
    /\ CASE r.to = None -> UNCHANGED <<agreements, lib>>
         [] r.to # None /\ r.to.page # at -> Leaves(r.to, r.copy)
         [] r.to # None /\ r.to.page = at -> Looks(r.to.view, r.to.folder) /\ UNCHANGED <<calls, changes, lib>>

Navigates ==
    \/ \E page \in {"agreements", "templates"} : GoTo(page)
    \/ NewDocument \/ OpenPicked \/ OpenTemplate

\* The editor (Prepare) sends: the template is used, the document is a row.
Send(t, d) ==
    /\ at = "prepare" /\ t \in DOMAIN templates /\ d \in Docs \ DOMAIN rows
    /\ templates' = [templates EXCEPT ![t].used = TRUE]
    /\ rows' = With(rows, d, NewRow)
    /\ Unseen
    /\ UNCHANGED <<agreements, lib, folders>>

Next ==
    \/ ((UseTable /\ ~picker.open) \/ FilingServer \/ Others) /\ UNCHANGED lib
    \/ (UseLibrary \/ UsePicker \/ LibraryServer) /\ UNCHANGED agreements
    \/ Renders /\ UNCHANGED <<agreements, lib>>
    \/ \E r \in coming : Arrive(r)
    \/ Navigates
    \/ \E t \in DOMAIN templates, d \in Docs : Send(t, d)

Spec == Init /\ [][Next]_vars

-----------------------------------------------------------------------------

\* Nothing is under way that the page would still hear of, and nothing changed
\* that it was never told of: changes of others, and its own whose answer was
\* lost.
Settled ==
    /\ ~behind /\ refreshes = 0 /\ coming = {}
    /\ \A i \in DOMAIN calls : calls[i].stage = "over"
    /\ \A i \in DOMAIN jobs : jobs[i].stage = "over"

\* A page that has settled shows what the server holds, in every list that its
\* last render could read (agreements-client.tsx:186-198,
\* templates-client.tsx:61-71).
CatchesUp == Settled => \A list \in Reads(at) \ blank : shown[list] = Copy[list]

\* Without the exception it does not hold: a read that fails leaves an empty
\* list and no error (queries.ts:30-37, lib/api.ts:26-39).
ShowsTheServers == Settled => \A list \in Reads(at) : shown[list] = Copy[list]
=============================================================================
