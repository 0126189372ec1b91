------------------------------ MODULE Agreements ------------------------------
(***************************************************************************)
(* The table of documents (apps/web/app/(app)/agreements) and the filing   *)
(* it asks of the server: folders, moving, soft delete and restore         *)
(* (signature-requests.service.ts, from listFolders to restore).           *)
(*                                                                         *)
(* What a document says of itself is abstracted to who it is addressed to, *)
(* whether it has not moved for six months and whether it is about to      *)
(* expire; the search box, the advanced search and the sender filter to    *)
(* the set of documents they let through.                                  *)
(***************************************************************************)
EXTENDS Shell

CONSTANTS
    Docs,           \* ids of documents, sent or yet to be sent
    Mine,           \* addressed to the person at the page
    Quiet,          \* last changed more than six months ago
    Lapsing,        \* expiring within three days
    Folders,        \* ids folders may get
    Filters,        \* the filter bars tried: [status, range, expiring, matches]
    Outcomes,       \* statuses documents move to
    Tabs,           \* views the person turns to
    MaxIds,         \* ids one call may name (200)
    MaxCalls,       \* bound: calls of this page
    MaxChanges      \* bound: what signers and colleagues change

Views == {"to-sign", "inbox", "waiting", "sent", "drafts", "completed", "deleted"}
NoFilter == [status |-> "all", range |-> "6m", expiring |-> FALSE, matches |-> Docs]

ASSUME AgreementsAssumption ==
    /\ Sent \subseteq Docs
    /\ Mine \subseteq Docs /\ Quiet \subseteq Docs /\ Lapsing \subseteq Docs
    /\ NoFilter \in Filters
    /\ Outcomes \subseteq {"viewed", "completed", "voided", "expired"} /\ Tabs \subseteq Views
    /\ MaxIds \in Nat \ {0} /\ MaxCalls \in Nat /\ MaxChanges \in Nat

VARIABLES
    table,      \* the page: [view, folder, filter, selected, busy]
    calls,      \* its calls, in order: [op, ids, folder, stage, mounted]
    changes     \* changes made by others so far

agreements == <<table, calls, changes>>

Table(view, folder) ==
    [view |-> view, folder |-> folder, filter |-> NoFilter, selected |-> {}, busy |-> FALSE]

-----------------------------------------------------------------------------
(* What the table shows: views.ts and the rows of agreements-client.tsx.   *)

Live(r) == r.status \in {"sent", "viewed"}
Alive == {d \in DOMAIN shown.rows : ~shown.rows[d].deleted}
Drafts == {t \in DOMAIN shown.templates : ~shown.templates[t].used}

\* selectRows.  (A live document has somebody left to sign it.)
InView(view) ==
    CASE view = "to-sign" -> {d \in Alive \cap Mine : Live(shown.rows[d])}
      [] view = "inbox" -> Alive \cap Mine
      [] view = "waiting" -> {d \in Alive : Live(shown.rows[d])}
      [] view = "sent" -> Alive
      [] view = "completed" -> {d \in Alive : shown.rows[d].status = "completed"}
      [] view = "deleted" -> DOMAIN shown.rows \ Alive
      [] view = "drafts" -> {}

Passes(f, d) ==
    /\ f.expiring => Live(shown.rows[d]) /\ d \in Lapsing
    /\ f.range = "6m" => d \notin Quiet
    /\ f.status \in {"all", shown.rows[d].status}
    /\ d \in f.matches

Rows ==
    {d \in InView(table.view) :
        /\ table.folder # None => shown.rows[d].folder = table.folder
        /\ Passes(table.filter, d)}

\* exportCsv: the selection among the rows shown, or all of them.
Exported == IF Rows \cap table.selected # {} THEN Rows \cap table.selected ELSE Rows

-----------------------------------------------------------------------------
(* Using the table.                                                        *)

OnTable == at = "agreements"
Uses(t) == table' = t /\ UNCHANGED <<calls, changes, server, shell>>

\* A tab or a folder is a link to the same page.
Look(view, folder) ==
    /\ folder \in shown.folders \cup {None}
    /\ Follow(Link("agreements", view, folder, FALSE))
    /\ UNCHANGED <<agreements, server>>

\* The filters and the selection are the component's state and stay.
Looks(view, folder) == table' = [table EXCEPT !.view = view, !.folder = folder]

SetFilter(f) == table.filter # f /\ Uses([table EXCEPT !.filter = f])

Toggle(d) == Uses([table EXCEPT !.selected = IF d \in @ THEN @ \ {d} ELSE @ \cup {d}])

SelectAll(on) ==
    /\ Rows # {}
    /\ Uses([table EXCEPT !.selected = IF on THEN Rows ELSE {}])

Request(op, ids, folder) ==
    [op |-> op, ids |-> ids, folder |-> folder, stage |-> "asked", mounted |-> TRUE]
Answered == [Request("none", {}, None) EXCEPT !.stage = "over", !.mounted = FALSE]

\* run(action): the menus stay usable while an action is under way.
Run(op, ids, folder) ==
    /\ Len(calls) < MaxCalls
    /\ calls' = Append(calls, Request(op, ids, folder))
    /\ table' = [table EXCEPT !.busy = TRUE]
    /\ UNCHANGED <<changes, server, shell>>

\* The bar above the table.
BulkMove(folder) ==
    /\ table.selected # {} /\ table.view # "drafts"
    /\ folder \in shown.folders \cup {None}
    /\ Run("move", table.selected, folder)

BulkDelete ==
    /\ table.selected # {} /\ table.view \notin {"drafts", "deleted"}
    /\ Run("delete", table.selected, None)

BulkRestore ==
    /\ table.selected # {} /\ table.view = "deleted"
    /\ Run("restore", table.selected, None)

\* The menu of one row.
RowMove(d, folder) == folder \in shown.folders /\ Run("move", {d}, folder)
RowDelete(d) == Run(IF shown.rows[d].deleted THEN "restore" ELSE "delete", {d}, None)

\* Its button waits for the actions under way, but whichever ends first frees it.
CreateFolder(f) == ~table.busy /\ Run("create", {}, f)

-----------------------------------------------------------------------------
(* The server.                                                             *)

\* moveToFolder, softDelete, restore: one statement each, on the named rows.
Moved(ids, folder) ==
    [d \in DOMAIN rows |-> IF d \in ids THEN [rows[d] EXCEPT !.folder = folder] ELSE rows[d]]
Marked(ids, deleted) ==
    [d \in DOMAIN rows |-> IF d \in ids THEN [rows[d] EXCEPT !.deleted = deleted] ELSE rows[d]]

Refused(c) ==
    \/ Cardinality(c.ids) > MaxIds
    \/ c.op = "move" /\ c.folder \notin folders \cup {None}
    \/ c.op = "create" /\ c.folder \in folders

Applied(c) ==
    /\ rows' = CASE c.op = "move" -> Moved(c.ids, c.folder)
                 [] c.op = "delete" -> Marked(c.ids, TRUE)
                 [] c.op = "restore" -> Marked(c.ids, FALSE)
                 [] OTHER -> rows
    /\ folders' = IF c.op = "create" THEN folders \cup {c.folder} ELSE folders
    /\ UNCHANGED templates

Becomes(i, stage) == calls' = [calls EXCEPT ![i].stage = stage]
Ends(i) == calls' = [calls EXCEPT ![i] = Answered]

Serve(i) ==
    /\ calls[i].stage = "asked"
    /\ IF Refused(calls[i]) THEN Becomes(i, "refused") /\ UNCHANGED server
       ELSE Becomes(i, "done") /\ Applied(calls[i])
    /\ UNCHANGED <<table, changes, shell>>

-----------------------------------------------------------------------------
(* The answers, on the page that asked.                                    *)

\* A success clears the selection, whatever was ticked meanwhile, and asks for
\* a refresh.
Succeeds(i) ==
    /\ calls[i].stage = "done"
    /\ Ends(i)
    /\ AskRefresh
    /\ table' = IF calls[i].mounted
                THEN [table EXCEPT !.selected = {}, !.busy = FALSE] ELSE table
    /\ UNCHANGED <<changes, server>>

\* A refusal, or an answer lost on the way: an error, the selection kept.
AnswerLost(i) ==
    /\ calls[i].stage \in {"asked", "done", "refused"}
    /\ Ends(i)
    /\ table' = IF calls[i].mounted THEN [table EXCEPT !.busy = FALSE] ELSE table
    /\ IF calls[i].stage = "done" THEN Unseen ELSE UNCHANGED shell
    /\ UNCHANGED <<changes, server>>

\* The page is left: what its calls still set, nobody sees.
TableLeft == calls' = [i \in DOMAIN calls |-> [calls[i] EXCEPT !.mounted = FALSE]]

-----------------------------------------------------------------------------
(* Everybody else.                                                         *)

Other == changes < MaxChanges /\ changes' = changes + 1 /\ Unseen

\* A signer signs or an envelope ends, whether or not it is hidden here.
Moves(d, status) ==
    /\ d \in DOMAIN rows /\ Live(rows[d]) /\ status # rows[d].status
    /\ rows' = [rows EXCEPT ![d].status = status]
    /\ Other
    /\ UNCHANGED <<table, calls, folders, templates>>

\* A colleague files a document from a page of their own.
Colleague(d, op) ==
    /\ d \in DOMAIN rows
    /\ rows' = Marked({d}, op = "delete") /\ rows' # rows
    /\ Other
    /\ UNCHANGED <<table, calls, folders, templates>>

-----------------------------------------------------------------------------

UseTable ==
    /\ OnTable
    /\ \/ \E v \in Tabs, f \in Folders \cup {None} : Look(v, f)
       \/ \E f \in Filters : SetFilter(f)
       \/ \E d \in Rows : Toggle(d)
       \/ \E on \in BOOLEAN : SelectAll(on)
       \/ \E f \in Folders \cup {None} : BulkMove(f)
       \/ BulkDelete \/ BulkRestore
       \/ \E d \in Rows : RowDelete(d) \/ \E f \in Folders : RowMove(d, f)
       \/ \E f \in Folders : CreateFolder(f)

FilingServer == \E i \in DOMAIN calls : Serve(i) \/ Succeeds(i) \/ AnswerLost(i)

Others ==
    \E d \in Docs :
        (\E s \in Outcomes : Moves(d, s)) \/ (\E op \in {"delete", "restore"} : Colleague(d, op))

-----------------------------------------------------------------------------

\* template-picker.tsx:68-69: an action on the selection must not act "on a row
\* the user can no longer see".  The table's selection outlives the filter and
\* the tab that showed it: export leaves such rows out, the bar does not.
ActsOnWhatIsShown ==
    at = "agreements" /\ table.selected # {} => Exported = table.selected
=============================================================================
