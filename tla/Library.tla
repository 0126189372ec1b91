-------------------------------- MODULE Library --------------------------------
(***************************************************************************)
(* Templates and the documents under them: the server's steps              *)
(* (templates.service.ts, documents.service.ts), the templates page, the   *)
(* upload dialog and the picker that starts a document from a template.    *)
(*                                                                         *)
(* A file is abstracted to whether the browser takes it for a PDF and      *)
(* whether the server can measure it.  Storage (external) keeps what was   *)
(* put.  Every statement of a job is a step; any may fail and the process  *)
(* may die between two.                                                    *)
(***************************************************************************)
EXTENDS Shell

CONSTANTS
    Files,          \* files a person may pick: [pdf, readable, pages]
    Starters,       \* keys of the starter catalogue
    Shelves,        \* sections of the picker the person turns to
    Layouts,        \* field layouts the editor may save: [page]
    MaxTemplates, MaxJobs   \* bounds

PickerSections ==
    {"starter", "mine", "shared", "all", "favorites", "folders", "shared-folders"}

ASSUME LibraryAssumption ==
    /\ \A f \in Files : f.pdf \in BOOLEAN /\ f.readable \in BOOLEAN /\ f.pages \in Nat \ {0}
    /\ Shelves \subseteq PickerSections
    /\ MaxTemplates \in Nat /\ MaxJobs \in Nat

VARIABLES
    objects,    \* keys in storage
    documents,  \* rows of documents: the keys they name
    jobs,       \* requests of the library, in order
    library,    \* the templates page: [section, dialog, file]
    picker,     \* [open, listed, section, selected, busy]
    written     \* history: <<template, column>> -> what was last asked of it

store == <<objects, documents>>
lib == <<store, jobs, library, picker, written>>

Sections == {"mine", "favorites", "starter"}
Page(copy, dialog) ==
    [section |-> IF DOMAIN copy.templates = {} THEN "starter" ELSE "mine",
     dialog |-> dialog, file |-> None]
Closed == [open |-> FALSE, listed |-> None, section |-> "starter", selected |-> None, busy |-> FALSE]

LibraryInit ==
    /\ documents = {templates[t].document : t \in DOMAIN templates} /\ objects = documents
    /\ jobs = <<>>
    /\ written = [x \in (DOMAIN templates) \X {"fields", "favorite"} |-> templates[x[1]][x[2]]]
    /\ library = Page(shown, FALSE) /\ picker = Closed

-----------------------------------------------------------------------------
(* The server: creating.                                                   *)

Job(op, from, file, patch) ==
    [op |-> op, from |-> from, file |-> file, patch |-> patch,
     stage |-> "asked", key |-> 0, read |-> None, template |-> 0, mounted |-> TRUE]
Asks(j) == jobs' = Append(jobs, j)
Step(i, j) == jobs' = [jobs EXCEPT ![i] = j]
Over == [Job("none", "none", None, <<>>) EXCEPT !.stage = "over", !.mounted = FALSE]
At(i, op, stage) == i \in DOMAIN jobs /\ jobs[i].op \in op /\ jobs[i].stage = stage
Creating == {"upload", "starter"}

\* Nothing is stored before the PDF has been measured.
Measure(i) ==
    /\ At(i, Creating, "asked")
    /\ Step(i, [jobs[i] EXCEPT !.stage = IF jobs[i].file.readable THEN "measured" ELSE "refused"])
    /\ UNCHANGED <<store, library, picker, written, server, shell>>

\* documents.create: the bytes first, the row after.
RowFirst(i) ==
    /\ At(i, Creating, "measured")
    /\ documents' = documents \cup {i}
    /\ Step(i, [jobs[i] EXCEPT !.stage = "stored", !.key = i])
    /\ UNCHANGED <<objects, library, picker, written, server, shell>>

PutBytes(i) ==
    /\ At(i, Creating, "measured")
    /\ objects' = objects \cup {i}
    /\ Step(i, [jobs[i] EXCEPT !.stage = "stored", !.key = i])
    /\ UNCHANGED <<documents, library, picker, written, server, shell>>

PutRow(i) ==
    /\ At(i, Creating, "stored")
    /\ documents' = documents \cup {jobs[i].key}
    /\ Step(i, [jobs[i] EXCEPT !.stage = "filed"])
    /\ UNCHANGED <<objects, library, picker, written, server, shell>>

\* The template over it.  A starter brings its fields.
Create(i) ==
    LET t == Cardinality(DOMAIN templates) + 1
        row == NewTemplate(jobs[i].key, jobs[i].file.pages,
                           IF jobs[i].op = "starter" THEN {1} ELSE {})
    IN  /\ At(i, Creating, "filed")
        /\ t <= MaxTemplates
        /\ templates' = With(templates, t, row)
        /\ written' = With(With(written, <<t, "favorite">>, FALSE), <<t, "fields">>, row.fields)
        /\ Step(i, [jobs[i] EXCEPT !.stage = "done", !.template = t])
        /\ UNCHANGED <<store, library, picker, rows, folders, shell>>

-----------------------------------------------------------------------------
(* The server: updating.  The fields are checked in one transaction and    *)
(* written in another; only the columns of the patch are written.          *)

Has(patch, column) == column \in DOMAIN patch

OverTheWholeRow(t, read, patch) ==
    [c \in DOMAIN templates[t] |->
        IF Has(patch, c) THEN patch[c] ELSE IF Has(read, c) THEN read[c] ELSE templates[t][c]]
Patched(t, read, patch) ==
    [c \in DOMAIN templates[t] |-> IF Has(patch, c) THEN patch[c] ELSE templates[t][c]]

Check(i) ==
    LET j == jobs[i] IN
    /\ At(i, {"update"}, "asked")
    /\ Step(i, [j EXCEPT !.read = [fields |-> templates[j.template].fields,
                                    favorite |-> templates[j.template].favorite],
                         !.stage = IF Has(j.patch, "fields") /\
                                      \E p \in j.patch.fields : p > templates[j.template].pages
                                   THEN "refused" ELSE "checked"])
    /\ UNCHANGED <<store, library, picker, written, server, shell>>

Write(i) ==
    LET j == jobs[i]
        t == j.template
    IN  /\ At(i, {"update"}, "checked")
        /\ templates' = [templates EXCEPT ![t] = Patched(t, j.read, j.patch)]
        /\ written' = [x \in DOMAIN written |->
                        IF x[1] = t /\ Has(j.patch, x[2]) THEN j.patch[x[2]] ELSE written[x]]
        /\ Step(i, [j EXCEPT !.stage = "done", !.read = None])
        /\ UNCHANGED <<store, library, picker, rows, folders, shell>>

-----------------------------------------------------------------------------
(* The templates page.                                                     *)

OnTemplates == at = "templates"
Turns(l) == OnTemplates /\ library' = l /\ UNCHANGED <<store, jobs, picker, written, server, shell>>

Turn(section) == library.section # section /\ Turns([library EXCEPT !.section = section])
OpenDialog == ~library.dialog /\ Turns([library EXCEPT !.dialog = TRUE, !.file = None])
\* Cancel takes nothing back: an upload under way still lands in the editor.
CloseDialog == library.dialog /\ Turns([library EXCEPT !.dialog = FALSE])
Accept(f) == library.dialog /\ f.pdf /\ Turns([library EXCEPT !.file = f])

\* Only the button waits for an upload under way: Enter in the name field does not.
Submit ==
    /\ OnTemplates /\ library.dialog /\ library.file # None /\ Len(jobs) < MaxJobs
    /\ Asks(Job("upload", "dialog", library.file, <<>>))
    /\ UNCHANGED <<store, library, picker, written, server, shell>>

\* The star sends the opposite of what the copy shows.  It does not wait for
\* another: the row's menu has it at any time, and one star's end frees them all.
Star(t) ==
    /\ OnTemplates /\ library.section \in {"mine", "favorites"}
    /\ t \in DOMAIN shown.templates
    /\ Len(jobs) < MaxJobs
    /\ Asks([Job("update", "star", None, [favorite |-> ~shown.templates[t].favorite])
                EXCEPT !.template = t])
    /\ UNCHANGED <<store, library, picker, written, server, shell>>

UseStarter(key) ==
    /\ OnTemplates /\ library.section = "starter" /\ Len(jobs) < MaxJobs
    /\ Asks(Job("starter", "grid", [pdf |-> TRUE, readable |-> TRUE, pages |-> 1], <<>>))
    /\ UNCHANGED <<store, library, picker, written, server, shell>>

\* The editor, here or in a colleague's browser, saves its layout.
SaveLayout(t, layout) ==
    /\ t \in DOMAIN templates /\ Len(jobs) < MaxJobs
    /\ Asks([Job("update", "editor", None, [fields |-> layout]) EXCEPT !.template = t])
    /\ UNCHANGED <<store, library, picker, written, server, shell>>

-----------------------------------------------------------------------------
(* The picker, over the table of documents.                                *)

Picks(p) == picker.open /\ picker' = p /\ UNCHANGED <<store, jobs, library, written, server, shell>>

OpenPicker ==
    /\ at = "agreements" /\ ~picker.open
    /\ picker' = [Closed EXCEPT !.open = TRUE]
    /\ UNCHANGED <<store, jobs, library, written, server, shell>>

ClosePicker == Picks(Closed)
Listed == picker.listed = None /\ Picks([picker EXCEPT !.listed = Cards])

\* Switching sections clears the selection.
KeepsSelection(section) == [picker EXCEPT !.section = section]
Switched(section) == [picker EXCEPT !.section = section, !.selected = None]
SwitchSection(section) == picker.section # section /\ Picks(Switched(section))

Offers ==
    IF picker.listed = None THEN {}
    ELSE CASE picker.section = "starter" -> Starters
           [] picker.section \in {"mine", "all"} -> DOMAIN picker.listed
           [] picker.section = "favorites" -> {t \in DOMAIN picker.listed : picker.listed[t].favorite}
           [] OTHER -> {}

Pick(x) == x \in Offers /\ picker.selected # x /\ Picks([picker EXCEPT !.selected = x])

AddStarter ==
    /\ picker.open /\ picker.selected # None /\ ~picker.busy /\ picker.section = "starter"
    /\ Len(jobs) < MaxJobs
    /\ Asks(Job("starter", "picker", [pdf |-> TRUE, readable |-> TRUE, pages |-> 1], <<>>))
    /\ picker' = [picker EXCEPT !.busy = TRUE]
    /\ UNCHANGED <<store, library, written, server, shell>>

-----------------------------------------------------------------------------
(* Answers.                                                                *)

\* A failed statement, a dead process or a lost answer: the page that asked,
\* if it is still there, is free again.
Fails(i) ==
    LET j == jobs[i] IN
    /\ j.stage # "over"
    /\ Step(i, Over)
    /\ picker' = IF j.from = "picker" /\ j.mounted THEN [picker EXCEPT !.busy = FALSE] ELSE picker
    /\ IF j.stage = "done" /\ j.from # "editor" THEN Unseen ELSE UNCHANGED shell
    /\ UNCHANGED <<store, library, written, server>>

\* A star, or the editor's save.
Updated(i) ==
    LET j == jobs[i] IN
    /\ At(i, {"update"}, "done")
    /\ Step(i, Over)
    /\ IF j.from = "star" THEN AskRefresh ELSE UNCHANGED shell
    /\ UNCHANGED <<store, library, picker, written, server>>

Editor == Link("prepare", "sent", None, FALSE)

\* Whatever is open by now, the editor is opened on the new template.
Opens(i) ==
    /\ At(i, Creating, "done")
    /\ Step(i, Over)
    /\ Follow(Editor)
    /\ picker' = IF jobs[i].from = "picker" /\ jobs[i].mounted THEN Closed ELSE picker
    /\ UNCHANGED <<store, library, written, server>>

-----------------------------------------------------------------------------

UseLibrary ==
    \/ \E s \in Sections : Turn(s)
    \/ OpenDialog \/ CloseDialog \/ Submit
    \/ \E f \in Files : Accept(f)
    \/ \E t \in DOMAIN templates : Star(t) \/ \E l \in Layouts : SaveLayout(t, l)
    \/ \E k \in Starters : UseStarter(k)

UsePicker ==
    \/ OpenPicker \/ ClosePicker \/ Listed \/ AddStarter
    \/ \E s \in Shelves : SwitchSection(s)
    \/ \E x \in Starters \cup DOMAIN templates : Pick(x)

LibraryServer ==
    \E i \in DOMAIN jobs :
        \/ Measure(i) \/ PutBytes(i) \/ PutRow(i) \/ Create(i)
        \/ Check(i) \/ Write(i) \/ Fails(i) \/ Updated(i) \/ Opens(i)

-----------------------------------------------------------------------------

\* A document row never points at nothing and a template never at no document,
\* wherever a job stops (documents.service.ts:34-36).
BytesBehindEveryRow ==
    /\ documents \subseteq objects
    /\ \A t \in DOMAIN templates : templates[t].document \in documents

\* Concurrent changes of one template keep each other: every column holds what
\* was last written to it (templates.service.ts:132-156).
ChangesKept ==
    \A x \in DOMAIN written : templates[x[1]][x[2]] = written[x]

\* The picker never opens something other than what its section offers: a
\* starter is copied and only a template is opened (template-picker.tsx:68-103).
\* (The search box narrows the rows of a section and keeps the selection.)
PickIsOffered ==
    picker.selected # None => picker.selected \in Offers
=============================================================================
