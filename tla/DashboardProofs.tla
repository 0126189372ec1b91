---------------------------- MODULE DashboardProofs ----------------------------
(***************************************************************************)
(* Proofs about Dashboard for any documents, templates, filters, files and *)
(* numbers of calls and jobs.  Two arguments are independent: what the     *)
(* server's jobs leave in the store (JobsSound), and what the page may     *)
(* still be waiting for (Told).                                            *)
(***************************************************************************)
EXTENDS Dashboard, TLAPS

Columns == {"document", "pages", "fields", "favorite", "used"}
JobColumns == {"op", "from", "file", "patch", "stage", "key", "read", "template", "mounted"}
CallColumns == {"op", "ids", "folder", "stage", "mounted"}

IsSeq(s) == s \in Seq({s[i] : i \in DOMAIN s})

TemplatesShaped == \A t \in DOMAIN templates : DOMAIN templates[t] = Columns
JobsShaped == IsSeq(jobs) /\ \A i \in DOMAIN jobs : DOMAIN jobs[i] = JobColumns
CallsShaped == IsSeq(calls) /\ \A i \in DOMAIN calls : DOMAIN calls[i] = CallColumns

\* A job has stored what its stage says, and changes what it was asked to.
Sound(j, bytes, keys, known) ==
    /\ j.op \in Creating =>
        /\ j.from \in {"dialog", "grid", "picker"}
        /\ j.stage = "stored" => j.key \in bytes
        /\ j.stage = "filed" => j.key \in bytes \cap keys
    /\ j.op = "update" =>
        /\ j.template \in known
        /\ \/ j.from = "star" /\ DOMAIN j.patch = {"favorite"}
           \/ j.from = "editor" /\ DOMAIN j.patch = {"fields"}
    /\ j.op \notin Creating \cup {"update"} => j.stage = "over"

JobsSound == \A i \in DOMAIN jobs : Sound(jobs[i], objects, documents, DOMAIN templates)

WrittenKnown == DOMAIN written = (DOMAIN templates) \X {"fields", "favorite"}

StoreSound ==
    /\ TemplatesShaped /\ JobsShaped /\ JobsSound
    /\ BytesBehindEveryRow /\ WrittenKnown /\ ChangesKept

\* Something the page asked for is done and its answer still to come.
Pending ==
    \/ \E i \in DOMAIN calls : calls[i].stage = "done"
    \/ \E i \in DOMAIN jobs : jobs[i].stage = "done" /\ jobs[i].from # "editor"

\* The newest copy, as far as it has been read: of the render under way, or of
\* the page if there is none.
Right(copy, lists) == \A list \in lists : copy[list] = Copy[list]
PageOf(r) == IF r.to = None THEN at ELSE r.to.page
ReadSoFar(r) == Reads(PageOf(r)) \ (r.unread \cup r.blank)

Fresh ==
    /\ coming = {} => Right(shown, Reads(at) \ blank)
    /\ \A r \in coming : Right(r.copy, ReadSoFar(r))

Told == Fresh \/ behind \/ refreshes > 0 \/ Pending

Lists == {"rows", "folders", "templates"}
ComingShaped ==
    \A r \in coming : /\ DOMAIN r = {"to", "copy", "unread", "blank"} /\ DOMAIN r.copy = Lists
                     /\ r.unread \subseteq Lists

IInv == StoreSound /\ CallsShaped /\ refreshes \in Nat /\ ComingShaped /\ Told

-------------------------------------------------------------------------------
(* Sequences of anything.                                                     *)

LEMMA SeqLike ==
    ASSUME NEW s, NEW t, IsSeq(s), t = [i \in DOMAIN s |-> t[i]]
    PROVE  IsSeq(t) /\ DOMAIN t = DOMAIN s
<1> DEFINE S == {t[i] : i \in DOMAIN t}
<1>1. DOMAIN s = 1 .. Len(s) /\ Len(s) \in Nat
  BY DEF IsSeq
<1>2. DOMAIN t = DOMAIN s
  OBVIOUS
<1>3. t \in [1 .. Len(s) -> S]
  BY <1>1, <1>2
<1>4. t \in Seq(S)
  BY <1>1, <1>3
<1> QED BY <1>2, <1>4 DEF IsSeq

LEMMA SeqExcept ==
    ASSUME NEW s, NEW i \in DOMAIN s, NEW e, IsSeq(s)
    PROVE  LET t == [s EXCEPT ![i] = e]
           IN  IsSeq(t) /\ DOMAIN t = DOMAIN s
<1> DEFINE t == [s EXCEPT ![i] = e]
<1>1. t = [k \in DOMAIN s |-> t[k]]
  OBVIOUS
<1> QED BY <1>1, SeqLike

LEMMA SeqAppend ==
    ASSUME NEW s, NEW e, IsSeq(s)
    PROVE  /\ IsSeq(Append(s, e))
           /\ DOMAIN Append(s, e) = DOMAIN s \cup {Len(s) + 1}
           /\ Len(s) + 1 \notin DOMAIN s
           /\ \A i \in DOMAIN s : Append(s, e)[i] = s[i]
           /\ Append(s, e)[Len(s) + 1] = e
<1> DEFINE S == {s[i] : i \in DOMAIN s} \cup {e}
           t == Append(s, e)
<1>1. s \in Seq(S) /\ e \in S
  BY DEF IsSeq
<1>2. Len(s) \in Nat /\ DOMAIN s = 1 .. Len(s)
  BY <1>1
<1>3. t \in Seq(S) /\ Len(t) = Len(s) + 1
  BY <1>1
<1>4. DOMAIN t = 1 .. Len(s) + 1
  BY <1>3
<1>5. \A i \in DOMAIN s : t[i] = s[i]
  BY <1>1, <1>2
<1>6. t[Len(s) + 1] = e
  BY <1>1, <1>2
<1>7. IsSeq(t)
  <2> HIDE DEF t
  <2>1. t = [i \in 1 .. Len(t) |-> t[i]] /\ Len(t) \in Nat
    BY <1>2, <1>3
  <2>2. t \in [1 .. Len(t) -> {t[i] : i \in DOMAIN t}]
    BY <2>1
  <2> QED BY <2>1, <2>2 DEF IsSeq
<1> QED BY <1>2, <1>4, <1>5, <1>6, <1>7 DEF IsSeq

-------------------------------------------------------------------------------
(* The picker.  This much is inductive by itself.                             *)

PickInv ==
    /\ DOMAIN picker = {"open", "listed", "section", "selected", "busy"}
    /\ PickIsOffered

LEMMA PickStep == PickInv /\ [Next]_vars => PickInv'
<1> SUFFICES ASSUME PickInv, [Next]_vars PROVE PickInv'
  OBVIOUS
<1>1. \/ picker' = picker
      \/ picker' = Closed
      \/ picker' = [Closed EXCEPT !.open = TRUE]
      \/ picker.listed = None /\ picker' = [picker EXCEPT !.listed = Cards]
      \/ \E s \in Shelves : picker' = [picker EXCEPT !.section = s, !.selected = None]
      \/ \E x \in Offers : picker' = [picker EXCEPT !.selected = x]
      \/ \E b \in BOOLEAN : picker' = [picker EXCEPT !.busy = b]
  <2>1. CASE UNCHANGED vars
    BY <2>1 DEF vars, lib
  <2>2. CASE ((UseTable /\ ~picker.open) \/ FilingServer \/ Others) /\ UNCHANGED lib
    BY <2>2 DEF lib
  <2>3. CASE UseLibrary
    BY <2>3 DEF UseLibrary, Turn, Turns, OpenDialog, CloseDialog, Submit, Accept, Star, SaveLayout,
                UseStarter
  <2>4. CASE UsePicker
    BY <2>4 DEF UsePicker, OpenPicker, ClosePicker, Listed, AddStarter, SwitchSection, Switched, Pick, Picks
  <2>5. CASE LibraryServer
    <3>1. PICK i \in DOMAIN jobs :
            \/ Measure(i) \/ PutBytes(i) \/ PutRow(i) \/ Create(i)
            \/ Check(i) \/ Write(i) \/ Fails(i) \/ Updated(i) \/ Opens(i)
      BY <2>5 DEF LibraryServer
    <3>2. CASE Fails(i)
      BY <3>2 DEF Fails
    <3>3. CASE ~Fails(i)
      BY <3>1, <3>3 DEF Measure, PutBytes, PutRow, Create, Check, Write, Updated, Opens
    <3> QED BY <3>2, <3>3
  <2>6. CASE Renders /\ UNCHANGED <<agreements, lib>>
    BY <2>6 DEF lib
  <2>7. CASE Navigates
    BY <2>7 DEF Navigates, GoTo, NewDocument, OpenPicked, OpenTemplate, Follows, lib
  <2>8. CASE \E t \in DOMAIN templates, d \in Docs : Send(t, d)
    BY <2>8 DEF Send, lib
  <2>9. CASE \E r \in coming : Arrive(r)
    BY <2>9 DEF Arrive, Leaves, lib
  <2> QED BY <2>1, <2>2, <2>3, <2>4, <2>5, <2>6, <2>7, <2>8, <2>9 DEF Next
<1>2. ASSUME picker'.listed = picker.listed, picker'.section = picker.section
      PROVE  Offers' = Offers
  BY <1>2, Zenon DEF Offers
<1>3. CASE picker' = picker
  <2>1. Offers' = Offers
    BY <1>2, <1>3
  <2> QED BY <1>3, <2>1 DEF PickInv, PickIsOffered
<1>4. CASE picker' = Closed \/ picker' = [Closed EXCEPT !.open = TRUE]
  <2>1. picker'.selected = None
    BY <1>4 DEF Closed
  <2>2. DOMAIN picker' = {"open", "listed", "section", "selected", "busy"}
    BY <1>4 DEF Closed
  <2> QED BY <2>1, <2>2 DEF PickInv, PickIsOffered
<1>5. CASE picker.listed = None /\ picker' = [picker EXCEPT !.listed = Cards]
  <2>1. Offers = {}
    BY <1>5, Zenon DEF Offers
  <2>2. picker'.selected = picker.selected
    BY <1>5 DEF PickInv
  <2> QED BY <1>5, <2>1, <2>2 DEF PickInv, PickIsOffered
<1>6. CASE \E s \in Shelves : picker' = [picker EXCEPT !.section = s, !.selected = None]
  <2>1. picker'.selected = None
    BY <1>6 DEF PickInv
  <2> QED BY <1>6, <2>1 DEF PickInv, PickIsOffered
<1>7. CASE \E x \in Offers : picker' = [picker EXCEPT !.selected = x]
  <2>1. PICK x \in Offers : picker' = [picker EXCEPT !.selected = x]
    BY <1>7
  <2>2. /\ picker'.listed = picker.listed /\ picker'.section = picker.section
        /\ picker'.selected = x /\ DOMAIN picker' = DOMAIN picker
    BY <2>1 DEF PickInv
  <2>3. Offers' = Offers
    BY <1>2, <2>2
  <2> QED BY <2>1, <2>2, <2>3 DEF PickInv, PickIsOffered
<1>8. CASE \E b \in BOOLEAN : picker' = [picker EXCEPT !.busy = b]
  <2>1. PICK b \in BOOLEAN : picker' = [picker EXCEPT !.busy = b]
    BY <1>8
  <2>2. /\ picker'.listed = picker.listed /\ picker'.section = picker.section
        /\ picker'.selected = picker.selected /\ DOMAIN picker' = DOMAIN picker
    BY <2>1 DEF PickInv
  <2>3. Offers' = Offers
    BY <1>2, <2>2
  <2> QED BY <2>1, <2>2, <2>3 DEF PickInv, PickIsOffered
<1> QED BY <1>1, <1>3, <1>4, <1>5, <1>6, <1>7, <1>8

\* What is selected in the picker is of the kind its section offers, through
\* any order of listing, switching and picking: "Use this template" never opens
\* a starter as a template nor copies a template as a starter.  (Whether the
\* search box hides its row is not said.)
THEOREM SelectionIsOffered == Spec => []PickIsOffered
<1>1. Init => PickInv
  BY DEF Init, LibraryInit, Closed, PickInv, PickIsOffered
<1>2. PickInv => PickIsOffered
  BY DEF PickInv
<1> QED BY <1>1, <1>2, PickStep, PTL DEF Spec

-------------------------------------------------------------------------------
(* The store: the server's jobs, whatever the pages do meanwhile.             *)

LEMMA SoundLater ==
    ASSUME NEW j, NEW b, NEW k, NEW n, NEW b2, NEW k2, NEW n2, Sound(j, b, k, n),
           b \subseteq b2, k \subseteq k2, n \subseteq n2
    PROVE  Sound(j, b2, k2, n2)
BY DEF Sound

Grown ==
    /\ objects \subseteq objects' /\ documents \subseteq documents'
    /\ DOMAIN templates \subseteq DOMAIN templates'

JobOK(j) == DOMAIN j = JobColumns /\ Sound(j, objects', documents', DOMAIN templates')

\* Jobs keep their shape and stay sound: when nothing happens to them, when
\* one takes a step, when one is asked for, when their page is left.
LEMMA JobsKept ==
    ASSUME JobsShaped, JobsSound, Grown, jobs' = jobs PROVE JobsShaped' /\ JobsSound'
BY SoundLater DEF JobsShaped, JobsSound, Grown

LEMMA JobSteps ==
    ASSUME JobsShaped, JobsSound, Grown, NEW i \in DOMAIN jobs, NEW j, Step(i, j), JobOK(j)
    PROVE  JobsShaped' /\ JobsSound'
<1>1. jobs' = [jobs EXCEPT ![i] = j]
  BY DEF Step
<1>2. IsSeq(jobs') /\ DOMAIN jobs' = DOMAIN jobs
  BY <1>1, SeqExcept DEF JobsShaped
<1>3. \A k \in DOMAIN jobs : jobs'[k] = IF k = i THEN j ELSE jobs[k]
  BY <1>1
<1>4. \A k \in DOMAIN jobs : DOMAIN jobs'[k] = JobColumns
  BY <1>3 DEF JobsShaped, JobOK
<1>5. \A k \in DOMAIN jobs : Sound(jobs'[k], objects', documents', DOMAIN templates')
  BY <1>3, SoundLater DEF JobsSound, Grown, JobOK
<1> QED BY <1>2, <1>4, <1>5 DEF JobsShaped, JobsSound

LEMMA JobAsked ==
    ASSUME JobsShaped, JobsSound, Grown, NEW j, Asks(j), JobOK(j)
    PROVE  JobsShaped' /\ JobsSound'
<1>1. jobs' = Append(jobs, j)
  BY DEF Asks
<1>2. /\ IsSeq(jobs') /\ DOMAIN jobs' = DOMAIN jobs \cup {Len(jobs) + 1}
      /\ \A k \in DOMAIN jobs : jobs'[k] = jobs[k]
      /\ jobs'[Len(jobs) + 1] = j
  BY <1>1, SeqAppend DEF JobsShaped
<1>3. \A k \in DOMAIN jobs' : DOMAIN jobs'[k] = JobColumns
  BY <1>2 DEF JobsShaped, JobOK
<1>4. \A k \in DOMAIN jobs' : Sound(jobs'[k], objects', documents', DOMAIN templates')
  BY <1>2, SoundLater DEF JobsSound, Grown, JobOK
<1> QED BY <1>2, <1>3, <1>4 DEF JobsShaped, JobsSound

LEMMA JobsLeft ==
    ASSUME JobsShaped, JobsSound, Grown, jobs' = [i \in DOMAIN jobs |-> jobs'[i]],
           \A i \in DOMAIN jobs : jobs'[i] = [jobs[i] EXCEPT !.mounted = FALSE]
    PROVE  JobsShaped' /\ JobsSound'
<1>1. IsSeq(jobs') /\ DOMAIN jobs' = DOMAIN jobs
  BY SeqLike DEF JobsShaped
<1>2. ASSUME NEW i \in DOMAIN jobs PROVE JobOK(jobs'[i])
  <2>1. Sound(jobs[i], objects', documents', DOMAIN templates')
    BY SoundLater DEF JobsSound, Grown
  <2>2. DOMAIN jobs[i] = JobColumns
    BY DEF JobsShaped
  <2> QED BY <2>1, <2>2 DEF JobOK, JobColumns, Sound
<1> QED BY <1>1, <1>2 DEF JobOK, JobsShaped, JobsSound

\* Steps that leave the store as it is.
LEMMA StoreKept ==
    ASSUME StoreSound, UNCHANGED <<store, templates, written>>, JobsShaped', JobsSound'
    PROVE  StoreSound'
<1>1. objects' = objects /\ documents' = documents /\ templates' = templates /\ written' = written
  BY DEF store
<1> QED BY <1>1 DEF StoreSound, TemplatesShaped, BytesBehindEveryRow, WrittenKnown, ChangesKept

\* The pages ask: an upload, a star, a copy of a starter, a layout.
LEMMA AskingSteps ==
    ASSUME StoreSound,
           \/ Submit \/ AddStarter
           \/ \E t \in DOMAIN templates : Star(t) \/ \E l \in Layouts : SaveLayout(t, l)
           \/ \E k \in Starters : UseStarter(k)
    PROVE  StoreSound'
<1>1. UNCHANGED <<store, templates, written>>
  BY DEF Submit, AddStarter, Star, SaveLayout, UseStarter, server
<1>2. Grown
  BY <1>1 DEF Grown, store
<1>3. \E j : Asks(j) /\ JobOK(j)
  <2>1. ASSUME NEW op \in Creating, NEW from \in {"dialog", "grid", "picker"}, NEW file
        PROVE  JobOK(Job(op, from, file, <<>>))
    BY DEF JobOK, Job, JobColumns, Sound, Creating
  <2>2. ASSUME NEW t \in DOMAIN templates, NEW from, NEW patch,
               \/ from = "star" /\ DOMAIN patch = {"favorite"}
               \/ from = "editor" /\ DOMAIN patch = {"fields"}
        PROVE  JobOK([Job("update", from, None, patch) EXCEPT !.template = t])
    BY <1>2, <2>2 DEF JobOK, Job, JobColumns, Sound, Creating, Grown
  <2>3. CASE Submit
    BY <2>1, <2>3 DEF Submit, Creating
  <2>4. CASE AddStarter
    BY <2>1, <2>4 DEF AddStarter, Creating
  <2>5. CASE \E k \in Starters : UseStarter(k)
    BY <2>1, <2>5 DEF UseStarter, Creating
  <2>6. ASSUME NEW t \in DOMAIN templates, Star(t) PROVE <1>3!:
    <3> DEFINE patch == [favorite |-> ~shown.templates[t].favorite]
    <3>1. Asks([Job("update", "star", None, patch) EXCEPT !.template = t])
      BY <2>6 DEF Star
    <3>2. DOMAIN patch = {"favorite"}
      OBVIOUS
    <3> QED BY <2>2, <3>1, <3>2
  <2>7. ASSUME NEW t \in DOMAIN templates, NEW l \in Layouts, SaveLayout(t, l) PROVE <1>3!:
    <3> DEFINE patch == [fields |-> l]
    <3>1. Asks([Job("update", "editor", None, patch) EXCEPT !.template = t])
      BY <2>7 DEF SaveLayout
    <3>2. DOMAIN patch = {"fields"}
      OBVIOUS
    <3> QED BY <2>2, <3>1, <3>2
  <2> QED BY <2>3, <2>4, <2>5, <2>6, <2>7
<1>4. JobsShaped' /\ JobsSound'
  BY <1>2, <1>3, JobAsked DEF StoreSound
<1> QED BY <1>1, <1>4, StoreKept

\* The server's steps that write to storage, to the documents or to no row.
LEMMA FilingJobs ==
    ASSUME StoreSound, NEW i \in DOMAIN jobs, Measure(i) \/ PutBytes(i) \/ PutRow(i) \/ Check(i)
    PROVE  StoreSound'
<1>1. Grown /\ UNCHANGED <<templates, written>>
  BY DEF Measure, PutBytes, PutRow, Check, store, server, Grown
<1>2. DOMAIN jobs[i] = JobColumns /\ Sound(jobs[i], objects, documents, DOMAIN templates)
  BY DEF StoreSound, JobsShaped, JobsSound
<1>3. \E j : Step(i, j) /\ JobOK(j)
  <2>1. Sound(jobs[i], objects', documents', DOMAIN templates')
    BY <1>1, <1>2, SoundLater DEF Grown
  <2>2. CASE Measure(i)
    <3>1. PICK stage \in {"measured", "refused"} : Step(i, [jobs[i] EXCEPT !.stage = stage])
      BY <2>2 DEF Measure
    <3>2. JobOK([jobs[i] EXCEPT !.stage = stage])
      BY <1>2, <2>1, <2>2 DEF Measure, At, JobOK, JobColumns, Sound, Creating
    <3> QED BY <3>1, <3>2
  <2>3. CASE PutBytes(i)
    <3>1. Step(i, [jobs[i] EXCEPT !.stage = "stored", !.key = i]) /\ i \in objects'
      BY <2>3 DEF PutBytes
    <3>2. JobOK([jobs[i] EXCEPT !.stage = "stored", !.key = i])
      BY <1>2, <2>1, <2>3, <3>1 DEF PutBytes, At, JobOK, JobColumns, Sound, Creating
    <3> QED BY <3>1, <3>2
  <2>4. CASE PutRow(i)
    <3>1. Step(i, [jobs[i] EXCEPT !.stage = "filed"]) /\ jobs[i].key \in documents'
      BY <2>4 DEF PutRow
    <3>2. JobOK([jobs[i] EXCEPT !.stage = "filed"])
      BY <1>2, <2>1, <2>4, <3>1 DEF PutRow, At, JobOK, JobColumns, Sound, Creating
    <3> QED BY <3>1, <3>2
  <2>5. CASE Check(i)
    <3>1. PICK read, stage : /\ stage \in {"refused", "checked"}
                             /\ Step(i, [jobs[i] EXCEPT !.read = read, !.stage = stage])
      BY <2>5 DEF Check
    <3>2. JobOK([jobs[i] EXCEPT !.read = read, !.stage = stage])
      BY <1>2, <2>1, <2>5, <3>1 DEF Check, At, JobOK, JobColumns, Sound, Creating
    <3> QED BY <3>1, <3>2
  <2> QED BY <2>2, <2>3, <2>4, <2>5
<1>4. JobsShaped' /\ JobsSound'
  BY <1>1, <1>3, JobSteps DEF StoreSound
<1>5. BytesBehindEveryRow'
  <2>1. documents' \subseteq objects'
    BY <1>2 DEF Measure, PutBytes, PutRow, Check, At, store, StoreSound, BytesBehindEveryRow, Sound
  <2> QED BY <1>1, <2>1 DEF StoreSound, BytesBehindEveryRow, Grown
<1> QED BY <1>1, <1>4, <1>5 DEF StoreSound, TemplatesShaped, WrittenKnown, ChangesKept

\* A job that is answered or fails is forgotten.
LEMMA EndingJobs ==
    ASSUME StoreSound, NEW i \in DOMAIN jobs, Fails(i) \/ Updated(i) \/ Opens(i)
    PROVE  StoreSound'
<1>1. UNCHANGED <<store, templates, written>>
  BY DEF Fails, Updated, Opens, server
<1>2. Grown
  BY <1>1 DEF Grown, store
<1>3. Step(i, Over)
  BY DEF Fails, Updated, Opens
<1>4. JobOK(Over)
  BY DEF JobOK, Over, Job, JobColumns, Sound, Creating
<1>5. JobsShaped' /\ JobsSound'
  BY <1>2, <1>3, <1>4, JobSteps DEF StoreSound
<1> QED BY <1>1, <1>5, StoreKept

LEMMA PairIs == ASSUME NEW A, NEW B, NEW x \in A \X B PROVE \E u \in A, c \in B : x = <<u, c>>
OBVIOUS

\* The template over a document that is filed.
LEMMA CreateStep == ASSUME StoreSound, NEW i \in DOMAIN jobs, Create(i) PROVE StoreSound'
<1> DEFINE t == Cardinality(DOMAIN templates) + 1
           row == NewTemplate(jobs[i].key, jobs[i].file.pages, IF jobs[i].op = "starter" THEN {1} ELSE {})
           j == [jobs[i] EXCEPT !.stage = "done", !.template = t]
<1>1. /\ At(i, Creating, "filed")
      /\ templates' = With(templates, t, row)
      /\ written' = With(With(written, <<t, "favorite">>, FALSE), <<t, "fields">>, row.fields)
      /\ Step(i, j)
      /\ objects' = objects /\ documents' = documents
  BY DEF Create, store
<1>2. row.document = jobs[i].key /\ row.favorite = FALSE /\ DOMAIN row = Columns
  BY DEF NewTemplate, Columns
<1> HIDE DEF t, row
<1>3. /\ DOMAIN templates' = DOMAIN templates \cup {t}
      /\ \A u \in DOMAIN templates' : templates'[u] = IF u = t THEN row ELSE templates[u]
  BY <1>1 DEF With
<1>4. Grown
  BY <1>1, <1>3 DEF Grown
<1>5. DOMAIN jobs[i] = JobColumns /\ Sound(jobs[i], objects, documents, DOMAIN templates)
  BY DEF StoreSound, JobsShaped, JobsSound
<1>6. JobOK(j)
  <2>1. Sound(jobs[i], objects', documents', DOMAIN templates')
    BY <1>4, <1>5, SoundLater DEF Grown
  <2> QED BY <1>1, <1>5, <2>1 DEF At, JobOK, JobColumns, Sound, Creating
<1>7. JobsShaped' /\ JobsSound'
  BY <1>1, <1>4, <1>6, JobSteps DEF StoreSound
<1>8. TemplatesShaped'
  BY <1>2, <1>3 DEF StoreSound, TemplatesShaped
<1>9. BytesBehindEveryRow'
  <2>1. jobs[i].key \in documents
    BY <1>1, <1>5 DEF At, Sound, Creating
  <2> QED BY <1>1, <1>2, <1>3, <2>1 DEF StoreSound, BytesBehindEveryRow
<1>10. DOMAIN written' = DOMAIN written \cup {<<t, "favorite">>, <<t, "fields">>}
  BY <1>1 DEF With
<1>11. WrittenKnown'
  BY <1>3, <1>10 DEF StoreSound, WrittenKnown
<1>12. ChangesKept'
  <2> SUFFICES ASSUME NEW x \in DOMAIN written' PROVE templates'[x[1]][x[2]] = written'[x]
    BY DEF ChangesKept
  <2>1. x \in (DOMAIN templates') \X {"fields", "favorite"}
    BY <1>11 DEF WrittenKnown
  <2>2. PICK u \in DOMAIN templates', c \in {"fields", "favorite"} : x = <<u, c>>
    BY <2>1, PairIs
  <2> DEFINE star == <<t, "favorite">>
             boxes == <<t, "fields">>
             off == FALSE
  <2>3. /\ written'[star] = FALSE /\ written'[boxes] = row.fields
        /\ \A y \in DOMAIN written : y # star /\ y # boxes => written'[y] = written[y]
    <3>1. star # boxes
      OBVIOUS
    <3>2. written' = With(With(written, star, off), boxes, row.fields)
      BY <1>1
    <3>3. written'[star] = off /\ written'[boxes] = row.fields
          /\ \A y \in DOMAIN written : y # star /\ y # boxes => written'[y] = written[y]
      <4> HIDE DEF star, boxes, off
      <4> QED BY <3>1, <3>2 DEF With
    <3> QED BY <3>3
  <2>4. CASE x = boxes
    BY <1>3, <2>2, <2>3, <2>4
  <2>5. CASE x = star
    <3>1. u = t /\ c = "favorite" /\ templates'[t] = row
      BY <1>3, <2>2, <2>5
    <3>2. x[1] = t /\ x[2] = "favorite"
      BY <2>5
    <3>3. templates'[x[1]][x[2]] = row["favorite"]
      BY <3>1, <3>2
    <3>4. row["favorite"] = FALSE
      BY <1>2
    <3> QED BY <2>3, <2>5, <3>3, <3>4, Zenon
  <2>6. CASE x # boxes /\ x # star
    <3>1. x \in DOMAIN written /\ u # t
      BY <1>10, <2>2, <2>6
    <3>2. templates[u][c] = written[x]
      BY <2>2, <3>1 DEF StoreSound, ChangesKept
    <3> QED BY <1>3, <2>2, <2>3, <2>6, <3>1, <3>2
  <2> QED BY <2>4, <2>5, <2>6
<1> QED BY <1>7, <1>8, <1>9, <1>11, <1>12 DEF StoreSound

\* An update writes the columns of its patch and no other.
LEMMA WriteStep == ASSUME StoreSound, NEW i \in DOMAIN jobs, Write(i) PROVE StoreSound'
<1> DEFINE t == jobs[i].template
           patch == jobs[i].patch
           j == [jobs[i] EXCEPT !.stage = "done", !.read = None]
<1>1. /\ At(i, {"update"}, "checked")
      /\ templates' = [templates EXCEPT ![t] = Patched(t, jobs[i].read, patch)]
      /\ written' = [x \in DOMAIN written |-> IF x[1] = t /\ Has(patch, x[2]) THEN patch[x[2]]
                                              ELSE written[x]]
      /\ Step(i, j)
      /\ objects' = objects /\ documents' = documents
  BY DEF Write, store
<1>2. DOMAIN jobs[i] = JobColumns /\ Sound(jobs[i], objects, documents, DOMAIN templates)
  BY DEF StoreSound, JobsShaped, JobsSound
<1>3. t \in DOMAIN templates /\ DOMAIN patch \subseteq {"fields", "favorite"}
  BY <1>1, <1>2 DEF At, Sound
<1>4. DOMAIN templates[t] = Columns
  BY <1>3 DEF StoreSound, TemplatesShaped
<1>5. /\ DOMAIN templates' = DOMAIN templates
      /\ \A u \in DOMAIN templates : u # t => templates'[u] = templates[u]
      /\ DOMAIN templates'[t] = Columns
      /\ \A c \in Columns : templates'[t][c] = IF c \in DOMAIN patch THEN patch[c] ELSE templates[t][c]
  BY <1>1, <1>3, <1>4 DEF Patched, Has
<1>6. Grown
  BY <1>1, <1>5 DEF Grown
<1>7. JobOK(j)
  BY <1>1, <1>2, <1>3, <1>5 DEF At, JobOK, JobColumns, Sound, Creating
<1>8. JobsShaped' /\ JobsSound'
  BY <1>1, <1>6, <1>7, JobSteps DEF StoreSound
<1>9. TemplatesShaped'
  BY <1>5 DEF StoreSound, TemplatesShaped
<1>10. BytesBehindEveryRow'
  <2>1. templates'[t].document = templates[t].document
    BY <1>3, <1>5 DEF Columns
  <2> QED BY <1>1, <1>3, <1>5, <2>1 DEF StoreSound, BytesBehindEveryRow
<1>11. WrittenKnown'
  BY <1>1, <1>5 DEF StoreSound, WrittenKnown
<1>12. ChangesKept'
  <2> SUFFICES ASSUME NEW x \in DOMAIN written' PROVE templates'[x[1]][x[2]] = written'[x]
    BY DEF ChangesKept
  <2>1. x \in DOMAIN written /\ x[1] \in DOMAIN templates /\ x[2] \in {"fields", "favorite"}
    BY <1>1 DEF StoreSound, WrittenKnown
  <2>2. templates[x[1]][x[2]] = written[x]
    BY <2>1 DEF StoreSound, ChangesKept
  <2>3. written'[x] = IF x[1] = t /\ x[2] \in DOMAIN patch THEN patch[x[2]] ELSE written[x]
    BY <1>1, <2>1 DEF Has
  <2>4. x[2] \in Columns
    BY <2>1 DEF Columns
  <2> QED BY <1>5, <2>1, <2>2, <2>3, <2>4
<1> QED BY <1>8, <1>9, <1>10, <1>11, <1>12 DEF StoreSound

\* The editor sends from a template.
LEMMA SendStep ==
    ASSUME StoreSound, NEW t \in DOMAIN templates, NEW d \in Docs, Send(t, d) PROVE StoreSound'
<1>1. /\ templates' = [templates EXCEPT ![t].used = TRUE]
      /\ objects' = objects /\ documents' = documents /\ jobs' = jobs /\ written' = written
  BY DEF Send, lib, store
<1>2. /\ DOMAIN templates' = DOMAIN templates
      /\ \A u \in DOMAIN templates : /\ DOMAIN templates'[u] = Columns
                                     /\ \A c \in Columns \ {"used"} : templates'[u][c] = templates[u][c]
  BY <1>1 DEF StoreSound, TemplatesShaped, Columns
<1>3. Grown
  BY <1>1, <1>2 DEF Grown
<1>4. JobsShaped' /\ JobsSound'
  BY <1>1, <1>3, JobsKept DEF StoreSound
<1>5. TemplatesShaped' /\ BytesBehindEveryRow' /\ WrittenKnown'
  BY <1>1, <1>2 DEF StoreSound, TemplatesShaped, BytesBehindEveryRow, WrittenKnown, Columns
<1>6. ChangesKept'
  <2> SUFFICES ASSUME NEW x \in DOMAIN written PROVE templates'[x[1]][x[2]] = written[x]
    BY <1>1 DEF ChangesKept
  <2>1. x[1] \in DOMAIN templates /\ x[2] \in {"fields", "favorite"}
    BY DEF StoreSound, WrittenKnown
  <2>2. templates[x[1]][x[2]] = written[x]
    BY DEF StoreSound, ChangesKept
  <2> QED BY <1>2, <2>1, <2>2 DEF Columns
<1> QED BY <1>4, <1>5, <1>6 DEF StoreSound

\* Leaving a page, and everything else that does not touch the store.
LEMMA PageLeft ==
    ASSUME StoreSound, UNCHANGED server, NEW to, NEW copy, Leaves(to, copy) PROVE StoreSound'
<1>1. UNCHANGED <<store, templates, written>> /\ Grown
  BY DEF Leaves, server, store, Grown
<1>2. jobs' = [i \in DOMAIN jobs |-> jobs'[i]]
      /\ \A i \in DOMAIN jobs : jobs'[i] = [jobs[i] EXCEPT !.mounted = FALSE]
  BY DEF Leaves
<1>3. JobsShaped' /\ JobsSound'
  BY <1>1, <1>2, JobsLeft DEF StoreSound
<1> QED BY <1>1, <1>3, StoreKept

LEMMA StoreStep == StoreSound /\ [Next]_vars => StoreSound'
<1> SUFFICES ASSUME StoreSound, [Next]_vars PROVE StoreSound'
  OBVIOUS
<1>1. ASSUME UNCHANGED <<store, jobs, templates, written>> PROVE StoreSound'
  <2>1. Grown /\ jobs' = jobs /\ UNCHANGED <<store, templates, written>>
    BY <1>1 DEF Grown, store
  <2>2. JobsShaped' /\ JobsSound'
    BY <2>1, JobsKept DEF StoreSound
  <2> QED BY <2>1, <2>2, StoreKept
<1>2. CASE UNCHANGED vars
  BY <1>1, <1>2 DEF vars, lib, store, server
<1>3. CASE ((UseTable /\ ~picker.open) \/ FilingServer \/ Others) /\ UNCHANGED lib
  <2>1. templates' = templates
    BY <1>3 DEF UseTable, Look, SetFilter, Toggle, SelectAll, BulkMove, BulkDelete, BulkRestore, RowDelete,
                RowMove, CreateFolder, Run, Uses, FilingServer, Serve, Applied, Succeeds, AnswerLost,
                Others, Moves, Colleague, server
  <2> QED BY <1>1, <1>3, <2>1 DEF lib, store
<1>4. CASE UseLibrary
  <2>1. CASE \/ \E s \in Sections : Turn(s)
             \/ OpenDialog \/ CloseDialog
             \/ \E f \in Files : Accept(f)
    <3>1. UNCHANGED <<store, jobs, templates, written>>
      BY <2>1 DEF Turn, Turns, OpenDialog, CloseDialog, Accept, server
    <3> QED BY <1>1, <3>1
  <2>2. CASE \/ Submit
             \/ \E t \in DOMAIN templates : Star(t) \/ \E l \in Layouts : SaveLayout(t, l)
             \/ \E k \in Starters : UseStarter(k)
    BY <2>2, AskingSteps
  <2> QED BY <1>4, <2>1, <2>2 DEF UseLibrary
<1>5. CASE UsePicker
  <2>1. CASE AddStarter
    BY <2>1, AskingSteps
  <2>2. CASE ~AddStarter
    <3>1. UNCHANGED <<store, jobs, templates, written>>
      BY <1>5, <2>2 DEF UsePicker, OpenPicker, ClosePicker, Listed, SwitchSection, Pick, Picks, server
    <3> QED BY <1>1, <3>1
  <2> QED BY <2>1, <2>2
<1>6. CASE LibraryServer
  BY <1>6, FilingJobs, EndingJobs, CreateStep, WriteStep DEF LibraryServer
<1>7. CASE Renders /\ UNCHANGED <<agreements, lib>>
  BY <1>1, <1>7 DEF Renders, StartRefresh, Read, ReadFails, lib, store, server
<1>8. CASE Navigates
  BY <1>1, <1>8 DEF Navigates, GoTo, NewDocument, OpenPicked, OpenTemplate, Follows, lib, store, server
<1>9. CASE \E t \in DOMAIN templates, d \in Docs : Send(t, d)
  BY <1>9, SendStep
<1>10. ASSUME NEW r \in coming, Arrive(r) PROVE StoreSound'
  <2>1. UNCHANGED server
    BY <1>10 DEF Arrive, Lands
  <2>2. CASE r.to # None /\ r.to.page # at
    BY <1>10, <2>1, <2>2, PageLeft DEF Arrive
  <2>3. CASE r.to = None \/ r.to.page = at
    <3>1. UNCHANGED lib
      BY <1>10, <2>3 DEF Arrive
    <3> QED BY <1>1, <2>1, <3>1 DEF lib, store, server
  <2> QED BY <2>2, <2>3
<1> QED BY <1>2, <1>3, <1>4, <1>5, <1>6, <1>7, <1>8, <1>9, <1>10 DEF Next

LEMMA StoreInit == Init => StoreSound
<1> SUFFICES ASSUME Init PROVE StoreSound
  OBVIOUS
<1>1. /\ templates = [t \in 1 .. Kept |-> NewTemplate(0, 1, {})]
      /\ documents = {templates[t].document : t \in DOMAIN templates} /\ objects = documents
      /\ jobs = <<>>
      /\ written = [x \in (DOMAIN templates) \X {"fields", "favorite"} |-> templates[x[1]][x[2]]]
  BY DEF Init, ShellInit, LibraryInit
<1>2. \A t \in DOMAIN templates : DOMAIN templates[t] = Columns
  BY <1>1 DEF NewTemplate, Columns
<1>3. JobsShaped /\ JobsSound
  BY <1>1 DEF JobsShaped, JobsSound, IsSeq
<1>4. documents = {templates[t].document : t \in DOMAIN templates} /\ objects = documents
  BY <1>1
<1>5. written = [x \in (DOMAIN templates) \X {"fields", "favorite"} |-> templates[x[1]][x[2]]]
  BY <1>1
<1>6. BytesBehindEveryRow
  BY <1>4 DEF BytesBehindEveryRow
<1>7. WrittenKnown /\ ChangesKept
  BY <1>5 DEF WrittenKnown, ChangesKept
<1> QED BY <1>2, <1>3, <1>6, <1>7 DEF StoreSound, TemplatesShaped

-------------------------------------------------------------------------------
(* What the page may still be waiting for.                                    *)

\* No row the page lists changed, and nothing it waits for was forgotten.
NothingNew ==
    /\ UNCHANGED <<rows, folders>> /\ Cards' = Cards
    /\ Pending => Pending'

\* How a step may concern the page.
Heard ==
    \/ UNCHANGED shell /\ (Pending' \/ NothingNew)
    \/ \E to : Follow(to)
    \/ AskRefresh
    \/ Unseen
    \/ Renders /\ UNCHANGED <<agreements, lib>>
    \/ \E r \in coming : Arrive(r)

LEMMA ServerIs == UNCHANGED server => UNCHANGED <<rows, folders>> /\ Cards' = Cards
BY DEF server, Cards

LEMMA AppendKeeps ==
    ASSUME CallsShaped, JobsShaped,
           \/ calls' = calls /\ jobs' = jobs
           \/ jobs' = jobs /\ \E c : calls' = Append(calls, c)
           \/ calls' = calls /\ \E j : jobs' = Append(jobs, j)
    PROVE  Pending => Pending'
<1>1. CASE calls' = calls /\ jobs' = jobs
  BY <1>1 DEF Pending
<1>2. ASSUME NEW c, calls' = Append(calls, c), jobs' = jobs PROVE Pending => Pending'
  <2>1. \A i \in DOMAIN calls : i \in DOMAIN calls' /\ calls'[i] = calls[i]
    BY <1>2, SeqAppend DEF CallsShaped
  <2> QED BY <1>2, <2>1 DEF Pending
<1>3. ASSUME NEW j, jobs' = Append(jobs, j), calls' = calls PROVE Pending => Pending'
  <2>1. \A i \in DOMAIN jobs : i \in DOMAIN jobs' /\ jobs'[i] = jobs[i]
    BY <1>3, SeqAppend DEF JobsShaped
  <2> QED BY <1>3, <2>1 DEF Pending
<1> QED BY <1>1, <1>2, <1>3

LEMMA StepKeeps ==
    ASSUME \/ \E i \in DOMAIN calls : /\ calls[i].stage # "done" /\ jobs' = jobs
                                     /\ \E c : calls' = [calls EXCEPT ![i] = c]
           \/ \E i \in DOMAIN jobs : /\ jobs[i].stage # "done" \/ jobs[i].from = "editor"
                                    /\ calls' = calls
                                    /\ \E j : jobs' = [jobs EXCEPT ![i] = j]
    PROVE  Pending => Pending'
BY DEF Pending

LEMMA TableHeard ==
    ASSUME CallsShaped, JobsShaped, UseTable \/ FilingServer \/ Others, UNCHANGED lib
    PROVE  Heard
<1>1. jobs' = jobs
  BY DEF lib
<1>2. CASE \E v \in Tabs, f \in Folders \cup {None} : Look(v, f)
  BY <1>2 DEF Look, Heard
<1>3. CASE \/ \E f \in Filters : SetFilter(f)
           \/ \E d \in Rows : Toggle(d)
           \/ \E on \in BOOLEAN : SelectAll(on)
  <2>1. UNCHANGED server /\ UNCHANGED shell /\ calls' = calls
    BY <1>3 DEF SetFilter, Toggle, SelectAll, Uses
  <2> QED BY <1>1, <2>1, AppendKeeps, ServerIs DEF Heard, NothingNew
<1>4. ASSUME NEW op, NEW ids, NEW folder, Run(op, ids, folder) PROVE Heard
  <2>1. UNCHANGED server /\ UNCHANGED shell /\ calls' = Append(calls, Request(op, ids, folder))
    BY <1>4 DEF Run
  <2> QED BY <1>1, <2>1, AppendKeeps, ServerIs DEF Heard, NothingNew
<1>5. CASE \/ \E f \in Folders \cup {None} : BulkMove(f)
           \/ BulkDelete \/ BulkRestore
           \/ \E d \in Rows : RowDelete(d) \/ \E f \in Folders : RowMove(d, f)
           \/ \E f \in Folders : CreateFolder(f)
  BY <1>4, <1>5 DEF BulkMove, BulkDelete, BulkRestore, RowDelete, RowMove, CreateFolder
<1>6. ASSUME NEW i \in DOMAIN calls, Serve(i) PROVE Heard
  <2>1. CASE Refused(calls[i])
    <3>1. /\ UNCHANGED server /\ UNCHANGED shell /\ calls[i].stage # "done"
          /\ calls' = [calls EXCEPT ![i] = [calls[i] EXCEPT !.stage = "refused"]]
      BY <1>6, <2>1 DEF Serve, Becomes
    <3> QED BY <1>1, <3>1, StepKeeps, ServerIs DEF Heard, NothingNew
  <2>2. CASE ~Refused(calls[i])
    <3>1. UNCHANGED shell /\ calls' = [calls EXCEPT ![i] = [calls[i] EXCEPT !.stage = "done"]]
      BY <1>6, <2>2 DEF Serve, Becomes
    <3>2. DOMAIN calls[i] = CallColumns
      BY DEF CallsShaped
    <3>3. i \in DOMAIN calls' /\ calls'[i].stage = "done"
      BY <3>1, <3>2 DEF CallColumns
    <3> QED BY <3>1, <3>3 DEF Heard, Pending
  <2> QED BY <2>1, <2>2
<1>7. ASSUME NEW i \in DOMAIN calls, Succeeds(i) PROVE Heard
  BY <1>7 DEF Succeeds, Heard
<1>8. ASSUME NEW i \in DOMAIN calls, AnswerLost(i) PROVE Heard
  <2>1. CASE calls[i].stage = "done"
    BY <1>8, <2>1 DEF AnswerLost, Heard
  <2>2. CASE calls[i].stage # "done"
    <3>1. UNCHANGED server /\ UNCHANGED shell /\ calls' = [calls EXCEPT ![i] = Answered]
      BY <1>8, <2>2 DEF AnswerLost, Ends
    <3> QED BY <1>1, <2>2, <3>1, StepKeeps, ServerIs DEF Heard, NothingNew
  <2> QED BY <2>1, <2>2
<1>9. CASE Others
  BY <1>9 DEF Others, Moves, Colleague, Other, Heard
<1> QED BY <1>2, <1>3, <1>5, <1>6, <1>7, <1>8, <1>9 DEF UseTable, FilingServer

LEMMA LibraryHeard ==
    ASSUME CallsShaped, StoreSound, UseLibrary \/ UsePicker \/ LibraryServer, UNCHANGED agreements
    PROVE  Heard
<1>1. calls' = calls /\ JobsShaped /\ JobsSound
  BY DEF agreements, StoreSound
<1>2. CASE UseLibrary \/ UsePicker
  <2>1. UNCHANGED server /\ UNCHANGED shell
    BY <1>2 DEF UseLibrary, Turn, Turns, OpenDialog, CloseDialog, Submit, Accept, Star, SaveLayout,
                UseStarter, UsePicker, OpenPicker, ClosePicker, Listed, AddStarter, SwitchSection,
                Switched, Pick, Picks
  <2>2. jobs' = jobs \/ \E j : jobs' = Append(jobs, j)
    BY <1>2 DEF UseLibrary, Turn, Turns, OpenDialog, CloseDialog, Submit, Accept, Star, SaveLayout,
                UseStarter, UsePicker, OpenPicker, ClosePicker, Listed, AddStarter, SwitchSection,
                Switched, Pick, Picks, Asks
  <2> QED BY <1>1, <2>1, <2>2, AppendKeeps, ServerIs DEF Heard, NothingNew
<1>3. ASSUME NEW i \in DOMAIN jobs,
             \/ Measure(i) \/ PutBytes(i) \/ PutRow(i) \/ Create(i)
             \/ Check(i) \/ Write(i) \/ Fails(i) \/ Updated(i) \/ Opens(i)
      PROVE  Heard
  <2>1. DOMAIN jobs[i] = JobColumns /\ Sound(jobs[i], objects, documents, DOMAIN templates)
    BY <1>1 DEF JobsShaped, JobsSound
  <2>2. CASE Measure(i) \/ PutBytes(i) \/ PutRow(i) \/ Check(i)
    <3>1. /\ UNCHANGED server /\ UNCHANGED shell /\ jobs[i].stage # "done"
          /\ \E j : jobs' = [jobs EXCEPT ![i] = j]
      BY <2>2 DEF Measure, PutBytes, PutRow, Check, At, Step
    <3> QED BY <1>1, <3>1, StepKeeps, ServerIs DEF Heard, NothingNew
  <2>3. CASE Create(i)
    <3>1. PICK t : /\ UNCHANGED shell /\ At(i, Creating, "filed")
                   /\ jobs' = [jobs EXCEPT ![i] = [jobs[i] EXCEPT !.stage = "done", !.template = t]]
      BY <2>3 DEF Create, Step
    <3>2. jobs[i].from # "editor"
      BY <2>1, <3>1 DEF At, Sound
    <3>3. i \in DOMAIN jobs' /\ jobs'[i].stage = "done" /\ jobs'[i].from # "editor"
      BY <2>1, <3>1, <3>2 DEF JobColumns
    <3> QED BY <3>1, <3>3 DEF Heard, Pending
  <2>4. CASE Write(i)
    <3>1. /\ UNCHANGED shell /\ At(i, {"update"}, "checked") /\ rows' = rows /\ folders' = folders
          /\ jobs' = [jobs EXCEPT ![i] = [jobs[i] EXCEPT !.stage = "done", !.read = None]]
          /\ templates' = [templates EXCEPT ![jobs[i].template] =
                                Patched(jobs[i].template, jobs[i].read, jobs[i].patch)]
      BY <2>4 DEF Write, Step
    <3>2. CASE jobs[i].from # "editor"
      <4>1. i \in DOMAIN jobs' /\ jobs'[i].stage = "done" /\ jobs'[i].from # "editor"
        BY <2>1, <3>1, <3>2 DEF JobColumns
      <4> QED BY <3>1, <4>1 DEF Heard, Pending
    <3>3. CASE jobs[i].from = "editor"
      <4>1. DOMAIN jobs[i].patch = {"fields"} /\ jobs[i].template \in DOMAIN templates
        BY <2>1, <3>1, <3>3 DEF At, Sound
      <4>2. DOMAIN templates[jobs[i].template] = Columns
        BY <4>1 DEF StoreSound, TemplatesShaped
      <4>3. /\ DOMAIN templates' = DOMAIN templates
            /\ \A t \in DOMAIN templates : /\ templates'[t].favorite = templates[t].favorite
                                           /\ templates'[t].used = templates[t].used
        BY <3>1, <4>1, <4>2 DEF Patched, Has, Columns
      <4>4. Cards' = Cards
        BY <4>3 DEF Cards
      <4>5. Pending => Pending'
        BY <1>1, <3>1, <3>3, StepKeeps
      <4> QED BY <3>1, <4>4, <4>5 DEF Heard, NothingNew
    <3> QED BY <3>2, <3>3
  <2>5. CASE Fails(i)
    <3>1. CASE jobs[i].stage = "done" /\ jobs[i].from # "editor"
      BY <2>5, <3>1 DEF Fails, Heard
    <3>2. CASE jobs[i].stage # "done" \/ jobs[i].from = "editor"
      <4>1. UNCHANGED server /\ UNCHANGED shell /\ jobs' = [jobs EXCEPT ![i] = Over]
        BY <2>5, <3>2 DEF Fails, Step
      <4> QED BY <1>1, <3>2, <4>1, StepKeeps, ServerIs DEF Heard, NothingNew
    <3> QED BY <3>1, <3>2
  <2>6. CASE Updated(i)
    <3>1. CASE jobs[i].from = "star"
      BY <2>6, <3>1 DEF Updated, Heard
    <3>2. CASE jobs[i].from # "star"
      <4>1. UNCHANGED server /\ UNCHANGED shell /\ jobs' = [jobs EXCEPT ![i] = Over]
        BY <2>6, <3>2 DEF Updated, Step
      <4>2. jobs[i].from = "editor"
        BY <2>1, <2>6, <3>2 DEF Updated, At, Sound
      <4> QED BY <1>1, <4>1, <4>2, StepKeeps, ServerIs DEF Heard, NothingNew
    <3> QED BY <3>1, <3>2
  <2>7. CASE Opens(i)
    BY <2>7 DEF Opens, Heard
  <2> QED BY <1>3, <2>2, <2>3, <2>4, <2>5, <2>6, <2>7
<1> QED BY <1>2, <1>3 DEF LibraryServer

LEMMA AllHeard == ASSUME CallsShaped, StoreSound, [Next]_vars PROVE Heard
<1>1. CASE UNCHANGED vars
  <2>1. UNCHANGED server /\ UNCHANGED shell /\ calls' = calls /\ jobs' = jobs
    BY <1>1 DEF vars, lib, agreements
  <2> QED BY <2>1, AppendKeeps, ServerIs DEF Heard, NothingNew, StoreSound
<1>2. CASE ((UseTable /\ ~picker.open) \/ FilingServer \/ Others) /\ UNCHANGED lib
  BY <1>2, TableHeard DEF StoreSound
<1>3. CASE (UseLibrary \/ UsePicker \/ LibraryServer) /\ UNCHANGED agreements
  BY <1>3, LibraryHeard
<1>4. CASE (Renders /\ UNCHANGED <<agreements, lib>>) \/ \E r \in coming : Arrive(r)
  BY <1>4 DEF Heard
<1>5. CASE Navigates
  BY <1>5 DEF Navigates, GoTo, NewDocument, OpenPicked, OpenTemplate, Follows, Heard
<1>6. CASE \E t \in DOMAIN templates, d \in Docs : Send(t, d)
  BY <1>6 DEF Send, Heard
<1> QED BY <1>1, <1>2, <1>3, <1>4, <1>5, <1>6 DEF Next

LEMMA CallsStep == ASSUME CallsShaped, [Next]_vars PROVE CallsShaped'
<1>1. \/ calls' = calls
      \/ \E op, ids, folder : calls' = Append(calls, Request(op, ids, folder))
      \/ \E i \in DOMAIN calls : \E stage : calls' = [calls EXCEPT ![i] = [calls[i] EXCEPT !.stage = stage]]
      \/ \E i \in DOMAIN calls : calls' = [calls EXCEPT ![i] = Answered]
      \/ calls' = [i \in DOMAIN calls |-> [calls[i] EXCEPT !.mounted = FALSE]]
  <2>1. CASE UseTable
    BY <2>1 DEF UseTable, Look, SetFilter, Toggle, SelectAll, BulkMove, BulkDelete, BulkRestore, RowDelete,
                RowMove, CreateFolder, Run, Uses, agreements
  <2>2. CASE FilingServer
    BY <2>2 DEF FilingServer, Serve, Becomes, Succeeds, AnswerLost, Ends
  <2>3. CASE Others
    BY <2>3 DEF Others, Moves, Colleague
  <2>4. CASE UNCHANGED agreements
    BY <2>4 DEF agreements
  <2>5. CASE Navigates
    BY <2>5 DEF Navigates, GoTo, NewDocument, OpenPicked, OpenTemplate, Follows, agreements
  <2>6. CASE \E r \in coming : Arrive(r)
    BY <2>6 DEF Arrive, Leaves, TableLeft, agreements
  <2> QED BY <2>1, <2>2, <2>3, <2>4, <2>5, <2>6 DEF Next, vars, Send
<1>2. CASE calls' = calls
  BY <1>2 DEF CallsShaped
<1>3. ASSUME NEW op, NEW ids, NEW folder, calls' = Append(calls, Request(op, ids, folder))
      PROVE  CallsShaped'
  <2>1. DOMAIN Request(op, ids, folder) = CallColumns
    BY DEF Request, CallColumns
  <2> QED BY <1>3, <2>1, SeqAppend DEF CallsShaped
<1>4. ASSUME NEW i \in DOMAIN calls, NEW c, DOMAIN c = CallColumns, calls' = [calls EXCEPT ![i] = c]
      PROVE  CallsShaped'
  <2>1. IsSeq(calls') /\ DOMAIN calls' = DOMAIN calls
    BY <1>4, SeqExcept DEF CallsShaped
  <2>2. \A k \in DOMAIN calls : calls'[k] = IF k = i THEN c ELSE calls[k]
    BY <1>4
  <2> QED BY <1>4, <2>1, <2>2 DEF CallsShaped
<1>5. ASSUME NEW i \in DOMAIN calls, NEW stage,
             calls' = [calls EXCEPT ![i] = [calls[i] EXCEPT !.stage = stage]]
      PROVE  CallsShaped'
  <2>1. DOMAIN [calls[i] EXCEPT !.stage = stage] = CallColumns
    BY DEF CallsShaped
  <2> QED BY <1>4, <1>5, <2>1
<1>6. ASSUME NEW i \in DOMAIN calls, calls' = [calls EXCEPT ![i] = Answered]
      PROVE  CallsShaped'
  <2>1. DOMAIN Answered = CallColumns
    BY DEF Answered, Request, CallColumns
  <2> QED BY <1>4, <1>6, <2>1
<1>7. CASE calls' = [i \in DOMAIN calls |-> [calls[i] EXCEPT !.mounted = FALSE]]
  <2>1. calls' = [i \in DOMAIN calls |-> calls'[i]]
    BY <1>7
  <2>2. IsSeq(calls') /\ DOMAIN calls' = DOMAIN calls
    BY <2>1, SeqLike DEF CallsShaped
  <2> QED BY <1>7, <2>2 DEF CallsShaped
<1> QED BY <1>1, <1>2, <1>3, <1>5, <1>6, <1>7

-------------------------------------------------------------------------------
(* The steps of a render.                                                     *)

LEMMA CopyIs == UNCHANGED server => Copy' = Copy
BY DEF server, Copy, Cards

\* An answered or waiting request stays so when its page is left.
LEMMA LeavingKeeps ==
    ASSUME CallsShaped, JobsShaped, NEW to, NEW copy, Leaves(to, copy) PROVE Pending => Pending'
<1>1. \A i \in DOMAIN calls : i \in DOMAIN calls' /\ calls'[i].stage = calls[i].stage
  BY DEF CallsShaped, CallColumns, Leaves, TableLeft
<1>2. \A i \in DOMAIN jobs :
        i \in DOMAIN jobs' /\ jobs'[i].stage = jobs[i].stage /\ jobs'[i].from = jobs[i].from
  BY DEF JobsShaped, JobColumns, Leaves
<1> QED BY <1>1, <1>2 DEF Pending

\* A render that starts has read nothing.
LEMMA StartIsFresh ==
    ASSUME NEW to, coming' = {Rendering(to)}, at' = at PROVE Fresh' /\ ComingShaped'
<1>0. PICK r : r = Rendering(to)
  OBVIOUS
<1>1. /\ DOMAIN r = {"to", "copy", "unread", "blank"} /\ r.copy = Empty /\ r.to = to
      /\ r.unread = Reads(IF to = None THEN at ELSE to.page)
  BY <1>0 DEF Rendering
<1>2. DOMAIN Empty = Lists
  BY DEF Empty, Lists
<1>3. Reads(IF to = None THEN at ELSE to.page) \subseteq Lists
  BY DEF Reads, Lists
<1>4. coming' = {r}
  BY <1>0
<1>5. ReadSoFar(r)' = {}
  BY <1>1 DEF ReadSoFar, PageOf, Reads
<1> QED BY <1>1, <1>2, <1>3, <1>4, <1>5 DEF Fresh, Right, ComingShaped

LEMMA ReadStep ==
    ASSUME ComingShaped, NEW r \in coming, NEW list \in r.unread, Read(r, list) \/ ReadFails(r, list)
    PROVE  ComingShaped' /\ (Fresh => Fresh')
<1>1. /\ DOMAIN r = {"to", "copy", "unread", "blank"} /\ DOMAIN r.copy = Lists
      /\ r.unread \subseteq Lists
  BY DEF ComingShaped
<1>2. Copy' = Copy /\ at' = at
  BY CopyIs DEF Read, ReadFails
<1>3. CASE Read(r, list)
  <2>0. PICK s : s = [r EXCEPT !.unread = @ \ {list}, !.copy[list] = Copy[list]]
    OBVIOUS
  <2>1. coming' = {s}
    BY <1>3, <2>0 DEF Read
  <2>2. /\ DOMAIN s = {"to", "copy", "unread", "blank"} /\ s.to = r.to /\ s.blank = r.blank
        /\ s.unread = r.unread \ {list}
        /\ s.copy = [r.copy EXCEPT ![list] = Copy[list]]
    BY <1>1, <2>0
  <2>3. DOMAIN s.copy = Lists /\ \A l \in Lists : s.copy[l] = IF l = list THEN Copy[list] ELSE r.copy[l]
    BY <1>1, <2>2
  <2>4. ComingShaped'
    BY <1>1, <2>1, <2>2, <2>3 DEF ComingShaped
  <2>5. ReadSoFar(s)' = ReadSoFar(s) /\ ReadSoFar(s) \subseteq ReadSoFar(r) \cup {list}
    BY <1>2, <2>2 DEF ReadSoFar, PageOf, Reads
  <2>6. ReadSoFar(s) \subseteq Lists
    BY DEF ReadSoFar, Reads, Lists
  <2>7. Fresh => Right(s.copy, ReadSoFar(s))
    BY <2>3, <2>5, <2>6 DEF Fresh, Right
  <2>8. Right(s.copy, ReadSoFar(s)) => Right(s.copy, ReadSoFar(s))'
    BY <1>2, <2>5 DEF Right
  <2> QED BY <2>1, <2>4, <2>7, <2>8 DEF Fresh
<1>4. CASE ReadFails(r, list)
  <2>0. PICK s : s = [r EXCEPT !.unread = @ \ {list}, !.blank = @ \cup {list}]
    OBVIOUS
  <2>1. coming' = {s}
    BY <1>4, <2>0 DEF ReadFails
  <2>2. /\ DOMAIN s = {"to", "copy", "unread", "blank"} /\ s.to = r.to /\ s.copy = r.copy
        /\ s.unread = r.unread \ {list} /\ s.blank = r.blank \cup {list}
    BY <1>1, <2>0
  <2>3. ComingShaped'
    BY <1>1, <2>1, <2>2 DEF ComingShaped
  <2>4. ReadSoFar(s)' = ReadSoFar(s) /\ ReadSoFar(s) \subseteq ReadSoFar(r)
    BY <1>2, <2>2 DEF ReadSoFar, PageOf, Reads
  <2>5. Fresh => Right(s.copy, ReadSoFar(s))
    BY <2>2, <2>4 DEF Fresh, Right
  <2>6. Right(s.copy, ReadSoFar(s)) => Right(s.copy, ReadSoFar(s))'
    BY <1>2, <2>4 DEF Right
  <2> QED BY <2>1, <2>3, <2>5, <2>6 DEF Fresh
<1> QED BY <1>3, <1>4

\* What a complete render has read is what the page shows.
LEMMA LandingStep ==
    ASSUME NEW r \in coming, Lands(r) PROVE ComingShaped' /\ (Fresh => Fresh')
<1>1. /\ coming' = {} /\ shown' = r.copy /\ blank' = r.blank /\ at' = PageOf(r) /\ r.unread = {}
      /\ Copy' = Copy
  BY CopyIs DEF Lands, PageOf
<1>2. ReadSoFar(r) = Reads(at') \ blank'
  BY <1>1 DEF ReadSoFar
<1>3. Fresh => Right(r.copy, ReadSoFar(r))
  BY DEF Fresh
<1>4. Right(r.copy, ReadSoFar(r)) => Right(shown, Reads(at) \ blank)'
  BY <1>1, <1>2 DEF Right, Reads
<1> QED BY <1>1, <1>3, <1>4 DEF Fresh, ComingShaped

LEMMA IInvInit == Init => IInv
<1> SUFFICES ASSUME Init PROVE IInv
  OBVIOUS
<1>1. StoreSound
  BY StoreInit
<1>2. CallsShaped
  BY DEF Init, CallsShaped, IsSeq
<1>3. shown = Copy /\ refreshes = 0 /\ coming = {}
  BY DEF Init, ShellInit
<1> QED BY <1>1, <1>2, <1>3 DEF IInv, ComingShaped, Told, Fresh, Right

LEMMA IInvStep == IInv /\ [Next]_vars => IInv'
<1> SUFFICES ASSUME IInv, [Next]_vars PROVE IInv'
  OBVIOUS
<1>1. StoreSound'
  BY StoreStep DEF IInv
<1>2. CallsShaped'
  BY CallsStep DEF IInv
<1>3. Heard
  BY AllHeard DEF IInv
<1> SUFFICES refreshes' \in Nat /\ ComingShaped' /\ Told'
  BY <1>1, <1>2 DEF IInv
<1>4. UNCHANGED shell => /\ refreshes' \in Nat /\ ComingShaped'
                         /\ refreshes' = refreshes /\ behind' = behind
                         /\ (Copy' = Copy) => (Fresh => Fresh')
  BY DEF shell, IInv, ComingShaped, Fresh, Right, ReadSoFar, PageOf, Reads
<1>5. CASE UNCHANGED shell /\ (Pending' \/ NothingNew)
  <2>1. NothingNew => Copy' = Copy /\ (Pending => Pending')
    BY DEF NothingNew, Copy
  <2>2. /\ refreshes' \in Nat /\ ComingShaped' /\ refreshes' = refreshes /\ behind' = behind
        /\ (Copy' = Copy) => (Fresh => Fresh')
    BY <1>4, <1>5
  <2>3. Fresh \/ behind \/ refreshes > 0 \/ Pending
    BY DEF IInv, Told
  <2>4. Told'
    BY <1>5, <2>1, <2>2, <2>3 DEF Told
  <2> QED BY <2>2, <2>4
<1>6. ASSUME NEW to, Follow(to) PROVE refreshes' \in Nat /\ ComingShaped' /\ Told'
  BY <1>6, StartIsFresh DEF Follow, Told
<1>7. CASE AskRefresh
  BY <1>7 DEF AskRefresh, IInv, ComingShaped, Told
<1>8. CASE Unseen
  BY <1>8 DEF Unseen, IInv, ComingShaped, Told
<1>9. CASE Renders /\ UNCHANGED <<agreements, lib>>
  <2>1. CASE StartRefresh
    BY <2>1, StartIsFresh DEF StartRefresh, IInv, Told
  <2>2. ASSUME NEW r \in coming, NEW list \in r.unread, Read(r, list) \/ ReadFails(r, list)
        PROVE  refreshes' \in Nat /\ ComingShaped' /\ Told'
    <3>1. ComingShaped' /\ (Fresh => Fresh')
      BY <2>2, ReadStep DEF IInv
    <3>2. refreshes' = refreshes /\ behind' = behind
      BY <2>2 DEF Read, ReadFails
    <3>3. Pending => Pending'
      BY <1>9 DEF agreements, lib, Pending
    <3> QED BY <3>1, <3>2, <3>3 DEF IInv, Told
  <2> QED BY <1>9, <2>1, <2>2 DEF Renders
<1>10. ASSUME NEW r \in coming, Arrive(r) PROVE refreshes' \in Nat /\ ComingShaped' /\ Told'
  <2>1. ComingShaped' /\ (Fresh => Fresh') /\ refreshes' = refreshes /\ behind' = behind
    BY <1>10, LandingStep DEF Arrive, Lands
  <2>2. Pending => Pending'
    <3>1. CASE r.to # None /\ r.to.page # at
      BY <1>10, <3>1, LeavingKeeps DEF Arrive, IInv, StoreSound
    <3>2. CASE r.to = None \/ r.to.page = at
      <4>1. calls' = calls /\ jobs' = jobs
        BY <1>10, <3>2 DEF Arrive, agreements, lib
      <4> QED BY <4>1 DEF Pending
    <3> QED BY <3>1, <3>2
  <2> QED BY <2>1, <2>2 DEF IInv, Told
<1> QED BY <1>3, <1>5, <1>6, <1>7, <1>8, <1>9, <1>10 DEF Heard

LEMMA Invariant == Spec => []IInv
BY IInvInit, IInvStep, PTL DEF Spec

\* No row without its bytes and no template without its document, however the
\* statements of the jobs interleave and wherever one of them stops.
THEOREM BytesFirst == Spec => []BytesBehindEveryRow
<1>1. IInv => BytesBehindEveryRow
  BY DEF IInv, StoreSound
<1> QED BY <1>1, Invariant, PTL

\* Every column of every template holds what was last written to it: an update
\* under way takes nothing back of another.
THEOREM UpdatesKeepEachOther == Spec => []ChangesKept
<1>1. IInv => ChangesKept
  BY DEF IInv, StoreSound
<1> QED BY <1>1, Invariant, PTL

\* A page with nothing on its way shows what the server holds, in every list
\* its last render could read, but for what it was never told of.
THEOREM PageCatchesUp == Spec => []CatchesUp
<1>1. IInv => CatchesUp
  BY DEF IInv, Told, Fresh, Right, Pending, CatchesUp, Settled
<1> QED BY <1>1, Invariant, PTL
===============================================================================
