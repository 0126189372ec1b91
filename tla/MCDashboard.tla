----------------------------- MODULE MCDashboard -----------------------------
(* Instances of Dashboard for TLC. *)
EXTENDS Dashboard

File(pdf, readable, pages) == [pdf |-> pdf, readable |-> readable, pages |-> pages]
PickedFiles == {File(TRUE, FALSE, 1), File(TRUE, TRUE, 1)}
FirstOnly == [NoFilter EXCEPT !.range = "all", !.status = "sent"]
FilterBars == {NoFilter, FirstOnly}
SavedLayouts == {{1}, {2}}
\* Bound: two at a time of what one behaviour adds (requests of the table and of
\* the library, changes by others, documents sent, reads that fail) and of the
\* ways a page is turned from how it first shows.
Failed == blank \cup UNION {r.blank : r \in coming}
Events == Len(calls) + Len(jobs) + changes + Cardinality(DOMAIN rows \ Sent) + Cardinality(Failed)
Turned ==
    { <<"view", table.view>>, <<"folder", table.folder>>, <<"selected", table.selected>>,
      <<"filter", table.filter>>, <<"picker", picker.open>>, <<"dialog", library.dialog>>}
    \ { <<"view", "sent">>, <<"folder", None>>, <<"selected", {}>>, <<"filter", NoFilter>>,
        <<"picker", FALSE>>, <<"dialog", FALSE>>}
TwoAtATime == Events + Cardinality(Turned) <= 2
=============================================================================
