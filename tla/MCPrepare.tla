----------------------------- MODULE MCPrepare ------------------------------
(* Instances of Prepare for TLC. *)
EXTENDS Prepare

Box(id, key, y, h) == [id |-> id, key |-> key, y |-> y, h |-> h, blank |-> FALSE]
StoredLayouts == {<<Box(1, 1, 2, 1)>>, <<Box(1, 2, 2, 1)>>}
ForeignLayouts == {<<Box(1, 2, 0, 1)>>}
PointedRows == {-1, 5}

\* Bound: a gesture is explored while no call is under way.
OneHand == held # <<>> => sends = {} /\ saves = {}
=============================================================================
