--------------------------- MODULE MCLineRollout ---------------------------
(* A line from server 3 over server 2 moved to run from 3 over 1; server 4 *)
(* is the landing.  Ids are against the direction of the path.             *)
EXTENDS LineRollout

MCNodes == 1..4
MCPorts == {"p", "q"}
Old == <<{<<3, "p">>}, {<<2, "p">>}>>
New == <<{<<3, "q">>}, {<<1, "p">>}>>
OldOrNew == {Old, New}
NewOrNone == {New, NoLine}

None == [b \in {"pause", "stale", "misc", "fail", "entry", "due", "repair", "lose", "compensate"} |-> 0]
EditBudget == [None EXCEPT !["fail"] = 1, !["misc"] = 1, !["lose"] = 1]
BackBudget == [None EXCEPT !["compensate"] = 1, !["entry"] = 1, !["repair"] = 1, !["stale"] = 1]
LifeBudget == [None EXCEPT !["entry"] = 1, !["due"] = 8, !["pause"] = 1]
=============================================================================
