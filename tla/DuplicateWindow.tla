--------------------------- MODULE DuplicateWindow ---------------------------
(***************************************************************************)
(* What NotificationDeduplicator keeps to when its calls do not overlap:   *)
(* one indivisible question, answered from a window of the MaxLen ids      *)
(* recorded last.  An id that is found keeps its place, so the window is   *)
(* not the LRU set its docstring speaks of (see LeastRecentlyUsed).        *)
(***************************************************************************)
EXTENDS RecentIds

CONSTANTS Askers, Ids, NoId, MaxLen

VARIABLES window,       \* the ids remembered, oldest first
          verdict       \* what each asker was told; "none" while it waits

Init == /\ window = <<>>
        /\ verdict = [a \in Askers |-> "none"]

Ask(a) == /\ verdict' = [verdict EXCEPT ![a] = "none"]
          /\ UNCHANGED window

Decide(a, id) ==
  /\ verdict' = [verdict EXCEPT ![a] = IF Has(window, id) THEN "duplicate" ELSE "fresh"]
  /\ window' = Remember(window, id, NoId, MaxLen)

Next == \E a \in Askers : Ask(a) \/ \E id \in Ids \cup {NoId} : Decide(a, id)
=============================================================================
