-------------------------- MODULE LeastRecentlyUsed --------------------------
(***************************************************************************)
(* NotificationDeduplicator beside the set its docstring calls it: the ids *)
(* that an LRU set of the same capacity would hold, where asking for an id *)
(* is a use of it, whether it is found or recorded.                        *)
(***************************************************************************)
EXTENDS NotificationDeduplicator

VARIABLE used         \* history: the ids asked for last, least recent first

Use(id) ==
  LET ids == Append(Without(used, id), id)
  IN  IF Len(ids) > MaxLen THEN Tail(ids) ELSE ids

\* The statement at which seen() finds the id, or inserts it.
Decides(w) == pc[w] = "set" \/ (pc[w] = "in" /\ Has(memory, arg[w]))

UseInit == Init /\ used = <<>>

UseNext ==
  \E w \in Workers :
    /\ Worker(w)
    /\ used' = IF Decides(w) THEN Use(arg[w]) ELSE used

UseSpec == UseInit /\ [][UseNext]_<<vars, used>>

\* webhooks.py calls the memory a "bounded LRU set": between calls that do not
\* overlap it holds the ids that were asked for last.
HoldsRecentlyUsed ==
  serial /\ Idle => \A i \in DOMAIN used : Has(memory, used[i])
=============================================================================
