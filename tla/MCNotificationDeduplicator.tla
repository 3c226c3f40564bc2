--------------------- MODULE MCNotificationDeduplicator ---------------------
(***************************************************************************)
(* Small instances of NotificationDeduplicator for TLC.  Ids and workers   *)
(* are interchangeable.                                                    *)
(***************************************************************************)
EXTENDS NotificationDeduplicator, TLC

Symmetry == Permutations(Ids) \cup Permutations(Workers)
=============================================================================
