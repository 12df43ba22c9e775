--------------------------- MODULE MCNotifications ---------------------------
(* Instances of Notifications for TLC. *)
EXTENDS Notifications, TLC

Symmetric == Permutations(Monitor) \cup Permutations(Worker)
=============================================================================
