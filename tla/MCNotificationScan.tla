------------------------- MODULE MCNotificationScan -------------------------
(* Small instances of the notification scan for TLC. *)
EXTENDS NotificationScan, TLC

CONSTANTS i1, i2, s1, s2

ScanSymmetry == Permutations({i1, i2}) \cup Permutations({s1, s2})
=============================================================================
