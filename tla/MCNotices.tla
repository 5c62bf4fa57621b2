------------------------------ MODULE MCNotices ------------------------------
(***************************************************************************)
(* Small instances of Notices for TLC; the scenes are independent.         *)
(***************************************************************************)
EXTENDS Notices

Scene(what, many, bad) == [ tasks |-> what, acts |-> many, faults |-> bad ]

MCScenes ==
  { Scene({"pay", "refund", "restart"}, 3, 2),
    Scene({"pay", "switch"}, 3, 1),
    Scene({"monday", "switch", "restart"}, 1, 2),
    Scene({"call", "report", "restart"}, 5, 1),
    Scene({"call", "reply", "profile"}, 3, 1),
    Scene({"reply", "restart"}, 3, 2),
    Scene({"shortlist", "switch", "restart"}, 4, 3) }
=============================================================================
