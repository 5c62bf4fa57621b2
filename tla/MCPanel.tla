------------------------------ MODULE MCPanel ------------------------------
(***************************************************************************)
(* Small instances of Panel for TLC: two people overlap in each load; the  *)
(* loads are independent of each other.                                    *)
(***************************************************************************)
EXTENDS Panel, TLC

MCRole == [ a \in Admins |-> CASE a = "asha" -> "owner" [] a = "ben" -> "owner" [] a = "eve" -> "support" ]

MCSessions == << "asha", "ben" >>

MCStatus == [ w \in Workspaces |-> CASE w = "acme" -> "past_due" [] w = "tiny" -> "trial" [] w = "fresh" -> "none" ]

Joined(role, i) == [ role |-> role, login |-> i, removed |-> FALSE ]

\* raj has joined acme and was added to tiny; sam never confirmed; kit is new.
MCMembers == [ w \in Workspaces |-> [ p \in People |->
  CASE w = "acme" /\ p = "pia" -> Joined("owner", 1)
    [] w = "acme" /\ p = "raj" -> Joined("admin", 2)
    [] w = "tiny" /\ p = "raj" -> Joined("viewer", 0)
    [] w = "tiny" /\ p = "sam" -> Joined("owner", 3)
    [] OTHER -> NoMember ] ]

MCLogins ==
  [ i \in 1..3 |-> [ of |-> << "pia", "raj", "sam" >>[i], live |-> TRUE, confirmed |-> i # 3, reused |-> FALSE ] ]

MCOffer == [ c \in Coupon |->
  [ status |-> IF c = "new" THEN "none" ELSE "active", started |-> TRUE, expiry |-> "ahead", cap |-> 1 ] ]

MCOnSite == [ e \in Entries |-> IF e = "post" THEN 1 ELSE 0 ]

Load(what, many) == [ tasks |-> what, acts |-> many ]

MCWorkloads ==
  { Load({"invite", "role", "deactivate", "reactivate"}, 3),
    Load({"sign in", "accept", "code", "enrol", "leave", "deactivate", "reset", "resend"}, 3),
    Load({"suspend", "resume", "ask", "confirm", "restore"}, 5),
    Load({"suspend", "resume", "ask", "withdraw", "confirm", "plan"}, 4),
    Load({"ask", "confirm", "restore", "sweep", "time"}, 4),
    Load({"caps", "redeem", "charge"}, 3),
    Load({"create", "move", "sweep", "time"}, 2),
    Load({"move", "redeem", "sweep", "time"}, 3),
    Load({"suspend", "resume", "fail", "charge", "retry"}, 4),
    Load({"grant", "redeem", "refund"}, 4),
    Load({"price", "discard", "publish", "sign up"}, 7),
    Load({"pack", "unpack", "publish"}, 4),
    Load({"prompt", "activate"}, 5),
    Load({"save", "remove", "drop", "go live", "rebuild", "restart"}, 4),
    Load({"promote", "transfer", "part", "add"}, 3),
    Load({"send in", "part", "restart"}, 4),
    Load({"join", "found", "confirm address", "add", "send in", "transfer"}, 3),
    Load({"ask", "confirm", "sweep", "time", "join"}, 4) }

PanelSymmetry == Permutations(Requests)
=============================================================================
