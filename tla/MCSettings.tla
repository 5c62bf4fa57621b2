----------------------------- MODULE MCSettings -----------------------------
(***************************************************************************)
(* A small instance of Settings for TLC: the mail server, which the worker *)
(* and the panel both use and whose value is in the panel's .env, and a    *)
(* secret of the worker, which cannot open one of its values.              *)
(***************************************************************************)
EXTENDS Settings, TLC

MCUsedBy == [ k \in Keys |-> IF k = "host" THEN {"admin", "worker"} ELSE {"worker"} ]

MCBase == [ a \in Apps |-> [ k \in Keys |-> IF a = "admin" /\ k = "host" THEN 1 ELSE 0 ] ]

MCDefault == [ k \in Keys |-> IF k = "host" THEN 1 ELSE 0 ]

MCSealed == [ a \in Apps |-> IF a = "worker" THEN {2} ELSE {} ]

MCAsks ==
  { [ k \in {"host"} |-> 1 ], [ k \in Keys |-> IF k = "host" THEN 0 ELSE 1 ], [ k \in Keys |-> 2 ] }
=============================================================================
