---------------------------- MODULE MCAppUpdate ----------------------------
(* Instances of AppUpdate for TLC. *)
EXTENDS AppUpdate

CONSTANTS w1, w2

\* One admin at a time, and the checker.
OneAdmin ==
  [w \in Worker |-> IF w = w1 THEN {"apply", "rollback", "discard"}
                    ELSE {"check"}]

\* Two admins, of whom one rolls back, and the checker.
TwoAdmins ==
  [w \in Worker |-> IF w = w1 THEN {"apply", "rollback", "discard"}
                    ELSE {"apply", "check"}]

=============================================================================
