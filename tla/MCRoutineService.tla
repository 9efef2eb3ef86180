--------------------------- MODULE MCRoutineService ---------------------------
(* Instances of RoutineService for TLC. *)
EXTENDS RoutineService, TLC

CONSTANTS r1, x, y, k1, k2, k3, c1, c2

Ask(a, cron) == [action |-> a, routine |-> r1, cron |-> cron]

MCRequests == {Ask("create", x), Ask("create_paused", x), Ask("pause", x), Ask("resume", x),
               Ask("delete", x), Ask("update", y), Ask("run", x), Ask("job", x)}

RoutineRequests == {Ask("create", x), Ask("pause", x), Ask("resume", x)}

KeySymmetry == Permutations(Keys)
=============================================================================
