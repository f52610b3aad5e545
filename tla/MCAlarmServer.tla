--------------------------- MODULE MCAlarmServer ---------------------------
(* The alarm server with a few connections and a short time. *)
EXTENDS AlarmServer, TLC

Symmetry == Permutations(Fds) \union Permutations(Timers)
=============================================================================
