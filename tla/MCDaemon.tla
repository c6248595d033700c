------------------------------ MODULE MCDaemon ------------------------------
(***************************************************************************)
(* Small instances of Daemon: two commands, three servers, one environment *)
(* with everything that can happen in it, and two that differ in the       *)
(* directory or in the port.                                               *)
(***************************************************************************)
EXTENDS Daemon

A == [tmp |-> "A", port |-> 1]
B == [tmp |-> "B", port |-> 1]   \* another TMPDIR
C == [tmp |-> "A", port |-> 2]   \* another configured address

MCEnvs == {A, B, C}

Case(envs, kinds, byHand, k, idle, slow) ==
  [envs |-> envs, kinds |-> kinds, byHand |-> byHand, kills |-> k, idle |-> idle, slow |-> slow]

MCScenarios ==
  {Case({A}, {"open", "tail"}, 0, 0, TRUE, FALSE),   \* the ordinary use
   Case({A}, {"tail"}, 1, 0, FALSE, FALSE),          \* with a server started by hand
   Case({A}, {"open", "stop"}, 0, 1, TRUE, FALSE),   \* stopped, killed, interrupted
   Case({A}, {"stop"}, 2, 1, TRUE, FALSE),           \* only servers started by hand
   Case({A}, {"tail"}, 0, 1, TRUE, TRUE),            \* a slow start
   Case({A, B}, {"open", "tail"}, 0, 0, TRUE, FALSE),
   Case({A, C}, {"tail", "stop"}, 0, 0, TRUE, FALSE)}
=============================================================================
