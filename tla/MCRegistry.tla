----------------------------- MODULE MCRegistry -----------------------------
(* Two targets and two profiles that share one of them.  Everything at once  *)
(* has too many interleavings, so each behaviour is one of a few scenarios.  *)
EXTENDS Registry

CONSTANTS t1, t2, A, B

MCDeclares == [x \in {A, B} |-> IF x = A THEN {t1} ELSE {t1, t2}]
MCKinds == {"add", "autostart", "remove", "removeQuietly", "activate"}

Scenario(kinds, requests, connects, timers, lively) ==
  [kinds |-> kinds, requests |-> requests, connects |-> connects, timers |-> timers,
   lively |-> lively]

MCScenarios ==
  {Scenario({"activate", "add", "remove"}, 3, 0, FALSE, {}),       \* profiles, manual adds
   Scenario({"activate", "add"}, 2, 0, FALSE, {"ends"}),           \* sources that end
   Scenario({"activate"}, 2, 1, FALSE, {}),                        \* who is told of a switch
   Scenario(MCKinds \ {"activate"}, 2, 1, FALSE, {"ends"}),        \* who is told of the rest
   Scenario({"add", "remove"}, 1, 1, TRUE, {"lines", "ends"})}     \* the idle timer

MCAdds == {Scenario({"add"}, 2, 0, FALSE, {})}

MCProfileSwitches == {Scenario({"activate"}, 3, 0, FALSE, {})}
=============================================================================
