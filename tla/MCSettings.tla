----------------------------- MODULE MCSettings -----------------------------
(* One setting beside the default profile, one profile beside the built-in   *)
(* one, two sources of the same name.  Each behaviour is one of a few         *)
(* scenarios, as for the registry.                                            *)
EXTENDS Settings

CONSTANTS h1, h2, none, zero, shipped, found, v1, v2, v3

MCPriorities == <<"ts", "level", "msg">>
MCResolve == [n \in {"ts", "time", "level", "record.level", "log.level", "msg"} |->
                CASE n \in {"ts", "time"} -> "ts" [] n = "msg" -> "msg" [] OTHER -> "level"]
MCByteOrder == <<"deep", "deep.er", "deep.er.still", "host", "log", "record", "user">>
MCName == [p \in {<<"ts">>, <<"time">>, <<"level">>, <<"msg">>, <<"host">>, <<"user">>,
                  <<"log.level">>, <<"deep.er.still">>, <<"record">>, <<"record", "level">>, <<"log">>,
                  <<"log", "level">>, <<"deep">>, <<"deep", "er">>,
                  <<"deep", "er", "still">>} |->
             IF Len(p) = 1 THEN p[1]
             ELSE CASE p[1] = "deep" -> IF Len(p) = 2 THEN "deep.er" ELSE "deep.er.still"
                    [] p[1] = "log" -> "log.level" [] OTHER -> "record.level"]

Word(t) == Text(t, 3, FALSE, FALSE)
Id(t) == Text(t, 16, FALSE, TRUE)
One(k, v) == [x \in {k} |-> v]

\* A service that writes nested levels and identifiers, another whose words vary.
MCLines ==
  {[ts |-> Word("t"), record |-> Object(One("level", Word("info"))), user |-> Word("ann"),
    host |-> Id("f1")],
   [time |-> Word("t"), user |-> Word("bob"), host |-> Id("f2"),
    deep |-> Object(One("er", Word("x")))] @@ One("deep.er.still", Word("x")),
   One("log.level", Word("warn")) @@ [msg |-> Word("m"), user |-> Text("long", 300, FALSE, FALSE),
    host |-> Word("here")],
   [msg |-> Word("m"), host |-> Word("there"),
    deep |-> Object(One("er", Object(One("still", Word("y")))))],
   [deep |-> Word("z"), log |-> Object(One("level", Word("info"))), user |-> Word("ann")]}
MCFew == {[ts |-> Word("t")]}

MCKinds == {"cliUse", "cliSave", "cliRemove", "save", "delete", "config", "autostart", "pin",
            "unpin", "attach"}
MCItems == {"theme", "default_profile", "autostart", "default", "errors", "app"}
Only(having) == [i \in MCItems |-> IF i \in having THEN found ELSE none]
NoFiles == [f \in {"user", "repo", "local"} |-> Only({})]
MCFiles == [NoFiles EXCEPT !["user"] = Only({"theme", "errors"}), !["repo"] = Only({"errors"})]

Scenario(kinds, requests, files, entries, limit, again, faulty) ==
  [kinds |-> kinds, requests |-> requests, files |-> files, entries |-> entries,
   limit |-> limit, restarts |-> again, faulty |-> faulty]

MCScenarios ==
  {Scenario({"save", "delete", "cliSave", "cliRemove"}, 3, MCFiles, MCFew, 1, 0, FALSE),
   Scenario({"save", "config", "autostart", "cliUse"}, 2, NoFiles, MCFew, 1, 1, FALSE),
   Scenario({"save", "delete", "config"}, 2, MCFiles, MCFew, 1, 1, TRUE),
   Scenario({"pin", "unpin", "attach"}, 3, NoFiles, MCFew, 1, 1, FALSE),
   Scenario({"config", "cliUse"}, 3, NoFiles, MCFew, 1, 1, FALSE),
   Scenario({"pin", "attach"}, 3, NoFiles, MCFew, 2, 0, TRUE),
   Scenario({"pin", "attach", "config"}, 3, NoFiles, MCFew, 1, 0, FALSE),
   Scenario({"save", "cliSave"}, 3, NoFiles, MCFew, 1, 1, FALSE),
   Scenario({"attach"}, 1, NoFiles, MCLines, 3, 0, FALSE)}
MCSids == {1, 2}
MCKey == [s \in MCSids |-> "app"]
MCSymmetry == Permutations({h1, h2})
MCWritten == <<v1, v2, v3>>
=============================================================================
