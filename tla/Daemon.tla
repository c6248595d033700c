------------------------------- MODULE Daemon -------------------------------
(***************************************************************************)
(* The processes of loggi and what they find each other by: the socket,    *)
(* the pid file and the lock in a temporary directory, runtime.json in the *)
(* user's, and the TCP port.  A command dials, and starts a daemon if      *)
(* there is none; a server started by hand does the same steps as a        *)
(* daemon.  A step is one system call on one of these, or one answer of    *)
(* another process.                                                        *)
(*                                                                         *)
(* An environment is the temporary directory and the configured port; both *)
(* may differ between two shells (TMPDIR, the configuration of a repo).    *)
(* A file is the number of the server that made it, 0 when there is none.  *)
(***************************************************************************)
EXTENDS Naturals, FiniteSets

CONSTANTS
  Commands,   \* processes that dial: loggi tail, web, mcp, stdin, and loggi server stop
  MaxServers, \* bound: servers started
  Envs,       \* records [tmp, port]
  Scenarios   \* bounds: environments, kinds and number of commands, servers started by
              \* hand, kills, whether idle timers expire, and whether a start may take
              \* more than three seconds

Servers == 1 .. MaxServers
Tmps    == {e.tmp : e \in Envs}
Nobody  == "nobody"

ASSUME DaemonAssumption ==
  /\ MaxServers \in Nat /\ Envs # {} /\ \A e \in Envs : e.port \in Nat
  /\ Nobody \notin Commands
  /\ \A s \in Scenarios : /\ s.envs \subseteq Envs /\ s.kinds \subseteq {"open", "tail", "stop"}
                          /\ s.byHand \in Nat /\ s.kills \in Nat /\ s.idle \in BOOLEAN
                          /\ s.slow \in BOOLEAN

VARIABLES
  server,   \* [Servers -> record]: a server process
  sock,     \* [Tmps -> file]: who bound what is at the path of the socket
  pidfile,  \* [Tmps -> file]
  runtime,  \* runtime.json
  lock,     \* [Tmps -> commands]: who holds flock
  cmd,      \* [Commands -> record]
  kills,    \* processes killed so far
  past,     \* history that the properties look at, see below
  scenario

vars == <<server, sock, pidfile, runtime, lock, cmd, kills, past, scenario>>

\* abandoned: daemons whose command stopped waiting before it reached them; robbed: servers whose
\* socket another process removed; disturbed: servers that lived together with one of
\* another environment or with one that was shutting down.
Past == [abandoned : SUBSET Servers, robbed : SUBSET Servers, disturbed : SUBSET Servers]

Starting == {"unlink", "listen", "bind", "pid", "runtime"}
Stopping == {"close", "release", "rmSocket", "rmRuntime", "rmPid", "rmPidLast"}
Process  == [pc : Starting \cup Stopping \cup {"off", "up", "dead"}, env : Envs,
             spawned : BOOLEAN, busy : BOOLEAN, again : BOOLEAN]
Command  == [pc : {"off", "dial", "discover", "other", "lock", "redial", "remove", "spawn",
                   "poll", "connected", "serving", "signal", "done", "failed"},
             kind : {"open", "tail", "stop"}, env : Envs, conn : 0 .. MaxServers,
             daemon : 0 .. MaxServers, tmp : Tmps]

TypeOK ==
  /\ server \in [Servers -> Process] /\ cmd \in [Commands -> Command]
  /\ sock \in [Tmps -> 0 .. MaxServers] /\ pidfile \in [Tmps -> 0 .. MaxServers]
  /\ runtime \in 0 .. MaxServers /\ lock \in [Tmps -> Commands \cup {Nobody}]
  /\ kills \in 0 .. scenario.kills /\ past \in Past /\ scenario \in Scenarios

Tmp(s)   == server[s].env.tmp
Port(s)  == server[s].env.port
Alive(s) == server[s].pc \notin {"off", "dead"}

HasPort(s) == server[s].pc \in {"pid", "runtime", "up", "close", "release"}
Holders(p) == {s \in Servers : HasPort(s) /\ Port(s) = p}

\* Connecting works as soon as the socket is bound and until Shutdown has closed it.
Listening(s) == server[s].pc \in {"bind", "pid", "runtime", "up", "close"}
Dialable(t)  == sock[t] # 0 /\ Listening(sock[t])

AnEnv == CHOOSE e \in Envs : TRUE
NoServer  == [pc |-> "off", env |-> AnEnv, spawned |-> FALSE, busy |-> FALSE, again |-> FALSE]
NoCommand == [pc |-> "off", kind |-> "open", env |-> AnEnv, conn |-> 0, daemon |-> 0,
              tmp |-> AnEnv.tmp]

Init ==
  /\ scenario \in Scenarios
  /\ server = [s \in Servers |-> NoServer] /\ cmd = [c \in Commands |-> NoCommand]
  /\ sock = [t \in Tmps |-> 0] /\ pidfile = [t \in Tmps |-> 0] /\ runtime = 0
  /\ lock = [t \in Tmps |-> Nobody] /\ kills = 0
  /\ past = [abandoned |-> {}, robbed |-> {}, disturbed |-> {}]

-----------------------------------------------------------------------------
(* A server: Start, the files, Shutdown                                    *)

Fresh == {s \in Servers : server[s].pc = "off" /\ \A r \in 1 .. s - 1 : server[r].pc # "off"}

\* Servers of different environments that are alive together share runtime.json, and
\* perhaps the directory or the port.  One that shuts down removes whatever is there.
Meeting(s, env) ==
  LET foreign  == {r \in Servers : Alive(r) /\ server[r].env # env}
      stopping == {r \in Servers : server[r].pc \in Stopping}
  IN foreign \cup (IF foreign \cup stopping = {} THEN {} ELSE {s})
Disturbing(s) == past' = [past EXCEPT !.disturbed = @ \cup {r \in Servers \ {s} : Alive(r)}]

Launch(s, env, spawned) ==
  /\ s \in Fresh
  /\ server' = [server EXCEPT ![s] = [pc |-> "unlink", env |-> env, spawned |-> spawned,
                                      busy |-> FALSE, again |-> FALSE]]

\* loggi server.
StartByHand(s, env) ==
  /\ env \in scenario.envs /\ Launch(s, env, FALSE)
  /\ Cardinality({r \in Servers : server[r].pc # "off" /\ ~server[r].spawned}) < scenario.byHand
  /\ past' = [past EXCEPT !.disturbed = @ \cup Meeting(s, env)]
  /\ UNCHANGED <<sock, pidfile, runtime, lock, cmd, kills, scenario>>

Steps(s, from, to) == server[s].pc = from /\ server' = [server EXCEPT ![s].pc = to]

\* Removing what is at the path, whoever it belongs to.
Removes(t, s) ==
  LET victims == IF sock[t] # 0 /\ sock[t] # s /\ Alive(sock[t]) THEN {sock[t]} ELSE {}
  IN /\ sock' = [sock EXCEPT ![t] = 0]
     /\ past' = [past EXCEPT !.robbed = @ \cup victims]

RemoveSocket(s) ==
  /\ Steps(s, "unlink", "listen") /\ Removes(Tmp(s), s)
  /\ UNCHANGED <<pidfile, runtime, lock, cmd, kills, scenario>>

\* bind fails when there is a file again.
ListenUnix(s) ==
  /\ \/ sock[Tmp(s)] = 0 /\ Steps(s, "listen", "bind") /\ sock' = [sock EXCEPT ![Tmp(s)] = s]
     \/ sock[Tmp(s)] # 0 /\ Steps(s, "listen", "dead") /\ UNCHANGED sock
  /\ UNCHANGED <<pidfile, runtime, lock, cmd, kills, past, scenario>>

\* Bug variant: a failed start cleans up as Shutdown does.
ListenTCPCleansUp(s) ==
  /\ Steps(s, "bind", IF Holders(Port(s)) = {} THEN "pid" ELSE "rmSocket")
  /\ UNCHANGED <<sock, pidfile, runtime, lock, cmd, kills, past, scenario>>

\* The process exits without closing the socket: its file stays.
ListenTCP(s) ==
  /\ Steps(s, "bind", IF Holders(Port(s)) = {} THEN "pid" ELSE "dead")
  /\ UNCHANGED <<sock, pidfile, runtime, lock, cmd, kills, past, scenario>>

WritePid(s) ==
  /\ Steps(s, "pid", "runtime") /\ pidfile' = [pidfile EXCEPT ![Tmp(s)] = s]
  /\ UNCHANGED <<sock, runtime, lock, cmd, kills, past, scenario>>

WriteRuntime(s) ==
  /\ Steps(s, "runtime", "up") /\ runtime' = s
  /\ UNCHANGED <<sock, pidfile, lock, cmd, kills, past, scenario>>

\* The idle timer; a source or a session keeps the server.
GoIdle(s) ==
  /\ scenario.idle /\ server[s].pc = "up" /\ ~server[s].busy
  /\ \A c \in Commands : cmd[c].pc # "connected" \/ cmd[c].conn # s
  /\ server' = [server EXCEPT ![s].pc = "close", ![s].again = TRUE] /\ Disturbing(s)
  /\ UNCHANGED <<sock, pidfile, runtime, lock, cmd, kills, scenario>>

\* Shutdown: both listeners are closed, the first with what is at its path, and the files
\* are removed whoever they belong to.  The callback of the idle timer and runServer both
\* call it; here the second goes through the removals after the first.
CloseSocket(s) ==
  /\ Steps(s, "close", "release") /\ Removes(Tmp(s), s)
  /\ UNCHANGED <<pidfile, runtime, lock, cmd, kills, scenario>>

ReleasePort(s) ==
  /\ Steps(s, "release", "rmSocket")
  /\ UNCHANGED <<sock, pidfile, runtime, lock, cmd, kills, past, scenario>>

RemoveSocketLast(s) ==
  /\ Steps(s, "rmSocket", "rmRuntime") /\ Removes(Tmp(s), s)
  /\ UNCHANGED <<pidfile, runtime, lock, cmd, kills, scenario>>

RemoveRuntime(s) ==
  /\ Steps(s, "rmRuntime", "rmPid") /\ runtime' = 0
  /\ UNCHANGED <<sock, pidfile, lock, cmd, kills, past, scenario>>

\* The last is the one runServer has deferred.
RemovePid(s) ==
  /\ \/ /\ server[s].pc = "rmPid"
        /\ server' = [server EXCEPT ![s].pc = IF server[s].again THEN "rmSocket" ELSE "rmPidLast",
                                   ![s].again = FALSE]
     \/ Steps(s, "rmPidLast", "dead")
  /\ pidfile' = [pidfile EXCEPT ![Tmp(s)] = 0]
  /\ UNCHANGED <<sock, runtime, lock, cmd, kills, past, scenario>>

Kill(s) ==
  /\ kills < scenario.kills /\ kills' = kills + 1
  /\ Alive(s) /\ server' = [server EXCEPT ![s].pc = "dead"]
  /\ UNCHANGED <<sock, pidfile, runtime, lock, cmd, past, scenario>>

-----------------------------------------------------------------------------
(* A command: Dial                                                         *)

Goes(c, pc) == cmd' = [cmd EXCEPT ![c].pc = pc]
Ends(c, pc) == cmd' = [cmd EXCEPT ![c] = [NoCommand EXCEPT !.pc = pc]]
Same == UNCHANGED <<server, sock, pidfile, runtime, kills, scenario>>

Ask(c, kind, env) ==
  /\ cmd[c].pc = "off" /\ kind \in scenario.kinds /\ env \in scenario.envs
  /\ cmd' = [cmd EXCEPT ![c] = [NoCommand EXCEPT !.pc = IF kind = "stop" THEN "signal" ELSE "dial",
                                                 !.kind = kind, !.env = env, !.tmp = env.tmp]]
  /\ Same /\ UNCHANGED <<lock, past>>

Connected(c, t) ==
  /\ Dialable(t) /\ cmd' = [cmd EXCEPT ![c].pc = "connected", ![c].conn = sock[t]]

Own(c) == cmd[c].env.tmp
Unlock(c) == lock' = [t \in Tmps |-> IF lock[t] = c THEN Nobody ELSE lock[t]]

DialFirst(c) ==
  /\ cmd[c].pc = "dial"
  /\ Connected(c, Own(c)) \/ (~Dialable(Own(c)) /\ Goes(c, "discover"))
  /\ Same /\ UNCHANGED <<lock, past>>

\* DiscoverRunningDaemon: whoever answers at the address in runtime.json, or else at
\* the configured one.
Answering(env) ==
  LET first == IF runtime = 0 THEN {} ELSE Holders(Port(runtime))
  IN IF first # {} THEN first ELSE Holders(env.port)

Discover(c) ==
  /\ cmd[c].pc = "discover"
  /\ LET found == {s \in Answering(cmd[c].env) : Tmp(s) # Own(c)}
     IN \/ \E s \in found : cmd' = [cmd EXCEPT ![c].pc = "other", ![c].tmp = Tmp(s)]
        \/ found = {} /\ Goes(c, "lock")
  /\ Same /\ UNCHANGED <<lock, past>>

DialOther(c) ==
  /\ cmd[c].pc = "other"
  /\ Connected(c, cmd[c].tmp) \/ (~Dialable(cmd[c].tmp) /\ Goes(c, "lock"))
  /\ Same /\ UNCHANGED <<lock, past>>

\* Bug variant: the lock is a shared one.
FlockShared(c) ==
  /\ cmd[c].pc = "lock" /\ Goes(c, "redial")
  /\ Same /\ UNCHANGED <<lock, past>>

Flock(c) ==
  /\ cmd[c].pc = "lock" /\ lock[Own(c)] = Nobody
  /\ lock' = [lock EXCEPT ![Own(c)] = c] /\ Goes(c, "redial")
  /\ Same /\ UNCHANGED past

Redial(c) ==
  /\ cmd[c].pc = "redial"
  /\ \/ Connected(c, Own(c)) /\ Unlock(c)
     \/ ~Dialable(Own(c)) /\ Goes(c, "remove") /\ UNCHANGED lock
  /\ Same /\ UNCHANGED past

RemoveStale(c) ==
  /\ cmd[c].pc = "remove" /\ Goes(c, "spawn") /\ Removes(Own(c), 0)
  /\ UNCHANGED <<server, pidfile, runtime, lock, kills, scenario>>

Spawn(c, s) ==
  /\ cmd[c].pc = "spawn" /\ Launch(s, cmd[c].env, TRUE)
  /\ cmd' = [cmd EXCEPT ![c].pc = "poll", ![c].daemon = s]
  /\ past' = [past EXCEPT !.disturbed = @ \cup Meeting(s, cmd[c].env)]
  /\ UNCHANGED <<sock, pidfile, runtime, lock, kills, scenario>>

\* Bug variant: the lock is kept along with the connection.
PollKeepsLock(c) ==
  /\ cmd[c].pc = "poll" /\ Connected(c, Own(c))
  /\ past' = [past EXCEPT !.abandoned = @ \cup ({cmd[c].daemon} \ {sock[Own(c)]})]
  /\ Same /\ UNCHANGED lock

Poll(c) ==
  /\ cmd[c].pc = "poll" /\ Connected(c, Own(c)) /\ Unlock(c)
  /\ past' = [past EXCEPT !.abandoned = @ \cup ({cmd[c].daemon} \ {sock[Own(c)]})]
  /\ Same

\* loggi web goes on to see whether someone serves the address.
Fails(c) == IF cmd[c].kind = "open" THEN Goes(c, "serving") ELSE Ends(c, "failed")

\* Three seconds are over.  A start takes less, unless the scenario says otherwise.
GiveUp(c) ==
  /\ cmd[c].pc = "poll" /\ ~Dialable(Own(c))
  /\ server[cmd[c].daemon].pc \notin Starting \/ scenario.slow
  /\ Fails(c) /\ Unlock(c)
  /\ past' = [past EXCEPT !.abandoned = @ \cup {cmd[c].daemon}]
  /\ Same

-----------------------------------------------------------------------------
(* What commands do with the connection                                    *)

\* tailFiles, tailDocker, runStdin: a source is added and acknowledged.
AddSource(c) ==
  LET s == cmd[c].conn
  IN /\ cmd[c].pc = "connected" /\ cmd[c].kind = "tail"
     /\ \/ /\ server[s].pc \in {"pid", "runtime", "up", "bind"}
           /\ server' = [server EXCEPT ![s].busy = TRUE] /\ Ends(c, "done")
        \/ server[s].pc \in Stopping \cup {"dead"} /\ Ends(c, "failed") /\ UNCHANGED server
     /\ UNCHANGED <<sock, pidfile, runtime, lock, kills, past, scenario>>

\* ensureServer closes it at once.
Hangup(c) ==
  /\ cmd[c].pc = "connected" /\ cmd[c].kind = "open" /\ Ends(c, "done")
  /\ Same /\ UNCHANGED <<lock, past>>

\* serverHTTPURL: runtime.json, or else the configured address.
Address(env) == IF runtime # 0 THEN Port(runtime) ELSE env.port

\* loggiServingAt.
OpenServing(c) ==
  /\ cmd[c].pc = "serving"
  /\ Ends(c, IF Holders(Address(cmd[c].env)) # {} THEN "done" ELSE "failed")
  /\ Same /\ UNCHANGED <<lock, past>>

\* SIGTERM: a server that is not yet waiting for signals dies of it.
Signalled(s) ==
  \/ server[s].pc \in Starting /\ server' = [server EXCEPT ![s].pc = "dead"] /\ UNCHANGED past
  \/ Steps(s, "up", "close") /\ Disturbing(s)
  \/ server[s].pc \in Stopping /\ UNCHANGED <<server, past>>

\* stopServer: the pid file, or else whoever answers.
Stop(c) ==
  LET file == pidfile[Own(c)]
      who  == IF file # 0 THEN {file} ELSE Answering(cmd[c].env)
  IN /\ cmd[c].pc = "signal"
     /\ \/ \E s \in who : Alive(s) /\ Signalled(s) /\ Ends(c, "done")
        \/ (\E s \in who : ~Alive(s)) /\ Ends(c, "failed") /\ UNCHANGED <<server, past>>
        \/ who = {} /\ Ends(c, "done") /\ UNCHANGED <<server, past>>
     /\ UNCHANGED <<sock, pidfile, runtime, lock, kills, scenario>>

\* Ctrl-C: the kernel drops the lock; a daemon has its own session and goes on.
Interrupt(c) ==
  /\ kills < scenario.kills /\ kills' = kills + 1
  /\ cmd[c].pc \notin {"off", "done", "failed"} /\ Ends(c, "failed") /\ Unlock(c)
  /\ past' = [past EXCEPT !.abandoned = @ \cup ({cmd[c].daemon} \ {0})]
  /\ UNCHANGED <<server, sock, pidfile, runtime, scenario>>

-----------------------------------------------------------------------------
ServerStep(s) ==
  \/ RemoveSocket(s) \/ ListenUnix(s) \/ ListenTCP(s) \/ WritePid(s) \/ WriteRuntime(s)
  \/ CloseSocket(s) \/ ReleasePort(s) \/ RemoveSocketLast(s) \/ RemoveRuntime(s) \/ RemovePid(s)
CommandStep(c) ==
  \/ DialFirst(c) \/ Discover(c) \/ DialOther(c) \/ Flock(c) \/ Redial(c) \/ RemoveStale(c)
  \/ \E s \in Servers : Spawn(c, s)
  \/ Poll(c) \/ GiveUp(c) \/ AddSource(c) \/ Hangup(c) \/ OpenServing(c) \/ Stop(c)

Next ==
  \/ \E s \in Servers : \/ ServerStep(s) \/ GoIdle(s) \/ Kill(s)
                        \/ \E env \in Envs : StartByHand(s, env)
  \/ \E c \in Commands : \/ CommandStep(c) \/ Interrupt(c)
                         \/ \E kind \in {"open", "tail", "stop"}, env \in Envs : Ask(c, kind, env)

Spec == Init /\ [][Next]_vars

\* A process that is not killed goes on.
FairSpec == /\ Spec
            /\ \A s \in Servers : WF_vars(ServerStep(s))
            /\ \A c \in Commands : WF_vars(CommandStep(c))

-----------------------------------------------------------------------------
\* Dial takes a lock so that two commands that find no server do not start two daemons:
\* in one temporary directory two daemons are alive only while the first shuts down, or
\* when its command did not wait until it answered (interrupted, after three seconds, or
\* because a server started by hand answered first), or when another process took the
\* socket of the first away.
OneDaemon ==
  \A s, r \in Servers :
    s < r /\ server[s].spawned /\ server[r].spawned /\ Tmp(s) = Tmp(r) /\ Alive(s) /\ Alive(r)
      => server[s].pc \in Stopping \/ s \in past.abandoned \cup past.robbed

\* Commands find a server by its files.  Those of a running server name it, whatever
\* starts and fails beside it, as long as the servers it lives with are of its own
\* environment and none of them shuts down; another start may take the socket only.
FilesFollow ==
  \A s \in Servers :
    server[s].pc = "up" /\ s \notin past.disturbed
      => /\ pidfile[Tmp(s)] = s /\ runtime = s
         /\ s \in past.robbed \/ sock[Tmp(s)] = s

\* A command ends: the lock is released by whoever holds it, and the wait for a daemon
\* that failed to start ends.
CommandsReturn ==
  \A c \in Commands : cmd[c].pc # "off" ~> cmd[c].pc \in {"done", "failed"}
=============================================================================
