---------------------------- MODULE DaemonProofs ----------------------------
(***************************************************************************)
(* Proofs about Daemon, for every number of commands, servers and          *)
(* environments: who holds the lock of a directory, why two daemons never  *)
(* serve it, and whose names are in the files.                             *)
(***************************************************************************)
EXTENDS Daemon, TLAPS

\* A command that waits has started a daemon.
Waits == \A c \in Commands : cmd[c].pc = "poll" => cmd[c].daemon \in Servers

TypeInv == TypeOK /\ Waits

\* A server process is a record of the type of Process.
LEMMA ServerFields ==
  ASSUME TypeOK, NEW s \in Servers
  PROVE  /\ server[s] \in Process /\ server[s].env \in Envs /\ Tmp(s) \in Tmps
BY DEF TypeOK, Process, Tmp, Tmps

\* A command is a record of the type of Command.
LEMMA CommandFields ==
  ASSUME TypeOK, NEW c \in Commands
  PROVE  /\ cmd[c] \in Command /\ cmd[c].env \in Envs /\ cmd[c].tmp \in Tmps /\ Own(c) \in Tmps
BY DEF TypeOK, Command, Own, Tmps

\* What is at a path, if anything, was made by a server.
LEMMA SockMaker ==
  ASSUME TypeOK, NEW t \in Tmps, sock[t] # 0
  PROVE  sock[t] \in Servers
BY DaemonAssumption DEF TypeOK, Servers

\* A command that goes on keeps its type, and waits only after it has started a daemon.
LEMMA CommandMoves ==
  ASSUME TypeOK, Waits, NEW c \in Commands, NEW pc \in {"off", "dial", "discover", "other", "lock",
           "redial", "remove", "spawn", "connected", "serving", "signal", "done", "failed"},
         \/ Goes(c, pc) \/ Ends(c, pc)
         \/ \E t \in Tmps : Connected(c, t)
         \/ \E s \in Servers : cmd' = [cmd EXCEPT ![c].pc = pc, ![c].tmp = Tmp(s)]
         \/ \E s \in Servers : cmd' = [cmd EXCEPT ![c].pc = "poll", ![c].daemon = s]
  PROVE  cmd' \in [Commands -> Command] /\ Waits'
<1>0. cmd[c] \in Command /\ cmd \in [Commands -> Command]
  BY DEF TypeOK
<1>1. ASSUME NEW r \in Command, cmd' = [cmd EXCEPT ![c] = r], r.pc = "poll" => r.daemon \in Servers
      PROVE  cmd' \in [Commands -> Command] /\ Waits'
  BY <1>0, <1>1 DEF Waits
<1>2. CASE Goes(c, pc)
  <2>1. [cmd[c] EXCEPT !.pc = pc] \in Command
    BY <1>0 DEF Command
  <2>2. cmd' = [cmd EXCEPT ![c] = [cmd[c] EXCEPT !.pc = pc]]
    BY <1>2 DEF Goes
  <2>3. [cmd[c] EXCEPT !.pc = pc].pc # "poll"
    BY <1>0 DEF Command
  <2> QED BY <1>1, <2>1, <2>2, <2>3
<1>3. CASE Ends(c, pc)
  <2>1. AnEnv \in Envs /\ AnEnv.tmp \in Tmps
    BY DaemonAssumption DEF AnEnv, Tmps
  <2>2. [NoCommand EXCEPT !.pc = pc] \in Command
    BY <2>1, DaemonAssumption DEF NoCommand, Command
  <2> QED BY <1>0, <1>1, <1>3, <2>2 DEF Ends, NoCommand
<1>4. ASSUME NEW t \in Tmps, Connected(c, t) PROVE cmd' \in [Commands -> Command] /\ Waits'
  <2>1. sock[t] \in 0 .. MaxServers
    BY DEF TypeOK
  <2>2. [cmd[c] EXCEPT !.pc = "connected", !.conn = sock[t]] \in Command
    BY <1>0, <2>1 DEF Command
  <2>3. cmd' = [cmd EXCEPT ![c] = [cmd[c] EXCEPT !.pc = "connected", !.conn = sock[t]]]
    BY <1>4 DEF Connected
  <2>4. [cmd[c] EXCEPT !.pc = "connected", !.conn = sock[t]].pc # "poll"
    BY <1>0 DEF Command
  <2> QED BY <1>1, <2>2, <2>3, <2>4
<1>5. ASSUME NEW s \in Servers, cmd' = [cmd EXCEPT ![c].pc = pc, ![c].tmp = Tmp(s)]
      PROVE  cmd' \in [Commands -> Command] /\ Waits'
  <2>1. [cmd[c] EXCEPT !.pc = pc, !.tmp = Tmp(s)] \in Command
    BY <1>0, ServerFields DEF Command
  <2>2. cmd' = [cmd EXCEPT ![c] = [cmd[c] EXCEPT !.pc = pc, !.tmp = Tmp(s)]]
    BY <1>5
  <2>3. [cmd[c] EXCEPT !.pc = pc, !.tmp = Tmp(s)].pc # "poll"
    BY <1>0 DEF Command
  <2> QED BY <1>1, <2>1, <2>2, <2>3
<1>6. ASSUME NEW s \in Servers, cmd' = [cmd EXCEPT ![c].pc = "poll", ![c].daemon = s]
      PROVE  cmd' \in [Commands -> Command] /\ Waits'
  <2>1. s \in 0 .. MaxServers
    BY DaemonAssumption DEF Servers
  <2>2. [cmd[c] EXCEPT !.pc = "poll", !.daemon = s] \in Command
    BY <1>0, <2>1 DEF Command
  <2>3. cmd' = [cmd EXCEPT ![c] = [cmd[c] EXCEPT !.pc = "poll", !.daemon = s]]
    BY <1>6
  <2>4. [cmd[c] EXCEPT !.pc = "poll", !.daemon = s].daemon \in Servers
    BY <1>0 DEF Command
  <2> QED BY <1>1, <2>2, <2>3, <2>4
<1> QED BY <1>2, <1>3, <1>4, <1>5, <1>6

\* The types of the variables: processes, files, locks and commands (Daemon.TypeOK).
LEMMA Typing == Spec => []TypeInv
<1>1. Init => TypeInv
  <2> SUFFICES ASSUME Init PROVE TypeInv
    OBVIOUS
  <2>1. AnEnv \in Envs
    BY DaemonAssumption DEF AnEnv
  <2>2. NoServer \in Process
    BY <2>1 DEF NoServer, Process
  <2>3. NoCommand \in Command /\ NoCommand.pc = "off"
    BY <2>1, DaemonAssumption DEF NoCommand, Command, Tmps
  <2> QED BY <2>2, <2>3, DaemonAssumption DEF Init, TypeInv, TypeOK, Past, Waits
<1>2. TypeInv /\ [Next]_vars => TypeInv'
  <2> SUFFICES ASSUME TypeInv, [Next]_vars PROVE TypeInv'
    OBVIOUS
  <2> USE DEF TypeInv
  <2>0. AnEnv \in Envs /\ AnEnv.tmp \in Tmps /\ scenario \in Scenarios /\ 0 \in 0 .. MaxServers
    <3>1. AnEnv \in Envs
      BY DaemonAssumption DEF AnEnv
    <3>2. 0 \in 0 .. MaxServers
      BY DaemonAssumption
    <3> QED BY <3>1, <3>2 DEF Tmps, TypeOK
  <2>1. ASSUME NEW s \in Servers, NEW pc \in Starting \cup Stopping \cup {"off", "up", "dead"},
               NEW again \in BOOLEAN, NEW busy \in BOOLEAN,
               \/ server' = [server EXCEPT ![s].pc = pc]
               \/ server' = [server EXCEPT ![s].pc = pc, ![s].again = again]
               \/ server' = [server EXCEPT ![s].busy = busy]
        PROVE  server' \in [Servers -> Process]
    BY <2>1 DEF TypeOK, Process
  <2>2. ASSUME NEW t \in Tmps, NEW s, Removes(t, s)
        PROVE  sock' \in [Tmps -> 0 .. MaxServers] /\ past' \in Past
    BY <2>2, SockMaker, DaemonAssumption DEF TypeOK, Removes, Past
  <2>3. ASSUME NEW s \in Servers, NEW env \in Envs, NEW spawned \in BOOLEAN, Launch(s, env, spawned)
        PROVE  server' \in [Servers -> Process]
    BY <2>3 DEF TypeOK, Launch, Process, Starting
  <2>4. ASSUME NEW D \in SUBSET Servers,
               \/ past' = [past EXCEPT !.disturbed = @ \cup D]
               \/ past' = [past EXCEPT !.abandoned = @ \cup D]
        PROVE  past' \in Past
    BY <2>4 DEF TypeOK, Past
  <2>5. ASSUME NEW s, Disturbing(s) PROVE past' \in Past
    BY <2>4, <2>5 DEF Disturbing
  <2>6. ASSUME NEW s \in Servers, ServerStep(s) PROVE TypeInv'
    <3>0. Tmp(s) \in Tmps /\ s \in 0 .. MaxServers
      BY ServerFields, DaemonAssumption DEF Servers
    <3>1. CASE RemoveSocket(s)
      BY <2>1, <2>2, <3>0, <3>1 DEF RemoveSocket, Steps, TypeOK, Starting, Waits
    <3>2. CASE ListenUnix(s)
      BY <2>1, <3>0, <3>2 DEF ListenUnix, Steps, TypeOK, Starting, Waits
    <3>3. CASE ListenTCP(s)
      BY <2>1, <3>0, <3>3 DEF ListenTCP, Steps, TypeOK, Starting, Waits
    <3>4. CASE WritePid(s)
      BY <2>1, <3>0, <3>4 DEF WritePid, Steps, TypeOK, Starting, Waits
    <3>5. CASE WriteRuntime(s)
      BY <2>1, <3>0, <3>5 DEF WriteRuntime, Steps, TypeOK, Waits
    <3>6. CASE CloseSocket(s)
      BY <2>1, <2>2, <3>0, <3>6 DEF CloseSocket, Steps, TypeOK, Stopping, Waits
    <3>7. CASE ReleasePort(s)
      BY <2>1, <3>0, <3>7 DEF ReleasePort, Steps, TypeOK, Stopping, Waits
    <3>8. CASE RemoveSocketLast(s)
      BY <2>1, <2>2, <3>0, <3>8 DEF RemoveSocketLast, Steps, TypeOK, Stopping, Waits
    <3>9. CASE RemoveRuntime(s)
      BY <2>0, <2>1, <3>9 DEF RemoveRuntime, Steps, TypeOK, Stopping, Waits
    <3>10. CASE RemovePid(s)
      <4>1. server' \in [Servers -> Process]
        BY <2>1, <3>10 DEF RemovePid, Steps, Stopping
      <4> QED BY <2>0, <3>0, <3>10, <4>1 DEF RemovePid, TypeOK, Waits
    <3> QED BY <2>6, <3>1, <3>2, <3>3, <3>4, <3>5, <3>6, <3>7, <3>8, <3>9, <3>10 DEF ServerStep
  <2>7. ASSUME NEW s \in Servers, GoIdle(s) \/ Kill(s) PROVE TypeInv'
    <3>1. CASE GoIdle(s)
      <4>1. server' \in [Servers -> Process]
        BY <2>1, <3>1 DEF GoIdle, Stopping
      <4> QED BY <2>5, <3>1, <4>1 DEF GoIdle, TypeOK, Waits
    <3>2. CASE Kill(s)
      <4>1. server' \in [Servers -> Process]
        BY <2>1, <3>2 DEF Kill
      <4>2. scenario.kills \in Nat /\ kills \in 0 .. scenario.kills
        BY <2>0, DaemonAssumption DEF TypeOK
      <4>3. kills' \in 0 .. scenario'.kills
        BY <3>2, <4>2 DEF Kill
      <4> QED BY <3>2, <4>1, <4>3 DEF Kill, TypeOK, Waits
    <3> QED BY <2>7, <3>1, <3>2
  <2>8. ASSUME NEW s \in Servers, NEW env \in Envs, StartByHand(s, env) PROVE TypeInv'
    <3>1. Meeting(s, env) \in SUBSET Servers
      BY DEF Meeting
    <3>2. past' \in Past
      BY <2>4, <2>8, <3>1 DEF StartByHand
    <3> QED BY <2>3, <2>8, <3>2 DEF StartByHand, TypeOK, Waits
  <2>9. ASSUME NEW c \in Commands, CommandStep(c) PROVE TypeInv'
    <3>0. cmd[c] \in Command /\ cmd[c].env \in Envs /\ cmd[c].tmp \in Tmps /\ Own(c) \in Tmps
      BY CommandFields
    <3>1. Unlock(c) => lock' \in [Tmps -> Commands \cup {Nobody}]
      BY DEF TypeOK, Unlock
    <3>2. CASE DialFirst(c)
      BY <3>0, <3>2, CommandMoves DEF DialFirst, Same, TypeOK
    <3>3. CASE Discover(c)
      <4>1. cmd' \in [Commands -> Command] /\ Waits'
        BY <3>3, CommandMoves DEF Discover, Answering, Holders
      <4> QED BY <3>3, <4>1 DEF Discover, Same, TypeOK
    <3>4. CASE DialOther(c)
      BY <3>0, <3>4, CommandMoves DEF DialOther, Same, TypeOK
    <3>5. CASE Flock(c)
      BY <3>0, <3>5, CommandMoves DEF Flock, Same, TypeOK
    <3>6. CASE Redial(c)
      BY <3>0, <3>1, <3>6, CommandMoves DEF Redial, Same, TypeOK
    <3>7. CASE RemoveStale(c)
      BY <2>2, <3>0, <3>7, CommandMoves DEF RemoveStale, TypeOK
    <3>8. ASSUME NEW s \in Servers, Spawn(c, s) PROVE TypeInv'
      <4>1. Meeting(s, cmd[c].env) \in SUBSET Servers
        BY DEF Meeting
      <4>2. cmd' \in [Commands -> Command] /\ Waits'
        BY <3>8, CommandMoves DEF Spawn
      <4>3. past' \in Past
        BY <2>4, <3>8, <4>1 DEF Spawn
      <4> QED BY <2>3, <3>0, <3>8, <4>2, <4>3 DEF Spawn, TypeOK
    <3>9. CASE Poll(c)
      <4>1. {cmd[c].daemon} \ {sock[Own(c)]} \in SUBSET Servers
        BY <3>9 DEF Poll, Waits
      <4>2. past' \in Past
        BY <2>4, <3>9, <4>1 DEF Poll
      <4>3. cmd' \in [Commands -> Command] /\ Waits'
        BY <3>0, <3>9, CommandMoves DEF Poll
      <4> QED BY <3>1, <3>9, <4>2, <4>3 DEF Poll, Same, TypeOK
    <3>10. CASE GiveUp(c)
      <4>1. {cmd[c].daemon} \in SUBSET Servers
        BY <3>10 DEF GiveUp, Waits
      <4>2. past' \in Past
        BY <2>4, <3>10, <4>1 DEF GiveUp
      <4>3. cmd' \in [Commands -> Command] /\ Waits'
        BY <3>10, CommandMoves DEF GiveUp, Fails
      <4> QED BY <3>1, <3>10, <4>2, <4>3 DEF GiveUp, Same, TypeOK
    <3>11. CASE AddSource(c)
      <4>1. cmd' \in [Commands -> Command] /\ Waits'
        BY <3>11, CommandMoves DEF AddSource
      <4>2. server' \in [Servers -> Process]
        <5>1. CASE UNCHANGED server
          BY <5>1 DEF TypeOK
        <5>2. CASE cmd[c].conn \in Servers /\ server' = [server EXCEPT ![cmd[c].conn].busy = TRUE]
          BY <2>1, <5>2
        <5>3. CASE cmd[c].conn \notin Servers /\ server' = [server EXCEPT ![cmd[c].conn].busy = TRUE]
          BY <5>3 DEF TypeOK
        <5> QED BY <3>11, <5>1, <5>2, <5>3 DEF AddSource
      <4> QED BY <3>11, <4>1, <4>2 DEF AddSource, TypeOK
    <3>12. CASE Hangup(c) \/ OpenServing(c)
      <4>1. cmd' \in [Commands -> Command] /\ Waits'
        BY <3>12, CommandMoves DEF Hangup, OpenServing
      <4> QED BY <3>12, <4>1 DEF Hangup, OpenServing, Same, TypeOK
    <3>13. CASE Stop(c)
      <4>1. cmd' \in [Commands -> Command] /\ Waits'
        BY <3>13, CommandMoves DEF Stop
      <4>2. pidfile[Own(c)] # 0 => pidfile[Own(c)] \in Servers
        BY <3>0, DaemonAssumption DEF TypeOK, Servers
      <4>3. ASSUME NEW s \in Servers, Signalled(s)
            PROVE  server' \in [Servers -> Process] /\ past' \in Past
        <5>1. CASE server[s].pc \in Starting /\ server' = [server EXCEPT ![s].pc = "dead"] /\ UNCHANGED past
          BY <2>1, <5>1 DEF TypeOK
        <5>2. CASE Steps(s, "up", "close") /\ Disturbing(s)
          BY <2>1, <2>5, <5>2 DEF Steps, Stopping
        <5>3. CASE UNCHANGED <<server, past>>
          BY <5>3 DEF TypeOK
        <5> QED BY <4>3, <5>1, <5>2, <5>3 DEF Signalled
      <4>4. server' \in [Servers -> Process] /\ past' \in Past
        <5>1. CASE UNCHANGED <<server, past>>
          BY <5>1 DEF TypeOK
        <5> QED BY <3>13, <4>2, <4>3, <5>1 DEF Stop, Answering, Holders
      <4> QED BY <3>13, <4>1, <4>4 DEF Stop, TypeOK
    <3> QED BY <2>9, <3>2, <3>3, <3>4, <3>5, <3>6, <3>7, <3>8, <3>9, <3>10, <3>11, <3>12,
               <3>13 DEF CommandStep
  <2>10. ASSUME NEW c \in Commands, Interrupt(c) PROVE TypeInv'
    <3>1. cmd' \in [Commands -> Command] /\ Waits'
      BY <2>10, CommandMoves DEF Interrupt
    <3>2. {cmd[c].daemon} \ {0} \in SUBSET Servers
      BY CommandFields, DaemonAssumption DEF Command, Servers
    <3>3. past' \in Past
      BY <2>4, <2>10, <3>2 DEF Interrupt
    <3>4. lock' \in [Tmps -> Commands \cup {Nobody}]
      BY <2>10 DEF Interrupt, TypeOK, Unlock
    <3>5. scenario.kills \in Nat /\ kills \in 0 .. scenario.kills
      BY <2>0, DaemonAssumption DEF TypeOK
    <3>6. kills' \in 0 .. scenario'.kills
      BY <2>10, <3>5 DEF Interrupt
    <3> QED BY <2>10, <3>1, <3>3, <3>4, <3>6 DEF Interrupt, TypeOK
  <2>11. ASSUME NEW c \in Commands, NEW kind \in {"open", "tail", "stop"}, NEW env \in Envs,
                Ask(c, kind, env)
         PROVE  TypeInv'
    <3>1. PICK pc \in {"signal", "dial"} : cmd' = [cmd EXCEPT ![c] =
            [NoCommand EXCEPT !.pc = pc, !.kind = kind, !.env = env, !.tmp = env.tmp]]
      BY <2>11 DEF Ask
    <3>2. [NoCommand EXCEPT !.pc = pc, !.kind = kind, !.env = env, !.tmp = env.tmp] \in Command
      BY <2>0, <3>1 DEF NoCommand, Command, Tmps
    <3>3. cmd' \in [Commands -> Command] /\ Waits'
      BY <3>1, <3>2 DEF TypeOK, Waits, NoCommand
    <3> QED BY <2>11, <3>3 DEF Ask, Same, TypeOK
  <2>12. CASE UNCHANGED vars
    BY <2>12 DEF vars, TypeOK, Waits
  <2> QED BY <2>6, <2>7, <2>8, <2>9, <2>10, <2>11, <2>12 DEF Next
<1> QED BY <1>1, <1>2, PTL DEF Spec

\* The types of the variables: processes, files, locks and commands (Daemon.TypeOK).
THEOREM Typed == Spec => []TypeOK
BY Typing, PTL DEF TypeInv

-----------------------------------------------------------------------------
(* The lock, and the daemons that are started under it                     *)

\* From flock to the connection or the end of the wait (dial.go).
Critical == {"redial", "remove", "spawn", "poll"}

\* A server that has not begun to stop and still has the socket it made.
Standing(s) == Alive(s) /\ server[s].pc \notin Stopping /\ s \notin past.robbed

\* A daemon for which OneDaemon makes no exception.
Ours(s) == Standing(s) /\ server[s].spawned /\ s \notin past.abandoned

Awaited(s) == \E c \in Commands : cmd[c].pc = "poll" /\ cmd[c].daemon = s /\ Own(c) = Tmp(s)
Serves(s)  == Listening(s) /\ sock[Tmp(s)] = s

\* Whoever is between flock and unlock has the lock of its directory.
LockHeld == \A c \in Commands : cmd[c].pc \in Critical => lock[Own(c)] = c

\* A daemon serves its directory, or the command that started it still waits for it.
Accounted == \A s \in Servers : Ours(s) => Awaited(s) \/ Serves(s)

\* Whoever is about to start a daemon has seen that there is none.
Cleared == \A c \in Commands : cmd[c].pc \in {"remove", "spawn"} =>
             \A s \in Servers : Tmp(s) = Own(c) => ~Ours(s)

\* Servers are numbered in the order in which they start.
Numbered == \A s \in Servers : server[s].pc # "off" =>
              \A r \in 1 .. s - 1 : server[r].pc # "off"

DaemonInv == LockHeld /\ Accounted /\ Cleared /\ Numbered /\ OneDaemon

\* A process keeps its environment; one that has begun to stop goes on with it; and
\* whoever serves a directory does so until it stops or is robbed.
Ages(s) ==
  /\ server'[s].env = server[s].env /\ server'[s].spawned = server[s].spawned
  /\ server'[s].pc # "off" /\ (Alive(s)' => Alive(s))
  /\ Ours(s)' => Ours(s)
  /\ Standing(s)' /\ Serves(s) => Serves(s)'

\* So does every process with every step.
LEMMA Aging ==
  ASSUME TypeInv, [Next]_vars, NEW s \in Servers, server[s].pc # "off"
  PROVE  Ages(s)
<1>0. server \in [Servers -> Process] /\ s # 0 /\ Tmp(s) \in Tmps /\ sock \in [Tmps -> 0 .. MaxServers]
  <2>1. s # 0
    BY DaemonAssumption DEF Servers
  <2> QED BY <2>1, ServerFields DEF TypeInv, TypeOK
<1>a. past \in Past
  BY DEF TypeInv, TypeOK
<1> USE DEF Ages, Ours, Standing, Serves, Alive, Tmp
<1>1. ASSUME UNCHANGED <<server, sock>>, past.robbed \subseteq past'.robbed,
             past.abandoned \subseteq past'.abandoned
      PROVE  Ages(s)
  BY <1>1 DEF Listening
<1>2. ASSUME NEW r \in Servers, ServerStep(r) \/ GoIdle(r) \/ Kill(r) PROVE Ages(s)
  <2>0. Tmp(r) \in Tmps
    BY ServerFields DEF TypeInv
  <2>1. CASE RemoveSocket(r) \/ CloseSocket(r) \/ RemoveSocketLast(r)
    <3>1. PICK pc \in {"listen", "release", "rmRuntime"} :
            /\ server' = [server EXCEPT ![r].pc = pc] /\ Removes(Tmp(r), r)
            /\ server[r].pc \in {"unlink", "close", "rmSocket"} /\ (pc = "listen" => server[r].pc = "unlink")
      BY <2>1 DEF RemoveSocket, CloseSocket, RemoveSocketLast, Steps
    <3>2. Ours(s)' => Ours(s)
      BY <1>0, <1>a, <3>1 DEF Removes, Process, Past, Stopping
    <3>3. Serves(s) /\ Standing(s)' => Serves(s)'
      <4> SUFFICES ASSUME Serves(s), Standing(s)' PROVE Serves(s)'
        OBVIOUS
      <4>1. s # r
        BY <1>0, <3>1 DEF Listening, Process, Stopping
      <4>2. Tmp(r) = Tmp(s) => s \in past'.robbed
        BY <1>0, <1>a, <3>1, <4>1 DEF Removes, Past, Listening
      <4>3. Tmp(r) # Tmp(s) => sock'[Tmp(s)] = sock[Tmp(s)]
        BY <1>0, <3>1 DEF Removes
      <4>4. s # r => server'[s] = server[s]
        BY <1>0, <3>1
      <4> QED BY <4>1, <4>2, <4>3, <4>4 DEF Listening
    <3> QED BY <1>0, <3>1, <3>2, <3>3
  <2>2. CASE ListenUnix(r)
    <3>1. server[r].pc = "listen" /\ \E pc \in {"bind", "dead"} : server' = [server EXCEPT ![r].pc = pc]
      BY <2>2 DEF ListenUnix, Steps
    <3>2. past' = past /\ (sock[Tmp(s)] = s => sock'[Tmp(s)] = s)
      BY <1>0, <2>0, <2>2 DEF ListenUnix
    <3> QED BY <1>0, <3>1, <3>2 DEF Listening, Process, Stopping
  <2>3. CASE ListenTCP(r)
    BY <1>0, <2>3 DEF ListenTCP, Steps, Listening, Process, Stopping
  <2>4. CASE WritePid(r) \/ WriteRuntime(r) \/ GoIdle(r) \/ Kill(r)
    BY <1>0, <1>a, <2>4 DEF WritePid, WriteRuntime, GoIdle, Kill, Disturbing, Steps, Listening, Process, Past, Stopping
  <2>5. CASE ReleasePort(r) \/ RemoveRuntime(r) \/ RemovePid(r)
    BY <1>0, <2>5 DEF ReleasePort, RemoveRuntime, RemovePid, Steps, Listening, Process, Stopping
  <2> QED BY <1>2, <2>1, <2>2, <2>3, <2>4, <2>5 DEF ServerStep
<1>3. ASSUME NEW r \in Servers, NEW env \in Envs, NEW spawned \in BOOLEAN, Launch(r, env, spawned),
             UNCHANGED sock, NEW D, past' = [past EXCEPT !.disturbed = D]
      PROVE  Ages(s)
  BY <1>0, <1>a, <1>3 DEF Launch, Fresh, Listening, Past
<1>4. ASSUME NEW r \in Servers, NEW env \in Envs, StartByHand(r, env) PROVE Ages(s)
  BY <1>3, <1>4 DEF StartByHand
<1>5. ASSUME NEW c \in Commands, CommandStep(c) PROVE Ages(s)
  <2>0. Own(c) \in Tmps /\ cmd[c].env \in Envs
    BY CommandFields DEF TypeInv
  <2>1. CASE DialFirst(c) \/ Discover(c) \/ DialOther(c) \/ Flock(c) \/ Redial(c) \/ Hangup(c) \/ OpenServing(c)
    BY <1>1, <2>1 DEF DialFirst, Discover, DialOther, Flock, Redial, Hangup, OpenServing, Same
  <2>2. CASE RemoveStale(c)
    BY <1>0, <1>a, <2>0, <2>2 DEF RemoveStale, Removes, Listening, Past
  <2>3. ASSUME NEW r \in Servers, Spawn(c, r) PROVE Ages(s)
    BY <1>3, <2>0, <2>3 DEF Spawn
  <2>4. CASE Poll(c) \/ GiveUp(c)
    BY <1>1, <1>a, <2>4 DEF Poll, GiveUp, Same, Past
  <2>5. CASE AddSource(c)
    BY <1>0, <2>5 DEF AddSource, Listening, Process
  <2>6. CASE Stop(c)
    <3>1. CASE UNCHANGED <<server, past>>
      BY <1>1, <2>6, <3>1 DEF Stop
    <3>2. ASSUME NEW r \in Servers, Signalled(r) PROVE Ages(s)
      BY <1>0, <1>a, <2>6, <3>2 DEF Stop, Signalled, Steps, Disturbing, Listening, Process, Past, Stopping
    <3>3. pidfile[Own(c)] # 0 => pidfile[Own(c)] \in Servers
      BY <2>0, DaemonAssumption DEF TypeInv, TypeOK, Servers
    <3> QED BY <2>6, <3>1, <3>2, <3>3 DEF Stop, Answering, Holders
  <2> QED BY <1>5, <2>1, <2>2, <2>3, <2>4, <2>5, <2>6 DEF CommandStep
<1>6. ASSUME NEW c \in Commands, Interrupt(c) PROVE Ages(s)
  BY <1>1, <1>a, <1>6 DEF Interrupt, Past
<1>7. ASSUME NEW c \in Commands, NEW kind \in {"open", "tail", "stop"}, NEW env \in Envs, Ask(c, kind, env)
      PROVE  Ages(s)
  BY <1>1, <1>7 DEF Ask, Same
<1>8. CASE UNCHANGED vars
  BY <1>1, <1>8 DEF vars
<1> QED BY <1>2, <1>4, <1>5, <1>6, <1>7, <1>8 DEF Next

\* Whoever starts a daemon, or a server by hand, takes the first number that is free.
LEMMA Launching ==
  ASSUME TypeInv, [Next]_vars, NEW s \in Servers, server[s].pc = "off", server'[s].pc # "off"
  PROVE  /\ s \in Fresh
         /\ server'[s].spawned => \E c \in Commands : Spawn(c, s)
<1>0. server \in [Servers -> Process]
  BY DEF TypeInv, TypeOK
<1>1. ASSUME NEW r \in Servers, ServerStep(r) \/ GoIdle(r) \/ Kill(r) PROVE FALSE
  BY <1>0, <1>1 DEF ServerStep, GoIdle, Kill, Alive, Steps, RemoveSocket, ListenUnix, ListenTCP, WritePid,
    WriteRuntime, CloseSocket, ReleasePort, RemoveSocketLast, RemoveRuntime, RemovePid
<1>2. ASSUME NEW r \in Servers, NEW env \in Envs, StartByHand(r, env)
      PROVE  s \in Fresh /\ ~server'[s].spawned
  BY <1>0, <1>2 DEF StartByHand, Launch
<1>3. ASSUME NEW c \in Commands, CommandStep(c), UNCHANGED server PROVE FALSE
  BY <1>3
<1>4. ASSUME NEW c \in Commands, NEW r \in Servers, Spawn(c, r) PROVE s \in Fresh /\ Spawn(c, s)
  BY <1>0, <1>4 DEF Spawn, Launch
<1>5. ASSUME NEW c \in Commands, Stop(c) PROVE FALSE
  <2>1. cmd[c].env \in Envs /\ Own(c) \in Tmps
    BY CommandFields DEF TypeInv
  <2>2. pidfile[Own(c)] # 0 => pidfile[Own(c)] \in Servers
    BY <2>1, DaemonAssumption DEF TypeInv, TypeOK, Servers
  <2>3. ASSUME NEW r \in Servers, Signalled(r) PROVE FALSE
    BY <1>0, <2>3 DEF Signalled, Steps, Starting
  <2> QED BY <1>5, <2>2, <2>3 DEF Stop, Answering, Holders
<1>6. ASSUME NEW c \in Commands, AddSource(c) PROVE FALSE
  BY <1>0, <1>6 DEF AddSource
<1>7. ASSUME NEW c \in Commands, CommandStep(c) PROVE s \in Fresh /\ Spawn(c, s)
  BY <1>4, <1>5, <1>6, <1>7 DEF CommandStep, DialFirst, Discover, DialOther, Flock, Redial, RemoveStale, Poll,
    GiveUp, Hangup, OpenServing, Same
<1> QED BY <1>1, <1>2, <1>7 DEF Next, vars, Interrupt, Ask, Same

\* Only a command itself moves on, and nobody else releases its lock.
LEMMA OwnMoves ==
  ASSUME TypeInv, [Next]_vars, NEW c \in Commands
  PROVE  \/ cmd'[c] = cmd[c] /\ \A t \in Tmps : lock[t] = c => lock'[t] = c
         \/ CommandStep(c) \/ Interrupt(c)
         \/ \E kind \in {"open", "tail", "stop"}, env \in Envs : Ask(c, kind, env)
<1>0. cmd \in [Commands -> Command] /\ lock \in [Tmps -> Commands \cup {Nobody}] /\ Nobody \notin Commands
  BY DaemonAssumption DEF TypeInv, TypeOK
<1>1. CASE UNCHANGED <<cmd, lock>>
  BY <1>1
<1>2. ASSUME NEW d \in Commands, d # c, CommandStep(d)
      PROVE  cmd'[c] = cmd[c] /\ \A t \in Tmps : lock[t] = c => lock'[t] = c
  <2>0. Own(d) \in Tmps
    BY CommandFields DEF TypeInv
  <2>1. cmd'[c] = cmd[c]
    BY <1>0, <1>2 DEF CommandStep, DialFirst, Discover, DialOther, Flock, Redial, RemoveStale, Spawn, Poll,
      GiveUp, AddSource, Hangup, OpenServing, Stop, Connected, Goes, Ends, Fails
  <2>2. UNCHANGED lock \/ Unlock(d) \/ (lock[Own(d)] = Nobody /\ lock' = [lock EXCEPT ![Own(d)] = d])
    BY <1>2 DEF CommandStep, DialFirst, Discover, DialOther, Flock, Redial, RemoveStale, Spawn, Poll,
      GiveUp, AddSource, Hangup, OpenServing, Stop
  <2> QED BY <1>0, <1>2, <2>0, <2>1, <2>2 DEF Unlock
<1>3. ASSUME NEW d \in Commands, d # c, Interrupt(d)
      PROVE  cmd'[c] = cmd[c] /\ \A t \in Tmps : lock[t] = c => lock'[t] = c
  BY <1>0, <1>2, <1>3 DEF Interrupt, Ends, Unlock
<1>4. ASSUME NEW d \in Commands, d # c, NEW kind, NEW env, Ask(d, kind, env)
      PROVE  cmd'[c] = cmd[c] /\ UNCHANGED lock
  BY <1>0, <1>4 DEF Ask
<1>5. ASSUME NEW r \in Servers, \/ ServerStep(r) \/ GoIdle(r) \/ Kill(r)
                               \/ \E env \in Envs : StartByHand(r, env)
      PROVE  UNCHANGED <<cmd, lock>>
  BY <1>5 DEF ServerStep, GoIdle, Kill, StartByHand, RemoveSocket, ListenUnix, ListenTCP, WritePid,
    WriteRuntime, CloseSocket, ReleasePort, RemoveSocketLast, RemoveRuntime, RemovePid
<1> QED BY <1>1, <1>2, <1>3, <1>4, <1>5 DEF Next, vars

\* Where its own steps lead a command.
LEMMA Leads ==
  ASSUME TypeInv, NEW c \in Commands
  PROVE  /\ \A pc : Goes(c, pc) => cmd'[c].pc = pc /\ Own(c)' = Own(c)
         /\ \A pc : Ends(c, pc) => cmd'[c].pc = pc
         /\ \A t : Connected(c, t) => cmd'[c].pc = "connected"
         /\ GiveUp(c) => cmd'[c].pc \in {"serving", "failed"}
         /\ Discover(c) => cmd'[c].pc \in {"other", "lock"}
         /\ \A s : Spawn(c, s) => cmd'[c].pc = "poll" /\ cmd'[c].daemon = s /\ Own(c)' = Own(c)
         /\ \A kind, env : Ask(c, kind, env) => cmd'[c].pc \in {"signal", "dial"}
<1>0. cmd \in [Commands -> Command] /\ cmd[c] \in Command
  BY DEF TypeInv, TypeOK
<1>1. /\ \A pc : Goes(c, pc) => cmd'[c].pc = pc /\ Own(c)' = Own(c)
      /\ \A pc : Ends(c, pc) => cmd'[c].pc = pc
      /\ \A t : Connected(c, t) => cmd'[c].pc = "connected"
  BY <1>0 DEF Goes, Ends, Connected, Own, Command, NoCommand
<1>2. GiveUp(c) => cmd'[c].pc \in {"serving", "failed"}
  BY <1>1 DEF GiveUp, Fails
<1>3. Discover(c) => cmd'[c].pc \in {"other", "lock"}
  <2>1. ASSUME NEW t, cmd' = [cmd EXCEPT ![c].pc = "other", ![c].tmp = t] PROVE cmd'[c].pc = "other"
    BY <1>0, <2>1 DEF Command
  <2> QED BY <1>1, <2>1 DEF Discover
<1>4. \A s : Spawn(c, s) => cmd'[c].pc = "poll" /\ cmd'[c].daemon = s /\ Own(c)' = Own(c)
  BY <1>0 DEF Spawn, Command, Own
<1>5. \A kind, env : Ask(c, kind, env) => cmd'[c].pc \in {"signal", "dial"}
  BY <1>0 DEF Ask, NoCommand
<1> QED BY <1>1, <1>2, <1>3, <1>4, <1>5

\* flock keeps two commands of one directory from looking for a daemon at once.
LEMMA LockStaysHeld ==
  ASSUME TypeInv, LockHeld, [Next]_vars PROVE LockHeld'
<1> SUFFICES ASSUME NEW c \in Commands, cmd'[c].pc \in Critical PROVE lock'[Own(c)'] = c
  BY DEF LockHeld
<1>0. /\ cmd \in [Commands -> Command] /\ lock \in [Tmps -> Commands \cup {Nobody}]
      /\ Own(c) \in Tmps
  BY CommandFields DEF TypeInv, TypeOK
<1>1. CASE cmd'[c] = cmd[c] /\ \A t \in Tmps : lock[t] = c => lock'[t] = c
  BY <1>0, <1>1 DEF LockHeld, Own
<1>2. CASE Flock(c)
  BY <1>0, <1>2, Leads DEF Flock
<1>3. CASE Redial(c) \/ RemoveStale(c) \/ \E s \in Servers : Spawn(c, s)
  <2>1. UNCHANGED lock /\ Own(c)' = Own(c) /\ cmd[c].pc \in Critical
    BY <1>3, Leads DEF Redial, RemoveStale, Spawn, Critical
  <2> QED BY <2>1 DEF LockHeld
<1>4. ~(DialFirst(c) \/ Discover(c) \/ DialOther(c) \/ Poll(c) \/ GiveUp(c))
  BY Leads DEF DialFirst, DialOther, Poll, Critical
<1>5. ~(AddSource(c) \/ Hangup(c) \/ OpenServing(c) \/ Stop(c) \/ Interrupt(c))
  BY Leads DEF AddSource, Hangup, OpenServing, Stop, Interrupt, Critical
<1>6. ~\E kind \in {"open", "tail", "stop"}, env \in Envs : Ask(c, kind, env)
  BY Leads DEF Critical
<1> QED BY <1>1, <1>2, <1>3, <1>4, <1>5, <1>6, OwnMoves DEF CommandStep

\* Nobody that OneDaemon counts appears without being waited for, and nobody who was
\* waited for is forgotten.
LEMMA StaysAccounted ==
  ASSUME TypeInv, DaemonInv, [Next]_vars PROVE Accounted'
<1> SUFFICES ASSUME NEW s \in Servers, Ours(s)' PROVE Awaited(s)' \/ Serves(s)'
  BY DEF Accounted
<1>0. cmd \in [Commands -> Command] /\ server \in [Servers -> Process]
  BY DEF TypeInv, TypeOK
<1>1. CASE server[s].pc = "off"
  <2>1. PICK c \in Commands : Spawn(c, s)
    BY <1>1, Launching DEF Ours, Standing, Alive
  <2>2. server'[s].env = cmd[c].env
    BY <1>0, <2>1 DEF Spawn, Launch
  <2> QED BY <2>1, <2>2, Leads DEF Awaited, Own, Tmp
<1>2. CASE server[s].pc # "off"
  <2>1. Ours(s) /\ (Serves(s) => Serves(s)') /\ Tmp(s)' = Tmp(s)
    BY <1>2, Aging DEF Ages, Tmp, Ours
  <2>2. CASE Serves(s)
    BY <2>1, <2>2
  <2>3. ASSUME NEW c \in Commands, cmd[c].pc = "poll", cmd[c].daemon = s, Own(c) = Tmp(s)
        PROVE  Awaited(s)' \/ Serves(s)'
    <3>1. CASE cmd'[c] = cmd[c]
      BY <2>1, <2>3, <3>1 DEF Awaited, Own
    <3>2. CASE Poll(c)
      <4>1. past \in Past
        BY DEF TypeInv, TypeOK
      <4>2. s = sock[Own(c)]
        BY <2>3, <3>2, <4>1 DEF Poll, Ours, Past
      <4> QED BY <2>1, <2>3, <3>2, <4>2 DEF Poll, Connected, Dialable, Serves
    <3>3. ~GiveUp(c) /\ ~Interrupt(c)
      <4>1. s # 0 /\ past \in Past
        BY DaemonAssumption DEF Servers, TypeInv, TypeOK
      <4> QED BY <2>3, <4>1 DEF GiveUp, Interrupt, Ours, Past
    <3>4. CommandStep(c) => Poll(c) \/ GiveUp(c)
      BY <2>3 DEF CommandStep, DialFirst, Discover, DialOther, Flock, Redial, RemoveStale, Spawn,
        AddSource, Hangup, OpenServing, Stop
    <3>5. ~\E kind \in {"open", "tail", "stop"}, env \in Envs : Ask(c, kind, env)
      BY <2>3 DEF Ask
    <3> QED BY <3>1, <3>2, <3>3, <3>4, <3>5, OwnMoves
  <2> QED BY <2>1, <2>2, <2>3 DEF DaemonInv, Accounted, Awaited
<1> QED BY <1>1, <1>2

\* Between its look at the directory and the start of a daemon, a command that has the
\* lock is not overtaken.
LEMMA StaysCleared ==
  ASSUME TypeInv, DaemonInv, [Next]_vars PROVE Cleared'
<1> SUFFICES ASSUME NEW c \in Commands, cmd'[c].pc \in {"remove", "spawn"},
                    NEW s \in Servers, Tmp(s)' = Own(c)', Ours(s)'
             PROVE  FALSE
  BY DEF Cleared
<1>0. cmd \in [Commands -> Command] /\ server \in [Servers -> Process]
  BY DEF TypeInv, TypeOK
<1>1. lock'[Own(c)'] = c
  BY LockStaysHeld DEF DaemonInv, LockHeld, Critical
<1>2. CASE server[s].pc = "off"
  <2>1. PICK d \in Commands : Spawn(d, s)
    BY <1>2, Launching DEF Ours, Standing, Alive
  <2>2. server'[s].env = cmd[d].env
    BY <1>0, <2>1 DEF Spawn, Launch
  <2>3. cmd'[d].pc = "poll" /\ Own(d)' = Tmp(s)'
    BY <2>1, <2>2, Leads DEF Own, Tmp
  <2>4. lock'[Own(d)'] = d
    BY <2>3, LockStaysHeld DEF DaemonInv, LockHeld, Critical
  <2> QED BY <1>1, <2>3, <2>4
<1>3. CASE server[s].pc # "off"
  <2>1. Ours(s) /\ Tmp(s)' = Tmp(s)
    BY <1>3, Aging DEF Ages, Tmp
  <2>2. CASE cmd'[c] = cmd[c]
    BY <2>1, <2>2 DEF DaemonInv, Cleared, Own
  <2>3. CASE Redial(c)
    <3>1. ~Dialable(Own(c)) /\ cmd[c].pc = "redial" /\ Own(c)' = Own(c)
      BY <2>3, Leads DEF Redial
    <3>2. ~Serves(s)
      <4>1. s # 0
        BY DaemonAssumption DEF Servers
      <4> QED BY <2>1, <3>1, <4>1 DEF Serves, Dialable
    <3>3. PICK d \in Commands : cmd[d].pc = "poll" /\ Own(d) = Tmp(s)
      BY <2>1, <3>2 DEF DaemonInv, Accounted, Awaited
    <3>4. lock[Own(c)] = c /\ lock[Own(d)] = d
      BY <3>1, <3>3 DEF DaemonInv, LockHeld, Critical
    <3> QED BY <2>1, <3>1, <3>3, <3>4
  <2>4. CASE RemoveStale(c)
    <3>1. cmd[c].pc = "remove" /\ Own(c)' = Own(c)
      BY <2>4, Leads DEF RemoveStale
    <3> QED BY <2>1, <3>1 DEF DaemonInv, Cleared
  <2>5. ~(DialFirst(c) \/ Discover(c) \/ DialOther(c) \/ Flock(c) \/ Poll(c) \/ GiveUp(c)
            \/ \E r \in Servers : Spawn(c, r))
    BY Leads DEF DialFirst, DialOther, Flock, Poll
  <2>6. ~(AddSource(c) \/ Hangup(c) \/ OpenServing(c) \/ Stop(c) \/ Interrupt(c))
    BY Leads DEF AddSource, Hangup, OpenServing, Stop, Interrupt
  <2>7. ~\E kind \in {"open", "tail", "stop"}, env \in Envs : Ask(c, kind, env)
    BY Leads
  <2> QED BY <2>2, <2>3, <2>4, <2>5, <2>6, <2>7, OwnMoves DEF CommandStep
<1> QED BY <1>2, <1>3

\* The lock, the daemons it protects and OneDaemon together are inductive.
LEMMA DaemonInvHolds == Spec => []DaemonInv
<1>1. Init => DaemonInv
  BY DEF Init, DaemonInv, LockHeld, Accounted, Cleared, Numbered, OneDaemon, Ours, Standing, Alive, NoServer, NoCommand,
    Critical
<1>2. TypeInv /\ DaemonInv /\ [Next]_vars => DaemonInv'
  <2> SUFFICES ASSUME TypeInv, DaemonInv, [Next]_vars PROVE DaemonInv'
    OBVIOUS
  <2>1. LockHeld' /\ Accounted' /\ Cleared'
    BY LockStaysHeld, StaysAccounted, StaysCleared DEF DaemonInv
  <2>2. ASSUME NEW s \in Servers, server'[s].pc # "off", NEW r \in 1 .. s - 1
        PROVE  server'[r].pc # "off"
    <3>1. r \in Servers
      BY DaemonAssumption DEF Servers
    <3>2. server[r].pc # "off"
      BY <2>2, Launching DEF DaemonInv, Numbered, Fresh
    <3> QED BY <3>1, <3>2, Aging DEF Ages
  <2>3. ASSUME NEW s \in Servers, NEW r \in Servers, s < r, server'[r].spawned, Tmp(s)' = Tmp(r)',
               Alive(r)', Ours(s)'
        PROVE  FALSE
    <3>1. s \in 1 .. r - 1
      BY <2>3, DaemonAssumption DEF Servers
    <3>2. server[s].pc # "off"
      BY <2>3, <3>1, Launching DEF DaemonInv, Numbered, Fresh, Ours, Standing, Alive
    <3>3. Ours(s) /\ Tmp(s)' = Tmp(s)
      BY <2>3, <3>2, Aging DEF Ages, Tmp
    <3>4. CASE server[r].pc # "off"
      <4>1. server[r].spawned /\ Alive(r) /\ Tmp(r)' = Tmp(r)
        BY <2>3, <3>4, Aging DEF Ages, Tmp
      <4> QED BY <2>3, <3>3, <4>1 DEF DaemonInv, OneDaemon, Ours, Standing
    <3>5. CASE server[r].pc = "off"
      <4>1. PICK c \in Commands : Spawn(c, r)
        BY <2>3, <3>5, Launching DEF Alive
      <4>2. cmd[c].pc = "spawn" /\ Tmp(r)' = Own(c)
        BY <4>1 DEF Spawn, Launch, Tmp, Own, TypeInv, TypeOK
      <4> QED BY <2>3, <3>3, <4>2 DEF DaemonInv, Cleared
    <3> QED BY <3>4, <3>5
  <2>4. OneDaemon'
    BY <2>3 DEF OneDaemon, Ours, Standing
  <2> QED BY <2>1, <2>2, <2>4 DEF DaemonInv, Numbered
<1> QED BY <1>1, <1>2, Typing, PTL DEF Spec

\* In one directory two daemons are alive only while the elder shuts down, or when its
\* command gave up waiting for it, or when its socket was taken away (Daemon.OneDaemon).
THEOREM OneDaemonHolds == Spec => []OneDaemon
BY DaemonInvHolds, PTL DEF DaemonInv

-----------------------------------------------------------------------------
(* The files of a running server                                           *)

\* The kernel gives a port to one process.
OnePort == \A s, r \in Servers : HasPort(s) /\ HasPort(r) /\ Port(s) = Port(r) => s = r

\* Whoever is undisturbed lives with servers of its own environment that do not stop.
Alone == \A s, r \in Servers :
  s # r /\ Alive(s) /\ Alive(r) /\ s \notin past.disturbed =>
    server[r].env = server[s].env /\ server[r].pc \notin Stopping

\* A server that listens and has not begun to stop has its socket at the path, and one
\* that has written a file is named by it.
Named == \A s \in Servers :
  /\ Listening(s) /\ server[s].pc \notin Stopping => s \in past.robbed \/ sock[Tmp(s)] = s
  /\ s \notin past.disturbed /\ server[s].pc \in {"runtime", "up"} => pidfile[Tmp(s)] = s
  /\ s \notin past.disturbed /\ server[s].pc = "up" => runtime = s

FilesInv == OnePort /\ Alone /\ Named

\* How the state of a server changes, and who else does not change with it.
LEMMA Moves ==
  ASSUME TypeInv, [Next]_vars, NEW s \in Servers
  PROVE  \/ server'[s].pc = server[s].pc /\ server'[s].env = server[s].env
         \/ ServerStep(s) \/ GoIdle(s) \/ Kill(s) \/ Signalled(s)
         \/ \E env \in Envs, spawned \in BOOLEAN :
              /\ Launch(s, env, spawned)
              /\ past' = [past EXCEPT !.disturbed = @ \cup Meeting(s, env)]
<1>0. server \in [Servers -> Process]
  BY DEF TypeInv, TypeOK
<1>1. ASSUME NEW r \in Servers, NEW pc, \/ server' = [server EXCEPT ![r].pc = pc]
                                        \/ server' = [server EXCEPT ![r].pc = pc, ![r].again = TRUE]
                                        \/ server' = [server EXCEPT ![r].pc = pc, ![r].again = FALSE],
             r # s
      PROVE  server'[s].pc = server[s].pc /\ server'[s].env = server[s].env
  BY <1>0, <1>1
<1>2. ASSUME NEW r \in Servers, r # s, ServerStep(r) \/ GoIdle(r) \/ Kill(r)
      PROVE  server'[s].pc = server[s].pc /\ server'[s].env = server[s].env
  BY <1>1, <1>2 DEF ServerStep, GoIdle, Kill, Steps, RemoveSocket, ListenUnix, ListenTCP, WritePid,
    WriteRuntime, CloseSocket, ReleasePort, RemoveSocketLast, RemoveRuntime, RemovePid
<1>3. ASSUME NEW r \in Servers, r # s, NEW env, NEW spawned, Launch(r, env, spawned)
      PROVE  server'[s].pc = server[s].pc /\ server'[s].env = server[s].env
  BY <1>0, <1>3 DEF Launch
<1>4. ASSUME NEW c \in Commands, Stop(c)
      PROVE  Signalled(s) \/ (server'[s].pc = server[s].pc /\ server'[s].env = server[s].env)
  <2>1. cmd[c].env \in Envs /\ Own(c) \in Tmps
    BY CommandFields DEF TypeInv
  <2>2. pidfile[Own(c)] # 0 => pidfile[Own(c)] \in Servers
    BY <2>1, DaemonAssumption DEF TypeInv, TypeOK, Servers
  <2>3. ASSUME NEW r \in Servers, r # s, Signalled(r)
        PROVE  server'[s].pc = server[s].pc /\ server'[s].env = server[s].env
    BY <1>1, <2>3 DEF Signalled, Steps
  <2> QED BY <1>4, <2>2, <2>3 DEF Stop, Answering, Holders
<1>5. ASSUME NEW c \in Commands, AddSource(c)
      PROVE  server'[s].pc = server[s].pc /\ server'[s].env = server[s].env
  BY <1>0, <1>5 DEF AddSource, Process
<1>6. CASE UNCHANGED server
  BY <1>6
<1>7. ASSUME NEW c \in Commands, NEW r \in Servers, Spawn(c, r)
      PROVE  \E env \in Envs, spawned \in BOOLEAN : Launch(r, env, spawned) /\
               past' = [past EXCEPT !.disturbed = @ \cup Meeting(r, env)]
  BY <1>7, CommandFields DEF Spawn, TypeInv
<1>8. ASSUME NEW r \in Servers, NEW env \in Envs, StartByHand(r, env)
      PROVE  Launch(r, env, FALSE) /\ past' = [past EXCEPT !.disturbed = @ \cup Meeting(r, env)]
  BY <1>8 DEF StartByHand
<1>9. CASE \E c \in Commands : CommandStep(c)
  BY <1>3, <1>4, <1>5, <1>6, <1>7, <1>9 DEF CommandStep, DialFirst, Discover, DialOther, Flock, Redial,
    RemoveStale, Poll, GiveUp, Hangup, OpenServing, Same
<1>10. CASE \E r \in Servers : ServerStep(r) \/ GoIdle(r) \/ Kill(r) \/ \E env \in Envs : StartByHand(r, env)
  BY <1>2, <1>3, <1>8, <1>10
<1> QED BY <1>6, <1>9, <1>10 DEF Next, vars, Interrupt, Ask, Same

\* The ways into a state that listens or has written a file.
LEMMA Advances ==
  ASSUME TypeInv, [Next]_vars, NEW s \in Servers
  PROVE  \/ server'[s].pc = server[s].pc
         \/ ListenUnix(s) /\ server'[s].pc \in {"bind", "dead"}
         \/ WritePid(s) /\ server'[s].pc = "runtime"
         \/ WriteRuntime(s) /\ server[s].pc = "runtime"
         \/ server[s].pc = "bind" /\ server'[s].pc = "pid"
         \/ server'[s].pc \in Stopping \cup {"dead", "listen", "unlink"}
<1>0. server \in [Servers -> Process]
  BY DEF TypeInv, TypeOK
<1>1. CASE RemoveSocket(s) \/ ListenTCP(s)
  BY <1>0, <1>1 DEF RemoveSocket, ListenTCP, Steps, Process
<1>2. CASE CloseSocket(s) \/ ReleasePort(s) \/ RemoveSocketLast(s)
  BY <1>0, <1>2 DEF CloseSocket, ReleasePort, RemoveSocketLast, Steps, Process, Stopping
<1>3. CASE RemoveRuntime(s) \/ RemovePid(s)
  BY <1>0, <1>3 DEF RemoveRuntime, RemovePid, Steps, Process, Stopping
<1>4. CASE GoIdle(s) \/ Kill(s) \/ Signalled(s)
  BY <1>0, <1>4 DEF GoIdle, Kill, Signalled, Steps, Process, Stopping
<1>5. ASSUME NEW env, NEW spawned, Launch(s, env, spawned) PROVE server'[s].pc = "unlink"
  BY <1>0, <1>5 DEF Launch
<1>6. CASE ListenUnix(s) \/ WritePid(s) \/ WriteRuntime(s)
  BY <1>0, <1>6 DEF ListenUnix, WritePid, WriteRuntime, Steps, Process
<1> QED BY <1>1, <1>2, <1>3, <1>4, <1>5, <1>6, Moves DEF ServerStep

\* Who is disturbed, or robbed, stays so.
LEMMA HistoryGrows ==
  ASSUME TypeInv, [Next]_vars
  PROVE  past.disturbed \subseteq past'.disturbed /\ past.robbed \subseteq past'.robbed
<1>0. past \in Past
  BY DEF TypeInv, TypeOK
<1>1. ASSUME NEW r \in Servers, \/ ServerStep(r) \/ GoIdle(r) \/ Kill(r)
                               \/ \E env \in Envs : StartByHand(r, env)
      PROVE  past.disturbed \subseteq past'.disturbed /\ past.robbed \subseteq past'.robbed
  BY <1>0, <1>1 DEF Past, ServerStep, GoIdle, Kill, StartByHand, Removes, Disturbing, RemoveSocket, ListenUnix,
    ListenTCP, WritePid, WriteRuntime, CloseSocket, ReleasePort, RemoveSocketLast, RemoveRuntime, RemovePid
<1>2. ASSUME NEW c \in Commands, CommandStep(c)
      PROVE  past.disturbed \subseteq past'.disturbed /\ past.robbed \subseteq past'.robbed
  BY <1>0, <1>2 DEF Past, CommandStep, DialFirst, Discover, DialOther, Flock, Redial, RemoveStale, Spawn,
    Poll, GiveUp, AddSource, Hangup, OpenServing, Stop, Signalled, Removes, Disturbing
<1>3. ASSUME NEW c \in Commands, Interrupt(c)
      PROVE  past.disturbed \subseteq past'.disturbed /\ past.robbed \subseteq past'.robbed
  BY <1>0, <1>3 DEF Past, Interrupt
<1> QED BY <1>1, <1>2, <1>3 DEF Next, vars, Ask

\* Who writes the pid file, and runtime.json.
LEMMA FileWriters ==
  ASSUME [Next]_vars
  PROVE  /\ pidfile' # pidfile => \E r \in Servers : WritePid(r) \/ RemovePid(r)
         /\ runtime' # runtime => \E r \in Servers : WriteRuntime(r) \/ RemoveRuntime(r)
<1>1. ASSUME NEW r \in Servers, ServerStep(r) \/ GoIdle(r) \/ Kill(r) \/ \E env \in Envs : StartByHand(r, env)
      PROVE  /\ UNCHANGED pidfile \/ WritePid(r) \/ RemovePid(r)
             /\ UNCHANGED runtime \/ WriteRuntime(r) \/ RemoveRuntime(r)
  BY <1>1 DEF ServerStep, GoIdle, Kill, StartByHand, RemoveSocket, ListenUnix,
    ListenTCP, WritePid, WriteRuntime, CloseSocket, ReleasePort, RemoveSocketLast, RemoveRuntime, RemovePid
<1>2. ASSUME NEW c \in Commands, CommandStep(c) \/ Interrupt(c) PROVE UNCHANGED <<pidfile, runtime>>
  BY <1>2 DEF CommandStep, DialFirst, Discover, DialOther, Flock, Redial, RemoveStale, Spawn,
    Poll, GiveUp, AddSource, Hangup, OpenServing, Stop, Interrupt, Same
<1> QED BY <1>1, <1>2 DEF Next, vars, Ask, Same

\* A server takes the port only when nobody has it.
LEMMA PortTaken ==
  ASSUME TypeInv, [Next]_vars, NEW s \in Servers, HasPort(s)'
  PROVE  /\ Port(s)' = Port(s)
         /\ \/ HasPort(s)
            \/ ListenTCP(s) /\ Holders(Port(s)) = {} /\ \A r \in Servers \ {s} : server'[r] = server[r]
<1>0. server \in [Servers -> Process]
  BY DEF TypeInv, TypeOK
<1>1. CASE server'[s].pc = server[s].pc /\ server'[s].env = server[s].env
  BY <1>1 DEF HasPort, Port
<1>2. CASE ListenTCP(s)
  BY <1>0, <1>2 DEF ListenTCP, Steps, HasPort, Port, Process
<1>3. CASE \/ WritePid(s) \/ WriteRuntime(s) \/ CloseSocket(s)
  BY <1>0, <1>3 DEF WritePid, WriteRuntime, CloseSocket, Steps, HasPort, Port, Process
<1>4. ~(RemoveSocket(s) \/ ListenUnix(s) \/ ReleasePort(s) \/ RemoveSocketLast(s) \/ RemoveRuntime(s))
  BY <1>0 DEF RemoveSocket, ListenUnix, ReleasePort, RemoveSocketLast, RemoveRuntime, Steps, HasPort, Process
<1>5. ~(RemovePid(s) \/ Kill(s))
  BY <1>0 DEF RemovePid, Kill, Steps, HasPort, Process
<1>6. CASE GoIdle(s) \/ Signalled(s)
  BY <1>0, <1>1, <1>6 DEF GoIdle, Signalled, Steps, HasPort, Port, Process
<1>7. ~\E env \in Envs, spawned \in BOOLEAN : Launch(s, env, spawned)
  BY <1>0 DEF Launch, HasPort
<1> QED BY <1>1, <1>2, <1>3, <1>4, <1>5, <1>6, <1>7, Moves DEF ServerStep

\* Whoever begins to stop disturbs all that are alive.
LEMMA StopDisturbs ==
  ASSUME TypeInv, [Next]_vars, NEW r \in Servers, server'[r].pc \in Stopping, server[r].pc \notin Stopping
  PROVE  Disturbing(r) /\ \A s \in Servers \ {r} : server'[s] = server[s]
<1>0. server \in [Servers -> Process]
  BY DEF TypeInv, TypeOK
<1>1. ~ServerStep(r)
  <2>1. ~(RemoveSocket(r) \/ ListenUnix(r) \/ ListenTCP(r) \/ WritePid(r) \/ WriteRuntime(r))
    BY <1>0 DEF RemoveSocket, ListenUnix, ListenTCP, WritePid, WriteRuntime, Steps, Stopping, Process
  <2>2. ~(CloseSocket(r) \/ ReleasePort(r) \/ RemoveSocketLast(r) \/ RemoveRuntime(r) \/ RemovePid(r))
    BY DEF CloseSocket, ReleasePort, RemoveSocketLast, RemoveRuntime, RemovePid, Steps, Stopping
  <2> QED BY <2>1, <2>2 DEF ServerStep
<1>2. ~Kill(r) /\ ~\E env \in Envs, spawned \in BOOLEAN : Launch(r, env, spawned)
  BY <1>0 DEF Kill, Launch, Stopping, Process
<1>3. CASE GoIdle(r) \/ Signalled(r)
  BY <1>0, <1>3 DEF GoIdle, Signalled, Steps, Stopping, Process
<1> QED BY <1>1, <1>2, <1>3, Moves

\* Another server starts, or stops, and disturbs those it meets.
LEMMA StaysAlone ==
  ASSUME TypeInv, FilesInv, [Next]_vars PROVE Alone'
<1> SUFFICES ASSUME NEW s \in Servers, NEW r \in Servers, s # r, Alive(s)', Alive(r)',
                    s \notin past'.disturbed
             PROVE  server'[r].env = server'[s].env /\ server'[r].pc \notin Stopping
  BY DEF Alone
<1>0. server \in [Servers -> Process] /\ past \in Past
  BY DEF TypeInv, TypeOK
<1>1. s \notin past.disturbed
  BY HistoryGrows
<1>2. CASE server[s].pc = "off"
  <2>1. PICK env \in Envs, spawned \in BOOLEAN :
          Launch(s, env, spawned) /\ past' = [past EXCEPT !.disturbed = @ \cup Meeting(s, env)]
    BY <1>0, <1>2, Moves DEF ServerStep, GoIdle, Kill, Signalled, Steps, RemoveSocket, ListenUnix, ListenTCP,
      WritePid, WriteRuntime, CloseSocket, ReleasePort, RemoveSocketLast, RemoveRuntime, RemovePid,
      Alive, Starting, Stopping
  <2>2. server'[r] = server[r] /\ server'[s].env = env /\ Alive(r)
    BY <1>0, <2>1 DEF Launch, Alive
  <2>3. Meeting(s, env) \subseteq past'.disturbed
    BY <1>0, <2>1 DEF Past
  <2> QED BY <2>2, <2>3 DEF Meeting
<1>3. CASE server[r].pc = "off"
  <2>1. PICK env \in Envs, spawned \in BOOLEAN :
          Launch(r, env, spawned) /\ past' = [past EXCEPT !.disturbed = @ \cup Meeting(r, env)]
    BY <1>0, <1>3, Moves DEF ServerStep, GoIdle, Kill, Signalled, Steps, RemoveSocket, ListenUnix, ListenTCP,
      WritePid, WriteRuntime, CloseSocket, ReleasePort, RemoveSocketLast, RemoveRuntime, RemovePid,
      Alive, Starting, Stopping
  <2>2. server'[s] = server[s] /\ server'[r].env = env /\ server'[r].pc = "unlink" /\ Alive(s)
    BY <1>0, <2>1 DEF Launch, Alive
  <2>3. Meeting(r, env) \subseteq past'.disturbed
    BY <1>0, <2>1 DEF Past
  <2> QED BY <2>2, <2>3 DEF Meeting, Stopping
<1>4. CASE server[s].pc # "off" /\ server[r].pc # "off"
  <2>1. /\ server'[s].env = server[s].env /\ server'[r].env = server[r].env /\ Alive(s) /\ Alive(r)
    BY <1>4, Aging DEF Ages
  <2>2. server[r].env = server[s].env /\ server[r].pc \notin Stopping
    BY <1>1, <2>1 DEF FilesInv, Alone
  <2>3. server'[r].pc \in Stopping => s \in past'.disturbed
    BY <1>0, <2>1, <2>2, StopDisturbs DEF Disturbing, Past
  <2> QED BY <2>1, <2>2, <2>3
<1> QED BY <1>2, <1>3, <1>4

\* What a server has written stays as long as nobody disturbs it.
LEMMA StaysNamed ==
  ASSUME TypeInv, FilesInv, [Next]_vars PROVE Named'
<1> SUFFICES ASSUME NEW s \in Servers
             PROVE  /\ Listening(s)' /\ server'[s].pc \notin Stopping
                         => s \in past'.robbed \/ sock'[Tmp(s)'] = s
                    /\ s \notin past'.disturbed /\ server'[s].pc \in {"runtime", "up"} => pidfile'[Tmp(s)'] = s
                    /\ s \notin past'.disturbed /\ server'[s].pc = "up" => runtime' = s
  BY DEF Named
<1>0. /\ server \in [Servers -> Process] /\ Tmp(s) \in Tmps
      /\ sock \in [Tmps -> 0 .. MaxServers] /\ pidfile \in [Tmps -> 0 .. MaxServers]
  BY ServerFields DEF TypeInv, TypeOK
<1>a. past.disturbed \subseteq past'.disturbed /\ past.robbed \subseteq past'.robbed
  BY HistoryGrows
<1>2. Listening(s)' /\ server'[s].pc \notin Stopping => s \in past'.robbed \/ sock'[Tmp(s)'] = s
  <2> SUFFICES ASSUME Listening(s)', server'[s].pc \notin Stopping, s \notin past'.robbed
               PROVE  sock'[Tmp(s)'] = s
    OBVIOUS
  <2>1. CASE Listening(s) /\ server[s].pc \notin Stopping
    <3>1. Serves(s)
      BY <1>a, <2>1 DEF FilesInv, Named, Serves
    <3>2. Standing(s)'
      BY DEF Standing, Listening, Alive, Stopping
    <3> QED BY <2>1, <3>1, <3>2, Aging DEF Ages, Serves, Listening
  <2>2. CASE ListenUnix(s)
    BY <1>0, <2>2 DEF ListenUnix, Steps, Listening, Tmp, Process
  <2>3. (Listening(s) /\ server[s].pc \notin Stopping) \/ ListenUnix(s)
    BY Advances DEF Listening, Stopping, WritePid, Steps
  <2> QED BY <2>1, <2>2, <2>3
\* Nobody else that has the port is alive beside an undisturbed server that has it.
<1>3. ASSUME NEW r \in Servers, s \notin past'.disturbed, Alive(s), HasPort(s), Alive(r),
             HasPort(r) \/ server[r].pc \in Stopping
      PROVE  r = s
  BY <1>3, <1>a DEF FilesInv, Alone, OnePort, Port
<1>4. s \notin past'.disturbed /\ server'[s].pc \in {"runtime", "up"} => pidfile'[Tmp(s)'] = s
  <2> SUFFICES ASSUME s \notin past'.disturbed, server'[s].pc \in {"runtime", "up"} PROVE pidfile'[Tmp(s)'] = s
    OBVIOUS
  <2>1. CASE WritePid(s)
    BY <1>0, <2>1 DEF WritePid, Steps, Tmp, Process
  <2>2. CASE server[s].pc \in {"runtime", "up"}
    <3>1. Tmp(s)' = Tmp(s) /\ pidfile[Tmp(s)] = s
      BY <1>a, <2>2, Aging DEF Ages, Tmp, FilesInv, Named
    <3>2. ASSUME NEW r \in Servers, WritePid(r) \/ RemovePid(r) PROVE FALSE
      <4>1. r = s
        BY <1>3, <2>2, <3>2 DEF WritePid, RemovePid, Steps, Alive, HasPort, Stopping
      <4> QED BY <2>2, <3>2, <4>1 DEF WritePid, RemovePid, Steps
    <3> QED BY <3>1, <3>2, FileWriters
  <2>3. WritePid(s) \/ server[s].pc \in {"runtime", "up"}
    BY Advances DEF Stopping
  <2> QED BY <2>1, <2>2, <2>3
<1>5. s \notin past'.disturbed /\ server'[s].pc = "up" => runtime' = s
  <2> SUFFICES ASSUME s \notin past'.disturbed, server'[s].pc = "up" PROVE runtime' = s
    OBVIOUS
  <2>1. CASE WriteRuntime(s)
    BY <2>1 DEF WriteRuntime
  <2>2. CASE server[s].pc = "up"
    <3>1. runtime = s
      BY <1>a, <2>2 DEF FilesInv, Named
    <3>2. ASSUME NEW r \in Servers, WriteRuntime(r) \/ RemoveRuntime(r) PROVE FALSE
      <4>1. r = s
        BY <1>3, <2>2, <3>2 DEF WriteRuntime, RemoveRuntime, Steps, Alive, HasPort, Stopping
      <4> QED BY <2>2, <3>2, <4>1 DEF WriteRuntime, RemoveRuntime, Steps
    <3> QED BY <3>1, <3>2, FileWriters
  <2>3. WriteRuntime(s) \/ server[s].pc = "up"
    BY Advances DEF Stopping
  <2> QED BY <2>1, <2>2, <2>3
<1> QED BY <1>2, <1>4, <1>5

\* Ports, neighbours and files together are inductive.
LEMMA FilesInvHolds == Spec => []FilesInv
<1>1. Init => FilesInv
  BY DEF Init, FilesInv, OnePort, Alone, Named, HasPort, Alive, Listening, NoServer
<1>2. TypeInv /\ FilesInv /\ [Next]_vars => FilesInv'
  <2> SUFFICES ASSUME TypeInv, FilesInv, [Next]_vars PROVE FilesInv'
    OBVIOUS
  <2>1. ASSUME NEW s \in Servers, NEW r \in Servers, HasPort(s)', HasPort(r)', Port(s)' = Port(r)', s # r
        PROVE  FALSE
    <3>1. ~(HasPort(s) /\ HasPort(r))
      BY <2>1, PortTaken DEF FilesInv, OnePort
    <3>2. ASSUME NEW x \in Servers, NEW y \in Servers, x # y, HasPort(x)', HasPort(y)', Port(x)' = Port(y)',
                 ListenTCP(x), Holders(Port(x)) = {}, \A z \in Servers \ {x} : server'[z] = server[z]
          PROVE  FALSE
      BY <3>2, PortTaken DEF Holders, HasPort
    <3> QED BY <2>1, <3>1, <3>2, PortTaken
  <2> QED BY <2>1, StaysAlone, StaysNamed DEF FilesInv, OnePort
<1> QED BY <1>1, <1>2, Typing, PTL DEF Spec

\* The files name the server that runs, as long as nobody disturbs it (Daemon.FilesFollow).
THEOREM FilesFollowHolds == Spec => []FilesFollow
<1>1. FilesInv => FilesFollow
  BY DEF FilesInv, Named, FilesFollow, Listening, Stopping
<1> QED BY <1>1, FilesInvHolds, PTL
=============================================================================
