------------------------------ MODULE Registry ------------------------------
(***************************************************************************)
(* The sources of a server: requests that add and remove them or switch    *)
(* the profile, each in a goroutine of its own (a session, an HTTP         *)
(* handler, the autostart at boot); the goroutine of every source; the     *)
(* ingester, which announces a source at its first line; clients that are  *)
(* sent a snapshot and then the events; the idle timer and the shutdown.   *)
(* Source states "closed" and "error" are one, "ended".                    *)
(*                                                                         *)
(* A step is one hold of srcMu, of idleMu or of activeMu, or one broadcast *)
(* to the sessions registered at that moment.  Broadcasts happen outside   *)
(* srcMu, with a state the sender knew before.  A target is what findOpen- *)
(* Source compares, the kind and the name of a source.                     *)
(***************************************************************************)
EXTENDS Integers, FiniteSets, IdleTimer

CONSTANTS
  Workers,      \* goroutines that serve requests
  Clients,      \* connections
  Targets,      \* files and containers
  Profiles,     \* names of profiles
  Declares,     \* [Profiles -> SUBSET Targets]  the sources of each
  NoProfile,    \* the empty name; as an owner, the user
  Kinds,        \* kinds of request
  Scenarios,    \* bounds on a behaviour: the kinds of its requests, how many requests
                \* and connections it has, whether the idle timer is part of it,
                \* and what sources do of their own accord: "lines", "ends"
  MaxIds,       \* bound: source ids given out
  MaxTimers     \* bound that the callbacks of the idle timer never reach

Nobody == "nobody"

ASSUME RegistryAssumption ==
  /\ Targets # {} /\ Nobody \notin Workers
  /\ NoProfile \notin Profiles /\ Declares \in [Profiles -> SUBSET Targets]
  /\ MaxIds \in Nat /\ MaxTimers \in Nat
  /\ Kinds = {"add", "autostart", "remove", "removeQuietly", "activate"}
  /\ \A s \in Scenarios :
       /\ s.kinds \subseteq Kinds /\ s.connects \in Nat /\ s.timers \in BOOLEAN
       /\ s.lively \subseteq {"lines", "ends"} /\ s.requests \in 0 .. MaxIds

VARIABLES
  srcs,       \* [Ids -> record]: Server.srcs, state "none" for an id not in it
  lastId,     \* srcGen
  goroutine,  \* [Ids -> record]: the goroutine of a source
  observing,  \* the source the ingester is about to announce, 0 for none
  work,       \* [Workers -> record]: the request a goroutine is serving
  active,     \* activeProfile, activeProfileSources and who holds activeMu
  client,     \* [Clients -> record]: a connection and what it was told
  timer,      \* the idle timer
  down,       \* how far Shutdown is
  scenario,   \* the bounds of this behaviour
  asked,      \* requests so far
  past        \* history that the properties look at: see Past

moving == <<srcs, lastId, goroutine, observing, work, active, client, timer, down, asked,
            past>>
vars   == <<moving, scenario>>

Ids     == 1 .. MaxIds
Owners  == Profiles \cup {NoProfile}
Source  == [state : {"none", "open", "ended"}, target : Targets, owner : Owners,
            mode : {"none", "text", "json"}]
Request == [pc : {"free", "lock", "next", "find", "attach", "spawn", "announce", "delete",
                  "arm", "tell"},
            kind : Kinds \cup {"none"}, target : Targets, owner : Owners, id : 0 .. MaxIds,
            drop : SUBSET Targets, add : SUBSET Targets]

\* inherited: sources one profile started and a later one declares too;
\* raced: targets two workers found no source of at the same time;
\* excused: sources of which a client has been told wrongly, or not at all.
Past == [inherited : SUBSET Ids, raced : SUBSET Targets, excused : SUBSET Ids]

TypeOK ==
  /\ srcs \in [Ids -> Source] /\ lastId \in 0 .. MaxIds /\ observing \in 0 .. MaxIds
  /\ goroutine \in [Ids -> [pc : {"off", "run", "tell", "arm", "done"}, cancelled : BOOLEAN]]
  /\ work \in [Workers -> Request]
  /\ active \in [profile : Owners, refs : SUBSET Targets, held : Workers \cup {Nobody}]
  /\ client \in [Clients -> [pc : {"away", "counted", "greeted", "known", "live", "left",
                                   "uncounted"},
                             view : [Ids -> {"unknown", "open", "ended"}],
                             connects : Nat]]
  /\ timer \in Timers(MaxTimers)
  /\ down \in {"no", "cancelled", "cleared", "crashed"}
  /\ scenario \in Scenarios /\ asked \in 0 .. scenario.requests /\ past \in Past

Known(id) == srcs[id].state # "none"
Open(id)  == srcs[id].state = "open"

\* sessionCnt: a connection counts from its first step to its last but one.
Counted(c) == client[c].pc \notin {"away", "uncounted"}
ShouldIdle == ~(\E id \in Ids : Open(id)) /\ ~(\E c \in Clients : Counted(c))

Unused == CHOOSE t \in Targets : TRUE
NoRequest == [pc |-> "free", kind |-> "none", target |-> Unused, owner |-> NoProfile,
              id |-> 0, drop |-> {}, add |-> {}]

Init ==
  /\ scenario \in Scenarios
  /\ srcs = [id \in Ids |-> [state |-> "none", target |-> Unused,
                             owner |-> NoProfile, mode |-> "none"]]
  /\ lastId = 0 /\ observing = 0 /\ asked = 0 /\ down = "no"
  /\ goroutine = [id \in Ids |-> [pc |-> "off", cancelled |-> FALSE]]
  /\ work = [w \in Workers |-> NoRequest]
  /\ active = [profile |-> NoProfile, refs |-> {}, held |-> Nobody]
  /\ client = [c \in Clients |-> [pc |-> "away", view |-> [id \in Ids |-> "unknown"],
                                  connects |-> 0]]
  /\ timer = Arm(NewTimer, scenario.timers)
  /\ past = [inherited |-> {}, raced |-> {}, excused |-> {}]

Running == down # "crashed"

Excuse(id, when) == past' = [past EXCEPT !.excused = IF when THEN @ \cup {id} ELSE @]

\* An event reaches the sessions that are registered.  It misleads when it says
\* "open" too late, and misses a session between its snapshot and its registration.
Told(id, state) ==
  /\ client' = [c \in Clients |-> IF client[c].pc = "live"
                                  THEN [client[c] EXCEPT !.view[id] = state] ELSE client[c]]
  /\ Excuse(id, (state = "open" /\ ~Open(id)) \/ \E c \in Clients : client[c].pc = "known")

-----------------------------------------------------------------------------
(* Requests                                                                *)

\* An activation goes on with its next reference.
Done(w) ==
  work' = [work EXCEPT ![w] = IF @.kind = "activate" THEN [@ EXCEPT !.pc = "next", !.id = 0]
                                                     ELSE NoRequest]
To(w, pc) == work' = [work EXCEPT ![w].pc = pc]

Begin(w) ==
  /\ Running /\ work[w].pc = "free" /\ asked < scenario.requests /\ asked' = asked + 1
  /\ UNCHANGED <<srcs, lastId, goroutine, observing, active, client, timer, down, past>>

\* AddFileSource or AddDockerSource, by a session, by HTTP or at boot.
AskAdd(w, t, kind) ==
  /\ kind \in scenario.kinds \cap {"add", "autostart"} /\ Begin(w)
  /\ kind = "autostart" => down = "no" /\ \A v \in Workers : work[v].kind # kind
  /\ work' = [work EXCEPT ![w] = [NoRequest EXCEPT !.pc = "find", !.kind = kind, !.target = t]]

\* RemoveSource, by a session or, without a broadcast, by HTTP.
AskRemove(w, id, kind) ==
  /\ kind \in scenario.kinds \cap {"remove", "removeQuietly"} /\ id <= lastId /\ Begin(w)
  /\ work' = [work EXCEPT ![w] = [NoRequest EXCEPT !.pc = "delete", !.kind = kind, !.id = id]]

AskActivate(w, p) ==
  /\ "activate" \in scenario.kinds /\ Begin(w)
  /\ work' = [work EXCEPT ![w] = [NoRequest EXCEPT !.pc = "lock", !.kind = "activate",
                                                 !.owner = p]]

-----------------------------------------------------------------------------
(* Adding                                                                  *)

\* findOpenSource.  Bug variant: only sources of the same owner.
SameOwner(r) == {id \in Ids : Open(id) /\ srcs[id].target = r.target /\ srcs[id].owner = r.owner}
Same(r) == {id \in Ids : Open(id) /\ srcs[id].target = r.target}

Find(w) ==
  /\ Running /\ work[w].pc = "find"
  /\ LET found == Same(work[w]) IN
       \/ /\ \E id \in found :
               work' = [work EXCEPT ![w].pc = "announce", ![w].id = id]
          /\ UNCHANGED <<lastId, past>>
       \/ /\ found = {} /\ lastId < MaxIds /\ lastId' = lastId + 1
          /\ work' = [work EXCEPT ![w].pc = "attach", ![w].id = lastId + 1]
          /\ past' = IF \E v \in Workers : work[v].pc = "attach" /\ work[v].target = work[w].target
                     THEN [past EXCEPT !.raced = @ \cup {work[w].target}] ELSE past
  /\ UNCHANGED <<srcs, goroutine, observing, active, client, timer, down, asked>>

\* The constructor of a docker source fails.
Fail(w) ==
  /\ Running /\ work[w].pc = "attach" /\ Done(w)
  /\ UNCHANGED <<srcs, lastId, goroutine, observing, active, client, timer, down, asked,
                 past>>

\* Shutdown has set srcs to nil: the write to the map ends the process.
Attach(w) ==
  /\ Running /\ work[w].pc = "attach"
  /\ IF down = "cleared"
       THEN down' = "crashed" /\ UNCHANGED <<srcs, work, past>>
       ELSE /\ srcs' = [srcs EXCEPT ![work[w].id] =
                 [state |-> "open", target |-> work[w].target, owner |-> work[w].owner,
                  mode |-> "none"]]
            /\ To(w, "spawn") /\ UNCHANGED down
            /\ Excuse(work[w].id, work[w].kind = "autostart" /\
                                  \E c \in Clients : client[c].pc \in {"known", "live"})
  /\ UNCHANGED <<lastId, goroutine, observing, active, client, timer, asked>>

\* cancelIdle, and the goroutine of the source.
Spawn(w) ==
  /\ Running /\ work[w].pc = "spawn"
  /\ timer' = Cancel(timer)
  /\ goroutine' = [goroutine EXCEPT ![work[w].id].pc = "run"]
  /\ IF work[w].kind = "autostart" THEN Done(w) ELSE To(w, "announce")
  /\ UNCHANGED <<srcs, lastId, observing, active, client, down, asked, past>>

Announce(w) ==
  /\ Running /\ work[w].pc = "announce"
  /\ IF work[w].kind = "autostart" THEN UNCHANGED <<client, past>>
                                   ELSE Told(work[w].id, "open")
  /\ Done(w)
  /\ UNCHANGED <<srcs, lastId, goroutine, observing, active, timer, down, asked>>

-----------------------------------------------------------------------------
(* Removing                                                                *)

Delete(w) ==
  /\ Running /\ work[w].pc = "delete"
  /\ IF Known(work[w].id)
       THEN srcs' = [srcs EXCEPT ![work[w].id].state = "none"] /\ To(w, "arm")
       ELSE Done(w) /\ UNCHANGED srcs
  /\ Excuse(work[w].id, work[w].kind = "removeQuietly" /\ Known(work[w].id))
  /\ UNCHANGED <<lastId, goroutine, observing, active, client, timer, down, asked>>

\* Bug variant: only a session that removes a source tells of it.
ArmAfterRemoveUntold(w) ==
  /\ Running /\ work[w].pc = "arm"
  /\ goroutine' = [goroutine EXCEPT ![work[w].id].cancelled = TRUE]
  /\ timer' = Arm(timer, scenario.timers /\ ShouldIdle)
  /\ IF work[w].kind = "remove" THEN To(w, "tell") ELSE Done(w)
  /\ UNCHANGED <<srcs, lastId, observing, active, client, down, asked, past>>

\* Close and cancel, then maybeStartIdle.
ArmAfterRemove(w) ==
  /\ Running /\ work[w].pc = "arm"
  /\ goroutine' = [goroutine EXCEPT ![work[w].id].cancelled = TRUE]
  /\ timer' = Arm(timer, scenario.timers /\ ShouldIdle)
  /\ IF work[w].kind = "removeQuietly" THEN Done(w) ELSE To(w, "tell")
  /\ UNCHANGED <<srcs, lastId, observing, active, client, down, asked, past>>

TellRemoved(w) ==
  /\ Running /\ work[w].pc = "tell" /\ Told(work[w].id, "ended") /\ Done(w)
  /\ UNCHANGED <<srcs, lastId, goroutine, observing, active, timer, down, asked>>

-----------------------------------------------------------------------------
(* ActivateProfile                                                         *)

Refs(p) == IF p = NoProfile THEN {} ELSE Declares[p]

\* What goes and what comes, from what the last activation declared.
LockActive(w) ==
  /\ Running /\ work[w].pc = "lock" /\ active.held = Nobody
  /\ active' = [active EXCEPT !.held = w]
  /\ work' = [work EXCEPT ![w].pc = "next", ![w].drop = active.refs \ Refs(work[w].owner),
                          ![w].add = Refs(work[w].owner) \ active.refs]
  /\ UNCHANGED <<srcs, lastId, goroutine, observing, client, timer, down, asked, past>>

\* Bug variants: any open source of the target; the owner is not the one before.
OwnedByAnyone(t) == {id \in Ids : Open(id) /\ srcs[id].target = t}
OwnedByNobody(t) == {id \in Ids : Open(id) /\ srcs[id].target = t /\ srcs[id].owner = NoProfile}

\* Open sources of a target that the profile before started.
Owned(t) == {id \in Ids : Open(id) /\ srcs[id].target = t /\ srcs[id].owner = active.profile}

NextDrop(w) ==
  /\ Running /\ work[w].pc = "next"
  /\ \E t \in work[w].drop :
       \/ \E id \in Owned(t) :
            work' = [work EXCEPT ![w].pc = "delete", ![w].id = id, ![w].drop = @ \ {t}]
       \/ Owned(t) = {} /\ work' = [work EXCEPT ![w].drop = @ \ {t}]
  /\ UNCHANGED <<srcs, lastId, goroutine, observing, active, client, timer, down, asked,
                 past>>

NextAdd(w) ==
  /\ Running /\ work[w].pc = "next" /\ work[w].drop = {}
  /\ \E t \in work[w].add :
       work' = [work EXCEPT ![w].pc = "find", ![w].target = t, ![w].add = @ \ {t}]
  /\ UNCHANGED <<srcs, lastId, goroutine, observing, active, client, timer, down, asked,
                 past>>

\* The switch is recorded; what both profiles declare has changed hands by then.
Activated(w) ==
  /\ Running /\ work[w].pc = "next" /\ work[w].drop = {} /\ work[w].add = {}
  /\ LET p == work[w].owner IN
       /\ active' = [profile |-> p, refs |-> Refs(p), held |-> Nobody]
       /\ past' = [past EXCEPT !.inherited = @ \cup
            {id \in Ids : Open(id) /\ srcs[id].owner \notin {p, NoProfile}
                                   /\ srcs[id].target \in Refs(p)}]
  /\ work' = [work EXCEPT ![w] = NoRequest]
  /\ UNCHANGED <<srcs, lastId, goroutine, observing, client, timer, down, asked>>

Serve(w) ==
  \/ Find(w) \/ Fail(w) \/ Attach(w) \/ Spawn(w) \/ Announce(w)
  \/ Delete(w) \/ ArmAfterRemove(w) \/ TellRemoved(w)
  \/ LockActive(w) \/ NextDrop(w) \/ NextAdd(w) \/ Activated(w)

-----------------------------------------------------------------------------
(* The goroutine of a source, and the ingester                             *)

Stopped(id) == goroutine[id].cancelled \/ down # "no"

\* Bug variant: the end is announced and not recorded.
SourceEndsOpen(id) ==
  /\ Running /\ goroutine[id].pc = "run" /\ ("ends" \in scenario.lively \/ Stopped(id))
  /\ IF Known(id)
       THEN goroutine' = [goroutine EXCEPT ![id].pc = "tell"] /\ UNCHANGED srcs
       ELSE goroutine' = [goroutine EXCEPT ![id].pc = "arm"] /\ UNCHANGED srcs
  /\ UNCHANGED <<lastId, observing, work, active, client, timer, down, asked, past>>

\* Run returns, by itself or because of a removal or the shutdown.
SourceEnds(id) ==
  /\ Running /\ goroutine[id].pc = "run" /\ ("ends" \in scenario.lively \/ Stopped(id))
  /\ IF Known(id)
       THEN /\ srcs' = [srcs EXCEPT ![id].state = "ended"]
            /\ goroutine' = [goroutine EXCEPT ![id].pc = "tell"]
       ELSE goroutine' = [goroutine EXCEPT ![id].pc = "arm"] /\ UNCHANGED srcs
  /\ UNCHANGED <<lastId, observing, work, active, client, timer, down, asked, past>>

SourceTells(id) ==
  /\ Running /\ goroutine[id].pc = "tell"
  /\ Told(id, "ended")
  /\ goroutine' = [goroutine EXCEPT ![id].pc = "arm"]
  /\ UNCHANGED <<srcs, lastId, observing, work, active, timer, down, asked>>

SourceArms(id) ==
  /\ Running /\ goroutine[id].pc = "arm"
  /\ timer' = Arm(timer, scenario.timers /\ ShouldIdle)
  /\ goroutine' = [goroutine EXCEPT ![id].pc = "done"]
  /\ UNCHANGED <<srcs, lastId, observing, work, active, client, down, asked, past>>

\* A line whose mode a source gains is announced, as "open"; json never reverts.
Observe(id, mode) ==
  /\ Running /\ "lines" \in scenario.lively /\ observing = 0 /\ goroutine[id].pc # "off" /\ Known(id)
  /\ <<srcs[id].mode, mode>> \in {<<"none", "text">>, <<"none", "json">>, <<"text", "json">>}
  /\ srcs' = [srcs EXCEPT ![id].mode = mode] /\ observing' = id
  /\ UNCHANGED <<lastId, goroutine, work, active, client, timer, down, asked, past>>

AnnounceMode ==
  /\ Running /\ observing # 0
  /\ Told(observing, "open") /\ observing' = 0
  /\ UNCHANGED <<srcs, lastId, goroutine, work, active, timer, down, asked>>

-----------------------------------------------------------------------------
(* A connection: runSession                                                *)

Connection(c, from, to) ==
  /\ Running /\ client[c].pc = from
  /\ UNCHANGED <<srcs, lastId, goroutine, observing, work, active, down, asked, past>>
  /\ client' = [client EXCEPT ![c].pc = to]

Connect(c) ==
  /\ Running /\ client[c].pc = "away" /\ client[c].connects < scenario.connects /\ down = "no"
  /\ client' = [client EXCEPT ![c].pc = "counted", ![c].connects = @ + 1]
  /\ UNCHANGED <<srcs, lastId, goroutine, observing, work, active, timer, down, asked,
                 past>>

Greet(c) == Connection(c, "counted", "greeted") /\ timer' = Cancel(timer)

\* The snapshot has every source in srcs, whatever its state.
Snapshot(c) ==
  /\ Running /\ client[c].pc = "greeted"
  /\ client' = [client EXCEPT ![c].pc = "known",
       ![c].view = [id \in Ids |-> IF Known(id) THEN srcs[id].state ELSE "unknown"]]
  /\ UNCHANGED <<srcs, lastId, goroutine, observing, work, active, timer, down, asked,
                 past>>

Register(c)   == Connection(c, "known", "live") /\ UNCHANGED timer
Unregister(c) == Connection(c, "live", "left") /\ UNCHANGED timer
Uncount(c)    == Connection(c, "left", "uncounted") /\ UNCHANGED timer

Leave(c) ==
  /\ Running /\ client[c].pc = "uncounted"
  /\ client' = [client EXCEPT ![c].pc = "away", ![c].view = [id \in Ids |-> "unknown"]]
  /\ timer' = Arm(timer, scenario.timers /\ ShouldIdle)
  /\ UNCHANGED <<srcs, lastId, goroutine, observing, work, active, down, asked, past>>

Session(c) == Greet(c) \/ Snapshot(c) \/ Register(c) \/ Uncount(c) \/ Leave(c)

-----------------------------------------------------------------------------
(* The idle timer and the shutdown                                         *)

TimerStep(t) ==
  /\ timer' = t
  /\ UNCHANGED <<srcs, lastId, goroutine, observing, work, active, client, asked, past>>

TimerExpires ==
  /\ Running /\ MayExpire(timer)
  /\ TimerStep(Expire(timer)) /\ UNCHANGED down

FireForgets ==
  /\ Running /\ timer.waiting > 0
  /\ TimerStep(Forget(timer)) /\ UNCHANGED down

FireChecks ==
  /\ Running /\ timer.checking > 0
  /\ TimerStep(Check(timer, ShouldIdle)) /\ UNCHANGED down

\* Shutdown, first its cancel of the context.
FireShutsDown ==
  /\ Running /\ timer.ending > 0
  /\ down' = IF down = "no" THEN "cancelled" ELSE down
  /\ TimerStep([timer EXCEPT !.ending = @ - 1])

\* Then every source is closed and srcs becomes nil.
ClearSources ==
  /\ down = "cancelled" /\ down' = "cleared"
  /\ srcs' = [id \in Ids |-> [srcs[id] EXCEPT !.state = "none"]]
  /\ goroutine' = [id \in Ids |-> IF Known(id) THEN [goroutine[id] EXCEPT !.cancelled = TRUE]
                                               ELSE goroutine[id]]
  /\ UNCHANGED <<lastId, observing, work, active, client, timer, asked, past>>

Fire == FireForgets \/ FireChecks \/ FireShutsDown

Step ==
  \/ \E w \in Workers :
       \/ \E t \in Targets, kind \in {"add", "autostart"} : AskAdd(w, t, kind)
       \/ \E id \in Ids, kind \in {"remove", "removeQuietly"} : AskRemove(w, id, kind)
       \/ \E p \in Owners : AskActivate(w, p)
       \/ Serve(w)
  \/ \E id \in Ids :
       \/ SourceEnds(id) \/ SourceTells(id) \/ SourceArms(id)
       \/ \E mode \in {"text", "json"} : Observe(id, mode)
  \/ AnnounceMode
  \/ \E c \in Clients : Connect(c) \/ Unregister(c) \/ Session(c)
  \/ TimerExpires \/ Fire \/ ClearSources

Next == Step /\ UNCHANGED scenario

Spec == Init /\ [][Next]_vars

\* Goroutines run, timers expire, a source that is told to end does.  Requests and
\* connections need not come, and a source need not end by itself.
Fairness ==
  /\ \A w \in Workers : WF_moving(Serve(w))
  /\ \A id \in Ids :
       /\ WF_moving(Stopped(id) /\ SourceEnds(id))
       /\ WF_moving(SourceTells(id)) /\ WF_moving(SourceArms(id))
  /\ \A c \in Clients : WF_moving(Session(c))
  /\ WF_moving(AnnounceMode) /\ WF_moving(TimerExpires) /\ WF_moving(Fire) /\ WF_moving(ClearSources)

FairSpec == Spec /\ Fairness

-----------------------------------------------------------------------------
(* What must hold                                                          *)

\* No client is told that a source has ended which is open: ends are recorded before
\* they are announced, and an id is never used again (server.go:657-671, 680-693).
NoFalseEnd ==
  \A c \in Clients, id \in Ids :
    client[c].view[id] = "ended" => ~Open(id)

\* A client that is connected lists as open the sources that are open, once all is
\* quiet, unless it was misled in one of four ways: "open" announced for a source
\* that has ended meanwhile, an event between its snapshot and its registration, a
\* removal by HTTP, a source the autostart attaches (server.go:354-355, "so all
\* connected sessions see the same source list").
ListsAgree ==
  (down = "no" /\ observing = 0 /\ (\A w \in Workers : work[w].pc = "free")
     /\ \A id \in Ids : goroutine[id].pc # "tell") =>
    \A c \in Clients, id \in Ids \ past.excused :
      client[c].pc = "live" => (client[c].view[id] = "open" <=> Open(id))

\* A target has one open source: sources are looked for "so re-clicking Add or racing
\* reconnects don't spawn parallel tails of the same target" (server.go:601-604).
OneTailEach ==
  \A i, j \in Ids :
    Open(i) /\ Open(j) /\ srcs[i].target = srcs[j].target => i = j

\* Only workers that race for a target tail it twice: they looked for it before either
\* had attached it.  A profile, a user and an add after an end share one tail.
OnlyRacesDouble ==
  \A i, j \in Ids :
    Open(i) /\ Open(j) /\ srcs[i].target = srcs[j].target =>
      i = j \/ srcs[i].target \in past.raced

\* A profile switch removes nothing that a profile did not start (server.go:332-333).
ManualSurvives ==
  \A w \in Workers :
    work[w].kind = "activate" /\ work[w].pc \in {"delete", "arm", "tell"} =>
      srcs[work[w].id].owner \in Profiles

\* Between activations every open source that a profile started belongs to the active
\* one, or some profile since declared it too (server.go:329-333).
SwitchCleansUp ==
  active.held = Nobody =>
    \A id \in Ids :
      Open(id) /\ srcs[id].owner \in Profiles =>
        srcs[id].owner = active.profile \/ id \in past.inherited

\* Without an active profile nothing is open that a profile started (server.go:335:
\* "tears down anything previously added on behalf of a profile").
NothingLeftOver ==
  active.held = Nobody /\ active.profile = NoProfile =>
    \A id \in Ids : Open(id) => srcs[id].owner = NoProfile

\* A server that stays without sources and clients stops: no order of arrivals and
\* ends leaves it without a timer (server.go:873-929).
ExitsWhenIdle == scenario.timers => []<>(~ShouldIdle) \/ <>(down # "no")

=============================================================================
