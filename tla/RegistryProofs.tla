--------------------------- MODULE RegistryProofs ---------------------------
(***************************************************************************)
(* Proofs about Registry, for every number of workers, clients, targets    *)
(* and profiles: what clients are told, who tails what, and what a switch  *)
(* of the profile leaves.                                                  *)
(***************************************************************************)
EXTENDS Registry, TLAPS

Serving == {"attach", "spawn", "announce", "delete", "arm", "tell"}

\* TypeOK without the number of timers, which is a bound of the instances, and with
\* the ids that sources have and requests are about.
TypeInv ==
  /\ srcs \in [Ids -> Source] /\ lastId \in 0 .. MaxIds /\ observing \in 0 .. MaxIds
  /\ goroutine \in [Ids -> [pc : {"off", "run", "tell", "arm", "done"}, cancelled : BOOLEAN]]
  /\ work \in [Workers -> Request]
  /\ active \in [profile : Owners, refs : SUBSET Targets, held : Workers \cup {Nobody}]
  /\ client \in [Clients -> [pc : {"away", "counted", "greeted", "known", "live", "left",
                                   "uncounted"},
                             view : [Ids -> {"unknown", "open", "ended"}],
                             connects : Nat]]
  /\ down \in {"no", "cancelled", "cleared", "crashed"} /\ past \in Past
  /\ \A id \in Ids : Known(id) => id <= lastId
  /\ \A w \in Workers : IF work[w].pc \in Serving THEN work[w].id \in 1 .. lastId ELSE work[w].id = 0

\* An id that has been given out to nobody, or to a worker that has not yet attached
\* the source.
Unborn(id) == id > lastId \/ \E w \in Workers : work[w].pc = "attach" /\ work[w].id = id

\* Nobody has heard of such an id, but for a request that removes by guess.
Unheard ==
  /\ \A id \in Ids : Unborn(id) =>
       /\ ~Known(id) /\ goroutine[id].pc = "off" /\ observing # id
       /\ \A c \in Clients : client[c].view[id] = "unknown"
  /\ \A v, w \in Workers : v # w /\ work[w].pc = "attach" /\ work[v].id = work[w].id =>
       work[v].pc = "delete" /\ work[v].kind # "activate"

\* An end that is going to be announced has happened.
EndsTrue ==
  /\ \A w \in Workers : work[w].pc \in {"arm", "tell"} => ~Open(work[w].id)
  /\ \A id \in Ids : goroutine[id].pc = "tell" => ~Open(id)

EndInv == Unheard /\ EndsTrue /\ NoFalseEnd

\* Two workers that attach the same target, or one beside an open source, have raced.
TailInv ==
  /\ \A v, w \in Workers :
       v # w /\ work[v].pc = "attach" /\ work[w].pc = "attach" /\ work[v].target = work[w].target
         => work[v].target \in past.raced
  /\ \A w \in Workers, id \in Ids :
       work[w].pc = "attach" /\ Open(id) /\ srcs[id].target = work[w].target
         => work[w].target \in past.raced
  /\ OnlyRacesDouble

\* activeMu: who holds it, and what an activation works on.
Switching(w) == work[w].kind = "activate" /\ work[w].pc # "lock"
SwitchOf(w) ==
  /\ Switching(w) <=> active.held = w
  /\ work[w].kind = "none" <=> work[w].pc = "free"
  /\ work[w].kind # "activate" => work[w].owner = NoProfile
  /\ work[w].kind # "activate" => work[w].pc \notin {"lock", "next"}
  /\ Switching(w) => work[w].drop \subseteq active.refs /\ work[w].add \subseteq Refs(work[w].owner)
  /\ Switching(w) /\ work[w].pc \in {"find", "attach"} => work[w].target \in Refs(work[w].owner)
  /\ work[w].kind = "activate" /\ work[w].pc \in {"delete", "arm", "tell"} =>
       srcs[work[w].id].owner \in Profiles
SwitchInv ==
  /\ active.refs = Refs(active.profile)
  /\ \A w \in Workers : SwitchOf(w)
  /\ \A id \in Ids : Open(id) /\ srcs[id].owner \in Profiles =>
       srcs[id].target \in Declares[srcs[id].owner]

\* A profile has one open source of a target at most.
OneOwned ==
  /\ \A i, j \in Ids :
       Open(i) /\ Open(j) /\ srcs[i].target = srcs[j].target /\ srcs[i].owner \in Profiles
         /\ srcs[j].owner \in Profiles /\ srcs[i].owner = srcs[j].owner => i = j
  /\ \A w \in Workers, id \in Ids :
       work[w].pc = "attach" /\ Switching(w) /\ Open(id) /\ srcs[id].owner \in Profiles
         => srcs[id].target # work[w].target

\* While a switch runs, what the profile before started and the next does not declare
\* is still to be dropped, or about to be deleted.
Dropping ==
  /\ \A id \in Ids : Open(id) /\ srcs[id].owner \in Profiles =>
       \/ srcs[id].owner = active.profile \/ id \in past.inherited
       \/ \E w \in Workers : active.held = w /\ srcs[id].owner = work[w].owner
  /\ \A w \in Workers, id \in Ids :
       Switching(w) /\ Open(id) /\ srcs[id].owner \in Profiles /\ srcs[id].owner = active.profile
         /\ srcs[id].owner # work[w].owner /\ srcs[id].target \notin Refs(work[w].owner) =>
           srcs[id].target \in work[w].drop \/ (work[w].pc = "delete" /\ work[w].id = id)

CleanInv == SwitchInv /\ OneOwned /\ Dropping

\* A client that does not know of a source, or of an end, is about to be told.
TellsOpen(id) == \E w \in Workers : /\ work[w].id = id /\ work[w].pc \in {"spawn", "announce"}
                                    /\ work[w].kind # "autostart"
TellsEnd(id)  == \/ goroutine[id].pc = "tell"
                 \/ \E w \in Workers : /\ work[w].id = id /\ work[w].pc \in {"arm", "tell"}
                                       /\ work[w].kind # "removeQuietly"

\* The goroutine of a source is spawned once, by the worker that attached it.
SpawnInv ==
  \A w \in Workers : work[w].pc = "spawn" =>
    /\ goroutine[work[w].id].pc = "off"
    /\ \A v \in Workers : v # w /\ work[v].id = work[w].id => work[v].pc # "spawn"

\* Until the shutdown, a client lists what is open, or is about to be told.
ListInv ==
  down = "no" =>
    \A c \in Clients, id \in Ids \ past.excused : client[c].pc \in {"known", "live"} =>
      /\ client[c].view[id] = "open" => Open(id) \/ TellsEnd(id)
      /\ Open(id) => client[c].view[id] = "open" \/ TellsOpen(id)

-----------------------------------------------------------------------------
(* What the steps do to requests                                           *)

Pcs == {"free", "lock", "next", "find", "attach", "spawn", "announce", "delete", "arm", "tell"}

\* The request of a free worker is one.
LEMMA NoRequestTyped == NoRequest \in Request
BY RegistryAssumption DEF NoRequest, Request, Unused, Owners

\* A worker that goes on keeps what its request is about.
LEMMA ToFields ==
  ASSUME TypeInv, NEW w \in Workers, NEW pc \in Pcs, To(w, pc)
  PROVE  /\ work' \in [Workers -> Request] /\ \A v \in Workers \ {w} : work'[v] = work[v]
         /\ work'[w].pc = pc /\ work'[w].kind = work[w].kind /\ work'[w].target = work[w].target
         /\ work'[w].owner = work[w].owner /\ work'[w].id = work[w].id
         /\ work'[w].drop = work[w].drop /\ work'[w].add = work[w].add
<1>1. work \in [Workers -> Request] /\ work[w] \in Request
  BY DEF TypeInv
<1>2. [work[w] EXCEPT !.pc = pc] \in Request
  BY <1>1 DEF Request, Pcs
<1>3. work' = [work EXCEPT ![w] = [work[w] EXCEPT !.pc = pc]]
  BY DEF To
<1>4. work' \in [Workers -> Request] /\ \A v \in Workers \ {w} : work'[v] = work[v]
  BY <1>1, <1>2, <1>3
<1>5. work'[w] = [work[w] EXCEPT !.pc = pc]
  BY <1>1, <1>3
<1> QED BY <1>1, <1>4, <1>5 DEF Request

\* A worker that is done with a source goes on with its activation, or is free.
LEMMA DoneFields ==
  ASSUME TypeInv, NEW w \in Workers, Done(w)
  PROVE  /\ work' \in [Workers -> Request] /\ \A v \in Workers \ {w} : work'[v] = work[v]
         /\ work'[w].id = 0
         /\ IF work[w].kind = "activate"
              THEN /\ work'[w].pc = "next" /\ work'[w].kind = "activate"
                   /\ work'[w].target = work[w].target /\ work'[w].owner = work[w].owner
                   /\ work'[w].drop = work[w].drop /\ work'[w].add = work[w].add
              ELSE work'[w] = NoRequest
<1>1. work \in [Workers -> Request] /\ work[w] \in Request
  BY DEF TypeInv
<1>2. CASE work[w].kind = "activate"
  <2>1. 0 \in 0 .. MaxIds
    BY RegistryAssumption
  <2>2. [work[w] EXCEPT !.pc = "next", !.id = 0] \in Request
    BY <1>1, <2>1 DEF Request
  <2>3. work' = [work EXCEPT ![w] = [work[w] EXCEPT !.pc = "next", !.id = 0]]
    BY <1>2 DEF Done
  <2>4. work'[w] = [work[w] EXCEPT !.pc = "next", !.id = 0]
    BY <1>1, <2>3
  <2>5. work' \in [Workers -> Request] /\ \A v \in Workers \ {w} : work'[v] = work[v]
    BY <1>1, <2>2, <2>3
  <2> QED BY <1>1, <1>2, <2>4, <2>5 DEF Request
<1>3. CASE work[w].kind # "activate"
  <2>1. work' = [work EXCEPT ![w] = NoRequest]
    BY <1>3 DEF Done
  <2> QED BY <1>1, <1>3, <2>1, NoRequestTyped DEF NoRequest
<1> QED BY <1>2, <1>3

\* A request begins.
LEMMA AskFields ==
  ASSUME TypeInv, NEW w \in Workers
  PROVE  /\ \A t \in Targets, kind \in {"add", "autostart"} : AskAdd(w, t, kind) =>
              /\ work' \in [Workers -> Request] /\ \A v \in Workers \ {w} : work'[v] = work[v]
              /\ work'[w].pc = "find" /\ work'[w].kind = kind /\ work'[w].target = t
              /\ work'[w].owner = NoProfile /\ work'[w].id = 0
         /\ \A id \in Ids, kind \in {"remove", "removeQuietly"} : AskRemove(w, id, kind) =>
              /\ work' \in [Workers -> Request] /\ \A v \in Workers \ {w} : work'[v] = work[v]
              /\ work'[w].pc = "delete" /\ work'[w].kind = kind /\ work'[w].id = id
              /\ work'[w].owner = NoProfile /\ id <= lastId
         /\ \A p \in Owners : AskActivate(w, p) =>
              /\ work' \in [Workers -> Request] /\ \A v \in Workers \ {w} : work'[v] = work[v]
              /\ work'[w].pc = "lock" /\ work'[w].kind = "activate" /\ work'[w].owner = p
              /\ work'[w].id = 0
<1>1. work \in [Workers -> Request] /\ NoRequest \in Request /\ NoProfile \in Owners
  BY NoRequestTyped DEF TypeInv, Owners
<1>2. ASSUME NEW t \in Targets, NEW kind \in {"add", "autostart"}, AskAdd(w, t, kind)
      PROVE  /\ work' \in [Workers -> Request] /\ \A v \in Workers \ {w} : work'[v] = work[v]
             /\ work'[w].pc = "find" /\ work'[w].kind = kind /\ work'[w].target = t
             /\ work'[w].owner = NoProfile /\ work'[w].id = 0
  <2>1. [NoRequest EXCEPT !.pc = "find", !.kind = kind, !.target = t] \in Request
    BY <1>1, RegistryAssumption DEF NoRequest, Request
  <2> QED BY <1>1, <1>2, <2>1 DEF AskAdd, NoRequest
<1>3. ASSUME NEW id \in Ids, NEW kind \in {"remove", "removeQuietly"}, AskRemove(w, id, kind)
      PROVE  /\ work' \in [Workers -> Request] /\ \A v \in Workers \ {w} : work'[v] = work[v]
             /\ work'[w].pc = "delete" /\ work'[w].kind = kind /\ work'[w].id = id
             /\ work'[w].owner = NoProfile /\ id <= lastId
  <2>1. id \in 0 .. MaxIds
    BY RegistryAssumption DEF Ids
  <2>2. [NoRequest EXCEPT !.pc = "delete", !.kind = kind, !.id = id] \in Request
    BY <1>1, <2>1, RegistryAssumption DEF NoRequest, Request
  <2> QED BY <1>1, <1>3, <2>2 DEF AskRemove, NoRequest
<1>4. ASSUME NEW p \in Owners, AskActivate(w, p)
      PROVE  /\ work' \in [Workers -> Request] /\ \A v \in Workers \ {w} : work'[v] = work[v]
             /\ work'[w].pc = "lock" /\ work'[w].kind = "activate" /\ work'[w].owner = p
             /\ work'[w].id = 0
  <2>1. [NoRequest EXCEPT !.pc = "lock", !.kind = "activate", !.owner = p] \in Request
    BY <1>1, RegistryAssumption DEF NoRequest, Request
  <2> QED BY <1>1, <1>4, <2>1 DEF AskActivate, NoRequest
<1> QED BY <1>2, <1>3, <1>4

\* A worker looks for an open source of its target, or gives a new id out.
LEMMA FindFields ==
  ASSUME TypeInv, NEW w \in Workers, Find(w)
  PROVE  /\ work' \in [Workers -> Request] /\ \A v \in Workers \ {w} : work'[v] = work[v]
         /\ work'[w].kind = work[w].kind /\ work'[w].target = work[w].target
         /\ work'[w].owner = work[w].owner
         /\ work'[w].drop = work[w].drop /\ work'[w].add = work[w].add
         /\ \/ /\ work'[w].pc = "announce" /\ work'[w].id \in Ids /\ Open(work'[w].id)
               /\ UNCHANGED <<lastId, past>>
            \/ /\ work'[w].pc = "attach" /\ work'[w].id = lastId + 1 /\ lastId' = lastId + 1
               /\ lastId < MaxIds /\ Same(work[w]) = {}
               /\ past' = IF \E v \in Workers : work[v].pc = "attach" /\ work[v].target = work[w].target
                          THEN [past EXCEPT !.raced = @ \cup {work[w].target}] ELSE past
<1>1. work \in [Workers -> Request] /\ work[w] \in Request
  BY DEF TypeInv
<1>2. ASSUME NEW id \in 0 .. MaxIds, NEW pc \in {"announce", "attach"},
             work' = [work EXCEPT ![w].pc = pc, ![w].id = id]
      PROVE  /\ work' \in [Workers -> Request] /\ \A v \in Workers \ {w} : work'[v] = work[v]
             /\ work'[w].pc = pc /\ work'[w].id = id
             /\ work'[w].kind = work[w].kind /\ work'[w].target = work[w].target
             /\ work'[w].owner = work[w].owner
             /\ work'[w].drop = work[w].drop /\ work'[w].add = work[w].add
  <2>1. [work[w] EXCEPT !.pc = pc, !.id = id] \in Request
    BY <1>1 DEF Request
  <2>2. work'[w] = [work[w] EXCEPT !.pc = pc, !.id = id]
    BY <1>1, <1>2
  <2>3. work' \in [Workers -> Request] /\ \A v \in Workers \ {w} : work'[v] = work[v]
    BY <1>1, <1>2, <2>1
  <2> QED BY <1>1, <2>2, <2>3 DEF Request
<1>3. CASE \E id \in Same(work[w]) : /\ work' = [work EXCEPT ![w].pc = "announce", ![w].id = id]
                                     /\ UNCHANGED <<lastId, past>>
  <2>1. PICK id \in Same(work[w]) : /\ work' = [work EXCEPT ![w].pc = "announce", ![w].id = id]
                                    /\ UNCHANGED <<lastId, past>>
    BY <1>3
  <2>2. id \in Ids /\ Open(id)
    BY DEF Same
  <2>3. id \in 0 .. MaxIds
    BY <2>2, RegistryAssumption DEF Ids
  <2> QED BY <1>2, <2>1, <2>2, <2>3
<1>4. CASE /\ Same(work[w]) = {} /\ lastId < MaxIds /\ lastId' = lastId + 1
           /\ work' = [work EXCEPT ![w].pc = "attach", ![w].id = lastId + 1]
  <2>1. lastId + 1 \in 0 .. MaxIds
    BY <1>4, RegistryAssumption DEF TypeInv
  <2> QED BY <1>2, <1>4, <2>1, Find(w) DEF Find
<1> QED BY <1>3, <1>4 DEF Find

\* An activation takes the lock, goes through what it drops and adds, and ends.
LEMMA SwitchFields ==
  ASSUME TypeInv, NEW w \in Workers
  PROVE  /\ LockActive(w) =>
              /\ work' \in [Workers -> Request] /\ \A v \in Workers \ {w} : work'[v] = work[v]
              /\ work'[w].pc = "next" /\ work'[w].kind = work[w].kind /\ work'[w].id = work[w].id
              /\ work'[w].owner = work[w].owner
              /\ work'[w].drop = active.refs \ Refs(work[w].owner)
              /\ work'[w].add = Refs(work[w].owner) \ active.refs
         /\ NextDrop(w) => \E t \in work[w].drop :
              /\ work' \in [Workers -> Request] /\ \A v \in Workers \ {w} : work'[v] = work[v]
              /\ work'[w].kind = work[w].kind /\ work'[w].owner = work[w].owner
              /\ work'[w].drop = work[w].drop \ {t} /\ work'[w].add = work[w].add
              /\ \/ work'[w].pc = "delete" /\ work'[w].id \in Owned(t)
                 \/ Owned(t) = {} /\ work'[w].pc = "next" /\ work'[w].id = work[w].id
         /\ NextAdd(w) => \E t \in work[w].add :
              /\ work' \in [Workers -> Request] /\ \A v \in Workers \ {w} : work'[v] = work[v]
              /\ work'[w].kind = work[w].kind /\ work'[w].owner = work[w].owner
              /\ work'[w].drop = work[w].drop /\ work'[w].add = work[w].add \ {t}
              /\ work'[w].pc = "find" /\ work'[w].target = t /\ work'[w].id = work[w].id
         /\ Activated(w) =>
              /\ work' \in [Workers -> Request] /\ \A v \in Workers \ {w} : work'[v] = work[v]
              /\ work'[w] = NoRequest
<1>1. /\ work \in [Workers -> Request] /\ work[w] \in Request /\ active.refs \in SUBSET Targets
      /\ Refs(work[w].owner) \in SUBSET Targets
  BY RegistryAssumption DEF TypeInv, Request, Refs, Owners
<1>2. ASSUME NEW r \in Request, work' = [work EXCEPT ![w] = r]
      PROVE  /\ work' \in [Workers -> Request] /\ \A v \in Workers \ {w} : work'[v] = work[v]
             /\ work'[w] = r
  BY <1>1, <1>2
<1>3. ASSUME LockActive(w)
      PROVE  /\ work' \in [Workers -> Request] /\ \A v \in Workers \ {w} : work'[v] = work[v]
             /\ work'[w].pc = "next" /\ work'[w].kind = work[w].kind /\ work'[w].id = work[w].id
             /\ work'[w].owner = work[w].owner
             /\ work'[w].drop = active.refs \ Refs(work[w].owner)
             /\ work'[w].add = Refs(work[w].owner) \ active.refs
  <2> DEFINE r == [work[w] EXCEPT !.pc = "next", !.drop = active.refs \ Refs(work[w].owner),
                                  !.add = Refs(work[w].owner) \ active.refs]
  <2>1. r \in Request
    BY <1>1 DEF Request
  <2>2. work' = [work EXCEPT ![w] = r]
    BY <1>3 DEF LockActive
  <2>3. /\ work' \in [Workers -> Request] /\ \A v \in Workers \ {w} : work'[v] = work[v]
        /\ work'[w] = r
    BY <1>2, <2>1, <2>2
  <2> QED BY <1>1, <2>3 DEF Request
<1>4. ASSUME NextDrop(w)
      PROVE  \E t \in work[w].drop :
              /\ work' \in [Workers -> Request] /\ \A v \in Workers \ {w} : work'[v] = work[v]
              /\ work'[w].kind = work[w].kind /\ work'[w].owner = work[w].owner
              /\ work'[w].drop = work[w].drop \ {t} /\ work'[w].add = work[w].add
              /\ \/ work'[w].pc = "delete" /\ work'[w].id \in Owned(t)
                 \/ Owned(t) = {} /\ work'[w].pc = "next" /\ work'[w].id = work[w].id
  <2>1. PICK t \in work[w].drop :
          \/ \E id \in Owned(t) :
               work' = [work EXCEPT ![w].pc = "delete", ![w].id = id, ![w].drop = @ \ {t}]
          \/ Owned(t) = {} /\ work' = [work EXCEPT ![w].drop = @ \ {t}]
    BY <1>4 DEF NextDrop
  <2>2. ASSUME NEW id \in Owned(t),
               work' = [work EXCEPT ![w].pc = "delete", ![w].id = id, ![w].drop = @ \ {t}]
        PROVE  /\ work' \in [Workers -> Request] /\ \A v \in Workers \ {w} : work'[v] = work[v]
               /\ work'[w].kind = work[w].kind /\ work'[w].owner = work[w].owner
               /\ work'[w].drop = work[w].drop \ {t} /\ work'[w].add = work[w].add
               /\ work'[w].pc = "delete" /\ work'[w].id = id
    <3> DEFINE r == [work[w] EXCEPT !.pc = "delete", !.id = id, !.drop = @ \ {t}]
    <3>1. id \in 0 .. MaxIds
      BY RegistryAssumption DEF Owned, Ids
    <3>2. r \in Request
      BY <1>1, <3>1 DEF Request
    <3>3. work' = [work EXCEPT ![w] = r]
      BY <2>2
    <3>4. /\ work' \in [Workers -> Request] /\ \A v \in Workers \ {w} : work'[v] = work[v]
          /\ work'[w] = r
      BY <1>2, <3>2, <3>3
    <3> QED BY <1>1, <3>4 DEF Request
  <2>3. ASSUME work' = [work EXCEPT ![w].drop = @ \ {t}]
        PROVE  /\ work' \in [Workers -> Request] /\ \A v \in Workers \ {w} : work'[v] = work[v]
               /\ work'[w].kind = work[w].kind /\ work'[w].owner = work[w].owner
               /\ work'[w].drop = work[w].drop \ {t} /\ work'[w].add = work[w].add
               /\ work'[w].pc = work[w].pc /\ work'[w].id = work[w].id
    <3> DEFINE r == [work[w] EXCEPT !.drop = @ \ {t}]
    <3>1. r \in Request
      BY <1>1 DEF Request
    <3>2. work' = [work EXCEPT ![w] = r]
      BY <2>3
    <3>3. /\ work' \in [Workers -> Request] /\ \A v \in Workers \ {w} : work'[v] = work[v]
          /\ work'[w] = r
      BY <1>2, <3>1, <3>2
    <3> QED BY <1>1, <3>3 DEF Request
  <2>4. work[w].pc = "next"
    BY <1>4 DEF NextDrop
  <2> QED BY <2>1, <2>2, <2>3, <2>4
<1>5. ASSUME NextAdd(w)
      PROVE  \E t \in work[w].add :
              /\ work' \in [Workers -> Request] /\ \A v \in Workers \ {w} : work'[v] = work[v]
              /\ work'[w].kind = work[w].kind /\ work'[w].owner = work[w].owner
              /\ work'[w].drop = work[w].drop /\ work'[w].add = work[w].add \ {t}
              /\ work'[w].pc = "find" /\ work'[w].target = t /\ work'[w].id = work[w].id
  <2>1. PICK t \in work[w].add :
          work' = [work EXCEPT ![w].pc = "find", ![w].target = t, ![w].add = @ \ {t}]
    BY <1>5 DEF NextAdd
  <2> DEFINE r == [work[w] EXCEPT !.pc = "find", !.target = t, !.add = @ \ {t}]
  <2>2. r \in Request
    BY <1>1 DEF Request
  <2>3. work' = [work EXCEPT ![w] = r]
    BY <2>1
  <2>4. /\ work' \in [Workers -> Request] /\ \A v \in Workers \ {w} : work'[v] = work[v]
        /\ work'[w] = r
    BY <1>2, <2>2, <2>3
  <2> QED BY <1>1, <2>4 DEF Request
<1>6. ASSUME Activated(w)
      PROVE  /\ work' \in [Workers -> Request] /\ \A v \in Workers \ {w} : work'[v] = work[v]
             /\ work'[w] = NoRequest
  BY <1>2, <1>6, NoRequestTyped DEF Activated
<1> QED BY <1>3, <1>4, <1>5, <1>6

-----------------------------------------------------------------------------
(* What a step does to each variable                                       *)

\* A source changes its state but for its birth: it never opens again, and keeps its
\* target and its owner.
Lives(id) ==
  /\ srcs'[id].target = srcs[id].target /\ srcs'[id].owner = srcs[id].owner
  /\ srcs'[id].state = srcs[id].state \/ (srcs'[id].state # "open" /\ (Known(id)' => Known(id)))
Birth(w, id) ==
  /\ Attach(w) /\ down # "cleared" /\ work[w].id = id /\ UNCHANGED down
  /\ srcs'[id].state = "open" /\ srcs'[id].target = work[w].target
  /\ srcs'[id].owner = work[w].owner

\* A worker is busy with an id that has been given out.
LEMMA ServedIds ==
  ASSUME TypeInv, NEW w \in Workers, work[w].pc \in Serving
  PROVE  work[w].id \in Ids /\ work[w].id <= lastId
<1>1. work[w].id \in 1 .. lastId /\ lastId \in 0 .. MaxIds
  BY DEF TypeInv
<1> QED BY <1>1, RegistryAssumption DEF Ids

\* The steps that change what is known of a source.
LEMMA SourcesChange ==
  ASSUME Step
  PROVE  \/ UNCHANGED srcs \/ ClearSources
         \/ \E w \in Workers : Attach(w) \/ Delete(w)
         \/ \E id \in Ids : SourceEnds(id) \/ \E mode \in {"text", "json"} : Observe(id, mode)
BY Step DEF Step, Serve, Begin, AskAdd, AskRemove, AskActivate, Find, Fail, Spawn, Announce,
   ArmAfterRemove, TellRemoved, LockActive, NextDrop, NextAdd, Activated, SourceTells, SourceArms,
   AnnounceMode, Connect, Connection, Greet, Snapshot, Register, Unregister, Uncount, Leave,
   Session, TimerStep, TimerExpires, FireForgets, FireChecks, FireShutsDown, Fire

\* A source is born in Attach; all else that happens to it, it survives unopened.
LEMMA Sources ==
  ASSUME TypeInv, Step
  PROVE  /\ srcs' \in [Ids -> Source]
         /\ \A id \in Ids : Lives(id) \/ \E w \in Workers : Birth(w, id)
<1>1. /\ srcs \in [Ids -> Source] /\ \A id \in Ids : srcs[id] \in Source
      /\ work \in [Workers -> Request] /\ \A w \in Workers : work[w] \in Request
  BY DEF TypeInv
<1>2. ASSUME NEW id \in Ids, NEW r \in Source, srcs' = [srcs EXCEPT ![id] = r],
             r.target = srcs[id].target, r.owner = srcs[id].owner,
             r.state = srcs[id].state \/ (r.state # "open" /\ (r.state # "none" => Known(id)))
      PROVE  srcs' \in [Ids -> Source] /\ \A i \in Ids : Lives(i)
  <2>1. /\ srcs' \in [Ids -> Source] /\ srcs'[id] = r
        /\ \A i \in Ids \ {id} : srcs'[i] = srcs[i]
    BY <1>1, <1>2
  <2>2. Lives(id)
    BY <1>2, <2>1 DEF Lives, Known
  <2> QED BY <2>1, <2>2 DEF Lives
<1>3. ASSUME NEW w \in Workers, Attach(w)
      PROVE  /\ srcs' \in [Ids -> Source]
             /\ \A id \in Ids : Lives(id) \/ Birth(w, id)
  <2>1. CASE down = "cleared"
    BY <1>1, <1>3, <2>1 DEF Attach, Lives
  <2>2. CASE down # "cleared"
    <3> DEFINE r == [state |-> "open", target |-> work[w].target, owner |-> work[w].owner,
                     mode |-> "none"]
    <3>1. r \in Source
      BY <1>1 DEF Source, Request
    <3>2. srcs' = [srcs EXCEPT ![work[w].id] = r] /\ UNCHANGED down
      BY <1>3, <2>2 DEF Attach
    <3>3. srcs' \in [Ids -> Source] /\ \A id \in Ids : srcs'[id] = IF id = work[w].id THEN r ELSE srcs[id]
      BY <1>1, <3>1, <3>2
    <3> QED BY <1>3, <2>2, <3>2, <3>3 DEF Lives, Birth
  <2> QED BY <2>1, <2>2
<1>4. ASSUME NEW w \in Workers, Delete(w)
      PROVE  srcs' \in [Ids -> Source] /\ \A i \in Ids : Lives(i)
  <2>1. CASE Known(work[w].id)
    <3>1. work[w].id \in Ids
      BY <1>4, ServedIds DEF Delete, Serving
    <3> DEFINE r == [srcs[work[w].id] EXCEPT !.state = "none"]
    <3>2. /\ r \in Source /\ r.state = "none" /\ r.target = srcs[work[w].id].target
          /\ r.owner = srcs[work[w].id].owner
      BY <1>1, <3>1 DEF Source
    <3>3. srcs' = [srcs EXCEPT ![work[w].id] = r]
      BY <1>4, <2>1 DEF Delete
    <3> QED BY <1>2, <3>1, <3>2, <3>3
  <2>2. CASE ~Known(work[w].id)
    BY <1>1, <1>4, <2>2 DEF Delete, Lives
  <2> QED BY <2>1, <2>2
<1>5. ASSUME NEW id \in Ids, SourceEnds(id)
      PROVE  srcs' \in [Ids -> Source] /\ \A i \in Ids : Lives(i)
  <2>1. CASE Known(id)
    <3> DEFINE r == [srcs[id] EXCEPT !.state = "ended"]
    <3>2. r \in Source /\ r.state = "ended" /\ r.target = srcs[id].target /\ r.owner = srcs[id].owner
      BY <1>1 DEF Source
    <3>3. srcs' = [srcs EXCEPT ![id] = r]
      BY <1>5, <2>1 DEF SourceEnds
    <3> QED BY <1>2, <2>1, <3>2, <3>3
  <2>2. CASE ~Known(id)
    BY <1>1, <1>5, <2>2 DEF SourceEnds, Lives
  <2> QED BY <2>1, <2>2
<1>6. ASSUME NEW id \in Ids, NEW mode \in {"text", "json"}, Observe(id, mode)
      PROVE  srcs' \in [Ids -> Source] /\ \A i \in Ids : Lives(i)
  <2> DEFINE r == [srcs[id] EXCEPT !.mode = mode]
  <2>1. /\ r \in Source /\ r.state = srcs[id].state /\ r.target = srcs[id].target
        /\ r.owner = srcs[id].owner
    BY <1>1 DEF Source
  <2>2. srcs' = [srcs EXCEPT ![id] = r]
    BY <1>6 DEF Observe
  <2> QED BY <1>2, <2>1, <2>2
<1>7. ASSUME ClearSources
      PROVE  srcs' \in [Ids -> Source] /\ \A i \in Ids : Lives(i)
  <2>1. srcs' = [id \in Ids |-> [srcs[id] EXCEPT !.state = "none"]]
    BY <1>7 DEF ClearSources
  <2>2. ASSUME NEW id \in Ids
        PROVE  srcs'[id] \in Source /\ Lives(id)
    <3> DEFINE r == [srcs[id] EXCEPT !.state = "none"]
    <3>1. r \in Source /\ r.state = "none" /\ r.target = srcs[id].target /\ r.owner = srcs[id].owner
      BY <1>1 DEF Source
    <3>2. srcs'[id] = r
      BY <2>1
    <3> QED BY <3>1, <3>2 DEF Lives, Known
  <2> QED BY <2>1, <2>2
<1>8. ASSUME UNCHANGED srcs
      PROVE  srcs' \in [Ids -> Source] /\ \A i \in Ids : Lives(i)
  BY <1>1, <1>8 DEF Lives
<1> QED BY <1>3, <1>4, <1>5, <1>6, <1>7, <1>8, SourcesChange

\* The goroutine of a source: it runs once it is spawned, ends once, tells once.
LEMMA Goroutines ==
  ASSUME TypeInv, Step
  PROVE  /\ goroutine' \in [Ids -> [pc : {"off", "run", "tell", "arm", "done"}, cancelled : BOOLEAN]]
         /\ \A id \in Ids :
              \/ goroutine'[id].pc = goroutine[id].pc
              \/ goroutine'[id].pc = "run" /\ \E w \in Workers : Spawn(w) /\ work[w].id = id
              \/ goroutine'[id].pc = "tell" /\ SourceEnds(id) /\ Known(id)
              \/ goroutine'[id].pc = "arm" /\ SourceEnds(id) /\ ~Known(id)
              \/ goroutine'[id].pc = "arm" /\ SourceTells(id)
              \/ goroutine'[id].pc = "done" /\ SourceArms(id)
<1> DEFINE G == [pc : {"off", "run", "tell", "arm", "done"}, cancelled : BOOLEAN]
<1>1. goroutine \in [Ids -> G] /\ \A id \in Ids : goroutine[id] \in G
  BY DEF TypeInv
<1>2. ASSUME NEW id \in Ids, NEW pc \in {"off", "run", "tell", "arm", "done"},
             goroutine' = [goroutine EXCEPT ![id].pc = pc]
      PROVE  /\ goroutine' \in [Ids -> G] /\ goroutine'[id].pc = pc
             /\ \A i \in Ids \ {id} : goroutine'[i] = goroutine[i]
  <2> DEFINE r == [goroutine[id] EXCEPT !.pc = pc]
  <2>1. r \in G /\ r.pc = pc
    BY <1>1
  <2>2. goroutine' = [goroutine EXCEPT ![id] = r]
    BY <1>2
  <2> HIDE DEF r
  <2> QED BY <1>1, <2>1, <2>2
<1>3. ASSUME NEW w \in Workers, Spawn(w)
      PROVE  /\ goroutine' \in [Ids -> G] /\ work[w].id \in Ids /\ goroutine'[work[w].id].pc = "run"
             /\ \A i \in Ids \ {work[w].id} : goroutine'[i] = goroutine[i]
  <2>1. work[w].id \in Ids
    BY <1>3, ServedIds DEF Spawn, Serving
  <2> QED BY <1>2, <1>3, <2>1 DEF Spawn
<1>4. ASSUME NEW w \in Workers, ArmAfterRemove(w)
      PROVE  goroutine' \in [Ids -> G] /\ \A i \in Ids : goroutine'[i].pc = goroutine[i].pc
  <2>1. work[w].id \in Ids
    BY <1>4, ServedIds DEF ArmAfterRemove, Serving
  <2> DEFINE r == [goroutine[work[w].id] EXCEPT !.cancelled = TRUE]
  <2>2. r \in G /\ r.pc = goroutine[work[w].id].pc
    BY <1>1, <2>1
  <2>3. goroutine' = [goroutine EXCEPT ![work[w].id] = r]
    BY <1>4 DEF ArmAfterRemove
  <2> HIDE DEF r
  <2> QED BY <1>1, <2>1, <2>2, <2>3
<1>5. ASSUME NEW id \in Ids, SourceEnds(id)
      PROVE  /\ goroutine' \in [Ids -> G]
             /\ goroutine'[id].pc = IF Known(id) THEN "tell" ELSE "arm"
             /\ \A i \in Ids \ {id} : goroutine'[i] = goroutine[i]
  BY <1>2, <1>5 DEF SourceEnds
<1>6. ASSUME NEW id \in Ids, SourceTells(id)
      PROVE  /\ goroutine' \in [Ids -> G] /\ goroutine'[id].pc = "arm"
             /\ \A i \in Ids \ {id} : goroutine'[i] = goroutine[i]
  BY <1>2, <1>6 DEF SourceTells
<1>7. ASSUME NEW id \in Ids, SourceArms(id)
      PROVE  /\ goroutine' \in [Ids -> G] /\ goroutine'[id].pc = "done"
             /\ \A i \in Ids \ {id} : goroutine'[i] = goroutine[i]
  BY <1>2, <1>7 DEF SourceArms
<1>8. ASSUME ClearSources
      PROVE  goroutine' \in [Ids -> G] /\ \A i \in Ids : goroutine'[i].pc = goroutine[i].pc
  <2>1. goroutine' = [id \in Ids |-> IF Known(id) THEN [goroutine[id] EXCEPT !.cancelled = TRUE]
                                                  ELSE goroutine[id]]
    BY <1>8 DEF ClearSources
  <2>2. ASSUME NEW id \in Ids
        PROVE  goroutine'[id] \in G /\ goroutine'[id].pc = goroutine[id].pc
    <3>1. /\ [goroutine[id] EXCEPT !.cancelled = TRUE] \in G
          /\ [goroutine[id] EXCEPT !.cancelled = TRUE].pc = goroutine[id].pc
      BY <1>1
    <3> QED BY <1>1, <2>1, <3>1
  <2> QED BY <2>1, <2>2
<1>9. \/ UNCHANGED goroutine \/ ClearSources
      \/ \E w \in Workers : Spawn(w) \/ ArmAfterRemove(w)
      \/ \E id \in Ids : SourceEnds(id) \/ SourceTells(id) \/ SourceArms(id)
  BY Step DEF Step, Serve, Begin, AskAdd, AskRemove, AskActivate, Find, Fail, Attach, Delete, Announce,
     TellRemoved, LockActive, NextDrop, NextAdd, Activated, Observe,
     AnnounceMode, Connect, Connection, Greet, Snapshot, Register, Unregister, Uncount, Leave,
     Session, TimerStep, TimerExpires, FireForgets, FireChecks, FireShutsDown, Fire
<1> QED BY <1>1, <1>3, <1>4, <1>5, <1>6, <1>7, <1>8, <1>9

\* Requests: what a worker that goes on keeps, and what one that is done leaves.
Goes(w, pc) ==
  /\ work'[w].pc = pc /\ work'[w].kind = work[w].kind /\ work'[w].target = work[w].target
  /\ work'[w].owner = work[w].owner /\ work'[w].id = work[w].id
  /\ work'[w].drop = work[w].drop /\ work'[w].add = work[w].add
Over(w) ==
  /\ work'[w].id = 0
  /\ IF work[w].kind = "activate"
       THEN /\ work'[w].pc = "next" /\ work'[w].kind = "activate"
            /\ work'[w].target = work[w].target /\ work'[w].owner = work[w].owner
            /\ work'[w].drop = work[w].drop /\ work'[w].add = work[w].add
       ELSE work'[w] = NoRequest
Asks(w) ==
  /\ work[w].pc = "free" /\ UNCHANGED <<srcs, lastId, goroutine, observing, active, client, down, past>>
  /\ \/ /\ work'[w].pc = "find" /\ work'[w].kind \in {"add", "autostart"} /\ work'[w].owner = NoProfile
        /\ work'[w].id = 0
     \/ /\ work'[w].pc = "delete" /\ work'[w].kind \in {"remove", "removeQuietly"}
        /\ work'[w].owner = NoProfile /\ work'[w].id \in 1 .. lastId
     \/ work'[w].pc = "lock" /\ work'[w].kind = "activate" /\ work'[w].id = 0
Turn(w) ==
  \/ Asks(w) \/ Find(w) \/ LockActive(w) \/ NextDrop(w) \/ NextAdd(w) \/ Activated(w)
  \/ Attach(w) /\ down # "cleared" /\ Goes(w, "spawn")
  \/ Spawn(w) /\ work[w].kind # "autostart" /\ Goes(w, "announce")
  \/ Delete(w) /\ Known(work[w].id) /\ Goes(w, "arm")
  \/ ArmAfterRemove(w) /\ work[w].kind # "removeQuietly" /\ Goes(w, "tell")
  \/ /\ \/ Fail(w) \/ Announce(w) \/ TellRemoved(w)
        \/ Spawn(w) /\ work[w].kind = "autostart"
        \/ Delete(w) /\ ~Known(work[w].id)
        \/ ArmAfterRemove(w) /\ work[w].kind = "removeQuietly"
     /\ Over(w)

\* No step is of two workers, and a step of one is a turn of its request.
LEMMA Turns ==
  ASSUME TypeInv, Step
  PROVE  /\ work' \in [Workers -> Request]
         /\ \/ UNCHANGED work
            \/ \E w \in Workers : Turn(w) /\ \A v \in Workers \ {w} : work'[v] = work[v]
<1>1. work \in [Workers -> Request]
  BY DEF TypeInv
<1> DEFINE Mine(w) == /\ work' \in [Workers -> Request] /\ \A v \in Workers \ {w} : work'[v] = work[v]
                      /\ Turn(w)
<1>2. ASSUME NEW w \in Workers, NEW t \in Targets, NEW kind \in {"add", "autostart"},
             AskAdd(w, t, kind)
      PROVE  Mine(w)
  <2>1. /\ work' \in [Workers -> Request] /\ \A v \in Workers \ {w} : work'[v] = work[v]
        /\ work'[w].pc = "find" /\ work'[w].kind \in {"add", "autostart"}
        /\ work'[w].owner = NoProfile /\ work'[w].id = 0
    BY <1>2, AskFields
  <2>2. work[w].pc = "free" /\ UNCHANGED <<srcs, lastId, goroutine, observing, active, client, down, past>>
    BY <1>2 DEF AskAdd, Begin
  <2> QED BY <2>1, <2>2 DEF Turn, Asks
<1>3. ASSUME NEW w \in Workers, NEW id \in Ids, NEW kind \in {"remove", "removeQuietly"},
             AskRemove(w, id, kind)
      PROVE  Mine(w)
  <2>1. id \in 1 .. lastId
    BY <1>3, RegistryAssumption DEF AskRemove, Ids, TypeInv
  <2> QED BY <1>3, <2>1, AskFields DEF Turn, Asks, AskRemove, Begin
<1>4. ASSUME NEW w \in Workers, NEW p \in Owners, AskActivate(w, p)
      PROVE  Mine(w)
  BY <1>4, AskFields DEF Turn, Asks, AskActivate, Begin
<1>5. ASSUME NEW w \in Workers, NEW pc \in Pcs, To(w, pc)
      PROVE  /\ work' \in [Workers -> Request] /\ \A v \in Workers \ {w} : work'[v] = work[v]
             /\ Goes(w, pc)
  BY <1>5, ToFields DEF Goes
<1>6. ASSUME NEW w \in Workers, Done(w)
      PROVE  /\ work' \in [Workers -> Request] /\ \A v \in Workers \ {w} : work'[v] = work[v]
             /\ Over(w)
  BY <1>6, DoneFields DEF Over
<1>7. ASSUME NEW w \in Workers, Find(w) \/ LockActive(w) \/ NextDrop(w) \/ NextAdd(w) \/ Activated(w)
      PROVE  Mine(w)
  BY <1>7, FindFields, SwitchFields DEF Turn
<1>8. ASSUME NEW w \in Workers, Attach(w)
      PROVE  UNCHANGED work \/ Mine(w)
  BY <1>5, <1>8 DEF Attach, Turn, Pcs
<1>9. ASSUME NEW w \in Workers, Spawn(w)
      PROVE  Mine(w)
  BY <1>5, <1>6, <1>9 DEF Spawn, Turn, Pcs
<1>10. ASSUME NEW w \in Workers, Delete(w)
       PROVE  Mine(w)
  BY <1>5, <1>6, <1>10 DEF Delete, Turn, Pcs
<1>11. ASSUME NEW w \in Workers, ArmAfterRemove(w)
       PROVE  Mine(w)
  BY <1>5, <1>6, <1>11 DEF ArmAfterRemove, Turn, Pcs
<1>12. ASSUME NEW w \in Workers, Fail(w) \/ Announce(w) \/ TellRemoved(w)
       PROVE  Mine(w)
  <2>1. Done(w)
    BY <1>12 DEF Fail, Announce, TellRemoved
  <2>2. /\ work' \in [Workers -> Request] /\ \A v \in Workers \ {w} : work'[v] = work[v]
        /\ Over(w)
    BY <1>6, <2>1
  <2>3. Turn(w)
    BY <1>12, <2>2 DEF Turn
  <2> QED BY <2>2, <2>3
<1>13. \/ UNCHANGED work
       \/ \E w \in Workers :
            \/ \E t \in Targets, kind \in {"add", "autostart"} : AskAdd(w, t, kind)
            \/ \E id \in Ids, kind \in {"remove", "removeQuietly"} : AskRemove(w, id, kind)
            \/ \E p \in Owners : AskActivate(w, p)
            \/ Serve(w)
  BY Step DEF Step, SourceEnds, SourceTells, SourceArms, Observe,
     AnnounceMode, Connect, Connection, Greet, Snapshot, Register, Unregister, Uncount, Leave,
     Session, TimerStep, TimerExpires, FireForgets, FireChecks, FireShutsDown, Fire, ClearSources
<1> HIDE DEF Mine
<1>14. \/ UNCHANGED work
       \/ \E w \in Workers : Mine(w)
  BY <1>2, <1>3, <1>4, <1>7, <1>8, <1>9, <1>10, <1>11, <1>12, <1>13 DEF Serve
<1> QED BY <1>1, <1>14 DEF Mine

\* The announcements, and of which source they are.
Tells(id, state) ==
  \/ \E w \in Workers : Announce(w) /\ work[w].kind # "autostart" /\ work[w].id = id /\ state = "open"
  \/ \E w \in Workers : TellRemoved(w) /\ work[w].id = id /\ state = "ended"
  \/ SourceTells(id) /\ state = "ended"
  \/ AnnounceMode /\ observing = id /\ state = "open"
Hears(c, id, state) ==
  /\ client'[c].pc = client[c].pc
  /\ client'[c].view = IF client[c].pc = "live" THEN [client[c].view EXCEPT ![id] = state]
                                               ELSE client[c].view
Moves(c) ==
  \/ client'[c] = client[c]
  \/ /\ client'[c].view = client[c].view /\ UNCHANGED past
     /\ <<client[c].pc, client'[c].pc>> \in {<<"away", "counted">>, <<"counted", "greeted">>,
          <<"known", "live">>, <<"live", "left">>, <<"left", "uncounted">>}
  \/ /\ Snapshot(c) /\ client'[c].pc = "known"
     /\ client'[c].view = [id \in Ids |-> IF Known(id) THEN srcs[id].state ELSE "unknown"]
  \/ client'[c].pc = "away" /\ client'[c].view = [id \in Ids |-> "unknown"]

\* Who listens hears what is announced.
LEMMA ToldHeard ==
  ASSUME TypeInv, NEW id \in Ids, NEW state \in {"open", "ended"}, Told(id, state)
  PROVE  /\ client' \in [Clients -> [pc : {"away", "counted", "greeted", "known", "live", "left",
                                   "uncounted"},
                             view : [Ids -> {"unknown", "open", "ended"}],
                             connects : Nat]]
         /\ \A c \in Clients : Hears(c, id, state)
<1> DEFINE C == [pc : {"away", "counted", "greeted", "known", "live", "left", "uncounted"},
                 view : [Ids -> {"unknown", "open", "ended"}], connects : Nat]
<1>1. \A c \in Clients : client[c] \in C
  BY DEF TypeInv
<1>2. ASSUME NEW c \in Clients
      PROVE  client'[c] \in C /\ Hears(c, id, state)
  <2>1. client'[c] = IF client[c].pc = "live" THEN [client[c] EXCEPT !.view[id] = state]
                                               ELSE client[c]
    BY DEF Told
  <2> DEFINE v == [client[c].view EXCEPT ![id] = state]
  <2>2. client[c] \in C /\ v \in [Ids -> {"unknown", "open", "ended"}]
    BY <1>1
  <2> DEFINE r == [client[c] EXCEPT !.view = v]
  <2>3. r \in C /\ r.view = v /\ r.pc = client[c].pc
    BY <2>2
  <2>4. client[c].pc = "live" => client'[c] = r
    BY <2>1
  <2> HIDE DEF r
  <2> QED BY <2>1, <2>2, <2>3, <2>4 DEF Hears
<1>3. client' = [c \in Clients |-> client'[c]]
  BY DEF Told
<1> QED BY <1>2, <1>3

\* A step tells all clients that listen, or is of one client at most.
LEMMA ClientMoves ==
  ASSUME TypeInv, Step
  PROVE  /\ client' \in [Clients -> [pc : {"away", "counted", "greeted", "known", "live", "left",
                                   "uncounted"},
                             view : [Ids -> {"unknown", "open", "ended"}],
                             connects : Nat]]
         /\ \/ \E id \in Ids, state \in {"open", "ended"} :
                 Tells(id, state) /\ Told(id, state) /\ \A c \in Clients : Hears(c, id, state)
            \/ /\ \A c \in Clients : Moves(c)
               /\ UNCHANGED client \/ UNCHANGED <<srcs, goroutine, observing, work, down, past>>
<1> DEFINE C == [pc : {"away", "counted", "greeted", "known", "live", "left", "uncounted"},
                 view : [Ids -> {"unknown", "open", "ended"}], connects : Nat]
<1>1. client \in [Clients -> C] /\ \A c \in Clients : client[c] \in C
  BY DEF TypeInv
<1>2. ASSUME NEW c \in Clients, NEW r \in C, client' = [client EXCEPT ![c] = r]
      PROVE  /\ client' \in [Clients -> C] /\ client'[c] = r
             /\ \A d \in Clients \ {c} : client'[d] = client[d]
  <2> HIDE DEF C
  <2> QED BY <1>1, <1>2
<1>3. ASSUME NEW id \in Ids, NEW state \in {"open", "ended"}, Told(id, state)
      PROVE  client' \in [Clients -> C] /\ \A c \in Clients : Hears(c, id, state)
  BY <1>3, ToldHeard
<1>4. ASSUME NEW id \in Ids, NEW state \in {"open", "ended"}, Tells(id, state)
      PROVE  Told(id, state)
  BY <1>4 DEF Tells, Announce, TellRemoved, SourceTells, AnnounceMode
<1>5. ASSUME NEW w \in Workers, Announce(w)
      PROVE  UNCHANGED client \/ (Tells(work[w].id, "open") /\ work[w].id \in Ids)
  BY <1>5, ServedIds DEF Announce, Tells, Serving
<1>6. ASSUME NEW w \in Workers, TellRemoved(w)
      PROVE  Tells(work[w].id, "ended") /\ work[w].id \in Ids
  BY <1>6, ServedIds DEF TellRemoved, Tells, Serving
<1>7. ASSUME NEW id \in Ids, SourceTells(id)
      PROVE  Tells(id, "ended")
  BY <1>7 DEF Tells
<1>8. ASSUME AnnounceMode
      PROVE  Tells(observing, "open") /\ observing \in Ids
  <2>1. observing \in 0 .. MaxIds /\ lastId \in 0 .. MaxIds /\ observing # 0
    BY <1>8 DEF AnnounceMode, TypeInv
  <2> QED BY <1>8, <2>1, RegistryAssumption DEF Tells, Ids
<1> DEFINE Only(c) == /\ client' \in [Clients -> C] /\ Moves(c)
                      /\ \A d \in Clients \ {c} : client'[d] = client[d]
                      /\ UNCHANGED <<srcs, goroutine, observing, work, down, past>>
<1>9. ASSUME NEW c \in Clients, NEW from, NEW to \in {"greeted", "live", "left", "uncounted"},
             Connection(c, from, to),
             <<from, to>> \in {<<"counted", "greeted">>, <<"known", "live">>, <<"live", "left">>,
                               <<"left", "uncounted">>}
      PROVE  Only(c)
  <2> DEFINE r == [client[c] EXCEPT !.pc = to]
  <2>1. r \in C /\ r.pc = to /\ r.view = client[c].view
    BY <1>1, <1>9
  <2>2. client' = [client EXCEPT ![c] = r]
    BY <1>9 DEF Connection
  <2> HIDE DEF r
  <2>3. /\ client' \in [Clients -> C] /\ client'[c] = r
        /\ \A d \in Clients \ {c} : client'[d] = client[d]
    BY <1>2, <2>1, <2>2
  <2>4. /\ client[c].pc = from /\ UNCHANGED <<srcs, goroutine, observing, work, down, past>>
    BY <1>9 DEF Connection
  <2> HIDE DEF C
  <2> QED BY <1>9, <2>1, <2>3, <2>4 DEF Moves
<1>10. ASSUME NEW c \in Clients, Connect(c)
       PROVE  Only(c)
  <2> DEFINE n == client[c].connects + 1
             r == [client[c] EXCEPT !.pc = "counted", !.connects = n]
  <2>0. n \in Nat
    BY <1>1
  <2>2. client' = [client EXCEPT ![c] = r]
    BY <1>10 DEF Connect
  <2> HIDE DEF n
  <2>1. r \in C /\ r.pc = "counted" /\ r.view = client[c].view
    BY <1>1, <2>0
  <2> HIDE DEF r
  <2>3. /\ client' \in [Clients -> C] /\ client'[c] = r
        /\ \A d \in Clients \ {c} : client'[d] = client[d]
    BY <1>2, <2>1, <2>2
  <2>4. client[c].pc = "away" /\ UNCHANGED <<srcs, goroutine, observing, work, down, past>>
    BY <1>10 DEF Connect
  <2> HIDE DEF C
  <2> QED BY <2>1, <2>3, <2>4 DEF Moves
<1>11. ASSUME NEW c \in Clients, Snapshot(c)
       PROVE  Only(c)
  <2> DEFINE v == [id \in Ids |-> IF Known(id) THEN srcs[id].state ELSE "unknown"]
             r == [client[c] EXCEPT !.pc = "known", !.view = v]
  <2>1. v \in [Ids -> {"unknown", "open", "ended"}]
    BY DEF TypeInv, Source, Known
  <2> HIDE DEF v
  <2>2. r \in C /\ r.pc = "known" /\ r.view = v
    BY <1>1, <2>1
  <2>3. client' = [client EXCEPT ![c] = r]
    BY <1>11 DEF Snapshot, v
  <2> HIDE DEF r
  <2>4. /\ client' \in [Clients -> C] /\ client'[c] = r
        /\ \A d \in Clients \ {c} : client'[d] = client[d]
    BY <1>2, <2>2, <2>3
  <2>5. UNCHANGED <<srcs, goroutine, observing, work, down, past>>
    BY <1>11 DEF Snapshot
  <2> HIDE DEF C
  <2> QED BY <1>11, <2>2, <2>4, <2>5 DEF Moves, v
<1>12. ASSUME NEW c \in Clients, Leave(c)
       PROVE  Only(c)
  <2> DEFINE v == [id \in Ids |-> "unknown"]
             r == [client[c] EXCEPT !.pc = "away", !.view = v]
  <2>1. v \in [Ids -> {"unknown", "open", "ended"}]
    OBVIOUS
  <2> HIDE DEF v
  <2>2. r \in C /\ r.pc = "away" /\ r.view = v
    BY <1>1, <2>1
  <2>3. client' = [client EXCEPT ![c] = r]
    BY <1>12 DEF Leave, v
  <2> HIDE DEF r
  <2>4. /\ client' \in [Clients -> C] /\ client'[c] = r
        /\ \A d \in Clients \ {c} : client'[d] = client[d]
    BY <1>2, <2>2, <2>3
  <2>5. UNCHANGED <<srcs, goroutine, observing, work, down, past>>
    BY <1>12 DEF Leave
  <2> HIDE DEF C
  <2> QED BY <2>2, <2>4, <2>5 DEF Moves, v
<1>13. ASSUME NEW c \in Clients, Session(c) \/ Unregister(c)
       PROVE  Only(c)
  <2> HIDE DEF Only
  <2> QED BY <1>9, <1>11, <1>12, <1>13 DEF Session, Greet, Register, Unregister, Uncount
<1>14. \/ UNCHANGED client
       \/ \E c \in Clients : Connect(c) \/ Session(c) \/ Unregister(c)
       \/ \E w \in Workers : Announce(w) \/ TellRemoved(w)
       \/ \E id \in Ids : SourceTells(id)
       \/ AnnounceMode
  BY Step DEF Step, Serve, Begin, AskAdd, AskRemove, AskActivate, Find, Fail, Attach, Spawn, Delete,
     ArmAfterRemove, LockActive, NextDrop, NextAdd, Activated, SourceEnds, SourceArms, Observe,
     TimerStep, TimerExpires, FireForgets, FireChecks, FireShutsDown, Fire, ClearSources
<1>15. \/ UNCHANGED client
       \/ \E c \in Clients : Only(c)
       \/ \E id \in Ids, state \in {"open", "ended"} : Tells(id, state)
  <2> HIDE DEF Only
  <2> QED BY <1>5, <1>6, <1>7, <1>8, <1>10, <1>13, <1>14
<1>16. CASE \E c \in Clients : Only(c)
  <2>1. PICK c \in Clients : Only(c)
    BY <1>16
  <2>2. \A d \in Clients : Moves(d)
    BY <2>1 DEF Moves
  <2> QED BY <2>1, <2>2
<1>17. CASE UNCHANGED client
  <2> HIDE DEF C
  <2> QED BY <1>1, <1>17 DEF Moves, C
<1>18. CASE \E id \in Ids, state \in {"open", "ended"} : Tells(id, state)
  BY <1>3, <1>4, <1>18
<1> QED BY <1>15, <1>16, <1>17, <1>18

-----------------------------------------------------------------------------
(* The types                                                               *)

\* The history only grows, ids are given out one by one.
LEMMA Grows ==
  ASSUME TypeInv, Step
  PROVE  /\ past' \in Past /\ past.inherited \subseteq past'.inherited
         /\ past.raced \subseteq past'.raced /\ past.excused \subseteq past'.excused
         /\ lastId' \in 0 .. MaxIds /\ lastId <= lastId'
         /\ \/ lastId' = lastId
            \/ \E w \in Workers : /\ Find(w) /\ lastId' = lastId + 1 /\ work'[w].pc = "attach"
                                  /\ work'[w].id = lastId'
<1>1. past \in Past /\ work \in [Workers -> Request] /\ lastId \in 0 .. MaxIds /\ observing \in 0 .. MaxIds
  BY DEF TypeInv
<1> DEFINE Larger == /\ past' \in Past /\ past.inherited \subseteq past'.inherited
                     /\ past.raced \subseteq past'.raced /\ past.excused \subseteq past'.excused
<1>2. ASSUME UNCHANGED past
      PROVE  Larger
  BY <1>1, <1>2
<1>3. ASSUME NEW id \in Ids, NEW when, Excuse(id, when)
      PROVE  Larger
  <2> DEFINE x == IF when THEN past.excused \cup {id} ELSE past.excused
  <2>1. x \in SUBSET Ids /\ past.excused \subseteq x
    BY <1>1 DEF Past
  <2>2. past' = [past EXCEPT !.excused = x]
    BY <1>3 DEF Excuse
  <2> HIDE DEF x
  <2> QED BY <1>1, <2>1, <2>2 DEF Past
<1>4. ASSUME NEW w \in Workers, Find(w)
      PROVE  Larger
  <2>1. CASE past' = [past EXCEPT !.raced = @ \cup {work[w].target}]
    <3>1. work[w].target \in Targets
      BY <1>1 DEF Request
    <3> QED BY <1>1, <2>1, <3>1 DEF Past
  <2> QED BY <1>2, <1>4, <2>1 DEF Find
<1>5. ASSUME NEW w \in Workers, Activated(w)
      PROVE  Larger
  <2> DEFINE x == {id \in Ids : Open(id) /\ srcs[id].owner \notin {work[w].owner, NoProfile}
                                         /\ srcs[id].target \in Refs(work[w].owner)}
  <2>1. x \in SUBSET Ids
    OBVIOUS
  <2>2. past' = [past EXCEPT !.inherited = @ \cup x]
    BY <1>5 DEF Activated
  <2> HIDE DEF x
  <2> QED BY <1>1, <2>1, <2>2 DEF Past
<1>6. ASSUME NEW w \in Workers, work[w].pc \in Serving
      PROVE  work[w].id \in Ids
  BY <1>6, ServedIds
<1>7. observing # 0 => observing \in Ids
  BY <1>1, RegistryAssumption DEF Ids
<1>8. ASSUME NEW w \in Workers, Attach(w) \/ Announce(w) \/ Delete(w) \/ TellRemoved(w)
      PROVE  Larger
  <2>1. work[w].id \in Ids
    BY <1>6, <1>8 DEF Attach, Announce, Delete, TellRemoved, Serving
  <2> HIDE DEF Larger
  <2> QED BY <1>2, <1>3, <1>8, <2>1 DEF Attach, Announce, Delete, TellRemoved, Told
<1>9. ASSUME NEW id \in Ids, SourceTells(id)
      PROVE  Larger
  <2> HIDE DEF Larger
  <2> QED BY <1>3, <1>9 DEF SourceTells, Told
<1>10. ASSUME AnnounceMode
       PROVE  Larger
  <2> HIDE DEF Larger
  <2> QED BY <1>3, <1>7, <1>10 DEF AnnounceMode, Told
<1>11. \/ UNCHANGED past \/ AnnounceMode
       \/ \E w \in Workers : \/ Find(w) \/ Activated(w)
                             \/ Attach(w) \/ Announce(w) \/ Delete(w) \/ TellRemoved(w)
       \/ \E id \in Ids : SourceTells(id)
  BY Step DEF Step, Serve, Begin, AskAdd, AskRemove, AskActivate, Fail, Spawn,
     ArmAfterRemove, LockActive, NextDrop, NextAdd, SourceEnds, SourceArms, Observe,
     Connect, Connection, Greet, Snapshot, Register, Unregister, Uncount, Leave, Session,
     TimerStep, TimerExpires, FireForgets, FireChecks, FireShutsDown, Fire, ClearSources
<1>12. Larger
  <2> HIDE DEF Larger
  <2> QED BY <1>2, <1>4, <1>5, <1>8, <1>9, <1>10, <1>11
<1>13. UNCHANGED lastId \/ \E w \in Workers : Find(w)
  BY Step DEF Step, Serve, Begin, AskAdd, AskRemove, AskActivate, Fail, Spawn, Attach, Announce, Delete,
     TellRemoved, Activated, ArmAfterRemove, LockActive, NextDrop, NextAdd, SourceEnds, SourceTells,
     SourceArms, Observe, AnnounceMode,
     Connect, Connection, Greet, Snapshot, Register, Unregister, Uncount, Leave, Session,
     TimerStep, TimerExpires, FireForgets, FireChecks, FireShutsDown, Fire, ClearSources
<1>14. ASSUME NEW w \in Workers, Find(w)
       PROVE  \/ lastId' = lastId
              \/ lastId' = lastId + 1 /\ work'[w].pc = "attach" /\ work'[w].id = lastId' /\ lastId < MaxIds
  BY <1>14, FindFields
<1>15. CASE lastId' = lastId
  BY <1>1, <1>12, <1>15
<1>16. CASE \E w \in Workers : /\ Find(w) /\ lastId' = lastId + 1 /\ work'[w].pc = "attach"
                               /\ work'[w].id = lastId' /\ lastId < MaxIds
  <2>1. lastId' \in 0 .. MaxIds /\ lastId <= lastId'
    BY <1>1, <1>16, RegistryAssumption
  <2> HIDE DEF Larger
  <2>2. QED BY <1>12, <1>16, <2>1 DEF Larger
<1> QED BY <1>13, <1>14, <1>15, <1>16

\* The types of the variables.
LEMMA TypeInvHolds == Spec => []TypeInv
<1>1. Init => TypeInv
  <2> SUFFICES ASSUME Init PROVE TypeInv
    OBVIOUS
  <2>1. Unused \in Targets /\ 0 \in 0 .. MaxIds /\ NoProfile \in Owners
    BY RegistryAssumption DEF Unused, Owners
  <2>2. work \in [Workers -> Request] /\ \A w \in Workers : work[w].pc = "free" /\ work[w].id = 0
    BY NoRequestTyped DEF Init, NoRequest
  <2>3. srcs \in [Ids -> Source]
    BY <2>1 DEF Init, Source
  <2>4. observing \in 0 .. MaxIds
    BY <2>1 DEF Init
  <2>5. client \in [Clients -> [pc : {"away", "counted", "greeted", "known", "live", "left",
                                   "uncounted"},
                             view : [Ids -> {"unknown", "open", "ended"}],
                             connects : Nat]]
    BY DEF Init
  <2>6. goroutine \in [Ids -> [pc : {"off", "run", "tell", "arm", "done"}, cancelled : BOOLEAN]]
    BY DEF Init
  <2>7. active \in [profile : Owners, refs : SUBSET Targets, held : Workers \cup {Nobody}]
    BY <2>1 DEF Init
  <2> QED BY <2>1, <2>2, <2>3, <2>4, <2>5, <2>6, <2>7 DEF Init, TypeInv, Serving, Past, Known
<1>2. TypeInv /\ [Next]_vars => TypeInv'
  <2>1. ASSUME TypeInv, UNCHANGED vars
        PROVE  TypeInv'
    BY <2>1 DEF vars, moving, TypeInv, Known
  <2>2. ASSUME TypeInv, Step
        PROVE  TypeInv'
    <3>1. lastId \in 0 .. MaxIds /\ lastId' \in 0 .. MaxIds /\ lastId <= lastId' /\ past' \in Past
      BY <2>2, Grows DEF TypeInv
    <3>2. observing' \in 0 .. MaxIds
      <4>1. \/ UNCHANGED observing \/ AnnounceMode
            \/ \E id \in Ids, mode \in {"text", "json"} : Observe(id, mode)
        BY <2>2 DEF Step, Serve, Begin, AskAdd, AskRemove, AskActivate, Find, Fail, Spawn, Attach,
          Announce, Delete, TellRemoved, Activated, ArmAfterRemove, LockActive, NextDrop, NextAdd,
          SourceEnds, SourceTells, SourceArms,
          Connect, Connection, Greet, Snapshot, Register, Unregister, Uncount, Leave, Session,
          TimerStep, TimerExpires, FireForgets, FireChecks, FireShutsDown, Fire, ClearSources
      <4> QED BY <2>2, <4>1, RegistryAssumption DEF TypeInv, AnnounceMode, Observe, Ids
    <3>3. active' \in [profile : Owners, refs : SUBSET Targets, held : Workers \cup {Nobody}]
      <4>1. \/ UNCHANGED active
            \/ \E w \in Workers : LockActive(w) \/ Activated(w)
        BY <2>2 DEF Step, Serve, Begin, AskAdd, AskRemove, AskActivate, Find, Fail, Spawn, Attach,
          Announce, Delete, TellRemoved, ArmAfterRemove, NextDrop, NextAdd, AnnounceMode, Observe,
          SourceEnds, SourceTells, SourceArms,
          Connect, Connection, Greet, Snapshot, Register, Unregister, Uncount, Leave, Session,
          TimerStep, TimerExpires, FireForgets, FireChecks, FireShutsDown, Fire, ClearSources
      <4>2. ASSUME NEW w \in Workers, LockActive(w)
            PROVE  active' \in [profile : Owners, refs : SUBSET Targets, held : Workers \cup {Nobody}]
        BY <2>2, <4>2 DEF LockActive, TypeInv
      <4>3. ASSUME NEW w \in Workers, Activated(w)
            PROVE  active' \in [profile : Owners, refs : SUBSET Targets, held : Workers \cup {Nobody}]
        <5>1. work[w].owner \in Owners
          BY <2>2 DEF TypeInv, Request
        <5>2. Refs(work[w].owner) \in SUBSET Targets
          BY <5>1, RegistryAssumption DEF Refs, Owners
        <5> QED BY <4>3, <5>1, <5>2 DEF Activated
      <4> QED BY <2>2, <4>1, <4>2, <4>3 DEF TypeInv
    <3>4. down' \in {"no", "cancelled", "cleared", "crashed"}
      <4>1. \/ UNCHANGED down \/ ClearSources \/ FireShutsDown
            \/ \E w \in Workers : Attach(w)
        BY <2>2 DEF Step, Serve, Begin, AskAdd, AskRemove, AskActivate, Find, Fail, Spawn,
          Announce, Delete, TellRemoved, ArmAfterRemove, NextDrop, NextAdd, AnnounceMode, Observe,
          SourceEnds, SourceTells, SourceArms, LockActive, Activated,
          Connect, Connection, Greet, Snapshot, Register, Unregister, Uncount, Leave, Session,
          TimerStep, TimerExpires, FireForgets, FireChecks, Fire
      <4> QED BY <2>2, <4>1 DEF TypeInv, ClearSources, FireShutsDown, Attach
    <3>5. /\ work' \in [Workers -> Request]
          /\ \A w \in Workers :
               work'[w] = work[w] \/ Turn(w)
      BY <2>2, Turns DEF TypeInv
    <3>6. ASSUME NEW w \in Workers
          PROVE  IF work'[w].pc \in Serving THEN work'[w].id \in 1 .. lastId' ELSE work'[w].id = 0
      <4> DEFINE Ok == IF work'[w].pc \in Serving THEN work'[w].id \in 1 .. lastId' ELSE work'[w].id = 0
      <4>1. /\ IF work[w].pc \in Serving THEN work[w].id \in 1 .. lastId ELSE work[w].id = 0
            /\ \A id \in 1 .. lastId : id \in 1 .. lastId'
        BY <2>2, <3>1 DEF TypeInv
      <4>2. CASE work'[w] = work[w]
        BY <4>1, <4>2
      <4>3. CASE Asks(w)
        BY <4>1, <4>3 DEF Asks, Serving
      <4>4. CASE Find(w)
        <5>1. \A id \in Ids : Open(id) => id \in 1 .. lastId
          BY <2>2, <3>1 DEF TypeInv, Open, Known, Ids
        <5> QED BY <2>2, <3>1, <4>1, <4>4, <5>1, FindFields DEF Serving
      <4>5. CASE LockActive(w)
        BY <2>2, <4>1, <4>5, SwitchFields DEF Serving, LockActive
      <4>9. CASE NextAdd(w)
        <5>1. work'[w].pc = "find" /\ work'[w].id = work[w].id /\ work[w].pc = "next"
          BY <2>2, <4>9, SwitchFields DEF NextAdd
        <5> QED BY <4>1, <5>1 DEF Serving
      <4>10. CASE Activated(w)
        <5>1. work'[w] = NoRequest
          BY <2>2, <4>10, SwitchFields
        <5> QED BY <5>1 DEF Serving, NoRequest
      <4>6. CASE NextDrop(w)
        <5>1. PICK t \in work[w].drop :
                \/ work'[w].pc = "delete" /\ work'[w].id \in Owned(t)
                \/ Owned(t) = {} /\ work'[w].pc = "next" /\ work'[w].id = work[w].id
          BY <2>2, <4>6, SwitchFields
        <5>2. \A id \in Owned(t) : id \in 1 .. lastId
          BY <2>2, <3>1 DEF TypeInv, Owned, Open, Known, Ids
        <5>3. lastId <= lastId' /\ work[w].pc = "next"
          BY <3>1, <4>6 DEF NextDrop
        <5> QED BY <4>1, <5>1, <5>2, <5>3 DEF Serving
      <4>7. CASE \/ Goes(w, "spawn") /\ Attach(w)
                 \/ Goes(w, "announce") /\ Spawn(w)
                 \/ Goes(w, "arm") /\ Delete(w)
                 \/ Goes(w, "tell") /\ ArmAfterRemove(w)
        BY <4>1, <4>7 DEF Goes, Attach, Spawn, Delete, ArmAfterRemove, Serving
      <4>8. CASE Over(w)
        BY <4>8 DEF Over, Serving, NoRequest
      <4> HIDE DEF Ok
      <4> QED BY <3>5, <4>2, <4>3, <4>4, <4>5, <4>6, <4>7, <4>8, <4>9, <4>10 DEF Turn
    <3>7. ASSUME NEW id \in Ids, Known(id)'
          PROVE  id <= lastId'
      <4>1. CASE Lives(id)
        BY <2>2, <3>1, <3>7, <4>1 DEF TypeInv, Lives, Known, Ids
      <4>2. CASE \E w \in Workers : Birth(w, id)
        <5>1. id <= lastId
          BY <2>2, <4>2, ServedIds DEF Birth, Attach, Serving
        <5> QED BY <3>1, <5>1 DEF Ids
      <4> QED BY <2>2, <4>1, <4>2, Sources
    <3> QED BY <2>2, <3>1, <3>2, <3>3, <3>4, <3>5, <3>6, <3>7, Sources, Goroutines, ClientMoves
      DEF TypeInv
  <2> QED BY <2>1, <2>2 DEF Next
<1> QED BY <1>1, <1>2, PTL DEF Spec

-----------------------------------------------------------------------------
(* Who is told of an end                                                   *)

\* The ingester announces sources that are known.
LEMMA ObservingMoves ==
  ASSUME Step
  PROVE  UNCHANGED observing \/ observing' = 0 \/ \E id \in Ids : Known(id) /\ observing' = id
BY Step DEF Step, Serve, Begin, AskAdd, AskRemove, AskActivate, Find, Fail, Spawn, Attach,
   Announce, Delete, TellRemoved, Activated, ArmAfterRemove, LockActive, NextDrop, NextAdd,
   SourceEnds, SourceTells, SourceArms, AnnounceMode, Observe,
   Connect, Connection, Greet, Snapshot, Register, Unregister, Uncount, Leave, Session,
   TimerStep, TimerExpires, FireForgets, FireChecks, FireShutsDown, Fire, ClearSources

\* Who is busy with an id that nobody has attached yet attaches it, or removes by guess.
LEMMA UnbornServed ==
  ASSUME TypeInv, Unheard, NEW w \in Workers, work[w].pc \in Serving, Unborn(work[w].id)
  PROVE  work[w].pc = "attach" \/ (work[w].pc = "delete" /\ work[w].kind # "activate")
<1>1. work[w].id \in 1 .. lastId /\ lastId \in Nat
  BY DEF TypeInv
<1>2. PICK v \in Workers : work[v].pc = "attach" /\ work[v].id = work[w].id
  BY <1>1 DEF Unborn
<1> QED BY <1>2 DEF Unheard

\* Ids are given out once.
LEMMA StaysBorn ==
  ASSUME TypeInv, Step, NEW id \in Ids, Unborn(id)'
  PROVE  Unborn(id)
<1>1. lastId \in Nat /\ lastId' \in Nat /\ lastId <= lastId' /\ id \in Nat
  BY Grows DEF TypeInv, Ids
<1>2. CASE id > lastId'
  BY <1>1, <1>2 DEF Unborn
<1>3. CASE \E w \in Workers : work'[w].pc = "attach" /\ work'[w].id = id
  <2>1. PICK w \in Workers : work'[w].pc = "attach" /\ work'[w].id = id
    BY <1>3
  <2>2. CASE work'[w] = work[w]
    BY <2>1, <2>2 DEF Unborn
  <2>3. CASE Turn(w)
    <3>1. \/ Find(w) \/ LockActive(w) \/ NextDrop(w) \/ NextAdd(w) \/ Activated(w)
      BY <2>1, <2>3 DEF Turn, Asks, Goes, Over, NoRequest
    <3>2. Find(w)
      BY <2>1, <3>1, SwitchFields DEF NoRequest
    <3>3. work'[w].id = lastId + 1
      BY <2>1, <3>2, FindFields
    <3> QED BY <1>1, <2>1, <3>3 DEF Unborn
  <2> QED BY <2>2, <2>3, Turns
<1> QED BY <1>2, <1>3 DEF Unborn

\* A source that opens had an id nobody had attached, and has it no more.
LEMMA Births ==
  ASSUME TypeInv, Unheard, Step, NEW id \in Ids, NEW w \in Workers, Birth(w, id)
  PROVE  Unborn(id) /\ ~Unborn(id)' /\ Goes(w, "spawn")
<1>1. work[w].pc = "attach" /\ work[w].id = id /\ id <= lastId /\ work[w].id \in Ids
  BY ServedIds DEF Birth, Attach, Serving
<1>2. To(w, "spawn")
  BY DEF Birth, Attach
<1>3. /\ work'[w].pc = "spawn" /\ Goes(w, "spawn")
      /\ \A v \in Workers \ {w} : work'[v] = work[v]
  BY <1>2, ToFields DEF Goes, Pcs
<1>4. lastId' = lastId /\ lastId \in Nat
  BY DEF Birth, Attach, TypeInv
<1>5. ASSUME NEW v \in Workers, work'[v].pc = "attach", work'[v].id = id
      PROVE  FALSE
  BY <1>1, <1>3, <1>5 DEF Unheard
<1> QED BY <1>1, <1>3, <1>4, <1>5 DEF Unborn, Ids

\* One source opens at a time.
LEMMA BirthAlone ==
  ASSUME TypeInv, NEW id \in Ids, NEW w \in Workers, Birth(w, id)
  PROVE  /\ \A i \in Ids \ {id} : srcs'[i] = srcs[i]
         /\ \A v \in Workers \ {w} : work'[v] = work[v]
         /\ Goes(w, "spawn") /\ work[w].pc = "attach" /\ UNCHANGED active
<1>1. Attach(w) /\ To(w, "spawn") /\ work[w].id = id /\ UNCHANGED active
  BY DEF Birth, Attach
<1>2. \A i \in Ids \ {id} : srcs'[i] = srcs[i]
  BY <1>1 DEF Birth, Attach, TypeInv
<1>3. Goes(w, "spawn") /\ \A v \in Workers \ {w} : work'[v] = work[v]
  BY <1>1, ToFields DEF Goes, Pcs
<1> QED BY <1>1, <1>2, <1>3 DEF Attach

\* Nobody hears of a source before it is attached.
LEMMA StaysUnheard ==
  ASSUME TypeInv, TypeInv', Unheard, Step
  PROVE  Unheard'
<1>1. ASSUME NEW id \in Ids, Unborn(id)'
      PROVE  /\ ~Known(id)' /\ goroutine'[id].pc = "off" /\ observing' # id
             /\ \A c \in Clients : client'[c].view[id] = "unknown"
  <2>1. /\ Unborn(id) /\ ~Known(id) /\ goroutine[id].pc = "off" /\ observing # id
        /\ \A c \in Clients : client[c].view[id] = "unknown"
    BY <1>1, StaysBorn DEF Unheard
  <2>2. ASSUME NEW w \in Workers, work[w].pc \in Serving, work[w].id = id
        PROVE  work[w].pc \in {"attach", "delete"}
    BY <2>1, <2>2, UnbornServed
  <2>3. ~Known(id)'
    <3>1. Lives(id)
      BY <1>1, Sources, Births
    <3> QED BY <2>1, <3>1 DEF Lives, Known
  <2>4. goroutine'[id].pc = "off"
    BY <2>1, <2>2, Goroutines DEF Spawn, Serving, SourceEnds, SourceTells, SourceArms
  <2>5. observing' # id
    <3>1. id # 0
      BY DEF Ids
    <3> QED BY <2>1, <3>1, ObservingMoves
  <2>6. ASSUME NEW c \in Clients
        PROVE  client'[c].view[id] = "unknown"
    <3>1. CASE Moves(c)
      BY <2>1, <3>1 DEF Moves
    <3>2. ASSUME NEW i \in Ids, NEW state, Tells(i, state), Hears(c, i, state)
          PROVE  client'[c].view[id] = "unknown"
      <4>1. i # id
        BY <2>1, <2>2, <3>2 DEF Tells, Announce, TellRemoved, SourceTells, AnnounceMode, Serving
      <4> QED BY <2>1, <3>2, <4>1 DEF Hears, TypeInv
    <3> QED BY <3>1, <3>2, ClientMoves
  <2> QED BY <2>3, <2>4, <2>5, <2>6
<1>2. ASSUME NEW v \in Workers, NEW w \in Workers, v # w, work'[w].pc = "attach",
             work'[v].id = work'[w].id
      PROVE  work'[v].pc = "delete" /\ work'[v].kind # "activate"
  <2>1. /\ \A u \in Workers : work[u].id \in 0 .. lastId /\ lastId \in Nat
        /\ \A u \in Workers : work[u].pc \notin Serving => work[u].id = 0
    BY DEF TypeInv
  <2>2. CASE work'[v] = work[v] /\ work'[w] = work[w]
    BY <1>2, <2>2 DEF Unheard
  <2>3. CASE work'[v] = work[v] /\ Turn(w)
    <3>1. \/ Find(w) \/ LockActive(w) \/ NextDrop(w) \/ NextAdd(w) \/ Activated(w)
      BY <1>2, <2>3 DEF Turn, Asks, Goes, Over, NoRequest
    <3>2. Find(w)
      BY <1>2, <3>1, SwitchFields DEF NoRequest
    <3>3. work'[w].id = lastId + 1
      BY <1>2, <3>2, FindFields
    <3> QED BY <1>2, <2>1, <2>3, <3>3
  <2>4. CASE Turn(v) /\ work'[w] = work[w]
    <3> DEFINE i == work[w].id
    <3>1. /\ work[w].pc = "attach" /\ i \in Ids /\ i # 0 /\ i <= lastId /\ Unborn(i) /\ ~Known(i) /\ ~Open(i)
      BY <1>2, <2>4, ServedIds DEF Serving, Unborn, Unheard, Known, Open, Ids
    <3>2. work'[v].id = i
      BY <1>2, <2>4
    <3>3. CASE Asks(v)
      BY <3>1, <3>2, <3>3 DEF Asks
    <3>4. CASE Find(v)
      BY <2>1, <3>1, <3>2, <3>4, FindFields
    <3>5. CASE Over(v)
      BY <3>1, <3>2, <3>5 DEF Over
    <3>6. CASE LockActive(v)
      <4>1. work[v].pc = "lock" /\ work[v].id = 0
        BY <2>1, <3>6 DEF LockActive, Serving
      <4>2. work'[v].id = work[v].id
        BY <3>6, SwitchFields
      <4> QED BY <3>1, <3>2, <4>1, <4>2
    <3>7. CASE NextDrop(v)
      <4>1. work[v].pc = "next" /\ work[v].id = 0
        BY <2>1, <3>7 DEF NextDrop, Serving
      <4>2. PICK t \in work[v].drop : work'[v].id \in Owned(t) \/ work'[v].id = work[v].id
        BY <3>7, SwitchFields
      <4> QED BY <3>1, <3>2, <4>1, <4>2 DEF Owned
    <3>8. CASE NextAdd(v)
      <4>1. work[v].pc = "next" /\ work[v].id = 0
        BY <2>1, <3>8 DEF NextAdd, Serving
      <4>2. work'[v].id = work[v].id
        BY <3>8, SwitchFields
      <4> QED BY <3>1, <3>2, <4>1, <4>2
    <3>9. CASE Activated(v)
      BY <3>1, <3>2, <3>9, SwitchFields DEF NoRequest
    <3>10. ASSUME NEW pc, Goes(v, pc), work[v].pc \in {"attach", "spawn", "delete", "arm"},
                  work[v].pc = "delete" => Known(work[v].id)
           PROVE  FALSE
      <4>1. work[v].id = i
        BY <3>2, <3>10 DEF Goes
      <4>2. work[v].pc = "delete"
        BY <1>2, <3>1, <4>1 DEF Unheard
      <4> QED BY <3>1, <3>10, <4>1, <4>2
    <3> QED BY <2>4, <3>3, <3>4, <3>5, <3>6, <3>7, <3>8, <3>9, <3>10
      DEF Turn, Attach, Spawn, Delete, ArmAfterRemove
  <2> QED BY <1>2, <2>2, <2>3, <2>4, Turns
<1> QED BY <1>1, <1>2 DEF Unheard

\* A source that is open was open, or was attached to an id nobody had heard of.
LEMMA StaysShut ==
  ASSUME TypeInv, Unheard, Step, NEW id \in Ids, Open(id)'
  PROVE  Open(id) \/ (Unborn(id) /\ \E w \in Workers : Birth(w, id))
<1>1. CASE Lives(id)
  BY <1>1 DEF Lives, Open
<1> QED BY <1>1, Sources, Births

\* What the removals do to the source they are about.
LEMMA Removals ==
  ASSUME TypeInv, NEW w \in Workers, Delete(w), Known(work[w].id)
  PROVE  /\ srcs'[work[w].id].state = "none"
         /\ \A id \in Ids \ {work[w].id} : srcs'[id] = srcs[id]
<1>1. work[w].id \in Ids
  BY ServedIds DEF Delete, Serving
<1>2. srcs[work[w].id] \in Source /\ srcs \in [Ids -> Source]
  BY <1>1 DEF TypeInv
<1>3. srcs' = [srcs EXCEPT ![work[w].id] = [srcs[work[w].id] EXCEPT !.state = "none"]]
  BY DEF Delete
<1>4. srcs'[work[w].id] = [srcs[work[w].id] EXCEPT !.state = "none"]
  BY <1>1, <1>2, <1>3
<1>5. srcs'[work[w].id].state = "none"
  BY <1>2, <1>4 DEF Source
<1> QED BY <1>1, <1>2, <1>3, <1>5

\* No end is announced of a source that is open.
LEMMA StaysTrue ==
  ASSUME TypeInv, TypeInv', EndInv, Step
  PROVE  EndsTrue' /\ NoFalseEnd'
<1>1. Unheard /\ EndsTrue /\ NoFalseEnd
  BY DEF EndInv
<1>2. ASSUME NEW w \in Workers, work'[w].pc \in {"arm", "tell"}
      PROVE  srcs'[work'[w].id].state # "open"
  <2>1. work'[w].id \in Ids
    <3>1. work'[w].id \in 1 .. lastId' /\ lastId' \in 0 .. MaxIds
      BY <1>2 DEF TypeInv, Serving
    <3> QED BY <3>1, RegistryAssumption DEF Ids
  <2>2. CASE work'[w] = work[w]
    <3>1. ~Open(work[w].id) /\ work[w].pc \in Serving
      BY <1>1, <1>2, <2>2 DEF EndsTrue, Serving
    <3>2. ~Unborn(work[w].id)
      BY <1>1, <1>2, <2>2, <3>1, UnbornServed
    <3>3. ASSUME NEW id \in Ids, id = work[w].id
          PROVE  ~Open(id)'
      BY <1>1, <3>1, <3>2, <3>3, StaysShut
    <3> QED BY <2>1, <2>2, <3>3 DEF Open
  <2>3. CASE Turn(w)
    <3>1. \/ Delete(w) /\ Known(work[w].id) /\ Goes(w, "arm")
          \/ ArmAfterRemove(w) /\ Goes(w, "tell")
      BY <1>2, <2>3, FindFields, SwitchFields DEF Turn, Asks, Goes, Over, NoRequest
    <3>2. CASE Delete(w) /\ Known(work[w].id) /\ Goes(w, "arm")
      BY <3>2, Removals DEF Goes
    <3>3. CASE ArmAfterRemove(w) /\ Goes(w, "tell")
      BY <1>1, <3>3 DEF Goes, EndsTrue, ArmAfterRemove, Open
    <3> QED BY <3>1, <3>2, <3>3
  <2> QED BY <2>2, <2>3, Turns
<1>3. ASSUME NEW id \in Ids, goroutine'[id].pc = "tell"
      PROVE  ~Open(id)'
  <2>1. CASE goroutine'[id].pc = goroutine[id].pc
    <3>1. ~Open(id) /\ ~Unborn(id)
      BY <1>1, <1>3, <2>1 DEF EndsTrue, Unheard
    <3> QED BY <1>1, <3>1, StaysShut
  <2>2. CASE SourceEnds(id) /\ Known(id)
    <3>1. srcs' = [srcs EXCEPT ![id] = [srcs[id] EXCEPT !.state = "ended"]]
      BY <2>2 DEF SourceEnds
    <3>2. srcs'[id] = [srcs[id] EXCEPT !.state = "ended"] /\ srcs[id] \in Source
      BY <3>1 DEF TypeInv
    <3> QED BY <3>2 DEF Open, Source
  <2> QED BY <1>3, <2>1, <2>2, Goroutines
<1>4. ASSUME NEW c \in Clients, NEW id \in Ids, client'[c].view[id] = "ended"
      PROVE  ~Open(id)'
  <2>1. CASE client[c].view[id] = "ended"
    <3>1. ~Open(id) /\ ~Unborn(id)
      BY <1>1, <2>1 DEF NoFalseEnd, Unheard
    <3> QED BY <1>1, <3>1, StaysShut
  <2>2. CASE Moves(c) /\ client[c].view[id] # "ended"
    <3>1. Snapshot(c) /\ srcs[id].state = "ended"
      BY <1>4, <2>2 DEF Moves
    <3> QED BY <3>1 DEF Snapshot, Open
  <2>3. ASSUME NEW i \in Ids, NEW state, Tells(i, state), Hears(c, i, state),
               client[c].view[id] # "ended"
        PROVE  ~Open(id)'
    <3>1. i = id /\ state = "ended"
      BY <1>4, <2>3 DEF Hears, TypeInv
    <3>2. ~Open(id) /\ UNCHANGED srcs
      BY <1>1, <2>3, <3>1 DEF Tells, TellRemoved, SourceTells, EndsTrue
    <3> QED BY <3>2 DEF Open
  <2> QED BY <2>1, <2>2, <2>3, ClientMoves
<1> QED BY <1>2, <1>3, <1>4 DEF EndsTrue, NoFalseEnd, Open

\* Nobody hears of an unattached source, and what is said of ends is so.
LEMMA EndInvHolds == Spec => []EndInv
<1>1. Init => EndInv
  <2> SUFFICES ASSUME Init PROVE EndInv
    OBVIOUS
  <2>1. \A w \in Workers : work[w].pc = "free"
    BY DEF Init, NoRequest
  <2>2. \A id \in Ids : /\ ~Known(id) /\ ~Open(id) /\ goroutine[id].pc = "off" /\ observing # id
                        /\ \A c \in Clients : client[c].view[id] = "unknown"
    <3>1. \A id \in Ids : id # 0
      BY DEF Ids
    <3> QED BY <3>1 DEF Init, Known, Open
  <2> QED BY <2>1, <2>2 DEF EndInv, Unheard, EndsTrue, NoFalseEnd
<1>2. TypeInv /\ TypeInv' /\ EndInv /\ [Next]_vars => EndInv'
  <2>1. ASSUME EndInv, UNCHANGED vars
        PROVE  EndInv'
    BY <2>1 DEF vars, moving, EndInv, Unheard, Unborn, EndsTrue, NoFalseEnd, Known, Open
  <2>2. ASSUME TypeInv, TypeInv', EndInv, Step
        PROVE  EndInv'
    BY <2>2, StaysUnheard, StaysTrue DEF EndInv
  <2> QED BY <2>1, <2>2 DEF Next
<1> QED BY <1>1, <1>2, TypeInvHolds, PTL DEF Spec

\* No client is told that a source has ended which is open: an end is recorded before
\* it is announced, by whoever sees it, and an id is never used again
\* (server.go:657-671, 680-693).
THEOREM NoFalseEndHolds == Spec => []NoFalseEnd
<1>1. EndInv => NoFalseEnd
  BY DEF EndInv
<1> QED BY <1>1, EndInvHolds, PTL

-----------------------------------------------------------------------------
(* Who tails what                                                          *)

\* Two workers that attach the same target, or one beside an open source of it, have
\* raced, and what they attach is the exception that OnlyRacesDouble makes.
LEMMA TailInvHolds == Spec => []TailInv
<1>1. Init => TailInv
  BY DEF Init, TailInv, OnlyRacesDouble, Open, NoRequest
<1>2. TypeInv /\ TypeInv' /\ EndInv /\ TailInv /\ [Next]_vars => TailInv'
  <2>1. ASSUME TailInv, UNCHANGED vars
        PROVE  TailInv'
    BY <2>1 DEF vars, moving, TailInv, OnlyRacesDouble, Open
  <2>2. ASSUME TypeInv, TypeInv', EndInv, TailInv, Step
        PROVE  TailInv'
    <3>1. past.raced \subseteq past'.raced /\ Unheard
      BY <2>2, Grows DEF EndInv
    <3>2. ASSUME NEW w \in Workers, work'[w].pc = "attach"
          PROVE  \/ work'[w] = work[w]
                 \/ /\ Find(w) /\ work'[w].target = work[w].target /\ Same(work[w]) = {}
                    /\ UNCHANGED srcs /\ \A v \in Workers \ {w} : work'[v] = work[v]
                    /\ \A v \in Workers : work[v].pc = "attach" /\ work[v].target = work[w].target
                         => work[w].target \in past'.raced
      <4>1. CASE Turn(w)
        <5>1. Find(w)
          BY <2>2, <3>2, <4>1, SwitchFields DEF Turn, Asks, Goes, Over, NoRequest
        <5>2. /\ work'[w].target = work[w].target /\ Same(work[w]) = {}
              /\ \A v \in Workers \ {w} : work'[v] = work[v]
              /\ past' = IF \E v \in Workers : work[v].pc = "attach" /\ work[v].target = work[w].target
                         THEN [past EXCEPT !.raced = @ \cup {work[w].target}] ELSE past
          BY <2>2, <3>2, <5>1, FindFields
        <5>3. past \in Past
          BY <2>2 DEF TypeInv
        <5> QED BY <5>1, <5>2, <5>3 DEF Find, Past
      <4> QED BY <2>2, <4>1, Turns
    <3>3. ASSUME NEW id \in Ids, Open(id)'
          PROVE  \/ Open(id) /\ srcs'[id].target = srcs[id].target
                 \/ \E w \in Workers : /\ work[w].pc = "attach" /\ work[w].id = id
                                       /\ srcs'[id].target = work[w].target
                                       /\ work'[w].pc = "spawn"
                                       /\ \A v \in Workers \ {w} : work'[v] = work[v]
                                       /\ \A i \in Ids \ {id} : Open(i)' => Open(i) /\ srcs'[i].target = srcs[i].target
      <4>1. CASE Lives(id)
        BY <3>3, <4>1 DEF Lives, Open
      <4>2. ASSUME NEW w \in Workers, Birth(w, id)
            PROVE  /\ work[w].pc = "attach" /\ work[w].id = id
                   /\ srcs'[id].target = work[w].target /\ work'[w].pc = "spawn"
                   /\ \A v \in Workers \ {w} : work'[v] = work[v]
                   /\ \A i \in Ids \ {id} : Open(i)' => Open(i) /\ srcs'[i].target = srcs[i].target
        <5>1. Attach(w) /\ To(w, "spawn") /\ work[w].id = id
          BY <4>2 DEF Birth, Attach
        <5>2. \A i \in Ids \ {id} : srcs'[i] = srcs[i]
          BY <2>2, <4>2, <5>1 DEF Birth, Attach, TypeInv
        <5> QED BY <2>2, <4>2, <5>1, <5>2, ToFields DEF Birth, Attach, Open, Pcs
      <4> QED BY <2>2, <4>1, <4>2, Sources
    <3>4. ASSUME NEW v \in Workers, NEW w \in Workers, v # w, work'[v].pc = "attach", work'[w].pc = "attach",
                 work'[v].target = work'[w].target
          PROVE  work'[v].target \in past'.raced
      BY <2>2, <3>1, <3>2, <3>4 DEF TailInv
    <3>5. ASSUME NEW w \in Workers, NEW id \in Ids, work'[w].pc = "attach", Open(id)',
                 srcs'[id].target = work'[w].target
          PROVE  work'[w].target \in past'.raced
      BY <2>2, <3>1, <3>2, <3>3, <3>5 DEF TailInv, Same, Open
    <3>6. ASSUME NEW i \in Ids, NEW j \in Ids, Open(i)', Open(j)', srcs'[i].target = srcs'[j].target, i # j
          PROVE  srcs'[i].target \in past'.raced
      BY <2>2, <3>1, <3>3, <3>6 DEF TailInv, OnlyRacesDouble
    <3> QED BY <3>4, <3>5, <3>6 DEF TailInv, OnlyRacesDouble
  <2> QED BY <2>1, <2>2 DEF Next
<1> QED BY <1>1, <1>2, TypeInvHolds, EndInvHolds, PTL DEF Spec

\* A target has one open source, unless two workers looked for it before either had
\* attached one (server.go:600-603).
THEOREM OnlyRacesDoubleHolds == Spec => []OnlyRacesDouble
<1>1. TailInv => OnlyRacesDouble
  BY DEF TailInv
<1> QED BY <1>1, TailInvHolds, PTL

-----------------------------------------------------------------------------
(* What a switch of the profile leaves                                     *)

\* What is active changes with the lock on it.
LEMMA ActiveMoves ==
  ASSUME Step
  PROVE  UNCHANGED active \/ \E w \in Workers : LockActive(w) \/ Activated(w)
BY Step DEF Step, Serve, Begin, AskAdd, AskRemove, AskActivate, Find, Fail, Spawn, Attach,
   Announce, Delete, TellRemoved, ArmAfterRemove, NextDrop, NextAdd, AnnounceMode, Observe,
   SourceEnds, SourceTells, SourceArms,
   Connect, Connection, Greet, Snapshot, Register, Unregister, Uncount, Leave, Session,
   TimerStep, TimerExpires, FireForgets, FireChecks, FireShutsDown, Fire, ClearSources

\* What a worker's turn does to its request, as far as a switch of the profile cares.
Enters(w) ==
  /\ LockActive(w) /\ work'[w].pc = "next" /\ work[w].kind = "activate" /\ work'[w].kind = "activate"
  /\ work'[w].owner = work[w].owner /\ active' = [active EXCEPT !.held = w]
  /\ work'[w].drop = active.refs \ Refs(work[w].owner)
  /\ work'[w].add = Refs(work[w].owner) \ active.refs /\ UNCHANGED srcs
Finishes(w) ==
  /\ Activated(w) /\ Switching(w) /\ work'[w] = NoRequest /\ UNCHANGED srcs
  /\ active' = [profile |-> work[w].owner, refs |-> Refs(work[w].owner), held |-> Nobody]
Frees(w) ==
  Over(w) /\ ~Switching(w) /\ work'[w] = NoRequest /\ UNCHANGED active /\ work[w].kind # "activate"
Carries(w) ==
  /\ UNCHANGED active /\ (Switching(w) <=> Switching(w)') /\ work'[w].kind = work[w].kind
  /\ work'[w].owner = work[w].owner /\ work[w].kind # "none"
  /\ work'[w].pc \notin {"free", "lock"}
  /\ work'[w].drop \subseteq work[w].drop /\ work'[w].add \subseteq work[w].add
  /\ work[w].kind # "activate" => work'[w].pc # "next"
Looks(w) ==
  /\ Find(w) /\ work'[w].target = work[w].target /\ work'[w].drop = work[w].drop
  /\ work[w].pc = "find" /\ UNCHANGED srcs
  /\ work'[w].pc \in {"announce", "attach"}
  /\ work'[w].pc = "attach" => Same(work[w]) = {}
Drops(w) ==
  /\ NextDrop(w) /\ UNCHANGED srcs /\ work[w].pc = "next" /\ Switching(w)
  /\ \E t \in work[w].drop :
       /\ work'[w].drop = work[w].drop \ {t}
       /\ \/ work'[w].pc = "delete" /\ work'[w].id \in Owned(t)
          \/ Owned(t) = {} /\ work'[w].pc = "next"
Adds(w) ==
  /\ NextAdd(w) /\ UNCHANGED srcs /\ work[w].pc = "next" /\ Switching(w)
  /\ work'[w].drop = work[w].drop /\ work'[w].pc = "find"
  /\ work'[w].target \in work[w].add
Proceeds(w) ==
  \/ Goes(w, "spawn") /\ work[w].pc = "attach" /\ Attach(w)
  \/ Goes(w, "announce") /\ work[w].pc = "spawn"
  \/ Goes(w, "arm") /\ Delete(w) /\ Known(work[w].id) /\ work[w].pc = "delete"
  \/ Goes(w, "tell") /\ work[w].pc = "arm"
Resumes(w) ==
  /\ Over(w) /\ work'[w].pc = "next" /\ work'[w].drop = work[w].drop /\ Switching(w)
  /\ work[w].pc = "delete" => ~Known(work[w].id)

\* A turn of a worker is one of these; which, depends on where it is.
LEMMA SwitchTurns ==
  ASSUME TypeInv, SwitchInv, NEW w \in Workers, Turn(w)
  PROVE  \/ Asks(w) /\ ~Switching(w) /\ UNCHANGED active
         \/ Enters(w) \/ Finishes(w) \/ Frees(w)
         \/ Carries(w) /\ (Looks(w) \/ Drops(w) \/ Adds(w) \/ Proceeds(w) \/ Resumes(w))
<1>1. /\ work[w].kind = "none" <=> work[w].pc = "free"
      /\ work[w].kind # "activate" => work[w].pc \notin {"lock", "next"}
  BY DEF SwitchInv, SwitchOf
<1>2. CASE Asks(w)
  BY <1>1, <1>2 DEF Asks, Switching
<1>3. CASE LockActive(w)
  BY <1>1, <1>3, SwitchFields DEF LockActive, Enters
<1>4. CASE Activated(w)
  BY <1>1, <1>4, SwitchFields DEF Activated, Switching, Finishes
<1>5. CASE Find(w)
  BY <1>1, <1>5, FindFields DEF Find, Switching, Carries, Looks
<1>6. CASE NextDrop(w)
  <2>1. PICK t \in work[w].drop :
              /\ work'[w].kind = work[w].kind /\ work'[w].owner = work[w].owner
              /\ work'[w].drop = work[w].drop \ {t} /\ work'[w].add = work[w].add
              /\ \/ work'[w].pc = "delete" /\ work'[w].id \in Owned(t)
                 \/ Owned(t) = {} /\ work'[w].pc = "next"
    BY <1>6, SwitchFields
  <2> QED BY <1>1, <1>6, <2>1 DEF NextDrop, Switching, Carries, Drops
<1>7. CASE NextAdd(w)
  <2>1. PICK t \in work[w].add :
              /\ work'[w].kind = work[w].kind /\ work'[w].owner = work[w].owner
              /\ work'[w].drop = work[w].drop /\ work'[w].add = work[w].add \ {t}
              /\ work'[w].pc = "find" /\ work'[w].target = t
    BY <1>7, SwitchFields
  <2> QED BY <1>1, <1>7, <2>1 DEF NextAdd, Switching, Carries, Adds
<1>8. CASE \/ Attach(w) /\ Goes(w, "spawn")
           \/ Spawn(w) /\ Goes(w, "announce")
           \/ Delete(w) /\ Known(work[w].id) /\ Goes(w, "arm")
           \/ ArmAfterRemove(w) /\ Goes(w, "tell")
  BY <1>1, <1>8 DEF Goes, Attach, Spawn, Delete, ArmAfterRemove, Switching, Carries, Proceeds
<1>9. CASE /\ \/ Fail(w) \/ Announce(w) \/ TellRemoved(w)
              \/ Spawn(w) /\ work[w].kind = "autostart"
              \/ Delete(w) /\ ~Known(work[w].id)
              \/ ArmAfterRemove(w) /\ work[w].kind = "removeQuietly"
           /\ Over(w)
  <2>1. /\ UNCHANGED active /\ work[w].pc \notin {"free", "lock", "next", "find"}
        /\ work[w].pc = "delete" => ~Known(work[w].id)
    BY <1>9 DEF Fail, Announce, TellRemoved, Spawn, Delete, ArmAfterRemove
  <2> QED BY <1>1, <1>9, <2>1 DEF Over, Switching, Carries, Resumes, Frees
<1> QED BY <1>2, <1>3, <1>4, <1>5, <1>6, <1>7, <1>8, <1>9, Turn(w) DEF Turn

\* A profile that is some owner declares.
LEMMA OwnerRefs ==
  ASSUME NEW p \in Profiles
  PROVE  p # NoProfile /\ Refs(p) = Declares[p]
BY RegistryAssumption DEF Refs

\* activeMu is held by the one worker that switches, and by no other.
LEMMA OneSwitches ==
  ASSUME TypeInv, SwitchInv, Step, NEW w \in Workers, Switching(w), work'[w] = work[w]
  PROVE  UNCHANGED active
<1>1. active.held = w /\ w # Nobody
  BY RegistryAssumption DEF SwitchInv, SwitchOf
<1>2. ASSUME NEW v \in Workers, LockActive(v)
      PROVE  FALSE
  BY <1>1, <1>2 DEF LockActive
<1>3. ASSUME NEW v \in Workers, Activated(v)
      PROVE  FALSE
  <2>1. Switching(v)
    BY <1>3 DEF Activated, Switching, SwitchInv, SwitchOf
  <2>2. v = w
    BY <1>1, <2>1 DEF SwitchInv, SwitchOf
  <2>3. work'[w] = NoRequest /\ work[w].pc = "next"
    BY <1>3, <2>2, SwitchFields DEF Activated
  <2> QED BY <2>3 DEF NoRequest
<1> QED BY <1>2, <1>3, ActiveMoves

\* What an activation works on while it holds activeMu.
LEMMA StaysSwitching ==
  ASSUME TypeInv, TypeInv', EndInv, SwitchInv, Step
  PROVE  SwitchInv'
<1>1. Unheard /\ Nobody \notin Workers
  BY RegistryAssumption DEF EndInv
<1>2. (active.refs = Refs(active.profile))'
  <2>1. \A w \in Workers : LockActive(w) => active'.refs = active.refs /\ active'.profile = active.profile
    BY DEF LockActive, TypeInv
  <2>2. ASSUME NEW w \in Workers, Activated(w)
        PROVE  active'.refs = Refs(active'.profile)
    BY <2>2 DEF Activated, Refs
  <2> QED BY <2>1, <2>2, ActiveMoves DEF SwitchInv, SwitchOf, Refs
<1>3. ASSUME NEW id \in Ids, Open(id)', srcs'[id].owner \in Profiles
      PROVE  srcs'[id].target \in Declares[srcs'[id].owner]
  <2>1. CASE Lives(id)
    BY <1>3, <2>1 DEF Lives, Open, SwitchInv, SwitchOf
  <2>2. ASSUME NEW w \in Workers, Birth(w, id)
        PROVE  srcs'[id].target \in Declares[srcs'[id].owner]
    <3>1. work[w].pc = "attach" /\ srcs'[id].owner = work[w].owner /\ srcs'[id].target = work[w].target
      BY <2>2 DEF Birth, Attach
    <3>2. Switching(w)
      BY <1>3, <3>1, OwnerRefs DEF SwitchInv, SwitchOf, Switching
    <3> QED BY <1>3, <3>1, <3>2, OwnerRefs DEF SwitchInv, SwitchOf
  <2> QED BY <2>1, <2>2, Sources
<1>4. ASSUME NEW id \in Ids, NEW w \in Workers, work[w].id = id, work[w].pc \in {"delete", "arm", "tell"},
             work[w].kind = "activate", srcs[id].owner \in Profiles
      PROVE  srcs'[id].owner \in Profiles
  <2>1. ~Unborn(id)
    BY <1>1, <1>4, UnbornServed DEF Serving
  <2> QED BY <1>1, <1>4, <2>1, Sources, Births DEF Lives
<1>5. ASSUME NEW w \in Workers, work'[w] = work[w]
      PROVE  SwitchOf(w)'
  <2>1. work'[w].kind = "activate" /\ work'[w].pc \in {"delete", "arm", "tell"} =>
          srcs'[work'[w].id].owner \in Profiles
    BY <1>4, <1>5, ServedIds DEF SwitchInv, SwitchOf, Serving
  <2>2. CASE Switching(w)
    <3>1. UNCHANGED active
      BY <1>5, <2>2, OneSwitches
    <3> QED BY <1>5, <2>1, <2>2, <3>1 DEF SwitchInv, SwitchOf, Switching, Refs
  <2>3. CASE ~Switching(w)
    <3>1. active.held # w /\ ~Switching(w)'
      BY <1>5, <2>3 DEF SwitchInv, SwitchOf, Switching
    <3>2. ASSUME NEW v \in Workers, LockActive(v)
          PROVE  active'.held # w
      <4>1. work'[v].pc = "next" /\ work[v].pc = "lock" /\ active'.held = v
        BY <3>2, SwitchFields DEF LockActive, TypeInv
      <4> QED BY <1>5, <4>1
    <3>3. active'.held # w
      BY <1>1, <3>1, <3>2, ActiveMoves DEF Activated
    <3> QED BY <1>5, <2>1, <3>1, <3>3 DEF SwitchInv, SwitchOf
  <2> QED BY <2>2, <2>3
<1>6. ASSUME NEW w \in Workers, Turn(w)
      PROVE  SwitchOf(w)'
  <2>1. /\ Switching(w) <=> active.held = w
        /\ work[w].kind = "none" <=> work[w].pc = "free"
        /\ work[w].kind # "activate" => work[w].owner = NoProfile
        /\ work[w].kind # "activate" => work[w].pc \notin {"lock", "next"}
        /\ Switching(w) => work[w].drop \subseteq active.refs /\ work[w].add \subseteq Refs(work[w].owner)
        /\ Switching(w) /\ work[w].pc \in {"find", "attach"} => work[w].target \in Refs(work[w].owner)
        /\ work[w].kind = "activate" /\ work[w].pc \in {"delete", "arm", "tell"} =>
             srcs[work[w].id].owner \in Profiles
    BY DEF SwitchInv, SwitchOf
  <2>2. CASE Asks(w) /\ ~Switching(w) /\ UNCHANGED active
    BY <2>1, <2>2 DEF Asks, Switching, SwitchOf
  <2>3. CASE Enters(w)
    <3>1. active'.held = w /\ active'.refs = active.refs
      BY <2>3 DEF TypeInv, Enters
    <3>2. Refs(work[w].owner)' = Refs(work[w].owner)
      BY <2>3 DEF Refs, Enters
    <3> QED BY <2>3, <3>1, <3>2 DEF Switching, Enters, SwitchOf
  <2>4. CASE Finishes(w)
    BY <1>1, <2>4 DEF NoRequest, Switching, Finishes, SwitchOf
  <2>5. CASE Frees(w)
    BY <2>1, <2>5 DEF NoRequest, Switching, Frees, SwitchOf
  <2> DEFINE Added   == Switching(w) /\ work'[w].pc \in {"find", "attach"} =>
                          work'[w].target \in Refs(work[w].owner)
             Dropped == work[w].kind = "activate" /\ work'[w].pc \in {"delete", "arm", "tell"} =>
                          srcs'[work'[w].id].owner \in Profiles
  <2>6. ASSUME Carries(w), Added, Dropped
        PROVE  SwitchOf(w)'
    <3>1. Refs(work[w].owner)' = Refs(work[w].owner)
      BY <2>6 DEF Refs, Carries
    <3> QED BY <2>1, <2>6, <3>1 DEF Carries, SwitchOf
  <2>7. ASSUME Looks(w)
        PROVE  Added /\ Dropped
    BY <2>1, <2>7 DEF Looks, Switching
  <2>8. ASSUME Drops(w)
        PROVE  Added /\ Dropped
    <3>1. PICK t \in work[w].drop :
                 \/ work'[w].pc = "delete" /\ work'[w].id \in Owned(t)
                 \/ Owned(t) = {} /\ work'[w].pc = "next"
      BY <2>8 DEF Drops
    <3>2. active.profile # NoProfile /\ active.profile \in Owners
      <4>1. active.refs = Refs(active.profile) /\ t \in active.refs /\ active.profile \in Owners
        BY <2>1, <2>8 DEF Drops, SwitchInv, SwitchOf, TypeInv
      <4> QED BY <4>1 DEF Refs
    <3>3. \A id \in Owned(t) : srcs[id].owner \in Profiles
      BY <3>2 DEF Owned, Owners
    <3> QED BY <2>8, <3>1, <3>3 DEF Drops
  <2>9. ASSUME Adds(w)
        PROVE  Added /\ Dropped
    BY <2>1, <2>9 DEF Adds
  <2>10. ASSUME Proceeds(w)
         PROVE  Added /\ Dropped
    <3>1. ASSUME work[w].kind = "activate", work'[w].pc \in {"delete", "arm", "tell"}
          PROVE  srcs'[work'[w].id].owner \in Profiles
      <4>1. work[w].pc \in {"delete", "arm"} /\ work'[w].id = work[w].id
        BY <2>10, <3>1 DEF Proceeds, Goes
      <4>2. work[w].id \in Ids
        BY <4>1, ServedIds DEF Serving
      <4> QED BY <1>4, <2>1, <3>1, <4>1, <4>2
    <3> QED BY <2>10, <3>1 DEF Proceeds, Goes
  <2>11. ASSUME Resumes(w)
         PROVE  Added /\ Dropped
    BY <2>11 DEF Resumes
  <2>12. CASE Carries(w) /\ (Looks(w) \/ Drops(w) \/ Adds(w) \/ Proceeds(w) \/ Resumes(w))
    <3> HIDE DEF Added, Dropped
    <3> QED BY <2>6, <2>7, <2>8, <2>9, <2>10, <2>11, <2>12
  <2> QED BY <1>6, <2>2, <2>3, <2>4, <2>5, <2>12, SwitchTurns
<1> QED BY <1>2, <1>3, <1>5, <1>6, Turns DEF SwitchInv, SwitchOf

\* A worker that attaches on behalf of a profile does so for an activation.
LEMMA OwnedBirths ==
  ASSUME SwitchInv, NEW id \in Ids, NEW w \in Workers, Birth(w, id), srcs'[id].owner \in Profiles
  PROVE  /\ Switching(w) /\ active.held = w /\ srcs'[id].owner = work[w].owner
         /\ srcs'[id].target = work[w].target
<1>1. work[w].pc = "attach" /\ srcs'[id].owner = work[w].owner /\ srcs'[id].target = work[w].target
  BY DEF Birth, Attach
<1> QED BY <1>1, OwnerRefs DEF SwitchInv, SwitchOf, Switching

\* A profile starts no target twice.
LEMMA StaysOwned ==
  ASSUME TypeInv, EndInv, SwitchInv, OneOwned, Step
  PROVE  OneOwned'
<1>1. Unheard
  BY DEF EndInv
<1>2. ASSUME NEW i \in Ids, NEW j \in Ids, i # j, Open(i)', Open(j)', srcs'[i].target = srcs'[j].target,
             srcs'[i].owner \in Profiles, srcs'[i].owner = srcs'[j].owner
      PROVE  FALSE
  <2>1. CASE Lives(i) /\ Lives(j)
    BY <1>2, <2>1 DEF Lives, Open, OneOwned
  <2>2. ASSUME NEW k \in {i, j}, NEW l \in {i, j}, k # l, NEW w \in Workers, Birth(w, k)
        PROVE  FALSE
    <3>1. work[w].pc = "attach" /\ srcs'[l] = srcs[l]
      BY <2>2, BirthAlone
    <3>2. Switching(w) /\ srcs'[k].target = work[w].target
      BY <1>2, <2>2, OwnedBirths
    <3> QED BY <1>2, <2>2, <3>1, <3>2 DEF OneOwned, Open
  <2> QED BY <1>2, <2>1, <2>2, Sources
<1>3. ASSUME NEW w \in Workers, NEW id \in Ids, work'[w].pc = "attach", Switching(w)', Open(id)',
             srcs'[id].owner \in Profiles, srcs'[id].target = work'[w].target
      PROVE  FALSE
  <2>1. CASE work'[w] = work[w]
    <3>1. work[w].pc = "attach" /\ Switching(w) /\ active.held = w
      BY <1>3, <2>1 DEF Switching, SwitchInv, SwitchOf
    <3>2. CASE Lives(id)
      BY <1>3, <2>1, <3>1, <3>2 DEF Lives, Open, OneOwned
    <3>3. ASSUME NEW v \in Workers, Birth(v, id)
          PROVE  FALSE
      <4>1. v = w
        BY <1>3, <3>1, <3>3, OwnedBirths
      <4> QED BY <2>1, <3>1, <3>3, <4>1, BirthAlone DEF Goes
    <3> QED BY <3>2, <3>3, Sources
  <2>2. CASE Turn(w)
    <3>1. Find(w)
      BY <1>3, <2>2, SwitchFields DEF Turn, Asks, Goes, Over, NoRequest
    <3>2. Same(work[w]) = {} /\ work'[w].target = work[w].target /\ UNCHANGED srcs
      BY <1>3, <3>1, FindFields DEF Find
    <3> QED BY <1>3, <3>2 DEF Same, Open
  <2> QED BY <2>1, <2>2, Turns
<1> QED BY <1>2, <1>3 DEF OneOwned

\* A switch drops all that the profile before started and the next does not declare.
LEMMA StaysDropping ==
  ASSUME TypeInv, EndInv, CleanInv, Step
  PROVE  Dropping'
<1>1. Unheard /\ Nobody \notin Workers /\ SwitchInv /\ OneOwned /\ Dropping
  BY RegistryAssumption DEF EndInv, CleanInv
<1>2. past.inherited \subseteq past'.inherited /\ past \in Past
  BY Grows DEF TypeInv
<1>3. ASSUME NEW id \in Ids, Open(id)', srcs'[id].owner \in Profiles
      PROVE  \/ srcs'[id].owner = active'.profile \/ id \in past'.inherited
             \/ \E w \in Workers : active'.held = w /\ srcs'[id].owner = work'[w].owner
  <2>1. ASSUME NEW w \in Workers, Birth(w, id)
        PROVE  active'.held = w /\ srcs'[id].owner = work'[w].owner
    BY <1>1, <1>3, <2>1, OwnedBirths, BirthAlone DEF Goes
  <2>2. ASSUME Lives(id)
        PROVE  /\ Open(id) /\ srcs'[id].owner = srcs[id].owner /\ srcs'[id].target = srcs[id].target
    BY <1>3, <2>2 DEF Lives, Open
  <2>3. ASSUME NEW w \in Workers, Activated(w), Lives(id)
        PROVE  srcs[id].owner = active'.profile \/ id \in past'.inherited
    <3>1. Switching(w) /\ active.held = w /\ work[w].pc = "next" /\ work[w].drop = {}
      BY <1>1, <2>3 DEF Activated, SwitchInv, SwitchOf, Switching
    <3>2. active'.profile = work[w].owner
      BY <2>3 DEF Activated
    <3>3. CASE srcs[id].owner # work[w].owner /\ srcs[id].target \in Refs(work[w].owner)
      <4> DEFINE X == {i \in Ids : Open(i) /\ srcs[i].owner \notin {work[w].owner, NoProfile}
                                           /\ srcs[i].target \in Refs(work[w].owner)}
      <4>1. past' = [past EXCEPT !.inherited = @ \cup X]
        BY <2>3 DEF Activated
      <4>2. id \in X
        BY <1>3, <2>2, <2>3, <3>3, OwnerRefs
      <4> HIDE DEF X
      <4> QED BY <1>2, <4>1, <4>2 DEF Past
    <3>4. CASE srcs[id].owner # work[w].owner /\ srcs[id].target \notin Refs(work[w].owner)
      <4>1. srcs[id].owner # active.profile
        BY <1>1, <1>3, <2>2, <2>3, <3>1, <3>4 DEF Dropping
      <4>2. id \in past.inherited
        BY <1>1, <1>3, <2>2, <2>3, <3>1, <3>4, <4>1 DEF Dropping
      <4> QED BY <1>2, <4>2
    <3> QED BY <3>2, <3>3, <3>4
  <2>4. ASSUME NEW w \in Workers, LockActive(w), Lives(id)
        PROVE  srcs[id].owner = active'.profile \/ id \in past'.inherited
    <3>1. active'.profile = active.profile /\ active.held = Nobody
      BY <2>4 DEF LockActive, TypeInv
    <3> QED BY <1>1, <1>2, <1>3, <2>2, <2>4, <3>1 DEF Dropping
  <2>5. ASSUME UNCHANGED active, Lives(id)
        PROVE  \/ srcs'[id].owner = active'.profile \/ id \in past'.inherited
               \/ \E w \in Workers : active'.held = w /\ srcs'[id].owner = work'[w].owner
    <3>1. CASE srcs[id].owner = active.profile \/ id \in past.inherited
      BY <1>2, <2>2, <2>5, <3>1
    <3>2. ASSUME NEW w \in Workers, active.held = w, srcs[id].owner = work[w].owner
          PROVE  active'.held = w /\ srcs'[id].owner = work'[w].owner
      <4>1. Switching(w)
        BY <1>1, <3>2 DEF SwitchInv, SwitchOf
      <4>2. ASSUME Turn(w)
            PROVE  Carries(w)
        <5>1. active'.held = w
          BY <2>5, <3>2
        <5>2. ~Finishes(w) /\ ~Frees(w)
          BY <1>1, <4>1, <5>1 DEF Finishes, Frees
        <5>3. ~Enters(w)
          BY <4>1 DEF Enters, LockActive, Switching
        <5> QED BY <1>1, <4>1, <4>2, <5>2, <5>3, SwitchTurns
      <4> QED BY <2>2, <2>5, <3>2, <4>2, Turns DEF Carries
    <3> QED BY <1>1, <1>3, <2>2, <2>5, <3>1, <3>2 DEF Dropping
  <2> QED BY <2>1, <2>2, <2>3, <2>4, <2>5, ActiveMoves, Sources
<1>4. ASSUME NEW w \in Workers, NEW id \in Ids, Switching(w)', Open(id)', srcs'[id].owner \in Profiles,
             srcs'[id].owner = active'.profile, srcs'[id].owner # work'[w].owner,
             srcs'[id].target \notin Refs(work'[w].owner)
      PROVE  srcs'[id].target \in work'[w].drop \/ (work'[w].pc = "delete" /\ work'[w].id = id)
  <2> DEFINE Left(x) == /\ Open(id) /\ srcs[id].owner \in Profiles /\ srcs[id].owner = active.profile
                        /\ srcs[id].owner # x /\ srcs[id].target \notin Refs(x)
  <2>1. ASSUME Switching(w), UNCHANGED active, work'[w].owner = work[w].owner
        PROVE  /\ Left(work[w].owner) /\ srcs'[id].target = srcs[id].target
               /\ srcs[id].target \in work[w].drop \/ (work[w].pc = "delete" /\ work[w].id = id)
    <3>1. active.held = w
      BY <1>1, <2>1 DEF SwitchInv, SwitchOf
    <3>2. ASSUME NEW v \in Workers, Birth(v, id)
          PROVE  FALSE
      <4>1. active.held = v /\ srcs'[id].owner = work[v].owner
        BY <1>1, <1>4, <3>2, OwnedBirths
      <4> QED BY <1>4, <2>1, <3>1, <4>1
    <3>3. Lives(id)
      BY <3>2, Sources
    <3>4. Left(work[w].owner) /\ srcs'[id].target = srcs[id].target
      BY <1>4, <2>1, <3>3 DEF Lives, Open
    <3> QED BY <1>1, <2>1, <3>4 DEF Dropping
  <2>2. CASE work'[w] = work[w]
    <3>1. Switching(w) /\ UNCHANGED active
      BY <1>1, <1>4, <2>2, OneSwitches DEF Switching
    <3> QED BY <2>1, <2>2, <3>1
  <2>3. CASE Turn(w) /\ Carries(w)
    <3>1. Switching(w) /\ UNCHANGED active /\ work'[w].owner = work[w].owner
      BY <1>4, <2>3 DEF Carries
    <3>2. /\ Left(work[w].owner) /\ srcs'[id].target = srcs[id].target
          /\ srcs[id].target \in work[w].drop \/ (work[w].pc = "delete" /\ work[w].id = id)
      BY <2>1, <3>1
    <3> HIDE DEF Left
    <3>3. CASE Looks(w) \/ Adds(w)
      BY <3>2, <3>3 DEF Looks, Adds
    <3>4. CASE Drops(w)
      <4>1. PICK t \in work[w].drop : /\ work'[w].drop = work[w].drop \ {t}
                                      /\ \/ work'[w].pc = "delete" /\ work'[w].id \in Owned(t)
                                         \/ Owned(t) = {} /\ work'[w].pc = "next"
        BY <3>4 DEF Drops
      <4>2. srcs[id].target \in work[w].drop
        BY <3>2, <3>4 DEF Drops
      <4>3. CASE srcs[id].target = t
        <5>1. id \in Owned(t)
          BY <3>2, <4>3 DEF Owned, Left
        <5>2. work'[w].pc = "delete" /\ work'[w].id \in Owned(t)
          BY <4>1, <5>1
        <5>3. \A i \in Owned(t) : i = id
          BY <1>1, <3>2, <5>1 DEF Owned, Left, OneOwned
        <5> QED BY <5>2, <5>3
      <4> QED BY <3>2, <4>1, <4>2, <4>3
    <3>5. CASE Proceeds(w)
      <4>1. work'[w].drop = work[w].drop
        BY <3>5 DEF Proceeds, Goes
      <4>2. ASSUME work[w].pc = "delete", work[w].id = id
            PROVE  FALSE
        <5>1. Delete(w) /\ Known(work[w].id)
          BY <3>5, <4>2 DEF Proceeds
        <5>2. srcs'[id].state = "none"
          BY <4>2, <5>1, Removals
        <5> QED BY <1>4, <5>2 DEF Open
      <4> QED BY <3>2, <4>1, <4>2
    <3>6. CASE Resumes(w)
      BY <3>2, <3>6 DEF Resumes, Left, Open, Known
    <3>7. ~Enters(w)
      BY <3>1 DEF Enters, LockActive, Switching
    <3>8. ~Finishes(w) /\ ~Frees(w)
      <4>1. Switching(w)'
        BY <1>4
      <4> QED BY <4>1 DEF Finishes, Frees, Switching, NoRequest
    <3> QED BY <1>1, <2>3, <3>1, <3>3, <3>4, <3>5, <3>6, <3>7, <3>8, SwitchTurns
  <2>4. CASE Enters(w)
    <3>1. /\ srcs'[id] = srcs[id] /\ work'[w].owner = work[w].owner /\ active'.profile = active.profile
          /\ work'[w].drop = active.refs \ Refs(work[w].owner) /\ Open(id)
      BY <1>4, <2>4 DEF Enters, TypeInv, Open
    <3>2. srcs[id].target \in active.refs
      BY <1>1, <1>4, <3>1, OwnerRefs DEF SwitchInv
    <3>3. Refs(work'[w].owner) = Refs(work[w].owner)
      BY <3>1
    <3> QED BY <1>4, <3>1, <3>2, <3>3
  <2>5. CASE Asks(w) \/ Finishes(w) \/ Frees(w)
    BY <1>4, <2>5 DEF Asks, Finishes, Frees, Switching, NoRequest
  <2> QED BY <1>1, <2>2, <2>3, <2>4, <2>5, Turns, SwitchTurns
<1> QED BY <1>3, <1>4 DEF Dropping

\* What is open on behalf of a profile, before, during and after a switch.
LEMMA CleanInvHolds == Spec => []CleanInv
<1>1. Init => CleanInv
  <2> SUFFICES ASSUME Init PROVE CleanInv
    OBVIOUS
  <2>1. /\ \A w \in Workers : /\ work[w].pc = "free" /\ work[w].kind = "none" /\ work[w].owner = NoProfile
                              /\ ~Switching(w) /\ active.held # w
        /\ \A id \in Ids : ~Open(id)
    BY RegistryAssumption DEF Init, NoRequest, Open, Switching
  <2>2. active.refs = Refs(active.profile)
    BY DEF Init, Refs
  <2> QED BY <2>1, <2>2 DEF CleanInv, SwitchInv, SwitchOf, OneOwned, Dropping
<1>2. TypeInv /\ TypeInv' /\ EndInv /\ CleanInv /\ [Next]_vars => CleanInv'
  <2>1. ASSUME CleanInv, UNCHANGED vars
        PROVE  CleanInv'
    BY <2>1 DEF vars, moving, CleanInv, SwitchInv, SwitchOf, OneOwned, Dropping, Switching, Open, Refs
  <2>2. ASSUME TypeInv, TypeInv', EndInv, CleanInv, Step
        PROVE  CleanInv'
    BY <2>2, StaysSwitching, StaysOwned, StaysDropping DEF CleanInv
  <2> QED BY <2>1, <2>2 DEF Next
<1> QED BY <1>1, <1>2, TypeInvHolds, EndInvHolds, PTL DEF Spec

\* A profile switch removes nothing that a profile did not start (server.go:332-333).
THEOREM ManualSurvivesHolds == Spec => []ManualSurvives
<1>1. CleanInv => ManualSurvives
  BY DEF CleanInv, SwitchInv, SwitchOf, ManualSurvives
<1> QED BY <1>1, CleanInvHolds, PTL

\* Between activations every open source that a profile started belongs to the active
\* one, or some profile since declared it too (server.go:329-333).
THEOREM SwitchCleansUpHolds == Spec => []SwitchCleansUp
<1>1. CleanInv => SwitchCleansUp
  BY RegistryAssumption DEF CleanInv, Dropping, SwitchCleansUp
<1> QED BY <1>1, CleanInvHolds, PTL

-----------------------------------------------------------------------------
(* What clients list                                                       *)

\* Until the shutdown, sources are closed one by one.
LEMMA StaysUp ==
  ASSUME Step, down' = "no"
  PROVE  down = "no" /\ ~ClearSources
BY DEF Step, Serve, Begin, AskAdd, AskRemove, AskActivate, Find, Fail, Spawn, Attach,
   Announce, Delete, TellRemoved, ArmAfterRemove, NextDrop, NextAdd, AnnounceMode, Observe,
   SourceEnds, SourceTells, SourceArms, LockActive, Activated, Running,
   Connect, Connection, Greet, Snapshot, Register, Unregister, Uncount, Leave, Session,
   TimerStep, TimerExpires, FireForgets, FireChecks, FireShutsDown, Fire, ClearSources

\* What is excused is listed.
LEMMA Excuses ==
  ASSUME TypeInv, NEW id \in Ids, NEW when, Excuse(id, when), when
  PROVE  id \in past'.excused
BY DEF TypeInv, Past, Excuse

\* An announcement ends the step it is of, and no other.
LEMMA TellsOnce ==
  ASSUME TypeInv, NEW i \in Ids, NEW state \in {"open", "ended"}, Tells(i, state)
  PROVE  /\ UNCHANGED srcs
         /\ \A id \in Ids \ {i} : (TellsEnd(id) => TellsEnd(id)') /\ (TellsOpen(id) => TellsOpen(id)')
<1>1. goroutine \in [Ids -> [pc : {"off", "run", "tell", "arm", "done"}, cancelled : BOOLEAN]]
  BY DEF TypeInv
<1>2. ASSUME NEW w \in Workers, work[w].id = i, Done(w), UNCHANGED goroutine
      PROVE  \A id \in Ids \ {i} : (TellsEnd(id) => TellsEnd(id)') /\ (TellsOpen(id) => TellsOpen(id)')
  BY <1>2, DoneFields DEF TellsEnd, TellsOpen
<1>3. ASSUME UNCHANGED work, \A id \in Ids \ {i} : goroutine'[id] = goroutine[id]
      PROVE  \A id \in Ids \ {i} : (TellsEnd(id) => TellsEnd(id)') /\ (TellsOpen(id) => TellsOpen(id)')
  BY <1>3 DEF TellsEnd, TellsOpen
<1>4. CASE \E w \in Workers : Announce(w) /\ work[w].id = i
  BY <1>2, <1>4 DEF Announce
<1>5. CASE \E w \in Workers : TellRemoved(w) /\ work[w].id = i
  BY <1>2, <1>5 DEF TellRemoved
<1>6. CASE SourceTells(i)
  <2>1. goroutine' = [goroutine EXCEPT ![i].pc = "arm"] /\ UNCHANGED <<work, srcs>>
    BY <1>6 DEF SourceTells
  <2>2. \A id \in Ids \ {i} : goroutine'[id] = goroutine[id]
    BY <1>1, <2>1
  <2> QED BY <1>3, <2>1, <2>2
<1>7. CASE AnnounceMode
  BY <1>3, <1>7 DEF AnnounceMode
<1> QED BY <1>4, <1>5, <1>6, <1>7, Tells(i, state) DEF Tells

\* A step that announces nothing leaves what is about to be announced.
LEMMA StaysPending ==
  ASSUME TypeInv, SpawnInv, Step, \A i \in Ids, state \in {"open", "ended"} : ~Tells(i, state), NEW id \in Ids
  PROVE  (TellsEnd(id) => TellsEnd(id)') /\ (TellsOpen(id) => TellsOpen(id)')
<1>1. ASSUME goroutine[id].pc = "tell"
      PROVE  goroutine'[id].pc = "tell"
  <2>1. ~SourceTells(id)
    BY DEF Tells
  <2>2. ~(\E w \in Workers : Spawn(w) /\ work[w].id = id)
    BY <1>1 DEF Spawn, SpawnInv
  <2> QED BY <1>1, <2>1, <2>2, Goroutines DEF SourceEnds, SourceArms
<1>2. ASSUME NEW w \in Workers, work[w].id = id, work[w].pc \in {"arm", "tell"},
             work[w].kind # "removeQuietly"
      PROVE  work'[w].id = id /\ work'[w].pc \in {"arm", "tell"} /\ work'[w].kind # "removeQuietly"
  <2>1. CASE Turn(w)
    <3>1. ArmAfterRemove(w) /\ Goes(w, "tell")
      BY <1>2, <2>1 DEF Turn, Tells, Asks, Find, LockActive, NextDrop, NextAdd, Activated, Attach, Spawn,
         Delete, Fail, Announce, TellRemoved, ArmAfterRemove
    <3> QED BY <1>2, <3>1 DEF Goes
  <2> QED BY <1>2, <2>1, Turns
<1>3. ASSUME NEW w \in Workers, work[w].id = id, work[w].pc \in {"spawn", "announce"},
             work[w].kind # "autostart"
      PROVE  work'[w].id = id /\ work'[w].pc \in {"spawn", "announce"} /\ work'[w].kind # "autostart"
  <2>1. CASE Turn(w)
    <3>1. Spawn(w) /\ Goes(w, "announce")
      BY <1>3, <2>1 DEF Turn, Tells, Asks, Find, LockActive, NextDrop, NextAdd, Activated, Attach, Spawn,
         Delete, Fail, Announce, TellRemoved, ArmAfterRemove
    <3> QED BY <1>3, <3>1 DEF Goes
  <2> QED BY <1>3, <2>1, Turns
<1> QED BY <1>1, <1>2, <1>3 DEF TellsEnd, TellsOpen

\* A source that somebody lists is closed by who tells of it, or is excused.
LEMMA ClosedTold ==
  ASSUME TypeInv, Step, down' = "no", NEW id \in Ids, Open(id), ~Open(id)'
  PROVE  TellsEnd(id)' \/ id \in past'.excused
<1>1. srcs \in [Ids -> Source]
  BY DEF TypeInv
<1>2. CASE \E w \in Workers : Delete(w)
  <2>1. PICK w \in Workers : Delete(w)
    BY <1>2
  <2>2. work[w].id = id /\ Known(id) /\ work[w].id \in Ids
    <3>1. Known(work[w].id)
      BY <2>1 DEF Delete, Open
    <3> QED BY <2>1, <3>1, Removals, ServedIds DEF Open, Delete, Serving
  <2>3. CASE work[w].kind = "removeQuietly"
    BY <2>1, <2>2, <2>3, Excuses DEF Delete
  <2>4. CASE work[w].kind # "removeQuietly"
    <3>1. To(w, "arm")
      BY <2>1, <2>2 DEF Delete
    <3> QED BY <2>2, <2>4, <3>1, ToFields DEF TellsEnd, Pcs
  <2> QED BY <2>3, <2>4
<1>3. CASE \E i \in Ids : SourceEnds(i)
  <2>1. PICK i \in Ids : SourceEnds(i)
    BY <1>3
  <2>2. i = id /\ Known(id)
    BY <1>1, <2>1 DEF SourceEnds, Open, Known
  <2>3. goroutine'[id].pc = "tell"
    BY <2>1, <2>2 DEF SourceEnds, TypeInv
  <2> QED BY <2>3 DEF TellsEnd
<1>4. CASE \E w \in Workers : Attach(w)
  <2>1. PICK w \in Workers : Attach(w)
    BY <1>4
  <2>2. work[w].id \in Ids
    BY <2>1, ServedIds DEF Attach, Serving
  <2> QED BY <1>1, <2>1, <2>2 DEF Attach, Open
<1>5. CASE \E i \in Ids, mode \in {"text", "json"} : Observe(i, mode)
  <2>1. PICK i \in Ids, mode \in {"text", "json"} : Observe(i, mode)
    BY <1>5
  <2>2. srcs' = [srcs EXCEPT ![i] = [srcs[i] EXCEPT !.mode = mode]] /\ srcs[i] \in Source
    BY <1>1, <2>1 DEF Observe
  <2>3. srcs'[id].state = srcs[id].state
    BY <1>1, <2>2 DEF Source
  <2> QED BY <2>3 DEF Open
<1> QED BY <1>2, <1>3, <1>4, <1>5, StaysUp, SourcesChange DEF Open

\* A source that opens is announced by who opened it, or is excused.
LEMMA OpenedTold ==
  ASSUME TypeInv, Unheard, Step, NEW id \in Ids, Open(id)', ~Open(id),
         \E c \in Clients : client[c].pc \in {"known", "live"}
  PROVE  TellsOpen(id)' \/ id \in past'.excused
<1>1. PICK w \in Workers : Birth(w, id)
  BY StaysShut
<1>2. CASE work[w].kind = "autostart"
  BY <1>1, <1>2, Excuses DEF Birth, Attach
<1>3. CASE work[w].kind # "autostart"
  BY <1>1, <1>3, Births DEF Goes, TellsOpen, Birth
<1> QED BY <1>2, <1>3

\* No goroutine is spawned twice.
LEMMA SpawnInvHolds == Spec => []SpawnInv
<1>1. Init => SpawnInv
  BY DEF Init, SpawnInv, NoRequest
<1>2. TypeInv /\ TypeInv' /\ EndInv /\ SpawnInv /\ [Next]_vars => SpawnInv'
  <2>1. ASSUME SpawnInv, UNCHANGED vars
        PROVE  SpawnInv'
    BY <2>1 DEF vars, moving, SpawnInv
  <2>2. ASSUME TypeInv, TypeInv', EndInv, SpawnInv, Step
        PROVE  SpawnInv'
    <3>1. ASSUME NEW w \in Workers, work'[w].pc = "spawn"
          PROVE  /\ work'[w].id = work[w].id /\ work[w].id \in Ids /\ goroutine[work[w].id].pc = "off"
                 /\ \/ work[w].pc = "spawn" /\ work'[w] = work[w]
                    \/ Attach(w) /\ \A v \in Workers \ {w} : work'[v] = work[v]
      <4>1. CASE work'[w] = work[w]
        BY <2>2, <3>1, <4>1, ServedIds DEF SpawnInv, Serving
      <4>2. CASE Turn(w) /\ \A v \in Workers \ {w} : work'[v] = work[v]
        <5>1. Attach(w) /\ Goes(w, "spawn")
          BY <2>2, <3>1, <4>2, FindFields, SwitchFields DEF Turn, Asks, Goes, Over, NoRequest
        <5>2. work[w].id \in Ids /\ Unborn(work[w].id)
          BY <2>2, <5>1, ServedIds DEF Attach, Serving, Unborn
        <5> QED BY <2>2, <4>2, <5>1, <5>2 DEF Goes, EndInv, Unheard
      <4> QED BY <2>2, <4>1, <4>2, Turns
    <3>2. ASSUME NEW v \in Workers, NEW w \in Workers, v # w, work'[v].pc = "spawn", work'[w].pc = "spawn",
                 work'[v].id = work'[w].id
          PROVE  FALSE
      <4>1. ASSUME NEW x \in {v, w}, NEW y \in {v, w}, x # y, Attach(x)
            PROVE  FALSE
        <5>1. work[x].pc = "attach" /\ work[y].pc # "delete" /\ work[x].id = work[y].id
          BY <3>1, <3>2, <4>1 DEF Attach
        <5> QED BY <2>2, <4>1, <5>1 DEF EndInv, Unheard
      <4> QED BY <2>2, <3>1, <3>2, <4>1 DEF SpawnInv
    <3>3. ASSUME NEW w \in Workers, work'[w].pc = "spawn"
          PROVE  goroutine'[work'[w].id].pc = "off"
      <4>1. ASSUME NEW v \in Workers, Spawn(v), work[v].id = work[w].id
            PROVE  FALSE
        <5>1. work[v].pc = "spawn" /\ work'[v].pc # "spawn"
          BY <2>2, <4>1, DoneFields, ToFields DEF Spawn, NoRequest, Pcs
        <5>2. v # w
          BY <3>3, <5>1
        <5>3. CASE work[w].pc = "spawn"
          BY <2>2, <4>1, <5>1, <5>2, <5>3 DEF SpawnInv
        <5>4. CASE work[w].pc = "attach"
          BY <2>2, <4>1, <5>1, <5>2, <5>4 DEF EndInv, Unheard
        <5>5. work[w].pc \in {"spawn", "attach"}
          BY <3>1, <3>3 DEF Attach
        <5> QED BY <5>3, <5>4, <5>5
      <4> QED BY <2>2, <3>1, <3>3, <4>1, Goroutines DEF SourceEnds, SourceTells, SourceArms
    <3> QED BY <3>2, <3>3 DEF SpawnInv
  <2> QED BY <2>1, <2>2 DEF Next
<1> QED BY <1>1, <1>2, TypeInvHolds, EndInvHolds, PTL DEF Spec

\* What a client lists is open, or the end of it is about to be announced; what is
\* open it lists, or is about to be told of.
LEMMA ListInvHolds == Spec => []ListInv
<1>1. Init => ListInv
  BY DEF Init, ListInv
<1>2. TypeInv /\ TypeInv' /\ EndInv /\ SpawnInv /\ ListInv /\ [Next]_vars => ListInv'
  <2>1. ASSUME ListInv, UNCHANGED vars
        PROVE  ListInv'
    BY <2>1 DEF vars, moving, ListInv, Open, TellsOpen, TellsEnd
  <2>2. ASSUME TypeInv, TypeInv', EndInv, SpawnInv, ListInv, Step, down' = "no",
               NEW c \in Clients, NEW id \in Ids \ past'.excused, client'[c].pc \in {"known", "live"}
        PROVE  /\ client'[c].view[id] = "open" => (Open(id) \/ TellsEnd(id))'
               /\ Open(id)' => client'[c].view[id] = "open" \/ TellsOpen(id)'
    <3>1. down = "no" /\ id \in Ids /\ id \notin past.excused /\ Unheard /\ EndsTrue
      BY <2>2, StaysUp, Grows DEF EndInv
    <3>2. client[c].pc \in {"known", "live"} =>
            /\ client[c].view[id] = "open" => Open(id) \/ TellsEnd(id)
            /\ Open(id) => client[c].view[id] = "open" \/ TellsOpen(id)
      BY <2>2, <3>1 DEF ListInv
    <3>3. ASSUME NEW i \in Ids, NEW state \in {"open", "ended"}, Tells(i, state)
          PROVE  /\ client'[c].view[id] = "open" => (Open(id) \/ TellsEnd(id))'
                 /\ Open(id)' => client'[c].view[id] = "open" \/ TellsOpen(id)'
      <4>1. Told(i, state)
        BY <3>3 DEF Tells, Announce, TellRemoved, SourceTells, AnnounceMode
      <4>5. Hears(c, i, state)
        BY <2>2, <4>1, ToldHeard
      <4>2. UNCHANGED srcs
        BY <2>2, <3>3, TellsOnce
      <4>3. CASE i # id
        <5>1. client'[c].view[id] = client[c].view[id] /\ client[c].pc \in {"known", "live"}
          BY <2>2, <4>3, <4>5 DEF Hears, TypeInv
        <5> QED BY <2>2, <3>1, <3>2, <3>3, <4>2, <4>3, <5>1, TellsOnce DEF Open
      <4>4. CASE i = id
        <5>1. ~(state = "open" /\ ~Open(id)) /\ client[c].pc # "known"
          BY <2>2, <3>1, <4>1, <4>4, Excuses DEF Told
        <5>2. client'[c].view[id] = state
          BY <2>2, <4>4, <4>5, <5>1 DEF Hears, TypeInv
        <5>3. state = "ended" => ~Open(id)
          BY <3>1, <3>3, <4>4 DEF Tells, EndsTrue, TellRemoved, SourceTells
        <5> QED BY <3>3, <4>2, <5>1, <5>2, <5>3 DEF Open
      <4> QED BY <4>3, <4>4
    <3>4. ASSUME \A i \in Ids, state \in {"open", "ended"} : ~Tells(i, state), UNCHANGED client
          PROVE  /\ client'[c].view[id] = "open" => (Open(id) \/ TellsEnd(id))'
                 /\ Open(id)' => client'[c].view[id] = "open" \/ TellsOpen(id)'
      BY <2>2, <3>1, <3>2, <3>4, StaysPending, ClosedTold, OpenedTold
    <3>5. ASSUME Moves(c), UNCHANGED <<srcs, goroutine, work>>
          PROVE  /\ client'[c].view[id] = "open" => (Open(id) \/ TellsEnd(id))'
                 /\ Open(id)' => client'[c].view[id] = "open" \/ TellsOpen(id)'
      <4>1. CASE client'[c].view = client[c].view /\ client[c].pc \in {"known", "live"}
        BY <3>2, <3>5, <4>1 DEF Open, TellsEnd, TellsOpen
      <4>2. CASE client'[c].view = [i \in Ids |-> IF Known(i) THEN srcs[i].state ELSE "unknown"]
        BY <3>1, <3>5, <4>2 DEF Open, Known
      <4> QED BY <2>2, <3>5, <4>1, <4>2 DEF Moves
    <3> QED BY <2>2, <3>3, <3>4, <3>5, ClientMoves
  <2> QED BY <2>1, <2>2 DEF Next, ListInv
<1> QED BY <1>1, <1>2, TypeInvHolds, EndInvHolds, SpawnInvHolds, PTL DEF Spec

\* A client that is connected lists as open the sources that are open, once all is
\* quiet, but for those that past.excused names (server.go:354-355).
THEOREM ListsAgreeHolds == Spec => []ListsAgree
<1>1. ListInv => ListsAgree
  BY DEF ListInv, ListsAgree, TellsOpen, TellsEnd
<1> QED BY <1>1, ListInvHolds, PTL
=============================================================================
