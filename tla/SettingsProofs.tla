--------------------------- MODULE SettingsProofs ---------------------------
(***************************************************************************)
(* Proofs about the configuration files of Settings: an edit is lost only  *)
(* to a save that had read the file before it, a choice of columns stands, *)
(* and a restart shows what the server showed, for any sources, profiles,  *)
(* settings, handlers and any number of requests and restarts.             *)
(*                                                                         *)
(* Values have no type here: whatever an item may hold, a file is a        *)
(* function of the items and a request a record with the fields of Idle.   *)
(***************************************************************************)
EXTENDS Settings, TLAPS

Pcs == {"free", "load", "save", "memory", "insert", "observe", "install", "announce"}

IsFile(c) == c = [i \in Items |-> c[i]]
IsRequest(r) ==
  /\ r = [pc |-> r.pc, kind |-> r.kind, file |-> r.file, edits |-> r.edits, read |-> r.read,
          sid |-> r.sid, rest |-> r.rest, missed |-> r.missed]
  /\ r.pc \in Pcs /\ r.file \in Files /\ DOMAIN r.edits \subseteq Items /\ r.missed \subseteq Items
IsRec(r) ==
  /\ r = [state |-> r.state, pinned |-> r.pinned, detector |-> r.detector, open |-> r.open,
          seen |-> r.seen]
  /\ r.state \in {"none", "in", "gone"} /\ r.detector \in BOOLEAN
IsPast(p) ==
  /\ p = [meant |-> p.meant, lost |-> p.lost, off |-> p.off, zeroed |-> p.zeroed,
          pinned |-> p.pinned, overtaken |-> p.overtaken]
  /\ p.meant = [f \in Files |-> p.meant[f]] /\ \A f \in Files : IsFile(p.meant[f])
  /\ p.pinned = [k \in Keys |-> p.pinned[k]]

\* What a worker is doing, and which items of which file its request may change.
Doing(r) ==
  \/ r.pc = "free"
  \/ r.pc \in {"observe", "install"} /\ r.kind = "none" /\ r.file = "user" /\ r.sid \in Sids
  \/ r.pc \in {"load", "save", "memory"} /\ r.kind \in {"save", "delete"} /\ DOMAIN r.edits \subseteq Names
  \/ r.pc \in {"load", "save"} /\ r.kind \in {"cliSave", "cliRemove"} /\ DOMAIN r.edits \subseteq Names
     /\ r.file = "user"
  \/ r.pc \in {"load", "save"} /\ r.kind \in {"cliUse", "config"} /\ r.file = "user"
     /\ DOMAIN r.edits \subseteq Fields /\ \A f \in DOMAIN r.edits : r.edits[f] \notin {Absent, Zero}
  \/ r.pc \in {"load", "save"} /\ r.kind = "autostart" /\ r.file = "user" /\ DOMAIN r.edits \subseteq {Autostart}
  \/ r.pc \in {"load", "save", "memory"} /\ r.kind = "pin" /\ r.file = "user" /\ DOMAIN r.edits \subseteq Keys
  \/ r.pc \in {"load", "save"} /\ r.kind = "unpin" /\ r.file = "user" /\ DOMAIN r.edits \subseteq Keys
  \/ r.pc \in {"load", "save", "announce"} /\ r.kind = "recommend" /\ r.file = "user" /\ r.sid \in Sids
     /\ DOMAIN r.edits = {Key[r.sid]}
  \/ r.pc \in {"load", "insert"} /\ r.kind = "attach" /\ r.file = "user" /\ r.sid \in Sids
     /\ DOMAIN r.edits = {}

\* No request changes a setting of another file than the user's.
Mild(r) == r.file # "user" => r.missed \cap Fields = {}

TypeInv ==
  /\ scenario \in Scenarios /\ asked \in 0 .. scenario.requests
  /\ disk = [f \in Files |-> disk[f]] /\ \A f \in Files : IsFile(disk[f])
  /\ memory = [n \in Names |-> memory[n]] /\ boot = [f \in Fields |-> boot[f]]
  /\ rec = [s \in Sids |-> rec[s]] /\ \A s \in Sids : IsRec(rec[s])
  /\ work = [w \in Workers |-> work[w]]
  /\ \A w \in Workers : IsRequest(work[w]) /\ Doing(work[w]) /\ Mild(work[w]) /\ work[w].rest \subseteq Sids
  /\ IsPast(past)

-----------------------------------------------------------------------------
(* Shapes                                                                  *)

\* What changing one value of a function leaves of it.
LEMMA Update ==
  ASSUME NEW S, NEW f, f = [x \in S |-> f[x]], NEW a \in S, NEW e
  PROVE  LET g == [f EXCEPT ![a] = e]
         IN g = [x \in S |-> g[x]] /\ g[a] = e /\ \A x \in S \ {a} : g[x] = f[x]
  OBVIOUS

\* A record with the fields of a request is one, and each field reads back.
LEMMA RequestFields ==
  ASSUME NEW pc \in Pcs, NEW kind, NEW file \in Files, NEW edits, DOMAIN edits \subseteq Items,
         NEW read, NEW sid, NEW rest, NEW missed \in SUBSET Items
  PROVE  LET r == [pc |-> pc, kind |-> kind, file |-> file, edits |-> edits, read |-> read,
                   sid |-> sid, rest |-> rest, missed |-> missed]
         IN /\ IsRequest(r) /\ r.pc = pc /\ r.kind = kind /\ r.file = file /\ r.edits = edits
            /\ r.read = read /\ r.sid = sid /\ r.rest = rest /\ r.missed = missed
  BY DEF IsRequest

\* Only the record of w changes, and stays a request.
Turns(w) ==
  /\ work' = [v \in Workers |-> work'[v]] /\ \A v \in Workers \ {w} : work'[v] = work[v]
  /\ IsRequest(work'[w])

\* The fields of a worker that has done with a request, or goes on with it.
LEMMA LeavesFields ==
  ASSUME TypeInv, NEW w \in Workers, NEW pc \in Pcs
  PROVE  LET r == Leaves(w, pc)
         IN /\ IsRequest(r) /\ r.pc = pc /\ r.rest = work[w].rest
            /\ pc # "free" => /\ r.kind = work[w].kind /\ r.file = work[w].file /\ r.edits = work[w].edits
                              /\ r.read = work[w].read /\ r.sid = work[w].sid /\ r.missed = work[w].missed
            /\ pc = "free" => /\ r.kind = "none" /\ r.file = "user" /\ r.edits = NoEdits
                              /\ r.sid = 0 /\ r.missed = {}
<1>1. CASE pc = "free"
  BY <1>1 DEF Leaves, Idle, IsRequest, NoEdits, Files, Pcs
<1>2. CASE pc # "free"
  BY <1>2 DEF Leaves, IsRequest, TypeInv
<1> QED BY <1>1, <1>2

\* So does a worker that goes from one step to the next.
LEMMA GoesFields ==
  ASSUME TypeInv, NEW w \in Workers, NEW pc \in Pcs, Goes(w, pc)
  PROVE  Turns(w) /\ work'[w] = Leaves(w, pc)
<1>1. work'[w] = Leaves(w, pc) /\ work' = [v \in Workers |-> work'[v]]
      /\ \A v \in Workers \ {w} : work'[v] = work[v]
  BY DEF Goes, TypeInv
<1> QED BY <1>1, LeavesFields DEF Turns

\* A request taken up.
LEMMA AskFields ==
  ASSUME TypeInv, NEW w \in Workers, NEW kind, NEW file \in Files, NEW edits, NEW sid,
         DOMAIN edits \subseteq Items, Ask(w, kind, file, edits, sid)
  PROVE  LET r == work'[w]
         IN /\ Turns(w) /\ r.pc = "load" /\ r.kind = kind /\ r.file = file /\ r.edits = edits
            /\ r.sid = sid /\ r.rest = {} /\ r.missed = {}
            /\ asked + 1 \in 1 .. scenario.requests
<1> DEFINE r == [Idle EXCEPT !.pc = "load", !.kind = kind, !.file = file, !.edits = edits, !.sid = sid]
<1>1. /\ r.pc = "load" /\ r.kind = kind /\ r.file = file /\ r.edits = edits
      /\ r.sid = sid /\ r.rest = {} /\ r.missed = {} /\ IsRequest(r)
  <2>0. r = [Idle EXCEPT !.pc = "load", !.kind = kind, !.file = file, !.edits = edits, !.sid = sid]
    OBVIOUS
  <2> HIDE DEF r
  <2>1. r = [pc |-> "load", kind |-> kind, file |-> file, edits |-> edits, read |-> NoEdits,
             sid |-> sid, rest |-> {}, missed |-> {}]
    BY <2>0 DEF Idle
  <2>2. "load" \in Pcs /\ {} \in SUBSET Items
    BY DEF Pcs
  <2> QED BY <2>1, <2>2, RequestFields
<1>2. work' = [work EXCEPT ![w] = r]
  BY DEF Ask
<1>3. /\ work' = [v \in Workers |-> work'[v]] /\ work'[w] = r
      /\ \A v \in Workers \ {w} : work'[v] = work[v]
  <2> HIDE DEF r
  <2> QED BY <1>2 DEF TypeInv
<1>4. asked + 1 \in 1 .. scenario.requests
  <2>1. scenario.requests \in 0 .. Len(Written) /\ Len(Written) \in Nat
    <3>1. Written \in Seq(ToSet(Written))
      BY SettingsAssumption
    <3>2. Len(Written) \in Nat
      BY <3>1
    <3> QED BY <3>2, SettingsAssumption DEF TypeInv
  <2>2. asked \in 0 .. scenario.requests /\ asked < scenario.requests
    BY DEF Ask, TypeInv
  <2> QED BY <2>1, <2>2
<1> HIDE DEF r
<1> QED BY <1>1, <1>3, <1>4 DEF Turns

\* The file as a worker has read it.
LEMMA LoadFields ==
  ASSUME TypeInv, NEW w \in Workers, Load(w)
  PROVE  LET r == work'[w]
         IN /\ Turns(w) /\ r.read = disk[work[w].file]
            /\ r.pc = (IF work[w].kind = "attach" THEN "insert" ELSE "save")
            /\ r.kind = work[w].kind /\ r.file = work[w].file /\ r.edits = work[w].edits
            /\ r.sid = work[w].sid /\ r.rest = work[w].rest /\ r.missed = work[w].missed
<1> DEFINE r == [work[w] EXCEPT !.pc = IF work[w].kind = "attach" THEN "insert" ELSE "save",
                                !.read = disk[work[w].file]]
<1>1. IsRequest(work[w])
  BY DEF TypeInv
<1>2. /\ IsRequest(r) /\ r.read = disk[work[w].file]
      /\ r.pc = (IF work[w].kind = "attach" THEN "insert" ELSE "save")
      /\ r.kind = work[w].kind /\ r.file = work[w].file /\ r.edits = work[w].edits
      /\ r.sid = work[w].sid /\ r.rest = work[w].rest /\ r.missed = work[w].missed
  <2>0. r = [work[w] EXCEPT !.pc = IF work[w].kind = "attach" THEN "insert" ELSE "save",
                           !.read = disk[work[w].file]]
    OBVIOUS
  <2> HIDE DEF r
  <2>1. r = [pc |-> r.pc, kind |-> work[w].kind, file |-> work[w].file, edits |-> work[w].edits,
             read |-> disk[work[w].file], sid |-> work[w].sid, rest |-> work[w].rest,
             missed |-> work[w].missed]
        /\ r.pc = (IF work[w].kind = "attach" THEN "insert" ELSE "save")
    BY <1>1, <2>0 DEF IsRequest
  <2>2. r.pc \in Pcs
    BY <2>1 DEF Pcs
  <2> QED BY <1>1, <2>1, <2>2, RequestFields DEF IsRequest
<1>3. work' = [work EXCEPT ![w] = r]
  BY DEF Load
<1>4. /\ work' = [v \in Workers |-> work'[v]] /\ work'[w] = r
      /\ \A v \in Workers \ {w} : work'[v] = work[v]
  <2> HIDE DEF r
  <2> QED BY <1>3 DEF TypeInv
<1> HIDE DEF r
<1> QED BY <1>2, <1>4 DEF Turns

\* What becomes of a worker whose file fails.
LEMMA FailFields ==
  ASSUME TypeInv, NEW w \in Workers, Fail(w)
  PROVE  LET r == work'[w]
         IN /\ Turns(w) /\ r.rest = work[w].rest
            /\ \/ /\ r.pc = "free" /\ r.kind = "none" /\ r.sid = 0 /\ r.missed = {} /\ r.file = "user"
                  /\ work[w].kind \notin {"attach", "pin", "recommend"}
               \/ /\ r.kind = work[w].kind /\ r.file = work[w].file /\ r.edits = work[w].edits
                  /\ r.sid = work[w].sid /\ r.missed = work[w].missed
                  /\ \/ r.kind = "attach" /\ r.pc = "insert"
                     \/ r.kind = "pin" /\ r.pc = "memory"
                     \/ r.kind = "recommend" /\ r.pc = "announce"
<1> DEFINE k == work[w].kind
           r == IF k = "attach" THEN [work[w] EXCEPT !.pc = "insert", !.read = Nothing]
                ELSE Leaves(w, IF k \in {"pin", "recommend"} THEN Afterwards(k) ELSE "free")
<1>1. work' = [work EXCEPT ![w] = r]
  BY DEF Fail
<1>2. /\ work' = [v \in Workers |-> work'[v]] /\ work'[w] = r
      /\ \A v \in Workers \ {w} : work'[v] = work[v]
  <2> HIDE DEF r
  <2> QED BY <1>1 DEF TypeInv
<1>3. CASE k = "attach"
  <2>1. IsRequest(work[w])
    BY DEF TypeInv
  <2>2. /\ IsRequest(r) /\ r.kind = work[w].kind /\ r.file = work[w].file /\ r.edits = work[w].edits
        /\ r.sid = work[w].sid /\ r.missed = work[w].missed /\ r.pc = "insert" /\ r.rest = work[w].rest
    BY <1>3, <2>1 DEF IsRequest, Pcs
  <2> HIDE DEF r
  <2> QED BY <1>2, <1>3, <2>2 DEF Turns
<1>4. CASE k \in {"pin", "recommend"}
  <2>1. Afterwards("pin") = "memory" /\ Afterwards("recommend") = "announce"
    BY DEF Afterwards
  <2>2. r = Leaves(w, Afterwards(k)) /\ Afterwards(k) \in Pcs \ {"free"}
    BY <1>4, <2>1 DEF Pcs
  <2> HIDE DEF r
  <2> QED BY <1>2, <1>4, <2>1, <2>2, LeavesFields DEF Turns
<1>5. CASE k \notin {"attach", "pin", "recommend"}
  <2>1. r = Leaves(w, "free") /\ "free" \in Pcs
    BY <1>5 DEF Pcs
  <2> HIDE DEF r
  <2> QED BY <1>2, <1>5, <2>1, LeavesFields DEF Turns
<1> QED BY <1>3, <1>4, <1>5

\* Columns installed, and on their way to the file.
LEMMA InstallFields ==
  ASSUME TypeInv, NEW w \in Workers, Install(w)
  PROVE  LET r == work'[w]
         IN /\ Turns(w) /\ r.rest = work[w].rest
            /\ \/ UNCHANGED rec /\ r.pc = "free" /\ r.kind = "none" /\ r.sid = 0 /\ r.missed = {} /\ r.file = "user"
               \/ /\ rec' = [rec EXCEPT ![work[w].sid].pinned = Recommendation(work[w].sid)[Key[work[w].sid]]]
                  /\ r.pc = "load" /\ r.kind = "recommend" /\ r.edits = Recommendation(work[w].sid)
                  /\ r.file = work[w].file /\ r.sid = work[w].sid /\ r.missed = work[w].missed
                  /\ DOMAIN r.edits = {Key[work[w].sid]}
<1>1. CASE UNCHANGED rec /\ Goes(w, "free")
  <2>1. "free" \in Pcs
    BY DEF Pcs
  <2> QED BY <1>1, <2>1, GoesFields, LeavesFields
<1>2. CASE ~(UNCHANGED rec /\ Goes(w, "free"))
  <2> DEFINE cols == Recommendation(work[w].sid)
             r == [work[w] EXCEPT !.pc = "load", !.kind = "recommend", !.edits = cols]
  <2>0. rec' = [rec EXCEPT ![work[w].sid].pinned = cols[Key[work[w].sid]]]
        /\ work' = [work EXCEPT ![w] = r]
    BY <1>2 DEF Install
  <2>1. DOMAIN cols = {Key[work[w].sid]}
    BY DEF Recommendation
  <2>2. IsRequest(work[w]) /\ Key[work[w].sid] \in Items
    BY SettingsAssumption DEF TypeInv, Items, Doing, Install
  <2> HIDE DEF cols
  <2>3. /\ IsRequest(r) /\ r.pc = "load" /\ r.kind = "recommend" /\ r.edits = cols
        /\ r.file = work[w].file /\ r.sid = work[w].sid /\ r.missed = work[w].missed
        /\ r.rest = work[w].rest
    <3>0. r = [work[w] EXCEPT !.pc = "load", !.kind = "recommend", !.edits = cols]
      OBVIOUS
    <3> HIDE DEF r
    <3>1. r = [pc |-> "load", kind |-> "recommend", file |-> work[w].file, edits |-> cols,
               read |-> work[w].read, sid |-> work[w].sid, rest |-> work[w].rest,
               missed |-> work[w].missed]
      BY <2>2, <3>0 DEF IsRequest
    <3>2. "load" \in Pcs
      BY DEF Pcs
    <3> QED BY <2>1, <2>2, <3>1, <3>2, RequestFields DEF IsRequest
  <2>4. /\ work' = [v \in Workers |-> work'[v]] /\ work'[w] = r
        /\ \A v \in Workers \ {w} : work'[v] = work[v]
    <3> HIDE DEF r
    <3> QED BY <2>0 DEF TypeInv
  <2> QED BY <2>0, <2>1, <2>3, <2>4 DEF Turns, cols
<1> QED BY <1>1, <1>2

\* A worker that takes up a source, or several.
LEMMA TakesFields ==
  ASSUME TypeInv, NEW w \in Workers, NEW q, IsRequest(q), work' = [work EXCEPT ![w] = q]
  PROVE  Turns(w) /\ work'[w] = q
<1>1. /\ work' = [v \in Workers |-> work'[v]] /\ work'[w] = q
      /\ \A v \in Workers \ {w} : work'[v] = work[v]
  BY DEF TypeInv
<1> QED BY <1>1 DEF Turns

\* The record of a background worker that takes up a source has nothing to write yet.
LEMMA TakenFields ==
  ASSUME NEW pc \in Pcs, NEW s, NEW rest, NEW q,
         q = [pc |-> pc, kind |-> "none", file |-> "user", edits |-> NoEdits, read |-> NoEdits,
              sid |-> s, rest |-> rest, missed |-> {}]
  PROVE  /\ q.pc = pc /\ q.kind = "none" /\ q.file = "user"
         /\ q.sid = s /\ q.rest = rest /\ q.missed = {} /\ IsRequest(q)
<1>1. DOMAIN NoEdits \subseteq Items /\ "user" \in Files /\ {} \in SUBSET Items
  BY DEF NoEdits, Files
<1> QED BY <1>1, RequestFields

\* The ingester takes up a line of a source (ingester.run).
LEMMA TakeLineFields ==
  ASSUME TypeInv, NEW s \in Sids, TakeLine(s)
  PROVE  LET r == work'["ingester"]
         IN /\ Turns("ingester") /\ r.pc = "observe" /\ r.kind = "none" /\ r.file = "user"
            /\ r.sid = s /\ r.rest = {} /\ r.missed = {}
<1> DEFINE q == [Idle EXCEPT !.pc = "observe", !.sid = s]
<1>1. work' = [work EXCEPT !["ingester"] = q] /\ q = [Idle EXCEPT !.pc = "observe", !.sid = s]
  BY DEF TakeLine
<1> HIDE DEF q
<1>2. q = [pc |-> "observe", kind |-> "none", file |-> "user", edits |-> NoEdits, read |-> NoEdits,
           sid |-> s, rest |-> {}, missed |-> {}]
  BY <1>1 DEF Idle
<1>3. "observe" \in Pcs /\ "ingester" \in Workers
  BY DEF Pcs, Workers
<1>4. IsRequest(q) /\ q.pc = "observe" /\ q.kind = "none" /\ q.file = "user"
      /\ q.sid = s /\ q.rest = {} /\ q.missed = {}
  BY <1>2, <1>3, TakenFields
<1> QED BY <1>1, <1>3, <1>4, TakesFields

\* The ticker goes on to the next source of its round, and keeps the others.
LEMMA TickNextFields ==
  ASSUME TypeInv, NEW s \in Sids, TickNext(s)
  PROVE  LET r == work'["ticker"]
         IN /\ Turns("ticker") /\ r.pc = "install" /\ r.kind = "none" /\ r.file = "user"
            /\ r.sid = s /\ r.rest = work["ticker"].rest \ {s} /\ r.missed = {}
<1> DEFINE rest == work["ticker"].rest \ {s}
           q == [Idle EXCEPT !.pc = "install", !.sid = s, !.rest = rest]
<1>1. work' = [work EXCEPT !["ticker"] = q]
      /\ q = [Idle EXCEPT !.pc = "install", !.sid = s, !.rest = rest]
  BY DEF TickNext
<1> HIDE DEF q, rest
<1>2. q = [pc |-> "install", kind |-> "none", file |-> "user", edits |-> NoEdits, read |-> NoEdits,
           sid |-> s, rest |-> rest, missed |-> {}]
  BY <1>1 DEF Idle
<1>3. "install" \in Pcs /\ "ticker" \in Workers
  BY DEF Pcs, Workers
<1>4. IsRequest(q) /\ q.pc = "install" /\ q.kind = "none" /\ q.file = "user"
      /\ q.sid = s /\ q.rest = rest /\ q.missed = {}
  BY <1>2, <1>3, TakenFields
<1> QED BY <1>1, <1>3, <1>4, TakesFields DEF rest

\* The ticker begins a round over the sources whose detection has expired.
LEMMA TickFields ==
  ASSUME TypeInv, NEW expired, Tick(expired)
  PROVE  LET r == work'["ticker"]
         IN /\ Turns("ticker") /\ r.pc = "free" /\ r.kind = "none" /\ r.file = "user"
            /\ r.sid = 0 /\ r.rest = expired /\ r.missed = {}
<1> DEFINE q == [Idle EXCEPT !.rest = expired]
<1>1. work' = [work EXCEPT !["ticker"] = q] /\ q = [Idle EXCEPT !.rest = expired]
  BY DEF Tick
<1> HIDE DEF q
<1>2. q = [pc |-> "free", kind |-> "none", file |-> "user", edits |-> NoEdits, read |-> NoEdits,
           sid |-> 0, rest |-> expired, missed |-> {}]
  BY <1>1 DEF Idle
<1>3. "free" \in Pcs /\ "ticker" \in Workers
  BY DEF Pcs, Workers
<1>4. IsRequest(q) /\ q.pc = "free" /\ q.kind = "none" /\ q.file = "user"
      /\ q.sid = 0 /\ q.rest = expired /\ q.missed = {}
  BY <1>2, <1>3, TakenFields
<1> QED BY <1>1, <1>3, <1>4, TakesFields

\* The same request, which has more items to put back.
Learns(v, items) ==
  LET r == work'[v]
  IN /\ IsRequest(r) /\ r.missed = work[v].missed \cup items
     /\ r.pc = work[v].pc /\ r.kind = work[v].kind /\ r.file = work[v].file
     /\ r.edits = work[v].edits /\ r.read = work[v].read /\ r.sid = work[v].sid
     /\ r.rest = work[v].rest

\* What follows the save of each kind of request.
LEMMA AfterwardsPcs ==
  ASSUME NEW kind
  PROVE  /\ kind \in {"save", "delete", "pin"} => Afterwards(kind) = "memory"
         /\ kind = "recommend" => Afterwards(kind) = "announce"
         /\ kind \notin {"save", "delete", "pin", "recommend"} => Afterwards(kind) = "free"
         /\ Afterwards(kind) \in Pcs
  BY DEF Afterwards, Pcs

\* A save: of the worker, of the others, and of the files.
LEMMA SaveFields ==
  ASSUME TypeInv, NEW w \in Workers, Save(w)
  PROVE  /\ work' = [v \in Workers |-> work'[v]]
         /\ work'[w] = Leaves(w, Afterwards(work[w].kind))
         /\ \A v \in Workers \ {w} :
              IF v \in Reading(work[w].file) THEN Learns(v, Changes(w) \cup work[w].missed)
              ELSE work'[v] = work[v]
         /\ disk' = [g \in Files |-> disk'[g]]
         /\ \A g \in Files : disk'[g] = IF g = work[w].file THEN Encode(Edited(w)) ELSE disk[g]
<1> DEFINE items == Changes(w) \cup (work[w].missed \ Changes(w))
<1>1. work' = [v \in Workers |->
                 IF v = w THEN Leaves(w, Afterwards(work[w].kind))
                 ELSE IF v \in Reading(work[w].file)
                      THEN [work[v] EXCEPT !.missed = @ \cup Changes(w) \cup (work[w].missed \ Changes(w))]
                 ELSE work[v]]
  BY DEF Save
<1>2. ASSUME NEW v \in Workers \ {w}, v \in Reading(work[w].file)
      PROVE  Learns(v, Changes(w) \cup work[w].missed)
  <2>1. work'[v] = [work[v] EXCEPT !.missed = work[v].missed \cup Changes(w) \cup (work[w].missed \ Changes(w))]
    BY <1>1, <1>2
  <2>2. IsRequest(work[v]) /\ IsRequest(work[w])
    BY DEF TypeInv
  <2>3. work[v].missed \cup Changes(w) \cup (work[w].missed \ Changes(w))
          = work[v].missed \cup (Changes(w) \cup work[w].missed)
    OBVIOUS
  <2>4. /\ work'[v].missed = work[v].missed \cup (Changes(w) \cup work[w].missed)
        /\ work'[v] = [pc |-> work[v].pc, kind |-> work[v].kind, file |-> work[v].file,
              edits |-> work[v].edits, read |-> work[v].read, sid |-> work[v].sid,
              rest |-> work[v].rest, missed |-> work'[v].missed]
    BY <2>1, <2>2, <2>3 DEF IsRequest
  <2>5. work'[v].missed \in SUBSET Items
    BY <2>2, <2>4 DEF IsRequest, Changes
  <2>6. /\ work[v].pc \in Pcs /\ work[v].file \in Files /\ DOMAIN work[v].edits \subseteq Items
    BY <2>2 DEF IsRequest
  <2> QED BY <2>4, <2>5, <2>6, RequestFields DEF Learns
<1>3. work[w].file \in Files
  BY DEF TypeInv, IsRequest
<1>4. disk' = [disk EXCEPT ![work[w].file] = Encode(Edited(w))]
  BY DEF Save
<1>5. /\ disk' = [g \in Files |-> disk'[g]]
      /\ \A g \in Files : disk'[g] = IF g = work[w].file THEN Encode(Edited(w)) ELSE disk[g]
  BY <1>3, <1>4 DEF TypeInv
<1> QED BY <1>1, <1>2, <1>5

\* What a save leaves in the file.
LEMMA EncodeFields ==
  ASSUME NEW w
  PROVE  LET c == Encode(Edited(w))
         IN /\ IsFile(c)
            /\ \A i \in Items \ Fields : c[i] = IF i \in Changes(w) THEN work[w].edits[i] ELSE work[w].read[i]
            /\ \A i \in Items \cap Fields :
                 LET v == IF i \in Changes(w) THEN work[w].edits[i] ELSE work[w].read[i]
                 IN c[i] = IF v = Absent THEN Zero ELSE v
  BY DEF Encode, Edited, IsFile

-----------------------------------------------------------------------------
(* Types                                                                   *)

\* A request that has been taken up and has read nothing yet.
Fresh(kind, file, edits, sid) ==
  [pc |-> "load", kind |-> kind, file |-> file, edits |-> edits, read |-> NoEdits,
   sid |-> sid, rest |-> {}, missed |-> {}]
Asks(w) ==
  \E kind \in Kinds, file \in Files : \E edits, sid :
    /\ Ask(w, kind, file, edits, sid)
    /\ DOMAIN edits \subseteq Items /\ Doing(Fresh(kind, file, edits, sid))

\* A request for a profile, by HTTP or from the command line, changes profiles alone.
LEMMA AsksNames ==
  ASSUME TypeInv, NEW w \in Handlers, NEW n \in Names
  PROVE  /\ AskCliSave(w, n) \/ AskCliRemove(w, n) => Asks(w)
         /\ \A f \in {"user", "repo"} : AskSave(w, n, f) \/ AskDelete(w, n, f) => Asks(w)
<1>1. n \in Items /\ {"user", "repo"} \subseteq Files /\ {"cliSave", "cliRemove", "save", "delete"} \subseteq Kinds
  BY SettingsAssumption DEF Items, Files, Cli
<1>2. ASSUME NEW x, NEW f \in Files
      PROVE  /\ DOMAIN Edit(n, x) \subseteq Items
             /\ Doing(Fresh("save", f, Edit(n, x), 0)) /\ Doing(Fresh("delete", f, Edit(n, x), 0))
             /\ Doing(Fresh("cliSave", "user", Edit(n, x), 0)) /\ Doing(Fresh("cliRemove", "user", Edit(n, x), 0))
  <2>1. DOMAIN Edit(n, x) = {n}
    BY DEF Edit
  <2> QED BY <1>1, <2>1 DEF Doing, Fresh
<1> QED BY <1>1, <1>2 DEF Asks, AskCliSave, AskCliRemove, AskSave, AskDelete

\* `profile use` and `config set` change settings, and never write the values of an absent
\* or an empty one.
LEMMA AsksUse ==
  ASSUME TypeInv, NEW w \in Handlers, NEW n \in Names
  PROVE  /\ AskCliUse(w, n) => Asks(w)
         /\ \A fs \in SUBSET Fields : AskConfig(w, fs) => Asks(w)
<1>1. DefaultProfile \in Fields /\ Fields \subseteq Items /\ "user" \in Files /\ {"cliUse", "config"} \subseteq Kinds
  BY SettingsAssumption DEF Items, Files, Cli
<1>2. asked < scenario.requests => Value \notin {Absent, Zero}
  <2>1. Written \in Seq(ToSet(Written)) /\ {Absent, Zero} \cap ToSet(Written) = {}
    BY SettingsAssumption
  <2>2. Len(Written) \in Nat /\ DOMAIN Written = 1 .. Len(Written)
    BY <2>1
  <2>3. scenario.requests \in 0 .. Len(Written) /\ asked \in 0 .. scenario.requests
    BY SettingsAssumption DEF TypeInv
  <2>4. asked < scenario.requests => asked + 1 \in DOMAIN Written
    BY <2>2, <2>3
  <2> QED BY <2>1, <2>4 DEF Value, ToSet
<1>3. ASSUME NEW fs \in SUBSET Fields, AskConfig(w, fs)
      PROVE  Asks(w)
  <2>1. asked < scenario.requests
    BY <1>3 DEF AskConfig, Ask
  <2>2. DOMAIN [f \in fs |-> Value] = fs /\ \A f \in fs : [g \in fs |-> Value][f] = Value
    OBVIOUS
  <2> DEFINE edits == [f \in fs |-> Value]
  <2> HIDE DEF edits
  <2>3. Doing(Fresh("config", "user", edits, 0)) /\ DOMAIN edits \subseteq Items
    BY <1>1, <1>2, <2>1, <2>2 DEF Doing, Fresh, edits
  <2>4. Ask(w, "config", "user", edits, 0)
    BY <1>3 DEF AskConfig, edits
  <2> QED BY <1>1, <2>3, <2>4 DEF Asks
<1>4. ASSUME AskCliUse(w, n)
      PROVE  Asks(w)
  <2>1. asked < scenario.requests
    BY <1>4 DEF AskCliUse, Ask
  <2> DEFINE edits == Edit(DefaultProfile, Value)
  <2>2. DOMAIN edits = {DefaultProfile} /\ edits[DefaultProfile] = Value
    BY DEF Edit
  <2> HIDE DEF edits
  <2>3. Doing(Fresh("cliUse", "user", edits, 0)) /\ DOMAIN edits \subseteq Items
    BY <1>1, <1>2, <2>1, <2>2 DEF Doing, Fresh
  <2>4. Ask(w, "cliUse", "user", edits, 0)
    BY <1>4 DEF AskCliUse, edits
  <2> QED BY <1>1, <2>3, <2>4 DEF Asks
<1> QED BY <1>3, <1>4

\* The other requests: autostart, the choice of columns or its removal, an attach.
LEMMA AsksOther ==
  ASSUME TypeInv, NEW w \in Handlers
  PROVE  /\ \A empty \in BOOLEAN : AskAutostart(w, empty) => Asks(w)
         /\ \A k \in Keys : AskPin(w, k) \/ AskUnpin(w, k) => Asks(w)
         /\ \A s \in Sids : AskAttach(w, s) => Asks(w)
<1>1. Keys \cup {Autostart} \subseteq Items /\ "user" \in Files
      /\ {"autostart", "pin", "unpin", "attach"} \subseteq Kinds
  BY SettingsAssumption DEF Items, Files, Cli
<1>2. ASSUME NEW x, NEW k
      PROVE  DOMAIN Edit(k, x) = {k}
  BY DEF Edit
<1>3. ASSUME NEW x
      PROVE  Doing(Fresh("autostart", "user", Edit(Autostart, x), 0)) /\ DOMAIN Edit(Autostart, x) \subseteq Items
  BY <1>1, <1>2 DEF Doing, Fresh
<1>4. ASSUME NEW x, NEW k \in Keys
      PROVE  /\ Doing(Fresh("pin", "user", Edit(k, x), 0)) /\ Doing(Fresh("unpin", "user", Edit(k, x), 0))
             /\ DOMAIN Edit(k, x) \subseteq Items
  <2>1. DOMAIN Edit(k, x) = {k}
    BY <1>2
  <2> QED BY <1>1, <2>1 DEF Doing, Fresh
<1>5. ASSUME NEW s \in Sids
      PROVE  Doing(Fresh("attach", "user", NoEdits, s)) /\ DOMAIN NoEdits \subseteq Items
  BY DEF Doing, Fresh, NoEdits
<1>6. \A empty \in BOOLEAN : AskAutostart(w, empty) => Asks(w)
  BY <1>1, <1>3 DEF Asks, AskAutostart
<1>7. \A k \in Keys : AskPin(w, k) \/ AskUnpin(w, k) => Asks(w)
  BY <1>1, <1>4 DEF Asks, AskPin, AskUnpin
<1>8. \A s \in Sids : AskAttach(w, s) => Asks(w)
  BY <1>1, <1>5 DEF Asks, AskAttach
<1> QED BY <1>6, <1>7, <1>8

\* A step of the files, of the server or of a command: by a worker, or not.
WorkerStep(w) ==
  \/ Asks(w) \/ Load(w) \/ Fail(w) \/ Save(w) \/ Install(w) \/ Announce(w)
  \/ CopyProfiles(w) \/ CopyPin(w) \/ Insert(w) \/ NothingToRemove(w)
SourceStep ==
  \/ \E s \in Sids : RemoveSource(s) \/ TakeLine(s) \/ TickNext(s)
  \/ \E e \in scenario.entries : Observe(e)
  \/ \E expired \in SUBSET Sids : Tick(expired)

\* A step is of one worker, of a source, a restart, or changes nothing.
LEMMA Steps ==
  ASSUME TypeInv, [Next]_vars
  PROVE  (\E w \in Workers : WorkerStep(w)) \/ SourceStep \/ Restart \/ UNCHANGED vars
<1> Handlers \subseteq Workers
  BY DEF Workers
<1>1. ASSUME NEW w \in Handlers, NEW n \in Names,
             \/ AskCliSave(w, n) \/ AskCliRemove(w, n) \/ AskCliUse(w, n)
             \/ \E f \in {"user", "repo"} : AskSave(w, n, f) \/ AskDelete(w, n, f)
      PROVE  Asks(w)
  BY <1>1, AsksNames, AsksUse
<1>2. ASSUME NEW w \in Handlers,
             \/ \E fs \in SUBSET Fields : AskConfig(w, fs)
             \/ \E empty \in BOOLEAN : AskAutostart(w, empty)
             \/ \E k \in Keys : AskPin(w, k) \/ AskUnpin(w, k)
             \/ \E s \in Sids : AskAttach(w, s)
      PROVE  Asks(w)
  BY <1>2, AsksUse, AsksOther, SettingsAssumption
<1> QED BY <1>1, <1>2 DEF Next, WorkerStep, SourceStep

\* A turn of a worker that changes its own record only: what becomes of it.
LEMMA TurnTypes ==
  ASSUME TypeInv, NEW w \in Workers, Turns(w), Doing(work'[w]), Mild(work'[w]),
         work'[w].rest \subseteq Sids
  PROVE  /\ work' = [v \in Workers |-> work'[v]]
         /\ \A v \in Workers : /\ IsRequest(work'[v]) /\ Doing(work'[v]) /\ Mild(work'[v])
                               /\ work'[v].rest \subseteq Sids
  BY DEF Turns, TypeInv

\* Requests stay requests, whatever a worker does.
LEMMA WorkTypes ==
  ASSUME TypeInv, NEW w \in Workers, WorkerStep(w)
  PROVE  /\ work' = [v \in Workers |-> work'[v]]
         /\ \A v \in Workers : /\ IsRequest(work'[v]) /\ Doing(work'[v]) /\ Mild(work'[v])
                               /\ work'[v].rest \subseteq Sids
<1> DEFINE r == work'[w]
<1>0. /\ IsRequest(work[w]) /\ Doing(work[w]) /\ Mild(work[w]) /\ work[w].rest \subseteq Sids
  BY DEF TypeInv
<1>1. CASE Asks(w)
  <2>1. PICK kind \in Kinds, file \in Files :
          \E edits, sid : Ask(w, kind, file, edits, sid) /\ DOMAIN edits \subseteq Items
                          /\ Doing(Fresh(kind, file, edits, sid))
    BY <1>1 DEF Asks
  <2>2. PICK edits, sid : Ask(w, kind, file, edits, sid) /\ DOMAIN edits \subseteq Items
                          /\ Doing(Fresh(kind, file, edits, sid))
    BY <2>1
  <2>3. /\ Turns(w) /\ r.pc = "load" /\ r.kind = kind /\ r.file = file /\ r.edits = edits
        /\ r.sid = sid /\ r.rest = {} /\ r.missed = {}
    BY <2>2, AskFields
  <2>4. Doing(r)
    BY <2>2, <2>3 DEF Doing, Fresh
  <2> QED BY <2>3, <2>4, TurnTypes DEF Mild
<1>2. CASE Load(w)
  <2>1. /\ Turns(w) /\ r.pc = (IF work[w].kind = "attach" THEN "insert" ELSE "save")
        /\ r.kind = work[w].kind /\ r.file = work[w].file /\ r.edits = work[w].edits
        /\ r.sid = work[w].sid /\ r.rest = work[w].rest /\ r.missed = work[w].missed
    BY <1>2, LoadFields
  <2>2. work[w].pc = "load"
    BY <1>2 DEF Load
  <2>3. Doing(r)
    BY <1>0, <2>1, <2>2 DEF Doing
  <2> QED BY <1>0, <2>1, <2>3, TurnTypes DEF Mild
<1>3. CASE Fail(w)
  <2>1. work[w].pc \in {"load", "save"}
    BY <1>3 DEF Fail
  <2>2. Turns(w) /\ r.rest = work[w].rest
    BY <1>3, FailFields
  <2>3. CASE r.pc = "free" /\ r.missed = {}
    BY <1>0, <2>2, <2>3, TurnTypes DEF Mild, Doing
  <2>4. CASE /\ r.kind = work[w].kind /\ r.file = work[w].file /\ r.edits = work[w].edits
             /\ r.sid = work[w].sid /\ r.missed = work[w].missed
             /\ \/ r.kind = "attach" /\ r.pc = "insert"
                \/ r.kind = "pin" /\ r.pc = "memory"
                \/ r.kind = "recommend" /\ r.pc = "announce"
    <3>1. Doing(r)
      BY <1>0, <2>1, <2>4 DEF Doing
    <3> QED BY <1>0, <2>2, <2>4, <3>1, TurnTypes DEF Mild
  <2> QED BY <1>3, <2>3, <2>4, FailFields
<1>4. CASE Save(w)
  <2> DEFINE k == work[w].kind
  <2>1. work[w].pc = "save"
    BY <1>4 DEF Save
  <2>2. /\ work' = [v \in Workers |-> work'[v]] /\ r = Leaves(w, Afterwards(k))
        /\ \A v \in Workers \ {w} :
             IF v \in Reading(work[w].file) THEN Learns(v, Changes(w) \cup work[w].missed)
             ELSE work'[v] = work[v]
    BY <1>4, SaveFields
  <2>3. Afterwards(k) \in Pcs
    BY AfterwardsPcs
  <2>4. /\ IsRequest(r) /\ r.pc = Afterwards(k) /\ r.rest = work[w].rest
        /\ Afterwards(k) # "free" => /\ r.kind = k /\ r.file = work[w].file /\ r.edits = work[w].edits
                                     /\ r.sid = work[w].sid /\ r.missed = work[w].missed
        /\ Afterwards(k) = "free" => r.missed = {}
    BY <2>2, <2>3, LeavesFields
  <2>5. Doing(r)
    BY <1>0, <2>1, <2>4, AfterwardsPcs DEF Doing
  <2>6. Mild(r)
    BY <1>0, <2>4 DEF Mild
  <2>7. ASSUME NEW v \in Workers \ {w}
        PROVE  IsRequest(work'[v]) /\ Doing(work'[v]) /\ Mild(work'[v]) /\ work'[v].rest \subseteq Sids
    <3>1. IsRequest(work[v]) /\ Doing(work[v]) /\ Mild(work[v]) /\ work[v].rest \subseteq Sids
      BY DEF TypeInv
    <3>2. CASE v \in Reading(work[w].file)
      <4>1. Learns(v, Changes(w) \cup work[w].missed) /\ work[v].file = work[w].file
        BY <2>2, <3>2 DEF Reading
      <4>2. Doing(work'[v])
        BY <3>1, <4>1 DEF Doing, Learns
      <4>3. work[w].file # "user" => Changes(w) \cap Fields = {} /\ work[w].missed \cap Fields = {}
        BY <1>0, <2>1, SettingsAssumption DEF Doing, Mild, Changes
      <4>4. Mild(work'[v])
        BY <3>1, <4>1, <4>3 DEF Mild, Learns
      <4> QED BY <3>1, <4>1, <4>2, <4>4 DEF Learns
    <3>3. CASE v \notin Reading(work[w].file)
      BY <2>2, <3>1, <3>3
    <3> QED BY <3>2, <3>3
  <2> QED BY <1>0, <2>2, <2>4, <2>5, <2>6, <2>7
<1>5. CASE Install(w)
  <2>1. work[w].pc = "install"
    BY <1>5 DEF Install
  <2>2. /\ Turns(w) /\ r.rest = work[w].rest
        /\ \/ r.pc = "free" /\ r.missed = {}
           \/ /\ r.pc = "load" /\ r.kind = "recommend" /\ DOMAIN r.edits = {Key[work[w].sid]}
              /\ r.file = work[w].file /\ r.sid = work[w].sid /\ r.missed = work[w].missed
    BY <1>5, InstallFields
  <2>3. Doing(r) /\ Mild(r)
    BY <1>0, <2>1, <2>2 DEF Doing, Mild
  <2> QED BY <1>0, <2>2, <2>3, TurnTypes
<1>6. ASSUME Goes(w, "free")
      PROVE  /\ work' = [v \in Workers |-> work'[v]]
             /\ \A v \in Workers : /\ IsRequest(work'[v]) /\ Doing(work'[v]) /\ Mild(work'[v])
                                   /\ work'[v].rest \subseteq Sids
  <2>1. "free" \in Pcs
    BY DEF Pcs
  <2>2. Turns(w) /\ r.pc = "free" /\ r.missed = {} /\ r.rest = work[w].rest
    BY <1>6, <2>1, GoesFields, LeavesFields
  <2>3. Doing(r) /\ Mild(r)
    BY <2>2 DEF Doing, Mild
  <2> QED BY <1>0, <2>2, <2>3, TurnTypes
<1>7. CASE Announce(w) \/ CopyProfiles(w) \/ CopyPin(w) \/ Insert(w) \/ NothingToRemove(w)
  <2>1. Goes(w, "free")
    BY <1>7 DEF Announce, CopyProfiles, CopyPin, Insert, NothingToRemove
  <2> QED BY <2>1, <1>6
<1> QED BY <1>1, <1>2, <1>3, <1>4, <1>5, <1>7 DEF WorkerStep

\* And whatever the server does with its sources.
LEMMA SourceWorkTypes ==
  ASSUME TypeInv, SourceStep
  PROVE  /\ work' = [v \in Workers |-> work'[v]]
         /\ \A v \in Workers : /\ IsRequest(work'[v]) /\ Doing(work'[v]) /\ Mild(work'[v])
                               /\ work'[v].rest \subseteq Sids
<1>0. "ingester" \in Workers /\ "ticker" \in Workers /\ "free" \in Pcs /\ "install" \in Pcs
  BY DEF Workers, Pcs
<1>1. ASSUME NEW s \in Sids, RemoveSource(s)
      PROVE  UNCHANGED work
  BY <1>1 DEF RemoveSource
<1>2. ASSUME NEW s \in Sids, TakeLine(s)
      PROVE  /\ Turns("ingester") /\ Doing(work'["ingester"]) /\ Mild(work'["ingester"])
             /\ work'["ingester"].rest \subseteq Sids
  <2> DEFINE r == work'["ingester"]
  <2>1. /\ Turns("ingester") /\ r.pc = "observe" /\ r.kind = "none" /\ r.file = "user"
        /\ r.sid = s /\ r.rest = {} /\ r.missed = {}
    BY <1>2, TakeLineFields
  <2>2. Doing(r) /\ Mild(r)
    BY <2>1 DEF Doing, Mild
  <2> QED BY <2>1, <2>2
<1>3. ASSUME NEW s \in Sids, TickNext(s)
      PROVE  /\ Turns("ticker") /\ Doing(work'["ticker"]) /\ Mild(work'["ticker"])
             /\ work'["ticker"].rest \subseteq Sids
  <2> DEFINE r == work'["ticker"]
  <2>1. /\ Turns("ticker") /\ r.pc = "install" /\ r.kind = "none" /\ r.file = "user"
        /\ r.sid = s /\ r.rest = work["ticker"].rest \ {s} /\ r.missed = {}
    BY <1>3, TickNextFields
  <2>2. Doing(r) /\ Mild(r)
    BY <2>1 DEF Doing, Mild
  <2>3. work["ticker"].rest \subseteq Sids
    BY <1>0 DEF TypeInv
  <2> QED BY <2>1, <2>2, <2>3
<1>4. ASSUME NEW expired \in SUBSET Sids, Tick(expired)
      PROVE  /\ Turns("ticker") /\ Doing(work'["ticker"]) /\ Mild(work'["ticker"])
             /\ work'["ticker"].rest \subseteq Sids
  <2> DEFINE r == work'["ticker"]
  <2>1. /\ Turns("ticker") /\ r.pc = "free" /\ r.rest = expired /\ r.missed = {}
    BY <1>4, TickFields
  <2>2. Doing(r) /\ Mild(r)
    BY <2>1 DEF Doing, Mild
  <2> QED BY <2>1, <2>2
<1>5. ASSUME NEW e \in scenario.entries, Observe(e)
      PROVE  /\ Turns("ingester") /\ Doing(work'["ingester"]) /\ Mild(work'["ingester"])
             /\ work'["ingester"].rest \subseteq Sids
  <2> DEFINE r == work'["ingester"]
             o == work["ingester"]
  <2>1. PICK pc \in {"free", "install"} : Goes("ingester", pc)
    BY <1>5 DEF Observe
  <2>2. Turns("ingester") /\ r = Leaves("ingester", pc) /\ pc \in Pcs
    BY <1>0, <2>1, GoesFields
  <2>3. /\ r.pc = pc /\ r.rest = o.rest
        /\ pc # "free" => r.kind = o.kind /\ r.file = o.file /\ r.sid = o.sid /\ r.missed = o.missed
        /\ pc = "free" => r.missed = {}
    BY <1>0, <2>2, LeavesFields
  <2>4. Doing(o) /\ Mild(o) /\ o.rest \subseteq Sids /\ o.pc = "observe"
    BY <1>0, <1>5 DEF TypeInv, Observe
  <2>5. Doing(r) /\ Mild(r)
    BY <2>3, <2>4 DEF Doing, Mild
  <2> QED BY <2>2, <2>3, <2>4, <2>5
<1>6. CASE UNCHANGED work
  BY <1>6 DEF TypeInv
<1> QED BY <1>0, <1>1, <1>2, <1>3, <1>4, <1>5, <1>6, TurnTypes DEF SourceStep

\* The columns of the sources, and the detectors.
LEMMA RecTypes ==
  ASSUME TypeInv, (\E w \in Workers : WorkerStep(w)) \/ SourceStep \/ Restart \/ UNCHANGED vars
  PROVE  rec' = [s \in Sids |-> rec'[s]] /\ \A s \in Sids : IsRec(rec'[s])
<1>0. rec = [s \in Sids |-> rec[s]] /\ \A s \in Sids : IsRec(rec[s])
  BY DEF TypeInv
<1>1. CASE UNCHANGED rec
  BY <1>0, <1>1
<1>2. ASSUME NEW w \in Workers, CopyPin(w)
      PROVE  rec' = [s \in Sids |-> rec'[s]] /\ \A s \in Sids : IsRec(rec'[s])
  <2>1. rec' = [s \in Sids |-> IF rec[s].state = "in" /\ Key[s] \in Changes(w)
                               THEN [rec[s] EXCEPT !.pinned = work[w].edits[Key[s]], !.detector = FALSE]
                               ELSE rec[s]]
    BY <1>2 DEF CopyPin
  <2>2. ASSUME NEW s \in Sids
        PROVE  IsRec(rec'[s])
    <3>1. CASE rec'[s] = rec[s]
      BY <1>0, <3>1
    <3>2. CASE rec'[s] = [rec[s] EXCEPT !.pinned = work[w].edits[Key[s]], !.detector = FALSE]
      BY <1>0, <3>2 DEF IsRec
    <3> QED BY <2>1, <3>1, <3>2
  <2> QED BY <2>1, <2>2
<1>3. ASSUME NEW w \in Workers, Insert(w)
      PROVE  rec' = [s \in Sids |-> rec'[s]] /\ \A s \in Sids : IsRec(rec'[s])
  <2> DEFINE s == work[w].sid
             pref == work[w].read[Key[s]]
             new == IF pref # Absent THEN [NoRec EXCEPT !.state = "in", !.pinned = pref]
                    ELSE [NoRec EXCEPT !.state = "in", !.detector = TRUE, !.open = TRUE]
  <2>1. rec' = [rec EXCEPT ![s] = new]
    BY <1>3 DEF Insert
  <2>2. s \in Sids
    BY <1>3 DEF TypeInv, Doing, Insert
  <2>3. new = (IF pref # Absent THEN [NoRec EXCEPT !.state = "in", !.pinned = pref]
               ELSE [NoRec EXCEPT !.state = "in", !.detector = TRUE, !.open = TRUE])
    OBVIOUS
  <2> HIDE DEF new, s, pref
  <2>4. IsRec(new)
    BY <2>3 DEF NoRec, IsRec
  <2> QED BY <1>0, <2>1, <2>2, <2>4
<1>4. ASSUME NEW s \in Sids, RemoveSource(s)
      PROVE  rec' = [x \in Sids |-> rec'[x]] /\ \A x \in Sids : IsRec(rec'[x])
  <2>1. rec' = [rec EXCEPT ![s].state = "gone"]
    BY <1>4 DEF RemoveSource
  <2> DEFINE new == [rec[s] EXCEPT !.state = "gone"]
  <2>2. new = [rec[s] EXCEPT !.state = "gone"] /\ IsRec(rec[s]) /\ rec' = [rec EXCEPT ![s] = new]
    BY <1>0, <2>1
  <2> HIDE DEF new
  <2>3. IsRec(new)
    BY <2>2 DEF IsRec
  <2> QED BY <1>0, <2>2, <2>3
<1>5. ASSUME NEW e, Observe(e)
      PROVE  rec' = [s \in Sids |-> rec'[s]] /\ \A s \in Sids : IsRec(rec'[s])
  <2> DEFINE s == work["ingester"].sid
             seen == Append(rec[s].seen, e)
             open == ~(Len(seen) >= scenario.limit)
             new == [rec[s] EXCEPT !.seen = seen, !.open = open]
  <2>1. UNCHANGED rec \/ rec' = [rec EXCEPT ![s].seen = seen, ![s].open = open]
    BY <1>5 DEF Observe
  <2>2. s \in Sids
    BY <1>5 DEF TypeInv, Doing, Observe, Workers
  <2>3. new = [rec[s] EXCEPT !.seen = seen, !.open = open] /\ IsRec(rec[s])
    BY <1>0, <2>2
  <2> HIDE DEF new, s, seen, open
  <2>4. IsRec(new)
    BY <2>3 DEF IsRec
  <2>5. rec' = [rec EXCEPT ![s].seen = seen, ![s].open = open] => rec' = [rec EXCEPT ![s] = new]
    BY <1>0, <2>2, <2>3
  <2> QED BY <1>0, <2>1, <2>2, <2>4, <2>5
<1>6. ASSUME NEW expired \in SUBSET Sids, Tick(expired)
      PROVE  rec' = [s \in Sids |-> rec'[s]] /\ \A s \in Sids : IsRec(rec'[s])
  <2>1. rec' = [s \in Sids |-> IF s \in expired THEN [rec[s] EXCEPT !.open = FALSE] ELSE rec[s]]
    BY <1>6 DEF Tick
  <2>2. ASSUME NEW s \in Sids
        PROVE  IsRec(rec'[s])
    <3>1. CASE rec'[s] = rec[s]
      BY <1>0, <3>1
    <3>2. CASE rec'[s] = [rec[s] EXCEPT !.open = FALSE]
      BY <1>0, <3>2 DEF IsRec
    <3> QED BY <2>1, <3>1, <3>2
  <2> QED BY <2>1, <2>2
<1>7. ASSUME NEW w \in Workers, Install(w)
      PROVE  rec' = [s \in Sids |-> rec'[s]] /\ \A s \in Sids : IsRec(rec'[s])
  <2> DEFINE s == work[w].sid
             cols == Recommendation(s)[Key[s]]
  <2>1. UNCHANGED rec \/ rec' = [rec EXCEPT ![s].pinned = cols]
    BY <1>7, InstallFields
  <2>2. s \in Sids
    BY <1>7 DEF TypeInv, Doing, Install
  <2> HIDE DEF s, cols
  <2>3. IsRec([rec[s] EXCEPT !.pinned = cols])
    BY <1>0, <2>2 DEF IsRec
  <2> QED BY <1>0, <2>1, <2>2, <2>3
<1>8. CASE Restart
  BY <1>8 DEF Restart, NoRec, IsRec
<1>9. ASSUME NEW w \in Workers,
             \/ Asks(w) \/ Load(w) \/ Fail(w) \/ Save(w) \/ Announce(w) \/ CopyProfiles(w) \/ NothingToRemove(w)
      PROVE  UNCHANGED rec
  BY <1>9 DEF Asks, Ask, Load, Fail, Save, Announce, CopyProfiles, NothingToRemove
<1>10. CASE UNCHANGED vars
  BY <1>1, <1>10 DEF vars
<1>11. ASSUME NEW s \in Sids, TakeLine(s) \/ TickNext(s)
       PROVE  UNCHANGED rec
  BY <1>11 DEF TakeLine, TickNext
<1> QED BY <1>1, <1>2, <1>3, <1>4, <1>5, <1>6, <1>7, <1>8, <1>9, <1>10, <1>11 DEF WorkerStep, SourceStep

\* What a save makes of the history.
LEMMA SavePast ==
  ASSUME TypeInv, NEW w \in Workers, Save(w)
  PROVE  LET ours   == Changes(w)
             missed == work[w].missed \ ours
             f      == work[w].file
         IN /\ IsPast(past')
            /\ \A g \in Files : past'.meant[g] =
                 IF g = f THEN [i \in Items |-> IF i \in ours THEN work[w].edits[i] ELSE past.meant[f][i]]
                 ELSE past.meant[g]
            /\ past'.lost = {l \in past.lost : l[1] # f \/ l[2] \notin ours} \cup {<<f, i>> : i \in missed}
            /\ past'.off = past.off \cup (Names \cap (missed \cup
                              IF work[w].kind \in Cli \/ Copying(ours) # {} THEN ours ELSE {}))
            /\ past'.zeroed = past.zeroed \cup {i \in Fields \ ours : work[w].read[i] = Absent}
            /\ \A k \in Keys : past'.pinned[k] =
                 IF work[w].kind = "unpin" /\ k \in ours THEN Absent ELSE past.pinned[k]
            /\ past'.overtaken = past.overtaken \cup
                                   (Keys \cap (missed \cup IF Copying(ours) # {} THEN ours ELSE {}))
<1> DEFINE ours   == Changes(w)
           missed == work[w].missed \ ours
           f      == work[w].file
           new    == [i \in Items |-> IF i \in ours THEN work[w].edits[i] ELSE past.meant[f][i]]
           lost   == {l \in past.lost : l[1] # f \/ l[2] \notin ours} \cup {<<f, i>> : i \in missed}
           off    == past.off \cup (Names \cap (missed \cup
                       IF work[w].kind \in Cli \/ Copying(ours) # {} THEN ours ELSE {}))
           zeroed == past.zeroed \cup {i \in Fields \ ours : work[w].read[i] = Absent}
           pinned == [k \in Keys |-> IF work[w].kind = "unpin" /\ k \in ours THEN Absent ELSE past.pinned[k]]
           overtaken == past.overtaken \cup (Keys \cap (missed \cup IF Copying(ours) # {} THEN ours ELSE {}))
<1>1. past' = [past EXCEPT !.meant[f] = new, !.lost = lost, !.off = off, !.zeroed = zeroed,
                           !.pinned = pinned, !.overtaken = overtaken]
  BY DEF Save
<1>2. f \in Files /\ IsPast(past)
  BY DEF TypeInv, IsRequest
<1>3. IsFile(new)
  BY DEF IsFile
<1>4. pinned = [k \in Keys |-> pinned[k]]
  OBVIOUS
<1> HIDE DEF f, new, lost, off, zeroed, pinned, overtaken
<1>5. past' = [meant |-> [past.meant EXCEPT ![f] = new], lost |-> lost, off |-> off, zeroed |-> zeroed,
               pinned |-> pinned, overtaken |-> overtaken]
  BY <1>1, <1>2 DEF IsPast
<1>6. /\ past'.meant = [past.meant EXCEPT ![f] = new] /\ past'.lost = lost /\ past'.off = off
      /\ past'.zeroed = zeroed /\ past'.pinned = pinned /\ past'.overtaken = overtaken
  BY <1>5
<1>7. /\ past'.meant = [g \in Files |-> past'.meant[g]]
      /\ \A g \in Files : past'.meant[g] = IF g = f THEN new ELSE past.meant[g]
  BY <1>2, <1>6 DEF IsPast
<1>8. \A g \in Files : IsFile(past'.meant[g])
  BY <1>2, <1>3, <1>7 DEF IsPast
<1>9. IsPast(past')
  BY <1>4, <1>5, <1>6, <1>7, <1>8 DEF IsPast
<1>10. \A k \in Keys : pinned[k] = IF work[w].kind = "unpin" /\ k \in ours THEN Absent ELSE past.pinned[k]
  BY DEF pinned
<1> QED BY <1>6, <1>7, <1>9, <1>10 DEF f, new, lost, off, zeroed, overtaken

\* What the other steps make of the history.
LEMMA OtherPast ==
  ASSUME TypeInv, NEW w \in Workers
  PROVE  /\ Fail(w) =>
              /\ past' = [past EXCEPT !.overtaken = past'.overtaken] /\ IsPast(past')
              /\ past'.overtaken = past.overtaken \cup
                   (IF work[w].kind = "attach" THEN {Key[work[w].sid]} ELSE IF Pins(w) THEN Changes(w) ELSE {})
         /\ CopyProfiles(w) =>
              /\ past' = [past EXCEPT !.off = past'.off] /\ IsPast(past')
              /\ past'.off = past.off \cup {n \in Changes(w) : Shadowed(w, n)}
         /\ CopyPin(w) =>
              /\ past' = [past EXCEPT !.pinned = past'.pinned, !.overtaken = past'.overtaken] /\ IsPast(past')
              /\ \A k \in Keys : past'.pinned[k] = IF k \in Changes(w) THEN work[w].edits[k] ELSE past.pinned[k]
              /\ past'.overtaken = past.overtaken \cup {k \in Changes(w) : UnderWay(k, work[w].edits[k])}
<1>0. IsPast(past)
  BY DEF TypeInv
<1>1. ASSUME Fail(w)
      PROVE  /\ past' = [past EXCEPT !.overtaken = past'.overtaken] /\ IsPast(past')
             /\ past'.overtaken = past.overtaken \cup
                   (IF work[w].kind = "attach" THEN {Key[work[w].sid]} ELSE IF Pins(w) THEN Changes(w) ELSE {})
  <2> DEFINE o == past.overtaken \cup
                   (IF work[w].kind = "attach" THEN {Key[work[w].sid]} ELSE IF Pins(w) THEN Changes(w) ELSE {})
  <2>1. past' = [past EXCEPT !.overtaken = o]
    BY <1>1 DEF Fail
  <2> HIDE DEF o
  <2>2. past'.overtaken = o /\ IsPast(past')
    BY <1>0, <2>1 DEF IsPast
  <2> QED BY <2>1, <2>2 DEF o
<1>2. ASSUME CopyProfiles(w)
      PROVE  /\ past' = [past EXCEPT !.off = past'.off] /\ IsPast(past')
             /\ past'.off = past.off \cup {n \in Changes(w) : Shadowed(w, n)}
  <2> DEFINE o == past.off \cup {n \in Changes(w) : Shadowed(w, n)}
  <2>1. past' = [past EXCEPT !.off = o]
    BY <1>2 DEF CopyProfiles
  <2> HIDE DEF o
  <2>2. past'.off = o /\ IsPast(past')
    BY <1>0, <2>1 DEF IsPast
  <2> QED BY <2>1, <2>2 DEF o
<1>3. ASSUME CopyPin(w)
      PROVE  /\ past' = [past EXCEPT !.pinned = past'.pinned, !.overtaken = past'.overtaken] /\ IsPast(past')
             /\ \A k \in Keys : past'.pinned[k] = IF k \in Changes(w) THEN work[w].edits[k] ELSE past.pinned[k]
             /\ past'.overtaken = past.overtaken \cup {k \in Changes(w) : UnderWay(k, work[w].edits[k])}
  <2> DEFINE p == [k \in Keys |-> IF k \in Changes(w) THEN work[w].edits[k] ELSE past.pinned[k]]
             o == past.overtaken \cup {k \in Changes(w) : UnderWay(k, work[w].edits[k])}
  <2>1. past' = [past EXCEPT !.pinned = p, !.overtaken = o]
    BY <1>3 DEF CopyPin
  <2>2. p = [k \in Keys |-> p[k]]
        /\ \A k \in Keys : p[k] = IF k \in Changes(w) THEN work[w].edits[k] ELSE past.pinned[k]
    OBVIOUS
  <2> HIDE DEF o, p
  <2>3. past' = [meant |-> past.meant, lost |-> past.lost, off |-> past.off, zeroed |-> past.zeroed,
                 pinned |-> p, overtaken |-> o]
    BY <1>0, <2>1 DEF IsPast
  <2>4. past'.pinned = p /\ past'.overtaken = o /\ past'.meant = past.meant
    BY <2>3
  <2>5. IsPast(past')
    BY <1>0, <2>2, <2>3, <2>4 DEF IsPast
  <2> QED BY <2>1, <2>2, <2>4, <2>5 DEF o
<1> QED BY <1>1, <1>2, <1>3

\* What the history keeps of a restart: nothing is off the shown list any more.
LEMMA RestartPast ==
  ASSUME TypeInv, Restart
  PROVE  /\ IsPast(past') /\ past'.meant = past.meant /\ past'.lost = past.lost /\ past'.pinned = past.pinned
         /\ past'.off = {} /\ past'.zeroed = {}
         /\ past'.overtaken = past.overtaken \cup {k \in Keys : Copying({k}) # {}}
<1> DEFINE o == past.overtaken \cup {k \in Keys : Copying({k}) # {}}
<1>1. past' = [past EXCEPT !.off = {}, !.zeroed = {}, !.overtaken = o] /\ IsPast(past)
  BY DEF Restart, TypeInv
<1> HIDE DEF o
<1>2. past' = [meant |-> past.meant, lost |-> past.lost, off |-> {}, zeroed |-> {},
               pinned |-> past.pinned, overtaken |-> o]
  BY <1>1 DEF IsPast
<1>3. /\ past'.meant = past.meant /\ past'.lost = past.lost /\ past'.off = {} /\ past'.zeroed = {}
      /\ past'.pinned = past.pinned /\ past'.overtaken = o
  BY <1>2
<1>4. IsPast(past')
  BY <1>1, <1>2, <1>3 DEF IsPast
<1> QED BY <1>3, <1>4 DEF o

\* A restart leaves the commands at work, and nobody else.
LEMMA RestartWork ==
  ASSUME TypeInv, Restart
  PROVE  /\ work' = [w \in Workers |-> work'[w]]
         /\ \A w \in Workers : \/ work'[w] = work[w] /\ work[w].kind \in Cli
                               \/ work'[w] = Idle
  BY DEF Restart

\* A worker with nothing to do.
LEMMA IdleFields ==
  /\ IsRequest(Idle) /\ Doing(Idle) /\ Mild(Idle) /\ Idle.pc = "free" /\ Idle.sid = 0
  /\ Idle.rest = {} /\ Idle.kind = "none" /\ Idle.missed = {}
  BY DEF Idle, IsRequest, Doing, Mild, NoEdits, Files, Pcs

\* Types, and what each kind of request may change (Settings.TypeOK, in part).
LEMMA TypeInvHolds == Spec => []TypeInv
<1>1. Init => TypeInv
  <2> SUFFICES ASSUME Init PROVE TypeInv
    OBVIOUS
  <2>1. scenario \in Scenarios /\ disk = scenario.files /\ asked = 0
    BY DEF Init
  <2>2. disk = [f \in Files |-> [i \in Items |-> disk[f][i]]] /\ scenario.requests \in 0 .. Len(Written)
    BY <2>1, SettingsAssumption
  <2>3. Len(Written) \in Nat
    <3>1. Written \in Seq(ToSet(Written))
      BY SettingsAssumption
    <3> QED BY <3>1
  <2>4. asked \in 0 .. scenario.requests
    BY <2>1, <2>2, <2>3
  <2>5. /\ disk = [f \in Files |-> disk[f]] /\ \A f \in Files : IsFile(disk[f])
    BY <2>2 DEF IsFile
  <2>6. memory = [n \in Names |-> memory[n]] /\ boot = [f \in Fields |-> boot[f]]
    BY DEF Init, Listed, Started
  <2>7. rec = [s \in Sids |-> rec[s]] /\ \A s \in Sids : IsRec(rec[s])
    BY DEF Init, NoRec, IsRec
  <2>8. work = [w \in Workers |-> work[w]] /\ \A w \in Workers : work[w] = Idle
    BY DEF Init
  <2>9. IsPast(past)
    BY <2>5 DEF Init, IsPast
  <2> QED BY <2>1, <2>4, <2>5, <2>6, <2>7, <2>8, <2>9, IdleFields DEF TypeInv
<1>2. TypeInv /\ [Next]_vars => TypeInv'
  <2> SUFFICES ASSUME TypeInv, [Next]_vars PROVE TypeInv'
    OBVIOUS
  <2>1. (\E w \in Workers : WorkerStep(w)) \/ SourceStep \/ Restart \/ UNCHANGED vars
    BY Steps
  <2>2. rec' = [s \in Sids |-> rec'[s]] /\ \A s \in Sids : IsRec(rec'[s])
    BY <2>1, RecTypes
  <2>3. ASSUME UNCHANGED <<scenario, asked, disk, memory, boot, past>>,
               work' = [v \in Workers |-> work'[v]]
               /\ \A v \in Workers : /\ IsRequest(work'[v]) /\ Doing(work'[v]) /\ Mild(work'[v])
                                     /\ work'[v].rest \subseteq Sids
        PROVE  TypeInv'
    BY <2>2, <2>3 DEF TypeInv
  <2>4. ASSUME NEW w \in Workers, WorkerStep(w)
        PROVE  TypeInv'
    <3>1. /\ work' = [v \in Workers |-> work'[v]]
          /\ \A v \in Workers : /\ IsRequest(work'[v]) /\ Doing(work'[v]) /\ Mild(work'[v])
                                /\ work'[v].rest \subseteq Sids
      BY <2>4, WorkTypes
    <3>2. CASE Asks(w)
      <4>1. asked' = asked + 1 /\ UNCHANGED <<scenario, disk, memory, boot, past>>
        BY <3>2 DEF Asks, Ask
      <4>2. asked + 1 \in 1 .. scenario.requests
        BY <3>2, AskFields DEF Asks
      <4>3. asked' \in 0 .. scenario'.requests
        BY <4>1, <4>2
      <4> QED BY <2>2, <3>1, <4>1, <4>3 DEF TypeInv
    <3>3. CASE Save(w)
      <4>1. UNCHANGED <<scenario, asked, memory, boot>>
        BY <3>3 DEF Save
      <4>2. disk' = [g \in Files |-> disk'[g]] /\ \A g \in Files : IsFile(disk'[g])
        <5>1. disk' = [g \in Files |-> disk'[g]]
              /\ \A g \in Files : disk'[g] = IF g = work[w].file THEN Encode(Edited(w)) ELSE disk[g]
          BY <3>3, SaveFields
        <5>2. IsFile(Encode(Edited(w))) /\ \A g \in Files : IsFile(disk[g])
          BY EncodeFields DEF TypeInv
        <5> QED BY <5>1, <5>2
      <4>3. IsPast(past')
        BY <3>3, SavePast
      <4> QED BY <2>2, <3>1, <4>1, <4>2, <4>3 DEF TypeInv
    <3>4. CASE Fail(w) \/ CopyPin(w)
      <4>1. UNCHANGED <<scenario, asked, disk, memory, boot>>
        BY <3>4 DEF Fail, CopyPin
      <4>2. IsPast(past')
        BY <3>4, OtherPast
      <4> QED BY <2>2, <3>1, <4>1, <4>2 DEF TypeInv
    <3>5. CASE CopyProfiles(w)
      <4>1. UNCHANGED <<scenario, asked, disk, boot>>
            /\ memory' = [n \in Names |-> IF n \in Changes(w) THEN work[w].edits[n] ELSE memory[n]]
        BY <3>5 DEF CopyProfiles
      <4>2. IsPast(past') /\ memory' = [n \in Names |-> memory'[n]]
        BY <3>5, <4>1, OtherPast
      <4> QED BY <2>2, <3>1, <4>1, <4>2 DEF TypeInv
    <3>6. CASE Load(w) \/ Install(w) \/ Announce(w) \/ Insert(w) \/ NothingToRemove(w)
      <4>1. UNCHANGED <<scenario, asked, disk, memory, boot, past>>
        BY <3>6 DEF Load, Install, Announce, Insert, NothingToRemove
      <4> QED BY <2>3, <3>1, <4>1
    <3> QED BY <2>4, <3>2, <3>3, <3>4, <3>5, <3>6 DEF WorkerStep
  <2>5. CASE SourceStep
    <3>1. UNCHANGED <<scenario, asked, disk, memory, boot, past>>
      BY <2>5 DEF SourceStep, RemoveSource, TakeLine, TickNext, Observe, Tick
    <3> QED BY <2>3, <2>5, <3>1, SourceWorkTypes
  <2>6. CASE Restart
    <3>1. UNCHANGED <<scenario, asked, disk>> /\ memory' = [n \in Names |-> memory'[n]]
          /\ boot' = [f \in Fields |-> boot'[f]]
      BY <2>6 DEF Restart, Listed, Started
    <3>2. work' = [v \in Workers |-> work'[v]]
          /\ \A v \in Workers : /\ IsRequest(work'[v]) /\ Doing(work'[v]) /\ Mild(work'[v])
                                /\ work'[v].rest \subseteq Sids
      BY <2>6, RestartWork, IdleFields DEF TypeInv
    <3>3. IsPast(past')
      BY <2>6, RestartPast
    <3> QED BY <2>2, <3>1, <3>2, <3>3 DEF TypeInv
  <2>7. CASE UNCHANGED vars
    BY <2>7 DEF vars, TypeInv
  <2> QED BY <2>1, <2>4, <2>5, <2>6, <2>7
<1> QED BY <1>1, <1>2, PTL DEF Spec

-----------------------------------------------------------------------------
(* Edits are kept                                                          *)

\* What a worker has read of an item is what the file has, but for items it is known
\* to have missed, and for settings that another save has written out as zero.
Current(w, i) ==
  \/ i \in work[w].missed
  \/ work[w].read[i] = disk[work[w].file][i]
  \/ i \in Fields /\ work[w].read[i] = Absent /\ disk[work[w].file][i] = Zero
ReadInv == \A w \in Workers : work[w].pc = "save" => \A i \in Items : Current(w, i)

KeepInv == ReadInv /\ EditsKept

\* What a step makes of a worker.
Fate(v) ==
  \/ work'[v] = work[v]
  \/ Asks(v) \/ Load(v) \/ Fail(v) \/ Save(v) \/ Install(v) \/ Goes(v, "free")
  \/ \E w \in Workers \ {v} : /\ Save(w) /\ v \in Reading(work[w].file)
                              /\ Learns(v, Changes(w) \cup work[w].missed)
  \/ v = "ingester" /\ \/ \E s \in Sids : TakeLine(s)
                       \/ Goes(v, "install") /\ work[v].pc = "observe"
  \/ v = "ticker" /\ \/ \E s \in Sids : TickNext(s)
                     \/ \E expired \in SUBSET Sids : Tick(expired)
  \/ Restart /\ work'[v] = Idle

\* But for a save, which others learn of, a worker changes its own record only.
LEMMA StepTurns ==
  ASSUME TypeInv, NEW w \in Workers, WorkerStep(w), ~Save(w)
  PROVE  Turns(w)
<1>1. Goes(w, "free") => Turns(w)
  BY GoesFields DEF Pcs
<1> QED BY <1>1, AskFields, LoadFields, FailFields, InstallFields
    DEF WorkerStep, Asks, Announce, CopyProfiles, CopyPin, Insert, NothingToRemove

\* What a step of anybody makes of a worker is one of the fates above.
LEMMA Fates ==
  ASSUME TypeInv, [Next]_vars, NEW v \in Workers
  PROVE  Fate(v)
<1>0. "ingester" \in Workers /\ "ticker" \in Workers
  BY DEF Workers
<1>1. ASSUME NEW w \in Workers, Turns(w), w # v
      PROVE  Fate(v)
  BY <1>1 DEF Turns, Fate
<1>2. ASSUME NEW w \in Workers, WorkerStep(w)
      PROVE  Fate(v)
  <2>1. CASE Save(w)
    BY <2>1, SaveFields DEF Fate
  <2>2. CASE w = v
    BY <1>2, <2>2 DEF WorkerStep, Fate, Announce, CopyProfiles, CopyPin, Insert, NothingToRemove
  <2>3. CASE w # v /\ ~Save(w)
    BY <1>1, <1>2, <2>3, StepTurns
  <2> QED BY <2>1, <2>2, <2>3
<1>3. ASSUME NEW s \in Sids, RemoveSource(s)
      PROVE  Fate(v)
  BY <1>3 DEF RemoveSource, Fate
<1>4. ASSUME NEW s \in Sids, TakeLine(s)
      PROVE  Fate(v)
  BY <1>0, <1>1, <1>4, TakeLineFields DEF Fate
<1>5. ASSUME NEW s \in Sids, TickNext(s)
      PROVE  Fate(v)
  BY <1>0, <1>1, <1>5, TickNextFields DEF Fate
<1>6. ASSUME NEW e \in scenario.entries, Observe(e)
      PROVE  Fate(v)
  <2>1. PICK pc \in {"free", "install"} : Goes("ingester", pc)
    BY <1>6 DEF Observe
  <2>2. Turns("ingester")
    BY <1>0, <2>1, GoesFields DEF Pcs
  <2>3. work["ingester"].pc = "observe"
    BY <1>6 DEF Observe
  <2> QED BY <1>0, <1>1, <2>1, <2>2, <2>3 DEF Fate
<1>7. ASSUME NEW expired \in SUBSET Sids, Tick(expired)
      PROVE  Fate(v)
  BY <1>0, <1>1, <1>7, TickFields DEF Fate
<1>8. CASE Restart
  BY <1>8, RestartWork DEF Fate
<1>9. CASE UNCHANGED vars
  BY <1>9 DEF vars, Fate
<1> QED BY <1>2, <1>3, <1>4, <1>5, <1>6, <1>7, <1>8, <1>9, Steps DEF SourceStep

\* A worker that has saved, or is to save no more.
LEMMA SavedFields ==
  ASSUME TypeInv, NEW w \in Workers, Save(w)
  PROVE  LET r == work'[w]
         IN /\ r.pc = Afterwards(work[w].kind) /\ r.rest = work[w].rest
            /\ r.pc # "free" => /\ r.kind = work[w].kind /\ r.file = work[w].file
                                /\ r.edits = work[w].edits /\ r.sid = work[w].sid
            /\ r.pc = "free" => r.sid = 0 /\ r.kind = "none"
<1>1. work'[w] = Leaves(w, Afterwards(work[w].kind))
  BY SaveFields
<1>2. Afterwards(work[w].kind) \in Pcs
  BY AfterwardsPcs
<1> QED BY <1>1, <1>2, LeavesFields

\* A worker that has done with its request has no source left.
LEMMA FreedFields ==
  ASSUME TypeInv, NEW w \in Workers, Goes(w, "free")
  PROVE  LET r == work'[w]
         IN r.pc = "free" /\ r.sid = 0 /\ r.kind = "none" /\ r.rest = work[w].rest /\ r.missed = {}
<1>1. "free" \in Pcs
  BY DEF Pcs
<1> QED BY <1>1, GoesFields, LeavesFields

\* Who is about to save a file has just read it, or was about to before: then nothing
\* has changed for it, or another save has.
LEMMA Savers ==
  ASSUME TypeInv, [Next]_vars, NEW v \in Workers, work'[v].pc = "save"
  PROVE  \/ work'[v] = work[v]
         \/ Load(v)
         \/ \E w \in Workers \ {v} : /\ Save(w) /\ v \in Reading(work[w].file)
                                     /\ Learns(v, Changes(w) \cup work[w].missed)
<1>1. ~Asks(v)
  BY AskFields DEF Asks
<1>2. ~Fail(v)
  BY FailFields
<1>3. ~Save(v)
  BY SavedFields, AfterwardsPcs
<1>4. ~Install(v)
  BY InstallFields
<1>5. ~Goes(v, "free") /\ ~Goes(v, "install")
  BY GoesFields, LeavesFields DEF Pcs
<1>6. v = "ingester" => \A s \in Sids : ~TakeLine(s)
  BY TakeLineFields
<1>7. v = "ticker" => /\ \A s \in Sids : ~TickNext(s)
                      /\ \A expired \in SUBSET Sids : ~Tick(expired)
  BY TickNextFields, TickFields
<1>8. work'[v] # Idle
  BY IdleFields
<1> QED BY <1>1, <1>2, <1>3, <1>4, <1>5, <1>6, <1>7, <1>8, Fates DEF Fate

\* Who is about to copy in memory what it has saved was about to before, or has saved
\* it, or is content that it could not be saved.
LEMMA Copiers ==
  ASSUME TypeInv, [Next]_vars, NEW v \in Workers, work'[v].pc = "memory"
  PROVE  \/ work'[v] = work[v]
         \/ /\ work'[v].kind = work[v].kind /\ work'[v].file = work[v].file
            /\ work'[v].edits = work[v].edits
            /\ Save(v) \/ (Fail(v) /\ work[v].kind = "pin")
<1>1. ~Asks(v)
  BY AskFields DEF Asks
<1>2. ~Load(v)
  BY LoadFields
<1>3. Save(v) => /\ work'[v].kind = work[v].kind /\ work'[v].file = work[v].file
                 /\ work'[v].edits = work[v].edits
  BY SavedFields
<1>4. ~Install(v)
  BY InstallFields
<1>5. ~Goes(v, "free") /\ ~Goes(v, "install")
  BY GoesFields, LeavesFields DEF Pcs
<1>6. v = "ingester" => \A s \in Sids : ~TakeLine(s)
  BY TakeLineFields
<1>7. v = "ticker" => /\ \A s \in Sids : ~TickNext(s)
                      /\ \A expired \in SUBSET Sids : ~Tick(expired)
  BY TickNextFields, TickFields
<1>8. work'[v] # Idle
  BY IdleFields
<1>9. Fail(v) => /\ work'[v].kind = work[v].kind /\ work'[v].file = work[v].file
                 /\ work'[v].edits = work[v].edits /\ work[v].kind = "pin"
  BY FailFields
<1>10. ASSUME NEW w \in Workers \ {v}
       PROVE  ~(v \in Reading(work[w].file) /\ Learns(v, Changes(w) \cup work[w].missed))
  BY DEF Reading, Learns
<1> QED BY <1>1, <1>2, <1>3, <1>4, <1>5, <1>6, <1>7, <1>8, <1>9, <1>10, Fates DEF Fate

\* Only a save changes a file, or what is remembered of one.
LEMMA FilesChange ==
  ASSUME TypeInv, [Next]_vars
  PROVE  \/ \E w \in Workers : Save(w)
         \/ UNCHANGED disk /\ past'.meant = past.meant /\ past'.lost = past.lost
<1>0. IsPast(past)
  BY DEF TypeInv
<1>1. ASSUME NEW w \in Workers, Fail(w) \/ CopyProfiles(w) \/ CopyPin(w)
      PROVE  past'.meant = past.meant /\ past'.lost = past.lost
  <2>1. \/ past' = [past EXCEPT !.overtaken = past'.overtaken]
        \/ past' = [past EXCEPT !.off = past'.off]
        \/ past' = [past EXCEPT !.pinned = past'.pinned, !.overtaken = past'.overtaken]
    BY <1>1, OtherPast
  <2> QED BY <1>0, <2>1 DEF IsPast
<1>2. ASSUME NEW w \in Workers, WorkerStep(w), ~Save(w)
      PROVE  UNCHANGED disk /\ (UNCHANGED past \/ Fail(w) \/ CopyProfiles(w) \/ CopyPin(w))
  BY <1>2 DEF WorkerStep, Asks, Ask, Load, Fail, Install, Announce, CopyProfiles, CopyPin, Insert,
              NothingToRemove
<1>3. SourceStep => UNCHANGED <<disk, past>>
  BY DEF SourceStep, RemoveSource, TakeLine, TickNext, Observe, Tick
<1>4. Restart => UNCHANGED disk
  BY DEF Restart
<1>5. UNCHANGED vars => UNCHANGED <<disk, past>>
  BY DEF vars
<1> QED BY <1>1, <1>2, <1>3, <1>4, <1>5, Steps, RestartPast

\* What a save does to the items of the files: to its own, to those it has missed,
\* and to the others.
LEMMA Saved ==
  ASSUME TypeInv, ReadInv, NEW w \in Workers, Save(w), NEW g \in Files, NEW i \in Items
  PROVE  /\ g # work[w].file => disk'[g][i] = disk[g][i]
         /\ g = work[w].file /\ i \in Changes(w) =>
              disk'[g][i] = IF i \in Fields /\ work[w].edits[i] = Absent THEN Zero ELSE work[w].edits[i]
         /\ g = work[w].file /\ i \notin Changes(w) \cup work[w].missed =>
              \/ disk'[g][i] = disk[g][i]
              \/ /\ i \in Fields /\ work[w].read[i] = Absent
                 /\ disk[g][i] = Absent /\ disk'[g][i] = Zero
<1>1. disk'[g] = IF g = work[w].file THEN Encode(Edited(w)) ELSE disk[g]
  BY SaveFields
<1> DEFINE v == IF i \in Changes(w) THEN work[w].edits[i] ELSE work[w].read[i]
<1>2. Encode(Edited(w))[i] = IF i \in Fields /\ v = Absent THEN Zero ELSE v
  BY EncodeFields
<1>3. Current(w, i)
  BY DEF ReadInv, Save
<1> QED BY <1>1, <1>2, <1>3 DEF Current

\* What was saved stays in the file, but for what a save that had read it before puts
\* back (Settings.EditsKept).
LEMMA KeepInvHolds == Spec => []KeepInv
<1>1. Init => KeepInv
  BY DEF Init, Idle, KeepInv, ReadInv, EditsKept
<1>2. TypeInv /\ KeepInv /\ [Next]_vars => KeepInv'
  <2> SUFFICES ASSUME TypeInv, KeepInv, [Next]_vars PROVE KeepInv'
    OBVIOUS
  <2>1. ASSUME NEW v \in Workers, work'[v].pc = "save", NEW i \in Items
        PROVE  Current(v, i)'
    <3>1. work'[v] = work[v] => Current(v, i)
      BY <2>1 DEF KeepInv, ReadInv
    <3>2. CASE Load(v)
      <4>1. work'[v].read = disk[work[v].file] /\ work'[v].file = work[v].file
        BY <3>2, LoadFields
      <4>2. UNCHANGED disk
        BY <3>2 DEF Load
      <4> QED BY <4>1, <4>2 DEF Current
    <3>3. ASSUME NEW w \in Workers \ {v}, Save(w), v \in Reading(work[w].file),
                 Learns(v, Changes(w) \cup work[w].missed)
          PROVE  Current(v, i)'
      <4>1. /\ work'[v].missed = work[v].missed \cup (Changes(w) \cup work[w].missed)
            /\ work'[v].read = work[v].read /\ work'[v].file = work[v].file
            /\ work[v].file = work[w].file /\ work[v].pc = "save"
        BY <3>3 DEF Learns, Reading
      <4>2. Current(v, i)
        BY <4>1 DEF KeepInv, ReadInv
      <4>3. work[v].file \in Files
        BY DEF TypeInv, IsRequest
      <4>4. i \notin Changes(w) \cup work[w].missed =>
              \/ disk'[work[v].file][i] = disk[work[v].file][i]
              \/ i \in Fields /\ disk[work[v].file][i] = Absent /\ disk'[work[v].file][i] = Zero
        BY <3>3, <4>1, <4>3, Saved DEF KeepInv
      <4> QED BY <4>1, <4>2, <4>4, SettingsAssumption DEF Current
    <3>4. CASE work'[v] = work[v]
      <4>1. CASE UNCHANGED disk
        BY <3>1, <3>4, <4>1 DEF Current
      <4>2. ASSUME NEW w \in Workers, Save(w)
            PROVE  Current(v, i)'
        <5>1. v # w
          <6>1. work'[w] = Leaves(w, Afterwards(work[w].kind))
            BY <4>2, SaveFields
          <6>2. Afterwards(work[w].kind) \in Pcs \ {"save"}
            BY AfterwardsPcs
          <6>3. work'[w].pc # "save"
            BY <6>1, <6>2, LeavesFields
          <6> QED BY <2>1, <6>3
        <5>2. CASE v \in Reading(work[w].file)
          <6>1. Learns(v, Changes(w) \cup work[w].missed)
            BY <4>2, <5>1, <5>2, SaveFields
          <6> QED BY <3>3, <4>2, <5>1, <5>2, <6>1
        <5>3. CASE v \notin Reading(work[w].file)
          <6>1. work[v].file # work[w].file /\ work[v].file \in Files
            BY <2>1, <3>4, <5>3 DEF Reading, TypeInv, IsRequest
          <6>2. disk'[work[v].file][i] = disk[work[v].file][i]
            BY <4>2, <6>1, Saved DEF KeepInv
          <6> QED BY <3>1, <3>4, <6>2 DEF Current
        <5> QED BY <5>2, <5>3
      <4> QED BY <4>1, <4>2, FilesChange
    <3> QED BY <2>1, <3>2, <3>3, <3>4, Savers
  <2>2. ASSUME NEW f \in Files, NEW i \in Items
        PROVE  Unset(disk'[f][i]) = Unset(past'.meant[f][i]) \/ <<f, i>> \in past'.lost
    <3>0. Unset(disk[f][i]) = Unset(past.meant[f][i]) \/ <<f, i>> \in past.lost
      BY DEF KeepInv, EditsKept
    <3>1. CASE UNCHANGED disk /\ past'.meant = past.meant /\ past'.lost = past.lost
      BY <3>0, <3>1
    <3>2. ASSUME NEW w \in Workers, Save(w)
          PROVE  Unset(disk'[f][i]) = Unset(past'.meant[f][i]) \/ <<f, i>> \in past'.lost
      <4> DEFINE h == work[w].file
                 missed == work[w].missed \ Changes(w)
      <4>1. /\ past'.meant[f] = IF f = h
                 THEN [j \in Items |-> IF j \in Changes(w) THEN work[w].edits[j] ELSE past.meant[h][j]]
                 ELSE past.meant[f]
            /\ past'.lost = {l \in past.lost : l[1] # h \/ l[2] \notin Changes(w)}
                              \cup {<<h, j>> : j \in missed}
        BY <3>2, SavePast
      <4>2. CASE f # h
        <5>1. disk'[f][i] = disk[f][i] /\ past'.meant[f] = past.meant[f]
          BY <3>2, <4>1, <4>2, Saved DEF KeepInv
        <5>2. <<f, i>> \in past.lost => <<f, i>> \in past'.lost
          BY <4>1, <4>2
        <5> QED BY <3>0, <5>1, <5>2
      <4>3. CASE f = h /\ i \in Changes(w)
        <5>1. past'.meant[f][i] = work[w].edits[i]
          BY <4>1, <4>3
        <5>2. disk'[f][i] = IF i \in Fields /\ work[w].edits[i] = Absent THEN Zero ELSE work[w].edits[i]
          BY <3>2, <4>3, Saved DEF KeepInv
        <5> QED BY <5>1, <5>2 DEF Unset
      <4>4. CASE f = h /\ i \in missed
        BY <4>1, <4>4
      <4>5. CASE f = h /\ i \notin Changes(w) \cup work[w].missed
        <5>1. past'.meant[f][i] = past.meant[f][i]
          BY <4>1, <4>5
        <5>2. <<f, i>> \in past.lost => <<f, i>> \in past'.lost
          BY <4>1, <4>5
        <5>3. Unset(disk'[f][i]) = Unset(disk[f][i])
          BY <3>2, <4>5, Saved DEF KeepInv, Unset
        <5> QED BY <3>0, <5>1, <5>2, <5>3
      <4> QED BY <4>2, <4>3, <4>4, <4>5
    <3> QED BY <3>1, <3>2, FilesChange
  <2> QED BY <2>1, <2>2 DEF KeepInv, ReadInv, EditsKept
<1> QED BY <1>1, <1>2, TypeInvHolds, PTL DEF Spec

\* What a request wrote stays in the file until a later one writes the same item; only
\* a request that had read the file before it takes it away (http.go:278, write.go:28).
THEOREM EditsKeptHolds == Spec => []EditsKept
<1>1. KeepInv => EditsKept
  BY DEF KeepInv
<1> QED BY <1>1, KeepInvHolds, PTL

-----------------------------------------------------------------------------
(* A restart shows the same                                                *)

\* A copy in memory is of what the file has, unless others have saved it since.
CopyInv ==
  \A w \in Workers : work[w].pc = "memory" /\ work[w].kind \in {"save", "delete"} =>
    \A n \in Changes(w) : n \in past.off \/ disk[work[w].file][n] = work[w].edits[n]
NamesShown ==
  \A n \in Names : n \in past.off \/ Copying({n}) # {} \/ memory[n] = Effective(disk, n)
FieldsShown ==
  \A f \in Fields : \/ f \in past.zeroed \/ <<"user", f>> \in past.lost
                    \/ disk["user"][f] \notin {Absent, Zero} \/ boot[f] = Effective(disk, f)

ShowInv == CopyInv /\ NamesShown /\ FieldsShown

\* What is effective depends on the item alone, and is what the last file says.
LEMMA SameEffective ==
  ASSUME NEW a, NEW b, NEW i, \A f \in Files : a[f][i] = b[f][i]
  PROVE  Effective(a, i) = Effective(b, i)
<1>1. Layers = <<"user", "repo", "local">> /\ Files = {"user", "repo", "local"}
  BY DEF Layers, Files
<1>2. DOMAIN Layers = 1 .. 3 /\ \A n \in 1 .. 3 : Layers[n] \in Files
  BY <1>1
<1> DEFINE Having(files) == {n \in DOMAIN Layers : files[Layers[n]][i] # Absent}
<1>3. Having(a) = Having(b)
  BY <1>2
<1>4. Having(b) # {} => Max(Having(b)) \in Having(b)
  <2>1. ASSUME NEW S \in SUBSET (1 .. 3), S # {}
        PROVE  Max(S) \in S
    <3>1. \A y \in S : y = 1 \/ y = 2 \/ y = 3
      OBVIOUS
    <3>2. \E x \in S : \A y \in S : x >= y
      <4>1. CASE 3 \in S
        BY <3>1, <4>1
      <4>2. CASE 3 \notin S /\ 2 \in S
        BY <3>1, <4>2
      <4>3. CASE 3 \notin S /\ 2 \notin S
        <5>1. PICK x \in S : TRUE
          BY <2>1
        <5>2. x = 1 /\ \A y \in S : y = 1
          BY <3>1, <4>3
        <5>3. \A y \in S : x >= y
          BY <5>2
        <5> QED BY <5>3
      <4> QED BY <4>1, <4>2, <4>3
    <3> QED BY <3>2 DEF Max
  <2> QED BY <1>2, <2>1
<1>5. Having(b) # {} => a[Layers[Max(Having(b))]][i] = b[Layers[Max(Having(b))]][i]
  BY <1>2, <1>4
<1> QED BY <1>3, <1>5 DEF Effective

\* A profile or a choice of columns that no file has has no effective value.
LEMMA NoneEffective ==
  ASSUME NEW a, NEW i, \A f \in Files : a[f][i] = Absent, i \notin Fields, i # Builtin
  PROVE  Effective(a, i) = Absent
<1>1. \A n \in DOMAIN Layers : Layers[n] \in Files
  BY DEF Layers, Files
<1> QED BY <1>1 DEF Effective

\* A worker that is about to copy stays where it is, or does.
LEMMA CopyingEnds ==
  ASSUME TypeInv, [Next]_vars, NEW v \in Workers, work[v].pc = "memory"
  PROVE  work'[v] = work[v] \/ CopyProfiles(v) \/ CopyPin(v) \/ Restart
<1>1. ASSUME NEW w \in Workers, WorkerStep(w)
      PROVE  work'[v] = work[v] \/ CopyProfiles(v) \/ CopyPin(v)
  <2>1. CASE w = v
    BY <1>1, <2>1 DEF WorkerStep, Asks, Ask, Load, Fail, Save, Install, Announce, Insert, NothingToRemove
  <2>2. CASE w # v /\ Save(w)
    BY <2>2, SaveFields DEF Reading
  <2>3. CASE w # v /\ ~Save(w)
    BY <1>1, <2>3, StepTurns DEF Turns
  <2> QED BY <2>1, <2>2, <2>3
<1>2. ASSUME SourceStep
      PROVE  work'[v] = work[v]
  <2>1. ASSUME NEW s \in Sids, RemoveSource(s) \/ TakeLine(s) \/ TickNext(s)
        PROVE  work'[v] = work[v]
    <3>1. RemoveSource(s) => work'[v] = work[v]
      BY DEF RemoveSource
    <3>2. TakeLine(s) => work'[v] = work[v]
      BY TakeLineFields DEF Turns, TakeLine
    <3>3. TickNext(s) => work'[v] = work[v]
      BY TickNextFields DEF Turns, TickNext
    <3> QED BY <2>1, <3>1, <3>2, <3>3
  <2>2. ASSUME NEW e \in scenario.entries, Observe(e)
        PROVE  work'[v] = work[v]
    <3>0. "ingester" \in Workers /\ work["ingester"].pc = "observe"
      BY <2>2 DEF Workers, Observe
    <3>1. PICK pc \in {"free", "install"} : Goes("ingester", pc)
      BY <2>2 DEF Observe
    <3>2. Turns("ingester")
      BY <3>0, <3>1, GoesFields DEF Pcs
    <3> QED BY <3>0, <3>2 DEF Turns
  <2>3. ASSUME NEW expired \in SUBSET Sids, Tick(expired)
        PROVE  work'[v] = work[v]
    <3>1. Turns("ticker") /\ work["ticker"].pc = "free"
      BY <2>3, TickFields DEF Tick
    <3> QED BY <3>1 DEF Turns
  <2> QED BY <1>2, <2>1, <2>2, <2>3 DEF SourceStep
<1>3. UNCHANGED vars => work'[v] = work[v]
  BY DEF vars
<1> QED BY <1>1, <1>2, <1>3, Steps

\* The history grows until the server starts anew; the races of choices are never forgotten.
LEMMA PastGrows ==
  ASSUME TypeInv, [Next]_vars
  PROVE  /\ past.overtaken \subseteq past'.overtaken
         /\ ~Restart => past.off \subseteq past'.off /\ past.zeroed \subseteq past'.zeroed
<1>0. IsPast(past)
  BY DEF TypeInv
<1>1. ASSUME NEW w \in Workers, Save(w)
      PROVE  /\ past.overtaken \subseteq past'.overtaken
             /\ past.off \subseteq past'.off /\ past.zeroed \subseteq past'.zeroed
  BY <1>1, SavePast
<1>2. ASSUME NEW w \in Workers, Fail(w) \/ CopyProfiles(w) \/ CopyPin(w)
      PROVE  /\ past.overtaken \subseteq past'.overtaken
             /\ past.off \subseteq past'.off /\ past.zeroed \subseteq past'.zeroed
  <2>1. CASE Fail(w)
    BY <1>0, <2>1, OtherPast DEF IsPast
  <2>2. CASE CopyProfiles(w)
    BY <1>0, <2>2, OtherPast DEF IsPast
  <2>3. CASE CopyPin(w)
    BY <1>0, <2>3, OtherPast DEF IsPast
  <2> QED BY <1>2, <2>1, <2>2, <2>3
<1>3. ASSUME NEW w \in Workers, WorkerStep(w)
      PROVE  UNCHANGED past \/ Save(w) \/ Fail(w) \/ CopyProfiles(w) \/ CopyPin(w)
  BY <1>3 DEF WorkerStep, Asks, Ask, Load, Install, Announce, Insert, NothingToRemove
<1>4. SourceStep \/ UNCHANGED vars => UNCHANGED past
  BY DEF SourceStep, RemoveSource, TakeLine, TickNext, Observe, Tick, vars
<1> QED BY <1>1, <1>2, <1>3, <1>4, Steps, RestartPast

\* The server's own copies change with a copy of profiles and with a restart.
LEMMA CopiesChange ==
  ASSUME TypeInv, [Next]_vars
  PROVE  /\ UNCHANGED boot \/ Restart
         /\ UNCHANGED memory \/ Restart \/ \E w \in Workers : CopyProfiles(w)
<1>1. ASSUME NEW w \in Workers, WorkerStep(w)
      PROVE  UNCHANGED boot /\ (UNCHANGED memory \/ CopyProfiles(w))
  BY <1>1 DEF WorkerStep, Asks, Ask, Load, Fail, Save, Install, Announce, CopyProfiles, CopyPin, Insert,
              NothingToRemove
<1>2. SourceStep \/ UNCHANGED vars => UNCHANGED <<boot, memory>>
  BY DEF SourceStep, RemoveSource, TakeLine, TickNext, Observe, Tick, vars
<1> QED BY <1>1, <1>2, Steps

\* Sections of the file have different names.
LEMMA Sections ==
  /\ \A n \in Names : n \in Items /\ n \notin Fields /\ n \notin Keys /\ n # Autostart
  /\ \A f \in Fields : f \in Items /\ f \notin Names /\ f \notin Keys /\ f # Autostart
  /\ \A k \in Keys : k \in Items /\ k \notin Fields /\ k \notin Names /\ k # Autostart
  BY SettingsAssumption DEF Items

\* Whoever saves the profile that another is about to copy is noted for it.
LEMMA CopyInvStays ==
  ASSUME TypeInv, ReadInv, CopyInv, [Next]_vars
  PROVE  CopyInv'
<1> SUFFICES ASSUME NEW v \in Workers, work'[v].pc = "memory", work'[v].kind \in {"save", "delete"},
                    NEW n \in DOMAIN work'[v].edits
             PROVE  n \in past'.off \/ disk'[work'[v].file][n] = work'[v].edits[n]
  BY DEF CopyInv, Changes
<1>0. /\ IsRequest(work[v]) /\ Doing(work[v])
  BY DEF TypeInv
<1>1. CASE work'[v] = work[v]
  <2>0. work[v].pc = "memory" /\ n \in Changes(v) /\ n \in Names /\ work[v].file \in Files
    BY <1>0, <1>1 DEF Doing, IsRequest, Changes
  <2>1. n \in past.off \/ disk[work[v].file][n] = work[v].edits[n]
    BY <1>1, <2>0 DEF CopyInv
  <2>2. ~Restart
    <3>1. work'[v] # Idle /\ work[v].kind \notin Cli
      BY <1>1, IdleFields DEF Cli
    <3> QED BY <3>1, RestartWork
  <2>3. CASE UNCHANGED disk
    BY <1>1, <2>1, <2>2, <2>3, PastGrows
  <2>4. ASSUME NEW w \in Workers, Save(w)
        PROVE  n \in past'.off \/ disk'[work[v].file][n] = work[v].edits[n]
    <3>1. CASE n \in Changes(w) \cup work[w].missed
      <4>1. v \in Copying(Changes(w)) \/ n \notin Changes(w)
        BY <2>0 DEF Copying, Changes
      <4> QED BY <2>0, <2>4, <3>1, <4>1, SavePast
    <3>2. CASE n \notin Changes(w) \cup work[w].missed
      <4>1. disk'[work[v].file][n] = disk[work[v].file][n]
        BY <2>0, <2>4, <3>2, Saved, Sections
      <4> QED BY <2>1, <2>2, <4>1, PastGrows
    <3> QED BY <3>1, <3>2
  <2> QED BY <1>1, <2>3, <2>4, FilesChange
<1>2. CASE Save(v) /\ work'[v].file = work[v].file /\ work'[v].edits = work[v].edits /\ work'[v].kind = work[v].kind
  <2>0. work[v].pc = "save" /\ work[v].kind \in {"save", "delete"}
    BY <1>2 DEF Save
  <2>1. n \in Changes(v) /\ n \in Names /\ work[v].file \in Files
    BY <1>0, <1>2, <2>0 DEF Doing, IsRequest, Changes
  <2>2. disk'[work[v].file][n] = work[v].edits[n]
    BY <1>2, <2>1, Saved, Sections
  <2> QED BY <1>2, <2>2
<1> QED BY <1>1, <1>2, Copiers

\* The list of profiles is right, but for those that are noted.
LEMMA NamesShownStays ==
  ASSUME TypeInv, ReadInv, CopyInv, NamesShown, [Next]_vars
  PROVE  NamesShown'
<1> SUFFICES ASSUME NEW n \in Names, n \notin past'.off,
                    \A v \in Workers : ~(work'[v].pc = "memory" /\ DOMAIN work'[v].edits \cap {n} # {})
             PROVE  memory'[n] = Effective(disk', n)
  BY DEF NamesShown, Copying, Changes
<1>0. n \in Items /\ n \notin Fields /\ n \notin Keys
  BY Sections
<1>1. CASE Restart
  BY <1>1 DEF Restart, Listed
<1>2. ASSUME NEW w \in Workers, CopyProfiles(w), n \in Changes(w)
      PROVE  memory'[n] = Effective(disk', n)
  <2> DEFINE f == work[w].file
  <2>1. UNCHANGED disk /\ memory'[n] = work[w].edits[n] /\ work[w].pc = "memory"
        /\ work[w].kind \in {"save", "delete"}
    BY <1>2 DEF CopyProfiles
  <2>2. n \notin past.off /\ ~Shadowed(w, n)
    BY <1>2, OtherPast, PastGrows
  <2>3. f \in Files /\ disk[f][n] = work[w].edits[n]
    BY <1>2, <2>1, <2>2 DEF CopyInv, TypeInv, IsRequest
  <2>4. CASE work[w].edits[n] = Absent
    <3>1. n # Builtin /\ \A g \in Files \ {f} : disk[g][n] = Absent
      BY <2>2, <2>4 DEF Shadowed
    <3>2. \A g \in Files : disk[g][n] = Absent
      BY <2>3, <2>4, <3>1
    <3>3. Effective(disk, n) = Absent
      BY <1>0, <3>1, <3>2, NoneEffective
    <3> QED BY <2>1, <2>4, <3>3
  <2>5. CASE work[w].edits[n] # Absent
    BY <2>1, <2>2, <2>3, <2>5 DEF Shadowed
  <2> QED BY <2>4, <2>5
<1>3. ASSUME ~Restart, ~\E w \in Workers : CopyProfiles(w) /\ n \in Changes(w)
      PROVE  n \notin past.off /\ memory'[n] = memory[n] /\ memory[n] = Effective(disk, n)
  <2>1. n \notin past.off
    BY <1>3, PastGrows
  <2>2. memory'[n] = memory[n]
    <3>1. ASSUME NEW w \in Workers, CopyProfiles(w)
          PROVE  memory'[n] = memory[n]
      BY <1>3, <3>1 DEF CopyProfiles
    <3> QED BY <1>3, <3>1, CopiesChange
  <2>3. Copying({n}) = {}
    <3>1. ASSUME NEW v \in Workers, work[v].pc = "memory", n \in Changes(v)
          PROVE  FALSE
      <4>1. work'[v] # work[v]
        BY <3>1 DEF Changes
      <4>2. ~CopyPin(v)
        BY <1>0, <3>1 DEF CopyPin, Pins, TypeInv, Doing, Changes
      <4> QED BY <1>3, <3>1, <4>1, <4>2, CopyingEnds
    <3> QED BY <3>1 DEF Copying
  <2> QED BY <2>1, <2>2, <2>3 DEF NamesShown
<1>4. ASSUME NEW w \in Workers, Save(w), ~Restart,
             ~\E v \in Workers : CopyProfiles(v) /\ n \in Changes(v)
      PROVE  memory'[n] = Effective(disk', n)
  <2>1. n \notin work[w].missed \ Changes(w)
    BY <1>4, SavePast
  <2>2. ASSUME n \in Changes(w)
        PROVE  FALSE
    <3>1. Doing(work[w]) /\ work[w].pc = "save"
      BY <1>4 DEF TypeInv, Save
    <3>2. work[w].kind \in {"save", "delete", "cliSave", "cliRemove"}
      BY <1>0, <2>2, <3>1, Sections, SettingsAssumption DEF Doing, Changes
    <3>3. work[w].kind \notin Cli
      BY <1>4, <2>2, SavePast
    <3>4. work'[w].pc = "memory" /\ work'[w].edits = work[w].edits
      BY <1>4, <3>2, <3>3, SavedFields, AfterwardsPcs DEF Cli
    <3> QED BY <2>2, <3>4 DEF Changes
  <2>3. ASSUME NEW g \in Files
        PROVE  disk'[g][n] = disk[g][n]
    BY <1>0, <1>4, <2>1, <2>2, Saved
  <2> QED BY <1>3, <1>4, <2>3, SameEffective
<1> QED BY <1>1, <1>2, <1>3, <1>4, FilesChange

\* The settings are right, but for those that are noted.
LEMMA FieldsShownStays ==
  ASSUME TypeInv, ReadInv, FieldsShown, [Next]_vars
  PROVE  FieldsShown'
<1> SUFFICES ASSUME NEW f \in Fields, f \notin past'.zeroed, <<"user", f>> \notin past'.lost,
                    disk'["user"][f] \in {Absent, Zero}
             PROVE  boot'[f] = Effective(disk', f)
  BY DEF FieldsShown
<1>0. f \in Items /\ f \notin Names /\ f \notin Keys /\ f # Autostart /\ "user" \in Files
  BY Sections DEF Files
<1>1. CASE Restart
  BY <1>1 DEF Restart, Started
<1>2. CASE ~Restart /\ UNCHANGED disk /\ past'.lost = past.lost
  BY <1>2, PastGrows, CopiesChange DEF FieldsShown
<1>3. ASSUME NEW w \in Workers, Save(w), ~Restart
      PROVE  boot'[f] = Effective(disk', f)
  <2>0. Doing(work[w]) /\ Mild(work[w]) /\ work[w].pc = "save"
    BY <1>3 DEF TypeInv, Save
  <2>1. f \notin Changes(w)
    <3>1. ASSUME f \in Changes(w)
          PROVE  FALSE
      <4>1. work[w].kind \in {"cliUse", "config"} /\ work[w].file = "user" /\ work[w].edits[f] \notin {Absent, Zero}
        BY <1>0, <2>0, <3>1, SettingsAssumption DEF Doing, Changes
      <4>2. disk'["user"][f] = work[w].edits[f]
        BY <1>0, <1>3, <3>1, <4>1, Saved
      <4> QED BY <4>1, <4>2
    <3> QED BY <3>1
  <2>2. f \notin work[w].missed
    BY <1>3, <2>0, <2>1, SavePast DEF Mild
  <2>3. work[w].read[f] # Absent
    BY <1>3, <2>1, SavePast
  <2>4. \A g \in Files : disk'[g][f] = disk[g][f]
    BY <1>0, <1>3, <2>1, <2>2, <2>3, Saved
  <2>5. f \notin past.zeroed
    BY <1>3, PastGrows
  <2>6. <<"user", f>> \notin past.lost
    BY <1>3, <2>1, SavePast
  <2>7. boot[f] = Effective(disk, f)
    BY <1>0, <2>4, <2>5, <2>6 DEF FieldsShown
  <2>8. UNCHANGED boot
    BY <1>3 DEF Save
  <2> QED BY <2>4, <2>7, <2>8, SameEffective
<1> QED BY <1>1, <1>2, <1>3, FilesChange

\* What the server shows is what the files say, but for the excuses (ReadInv is needed:
\* a save writes back what it read).
LEMMA ShowInvHolds == Spec => []ShowInv
<1>1. Init => ShowInv
  BY DEF Init, Listed, Started, Idle, ShowInv, CopyInv, NamesShown, FieldsShown
<1>2. TypeInv /\ ReadInv /\ ShowInv /\ [Next]_vars => ShowInv'
  BY CopyInvStays, NamesShownStays, FieldsShownStays DEF ShowInv
<1>3. KeepInv => ReadInv
  BY DEF KeepInv
<1> QED BY <1>1, <1>2, <1>3, TypeInvHolds, KeepInvHolds, PTL DEF Spec

\* The profiles the server lists and the settings it answers with are those it would
\* have if it were started now, but for those changed behind its back, raced for, held
\* by several files, lost or written as zero (Settings.RestartShowsTheSame).
THEOREM RestartShowsTheSameHolds == Spec => []RestartShowsTheSame
<1>1. ShowInv => RestartShowsTheSame
  BY DEF ShowInv, NamesShown, FieldsShown, RestartShowsTheSame, Shown, Started
<1> QED BY <1>1, ShowInvHolds, PTL

-----------------------------------------------------------------------------
(* A choice of columns stands                                              *)

\* A choice about to be copied is that of the file, unless others have raced with it.
MadeInv ==
  \A w \in Workers : work[w].pc = "memory" /\ work[w].kind = "pin" =>
    \A k \in Changes(w) : k \in past.overtaken \/ disk["user"][k] = work[w].edits[k]

\* The last choice for a source is made, and nothing has raced with it.
Settled(k) == past.pinned[k] # Absent /\ k \notin past.overtaken /\ Copying({k}) = {}

\* Then it is in the file; the sources of that name have it and no detector; and nobody
\* is about to give them other columns.
Stands(k) ==
  /\ disk["user"][k] = past.pinned[k]
  /\ \A s \in Attached(k) : rec[s].pinned = past.pinned[k] /\ ~rec[s].detector
  /\ ~UnderWay(k, past.pinned[k])
ChoiceInv == MadeInv /\ \A k \in Keys : Settled(k) => Stands(k)

\* What one worker has on its way.
Threatens(w, k, cols) ==
  \/ work[w].sid # 0 /\ Key[work[w].sid] = k
     /\ \/ work[w].pc \in {"observe", "install"}
        \/ work[w].kind = "recommend" /\ work[w].pc \in {"load", "save"}
        \/ work[w].pc = "insert" /\ work[w].read[k] # cols
  \/ \E s \in work[w].rest : Key[s] = k

\* Sources are numbered from 1 and their columns are items of the files.
LEMMA SidsFact == \A s \in Sids : s # 0 /\ Key[s] \in Keys
  BY SettingsAssumption

\* What a step makes of a source.
LEMMA RecFates ==
  ASSUME TypeInv, [Next]_vars, NEW s \in Sids
  PROVE  \/ /\ rec'[s].state = rec[s].state /\ rec'[s].pinned = rec[s].pinned
            /\ rec'[s].detector = rec[s].detector
         \/ rec'[s].state # "in"
         \/ \E w \in Workers : CopyPin(w) /\ Key[s] \in Changes(w)
         \/ \E w \in Workers : Install(w) /\ work[w].sid = s
         \/ \E w \in Workers :
              /\ Insert(w) /\ work[w].sid = s
              /\ work[w].read[Key[s]] # Absent =>
                   rec'[s].pinned = work[w].read[Key[s]] /\ ~rec'[s].detector
<1> DEFINE Same == /\ rec'[s].state = rec[s].state /\ rec'[s].pinned = rec[s].pinned
                   /\ rec'[s].detector = rec[s].detector
<1>0. rec = [x \in Sids |-> rec[x]] /\ \A x \in Sids : IsRec(rec[x])
  BY DEF TypeInv
<1>1. ASSUME NEW w \in Workers, CopyPin(w)
      PROVE  Same \/ Key[s] \in Changes(w)
  BY <1>1 DEF CopyPin
<1>2. ASSUME NEW w \in Workers, Insert(w)
      PROVE  \/ Same
             \/ /\ work[w].sid = s
                /\ work[w].read[Key[s]] # Absent =>
                     rec'[s].pinned = work[w].read[Key[s]] /\ ~rec'[s].detector
  <2> DEFINE x == work[w].sid
             pref == work[w].read[Key[x]]
             new == IF pref # Absent THEN [NoRec EXCEPT !.state = "in", !.pinned = pref]
                    ELSE [NoRec EXCEPT !.state = "in", !.detector = TRUE, !.open = TRUE]
  <2>1. rec' = [rec EXCEPT ![x] = new]
    BY <1>2 DEF Insert
  <2>2. new = (IF pref # Absent THEN [NoRec EXCEPT !.state = "in", !.pinned = pref]
               ELSE [NoRec EXCEPT !.state = "in", !.detector = TRUE, !.open = TRUE])
    OBVIOUS
  <2> HIDE DEF new
  <2>3. CASE x = s
    <3>1. rec'[s] = new
      BY <1>0, <2>1, <2>3
    <3>2. pref # Absent => new.pinned = pref /\ new.detector = FALSE
      <4> HIDE DEF pref
      <4> QED BY <2>2 DEF NoRec
    <3> QED BY <2>3, <3>1, <3>2
  <2>4. CASE x # s
    BY <1>0, <2>1, <2>4
  <2> QED BY <2>3, <2>4
<1>3. ASSUME NEW x \in Sids, RemoveSource(x)
      PROVE  Same \/ rec'[s].state # "in"
  <2>1. rec' = [rec EXCEPT ![x].state = "gone"]
    BY <1>3 DEF RemoveSource
  <2>2. CASE x = s
    BY <1>0, <2>1, <2>2 DEF IsRec
  <2>3. CASE x # s
    BY <1>0, <2>1, <2>3
  <2> QED BY <2>2, <2>3
<1>4. ASSUME NEW e, Observe(e)
      PROVE  Same
  <2> DEFINE x == work["ingester"].sid
             seen == Append(rec[x].seen, e)
             open == ~(Len(seen) >= scenario.limit)
  <2>1. UNCHANGED rec \/ rec' = [rec EXCEPT ![x].seen = seen, ![x].open = open]
    BY <1>4 DEF Observe
  <2> HIDE DEF x, seen, open
  <2>2. IsRec(rec[s])
    BY <1>0
  <2> QED BY <1>0, <2>1, <2>2 DEF IsRec
<1>5. ASSUME NEW expired \in SUBSET Sids, Tick(expired)
      PROVE  Same
  <2>1. rec'[s] = rec[s] \/ rec'[s] = [rec[s] EXCEPT !.open = FALSE]
    BY <1>5 DEF Tick
  <2>2. IsRec(rec[s])
    BY <1>0
  <2> QED BY <2>1, <2>2 DEF IsRec
<1>6. ASSUME NEW w \in Workers, Install(w)
      PROVE  Same \/ work[w].sid = s
  <2> DEFINE x == work[w].sid
             cols == Recommendation(x)[Key[x]]
  <2>1. UNCHANGED rec \/ rec' = [rec EXCEPT ![x].pinned = cols]
    BY <1>6, InstallFields
  <2> HIDE DEF cols
  <2> QED BY <1>0, <2>1
<1>7. ASSUME Restart
      PROVE  rec'[s].state # "in"
  BY <1>7 DEF Restart, NoRec
<1>8. ASSUME NEW w \in Workers, WorkerStep(w)
      PROVE  UNCHANGED rec \/ CopyPin(w) \/ Insert(w) \/ Install(w)
  BY <1>8 DEF WorkerStep, Asks, Ask, Load, Fail, Save, Announce, CopyProfiles, NothingToRemove
<1>9. SourceStep => \/ UNCHANGED rec \/ \E x \in Sids : RemoveSource(x)
                    \/ \E e \in scenario.entries : Observe(e)
                    \/ \E expired \in SUBSET Sids : Tick(expired)
  BY DEF SourceStep, TakeLine, TickNext
<1>10. UNCHANGED vars \/ UNCHANGED rec => Same
  BY DEF vars
<1> QED BY <1>1, <1>2, <1>3, <1>4, <1>5, <1>6, <1>7, <1>8, <1>9, <1>10, Steps

\* Whoever saves the choice that another is about to copy is noted for it.
LEMMA MadeInvStays ==
  ASSUME TypeInv, ReadInv, MadeInv, [Next]_vars
  PROVE  MadeInv'
<1> SUFFICES ASSUME NEW v \in Workers, work'[v].pc = "memory", work'[v].kind = "pin",
                    NEW k \in DOMAIN work'[v].edits
             PROVE  k \in past'.overtaken \/ disk'["user"][k] = work'[v].edits[k]
  BY DEF MadeInv, Changes
<1>0. IsRequest(work[v]) /\ Doing(work[v]) /\ "user" \in Files
  BY DEF TypeInv, Files
<1>1. CASE work'[v] = work[v]
  <2>0. work[v].pc = "memory" /\ k \in Changes(v) /\ k \in Keys
    BY <1>0, <1>1 DEF Doing, Changes
  <2>1. k \in past.overtaken \/ disk["user"][k] = work[v].edits[k]
    BY <1>1, <2>0 DEF MadeInv
  <2>2. CASE UNCHANGED disk
    BY <1>1, <2>1, <2>2, PastGrows
  <2>3. ASSUME NEW w \in Workers, Save(w)
        PROVE  k \in past'.overtaken \/ disk'["user"][k] = work[v].edits[k]
    <3>1. CASE k \in Changes(w) \cup work[w].missed
      <4>1. v \in Copying(Changes(w)) \/ k \notin Changes(w)
        BY <2>0 DEF Copying, Changes
      <4> QED BY <2>0, <2>3, <3>1, <4>1, SavePast
    <3>2. CASE k \notin Changes(w) \cup work[w].missed
      <4>1. disk'["user"][k] = disk["user"][k]
        BY <1>0, <2>0, <2>3, <3>2, Saved, Sections
      <4> QED BY <2>1, <4>1, PastGrows
    <3> QED BY <3>1, <3>2
  <2> QED BY <1>1, <2>2, <2>3, FilesChange
<1>2. CASE /\ work'[v].edits = work[v].edits /\ work'[v].kind = work[v].kind
           /\ Save(v) \/ Fail(v)
  <2>0. work[v].pc \in {"load", "save"} /\ work[v].kind = "pin"
    BY <1>2 DEF Save, Fail
  <2>1. k \in Changes(v) /\ k \in Keys /\ work[v].file = "user"
    BY <1>0, <1>2, <2>0 DEF Doing, Changes
  <2>2. Save(v) => disk'["user"][k] = work[v].edits[k]
    BY <1>0, <2>1, Saved, Sections
  <2>3. Fail(v) => k \in past'.overtaken
    BY <2>0, <2>1, OtherPast DEF Pins
  <2> QED BY <1>2, <2>2, <2>3
<1> QED BY <1>1, <1>2, Copiers

\* What is settled was, unless it is being settled by this step.
LEMMA Settling ==
  ASSUME TypeInv, [Next]_vars, NEW k \in Keys, Settled(k)',
         ~Restart, ~\E w \in Workers : CopyPin(w) /\ k \in Changes(w)
  PROVE  Settled(k) /\ past'.pinned[k] = past.pinned[k]
<1>0. IsPast(past) /\ past'.pinned[k] # Absent /\ k \notin past'.overtaken
  BY DEF TypeInv, Settled
<1>1. k \notin past.overtaken
  BY <1>0, PastGrows
<1>2. past'.pinned[k] = past.pinned[k]
  <2>1. ASSUME NEW w \in Workers, Save(w)
        PROVE  past'.pinned[k] = past.pinned[k]
    BY <1>0, <2>1, SavePast
  <2>2. ASSUME NEW w \in Workers, Fail(w) \/ CopyProfiles(w)
        PROVE  past'.pinned[k] = past.pinned[k]
    <3>1. past' = [past EXCEPT !.overtaken = past'.overtaken] \/ past' = [past EXCEPT !.off = past'.off]
      BY <2>2, OtherPast
    <3> QED BY <1>0, <3>1 DEF IsPast
  <2>3. ASSUME NEW w \in Workers, CopyPin(w)
        PROVE  past'.pinned[k] = past.pinned[k]
    BY <2>3, OtherPast
  <2>4. ASSUME NEW w \in Workers, WorkerStep(w)
        PROVE  UNCHANGED past \/ Save(w) \/ Fail(w) \/ CopyProfiles(w) \/ CopyPin(w)
    BY <2>4 DEF WorkerStep, Asks, Ask, Load, Install, Announce, Insert, NothingToRemove
  <2>5. SourceStep \/ UNCHANGED vars => UNCHANGED past
    BY DEF SourceStep, RemoveSource, TakeLine, TickNext, Observe, Tick, vars
  <2> QED BY <2>1, <2>2, <2>3, <2>4, <2>5, Steps
<1>3. Copying({k}) = {}
  <2>1. ASSUME NEW v \in Workers, work[v].pc = "memory", k \in Changes(v)
        PROVE  FALSE
    <3>1. work'[v] # work[v]
      BY <2>1 DEF Settled, Copying, Changes
    <3>2. ~CopyProfiles(v)
      BY <2>1, Sections DEF CopyProfiles, TypeInv, Doing, Changes
    <3> QED BY <2>1, <3>1, <3>2, CopyingEnds
  <2> QED BY <2>1 DEF Copying
<1> QED BY <1>0, <1>1, <1>2, <1>3 DEF Settled

\* The file goes on having the columns.
LEMMA FileStands ==
  ASSUME TypeInv, ReadInv, [Next]_vars, NEW k \in Keys, Settled(k)', Settled(k), Stands(k),
         past'.pinned[k] = past.pinned[k]
  PROVE  disk'["user"][k] = past'.pinned[k]
<1>0. "user" \in Files /\ disk["user"][k] = past.pinned[k]
  BY DEF Files, Stands
<1>1. ASSUME NEW w \in Workers, Save(w)
      PROVE  disk'["user"][k] = disk["user"][k]
  <2>0. Doing(work[w]) /\ work[w].pc = "save"
    BY <1>1 DEF TypeInv, Save
  <2>1. k \notin work[w].missed \ Changes(w)
    BY <1>1, SavePast DEF Settled
  <2>2. ASSUME k \in Changes(w)
        PROVE  FALSE
    <3>1. work[w].kind \in {"pin", "unpin"} \/ (work[w].kind = "recommend" /\ work[w].sid \in Sids /\ Key[work[w].sid] = k)
      BY <2>0, <2>2, Sections DEF Doing, Changes
    <3>2. work[w].kind # "unpin"
      BY <1>1, <2>2, SavePast DEF Settled
    <3>3. work[w].kind # "pin"
      <4>1. work[w].kind = "pin" => work'[w].pc = "memory" /\ work'[w].edits = work[w].edits
        BY <1>1, SavedFields, AfterwardsPcs
      <4> QED BY <2>2, <4>1 DEF Settled, Copying, Changes
    <3>4. work[w].kind # "recommend"
      BY <2>0, <3>1, SidsFact DEF Stands, UnderWay
    <3> QED BY <3>1, <3>2, <3>3, <3>4
  <2> QED BY <1>0, <1>1, <2>1, <2>2, Saved, Sections
<1> QED BY <1>0, <1>1, FilesChange

\* So do the sources.
LEMMA SourcesStand ==
  ASSUME TypeInv, [Next]_vars, NEW k \in Keys, Stands(k), past.pinned[k] # Absent,
         ~\E w \in Workers : CopyPin(w) /\ k \in Changes(w),
         NEW s \in Sids, Key[s] = k, rec'[s].state = "in"
  PROVE  rec'[s].pinned = past.pinned[k] /\ ~rec'[s].detector
<1>1. ASSUME NEW w \in Workers, Install(w), work[w].sid = s
      PROVE  FALSE
  BY <1>1, SidsFact DEF Install, Stands, UnderWay
<1>2. ASSUME NEW w \in Workers, Insert(w), work[w].sid = s
      PROVE  work[w].read[k] = past.pinned[k]
  BY <1>2, SidsFact DEF Insert, Stands, UnderWay
<1>3. rec[s].state = "in" => rec[s].pinned = past.pinned[k] /\ ~rec[s].detector
  BY DEF Stands, Attached
<1> QED BY <1>1, <1>2, <1>3, RecFates

\* And nobody begins to give them others.
LEMMA NobodyThreatens ==
  ASSUME TypeInv, [Next]_vars, NEW k \in Keys, Settled(k)', Settled(k), Stands(k),
         NEW v \in Workers, NEW cols, cols = past.pinned[k]
  PROVE  ~Threatens(v, k, cols)'
<1> DEFINE r == work'[v]
           o == work[v]
<1>0. /\ IsRequest(o) /\ Doing(o) /\ o.rest \subseteq Sids
      /\ \A w \in Workers : ~Threatens(w, k, cols)
  BY DEF TypeInv, Stands, UnderWay, Threatens
<1>1. ASSUME NEW s \in Sids, rec[s].state = "in", rec[s].detector
      PROVE  Key[s] # k
  BY <1>1 DEF Stands, Attached
<1>2. CASE r = o
  BY <1>0, <1>2 DEF Threatens
<1>3. CASE Asks(v)
  <2>1. r.pc = "load" /\ r.rest = {} /\ r.kind # "recommend"
    BY <1>3, AskFields, SettingsAssumption DEF Asks, Cli
  <2> QED BY <2>1 DEF Threatens
<1>4. CASE Load(v)
  <2>1. /\ r.read = disk[o.file] /\ r.pc = (IF o.kind = "attach" THEN "insert" ELSE "save")
        /\ r.kind = o.kind /\ r.sid = o.sid /\ r.rest = o.rest /\ o.pc = "load"
    BY <1>4, LoadFields DEF Load
  <2>2. o.kind = "attach" => o.file = "user" /\ r.read[k] = cols
    BY <1>0, <2>1 DEF Doing, Stands
  <2> QED BY <1>0, <2>1, <2>2 DEF Threatens
<1>5. CASE Fail(v)
  <2>1. r.rest = o.rest
    BY <1>5, FailFields
  <2>2. \/ r.sid = 0
        \/ r.kind = "attach" /\ o.kind = "attach" /\ r.sid = o.sid
        \/ r.pc \in {"memory", "announce"}
    BY <1>5, FailFields
  <2>3. o.kind = "attach" => Key[o.sid] # k
    BY <1>5, OtherPast DEF Settled
  <2> QED BY <1>0, <2>1, <2>2, <2>3 DEF Threatens
<1>6. CASE Save(v)
  <2>1. r.pc \in {"memory", "announce", "free"} /\ r.rest = o.rest
    BY <1>6, SavedFields DEF Afterwards
  <2> QED BY <1>0, <2>1 DEF Threatens
<1>7. CASE Install(v)
  <2>1. o.pc = "install" /\ r.rest = o.rest /\ (r.pc = "free" \/ r.sid = o.sid)
    BY <1>7, InstallFields DEF Install
  <2>2. o.sid \in Sids
    BY <1>0, <2>1 DEF Doing
  <2> QED BY <1>0, <2>1, <2>2, SidsFact DEF Threatens
<1>8. CASE Goes(v, "free")
  <2>1. r.sid = 0 /\ r.rest = o.rest
    BY <1>8, FreedFields
  <2> QED BY <1>0, <2>1 DEF Threatens
<1>9. ASSUME NEW w \in Workers \ {v}, Save(w), v \in Reading(work[w].file),
             Learns(v, Changes(w) \cup work[w].missed)
      PROVE  ~Threatens(v, k, cols)'
  BY <1>0, <1>9 DEF Threatens, Learns
<1>10. ASSUME NEW s \in Sids, v = "ingester", TakeLine(s)
       PROVE  ~Threatens(v, k, cols)'
  <2>1. r.sid = s /\ r.rest = {}
    BY <1>10, TakeLineFields
  <2>2. Key[s] # k
    BY <1>1, <1>10 DEF TakeLine
  <2> QED BY <2>1, <2>2 DEF Threatens
<1>11. CASE Goes(v, "install") /\ o.pc = "observe"
  <2>1. r.sid = o.sid /\ r.rest = o.rest /\ r.pc = "install"
    BY <1>11, GoesFields, LeavesFields DEF Pcs
  <2> QED BY <1>0, <1>11, <2>1 DEF Threatens
<1>12. ASSUME NEW s \in Sids, v = "ticker", TickNext(s)
       PROVE  ~Threatens(v, k, cols)'
  <2>1. r.sid = s /\ r.rest = o.rest \ {s} /\ s \in o.rest
    BY <1>12, TickNextFields DEF TickNext
  <2> QED BY <1>0, <2>1 DEF Threatens
<1>13. ASSUME NEW expired \in SUBSET Sids, v = "ticker", Tick(expired)
       PROVE  ~Threatens(v, k, cols)'
  <2>1. r.sid = 0 /\ r.rest = expired
    BY <1>13, TickFields
  <2>2. \A s \in expired : Key[s] # k
    BY <1>1, <1>13 DEF Tick
  <2> QED BY <2>1, <2>2 DEF Threatens
<1>14. CASE r = Idle
  BY <1>14, IdleFields DEF Threatens
<1> QED BY <1>2, <1>3, <1>4, <1>5, <1>6, <1>7, <1>8, <1>9, <1>10, <1>11, <1>12, <1>13, <1>14, Fates DEF Fate

\* A settled choice of columns stands in the file and in the sources of its key.
LEMMA ChoiceInvHolds == Spec => []ChoiceInv
<1>1. Init => ChoiceInv
  BY DEF Init, Idle, ChoiceInv, MadeInv, Settled
<1>2. TypeInv /\ ReadInv /\ ChoiceInv /\ [Next]_vars => ChoiceInv'
  <2> SUFFICES ASSUME TypeInv, ReadInv, ChoiceInv, [Next]_vars PROVE ChoiceInv'
    OBVIOUS
  <2>1. MadeInv'
    BY MadeInvStays DEF ChoiceInv
  <2>2. ASSUME NEW k \in Keys, Settled(k)'
        PROVE  Stands(k)'
    <3>1. ASSUME NEW w \in Workers, CopyPin(w), k \in Changes(w)
          PROVE  Stands(k)'
      <4> DEFINE cols == work[w].edits[k]
      <4>1. past'.pinned[k] = cols /\ ~UnderWay(k, cols)
        BY <2>2, <3>1, OtherPast DEF Settled
      <4>2. k \notin past.overtaken
        BY <2>2, PastGrows DEF Settled
      <4>3. UNCHANGED disk /\ disk["user"][k] = cols
        BY <3>1, <4>2 DEF ChoiceInv, MadeInv, CopyPin, Pins
      <4>4. ASSUME NEW s \in Sids, Key[s] = k, rec'[s].state = "in"
            PROVE  rec'[s].pinned = cols /\ ~rec'[s].detector
        <5>1. IsRec(rec[s])
          BY DEF TypeInv
        <5>2. rec'[s] = IF rec[s].state = "in" THEN [rec[s] EXCEPT !.pinned = cols, !.detector = FALSE]
                        ELSE rec[s]
          BY <3>1, <4>4 DEF CopyPin
        <5> HIDE DEF cols
        <5> QED BY <4>4, <5>1, <5>2 DEF IsRec
      <4>5. Goes(w, "free")
        BY <3>1 DEF CopyPin
      <4>6. Turns(w) /\ work'[w].sid = 0 /\ work'[w].rest = work[w].rest
        BY <4>5, FreedFields, GoesFields DEF Pcs
      <4>7. ~UnderWay(k, past.pinned[k])'
        BY <4>1, <4>6 DEF UnderWay, Turns
      <4> QED BY <4>1, <4>3, <4>4, <4>7 DEF Stands, Attached
    <3>2. CASE Restart
      <4>1. Settled(k) /\ past'.pinned[k] = past.pinned[k] /\ UNCHANGED disk
        BY <2>2, <3>2, RestartPast DEF Settled, Restart
      <4>2. Stands(k)
        BY <4>1 DEF ChoiceInv
      <4>3. \A s \in Sids : rec'[s].state # "in"
        BY <3>2 DEF Restart, NoRec
      <4>4. \A v \in Workers : ~Threatens(v, k, past.pinned[k])'
        <5> DEFINE cols == past.pinned[k]
        <5> SUFFICES ASSUME NEW v \in Workers PROVE ~Threatens(v, k, past.pinned[k])'
          OBVIOUS
        <5>1. work'[v] = work[v] \/ work'[v] = Idle
          BY <3>2, RestartWork
        <5>2. ~Threatens(v, k, past.pinned[k])
          BY <4>2 DEF Stands, UnderWay, Threatens
        <5> QED BY <4>1, <5>1, <5>2, IdleFields DEF Threatens
      <4> QED BY <4>1, <4>2, <4>3, <4>4 DEF Stands, Attached, UnderWay, Threatens
    <3>3. CASE ~Restart /\ ~\E w \in Workers : CopyPin(w) /\ k \in Changes(w)
      <4>1. Settled(k) /\ past'.pinned[k] = past.pinned[k]
        BY <2>2, <3>3, Settling
      <4>2. Stands(k)
        BY <4>1 DEF ChoiceInv
      <4>3. disk'["user"][k] = past'.pinned[k]
        BY <2>2, <4>1, <4>2, FileStands
      <4>4. \A s \in Attached(k)' : rec'[s].pinned = past'.pinned[k] /\ ~rec'[s].detector
        BY <3>3, <4>1, <4>2, SourcesStand DEF Attached, Settled
      <4>5. \A v \in Workers : ~Threatens(v, k, past.pinned[k])'
        <5> DEFINE cols == past.pinned[k]
        <5>1. PICK c : c = cols
          OBVIOUS
        <5>2. \A v \in Workers : ~Threatens(v, k, c)'
          BY <2>2, <4>1, <4>2, <5>1, NobodyThreatens
        <5> QED BY <4>1, <5>1, <5>2 DEF Threatens
      <4> QED BY <4>3, <4>4, <4>5 DEF Stands, UnderWay, Threatens
    <3> QED BY <3>1, <3>2, <3>3
  <2> QED BY <2>1, <2>2 DEF ChoiceInv
<1>3. KeepInv => ReadInv
  BY DEF KeepInv
<1> QED BY <1>1, <1>2, <1>3, TypeInvHolds, KeepInvHolds, PTL DEF Spec

\* "User took over" (http.go:487): the columns a user chose are those of the file and of
\* every source of that name, until the next choice, but for the races of UnderWay and
\* failures of the file (Settings.PinsStand).
THEOREM PinsStandHolds == Spec => []PinsStand
<1>1. ChoiceInv => PinsStand
  BY DEF ChoiceInv, Settled, Stands, PinsStand
<1> QED BY <1>1, ChoiceInvHolds, PTL
=============================================================================
