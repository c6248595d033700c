------------------------------ MODULE Settings ------------------------------
(***************************************************************************)
(* The configuration files and what a server keeps of them: the list of    *)
(* profiles it was started with, the settings it was started with, and the *)
(* columns of every source, which the user pins or a detector recommends.  *)
(*                                                                         *)
(* A file is a function from items to values: single settings, the list of *)
(* autostarted sources, profiles by name, column preferences by source.    *)
(* Every change of a file, by a handler of the server, by the ingester, by *)
(* the ticker or by a command of another process, is a read of the whole   *)
(* file, a change in memory and a rename over the file; no lock is held    *)
(* between them.                                                           *)
(***************************************************************************)
EXTENDS ColumnSampler

CONSTANTS
  Handlers,           \* goroutines of the server and commands that serve one request each
  Sids,               \* ids of sources
  Key,                \* [Sids -> Keys]: kind and name of a source, as preferences name it
  Keys, Names, Fields,      \* sources, profiles, single settings
  DefaultProfile,     \* the setting that names a profile
  Builtin,            \* the profile there is without any file
  Absent, Zero, Shipped,    \* not in the file; the zero value; the value of Defaults
  Written,            \* the values that requests write, in their order
  Kinds,              \* kinds of request
  Scenarios           \* bounds: kinds and number of requests, the files at the start,
                      \* the entries of lines and how many a sampler takes, restarts,
                      \* whether files may fail

Autostart == "autostart"
Items  == Fields \cup {Autostart} \cup Names \cup Keys
Files  == {"user", "repo", "local"}
Layers == <<"user", "repo", "local">>
Cli    == {"cliUse", "cliSave", "cliRemove"}

ASSUME SettingsAssumption ==
  /\ DefaultProfile \in Fields /\ Builtin \in Names /\ Key \in [Sids -> Keys]
  /\ Fields \cap Names = {} /\ Fields \cap Keys = {} /\ Names \cap Keys = {}
  /\ Autostart \notin Fields \cup Names \cup Keys   \* sections of the file
  /\ 0 \notin Sids                                   \* of no source
  /\ Absent # Zero
  \* "The UI never sends those values" (http.go:220): a request writes neither.
  /\ Written \in Seq(ToSet(Written)) /\ {Absent, Zero} \cap ToSet(Written) = {}
  /\ Kinds = Cli \cup {"save", "delete", "config", "autostart", "pin", "unpin", "attach"}
  /\ \A s \in Scenarios : /\ s.kinds \subseteq Kinds /\ s.requests \in 0 .. Len(Written)
                          /\ s.restarts \in Nat /\ s.limit \in Nat \ {0} /\ s.faulty \in BOOLEAN
                          /\ s.files = [f \in Files |-> [i \in Items |-> s.files[f][i]]]

VARIABLES
  disk,      \* [Files -> [Items -> values]]
  memory,    \* [Names -> values]: Options.Profiles
  boot,      \* [Fields -> values]: the settings among the Options
  rec,       \* [Sids -> record]: columns and detector of a source
  work,      \* [Workers -> record]: what a goroutine is doing
  asked,     \* requests so far
  restarts,  \* restarts so far
  past,      \* history that the properties look at, see below
  scenario

vars == <<disk, memory, boot, rec, work, asked, restarts, past, scenario>>

Workers == Handlers \cup {"ingester", "ticker"}

\* meant: what the last save of each item wrote, or was there at the start;
\* lost: items overwritten by a save that had read the file before the last save of them;
\* off: profiles that the list of the server is known to be wrong about;
\* zeroed: settings that a save wrote as zero because the file did not have them;
\* pinned: the columns a user chose last; overtaken: sources whose choice something
\* has raced with.
\* work[w].missed: items that others have changed in the file since w read it.
-----------------------------------------------------------------------------
(* Files                                                                   *)

\* The settings of a file are written even when it did not have them, as zero;
\* lists are left out when they are empty.
Encode(content) ==
  [i \in Items |-> IF i \in Fields /\ content[i] = Absent THEN Zero ELSE content[i]]

\* Load: the last file that has an item wins; a profile counts as one item.
Effective(files, i) ==
  LET having == {n \in DOMAIN Layers : files[Layers[n]][i] # Absent}
  IN IF having # {} THEN files[Layers[Max(having)]][i]
     ELSE IF i \in Fields \cup {Builtin} THEN Shipped ELSE Absent

\* GET /api/config: the user's file, or what the server was started with.
Shown(f, started) ==
  IF disk["user"][f] \in {Absent, Zero} THEN started[f] ELSE disk["user"][f]

Started(files) == [f \in Fields |-> Effective(files, f)]
Listed(files)  == [n \in Names |-> Effective(files, n)]

-----------------------------------------------------------------------------
NoEdits == [i \in {} |-> Absent]
Edit(i, value) == [x \in {i} |-> value]
Nothing == [i \in Items |-> Absent]
Idle == [pc |-> "free", kind |-> "none", file |-> "user", edits |-> NoEdits,
         read |-> NoEdits, sid |-> 0, rest |-> {}, missed |-> {}]
NoRec == [state |-> "none", pinned |-> Absent, detector |-> FALSE, open |-> FALSE,
          seen |-> <<>>]

TypeOK ==
  /\ \A f \in Files : DOMAIN disk[f] = Items
  /\ DOMAIN memory = Names /\ DOMAIN boot = Fields
  /\ \A s \in Sids : /\ rec[s].state \in {"none", "in", "gone"}
                     /\ Len(rec[s].seen) <= scenario.limit /\ rec[s].detector \in BOOLEAN
  /\ \A w \in Workers : /\ work[w].pc \in {"free", "load", "save", "memory", "insert",
                                           "observe", "install", "announce"}
                        /\ work[w].missed \subseteq Items /\ DOMAIN work[w].edits \subseteq Items
  /\ asked \in 0 .. scenario.requests /\ restarts \in 0 .. scenario.restarts
  /\ past.lost \subseteq Files \X Items /\ past.off \subseteq Names

Init ==
  /\ scenario \in Scenarios /\ disk = scenario.files
  /\ memory = Listed(disk) /\ boot = Started(disk)
  /\ rec = [s \in Sids |-> NoRec]
  /\ work = [w \in Workers |-> Idle] /\ asked = 0 /\ restarts = 0
  /\ past = [meant |-> disk, lost |-> {}, off |-> {}, zeroed |-> {},
             pinned |-> [k \in Keys |-> Absent], overtaken |-> {}]

Attached(k) == {s \in Sids : Key[s] = k /\ rec[s].state = "in"}
Leaves(w, pc) ==
  IF pc = "free" THEN [Idle EXCEPT !.rest = work[w].rest] ELSE [work[w] EXCEPT !.pc = pc]
Goes(w, pc) == work' = [work EXCEPT ![w] = Leaves(w, pc)]

-----------------------------------------------------------------------------
(* Requests: what each is going to change                                  *)

Ask(w, kind, file, edits, sid) ==
  /\ work[w].pc = "free" /\ kind \in scenario.kinds
  /\ asked < scenario.requests /\ asked' = asked + 1
  /\ work' = [work EXCEPT ![w] = [Idle EXCEPT !.pc = "load", !.kind = kind, !.file = file,
                                              !.edits = edits, !.sid = sid]]
  /\ UNCHANGED <<disk, memory, boot, rec, restarts, past, scenario>>

Value == Written[asked + 1]

AskSave(w, n, f)    == Ask(w, "save", f, Edit(n, Value), 0)
AskDelete(w, n, f)  == Ask(w, "delete", f, Edit(n, Absent), 0)
AskConfig(w, fs)    == fs # {} /\ Ask(w, "config", "user", [f \in fs |-> Value], 0)
AskAutostart(w, empty) ==
  Ask(w, "autostart", "user", Edit(Autostart, IF empty THEN Absent ELSE Value), 0)
AskPin(w, k)        == Ask(w, "pin", "user", Edit(k, Value), 0)
AskUnpin(w, k)      == Ask(w, "unpin", "user", Edit(k, Absent), 0)
AskCliSave(w, n)    == Ask(w, "cliSave", "user", Edit(n, Value), 0)
AskCliRemove(w, n)  == Ask(w, "cliRemove", "user", Edit(n, Absent), 0)
AskCliUse(w, n) ==
  /\ Effective(disk, n) # Absent
  /\ Ask(w, "cliUse", "user", Edit(DefaultProfile, Value), 0)
\* AddFileSource and its kind: a source attaches.
AskAttach(w, s) ==
  /\ rec[s].state = "none" /\ \A v \in Workers : ~(work[v].kind = "attach" /\ work[v].sid = s)
  /\ Ask(w, "attach", "user", NoEdits, s)

-----------------------------------------------------------------------------
(* Reading, changing and writing a file                                    *)

Changes(w) == DOMAIN work[w].edits
Pins(w)    == work[w].kind = "pin"

Load(w) ==
  /\ work[w].pc = "load"
  /\ work' = [work EXCEPT ![w].pc = IF work[w].kind = "attach" THEN "insert" ELSE "save",
                          ![w].read = disk[work[w].file]]
  /\ UNCHANGED <<disk, memory, boot, rec, asked, restarts, past, scenario>>

\* What follows the file: the server's own copy, or an event for the clients.
Afterwards(kind) == CASE kind \in {"save", "delete", "pin"} -> "memory"
                      [] kind = "recommend" -> "announce"
                      [] OTHER -> "free"

\* Bug variants: a file that cannot be read counts as empty; a handler goes on to
\* what it does in memory although the file was not saved.
FailReadsEmpty(w) ==
  /\ scenario.faulty /\ work[w].pc = "load" /\ work[w].kind # "attach"
  /\ work' = [work EXCEPT ![w].pc = "save", ![w].read = Nothing]
  /\ UNCHANGED <<disk, memory, boot, rec, asked, restarts, past, scenario>>
FailRefreshes(w) ==
  /\ scenario.faulty /\ work[w].pc \in {"load", "save"} /\ work[w].kind # "attach"
  /\ work' = [work EXCEPT ![w] = Leaves(w, Afterwards(work[w].kind))]
  /\ UNCHANGED <<disk, memory, boot, rec, asked, restarts, past, scenario>>

\* The file cannot be read, parsed or written.  A handler answers with an error;
\* a preference is best effort, and so is the restoring of one.
Fail(w) ==
  /\ scenario.faulty /\ work[w].pc \in {"load", "save"}
  /\ LET k == work[w].kind
     IN /\ work' = [work EXCEPT ![w] =
                      IF k = "attach" THEN [@ EXCEPT !.pc = "insert", !.read = Nothing]
                      ELSE Leaves(w, IF k \in {"pin", "recommend"} THEN Afterwards(k)
                                     ELSE "free")]
        /\ past' = [past EXCEPT !.overtaken =
                      @ \cup (IF k = "attach" THEN {Key[work[w].sid]}
                              ELSE IF Pins(w) THEN Changes(w) ELSE {})]
  /\ UNCHANGED <<disk, memory, boot, rec, asked, restarts, scenario>>

Edited(w) == [i \in Items |-> IF i \in Changes(w) THEN work[w].edits[i] ELSE work[w].read[i]]

\* Others that are between the read and the write of the file, and those whose
\* write is done and whose copy in memory is still to be made.
Reading(f)  == {v \in Workers : work[v].pc = "save" /\ work[v].file = f}
Copying(is) == {v \in Workers : work[v].pc = "memory" /\ Changes(v) \cap is # {}}

\* A save changes the items it is about, and puts back those it has missed.
Save(w) ==
  LET f == work[w].file
      missed == work[w].missed \ Changes(w)
      ours == Changes(w)
  IN /\ work[w].pc = "save"
     /\ work[w].kind = "cliRemove" => \A n \in ours : work[w].read[n] # Absent
     /\ disk' = [disk EXCEPT ![f] = Encode(Edited(w))]
     /\ work' = [v \in Workers |->
                   IF v = w THEN Leaves(w, Afterwards(work[w].kind))
                   ELSE IF v \in Reading(f) THEN [work[v] EXCEPT !.missed = @ \cup ours \cup missed]
                   ELSE work[v]]
     /\ past' = [past EXCEPT
          !.meant[f] = [i \in Items |-> IF i \in ours THEN work[w].edits[i] ELSE @[i]],
          !.lost     = {l \in @ : l[1] # f \/ l[2] \notin ours} \cup {<<f, i>> : i \in missed},
          !.off      = @ \cup (Names \cap (missed \cup
                         IF work[w].kind \in Cli \/ Copying(ours) # {} THEN ours ELSE {})),
          !.zeroed   = @ \cup {i \in Fields \ ours : work[w].read[i] = Absent},
          !.pinned   = [k \in Keys |-> IF work[w].kind = "unpin" /\ k \in ours THEN Absent
                                       ELSE @[k]],
          !.overtaken = @ \cup (Keys \cap (missed \cup IF Copying(ours) # {} THEN ours ELSE {}))]
     /\ UNCHANGED <<memory, boot, rec, asked, restarts, scenario>>

\* loggi profile rm of a profile that the user's file does not have.
NothingToRemove(w) ==
  /\ work[w].pc = "save" /\ work[w].kind = "cliRemove"
  /\ \A n \in Changes(w) : work[w].read[n] = Absent
  /\ Goes(w, "free") /\ UNCHANGED <<disk, memory, boot, rec, asked, restarts, past, scenario>>

\* refreshProfiles and removeProfile.  The list takes the saved profile although
\* a later file has one of that name, and drops the deleted one although another has.
Shadowed(w, n) ==
  LET f == work[w].file
  IN IF work[w].edits[n] = Absent
     THEN n = Builtin \/ \E g \in Files \ {f} : disk[g][n] # Absent
     ELSE Effective(disk, n) # disk[f][n]

CopyProfiles(w) ==
  /\ work[w].pc = "memory" /\ work[w].kind \in {"save", "delete"}
  /\ memory' = [n \in Names |-> IF n \in Changes(w) THEN work[w].edits[n] ELSE memory[n]]
  /\ past' = [past EXCEPT !.off = @ \cup {n \in Changes(w) : Shadowed(w, n)}]
  /\ Goes(w, "free") /\ UNCHANGED <<disk, boot, rec, asked, restarts, scenario>>

-----------------------------------------------------------------------------
(* Columns of a source                                                     *)

\* A recommendation for this source is on its way: the ingester holds its detector,
\* or its sampler has been closed and the columns are not yet in the file; or a
\* source of this name is attaching and has read another preference.
UnderWay(k, cols) ==
  \E w \in Workers :
    \/ work[w].sid # 0 /\ Key[work[w].sid] = k
       /\ \/ work[w].pc \in {"observe", "install"}
          \/ work[w].kind = "recommend" /\ work[w].pc \in {"load", "save"}
          \/ work[w].pc = "insert" /\ work[w].read[k] # cols
    \/ \E s \in work[w].rest : Key[s] = k

\* Bug variant: the detector of the source goes on.
CopyPinKeepsDetector(w) ==
  /\ work[w].pc = "memory" /\ Pins(w)
  /\ rec' = [s \in Sids |-> IF rec[s].state = "in" /\ Key[s] \in Changes(w)
                            THEN [rec[s] EXCEPT !.pinned = work[w].edits[Key[s]]]
                            ELSE rec[s]]
  /\ past' = [past EXCEPT
       !.pinned = [k \in Keys |-> IF k \in Changes(w) THEN work[w].edits[k] ELSE @[k]],
       !.overtaken = @ \cup {k \in Changes(w) : UnderWay(k, work[w].edits[k])}]
  /\ Goes(w, "free") /\ UNCHANGED <<disk, memory, boot, asked, restarts, scenario>>

\* The end of PUT: every source of this name takes the columns, and loses its detector.
CopyPin(w) ==
  /\ work[w].pc = "memory" /\ Pins(w)
  /\ rec' = [s \in Sids |-> IF rec[s].state = "in" /\ Key[s] \in Changes(w)
                            THEN [rec[s] EXCEPT !.pinned = work[w].edits[Key[s]],
                                                !.detector = FALSE]
                            ELSE rec[s]]
  /\ past' = [past EXCEPT
       !.pinned = [k \in Keys |-> IF k \in Changes(w) THEN work[w].edits[k] ELSE @[k]],
       !.overtaken = @ \cup {k \in Changes(w) : UnderWay(k, work[w].edits[k])}]
  /\ Goes(w, "free") /\ UNCHANGED <<disk, memory, boot, asked, restarts, scenario>>

\* attach: the preference just read, or a detector.
Insert(w) ==
  LET s == work[w].sid
      pref == work[w].read[Key[s]]
  IN /\ work[w].pc = "insert"
     /\ rec' = [rec EXCEPT ![s] =
          IF pref # Absent THEN [NoRec EXCEPT !.state = "in", !.pinned = pref]
          ELSE [NoRec EXCEPT !.state = "in", !.detector = TRUE, !.open = TRUE]]
     /\ Goes(w, "free") /\ UNCHANGED <<disk, memory, boot, asked, restarts, past, scenario>>

RemoveSource(s) ==
  /\ rec[s].state = "in" /\ rec' = [rec EXCEPT ![s].state = "gone"]
  /\ UNCHANGED <<disk, memory, boot, work, asked, restarts, past, scenario>>

\* processLine looks the detector up under srcMu and uses it after letting go.
TakeLine(s) ==
  /\ work["ingester"].pc = "free" /\ rec[s].state = "in" /\ rec[s].detector /\ rec[s].open
  /\ work' = [work EXCEPT !["ingester"] = [Idle EXCEPT !.pc = "observe", !.sid = s]]
  /\ UNCHANGED <<disk, memory, boot, rec, asked, restarts, past, scenario>>

Recommendation(s) == [k \in {Key[s]} |-> Recommend(rec[s].seen)]

Observe(e) ==
  LET s == work["ingester"].sid
      seen == Append(rec[s].seen, e)
      full == Len(seen) >= scenario.limit
  IN /\ work["ingester"].pc = "observe" /\ e \in scenario.entries
     /\ IF ~rec[s].open THEN Goes("ingester", "free") /\ UNCHANGED rec
        ELSE /\ rec' = [rec EXCEPT ![s].seen = seen, ![s].open = ~full]
             /\ IF full THEN Goes("ingester", "install") ELSE Goes("ingester", "free")
     /\ UNCHANGED <<disk, memory, boot, asked, restarts, past, scenario>>

\* tickStats: the window of these samplers has passed.
Tick(expired) ==
  /\ work["ticker"].pc = "free" /\ work["ticker"].rest = {} /\ expired # {}
  /\ \A s \in expired : rec[s].state = "in" /\ rec[s].detector /\ rec[s].open
  /\ rec' = [s \in Sids |-> IF s \in expired THEN [rec[s] EXCEPT !.open = FALSE] ELSE rec[s]]
  /\ work' = [work EXCEPT !["ticker"] = [Idle EXCEPT !.rest = expired]]
  /\ UNCHANGED <<disk, memory, boot, asked, restarts, past, scenario>>

TickNext(s) ==
  /\ work["ticker"].pc = "free" /\ s \in work["ticker"].rest
  /\ work' = [work EXCEPT !["ticker"] =
                [Idle EXCEPT !.pc = "install", !.sid = s, !.rest = work["ticker"].rest \ {s}]]
  /\ UNCHANGED <<disk, memory, boot, rec, asked, restarts, past, scenario>>

\* finalizeRecommendation: the source takes the columns, then the file.
Install(w) ==
  LET s == work[w].sid
      cols == Recommendation(s)
  IN /\ work[w].pc = "install"
     /\ IF cols[Key[s]] = <<>> \/ rec[s].state # "in"
        THEN Goes(w, "free") /\ UNCHANGED rec
        ELSE /\ rec' = [rec EXCEPT ![s].pinned = cols[Key[s]]]
             /\ work' = [work EXCEPT ![w].pc = "load", ![w].kind = "recommend",
                                     ![w].edits = cols]
     /\ UNCHANGED <<disk, memory, boot, asked, restarts, past, scenario>>

Announce(w) ==
  /\ work[w].pc = "announce" /\ Goes(w, "free")
  /\ UNCHANGED <<disk, memory, boot, rec, asked, restarts, past, scenario>>

\* The server ends at any point, or is killed, and another starts: what it had in
\* memory is what the files say.  Commands go on.
Restart ==
  /\ restarts < scenario.restarts /\ restarts' = restarts + 1
  /\ memory' = Listed(disk) /\ boot' = Started(disk)
  /\ rec' = [s \in Sids |-> NoRec]
  /\ work' = [w \in Workers |-> IF work[w].kind \in Cli THEN work[w] ELSE Idle]
  /\ past' = [past EXCEPT !.off = {}, !.zeroed = {},
                          !.overtaken = @ \cup {k \in Keys : Copying({k}) # {}}]
  /\ UNCHANGED <<disk, asked, scenario>>

Next ==
  \/ \E w \in Handlers, n \in Names :
       \/ AskCliSave(w, n) \/ AskCliRemove(w, n) \/ AskCliUse(w, n)
       \/ \E f \in {"user", "repo"} : AskSave(w, n, f) \/ AskDelete(w, n, f)
  \/ \E w \in Handlers : \/ \E fs \in SUBSET Fields : AskConfig(w, fs)
                         \/ \E empty \in BOOLEAN : AskAutostart(w, empty)
                         \/ \E k \in Keys : AskPin(w, k) \/ AskUnpin(w, k)
                         \/ \E s \in Sids : AskAttach(w, s)
                         \/ CopyProfiles(w) \/ CopyPin(w) \/ Insert(w) \/ NothingToRemove(w)
  \/ \E w \in Workers : Load(w) \/ Fail(w) \/ Save(w) \/ Install(w) \/ Announce(w)
  \/ \E s \in Sids : RemoveSource(s) \/ TakeLine(s) \/ TickNext(s)
  \/ \E e \in scenario.entries : Observe(e)
  \/ \E expired \in SUBSET Sids : Tick(expired)
  \/ Restart

Spec == Init /\ [][Next]_vars

-----------------------------------------------------------------------------
(* Properties                                                              *)

Unset(v) == IF v = Zero THEN Absent ELSE v

\* What a request wrote stays in the file until a later request writes the same
\* item; only a request that had read the file before it and writes after it takes
\* it away.  Every handler saves the whole file to change one item (http.go:278,
\* coldetect.go:75, write.go:28, profile.go:86), whatever else it holds.
EditsKept ==
  \A f \in Files, i \in Items :
    Unset(disk[f][i]) = Unset(past.meant[f][i]) \/ <<f, i>> \in past.lost

\* "user took over; suppress further detection" (http.go:487): the columns a user
\* has chosen are those of the file and of every source of that name, also of those
\* that attach later or after a restart, until the user chooses again or gives the
\* choice up.  Exceptions are the races in UnderWay and failures of the file.
PinsStand ==
  \A k \in Keys :
    past.pinned[k] # Absent /\ k \notin past.overtaken /\ Copying({k}) = {} =>
      /\ disk["user"][k] = past.pinned[k]
      /\ \A s \in Attached(k) : rec[s].pinned = past.pinned[k]

\* The list of profiles the server keeps, and the settings it answers with, are those
\* it would have if it were started now.  The exceptions are profiles that a command
\* changed, that two requests raced for or that several files have, and settings that
\* were lost or that a save has written as zero.
RestartShowsTheSame ==
  /\ \A n \in Names : n \in past.off \/ Copying({n}) # {} \/ memory[n] = Effective(disk, n)
  /\ \A f \in Fields : f \in past.zeroed \/ <<"user", f>> \in past.lost \/ Shown(f, boot) = Shown(f, Started(disk))

\* The columns of a source do not depend on the order of its lines, unless a field
\* has more values than the sampler keeps; none is recommended twice; and the
\* canonical ones come first, in their order (sampler.go:234, 298).
ColumnsSteady ==
  \A s \in Sids : rec[s].state = "in" /\ ~rec[s].open =>
    LET seen  == rec[s].seen
        cols  == Recommend(seen)
        stats == Stats(seen)
    IN /\ IsInjective(cols)
       /\ IsPrefix(SelectSeq(Priorities, LAMBDA p : p \in ToSet(cols)), cols)
       /\ (\A n \in DOMAIN stats : Cardinality(stats[n].distinct) < DistinctCap) =>
            \A order \in SetToSeqs(DOMAIN seen) :
              Recommend([n \in DOMAIN seen |-> seen[order[n]]]) = cols

\* "It preserves all other top-level config sections" (write.go:21): saving or
\* deleting a profile leaves every setting as it was.  It does not: the settings the
\* file did not have are written as zero, and win over those of an earlier file.
SavesKeepOthers ==
  [][\A f \in Fields : Effective(disk, f) # Effective(disk, f)' =>
       \E w \in Workers : f \in Changes(w)]_vars
=============================================================================
