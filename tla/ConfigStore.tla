---------------------------- MODULE ConfigStore ----------------------------
(***************************************************************************)
(* The UI's service list in memory (ui2/state.go), the handlers that       *)
(* change it (ui2/start.go, ui2/ui.go), goodlink.json and its .tmp file    *)
(* (config/uiconfig.go), and a UI that dies and starts again.              *)
(*                                                                         *)
(* The HTTP server runs each request in its own goroutine. A handler is    *)
(* the steps between which it holds no lock: change memory, copy the list, *)
(* validate, open .tmp, write it, rename it. Files are inodes, since a     *)
(* writer keeps the one it has opened whatever is renamed meanwhile.       *)
(*                                                                         *)
(* A service is what the validation looks at: a name (which stands for     *)
(* every value that must be unique: name, key, network), the address its   *)
(* rules listen on, and whether it starts by itself. A request refused as  *)
(* busy changes nothing and is not modelled. The list is ordered by id.    *)
(***************************************************************************)
EXTENDS Integers, FiniteSets

CONSTANTS
    MaxId,      \* service ids are 1..MaxId
    Names,      \* values of the unique fields
    Listens,    \* addresses rules listen on, "none" for no rule
    Initial,    \* lists the UI may start with
    Handlers,   \* goroutines of the HTTP server
    Kinds,      \* the requests considered
    MaxOps,     \* bound: requests
    MaxFaults,  \* bound: file operations that fail
    MaxCrashes  \* bound: deaths of the UI

ASSUME StoreAssumption ==
    /\ Initial # {}
    /\ {MaxId, MaxOps, MaxFaults, MaxCrashes} \subseteq Nat /\ MaxId > 0
    /\ "none" \in Listens /\ Names # {}
    /\ "" \notin Names              \* normalizeServiceName gives every service one
    /\ IsFiniteSet(Handlers)
    /\ Kinds \subseteq {"start", "forwards", "auto", "rename", "config",
                        "create", "delete", "import"}

Ids == 1..MaxId

VARIABLES
    mem,     \* m_services: a service or Absent for every id
    data,    \* contents of the inodes
    path,    \* inode of goodlink.json
    tmp,     \* inode of goodlink.json.tmp, 0 if there is none
    req,     \* per handler: kind, id, step, copy (its list), prev, fd, out
    before,  \* per handler, mem when its request came
    up,      \* the UI runs
    gone,    \* ids deleted with success that no import has asked for since
    overlapped,             \* two requests have been under way at once
    ops, faults, crashes    \* counters for the bounds

vars == <<mem, data, path, tmp, req, before, up, gone, overlapped, ops, faults,
          crashes>>

Absent == [name |-> "", listen |-> "none", auto |-> FALSE]
Service == [name : Names, listen : Listens, auto : BOOLEAN]
Lists == [Ids -> Service \cup {Absent}]

ASSUME InitialAssumption == Initial \subseteq Lists

Present(l) == {i \in Ids : l[i] # Absent}

NoList == [i \in Ids |-> Absent]

(* Contents of a file; an empty or half-written one reads as no service.   *)
Whole(l) == [whole |-> TRUE, list |-> l]
Torn == [whole |-> FALSE, list |-> NoList]

(* A UI that finds no service makes one. *)
Default == [i \in Ids |-> IF i = 1
              THEN [name |-> CHOOSE n \in Names : TRUE, listen |-> "none",
                    auto |-> FALSE]
              ELSE Absent]

Quiet == [kind |-> "none", id |-> 1, step |-> "idle", copy |-> NoList,
          prev |-> Absent, fd |-> 0, out |-> 0]

(* Enough for the two files and those the handlers have open.              *)
Inodes == 1..(2 * Cardinality(Handlers) + 2)
Open == UNION {{req[h].fd, req[h].out} : h \in Handlers}

-----------------------------------------------------------------------------
(* NormalizeAndValidate *)

UniqueNames(l) == \A i, j \in Present(l) : l[i].name = l[j].name => i = j

ListensApart(l) ==
    \A i, j \in Present(l) : l[i].listen = l[j].listen /\ l[i].listen # "none" => i = j

(* Mutant: listening addresses of different services are not compared.     *)
AcceptsNamesOnly(l) == UniqueNames(l)

Accepts(l) == UniqueNames(l) /\ ListensApart(l)

(* Only the first service that starts by itself keeps doing so.            *)
Normalize(l) ==
    [i \in Ids |-> IF \E j \in Present(l) : j < i /\ l[j].auto
                   THEN [l[i] EXCEPT !.auto = FALSE] ELSE l[i]]

AutoStarts(l) == {i \in Present(l) : l[i].auto}

-----------------------------------------------------------------------------
(* Requests *)

(* clearOtherAutoStart *)
ClearOthers(l, i) ==
    [j \in Ids |-> IF j # i THEN [l[j] EXCEPT !.auto = FALSE] ELSE l[j]]

SetAuto(l, i, b) ==
    IF b THEN ClearOthers([l EXCEPT ![i].auto = TRUE], i)
    ELSE [l EXCEPT ![i].auto = FALSE]

SetFields(l, i, n, a) == [l EXCEPT ![i].name = n, ![i].listen = a]

(* duplicateKey *)
Duplicate(i, n) == \E j \in Present(mem) \ {i} : mem[j].name = n

(* What the request does to the list in memory before it is saved. Start   *)
(* refuses a duplicate key first; create and import do nothing yet.        *)
Change(kind, i, n, a, b) ==
    CASE kind = "start" -> SetFields(mem, i, n, a)
      [] kind = "forwards" -> [mem EXCEPT ![i].listen = a]
      [] kind = "rename" -> [mem EXCEPT ![i].name = n]
      [] kind \in {"auto", "config"} -> SetAuto(SetFields(mem, i, n, a), i, b)
      [] kind = "delete" -> [mem EXCEPT ![i] = Absent]
      [] OTHER -> mem

Possible(kind, i, n) ==
    /\ kind # "import" => (kind = "create" <=> mem[i] = Absent)
    /\ kind = "create" => i \notin gone          \* ids are random
    /\ kind = "start" => ~Duplicate(i, n)

(* startMu *)
Serial(h, kind) ==
    kind \in {"start", "create"} =>
        \A g \in Handlers \ {h} : req[g].kind \notin {"start", "create"}

Begin(h) ==
    /\ up /\ req[h].step = "idle" /\ ops < MaxOps
    /\ \E kind \in Kinds, i \in Ids, n \in Names, a \in Listens, b \in BOOLEAN :
         /\ Possible(kind, i, n) /\ Serial(h, kind)
         /\ mem' = Change(kind, i, n, a, b)
         /\ gone' = IF kind = "import" THEN gone \ {i} ELSE gone
         /\ req' = [req EXCEPT ![h] = [Quiet EXCEPT
                      !.kind = kind, !.id = i, !.step = "copy", !.prev = mem[i],
                      !.copy = IF kind \in {"create", "import"}
                               THEN [NoList EXCEPT ![i] = [name |-> n, listen |-> a,
                                                         auto |-> FALSE]]
                               ELSE NoList]]
    /\ before' = [before EXCEPT ![h] = mem]
    /\ ops' = ops + 1
    /\ overlapped' = (overlapped \/ \E g \in Handlers : req[g].step # "idle")
    /\ UNCHANGED <<data, path, tmp, up, faults, crashes>>

(* Mutant: the list that is saved still has the deleted service.           *)
ListedStill(r) ==
    IF r.kind = "import" THEN r.copy
    ELSE [mem EXCEPT ![r.id] = CASE r.kind = "create" -> r.copy[r.id]
                                 [] r.kind = "delete" -> r.prev
                                 [] OTHER -> @]

(* allServicesConfig. Create adds its service, under a free name; an       *)
(* import is a list of its own.                                            *)
Listed(r) ==
    CASE r.kind = "create" -> [mem EXCEPT ![r.id] = r.copy[r.id]]
      [] r.kind = "import" -> r.copy
      [] OTHER -> mem

(* A copy of the list is made, normalised and validated. *)
Copy(h) ==
    LET r == req[h]  listed == Listed(r)
    IN  /\ r.step = "copy"
        /\ req' = [req EXCEPT ![h] = [@ EXCEPT
                     !.copy = Normalize(listed),
                     !.step = IF Accepts(listed) THEN "open" ELSE "refused"]]
        /\ UNCHANGED <<mem, data, path, tmp, before, up, gone, overlapped, ops,
                       faults, crashes>>

-----------------------------------------------------------------------------
(* SaveUIConfig *)

(* The handler goes on to step s, with these files open.                   *)
Step(h, s, fd, out) ==
    req' = [req EXCEPT ![h] = [@ EXCEPT !.step = s, !.fd = fd, !.out = out]]

Fault == faults < MaxFaults /\ faults' = faults + 1

(* Mutant: goodlink.json itself is opened and truncated.                   *)
OpenInPlace(h) ==
    /\ req[h].step = "open"
    /\ data' = [data EXCEPT ![path] = Torn]
    /\ Step(h, "write", path, 0)
    /\ UNCHANGED <<mem, path, tmp, before, up, gone, overlapped, ops, faults, crashes>>

(* os.WriteFile opens .tmp and truncates it: the one another handler is    *)
(* writing, if there is one.                                               *)
OpenTmp(h) ==
    /\ req[h].step = "open"
    /\ LET i == IF tmp # 0 THEN tmp
                ELSE CHOOSE j \in Inodes : j \notin {path} \cup Open
       IN  /\ tmp' = i
           /\ data' = [data EXCEPT ![i] = Torn]
           /\ Step(h, "write", i, 0)
    /\ UNCHANGED <<mem, path, before, up, gone, overlapped, ops, faults, crashes>>

(* Two writers of one inode may leave a mixture. *)
Written(i, c) == {c} \cup (IF data[i] = Torn THEN {} ELSE {Torn})

WriteTmp(h) ==
    /\ req[h].step = "write"
    /\ \E c \in Written(req[h].fd, Whole(req[h].copy)) :
         data' = [data EXCEPT ![req[h].fd] = c]
    /\ Step(h, "rename", 0, 0)
    /\ UNCHANGED <<mem, path, tmp, before, up, gone, overlapped, ops, faults, crashes>>

WriteTmpFails(h) ==
    /\ req[h].step = "write"
    /\ Fault
    /\ Step(h, "refused", 0, 0)
    /\ UNCHANGED <<mem, data, path, tmp, before, up, gone, overlapped, ops, crashes>>

Renamed(h) ==
    /\ req[h].step = "rename" /\ tmp # 0
    /\ path' = tmp /\ tmp' = 0
    /\ data' = IF path \in Open THEN data
               ELSE [data EXCEPT ![path] = Torn]    \* the inode is freed
    /\ Step(h, "saved", 0, 0)
    /\ UNCHANGED <<mem, before, up, gone, overlapped, ops, faults, crashes>>

(* The rename fails (another process has the file open), or another        *)
(* handler has renamed .tmp away: then copyFileOverwrite.                  *)
RenameFails(h) ==
    /\ req[h].step = "rename"
    /\ IF tmp # 0 THEN Fault ELSE UNCHANGED faults
    /\ Step(h, "overwrite", 0, 0)
    /\ UNCHANGED <<mem, data, path, tmp, before, up, gone, overlapped, ops, crashes>>

(* copyFileOverwrite opens .tmp, and opens and truncates goodlink.json.    *)
OverwriteOpens(h) ==
    /\ req[h].step = "overwrite" /\ tmp # 0
    /\ data' = [data EXCEPT ![path] = Torn]
    /\ Step(h, "fill", tmp, path)
    /\ UNCHANGED <<mem, path, tmp, before, up, gone, overlapped, ops, faults, crashes>>

OverwriteFills(h) ==
    /\ req[h].step = "fill"
    /\ \E c \in Written(req[h].out, data[req[h].fd]) :
         data' = [data EXCEPT ![req[h].out] = c]
    /\ tmp' = 0                        \* .tmp is removed
    /\ Step(h, "saved", 0, 0)
    /\ UNCHANGED <<mem, path, before, up, gone, overlapped, ops, faults, crashes>>

(* .tmp is missing, or the disk is full: .tmp is removed.                  *)
OverwriteFails(h) ==
    /\ \/ req[h].step = "overwrite" /\ tmp = 0 /\ UNCHANGED faults
       \/ req[h].step = "fill" /\ Fault
    /\ tmp' = 0
    /\ Step(h, "refused", 0, 0)
    /\ UNCHANGED <<mem, data, path, before, up, gone, overlapped, ops, crashes>>

-----------------------------------------------------------------------------
(* The rest of the handlers *)

Found(r) == mem[r.id] # Absent /\ r.copy[r.id] # Absent

(* Start and rename take over the normalised service, create adds it, an   *)
(* import replaces the list, a deletion is final.                          *)
Saved(h) ==
    LET r == req[h] IN
    /\ r.step = "saved"
    /\ mem' = CASE r.kind = "start" /\ Found(r) -> [mem EXCEPT ![r.id] = r.copy[r.id]]
                [] r.kind = "rename" /\ Found(r) ->
                     [mem EXCEPT ![r.id].name = r.copy[r.id].name]
                [] r.kind = "create" -> [mem EXCEPT ![r.id] = r.copy[r.id]]
                [] r.kind = "import" -> r.copy
                [] OTHER -> mem
    /\ gone' = IF r.kind = "delete" THEN gone \cup {r.id} ELSE gone
    /\ req' = [req EXCEPT ![h] = Quiet]
    /\ before' = [before EXCEPT ![h] = NoList]
    /\ UNCHANGED <<data, path, tmp, up, overlapped, ops, faults, crashes>>

(* Mutant: a deletion that could not be saved is not taken back.           *)
RestoredStart(r) ==
    IF r.kind = "start" /\ mem[r.id] # Absent
    THEN [mem EXCEPT ![r.id] = r.prev] ELSE mem

(* Start and delete take back what they did; the other handlers do not.    *)
Restored(r) ==
    IF (r.kind = "start" /\ mem[r.id] # Absent) \/ r.kind = "delete"
    THEN [mem EXCEPT ![r.id] = r.prev] ELSE mem

Refused(h) ==
    /\ req[h].step = "refused"
    /\ mem' = Restored(req[h])
    /\ req' = [req EXCEPT ![h] = Quiet]
    /\ before' = [before EXCEPT ![h] = NoList]
    /\ UNCHANGED <<data, path, tmp, up, gone, overlapped, ops, faults, crashes>>

-----------------------------------------------------------------------------
(* The process *)

Crash ==
    /\ up /\ crashes < MaxCrashes
    /\ crashes' = crashes + 1
    /\ up' = FALSE
    /\ mem' = NoList
    /\ req' = [h \in Handlers |-> Quiet]
    /\ before' = [h \in Handlers |-> NoList]
    /\ UNCHANGED <<data, path, tmp, gone, overlapped, ops, faults>>

(* Init: a list that cannot be read or is refused is replaced by the       *)
(* default service, and the result is saved.                               *)
Restart ==
    /\ ~up
    /\ up' = TRUE
    /\ LET l == Normalize(data[path].list)
           usable == Accepts(l) /\ Present(l) # {}
           loaded == IF usable THEN l ELSE Default
       IN  /\ mem' = loaded
           /\ data' = [data EXCEPT ![path] = Whole(loaded)]
           /\ gone' = IF usable THEN gone ELSE gone \ {1}    \* its id is new
    /\ tmp' = 0
    /\ UNCHANGED <<path, req, before, overlapped, ops, faults, crashes>>

-----------------------------------------------------------------------------
Init ==
    /\ mem \in {l \in Initial : Accepts(l) /\ Normalize(l) = l /\ Present(l) # {}}
    /\ data = [i \in Inodes |-> IF i = 1 THEN Whole(mem) ELSE Torn]
    /\ path = 1 /\ tmp = 0
    /\ req = [h \in Handlers |-> Quiet]
    /\ before = [h \in Handlers |-> NoList]
    /\ up = TRUE /\ gone = {} /\ overlapped = FALSE
    /\ ops = 0 /\ faults = 0 /\ crashes = 0

Next ==
    \/ \E h \in Handlers :
         \/ Begin(h) \/ Copy(h)
         \/ OpenTmp(h) \/ WriteTmp(h) \/ WriteTmpFails(h)
         \/ Renamed(h) \/ RenameFails(h)
         \/ OverwriteOpens(h) \/ OverwriteFills(h) \/ OverwriteFails(h)
         \/ Saved(h) \/ Refused(h)
    \/ Crash \/ Restart

Spec == Init /\ [][Next]_vars

-----------------------------------------------------------------------------
(* Properties *)

Steps == {"idle", "copy", "open", "write", "rename", "overwrite", "fill", "saved",
          "refused"}
Requests == [kind : Kinds \cup {"none"}, id : Ids, step : Steps,
             copy : Lists, prev : Service \cup {Absent}, fd : {0} \cup Inodes,
             out : {0} \cup Inodes]

TypeOK ==
    /\ mem \in Lists /\ before \in [Handlers -> Lists]
    /\ data \in [Inodes -> [whole : BOOLEAN, list : Lists]]
    /\ path \in Inodes /\ tmp \in {0} \cup Inodes
    /\ req \in [Handlers -> Requests]
    /\ up \in BOOLEAN /\ gone \subseteq Ids /\ overlapped \in BOOLEAN
    /\ ops \in 0..MaxOps /\ faults \in 0..MaxFaults /\ crashes \in 0..MaxCrashes

(* What a worker reads is a list that passed the validation, or nothing:   *)
(* requests that were refused stay in memory, but neither they nor two     *)
(* requests at once, faults or a restart bring them to the file.           *)
FileValid ==
    LET l == data[path].list
    IN  TypeOK /\ UniqueNames(l) /\ ListensApart(l) /\ Cardinality(AutoStarts(l)) <= 1

(* Writing .tmp first keeps the file whole at every moment at which the UI *)
(* may die; only the fallback for a failed rename, or requests that share  *)
(* .tmp, leave it empty for a while.                                       *)
FileWhole == ~data[path].whole => faults > 0 \/ overlapped

(* A service that was deleted does not come back, in memory or from the    *)
(* file after a restart, when requests come one at a time.                 *)
DeletedStays ==
    ~overlapped =>
        /\ gone \cap Present(mem) = {}
        /\ gone \cap Present(data[path].list) = {}

(* Start, create, delete and import leave the list in memory as it was     *)
(* when they fail, at whatever step, if no other request came in between.  *)
RefusalRestores ==
    [][\A h \in Handlers :
         Refused(h) /\ ~overlapped /\ req[h].kind \in {"start", "create", "delete", "import"}
            => mem' = before[h]]_vars
=============================================================================
