------------------------- MODULE ConfigStoreProofs -------------------------
(***************************************************************************)
(* Proofs about ConfigStore, for any number of services, handlers,         *)
(* requests, faults and crashes.                                           *)
(*                                                                         *)
(* FileValid holds whatever overlaps, because every list that reaches a    *)
(* file was validated as a whole (GInv). The others are promised only      *)
(* while requests come one at a time; they rest on what a request has done *)
(* so far at each of its steps, to the files (WInv), to the list (DInv)    *)
(* and to what it would put back (RInv).                                   *)
(***************************************************************************)
EXTENDS ConfigStore, FiniteSetTheorems, TLAPS

(* A list that passed the validation and was normalised.                   *)
Good(l) ==
    /\ UniqueNames(l) /\ ListensApart(l)
    /\ \A i, j \in AutoStarts(l) : i = j

(* The list of a request at these steps is one.                            *)
Vetted == {"open", "write", "rename", "overwrite", "fill", "saved"}

FilesGood == \A i \in Inodes : Good(data[i].list)

CopiesGood == \A h \in Handlers : req[h].step \in Vetted => Good(req[h].copy)

(* Which files are open. *)
FilesFit ==
    /\ tmp # path
    /\ \A h \in Handlers : /\ req[h].step = "write" => req[h].fd \in Inodes
                           /\ req[h].step = "fill" => {req[h].fd, req[h].out} \subseteq Inodes
                           /\ req[h].step = "idle" => req[h] = Quiet

GInv == TypeOK /\ FilesGood /\ CopiesGood /\ FilesFit

(* Requests are lost with the UI; one at a time otherwise is one.          *)
Down == ~up => \A h \in Handlers : req[h] = Quiet

Single ==
    ~overlapped => \A g, h \in Handlers :
                       req[g].step # "idle" /\ req[h].step # "idle" => g = h

(* What is in the two files while one request is saved.                    *)
SaveInv(h) ==
    LET r == req[h]
    IN  /\ r.step = "write" => tmp # 0 /\ r.fd = tmp /\ data[tmp] = Torn
        /\ r.step \in {"rename", "overwrite"} => tmp # 0 /\ data[tmp] = Whole(r.copy)
        /\ r.step = "fill" => /\ r.out = path /\ r.fd # path
                              /\ data[r.fd] = Whole(r.copy) /\ data[path] = Torn
        /\ r.step = "saved" => data[path] = Whole(r.copy)
        /\ r.step \in {"overwrite", "fill"} => faults > 0

WInv ==
    /\ Down /\ Single /\ FileWhole
    /\ ~overlapped => \A h \in Handlers : SaveInv(h)

(* No deleted service is in the list. *)
Clean(l) == gone \cap Present(l) = {}

DelInv(h) ==
    LET r == req[h]
    IN  /\ Clean(r.copy)
        /\ r.kind = "delete" => /\ r.id \notin Present(mem)
                                /\ r.prev # Absent => r.id \notin gone
                                /\ r.step \in Vetted => r.id \notin Present(r.copy)

DInv == /\ DeletedStays
        /\ ~overlapped => \A h \in Handlers : req[h].step # "idle" => DelInv(h)

RestoreInv(h) ==
    LET r == req[h]
    IN  /\ r.kind = "start" => mem[r.id] # Absent
        /\ r.kind \in {"start", "delete"} =>
             /\ r.prev = before[h][r.id]
             /\ \A j \in Ids \ {r.id} : mem[j] = before[h][j]
        /\ r.kind \in {"create", "import"} => mem = before[h]

RInv == ~overlapped => \A h \in Handlers : req[h].step # "idle" => RestoreInv(h)

-----------------------------------------------------------------------------
(* Lists *)

Slot == Service \cup {Absent}

LEMMA ListsAre == Lists = [Ids -> Slot]
BY DEF Lists, Slot

LEMMA IdsAre == Ids \subseteq Nat /\ 1 \in Ids
<1>1. MaxId \in Nat /\ MaxId > 0
  BY StoreAssumption
<1> QED BY <1>1 DEF Ids

(* Absent is no service. *)
LEMMA ServicePresent == \A x \in Service : x # Absent
<1> SUFFICES ASSUME NEW x \in Service PROVE x # Absent
  OBVIOUS
<1>1. x.name \in Names
  BY DEF Service
<1>2. Absent.name = "" /\ "" \notin Names
  BY StoreAssumption DEF Absent
<1> QED BY <1>1, <1>2

(* Turning auto off leaves a service a service and an empty place empty.   *)
LEMMA SlotAuto ==
    ASSUME NEW x \in Slot
    PROVE  LET y == [x EXCEPT !.auto = FALSE]
           IN  /\ y \in Slot /\ y.name = x.name /\ y.listen = x.listen /\ ~y.auto
               /\ x = Absent => y = Absent
               /\ x # Absent => y # Absent
<1>1. CASE x = Absent
  <2>1. [x EXCEPT !.auto = FALSE] = Absent
    <3>0. Absent \in [name : {""}, listen : {"none"}, auto : BOOLEAN] /\ Absent.auto = FALSE
      BY DEF Absent
    <3>1. x \in [name : {""}, listen : {"none"}, auto : BOOLEAN] /\ x.auto = FALSE
      BY <1>1, <3>0
    <3>2. [x EXCEPT !.auto = FALSE] = x
      BY <3>1
    <3> QED BY <1>1, <3>2
  <2>2. ~Absent.auto
    BY DEF Absent
  <2> QED BY <1>1, <2>1, <2>2 DEF Slot
<1>2. CASE x # Absent
  <2>1. x \in Service
    BY <1>2 DEF Slot
  <2>2. [x EXCEPT !.auto = FALSE] \in Service
    BY <2>1 DEF Service
  <2>3. [x EXCEPT !.auto = FALSE] # Absent
    BY <2>2, ServicePresent
  <2> QED BY <1>2, <2>1, <2>2, <2>3 DEF Service, Slot
<1> QED BY <1>1, <1>2

(* NormalizeAndValidate keeps what it accepts, with one service at most    *)
(* that starts by itself.                                                  *)
LEMMA NormalizeIs ==
    ASSUME NEW l \in Lists
    PROVE  /\ Normalize(l) \in Lists /\ Present(Normalize(l)) = Present(l)
           /\ \A i, j \in AutoStarts(Normalize(l)) : i = j
           /\ Accepts(l) => Good(Normalize(l))
<1> DEFINE n == Normalize(l)
<1>0. l \in [Ids -> Slot]
  BY ListsAre
<1>1. \A i \in Ids : /\ n[i] \in Slot /\ n[i].name = l[i].name /\ n[i].listen = l[i].listen
                     /\ n[i] = l[i] \/ ~n[i].auto
                     /\ (n[i] = Absent <=> l[i] = Absent)
                     /\ (\E j \in Present(l) : j < i /\ l[j].auto) => ~n[i].auto
  <2> SUFFICES ASSUME NEW i \in Ids
               PROVE  /\ n[i] \in Slot /\ n[i].name = l[i].name /\ n[i].listen = l[i].listen
                      /\ n[i] = l[i] \/ ~n[i].auto
                      /\ (n[i] = Absent <=> l[i] = Absent)
                      /\ (\E j \in Present(l) : j < i /\ l[j].auto) => ~n[i].auto
    OBVIOUS
  <2>1. l[i] \in Slot
    BY <1>0
  <2>2. CASE \E j \in Present(l) : j < i /\ l[j].auto
    <3>1. n[i] = [l[i] EXCEPT !.auto = FALSE]
      BY <2>2 DEF Normalize
    <3> HIDE DEF n
    <3> QED BY <2>1, <3>1, SlotAuto
  <2>3. CASE ~\E j \in Present(l) : j < i /\ l[j].auto
    <3>1. n[i] = l[i]
      BY <2>3 DEF Normalize
    <3> QED BY <2>1, <2>3, <3>1
  <2> QED BY <2>2, <2>3
<1>2. n \in Lists
  <2>1. n = [i \in Ids |-> n[i]]
    BY DEF Normalize
  <2> HIDE DEF n
  <2> QED BY <1>1, <2>1, ListsAre
<1> HIDE DEF n
<1>3. Present(n) = Present(l)
  BY <1>1 DEF Present
<1>4. \A i \in AutoStarts(n) : i \in Present(l) /\ l[i].auto /\ n[i].auto
  BY <1>1, <1>3 DEF AutoStarts, Present
<1>5. ASSUME NEW i \in AutoStarts(n), NEW j \in AutoStarts(n) PROVE i = j
  <2>1. i \in Nat /\ j \in Nat /\ i \in Ids /\ j \in Ids
    BY <1>4, IdsAre DEF Present
  <2>2. ~(i < j) /\ ~(j < i)
    BY <1>1, <1>4, <2>1
  <2> QED BY <2>1, <2>2
<1>6. ASSUME Accepts(l) PROVE Good(n)
  <2>1. UniqueNames(n)
    BY <1>1, <1>3, <1>6 DEF Accepts, UniqueNames, Present
  <2>2. ListensApart(n)
    BY <1>1, <1>3, <1>6 DEF Accepts, ListensApart, Present
  <2> QED BY <1>5, <2>1, <2>2 DEF Good
<1> QED BY <1>2, <1>3, <1>5, <1>6 DEF n

(* The lists a UI makes itself. *)
LEMMA NoListIs == NoList \in Lists /\ Good(NoList) /\ Present(NoList) = {}
BY ListsAre DEF NoList, Slot, Good, UniqueNames, ListensApart, AutoStarts, Present

LEMMA DefaultIs == Default \in Lists /\ Good(Default) /\ Present(Default) \subseteq {1}
<1>1. (CHOOSE n \in Names : TRUE) \in Names
  BY StoreAssumption
<1>2. Default \in Lists
  BY <1>1, StoreAssumption, ListsAre DEF Default, Slot, Service
<1>3. Present(Default) \subseteq {1}
  BY DEF Present, Default
<1> QED BY <1>2, <1>3 DEF Good, UniqueNames, ListensApart, AutoStarts

(* The cardinality FileValid speaks of. *)
LEMMA GoodCounts ==
    ASSUME NEW l, Good(l)
    PROVE  Cardinality(AutoStarts(l)) <= 1
<1>1. CASE AutoStarts(l) = {}
  BY <1>1, FS_EmptySet
<1>2. ASSUME NEW i \in AutoStarts(l) PROVE Cardinality(AutoStarts(l)) <= 1
  <2>1. AutoStarts(l) = {i}
    BY <1>2 DEF Good
  <2> QED BY <2>1, FS_Singleton
<1> QED BY <1>1, <1>2

-----------------------------------------------------------------------------
(* Files and requests *)

(* There is an inode nobody uses for a new .tmp.                           *)
LEMMA FreshInode ==
    ASSUME TypeOK
    PROVE  \E j \in Inodes : j \notin {path} \cup Open
<1> DEFINE F == {req[h].fd : h \in Handlers}
           O == {req[h].out : h \in Handlers}
           n == Cardinality(Handlers)
<1>0. IsFiniteSet(Handlers)
  BY StoreAssumption
<1>1. n \in Nat
  BY <1>0, FS_CardinalityType
<1>2. IsFiniteSet(F) /\ Cardinality(F) <= n
  <2> DEFINE f == [h \in Handlers |-> req[h].fd]
  <2>1. f \in Surjection(Handlers, F)
    BY DEF Surjection
  <2> HIDE DEF f, F
  <2> QED BY <1>0, <2>1, FS_Surjection
<1>3. IsFiniteSet(O) /\ Cardinality(O) <= n
  <2> DEFINE f == [h \in Handlers |-> req[h].out]
  <2>1. f \in Surjection(Handlers, O)
    BY DEF Surjection
  <2> HIDE DEF f, O
  <2> QED BY <1>0, <2>1, FS_Surjection
<1>4. Open = F \cup O
  BY DEF Open
<1> HIDE DEF F, O
<1>5. IsFiniteSet(F \cup O) /\ Cardinality(F \cup O) <= n + n
  <2>1. /\ IsFiniteSet(F \cup O)
        /\ Cardinality(F \cup O) = Cardinality(F) + Cardinality(O) - Cardinality(F \cap O)
    BY <1>2, <1>3, FS_Union
  <2>2. IsFiniteSet(F \cap O)
    BY <1>2, FS_Subset
  <2>3. /\ Cardinality(F) \in Nat /\ Cardinality(O) \in Nat
        /\ Cardinality(F \cap O) \in Nat
    BY <1>2, <1>3, <2>2, FS_CardinalityType
  <2> HIDE DEF n
  <2> QED BY <1>1, <1>2, <1>3, <2>1, <2>3
<1>6. /\ IsFiniteSet(F \cup O \cup {path})
      /\ Cardinality(F \cup O \cup {path}) <= n + n + 1
  <2>1. /\ IsFiniteSet(F \cup O \cup {path})
        /\ \/ Cardinality(F \cup O \cup {path}) = Cardinality(F \cup O)
           \/ Cardinality(F \cup O \cup {path}) = Cardinality(F \cup O) + 1
    BY <1>5, FS_AddElement
  <2>2. Cardinality(F \cup O) \in Nat
    BY <1>5, FS_CardinalityType
  <2> HIDE DEF n
  <2> QED BY <1>1, <1>5, <2>1, <2>2
<1>7. Cardinality(Inodes) = 2 * n + 2
  <2>1. 1 \in Int /\ 2 * n + 2 \in Int /\ 1 <= 2 * n + 2
    BY <1>1
  <2>2. Cardinality(1..(2 * n + 2)) = (2 * n + 2) - 1 + 1
    BY <2>1, FS_Interval
  <2> QED BY <1>1, <2>2 DEF Inodes
<1>8. ASSUME Inodes \subseteq F \cup O \cup {path} PROVE FALSE
  <2>1. Cardinality(Inodes) <= Cardinality(F \cup O \cup {path})
    BY <1>6, <1>8, FS_Subset
  <2>2. Cardinality(F \cup O \cup {path}) \in Nat
    BY <1>6, FS_CardinalityType
  <2> HIDE DEF n
  <2> QED BY <1>1, <1>6, <1>7, <2>1, <2>2
<1> QED BY <1>4, <1>8

Files == {0} \cup Inodes
Content == [whole : BOOLEAN, list : Lists]

LEMMA Typed ==
    ASSUME TypeOK
    PROVE  /\ mem \in Lists /\ before \in [Handlers -> Lists]
           /\ data \in [Inodes -> Content] /\ path \in Inodes /\ tmp \in Files
           /\ req \in [Handlers -> Requests] /\ 0 \notin Inodes
           /\ \A h \in Handlers :
                /\ req[h].kind \in Kinds \cup {"none"} /\ req[h].id \in Ids
                /\ req[h].step \in Steps /\ req[h].copy \in Lists
                /\ req[h].prev \in Slot /\ req[h].fd \in Files /\ req[h].out \in Files
<1>1. 0 \notin Inodes
  BY DEF Inodes
<1>2. req \in [Handlers -> Requests]
  BY DEF TypeOK
<1>3. ASSUME NEW h \in Handlers
      PROVE  /\ req[h].kind \in Kinds \cup {"none"} /\ req[h].id \in Ids
             /\ req[h].step \in Steps /\ req[h].copy \in Lists
             /\ req[h].prev \in Slot /\ req[h].fd \in Files /\ req[h].out \in Files
  <2>1. req[h] \in Requests
    BY <1>2
  <2> QED BY <2>1 DEF Requests, Slot, Files
<1> QED BY <1>1, <1>2, <1>3 DEF TypeOK, Content, Files

(* A handler that goes on to its next step. *)
LEMMA StepIs ==
    ASSUME TypeOK, NEW h \in Handlers, NEW s \in Steps, NEW f \in Files, NEW o \in Files,
           Step(h, s, f, o)
    PROVE  /\ req' \in [Handlers -> Requests]
           /\ \A g \in Handlers : g # h => req'[g] = req[g]
           /\ req'[h].kind = req[h].kind /\ req'[h].id = req[h].id
           /\ req'[h].copy = req[h].copy /\ req'[h].prev = req[h].prev
           /\ req'[h].step = s /\ req'[h].fd = f /\ req'[h].out = o
<1>1. req[h] \in Requests /\ req \in [Handlers -> Requests]
  BY DEF TypeOK
<1>2. req' = [req EXCEPT ![h] = [req[h] EXCEPT !.step = s, !.fd = f, !.out = o]]
  BY DEF Step
<1>3. LET r == [req[h] EXCEPT !.step = s, !.fd = f, !.out = o]
      IN  /\ r \in Requests /\ r.kind = req[h].kind /\ r.id = req[h].id
          /\ r.copy = req[h].copy /\ r.prev = req[h].prev
          /\ r.step = s /\ r.fd = f /\ r.out = o
  BY <1>1 DEF Requests, Files
<1> QED BY <1>1, <1>2, <1>3

LEMMA QuietIs ==
    /\ Quiet \in Requests /\ Quiet.step = "idle" /\ Quiet.kind = "none"
    /\ Quiet.fd = 0 /\ Quiet.out = 0 /\ Quiet.copy = NoList
BY IdsAre, NoListIs DEF Quiet, Requests, Steps

LEMMA ContentIs ==
    /\ Torn \in Content /\ Torn.list = NoList /\ ~Torn.whole
    /\ \A l \in Lists : Whole(l) \in Content /\ Whole(l).list = l /\ Whole(l).whole
BY NoListIs DEF Torn, Whole, Content

(* One file is written. *)
LEMMA DataIs ==
    ASSUME TypeOK, FilesGood, NEW i \in Inodes, NEW c \in Content, Good(c.list),
           data' = [data EXCEPT ![i] = c]
    PROVE  /\ data' \in [Inodes -> Content] /\ FilesGood' /\ data'[i] = c
           /\ \A j \in Inodes : j # i => data'[j] = data[j]
<1>1. data \in [Inodes -> Content]
  BY Typed
<1>2. /\ data' \in [Inodes -> Content] /\ data'[i] = c
      /\ \A j \in Inodes : j # i => data'[j] = data[j]
  BY <1>1
<1>3. FilesGood'
  BY <1>2 DEF FilesGood
<1> QED BY <1>2, <1>3

(* os.WriteFile truncates .tmp, which is not goodlink.json, or makes one.  *)
LEMMA OpenTmpIs ==
    ASSUME GInv, NEW h \in Handlers, OpenTmp(h)
    PROVE  \E i \in Inodes : /\ i # path /\ tmp' = i /\ data' = [data EXCEPT ![i] = Torn]
                             /\ Step(h, "write", i, 0)
<1> DEFINE i == IF tmp # 0 THEN tmp ELSE CHOOSE j \in Inodes : j \notin {path} \cup Open
<1>0. TypeOK /\ FilesFit
  BY DEF GInv
<1>1. i \in Inodes /\ i # path
  <2>1. CASE tmp # 0
    BY <1>0, <2>1, Typed DEF FilesFit, Files
  <2>2. CASE tmp = 0
    <3>1. i = CHOOSE j \in Inodes : j \notin {path} \cup Open
      BY <2>2
    <3>2. \E j \in Inodes : j \notin {path} \cup Open
      BY <1>0, FreshInode
    <3> QED BY <3>1, <3>2
  <2> QED BY <2>1, <2>2
<1>2. tmp' = i /\ data' = [data EXCEPT ![i] = Torn] /\ Step(h, "write", i, 0)
  BY DEF OpenTmp
<1> HIDE DEF i
<1> QED BY <1>1, <1>2

(* A step of SaveUIConfig. *)
SavesTo(h, s) ==
    \E f, o \in Files :
        /\ Step(h, s, f, o)
        /\ s = "write" => f \in Inodes
        /\ s = "fill" => {f, o} \subseteq Inodes

LEMMA SavesGood ==
    ASSUME GInv, NEW h \in Handlers, NEW s \in Steps \ {"idle"}, SavesTo(h, s),
           s \in Vetted => req[h].step \in Vetted,
           data' \in [Inodes -> Content], FilesGood',
           path' \in Inodes, tmp' \in Files, tmp' # path',
           faults' \in 0..MaxFaults,
           UNCHANGED <<mem, before, up, gone, overlapped, ops, crashes>>
    PROVE  GInv'
<1>0. TypeOK /\ FilesGood /\ CopiesGood /\ FilesFit
  BY DEF GInv
<1>1. PICK f \in Files, o \in Files : /\ Step(h, s, f, o)
                                      /\ s = "write" => f \in Inodes
                                      /\ s = "fill" => {f, o} \subseteq Inodes
  BY DEF SavesTo
<1>2. /\ req' \in [Handlers -> Requests]
      /\ \A g \in Handlers : g # h => req'[g] = req[g]
      /\ req'[h].copy = req[h].copy
      /\ req'[h].step = s /\ req'[h].fd = f /\ req'[h].out = o
  BY <1>0, <1>1, StepIs
<1>3. TypeOK'
  BY <1>0, <1>2 DEF TypeOK, Content, Files
<1>4. CopiesGood'
  BY <1>0, <1>2 DEF CopiesGood
<1>5. FilesFit'
  BY <1>0, <1>1, <1>2 DEF FilesFit
<1> QED BY <1>3, <1>4, <1>5 DEF GInv

(* Every step of SaveUIConfig, its fallback included, leaves in every file *)
(* a list that passed the validation.                                      *)
Saves(h) ==
    \/ OpenTmp(h) \/ WriteTmp(h) \/ WriteTmpFails(h) \/ Renamed(h) \/ RenameFails(h)
    \/ OverwriteOpens(h) \/ OverwriteFills(h) \/ OverwriteFails(h)

LEMMA SavesStep ==
    ASSUME GInv, NEW h \in Handlers, Saves(h)
    PROVE  GInv'
<1>0. TypeOK /\ FilesGood /\ CopiesGood /\ FilesFit
  BY DEF GInv
<1>t. /\ data \in [Inodes -> Content] /\ path \in Inodes /\ tmp \in Files /\ tmp # path
      /\ 0 \notin Inodes /\ 0 \in Files /\ Inodes \subseteq Files
      /\ req[h].copy \in Lists /\ faults \in 0..MaxFaults
  BY <1>0, Typed DEF FilesFit, Files, TypeOK
<1>s. {"write", "rename", "refused", "saved", "overwrite", "fill"} \subseteq Steps \ {"idle"}
  BY DEF Steps
<1>v. "refused" \notin Vetted /\ "idle" \notin Vetted /\ "copy" \notin Vetted
  BY DEF Vetted
<1>f. Fault => faults' \in 0..MaxFaults
  <2>1. MaxFaults \in Nat
    BY StoreAssumption
  <2> QED BY <1>t, <2>1 DEF Fault
<1>g. Torn \in Content /\ Good(Torn.list)
  BY ContentIs, NoListIs
<1>w. ASSUME NEW i \in Inodes, NEW c \in Content, Good(c.list),
             NEW d \in Written(i, c)
      PROVE  d \in Content /\ Good(d.list)
  BY <1>w, <1>g DEF Written
<1>1. CASE OpenTmp(h)
  <2>1. PICK i \in Inodes : /\ i # path /\ tmp' = i /\ data' = [data EXCEPT ![i] = Torn]
                            /\ Step(h, "write", i, 0)
    BY <1>1, OpenTmpIs
  <2>2. data' \in [Inodes -> Content] /\ FilesGood'
    BY <1>0, <1>g, <2>1, DataIs
  <2>3. /\ UNCHANGED <<mem, path, before, up, gone, overlapped, ops, faults, crashes>>
        /\ req[h].step \in Vetted
    BY <1>1 DEF OpenTmp, Vetted
  <2>4. SavesTo(h, "write")
    BY <1>t, <2>1 DEF SavesTo
  <2> QED BY <1>s, <1>t, <2>1, <2>2, <2>3, <2>4, SavesGood
<1>2. CASE WriteTmp(h)
  <2>1. /\ UNCHANGED <<mem, path, tmp, before, up, gone, overlapped, ops, faults, crashes>>
        /\ Step(h, "rename", 0, 0) /\ req[h].step = "write"
    BY <1>2 DEF WriteTmp
  <2>2. req[h].fd \in Inodes /\ Good(req[h].copy)
    BY <1>0, <2>1 DEF FilesFit, CopiesGood, Vetted
  <2>3. Whole(req[h].copy) \in Content /\ Good(Whole(req[h].copy).list)
    BY <1>t, <2>2, ContentIs
  <2>4. PICK c \in Written(req[h].fd, Whole(req[h].copy)) :
                 data' = [data EXCEPT ![req[h].fd] = c]
    BY <1>2 DEF WriteTmp
  <2>5. c \in Content /\ Good(c.list)
    BY <1>w, <2>2, <2>3, <2>4
  <2>6. data' \in [Inodes -> Content] /\ FilesGood'
    BY <1>0, <2>2, <2>4, <2>5, DataIs
  <2>7. SavesTo(h, "rename")
    BY <1>t, <2>1 DEF SavesTo
  <2> QED BY <1>s, <1>t, <2>1, <2>6, <2>7, SavesGood DEF Vetted
<1>3. CASE WriteTmpFails(h)
  <2>1. /\ UNCHANGED <<mem, data, path, tmp, before, up, gone, overlapped, ops, crashes>>
        /\ Step(h, "refused", 0, 0) /\ Fault
    BY <1>3 DEF WriteTmpFails
  <2>2. SavesTo(h, "refused")
    BY <1>t, <2>1 DEF SavesTo
  <2>3. FilesGood'
    BY <1>0, <2>1 DEF FilesGood
  <2> QED BY <1>s, <1>t, <1>v, <1>f, <2>1, <2>2, <2>3, SavesGood
<1>4. CASE Renamed(h)
  <2>1. /\ UNCHANGED <<mem, before, up, gone, overlapped, ops, faults, crashes>>
        /\ Step(h, "saved", 0, 0) /\ req[h].step = "rename"
        /\ tmp # 0 /\ path' = tmp /\ tmp' = 0
    BY <1>4 DEF Renamed
  <2>2. data' = data \/ data' = [data EXCEPT ![path] = Torn]
    BY <1>4 DEF Renamed
  <2>3. data' \in [Inodes -> Content] /\ FilesGood'
    <3>1. CASE data' = data
      BY <1>0, <1>t, <3>1 DEF FilesGood
    <3>2. CASE data' = [data EXCEPT ![path] = Torn]
      BY <1>0, <1>t, <1>g, <3>2, DataIs
    <3> QED BY <2>2, <3>1, <3>2
  <2>4. SavesTo(h, "saved")
    BY <1>t, <2>1 DEF SavesTo
  <2>5. path' \in Inodes /\ tmp' \in Files /\ tmp' # path'
    BY <1>t, <2>1 DEF Files
  <2> QED BY <1>s, <1>t, <2>1, <2>3, <2>4, <2>5, SavesGood DEF Vetted
<1>5. CASE RenameFails(h)
  <2>1. /\ UNCHANGED <<mem, data, path, tmp, before, up, gone, overlapped, ops, crashes>>
        /\ Step(h, "overwrite", 0, 0) /\ req[h].step = "rename"
        /\ Fault \/ UNCHANGED faults
    BY <1>5 DEF RenameFails
  <2>2. SavesTo(h, "overwrite")
    BY <1>t, <2>1 DEF SavesTo
  <2>3. FilesGood'
    BY <1>0, <2>1 DEF FilesGood
  <2> QED BY <1>s, <1>t, <1>f, <2>1, <2>2, <2>3, SavesGood DEF Vetted
<1>6. CASE OverwriteOpens(h)
  <2>1. /\ UNCHANGED <<mem, path, tmp, before, up, gone, overlapped, ops, faults, crashes>>
        /\ Step(h, "fill", tmp, path) /\ req[h].step = "overwrite" /\ tmp # 0
        /\ data' = [data EXCEPT ![path] = Torn]
    BY <1>6 DEF OverwriteOpens
  <2>2. data' \in [Inodes -> Content] /\ FilesGood'
    BY <1>0, <1>t, <1>g, <2>1, DataIs
  <2>3. SavesTo(h, "fill")
    <3>1. tmp \in Inodes /\ {tmp, path} \subseteq Inodes
      BY <1>t, <2>1 DEF Files
    <3> QED BY <1>t, <2>1, <3>1 DEF SavesTo
  <2> QED BY <1>s, <1>t, <2>1, <2>2, <2>3, SavesGood DEF Vetted
<1>7. CASE OverwriteFills(h)
  <2>1. /\ UNCHANGED <<mem, path, before, up, gone, overlapped, ops, faults, crashes>>
        /\ Step(h, "saved", 0, 0) /\ req[h].step = "fill" /\ tmp' = 0
    BY <1>7 DEF OverwriteFills
  <2>2. req[h].fd \in Inodes /\ req[h].out \in Inodes
    BY <1>0, <2>1 DEF FilesFit
  <2>3. data[req[h].fd] \in Content /\ Good(data[req[h].fd].list)
    BY <1>0, <1>t, <2>2 DEF FilesGood
  <2>4. PICK c \in Written(req[h].out, data[req[h].fd]) :
                 data' = [data EXCEPT ![req[h].out] = c]
    BY <1>7 DEF OverwriteFills
  <2>5. c \in Content /\ Good(c.list)
    BY <1>w, <2>2, <2>3, <2>4
  <2>6. data' \in [Inodes -> Content] /\ FilesGood'
    BY <1>0, <2>2, <2>4, <2>5, DataIs
  <2>7. SavesTo(h, "saved")
    BY <1>t, <2>1 DEF SavesTo
  <2> QED BY <1>s, <1>t, <2>1, <2>6, <2>7, SavesGood DEF Vetted
<1>8. CASE OverwriteFails(h)
  <2>1. /\ UNCHANGED <<mem, data, path, before, up, gone, overlapped, ops, crashes>>
        /\ Step(h, "refused", 0, 0) /\ tmp' = 0
        /\ Fault \/ UNCHANGED faults
    BY <1>8 DEF OverwriteFails
  <2>2. SavesTo(h, "refused")
    BY <1>t, <2>1 DEF SavesTo
  <2>3. FilesGood'
    BY <1>0, <2>1 DEF FilesGood
  <2> QED BY <1>s, <1>t, <1>v, <1>f, <2>1, <2>2, <2>3, SavesGood
<1> QED BY <1>1, <1>2, <1>3, <1>4, <1>5, <1>6, <1>7, <1>8 DEF Saves

-----------------------------------------------------------------------------
(* Requests and the process *)

(* The fields of a service are written. *)
LEMMA SlotFields ==
    ASSUME NEW x \in Slot, x # Absent, NEW n \in Names, NEW a \in Listens
    PROVE  /\ [x EXCEPT !.name = n] \in Service /\ [x EXCEPT !.listen = a] \in Service
           /\ [x EXCEPT !.name = n, !.listen = a] \in Service
           /\ [x EXCEPT !.auto = TRUE] \in Service /\ [x EXCEPT !.auto = FALSE] \in Service
<1>1. x \in Service
  BY DEF Slot
<1> QED BY <1>1 DEF Service

LEMMA ServiceSlot == Service \subseteq Slot /\ Absent \in Slot
BY DEF Slot

(* HandleSetAutoStart and HandleUpdateConfig neither add nor remove        *)
(* services.                                                               *)
LEMMA SetAutoIs ==
    ASSUME NEW l \in Lists, NEW i \in Ids, l[i] # Absent, NEW b \in BOOLEAN
    PROVE  SetAuto(l, i, b) \in Lists /\ Present(SetAuto(l, i, b)) \subseteq Present(l)
<1>0. l[i] \in Slot
  BY ListsAre
<1>1. CASE ~b
  <2>1. SetAuto(l, i, b) = [l EXCEPT ![i] = [l[i] EXCEPT !.auto = FALSE]]
    BY <1>1 DEF SetAuto
  <2>2. [l[i] EXCEPT !.auto = FALSE] \in Slot
    BY <1>0, SlotAuto
  <2> DEFINE v == [l[i] EXCEPT !.auto = FALSE]
  <2>3. SetAuto(l, i, b) = [l EXCEPT ![i] = v] /\ v \in Slot
    BY <2>1, <2>2
  <2> HIDE DEF v
  <2>4. /\ SetAuto(l, i, b) \in Lists
        /\ \A j \in Ids : j # i => SetAuto(l, i, b)[j] = l[j]
    BY <2>3, ListsAre
  <2> QED BY <2>4 DEF Present
<1>2. CASE b
  <2> DEFINE v == [l[i] EXCEPT !.auto = TRUE]
             m == [l EXCEPT ![i] = v]
             k == ClearOthers(m, i)
  <2>1. SetAuto(l, i, b) = k
    BY <1>2 DEF SetAuto
  <2>2. v \in Slot
    <3>1. l[i] \in Service
      BY <1>0 DEF Slot
    <3>2. v \in Service
      BY <3>1 DEF Service
    <3> QED BY <3>2, ServiceSlot
  <2> HIDE DEF v
  <2>3. m \in Lists /\ \A j \in Ids : j # i => m[j] = l[j]
    BY <2>2, ListsAre
  <2> HIDE DEF m
  <2>4. ASSUME NEW j \in Ids
        PROVE  k[j] \in Slot /\ (k[j] # Absent => j = i \/ l[j] # Absent)
    <3>1. m[j] \in Slot
      BY <2>3, ListsAre
    <3>2. CASE j = i
      BY <3>1, <3>2 DEF ClearOthers
    <3>3. CASE j # i
      <4>1. k[j] = [m[j] EXCEPT !.auto = FALSE] /\ m[j] = l[j]
        BY <2>3, <3>3 DEF ClearOthers
      <4> HIDE DEF k
      <4> QED BY <3>1, <4>1, SlotAuto
    <3> QED BY <3>2, <3>3
  <2>5. k = [j \in Ids |-> k[j]]
    BY DEF ClearOthers
  <2> HIDE DEF k
  <2>6. k \in Lists
    BY <2>4, <2>5, ListsAre
  <2> QED BY <2>1, <2>4, <2>6 DEF Present
<1> QED BY <1>1, <1>2

(* What a request does to the list before it is saved.                     *)
LEMMA ChangeIs ==
    ASSUME TypeOK, NEW kind \in Kinds, NEW i \in Ids, NEW n \in Names, NEW a \in Listens,
           NEW b \in BOOLEAN, Possible(kind, i, n)
    PROVE  LET c == Change(kind, i, n, a, b)
           IN  /\ c \in Lists /\ Present(c) \subseteq Present(mem)
               /\ kind \in {"start", "delete"} => \A j \in Ids : j # i => c[j] = mem[j]
               /\ kind = "start" => c[i] # Absent
               /\ kind = "delete" => c[i] = Absent
               /\ kind \in {"create", "import"} => c = mem
<1> DEFINE c == Change(kind, i, n, a, b)
<1>0. mem \in Lists /\ mem[i] \in Slot
  BY Typed, ListsAre
<1>1. CASE kind \in {"create", "import"}
  <2>1. c = mem
    BY <1>1 DEF Change
  <2> HIDE DEF c
  <2>2. c \in Lists /\ Present(c) \subseteq Present(mem)
    BY <1>0, <2>1
  <2> QED BY <1>1, <2>1, <2>2 DEF c
<1>2. CASE kind \notin {"create", "import"}
  <2>0. mem[i] # Absent
    BY <1>2 DEF Possible
  <2>s. SetFields(mem, i, n, a) =
          [mem EXCEPT ![i] = [mem[i] EXCEPT !.name = n, !.listen = a]]
    <3>1. mem[i] \in Service
      BY <1>0, <2>0 DEF Slot
    <3>2. mem \in [Ids -> Slot]
      BY <1>0, ListsAre
    <3> QED BY <3>1, <3>2 DEF SetFields, Service
  <2>a. ASSUME NEW v \in Service, c = [mem EXCEPT ![i] = v]
        PROVE  /\ c \in Lists /\ Present(c) \subseteq Present(mem)
               /\ \A j \in Ids : j # i => c[j] = mem[j]
               /\ c[i] # Absent
    <3> HIDE DEF c
    <3>1. c \in Lists /\ c[i] = v /\ \A j \in Ids : j # i => c[j] = mem[j]
      BY <1>0, <2>a, ServiceSlot, ListsAre
    <3>2. v # Absent
      BY ServicePresent
    <3> QED BY <2>0, <3>1, <3>2 DEF Present
  <2>1. CASE kind = "start"
    <3>1. c = SetFields(mem, i, n, a)
      BY <2>1 DEF Change
    <3>2. [mem[i] EXCEPT !.name = n, !.listen = a] \in Service
      BY <1>0, <2>0, SlotFields
    <3> QED BY <2>1, <2>a, <2>s, <3>1, <3>2
  <2>2. CASE kind = "forwards"
    <3>1. c = [mem EXCEPT ![i] = [mem[i] EXCEPT !.listen = a]]
      BY <2>2 DEF Change
    <3>2. [mem[i] EXCEPT !.listen = a] \in Service
      BY <1>0, <2>0, SlotFields
    <3> QED BY <2>2, <2>a, <3>1, <3>2
  <2>3. CASE kind = "rename"
    <3>1. c = [mem EXCEPT ![i] = [mem[i] EXCEPT !.name = n]]
      BY <2>3 DEF Change
    <3>2. [mem[i] EXCEPT !.name = n] \in Service
      BY <1>0, <2>0, SlotFields
    <3> QED BY <2>3, <2>a, <3>1, <3>2
  <2>4. CASE kind \in {"auto", "config"}
    <3> DEFINE v == [mem[i] EXCEPT !.name = n, !.listen = a]
               l == [mem EXCEPT ![i] = v]
    <3>1. c = SetAuto(l, i, b)
      BY <2>4, <2>s DEF Change
    <3>2. v \in Service
      BY <1>0, <2>0, SlotFields
    <3> HIDE DEF v
    <3>3. l \in Lists /\ l[i] = v /\ \A j \in Ids : j # i => l[j] = mem[j]
      BY <1>0, <3>2, ServiceSlot, ListsAre
    <3> HIDE DEF l, c
    <3>4. l[i] # Absent
      BY <3>2, <3>3, ServicePresent
    <3>5. c \in Lists /\ Present(c) \subseteq Present(l)
      BY <3>1, <3>3, <3>4, SetAutoIs
    <3>6. Present(l) \subseteq Present(mem)
      BY <2>0, <3>3 DEF Present
    <3> QED BY <2>4, <3>5, <3>6 DEF c
  <2>5. CASE kind = "delete"
    <3>1. c = [mem EXCEPT ![i] = Absent]
      BY <2>5 DEF Change
    <3> HIDE DEF c
    <3>2. c \in Lists /\ c[i] = Absent /\ \A j \in Ids : j # i => c[j] = mem[j]
      BY <1>0, <3>1, ServiceSlot, ListsAre
    <3>3. Present(c) \subseteq Present(mem)
      BY <2>0, <3>2 DEF Present
    <3> QED BY <2>5, <3>2, <3>3 DEF c
  <2>6. kind \in {"start", "forwards", "rename", "auto", "config", "delete"}
    BY <1>2, StoreAssumption
  <2> QED BY <2>1, <2>2, <2>3, <2>4, <2>5, <2>6
<1> QED BY <1>1, <1>2

(* A request that comes in. *)
Comes(h, kind, i) ==
    /\ req' \in [Handlers -> Requests]
    /\ \A g \in Handlers : g # h => req'[g] = req[g]
    /\ req'[h].kind = kind /\ req'[h].id = i /\ req'[h].step = "copy"
    /\ req'[h].prev = mem[i] /\ Present(req'[h].copy) \subseteq {i}
    /\ kind \notin {"create", "import"} => Present(req'[h].copy) = {}

LEMMA BeginIs ==
    ASSUME TypeOK, NEW h \in Handlers, Begin(h)
    PROVE  /\ up /\ req[h].step = "idle"
           /\ \E kind \in Kinds, i \in Ids, n \in Names, a \in Listens, b \in BOOLEAN :
                /\ Possible(kind, i, n) /\ mem' = Change(kind, i, n, a, b)
                /\ gone' = IF kind = "import" THEN gone \ {i} ELSE gone
                /\ Comes(h, kind, i)
<1>0. mem \in Lists /\ req \in [Handlers -> Requests]
  BY Typed
<1>1. PICK kind \in Kinds, i \in Ids, n \in Names, a \in Listens, b \in BOOLEAN :
         /\ Possible(kind, i, n) /\ Serial(h, kind)
         /\ mem' = Change(kind, i, n, a, b)
         /\ gone' = IF kind = "import" THEN gone \ {i} ELSE gone
         /\ req' = [req EXCEPT ![h] = [Quiet EXCEPT
                      !.kind = kind, !.id = i, !.step = "copy", !.prev = mem[i],
                      !.copy = IF kind \in {"create", "import"}
                               THEN [NoList EXCEPT ![i] = [name |-> n, listen |-> a,
                                                         auto |-> FALSE]]
                               ELSE NoList]]
  BY Zenon DEF Begin
<1> DEFINE v == [name |-> n, listen |-> a, auto |-> FALSE]
           c == IF kind \in {"create", "import"} THEN [NoList EXCEPT ![i] = v] ELSE NoList
           r == [Quiet EXCEPT !.kind = kind, !.id = i, !.step = "copy", !.prev = mem[i],
                              !.copy = c]
<1>2. c \in Lists /\ Present(c) \subseteq {i}
      /\ (kind \notin {"create", "import"} => Present(c) = {})
  <2>1. v \in Slot
    BY DEF Slot, Service
  <2> HIDE DEF v
  <2>2. NoList \in [Ids -> Slot] /\ \A j \in Ids : NoList[j] = Absent
    BY NoListIs, ListsAre DEF NoList
  <2>3. CASE kind \in {"create", "import"}
    <3>1. c = [NoList EXCEPT ![i] = v]
      BY <2>3
    <3> HIDE DEF c
    <3>2. c \in [Ids -> Slot] /\ \A j \in Ids : j # i => c[j] = Absent
      BY <2>1, <2>2, <3>1
    <3> QED BY <2>3, <3>2, ListsAre DEF Present
  <2>4. CASE kind \notin {"create", "import"}
    <3>1. c = NoList
      BY <2>4
    <3> HIDE DEF c
    <3> QED BY <3>1, NoListIs
  <2> QED BY <2>3, <2>4
<1>3. req' = [req EXCEPT ![h] = r]
  BY <1>1
<1> HIDE DEF c
<1>4. /\ r \in Requests /\ r.kind = kind /\ r.id = i /\ r.step = "copy"
      /\ r.prev = mem[i] /\ r.copy = c
  <2>1. mem[i] \in Slot /\ Quiet \in Requests
    BY <1>0, ListsAre, QuietIs
  <2> QED BY <1>2, <2>1 DEF Requests, Steps, Slot
<1> HIDE DEF r
<1>5. Comes(h, kind, i)
  BY <1>0, <1>2, <1>3, <1>4 DEF Comes
<1>6. up /\ req[h].step = "idle"
  BY DEF Begin
<1> QED BY <1>1, <1>5, <1>6

(* The list that is validated, and the handler after that.                 *)
LEMMA CopyIs ==
    ASSUME TypeOK, NEW h \in Handlers, Copy(h)
    PROVE  LET l == Listed(req[h])
           IN  /\ l \in Lists
               /\ req' \in [Handlers -> Requests]
               /\ \A g \in Handlers : g # h => req'[g] = req[g]
               /\ req'[h].kind = req[h].kind /\ req'[h].id = req[h].id
               /\ req'[h].prev = req[h].prev /\ req'[h].copy = Normalize(l)
               /\ req'[h].step = IF Accepts(l) THEN "open" ELSE "refused"
<1> DEFINE l == Listed(req[h])
           st == IF Accepts(l) THEN "open" ELSE "refused"
           nl == Normalize(l)
           r == [req[h] EXCEPT !.copy = nl, !.step = st]
<1>0. mem \in Lists /\ req \in [Handlers -> Requests] /\ req[h].copy \in Lists
      /\ req[h].id \in Ids
  BY Typed
<1>1. l \in Lists
  <2>1. CASE req[h].kind = "create"
    <3>1. l = [mem EXCEPT ![req[h].id] = req[h].copy[req[h].id]]
      BY <2>1 DEF Listed
    <3> HIDE DEF l
    <3> QED BY <1>0, <3>1, ListsAre
  <2>2. CASE req[h].kind = "import"
    BY <1>0, <2>2 DEF Listed
  <2>3. CASE req[h].kind \notin {"create", "import"}
    BY <1>0, <2>3 DEF Listed
  <2> QED BY <2>1, <2>2, <2>3
<1>2. req' = [req EXCEPT ![h] = r]
  BY DEF Copy
<1> HIDE DEF l
<1>3. nl \in Lists /\ st \in Steps
  BY <1>1, NormalizeIs DEF Steps
<1> HIDE DEF nl, st
<1>4. /\ r \in Requests /\ r.kind = req[h].kind /\ r.id = req[h].id
      /\ r.prev = req[h].prev /\ r.copy = nl /\ r.step = st
  <2>1. req[h] \in Requests
    BY <1>0
  <2> QED BY <1>3, <2>1 DEF Requests
<1> HIDE DEF r
<1>5. /\ req' \in [Handlers -> Requests] /\ req'[h] = r
      /\ \A g \in Handlers : g # h => req'[g] = req[g]
  BY <1>0, <1>2, <1>4
<1> QED BY <1>1, <1>4, <1>5 DEF l, nl, st

(* The handler answers. *)
Answers(h) ==
    /\ req' = [req EXCEPT ![h] = Quiet] /\ before' = [before EXCEPT ![h] = NoList]
    /\ UNCHANGED <<data, path, tmp, up, overlapped, ops, faults, crashes>>

LEMMA AnswersIs ==
    ASSUME TypeOK, NEW h \in Handlers, Answers(h)
    PROVE  /\ req' \in [Handlers -> Requests] /\ req'[h] = Quiet
           /\ \A g \in Handlers : g # h => req'[g] = req[g]
           /\ before' \in [Handlers -> Lists]
           /\ \A g \in Handlers : g # h => before'[g] = before[g]
BY Typed, QuietIs, NoListIs DEF Answers

LEMMA SavedIs ==
    ASSUME TypeOK, NEW h \in Handlers, Saved(h)
    PROVE  /\ mem' \in Lists /\ gone' \subseteq Ids /\ Answers(h)
           /\ \A j \in Present(mem') : j \in Present(mem) \cup Present(req[h].copy)
           /\ req[h].kind = "delete" => mem' = mem
<1> DEFINE r == req[h]
<1>0. mem \in [Ids -> Slot] /\ r.copy \in [Ids -> Slot] /\ r.id \in Ids
  BY Typed, ListsAre
<1>g. gone' \subseteq Ids /\ Answers(h)
  BY <1>0 DEF Saved, TypeOK, Answers
<1>1. CASE r.kind = "start" /\ Found(r)
  <2>1. mem' = [mem EXCEPT ![r.id] = r.copy[r.id]] /\ r.kind # "delete"
    BY <1>1 DEF Saved
  <2>2. /\ mem' \in [Ids -> Slot] /\ mem'[r.id] = r.copy[r.id]
        /\ \A j \in Ids : j # r.id => mem'[j] = mem[j]
    BY <1>0, <2>1
  <2> QED BY <1>g, <2>1, <2>2, ListsAre DEF Present
<1>2. CASE r.kind = "rename" /\ Found(r)
  <2>1. mem' = [mem EXCEPT ![r.id] = [mem[r.id] EXCEPT !.name = r.copy[r.id].name]]
        /\ r.kind # "delete"
    BY <1>2 DEF Saved
  <2>2. r.copy[r.id] \in Service /\ mem[r.id] \in Service /\ mem[r.id] # Absent
    BY <1>0, <1>2 DEF Found, Slot
  <2>3. [mem[r.id] EXCEPT !.name = r.copy[r.id].name] \in Service
    BY <2>2 DEF Service
  <2>4. /\ mem' \in [Ids -> Slot]
        /\ \A j \in Ids : j # r.id => mem'[j] = mem[j]
    BY <1>0, <2>1, <2>3, ServiceSlot
  <2> QED BY <1>0, <1>g, <2>1, <2>2, <2>4, ListsAre DEF Present
<1>3. CASE r.kind = "create"
  <2>1. mem' = [mem EXCEPT ![r.id] = r.copy[r.id]] /\ r.kind # "delete"
    BY <1>3 DEF Saved
  <2>2. /\ mem' \in [Ids -> Slot] /\ mem'[r.id] = r.copy[r.id]
        /\ \A j \in Ids : j # r.id => mem'[j] = mem[j]
    BY <1>0, <2>1
  <2> QED BY <1>g, <2>1, <2>2, ListsAre DEF Present
<1>4. CASE r.kind = "import"
  <2>1. mem' = r.copy /\ r.kind # "delete"
    BY <1>4 DEF Saved
  <2> QED BY <1>0, <1>g, <2>1, ListsAre
<1>5. CASE /\ ~(r.kind = "start" /\ Found(r)) /\ ~(r.kind = "rename" /\ Found(r))
           /\ r.kind # "create" /\ r.kind # "import"
  <2>1. mem' = mem
    BY <1>5 DEF Saved
  <2> QED BY <1>0, <1>g, <2>1, ListsAre
<1> QED BY <1>1, <1>2, <1>3, <1>4, <1>5

LEMMA RefusedIs ==
    ASSUME TypeOK, NEW h \in Handlers, Refused(h)
    PROVE  /\ mem' \in Lists /\ gone' = gone /\ Answers(h)
           /\ LET r == req[h]
                  back == (r.kind = "start" /\ mem[r.id] # Absent) \/ r.kind = "delete"
              IN  /\ back => /\ mem'[r.id] = r.prev
                             /\ \A j \in Ids : j # r.id => mem'[j] = mem[j]
                  /\ ~back => mem' = mem
<1> DEFINE r == req[h]
           back == (r.kind = "start" /\ mem[r.id] # Absent) \/ r.kind = "delete"
<1>0. mem \in [Ids -> Slot] /\ r.prev \in Slot /\ r.id \in Ids
  BY Typed, ListsAre
<1>1. gone' = gone /\ Answers(h) /\ mem' = Restored(r)
  BY DEF Refused, Answers
<1>2. CASE back
  <2>1. mem' = [mem EXCEPT ![r.id] = r.prev]
    BY <1>1, <1>2 DEF Restored
  <2> HIDE DEF back
  <2>2. /\ mem' \in [Ids -> Slot] /\ mem'[r.id] = r.prev
        /\ \A j \in Ids : j # r.id => mem'[j] = mem[j]
    BY <1>0, <2>1
  <2>3. mem' \in Lists
    BY <2>2, ListsAre
  <2> QED BY <1>1, <1>2, <2>2, <2>3 DEF back
<1>3. CASE ~back
  <2>1. mem' = mem
    BY <1>1, <1>3 DEF Restored
  <2> HIDE DEF back
  <2>2. mem' \in Lists
    BY <1>0, <2>1, ListsAre
  <2> QED BY <1>1, <1>3, <2>1, <2>2 DEF back
<1> QED BY <1>2, <1>3

(* Init after a restart. *)
LEMMA RestartIs ==
    ASSUME TypeOK, FilesGood, Restart
    PROVE  /\ mem' \in Lists /\ Good(mem') /\ data' = [data EXCEPT ![path] = Whole(mem')]
           /\ gone' \subseteq gone
           /\ \/ gone' = gone /\ Present(mem') = Present(data[path].list)
              \/ gone' = gone \ {1} /\ Present(mem') \subseteq {1}
           /\ ~up /\ up' /\ tmp' = 0
           /\ UNCHANGED <<path, req, before, overlapped, ops, faults, crashes>>
<1> DEFINE f == data[path].list
           l == Normalize(f)
           usable == Accepts(l) /\ Present(l) # {}
<1>0. f \in Lists
  <2>1. data[path] \in Content
    BY Typed
  <2> QED BY <2>1 DEF Content
<1>1. /\ mem' = (IF usable THEN l ELSE Default) /\ data' = [data EXCEPT ![path] = Whole(mem')]
      /\ gone' = (IF usable THEN gone ELSE gone \ {1})
      /\ ~up /\ up' /\ tmp' = 0
      /\ UNCHANGED <<path, req, before, overlapped, ops, faults, crashes>>
  BY DEF Restart
<1>2. l \in Lists /\ Present(l) = Present(f) /\ \A i, j \in AutoStarts(l) : i = j
  BY <1>0, NormalizeIs
<1>3. usable => Good(l)
  BY <1>2 DEF Good, Accepts
<1> HIDE DEF usable, l
<1>4. CASE usable
  BY <1>1, <1>2, <1>3, <1>4
<1>5. CASE ~usable
  BY <1>1, <1>5, DefaultIs
<1> QED BY <1>4, <1>5

-----------------------------------------------------------------------------
(* What workers read *)

LEMMA GInvInit == Init => GInv
<1> SUFFICES ASSUME Init PROVE GInv
  OBVIOUS
<1>1. mem \in Lists /\ Accepts(mem) /\ Normalize(mem) = mem
  BY InitialAssumption DEF Init
<1>2. Good(mem)
  BY <1>1, NormalizeIs
<1>3. 1 \in Inodes /\ 0 \notin Inodes
  <2>1. Cardinality(Handlers) \in Nat
    BY StoreAssumption, FS_CardinalityType
  <2> QED BY <2>1 DEF Inodes
<1>4. /\ data \in [Inodes -> Content]
      /\ \A i \in Inodes : Good(data[i].list)
  <2>1. /\ Whole(mem) \in Content /\ Torn \in Content
        /\ Good(Whole(mem).list) /\ Good(Torn.list)
    BY <1>1, <1>2, ContentIs, NoListIs
  <2>2. data = [i \in Inodes |-> IF i = 1 THEN Whole(mem) ELSE Torn]
    BY DEF Init
  <2> QED BY <2>1, <2>2
<1>5. /\ req \in [Handlers -> Requests] /\ before \in [Handlers -> Lists]
      /\ \A h \in Handlers : req[h] = Quiet
  BY QuietIs, NoListIs DEF Init
<1>6. TypeOK
  <2>1. /\ path \in Inodes /\ tmp \in {0} \cup Inodes /\ up \in BOOLEAN
        /\ gone \subseteq Ids /\ overlapped \in BOOLEAN
    BY <1>3 DEF Init
  <2>2. ops \in 0..MaxOps /\ faults \in 0..MaxFaults /\ crashes \in 0..MaxCrashes
    <3>1. MaxOps \in Nat /\ MaxFaults \in Nat /\ MaxCrashes \in Nat
      BY StoreAssumption
    <3> QED BY <3>1 DEF Init
  <2> QED BY <1>1, <1>4, <1>5, <2>1, <2>2 DEF TypeOK, Content
<1>7. CopiesGood
  BY <1>5, QuietIs DEF CopiesGood, Vetted
<1>8. FilesFit
  <2>1. tmp # path
    BY DEF Init
  <2> QED BY <1>5, <2>1, QuietIs DEF FilesFit
<1> QED BY <1>4, <1>6, <1>7, <1>8 DEF GInv, FilesGood

LEMMA GInvStep == GInv /\ [Next]_vars => GInv'
<1> SUFFICES ASSUME GInv, [Next]_vars PROVE GInv'
  OBVIOUS
<1>0. TypeOK /\ FilesGood /\ CopiesGood /\ FilesFit
  BY DEF GInv
<1>t. /\ data \in [Inodes -> Content] /\ path \in Inodes /\ tmp \in Files
      /\ req \in [Handlers -> Requests] /\ before \in [Handlers -> Lists] /\ mem \in Lists
      /\ 0 \notin Inodes
  BY <1>0, Typed
<1>1. ASSUME NEW h \in Handlers, Begin(h) PROVE GInv'
  <2>1. PICK kind \in Kinds, i \in Ids, n \in Names, a \in Listens, b \in BOOLEAN :
           /\ Possible(kind, i, n) /\ mem' = Change(kind, i, n, a, b)
           /\ gone' = IF kind = "import" THEN gone \ {i} ELSE gone
           /\ Comes(h, kind, i)
    BY <1>0, <1>1, BeginIs
  <2>2. /\ UNCHANGED <<data, path, tmp, up, faults, crashes>>
        /\ before' = [before EXCEPT ![h] = mem] /\ ops < MaxOps /\ ops' = ops + 1
        /\ overlapped' \in BOOLEAN
    BY <1>1, <1>0 DEF Begin, TypeOK
  <2>3. mem' \in Lists
    BY <1>0, <2>1, ChangeIs
  <2>4. ops' \in 0..MaxOps
    <3>1. MaxOps \in Nat /\ ops \in 0..MaxOps
      BY <1>0, StoreAssumption DEF TypeOK
    <3> QED BY <2>2, <3>1
  <2>5. before' \in [Handlers -> Lists]
    BY <1>t, <2>2
  <2>6. /\ req' \in [Handlers -> Requests] /\ req'[h].step = "copy"
        /\ \A g \in Handlers : g # h => req'[g] = req[g]
    BY <2>1 DEF Comes
  <2>7. gone' \subseteq Ids
    BY <1>0, <2>1 DEF TypeOK
  <2>8. TypeOK'
    BY <1>0, <2>2, <2>3, <2>4, <2>5, <2>6, <2>7 DEF TypeOK
  <2>9. FilesGood' /\ CopiesGood' /\ FilesFit'
    BY <1>0, <2>2, <2>6 DEF FilesGood, CopiesGood, FilesFit, Vetted
  <2> QED BY <2>8, <2>9 DEF GInv
<1>2. ASSUME NEW h \in Handlers, Copy(h) PROVE GInv'
  <2> DEFINE l == Listed(req[h])
  <2>1. /\ l \in Lists /\ req' \in [Handlers -> Requests]
        /\ \A g \in Handlers : g # h => req'[g] = req[g]
        /\ req'[h].copy = Normalize(l)
        /\ req'[h].step = IF Accepts(l) THEN "open" ELSE "refused"
    BY <1>0, <1>2, CopyIs
  <2>2. UNCHANGED <<mem, data, path, tmp, before, up, gone, overlapped, ops, faults, crashes>>
    BY <1>2 DEF Copy
  <2> HIDE DEF l
  <2>3. Accepts(l) => Good(Normalize(l))
    BY <2>1, NormalizeIs
  <2>4. TypeOK'
    BY <1>0, <2>1, <2>2 DEF TypeOK
  <2>5. req'[h].step \in Vetted => Good(req'[h].copy)
    BY <2>1, <2>3 DEF Vetted
  <2>6. CopiesGood' /\ FilesGood'
    BY <1>0, <2>1, <2>2, <2>5 DEF CopiesGood, FilesGood
  <2>7. FilesFit'
    <3>1. req'[h].step \in {"open", "refused"}
      BY <2>1
    <3> QED BY <1>0, <2>1, <2>2, <3>1 DEF FilesFit
  <2> QED BY <2>4, <2>6, <2>7 DEF GInv
<1>3. ASSUME NEW h \in Handlers, Saves(h) PROVE GInv'
  BY <1>3, SavesStep
<1>4. ASSUME NEW h \in Handlers, Saved(h) \/ Refused(h) PROVE GInv'
  <2>1. mem' \in Lists /\ gone' \subseteq Ids /\ Answers(h)
    BY <1>0, <1>4, SavedIs, RefusedIs DEF TypeOK
  <2>2. /\ req' \in [Handlers -> Requests] /\ req'[h] = Quiet
        /\ \A g \in Handlers : g # h => req'[g] = req[g]
        /\ before' \in [Handlers -> Lists]
    BY <1>0, <2>1, AnswersIs
  <2>3. UNCHANGED <<data, path, tmp, up, overlapped, ops, faults, crashes>>
    BY <2>1 DEF Answers
  <2>4. TypeOK'
    BY <1>0, <2>1, <2>2, <2>3 DEF TypeOK
  <2>5. FilesGood' /\ CopiesGood' /\ FilesFit'
    BY <1>0, <2>2, <2>3, QuietIs DEF FilesGood, CopiesGood, FilesFit, Vetted
  <2> QED BY <2>4, <2>5 DEF GInv
<1>5. CASE Crash
  <2>1. /\ UNCHANGED <<data, path, tmp, gone, overlapped, ops, faults>>
        /\ req' = [h \in Handlers |-> Quiet] /\ before' = [h \in Handlers |-> NoList]
        /\ mem' = NoList /\ up' = FALSE /\ crashes < MaxCrashes /\ crashes' = crashes + 1
    BY <1>5 DEF Crash
  <2>2. /\ req' \in [Handlers -> Requests] /\ \A h \in Handlers : req'[h] = Quiet
        /\ before' \in [Handlers -> Lists] /\ mem' \in Lists
    BY <2>1, QuietIs, NoListIs
  <2>3. crashes' \in 0..MaxCrashes
    <3>1. MaxCrashes \in Nat /\ crashes \in 0..MaxCrashes
      BY <1>0, StoreAssumption DEF TypeOK
    <3> QED BY <2>1, <3>1
  <2>4. TypeOK'
    BY <1>0, <2>1, <2>2, <2>3 DEF TypeOK
  <2>5. FilesGood' /\ CopiesGood' /\ FilesFit'
    BY <1>0, <2>1, <2>2, QuietIs DEF FilesGood, CopiesGood, FilesFit, Vetted
  <2> QED BY <2>4, <2>5 DEF GInv
<1>6. CASE Restart
  <2>1. /\ mem' \in Lists /\ Good(mem') /\ data' = [data EXCEPT ![path] = Whole(mem')]
        /\ gone' \subseteq gone /\ up' /\ tmp' = 0
        /\ UNCHANGED <<path, req, before, overlapped, ops, faults, crashes>>
    BY <1>0, <1>6, RestartIs
  <2> DEFINE w == Whole(mem')
  <2>2. w \in Content /\ Good(w.list)
    BY <2>1, ContentIs
  <2>3. data' = [data EXCEPT ![path] = w]
    BY <2>1
  <2> HIDE DEF w
  <2>4. data' \in [Inodes -> Content] /\ FilesGood'
    BY <1>0, <1>t, <2>2, <2>3, DataIs
  <2>5. up' \in BOOLEAN
    BY <1>6 DEF Restart
  <2>6. TypeOK'
    BY <1>0, <2>1, <2>4, <2>5 DEF TypeOK, Content
  <2>7. CopiesGood' /\ FilesFit'
    BY <1>0, <1>t, <2>1 DEF CopiesGood, FilesFit
  <2> QED BY <2>4, <2>6, <2>7 DEF GInv
<1>7. CASE UNCHANGED vars
  BY <1>0, <1>7 DEF GInv, TypeOK, FilesGood, CopiesGood, FilesFit, vars
<1> QED BY <1>1, <1>2, <1>3, <1>4, <1>5, <1>6, <1>7 DEF Next, Saves

(* Whatever requests, faults and deaths of the UI come together, what      *)
(* goodlink.json holds is a list NormalizeAndValidate accepted, with one   *)
(* service at most that starts by itself, or nothing: neither a request    *)
(* refused after it changed m_services, nor two SaveUIConfig that share    *)
(* .tmp, nor copyFileOverwrite brings another one there.                   *)
THEOREM FileIsValid == Spec => []FileValid
<1>1. GInv => FileValid
  <2> SUFFICES ASSUME GInv PROVE FileValid
    OBVIOUS
  <2>1. TypeOK /\ FilesGood /\ path \in Inodes
    BY Typed DEF GInv
  <2> DEFINE l == data[path].list
  <2>2. Good(l)
    BY <2>1 DEF FilesGood
  <2> HIDE DEF l
  <2>3. Cardinality(AutoStarts(l)) <= 1
    BY <2>2, GoodCounts
  <2> QED BY <2>1, <2>2, <2>3 DEF FileValid, Good, l
<1> QED BY GInvInit, GInvStep, <1>1, PTL DEF Spec

-----------------------------------------------------------------------------
(* The file at every moment *)

(* A handler's step concerns its own request when it is the only one.      *)
LEMMA WKeeps ==
    ASSUME GInv, WInv, NEW h \in Handlers, req[h].step # "idle",
           UNCHANGED <<up, overlapped>>,
           \A g \in Handlers : g # h => req'[g] = req[g],
           ~overlapped => SaveInv(h)' /\ (~data'[path'].whole => faults' > 0)
    PROVE  WInv'
<1>0. Down /\ Single /\ FileWhole
  BY DEF WInv
<1>1. up
  BY <1>0, QuietIs DEF Down
<1>2. Down'
  BY <1>1 DEF Down
<1>3. CASE overlapped
  BY <1>2, <1>3 DEF WInv, Single, FileWhole
<1>4. CASE ~overlapped
  <2>1. \A g \in Handlers : g # h => req'[g].step = "idle"
    BY <1>0, <1>4 DEF Single
  <2>2. Single'
    BY <2>1 DEF Single
  <2>3. \A g \in Handlers : SaveInv(g)'
    <3> SUFFICES ASSUME NEW g \in Handlers, g # h PROVE SaveInv(g)'
      BY <1>4
    <3> QED BY <2>1 DEF SaveInv
  <2>4. FileWhole'
    BY <1>4 DEF FileWhole
  <2> QED BY <1>2, <2>2, <2>3, <2>4 DEF WInv
<1> QED BY <1>3, <1>4

LEMMA SavesWhole ==
    ASSUME GInv, WInv, NEW h \in Handlers, Saves(h)
    PROVE  WInv'
<1>0. /\ TypeOK /\ FilesGood /\ CopiesGood /\ FilesFit
      /\ FileWhole /\ (~overlapped => SaveInv(h))
  BY DEF GInv, WInv
<1>t. /\ data \in [Inodes -> Content] /\ path \in Inodes /\ tmp \in Files /\ tmp # path
      /\ 0 \notin Inodes /\ 0 \in Files /\ Inodes \subseteq Files
      /\ req[h].copy \in Lists /\ faults \in Nat
  BY <1>0, Typed DEF FilesFit, Files, TypeOK
<1>s. {"write", "rename", "refused", "saved", "overwrite", "fill"} \subseteq Steps
  BY DEF Steps
<1>c. Whole(req[h].copy).whole
  BY <1>t, ContentIs
<1>f. Fault => faults' \in Nat /\ faults' > 0
  BY <1>t DEF Fault
<1>p. ASSUME ~overlapped PROVE ~data[path].whole => faults > 0
  BY <1>0, <1>p DEF FileWhole
<1>1. CASE OpenTmp(h)
  <2>1. PICK i \in Inodes : /\ i # path /\ tmp' = i /\ data' = [data EXCEPT ![i] = Torn]
                            /\ Step(h, "write", i, 0)
    BY <1>1, OpenTmpIs
  <2>2. data'[i] = Torn /\ data'[path] = data[path]
    BY <1>t, <2>1
  <2>3. /\ \A g \in Handlers : g # h => req'[g] = req[g]
        /\ req'[h].step = "write" /\ req'[h].fd = i
    BY <1>0, <1>s, <1>t, <2>1, StepIs
  <2>4. UNCHANGED <<path, up, overlapped, faults>> /\ req[h].step = "open"
    BY <1>1 DEF OpenTmp
  <2>5. SaveInv(h)'
    BY <1>t, <2>1, <2>2, <2>3 DEF SaveInv
  <2>6. ~overlapped => (~data'[path'].whole => faults' > 0)
    BY <1>p, <2>2, <2>4
  <2> QED BY <2>3, <2>4, <2>5, <2>6, WKeeps
<1>2. CASE WriteTmp(h)
  <2>1. /\ UNCHANGED <<path, tmp, up, overlapped, faults>>
        /\ Step(h, "rename", 0, 0) /\ req[h].step = "write"
    BY <1>2 DEF WriteTmp
  <2>2. /\ \A g \in Handlers : g # h => req'[g] = req[g]
        /\ req'[h].step = "rename" /\ req'[h].copy = req[h].copy
    BY <1>0, <1>s, <1>t, <2>1, StepIs
  <2>3. ASSUME ~overlapped PROVE SaveInv(h)' /\ (~data'[path'].whole => faults' > 0)
    <3>1. tmp # 0 /\ req[h].fd = tmp /\ data[tmp] = Torn /\ tmp \in Inodes
      BY <1>0, <1>t, <2>1, <2>3 DEF SaveInv, Files
    <3>2. data' = [data EXCEPT ![tmp] = Whole(req[h].copy)]
      BY <1>2, <3>1 DEF WriteTmp, Written
    <3>3. data'[tmp] = Whole(req[h].copy) /\ data'[path] = data[path]
      BY <1>t, <3>1, <3>2
    <3>4. SaveInv(h)'
      BY <2>1, <2>2, <3>1, <3>3 DEF SaveInv
    <3> QED BY <1>p, <2>1, <2>3, <3>3, <3>4
  <2> QED BY <2>1, <2>2, <2>3, WKeeps
<1>3. CASE WriteTmpFails(h)
  <2>1. /\ UNCHANGED <<data, path, tmp, up, overlapped>>
        /\ Step(h, "refused", 0, 0) /\ req[h].step = "write" /\ Fault
    BY <1>3 DEF WriteTmpFails
  <2>2. /\ \A g \in Handlers : g # h => req'[g] = req[g]
        /\ req'[h].step = "refused"
    BY <1>0, <1>s, <1>t, <2>1, StepIs
  <2>3. SaveInv(h)'
    BY <2>2 DEF SaveInv
  <2> QED BY <1>f, <2>1, <2>2, <2>3, WKeeps
<1>4. CASE Renamed(h)
  <2>1. /\ UNCHANGED <<up, overlapped, faults>>
        /\ Step(h, "saved", 0, 0) /\ req[h].step = "rename"
        /\ tmp # 0 /\ path' = tmp /\ tmp' = 0
        /\ data' = data \/ data' = [data EXCEPT ![path] = Torn]
    BY <1>4 DEF Renamed
  <2>2. /\ \A g \in Handlers : g # h => req'[g] = req[g]
        /\ req'[h].step = "saved" /\ req'[h].copy = req[h].copy
    BY <1>0, <1>s, <1>t, <2>1, StepIs
  <2>3. data'[tmp] = data[tmp]
    BY <1>t, <2>1 DEF Files
  <2>4. ASSUME ~overlapped PROVE SaveInv(h)' /\ (~data'[path'].whole => faults' > 0)
    <3>1. data[tmp] = Whole(req[h].copy)
      BY <1>0, <2>1, <2>4 DEF SaveInv
    <3> QED BY <1>c, <2>1, <2>2, <2>3, <3>1 DEF SaveInv
  <2> QED BY <2>1, <2>2, <2>4, WKeeps
<1>5. CASE RenameFails(h)
  <2>1. /\ UNCHANGED <<data, path, tmp, up, overlapped>>
        /\ Step(h, "overwrite", 0, 0) /\ req[h].step = "rename"
        /\ tmp # 0 => Fault
    BY <1>5 DEF RenameFails
  <2>2. /\ \A g \in Handlers : g # h => req'[g] = req[g]
        /\ req'[h].step = "overwrite" /\ req'[h].copy = req[h].copy
    BY <1>0, <1>s, <1>t, <2>1, StepIs
  <2>3. ASSUME ~overlapped PROVE SaveInv(h)' /\ (~data'[path'].whole => faults' > 0)
    <3>1. tmp # 0 /\ data[tmp] = Whole(req[h].copy)
      BY <1>0, <2>1, <2>3 DEF SaveInv
    <3>2. faults' > 0
      BY <1>f, <2>1, <3>1
    <3> QED BY <2>1, <2>2, <3>1, <3>2 DEF SaveInv
  <2> QED BY <2>1, <2>2, <2>3, WKeeps
<1>6. CASE OverwriteOpens(h)
  <2>1. /\ UNCHANGED <<path, tmp, up, overlapped, faults>>
        /\ Step(h, "fill", tmp, path) /\ req[h].step = "overwrite" /\ tmp # 0
        /\ data' = [data EXCEPT ![path] = Torn]
    BY <1>6 DEF OverwriteOpens
  <2>2. /\ \A g \in Handlers : g # h => req'[g] = req[g]
        /\ req'[h].step = "fill" /\ req'[h].copy = req[h].copy
        /\ req'[h].fd = tmp /\ req'[h].out = path
    BY <1>0, <1>s, <1>t, <2>1, StepIs
  <2>3. data'[path] = Torn /\ data'[tmp] = data[tmp]
    BY <1>t, <2>1 DEF Files
  <2>4. ASSUME ~overlapped PROVE SaveInv(h)' /\ (~data'[path'].whole => faults' > 0)
    <3>1. data[tmp] = Whole(req[h].copy) /\ faults > 0
      BY <1>0, <2>1, <2>4 DEF SaveInv
    <3> QED BY <1>t, <2>1, <2>2, <2>3, <3>1 DEF SaveInv
  <2> QED BY <2>1, <2>2, <2>4, WKeeps
<1>7. CASE OverwriteFills(h)
  <2>1. /\ UNCHANGED <<path, up, overlapped, faults>>
        /\ Step(h, "saved", 0, 0) /\ req[h].step = "fill"
    BY <1>7 DEF OverwriteFills
  <2>2. /\ \A g \in Handlers : g # h => req'[g] = req[g]
        /\ req'[h].step = "saved" /\ req'[h].copy = req[h].copy
    BY <1>0, <1>s, <1>t, <2>1, StepIs
  <2>3. ASSUME ~overlapped PROVE SaveInv(h)' /\ (~data'[path'].whole => faults' > 0)
    <3>1. req[h].out = path /\ data[req[h].fd] = Whole(req[h].copy) /\ data[path] = Torn
      BY <1>0, <2>1, <2>3 DEF SaveInv
    <3>2. data' = [data EXCEPT ![path] = Whole(req[h].copy)]
      BY <1>7, <3>1 DEF OverwriteFills, Written
    <3>3. data'[path] = Whole(req[h].copy)
      BY <1>t, <3>2
    <3> QED BY <1>c, <2>1, <2>2, <3>3 DEF SaveInv
  <2> QED BY <2>1, <2>2, <2>3, WKeeps
<1>8. CASE OverwriteFails(h)
  <2>1. /\ UNCHANGED <<data, path, up, overlapped>>
        /\ Step(h, "refused", 0, 0) /\ req[h].step \in {"overwrite", "fill"}
        /\ Fault \/ UNCHANGED faults
    BY <1>8 DEF OverwriteFails
  <2>2. /\ \A g \in Handlers : g # h => req'[g] = req[g]
        /\ req'[h].step = "refused"
    BY <1>0, <1>s, <1>t, <2>1, StepIs
  <2>3. ASSUME ~overlapped PROVE SaveInv(h)' /\ (~data'[path'].whole => faults' > 0)
    <3>1. faults > 0
      BY <1>0, <2>1, <2>3 DEF SaveInv
    <3>2. faults' > 0
      BY <1>f, <2>1, <3>1
    <3> QED BY <2>2, <3>2 DEF SaveInv
  <2> QED BY <2>1, <2>2, <2>3, WKeeps
<1> QED BY <1>1, <1>2, <1>3, <1>4, <1>5, <1>6, <1>7, <1>8 DEF Saves

LEMMA WInvInit == Init => WInv
<1> SUFFICES ASSUME Init PROVE WInv
  OBVIOUS
<1>1. \A h \in Handlers : req[h] = Quiet
  BY DEF Init
<1>2. \A h \in Handlers : SaveInv(h)
  BY <1>1, QuietIs DEF SaveInv
<1>3. data[path].whole
  <2>1. GInv
    BY GInvInit
  <2>2. path \in Inodes /\ path = 1 /\ mem \in Lists
    BY <2>1, Typed DEF Init, GInv
  <2>3. data[path] = Whole(mem)
    BY <2>2 DEF Init
  <2> QED BY <2>2, <2>3, ContentIs
<1> QED BY <1>1, <1>2, <1>3, QuietIs DEF WInv, Down, Single, FileWhole

LEMMA WInvStep == GInv /\ WInv /\ [Next]_vars => WInv'
<1> SUFFICES ASSUME GInv, WInv, [Next]_vars PROVE WInv'
  OBVIOUS
<1>0. TypeOK /\ FilesGood /\ Down /\ Single /\ FileWhole
  BY DEF GInv, WInv
<1>t. /\ data \in [Inodes -> Content] /\ path \in Inodes
      /\ \A h \in Handlers : req[h].step = "idle" => req[h] = Quiet
  BY <1>0, Typed DEF GInv, FilesFit
<1>1. ASSUME NEW h \in Handlers, Begin(h) PROVE WInv'
  <2>1. up /\ (\E kind \in Kinds, i \in Ids : Comes(h, kind, i))
    BY <1>0, <1>1, BeginIs
  <2>2. req'[h].step = "copy" /\ \A g \in Handlers : g # h => req'[g] = req[g]
    BY <2>1 DEF Comes
  <2>3. /\ UNCHANGED <<data, path, tmp, up, faults>>
        /\ overlapped' = (overlapped \/ \E g \in Handlers : req[g].step # "idle")
    BY <1>1 DEF Begin
  <2>4. Down'
    BY <2>1, <2>3 DEF Down
  <2>5. CASE overlapped'
    BY <2>4, <2>5 DEF WInv, Single, FileWhole
  <2>6. CASE ~overlapped'
    <3>1. ~overlapped /\ \A g \in Handlers : req[g].step = "idle"
      BY <2>3, <2>6
    <3>2. Single'
      BY <2>2, <3>1 DEF Single
    <3>3. \A g \in Handlers : SaveInv(g)'
      BY <2>2, <3>1 DEF SaveInv
    <3>4. FileWhole'
      BY <1>0, <2>3, <3>1 DEF FileWhole
    <3> QED BY <2>4, <3>2, <3>3, <3>4 DEF WInv
  <2> QED BY <2>5, <2>6
<1>2. ASSUME NEW h \in Handlers, Copy(h) PROVE WInv'
  <2>1. /\ \A g \in Handlers : g # h => req'[g] = req[g]
        /\ req'[h].step \in {"open", "refused"}
    BY <1>0, <1>2, CopyIs
  <2>2. UNCHANGED <<data, path, tmp, up, overlapped, faults>> /\ req[h].step = "copy"
    BY <1>2 DEF Copy
  <2>3. SaveInv(h)'
    BY <2>1 DEF SaveInv
  <2>4. ~overlapped => (~data'[path'].whole => faults' > 0)
    BY <1>0, <2>2 DEF FileWhole
  <2> QED BY <2>1, <2>2, <2>3, <2>4, WKeeps
<1>3. ASSUME NEW h \in Handlers, Saves(h) PROVE WInv'
  BY <1>3, SavesWhole
<1>4. ASSUME NEW h \in Handlers, Saved(h) \/ Refused(h) PROVE WInv'
  <2>1. Answers(h) /\ req[h].step # "idle"
    BY <1>0, <1>4, SavedIs, RefusedIs DEF Saved, Refused
  <2>2. /\ req'[h] = Quiet /\ \A g \in Handlers : g # h => req'[g] = req[g]
    BY <1>0, <2>1, AnswersIs
  <2>3. UNCHANGED <<data, path, tmp, up, overlapped, faults>>
    BY <2>1 DEF Answers
  <2>4. SaveInv(h)'
    BY <2>2, QuietIs DEF SaveInv
  <2>5. ~overlapped => (~data'[path'].whole => faults' > 0)
    BY <1>0, <2>3 DEF FileWhole
  <2> QED BY <2>1, <2>2, <2>3, <2>4, <2>5, WKeeps
<1>5. CASE Crash
  <2>1. /\ UNCHANGED <<data, path, overlapped, faults>>
        /\ \A h \in Handlers : req'[h] = Quiet
    BY <1>5 DEF Crash
  <2>2. \A h \in Handlers : SaveInv(h)'
    BY <2>1, QuietIs DEF SaveInv
  <2> QED BY <1>0, <2>1, <2>2, QuietIs DEF WInv, Down, Single, FileWhole
<1>6. CASE Restart
  <2>1. /\ mem' \in Lists /\ data' = [data EXCEPT ![path] = Whole(mem')]
        /\ ~up /\ up' /\ UNCHANGED <<path, req, overlapped, faults>>
    BY <1>0, <1>6, RestartIs
  <2>2. \A h \in Handlers : req'[h] = Quiet
    BY <1>0, <2>1 DEF Down
  <2>3. data'[path'] = Whole(mem')
    BY <1>t, <2>1
  <2>4. data'[path'].whole
    BY <2>1, <2>3, ContentIs
  <2>5. \A h \in Handlers : SaveInv(h)'
    BY <2>2, QuietIs DEF SaveInv
  <2> QED BY <2>2, <2>4, <2>5, QuietIs DEF WInv, Down, Single, FileWhole
<1>7. CASE UNCHANGED vars
  BY <1>7 DEF WInv, Down, Single, FileWhole, SaveInv, vars
<1> QED BY <1>1, <1>2, <1>3, <1>4, <1>5, <1>6, <1>7 DEF Next, Saves

(* A UI that dies at any step of a request, and any number of times, finds *)
(* a whole goodlink.json, unless a file operation had failed or requests   *)
(* shared .tmp: SaveUIConfig writes .tmp first and then renames it.        *)
THEOREM FileIsWhole == Spec => []FileWhole
<1>1. WInv => FileWhole
  BY DEF WInv
<1> QED BY GInvInit, GInvStep, WInvInit, WInvStep, <1>1, PTL DEF Spec

-----------------------------------------------------------------------------
(* Deleted services *)

(* What SaveUIConfig leaves alone, and what goodlink.json may hold after a *)
(* step of it when there is one request.                                   *)
LEMMA SavesKeep ==
    ASSUME GInv, NEW h \in Handlers, Saves(h)
    PROVE  /\ \A g \in Handlers : g # h => req'[g] = req[g]
           /\ req'[h].kind = req[h].kind /\ req'[h].id = req[h].id
           /\ req'[h].copy = req[h].copy /\ req'[h].prev = req[h].prev
           /\ req[h].step \in Vetted
           /\ UNCHANGED <<mem, before, up, gone, overlapped>>
<1>0. TypeOK /\ FilesFit
  BY DEF GInv
<1>1. PICK s \in Steps, f \in Files, o \in Files : Step(h, s, f, o)
  <2>t. tmp \in Files /\ path \in Files /\ 0 \in Files
    BY <1>0, Typed DEF Files
  <2>s. {"write", "rename", "refused", "saved", "overwrite", "fill"} \subseteq Steps
    BY DEF Steps
  <2>1. CASE OpenTmp(h)
    <3>1. PICK i \in Inodes : Step(h, "write", i, 0)
      BY <2>1, OpenTmpIs
    <3> QED BY <2>t, <2>s, <3>1 DEF Files
  <2>2. CASE WriteTmp(h) \/ WriteTmpFails(h)
    BY <2>t, <2>s, <2>2 DEF WriteTmp, WriteTmpFails
  <2>3. CASE Renamed(h) \/ RenameFails(h)
    BY <2>t, <2>s, <2>3 DEF Renamed, RenameFails
  <2>4. CASE OverwriteOpens(h) \/ OverwriteFills(h) \/ OverwriteFails(h)
    BY <2>t, <2>s, <2>4 DEF OverwriteOpens, OverwriteFills, OverwriteFails
  <2> QED BY <2>1, <2>2, <2>3, <2>4 DEF Saves
<1>2. UNCHANGED <<mem, before, up, gone, overlapped>> /\ req[h].step \in Vetted
  BY DEF Saves, OpenTmp, WriteTmp, WriteTmpFails, Renamed, RenameFails, OverwriteOpens,
     OverwriteFills, OverwriteFails, Vetted
<1> QED BY <1>0, <1>1, <1>2, StepIs

LEMMA SavesPath ==
    ASSUME GInv, WInv, NEW h \in Handlers, Saves(h), ~overlapped
    PROVE  data'[path'] \in {data[path], Torn, Whole(req[h].copy)}
<1>0. /\ TypeOK /\ FilesFit /\ SaveInv(h)
  BY DEF GInv, WInv
<1>t. /\ data \in [Inodes -> Content] /\ path \in Inodes /\ tmp \in Files /\ tmp # path
      /\ 0 \notin Inodes
  BY <1>0, Typed DEF FilesFit
<1>1. CASE OpenTmp(h)
  <2>1. PICK i \in Inodes : i # path /\ data' = [data EXCEPT ![i] = Torn]
    BY <1>1, OpenTmpIs
  <2> QED BY <1>1, <1>t, <2>1 DEF OpenTmp
<1>2. CASE WriteTmp(h)
  <2>1. req[h].fd = tmp
    BY <1>0, <1>2 DEF WriteTmp, SaveInv
  <2>2. \E c : data' = [data EXCEPT ![tmp] = c]
    BY <1>2, <2>1 DEF WriteTmp
  <2> QED BY <1>2, <1>t, <2>2 DEF WriteTmp
<1>3. CASE WriteTmpFails(h) \/ RenameFails(h) \/ OverwriteFails(h)
  BY <1>3 DEF WriteTmpFails, RenameFails, OverwriteFails
<1>4. CASE Renamed(h)
  <2>1. tmp # 0 /\ path' = tmp /\ data[tmp] = Whole(req[h].copy)
    BY <1>0, <1>4 DEF Renamed, SaveInv
  <2>2. data' = data \/ data' = [data EXCEPT ![path] = Torn]
    BY <1>4 DEF Renamed
  <2>3. data'[tmp] = data[tmp]
    BY <1>t, <2>1, <2>2 DEF Files
  <2> QED BY <2>1, <2>3
<1>5. CASE OverwriteOpens(h)
  BY <1>5, <1>t DEF OverwriteOpens
<1>6. CASE OverwriteFills(h)
  <2>1. req[h].out = path /\ data[req[h].fd] = Whole(req[h].copy) /\ data[path] = Torn
    BY <1>0, <1>6 DEF OverwriteFills, SaveInv
  <2>2. data' = [data EXCEPT ![path] = Whole(req[h].copy)] /\ path' = path
    BY <1>6, <2>1 DEF OverwriteFills, Written
  <2> QED BY <1>t, <2>2
<1> QED BY <1>1, <1>2, <1>3, <1>4, <1>5, <1>6 DEF Saves

(* A handler's step concerns its own request when it is the only one.      *)
LEMMA DKeeps ==
    ASSUME WInv, DInv, NEW h \in Handlers, req[h].step # "idle", overlapped' = overlapped,
           \A g \in Handlers : g # h => req'[g] = req[g],
           ~overlapped => /\ req'[h].step # "idle" => DelInv(h)'
                          /\ Clean(mem)' /\ Clean(data[path].list)'
    PROVE  DInv'
<1>1. CASE overlapped
  BY <1>1 DEF DInv, DeletedStays
<1>2. CASE ~overlapped
  <2>1. \A g \in Handlers : g # h => req'[g].step = "idle"
    BY <1>2 DEF WInv, Single
  <2>2. DeletedStays'
    BY <1>2 DEF DeletedStays, Clean
  <2> QED BY <1>2, <2>1, <2>2 DEF DInv
<1> QED BY <1>1, <1>2

LEMMA DInvStep == GInv /\ WInv /\ DInv /\ [Next]_vars => DInv'
<1> SUFFICES ASSUME GInv, WInv, DInv, [Next]_vars PROVE DInv'
  OBVIOUS
<1>0. TypeOK /\ FilesGood /\ Down /\ Single
  BY DEF GInv, WInv
<1>t. mem \in Lists /\ data \in [Inodes -> Content] /\ path \in Inodes
  BY <1>0, Typed
<1>c. ~overlapped => /\ Clean(mem) /\ Clean(data[path].list)
                     /\ \A h \in Handlers : req[h].step # "idle" => DelInv(h)
  BY DEF DInv, DeletedStays, Clean
<1>n. Clean(NoList)
  BY NoListIs DEF Clean
<1>1. ASSUME NEW h \in Handlers, Begin(h) PROVE DInv'
  <2>1. PICK kind \in Kinds, i \in Ids, n \in Names, a \in Listens, b \in BOOLEAN :
           /\ Possible(kind, i, n) /\ mem' = Change(kind, i, n, a, b)
           /\ gone' = IF kind = "import" THEN gone \ {i} ELSE gone
           /\ Comes(h, kind, i)
    BY <1>0, <1>1, BeginIs
  <2>2. /\ UNCHANGED <<data, path>>
        /\ overlapped' = (overlapped \/ \E g \in Handlers : req[g].step # "idle")
    BY <1>1 DEF Begin
  <2>3. CASE overlapped'
    BY <2>3 DEF DInv, DeletedStays
  <2>4. CASE ~overlapped'
    <3>1. ~overlapped /\ \A g \in Handlers : req[g].step = "idle"
      BY <2>2, <2>4
    <3>2. Clean(mem) /\ Clean(data[path].list)
      BY <1>c, <3>1
    <3>3. /\ Present(mem') \subseteq Present(mem)
          /\ kind = "delete" => mem'[i] = Absent
      BY <1>0, <2>1, ChangeIs
    <3>4. gone' \subseteq gone /\ (kind = "import" => i \notin gone')
      BY <2>1
    <3>5. Clean(mem)' /\ Clean(data[path].list)'
      BY <2>2, <3>2, <3>3, <3>4 DEF Clean
    <3>6. /\ req'[h].kind = kind /\ req'[h].id = i /\ req'[h].step = "copy"
          /\ req'[h].prev = mem[i] /\ Present(req'[h].copy) \subseteq {i}
          /\ kind \notin {"create", "import"} => Present(req'[h].copy) = {}
          /\ \A g \in Handlers : g # h => req'[g] = req[g]
      BY <2>1 DEF Comes
    <3>7. Clean(req[h].copy)'
      <4>1. CASE kind = "create"
        <5>1. i \notin gone
          BY <2>1, <4>1 DEF Possible
        <5> QED BY <3>4, <3>6, <5>1 DEF Clean
      <4>2. CASE kind = "import"
        BY <3>4, <3>6, <4>2 DEF Clean
      <4>3. CASE kind \notin {"create", "import"}
        BY <3>6, <4>3 DEF Clean
      <4> QED BY <4>1, <4>2, <4>3
    <3>8. DelInv(h)'
      <4>1. kind = "delete" => i \notin Present(mem') /\ (mem[i] # Absent => i \notin gone')
        BY <3>2, <3>3, <3>4 DEF Present, Clean
      <4> QED BY <3>6, <3>7, <4>1 DEF DelInv, Vetted
    <3>9. DeletedStays'
      BY <3>5 DEF DeletedStays, Clean
    <3>10. \A g \in Handlers : req'[g].step # "idle" => g = h
      BY <3>1, <3>6
    <3> QED BY <3>8, <3>9, <3>10 DEF DInv
  <2> QED BY <2>3, <2>4
<1>2. ASSUME NEW h \in Handlers, Copy(h) PROVE DInv'
  <2> DEFINE l == Listed(req[h])
  <2>1. /\ l \in Lists
        /\ \A g \in Handlers : g # h => req'[g] = req[g]
        /\ req'[h].kind = req[h].kind /\ req'[h].id = req[h].id
        /\ req'[h].prev = req[h].prev /\ req'[h].copy = Normalize(l)
    BY <1>0, <1>2, CopyIs
  <2>2. UNCHANGED <<mem, data, path, gone, overlapped>> /\ req[h].step = "copy"
    BY <1>2 DEF Copy
  <2>3. ASSUME ~overlapped PROVE DelInv(h)' /\ Clean(mem)' /\ Clean(data[path].list)'
    <3>1. DelInv(h) /\ Clean(mem) /\ Clean(data[path].list)
      BY <1>c, <2>2, <2>3
    <3>2. Present(l) \subseteq Present(mem) \cup Present(req[h].copy)
          /\ (req[h].kind = "delete" => l = mem)
      <4>0. req[h].copy \in [Ids -> Slot] /\ mem \in [Ids -> Slot] /\ req[h].id \in Ids
        BY <1>0, Typed, ListsAre
      <4>1. CASE req[h].kind = "create"
        <5>1. l = [mem EXCEPT ![req[h].id] = req[h].copy[req[h].id]]
          BY <4>1 DEF Listed
        <5> HIDE DEF l
        <5>2. /\ l[req[h].id] = req[h].copy[req[h].id]
              /\ \A j \in Ids : j # req[h].id => l[j] = mem[j]
          BY <4>0, <5>1
        <5> QED BY <4>1, <5>2 DEF Present
      <4>2. CASE req[h].kind = "import"
        <5>1. l = req[h].copy
          BY <4>2 DEF Listed
        <5> HIDE DEF l
        <5> QED BY <4>2, <5>1
      <4>3. CASE req[h].kind \notin {"create", "import"}
        <5>1. l = mem
          BY <4>3 DEF Listed
        <5> HIDE DEF l
        <5> QED BY <5>1
      <4> QED BY <4>1, <4>2, <4>3
    <3> HIDE DEF l
    <3>3. Present(req'[h].copy) = Present(l)
      BY <2>1, NormalizeIs
    <3>4. Clean(req[h].copy)'
      BY <2>2, <3>1, <3>2, <3>3 DEF Clean, DelInv
    <3>5. DelInv(h)'
      BY <2>1, <2>2, <3>1, <3>2, <3>3, <3>4 DEF DelInv
    <3> QED BY <2>2, <3>1, <3>5 DEF Clean
  <2> QED BY <2>1, <2>2, <2>3, DKeeps
<1>3. ASSUME NEW h \in Handlers, Saves(h) PROVE DInv'
  <2>1. /\ \A g \in Handlers : g # h => req'[g] = req[g]
        /\ req'[h].kind = req[h].kind /\ req'[h].id = req[h].id
        /\ req'[h].copy = req[h].copy /\ req'[h].prev = req[h].prev
        /\ req[h].step \in Vetted /\ UNCHANGED <<mem, gone, overlapped>>
    BY <1>3, SavesKeep
  <2>2. req[h].step # "idle"
    BY <2>1 DEF Vetted
  <2>3. ASSUME ~overlapped PROVE DelInv(h)' /\ Clean(mem)' /\ Clean(data[path].list)'
    <3>1. DelInv(h) /\ Clean(mem) /\ Clean(data[path].list)
      BY <1>c, <2>2, <2>3
    <3>2. DelInv(h)' /\ Clean(mem)'
      BY <2>1, <3>1 DEF DelInv, Clean
    <3>3. data'[path'] \in {data[path], Torn, Whole(req[h].copy)}
      BY <1>3, <2>3, SavesPath
    <3>4. Torn.list = NoList /\ Whole(req[h].copy).list = req[h].copy
      BY <1>0, Typed, ContentIs
    <3>5. Clean(req[h].copy)
      BY <3>1 DEF DelInv
    <3>6. Clean(data'[path'].list)
      BY <1>n, <3>1, <3>3, <3>4, <3>5
    <3> QED BY <2>1, <3>2, <3>6 DEF Clean
  <2> QED BY <2>1, <2>2, <2>3, DKeeps
<1>4. ASSUME NEW h \in Handlers, Saved(h) PROVE DInv'
  <2>1. /\ Answers(h) /\ Present(mem') \subseteq Present(mem) \cup Present(req[h].copy)
        /\ req[h].kind = "delete" => mem' = mem
    BY <1>0, <1>4, SavedIs
  <2>2. req'[h] = Quiet /\ \A g \in Handlers : g # h => req'[g] = req[g]
    BY <1>0, <2>1, AnswersIs
  <2>3. /\ UNCHANGED <<data, path, overlapped>> /\ req[h].step = "saved"
        /\ gone' = IF req[h].kind = "delete" THEN gone \cup {req[h].id} ELSE gone
    BY <1>4, <2>1 DEF Answers, Saved
  <2>4. ASSUME ~overlapped PROVE Clean(mem)' /\ Clean(data[path].list)'
    <3>1. DelInv(h) /\ Clean(mem) /\ Clean(data[path].list)
      BY <1>c, <2>3, <2>4
    <3>2. data[path].list = req[h].copy
      <4>1. data[path] = Whole(req[h].copy)
        BY <2>3, <2>4 DEF WInv, SaveInv
      <4> QED BY <1>0, <4>1, Typed, ContentIs
    <3>3. CASE req[h].kind = "delete"
      <4>1. req[h].id \notin Present(mem) /\ req[h].id \notin Present(req[h].copy)
        BY <2>3, <3>1, <3>3 DEF DelInv, Vetted
      <4> QED BY <2>1, <2>3, <3>1, <3>2, <3>3, <4>1 DEF Clean
    <3>4. CASE req[h].kind # "delete"
      <4>1. Clean(req[h].copy)
        BY <3>1 DEF DelInv
      <4> QED BY <2>1, <2>3, <3>1, <3>4, <4>1 DEF Clean
    <3> QED BY <3>3, <3>4
  <2> QED BY <2>2, <2>3, <2>4, DKeeps, QuietIs
<1>5. ASSUME NEW h \in Handlers, Refused(h) PROVE DInv'
  <2> DEFINE r == req[h]
             back == (r.kind = "start" /\ mem[r.id] # Absent) \/ r.kind = "delete"
  <2>1. /\ Answers(h) /\ gone' = gone
        /\ back => mem'[r.id] = r.prev /\ \A j \in Ids : j # r.id => mem'[j] = mem[j]
        /\ ~back => mem' = mem
    BY <1>0, <1>5, RefusedIs
  <2>2. req'[h] = Quiet /\ \A g \in Handlers : g # h => req'[g] = req[g]
    BY <1>0, <2>1, AnswersIs
  <2>3. UNCHANGED <<data, path, overlapped>> /\ req[h].step = "refused"
    BY <1>5, <2>1 DEF Answers, Refused
  <2>4. ASSUME ~overlapped PROVE Clean(mem)' /\ Clean(data[path].list)'
    <3>1. DelInv(h) /\ Clean(mem) /\ Clean(data[path].list)
      BY <1>c, <2>3, <2>4
    <3>2. back /\ r.prev # Absent => r.id \notin gone
      <4>1. r.id \in Ids
        BY <1>0, Typed
      <4> QED BY <3>1, <4>1 DEF DelInv, Clean, Present
    <3> HIDE DEF back
    <3>3. Clean(mem)'
      BY <2>1, <3>1, <3>2 DEF Clean, Present
    <3> QED BY <2>1, <2>3, <3>1, <3>3 DEF Clean
  <2> QED BY <2>2, <2>3, <2>4, DKeeps, QuietIs
<1>6. CASE Crash
  <2>1. /\ UNCHANGED <<data, path, gone, overlapped>> /\ mem' = NoList
        /\ \A h \in Handlers : req'[h] = Quiet
    BY <1>6 DEF Crash
  <2>2. DeletedStays'
    BY <1>c, <1>n, <2>1 DEF DeletedStays, Clean
  <2> QED BY <2>1, <2>2, QuietIs DEF DInv
<1>7. CASE Restart
  <2>1. /\ mem' \in Lists /\ data' = [data EXCEPT ![path] = Whole(mem')]
        /\ \/ gone' = gone /\ Present(mem') = Present(data[path].list)
           \/ gone' = gone \ {1} /\ Present(mem') \subseteq {1}
        /\ ~up /\ UNCHANGED <<path, req, overlapped>>
    BY <1>0, <1>7, RestartIs
  <2>2. data'[path'] = Whole(mem')
    BY <1>t, <2>1
  <2>3. data'[path'].list = mem'
    BY <2>1, <2>2, ContentIs
  <2>4. ~overlapped => Clean(mem)'
    BY <1>c, <2>1 DEF Clean
  <2>5. DeletedStays'
    BY <2>1, <2>3, <2>4 DEF DeletedStays, Clean
  <2>6. \A h \in Handlers : req'[h] = Quiet
    BY <1>0, <2>1 DEF Down
  <2> QED BY <2>5, <2>6, QuietIs DEF DInv
<1>8. CASE UNCHANGED vars
  BY <1>8 DEF DInv, DeletedStays, DelInv, Clean, vars
<1> QED BY <1>1, <1>2, <1>3, <1>4, <1>5, <1>6, <1>7, <1>8 DEF Next, Saves

LEMMA DInvInit == Init => DInv
BY QuietIs DEF Init, DInv, DeletedStays

(* A service HandleDeleteService has answered for stays deleted, in        *)
(* m_services and in goodlink.json, through restarts and failed saves, as  *)
(* long as requests come one at a time.                                    *)
THEOREM DeletedStaysDeleted == Spec => []DeletedStays
<1>1. DInv => DeletedStays
  BY DEF DInv
<1> QED BY GInvInit, GInvStep, WInvInit, WInvStep, DInvInit, DInvStep, <1>1, PTL DEF Spec

-----------------------------------------------------------------------------
(* A request that fails *)

(* What a handler does while it saves leaves alone what it will restore.   *)
LEMMA RKeeps ==
    ASSUME RInv, NEW h \in Handlers, req[h].step # "idle",
           UNCHANGED <<mem, before, overlapped>>,
           req'[h].kind = req[h].kind, req'[h].id = req[h].id, req'[h].prev = req[h].prev,
           \A g \in Handlers : g # h => req'[g] = req[g]
    PROVE  RInv'
<1> SUFFICES ASSUME ~overlapped, NEW g \in Handlers, req'[g].step # "idle"
             PROVE  RestoreInv(g)'
  BY DEF RInv
<1>1. req[g].step # "idle" /\ req'[g].kind = req[g].kind /\ req'[g].id = req[g].id
      /\ req'[g].prev = req[g].prev
  OBVIOUS
<1>2. RestoreInv(g)
  BY <1>1 DEF RInv
<1> QED BY <1>1, <1>2 DEF RestoreInv

(* Once the only handler has answered there is nothing left to restore.    *)
LEMMA RAnswered ==
    ASSUME TypeOK, Single, NEW h \in Handlers, req[h].step # "idle", Answers(h)
    PROVE  RInv'
<1>1. req'[h] = Quiet /\ \A g \in Handlers : g # h => req'[g] = req[g]
  BY AnswersIs
<1>2. overlapped' = overlapped
  BY DEF Answers
<1>3. ~overlapped => \A g \in Handlers : req'[g].step = "idle"
  BY <1>1, QuietIs DEF Single
<1> QED BY <1>2, <1>3 DEF RInv

LEMMA RInvInit == Init => RInv
BY QuietIs DEF Init, RInv

LEMMA RInvStep == GInv /\ WInv /\ RInv /\ [Next]_vars => RInv'
<1> SUFFICES ASSUME GInv, WInv, RInv, [Next]_vars PROVE RInv'
  OBVIOUS
<1>0. TypeOK /\ Down /\ Single
  BY DEF GInv, WInv
<1>1. ASSUME NEW h \in Handlers, Begin(h) PROVE RInv'
  <2>1. PICK kind \in Kinds, i \in Ids, n \in Names, a \in Listens, b \in BOOLEAN :
           /\ Possible(kind, i, n) /\ mem' = Change(kind, i, n, a, b)
           /\ gone' = IF kind = "import" THEN gone \ {i} ELSE gone
           /\ Comes(h, kind, i)
    BY <1>0, <1>1, BeginIs
  <2>2. /\ before' = [before EXCEPT ![h] = mem]
        /\ overlapped' = (overlapped \/ \E g \in Handlers : req[g].step # "idle")
    BY <1>1 DEF Begin
  <2>3. before'[h] = mem
    BY <1>0, <2>2, Typed
  <2>4. /\ kind \in {"start", "delete"} => \A j \in Ids : j # i => mem'[j] = mem[j]
        /\ kind = "start" => mem'[i] # Absent
        /\ kind \in {"create", "import"} => mem' = mem
    BY <1>0, <2>1, ChangeIs
  <2>5. /\ req'[h].kind = kind /\ req'[h].id = i /\ req'[h].prev = mem[i]
        /\ \A g \in Handlers : g # h => req'[g] = req[g]
    BY <2>1 DEF Comes
  <2>6. RestoreInv(h)'
    BY <2>3, <2>4, <2>5 DEF RestoreInv
  <2>7. ~overlapped' => \A g \in Handlers : req'[g].step # "idle" => g = h
    BY <2>2, <2>5
  <2> QED BY <2>6, <2>7 DEF RInv
<1>2. ASSUME NEW h \in Handlers, Copy(h) PROVE RInv'
  <2>1. /\ \A g \in Handlers : g # h => req'[g] = req[g]
        /\ req'[h].kind = req[h].kind /\ req'[h].id = req[h].id
        /\ req'[h].prev = req[h].prev
    BY <1>0, <1>2, CopyIs
  <2>2. UNCHANGED <<mem, before, overlapped>> /\ req[h].step = "copy"
    BY <1>2 DEF Copy
  <2> QED BY <2>1, <2>2, RKeeps
<1>3. ASSUME NEW h \in Handlers, Saves(h) PROVE RInv'
  <2>1. /\ \A g \in Handlers : g # h => req'[g] = req[g]
        /\ req'[h].kind = req[h].kind /\ req'[h].id = req[h].id
        /\ req'[h].prev = req[h].prev /\ req[h].step \in Vetted
        /\ UNCHANGED <<mem, before, overlapped>>
    BY <1>3, SavesKeep
  <2>2. req[h].step # "idle"
    BY <2>1 DEF Vetted
  <2> QED BY <2>1, <2>2, RKeeps
<1>4. ASSUME NEW h \in Handlers, Saved(h) PROVE RInv'
  <2>1. Answers(h) /\ req[h].step = "saved"
    BY <1>0, <1>4, SavedIs DEF Saved
  <2> QED BY <1>0, <2>1, RAnswered
<1>5. ASSUME NEW h \in Handlers, Refused(h) PROVE RInv'
  <2>1. Answers(h) /\ req[h].step = "refused"
    BY <1>0, <1>5, RefusedIs DEF Refused
  <2> QED BY <1>0, <2>1, RAnswered
<1>6. CASE Crash \/ Restart
  <2>1. \A h \in Handlers : req'[h] = Quiet
    BY <1>0, <1>6 DEF Crash, Restart, Down
  <2> QED BY <2>1, QuietIs DEF RInv
<1>7. CASE UNCHANGED vars
  BY <1>7 DEF RInv, RestoreInv, vars
<1> QED BY <1>1, <1>2, <1>3, <1>4, <1>5, <1>6, <1>7 DEF Next, Saves

(* The step of a request that is refused. *)
LEMMA RefusedRestores ==
    ASSUME GInv, RInv, NEW h \in Handlers, Refused(h), ~overlapped,
           req[h].kind \in {"start", "create", "delete", "import"}
    PROVE  mem' = before[h]
<1> DEFINE r == req[h]
           back == (r.kind = "start" /\ mem[r.id] # Absent) \/ r.kind = "delete"
<1>0. TypeOK /\ r.step = "refused"
  BY DEF GInv, Refused
<1>1. RestoreInv(h)
  BY <1>0 DEF RInv
<1>2. before[h] \in [Ids -> Slot] /\ r.id \in Ids
  BY <1>0, Typed, ListsAre
<1>3. /\ mem' \in [Ids -> Slot]
      /\ back => mem'[r.id] = r.prev /\ \A j \in Ids : j # r.id => mem'[j] = mem[j]
      /\ ~back => mem' = mem
  BY <1>0, RefusedIs, ListsAre
<1>4. CASE r.kind \in {"start", "delete"}
  <2>1. back
    BY <1>1, <1>4 DEF RestoreInv
  <2>2. r.prev = before[h][r.id] /\ \A j \in Ids \ {r.id} : mem[j] = before[h][j]
    BY <1>1, <1>4 DEF RestoreInv
  <2>3. \A j \in Ids : mem'[j] = before[h][j]
    BY <1>3, <2>1, <2>2
  <2> QED BY <1>2, <1>3, <2>3
<1>5. CASE r.kind \in {"create", "import"}
  BY <1>1, <1>3, <1>5 DEF RestoreInv
<1> QED BY <1>4, <1>5

(* HandleStart, HandleCreateService, HandleDeleteService and the import    *)
(* leave m_services as they found it when validation or SaveUIConfig       *)
(* fails, whichever step it is, if no other request came in between.       *)
THEOREM RefusalsRestore == Spec => RefusalRestores
<1>1. ASSUME GInv, RInv, [Next]_vars
      PROVE  [\A h \in Handlers :
                 Refused(h) /\ ~overlapped
                    /\ req[h].kind \in {"start", "create", "delete", "import"}
                    => mem' = before[h]]_vars
  BY <1>1, RefusedRestores
<1> QED BY GInvInit, GInvStep, WInvInit, WInvStep, RInvInit, RInvStep, <1>1, PTL
        DEF Spec, RefusalRestores
=============================================================================
