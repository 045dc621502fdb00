------------------------- MODULE SelfUpdateProofs -------------------------
(***************************************************************************)
(* Proofs about SelfUpdate, for any number of failing file operations, any *)
(* releases and whatever an earlier update has left.                       *)
(*                                                                         *)
(* None of the three properties is inductive: whether going back is safe   *)
(* depends on what .old holds, which depends on how far the updater is and *)
(* on the name under which its own image is mapped. StageInv says, for     *)
(* every point of RunSelfUpdate and applyZip, what is on the disk there.   *)
(***************************************************************************)
EXTENDS SelfUpdate, TLAPS

Bad == {"badexe", "baddll"}

At(u, pcs, f) == upd[u].pc \in pcs /\ upd[u].file = f

(* The executable has not been moved away yet. *)
Early(u) ==
    \/ upd[u].pc \in {"off", "wait", "extract", "verify"}
    \/ At(u, {"remove", "away"}, "exe")

Untouched ==
    /\ disk["exe"]["cur"] = "v1" /\ disk["dll"]["cur"] = "v1"
    /\ disk["exe"]["old"] \in {"none", "older"}

(* The old executable is in place, and an .old left by an earlier update   *)
(* cannot take its place because the updater itself runs from it.          *)
OldInPlace(u) ==
    /\ disk["exe"]["cur"] = "v1"
    /\ \/ disk["exe"]["old"] = "none"
       \/ disk["exe"]["old"] = "older" /\ img[u] = "cur"

(* Before the executable is moved away. *)
BeforeInv(u) ==
    /\ Early(u) => Untouched
    /\ Early(u) /\ upd[u].pc # "off" => img[u] = "cur"
    /\ At(u, {"extract", "verify"}, "dll") => /\ HasDll(u)
                                              /\ disk["exe"]["new"] = "v2"
                                              /\ upd[u].zip # "badexe"

(* A release that fails its check is never installed. *)
BadInv(u) ==
    upd[u].zip \in Bad =>
        /\ Untouched
        /\ upd[u].pc \in Working => img[u] = "cur"
        /\ upd[u].pc \in {"wait", "extract", "verify", "restore"} \cup Ended
        /\ upd[u].pc \notin {"off", "done"}

(* While the executable is replaced. *)
ExeInv(u) ==
    /\ At(u, {"remove", "away", "place", "copy"}, "exe") =>
         /\ disk["exe"]["new"] = "v2"
         /\ HasDll(u) => disk["dll"]["new"] = "v2"
    /\ At(u, {"place", "copy", "undo"}, "exe") => disk["exe"]["old"] = "v1"
    /\ At(u, {"undone"}, "exe") => disk["exe"]["old"] = "v1" \/ OldInPlace(u)

(* While wintun.dll is replaced: the new executable is in place.           *)
DllInv(u) ==
    /\ At(u, {"remove", "away", "place", "copy", "undo", "undone"}, "dll") =>
         disk["exe"]["cur"] = "v2" /\ disk["exe"]["old"] = "v1"
    /\ At(u, {"remove", "away", "place", "copy"}, "dll") => disk["dll"]["new"] = "v2"

(* Afterwards. *)
AfterInv(u) ==
    /\ upd[u].pc = "back" => disk["exe"]["old"] = "v1"
    /\ upd[u].pc = "restore" => disk["exe"]["old"] = "v1" \/ OldInPlace(u)
    /\ upd[u].pc = "start" => disk["exe"]["old"] = "v1"
    /\ upd[u].pc \in {"start", "done"} /\ upd[u].zip = "full" =>
         disk["dll"]["cur"] = "v2"
    /\ upd[u].pc \in {"restart", "failed"} => disk["exe"]["cur"] = "v1"
    /\ upd[u].pc \in Working /\ disk["exe"]["old"] = "v1" => img[u] = "old"

StageInv(u) == BeforeInv(u) /\ BadInv(u) /\ ExeInv(u) /\ DllInv(u) /\ AfterInv(u)

UInv == Recoverable /\ \A u \in Updaters : StageInv(u)

-----------------------------------------------------------------------------
(* Files, images and the updater's record *)

Contents == Whole \cup {"none", "torn"}
Disks == [Files -> [Slots -> Contents]]
Images == [Processes -> {"none", "cur", "old"}]
Records == [pc : Ended \cup Working, file : Files, zip : Zips \cup {"none"}]

Moved(d, f, a, b) == [d EXCEPT ![f][b] = d[f][a], ![f][a] = "none"]
Written(d, f, s, v) == [d EXCEPT ![f][s] = v]

(* Writing one file under one name changes that alone.                     *)
LEMMA WriteCell ==
    ASSUME NEW d \in Disks, NEW f \in Files, NEW s \in Slots, NEW v \in Contents
    PROVE  /\ Written(d, f, s, v) \in Disks
           /\ Written(d, f, s, v)[f][s] = v
           /\ \A g \in Files, t \in Slots :
                 g # f \/ t # s => Written(d, f, s, v)[g][t] = d[g][t]
BY DEF Disks, Written

(* Moving the contents from one name to another. *)
LEMMA MoveCell ==
    ASSUME disk \in Disks, NEW f \in Files,
           NEW a \in Slots, NEW b \in Slots, a # b, disk' = Moved(disk, f, a, b)
    PROVE  /\ disk' \in Disks
           /\ disk'[f][b] = disk[f][a] /\ disk'[f][a] = "none"
           /\ \A g \in Files, t \in Slots :
                 g # f \/ t \notin {a, b} => disk'[g][t] = disk[g][t]
<1>2. disk[f][a] \in Contents /\ "none" \in Contents
  BY DEF Disks, Contents
<1>3. disk' = [disk EXCEPT ![f] = [disk[f] EXCEPT ![b] = disk[f][a], ![a] = "none"]]
  BY DEF Disks, Moved
<1>4. /\ [disk[f] EXCEPT ![b] = disk[f][a], ![a] = "none"] \in [Slots -> Contents]
      /\ [disk[f] EXCEPT ![b] = disk[f][a], ![a] = "none"][b] = disk[f][a]
      /\ [disk[f] EXCEPT ![b] = disk[f][a], ![a] = "none"][a] = "none"
      /\ \A t \in Slots : t \notin {a, b} =>
            [disk[f] EXCEPT ![b] = disk[f][a], ![a] = "none"][t] = disk[f][t]
  BY <1>2 DEF Disks
<1> QED BY <1>3, <1>4 DEF Disks

(* A rename moves one file; the images mapped from it move along.          *)
LEMMA RenameIs ==
    ASSUME disk \in Disks, img \in Images, NEW f \in Files,
           NEW a \in Slots, NEW b \in {"cur", "old"}, a # b, Renames(f, a, b)
    PROVE  /\ disk' \in Disks /\ img' \in Images
           /\ disk'[f][b] = disk[f][a] /\ disk'[f][a] = "none"
           /\ \A g \in Files, t \in Slots :
                 g # f \/ t \notin {a, b} => disk'[g][t] = disk[g][t]
           /\ \A p \in Processes :
                 img'[p] = IF f = "exe" /\ img[p] = a THEN b ELSE img[p]
<1>1. disk' = Moved(disk, f, a, b) /\ b \in Slots
  BY DEF Renames, Moved, Slots
<1>2. /\ disk' \in Disks
      /\ disk'[f][b] = disk[f][a] /\ disk'[f][a] = "none"
      /\ \A g \in Files, t \in Slots :
            g # f \/ t \notin {a, b} => disk'[g][t] = disk[g][t]
  BY <1>1, MoveCell
<1>3. /\ img' \in Images
      /\ \A p \in Processes :
            img'[p] = IF f = "exe" /\ img[p] = a THEN b ELSE img[p]
  BY DEF Renames, Images
<1> QED BY <1>2, <1>3

(* The .new files go, nothing else does. *)
LEMMA DiscardIs ==
    \A d \in Disks :
        /\ Discarded(d) \in Disks
        /\ \A g \in Files, t \in Slots :
              Discarded(d)[g][t] = IF t = "new" THEN "none" ELSE d[g][t]
BY DEF Disks, Discarded, Contents, Slots

(* Where the updater goes; its release stays. *)
LEMMA GotoIs ==
    ASSUME upd \in [Updaters -> Records], NEW u \in Updaters,
           NEW pc \in Ended \cup Working, NEW f \in Files, Goto(u, pc, f)
    PROVE  /\ upd' \in [Updaters -> Records]
           /\ upd'[u].pc = pc /\ upd'[u].file = f /\ upd'[u].zip = upd[u].zip
<1>1. upd' = [upd EXCEPT ![u] = [upd[u] EXCEPT !.pc = pc, !.file = f]]
  BY DEF Goto
<1>2. upd[u] \in Records
  OBVIOUS
<1>3. /\ [upd[u] EXCEPT !.pc = pc, !.file = f] \in Records
      /\ [upd[u] EXCEPT !.pc = pc, !.file = f].pc = pc
      /\ [upd[u] EXCEPT !.pc = pc, !.file = f].file = f
      /\ [upd[u] EXCEPT !.pc = pc, !.file = f].zip = upd[u].zip
  BY <1>2 DEF Records
<1> QED BY <1>1, <1>3

-----------------------------------------------------------------------------
(* The inductive invariant *)

(* The parts of TypeOK an updater can disturb. *)
LEMMA TypeParts ==
    ASSUME TypeOK, disk' \in Disks, img' \in Images,
           (img'["ui"] = "none") <=> (img["ui"] = "none"),
           upd' \in [Updaters -> Records], faults' \in 0..MaxFaults,
           UNCHANGED <<ui, leaving, web, crashes>>
    PROVE  TypeOK'
BY DEF TypeOK, Disks, Contents, Images, Records, web

(* There is one updater: the invariant after a step is about it.           *)
LEMMA OneUpdater ==
    ASSUME NEW u \in Updaters, TypeOK', StageInv(u)',
           disk'["exe"]["cur"] \in Whole \/ disk'["exe"]["old"] \in Whole
    PROVE  UInv'
<1>1. \A v \in Updaters : v = u
  BY SelfUpdateAssumption
<1>2. \A v \in Updaters : StageInv(v)'
  BY <1>1
<1>3. Recoverable'
  BY DEF Recoverable
<1> QED BY <1>2, <1>3 DEF UInv

(* Extracting and checking the release keep the invariant.                 *)
LEMMA ExtractStep ==
    ASSUME UInv, NEW u \in Updaters, UNCHANGED <<ui, leaving, web, crashes>>,
           Waited(u) \/ ExtractBegins(u) \/ ExtractEnds(u) \/ ExtractFails(u)
    PROVE  UInv'
<1> USE SelfUpdateAssumption
<1>t. /\ TypeOK /\ StageInv(u)
      /\ disk \in Disks /\ img \in Images /\ upd \in [Updaters -> Records]
      /\ faults \in 0..MaxFaults
      /\ disk["exe"]["cur"] \in Whole \/ disk["exe"]["old"] \in Whole
  BY DEF UInv, Recoverable, TypeOK, Disks, Contents, Images, Records
<1>r. /\ upd[u].pc \in Ended \cup Working /\ upd[u].file \in Files
      /\ upd[u].zip \in Zips \cup {"none"}
  BY <1>t DEF Records
<1>p. "ui" \in Processes /\ u \in Processes
  BY DEF Processes
<1>w. /\ {"v1", "v2", "older"} = Whole
      /\ {"v1", "v2", "older", "none", "torn"} = Contents
      /\ {"exe", "dll"} = Files /\ {"cur", "new", "old"} = Slots
  BY DEF Whole, Contents, Files, Slots
<1>l. {"off", "done", "failed", "broken", "killed"} = Ended
      /\ {"wait", "extract", "verify", "remove", "away", "place", "copy", "undo",
          "undone", "back", "restore", "start", "restart"} = Working
  BY DEF Ended, Working
<1>1. CASE Waited(u)
  <2>1. Goto(u, "extract", "exe") /\ UNCHANGED <<disk, img, faults>> /\ upd[u].pc = "wait"
    BY <1>1 DEF Waited
  <2>2. /\ upd' \in [Updaters -> Records] /\ upd'[u].pc = "extract"
        /\ upd'[u].file = "exe" /\ upd'[u].zip = upd[u].zip
    BY <1>t, <1>l, <1>w, <2>1, GotoIs
  <2>3. TypeOK'
    BY <1>t, <2>1, <2>2, TypeParts
  <2>4. StageInv(u)'
    BY <1>t, <1>r, <2>1, <2>2
       DEF StageInv, BeforeInv, BadInv, ExeInv, DllInv, AfterInv, At, Early, Untouched,
             OldInPlace, HasDll, Bad, Ended, Working, Files, Slots
  <2> QED BY <1>t, <2>1, <2>3, <2>4, OneUpdater
<1>2. CASE ExtractBegins(u)
  <2>1. /\ Goto(u, "verify", upd[u].file) /\ UNCHANGED <<img, faults>>
        /\ upd[u].pc = "extract"
        /\ disk' = Written(disk, upd[u].file, "new", "torn")
    BY <1>2 DEF ExtractBegins, Written
  <2>2. /\ upd' \in [Updaters -> Records] /\ upd'[u].pc = "verify"
        /\ upd'[u].file = upd[u].file /\ upd'[u].zip = upd[u].zip
    BY <1>t, <1>l, <1>r, <2>1, GotoIs
  <2>3. /\ disk' \in Disks
        /\ disk'[upd[u].file]["new"] = "torn"
        /\ \A g \in Files, t \in Slots :
              g # upd[u].file \/ t # "new" => disk'[g][t] = disk[g][t]
    BY <1>t, <1>r, <1>w, <2>1, WriteCell
  <2>4. TypeOK'
    BY <1>t, <2>1, <2>2, <2>3, TypeParts
  <2>5. StageInv(u)'
    BY <1>t, <1>r, <2>1, <2>2, <2>3
       DEF StageInv, BeforeInv, BadInv, ExeInv, DllInv, AfterInv, At, Early, Untouched,
             OldInPlace, HasDll, Bad, Ended, Working, Files, Slots
  <2> QED BY <1>t, <2>3, <2>4, <2>5, <1>w, OneUpdater
<1>3. CASE ExtractEnds(u)
  <2>1. /\ AfterExtract(u) /\ UNCHANGED <<img, faults>>
        /\ upd[u].pc = "verify" /\ Matches(u)
        /\ disk' = Written(disk, upd[u].file, "new", "v2")
    BY <1>3 DEF ExtractEnds, Written
  <2>2. /\ disk' \in Disks
        /\ disk'[upd[u].file]["new"] = "v2"
        /\ \A g \in Files, t \in Slots :
              g # upd[u].file \/ t # "new" => disk'[g][t] = disk[g][t]
    <3>1. "new" \in Slots /\ "v2" \in Contents
      BY <1>w
    <3> QED BY <1>t, <1>r, <2>1, <3>1, WriteCell
  <2>3. CASE upd[u].file = "exe" /\ HasDll(u)
    <3>1. Goto(u, "extract", "dll")
      BY <2>1, <2>3 DEF AfterExtract
    <3>2. /\ upd' \in [Updaters -> Records] /\ upd'[u].pc = "extract"
          /\ upd'[u].file = "dll" /\ upd'[u].zip = upd[u].zip
      BY <1>t, <1>l, <1>w, <3>1, GotoIs
    <3>3. TypeOK'
      BY <1>t, <2>1, <2>2, <3>2, TypeParts
    <3>4. StageInv(u)'
      BY <1>t, <1>r, <2>1, <2>2, <2>3, <3>2
         DEF Matches, StageInv, BeforeInv, BadInv, ExeInv, DllInv, AfterInv, At, Early, Untouched,
             OldInPlace, HasDll, Bad, Ended, Working, Files, Slots
    <3> QED BY <1>t, <2>2, <3>3, <3>4, <1>w, OneUpdater
  <2>4. CASE ~(upd[u].file = "exe" /\ HasDll(u))
    <3>1. Goto(u, "remove", "exe")
      BY <2>1, <2>4 DEF AfterExtract
    <3>2. /\ upd' \in [Updaters -> Records] /\ upd'[u].pc = "remove"
          /\ upd'[u].file = "exe" /\ upd'[u].zip = upd[u].zip
      BY <1>t, <1>l, <1>w, <3>1, GotoIs
    <3>3. TypeOK'
      BY <1>t, <2>1, <2>2, <3>2, TypeParts
    <3>4. StageInv(u)'
      BY <1>t, <1>r, <2>1, <2>2, <2>4, <3>2
         DEF Matches, StageInv, BeforeInv, BadInv, ExeInv, DllInv, AfterInv, At, Early, Untouched,
             OldInPlace, HasDll, Bad, Ended, Working, Files, Slots
    <3> QED BY <1>t, <2>2, <3>3, <3>4, <1>w, OneUpdater
  <2> QED BY <2>3, <2>4
<1>4. CASE ExtractFails(u)
  <2>1. /\ Goto(u, "restore", "exe") /\ img' = img /\ upd[u].pc = "verify"
        /\ disk' = Discarded(disk) /\ faults' \in 0..MaxFaults
    BY <1>4, <1>t DEF ExtractFails, Fault
  <2>2. /\ upd' \in [Updaters -> Records] /\ upd'[u].pc = "restore"
        /\ upd'[u].file = "exe" /\ upd'[u].zip = upd[u].zip
    BY <1>t, <1>l, <1>w, <2>1, GotoIs
  <2>3. /\ disk' \in Disks
        /\ \A g \in Files, t \in Slots :
              disk'[g][t] = IF t = "new" THEN "none" ELSE disk[g][t]
    BY <1>t, <2>1, DiscardIs
  <2>4. TypeOK'
    BY <1>t, <2>1, <2>2, <2>3, TypeParts
  <2>5. StageInv(u)'
    BY <1>t, <1>r, <2>1, <2>2, <2>3
       DEF StageInv, BeforeInv, BadInv, ExeInv, DllInv, AfterInv, At, Early, Untouched,
             OldInPlace, HasDll, Bad, Ended, Working, Files, Slots
  <2> QED BY <1>t, <2>3, <2>4, <2>5, <1>w, OneUpdater
<1> QED BY <1>1, <1>2, <1>3, <1>4

(* Moving the file away and putting the new one in its place keep the      *)
(* invariant.                                                              *)
LEMMA PlaceStep ==
    ASSUME UInv, NEW u \in Updaters, UNCHANGED <<ui, leaving, web, crashes>>,
           RemovesOld(u) \/ MovesAway(u) \/ Places(u) \/ CopyBegins(u) \/ CopyEnds(u)
    PROVE  UInv'
<1> USE SelfUpdateAssumption
<1>t. /\ TypeOK /\ StageInv(u)
      /\ disk \in Disks /\ img \in Images /\ upd \in [Updaters -> Records]
      /\ faults \in 0..MaxFaults
      /\ disk["exe"]["cur"] \in Whole \/ disk["exe"]["old"] \in Whole
  BY DEF UInv, Recoverable, TypeOK, Disks, Contents, Images, Records
<1>r. /\ upd[u].pc \in Ended \cup Working /\ upd[u].file \in Files
      /\ upd[u].zip \in Zips \cup {"none"}
  BY <1>t DEF Records
<1>p. "ui" \in Processes /\ u \in Processes
  BY DEF Processes
<1>w. /\ {"v1", "v2", "older"} = Whole
      /\ {"v1", "v2", "older", "none", "torn"} = Contents
      /\ {"exe", "dll"} = Files /\ {"cur", "new", "old"} = Slots
  BY DEF Whole, Contents, Files, Slots
<1>l. {"off", "done", "failed", "broken", "killed"} = Ended
      /\ {"wait", "extract", "verify", "remove", "away", "place", "copy", "undo",
          "undone", "back", "restore", "start", "restart"} = Working
  BY DEF Ended, Working
<1>a. ASSUME AfterReplace(u)
      PROVE  /\ upd' \in [Updaters -> Records] /\ upd'[u].zip = upd[u].zip
             /\ IF upd[u].file = "exe" /\ HasDll(u)
                THEN upd'[u].pc = "remove" /\ upd'[u].file = "dll"
                ELSE upd'[u].pc = "start" /\ upd'[u].file = "exe"
  <2>1. CASE upd[u].file = "exe" /\ HasDll(u)
    <3>1. Goto(u, "remove", "dll")
      BY <1>a, <2>1 DEF AfterReplace
    <3> QED BY <1>t, <1>l, <1>w, <2>1, <3>1, GotoIs
  <2>2. CASE ~(upd[u].file = "exe" /\ HasDll(u))
    <3>1. Goto(u, "start", "exe")
      BY <1>a, <2>2 DEF AfterReplace
    <3> QED BY <1>t, <1>l, <1>w, <2>2, <3>1, GotoIs
  <2> QED BY <2>1, <2>2
<1>1. CASE RemovesOld(u)
  <2>1. /\ Goto(u, "away", upd[u].file) /\ UNCHANGED <<img, faults>>
        /\ upd[u].pc = "remove"
    BY <1>1 DEF RemovesOld
  <2>2. /\ upd' \in [Updaters -> Records] /\ upd'[u].pc = "away"
        /\ upd'[u].file = upd[u].file /\ upd'[u].zip = upd[u].zip
    BY <1>t, <1>l, <1>r, <1>w, <2>1, GotoIs
  <2>3. /\ disk' \in Disks
        /\ disk'[upd[u].file]["old"] \in {disk[upd[u].file]["old"], "none"}
        /\ \A g \in Files, t \in Slots :
              g # upd[u].file \/ t # "old" => disk'[g][t] = disk[g][t]
    <3>1. CASE disk' = disk
      BY <1>t, <3>1
    <3>2. CASE disk' = Written(disk, upd[u].file, "old", "none")
      <4>1. "old" \in Slots /\ "none" \in Contents
        BY <1>w
      <4> QED BY <1>t, <1>r, <3>2, <4>1, WriteCell
    <3> QED BY <1>1, <3>1, <3>2 DEF RemovesOld, Written
  <2>4. TypeOK'
    BY <1>t, <2>1, <2>2, <2>3, TypeParts
  <2>5. StageInv(u)'
    BY <1>t, <1>r, <2>1, <2>2, <2>3
       DEF StageInv, BeforeInv, BadInv, ExeInv, DllInv, AfterInv, At, Early, Untouched,
             OldInPlace, HasDll, Bad, Ended, Working, Files, Slots
  <2>6. disk'["exe"]["cur"] \in Whole \/ disk'["exe"]["old"] \in Whole
    BY <1>t, <1>r, <1>w, <2>1, <2>3
       DEF StageInv, BeforeInv, BadInv, ExeInv, DllInv, AfterInv, At, Early, Untouched,
             OldInPlace, HasDll, Bad, Ended, Working, Files, Slots
  <2> QED BY <2>4, <2>5, <2>6, OneUpdater
<1>2. CASE MovesAway(u)
  <2>1. /\ Goto(u, "place", upd[u].file) /\ UNCHANGED faults
        /\ upd[u].pc = "away" /\ MovedAway(upd[u].file)
    BY <1>2 DEF MovesAway
  <2>2. /\ upd' \in [Updaters -> Records] /\ upd'[u].pc = "place"
        /\ upd'[u].file = upd[u].file /\ upd'[u].zip = upd[u].zip
    BY <1>t, <1>l, <1>r, <1>w, <2>1, GotoIs
  <2>3. CASE disk[upd[u].file]["cur"] = "none"
    <3>1. disk' = disk /\ img' = img
      BY <2>1, <2>3 DEF MovedAway
    <3>2. upd[u].file = "dll"
      BY <1>t, <1>r, <2>1, <2>3
         DEF StageInv, BeforeInv, BadInv, ExeInv, DllInv, AfterInv, At, Early, Untouched,
             OldInPlace, HasDll, Bad, Ended, Working, Files, Slots
    <3>3. TypeOK'
      BY <1>t, <2>1, <2>2, <3>1, TypeParts
    <3>4. StageInv(u)'
      BY <1>t, <1>r, <2>1, <2>2, <3>1, <3>2
         DEF StageInv, BeforeInv, BadInv, ExeInv, DllInv, AfterInv, At, Early, Untouched,
             OldInPlace, HasDll, Bad, Ended, Working, Files, Slots
    <3> QED BY <1>t, <3>1, <3>3, <3>4, OneUpdater
  <2>4. CASE disk[upd[u].file]["cur"] # "none"
    <3>1. Renames(upd[u].file, "cur", "old")
      BY <2>1, <2>4 DEF MovedAway
    <3>2. /\ disk' \in Disks /\ img' \in Images
          /\ disk'[upd[u].file]["old"] = disk[upd[u].file]["cur"]
          /\ disk'[upd[u].file]["cur"] = "none"
          /\ \A g \in Files, t \in Slots :
                g # upd[u].file \/ t \notin {"cur", "old"} => disk'[g][t] = disk[g][t]
          /\ \A p \in Processes :
                img'[p] = IF upd[u].file = "exe" /\ img[p] = "cur" THEN "old" ELSE img[p]
      BY <1>t, <1>r, <1>w, <3>1, RenameIs
    <3>3. (img'["ui"] = "none") <=> (img["ui"] = "none")
      BY <1>p, <3>2
    <3>4. TypeOK'
      BY <1>t, <2>1, <2>2, <3>2, <3>3, TypeParts
    <3>5. StageInv(u)'
      BY <1>t, <1>r, <1>p, <2>1, <2>2, <3>2
         DEF StageInv, BeforeInv, BadInv, ExeInv, DllInv, AfterInv, At, Early, Untouched,
             OldInPlace, HasDll, Bad, Ended, Working, Files, Slots
    <3>6. disk'["exe"]["cur"] \in Whole \/ disk'["exe"]["old"] \in Whole
      BY <1>t, <1>r, <1>w, <2>1, <3>2
         DEF StageInv, BeforeInv, BadInv, ExeInv, DllInv, AfterInv, At, Early, Untouched,
             OldInPlace, HasDll, Bad, Ended, Working, Files, Slots
    <3> QED BY <3>4, <3>5, <3>6, OneUpdater
  <2> QED BY <2>3, <2>4
<1>3. CASE Places(u)
  <2>1. /\ AfterReplace(u) /\ UNCHANGED faults
        /\ upd[u].pc = "place" /\ Renames(upd[u].file, "new", "cur")
    BY <1>3 DEF Places
  <2>2. /\ disk' \in Disks /\ img' \in Images
        /\ disk'[upd[u].file]["cur"] = disk[upd[u].file]["new"]
        /\ \A g \in Files, t \in Slots :
              g # upd[u].file \/ t \notin {"new", "cur"} => disk'[g][t] = disk[g][t]
        /\ \A p \in Processes :
              img'[p] = IF upd[u].file = "exe" /\ img[p] = "new" THEN "cur" ELSE img[p]
    BY <1>t, <1>r, <1>w, <2>1, RenameIs
  <2>3. (img'["ui"] = "none") <=> (img["ui"] = "none")
    BY <1>p, <2>2
  <2>4. TypeOK'
    BY <1>t, <1>a, <2>1, <2>2, <2>3, TypeParts
  <2>5. StageInv(u)'
    BY <1>t, <1>r, <1>p, <1>a, <2>1, <2>2
       DEF StageInv, BeforeInv, BadInv, ExeInv, DllInv, AfterInv, At, Early, Untouched,
             OldInPlace, HasDll, Bad, Ended, Working, Files, Slots
  <2>6. disk'["exe"]["cur"] \in Whole \/ disk'["exe"]["old"] \in Whole
    BY <1>t, <1>r, <1>w, <2>1, <2>2
       DEF StageInv, BeforeInv, BadInv, ExeInv, DllInv, AfterInv, At, Early, Untouched,
             OldInPlace, HasDll, Bad, Ended, Working, Files, Slots
  <2> QED BY <2>4, <2>5, <2>6, OneUpdater
<1>4. CASE CopyBegins(u)
  <2>1. /\ Goto(u, "copy", upd[u].file) /\ img' = img
        /\ upd[u].pc = "place" /\ faults' \in 0..MaxFaults
        /\ disk' = Written(disk, upd[u].file, "cur", "torn")
    BY <1>4, <1>t DEF CopyBegins, Fault, Written
  <2>2. /\ upd' \in [Updaters -> Records] /\ upd'[u].pc = "copy"
        /\ upd'[u].file = upd[u].file /\ upd'[u].zip = upd[u].zip
    BY <1>t, <1>l, <1>r, <1>w, <2>1, GotoIs
  <2>3. /\ disk' \in Disks
        /\ disk'[upd[u].file]["cur"] = "torn"
        /\ \A g \in Files, t \in Slots :
              g # upd[u].file \/ t # "cur" => disk'[g][t] = disk[g][t]
    <3>1. "cur" \in Slots /\ "torn" \in Contents
      BY <1>w
    <3> QED BY <1>t, <1>r, <2>1, <3>1, WriteCell
  <2>4. TypeOK'
    BY <1>t, <2>1, <2>2, <2>3, TypeParts
  <2>5. StageInv(u)'
    BY <1>t, <1>r, <2>1, <2>2, <2>3
       DEF StageInv, BeforeInv, BadInv, ExeInv, DllInv, AfterInv, At, Early, Untouched,
             OldInPlace, HasDll, Bad, Ended, Working, Files, Slots
  <2>6. disk'["exe"]["cur"] \in Whole \/ disk'["exe"]["old"] \in Whole
    BY <1>t, <1>r, <1>w, <2>1, <2>3
       DEF StageInv, BeforeInv, BadInv, ExeInv, DllInv, AfterInv, At, Early, Untouched,
             OldInPlace, HasDll, Bad, Ended, Working, Files, Slots
  <2> QED BY <2>4, <2>5, <2>6, OneUpdater
<1>5. CASE CopyEnds(u)
  <2>1. /\ AfterReplace(u) /\ UNCHANGED <<img, faults>> /\ upd[u].pc = "copy"
        /\ disk' = Moved(disk, upd[u].file, "new", "cur")
    BY <1>5 DEF CopyEnds, Moved
  <2>2. /\ disk' \in Disks
        /\ disk'[upd[u].file]["cur"] = disk[upd[u].file]["new"]
        /\ \A g \in Files, t \in Slots :
              g # upd[u].file \/ t \notin {"new", "cur"} => disk'[g][t] = disk[g][t]
    BY <1>t, <1>r, <1>w, <2>1, MoveCell
  <2>4. TypeOK'
    BY <1>t, <1>a, <2>1, <2>2, TypeParts
  <2>5. StageInv(u)'
    <3>1. CASE upd[u].file = "exe"
      BY <1>t, <1>r, <1>a, <2>1, <2>2, <3>1
         DEF StageInv, BeforeInv, BadInv, ExeInv, DllInv, AfterInv, At, Early, Untouched,
             OldInPlace, HasDll, Bad, Ended, Working, Files, Slots
    <3>2. CASE upd[u].file = "dll"
      BY <1>t, <1>r, <1>a, <2>1, <2>2, <3>2
         DEF StageInv, BeforeInv, BadInv, ExeInv, DllInv, AfterInv, At, Early, Untouched,
             OldInPlace, HasDll, Bad, Ended, Working, Files, Slots
    <3> QED BY <1>r, <3>1, <3>2 DEF Files
  <2>6. disk'["exe"]["cur"] \in Whole \/ disk'["exe"]["old"] \in Whole
    BY <1>t, <1>r, <1>w, <2>1, <2>2
       DEF StageInv, BeforeInv, BadInv, ExeInv, DllInv, AfterInv, At, Early, Untouched,
             OldInPlace, HasDll, Bad, Ended, Working, Files, Slots
  <2> QED BY <2>4, <2>5, <2>6, OneUpdater
<1> QED BY <1>1, <1>2, <1>3, <1>4, <1>5

(* What happens when a file cannot be replaced keeps the invariant.        *)
LEMMA FailStep ==
    ASSUME UInv, NEW u \in Updaters, UNCHANGED <<ui, leaving, web, crashes>>,
           MoveAwayFails(u) \/ CopyFails(u) \/ Undoes(u) \/ UndoFails(u)
             \/ ReplaceFails(u)
    PROVE  UInv'
<1> USE SelfUpdateAssumption
<1>t. /\ TypeOK /\ StageInv(u)
      /\ disk \in Disks /\ img \in Images /\ upd \in [Updaters -> Records]
      /\ faults \in 0..MaxFaults
      /\ disk["exe"]["cur"] \in Whole \/ disk["exe"]["old"] \in Whole
  BY DEF UInv, Recoverable, TypeOK, Disks, Contents, Images, Records
<1>r. /\ upd[u].pc \in Ended \cup Working /\ upd[u].file \in Files
      /\ upd[u].zip \in Zips \cup {"none"}
  BY <1>t DEF Records
<1>p. "ui" \in Processes /\ u \in Processes
  BY DEF Processes
<1>w. /\ {"v1", "v2", "older"} = Whole
      /\ {"v1", "v2", "older", "none", "torn"} = Contents
      /\ {"exe", "dll"} = Files /\ {"cur", "new", "old"} = Slots
  BY DEF Whole, Contents, Files, Slots
<1>l. {"off", "done", "failed", "broken", "killed"} = Ended
      /\ {"wait", "extract", "verify", "remove", "away", "place", "copy", "undo",
          "undone", "back", "restore", "start", "restart"} = Working
  BY DEF Ended, Working
<1>a. ASSUME Fails(u, disk), img' = img, faults' \in 0..MaxFaults,
             upd[u].pc \in {"away", "undone"}
      PROVE  UInv'
  <2>1. CASE upd[u].file = "exe"
    <3>1. Goto(u, "restore", "exe") /\ disk' = Discarded(disk)
      BY <1>a, <2>1 DEF Fails
    <3>2. /\ upd' \in [Updaters -> Records] /\ upd'[u].pc = "restore"
          /\ upd'[u].file = "exe" /\ upd'[u].zip = upd[u].zip
      BY <1>t, <1>l, <1>r, <1>w, <3>1, GotoIs
    <3>3. /\ disk' \in Disks
          /\ \A g \in Files, t \in Slots :
                disk'[g][t] = IF t = "new" THEN "none" ELSE disk[g][t]
      BY <1>t, <3>1, DiscardIs
    <3>4. TypeOK'
      BY <1>t, <1>a, <2>1, <3>2, <3>3, TypeParts
    <3>5. StageInv(u)'
      BY <1>t, <1>r, <1>a, <2>1, <3>2, <3>3
         DEF StageInv, BeforeInv, BadInv, ExeInv, DllInv, AfterInv, At, Early, Untouched,
             OldInPlace, HasDll, Bad, Ended, Working, Files, Slots
    <3>6. disk'["exe"]["cur"] \in Whole \/ disk'["exe"]["old"] \in Whole
      BY <1>t, <1>r, <1>w, <1>a, <2>1, <3>2, <3>3
         DEF StageInv, BeforeInv, BadInv, ExeInv, DllInv, AfterInv, At, Early, Untouched,
             OldInPlace, HasDll, Bad, Ended, Working, Files, Slots
    <3> QED BY <3>4, <3>5, <3>6, OneUpdater
  <2>2. CASE upd[u].file = "dll"
    <3>1. Goto(u, "back", "exe") /\ disk' = disk
      BY <1>a, <2>2 DEF Fails
    <3>2. /\ upd' \in [Updaters -> Records] /\ upd'[u].pc = "back"
          /\ upd'[u].file = "exe" /\ upd'[u].zip = upd[u].zip
      BY <1>t, <1>l, <1>r, <1>w, <3>1, GotoIs
    <3>4. TypeOK'
      BY <1>t, <1>a, <2>2, <3>1, <3>2, TypeParts
    <3>5. StageInv(u)'
      BY <1>t, <1>r, <1>a, <2>2, <3>1, <3>2
         DEF StageInv, BeforeInv, BadInv, ExeInv, DllInv, AfterInv, At, Early, Untouched,
             OldInPlace, HasDll, Bad, Ended, Working, Files, Slots
    <3>6. disk'["exe"]["cur"] \in Whole \/ disk'["exe"]["old"] \in Whole
      BY <1>t, <1>r, <1>w, <1>a, <2>2, <3>1, <3>2
         DEF StageInv, BeforeInv, BadInv, ExeInv, DllInv, AfterInv, At, Early, Untouched,
             OldInPlace, HasDll, Bad, Ended, Working, Files, Slots
    <3> QED BY <3>4, <3>5, <3>6, OneUpdater
  <2> QED BY <1>r, <1>w, <2>1, <2>2
<1>1. CASE MoveAwayFails(u)
  BY <1>1, <1>a, <1>t DEF MoveAwayFails, Fault
<1>2. CASE CopyFails(u)
  <2>1. /\ Goto(u, "undo", upd[u].file) /\ UNCHANGED <<disk, img>>
        /\ upd[u].pc = "copy" /\ faults' \in 0..MaxFaults
    BY <1>2, <1>t DEF CopyFails, Fault
  <2>2. /\ upd' \in [Updaters -> Records] /\ upd'[u].pc = "undo"
        /\ upd'[u].file = upd[u].file /\ upd'[u].zip = upd[u].zip
    BY <1>t, <1>l, <1>r, <1>w, <2>1, GotoIs
  <2>3. TypeOK'
    BY <1>t, <2>1, <2>2, TypeParts
  <2>4. StageInv(u)'
    BY <1>t, <1>r, <2>1, <2>2
       DEF StageInv, BeforeInv, BadInv, ExeInv, DllInv, AfterInv, At, Early, Untouched,
             OldInPlace, HasDll, Bad, Ended, Working, Files, Slots
  <2>5. disk'["exe"]["cur"] \in Whole \/ disk'["exe"]["old"] \in Whole
    BY <1>t, <1>r, <1>w, <2>1, <2>2
       DEF StageInv, BeforeInv, BadInv, ExeInv, DllInv, AfterInv, At, Early, Untouched,
             OldInPlace, HasDll, Bad, Ended, Working, Files, Slots
  <2> QED BY <2>3, <2>4, <2>5, OneUpdater
<1>3. CASE Undoes(u)
  <2>1. /\ Goto(u, "undone", upd[u].file) /\ UNCHANGED faults
        /\ upd[u].pc = "undo" /\ Renames(upd[u].file, "old", "cur")
        /\ ~InUse(upd[u].file, "cur")
    BY <1>3 DEF Undoes, RenamesBack, CanRenameBack
  <2>2. /\ upd' \in [Updaters -> Records] /\ upd'[u].pc = "undone"
        /\ upd'[u].file = upd[u].file /\ upd'[u].zip = upd[u].zip
    BY <1>t, <1>l, <1>r, <1>w, <2>1, GotoIs
  <2>3. /\ disk' \in Disks /\ img' \in Images
        /\ disk'[upd[u].file]["cur"] = disk[upd[u].file]["old"]
        /\ disk'[upd[u].file]["old"] = "none"
        /\ \A g \in Files, t \in Slots :
              g # upd[u].file \/ t \notin {"old", "cur"} => disk'[g][t] = disk[g][t]
        /\ \A p \in Processes :
              img'[p] = IF upd[u].file = "exe" /\ img[p] = "old" THEN "cur" ELSE img[p]
    BY <1>t, <1>r, <1>w, <2>1, RenameIs
  <2>4. (img'["ui"] = "none") <=> (img["ui"] = "none")
    BY <1>p, <2>3
  <2>5. upd[u].file = "exe" => img[u] # "cur"
    BY <1>p, <2>1 DEF InUse
  <2>6. TypeOK'
    BY <1>t, <2>1, <2>2, <2>3, <2>5, <2>4, TypeParts
  <2>7. StageInv(u)'
    BY <1>t, <1>r, <1>p, <2>1, <2>2, <2>3, <2>5
       DEF StageInv, BeforeInv, BadInv, ExeInv, DllInv, AfterInv, At, Early, Untouched,
             OldInPlace, HasDll, Bad, Ended, Working, Files, Slots
  <2>8. disk'["exe"]["cur"] \in Whole \/ disk'["exe"]["old"] \in Whole
    BY <1>t, <1>r, <1>w, <2>1, <2>2, <2>3, <2>5
       DEF StageInv, BeforeInv, BadInv, ExeInv, DllInv, AfterInv, At, Early, Untouched,
             OldInPlace, HasDll, Bad, Ended, Working, Files, Slots
  <2> QED BY <2>6, <2>7, <2>8, OneUpdater
<1>4. CASE UndoFails(u)
  <2>1. /\ Goto(u, "undone", upd[u].file) /\ UNCHANGED <<disk, img>>
        /\ upd[u].pc = "undo" /\ faults' \in 0..MaxFaults
    BY <1>4, <1>t DEF UndoFails, Fault
  <2>2. /\ upd' \in [Updaters -> Records] /\ upd'[u].pc = "undone"
        /\ upd'[u].file = upd[u].file /\ upd'[u].zip = upd[u].zip
    BY <1>t, <1>l, <1>r, <1>w, <2>1, GotoIs
  <2>3. TypeOK'
    BY <1>t, <2>1, <2>2, TypeParts
  <2>4. StageInv(u)'
    BY <1>t, <1>r, <2>1, <2>2
       DEF StageInv, BeforeInv, BadInv, ExeInv, DllInv, AfterInv, At, Early, Untouched,
             OldInPlace, HasDll, Bad, Ended, Working, Files, Slots
  <2>5. disk'["exe"]["cur"] \in Whole \/ disk'["exe"]["old"] \in Whole
    BY <1>t, <1>r, <1>w, <2>1, <2>2
       DEF StageInv, BeforeInv, BadInv, ExeInv, DllInv, AfterInv, At, Early, Untouched,
             OldInPlace, HasDll, Bad, Ended, Working, Files, Slots
  <2> QED BY <2>3, <2>4, <2>5, OneUpdater
<1>5. CASE ReplaceFails(u)
  BY <1>5, <1>a, <1>t DEF ReplaceFails
<1> QED BY <1>1, <1>2, <1>3, <1>4, <1>5

(* Going back, and failing to, keep the invariant.                         *)
LEMMA BackStep ==
    ASSUME UInv, NEW u \in Updaters, UNCHANGED <<ui, leaving, web, crashes>>,
           GoesBack(u) \/ GoBackFails(u) \/ RestoreReturns(u) \/ Restores(u)
             \/ RestoreFails(u) \/ StartFails(u) \/ Leaves(u)
    PROVE  UInv'
<1> USE SelfUpdateAssumption
<1>t. /\ TypeOK /\ StageInv(u)
      /\ disk \in Disks /\ img \in Images /\ upd \in [Updaters -> Records]
      /\ faults \in 0..MaxFaults
      /\ disk["exe"]["cur"] \in Whole \/ disk["exe"]["old"] \in Whole
  BY DEF UInv, Recoverable, TypeOK, Disks, Contents, Images, Records
<1>r. /\ upd[u].pc \in Ended \cup Working /\ upd[u].file \in Files
      /\ upd[u].zip \in Zips \cup {"none"}
  BY <1>t DEF Records
<1>p. "ui" \in Processes /\ u \in Processes
  BY DEF Processes
<1>w. /\ {"v1", "v2", "older"} = Whole
      /\ {"v1", "v2", "older", "none", "torn"} = Contents
      /\ {"exe", "dll"} = Files /\ {"cur", "new", "old"} = Slots
  BY DEF Whole, Contents, Files, Slots
<1>l. {"off", "done", "failed", "broken", "killed"} = Ended
      /\ {"wait", "extract", "verify", "remove", "away", "place", "copy", "undo",
          "undone", "back", "restore", "start", "restart"} = Working
  BY DEF Ended, Working
<1>1. CASE GoesBack(u)
  <2>1. /\ Goto(u, "restore", "exe") /\ UNCHANGED faults
        /\ upd[u].pc = "back" /\ Renames("exe", "old", "cur")
        /\ ~InUse("exe", "cur") /\ disk["exe"]["old"] # "none"
    BY <1>1 DEF GoesBack, RenamesBack, CanRenameBack
  <2>2. /\ upd' \in [Updaters -> Records] /\ upd'[u].pc = "restore"
        /\ upd'[u].file = "exe" /\ upd'[u].zip = upd[u].zip
    BY <1>t, <1>l, <1>r, <1>w, <2>1, GotoIs
  <2>3. /\ disk' \in Disks /\ img' \in Images
        /\ disk'["exe"]["cur"] = disk["exe"]["old"]
        /\ disk'["exe"]["old"] = "none"
        /\ \A g \in Files, t \in Slots :
              g # "exe" \/ t \notin {"old", "cur"} => disk'[g][t] = disk[g][t]
        /\ \A p \in Processes :
              img'[p] = IF img[p] = "old" THEN "cur" ELSE img[p]
    BY <1>t, <1>r, <1>w, <2>1, RenameIs
  <2>4. (img'["ui"] = "none") <=> (img["ui"] = "none")
    BY <1>p, <2>3
  <2>5. img[u] # "cur"
    BY <1>p, <2>1 DEF InUse
  <2>6. TypeOK'
    BY <1>t, <2>1, <2>2, <2>3, <2>5, <2>4, TypeParts
  <2>7. StageInv(u)'
    BY <1>t, <1>r, <2>1, <2>2, <2>3, <2>5
       DEF StageInv, BeforeInv, BadInv, ExeInv, DllInv, AfterInv, At, Early, Untouched,
             OldInPlace, HasDll, Bad, Ended, Working, Files, Slots
  <2>8. disk'["exe"]["cur"] \in Whole \/ disk'["exe"]["old"] \in Whole
    BY <1>t, <1>r, <1>w, <2>1, <2>2, <2>3, <2>5
       DEF StageInv, BeforeInv, BadInv, ExeInv, DllInv, AfterInv, At, Early, Untouched,
             OldInPlace, HasDll, Bad, Ended, Working, Files, Slots
  <2> QED BY <2>6, <2>7, <2>8, OneUpdater
<1>2. CASE GoBackFails(u)
  <2>1. /\ Goto(u, "restore", "exe") /\ UNCHANGED <<disk, img>>
        /\ upd[u].pc = "back" /\ faults' \in 0..MaxFaults
    BY <1>2, <1>t DEF GoBackFails, Fault
  <2>2. /\ upd' \in [Updaters -> Records] /\ upd'[u].pc = "restore"
        /\ upd'[u].file = "exe" /\ upd'[u].zip = upd[u].zip
    BY <1>t, <1>l, <1>r, <1>w, <2>1, GotoIs
  <2>3. TypeOK'
    BY <1>t, <2>1, <2>2, TypeParts
  <2>4. StageInv(u)'
    BY <1>t, <1>r, <2>1, <2>2
       DEF StageInv, BeforeInv, BadInv, ExeInv, DllInv, AfterInv, At, Early, Untouched,
             OldInPlace, HasDll, Bad, Ended, Working, Files, Slots
  <2>5. disk'["exe"]["cur"] \in Whole \/ disk'["exe"]["old"] \in Whole
    BY <1>t, <1>r, <1>w, <2>1, <2>2
       DEF StageInv, BeforeInv, BadInv, ExeInv, DllInv, AfterInv, At, Early, Untouched,
             OldInPlace, HasDll, Bad, Ended, Working, Files, Slots
  <2> QED BY <2>3, <2>4, <2>5, OneUpdater
<1>3. CASE RestoreReturns(u)
  <2>1. /\ Goto(u, "failed", "exe") /\ UNCHANGED <<disk, img>>
        /\ upd[u].pc = "restore" /\ faults' \in 0..MaxFaults /\ disk["exe"]["old"] = "none"
    BY <1>3, <1>t DEF RestoreReturns, Fault
  <2>2. /\ upd' \in [Updaters -> Records] /\ upd'[u].pc = "failed"
        /\ upd'[u].file = "exe" /\ upd'[u].zip = upd[u].zip
    BY <1>t, <1>l, <1>r, <1>w, <2>1, GotoIs
  <2>3. TypeOK'
    BY <1>t, <2>1, <2>2, TypeParts
  <2>4. StageInv(u)'
    BY <1>t, <1>r, <2>1, <2>2
       DEF StageInv, BeforeInv, BadInv, ExeInv, DllInv, AfterInv, At, Early, Untouched,
             OldInPlace, HasDll, Bad, Ended, Working, Files, Slots
  <2>5. disk'["exe"]["cur"] \in Whole \/ disk'["exe"]["old"] \in Whole
    BY <1>t, <1>r, <1>w, <2>1, <2>2
       DEF StageInv, BeforeInv, BadInv, ExeInv, DllInv, AfterInv, At, Early, Untouched,
             OldInPlace, HasDll, Bad, Ended, Working, Files, Slots
  <2> QED BY <2>3, <2>4, <2>5, OneUpdater
<1>4. CASE Restores(u)
  <2>1. /\ Goto(u, "restart", "exe") /\ UNCHANGED faults
        /\ upd[u].pc = "restore" /\ Renames("exe", "old", "cur")
        /\ ~InUse("exe", "cur") /\ disk["exe"]["old"] # "none"
    BY <1>4 DEF Restores, RenamesBack, CanRenameBack
  <2>2. /\ upd' \in [Updaters -> Records] /\ upd'[u].pc = "restart"
        /\ upd'[u].file = "exe" /\ upd'[u].zip = upd[u].zip
    BY <1>t, <1>l, <1>r, <1>w, <2>1, GotoIs
  <2>3. /\ disk' \in Disks /\ img' \in Images
        /\ disk'["exe"]["cur"] = disk["exe"]["old"]
        /\ disk'["exe"]["old"] = "none"
        /\ \A g \in Files, t \in Slots :
              g # "exe" \/ t \notin {"old", "cur"} => disk'[g][t] = disk[g][t]
        /\ \A p \in Processes :
              img'[p] = IF img[p] = "old" THEN "cur" ELSE img[p]
    BY <1>t, <1>r, <1>w, <2>1, RenameIs
  <2>4. (img'["ui"] = "none") <=> (img["ui"] = "none")
    BY <1>p, <2>3
  <2>5. img[u] # "cur"
    BY <1>p, <2>1 DEF InUse
  <2>6. TypeOK'
    BY <1>t, <2>1, <2>2, <2>3, <2>5, <2>4, TypeParts
  <2>7. StageInv(u)'
    BY <1>t, <1>r, <2>1, <2>2, <2>3, <2>5
       DEF StageInv, BeforeInv, BadInv, ExeInv, DllInv, AfterInv, At, Early, Untouched,
             OldInPlace, HasDll, Bad, Ended, Working, Files, Slots
  <2>8. disk'["exe"]["cur"] \in Whole \/ disk'["exe"]["old"] \in Whole
    BY <1>t, <1>r, <1>w, <2>1, <2>2, <2>3, <2>5
       DEF StageInv, BeforeInv, BadInv, ExeInv, DllInv, AfterInv, At, Early, Untouched,
             OldInPlace, HasDll, Bad, Ended, Working, Files, Slots
  <2> QED BY <2>6, <2>7, <2>8, OneUpdater
<1>5. CASE RestoreFails(u)
  <2>1. /\ Goto(u, "broken", "exe") /\ UNCHANGED <<disk, img>>
        /\ upd[u].pc = "restore" /\ faults' \in 0..MaxFaults
    BY <1>5, <1>t DEF RestoreFails, Fault
  <2>2. /\ upd' \in [Updaters -> Records] /\ upd'[u].pc = "broken"
        /\ upd'[u].file = "exe" /\ upd'[u].zip = upd[u].zip
    BY <1>t, <1>l, <1>r, <1>w, <2>1, GotoIs
  <2>3. TypeOK'
    BY <1>t, <2>1, <2>2, TypeParts
  <2>4. StageInv(u)'
    BY <1>t, <1>r, <2>1, <2>2
       DEF StageInv, BeforeInv, BadInv, ExeInv, DllInv, AfterInv, At, Early, Untouched,
             OldInPlace, HasDll, Bad, Ended, Working, Files, Slots
  <2>5. disk'["exe"]["cur"] \in Whole \/ disk'["exe"]["old"] \in Whole
    BY <1>t, <1>r, <1>w, <2>1, <2>2
       DEF StageInv, BeforeInv, BadInv, ExeInv, DllInv, AfterInv, At, Early, Untouched,
             OldInPlace, HasDll, Bad, Ended, Working, Files, Slots
  <2> QED BY <2>3, <2>4, <2>5, OneUpdater
<1>6. CASE StartFails(u)
  <2>1. UNCHANGED <<disk, img>> /\ faults' \in 0..MaxFaults
    BY <1>6, <1>t DEF StartFails, Fault
  <2>2. CASE upd[u].pc = "start"
    <3>1. Goto(u, "restore", "exe")
      BY <1>6, <2>2 DEF StartFails, AfterStartFails
    <3>2. /\ upd' \in [Updaters -> Records] /\ upd'[u].pc = "restore"
          /\ upd'[u].file = "exe" /\ upd'[u].zip = upd[u].zip
      BY <1>t, <1>l, <1>r, <1>w, <3>1, GotoIs
    <3>3. TypeOK'
      BY <1>t, <2>1, <2>2, <3>2, TypeParts
    <3>4. StageInv(u)'
      BY <1>t, <1>r, <2>1, <2>2, <3>2
         DEF StageInv, BeforeInv, BadInv, ExeInv, DllInv, AfterInv, At, Early, Untouched,
             OldInPlace, HasDll, Bad, Ended, Working, Files, Slots
    <3>5. disk'["exe"]["cur"] \in Whole \/ disk'["exe"]["old"] \in Whole
      BY <1>t, <1>r, <1>w, <2>1, <2>2, <3>2
         DEF StageInv, BeforeInv, BadInv, ExeInv, DllInv, AfterInv, At, Early, Untouched,
             OldInPlace, HasDll, Bad, Ended, Working, Files, Slots
    <3> QED BY <3>3, <3>4, <3>5, OneUpdater
  <2>3. CASE upd[u].pc = "restart"
    <3>1. Goto(u, "broken", "exe")
      BY <1>6, <2>3 DEF StartFails, AfterStartFails
    <3>2. /\ upd' \in [Updaters -> Records] /\ upd'[u].pc = "broken"
          /\ upd'[u].file = "exe" /\ upd'[u].zip = upd[u].zip
      BY <1>t, <1>l, <1>r, <1>w, <3>1, GotoIs
    <3>3. TypeOK'
      BY <1>t, <2>1, <2>3, <3>2, TypeParts
    <3>4. StageInv(u)'
      BY <1>t, <1>r, <2>1, <2>3, <3>2
         DEF StageInv, BeforeInv, BadInv, ExeInv, DllInv, AfterInv, At, Early, Untouched,
             OldInPlace, HasDll, Bad, Ended, Working, Files, Slots
    <3>5. disk'["exe"]["cur"] \in Whole \/ disk'["exe"]["old"] \in Whole
      BY <1>t, <1>r, <1>w, <2>1, <2>3, <3>2
         DEF StageInv, BeforeInv, BadInv, ExeInv, DllInv, AfterInv, At, Early, Untouched,
             OldInPlace, HasDll, Bad, Ended, Working, Files, Slots
    <3> QED BY <3>3, <3>4, <3>5, OneUpdater
  <2> QED BY <1>6, <2>2, <2>3 DEF StartFails
<1>7. CASE Leaves(u)
  <2>1. /\ UNCHANGED <<disk, upd, faults>> /\ upd[u].pc \in Ended \ {"off"}
        /\ img' = [img EXCEPT ![u] = "none"]
    BY <1>7 DEF Leaves
  <2>2. img' \in Images /\ img'["ui"] = img["ui"]
    BY <1>t, <1>p, <2>1 DEF Images
  <2>3. TypeOK'
    BY <1>t, <2>1, <2>2, TypeParts
  <2>4. StageInv(u)'
    BY <1>t, <1>r, <2>1, <2>2
       DEF StageInv, BeforeInv, BadInv, ExeInv, DllInv, AfterInv, At, Early, Untouched,
             OldInPlace, HasDll, Bad, Ended, Working, Files, Slots
  <2>5. disk'["exe"]["cur"] \in Whole \/ disk'["exe"]["old"] \in Whole
    BY <1>t, <1>r, <1>w, <2>1, <2>2
       DEF StageInv, BeforeInv, BadInv, ExeInv, DllInv, AfterInv, At, Early, Untouched,
             OldInPlace, HasDll, Bad, Ended, Working, Files, Slots
  <2> QED BY <2>3, <2>4, <2>5, OneUpdater
<1> QED BY <1>1, <1>2, <1>3, <1>4, <1>5, <1>6, <1>7

(* What starting the program does to the disk: an .old may go, and the     *)
(* program that starts is complete.                                        *)
LEMMA StartedIs ==
    ASSUME TypeOK, Started
    PROVE  /\ disk["exe"]["cur"] \in Whole
           /\ disk' \in Disks /\ img' \in Images
           /\ \A g \in Files, t \in Slots : t # "old" => disk'[g][t] = disk[g][t]
           /\ \A g \in Files : \/ disk'[g]["old"] = disk[g]["old"]
                               \/ disk'[g]["old"] = "none" /\ ~InUse(g, "old")
           /\ \A u \in Updaters : img'[u] = img[u]
           /\ ui' \in Whole /\ img'["ui"] # "none"
<1> USE SelfUpdateAssumption
<1>1. disk \in Disks /\ img \in Images
  BY DEF TypeOK, Disks, Contents, Images
<1>2. PICK F \in SUBSET Files :
         /\ \A f \in F : ~InUse(f, "old")
         /\ disk' = [f \in Files |-> IF f \in F THEN [disk[f] EXCEPT !["old"] = "none"]
                                     ELSE disk[f]]
  BY DEF Started
<1>3. "old" \in Slots /\ "none" \in Contents
  BY DEF Slots, Contents
<1>4. ASSUME NEW g \in Files
      PROVE  /\ disk'[g] \in [Slots -> Contents]
             /\ \A t \in Slots : t # "old" => disk'[g][t] = disk[g][t]
             /\ \/ disk'[g]["old"] = disk[g]["old"]
                \/ disk'[g]["old"] = "none" /\ ~InUse(g, "old")
  <2>1. disk[g] \in [Slots -> Contents]
    BY <1>1 DEF Disks
  <2>2. CASE g \in F
    <3>1. disk'[g] = [disk[g] EXCEPT !["old"] = "none"]
      BY <1>2, <2>2
    <3> QED BY <1>2, <1>3, <2>1, <2>2, <3>1
  <2>3. CASE g \notin F
    <3>1. disk'[g] = disk[g]
      BY <1>2, <2>3
    <3> QED BY <2>1, <3>1
  <2> QED BY <2>2, <2>3
<1>5. disk' \in Disks
  BY <1>2, <1>4 DEF Disks
<1>6. /\ img' \in Images /\ img'["ui"] = "cur"
      /\ \A u \in Updaters : img'[u] = img[u]
  BY <1>1 DEF Started, Images, Processes
<1> QED BY <1>4, <1>5, <1>6 DEF Started

(* An updater that starts the program has ended well.                      *)
LEMMA StartStep ==
    ASSUME UInv, NEW u \in Updaters, UNCHANGED <<leaving, web, crashes>>, Starts(u)
    PROVE  UInv'
<1> USE SelfUpdateAssumption
<1>t. /\ TypeOK /\ StageInv(u)
      /\ disk \in Disks /\ img \in Images /\ upd \in [Updaters -> Records]
      /\ faults \in 0..MaxFaults
      /\ disk["exe"]["cur"] \in Whole \/ disk["exe"]["old"] \in Whole
  BY DEF UInv, Recoverable, TypeOK, Disks, Contents, Images, Records
<1>r. /\ upd[u].pc \in Ended \cup Working /\ upd[u].file \in Files
      /\ upd[u].zip \in Zips \cup {"none"}
  BY <1>t DEF Records
<1>p. "ui" \in Processes /\ u \in Processes
  BY DEF Processes
<1>w. /\ {"v1", "v2", "older"} = Whole
      /\ {"v1", "v2", "older", "none", "torn"} = Contents
      /\ {"exe", "dll"} = Files /\ {"cur", "new", "old"} = Slots
  BY DEF Whole, Contents, Files, Slots
<1>l. {"off", "done", "failed", "broken", "killed"} = Ended
      /\ {"wait", "extract", "verify", "remove", "away", "place", "copy", "undo",
          "undone", "back", "restore", "start", "restart"} = Working
  BY DEF Ended, Working
<1>1. /\ upd' \in [Updaters -> Records]
      /\ upd'[u].pc = IF upd[u].pc = "start" THEN "done" ELSE "failed"
      /\ upd'[u].file = "exe" /\ upd'[u].zip = upd[u].zip
      /\ faults' = faults /\ upd[u].pc \in {"start", "restart"}
  <2>1. Goto(u, IF upd[u].pc = "start" THEN "done" ELSE "failed", "exe")
    BY DEF Starts
  <2>2. (IF upd[u].pc = "start" THEN "done" ELSE "failed") \in Ended \cup Working
    BY <1>l
  <2> QED BY <1>t, <1>w, <2>1, <2>2, GotoIs DEF Starts
<1>2. CASE Started
  <2>1. /\ disk["exe"]["cur"] \in Whole
        /\ disk' \in Disks /\ img' \in Images
        /\ \A g \in Files, t \in Slots : t # "old" => disk'[g][t] = disk[g][t]
        /\ disk'["exe"]["old"] \in {disk["exe"]["old"], "none"}
        /\ img'[u] = img[u] /\ ui' \in Whole /\ img'["ui"] # "none"
    BY <1>2, <1>t, <1>w, StartedIs
  <2>2. TypeOK'
    BY <1>t, <1>1, <2>1
       DEF TypeOK, Disks, Contents, Images, Records, Whole, web
  <2>3. StageInv(u)'
    BY <1>t, <1>r, <1>1, <2>1
       DEF StageInv, BeforeInv, BadInv, ExeInv, DllInv, AfterInv, At, Early, Untouched,
             OldInPlace, HasDll, Bad, Ended, Working, Files, Slots
  <2> QED BY <1>w, <2>1, <2>2, <2>3, OneUpdater
<1>3. CASE UNCHANGED <<disk, img, ui>>
  <2>1. TypeOK'
    BY <1>3, <1>t, <1>1, TypeParts
  <2>2. StageInv(u)'
    BY <1>3, <1>t, <1>r, <1>1
       DEF StageInv, BeforeInv, BadInv, ExeInv, DllInv, AfterInv, At, Early, Untouched,
             OldInPlace, HasDll, Bad, Ended, Working, Files, Slots
  <2> QED BY <1>3, <1>t, <2>1, <2>2, OneUpdater
<1> QED BY <1>2, <1>3 DEF Starts

(* The UI's own steps keep the invariant. *)
LEMMA UIStep ==
    ASSUME UInv, Download \/ UIExits \/ Launch
    PROVE  UInv'
<1> USE SelfUpdateAssumption
<1>t. /\ TypeOK /\ disk \in Disks /\ img \in Images /\ upd \in [Updaters -> Records]
      /\ disk["exe"]["cur"] \in Whole \/ disk["exe"]["old"] \in Whole
  BY DEF UInv, Recoverable, TypeOK, Disks, Contents, Images, Records
<1>w. {"exe", "dll"} = Files /\ {"cur", "new", "old"} = Slots
  BY DEF Files, Slots
<1>f. ASSUME TypeOK', \A u \in Updaters : StageInv(u)',
             disk'["exe"]["cur"] \in Whole \/ disk'["exe"]["old"] \in Whole
      PROVE  UInv'
  BY <1>f DEF UInv, Recoverable
<1>1. CASE Download
  <2>1. TypeOK'
    <3>1. /\ zip' \in Zips \cup {"none"} /\ done' \in BOOLEAN
          /\ dl' \in {"none", "begin", "run", "stored", "end"}
      BY <1>1, <1>t DEF Download, HandleUpgradeDownload, DownloadRuns, DownloadFails,
                        DownloadStored, DownloadDone, DownloadEnds, TypeOK
    <3>2. busy' = (dl' # "none")
      BY <1>1, <1>t DEF Download, HandleUpgradeDownload, DownloadRuns, DownloadFails,
                        DownloadStored, DownloadDone, DownloadEnds, TypeOK
    <3> QED BY <1>1, <1>t, <3>1, <3>2 DEF Download, TypeOK
  <2>2. UNCHANGED <<disk, img, upd>>
    BY <1>1 DEF Download
  <2>3. \A u \in Updaters : StageInv(u)'
    BY <2>2
       DEF UInv, StageInv, BeforeInv, BadInv, ExeInv, DllInv, AfterInv, At, Early, Untouched,
             OldInPlace, HasDll, Bad, Ended, Working, Files, Slots
  <2> QED BY <1>t, <1>f, <2>1, <2>2, <2>3
<1>2. CASE UIExits
  <2>1. /\ UNCHANGED <<disk, upd, faults, crashes>>
        /\ leaving' = FALSE /\ ui' = "none" /\ img' = [img EXCEPT !["ui"] = "none"]
        /\ dl' = "none" /\ busy' = FALSE /\ done' = FALSE /\ zip' = "none"
    BY <1>2 DEF UIExits
  <2>2. /\ img' \in Images /\ img'["ui"] = "none"
        /\ \A u \in Updaters : img'[u] = img[u]
    BY <1>t, <2>1 DEF Images, Processes
  <2>3. TypeOK'
    BY <1>t, <2>1, <2>2 DEF TypeOK, Images
  <2>4. \A u \in Updaters : StageInv(u)'
    BY <2>1, <2>2
       DEF UInv, StageInv, BeforeInv, BadInv, ExeInv, DllInv, AfterInv, At, Early, Untouched,
             OldInPlace, HasDll, Bad, Ended, Working, Files, Slots
  <2> QED BY <1>t, <1>f, <2>1, <2>3, <2>4
<1>3. CASE Launch
  <2>0. Started /\ UNCHANGED <<leaving, web, upd, faults, crashes>>
    BY <1>3 DEF Launch
  <2>1. /\ disk["exe"]["cur"] \in Whole
        /\ disk' \in Disks /\ img' \in Images
        /\ \A g \in Files, t \in Slots : t # "old" => disk'[g][t] = disk[g][t]
        /\ \/ disk'["exe"]["old"] = disk["exe"]["old"]
           \/ disk'["exe"]["old"] = "none" /\ ~InUse("exe", "old")
        /\ \A u \in Updaters : img'[u] = img[u]
        /\ ui' \in Whole /\ img'["ui"] # "none"
    BY <1>t, <1>w, <2>0, StartedIs
  <2>2. TypeOK'
    BY <1>t, <2>0, <2>1
       DEF TypeOK, Disks, Contents, Images, Records, Whole, web
  <2>3. ASSUME NEW u \in Updaters PROVE StageInv(u)'
    <3>1. StageInv(u) /\ upd'[u] = upd[u]
      BY <2>0 DEF UInv
    <3>2. img[u] = "old" => InUse("exe", "old")
      BY DEF InUse, Processes
    <3>3. /\ upd[u].pc \in Ended \cup Working /\ upd[u].file \in Files
      BY <1>t DEF Records
    <3> QED BY <2>1, <3>1, <3>2, <3>3
            DEF StageInv, BeforeInv, BadInv, ExeInv, DllInv, AfterInv, At, Early, Untouched,
             OldInPlace, HasDll, Bad, Ended, Working, Files, Slots
  <2> QED BY <1>w, <1>f, <2>1, <2>2, <2>3
<1> QED BY <1>1, <1>2, <1>3

(* The updater is started on the files as they are.                        *)
LEMMA ApplyStep ==
    ASSUME UInv, NEW u \in Updaters, HandleUpgradeApply(u)
    PROVE  UInv'
<1> USE SelfUpdateAssumption
<1>t. /\ TypeOK /\ StageInv(u)
      /\ disk \in Disks /\ img \in Images /\ upd \in [Updaters -> Records]
      /\ faults \in 0..MaxFaults
      /\ disk["exe"]["cur"] \in Whole \/ disk["exe"]["old"] \in Whole
  BY DEF UInv, Recoverable, TypeOK, Disks, Contents, Images, Records
<1>r. /\ upd[u].pc \in Ended \cup Working /\ upd[u].file \in Files
      /\ upd[u].zip \in Zips \cup {"none"}
  BY <1>t DEF Records
<1>p. "ui" \in Processes /\ u \in Processes
  BY DEF Processes
<1>w. /\ {"v1", "v2", "older"} = Whole
      /\ {"v1", "v2", "older", "none", "torn"} = Contents
      /\ {"exe", "dll"} = Files /\ {"cur", "new", "old"} = Slots
  BY DEF Whole, Contents, Files, Slots
<1>l. {"off", "done", "failed", "broken", "killed"} = Ended
      /\ {"wait", "extract", "verify", "remove", "away", "place", "copy", "undo",
          "undone", "back", "restore", "start", "restart"} = Working
  BY DEF Ended, Working
<1>1. /\ upd[u].pc = "off" /\ zip # "none"
      /\ upd' = [upd EXCEPT ![u] = [pc |-> "wait", file |-> "exe", zip |-> zip]]
      /\ img' = [img EXCEPT ![u] = "cur"]
      /\ leaving' = TRUE /\ UNCHANGED <<disk, ui, web, faults, crashes>>
  BY DEF HandleUpgradeApply
<1>2. [pc |-> "wait", file |-> "exe", zip |-> zip] \in Records
  BY <1>t, <1>l, <1>w DEF TypeOK, Records
<1>3. /\ upd' \in [Updaters -> Records]
      /\ upd'[u].pc = "wait" /\ upd'[u].file = "exe" /\ upd'[u].zip = zip
  BY <1>t, <1>1, <1>2
<1>4. img' \in Images /\ img'[u] = "cur" /\ img'["ui"] = img["ui"]
  BY <1>t, <1>p, <1>1 DEF Images
<1>5. TypeOK'
  BY <1>t, <1>1, <1>3, <1>4 DEF TypeOK, Images, Records, web
<1>6. StageInv(u)'
  BY <1>t, <1>r, <1>1, <1>3, <1>4
     DEF StageInv, BeforeInv, BadInv, ExeInv, DllInv, AfterInv, At, Early, Untouched,
             OldInPlace, HasDll, Bad, Ended, Working, Files, Slots
<1> QED BY <1>t, <1>1, <1>5, <1>6, OneUpdater

(* Wherever the updater is killed, what is on the disk stays.              *)
LEMMA KillStep ==
    ASSUME UInv, NEW u \in Updaters, Killed(u)
    PROVE  UInv'
<1> USE SelfUpdateAssumption
<1>t. /\ TypeOK /\ StageInv(u)
      /\ disk \in Disks /\ img \in Images /\ upd \in [Updaters -> Records]
      /\ faults \in 0..MaxFaults
      /\ disk["exe"]["cur"] \in Whole \/ disk["exe"]["old"] \in Whole
  BY DEF UInv, Recoverable, TypeOK, Disks, Contents, Images, Records
<1>r. /\ upd[u].pc \in Ended \cup Working /\ upd[u].file \in Files
      /\ upd[u].zip \in Zips \cup {"none"}
  BY <1>t DEF Records
<1>p. "ui" \in Processes /\ u \in Processes
  BY DEF Processes
<1>w. /\ {"v1", "v2", "older"} = Whole
      /\ {"v1", "v2", "older", "none", "torn"} = Contents
      /\ {"exe", "dll"} = Files /\ {"cur", "new", "old"} = Slots
  BY DEF Whole, Contents, Files, Slots
<1>l. {"off", "done", "failed", "broken", "killed"} = Ended
      /\ {"wait", "extract", "verify", "remove", "away", "place", "copy", "undo",
          "undone", "back", "restore", "start", "restart"} = Working
  BY DEF Ended, Working
<1>1. /\ Goto(u, "killed", upd[u].file) /\ upd[u].pc \notin Ended
      /\ crashes < MaxCrashes /\ crashes' = crashes + 1
      /\ UNCHANGED <<disk, img, ui, leaving, web, faults>>
  BY DEF Killed, Active
<1>2. /\ upd' \in [Updaters -> Records] /\ upd'[u].pc = "killed"
      /\ upd'[u].file = upd[u].file /\ upd'[u].zip = upd[u].zip
  BY <1>t, <1>l, <1>r, <1>w, <1>1, GotoIs
<1>3. TypeOK'
  BY <1>t, <1>1, <1>2 DEF TypeOK, Records, web
<1>4. StageInv(u)'
  BY <1>t, <1>r, <1>1, <1>2
     DEF StageInv, BeforeInv, BadInv, ExeInv, DllInv, AfterInv, At, Early, Untouched,
             OldInPlace, HasDll, Bad, Ended, Working, Files, Slots
<1> QED BY <1>t, <1>1, <1>3, <1>4, OneUpdater

(* Every step keeps the invariant. *)
LEMMA UInvStep == UInv /\ [Next]_vars => UInv'
<1> SUFFICES ASSUME UInv, [Next]_vars PROVE UInv'
  OBVIOUS
<1>1. CASE Download \/ UIExits \/ Launch
  BY <1>1, UIStep
<1>2. ASSUME NEW u \in Updaters, HandleUpgradeApply(u) PROVE UInv'
  BY <1>2, ApplyStep
<1>3. ASSUME NEW u \in Updaters, Updater(u) PROVE UInv'
  <2>1. CASE Starts(u)
    BY <1>3, <2>1, StartStep DEF Updater
  <2>2. CASE ~Starts(u)
    <3>1. UNCHANGED <<ui, leaving, web, crashes>>
      BY <1>3, <2>2 DEF Updater
    <3> QED BY <1>3, <2>2, <3>1, ExtractStep, PlaceStep, FailStep, BackStep
            DEF Updater, Replaces
  <2> QED BY <2>1, <2>2
<1>4. ASSUME NEW u \in Updaters, Killed(u) PROVE UInv'
  BY <1>4, KillStep
<1>5. CASE UNCHANGED vars
  BY <1>5
     DEF UInv, Recoverable, TypeOK, vars, web,
         StageInv, BeforeInv, BadInv, ExeInv, DllInv, AfterInv, At, Early, Untouched,
             OldInPlace, HasDll, Bad, Ended, Working, Files, Slots
<1> QED BY <1>1, <1>2, <1>3, <1>4, <1>5 DEF Next

(* Initially the updater is off and the files are those of the version     *)
(* that runs, but for an .old.                                             *)
LEMMA UInvInit == Init => UInv
<1> SUFFICES ASSUME Init PROVE UInv
  OBVIOUS
<1> USE SelfUpdateAssumption
<1>1. PICK old \in Olds :
         disk = [f \in Files |-> [s \in Slots |->
                   CASE s = "cur" -> "v1" [] s = "old" -> old [] OTHER -> "none"]]
  BY DEF Init
<1>2. /\ disk \in [Files -> [Slots -> Whole \cup {"none", "torn"}]]
      /\ disk["exe"]["cur"] = "v1" /\ disk["dll"]["cur"] = "v1"
      /\ disk["exe"]["old"] \in {"none", "older"}
  BY <1>1 DEF Files, Slots, Whole
<1>3. img \in [Processes -> {"none", "cur", "old"}] /\ img["ui"] = "cur"
  BY DEF Init, Processes
<1>4. /\ upd \in [Updaters -> [pc : Ended \cup Working, file : Files,
                               zip : Zips \cup {"none"}]]
      /\ \A u \in Updaters : upd[u].pc = "off" /\ upd[u].zip = "none"
  BY DEF Init, Ended, Working, Files
<1>5. TypeOK
  <2>1. /\ ui \in Whole \cup {"none"} /\ (ui = "none" <=> img["ui"] = "none")
        /\ zip \in Zips \cup {"none"}
        /\ dl \in {"none", "begin", "run", "stored", "end"}
        /\ faults \in 0..MaxFaults /\ crashes \in 0..MaxCrashes
    BY <1>3 DEF Init, Whole
  <2>2. busy = (dl # "none") /\ {leaving, done} \subseteq BOOLEAN
    BY DEF Init
  <2> QED BY <1>2, <1>3, <1>4, <2>1, <2>2 DEF TypeOK
<1>6. \A u \in Updaters : StageInv(u)
  BY <1>2, <1>4
     DEF StageInv, BeforeInv, BadInv, ExeInv, DllInv, AfterInv, At, Early, Untouched,
             OldInPlace, HasDll, Bad, Ended, Working, Files, Slots
<1> QED BY <1>2, <1>5, <1>6 DEF UInv, Recoverable, Whole

-----------------------------------------------------------------------------
(* The theorems *)

(* Whatever operations fail, however often, and wherever the updater of    *)
(* ui2/upgrade_windows.go is killed, a complete executable is on the disk  *)
(* under its own name or as .old.                                          *)
THEOREM AlwaysRecoverable == Spec => []Recoverable
<1>1. UInv => Recoverable
  BY DEF UInv
<1> QED BY <1>1, UInvInit, UInvStep, PTL DEF Spec

(* An update that ends by itself, successful or rolled back, leaves no new *)
(* executable with the old wintun.dll: applyZip's order of replacing and   *)
(* going back is right for every combination of failures.                  *)
THEOREM NeverMixed == Spec => []NoMix
<1>1. UInv => NoMix
  BY DEF UInv, StageInv, AfterInv, NoMix
<1> QED BY <1>1, UInvInit, UInvStep, PTL DEF Spec

(* A release with a file that does not match its checksum never changes    *)
(* the executable or wintun.dll, for the whole run of the updater and      *)
(* after it (verification in extractTo, restoreAndRestart).                *)
THEOREM BadReleaseChangesNothing == Spec => []OnlyVerified
<1>1. UInv => OnlyVerified
  BY DEF UInv, StageInv, BadInv, Bad, Untouched, OnlyVerified, Files
<1> QED BY <1>1, UInvInit, UInvStep, PTL DEF Spec
=============================================================================
