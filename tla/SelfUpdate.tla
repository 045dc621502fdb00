----------------------------- MODULE SelfUpdate -----------------------------
(***************************************************************************)
(* The self update on Windows (ui2/upgrade.go, ui2/upgrade_windows.go,     *)
(* ui2/footer.go): the UI downloads a release, starts an updater and       *)
(* exits; the updater replaces the executable and wintun.dll and starts    *)
(* the program again, or goes back to the files it kept. Only one updater: *)
(* two requests to apply within 400 ms start two, which is not modelled.   *)
(*                                                                         *)
(* A file has three names: its own ("cur"), .new and .old. What it holds   *)
(* is a version, or "torn" when it is empty or incomplete. An executable   *)
(* that runs can be renamed but neither overwritten nor removed.           *)
(***************************************************************************)
EXTENDS Integers

CONSTANTS
    Updaters,   \* the updater process
    Zips,       \* the releases: "full", "exe" (without wintun.dll),
                \* "badexe", "baddll" (a file does not match its hash)
    Olds,       \* what an earlier update may have left in .old
    MaxFaults,  \* bound: file operations that fail
    MaxCrashes  \* bound: updaters that are killed

ASSUME SelfUpdateAssumption ==
    /\ Zips \subseteq {"full", "exe", "badexe", "baddll"} /\ Zips # {}
    /\ Olds \subseteq {"none", "older"} /\ Olds # {}
    /\ {MaxFaults, MaxCrashes} \subseteq Nat
    /\ "ui" \notin Updaters
    /\ \A u, v \in Updaters : u = v

VARIABLES
    disk,     \* by file and name
    img,      \* by process, the name its executable has, "none" if it does not run
    ui,       \* the version that runs, "none" if none does
    leaving,  \* HandleUpgradeApply's goroutine will exit it
    dl,       \* where runDownload is
    busy,     \* upgradeDlBusy
    done,     \* m_upgrade.Done
    zip,      \* upgradeZipPath
    upd,      \* per updater: pc, the file it is at, the zip
    faults, crashes   \* counters for the bounds

web == <<dl, busy, done, zip>>
vars == <<disk, img, ui, leaving, web, upd, faults, crashes>>

Files == {"exe", "dll"}
Slots == {"cur", "new", "old"}
Whole == {"older", "v1", "v2"}
Processes == {"ui"} \cup Updaters

Fault == faults < MaxFaults /\ faults' = faults + 1

InUse(f, s) == f = "exe" /\ \E p \in Processes : img[p] = s

(* os.Rename; the name b is taken over from what was there.                *)
Renames(f, a, b) ==
    /\ disk' = [disk EXCEPT ![f][b] = disk[f][a], ![f][a] = "none"]
    /\ img' = IF f = "exe" THEN [p \in Processes |-> IF img[p] = a THEN b ELSE img[p]]
              ELSE img

-----------------------------------------------------------------------------
(* The UI: downloading. GetUpgradeInfo has found the release. A second     *)
(* download does not touch the first one's file: each has its directory.   *)

HandleUpgradeDownload ==
    /\ ui # "none" /\ ~busy
    /\ busy' = TRUE /\ dl' = "begin"
    /\ UNCHANGED <<done, zip>>

DownloadRuns ==
    /\ dl = "begin"
    /\ dl' = "run" /\ done' = FALSE
    /\ UNCHANGED <<busy, zip>>

DownloadFails ==
    /\ dl = "run"
    /\ dl' = "end" /\ done' = FALSE
    /\ UNCHANGED <<busy, zip>>

DownloadStored ==
    /\ dl = "run"
    /\ dl' = "stored"
    /\ zip' \in Zips
    /\ UNCHANGED <<busy, done>>

DownloadDone ==
    /\ dl = "stored"
    /\ dl' = "end" /\ done' = TRUE
    /\ UNCHANGED <<busy, zip>>

DownloadEnds ==
    /\ dl = "end"
    /\ dl' = "none" /\ busy' = FALSE
    /\ UNCHANGED <<done, zip>>

Download ==
    /\ \/ HandleUpgradeDownload \/ DownloadRuns \/ DownloadFails
       \/ DownloadStored \/ DownloadDone \/ DownloadEnds
    /\ UNCHANGED <<disk, img, ui, leaving, upd, faults, crashes>>

-----------------------------------------------------------------------------
(* The UI: applying. It exits 400 ms later. *)

HandleUpgradeApply(u) ==
    /\ ui # "none" /\ upd[u].pc = "off"
    /\ ~busy /\ done /\ zip # "none"
    /\ upd' = [upd EXCEPT ![u] = [pc |-> "wait", file |-> "exe", zip |-> zip]]
    /\ img' = [img EXCEPT ![u] = "cur"]
    /\ leaving' = TRUE
    /\ UNCHANGED <<disk, ui, web, faults, crashes>>

UIExits ==
    /\ leaving
    /\ leaving' = FALSE /\ ui' = "none" /\ img' = [img EXCEPT !["ui"] = "none"]
    /\ dl' = "none" /\ busy' = FALSE /\ done' = FALSE /\ zip' = "none"
    /\ UNCHANGED <<disk, upd, faults, crashes>>

Ended == {"off", "done", "failed", "broken", "killed"}

Active == {u \in Updaters : upd[u].pc \notin Ended}

(* The program in cur starts. cleanupUpgradeResidues removes an .old whose *)
(* time of modification is a week ago. Renaming keeps that time, so this   *)
(* says nothing of when the .old was made: any may go that nobody runs.    *)
Started ==
    /\ ui = "none" /\ disk["exe"]["cur"] \in Whole
    /\ ui' = disk["exe"]["cur"]
    /\ img' = [img EXCEPT !["ui"] = "cur"]
    /\ \E F \in SUBSET Files :
         /\ \A f \in F : ~InUse(f, "old")
         /\ disk' = [f \in Files |-> IF f \in F THEN [disk[f] EXCEPT !["old"] = "none"]
                                     ELSE disk[f]]

Launch == Started /\ UNCHANGED <<leaving, web, upd, faults, crashes>>

-----------------------------------------------------------------------------
(* The updater: RunSelfUpdate, applyZip *)

Goto(u, pc, f) == upd' = [upd EXCEPT ![u].pc = pc, ![u].file = f]

(* waitForPidExit: 45 s are long enough for an exit after 0.4 s.           *)
Waited(u) ==
    /\ upd[u].pc = "wait" /\ ~leaving
    /\ Goto(u, "extract", "exe")
    /\ UNCHANGED <<disk, img, faults>>

HasDll(u) == upd[u].zip \in {"full", "baddll"}

Matches(u) == upd[u].zip # (IF upd[u].file = "exe" THEN "badexe" ELSE "baddll")

(* extractTo a .new file, which is checked when it is complete.            *)
ExtractBegins(u) ==
    /\ upd[u].pc = "extract"
    /\ disk' = [disk EXCEPT ![upd[u].file]["new"] = "torn"]
    /\ Goto(u, "verify", upd[u].file)
    /\ UNCHANGED <<img, faults>>

(* Mutant: the executable is replaced before wintun.dll is extracted.      *)
AfterExtractAtOnce(u) == Goto(u, "remove", upd[u].file)

(* All files are extracted and checked before one is replaced.             *)
AfterExtract(u) ==
    IF upd[u].file = "exe" /\ HasDll(u) THEN Goto(u, "extract", "dll")
    ELSE Goto(u, "remove", "exe")

ExtractEnds(u) ==
    /\ upd[u].pc = "verify" /\ Matches(u)
    /\ disk' = [disk EXCEPT ![upd[u].file]["new"] = "v2"]
    /\ AfterExtract(u)
    /\ UNCHANGED <<img, faults>>

(* Mutant: .old is removed with them. *)
DiscardedAll(d) == [f \in Files |-> [d[f] EXCEPT !["new"] = "none", !["old"] = "none"]]

(* What the .new files are after a failure before or while the executable  *)
(* is replaced.                                                            *)
Discarded(d) == [f \in Files |-> [d[f] EXCEPT !["new"] = "none"]]

(* The zip or a file cannot be read or written, or the hash is wrong.      *)
ExtractFails(u) ==
    /\ upd[u].pc = "verify"
    /\ IF Matches(u) THEN Fault ELSE UNCHANGED faults
    /\ disk' = Discarded(disk)
    /\ Goto(u, "restore", "exe")
    /\ UNCHANGED img

-----------------------------------------------------------------------------
(* The updater: replaceFile *)

RemovesOld(u) ==
    /\ upd[u].pc = "remove"
    /\ disk' = IF InUse(upd[u].file, "old") THEN disk
               ELSE [disk EXCEPT ![upd[u].file]["old"] = "none"]
    /\ Goto(u, "away", upd[u].file)
    /\ UNCHANGED <<img, faults>>

MovedAway(f) == IF disk[f]["cur"] = "none" THEN UNCHANGED <<disk, img>>
                ELSE Renames(f, "cur", "old")

MovesAway(u) ==
    /\ upd[u].pc = "away" /\ ~InUse(upd[u].file, "old")
    /\ MovedAway(upd[u].file)
    /\ Goto(u, "place", upd[u].file)
    /\ UNCHANGED faults

(* Mutant: a wintun.dll that cannot be replaced is ignored.                *)
FailsIgnored(u, d) ==
    /\ disk' = IF upd[u].file = "exe" THEN Discarded(d) ELSE d
    /\ Goto(u, IF upd[u].file = "exe" THEN "restore" ELSE "start", "exe")

(* replaceFile fails: applyZip removes the .new files, or goes back with   *)
(* the executable.                                                         *)
Fails(u, d) ==
    /\ disk' = IF upd[u].file = "exe" THEN Discarded(d) ELSE d
    /\ Goto(u, IF upd[u].file = "exe" THEN "restore" ELSE "back", "exe")

MoveAwayFails(u) ==
    /\ upd[u].pc = "away" /\ disk[upd[u].file]["cur"] # "none"
    /\ IF InUse(upd[u].file, "old") THEN UNCHANGED faults ELSE Fault
    /\ Fails(u, disk)
    /\ UNCHANGED img

AfterReplace(u) ==
    IF upd[u].file = "exe" /\ HasDll(u) THEN Goto(u, "remove", "dll")
    ELSE Goto(u, "start", "exe")

Places(u) ==
    /\ upd[u].pc = "place"
    /\ disk[upd[u].file]["new"] # "none" /\ ~InUse(upd[u].file, "cur")
    /\ Renames(upd[u].file, "new", "cur")
    /\ AfterReplace(u)
    /\ UNCHANGED faults

(* The rename fails: copyFileOverwrite truncates the file.                 *)
CopyBegins(u) ==
    /\ upd[u].pc = "place" /\ disk[upd[u].file]["new"] # "none"
    /\ ~InUse(upd[u].file, "cur") /\ Fault
    /\ disk' = [disk EXCEPT ![upd[u].file]["cur"] = "torn"]
    /\ Goto(u, "copy", upd[u].file)
    /\ UNCHANGED img

CopyEnds(u) ==
    /\ upd[u].pc = "copy"
    /\ disk' = [disk EXCEPT ![upd[u].file]["cur"] = disk[upd[u].file]["new"],
                            ![upd[u].file]["new"] = "none"]
    /\ AfterReplace(u)
    /\ UNCHANGED <<img, faults>>

CopyFails(u) ==
    /\ upd[u].pc = "copy" /\ Fault
    /\ Goto(u, "undo", upd[u].file)
    /\ UNCHANGED <<disk, img>>

(* os.Rename of .old to the file, with retries.                            *)
CanRenameBack(f) == disk[f]["old"] # "none" /\ ~InUse(f, "cur")

RenamesBack(f) == CanRenameBack(f) /\ Renames(f, "old", "cur")

(* The file that was moved away comes back. *)
Undoes(u) ==
    /\ upd[u].pc = "undo"
    /\ RenamesBack(upd[u].file)
    /\ Goto(u, "undone", upd[u].file)
    /\ UNCHANGED faults

UndoFails(u) ==
    /\ upd[u].pc = "undo"
    /\ IF CanRenameBack(upd[u].file) THEN Fault ELSE UNCHANGED faults
    /\ Goto(u, "undone", upd[u].file)
    /\ UNCHANGED <<disk, img>>

ReplaceFails(u) ==
    /\ upd[u].pc = "undone"
    /\ Fails(u, disk)
    /\ UNCHANGED <<img, faults>>

-----------------------------------------------------------------------------
(* The updater: going back, and the end *)

(* wintun.dll could not be replaced: the old executable comes back.        *)
GoesBack(u) ==
    /\ upd[u].pc = "back"
    /\ RenamesBack("exe")
    /\ Goto(u, "restore", "exe")
    /\ UNCHANGED faults

GoBackFails(u) ==
    /\ upd[u].pc = "back"
    /\ IF CanRenameBack("exe") THEN Fault ELSE UNCHANGED faults
    /\ Goto(u, "restore", "exe")
    /\ UNCHANGED <<disk, img>>

(* restoreAndRestart. Without an .old it returns. *)
RestoreReturns(u) ==
    /\ upd[u].pc = "restore" /\ disk["exe"]["old"] = "none"
    /\ Goto(u, "failed", "exe")
    /\ UNCHANGED <<disk, img, faults>>

Restores(u) ==
    /\ upd[u].pc = "restore"
    /\ RenamesBack("exe")
    /\ Goto(u, "restart", "exe")
    /\ UNCHANGED faults

(* It returns when renaming fails as well, always when the updater's own   *)
(* file has not been moved away.                                           *)
RestoreFails(u) ==
    /\ upd[u].pc = "restore" /\ disk["exe"]["old"] # "none"
    /\ IF CanRenameBack("exe") THEN Fault ELSE UNCHANGED faults
    /\ Goto(u, "broken", "exe")
    /\ UNCHANGED <<disk, img>>

(* cmd.Start; an instance that finds another only notifies it.             *)
Starts(u) ==
    /\ upd[u].pc \in {"start", "restart"}
    /\ \/ Started
       \/ ui # "none" /\ disk["exe"]["cur"] \in Whole /\ UNCHANGED <<disk, img, ui>>
    /\ Goto(u, IF upd[u].pc = "start" THEN "done" ELSE "failed", "exe")
    /\ UNCHANGED faults

AfterStartFails(u) ==
    Goto(u, IF upd[u].pc = "start" THEN "restore" ELSE "broken", "exe")

StartFails(u) ==
    /\ upd[u].pc \in {"start", "restart"}
    /\ IF disk["exe"]["cur"] \in Whole THEN Fault ELSE UNCHANGED faults
    /\ AfterStartFails(u)
    /\ UNCHANGED <<disk, img>>

(* os.Exit: the updater's file is no longer in use. *)
Leaves(u) ==
    /\ upd[u].pc \in Ended \ {"off"} /\ img[u] # "none"
    /\ img' = [img EXCEPT ![u] = "none"]
    /\ UNCHANGED <<disk, upd, faults>>

(* The updater is killed, or the machine goes down.                        *)
Killed(u) ==
    /\ u \in Active /\ crashes < MaxCrashes
    /\ crashes' = crashes + 1
    /\ Goto(u, "killed", upd[u].file)
    /\ UNCHANGED <<disk, img, ui, leaving, web, faults>>

-----------------------------------------------------------------------------
Init ==
    /\ \E old \in Olds :
         disk = [f \in Files |-> [s \in Slots |->
                   CASE s = "cur" -> "v1" [] s = "old" -> old [] OTHER -> "none"]]
    /\ img = [p \in Processes |-> IF p = "ui" THEN "cur" ELSE "none"]
    /\ ui = "v1" /\ leaving = FALSE
    /\ dl = "none" /\ busy = FALSE /\ done = FALSE /\ zip = "none"
    /\ upd = [u \in Updaters |-> [pc |-> "off", file |-> "exe", zip |-> "none"]]
    /\ faults = 0 /\ crashes = 0

Replaces(u) ==
    \/ RemovesOld(u) \/ MovesAway(u) \/ MoveAwayFails(u) \/ Places(u)
    \/ CopyBegins(u) \/ CopyEnds(u) \/ CopyFails(u)
    \/ Undoes(u) \/ UndoFails(u) \/ ReplaceFails(u)

Updater(u) ==
    /\ \/ /\ \/ Waited(u) \/ ExtractBegins(u) \/ ExtractEnds(u) \/ ExtractFails(u)
             \/ Replaces(u) \/ GoesBack(u) \/ GoBackFails(u)
             \/ RestoreReturns(u) \/ Restores(u) \/ RestoreFails(u)
             \/ StartFails(u) \/ Leaves(u)
          /\ UNCHANGED ui
       \/ Starts(u)
    /\ UNCHANGED <<leaving, web, crashes>>

Next ==
    \/ Download \/ UIExits \/ Launch
    \/ \E u \in Updaters : HandleUpgradeApply(u) \/ Updater(u) \/ Killed(u)

Spec == Init /\ [][Next]_vars

-----------------------------------------------------------------------------
(* Properties *)

Working == {"wait", "extract", "verify", "remove", "away", "place", "copy",
            "undo", "undone", "back", "restore", "start", "restart"}

TypeOK ==
    /\ disk \in [Files -> [Slots -> Whole \cup {"none", "torn"}]]
    /\ img \in [Processes -> {"none", "cur", "old"}]
    /\ ui \in Whole \cup {"none"} /\ (ui = "none" <=> img["ui"] = "none")
    /\ zip \in Zips \cup {"none"}
    /\ dl \in {"none", "begin", "run", "stored", "end"} /\ busy = (dl # "none")
    /\ {leaving, done} \subseteq BOOLEAN
    /\ upd \in [Updaters -> [pc : Ended \cup Working, file : Files,
                             zip : Zips \cup {"none"}]]
    /\ faults \in 0..MaxFaults /\ crashes \in 0..MaxCrashes

(* At every moment, whatever operations fail and wherever the updater is   *)
(* killed, a complete executable is there under its own name or as .old.   *)
Recoverable == TypeOK /\ \E s \in {"cur", "old"} : disk["exe"][s] \in Whole

(* An update that ends by itself, successful or rolled back, does not      *)
(* leave the new executable with the old wintun.dll.                       *)
NoMix ==
    \A u \in Updaters :
        upd[u].pc \in {"done", "failed"} /\ upd[u].zip = "full" =>
            ~(disk["exe"]["cur"] = "v2" /\ disk["dll"]["cur"] = "v1")

(* A package that does not match its checksums changes nothing: no file of *)
(* it is put in place, not even for a while.                               *)
OnlyVerified ==
    \A u \in Updaters : upd[u].zip \in {"badexe", "baddll"} =>
        \A f \in Files : disk[f]["cur"] = "v1"
=============================================================================
