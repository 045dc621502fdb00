------------------------------ MODULE Workers ------------------------------
(***************************************************************************)
(* The life of the UI process on Windows and of the workers it starts:     *)
(* the single-instance mutex (utils/single_instance_windows.go, main.go),  *)
(* the pid files and the clean-up of workers a dead UI left behind         *)
(* (utils/killcmd.go), quitting (ui2/tray.go) and the parts of             *)
(* ui2/start.go that start, stop, restart and delete a service, as far as  *)
(* they touch processes and pid files. Supervisor has their statuses.      *)
(*                                                                         *)
(* The variables below proc, pidfile and exists are the memory of the UI   *)
(* that holds the mutex; they are lost with it, the workers are not.       *)
(***************************************************************************)
EXTENDS Integers, FiniteSets

CONSTANTS
    Services,
    Pids,          \* process numbers; the system hands them out again
    UIs,           \* UI processes, each launched at most once
    Admins,        \* those with administrator rights, which their workers inherit
    None,          \* no process, no service
    MaxSpawns,     \* bound: workers that are started
    MaxForeign     \* bound: processes of other programs

ASSUME WorkersAssumption ==
    /\ None \notin Services \cup Pids \cup UIs /\ Admins \subseteq UIs
    /\ {MaxSpawns, MaxForeign} \subseteq Nat

VARIABLES
    phase,    \* where each UI is between launch and end
    proc,     \* the process table
    pidfile,  \* goodlink-worker-<id>.pid: its number, None without a file
    exists,   \* services in memory and in goodlink.json
    rec,      \* procs: cmd, gen, started, autoRestart
    busy,     \* the services whose status forbids deletion
    start,    \* the holder of startMu
    stops,    \* HandleStop goroutines before stopServiceProcess
    kills,    \* and between its unlock and KillProcess
    waiters,  \* waitForProcessAndHandleExit goroutines
    restarts, \* autoRestartProcess goroutines in their sleep
    del,      \* the HandleDeleteService under way
    clean,    \* the clean-up under way: its UI, the files it has not yet read,
              \* the one it is at, and whether that number was taken meanwhile
    lost,     \* history: workers that are on no file, or could not be ended
    spawns, foreigns  \* counters for the bounds

memory == <<rec, busy, start, stops, kills, waiters, restarts, del>>
vars == <<phase, proc, pidfile, exists, memory, clean, lost, spawns, foreigns>>

Free == [kind |-> "free", svc |-> None, ui |-> None]
Worker(s, u) == [kind |-> "worker", svc |-> s, ui |-> u]
NoRec == [cmd |-> None, gen |-> 0, started |-> FALSE, auto |-> FALSE]
NoStart == [svc |-> None, step |-> "none", pid |-> None]
NoDel == [svc |-> None, step |-> "none"]
NoClean == [ui |-> None, left |-> {}, svc |-> None, pid |-> None, step |-> "none",
            raced |-> FALSE]

Quitting == {"killed", "cleaned", "removed", "killed2", "cleaned2", "removed2"}
Serving == {"run"} \cup Quitting         \* the HTTP server answers
Owners == {u \in UIs : phase[u] \in Serving \cup {"locked"}}

Alive(p) == proc[p].kind = "worker"

(* TerminateProcess, where it is not refused. A worker whose UI still has  *)
(* it stays in the table until its waiter's Wait; anything else is gone at *)
(* once.                                                                   *)
Killed(p) ==
    IF Alive(p) /\ proc[p].ui \in Owners THEN [proc[p] EXCEPT !.kind = "zombie"]
    ELSE IF proc[p].kind = "zombie" THEN proc[p] ELSE Free

-----------------------------------------------------------------------------
(* Launch *)

(* runUI: an instance that finds the mutex only notifies its owner. The    *)
(* administrator's copy RelaunchAsAdmin starts is a launch of its own.     *)
Launch(u) ==
    /\ phase[u] = "off"
    /\ phase' = [phase EXCEPT ![u] = IF Owners = {} THEN "probed" ELSE "gone"]
    /\ UNCHANGED <<proc, pidfile, exists, memory, spawns, foreigns, lost, clean>>

(* The user may also refuse: Lock then comes without the rights.           *)
Elevates(u) ==
    /\ phase[u] = "probed" /\ u \notin Admins
    /\ phase' = [phase EXCEPT ![u] = "gone"]
    /\ UNCHANGED <<proc, pidfile, exists, memory, spawns, foreigns, lost, clean>>

(* CheckSingleInstance *)
Lock(u) ==
    /\ phase[u] = "probed"
    /\ phase' = [phase EXCEPT ![u] = IF Owners = {} THEN "locked" ELSE "gone"]
    /\ UNCHANGED <<proc, pidfile, exists, memory, spawns, foreigns, lost, clean>>

-----------------------------------------------------------------------------
(* CleanupOrphanedCmdProcesses, of a UI that starts or quits: the files    *)
(* there are, then for each the number in it, processAlive,                *)
(* processImageMatches and KillProcess, which open the process by its      *)
(* number one after the other.                                             *)

(* Mutant: the clean-up does not wait for CheckSingleInstance. *)
MayCleanEarly(u) == phase[u] \in {"probed", "killed", "killed2"}

MayClean(u) == phase[u] \in {"locked", "killed", "killed2"}

CleanLists(u) ==
    /\ MayClean(u) /\ clean = NoClean
    /\ clean' = [NoClean EXCEPT !.ui = u, !.step = "list",
                                !.left = {s \in Services : pidfile[s] # None}]
    /\ UNCHANGED <<phase, proc, pidfile, exists, memory, spawns, foreigns, lost>>

(* ReadFile; a file that went since is skipped. *)
CleanReads(s) ==
    /\ clean.step = "list" /\ s \in clean.left
    /\ clean' = IF pidfile[s] = None THEN [clean EXCEPT !.left = @ \ {s}]
                ELSE [clean EXCEPT !.left = @ \ {s}, !.svc = s, !.pid = pidfile[s],
                                   !.step = "alive"]
    /\ UNCHANGED <<phase, proc, pidfile, exists, memory, spawns, foreigns, lost>>

NextFile == [clean EXCEPT !.svc = None, !.pid = None, !.step = "list",
                          !.raced = FALSE]

(* The worker of a UI with administrator rights, for a UI without them: it *)
(* may not be ended, and perhaps not be opened. Other programs' processes  *)
(* may refuse as well.                                                     *)
Beyond(p) == proc[p].ui \in Admins /\ clean.ui \notin Admins
MayRefuse(p) == Beyond(p) \/ proc[p].kind = "foreign"

(* The worker the clean-up passes by. *)
Survivor == {p \in Pids : p = clean.pid /\ Alive(p)}

RemovesPid(s) == pidfile' = [pidfile EXCEPT ![s] = None]

(* processAlive: a process it cannot open counts as ended, and its file    *)
(* goes.                                                                   *)
CleanAlive ==
    /\ clean.step = "alive"
    /\ \/ /\ proc[clean.pid].kind \in {"worker", "foreign"}
          /\ clean' = [clean EXCEPT !.step = "image"]
          /\ UNCHANGED <<pidfile, lost>>
       \/ /\ proc[clean.pid].kind \in {"free", "zombie"} \/ MayRefuse(clean.pid)
          /\ clean' = NextFile
          /\ RemovesPid(clean.svc)
          /\ lost' = lost \cup Survivor
    /\ UNCHANGED <<phase, proc, exists, memory, spawns, foreigns>>

(* Mutant: any process that is there matches. *)
MatchesAny(p) == proc[p].kind # "free"

(* The image is the program's: that of a worker, also of one that has just *)
(* ended.                                                                  *)
Matches(p) == proc[p].kind \in {"worker", "zombie"}

(* processImageMatches: the file of another program's process stays, and   *)
(* that of one it cannot open.                                             *)
CleanImage ==
    /\ clean.step = "image"
    /\ \/ /\ Matches(clean.pid)
          /\ clean' = [clean EXCEPT !.step = "kill"]
          /\ UNCHANGED lost
       \/ /\ ~Alive(clean.pid) \/ MayRefuse(clean.pid)
          /\ clean' = NextFile
          /\ lost' = lost \cup Survivor
    /\ UNCHANGED <<phase, proc, pidfile, exists, memory, spawns, foreigns>>

(* KillProcess, of whatever process has the number now; a refusal is not   *)
(* reported, and the file goes either way.                                 *)
CleanKills ==
    /\ clean.step = "kill"
    /\ \/ /\ ~Beyond(clean.pid)
          /\ proc' = [proc EXCEPT ![clean.pid] = Killed(clean.pid)]
          /\ UNCHANGED lost
       \/ /\ MayRefuse(clean.pid)
          /\ lost' = lost \cup Survivor
          /\ UNCHANGED proc
    /\ clean' = NextFile
    /\ RemovesPid(clean.svc)
    /\ UNCHANGED <<phase, exists, memory, spawns, foreigns>>

(* A UI that starts goes on to serve, one that quits to remove the files.  *)
AfterClean(x) == IF x = "killed" THEN "cleaned"
                 ELSE IF x = "killed2" THEN "cleaned2" ELSE "run"

CleanEnds ==
    /\ clean.step = "list" /\ clean.left = {}
    /\ clean' = NoClean
    /\ phase' = [phase EXCEPT ![clean.ui] = AfterClean(@)]
    /\ UNCHANGED <<proc, pidfile, exists, memory, spawns, foreigns, lost>>

Cleans ==
    \/ \E u \in UIs : CleanLists(u)
    \/ \E s \in Services : CleanReads(s)
    \/ CleanAlive \/ CleanImage \/ CleanKills \/ CleanEnds

-----------------------------------------------------------------------------
(* Starting *)

SomeoneServes == \E u \in UIs : phase[u] \in Serving
Me == CHOOSE u \in UIs : phase[u] \in Serving

(* HandleStart up to the saved configuration. *)
StartChecks(s) ==
    /\ SomeoneServes /\ start = NoStart /\ s \in exists /\ ~rec[s].started
    /\ start' = [svc |-> s, step |-> "checked", pid |-> None]
    /\ UNCHANGED <<phase, proc, pidfile, exists, rec, busy, stops, kills, waiters,
                   restarts, del, spawns, foreigns, lost, clean>>

StartArms ==
    /\ start.step = "checked"
    /\ start' = [start EXCEPT !.step = "armed"]
    /\ rec' = [rec EXCEPT ![start.svc].auto = TRUE]
    /\ busy' = busy \cup {start.svc}
    /\ UNCHANGED <<phase, proc, pidfile, exists, stops, kills, waiters, restarts,
                   del, spawns, foreigns, lost, clean>>

(* cmd.Start *)
Spawns ==
    /\ start.step = "armed" /\ spawns < MaxSpawns
    /\ spawns' = spawns + 1
    /\ \E p \in Pids :
         /\ proc[p] = Free
         /\ proc' = [proc EXCEPT ![p] = Worker(start.svc, Me)]
         /\ start' = [start EXCEPT !.step = "spawned", !.pid = p]
         /\ lost' = lost \ {p}
    /\ UNCHANGED <<phase, pidfile, exists, rec, busy, stops, kills, waiters,
                   restarts, del, foreigns, clean>>

SpawnFails ==
    /\ start.step = "armed"
    /\ start' = NoStart
    /\ rec' = [rec EXCEPT ![start.svc].started = FALSE, ![start.svc].auto = FALSE]
    /\ busy' = busy \ {start.svc}
    /\ UNCHANGED <<phase, proc, pidfile, exists, stops, kills, waiters, restarts,
                   del, spawns, foreigns, lost, clean>>

(* Mutant: WriteWorkerPid does not overwrite a file that is there. *)
PidWrittenOnce(s, p) ==
    [pidfile EXCEPT ![s] = IF @ = None THEN p ELSE @]

PidWritten(s, p) == [pidfile EXCEPT ![s] = p]

(* The critical section of startCmdProcess, and the new waiter. That the   *)
(* file could not be written, in either place, is not reported.            *)
Registers ==
    /\ start.step = "spawned"
    /\ LET s == start.svc  gen == rec[s].gen + 1 IN
         /\ rec' = [rec EXCEPT ![s] = [@ EXCEPT !.cmd = start.pid, !.gen = gen,
                                                !.started = TRUE]]
         /\ \/ pidfile' = PidWritten(s, start.pid) /\ UNCHANGED lost
            \/ lost' = lost \cup {start.pid} /\ UNCHANGED pidfile
         /\ waiters' = waiters \cup {[svc |-> s, gen |-> gen, pid |-> start.pid]}
    /\ start' = NoStart
    /\ UNCHANGED <<phase, proc, exists, busy, stops, kills, restarts, del, spawns,
                   foreigns, clean>>

-----------------------------------------------------------------------------
(* Stopping, dying, restarting *)

StopMarks(s) ==
    /\ SomeoneServes /\ rec[s].started /\ s \notin stops
    /\ stops' = stops \cup {s}
    /\ busy' = busy \cup {s}
    /\ rec' = [rec EXCEPT ![s].auto = FALSE]
    /\ UNCHANGED <<phase, proc, pidfile, exists, start, kills, waiters, restarts,
                   del, spawns, foreigns, lost, clean>>

(* stopServiceProcess under procMu. *)
StopTakes(s) ==
    /\ s \in stops
    /\ stops' = stops \ {s}
    /\ kills' = kills \cup {[svc |-> s, pid |-> rec[s].cmd]}
    /\ rec' = [rec EXCEPT ![s].cmd = None, ![s].started = FALSE, ![s].auto = FALSE]
    /\ pidfile' = [pidfile EXCEPT ![s] = None]
    /\ UNCHANGED <<phase, proc, exists, busy, start, waiters, restarts, del,
                   spawns, foreigns, lost, clean>>

(* KillProcess, and the status. *)
StopKills(k) ==
    /\ kills' = kills \ {k}
    /\ proc' = [p \in Pids |-> IF p = k.pid THEN Killed(p) ELSE proc[p]]
    /\ busy' = busy \ {k.svc}
    /\ UNCHANGED <<phase, pidfile, exists, rec, start, stops, waiters, restarts,
                   del, spawns, foreigns, lost, clean>>

(* A worker ends by itself. *)
Dies(p) ==
    /\ Alive(p)
    /\ proc' = [proc EXCEPT ![p] = Killed(p)]
    /\ UNCHANGED <<phase, pidfile, exists, memory, spawns, foreigns, lost, clean>>

(* It reported connect failed or NAT4: deletion is no longer refused.      *)
Reports(p) ==
    /\ Alive(p) /\ proc[p].ui \in Owners /\ proc[p].svc \notin stops
    /\ busy' = busy \ {proc[p].svc}
    /\ UNCHANGED <<phase, proc, pidfile, exists, rec, start, stops, kills, waiters,
                   restarts, del, spawns, foreigns, lost, clean>>

(* Mutant: the generation is not compared. *)
MineAlways(w) == TRUE

Mine(w) == rec[w.svc].gen = w.gen

(* Wait has returned; the critical section that follows.                   *)
Reaps(w) ==
    /\ proc[w.pid].kind = "zombie"
    /\ proc' = [proc EXCEPT ![w.pid] = Free]
    /\ waiters' = waiters \ {w}
    /\ LET s == w.svc  abnormal == Mine(w) /\ rec[s].started /\ rec[s].auto IN
         /\ rec' = IF ~Mine(w) THEN rec
                   ELSE [rec EXCEPT ![s].started = FALSE,
                                    ![s].cmd = IF @ = w.pid THEN None ELSE @]
         /\ pidfile' = IF Mine(w) THEN [pidfile EXCEPT ![s] = None] ELSE pidfile
         /\ restarts' = IF abnormal THEN restarts \cup {s} ELSE restarts
         /\ busy' = IF Mine(w) /\ ~abnormal /\ s \notin stops THEN busy \ {s}
                    ELSE busy
    /\ UNCHANGED <<phase, exists, start, stops, kills, del, spawns, foreigns, lost, clean>>

(* autoRestartProcess after its sleep and startMu.                         *)
RestartBegins(s) ==
    /\ s \in restarts /\ start = NoStart
    /\ restarts' = restarts \ {s}
    /\ IF rec[s].auto /\ ~rec[s].started
       THEN start' = [svc |-> s, step |-> "armed", pid |-> None]
       ELSE UNCHANGED start
    /\ UNCHANGED <<phase, proc, pidfile, exists, rec, busy, stops, kills, waiters,
                   del, spawns, foreigns, lost, clean>>

-----------------------------------------------------------------------------
(* Deleting a service: the check, the removal with the saved file, procs,  *)
(* the pid file. startMu is not taken.                                     *)

DeleteChecks(s) ==
    /\ SomeoneServes /\ del = NoDel /\ s \in exists
    /\ ~rec[s].started /\ s \notin busy
    /\ del' = [svc |-> s, step |-> "checked"]
    /\ UNCHANGED <<phase, proc, pidfile, exists, rec, busy, start, stops, kills,
                   waiters, restarts, spawns, foreigns, lost, clean>>

DeleteRemoves ==
    /\ del.step = "checked"
    /\ \/ /\ exists' = exists \ {del.svc}
          /\ del' = [del EXCEPT !.step = "removed"]
       \/ /\ del' = NoDel               \* the file could not be saved
          /\ UNCHANGED exists
    /\ UNCHANGED <<phase, proc, pidfile, rec, busy, start, stops, kills, waiters,
                   restarts, spawns, foreigns, lost, clean>>

(* A service deleted here does not come back: an import of the same id     *)
(* (ui.go), after which the generations count from 0 again, is left out.   *)
DeleteForgets ==
    /\ del.step = "removed"
    /\ del' = [del EXCEPT !.step = "forgotten"]
    /\ rec' = [rec EXCEPT ![del.svc] = NoRec]
    /\ UNCHANGED <<phase, proc, pidfile, exists, busy, start, stops, kills, waiters,
                   restarts, spawns, foreigns, lost, clean>>

DeleteRemovesPid ==
    /\ del.step = "forgotten"
    /\ del' = NoDel
    /\ pidfile' = [pidfile EXCEPT ![del.svc] = None]
    /\ UNCHANGED <<phase, proc, exists, rec, busy, start, stops, kills, waiters,
                   restarts, spawns, foreigns, lost, clean>>

-----------------------------------------------------------------------------
(* Quitting: the menu and OnTrayExit each call StopCmdProcess, then the    *)
(* process ends. The server answers until then.                            *)

QuitKills(u) ==
    /\ phase[u] \in {"run", "removed"}
    /\ phase' = [phase EXCEPT ![u] = IF @ = "run" THEN "killed" ELSE "killed2"]
    /\ proc' = [p \in Pids |-> IF \E s \in Services : rec[s].cmd = p
                               THEN Killed(p) ELSE proc[p]]
    /\ rec' = [s \in Services |-> [NoRec EXCEPT !.gen = rec[s].gen]]
    /\ busy' = {}
    /\ UNCHANGED <<pidfile, exists, start, stops, kills, waiters, restarts, del,
                   spawns, foreigns, lost, clean>>

(* RemoveAllWorkerPids *)
QuitRemoves(u) ==
    /\ phase[u] \in {"cleaned", "cleaned2"}
    /\ phase' = [phase EXCEPT ![u] = IF @ = "cleaned" THEN "removed" ELSE "removed2"]
    /\ pidfile' = [s \in Services |-> None]
    /\ UNCHANGED <<proc, exists, memory, spawns, foreigns, lost, clean>>

(* The workers a UI leaves when it ends that need not be on file: one      *)
(* before startCmdProcess has written the file, one that stopServiceProcess *)
(* was about to kill, one whose service was deleted, all when it quits.    *)
Unfiled(u) ==
    {p \in Pids :
        /\ Alive(p) /\ proc[p].ui = u
        /\ \/ start.pid = p
           \/ \E k \in kills : k.pid = p
           \/ proc[p].svc \notin exists
           \/ phase[u] # "run"}

(* The process ends: by quitting, or by a crash at any time.               *)
Ends(u) ==
    /\ phase[u] \in Serving \cup {"locked"}
    /\ phase' = [phase EXCEPT ![u] = "gone"]
    /\ proc' = [p \in Pids |-> IF proc[p].kind = "zombie" THEN Free ELSE proc[p]]
    /\ rec' = [s \in Services |-> NoRec]
    /\ busy' = {} /\ start' = NoStart /\ stops' = {} /\ kills' = {}
    /\ waiters' = {} /\ restarts' = {} /\ del' = NoDel
    /\ lost' = lost \cup Unfiled(u)
    /\ clean' = NoClean
    /\ UNCHANGED <<exists, spawns, foreigns>>

Exits(u) ==
    /\ phase[u] = "removed2"
    /\ pidfile' = [s \in Services |-> None]       \* once more, in runUI
    /\ Ends(u)

Crashes(u) ==
    /\ UNCHANGED pidfile
    /\ Ends(u)

-----------------------------------------------------------------------------
(* Other programs' processes come and go and reuse process numbers.        *)
ForeignStarts(p) ==
    /\ proc[p] = Free /\ foreigns < MaxForeign
    /\ proc' = [proc EXCEPT ![p].kind = "foreign"]
    /\ foreigns' = foreigns + 1
    /\ clean' = IF clean.step = "kill" /\ clean.pid = p
                THEN [clean EXCEPT !.raced = TRUE] ELSE clean
    /\ UNCHANGED <<phase, pidfile, exists, memory, spawns, lost>>

ForeignEnds(p) ==
    /\ proc[p].kind = "foreign"
    /\ proc' = [proc EXCEPT ![p] = Free]
    /\ UNCHANGED <<phase, pidfile, exists, memory, spawns, foreigns, lost, clean>>

-----------------------------------------------------------------------------
Init ==
    /\ phase = [u \in UIs |-> "off"]
    /\ proc = [p \in Pids |-> Free]
    /\ pidfile = [s \in Services |-> None]
    /\ exists = Services
    /\ rec = [s \in Services |-> NoRec]
    /\ busy = {} /\ start = NoStart /\ stops = {} /\ kills = {}
    /\ waiters = {} /\ restarts = {} /\ del = NoDel /\ lost = {}
    /\ clean = NoClean
    /\ spawns = 0 /\ foreigns = 0

Next ==
    \/ \E u \in UIs :
         \/ Launch(u) \/ Elevates(u) \/ Lock(u) \/ QuitKills(u) \/ QuitRemoves(u)
         \/ Exits(u) \/ Crashes(u)
    \/ Cleans
    \/ \E s \in Services :
         StartChecks(s) \/ StopMarks(s) \/ StopTakes(s) \/ RestartBegins(s)
           \/ DeleteChecks(s)
    \/ StartArms \/ Spawns \/ SpawnFails \/ Registers
    \/ DeleteRemoves \/ DeleteForgets \/ DeleteRemovesPid
    \/ \E k \in kills : StopKills(k)
    \/ \E w \in waiters : Reaps(w)
    \/ \E p \in Pids : Dies(p) \/ Reports(p) \/ ForeignStarts(p) \/ ForeignEnds(p)

Spec == Init /\ [][Next]_vars

-----------------------------------------------------------------------------
(* Properties *)

TypeOK ==
    /\ phase \in [UIs -> {"off", "probed", "locked", "gone"} \cup Serving]
    /\ proc \in [Pids -> [kind : {"free", "worker", "zombie", "foreign"},
                          svc : Services \cup {None}, ui : UIs \cup {None}]]
    /\ pidfile \in [Services -> Pids \cup {None}]
    /\ exists \subseteq Services /\ busy \subseteq Services
    /\ rec \in [Services -> [cmd : Pids \cup {None}, gen : Nat,
                             started : BOOLEAN, auto : BOOLEAN]]
    /\ start \in [svc : Services \cup {None}, pid : Pids \cup {None},
                 step : {"none", "checked", "armed", "spawned"}]
    /\ stops \subseteq Services /\ restarts \subseteq Services
    /\ kills \subseteq [svc : Services, pid : Pids \cup {None}]
    /\ waiters \subseteq [svc : Services, gen : Nat, pid : Pids]
    /\ del \in [svc : Services \cup {None},
               step : {"none", "checked", "removed", "forgotten"}]
    /\ lost \subseteq Pids
    /\ clean \in [ui : UIs \cup {None}, left : SUBSET Services,
                  svc : Services \cup {None}, pid : Pids \cup {None},
                  step : {"none", "list", "alive", "image", "kill"}, raced : BOOLEAN]

Findable(p) ==
    \/ start.pid = p
    \/ \E k \in kills : k.pid = p
    \/ /\ rec[proc[p].svc].cmd = p
       /\ phase[proc[p].ui] = "run" => pidfile[proc[p].svc] = p \/ p \in lost

(* There is one UI with the mutex, and its workers can always be found     *)
(* again: a worker is being registered, it is about to be killed, or it is *)
(* its service's current command and, until the UI quits, its pid file     *)
(* names it if it could be written. A waiter of an earlier worker, a stop  *)
(* or a restart never deletes that file. Only services that still exist:   *)
(* deletion does not take startMu.                                         *)
Recorded ==
    /\ TypeOK /\ Cardinality(Owners) <= 1
    /\ \A p \in Pids :
           Alive(p) /\ proc[p].ui \in Owners /\ proc[p].svc \in exists => Findable(p)

(* When a UI is running, the workers that earlier ones left are dead: a UI *)
(* that died, whenever that was, comes back to a clean machine. The        *)
(* exceptions are Unfiled's, a worker whose pid file could not be written, *)
(* and one with administrator rights that a UI without them met: it lives  *)
(* on, and its file may be gone.                                           *)
OrphansCleaned ==
    (\E u \in UIs : phase[u] = "run") =>
        \A p \in Pids : Alive(p) /\ proc[p].ui \notin Owners => p \in lost

(* The clean-up never kills the worker of another UI that is running,      *)
(* because it comes after CheckSingleInstance, nor another program's       *)
(* process, however process numbers were used again since the pid files    *)
(* were written, but for one case: the process whose image matched ended   *)
(* and another took its number before KillProcess opened it.               *)
CleanupSpares ==
    [][clean.step = "kill" /\ clean'.step # "kill" =>
         \A p \in Pids :
             \/ Alive(p) /\ proc[p].ui \in Owners \ {clean.ui}
             \/ proc[p].kind = "foreign" /\ ~clean.raced
             => proc'[p] = proc[p]]_vars
=============================================================================
