---------------------------- MODULE Supervisor ----------------------------
(***************************************************************************)
(* The process supervisor of the UI (ui2/start.go) for one service. Each   *)
(* start of the worker is a generation: a child process, a waiter          *)
(* goroutine that reaps it and may restart it, and a scanner goroutine     *)
(* that turns the child's status lines into the state the UI shows.        *)
(*                                                                         *)
(* Every critical section of procMu and every access to the status under   *)
(* stateMu is one step; startMu is the variable starter. HandleStart and   *)
(* autoRestartProcess hold startMu from end to end, HandleStop and the     *)
(* delayed stops do not take it.                                           *)
(***************************************************************************)
EXTENDS Integers, FiniteSets

CONSTANTS
    MaxGen,     \* bound: generations of the worker
    Stoppers,   \* bound: HandleStop calls and delayed stops under way at once
    StartStatus,\* status a start shows: "Connecting" (Local), "Starting" (Remote)
    Lines       \* status lines the worker prints

Status == {"Detecting", "Idle", "Starting", "Connecting", "ConnectingNAT4",
           "Connected", "Running", "Stopping", "ConnectFailed"}

(* Lines that only report, lines that end in a state of their own and      *)
(* lines that end in none (version or transport mismatch, no privileges).  *)
PlainLines == {"Connecting", "Connected", "Running"}
FinalLines == {"ConnectingNAT4", "ConnectFailed"}
OtherLines == {"Mismatch", "NeedAdmin"}

ASSUME SupervisorAssumption ==
    /\ MaxGen \in Nat
    /\ StartStatus \in {"Connecting", "Starting"}
    /\ Lines \subseteq PlainLines \cup FinalLines \cup OtherLines

Gens == 1..MaxGen

VARIABLES
    started, autoRestart, \* the svcProc of the service ...
    cur,                  \* ... its cmd, as a generation, 0 for nil ...
    gen,                  \* ... and its gen
    pidFile,              \* generation whose pid is in the pid file, 0: no file
    status,               \* what the UI shows
    child,                \* each generation's process
    scanner,              \* generations whose scanner still reads lines
    waiter,               \* where each generation's waiter is
    starter,              \* holder of startMu: [pc, by], by = 0 is the user
    stop                  \* each stopper: [pc, user, from, victim]

proc == <<started, autoRestart, cur, gen, pidFile>>
vars == <<started, autoRestart, cur, gen, pidFile, status, child, scanner,
          waiter, starter, stop>>

StarterRec == [pc : {"free", "save", "arm", "spawn", "register", "failed"},
               by : 0..MaxGen]
StopRec    == [pc : {"free", "look", "mark", "disarm", "stop", "kill", "idle"},
               user : BOOLEAN, from : 0..MaxGen, victim : 0..MaxGen]

NoStarter == [pc |-> "free", by |-> 0]
NoStop    == [pc |-> "free", user |-> FALSE, from |-> 0, victim |-> 0]

-----------------------------------------------------------------------------
(* HandleStart and autoRestartProcess *)

(* HandleStart takes startMu and finds the service neither started nor     *)
(* busy; otherwise it returns an error and nothing has changed.            *)
StartBegin ==
    /\ starter = NoStarter
    /\ ~started
    /\ status \notin {"Detecting", "Stopping"}
    /\ starter' = [pc |-> "save", by |-> 0]
    /\ UNCHANGED <<proc, status, child, scanner, waiter, stop>>

(* The configuration is refused or cannot be saved. *)
StartRefused ==
    /\ starter.pc = "save"
    /\ starter' = NoStarter
    /\ UNCHANGED <<proc, status, child, scanner, waiter, stop>>

(* It is saved; the status is overwritten. *)
StartSaved ==
    /\ starter.pc = "save"
    /\ status' = StartStatus
    /\ starter' = [starter EXCEPT !.pc = "arm"]
    /\ UNCHANGED <<proc, child, scanner, waiter, stop>>

StartArm ==
    /\ starter.pc = "arm"
    /\ autoRestart' = TRUE
    /\ starter' = [starter EXCEPT !.pc = "spawn"]
    /\ UNCHANGED <<started, cur, gen, pidFile, status, child, scanner, waiter, stop>>

(* startCmdProcess: cmd.Start, outside procMu. *)
Spawn ==
    /\ starter.pc = "spawn"
    /\ gen < MaxGen
    /\ child' = [child EXCEPT ![gen + 1] = "live"]
    /\ starter' = [starter EXCEPT !.pc = "register"]
    /\ UNCHANGED <<proc, status, scanner, waiter, stop>>

(* ... which may fail: the service goes back to Idle. *)
SpawnFails ==
    /\ starter.pc = "spawn"
    /\ started' = FALSE
    /\ autoRestart' = FALSE
    /\ starter' = [starter EXCEPT !.pc = "failed"]
    /\ UNCHANGED <<cur, gen, pidFile, status, child, scanner, waiter, stop>>

StartFailed ==
    /\ starter.pc = "failed"
    /\ status' = "Idle"
    /\ starter' = NoStarter
    /\ UNCHANGED <<proc, child, scanner, waiter, stop>>

(* startCmdProcess's critical section, and the goroutines of the new       *)
(* generation.                                                             *)
Register ==
    /\ starter.pc = "register"
    /\ gen' = gen + 1
    /\ cur' = gen + 1
    /\ started' = TRUE
    /\ pidFile' = gen + 1
    /\ scanner' = scanner \cup {gen + 1}
    /\ waiter' = [waiter EXCEPT ![gen + 1] = "wait"]
    /\ starter' = NoStarter
    /\ UNCHANGED <<autoRestart, status, child, stop>>

(* Mutant of MayRestart: the check before the sleep is trusted. *)
MayRestartUnchecked == TRUE

MayRestart == autoRestart /\ ~started

(* autoRestartProcess after its 500 ms: startMu, then the check. *)
AutoRestart(g) ==
    /\ waiter[g] = "restart"
    /\ starter = NoStarter
    /\ MayRestart
    /\ starter' = [pc |-> "spawn", by |-> g]
    /\ waiter' = [waiter EXCEPT ![g] = "done"]
    /\ UNCHANGED <<proc, status, child, scanner, stop>>

AutoRestartRefused(g) ==
    /\ waiter[g] = "restart"
    /\ starter = NoStarter
    /\ ~MayRestart
    /\ waiter' = [waiter EXCEPT ![g] = "done"]
    /\ UNCHANGED <<proc, status, child, scanner, starter, stop>>

-----------------------------------------------------------------------------
(* waitForProcessAndHandleExit *)

(* Mutant of Mine: the generation is not compared. *)
MineAlways(g) == TRUE

Mine(g) == gen = g

(* Mutant of Restarts: read after started has been reset. *)
RestartsAfterReset == started' /\ autoRestart

Restarts == started /\ autoRestart

(* cmd.Wait has returned; the critical section. A waiter whose generation  *)
(* is no longer current only reaps.                                        *)
Reap(g) ==
    /\ waiter[g] = "wait"
    /\ child[g] = "dead"
    /\ child' = [child EXCEPT ![g] = "reaped"]
    /\ \/ /\ Mine(g)
          /\ started' = FALSE
          /\ waiter' = [waiter EXCEPT ![g] = IF Restarts THEN "restart" ELSE "settle"]
          /\ cur' = IF cur = g THEN 0 ELSE cur
          /\ pidFile' = 0
       \/ /\ ~Mine(g)
          /\ waiter' = [waiter EXCEPT ![g] = "done"]
          /\ UNCHANGED <<started, cur, pidFile>>
    /\ UNCHANGED <<autoRestart, gen, status, scanner, starter, stop>>

(* Its reading of the status ... *)
Settle(g) ==
    /\ waiter[g] = "settle"
    /\ waiter' = [waiter EXCEPT
         ![g] = IF status \in {"ConnectFailed", "ConnectingNAT4", "Stopping"}
                THEN "done" ELSE "idle"]
    /\ UNCHANGED <<proc, status, child, scanner, starter, stop>>

(* ... and its writing. *)
SettleIdle(g) ==
    /\ waiter[g] = "idle"
    /\ status' = "Idle"
    /\ waiter' = [waiter EXCEPT ![g] = "done"]
    /\ UNCHANGED <<proc, child, scanner, starter, stop>>

-----------------------------------------------------------------------------
(* HandleStop, the delayed stops and stopServiceProcess *)

(* HandleStop finds the service started ... *)
StopBegin(k) ==
    /\ stop[k] = NoStop
    /\ started
    /\ stop' = [stop EXCEPT ![k] = [pc |-> "mark", user |-> TRUE, from |-> gen, victim |-> 0]]
    /\ UNCHANGED <<proc, status, child, scanner, waiter, starter>>

StopMark(k) ==
    /\ stop[k].pc = "mark"
    /\ status' = "Stopping"
    /\ stop' = [stop EXCEPT ![k].pc = "disarm"]
    /\ UNCHANGED <<proc, child, scanner, waiter, starter>>

(* autoRestart = FALSE, by HandleStop and by disableAutoRestart. *)
StopDisarm(k) ==
    /\ stop[k].pc = "disarm"
    /\ autoRestart' = FALSE
    /\ stop' = [stop EXCEPT ![k].pc = "stop"]
    /\ UNCHANGED <<started, cur, gen, pidFile, status, child, scanner, waiter, starter>>

(* ... or not started: then it looks at the status ... *)
LookBegin(k) ==
    /\ stop[k] = NoStop
    /\ ~started
    /\ stop' = [stop EXCEPT ![k] = [pc |-> "look", user |-> TRUE, from |-> gen, victim |-> 0]]
    /\ UNCHANGED <<proc, status, child, scanner, waiter, starter>>

(* ... and goes on to clear it if it is one of two final states.           *)
Look(k) ==
    /\ stop[k].pc = "look"
    /\ stop' = [stop EXCEPT ![k] = IF status \in {"ConnectFailed", "ConnectingNAT4"}
                                   THEN [@ EXCEPT !.pc = "idle"] ELSE NoStop]
    /\ UNCHANGED <<proc, status, child, scanner, waiter, starter>>

(* stopServiceProcess's critical section, from HandleStop's goroutine or   *)
(* from a delayed one: whatever is current is taken.                       *)
StopServiceProcess(k) ==
    /\ stop[k].pc = "stop"
    /\ autoRestart' = FALSE
    /\ started' = FALSE
    /\ cur' = 0
    /\ pidFile' = 0
    /\ stop' = [stop EXCEPT ![k].pc = "kill", ![k].victim = cur]
    /\ UNCHANGED <<gen, status, child, scanner, waiter, starter>>

(* Mutant of AfterKill: the status is left to others. *)
AfterKillSilent(k) == NoStop

(* HandleStop's goroutine goes on to write Idle, a delayed stop ends. *)
AfterKill(k) == IF stop[k].user
                THEN [stop[k] EXCEPT !.pc = "idle", !.victim = 0]
                ELSE NoStop

(* KillProcess, outside procMu. *)
Kill(k) ==
    /\ stop[k].pc = "kill"
    /\ LET g == stop[k].victim
       IN  child' = IF g # 0 /\ child[g] = "live"
                    THEN [child EXCEPT ![g] = "dead"] ELSE child
    /\ stop' = [stop EXCEPT ![k] = AfterKill(k)]
    /\ UNCHANGED <<proc, status, scanner, waiter, starter>>

StopIdle(k) ==
    /\ stop[k].pc = "idle"
    /\ status' = "Idle"
    /\ stop' = [stop EXCEPT ![k] = NoStop]
    /\ UNCHANGED <<proc, child, scanner, waiter, starter>>

-----------------------------------------------------------------------------
(* The worker and its output *)

(* The worker exits or crashes. *)
ChildDies(g) ==
    /\ child[g] = "live"
    /\ child' = [child EXCEPT ![g] = "dead"]
    /\ UNCHANGED <<proc, status, scanner, waiter, starter, stop>>

(* updateConnectionStatus for a line that only reports. Nothing says which *)
(* generation it belongs to.                                               *)
PlainLine(g, line) ==
    /\ g \in scanner
    /\ line \in PlainLines
    /\ status' = line
    /\ UNCHANGED <<proc, child, scanner, waiter, starter, stop>>

ShownFor(line) == IF line \in FinalLines THEN line ELSE status

(* ... and for one after which the worker gives up: next, in steps of its  *)
(* own, automatic restart is switched off and a delayed stop follows.      *)
FatalLine(g, line, k) ==
    /\ g \in scanner
    /\ line \in FinalLines \cup OtherLines
    /\ stop[k] = NoStop
    /\ status' = ShownFor(line)
    /\ stop' = [stop EXCEPT ![k] = [pc |-> "disarm", user |-> FALSE, from |-> g, victim |-> 0]]
    /\ UNCHANGED <<proc, child, scanner, waiter, starter>>

(* The pipe is drained: only after the process has gone. A line read       *)
(* before may still be in the scanner's hands until then.                  *)
ScannerEnds(g) ==
    /\ g \in scanner
    /\ child[g] # "live"
    /\ scanner' = scanner \ {g}
    /\ UNCHANGED <<proc, status, child, waiter, starter, stop>>

(* detectNAT has an answer. *)
Detected ==
    /\ status = "Detecting"
    /\ status' = "Idle"
    /\ UNCHANGED <<proc, child, scanner, waiter, starter, stop>>

-----------------------------------------------------------------------------
Init ==
    /\ started = FALSE /\ autoRestart = FALSE
    /\ cur = 0 /\ gen = 0 /\ pidFile = 0
    /\ status = "Detecting"
    /\ child = [g \in Gens |-> "none"]
    /\ scanner = {}
    /\ waiter = [g \in Gens |-> "none"]
    /\ starter = NoStarter
    /\ stop = [k \in Stoppers |-> NoStop]

StarterStep ==
    \/ StartRefused \/ StartSaved \/ StartArm
    \/ Spawn \/ SpawnFails \/ StartFailed \/ Register

WaiterStep(g) ==
    \/ Reap(g) \/ Settle(g) \/ SettleIdle(g)
    \/ AutoRestart(g) \/ AutoRestartRefused(g)

StopperStep(k) ==
    \/ Look(k) \/ StopMark(k) \/ StopDisarm(k) \/ StopServiceProcess(k)
    \/ Kill(k) \/ StopIdle(k)

Next ==
    \/ StartBegin \/ StarterStep \/ Detected
    \/ \E g \in Gens : WaiterStep(g) \/ ChildDies(g) \/ ScannerEnds(g)
    \/ \E k \in Stoppers : StopBegin(k) \/ LookBegin(k) \/ StopperStep(k)
    \/ \E g \in Gens, line \in Lines : PlainLine(g, line)
    \/ \E g \in Gens, line \in Lines, k \in Stoppers : FatalLine(g, line, k)

Spec == Init /\ [][Next]_vars

(* Goroutines run; the user need do nothing, and a worker need not die. A  *)
(* waiter wanting startMu gets it: Go's mutexes do not starve a waiter.    *)
Fairness ==
    /\ WF_vars(StarterStep)
    /\ \A g \in Gens : WF_vars(Reap(g) \/ Settle(g) \/ SettleIdle(g))
    /\ \A g \in Gens : SF_vars(AutoRestart(g) \/ AutoRestartRefused(g))
    /\ \A k \in Stoppers : WF_vars(StopperStep(k))

FairSpec == Spec /\ Fairness

-----------------------------------------------------------------------------
(* Properties *)

TypeOK ==
    /\ started \in BOOLEAN
    /\ autoRestart \in BOOLEAN
    /\ cur \in 0..MaxGen
    /\ gen \in 0..MaxGen
    /\ pidFile \in 0..MaxGen
    /\ status \in Status
    /\ child \in [Gens -> {"none", "live", "dead", "reaped"}]
    /\ scanner \subseteq Gens
    /\ waiter \in [Gens -> {"none", "wait", "restart", "settle", "idle", "done"}]
    /\ starter \in StarterRec
    /\ stop \in [Stoppers -> StopRec]

(* What the supervisor records is one generation or nothing: started, cmd, *)
(* gen and the pid file never disagree, however starts, stops, restarts    *)
(* and waiters of several generations interleave.                          *)
OneRecord ==
    IF started THEN cur = gen /\ pidFile = gen /\ gen > 0
               ELSE cur = 0 /\ pidFile = 0

Doomed(g) == \E k \in Stoppers : stop[k].pc = "kill" /\ stop[k].victim = g

(* No worker is lost or doubled: a live one is the recorded generation, or *)
(* is just being recorded, or its kill is under way; so at most one lives  *)
(* that is not about to be killed, and none that nobody will ever stop.    *)
NoStrayChild ==
    \A g \in Gens : child[g] = "live" =>
        \/ started /\ cur = g
        \/ starter.pc = "register" /\ g = gen + 1
        \/ Doomed(g)

(* A worker that dies unexpectedly comes back, unless automatic restart    *)
(* has been switched off in between.                                       *)
CrashRecovers ==
    (started /\ autoRestart /\ gen > 0 /\ child[gen] = "dead")
      ~> ((started /\ child[gen] = "live") \/ ~autoRestart)

(* Stopping is a passing state: a start that would be refused as busy is   *)
(* accepted again some time.                                               *)
StoppingEnds == (status = "Stopping") ~> (status # "Stopping")
=============================================================================
