------------------------- MODULE SupervisorProofs -------------------------
(***************************************************************************)
(* Proofs about Supervisor, for any number of generations and of stops     *)
(* under way. OneRecord and NoStrayChild are not inductive by themselves:  *)
(* they need that nobody between taking startMu and registering finds the  *)
(* service started (StarterAlone), which is what startMu is for.           *)
(***************************************************************************)
EXTENDS Supervisor, TLAPS

(* The holder of startMu works on a service that is not started, and has   *)
(* room for the generation it has spawned.                                 *)
StarterAlone ==
    /\ starter.pc # "free" => ~started
    /\ starter.pc = "register" => gen < MaxGen

SInv == TypeOK /\ StarterAlone /\ OneRecord /\ NoStrayChild

(* The records of startMu's holder and of the stops under way stay records *)
(* of their kind when a field is set.                                      *)
LEMMA Records ==
    /\ NoStop \in StopRec
    /\ NoStarter \in StarterRec
    /\ \A r \in StarterRec, pc \in {"arm", "spawn", "register", "failed"} :
          [r EXCEPT !.pc = pc] \in StarterRec
    /\ \A r \in StopRec, pc \in {"disarm", "stop", "idle"} : [r EXCEPT !.pc = pc] \in StopRec
    /\ \A r \in StopRec, pc \in {"kill", "idle"}, v \in 0..MaxGen :
          [r EXCEPT !.pc = pc, !.victim = v] \in StopRec
<1> USE SupervisorAssumption
<1>1. NoStop \in StopRec
  BY DEF NoStop, StopRec
<1>2. NoStarter \in StarterRec
  BY DEF NoStarter, StarterRec
<1>3. \A r \in StarterRec, pc \in {"arm", "spawn", "register", "failed"} :
         [r EXCEPT !.pc = pc] \in StarterRec
  BY DEF StarterRec
<1>4. \A r \in StopRec, pc \in {"disarm", "stop", "idle"} : [r EXCEPT !.pc = pc] \in StopRec
  BY DEF StopRec
<1>5. \A r \in StopRec, pc \in {"kill", "idle"}, v \in 0..MaxGen :
         [r EXCEPT !.pc = pc, !.victim = v] \in StopRec
  BY DEF StopRec
<1> QED BY <1>1, <1>2, <1>3, <1>4, <1>5

(* Every step keeps the types. *)
LEMMA TypeStep == TypeOK /\ StarterAlone /\ [Next]_vars => TypeOK'
<1> SUFFICES ASSUME TypeOK, StarterAlone, [Next]_vars PROVE TypeOK'
  OBVIOUS
<1> USE SupervisorAssumption DEF Gens
<1>1. CASE StartBegin
  <2>1. starter' \in StarterRec
    BY <1>1 DEF StartBegin, StarterRec
  <2> QED BY <1>1, <2>1 DEF StartBegin, TypeOK, proc
<1>2. CASE StartRefused
  BY <1>2, Records DEF StartRefused, TypeOK, proc
<1>3. CASE StartSaved
  <2>1. starter' \in StarterRec
    BY <1>3, Records DEF StartSaved, TypeOK
  <2>2. status' \in Status
    BY <1>3 DEF StartSaved, Status
  <2> QED BY <1>3, <2>1, <2>2 DEF StartSaved, TypeOK, proc
<1>4. CASE StartArm
  <2>1. starter' \in StarterRec
    BY <1>4, Records DEF StartArm, TypeOK
  <2> QED BY <1>4, <2>1 DEF StartArm, TypeOK
<1>5. CASE Spawn
  <2>1. starter' \in StarterRec
    BY <1>5, Records DEF Spawn, TypeOK
  <2> QED BY <1>5, <2>1 DEF Spawn, TypeOK, proc
<1>6. CASE SpawnFails
  <2>1. starter' \in StarterRec
    BY <1>6, Records DEF SpawnFails, TypeOK
  <2> QED BY <1>6, <2>1 DEF SpawnFails, TypeOK
<1>7. CASE StartFailed
  <2>1. status' \in Status
    BY <1>7 DEF StartFailed, Status
  <2> QED BY <1>7, <2>1, Records DEF StartFailed, TypeOK, proc
<1>8. CASE Register
  <2>1. gen + 1 \in 1..MaxGen /\ gen + 1 \in 0..MaxGen
    BY <1>8 DEF Register, StarterAlone, TypeOK
  <2> QED BY <1>8, <2>1, Records DEF Register, TypeOK
<1>9. CASE Detected
  <2>1. status' \in Status
    BY <1>9 DEF Detected, Status
  <2> QED BY <1>9, <2>1 DEF Detected, TypeOK, proc
<1>10. ASSUME NEW g \in Gens, Reap(g) PROVE TypeOK'
  <2>1. /\ child' \in [Gens -> {"none", "live", "dead", "reaped"}]
        /\ waiter' \in [Gens -> {"none", "wait", "restart", "settle", "idle", "done"}]
    BY <1>10 DEF Reap, TypeOK
  <2>2. cur' \in 0..MaxGen /\ pidFile' \in 0..MaxGen
    BY <1>10 DEF Reap, TypeOK
  <2>3. started' \in BOOLEAN
    BY <1>10 DEF Reap, TypeOK
  <2> QED BY <1>10, <2>1, <2>2, <2>3 DEF Reap, TypeOK
<1>11. ASSUME NEW g \in Gens, Settle(g) PROVE TypeOK'
  BY <1>11 DEF Settle, TypeOK, proc
<1>12. ASSUME NEW g \in Gens, SettleIdle(g) PROVE TypeOK'
  <2>1. status' \in Status
    BY <1>12 DEF SettleIdle, Status
  <2> QED BY <1>12, <2>1 DEF SettleIdle, TypeOK, proc
<1>13. ASSUME NEW g \in Gens, AutoRestart(g) PROVE TypeOK'
  <2>1. starter' \in StarterRec
    BY <1>13 DEF AutoRestart, StarterRec
  <2> QED BY <1>13, <2>1 DEF AutoRestart, TypeOK, proc
<1>14. ASSUME NEW g \in Gens, AutoRestartRefused(g) PROVE TypeOK'
  BY <1>14 DEF AutoRestartRefused, TypeOK, proc
<1>15. ASSUME NEW g \in Gens, ChildDies(g) PROVE TypeOK'
  BY <1>15 DEF ChildDies, TypeOK, proc
<1>16. ASSUME NEW g \in Gens, ScannerEnds(g) PROVE TypeOK'
  BY <1>16 DEF ScannerEnds, TypeOK, proc
<1>17. ASSUME NEW k \in Stoppers, NEW r \in StopRec, stop' = [stop EXCEPT ![k] = r]
       PROVE  stop' \in [Stoppers -> StopRec]
  BY <1>17 DEF TypeOK
<1>18. ASSUME NEW k \in Stoppers, StopBegin(k) PROVE TypeOK'
  <2>1. [pc |-> "mark", user |-> TRUE, from |-> gen, victim |-> 0] \in StopRec
    BY DEF StopRec, TypeOK
  <2>2. stop' \in [Stoppers -> StopRec]
    BY <1>17, <1>18, <2>1 DEF StopBegin
  <2> QED BY <1>18, <2>2 DEF StopBegin, TypeOK, proc
<1>19. ASSUME NEW k \in Stoppers, LookBegin(k) PROVE TypeOK'
  <2>1. [pc |-> "look", user |-> TRUE, from |-> gen, victim |-> 0] \in StopRec
    BY DEF StopRec, TypeOK
  <2>2. stop' \in [Stoppers -> StopRec]
    BY <1>17, <1>19, <2>1 DEF LookBegin
  <2> QED BY <1>19, <2>2 DEF LookBegin, TypeOK, proc
<1>20. ASSUME NEW k \in Stoppers, StopMark(k) PROVE TypeOK'
  <2>1. stop' \in [Stoppers -> StopRec]
    BY <1>17, <1>20, Records DEF StopMark, TypeOK
  <2>2. status' \in Status
    BY <1>20 DEF StopMark, Status
  <2> QED BY <1>20, <2>1, <2>2 DEF StopMark, TypeOK, proc
<1>21. ASSUME NEW k \in Stoppers, StopDisarm(k) PROVE TypeOK'
  <2>1. stop' \in [Stoppers -> StopRec]
    BY <1>17, <1>21, Records DEF StopDisarm, TypeOK
  <2> QED BY <1>21, <2>1 DEF StopDisarm, TypeOK
<1>22. ASSUME NEW k \in Stoppers, StopServiceProcess(k) PROVE TypeOK'
  <2>1. stop' \in [Stoppers -> StopRec]
    BY <1>17, <1>22, Records DEF StopServiceProcess, TypeOK
  <2>2. cur' \in 0..MaxGen /\ pidFile' \in 0..MaxGen
    BY <1>22 DEF StopServiceProcess
  <2>3. autoRestart' \in BOOLEAN /\ started' \in BOOLEAN
    BY <1>22 DEF StopServiceProcess
  <2> QED BY <1>22, <2>1, <2>2, <2>3 DEF StopServiceProcess, TypeOK
<1>23. ASSUME NEW k \in Stoppers, Kill(k) PROVE TypeOK'
  <2>1. AfterKill(k) \in StopRec
    <3>1. stop[k] \in StopRec /\ 0 \in 0..MaxGen
      BY DEF TypeOK
    <3>2. [stop[k] EXCEPT !.pc = "idle", !.victim = 0] \in StopRec
      BY <3>1, Records
    <3> QED BY <3>2, Records DEF AfterKill
  <2>2. child' \in [Gens -> {"none", "live", "dead", "reaped"}]
    BY <1>23 DEF Kill, TypeOK
  <2>3. stop' \in [Stoppers -> StopRec]
    BY <1>17, <1>23, <2>1 DEF Kill
  <2> QED BY <1>23, <2>2, <2>3 DEF Kill, TypeOK, proc
<1>24. ASSUME NEW k \in Stoppers, StopIdle(k) PROVE TypeOK'
  <2>1. stop' \in [Stoppers -> StopRec]
    BY <1>17, <1>24, Records DEF StopIdle
  <2>2. status' \in Status
    BY <1>24 DEF StopIdle, Status
  <2> QED BY <1>24, <2>1, <2>2 DEF StopIdle, TypeOK, proc
<1>25. ASSUME NEW g \in Gens, NEW line \in Lines, PlainLine(g, line) PROVE TypeOK'
  <2>1. status' \in Status
    BY <1>25 DEF PlainLine, PlainLines, Status
  <2> QED BY <1>25, <2>1 DEF PlainLine, TypeOK, proc
<1>26. ASSUME NEW g \in Gens, NEW line \in Lines, NEW k \in Stoppers, FatalLine(g, line, k)
       PROVE  TypeOK'
  <2>1. ShownFor(line) \in Status
    BY DEF ShownFor, FinalLines, TypeOK, Status
  <2>2. [pc |-> "disarm", user |-> FALSE, from |-> g, victim |-> 0] \in StopRec
    BY DEF StopRec
  <2>3. stop' \in [Stoppers -> StopRec]
    BY <1>17, <1>26, <2>2 DEF FatalLine
  <2> QED BY <1>26, <2>1, <2>3 DEF FatalLine, TypeOK, proc
<1>27. ASSUME NEW k \in Stoppers, Look(k) PROVE TypeOK'
  <2>1. stop' \in [Stoppers -> StopRec]
    BY <1>17, <1>27, Records DEF Look, TypeOK
  <2> QED BY <1>27, <2>1 DEF Look, TypeOK, proc
<1>28. CASE UNCHANGED vars
  BY <1>28 DEF vars, TypeOK
<1> QED
  BY <1>1, <1>2, <1>3, <1>4, <1>5, <1>6, <1>7, <1>8, <1>9, <1>10, <1>11, <1>12,
     <1>13, <1>14, <1>15, <1>16, <1>18, <1>19, <1>20, <1>21, <1>22, <1>23, <1>24,
     <1>25, <1>26, <1>27, <1>28
  DEF Next, StarterStep, WaiterStep, StopperStep

(* Every step keeps startMu's promise: only Register sets started, and it  *)
(* frees the lock.                                                         *)
LEMMA StarterStepKeeps == SInv /\ [Next]_vars => StarterAlone'
<1> SUFFICES ASSUME SInv, [Next]_vars PROVE StarterAlone'
  OBVIOUS
<1> USE SupervisorAssumption DEF SInv
<1>1. ASSUME starter' = starter, gen' = gen, started' => started
      PROVE  StarterAlone'
  BY <1>1 DEF StarterAlone
<1>2. CASE StartBegin
  BY <1>2 DEF StartBegin, StarterAlone, proc
<1>3. CASE StarterStep
  <2>1. CASE StartRefused \/ StartFailed \/ Register
    BY <2>1 DEF StartRefused, StartFailed, Register, NoStarter, StarterAlone
  <2>2. CASE StartSaved \/ StartArm
    BY <2>2 DEF StartSaved, StartArm, StarterAlone, StarterRec, TypeOK, proc
  <2>3. CASE Spawn
    BY <2>3 DEF Spawn, StarterAlone, StarterRec, TypeOK, proc
  <2>4. CASE SpawnFails
    BY <2>4 DEF SpawnFails, StarterAlone, StarterRec, TypeOK
  <2> QED BY <1>3, <2>1, <2>2, <2>3, <2>4 DEF StarterStep
<1>4. CASE Detected
  BY <1>1, <1>4 DEF Detected, proc
<1>5. ASSUME NEW g \in Gens, WaiterStep(g) PROVE StarterAlone'
  <2>1. CASE AutoRestart(g)
    BY <2>1 DEF AutoRestart, MayRestart, StarterAlone, proc
  <2>2. CASE Reap(g)
    BY <1>1, <2>2 DEF Reap
  <2>3. CASE Settle(g) \/ SettleIdle(g) \/ AutoRestartRefused(g)
    BY <1>1, <2>3 DEF Settle, SettleIdle, AutoRestartRefused, proc
  <2> QED BY <1>5, <2>1, <2>2, <2>3 DEF WaiterStep
<1>6. ASSUME NEW g \in Gens, ChildDies(g) \/ ScannerEnds(g) PROVE StarterAlone'
  BY <1>1, <1>6 DEF ChildDies, ScannerEnds, proc
<1>7. ASSUME NEW k \in Stoppers, StopBegin(k) \/ LookBegin(k) \/ StopperStep(k)
      PROVE  StarterAlone'
  BY <1>1, <1>7 DEF StopBegin, LookBegin, StopperStep, Look, StopMark, StopDisarm,
                    StopServiceProcess, Kill, StopIdle, proc
<1>8. ASSUME NEW g \in Gens, NEW line \in Lines, PlainLine(g, line) PROVE StarterAlone'
  BY <1>1, <1>8 DEF PlainLine, proc
<1>9. ASSUME NEW g \in Gens, NEW line \in Lines, NEW k \in Stoppers, FatalLine(g, line, k)
      PROVE  StarterAlone'
  BY <1>1, <1>9 DEF FatalLine, proc
<1>10. CASE UNCHANGED vars
  BY <1>1, <1>10 DEF vars
<1> QED
  BY <1>2, <1>3, <1>4, <1>5, <1>6, <1>7, <1>8, <1>9, <1>10 DEF Next

(* Every step keeps the record of the service consistent. *)
LEMMA RecordStepKeeps == SInv /\ [Next]_vars => OneRecord'
<1> SUFFICES ASSUME SInv, [Next]_vars PROVE OneRecord'
  OBVIOUS
<1> USE SupervisorAssumption DEF SInv
<1>1. ASSUME started' = started, cur' = cur, gen' = gen, pidFile' = pidFile
      PROVE  OneRecord'
  BY <1>1 DEF OneRecord
<1>2. CASE StartBegin \/ Detected
  BY <1>1, <1>2 DEF StartBegin, Detected, proc
<1>3. CASE StarterStep
  <2>1. CASE SpawnFails
    BY <2>1 DEF SpawnFails, StarterAlone, OneRecord
  <2>2. CASE Register
    BY <2>2 DEF Register, OneRecord, TypeOK
  <2>3. CASE StartRefused \/ StartSaved \/ StartArm \/ Spawn \/ StartFailed
    BY <1>1, <2>3 DEF StartRefused, StartSaved, StartArm, Spawn, StartFailed, proc
  <2> QED BY <1>3, <2>1, <2>2, <2>3 DEF StarterStep
<1>4. ASSUME NEW g \in Gens, WaiterStep(g) PROVE OneRecord'
  <2>1. CASE Reap(g)
    BY <1>1, <2>1 DEF Reap, Mine, OneRecord
  <2>2. CASE Settle(g) \/ SettleIdle(g) \/ AutoRestart(g) \/ AutoRestartRefused(g)
    BY <1>1, <2>2 DEF Settle, SettleIdle, AutoRestart, AutoRestartRefused, proc
  <2> QED BY <1>4, <2>1, <2>2 DEF WaiterStep
<1>5. ASSUME NEW g \in Gens, ChildDies(g) \/ ScannerEnds(g) PROVE OneRecord'
  BY <1>1, <1>5 DEF ChildDies, ScannerEnds, proc
<1>6. ASSUME NEW k \in Stoppers, StopBegin(k) \/ LookBegin(k) PROVE OneRecord'
  BY <1>1, <1>6 DEF StopBegin, LookBegin, proc
<1>7. ASSUME NEW k \in Stoppers, StopperStep(k) PROVE OneRecord'
  <2>1. CASE StopServiceProcess(k)
    BY <2>1 DEF StopServiceProcess, OneRecord
  <2>2. CASE Look(k) \/ StopMark(k) \/ StopDisarm(k) \/ Kill(k) \/ StopIdle(k)
    BY <1>1, <2>2 DEF Look, StopMark, StopDisarm, Kill, StopIdle, proc
  <2> QED BY <1>7, <2>1, <2>2 DEF StopperStep
<1>8. ASSUME NEW g \in Gens, NEW line \in Lines, PlainLine(g, line) PROVE OneRecord'
  BY <1>1, <1>8 DEF PlainLine, proc
<1>9. ASSUME NEW g \in Gens, NEW line \in Lines, NEW k \in Stoppers, FatalLine(g, line, k)
      PROVE  OneRecord'
  BY <1>1, <1>9 DEF FatalLine, proc
<1>10. CASE UNCHANGED vars
  BY <1>1, <1>10 DEF vars
<1> QED
  BY <1>2, <1>3, <1>4, <1>5, <1>6, <1>7, <1>8, <1>9, <1>10 DEF Next

(* Every step keeps hold of each live worker. *)
LEMMA ChildStepKeeps == SInv /\ [Next]_vars => NoStrayChild'
<1> SUFFICES ASSUME SInv, [Next]_vars PROVE NoStrayChild'
  OBVIOUS
<1> USE SupervisorAssumption DEF SInv
<1>1. ASSUME started' = started, cur' = cur, gen' = gen,
             starter.pc = "register" => starter'.pc = "register",
             \A g \in Gens : child'[g] = "live" => child[g] = "live",
             \A g \in Gens : Doomed(g) => Doomed(g)'
      PROVE  NoStrayChild'
  BY <1>1 DEF NoStrayChild
<1>2. ASSUME stop' = stop PROVE \A g \in Gens : Doomed(g) => Doomed(g)'
  BY <1>2 DEF Doomed
<1>3. ASSUME NEW k \in Stoppers, NEW r, stop[k].pc # "kill", stop' = [stop EXCEPT ![k] = r]
      PROVE  \A g \in Gens : Doomed(g) => Doomed(g)'
  BY <1>3 DEF Doomed, TypeOK
<1>4. CASE StartBegin \/ Detected
  BY <1>1, <1>2, <1>4 DEF StartBegin, Detected, NoStarter, proc
<1>5. CASE StarterStep
  <2>1. CASE Spawn
    BY <1>2, <2>1 DEF Spawn, StarterAlone, NoStrayChild, Gens, TypeOK, proc
  <2>2. CASE Register
    BY <1>2, <2>2 DEF Register, StarterAlone, NoStrayChild, Gens, TypeOK
  <2>3. CASE SpawnFails
    BY <1>2, <2>3 DEF SpawnFails, StarterAlone, NoStrayChild
  <2>4. CASE StartRefused \/ StartSaved \/ StartArm \/ StartFailed
    BY <1>1, <1>2, <2>4 DEF StartRefused, StartSaved, StartArm, StartFailed, proc
  <2> QED BY <1>5, <2>1, <2>2, <2>3, <2>4 DEF StarterStep
<1>6. ASSUME NEW g \in Gens, WaiterStep(g) PROVE NoStrayChild'
  <2>1. CASE Reap(g)
    BY <1>2, <2>1 DEF Reap, Mine, NoStrayChild, OneRecord, TypeOK
  <2>2. CASE Settle(g) \/ SettleIdle(g) \/ AutoRestartRefused(g)
    BY <1>1, <1>2, <2>2 DEF Settle, SettleIdle, AutoRestartRefused, proc
  <2>3. CASE AutoRestart(g)
    BY <1>1, <1>2, <2>3 DEF AutoRestart, NoStarter, proc
  <2> QED BY <1>6, <2>1, <2>2, <2>3 DEF WaiterStep
<1>7. ASSUME NEW g \in Gens, ChildDies(g) \/ ScannerEnds(g) PROVE NoStrayChild'
  BY <1>1, <1>2, <1>7 DEF ChildDies, ScannerEnds, TypeOK, proc
<1>8. ASSUME NEW k \in Stoppers, StopBegin(k) \/ LookBegin(k) PROVE NoStrayChild'
  BY <1>1, <1>3, <1>8 DEF StopBegin, LookBegin, NoStop, proc
<1>9. ASSUME NEW k \in Stoppers, StopServiceProcess(k) PROVE NoStrayChild'
  <2>1. ASSUME NEW g \in Gens, Doomed(g) PROVE Doomed(g)'
    BY <1>9, <2>1 DEF StopServiceProcess, Doomed, TypeOK
  <2>2. ASSUME NEW g \in Gens, started, cur = g PROVE Doomed(g)'
    BY <1>9, <2>2 DEF StopServiceProcess, Doomed, TypeOK
  <2>3. child' = child /\ starter' = starter /\ gen' = gen
    BY <1>9 DEF StopServiceProcess
  <2> QED BY <2>1, <2>2, <2>3 DEF NoStrayChild
<1>10. ASSUME NEW k \in Stoppers, Kill(k) PROVE NoStrayChild'
  <2>1. ASSUME NEW g \in Gens, child'[g] = "live"
        PROVE  child[g] = "live" /\ stop[k].victim # g
    BY <1>10, <2>1 DEF Kill, Gens, TypeOK
  <2>2. ASSUME NEW g \in Gens, child'[g] = "live", Doomed(g) PROVE Doomed(g)'
    BY <1>10, <2>1, <2>2 DEF Kill, Doomed, TypeOK
  <2>3. started' = started /\ cur' = cur /\ gen' = gen /\ starter' = starter
    BY <1>10 DEF Kill, proc
  <2> QED BY <2>1, <2>2, <2>3 DEF NoStrayChild
<1>11. ASSUME NEW k \in Stoppers, Look(k) \/ StopMark(k) \/ StopDisarm(k) \/ StopIdle(k)
       PROVE  NoStrayChild'
  <2>1. \A g \in Gens : Doomed(g) => Doomed(g)'
    BY <1>11 DEF Look, StopMark, StopDisarm, StopIdle, Doomed, TypeOK
  <2> QED BY <1>1, <1>11, <2>1 DEF Look, StopMark, StopDisarm, StopIdle, proc
<1>12. ASSUME NEW g \in Gens, NEW line \in Lines, PlainLine(g, line) PROVE NoStrayChild'
  BY <1>1, <1>2, <1>12 DEF PlainLine, proc
<1>13. ASSUME NEW g \in Gens, NEW line \in Lines, NEW k \in Stoppers, FatalLine(g, line, k)
       PROVE  NoStrayChild'
  <2>1. stop[k].pc # "kill"
    BY <1>13 DEF FatalLine, NoStop
  <2>2. \A h \in Gens : Doomed(h) => Doomed(h)'
    BY <1>3, <1>13, <2>1 DEF FatalLine
  <2>3. started' = started /\ cur' = cur /\ gen' = gen /\ starter' = starter /\ child' = child
    BY <1>13 DEF FatalLine, proc
  <2> QED BY <1>1, <2>2, <2>3
<1>14. CASE UNCHANGED vars
  BY <1>1, <1>2, <1>14 DEF vars
<1> QED
  BY <1>4, <1>5, <1>6, <1>7, <1>8, <1>9, <1>10, <1>11, <1>12, <1>13, <1>14
  DEF Next, StopperStep

LEMMA SInvariant == Spec => []SInv
<1>1. Init => SInv
  <2> SUFFICES ASSUME Init PROVE SInv
    OBVIOUS
  <2> USE SupervisorAssumption
  <2>1. stop \in [Stoppers -> StopRec]
    BY Records DEF Init
  <2>2. TypeOK
    <3>1. started \in BOOLEAN /\ autoRestart \in BOOLEAN
      BY DEF Init
    <3>2. cur \in 0..MaxGen /\ gen \in 0..MaxGen /\ pidFile \in 0..MaxGen
      BY DEF Init
    <3>3. status \in Status /\ scanner \subseteq Gens
      BY DEF Init, Status
    <3>4. /\ child \in [Gens -> {"none", "live", "dead", "reaped"}]
          /\ waiter \in [Gens -> {"none", "wait", "restart", "settle", "idle", "done"}]
      BY DEF Init
    <3>5. starter \in StarterRec
      BY Records DEF Init
    <3> QED BY <2>1, <3>1, <3>2, <3>3, <3>4, <3>5 DEF TypeOK
  <2>3. StarterAlone /\ OneRecord /\ NoStrayChild
    BY DEF Init, StarterAlone, OneRecord, NoStrayChild, NoStarter
  <2> QED BY <2>2, <2>3 DEF SInv
<1>2. SInv /\ [Next]_vars => SInv'
  BY TypeStep, StarterStepKeeps, RecordStepKeeps, ChildStepKeeps DEF SInv
<1> QED BY <1>1, <1>2, PTL DEF Spec

(* TypeOK holds throughout; in particular the UI never shows a status that *)
(* is none of the nine it knows.                                           *)
THEOREM TypeCorrect == Spec => []TypeOK
<1>1. SInv => TypeOK
  BY DEF SInv
<1> QED BY <1>1, SInvariant, PTL

(* However starts, stops, automatic restarts and exits interleave, svcProc *)
(* and the pid file describe one generation or none.                       *)
THEOREM RecordConsistent == Spec => []OneRecord
<1>1. SInv => OneRecord
  BY DEF SInv
<1> QED BY <1>1, SInvariant, PTL

(* No worker process is ever forgotten by the supervisor while it lives.   *)
THEOREM NoWorkerLost == Spec => []NoStrayChild
<1>1. SInv => NoStrayChild
  BY DEF SInv
<1> QED BY <1>1, SInvariant, PTL

(* Of the live workers at most one is not already being killed: a restart  *)
(* never doubles the service.                                              *)
AtMostOneWorker ==
    \A g, h \in Gens :
      (child[g] = "live" /\ ~Doomed(g) /\ child[h] = "live" /\ ~Doomed(h)) => g = h

THEOREM WorkersNotDoubled == Spec => []AtMostOneWorker
<1>1. SInv => AtMostOneWorker
  <2> SUFFICES ASSUME SInv, NEW g \in Gens, NEW h \in Gens,
                      child[g] = "live", ~Doomed(g), child[h] = "live", ~Doomed(h)
               PROVE  g = h
    BY DEF AtMostOneWorker
  <2>1. CASE started
    BY <2>1 DEF SInv, StarterAlone, NoStrayChild
  <2>2. CASE ~started
    BY <2>2 DEF SInv, NoStrayChild
  <2> QED BY <2>1, <2>2
<1> QED BY <1>1, SInvariant, PTL
=============================================================================
