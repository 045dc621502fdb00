--------------------------- MODULE WorkersProofs ---------------------------
(***************************************************************************)
(* Proofs about Workers, for any number of services, processes and UIs,    *)
(* any number of starts and however process numbers are used again.        *)
(*                                                                         *)
(* Recorded is not inductive: that a waiter which finds its generation     *)
(* current may delete the pid file needs that its process is the one the   *)
(* record names (WaitersFit), that nobody registers over a command still   *)
(* recorded needs startMu (StartAlone), and both need that process numbers *)
(* are not handed out again before Wait has returned (Held).               *)
(***************************************************************************)
EXTENDS Workers, FiniteSetTheorems, TLAPS

(* CheckSingleInstance lets one UI through. *)
OneOwner == \A u, v \in Owners : u = v

(* What is in memory is in the memory of a UI that serves.                 *)
Served ==
    ~SomeoneServes => /\ start = NoStart /\ del = NoDel
                      /\ stops = {} /\ kills = {} /\ waiters = {} /\ restarts = {}

(* The holder of startMu works on a service that is not started, and holds *)
(* a process once it has spawned one.                                      *)
StartAlone ==
    /\ start.step # "none" => start.svc \in Services /\ ~rec[start.svc].started
    /\ start.step # "spawned" => start.pid = None

DelFits ==
    /\ del.step # "none" => del.svc \in Services
    /\ del.step \in {"removed", "forgotten"} => del.svc \notin exists

(* A process somebody will wait for, or is about to register, stays in the *)
(* table; it has one waiter.                                               *)
HeldBy(p) == proc[p].kind \in {"worker", "zombie"} /\ proc[p].ui \in Owners

Held ==
    /\ \A w \in waiters : HeldBy(w.pid)
    /\ \A v, w \in waiters : v.pid = w.pid => v = w
    /\ start.step = "spawned" =>
         /\ start.pid \in Pids /\ HeldBy(start.pid)
         /\ proc[start.pid].svc = start.svc
         /\ \A w \in waiters : w.pid # start.pid

(* A worker belongs to a service and to a UI that serves or has ended.     *)
WorkersKnown ==
    \A p \in Pids : Alive(p) =>
        /\ proc[p].svc \in Services /\ proc[p].ui \in UIs
        /\ phase[proc[p].ui] \in Serving \cup {"gone"}

(* Generations only grow as long as a service exists, and the current one  *)
(* is that of the recorded command.                                        *)
WaitersFit ==
    \A w \in waiters : w.svc \in exists =>
        /\ w.gen <= rec[w.svc].gen
        /\ w.gen = rec[w.svc].gen => rec[w.svc].cmd \in {w.pid, None}

CmdStarted == \A s \in exists : rec[s].cmd # None => rec[s].started

AllFindable ==
    \A p \in Pids :
        Alive(p) /\ proc[p].ui \in Owners /\ proc[p].svc \in exists => Findable(p)

(* The clean-up is that of a UI that has the mutex and does not run. When  *)
(* it is about to kill another program's process, that took the number     *)
(* after processImageMatches.                                              *)
AtFile == clean.step \in {"alive", "image", "kill"}

CleanFits ==
    /\ clean.step # "none" => /\ clean.ui \in UIs
                              /\ phase[clean.ui] \in {"locked", "killed", "killed2"}
    /\ AtFile => clean.svc \in Services \ clean.left /\ clean.pid \in Pids
    /\ clean.step = "kill" /\ proc[clean.pid].kind = "foreign" => clean.raced

WInv ==
    /\ TypeOK /\ AllFindable /\ OneOwner /\ Served /\ StartAlone /\ DelFits /\ Held
    /\ WorkersKnown /\ WaitersFit /\ CmdStarted /\ CleanFits

(* A worker whose UI has ended is on file until a UI has cleaned up, or is *)
(* one of the exceptions: during a clean-up its file is still to be read,  *)
(* or being dealt with.                                                    *)
OnFile(s, p) ==
    /\ pidfile[s] = p
    /\ clean.step = "none" \/ s \in clean.left
         \/ (AtFile /\ clean.svc = s /\ clean.pid = p)

OrphansFiled ==
    \A p \in Pids : Alive(p) /\ proc[p].ui \notin Owners =>
        p \in lost \/ (~SomeoneServes /\ \E s \in Services : OnFile(s, p))

-----------------------------------------------------------------------------
(* Phases *)

(* Who has the mutex and who serves depends on the phases alone.           *)
LEMMA SamePhase ==
    ASSUME phase' = phase
    PROVE  /\ Owners' = Owners /\ (SomeoneServes' <=> SomeoneServes)
           /\ Me' = Me
BY DEF Owners, SomeoneServes, Me

(* A UI that serves has the mutex, so Me is it. *)
LEMMA MeOwns ==
    ASSUME SomeoneServes
    PROVE  Me \in UIs /\ phase[Me] \in Serving /\ Me \in Owners
<1>1. Me \in UIs /\ phase[Me] \in Serving
  BY DEF SomeoneServes, Me
<1> QED BY <1>1 DEF Owners

(* One owner is at most one element. *)
LEMMA OneOwnerCounts == OneOwner => Cardinality(Owners) <= 1
<1> SUFFICES ASSUME OneOwner PROVE Cardinality(Owners) <= 1
  OBVIOUS
<1>1. CASE Owners = {}
  BY <1>1, FS_EmptySet
<1>2. ASSUME NEW u \in Owners PROVE Cardinality(Owners) <= 1
  <2>1. Owners = {u}
    BY <1>2 DEF OneOwner
  <2>2. Cardinality({u}) = 1
    BY FS_Singleton
  <2> QED BY <2>1, <2>2
<1> QED BY <1>1, <1>2

-----------------------------------------------------------------------------
(* Processes *)

ProcRec == [kind : {"free", "worker", "zombie", "foreign"},
            svc : Services \cup {None}, ui : UIs \cup {None}]

(* A process that is killed is no worker any more; one that its UI holds   *)
(* stays in the table as it was otherwise.                                 *)
LEMMA KilledIs ==
    ASSUME TypeOK, NEW p \in Pids
    PROVE  /\ Killed(p) \in ProcRec /\ Killed(p).kind \in {"zombie", "free"}
           /\ HeldBy(p) => /\ Killed(p).kind = "zombie"
                           /\ Killed(p).ui = proc[p].ui /\ Killed(p).svc = proc[p].svc
<1>1. proc[p] \in ProcRec
  BY DEF TypeOK, ProcRec
<1>2. CASE Alive(p) /\ proc[p].ui \in Owners
  <2>1. Killed(p) = [proc[p] EXCEPT !.kind = "zombie"]
    BY <1>2 DEF Killed
  <2> QED BY <1>1, <2>1 DEF ProcRec
<1>3. CASE ~(Alive(p) /\ proc[p].ui \in Owners) /\ proc[p].kind = "zombie"
  <2>1. Killed(p) = proc[p]
    BY <1>3 DEF Killed
  <2> QED BY <1>1, <1>3, <2>1
<1>4. CASE ~(Alive(p) /\ proc[p].ui \in Owners) /\ proc[p].kind # "zombie"
  <2>1. Killed(p) = Free
    BY <1>4 DEF Killed
  <2>2. ~HeldBy(p)
    BY <1>4 DEF HeldBy, Alive
  <2> QED BY <2>1, <2>2 DEF Free, ProcRec
<1> QED BY <1>2, <1>3, <1>4

-----------------------------------------------------------------------------
(* The UI in service *)

RecRec == [cmd : Pids \cup {None}, gen : Nat, started : BOOLEAN, auto : BOOLEAN]
StartRec == [svc : Services \cup {None}, pid : Pids \cup {None},
             step : {"none", "checked", "armed", "spawned"}]
CleanRec == [ui : UIs \cup {None}, left : SUBSET Services,
             svc : Services \cup {None}, pid : Pids \cup {None},
             step : {"none", "list", "alive", "image", "kill"}, raced : BOOLEAN]
DelRec == [svc : Services \cup {None},
           step : {"none", "checked", "removed", "forgotten"}]

(* Starting keeps the invariant. *)
LEMMA StartStep ==
    ASSUME WInv, UNCHANGED <<phase, proc, clean>>,
           \/ \E s \in Services : StartChecks(s) \/ RestartBegins(s)
           \/ StartArms \/ SpawnFails \/ Registers
    PROVE  WInv'
<1> USE WorkersAssumption
<1>t. /\ TypeOK /\ AllFindable /\ OneOwner /\ Served /\ StartAlone /\ DelFits /\ Held
      /\ WorkersKnown /\ WaitersFit /\ CmdStarted /\ CleanFits
  BY DEF WInv
<1>u. /\ proc \in [Pids -> ProcRec] /\ pidfile \in [Services -> Pids \cup {None}]
      /\ rec \in [Services -> RecRec] /\ start \in StartRec /\ del \in DelRec
      /\ exists \subseteq Services /\ stops \subseteq Services
      /\ kills \subseteq [svc : Services, pid : Pids \cup {None}]
      /\ waiters \subseteq [svc : Services, gen : Nat, pid : Pids]
  BY <1>t DEF TypeOK, ProcRec, RecRec, StartRec, DelRec
<1>o. /\ Owners' = Owners /\ (SomeoneServes' <=> SomeoneServes)
      /\ phase' = phase /\ proc' = proc /\ clean' = clean
  BY SamePhase
<1>h. OneOwner' /\ WorkersKnown' /\ CleanFits'
  BY <1>o, <1>t DEF OneOwner, WorkersKnown, Alive, CleanFits, AtFile
<1>1. ASSUME NEW s \in Services, StartChecks(s) PROVE WInv'
  <2>10. TypeOK'
    BY <1>1, <1>t, <1>u, <1>o DEF StartChecks, NoStart, TypeOK, ProcRec, RecRec, StartRec, DelRec, memory
  <2>11. Served'
    BY <1>1, <1>t, <1>u, <1>o DEF StartChecks, NoStart, Served
  <2>12. StartAlone'
    BY <1>1, <1>t, <1>u, <1>o DEF StartChecks, NoStart, StartAlone
  <2>13. DelFits'
    BY <1>1, <1>t, <1>u, <1>o DEF StartChecks, NoStart, DelFits
  <2>14. Held'
    BY <1>1, <1>t, <1>u, <1>o DEF StartChecks, NoStart, Held, HeldBy
  <2>15. WaitersFit'
    BY <1>1, <1>t, <1>u, <1>o DEF StartChecks, NoStart, WaitersFit
  <2>16. CmdStarted'
    BY <1>1, <1>t, <1>u, <1>o DEF StartChecks, NoStart, CmdStarted
  <2>17. AllFindable'
    BY <1>1, <1>t, <1>u, <1>o DEF StartChecks, NoStart, AllFindable, Findable, Alive
  <2> QED BY <1>h, <2>10, <2>11, <2>12, <2>13, <2>14, <2>15, <2>16, <2>17 DEF WInv
<1>2. ASSUME NEW s \in Services, RestartBegins(s) PROVE WInv'
  <2>10. TypeOK'
    BY <1>2, <1>t, <1>u, <1>o DEF RestartBegins, NoStart, TypeOK, ProcRec, RecRec, StartRec, DelRec, memory
  <2>11. Served'
    BY <1>2, <1>t, <1>u, <1>o DEF RestartBegins, NoStart, Served
  <2>12. StartAlone'
    BY <1>2, <1>t, <1>u, <1>o DEF RestartBegins, NoStart, StartAlone
  <2>13. DelFits'
    BY <1>2, <1>t, <1>u, <1>o DEF RestartBegins, NoStart, DelFits
  <2>14. Held'
    BY <1>2, <1>t, <1>u, <1>o DEF RestartBegins, NoStart, Held, HeldBy
  <2>15. WaitersFit'
    BY <1>2, <1>t, <1>u, <1>o DEF RestartBegins, NoStart, WaitersFit
  <2>16. CmdStarted'
    BY <1>2, <1>t, <1>u, <1>o DEF RestartBegins, NoStart, CmdStarted
  <2>17. AllFindable'
    BY <1>2, <1>t, <1>u, <1>o DEF RestartBegins, NoStart, AllFindable, Findable, Alive
  <2> QED BY <1>h, <2>10, <2>11, <2>12, <2>13, <2>14, <2>15, <2>16, <2>17 DEF WInv
<1>3. CASE StartArms
  <2>1. start.svc \in Services
    BY <1>3, <1>t DEF StartArms, StartAlone
  <2>2. /\ rec' \in [Services -> RecRec]
        /\ \A x \in Services : /\ rec'[x].cmd = rec[x].cmd /\ rec'[x].gen = rec[x].gen
                               /\ rec'[x].started = rec[x].started
    <3>1. rec' = [rec EXCEPT ![start.svc] = [rec[start.svc] EXCEPT !.auto = TRUE]]
      BY <1>3 DEF StartArms
    <3>2. rec[start.svc] \in RecRec
      BY <1>u, <2>1
    <3>3. LET r == [rec[start.svc] EXCEPT !.auto = TRUE]
          IN  /\ r \in RecRec /\ r.cmd = rec[start.svc].cmd
              /\ r.gen = rec[start.svc].gen /\ r.started = rec[start.svc].started
      BY <3>2 DEF RecRec
    <3> QED BY <1>u, <2>1, <3>1, <3>3
  <2>10. TypeOK'
    BY <1>3, <1>t, <1>u, <1>o, <2>1, <2>2 DEF StartArms, NoStart, TypeOK, ProcRec, RecRec, StartRec, DelRec, memory
  <2>11. Served'
    BY <1>3, <1>t, <1>u, <1>o, <2>1, <2>2 DEF StartArms, NoStart, Served
  <2>12. StartAlone'
    BY <1>3, <1>t, <1>u, <1>o, <2>1, <2>2 DEF StartArms, NoStart, StartAlone
  <2>13. DelFits'
    BY <1>3, <1>t, <1>u, <1>o, <2>1, <2>2 DEF StartArms, NoStart, DelFits
  <2>14. Held'
    BY <1>3, <1>t, <1>u, <1>o, <2>1, <2>2 DEF StartArms, NoStart, Held, HeldBy
  <2>15. WaitersFit'
    BY <1>3, <1>t, <1>u, <1>o, <2>1, <2>2 DEF StartArms, NoStart, WaitersFit
  <2>16. CmdStarted'
    BY <1>3, <1>t, <1>u, <1>o, <2>1, <2>2 DEF StartArms, NoStart, CmdStarted
  <2>17. AllFindable'
    BY <1>3, <1>t, <1>u, <1>o, <2>1, <2>2 DEF StartArms, NoStart, AllFindable, Findable, Alive
  <2> QED BY <1>h, <2>10, <2>11, <2>12, <2>13, <2>14, <2>15, <2>16, <2>17 DEF WInv
<1>4. CASE SpawnFails
  <2>1. start.svc \in Services /\ ~rec[start.svc].started /\ start.pid = None
    BY <1>4, <1>t DEF SpawnFails, StartAlone
  <2>2. /\ rec' \in [Services -> RecRec]
        /\ \A x \in Services : /\ rec'[x].cmd = rec[x].cmd /\ rec'[x].gen = rec[x].gen
                               /\ x # start.svc => rec'[x].started = rec[x].started
    <3>1. rec' = [rec EXCEPT ![start.svc] = [rec[start.svc] EXCEPT !.started = FALSE,
                                                                 !.auto = FALSE]]
      BY <1>4, <1>u, <2>1 DEF SpawnFails
    <3>2. rec[start.svc] \in RecRec
      BY <1>u, <2>1
    <3>3. LET r == [rec[start.svc] EXCEPT !.started = FALSE, !.auto = FALSE]
          IN  /\ r \in RecRec /\ r.cmd = rec[start.svc].cmd
              /\ r.gen = rec[start.svc].gen /\ ~r.started
      BY <3>2 DEF RecRec
    <3> QED BY <1>u, <2>1, <3>1, <3>3
  <2>10. TypeOK'
    BY <1>4, <1>t, <1>u, <1>o, <2>1, <2>2 DEF SpawnFails, NoStart, TypeOK, ProcRec, RecRec, StartRec, DelRec, memory
  <2>11. Served'
    BY <1>4, <1>t, <1>u, <1>o, <2>1, <2>2 DEF SpawnFails, NoStart, Served
  <2>12. StartAlone'
    BY <1>4, <1>t, <1>u, <1>o, <2>1, <2>2 DEF SpawnFails, NoStart, StartAlone
  <2>13. DelFits'
    BY <1>4, <1>t, <1>u, <1>o, <2>1, <2>2 DEF SpawnFails, NoStart, DelFits
  <2>14. Held'
    BY <1>4, <1>t, <1>u, <1>o, <2>1, <2>2 DEF SpawnFails, NoStart, Held, HeldBy
  <2>15. WaitersFit'
    BY <1>4, <1>t, <1>u, <1>o, <2>1, <2>2 DEF SpawnFails, NoStart, WaitersFit
  <2>16. CmdStarted'
    BY <1>4, <1>t, <1>u, <1>o, <2>1, <2>2 DEF SpawnFails, NoStart, CmdStarted
  <2>17. AllFindable'
    BY <1>4, <1>t, <1>u, <1>o, <2>1, <2>2 DEF SpawnFails, NoStart, AllFindable, Findable, Alive
  <2> QED BY <1>h, <2>10, <2>11, <2>12, <2>13, <2>14, <2>15, <2>16, <2>17 DEF WInv
<1>5. CASE Registers
  <2>1. /\ start.svc \in Services /\ ~rec[start.svc].started /\ start.pid \in Pids
        /\ HeldBy(start.pid) /\ proc[start.pid].svc = start.svc
    BY <1>5, <1>t DEF Registers, StartAlone, Held
  <2>2. /\ rec' \in [Services -> RecRec]
        /\ \A x \in Services : x # start.svc => rec'[x] = rec[x]
        /\ rec'[start.svc].cmd = start.pid /\ rec'[start.svc].started
        /\ rec'[start.svc].gen = rec[start.svc].gen + 1 /\ rec[start.svc].gen \in Nat
    <3>1. rec' = [rec EXCEPT ![start.svc] =
                    [rec[start.svc] EXCEPT !.cmd = start.pid,
                                           !.gen = rec[start.svc].gen + 1,
                                           !.started = TRUE]]
      BY <1>5 DEF Registers
    <3>2. rec[start.svc] \in RecRec
      BY <1>u, <2>1
    <3>3. LET r == [rec[start.svc] EXCEPT !.cmd = start.pid,
                                          !.gen = rec[start.svc].gen + 1,
                                          !.started = TRUE]
          IN  /\ r \in RecRec /\ r.cmd = start.pid /\ r.started
              /\ r.gen = rec[start.svc].gen + 1 /\ rec[start.svc].gen \in Nat
      <4>1. rec[start.svc].gen \in Nat /\ rec[start.svc].gen + 1 \in Nat
        BY <3>2 DEF RecRec
      <4>2. start.pid \in Pids \cup {None}
        BY <2>1
      <4> QED BY <3>2, <4>1, <4>2 DEF RecRec
    <3> QED BY <1>u, <2>1, <3>1, <3>3
  <2>3. waiters' = waiters \cup {[svc |-> start.svc, gen |-> rec[start.svc].gen + 1,
                                  pid |-> start.pid]}
    BY <1>5 DEF Registers
  <2>4. /\ pidfile' \in [Services -> Pids \cup {None}]
        /\ pidfile'[start.svc] = start.pid \/ start.pid \in lost'
        /\ \A x \in Services : x # start.svc => pidfile'[x] = pidfile[x]
        /\ lost \subseteq lost' /\ lost' \subseteq Pids
    <3>1. lost \subseteq Pids
      BY <1>t DEF TypeOK
    <3>2. CASE pidfile' = PidWritten(start.svc, start.pid) /\ lost' = lost
      BY <1>u, <2>1, <3>1, <3>2 DEF PidWritten
    <3>3. CASE lost' = lost \cup {start.pid} /\ pidfile' = pidfile
      BY <1>u, <2>1, <3>1, <3>3
    <3> QED BY <1>5, <3>2, <3>3 DEF Registers
  <2>10. TypeOK'
    BY <1>5, <1>t, <1>u, <1>o, <2>1, <2>2, <2>3, <2>4 DEF Registers, NoStart, TypeOK, ProcRec, RecRec, StartRec, DelRec, memory
  <2>11. Served'
    BY <1>5, <1>t, <1>u, <1>o, <2>1, <2>2, <2>3, <2>4 DEF Registers, NoStart, Served
  <2>12. StartAlone'
    BY <1>5, <1>t, <1>u, <1>o, <2>1, <2>2, <2>3, <2>4 DEF Registers, NoStart, StartAlone
  <2>13. DelFits'
    BY <1>5, <1>t, <1>u, <1>o, <2>1, <2>2, <2>3, <2>4 DEF Registers, NoStart, DelFits
  <2>14. Held'
    BY <1>5, <1>t, <1>u, <1>o, <2>1, <2>2, <2>3, <2>4 DEF Registers, NoStart, Held, HeldBy
  <2>15. WaitersFit'
    BY <1>5, <1>t, <1>u, <1>o, <2>1, <2>2, <2>3, <2>4 DEF Registers, NoStart, WaitersFit
  <2>16. CmdStarted'
    BY <1>5, <1>t, <1>u, <1>o, <2>1, <2>2, <2>3, <2>4 DEF Registers, NoStart, CmdStarted
  <2>17. AllFindable'
    <3> SUFFICES ASSUME NEW p \in Pids, Alive(p), proc[p].ui \in Owners,
                        proc[p].svc \in exists
                 PROVE  Findable(p)'
      BY <1>5, <1>o DEF Registers, AllFindable, Alive
    <3>0. Findable(p) /\ kills' = kills /\ proc[p].svc \in Services
      BY <1>5, <1>t, <1>u DEF Registers, AllFindable
    <3>1. CASE p = start.pid
      <4>1. proc[p].svc = start.svc
        BY <2>1, <3>1
      <4> QED BY <1>o, <2>2, <2>4, <3>1, <4>1 DEF Findable
    <3>2. CASE p # start.pid /\ \E k \in kills : k.pid = p
      BY <3>0, <3>2 DEF Findable
    <3>3. CASE p # start.pid /\ ~\E k \in kills : k.pid = p
      <4>1. rec[proc[p].svc].cmd = p /\ p # None
        BY <3>0, <3>3 DEF Findable
      <4>2. proc[p].svc # start.svc
        BY <1>t, <2>1, <4>1 DEF CmdStarted
      <4> QED BY <1>o, <2>2, <2>4, <3>0, <3>3, <4>1, <4>2 DEF Findable
    <3> QED BY <3>1, <3>2, <3>3
  <2> QED BY <1>h, <2>10, <2>11, <2>12, <2>13, <2>14, <2>15, <2>16, <2>17 DEF WInv
<1> QED BY <1>1, <1>2, <1>3, <1>4, <1>5

(* Stopping and reporting keep the invariant.                              *)
LEMMA StopStep ==
    ASSUME WInv, UNCHANGED <<phase, proc, clean>>,
           \/ \E s \in Services : StopMarks(s) \/ StopTakes(s)
           \/ \E p \in Pids : Reports(p)
    PROVE  WInv'
<1> USE WorkersAssumption
<1>t. /\ TypeOK /\ AllFindable /\ OneOwner /\ Served /\ StartAlone /\ DelFits /\ Held
      /\ WorkersKnown /\ WaitersFit /\ CmdStarted /\ CleanFits
  BY DEF WInv
<1>u. /\ proc \in [Pids -> ProcRec] /\ pidfile \in [Services -> Pids \cup {None}]
      /\ rec \in [Services -> RecRec] /\ start \in StartRec /\ del \in DelRec
      /\ exists \subseteq Services /\ stops \subseteq Services
      /\ kills \subseteq [svc : Services, pid : Pids \cup {None}]
      /\ waiters \subseteq [svc : Services, gen : Nat, pid : Pids]
  BY <1>t DEF TypeOK, ProcRec, RecRec, StartRec, DelRec
<1>o. /\ Owners' = Owners /\ (SomeoneServes' <=> SomeoneServes)
      /\ phase' = phase /\ proc' = proc /\ clean' = clean
  BY SamePhase
<1>h. OneOwner' /\ WorkersKnown' /\ CleanFits'
  BY <1>o, <1>t DEF OneOwner, WorkersKnown, Alive, CleanFits, AtFile
<1>1. ASSUME NEW s \in Services, StopMarks(s) PROVE WInv'
  <2>2. /\ rec' \in [Services -> RecRec]
        /\ \A x \in Services : /\ rec'[x].cmd = rec[x].cmd /\ rec'[x].gen = rec[x].gen
                               /\ rec'[x].started = rec[x].started
    BY <1>1, <1>u DEF StopMarks, RecRec
  <2>10. TypeOK'
    BY <1>1, <1>t, <1>u, <1>o, <2>2 DEF StopMarks, TypeOK, ProcRec, RecRec, StartRec, DelRec, memory
  <2>11. Served'
    BY <1>1, <1>t, <1>u, <1>o, <2>2 DEF StopMarks, Served
  <2>12. StartAlone'
    BY <1>1, <1>t, <1>u, <1>o, <2>2 DEF StopMarks, StartAlone
  <2>13. DelFits'
    BY <1>1, <1>t, <1>u, <1>o, <2>2 DEF StopMarks, DelFits
  <2>14. Held'
    BY <1>1, <1>t, <1>u, <1>o, <2>2 DEF StopMarks, Held, HeldBy
  <2>15. WaitersFit'
    BY <1>1, <1>t, <1>u, <1>o, <2>2 DEF StopMarks, WaitersFit
  <2>16. CmdStarted'
    BY <1>1, <1>t, <1>u, <1>o, <2>2 DEF StopMarks, CmdStarted
  <2>17. AllFindable'
    BY <1>1, <1>t, <1>u, <1>o, <2>2 DEF StopMarks, AllFindable, Findable, Alive
  <2> QED BY <1>h, <2>10, <2>11, <2>12, <2>13, <2>14, <2>15, <2>16, <2>17 DEF WInv
<1>2. ASSUME NEW s \in Services, StopTakes(s) PROVE WInv'
  <2>2. /\ rec' \in [Services -> RecRec]
        /\ \A x \in Services : x # s => rec'[x] = rec[x]
        /\ rec'[s].cmd = None /\ rec'[s].gen = rec[s].gen /\ ~rec'[s].started
    <3>1. rec' = [rec EXCEPT ![s] = [rec[s] EXCEPT !.cmd = None, !.started = FALSE,
                                                   !.auto = FALSE]]
      BY <1>2, <1>u DEF StopTakes
    <3>2. rec[s] \in RecRec
      BY <1>u
    <3>3. LET r == [rec[s] EXCEPT !.cmd = None, !.started = FALSE, !.auto = FALSE]
          IN  /\ r \in RecRec /\ r.cmd = None /\ r.gen = rec[s].gen /\ ~r.started
      BY <3>2 DEF RecRec
    <3> QED BY <1>u, <3>1, <3>3
  <2>3. /\ pidfile' \in [Services -> Pids \cup {None}]
        /\ \A x \in Services : x # s => pidfile'[x] = pidfile[x]
    BY <1>2, <1>u DEF StopTakes
  <2>4. /\ kills' = kills \cup {[svc |-> s, pid |-> rec[s].cmd]}
        /\ kills' \subseteq [svc : Services, pid : Pids \cup {None}]
    <3>1. rec[s].cmd \in Pids \cup {None}
      BY <1>u DEF RecRec
    <3>2. [svc |-> s, pid |-> rec[s].cmd] \in [svc : Services, pid : Pids \cup {None}]
      BY <3>1
    <3>3. kills' = kills \cup {[svc |-> s, pid |-> rec[s].cmd]}
      BY <1>2 DEF StopTakes
    <3> QED BY <1>u, <3>2, <3>3
  <2>10. TypeOK'
    <3>1. /\ stops' \subseteq Services
          /\ UNCHANGED <<phase, proc, exists, busy, start, waiters, restarts, del, lost>>
      BY <1>2, <1>u DEF StopTakes
    <3> QED BY <1>t, <2>2, <2>3, <2>4, <3>1 DEF TypeOK, RecRec
  <2>11. Served'
    BY <1>2, <1>t, <1>u, <1>o, <2>2, <2>3, <2>4 DEF StopTakes, Served
  <2>12. StartAlone'
    BY <1>2, <1>t, <1>u, <1>o, <2>2, <2>3, <2>4 DEF StopTakes, StartAlone
  <2>13. DelFits'
    BY <1>2, <1>t, <1>u, <1>o, <2>2, <2>3, <2>4 DEF StopTakes, DelFits
  <2>14. Held'
    BY <1>2, <1>t, <1>u, <1>o, <2>2, <2>3, <2>4 DEF StopTakes, Held, HeldBy
  <2>15. WaitersFit'
    BY <1>2, <1>t, <1>u, <1>o, <2>2, <2>3, <2>4 DEF StopTakes, WaitersFit
  <2>16. CmdStarted'
    BY <1>2, <1>t, <1>u, <1>o, <2>2, <2>3, <2>4 DEF StopTakes, CmdStarted
  <2>17. AllFindable'
    <3> SUFFICES ASSUME NEW p \in Pids, Alive(p), proc[p].ui \in Owners,
                        proc[p].svc \in exists
                 PROVE  Findable(p)'
      BY <1>2, <1>o DEF StopTakes, AllFindable, Alive
    <3>0. Findable(p) /\ start' = start /\ lost' = lost /\ proc[p].svc \in Services
      BY <1>2, <1>t, <1>u DEF StopTakes, AllFindable
    <3>1. CASE start.pid = p
      BY <3>0, <3>1 DEF Findable
    <3>2. CASE \E k \in kills : k.pid = p
      BY <2>4, <3>2 DEF Findable
    <3>3. CASE /\ rec[proc[p].svc].cmd = p
               /\ phase[proc[p].ui] = "run" => pidfile[proc[p].svc] = p \/ p \in lost
      <4>1. CASE proc[p].svc = s
        <5>1. [svc |-> s, pid |-> rec[s].cmd] \in kills'
          BY <2>4
        <5>2. \E k \in kills' : k.pid = p
          BY <3>3, <4>1, <5>1
        <5> QED BY <5>2 DEF Findable
      <4>2. CASE proc[p].svc # s
        BY <1>o, <2>2, <2>3, <3>0, <3>3, <4>2 DEF Findable
      <4> QED BY <4>1, <4>2
    <3> QED BY <3>0, <3>1, <3>2, <3>3 DEF Findable
  <2> QED BY <1>h, <2>10, <2>11, <2>12, <2>13, <2>14, <2>15, <2>16, <2>17 DEF WInv
<1>3. ASSUME NEW p \in Pids, Reports(p) PROVE WInv'
  <2>10. TypeOK'
    BY <1>3, <1>t, <1>u, <1>o DEF Reports, TypeOK, ProcRec, RecRec, StartRec, DelRec, memory
  <2>11. Served'
    BY <1>3, <1>t, <1>u, <1>o DEF Reports, Served
  <2>12. StartAlone'
    BY <1>3, <1>t, <1>u, <1>o DEF Reports, StartAlone
  <2>13. DelFits'
    BY <1>3, <1>t, <1>u, <1>o DEF Reports, DelFits
  <2>14. Held'
    BY <1>3, <1>t, <1>u, <1>o DEF Reports, Held, HeldBy
  <2>15. WaitersFit'
    BY <1>3, <1>t, <1>u, <1>o DEF Reports, WaitersFit
  <2>16. CmdStarted'
    BY <1>3, <1>t, <1>u, <1>o DEF Reports, CmdStarted
  <2>17. AllFindable'
    BY <1>3, <1>t, <1>u, <1>o DEF Reports, AllFindable, Findable, Alive
  <2> QED BY <1>h, <2>10, <2>11, <2>12, <2>13, <2>14, <2>15, <2>16, <2>17 DEF WInv
<1> QED BY <1>1, <1>2, <1>3

(* Deleting a service keeps the invariant. *)
LEMMA DeleteStep ==
    ASSUME WInv, UNCHANGED <<phase, proc, clean>>,
           \/ \E s \in Services : DeleteChecks(s)
           \/ DeleteRemoves \/ DeleteForgets \/ DeleteRemovesPid
    PROVE  WInv'
<1> USE WorkersAssumption
<1>t. /\ TypeOK /\ AllFindable /\ OneOwner /\ Served /\ StartAlone /\ DelFits /\ Held
      /\ WorkersKnown /\ WaitersFit /\ CmdStarted /\ CleanFits
  BY DEF WInv
<1>u. /\ proc \in [Pids -> ProcRec] /\ pidfile \in [Services -> Pids \cup {None}]
      /\ rec \in [Services -> RecRec] /\ start \in StartRec /\ del \in DelRec
      /\ exists \subseteq Services /\ stops \subseteq Services
      /\ kills \subseteq [svc : Services, pid : Pids \cup {None}]
      /\ waiters \subseteq [svc : Services, gen : Nat, pid : Pids]
  BY <1>t DEF TypeOK, ProcRec, RecRec, StartRec, DelRec
<1>o. /\ Owners' = Owners /\ (SomeoneServes' <=> SomeoneServes)
      /\ phase' = phase /\ proc' = proc /\ clean' = clean
  BY SamePhase
<1>h. OneOwner' /\ WorkersKnown' /\ CleanFits'
  BY <1>o, <1>t DEF OneOwner, WorkersKnown, Alive, CleanFits, AtFile
<1>1. ASSUME NEW s \in Services, DeleteChecks(s) PROVE WInv'
  <2>10. TypeOK'
    BY <1>1, <1>t, <1>u, <1>o DEF DeleteChecks, NoDel, TypeOK, ProcRec, RecRec, StartRec, DelRec, memory
  <2>11. Served'
    BY <1>1, <1>t, <1>u, <1>o DEF DeleteChecks, NoDel, Served
  <2>12. StartAlone'
    BY <1>1, <1>t, <1>u, <1>o DEF DeleteChecks, NoDel, StartAlone
  <2>13. DelFits'
    BY <1>1, <1>t, <1>u, <1>o DEF DeleteChecks, NoDel, DelFits
  <2>14. Held'
    BY <1>1, <1>t, <1>u, <1>o DEF DeleteChecks, NoDel, Held, HeldBy
  <2>15. WaitersFit'
    BY <1>1, <1>t, <1>u, <1>o DEF DeleteChecks, NoDel, WaitersFit
  <2>16. CmdStarted'
    BY <1>1, <1>t, <1>u, <1>o DEF DeleteChecks, NoDel, CmdStarted
  <2>17. AllFindable'
    BY <1>1, <1>t, <1>u, <1>o DEF DeleteChecks, NoDel, AllFindable, Findable, Alive
  <2> QED BY <1>h, <2>10, <2>11, <2>12, <2>13, <2>14, <2>15, <2>16, <2>17 DEF WInv
<1>2. CASE DeleteRemoves
  <2>1. del.svc \in Services
    BY <1>2, <1>t DEF DeleteRemoves, DelFits
  <2>2. \/ del' = NoDel /\ exists' = exists
        \/ del' \in DelRec /\ del'.svc = del.svc /\ exists' = exists \ {del.svc}
    BY <1>2, <1>u DEF DeleteRemoves, DelRec
  <2>10. TypeOK'
    BY <1>2, <1>t, <1>u, <1>o, <2>1, <2>2 DEF DeleteRemoves, NoDel, TypeOK, ProcRec, RecRec, StartRec, DelRec, memory
  <2>11. Served'
    BY <1>2, <1>t, <1>u, <1>o, <2>1, <2>2 DEF DeleteRemoves, NoDel, Served
  <2>12. StartAlone'
    BY <1>2, <1>t, <1>u, <1>o, <2>1, <2>2 DEF DeleteRemoves, NoDel, StartAlone
  <2>13. DelFits'
    BY <1>2, <1>t, <1>u, <1>o, <2>1, <2>2 DEF DeleteRemoves, NoDel, DelFits
  <2>14. Held'
    BY <1>2, <1>t, <1>u, <1>o, <2>1, <2>2 DEF DeleteRemoves, NoDel, Held, HeldBy
  <2>15. WaitersFit'
    BY <1>2, <1>t, <1>u, <1>o, <2>1, <2>2 DEF DeleteRemoves, NoDel, WaitersFit
  <2>16. CmdStarted'
    BY <1>2, <1>t, <1>u, <1>o, <2>1, <2>2 DEF DeleteRemoves, NoDel, CmdStarted
  <2>17. AllFindable'
    BY <1>2, <1>t, <1>u, <1>o, <2>1, <2>2 DEF DeleteRemoves, NoDel, AllFindable, Findable, Alive
  <2> QED BY <1>h, <2>10, <2>11, <2>12, <2>13, <2>14, <2>15, <2>16, <2>17 DEF WInv
<1>3. CASE DeleteForgets
  <2>1. del.svc \in Services /\ del.svc \notin exists
    BY <1>3, <1>t DEF DeleteForgets, DelFits
  <2>2. /\ rec' \in [Services -> RecRec]
        /\ \A x \in Services : x # del.svc => rec'[x] = rec[x]
        /\ ~rec'[del.svc].started
    BY <1>3, <1>u, <2>1 DEF DeleteForgets, RecRec, NoRec
  <2>10. TypeOK'
    BY <1>3, <1>t, <1>u, <1>o, <2>1, <2>2 DEF DeleteForgets, NoDel, TypeOK, ProcRec, RecRec, StartRec, DelRec, memory
  <2>11. Served'
    BY <1>3, <1>t, <1>u, <1>o, <2>1, <2>2 DEF DeleteForgets, NoDel, Served
  <2>12. StartAlone'
    BY <1>3, <1>t, <1>u, <1>o, <2>1, <2>2 DEF DeleteForgets, NoDel, StartAlone
  <2>13. DelFits'
    BY <1>3, <1>t, <1>u, <1>o, <2>1, <2>2 DEF DeleteForgets, NoDel, DelFits
  <2>14. Held'
    BY <1>3, <1>t, <1>u, <1>o, <2>1, <2>2 DEF DeleteForgets, NoDel, Held, HeldBy
  <2>15. WaitersFit'
    BY <1>3, <1>t, <1>u, <1>o, <2>1, <2>2 DEF DeleteForgets, NoDel, WaitersFit
  <2>16. CmdStarted'
    BY <1>3, <1>t, <1>u, <1>o, <2>1, <2>2 DEF DeleteForgets, NoDel, CmdStarted
  <2>17. AllFindable'
    BY <1>3, <1>t, <1>u, <1>o, <2>1, <2>2 DEF DeleteForgets, NoDel, AllFindable, Findable, Alive
  <2> QED BY <1>h, <2>10, <2>11, <2>12, <2>13, <2>14, <2>15, <2>16, <2>17 DEF WInv
<1>4. CASE DeleteRemovesPid
  <2>1. del.svc \in Services /\ del.svc \notin exists
    BY <1>4, <1>t DEF DeleteRemovesPid, DelFits
  <2>3. /\ pidfile' \in [Services -> Pids \cup {None}]
        /\ \A x \in Services : x # del.svc => pidfile'[x] = pidfile[x]
    BY <1>4, <1>u DEF DeleteRemovesPid
  <2>10. TypeOK'
    BY <1>4, <1>t, <1>u, <1>o, <2>1, <2>3 DEF DeleteRemovesPid, NoDel, TypeOK, ProcRec, RecRec, StartRec, DelRec, memory
  <2>11. Served'
    BY <1>4, <1>t, <1>u, <1>o, <2>1, <2>3 DEF DeleteRemovesPid, NoDel, Served
  <2>12. StartAlone'
    BY <1>4, <1>t, <1>u, <1>o, <2>1, <2>3 DEF DeleteRemovesPid, NoDel, StartAlone
  <2>13. DelFits'
    BY <1>4, <1>t, <1>u, <1>o, <2>1, <2>3 DEF DeleteRemovesPid, NoDel, DelFits
  <2>14. Held'
    BY <1>4, <1>t, <1>u, <1>o, <2>1, <2>3 DEF DeleteRemovesPid, NoDel, Held, HeldBy
  <2>15. WaitersFit'
    BY <1>4, <1>t, <1>u, <1>o, <2>1, <2>3 DEF DeleteRemovesPid, NoDel, WaitersFit
  <2>16. CmdStarted'
    BY <1>4, <1>t, <1>u, <1>o, <2>1, <2>3 DEF DeleteRemovesPid, NoDel, CmdStarted
  <2>17. AllFindable'
    BY <1>4, <1>t, <1>u, <1>o, <2>1, <2>3 DEF DeleteRemovesPid, NoDel, AllFindable, Findable, Alive
  <2> QED BY <1>h, <2>10, <2>11, <2>12, <2>13, <2>14, <2>15, <2>16, <2>17 DEF WInv
<1> QED BY <1>1, <1>2, <1>3, <1>4

-----------------------------------------------------------------------------
(* Killing, cleaning up and quitting *)

Phases == {"off", "probed", "locked", "gone"} \cup Serving

LEMMA Parts ==
    ASSUME WInv
    PROVE  /\ TypeOK /\ AllFindable /\ OneOwner /\ Served /\ StartAlone /\ DelFits
           /\ Held /\ WorkersKnown /\ WaitersFit /\ CmdStarted
           /\ CleanFits /\ clean \in CleanRec
           /\ phase \in [UIs -> Phases]
           /\ proc \in [Pids -> ProcRec] /\ pidfile \in [Services -> Pids \cup {None}]
           /\ rec \in [Services -> RecRec] /\ start \in StartRec /\ del \in DelRec
           /\ exists \subseteq Services /\ busy \subseteq Services
           /\ stops \subseteq Services /\ restarts \subseteq Services
           /\ kills \subseteq [svc : Services, pid : Pids \cup {None}]
           /\ waiters \subseteq [svc : Services, gen : Nat, pid : Pids]
           /\ lost \subseteq Pids
BY DEF WInv, TypeOK, Phases, ProcRec, RecRec, StartRec, DelRec, CleanRec

(* When some processes are killed, the workers that are left are as they   *)
(* were, and a process somebody holds stays in the table.                  *)
LEMMA KillsKeep ==
    ASSUME TypeOK, NEW K,
           proc' = [q \in Pids |-> IF q \in K THEN Killed(q) ELSE proc[q]]
    PROVE  /\ proc' \in [Pids -> ProcRec]
           /\ \A q \in Pids :
                /\ Alive(q)' => Alive(q) /\ proc'[q] = proc[q] /\ q \notin K
                /\ proc'[q].kind = "foreign" => proc[q].kind = "foreign"
                /\ HeldBy(q) => /\ proc'[q].kind \in {"worker", "zombie"}
                                /\ proc'[q].ui = proc[q].ui
                                /\ proc'[q].svc = proc[q].svc
<1>1. ASSUME NEW q \in Pids
      PROVE  /\ proc'[q] \in ProcRec
             /\ Alive(q)' => Alive(q) /\ proc'[q] = proc[q] /\ q \notin K
             /\ proc'[q].kind = "foreign" => proc[q].kind = "foreign"
             /\ HeldBy(q) => /\ proc'[q].kind \in {"worker", "zombie"}
                             /\ proc'[q].ui = proc[q].ui
                             /\ proc'[q].svc = proc[q].svc
  <2>1. CASE q \in K
    <3>1. proc'[q] = Killed(q)
      BY <2>1
    <3> QED BY <3>1, KilledIs DEF Alive
  <2>2. CASE q \notin K
    <3>1. proc'[q] = proc[q]
      BY <2>2
    <3>2. proc[q] \in ProcRec
      BY DEF TypeOK, ProcRec
    <3> QED BY <2>2, <3>1, <3>2 DEF Alive, HeldBy
  <2> QED BY <2>1, <2>2
<1> QED BY <1>1

(* A step that kills processes and at most clears records keeps the        *)
(* invariant, if the workers that are left can still be found.             *)
LEMMA KillStep ==
    ASSUME WInv, NEW K,
           proc' = [q \in Pids |-> IF q \in K THEN Killed(q) ELSE proc[q]],
           phase' \in [UIs -> Phases], Owners' = Owners,
           SomeoneServes => SomeoneServes',
           \A u \in UIs : phase[u] \in Serving \cup {"gone"}
                              => phase'[u] \in Serving \cup {"gone"},
           UNCHANGED <<exists, start, stops, waiters, restarts, del>>,
           kills' \subseteq kills, busy' \subseteq Services, lost' \subseteq Pids,
           clean' \in CleanRec, CleanFits',
           pidfile' \in [Services -> Pids \cup {None}],
           rec' \in [Services -> RecRec],
           \A s \in Services :
               /\ rec'[s].gen = rec[s].gen /\ rec'[s].cmd \in {rec[s].cmd, None}
               /\ rec'[s].started => rec[s].started
               /\ rec'[s].cmd # None => rec'[s].started = rec[s].started,
           AllFindable'
    PROVE  WInv'
<1>p. /\ TypeOK /\ AllFindable /\ OneOwner /\ Served /\ StartAlone /\ DelFits
      /\ Held /\ WorkersKnown /\ WaitersFit /\ CmdStarted
      /\ kills \subseteq [svc : Services, pid : Pids \cup {None}]
      /\ waiters \subseteq [svc : Services, gen : Nat, pid : Pids]
      /\ exists \subseteq Services
  BY Parts
<1>k. /\ proc' \in [Pids -> ProcRec]
      /\ \A q \in Pids :
           /\ Alive(q)' => Alive(q) /\ proc'[q] = proc[q] /\ q \notin K
           /\ HeldBy(q) => /\ proc'[q].kind \in {"worker", "zombie"}
                           /\ proc'[q].ui = proc[q].ui
                           /\ proc'[q].svc = proc[q].svc
  BY <1>p, KillsKeep
<1>1. TypeOK'
  BY <1>p, <1>k DEF TypeOK, Phases, ProcRec, RecRec, CleanRec
<1>2. OneOwner'
  BY <1>p DEF OneOwner
<1>3. Served'
  <2>1. CASE SomeoneServes
    BY <2>1 DEF Served
  <2>2. CASE ~SomeoneServes
    BY <1>p, <2>2 DEF Served
  <2> QED BY <2>1, <2>2
<1>4. StartAlone'
  BY <1>p DEF StartAlone
<1>5. DelFits'
  BY <1>p DEF DelFits
<1>6. Held'
  <2>1. \A q \in Pids : HeldBy(q) => HeldBy(q)'
    BY <1>k DEF HeldBy
  <2>2. \A w \in waiters : w.pid \in Pids
    BY <1>p
  <2> QED BY <1>p, <1>k, <2>1, <2>2 DEF Held
<1>7. WorkersKnown'
  BY <1>p, <1>k DEF WorkersKnown
<1>8. WaitersFit'
  <2> SUFFICES ASSUME NEW w \in waiters, w.svc \in exists
               PROVE  /\ w.gen <= rec'[w.svc].gen
                      /\ w.gen = rec'[w.svc].gen => rec'[w.svc].cmd \in {w.pid, None}
    BY DEF WaitersFit
  <2> QED BY <1>p DEF WaitersFit
<1>9. CmdStarted'
  BY <1>p DEF CmdStarted
<1> QED BY <1>1, <1>2, <1>3, <1>4, <1>5, <1>6, <1>7, <1>8, <1>9 DEF WInv

(* Killing one process, cleaning up and quitting keep the invariant.       *)
LEMMA KillingSteps ==
    ASSUME WInv,
           \/ \E k \in kills : StopKills(k)
           \/ \E p \in Pids : Dies(p)
           \/ \E u \in UIs : QuitKills(u) \/ QuitRemoves(u)
    PROVE  WInv'
<1> USE WorkersAssumption
<1>p. /\ TypeOK /\ AllFindable /\ OneOwner /\ phase \in [UIs -> Phases]
      /\ proc \in [Pids -> ProcRec] /\ rec \in [Services -> RecRec]
      /\ exists \subseteq Services /\ busy \subseteq Services
      /\ pidfile \in [Services -> Pids \cup {None}] /\ lost \subseteq Pids
      /\ CleanFits /\ clean \in CleanRec
  BY Parts
<1>q. \A s \in Services : /\ rec[s].gen \in Nat /\ rec[s].cmd \in Pids \cup {None}
                          /\ rec[s].started \in BOOLEAN
  BY <1>p DEF RecRec
<1>1. ASSUME NEW k \in kills, StopKills(k) PROVE WInv'
  <2> DEFINE K == {k.pid}
  <2>1. proc' = [q \in Pids |-> IF q \in K THEN Killed(q) ELSE proc[q]]
    BY <1>1 DEF StopKills
  <2>2. /\ UNCHANGED <<phase, pidfile, exists, rec, start, stops, waiters, restarts, del, lost,
                       clean>>
        /\ kills' = kills \ {k} /\ busy' \subseteq Services
    BY <1>1, <1>p DEF StopKills
  <2>3. Owners' = Owners /\ (SomeoneServes => SomeoneServes')
    BY <2>2, SamePhase
  <2>4. \A q \in Pids : Alive(q)' => Alive(q) /\ proc'[q] = proc[q] /\ q \notin K
    <3> HIDE DEF K
    <3> QED BY <1>p, <2>1, KillsKeep
  <2>5. AllFindable'
    <3> SUFFICES ASSUME NEW q \in Pids, Alive(q)', proc'[q].ui \in Owners',
                        proc'[q].svc \in exists'
                 PROVE  Findable(q)'
      BY DEF AllFindable
    <3>1. Findable(q) /\ proc'[q] = proc[q] /\ q # k.pid
      BY <1>p, <2>2, <2>3, <2>4 DEF AllFindable
    <3> QED BY <2>2, <3>1 DEF Findable
  <2> HIDE DEF K
  <2>6. CleanFits'
    <3>1. \A q \in Pids : proc'[q].kind = "foreign" => proc[q].kind = "foreign"
      BY <1>p, <2>1, KillsKeep
    <3> QED BY <1>p, <2>2, <3>1 DEF CleanFits, AtFile
  <2>7. WInv'
    BY <1>p, <1>q, <2>1, <2>2, <2>3, <2>5, <2>6, KillStep
  <2> QED BY <2>7
<1>2. ASSUME NEW p \in Pids, Dies(p) PROVE WInv'
  <2> DEFINE K == {p}
  <2>1. proc' = [q \in Pids |-> IF q \in K THEN Killed(q) ELSE proc[q]]
    BY <1>2, <1>p DEF Dies
  <2>2. UNCHANGED <<phase, pidfile, exists, rec, start, stops, kills, busy, waiters,
                    restarts, del, lost, clean>>
    BY <1>2 DEF Dies, memory
  <2>3. Owners' = Owners /\ (SomeoneServes => SomeoneServes')
    BY <2>2, SamePhase
  <2>4. \A q \in Pids : Alive(q)' => Alive(q) /\ proc'[q] = proc[q] /\ q \notin K
    <3> HIDE DEF K
    <3> QED BY <1>p, <2>1, KillsKeep
  <2>5. AllFindable'
    <3> SUFFICES ASSUME NEW q \in Pids, Alive(q)', proc'[q].ui \in Owners',
                        proc'[q].svc \in exists'
                 PROVE  Findable(q)'
      BY DEF AllFindable
    <3>1. Findable(q) /\ proc'[q] = proc[q]
      BY <1>p, <2>2, <2>3, <2>4 DEF AllFindable
    <3> QED BY <2>2, <3>1 DEF Findable
  <2> HIDE DEF K
  <2>6. CleanFits'
    <3>1. \A q \in Pids : proc'[q].kind = "foreign" => proc[q].kind = "foreign"
      BY <1>p, <2>1, KillsKeep
    <3> QED BY <1>p, <2>2, <3>1 DEF CleanFits, AtFile
  <2>7. WInv'
    BY <1>p, <1>q, <2>1, <2>2, <2>3, <2>5, <2>6, KillStep
  <2> QED BY <2>7
<1>3. ASSUME NEW u \in UIs, QuitKills(u) \/ QuitRemoves(u)
      PROVE  WInv'
  <2> DEFINE K == IF QuitKills(u) THEN {q \in Pids : \E s \in Services : rec[s].cmd = q}
                  ELSE {}
  <2>0. /\ phase[u] \in Serving
        /\ phase' = [phase EXCEPT ![u] = phase'[u]]
        /\ phase'[u] \in Serving \ {"run"}
        /\ UNCHANGED <<exists, start, stops, kills, waiters, restarts, del, lost, clean>>
        /\ phase[u] \in {"run", "removed", "cleaned", "cleaned2"}
    <3>1. ASSUME NEW v, phase' = [phase EXCEPT ![u] = v]
          PROVE  phase' = [phase EXCEPT ![u] = phase'[u]] /\ phase'[u] = v
      BY <1>p, <3>1
    <3>2. CASE QuitKills(u)
      <4>1. /\ phase[u] \in {"run", "removed"}
            /\ phase' = [phase EXCEPT ![u] = IF phase[u] = "run" THEN "killed"
                                             ELSE "killed2"]
            /\ UNCHANGED <<exists, start, stops, kills, waiters, restarts, del, lost,
                           clean>>
        BY <3>2 DEF QuitKills
      <4>2. /\ phase' = [phase EXCEPT ![u] = phase'[u]]
            /\ phase'[u] \in {"killed", "killed2"}
        BY <1>p, <4>1
      <4> QED BY <4>1, <4>2 DEF Serving, Quitting
    <3>3. CASE QuitRemoves(u)
      BY <3>1, <3>3 DEF QuitRemoves, Serving, Quitting, memory
    <3> QED BY <1>3, <3>2, <3>3
  <2>1. proc' = [q \in Pids |-> IF q \in K THEN Killed(q) ELSE proc[q]]
    <3>1. CASE QuitKills(u)
      BY <3>1 DEF QuitKills
    <3>2. CASE ~QuitKills(u)
      BY <1>3, <1>p, <3>2 DEF QuitRemoves
    <3> QED BY <3>1, <3>2
  <2>2. /\ pidfile' \in [Services -> Pids \cup {None}]
        /\ busy' \subseteq Services
        /\ rec' \in [Services -> RecRec]
        /\ \A s \in Services :
               /\ rec'[s].gen = rec[s].gen /\ rec'[s].cmd \in {rec[s].cmd, None}
               /\ rec'[s].started => rec[s].started
               /\ rec'[s].cmd # None => rec'[s].started = rec[s].started
        /\ QuitKills(u) \/ rec' = rec
    <3>1. CASE QuitKills(u)
      <4>1. \A s \in Services : /\ rec'[s] \in RecRec /\ rec'[s].gen = rec[s].gen
                                /\ rec'[s].cmd = None /\ rec'[s].started = FALSE
        BY <1>q, <3>1 DEF QuitKills, NoRec, RecRec
      <4>2. rec' \in [Services -> RecRec]
        BY <3>1, <4>1 DEF QuitKills
      <4> QED BY <1>p, <3>1, <4>1, <4>2 DEF QuitKills
    <3>2. CASE QuitRemoves(u)
      BY <1>p, <1>q, <3>2 DEF QuitRemoves, memory
    <3> QED BY <1>3, <3>1, <3>2
  <2>3. /\ phase' \in [UIs -> Phases] /\ Owners' = Owners /\ SomeoneServes'
        /\ Owners = {u}
        /\ \A v \in UIs : phase[v] \in Serving \cup {"gone"}
                              => phase'[v] \in Serving \cup {"gone"}
    <3>1. phase'[u] \in Serving /\ \A v \in UIs : v # u => phase'[v] = phase[v]
      BY <1>p, <2>0
    <3>2. Owners' = Owners
      BY <2>0, <3>1 DEF Owners
    <3>3. u \in Owners
      BY <2>0 DEF Owners
    <3>4. SomeoneServes'
      BY <3>1 DEF SomeoneServes
    <3>5. phase' \in [UIs -> Phases]
      BY <1>p, <2>0, <3>1 DEF Phases
    <3> QED BY <1>p, <3>1, <3>2, <3>3, <3>4, <3>5 DEF OneOwner
  <2>4. \A q \in Pids : Alive(q)' => Alive(q) /\ proc'[q] = proc[q] /\ q \notin K
    <3> HIDE DEF K
    <3> QED BY <1>p, <2>1, KillsKeep
  <2>5. AllFindable'
    <3> SUFFICES ASSUME NEW q \in Pids, Alive(q)', proc'[q].ui \in Owners',
                        proc'[q].svc \in exists'
                 PROVE  Findable(q)'
      BY DEF AllFindable
    <3>1. /\ Findable(q) /\ proc'[q] = proc[q] /\ q \notin K
          /\ proc[q].ui = u /\ proc[q].svc \in Services
      BY <1>p, <2>0, <2>3, <2>4 DEF AllFindable
    <3>2. CASE start.pid = q \/ \E k \in kills : k.pid = q
      BY <2>0, <3>2 DEF Findable
    <3>3. CASE rec[proc[q].svc].cmd = q
      <4>1. ~QuitKills(u)
        BY <3>1, <3>3
      <4>2. rec' = rec
        BY <2>2, <4>1
      <4> QED BY <2>0, <3>1, <3>3, <4>2 DEF Findable
    <3> QED BY <3>1, <3>2, <3>3 DEF Findable
  <2> HIDE DEF K
  <2>6. CleanFits'
    <3>1. \A q \in Pids : proc'[q].kind = "foreign" => proc[q].kind = "foreign"
      BY <1>p, <2>1, KillsKeep
    <3>2. clean.step # "none" => clean.ui # u
      BY <1>p, <2>0 DEF CleanFits
    <3>3. clean.step # "none" => phase'[clean.ui] = phase[clean.ui]
      BY <1>p, <2>0, <3>2 DEF CleanFits
    <3> QED BY <1>p, <2>0, <3>1, <3>3 DEF CleanFits, AtFile
  <2>7. WInv'
    BY <1>p, <2>0, <2>1, <2>2, <2>3, <2>5, <2>6, KillStep
  <2> QED BY <2>7
<1> QED BY <1>1, <1>2, <1>3

(* Launching, up to the mutex, keeps the invariant: a UI that gets it is   *)
(* the only one, and has no workers yet.                                   *)
LEMMA LaunchSteps ==
    ASSUME WInv, NEW u \in UIs,
           Launch(u) \/ Elevates(u) \/ Lock(u)
    PROVE  WInv'
<1> USE WorkersAssumption
<1>p. /\ TypeOK /\ AllFindable /\ OneOwner /\ Served /\ StartAlone /\ DelFits /\ Held
      /\ WorkersKnown /\ WaitersFit /\ CmdStarted /\ phase \in [UIs -> Phases]
      /\ proc \in [Pids -> ProcRec] /\ rec \in [Services -> RecRec]
      /\ exists \subseteq Services /\ busy \subseteq Services
      /\ pidfile \in [Services -> Pids \cup {None}] /\ lost \subseteq Pids
      /\ CleanFits /\ clean \in CleanRec
  BY Parts
<1>q. \A s \in Services : /\ rec[s].gen \in Nat /\ rec[s].cmd \in Pids \cup {None}
                          /\ rec[s].started \in BOOLEAN
  BY <1>p DEF RecRec
<1>1. ASSUME NEW x \in {"probed", "gone"}, phase[u] \in {"off", "probed"},
             phase' = [phase EXCEPT ![u] = x],
             UNCHANGED <<proc, pidfile, exists, memory, lost, clean>>
      PROVE  WInv'
  <2> DEFINE K == {}
  <2>1. proc' = [q \in Pids |-> IF q \in K THEN Killed(q) ELSE proc[q]]
    BY <1>1, <1>p
  <2>2. phase'[u] = x /\ \A v \in UIs : v # u => phase'[v] = phase[v]
    BY <1>1, <1>p
  <2>3. /\ phase' \in [UIs -> Phases] /\ Owners' = Owners
        /\ SomeoneServes => SomeoneServes'
        /\ \A v \in UIs : phase[v] \in Serving \cup {"gone"}
                              => phase'[v] \in Serving \cup {"gone"}
        /\ u \notin Owners
    BY <1>1, <1>p, <2>2 DEF Owners, SomeoneServes, Serving, Quitting, Phases
  <2>4. UNCHANGED <<rec, busy, start, stops, kills, waiters, restarts, del>>
    BY <1>1 DEF memory
  <2>5. AllFindable'
    <3> SUFFICES ASSUME NEW q \in Pids, Alive(q), proc[q].ui \in Owners,
                        proc[q].svc \in exists
                 PROVE  Findable(q)'
      BY <1>1, <2>3 DEF AllFindable, Alive
    <3>1. Findable(q) /\ proc[q].ui \in UIs /\ phase'[proc[q].ui] = phase[proc[q].ui]
      BY <1>p, <2>2, <2>3 DEF AllFindable, Owners
    <3> QED BY <1>1, <2>4, <3>1 DEF Findable
  <2> HIDE DEF K
  <2>6. CleanFits'
    <3>1. clean.step # "none" => phase'[clean.ui] = phase[clean.ui]
      BY <1>1, <1>p, <2>2 DEF CleanFits
    <3> QED BY <1>1, <1>p, <3>1 DEF CleanFits, AtFile
  <2>7. WInv'
    BY <1>1, <1>p, <1>q, <2>1, <2>3, <2>4, <2>5, <2>6, KillStep
  <2> QED BY <2>7
<1>2. CASE Launch(u) \/ Elevates(u) \/ (Lock(u) /\ Owners # {})
  <2>1. CASE Launch(u)
    BY <2>1, <1>1 DEF Launch
  <2>2. CASE Elevates(u)
    BY <2>2, <1>1 DEF Elevates
  <2>3. CASE Lock(u) /\ Owners # {}
    BY <2>3, <1>1 DEF Lock
  <2> QED BY <1>2, <2>1, <2>2, <2>3
<1>3. CASE Lock(u) /\ Owners = {}
  <2>1. /\ phase[u] = "probed" /\ phase' = [phase EXCEPT ![u] = "locked"]
        /\ UNCHANGED <<proc, pidfile, exists, lost, rec, busy, start, stops, kills,
                       waiters, restarts, del, clean>>
    BY <1>3 DEF Lock, memory
  <2>2. phase'[u] = "locked" /\ \A v \in UIs : v # u => phase'[v] = phase[v]
    BY <1>p, <2>1
  <2>3. Owners' = {u}
    BY <1>3, <2>2 DEF Owners
  <2>4. ~SomeoneServes
    BY <1>3 DEF SomeoneServes, Owners
  <2>5. start = NoStart /\ del = NoDel /\ waiters = {}
    BY <1>p, <2>4 DEF Served
  <2>6. TypeOK'
    <3>1. phase' \in [UIs -> Phases]
      BY <1>p, <2>1 DEF Phases
    <3> QED BY <1>p, <2>1, <3>1 DEF TypeOK, Phases
  <2>7. Served' /\ StartAlone' /\ DelFits'
    BY <1>p, <2>1, <2>4 DEF Served, StartAlone, DelFits
  <2>8. Held' /\ WaitersFit' /\ CmdStarted'
    BY <1>p, <2>1, <2>5 DEF Held, WaitersFit, CmdStarted, NoStart
  <2>9. WorkersKnown'
    BY <1>p, <2>1, <2>2 DEF WorkersKnown, Alive, Serving, Quitting
  <2>10. AllFindable'
    BY <1>p, <2>1, <2>3 DEF AllFindable, WorkersKnown, Alive, Serving, Quitting
  <2>11. OneOwner'
    BY <2>3 DEF OneOwner
  <2>12. CleanFits'
    <3>1. clean.step # "none" => phase'[clean.ui] = phase[clean.ui]
      BY <1>p, <2>1, <2>2 DEF CleanFits
    <3> QED BY <1>p, <2>1, <3>1 DEF CleanFits, AtFile
  <2> QED BY <2>6, <2>7, <2>8, <2>9, <2>10, <2>11, <2>12 DEF WInv
<1> QED BY <1>2, <1>3

(* The clean-up keeps the invariant: it is that of the UI with the mutex,  *)
(* which does not run, so that its own workers need no pid file.           *)
LEMMA CleanSteps ==
    ASSUME WInv, Cleans
    PROVE  WInv'
<1> USE WorkersAssumption
<1>p. /\ TypeOK /\ AllFindable /\ OneOwner /\ WorkersKnown /\ phase \in [UIs -> Phases]
      /\ proc \in [Pids -> ProcRec] /\ rec \in [Services -> RecRec]
      /\ exists \subseteq Services /\ busy \subseteq Services
      /\ pidfile \in [Services -> Pids \cup {None}] /\ lost \subseteq Pids
      /\ CleanFits /\ clean \in CleanRec
  BY Parts
<1>q. \A s \in Services : /\ rec[s].gen \in Nat /\ rec[s].cmd \in Pids \cup {None}
                          /\ rec[s].started \in BOOLEAN
  BY <1>p DEF RecRec
<1>n. clean.step # "none" => /\ clean.ui \in UIs /\ Owners = {clean.ui}
                            /\ phase[clean.ui] \in {"locked", "killed", "killed2"}
  <2> SUFFICES ASSUME clean.step # "none"
               PROVE  /\ clean.ui \in UIs /\ Owners = {clean.ui}
                      /\ phase[clean.ui] \in {"locked", "killed", "killed2"}
    OBVIOUS
  <2>1. clean.ui \in UIs /\ phase[clean.ui] \in {"locked", "killed", "killed2"}
    BY <1>p DEF CleanFits
  <2>2. clean.ui \in Owners
    BY <2>1 DEF Owners, Serving, Quitting
  <2> QED BY <1>p, <2>1, <2>2 DEF OneOwner
<1>m. UNCHANGED <<exists, rec, busy, start, stops, kills, waiters, restarts, del>>
  BY DEF Cleans, CleanLists, CleanReads, CleanAlive, CleanImage, CleanKills, CleanEnds,
     memory
<1>0. ASSUME NEW K, proc' = [q \in Pids |-> IF q \in K THEN Killed(q) ELSE proc[q]],
             phase' = phase, lost' \subseteq Pids, lost \subseteq lost',
             clean' \in CleanRec, CleanFits',
             pidfile' \in [Services -> Pids \cup {None}],
             pidfile' = pidfile \/ clean.step # "none"
      PROVE  WInv'
  <2>1. \A q \in Pids : Alive(q)' => Alive(q) /\ proc'[q] = proc[q]
    BY <1>p, <1>0, KillsKeep
  <2>2. Owners' = Owners /\ (SomeoneServes => SomeoneServes')
    BY <1>0, SamePhase
  <2>3. AllFindable'
    <3> SUFFICES ASSUME NEW q \in Pids, Alive(q)', proc'[q].ui \in Owners',
                        proc'[q].svc \in exists'
                 PROVE  Findable(q)'
      BY DEF AllFindable
    <3>1. /\ Findable(q) /\ proc'[q] = proc[q] /\ proc[q].ui \in Owners
          /\ proc[q].svc \in Services
      BY <1>p, <1>m, <2>1, <2>2 DEF AllFindable
    <3>2. pidfile' = pidfile \/ phase[proc[q].ui] # "run"
      BY <1>0, <1>n, <3>1
    <3> QED BY <1>0, <1>m, <3>1, <3>2 DEF Findable
  <2> QED BY <1>0, <1>m, <1>p, <1>q, <2>2, <2>3, KillStep
<1>s. proc' = proc => \E K : proc' = [q \in Pids |-> IF q \in K THEN Killed(q) ELSE proc[q]]
  <2> DEFINE Nobody == {}
  <2>1. proc' = proc =>
          proc' = [q \in Pids |-> IF q \in Nobody THEN Killed(q) ELSE proc[q]]
    BY <1>p
  <2> HIDE DEF Nobody
  <2> QED BY <2>1
<1>v. Survivor \subseteq Pids
  BY DEF Survivor
<1>f. AtFile => /\ NextFile \in CleanRec /\ NextFile.ui = clean.ui
                /\ NextFile.step = "list" /\ NextFile.left = clean.left
  BY <1>p DEF NextFile, CleanRec
<1>r. RemovesPid(clean.svc) => pidfile' \in [Services -> Pids \cup {None}]
  BY <1>p DEF RemovesPid
<1>1. ASSUME NEW u \in UIs, CleanLists(u) PROVE WInv'
  <2>1. /\ clean' \in CleanRec /\ clean'.ui = u /\ clean'.step = "list"
        /\ UNCHANGED <<phase, proc, pidfile, lost>>
        /\ phase[u] \in {"locked", "killed", "killed2"}
    BY <1>1 DEF CleanLists, MayClean, NoClean, CleanRec
  <2>2. CleanFits'
    BY <2>1 DEF CleanFits, AtFile
  <2> QED BY <1>0, <1>p, <1>s, <2>1, <2>2
<1>2. ASSUME NEW s \in Services, CleanReads(s) PROVE WInv'
  <2>1. /\ clean.step = "list" /\ UNCHANGED <<phase, proc, pidfile, lost>>
    BY <1>2 DEF CleanReads
  <2>2. CASE pidfile[s] = None
    <3>1. /\ clean' \in CleanRec /\ clean'.ui = clean.ui /\ clean'.step = "list"
      BY <1>2, <1>p, <2>1, <2>2 DEF CleanReads, CleanRec
    <3>2. CleanFits'
      BY <1>p, <2>1, <3>1 DEF CleanFits, AtFile
    <3> QED BY <1>0, <1>p, <1>s, <2>1, <3>1, <3>2
  <2>3. CASE pidfile[s] # None
    <3>0. pidfile[s] \in Pids
      BY <1>p, <2>3
    <3>1. /\ clean' \in CleanRec /\ clean'.ui = clean.ui /\ clean'.step = "alive"
          /\ clean'.svc = s /\ clean'.pid = pidfile[s] /\ clean'.left = clean.left \ {s}
      BY <1>2, <1>p, <2>3, <3>0 DEF CleanReads, CleanRec
    <3>2. CleanFits'
      BY <1>p, <2>1, <3>0, <3>1 DEF CleanFits, AtFile
    <3> QED BY <1>0, <1>p, <1>s, <2>1, <3>1, <3>2
  <2> QED BY <2>2, <2>3
<1>l. AtFile /\ clean' = NextFile /\ phase' = phase => CleanFits'
  BY <1>p, <1>f DEF CleanFits, AtFile
<1>g. ASSUME NEW x \in {"image", "kill"}, AtFile, clean' = [clean EXCEPT !.step = x],
             phase' = phase, proc' = proc,
             x = "kill" => proc[clean.pid].kind # "foreign"
      PROVE  clean' \in CleanRec /\ CleanFits'
  <2>1. /\ clean' \in CleanRec /\ clean'.ui = clean.ui /\ clean'.step = x
        /\ clean'.svc = clean.svc /\ clean'.pid = clean.pid /\ clean'.left = clean.left
    BY <1>g, <1>p DEF CleanRec
  <2> QED BY <1>g, <1>p, <2>1 DEF CleanFits, AtFile
<1>3. CASE CleanAlive
  <2>1. clean.step = "alive" /\ AtFile /\ UNCHANGED <<phase, proc>>
    BY <1>3 DEF CleanAlive, AtFile
  <2>2. CASE clean' = [clean EXCEPT !.step = "image"] /\ UNCHANGED <<pidfile, lost>>
    <3>1. clean' \in CleanRec /\ CleanFits'
      BY <1>g, <2>1, <2>2
    <3> QED BY <1>0, <1>p, <1>s, <2>1, <2>2, <3>1
  <2>3. CASE clean' = NextFile /\ RemovesPid(clean.svc) /\ lost' = lost \cup Survivor
    BY <1>0, <1>f, <1>l, <1>p, <1>r, <1>s, <1>v, <2>1, <2>3
  <2> QED BY <1>3, <2>2, <2>3 DEF CleanAlive
<1>4. CASE CleanImage
  <2>1. clean.step = "image" /\ AtFile /\ UNCHANGED <<phase, proc, pidfile>>
    BY <1>4 DEF CleanImage, AtFile
  <2>2. CASE /\ Matches(clean.pid)
             /\ clean' = [clean EXCEPT !.step = "kill"] /\ lost' = lost
    <3>1. clean' \in CleanRec /\ CleanFits'
      BY <1>g, <2>1, <2>2 DEF Matches
    <3> QED BY <1>0, <1>p, <1>s, <2>1, <2>2, <3>1
  <2>3. CASE clean' = NextFile /\ lost' = lost \cup Survivor
    BY <1>0, <1>f, <1>l, <1>p, <1>s, <1>v, <2>1, <2>3
  <2> QED BY <1>4, <2>2, <2>3 DEF CleanImage
<1>5. CASE CleanKills
  <2>1. /\ clean.step = "kill" /\ AtFile /\ phase' = phase
        /\ clean' = NextFile /\ RemovesPid(clean.svc)
    BY <1>5 DEF CleanKills, AtFile
  <2>2. CASE proc' = [proc EXCEPT ![clean.pid] = Killed(clean.pid)] /\ lost' = lost
    <3>1. proc' = [q \in Pids |-> IF q \in {clean.pid} THEN Killed(q) ELSE proc[q]]
      BY <1>p, <2>2
    <3> QED BY <1>0, <1>f, <1>l, <1>p, <1>r, <2>1, <2>2, <3>1
  <2>3. CASE lost' = lost \cup Survivor /\ proc' = proc
    BY <1>0, <1>f, <1>l, <1>p, <1>r, <1>s, <1>v, <2>1, <2>3
  <2> QED BY <1>5, <2>2, <2>3 DEF CleanKills
<1>6. CASE CleanEnds
  <2>0. /\ clean.step = "list" /\ clean' = NoClean
        /\ phase' = [phase EXCEPT ![clean.ui] = AfterClean(phase[clean.ui])]
        /\ UNCHANGED <<proc, pidfile, lost>>
    BY <1>6 DEF CleanEnds
  <2>1. /\ clean.ui \in UIs /\ Owners = {clean.ui}
        /\ phase[clean.ui] \in {"locked", "killed", "killed2"}
    BY <1>n, <2>0
  <2>2. /\ phase'[clean.ui] \in {"run", "cleaned", "cleaned2"}
        /\ phase'[clean.ui] = "run" => phase[clean.ui] = "locked"
        /\ \A v \in UIs : v # clean.ui => phase'[v] = phase[v]
    BY <1>p, <2>0, <2>1 DEF AfterClean
  <2>3. /\ phase' \in [UIs -> Phases] /\ Owners' = Owners /\ SomeoneServes'
        /\ \A v \in UIs : phase[v] \in Serving \cup {"gone"}
                              => phase'[v] \in Serving \cup {"gone"}
    <3>1. phase'[clean.ui] \in Serving
      BY <2>2 DEF Serving, Quitting
    <3>2. Owners' = Owners
      <4>1. clean.ui \in Owners
        BY <2>1
      <4> QED BY <2>2, <3>1, <4>1 DEF Owners
    <3>3. phase' \in [UIs -> Phases]
      BY <1>p, <2>0, <2>1, <2>2, <3>1 DEF Phases
    <3> QED BY <2>1, <2>2, <3>1, <3>2, <3>3 DEF SomeoneServes
  <2>4. AllFindable'
    <3> SUFFICES ASSUME NEW q \in Pids, Alive(q)', proc'[q].ui \in Owners',
                        proc'[q].svc \in exists'
                 PROVE  Findable(q)'
      BY DEF AllFindable
    <3>1. /\ Alive(q) /\ Findable(q) /\ proc'[q] = proc[q] /\ proc[q].ui = clean.ui
      BY <1>p, <1>m, <2>0, <2>1, <2>3 DEF AllFindable, Alive
    <3>2. phase[clean.ui] # "locked"
      BY <1>p, <3>1 DEF WorkersKnown, Serving, Quitting
    <3> QED BY <1>m, <2>0, <2>2, <3>1, <3>2 DEF Findable
  <2>5. clean' \in CleanRec /\ CleanFits'
    BY <2>0 DEF NoClean, CleanRec, CleanFits, AtFile
  <2>6. \E K : proc' = [q \in Pids |-> IF q \in K THEN Killed(q) ELSE proc[q]]
    BY <1>s, <2>0
  <2> QED BY <1>m, <1>p, <1>q, <2>0, <2>3, <2>4, <2>5, <2>6, KillStep
<1> QED BY <1>1, <1>2, <1>3, <1>4, <1>5, <1>6 DEF Cleans

(* The end of the UI that has the mutex keeps the invariant: nobody has it *)
(* then, and nothing is in memory.                                         *)
LEMMA EndStep ==
    ASSUME WInv, NEW u \in UIs, Exits(u) \/ Crashes(u)
    PROVE  WInv' /\ Owners = {u} /\ Owners' = {}
<1> USE WorkersAssumption
<1>p. /\ TypeOK /\ OneOwner /\ WorkersKnown /\ phase \in [UIs -> Phases]
      /\ proc \in [Pids -> ProcRec] /\ exists \subseteq Services
      /\ pidfile \in [Services -> Pids \cup {None}] /\ lost \subseteq Pids
  BY Parts
<1>1. /\ phase[u] \in Serving \cup {"locked"} /\ phase' = [phase EXCEPT ![u] = "gone"]
      /\ proc' = [p \in Pids |-> IF proc[p].kind = "zombie" THEN Free ELSE proc[p]]
      /\ rec' = [s \in Services |-> NoRec] /\ exists' = exists
      /\ busy' = {} /\ start' = NoStart /\ stops' = {} /\ kills' = {}
      /\ waiters' = {} /\ restarts' = {} /\ del' = NoDel
      /\ lost' = lost \cup Unfiled(u) /\ clean' = NoClean
  BY DEF Exits, Crashes, Ends
<1>2. pidfile' \in [Services -> Pids \cup {None}]
  BY <1>p DEF Exits, Crashes
<1>3. phase'[u] = "gone" /\ \A v \in UIs : v # u => phase'[v] = phase[v]
  BY <1>p, <1>1
<1>4. Owners = {u} /\ Owners' = {}
  <2>1. u \in Owners
    BY <1>1 DEF Owners
  <2>2. \A v \in UIs : v # u => phase[v] \notin Serving \cup {"locked"}
    BY <1>p, <2>1 DEF OneOwner, Owners
  <2>3. "gone" \notin Serving \cup {"locked"}
    BY DEF Serving, Quitting
  <2> QED BY <1>1, <1>3, <2>1, <2>2, <2>3 DEF Owners
<1>5. TypeOK'
  <2>1. phase' \in [UIs -> Phases]
    BY <1>p, <1>1 DEF Phases
  <2>2. proc' \in [Pids -> ProcRec]
    BY <1>p, <1>1 DEF ProcRec, Free
  <2>3. rec' \in [Services -> RecRec]
    BY <1>1 DEF RecRec, NoRec
  <2>4. lost' \subseteq Pids
    BY <1>p, <1>1 DEF Unfiled
  <2>5. start' \in StartRec /\ del' \in DelRec /\ clean' \in CleanRec
    BY <1>1 DEF StartRec, DelRec, CleanRec, NoStart, NoDel, NoClean
  <2> QED BY <1>p, <1>1, <1>2, <2>1, <2>2, <2>3, <2>4, <2>5
          DEF TypeOK, Phases, ProcRec, RecRec, StartRec, DelRec, CleanRec
<1>6. Served' /\ StartAlone' /\ DelFits' /\ Held' /\ WaitersFit' /\ CmdStarted'
  BY <1>1, <1>p DEF Served, StartAlone, DelFits, Held, WaitersFit, CmdStarted, NoStart,
     NoDel, NoRec
<1>7. \A p \in Pids : Alive(p)' => Alive(p) /\ proc'[p] = proc[p]
  BY <1>1 DEF Alive, Free
<1>8. WorkersKnown'
  BY <1>p, <1>3, <1>7 DEF WorkersKnown
<1>9. AllFindable' /\ OneOwner' /\ CleanFits'
  BY <1>1, <1>4 DEF AllFindable, OneOwner, CleanFits, AtFile, NoClean
<1> QED BY <1>4, <1>5, <1>6, <1>8, <1>9 DEF WInv

-----------------------------------------------------------------------------
(* Process numbers *)

(* Starting a worker keeps the invariant: nobody holds the number it gets. *)
LEMMA SpawnStep ==
    ASSUME WInv, Spawns
    PROVE  WInv'
<1> USE WorkersAssumption
<1>p. /\ TypeOK /\ AllFindable /\ OneOwner /\ Served /\ StartAlone /\ DelFits /\ Held
      /\ WorkersKnown /\ WaitersFit /\ CmdStarted /\ CleanFits
      /\ proc \in [Pids -> ProcRec] /\ start \in StartRec /\ lost \subseteq Pids
      /\ waiters \subseteq [svc : Services, gen : Nat, pid : Pids]
  BY Parts
<1>1. PICK p \in Pids : /\ proc[p] = Free
                        /\ proc' = [proc EXCEPT ![p] = Worker(start.svc, Me)]
                        /\ start' = [start EXCEPT !.step = "spawned", !.pid = p]
                        /\ lost' = lost \ {p}
  BY DEF Spawns
<1>2. /\ start.step = "armed" /\ start.svc \in Services /\ start.pid = None
      /\ UNCHANGED <<phase, pidfile, exists, rec, busy, stops, kills, waiters,
                     restarts, del, clean>>
  BY <1>p DEF Spawns, StartAlone
<1>3. SomeoneServes
  BY <1>p, <1>2 DEF Served, NoStart
<1>4. Me \in UIs /\ phase[Me] \in Serving /\ Me \in Owners
  BY <1>3, MeOwns
<1>5. Owners' = Owners /\ SomeoneServes'
  BY <1>2, <1>3, SamePhase
<1>6. /\ proc' \in [Pids -> ProcRec]
      /\ proc'[p].kind = "worker" /\ proc'[p].svc = start.svc /\ proc'[p].ui = Me
      /\ \A q \in Pids : q # p => proc'[q] = proc[q]
  <2>1. LET r == Worker(start.svc, Me)
        IN  /\ r \in ProcRec /\ r.kind = "worker" /\ r.svc = start.svc /\ r.ui = Me
    BY <1>2, <1>4 DEF Worker, ProcRec
  <2> QED BY <1>1, <1>p, <2>1
<1>7. /\ start' \in StartRec /\ start'.step = "spawned" /\ start'.pid = p
      /\ start'.svc = start.svc
  BY <1>1, <1>p DEF StartRec
<1>8. \A w \in waiters : w.pid \in Pids /\ w.pid # p
  BY <1>p, <1>1 DEF HeldBy, Free, Held
<1>10. TypeOK'
  <2>1. lost' \subseteq Pids
    BY <1>1, <1>p
  <2> QED BY <1>p, <1>2, <1>6, <1>7, <2>1 DEF TypeOK, ProcRec, StartRec
<1>11. OneOwner' /\ Served' /\ DelFits' /\ WaitersFit' /\ CmdStarted'
  BY <1>p, <1>2, <1>5 DEF OneOwner, Served, DelFits, WaitersFit, CmdStarted
<1>12. StartAlone'
  BY <1>p, <1>2, <1>7 DEF StartAlone
<1>13. Held'
  <2>1. \A w \in waiters : HeldBy(w.pid)'
    BY <1>p, <1>5, <1>6, <1>8 DEF Held, HeldBy
  <2>2. HeldBy(p)'
    BY <1>4, <1>5, <1>6 DEF HeldBy
  <2> QED BY <1>p, <1>2, <1>6, <1>7, <1>8, <2>1, <2>2 DEF Held
<1>14. WorkersKnown'
  BY <1>p, <1>2, <1>4, <1>6 DEF WorkersKnown, Alive
<1>15. AllFindable'
  <2> SUFFICES ASSUME NEW q \in Pids, Alive(q)', proc'[q].ui \in Owners,
                      proc'[q].svc \in exists, q # p
               PROVE  Findable(q)'
    BY <1>2, <1>5, <1>7 DEF AllFindable, Findable
  <2>1. Findable(q) /\ proc'[q] = proc[q]
    BY <1>p, <1>6 DEF AllFindable, Alive
  <2>2. start.pid # q /\ (q \in lost => q \in lost')
    BY <1>1, <1>2
  <2> QED BY <1>2, <2>1, <2>2 DEF Findable
<1>16. CleanFits'
  BY <1>p, <1>2, <1>6 DEF CleanFits, AtFile
<1> QED BY <1>16, <1>10, <1>11, <1>12, <1>13, <1>14, <1>15 DEF WInv

(* Other programs' processes are not held, and nobody holds theirs.        *)
LEMMA ForeignStep ==
    ASSUME WInv, NEW p \in Pids, ForeignStarts(p) \/ ForeignEnds(p)
    PROVE  WInv'
<1> USE WorkersAssumption
<1>p. /\ TypeOK /\ AllFindable /\ OneOwner /\ Served /\ StartAlone /\ DelFits /\ Held
      /\ WorkersKnown /\ WaitersFit /\ CmdStarted /\ proc \in [Pids -> ProcRec]
      /\ CleanFits /\ clean \in CleanRec
      /\ waiters \subseteq [svc : Services, gen : Nat, pid : Pids]
  BY Parts
<1>1. UNCHANGED <<phase, pidfile, exists, rec, busy, start, stops, kills, waiters,
                  restarts, del, lost>>
  BY DEF ForeignStarts, ForeignEnds, memory
<1>2. /\ proc' \in [Pids -> ProcRec] /\ proc'[p].kind # "worker" /\ ~HeldBy(p)
      /\ \A q \in Pids : q # p => proc'[q] = proc[q]
  <2>1. CASE ForeignStarts(p)
    <3>1. proc' = [proc EXCEPT ![p] = [proc[p] EXCEPT !.kind = "foreign"]]
      BY <2>1 DEF ForeignStarts
    <3>2. proc[p] \in ProcRec
      BY <1>p
    <3>3. LET r == [proc[p] EXCEPT !.kind = "foreign"]
          IN  r \in ProcRec /\ r.kind = "foreign"
      BY <3>2 DEF ProcRec
    <3>4. ~HeldBy(p)
      BY <2>1 DEF ForeignStarts, HeldBy, Free
    <3> QED BY <1>p, <3>1, <3>3, <3>4
  <2>2. CASE ForeignEnds(p)
    BY <2>2, <1>p DEF ForeignEnds, Free, ProcRec, HeldBy
  <2> QED BY <2>1, <2>2
<1>3. Owners' = Owners /\ (SomeoneServes' <=> SomeoneServes)
  BY <1>1, SamePhase
<1>c. /\ clean' \in CleanRec /\ clean'.ui = clean.ui /\ clean'.left = clean.left
      /\ clean'.svc = clean.svc /\ clean'.pid = clean.pid /\ clean'.step = clean.step
      /\ clean.raced => clean'.raced
      /\ clean.step = "kill" /\ clean.pid = p /\ proc'[p].kind = "foreign" => clean'.raced
  <2>1. CASE ForeignEnds(p)
    <3>1. clean' = clean /\ proc'[p].kind = "free"
      BY <2>1, <1>p DEF ForeignEnds, Free
    <3> QED BY <1>p, <3>1
  <2>2. CASE ForeignStarts(p)
    BY <2>2, <1>p DEF ForeignStarts, CleanRec
  <2> QED BY <2>1, <2>2
<1>d. CleanFits'
  <2>1. ASSUME clean.step = "kill", proc'[clean.pid].kind = "foreign"
        PROVE  clean'.raced
    <3>1. CASE clean.pid = p
      BY <1>c, <2>1, <3>1
    <3>2. CASE clean.pid # p
      BY <1>p, <1>2, <1>c, <2>1, <3>2 DEF CleanFits, AtFile
    <3> QED BY <3>1, <3>2
  <2> QED BY <1>p, <1>1, <1>c, <2>1 DEF CleanFits, AtFile
<1>4. TypeOK'
  BY <1>p, <1>1, <1>2, <1>c DEF TypeOK, ProcRec, CleanRec
<1>5. OneOwner' /\ Served' /\ StartAlone' /\ DelFits' /\ WaitersFit' /\ CmdStarted'
  BY <1>p, <1>1, <1>3 DEF OneOwner, Served, StartAlone, DelFits, WaitersFit, CmdStarted
<1>6. Held'
  <2>1. \A q \in Pids : HeldBy(q) => HeldBy(q)' /\ proc'[q] = proc[q]
    BY <1>2, <1>3 DEF HeldBy
  <2>2. \A w \in waiters : w.pid \in Pids
    BY <1>p
  <2> QED BY <1>p, <1>1, <2>1, <2>2 DEF Held
<1>7. WorkersKnown'
  BY <1>p, <1>1, <1>2 DEF WorkersKnown, Alive
<1>8. AllFindable'
  <2>1. \A q \in Pids : Alive(q)' => Alive(q) /\ proc'[q] = proc[q]
    BY <1>2 DEF Alive
  <2> QED BY <1>p, <1>1, <1>3, <2>1 DEF AllFindable, Findable
<1> QED BY <1>d, <1>4, <1>5, <1>6, <1>7, <1>8 DEF WInv

(* A waiter's end keeps the invariant: when the service exists and the     *)
(* generation is its own, the recorded command is its own process or none, *)
(* so the pid file it removes names no other worker.                       *)
LEMMA ReapStep ==
    ASSUME WInv, NEW w \in waiters, Reaps(w)
    PROVE  WInv' /\ \A q \in Pids : Alive(q)' => Alive(q) /\ proc'[q] = proc[q]
<1> USE WorkersAssumption
<1>p. /\ TypeOK /\ AllFindable /\ OneOwner /\ Served /\ StartAlone /\ DelFits /\ Held
      /\ WorkersKnown /\ WaitersFit /\ CmdStarted /\ proc \in [Pids -> ProcRec]
      /\ waiters \subseteq [svc : Services, gen : Nat, pid : Pids]
      /\ rec \in [Services -> RecRec] /\ pidfile \in [Services -> Pids \cup {None}]
      /\ restarts \subseteq Services /\ busy \subseteq Services
      /\ exists \subseteq Services /\ CleanFits
  BY Parts
<1>1. /\ w.svc \in Services /\ w.pid \in Pids /\ w.gen \in Nat
      /\ proc[w.pid].kind = "zombie" /\ waiters' = waiters \ {w}
      /\ UNCHANGED <<phase, exists, start, stops, kills, del, lost, clean>>
  BY <1>p DEF Reaps
<1>2. /\ proc' \in [Pids -> ProcRec] /\ proc'[w.pid].kind = "free"
      /\ \A q \in Pids : q # w.pid => proc'[q] = proc[q]
  BY <1>1, <1>p DEF Reaps, Free, ProcRec
<1>3. SomeoneServes /\ SomeoneServes' /\ Owners' = Owners
  <2>1. SomeoneServes
    BY <1>p DEF Served
  <2> QED BY <2>1, <1>1, SamePhase
<1>4. \A v \in waiters' : v \in waiters /\ v.pid # w.pid
  BY <1>p, <1>1 DEF Held
<1>5. /\ rec' \in [Services -> RecRec]
      /\ \A x \in Services : /\ rec'[x].gen = rec[x].gen
                             /\ rec'[x].cmd \in {rec[x].cmd, None}
                             /\ rec'[x].started => rec[x].started
      /\ \A x \in Services : x # w.svc => rec'[x] = rec[x]
      /\ ~Mine(w) => rec' = rec
      /\ Mine(w) => /\ rec[w.svc].cmd = w.pid => rec'[w.svc].cmd = None
                    /\ rec[w.svc].cmd # w.pid => rec'[w.svc].cmd = rec[w.svc].cmd
  <2>1. CASE ~Mine(w)
    BY <1>p, <2>1 DEF Reaps
  <2>2. CASE Mine(w)
    <3>1. rec' = [rec EXCEPT ![w.svc] =
                    [rec[w.svc] EXCEPT !.started = FALSE,
                                       !.cmd = IF rec[w.svc].cmd = w.pid THEN None
                                               ELSE rec[w.svc].cmd]]
      <4>1. rec' = [rec EXCEPT ![w.svc].started = FALSE,
                               ![w.svc].cmd = IF @ = w.pid THEN None ELSE @]
        BY <2>2 DEF Reaps
      <4>2. rec[w.svc] \in RecRec
        BY <1>1, <1>p
      <4> QED BY <1>1, <1>p, <4>1, <4>2 DEF RecRec
    <3>2. rec[w.svc] \in RecRec
      BY <1>1, <1>p
    <3>3. LET r == [rec[w.svc] EXCEPT !.started = FALSE,
                                      !.cmd = IF rec[w.svc].cmd = w.pid THEN None
                                              ELSE rec[w.svc].cmd]
          IN  /\ r \in RecRec /\ r.gen = rec[w.svc].gen /\ ~r.started
              /\ rec[w.svc].cmd = w.pid => r.cmd = None
              /\ rec[w.svc].cmd # w.pid => r.cmd = rec[w.svc].cmd
      BY <3>2 DEF RecRec
    <3> QED BY <1>1, <1>p, <2>2, <3>1, <3>3
  <2> QED BY <2>1, <2>2
<1>6. /\ pidfile' \in [Services -> Pids \cup {None}]
      /\ \A x \in Services : x # w.svc => pidfile'[x] = pidfile[x]
      /\ ~Mine(w) => pidfile' = pidfile
  BY <1>1, <1>p DEF Reaps
<1>7. w.svc \in exists /\ Mine(w) => /\ rec[w.svc].cmd \in {w.pid, None}
                                     /\ rec'[w.svc].cmd = None
  BY <1>p, <1>5 DEF WaitersFit, Mine
<1>8. restarts' \subseteq Services /\ busy' \subseteq Services
  BY <1>1, <1>p DEF Reaps
<1>9. \A q \in Pids : Alive(q)' => Alive(q) /\ proc'[q] = proc[q] /\ q # w.pid
  BY <1>2 DEF Alive
<1>10. TypeOK'
  BY <1>p, <1>1, <1>2, <1>5, <1>6, <1>8 DEF TypeOK, ProcRec, RecRec
<1>11. OneOwner' /\ Served' /\ DelFits'
  BY <1>p, <1>1, <1>3 DEF OneOwner, Served, DelFits
<1>12. StartAlone'
  BY <1>p, <1>1, <1>5 DEF StartAlone
<1>13. Held'
  <2>1. \A q \in Pids : HeldBy(q) /\ q # w.pid => HeldBy(q)' /\ proc'[q] = proc[q]
    BY <1>2, <1>3 DEF HeldBy
  <2>2. \A v \in waiters : v.pid \in Pids
    BY <1>p
  <2> QED BY <1>p, <1>1, <1>4, <2>1, <2>2 DEF Held
<1>14. WorkersKnown'
  BY <1>p, <1>1, <1>9 DEF WorkersKnown
<1>15. WaitersFit'
  <2> SUFFICES ASSUME NEW v \in waiters, v.svc \in exists
               PROVE  /\ v.gen <= rec'[v.svc].gen
                      /\ v.gen = rec'[v.svc].gen => rec'[v.svc].cmd \in {v.pid, None}
    BY <1>1 DEF WaitersFit
  <2> QED BY <1>p, <1>5 DEF WaitersFit
<1>16. CmdStarted'
  <2> SUFFICES ASSUME NEW x \in exists, rec'[x].cmd # None
               PROVE  rec'[x].started
    BY <1>1 DEF CmdStarted
  <2>1. CASE x = w.svc /\ Mine(w)
    BY <1>7, <2>1
  <2>2. CASE ~(x = w.svc /\ Mine(w))
    <3>1. x \in Services /\ rec'[x] = rec[x]
      BY <1>p, <1>5, <2>2
    <3> QED BY <1>p, <3>1 DEF CmdStarted
  <2> QED BY <2>1, <2>2
<1>17. AllFindable'
  <2> SUFFICES ASSUME NEW q \in Pids, Alive(q)', proc'[q].ui \in Owners,
                      proc'[q].svc \in exists
               PROVE  Findable(q)'
    BY <1>1, <1>3 DEF AllFindable
  <2>1. Findable(q) /\ proc'[q] = proc[q] /\ q # w.pid /\ proc[q].svc \in exists
    BY <1>p, <1>9 DEF AllFindable
  <2>2. CASE start.pid = q \/ \E k \in kills : k.pid = q
    BY <1>1, <2>2 DEF Findable
  <2>3. CASE /\ rec[proc[q].svc].cmd = q
             /\ phase[proc[q].ui] = "run" => pidfile[proc[q].svc] = q \/ q \in lost
    <3>1. ~(proc[q].svc = w.svc /\ Mine(w))
      BY <1>7, <2>1, <2>3
    <3>2. /\ rec'[proc[q].svc] = rec[proc[q].svc]
          /\ pidfile'[proc[q].svc] = pidfile[proc[q].svc]
      BY <1>p, <1>5, <1>6, <2>1, <3>1
    <3> QED BY <1>1, <2>1, <2>3, <3>2 DEF Findable
  <2> QED BY <2>1, <2>2, <2>3 DEF Findable
<1>18. CleanFits'
  <2>1. \A q \in Pids : proc'[q].kind = "foreign" => proc[q].kind = "foreign"
    BY <1>2
  <2> QED BY <1>p, <1>1, <2>1 DEF CleanFits, AtFile
<1> QED BY <1>18, <1>9, <1>10, <1>11, <1>12, <1>13, <1>14, <1>15, <1>16, <1>17 DEF WInv

-----------------------------------------------------------------------------
(* The invariant *)

LEMMA WInvInit == Init => WInv
<1> SUFFICES ASSUME Init PROVE WInv
  OBVIOUS
<1> USE WorkersAssumption
<1>1. Owners = {} /\ ~SomeoneServes
  BY DEF Init, Owners, SomeoneServes, Serving, Quitting
<1>2. TypeOK
  <2>1. /\ Free \in ProcRec /\ NoRec \in RecRec /\ NoStart \in StartRec
        /\ NoDel \in DelRec /\ NoClean \in CleanRec
    BY DEF Free, ProcRec, NoRec, RecRec, NoStart, StartRec, NoDel, DelRec, NoClean,
       CleanRec
  <2>2. /\ proc \in [Pids -> ProcRec] /\ rec \in [Services -> RecRec]
        /\ start \in StartRec /\ del \in DelRec /\ clean \in CleanRec
    BY <2>1 DEF Init
  <2> QED BY <2>2 DEF Init, TypeOK, ProcRec, RecRec, StartRec, DelRec, CleanRec
<1>3. \A p \in Pids : ~Alive(p)
  BY DEF Init, Alive, Free
<1>4. AllFindable /\ OneOwner /\ WorkersKnown
  BY <1>1, <1>3 DEF AllFindable, OneOwner, WorkersKnown
<1>5. Served /\ StartAlone /\ DelFits /\ Held /\ WaitersFit /\ CmdStarted /\ CleanFits
  BY DEF Init, Served, StartAlone, DelFits, Held, WaitersFit, CmdStarted, CleanFits,
     AtFile, NoStart, NoDel, NoRec, NoClean
<1> QED BY <1>2, <1>4, <1>5 DEF WInv

(* What the actions that touch neither phases nor processes have in common. *)
Serves ==
    \/ \E s \in Services : StartChecks(s) \/ StopMarks(s) \/ StopTakes(s)
                             \/ RestartBegins(s) \/ DeleteChecks(s)
    \/ StartArms \/ SpawnFails \/ Registers
    \/ DeleteRemoves \/ DeleteForgets \/ DeleteRemovesPid
    \/ \E p \in Pids : Reports(p)

LEMMA ServeStep ==
    ASSUME WInv, Serves
    PROVE  /\ WInv' /\ UNCHANGED <<phase, proc, clean>> /\ lost \subseteq lost'
           /\ pidfile' = pidfile \/ SomeoneServes
<1>p. StartAlone /\ Served
  BY Parts
<1>1. ASSUME NEW s \in Services, StartChecks(s) \/ RestartBegins(s)
      PROVE  /\ WInv' /\ UNCHANGED <<phase, proc, lost, clean>>
             /\ pidfile' = pidfile
  <2>1. UNCHANGED <<phase, proc, lost, clean, pidfile>>
    BY <1>1 DEF StartChecks, RestartBegins
  <2> QED BY <1>1, <2>1, StartStep
<1>2. CASE StartArms \/ SpawnFails
  <2>1. UNCHANGED <<phase, proc, lost, clean, pidfile>>
    BY <1>2 DEF StartArms, SpawnFails
  <2> QED BY <1>2, <2>1, StartStep
<1>3. CASE Registers
  <2>1. UNCHANGED <<phase, proc, clean>> /\ lost \subseteq lost' /\ start.step = "spawned"
    BY <1>3 DEF Registers
  <2>2. SomeoneServes
    BY <1>p, <2>1 DEF Served, NoStart
  <2> QED BY <1>3, <2>1, <2>2, StartStep
<1>4. ASSUME NEW s \in Services, StopMarks(s)
      PROVE  WInv' /\ UNCHANGED <<phase, proc, lost, clean>> /\ pidfile' = pidfile
  <2>1. UNCHANGED <<phase, proc, lost, clean, pidfile>>
    BY <1>4 DEF StopMarks
  <2> QED BY <1>4, <2>1, StopStep
<1>5. ASSUME NEW s \in Services, StopTakes(s)
      PROVE  WInv' /\ UNCHANGED <<phase, proc, lost, clean>> /\ SomeoneServes
  <2>1. UNCHANGED <<phase, proc, lost, clean>> /\ stops # {}
    BY <1>5 DEF StopTakes
  <2>2. SomeoneServes
    BY <1>p, <2>1 DEF Served
  <2> QED BY <1>5, <2>1, <2>2, StopStep
<1>6. ASSUME NEW p \in Pids, Reports(p)
      PROVE  WInv' /\ UNCHANGED <<phase, proc, lost, clean>> /\ pidfile' = pidfile
  <2>1. UNCHANGED <<phase, proc, lost, clean, pidfile>>
    BY <1>6 DEF Reports
  <2> QED BY <1>6, <2>1, StopStep
<1>7. ASSUME NEW s \in Services, DeleteChecks(s)
      PROVE  WInv' /\ UNCHANGED <<phase, proc, lost, clean>> /\ pidfile' = pidfile
  <2>1. UNCHANGED <<phase, proc, lost, clean, pidfile>>
    BY <1>7 DEF DeleteChecks
  <2> QED BY <1>7, <2>1, DeleteStep
<1>8. CASE DeleteRemoves \/ DeleteForgets
  <2>1. UNCHANGED <<phase, proc, lost, clean, pidfile>>
    BY <1>8 DEF DeleteRemoves, DeleteForgets
  <2> QED BY <1>8, <2>1, DeleteStep
<1>9. CASE DeleteRemovesPid
  <2>1. UNCHANGED <<phase, proc, lost, clean>> /\ del.step = "forgotten"
    BY <1>9 DEF DeleteRemovesPid
  <2>2. SomeoneServes
    BY <1>p, <2>1 DEF Served, NoDel
  <2> QED BY <1>9, <2>1, <2>2, DeleteStep
<1> QED BY <1>1, <1>2, <1>3, <1>4, <1>5, <1>6, <1>7, <1>8, <1>9 DEF Serves

LEMMA WInvStutter == WInv /\ UNCHANGED vars => WInv'
BY DEF WInv, TypeOK, AllFindable, Findable, OneOwner, Owners, Served, SomeoneServes,
   StartAlone, DelFits, Held, HeldBy, WorkersKnown, Alive, WaitersFit, CmdStarted,
   CleanFits, AtFile, vars, memory

LEMMA WInvStep == WInv /\ [Next]_vars => WInv'
<1> SUFFICES ASSUME WInv, [Next]_vars PROVE WInv'
  OBVIOUS
<1>1. CASE Serves
  BY <1>1, ServeStep
<1>2. CASE Spawns
  BY <1>2, SpawnStep
<1>3. ASSUME NEW u \in UIs,
             Launch(u) \/ Elevates(u) \/ Lock(u)
      PROVE  WInv'
  BY <1>3, LaunchSteps
<1>4. ASSUME NEW u \in UIs, QuitKills(u) \/ QuitRemoves(u)
      PROVE  WInv'
  BY <1>4, KillingSteps
<1>5. ASSUME NEW u \in UIs, Exits(u) \/ Crashes(u) PROVE WInv'
  BY <1>5, EndStep
<1>6. ASSUME NEW k \in kills, StopKills(k) PROVE WInv'
  BY <1>6, KillingSteps
<1>7. ASSUME NEW w \in waiters, Reaps(w) PROVE WInv'
  BY <1>7, ReapStep
<1>8. ASSUME NEW p \in Pids, Dies(p) PROVE WInv'
  BY <1>8, KillingSteps
<1>9. ASSUME NEW p \in Pids, ForeignStarts(p) \/ ForeignEnds(p) PROVE WInv'
  BY <1>9, ForeignStep
<1>10. CASE UNCHANGED vars
  BY <1>10, WInvStutter
<1>11. CASE Cleans
  BY <1>11, CleanSteps
<1> QED BY <1>11, <1>1, <1>2, <1>3, <1>4, <1>5, <1>6, <1>7, <1>8, <1>9, <1>10 DEF Next, Serves

(* Whatever stops, deaths, restarts and reused process numbers come        *)
(* together, there is one UI with the mutex and the workers of its         *)
(* services can be found again: waitForProcessAndHandleExit of an earlier  *)
(* worker, stopServiceProcess and startCmdProcess never remove the pid     *)
(* file or the record of one that lives. A pid file that could not be      *)
(* written is the exception.                                               *)
THEOREM WorkersAreRecorded == Spec => []Recorded
<1>1. WInv => Recorded
  BY OneOwnerCounts DEF WInv, Recorded, AllFindable
<1> QED BY WInvInit, WInvStep, <1>1, PTL DEF Spec

-----------------------------------------------------------------------------
(* The clean-up *)

(* CleanupOrphanedCmdProcesses kills no worker of another UI that runs and *)
(* no other program's process, whatever the pid files meant:               *)
(* CheckSingleInstance came before it, and the image it has checked is a   *)
(* worker's. What it does not exclude is that another program's process    *)
(* took the number between that check and KillProcess.                     *)
THEOREM CleanupSparesOthers == Spec => CleanupSpares
<1>1. ASSUME WInv, [Next]_vars, clean.step = "kill", clean'.step # "kill",
             NEW p \in Pids,
             \/ Alive(p) /\ proc[p].ui \in Owners \ {clean.ui}
             \/ proc[p].kind = "foreign" /\ ~clean.raced
      PROVE  proc'[p] = proc[p]
  <2>p. OneOwner /\ CleanFits /\ clean \in CleanRec /\ proc \in [Pids -> ProcRec]
    BY <1>1, Parts
  <2>1. CleanKills \/ \E u \in UIs : Ends(u)
    <3>1. clean' # clean
      BY <1>1
    <3>2. ~Serves
      BY <1>1, <3>1, ServeStep
    <3>3. \A u \in UIs : ~Launch(u) /\ ~Elevates(u) /\ ~Lock(u) /\ ~QuitKills(u)
                           /\ ~QuitRemoves(u)
      BY <3>1 DEF Launch, Elevates, Lock, QuitKills, QuitRemoves
    <3>4. ~Spawns /\ (\A k \in kills : ~StopKills(k)) /\ (\A w \in waiters : ~Reaps(w))
      BY <3>1 DEF Spawns, StopKills, Reaps
    <3>5. \A q \in Pids : ~Dies(q) /\ ~ForeignEnds(q)
      BY <3>1 DEF Dies, ForeignEnds
    <3>6. \A q \in Pids : ~ForeignStarts(q)
      <4> SUFFICES ASSUME NEW q \in Pids, ForeignStarts(q) PROVE FALSE
        OBVIOUS
      <4>1. clean' = clean \/ clean' = [clean EXCEPT !.raced = TRUE]
        BY DEF ForeignStarts
      <4>2. clean'.step = clean.step
        BY <2>p, <4>1 DEF CleanRec
      <4> QED BY <1>1, <4>2
    <3>7. Cleans => CleanKills
      <4>1. \A u \in UIs : ~CleanLists(u)
        BY <1>1 DEF CleanLists, NoClean
      <4>2. \A s \in Services : ~CleanReads(s)
        BY <1>1 DEF CleanReads
      <4>3. ~CleanAlive /\ ~CleanImage /\ ~CleanEnds
        BY <1>1 DEF CleanAlive, CleanImage, CleanEnds
      <4> QED BY <4>1, <4>2, <4>3 DEF Cleans
    <3> QED BY <1>1, <3>1, <3>2, <3>3, <3>4, <3>5, <3>6, <3>7
            DEF Next, Serves, vars, Exits, Crashes
  <2>2. CASE CleanKills
    <3>1. clean.ui \in Owners
      BY <1>1, <2>p DEF CleanFits, Owners, Serving, Quitting
    <3>2. p # clean.pid
      BY <1>1, <2>p, <3>1 DEF CleanFits, OneOwner
    <3> QED BY <2>2, <2>p, <3>2 DEF CleanKills
  <2>3. ASSUME NEW u \in UIs, Ends(u) PROVE proc'[p] = proc[p]
    BY <1>1, <2>3 DEF Ends, Alive
  <2> QED BY <2>1, <2>2, <2>3
<1>2. WInv /\ [Next]_vars =>
        [clean.step = "kill" /\ clean'.step # "kill" =>
           \A p \in Pids :
             \/ Alive(p) /\ proc[p].ui \in Owners \ {clean.ui}
             \/ proc[p].kind = "foreign" /\ ~clean.raced
             => proc'[p] = proc[p]]_vars
  BY <1>1
<1> QED BY WInvInit, WInvStep, <1>2, PTL DEF Spec, CleanupSpares

(* What keeps a worker without a UI on file: nothing new is left, nobody   *)
(* gives the mutex away and no file goes off the clean-up's list while     *)
(* nobody serves.                                                          *)
LEMMA FiledKept ==
    ASSUME OrphansFiled, Owners \subseteq Owners', lost \subseteq lost',
           SomeoneServes' => SomeoneServes,
           \/ SomeoneServes
           \/ \A s \in Services, p \in Pids : OnFile(s, p) => p \in lost' \/ OnFile(s, p)',
           \A q \in Pids : Alive(q)' => Alive(q) /\ proc'[q] = proc[q]
    PROVE  OrphansFiled'
<1> SUFFICES ASSUME NEW p \in Pids, Alive(p)', proc'[p].ui \notin Owners'
             PROVE  \/ p \in lost'
                    \/ ~SomeoneServes' /\ \E s \in Services : OnFile(s, p)'
  BY DEF OrphansFiled
<1>1. Alive(p) /\ proc[p].ui \notin Owners
  OBVIOUS
<1>2. p \in lost \/ (~SomeoneServes /\ \E s \in Services : OnFile(s, p))
  BY <1>1 DEF OrphansFiled
<1> QED BY <1>2

(* A step before the mutex is taken, or while its owner serves.            *)
LEMMA FiledInService ==
    ASSUME WInv, OrphansFiled,
           \/ Serves
           \/ \E k \in kills : StopKills(k)
           \/ \E w \in waiters : Reaps(w)
           \/ \E p \in Pids : Dies(p) \/ ForeignStarts(p) \/ ForeignEnds(p)
           \/ UNCHANGED vars
    PROVE  OrphansFiled'
<1>p. TypeOK /\ Served /\ proc \in [Pids -> ProcRec] /\ clean \in CleanRec
  BY Parts
<1>0. ASSUME phase' = phase, lost \subseteq lost', pidfile' = pidfile \/ SomeoneServes,
             /\ clean'.left = clean.left /\ clean'.svc = clean.svc
             /\ clean'.pid = clean.pid /\ clean'.step = clean.step,
             \A q \in Pids : Alive(q)' => Alive(q) /\ proc'[q] = proc[q]
      PROVE  OrphansFiled'
  <2>1. Owners' = Owners /\ (SomeoneServes' <=> SomeoneServes)
    BY <1>0, SamePhase
  <2>2. Owners \subseteq Owners' /\ (SomeoneServes' => SomeoneServes)
    BY <1>0, <2>1
  <2>3. \/ SomeoneServes
        \/ \A s \in Services, p \in Pids : OnFile(s, p) => OnFile(s, p)'
    BY <1>0 DEF OnFile, AtFile
  <2> QED BY <1>0, <2>2, <2>3, FiledKept
<1>1. CASE Serves
  <2>1. /\ UNCHANGED <<phase, proc, clean>> /\ lost \subseteq lost'
        /\ pidfile' = pidfile \/ SomeoneServes
    BY <1>1, ServeStep
  <2>2. \A q \in Pids : Alive(q)' => Alive(q) /\ proc'[q] = proc[q]
    BY <2>1 DEF Alive
  <2> QED BY <1>0, <2>1, <2>2
<1>2. ASSUME NEW k \in kills, StopKills(k) PROVE OrphansFiled'
  <2> DEFINE K == {k.pid}
  <2>1. /\ proc' = [q \in Pids |-> IF q \in K THEN Killed(q) ELSE proc[q]]
        /\ UNCHANGED <<phase, lost, pidfile, clean>>
    BY <1>2 DEF StopKills
  <2> HIDE DEF K
  <2>2. \A q \in Pids : Alive(q)' => Alive(q) /\ proc'[q] = proc[q]
    BY <1>p, <2>1, KillsKeep
  <2> QED BY <1>0, <2>1, <2>2
<1>3. ASSUME NEW w \in waiters, Reaps(w) PROVE OrphansFiled'
  <2>1. UNCHANGED <<phase, lost, clean>> /\ SomeoneServes
    BY <1>3, <1>p DEF Reaps, Served
  <2>2. \A q \in Pids : Alive(q)' => Alive(q) /\ proc'[q] = proc[q]
    BY <1>3, ReapStep
  <2> QED BY <1>0, <2>1, <2>2
<1>4. ASSUME NEW p \in Pids, Dies(p) PROVE OrphansFiled'
  <2> DEFINE K == {p}
  <2>1. /\ proc' = [q \in Pids |-> IF q \in K THEN Killed(q) ELSE proc[q]]
        /\ UNCHANGED <<phase, lost, pidfile, clean>>
    BY <1>4, <1>p DEF Dies
  <2> HIDE DEF K
  <2>2. \A q \in Pids : Alive(q)' => Alive(q) /\ proc'[q] = proc[q]
    BY <1>p, <2>1, KillsKeep
  <2> QED BY <1>0, <2>1, <2>2
<1>5. ASSUME NEW p \in Pids, ForeignStarts(p) PROVE OrphansFiled'
  <2>1. /\ UNCHANGED <<phase, lost, pidfile>> /\ proc[p] \in ProcRec
        /\ proc' = [proc EXCEPT ![p] = [proc[p] EXCEPT !.kind = "foreign"]]
    BY <1>5, <1>p DEF ForeignStarts
  <2>2. [proc[p] EXCEPT !.kind = "foreign"].kind = "foreign"
    BY <2>1 DEF ProcRec
  <2>3. \A q \in Pids : Alive(q)' => Alive(q) /\ proc'[q] = proc[q]
    BY <1>p, <2>1, <2>2 DEF Alive
  <2>4. clean' = clean \/ clean' = [clean EXCEPT !.raced = TRUE]
    BY <1>5 DEF ForeignStarts
  <2>5. /\ clean'.left = clean.left /\ clean'.svc = clean.svc
        /\ clean'.pid = clean.pid /\ clean'.step = clean.step
    BY <1>p, <2>4 DEF CleanRec
  <2> QED BY <1>0, <2>1, <2>3, <2>5
<1>6. ASSUME NEW p \in Pids, ForeignEnds(p) PROVE OrphansFiled'
  <2>1. UNCHANGED <<phase, lost, pidfile, clean>>
    BY <1>6 DEF ForeignEnds
  <2>2. \A q \in Pids : Alive(q)' => Alive(q) /\ proc'[q] = proc[q]
    BY <1>6, <1>p DEF ForeignEnds, Alive, Free
  <2> QED BY <1>0, <2>1, <2>2
<1>7. CASE UNCHANGED vars
  <2>1. UNCHANGED <<phase, lost, pidfile, proc, clean>>
    BY <1>7 DEF vars
  <2> QED BY <1>0, <2>1 DEF Alive
<1> QED BY <1>1, <1>2, <1>3, <1>4, <1>5, <1>6, <1>7

(* A new worker has a UI, and the history forgets its number.              *)
LEMMA FiledSpawn ==
    ASSUME WInv, OrphansFiled, Spawns
    PROVE  OrphansFiled'
<1>p. Served /\ proc \in [Pids -> ProcRec]
  BY Parts
<1>1. PICK p \in Pids : /\ proc' = [proc EXCEPT ![p] = Worker(start.svc, Me)]
                        /\ lost' = lost \ {p}
  BY DEF Spawns
<1>2. start.step = "armed" /\ UNCHANGED <<phase, pidfile>>
  BY DEF Spawns
<1>3. SomeoneServes
  BY <1>p, <1>2 DEF Served, NoStart
<1>4. Owners' = Owners /\ SomeoneServes' /\ Me \in Owners
  BY <1>2, <1>3, SamePhase, MeOwns
<1>5. proc'[p].ui = Me /\ \A q \in Pids : q # p => proc'[q] = proc[q]
  BY <1>1, <1>p DEF Worker
<1>6. ASSUME NEW q \in Pids, Alive(q)', proc'[q].ui \notin Owners PROVE q \in lost'
  <2>1. q # p /\ proc'[q] = proc[q]
    BY <1>4, <1>5, <1>6
  <2>2. q \in lost
    BY <1>3, <1>6, <2>1 DEF OrphansFiled, Alive
  <2> QED BY <1>1, <2>1, <2>2
<1> QED BY <1>4, <1>6 DEF OrphansFiled

(* A UI that ends has its workers on file or in the history of the         *)
(* exceptions.                                                             *)
LEMMA FiledPhases ==
    ASSUME WInv, OrphansFiled, NEW u \in UIs,
           \/ Launch(u) \/ Elevates(u) \/ Lock(u) \/ QuitKills(u) \/ QuitRemoves(u)
           \/ Exits(u) \/ Crashes(u)
    PROVE  OrphansFiled'
<1>p. /\ TypeOK /\ AllFindable /\ OneOwner /\ WorkersKnown /\ phase \in [UIs -> Phases]
      /\ proc \in [Pids -> ProcRec] /\ exists \subseteq Services
      /\ pidfile \in [Services -> Pids \cup {None}]
  BY Parts
<1>1. CASE Launch(u) \/ Elevates(u) \/ Lock(u)
  <2>1. /\ phase[u] \in {"off", "probed"} /\ UNCHANGED <<proc, pidfile, lost, clean>>
        /\ phase' = [phase EXCEPT ![u] = phase'[u]]
        /\ phase'[u] \in {"probed", "locked", "gone"}
    <3>1. ASSUME NEW v, phase' = [phase EXCEPT ![u] = v]
          PROVE  phase' = [phase EXCEPT ![u] = phase'[u]] /\ phase'[u] = v
      BY <1>p, <3>1
    <3> QED BY <1>1, <3>1 DEF Launch, Elevates, Lock
  <2>2. \A v \in UIs : v # u => phase'[v] = phase[v]
    BY <1>p, <2>1
  <2>3. Owners \subseteq Owners' /\ (SomeoneServes' => SomeoneServes)
    BY <2>1, <2>2 DEF Owners, SomeoneServes, Serving, Quitting
  <2>4. lost \subseteq lost' /\ \A q \in Pids : Alive(q)' => Alive(q) /\ proc'[q] = proc[q]
    BY <2>1 DEF Alive
  <2>5. \A s \in Services, p \in Pids : OnFile(s, p) => OnFile(s, p)'
    BY <2>1 DEF OnFile, AtFile
  <2> QED BY <2>3, <2>4, <2>5, FiledKept
<1>2. CASE QuitKills(u) \/ QuitRemoves(u)
  <2> DEFINE K == IF QuitKills(u) THEN {q \in Pids : \E s \in Services : rec[s].cmd = q}
                  ELSE {}
  <2>1. proc' = [q \in Pids |-> IF q \in K THEN Killed(q) ELSE proc[q]]
    <3>1. CASE QuitKills(u)
      BY <3>1 DEF QuitKills
    <3>2. CASE ~QuitKills(u)
      BY <1>2, <1>p, <3>2 DEF QuitRemoves
    <3> QED BY <3>1, <3>2
  <2> HIDE DEF K
  <2>2. \A q \in Pids : Alive(q)' => Alive(q) /\ proc'[q] = proc[q]
    BY <1>p, <2>1, KillsKeep
  <2>3. phase[u] \in Serving /\ lost' = lost
    BY <1>2 DEF QuitKills, QuitRemoves, Serving, Quitting
  <2>4. SomeoneServes
    BY <2>3 DEF SomeoneServes
  <2>5. \A q \in Pids : Alive(q)' /\ proc'[q].ui \notin Owners => q \in lost'
    BY <2>2, <2>3, <2>4 DEF OrphansFiled
  <2>6. Owners \subseteq Owners'
    <3>1. ASSUME NEW v \in {"killed", "killed2", "cleaned", "cleaned2", "removed", "removed2"},
                 phase' = [phase EXCEPT ![u] = v]
          PROVE  Owners \subseteq Owners'
      <4>1. v \in Serving /\ \A x \in UIs : phase'[x] = IF x = u THEN v ELSE phase[x]
        BY <1>p, <3>1 DEF Serving, Quitting
      <4> QED BY <4>1 DEF Owners
    <3>2. CASE QuitKills(u)
      <4>1. CASE phase[u] = "run"
        BY <3>1, <3>2, <4>1 DEF QuitKills
      <4>2. CASE phase[u] # "run"
        BY <3>1, <3>2, <4>2 DEF QuitKills
      <4> QED BY <4>1, <4>2
    <3>3. CASE QuitRemoves(u)
      <4>1. CASE phase[u] = "cleaned"
        BY <3>1, <3>3, <4>1 DEF QuitRemoves
      <4>2. CASE phase[u] # "cleaned"
        BY <3>1, <3>3, <4>2 DEF QuitRemoves
      <4> QED BY <4>1, <4>2
    <3> QED BY <1>2, <3>2, <3>3
  <2> QED BY <2>5, <2>6 DEF OrphansFiled
<1>3. CASE Exits(u) \/ Crashes(u)
  <2>1. Owners = {u} /\ Owners' = {}
    BY <1>3, EndStep
  <2>2. ~SomeoneServes'
    BY <2>1 DEF SomeoneServes, Owners
  <2>3. /\ proc' = [p \in Pids |-> IF proc[p].kind = "zombie" THEN Free ELSE proc[p]]
        /\ lost' = lost \cup Unfiled(u) /\ clean' = NoClean
        /\ phase[u] = "removed2" \/ pidfile' = pidfile
    BY <1>3 DEF Exits, Crashes, Ends
  <2>4. \A p \in Pids : Alive(p)' => Alive(p) /\ proc'[p] = proc[p]
    BY <2>3 DEF Alive, Free
  <2>5. ASSUME NEW p \in Pids, Alive(p), p \notin lost, p \notin Unfiled(u)
        PROVE  \E s \in Services : pidfile'[s] = p
    <3>1. CASE proc[p].ui = u
      <4>1. /\ start.pid # p /\ (~\E k \in kills : k.pid = p) /\ proc[p].svc \in exists
            /\ phase[u] = "run"
        BY <2>5, <3>1 DEF Unfiled
      <4>2. Findable(p)
        BY <1>p, <2>1, <2>5, <3>1, <4>1 DEF AllFindable
      <4>3. pidfile[proc[p].svc] = p /\ pidfile' = pidfile
        BY <2>3, <2>5, <3>1, <4>1, <4>2 DEF Findable
      <4> QED BY <1>p, <4>1, <4>3
    <3>2. CASE proc[p].ui # u
      <4>1. ~SomeoneServes /\ \E s \in Services : pidfile[s] = p
        BY <2>1, <2>5, <3>2 DEF OrphansFiled, OnFile
      <4>2. phase[u] # "removed2"
        BY <4>1 DEF SomeoneServes, Serving, Quitting
      <4> QED BY <2>3, <4>1, <4>2
    <3> QED BY <3>1, <3>2
  <2>6. \A s \in Services, p \in Pids : pidfile'[s] = p => OnFile(s, p)'
    BY <2>3 DEF OnFile, NoClean
  <2> QED BY <2>2, <2>3, <2>4, <2>5, <2>6 DEF OrphansFiled
<1> QED BY <1>1, <1>2, <1>3

(* The clean-up passes no worker by that is not among the exceptions: each *)
(* file is on its list until it is read, and then the worker is killed,    *)
(* or it could not be.                                                     *)
LEMMA FiledCleans ==
    ASSUME WInv, OrphansFiled, Cleans
    PROVE  OrphansFiled'
<1> USE WorkersAssumption
<1>p. /\ TypeOK /\ OneOwner /\ CleanFits /\ clean \in CleanRec
      /\ phase \in [UIs -> Phases] /\ proc \in [Pids -> ProcRec]
      /\ pidfile \in [Services -> Pids \cup {None}]
  BY Parts
<1>0. ASSUME phase' = phase, lost \subseteq lost',
             \A q \in Pids : Alive(q)' => Alive(q) /\ proc'[q] = proc[q],
             \A s \in Services, q \in Pids :
                 OnFile(s, q) /\ Alive(q)' => q \in lost' \/ OnFile(s, q)'
      PROVE  OrphansFiled'
  <2>1. Owners' = Owners /\ (SomeoneServes' <=> SomeoneServes)
    BY <1>0, SamePhase
  <2> SUFFICES ASSUME NEW q \in Pids, Alive(q)', proc'[q].ui \notin Owners'
               PROVE  \/ q \in lost'
                      \/ ~SomeoneServes' /\ \E s \in Services : OnFile(s, q)'
    BY DEF OrphansFiled
  <2>2. q \in lost \/ (~SomeoneServes /\ \E s \in Services : OnFile(s, q))
    BY <1>0, <2>1 DEF OrphansFiled
  <2> QED BY <1>0, <2>1, <2>2
<1>s. proc' = proc => \A q \in Pids : Alive(q)' => Alive(q) /\ proc'[q] = proc[q]
  BY DEF Alive
(* What the steps at one file do to the others. *)
<1>f. ASSUME AtFile, clean' = NextFile, NEW s \in Services, NEW q \in Pids, OnFile(s, q),
             pidfile' = pidfile \/ RemovesPid(clean.svc)
      PROVE  q = clean.pid \/ OnFile(s, q)'
  <2>1. CASE s \in clean.left
    <3>1. s # clean.svc
      BY <1>f, <1>p, <2>1 DEF CleanFits
    <3>2. pidfile'[s] = q
      BY <1>f, <1>p, <3>1 DEF RemovesPid, OnFile
    <3>3. clean'.left = clean.left
      BY <1>f, <1>p DEF NextFile, CleanRec
    <3> QED BY <2>1, <3>2, <3>3 DEF OnFile
  <2>2. CASE s \notin clean.left
    BY <1>f, <2>2 DEF OnFile, AtFile
  <2> QED BY <2>1, <2>2
<1>1. ASSUME NEW u \in UIs, CleanLists(u) PROVE OrphansFiled'
  <2>1. /\ UNCHANGED <<phase, proc, pidfile, lost>>
        /\ clean'.left = {s \in Services : pidfile[s] # None}
    BY <1>1 DEF CleanLists, NoClean
  <2>2. \A s \in Services, q \in Pids : OnFile(s, q) => OnFile(s, q)'
    BY <2>1 DEF OnFile
  <2> QED BY <1>0, <1>s, <2>1, <2>2
<1>2. ASSUME NEW x \in Services, CleanReads(x) PROVE OrphansFiled'
  <2>1. clean.step = "list" /\ UNCHANGED <<phase, proc, pidfile, lost>>
    BY <1>2 DEF CleanReads
  <2>2. ASSUME NEW s \in Services, NEW q \in Pids, OnFile(s, q) PROVE OnFile(s, q)'
    <3>1. pidfile'[s] = q /\ s \in clean.left
      BY <2>1, <2>2 DEF OnFile, AtFile
    <3>2. clean'.left = clean.left \ {x}
      BY <1>2, <1>p DEF CleanReads, CleanRec
    <3>3. CASE s # x
      BY <3>1, <3>2, <3>3 DEF OnFile
    <3>4. CASE s = x
      <4>1. pidfile[x] = q /\ pidfile[x] # None
        BY <2>2, <3>4 DEF OnFile
      <4>2. clean'.svc = x /\ clean'.pid = q /\ clean'.step = "alive"
        BY <1>2, <1>p, <4>1 DEF CleanReads, CleanRec
      <4> QED BY <3>1, <3>4, <4>2 DEF OnFile, AtFile
    <3> QED BY <3>3, <3>4
  <2> QED BY <1>0, <1>s, <2>1, <2>2
<1>g. ASSUME NEW x \in {"image", "kill"}, AtFile, clean' = [clean EXCEPT !.step = x],
             pidfile' = pidfile, NEW s \in Services, NEW q \in Pids, OnFile(s, q)
      PROVE  OnFile(s, q)'
  <2>1. /\ clean'.step = x /\ clean'.left = clean.left /\ clean'.svc = clean.svc
        /\ clean'.pid = clean.pid
    BY <1>g, <1>p DEF CleanRec
  <2> QED BY <1>g, <2>1 DEF OnFile, AtFile
<1>3. CASE CleanAlive
  <2>1. clean.step = "alive" /\ AtFile /\ UNCHANGED <<phase, proc>>
    BY <1>3 DEF CleanAlive, AtFile
  <2>2. CASE clean' = [clean EXCEPT !.step = "image"] /\ UNCHANGED <<pidfile, lost>>
    BY <1>0, <1>g, <1>s, <2>1, <2>2
  <2>3. CASE clean' = NextFile /\ RemovesPid(clean.svc) /\ lost' = lost \cup Survivor
    <3>1. \A q \in Pids : Alive(q)' /\ q = clean.pid => q \in lost'
      BY <2>1, <2>3 DEF Survivor, Alive
    <3> QED BY <1>0, <1>f, <1>s, <2>1, <2>3, <3>1
  <2> QED BY <1>3, <2>2, <2>3 DEF CleanAlive
<1>4. CASE CleanImage
  <2>1. clean.step = "image" /\ AtFile /\ UNCHANGED <<phase, proc, pidfile>>
    BY <1>4 DEF CleanImage, AtFile
  <2>2. CASE clean' = [clean EXCEPT !.step = "kill"] /\ lost' = lost
    BY <1>0, <1>g, <1>s, <2>1, <2>2
  <2>3. CASE clean' = NextFile /\ lost' = lost \cup Survivor
    <3>1. \A q \in Pids : Alive(q)' /\ q = clean.pid => q \in lost'
      BY <2>1, <2>3 DEF Survivor, Alive
    <3> QED BY <1>0, <1>f, <1>s, <2>1, <2>3, <3>1
  <2> QED BY <1>4, <2>2, <2>3 DEF CleanImage
<1>5. CASE CleanKills
  <2>1. /\ clean.step = "kill" /\ AtFile /\ phase' = phase /\ clean.pid \in Pids
        /\ clean' = NextFile /\ RemovesPid(clean.svc)
    BY <1>5, <1>p DEF CleanKills, AtFile, CleanFits
  <2>2. CASE proc' = [proc EXCEPT ![clean.pid] = Killed(clean.pid)] /\ lost' = lost
    <3>1. proc' = [q \in Pids |-> IF q \in {clean.pid} THEN Killed(q) ELSE proc[q]]
      BY <1>p, <2>2
    <3>2. \A q \in Pids : Alive(q)' => /\ Alive(q) /\ proc'[q] = proc[q]
                                       /\ q \notin {clean.pid}
      BY <1>p, <3>1, KillsKeep
    <3> QED BY <1>0, <1>f, <2>1, <2>2, <3>2
  <2>3. CASE lost' = lost \cup Survivor /\ proc' = proc
    <3>1. \A q \in Pids : Alive(q)' /\ q = clean.pid => q \in lost'
      BY <2>1, <2>3 DEF Survivor, Alive
    <3> QED BY <1>0, <1>f, <1>s, <2>1, <2>3, <3>1
  <2> QED BY <1>5, <2>2, <2>3 DEF CleanKills
<1>6. CASE CleanEnds
  <2>1. /\ clean.step = "list" /\ clean.left = {} /\ UNCHANGED <<proc, lost>>
        /\ phase' = [phase EXCEPT ![clean.ui] = AfterClean(phase[clean.ui])]
    BY <1>6 DEF CleanEnds
  <2>2. \A s \in Services, q \in Pids : ~OnFile(s, q)
    BY <2>1 DEF OnFile, AtFile
  <2>3. clean.ui \in UIs /\ phase'[clean.ui] \in Serving
    BY <1>p, <2>1 DEF CleanFits, AfterClean, Serving, Quitting
  <2>4. Owners \subseteq Owners'
    BY <1>p, <2>1, <2>3 DEF Owners
  <2> QED BY <2>1, <2>2, <2>4 DEF OrphansFiled, Alive
<1> QED BY <1>1, <1>2, <1>3, <1>4, <1>5, <1>6 DEF Cleans

(* When a UI runs, the workers earlier UIs left behind are dead, whenever  *)
(* those ended and whatever numbers were used again since: every one was   *)
(* on file when its UI ended, and stayed so until a UI cleaned up. The     *)
(* exceptions are those Unfiled lists, a worker whose pid file could not   *)
(* be written and one whose end was refused to the UI that cleaned up.     *)
THEOREM OrphansAreCleaned == Spec => []OrphansCleaned
<1>1. Init => OrphansFiled
  BY DEF Init, OrphansFiled, Alive, Free
<1>2. WInv /\ OrphansFiled /\ [Next]_vars => OrphansFiled'
  <2> SUFFICES ASSUME WInv, OrphansFiled, [Next]_vars PROVE OrphansFiled'
    OBVIOUS
  <2>1. CASE Spawns
    BY <2>1, FiledSpawn
  <2>2. ASSUME NEW u \in UIs,
               \/ Launch(u) \/ Elevates(u) \/ Lock(u)
               \/ QuitKills(u) \/ QuitRemoves(u) \/ Exits(u) \/ Crashes(u)
        PROVE  OrphansFiled'
    BY <2>2, FiledPhases
  <2>3. CASE \/ Serves
             \/ \E k \in kills : StopKills(k)
             \/ \E w \in waiters : Reaps(w)
             \/ \E p \in Pids : Dies(p) \/ ForeignStarts(p) \/ ForeignEnds(p)
             \/ UNCHANGED vars
    BY <2>3, FiledInService
  <2>4. CASE Cleans
    BY <2>4, FiledCleans
  <2> QED BY <2>1, <2>2, <2>3, <2>4 DEF Next, Serves
<1>3. OrphansFiled => OrphansCleaned
  <2> SUFFICES ASSUME OrphansFiled, NEW u \in UIs, phase[u] = "run" PROVE OrphansCleaned
    BY DEF OrphansCleaned
  <2>1. SomeoneServes
    BY DEF SomeoneServes, Serving
  <2> QED BY <2>1 DEF OrphansFiled, OrphansCleaned
<1> QED BY WInvInit, WInvStep, <1>1, <1>2, <1>3, PTL DEF Spec

=============================================================================
