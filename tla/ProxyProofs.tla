---------------------------- MODULE ProxyProofs ----------------------------
(***************************************************************************)
(* Proofs about the two halves of TCP forwarding: ForwardManager, which    *)
(* opens and closes the listeners, for any set of rules and configurations *)
(* and any number of edits, failing binds, accept errors and tunnels; and  *)
(* Relay, which carries one connection, for any amount of data, any room   *)
(* in the hops, both kinds of connection and both transports.              *)
(*                                                                         *)
(* SocketsOwned is not inductive by itself: a listener is recognised by    *)
(* its entry, so a live entry must never have the target of an absent one  *)
(* (Targeted), and setupForwardMode gives its sockets up without touching  *)
(* the entries, which is right only because there are none yet (Fresh).    *)
(*                                                                         *)
(* Prefix says what has been read; its proof needs what is still under way *)
(* (RInv): every buffer continues the one ahead of it, with the header in  *)
(* front, as far back as the copies still deliver (InOrder, Flows), and    *)
(* nothing is passed on before a copy starts (Unmoved, Control). EofIsReal *)
(* needs that, as long as nothing but the applications ends the            *)
(* connection, an end is passed on only behind all the data of its         *)
(* direction (EndsAfter, Total) and no handler gives up (Undisturbed).     *)
(***************************************************************************)
EXTENDS ForwardManager, Relay, FiniteSetTheorems, SequenceTheorems, TLAPS

-----------------------------------------------------------------------------
(* The forward manager: what its invariant adds *)


(* A listener forwards to a rule's target, or is the proxy. *)
Targeted ==
    /\ \A k \in Keys : Live(k) => entries[k].target # "off"
    /\ builtin # NoRunner => builtin.target # "off"

(* Before setupForwardMode there is nothing. *)
Fresh ==
    rpc = "setup" => /\ \A k \in Keys : ~Live(k)
                     /\ builtin = NoRunner /\ bound = {} /\ wpc = "none"

FInv == SocketsOwned /\ Targeted /\ Fresh

-----------------------------------------------------------------------------
(* Runners *)

(* What is made of a runner is a runner.                                   *)
LEMMA RunnerTypes ==
    /\ NoRunner \in Runners
    /\ \A r \in Runners, t \in Targets \cup {"off", "proxy"} :
          SetTarget(r, t) \in Runners
    /\ \A r \in Runners, c \in 0..MaxTunnels : [r EXCEPT !.conn = c] \in Runners
    /\ \A r \in Runners : [r EXCEPT !.failures = 0] \in Runners
<1> USE ForwardAssumption
<1>1. NoRunner \in Runners
  BY DEF NoRunner, Runners
<1>2. \A r \in Runners, t \in Targets \cup {"off", "proxy"} :
         SetTarget(r, t) \in Runners
  BY DEF SetTarget, Runners
<1>3. \A r \in Runners, c \in 0..MaxTunnels : [r EXCEPT !.conn = c] \in Runners
  BY DEF Runners
<1>4. \A r \in Runners : [r EXCEPT !.failures = 0] \in Runners
  BY DEF Runners
<1> QED BY <1>1, <1>2, <1>3, <1>4

(* A listener that is made for a target has it, and the manager's tunnel.  *)
LEMMA NewRunnerIs ==
    ASSUME quic \in 0..MaxTunnels
    PROVE  \A t \in Targets \cup {"proxy"} :
              /\ NewRunner(t) \in Runners
              /\ NewRunner(t).target = t /\ NewRunner(t).conn = quic
              /\ NewRunner(t) # NoRunner
<1> SUFFICES ASSUME NEW t \in Targets \cup {"proxy"}
             PROVE  /\ NewRunner(t) \in Runners
                    /\ NewRunner(t).target = t /\ NewRunner(t).conn = quic
                    /\ NewRunner(t) # NoRunner
  OBVIOUS
<1> USE ForwardAssumption
<1>1. NoRunner \in Runners /\ NoRunner.target = "off"
  BY RunnerTypes DEF NoRunner
<1>2. NewRunner(t) \in Runners
  BY <1>1 DEF NewRunner, Runners
<1>3. NewRunner(t).target = t /\ NewRunner(t).conn = quic
  BY <1>1 DEF NewRunner, Runners
<1> QED BY <1>1, <1>2, <1>3

(* An accept error leaves a listener its target and its tunnel.            *)
LEMMA ServeErrorIs ==
    \A r \in Runners : \A e \in ServeError(r) :
        /\ e \in Runners /\ e.target = r.target /\ e.conn = r.conn
        /\ e # NoRunner
<1> SUFFICES ASSUME NEW r \in Runners, NEW e \in ServeError(r)
             PROVE  /\ e \in Runners /\ e.target = r.target /\ e.conn = r.conn
                    /\ e # NoRunner
  OBVIOUS
<1> USE ForwardAssumption
<1>1. CASE e = [r EXCEPT !.failed = TRUE]
  BY <1>1 DEF Runners, NoRunner
<1>2. CASE e = [r EXCEPT !.failures = IF @ < MaxServeFailures THEN @ + 1 ELSE @,
                         !.failed = r.failures >= MaxServeFailures]
  <2>1. /\ r.failures \in 0..MaxServeFailures
        /\ (r.failures >= MaxServeFailures) \in BOOLEAN
    BY DEF Runners
  <2>2. e = [target |-> r.target, conn |-> r.conn,
             failures |-> IF r.failures < MaxServeFailures THEN r.failures + 1
                          ELSE r.failures,
             failed |-> r.failures >= MaxServeFailures]
    BY <1>2 DEF Runners
  <2>3. e.failures \in 0..MaxServeFailures
    BY <2>1, <2>2
  <2>4. CASE r.failures < MaxServeFailures
    <3>1. e.failures # 0
      BY <2>1, <2>2, <2>4
    <3> QED BY <3>1, <2>1, <2>2, <2>3 DEF Runners, NoRunner
  <2>5. CASE r.failures >= MaxServeFailures
    <3>0. (r.failures >= MaxServeFailures) = TRUE
      BY <2>5, Zenon
    <3>2. (IF r.failures < MaxServeFailures THEN r.failures + 1 ELSE r.failures)
            = r.failures
      BY <2>1, <2>5
    <3>1. e = [r EXCEPT !.failures = r.failures, !.failed = TRUE]
      BY <1>2, <3>0, <3>2, Zenon
    <3> QED BY <3>1, <2>1 DEF Runners, NoRunner
  <2> QED BY <2>1, <2>4, <2>5
<1> QED BY <1>1, <1>2 DEF ServeError

-----------------------------------------------------------------------------
(* Apply *)

(* What Apply leaves, whatever binds fail: an entry is a listener for the  *)
(* rule's target that forwards into the manager's tunnel, or there is      *)
(* none; the bound sockets are those of the entries and the proxy's. When  *)
(* no bind fails, every rule is in force.                                  *)
LEMMA ApplyIs ==
    ASSUME TypeOK, SocketsOwned, Targeted,
           NEW rules \in Rules, NEW fails \in SUBSET Keys
    PROVE  LET E == ApplyEntries(rules, fails) IN
             /\ E \in [Keys -> Runners]
             /\ \A k \in Keys : E[k] # NoRunner =>
                    /\ E[k].target = rules[k] /\ rules[k] # "off"
                    /\ Live(k) /\ entries[k].conn = quic => E[k].conn = quic
                    /\ ~Live(k) => E[k].conn = quic
             /\ ApplyBound(rules, fails) =
                    {k \in Keys : E[k] # NoRunner} \cup (bound \cap {"proxy"})
             /\ fails = {} => \A k \in Keys : E[k].target = rules[k]
<1> USE ForwardAssumption
<1> DEFINE E == ApplyEntries(rules, fails)
<1>t. /\ entries \in [Keys -> Runners] /\ quic \in 0..MaxTunnels
      /\ \A k \in Keys : rules[k] \in Targets \cup {"off"}
  BY DEF TypeOK, Rules
<1>1. ASSUME NEW k \in Keys
      PROVE  /\ E[k] \in Runners
             /\ E[k] # NoRunner =>
                    /\ E[k].target = rules[k] /\ rules[k] # "off"
                    /\ Live(k) /\ entries[k].conn = quic => E[k].conn = quic
                    /\ ~Live(k) => E[k].conn = quic
             /\ (E[k] # NoRunner) <=>
                  (\/ k \in Kept(rules) \ (Stale(rules) \cap fails)
                   \/ Applied(rules, fails) /\ k \in Added(rules))
             /\ fails = {} => E[k].target = rules[k]
  <2>0. E[k] = IF k \in Stale(rules)
               THEN IF k \in fails THEN NoRunner ELSE NewRunner(rules[k])
               ELSE IF k \in Kept(rules) THEN SetTarget(entries[k], rules[k])
               ELSE IF k \in Added(rules) /\ Applied(rules, fails)
               THEN NewRunner(rules[k])
               ELSE NoRunner
    BY DEF ApplyEntries
  <2>a. /\ k \in Kept(rules) <=> Live(k) /\ rules[k] # "off"
        /\ k \in Stale(rules) <=> k \in Kept(rules) /\ entries[k].failed
        /\ k \in Added(rules) <=> ~Live(k) /\ rules[k] # "off"
    BY DEF Kept, Stale, Added
  <2>b. fails = {} => Applied(rules, fails)
    BY DEF Applied
  <2>n. rules[k] # "off" =>
            /\ NewRunner(rules[k]) \in Runners
            /\ NewRunner(rules[k]).target = rules[k]
            /\ NewRunner(rules[k]).conn = quic
            /\ NewRunner(rules[k]) # NoRunner
    BY <1>t, NewRunnerIs
  <2>o. NoRunner \in Runners /\ NoRunner.target = "off"
    BY RunnerTypes DEF NoRunner
  <2>1. CASE k \in Stale(rules)
    BY <2>0, <2>a, <2>n, <2>o, <2>1
  <2>2. CASE k \in Kept(rules) /\ k \notin Stale(rules)
    <3>1. E[k] = SetTarget(entries[k], rules[k])
      BY <2>0, <2>2
    <3>2. E[k] \in Runners
      BY <3>1, <1>t, RunnerTypes
    <3>3. E[k].target = rules[k] /\ E[k].conn = entries[k].conn
      BY <3>1, <1>t DEF SetTarget, Runners
    <3>4. E[k] # NoRunner
      BY <3>3, <2>a, <2>2, <2>o
    <3> QED BY <3>2, <3>3, <3>4, <2>a, <2>2
  <2>3. CASE k \in Added(rules) /\ Applied(rules, fails)
    BY <2>0, <2>a, <2>n, <2>3
  <2>4. CASE k \notin Kept(rules) /\ ~(k \in Added(rules) /\ Applied(rules, fails))
    <3>1. E[k] = NoRunner
      BY <2>0, <2>a, <2>4
    <3>2. fails = {} => rules[k] = "off"
      BY <2>a, <2>b, <2>4
    <3> QED BY <3>1, <3>2, <2>a, <2>o, <2>4
  <2> QED BY <2>1, <2>2, <2>3, <2>4, <2>a
<1>2. E \in [Keys -> Runners]
  BY <1>1 DEF ApplyEntries
<1>3. ApplyBound(rules, fails) =
          {k \in Keys : E[k] # NoRunner} \cup (bound \cap {"proxy"})
  <2>1. Kept(rules) \subseteq Keys /\ Added(rules) \subseteq Keys
    BY DEF Kept, Added
  <2>2. {k \in Keys : E[k] # NoRunner} =
            (Kept(rules) \ (Stale(rules) \cap fails))
              \cup (IF Applied(rules, fails) THEN Added(rules) ELSE {})
    BY <1>1, <2>1
  <2> QED BY <2>2 DEF ApplyBound
<1> QED BY <1>1, <1>2, <1>3

(* The number of binds that fail is a number, and 0 only for none.         *)
LEMMA FailsCount ==
    \A fails \in SUBSET Keys :
        /\ Cardinality(fails) \in Nat
        /\ Cardinality(fails) = 0 => fails = {}
<1> SUFFICES ASSUME NEW fails \in SUBSET Keys
             PROVE  /\ Cardinality(fails) \in Nat
                    /\ Cardinality(fails) = 0 => fails = {}
  OBVIOUS
<1>1. IsFiniteSet(fails)
  BY FS_Subset, ForwardAssumption
<1> QED BY <1>1, FS_CardinalityType, FS_EmptySet

(* Apply under m.mu keeps what the manager's state must satisfy.           *)
LEMMA ApplyStep ==
    ASSUME SocketsOwned, Targeted,
           NEW rules \in Rules, NEW fails \in SUBSET Keys,
           ApplySome(rules, fails), builtin' = builtin
    PROVE  /\ entries' \in [Keys -> Runners]
           /\ bound' \subseteq Keys \cup {"proxy"}
           /\ bindFaults' \in 0..MaxBindFaults
           /\ bound' = {k \in Keys : entries'[k] # NoRunner}
                         \cup (IF builtin' = NoRunner THEN {} ELSE {"proxy"})
           /\ closed => bound' = {}
           /\ \A k \in Keys : entries'[k] # NoRunner => entries'[k].target # "off"
           /\ (\A k \in Keys : Live(k) => entries[k].conn = quic) =>
                 \A k \in Keys : entries'[k] # NoRunner => entries'[k].conn = quic
           /\ bindFaults' = 0 =>
                 /\ bindFaults = 0
                 /\ ~closed => /\ Applied(rules, fails)
                               /\ \A k \in Keys : entries'[k].target = rules[k]
<1> USE ForwardAssumption
<1>t. /\ entries \in [Keys -> Runners] /\ bound \subseteq Keys \cup {"proxy"}
      /\ bindFaults \in 0..MaxBindFaults
      /\ \A k \in Keys : rules[k] \in Targets \cup {"off"}
      /\ TypeOK
  BY DEF SocketsOwned, TypeOK, Rules
<1>c. Cardinality(fails) \in Nat /\ (Cardinality(fails) = 0 => fails = {})
  BY FailsCount
<1>b. /\ bindFaults' \in 0..MaxBindFaults
      /\ bindFaults' = 0 => bindFaults = 0 /\ fails = {}
  BY <1>c, <1>t DEF ApplySome
<1>1. CASE closed
  <2>1. entries' = entries /\ bound' = bound
    BY <1>1 DEF ApplySome, Apply
  <2> QED BY <1>1, <1>b, <1>t, <2>1 DEF SocketsOwned, Targeted, Live
<1>2. CASE ~closed
  <2>1. entries' = ApplyEntries(rules, fails) /\ bound' = ApplyBound(rules, fails)
    BY <1>2 DEF ApplySome, Apply
  <2>2. bound \cap {"proxy"} = IF builtin = NoRunner THEN {} ELSE {"proxy"}
    BY DEF SocketsOwned
  <2>3. /\ entries' \in [Keys -> Runners]
        /\ \A k \in Keys : entries'[k] # NoRunner =>
                    /\ entries'[k].target = rules[k] /\ rules[k] # "off"
                    /\ Live(k) /\ entries[k].conn = quic => entries'[k].conn = quic
                    /\ ~Live(k) => entries'[k].conn = quic
        /\ bound' = {k \in Keys : entries'[k] # NoRunner} \cup (bound \cap {"proxy"})
        /\ fails = {} => \A k \in Keys : entries'[k].target = rules[k]
    BY <1>t, <2>1, ApplyIs
  <2>4. fails = {} => Applied(rules, fails)
    BY DEF Applied
  <2>5. bound' = {k \in Keys : entries'[k] # NoRunner}
                   \cup (IF builtin' = NoRunner THEN {} ELSE {"proxy"})
    BY <2>2, <2>3
  <2>6. bound' \subseteq Keys \cup {"proxy"}
    BY <2>5
  <2>7. \A k \in Keys : entries'[k] # NoRunner => entries'[k].target # "off"
    BY <2>3
  <2>8. (\A k \in Keys : Live(k) => entries[k].conn = quic) =>
            \A k \in Keys : entries'[k] # NoRunner => entries'[k].conn = quic
    BY <2>3
  <2> QED BY <1>2, <1>b, <2>3, <2>4, <2>5, <2>6, <2>7, <2>8
<1> QED BY <1>1, <1>2

(* Giving the manager another tunnel changes nothing but the tunnel.       *)
LEMMA SetQuicStep ==
    ASSUME SocketsOwned, Targeted, NEW c \in 0..MaxTunnels, SetQuic(c)
    PROVE  /\ entries' \in [Keys -> Runners] /\ builtin' \in Runners
           /\ quic' \in 0..MaxTunnels
           /\ \A k \in Keys : /\ (entries'[k] # NoRunner) <=> Live(k)
                              /\ entries'[k].target = entries[k].target
           /\ (builtin' = NoRunner) <=> (builtin = NoRunner)
           /\ builtin'.target = builtin.target
           /\ ~closed => /\ \A k \in Keys : Live(k) => entries'[k].conn = quic'
                         /\ builtin # NoRunner => builtin'.conn = quic'
<1> USE ForwardAssumption
<1>t. /\ entries \in [Keys -> Runners] /\ builtin \in Runners
      /\ quic \in 0..MaxTunnels
  BY DEF SocketsOwned, TypeOK
<1>1. CASE closed
  <2>1. quic' = quic /\ entries' = entries /\ builtin' = builtin
    BY <1>1 DEF SetQuic
  <2> QED BY <1>1, <1>t, <2>1 DEF Live
<1>2. CASE ~closed
  <2>1. /\ quic' = c
        /\ entries' = [k \in Keys |-> IF Live(k) THEN [entries[k] EXCEPT !.conn = c]
                                       ELSE NoRunner]
        /\ builtin' = IF builtin = NoRunner THEN builtin
                      ELSE [builtin EXCEPT !.conn = c]
    BY <1>2 DEF SetQuic
  <2>2. \A r \in Runners : /\ [r EXCEPT !.conn = c] \in Runners
                           /\ [r EXCEPT !.conn = c].conn = c
                           /\ [r EXCEPT !.conn = c].target = r.target
    BY RunnerTypes DEF Runners
  <2>3. NoRunner \in Runners /\ NoRunner.target = "off"
    BY RunnerTypes DEF NoRunner
  <2>4. ASSUME NEW k \in Keys
        PROVE  /\ entries'[k] \in Runners
               /\ (entries'[k] # NoRunner) <=> Live(k)
               /\ entries'[k].target = entries[k].target
               /\ Live(k) => entries'[k].conn = c
    <3>1. CASE Live(k)
      <4>1. entries'[k] = [entries[k] EXCEPT !.conn = c]
        BY <2>1, <3>1
      <4>2. /\ entries'[k] \in Runners /\ entries'[k].conn = c
            /\ entries'[k].target = entries[k].target
        BY <1>t, <2>2, <4>1
      <4>3. entries'[k] # NoRunner
        BY <2>3, <3>1, <4>2 DEF Targeted
      <4> QED BY <3>1, <4>2, <4>3
    <3>2. CASE ~Live(k)
      <4>1. entries'[k] = NoRunner /\ entries[k] = NoRunner
        BY <2>1, <3>2 DEF Live
      <4> QED BY <2>3, <3>2, <4>1
    <3> QED BY <3>1, <3>2
  <2>5. /\ builtin' \in Runners
        /\ (builtin' = NoRunner) <=> (builtin = NoRunner)
        /\ builtin'.target = builtin.target
        /\ builtin # NoRunner => builtin'.conn = c
    BY <1>t, <2>1, <2>2, <2>3 DEF Targeted
  <2>6. entries' \in [Keys -> Runners]
    BY <2>1, <2>4
  <2> QED BY <2>1, <2>4, <2>5, <2>6
<1> QED BY <1>1, <1>2

(* Whatever is saved is a mode and rules. *)
LEMMA ConfigTypes ==
    \A s \in Configs :
        /\ s.rules \in Rules
        /\ ForwardFingerprint(s) \in [mode : {"tun", "forward"}, rules : Rules]
        /\ ForwardFingerprint(s).rules = s.rules
        /\ ForwardFingerprint(s).mode = s.mode
BY ForwardAssumption DEF Rules, ForwardFingerprint

-----------------------------------------------------------------------------
(* The inductive invariant *)

(* What SocketsOwned and Targeted say of the manager is kept when every    *)
(* entry stays live or absent, and keeps its target.                       *)
LEMMA SameListeners ==
    ASSUME FInv, TypeOK', bound' = bound, closed' = closed,
           \A k \in Keys : /\ (entries'[k] # NoRunner) <=> Live(k)
                           /\ entries'[k].target = entries[k].target,
           (builtin' = NoRunner) <=> (builtin = NoRunner),
           builtin'.target = builtin.target,
           rpc' = "setup" => rpc = "setup" /\ wpc' = "none"
    PROVE  FInv'
<1>1. {k \in Keys : Live(k)'} = {k \in Keys : Live(k)}
  BY DEF Live
<1>2. SocketsOwned'
  BY <1>1 DEF FInv, SocketsOwned
<1>3. Targeted'
  BY DEF FInv, Targeted, Live
<1>4. Fresh'
  BY DEF FInv, Fresh, Live
<1> QED BY <1>2, <1>3, <1>4 DEF FInv

(* Initially there are no listeners. *)
LEMMA FInvInit == Init => FInv
<1> SUFFICES ASSUME Init PROVE FInv
  OBVIOUS
<1>1. \A k \in Keys : ~Live(k)
  BY DEF Init, Live
<1>2. saved \in Configs /\ last \in [mode : {"tun", "forward"}, rules : Rules]
  BY ConfigTypes DEF Init
<1>3. entries \in [Keys -> Runners] /\ builtin \in Runners
  BY RunnerTypes DEF Init
<1>4. 0 \in 0..MaxTunnels /\ 0 \in 0..MaxEdits /\ 0 \in 0..MaxBindFaults
      /\ 0 \in 0..MaxServeFaults
  BY ForwardAssumption
<1>5. TypeOK
  <2>1. closed \in BOOLEAN /\ ptr \in BOOLEAN /\ seen \in Configs
    BY <1>2 DEF Init
  <2>2. bound \subseteq Keys \cup {"proxy"} /\ state \in 0..2
    BY DEF Init
  <2>3. /\ rpc \in {"setup", "connect", "proxy", "up", "health", "release", "exit"}
        /\ wpc \in {"none", "tick", "check", "done"}
        /\ spc \in {"none", "close", "nil", "done"}
        /\ shown \in {"none", "addr", "denied"}
    BY DEF Init
  <2>4. /\ quic \in 0..MaxTunnels /\ tunnel \in 0..MaxTunnels
        /\ edits \in 0..MaxEdits /\ bindFaults \in 0..MaxBindFaults
        /\ serveFaults \in 0..MaxServeFaults /\ tunnels \in 0..MaxTunnels
    BY <1>4 DEF Init
  <2> QED BY <1>2, <1>3, <2>1, <2>2, <2>3, <2>4 DEF TypeOK
<1> QED BY <1>1, <1>5 DEF Init, FInv, SocketsOwned, Targeted, Fresh

(* Every step keeps the invariant. *)
LEMMA FInvStep == FInv /\ [Next]_vars => FInv'
<1> SUFFICES ASSUME FInv, [Next]_vars PROVE FInv'
  OBVIOUS
<1> USE ForwardAssumption
<1>t. SocketsOwned /\ Targeted /\ Fresh /\ TypeOK
  BY DEF FInv, SocketsOwned
<1>u. /\ entries \in [Keys -> Runners] /\ builtin \in Runners
      /\ quic \in 0..MaxTunnels /\ tunnels \in 0..MaxTunnels
      /\ bindFaults \in 0..MaxBindFaults
  BY <1>t DEF TypeOK
<1>s. ASSUME UNCHANGED <<entries, builtin, bound, closed>>,
             rpc' = "setup" => rpc = "setup" /\ wpc' = "none", TypeOK'
      PROVE  FInv'
  BY <1>s, SameListeners DEF Live
<1>1. CASE Edit
  <2>1. TypeOK'
    BY <1>1, <1>t DEF Edit, TypeOK, mgr, local, watch
  <2> QED BY <1>1, <2>1, <1>s, <1>t DEF Edit, mgr, local, watch, Fresh
<1>2. CASE ServeFails
  <2>1. entries' \in [Keys -> Runners] /\ builtin' \in Runners
    BY <1>2, <1>u, ServeErrorIs DEF ServeFails
  <2>2. TypeOK'
    BY <1>2, <1>t, <2>1 DEF ServeFails, TypeOK, local, watch
  <2>3. /\ \A k \in Keys : /\ (entries'[k] # NoRunner) <=> Live(k)
                           /\ entries'[k].target = entries[k].target
        /\ (builtin' = NoRunner) <=> (builtin = NoRunner)
        /\ builtin'.target = builtin.target
    BY <1>2, <1>u, ServeErrorIs DEF ServeFails, Live
  <2> QED BY <1>2, <2>2, <2>3, SameListeners, <1>t DEF ServeFails, local, watch, Fresh
<1>3. ASSUME NEW k \in Keys, ServeAccepts(k) PROVE FInv'
  <2>1. /\ [entries[k] EXCEPT !.failures = 0] \in Runners
        /\ [entries[k] EXCEPT !.failures = 0].target = entries[k].target
    BY <1>u, RunnerTypes DEF Runners
  <2>2. /\ entries' = [entries EXCEPT ![k] = [entries[k] EXCEPT !.failures = 0]]
        /\ entries[k].failures > 0
    BY <1>3, <1>u DEF ServeAccepts
  <2>3. Live(k)
    BY <2>2 DEF Live, NoRunner
  <2>4. entries'[k] # NoRunner
    BY <1>t, <1>u, <2>1, <2>2, <2>3 DEF Targeted, NoRunner
  <2>5. entries' \in [Keys -> Runners]
    BY <1>u, <2>1, <2>2
  <2>6. TypeOK'
    BY <1>3, <1>t, <2>5 DEF ServeAccepts, TypeOK, local, watch
  <2>7. \A j \in Keys : /\ (entries'[j] # NoRunner) <=> Live(j)
                        /\ entries'[j].target = entries[j].target
    BY <1>u, <2>1, <2>2, <2>3, <2>4 DEF Live
  <2> QED BY <1>3, <2>6, <2>7, SameListeners, <1>t DEF ServeAccepts, local, watch, Fresh
<1>4. CASE SetupForwardMode
  <2>0. rpc = "setup" /\ rpc' # "setup"
    BY <1>4 DEF SetupForwardMode
  <2>1. CASE saved.status = "gone" \/ saved.mode = "tun" \/ ~RulesFromUI(saved)
    <3>1. TypeOK' /\ UNCHANGED mgr
      BY <1>4, <2>1, <1>t DEF SetupForwardMode, TypeOK, mgr, watch
    <3> QED BY <3>1, <2>0, <1>s DEF mgr
  <2>2. ASSUME NEW fails \in SUBSET Keys, Applied(saved.rules, fails),
               ApplySome(saved.rules, fails),
               rpc' = "loop", ptr' = TRUE, wpc' = "tick",
               last' = ForwardFingerprint(saved),
               UNCHANGED <<quic, seen, builtin, closed>>
        PROVE  FInv'
    <3>1. saved \in Configs /\ saved.rules \in Rules
      BY <1>t, ConfigTypes DEF TypeOK
    <3>2. /\ entries' \in [Keys -> Runners]
          /\ bound' \subseteq Keys \cup {"proxy"}
          /\ bindFaults' \in 0..MaxBindFaults
          /\ bound' = {k \in Keys : entries'[k] # NoRunner}
                         \cup (IF builtin' = NoRunner THEN {} ELSE {"proxy"})
          /\ closed => bound' = {}
          /\ \A k \in Keys : entries'[k] # NoRunner => entries'[k].target # "off"
      BY <1>t, <2>2, <3>1, ApplyStep
    <3>3. TypeOK'
      BY <1>4, <1>t, <2>2, <3>1, <3>2, ConfigTypes DEF SetupForwardMode, TypeOK
    <3> QED BY <2>0, <2>2, <3>2, <3>3, <1>t DEF FInv, SocketsOwned, Targeted, Fresh, Live
  <2>3. ASSUME bindFaults < MaxBindFaults, bindFaults' = bindFaults + 1,
               entries' = entries, bound' = {}, closed' = TRUE, rpc' = "exit",
               UNCHANGED <<quic, ptr, watch, builtin>>
        PROVE  FInv'
    <3>1. TypeOK'
      BY <1>4, <1>t, <2>3 DEF SetupForwardMode, TypeOK, watch
    <3>2. \A k \in Keys : ~Live(k)'
      BY <1>t, <2>0, <2>3 DEF Fresh, Live
    <3>3. builtin' = NoRunner
      BY <1>t, <2>0, <2>3 DEF Fresh
    <3> QED BY <2>3, <3>1, <3>2, <3>3 DEF FInv, SocketsOwned, Targeted, Fresh
  <2> QED BY <1>4, <2>1, <2>2, <2>3 DEF SetupForwardMode
<1>5. CASE SetsQuic
  <2>1. /\ entries' \in [Keys -> Runners] /\ builtin' \in Runners
        /\ quic' \in 0..MaxTunnels
        /\ \A k \in Keys : /\ (entries'[k] # NoRunner) <=> Live(k)
                           /\ entries'[k].target = entries[k].target
        /\ (builtin' = NoRunner) <=> (builtin = NoRunner)
        /\ builtin'.target = builtin.target
    <3>1. tunnels + 1 \in 0..MaxTunnels
      BY <1>5, <1>u DEF SetsQuic
    <3>2. CASE ptr
      BY <1>5, <1>t, <3>1, <3>2, SetQuicStep DEF SetsQuic
    <3>3. CASE ~ptr
      BY <1>5, <1>u, <3>3 DEF SetsQuic, Live
    <3> QED BY <3>2, <3>3
  <2>2. TypeOK'
    BY <1>5, <1>t, <2>1 DEF SetsQuic, TypeOK, watch
  <2> QED BY <1>5, <2>1, <2>2, SameListeners DEF SetsQuic
<1>6. CASE RunLocalLoops \/ RunLocalReturns
  <2>1. TypeOK'
    BY <1>6, <1>t DEF RunLocalLoops, RunLocalReturns, TypeOK, mgr, watch
  <2> QED BY <1>6, <2>1, <1>s DEF RunLocalLoops, RunLocalReturns, mgr
<1>7. CASE ApplyLocalProxy
  <2>0. /\ rpc' = "up" /\ UNCHANGED <<entries, quic, closed>>
        /\ bound = {k \in Keys : Live(k)}
                      \cup (IF builtin = NoRunner THEN {} ELSE {"proxy"})
        /\ closed => bound = {}
    BY <1>7, <1>t DEF ApplyLocalProxy, SocketsOwned
  <2>1. ASSUME builtin' \in Runners, bindFaults' \in 0..MaxBindFaults,
               shown' \in {"addr", "denied"},
               bound' = {k \in Keys : Live(k)}
                      \cup (IF builtin' = NoRunner THEN {} ELSE {"proxy"}),
               closed => bound' = {},
               builtin' # NoRunner => builtin'.target # "off"
        PROVE  FInv'
    <3>1. TypeOK'
      BY <1>7, <1>t, <2>1 DEF ApplyLocalProxy, TypeOK, watch
    <3>2. {k \in Keys : Live(k)'} = {k \in Keys : Live(k)}
      BY <2>0 DEF Live
    <3> QED BY <1>t, <2>0, <2>1, <3>1, <3>2
            DEF FInv, SocketsOwned, Targeted, Fresh, Live
  <2>2. CASE UNCHANGED <<builtin, bound, bindFaults>> /\ shown' \in {"addr", "denied"}
    BY <1>t, <1>u, <2>0, <2>1, <2>2 DEF Targeted
  <2>3. CASE StopBuiltinProxy /\ shown' = "denied" /\ UNCHANGED bindFaults
    <3>1. builtin' = NoRunner /\ bound' = {k \in Keys : Live(k)}
      BY <2>0, <2>3 DEF StopBuiltinProxy
    <3>2. closed => bound' = {}
      BY <2>0, <2>3 DEF StopBuiltinProxy
    <3> QED BY <1>u, <2>1, <2>3, <3>1, <3>2, RunnerTypes
  <2>4. CASE StartBuiltinProxy
    <3>1. ASSUME ~closed, builtin = NoRunner, NEW n \in 0..2,
                 bindFaults + n <= MaxBindFaults, bindFaults' = bindFaults + n,
                 builtin' = IF n = 2 THEN NoRunner ELSE NewRunner("proxy"),
                 bound' = IF n = 2 THEN bound ELSE bound \cup {"proxy"},
                 shown' = IF n = 2 THEN "denied" ELSE "addr"
          PROVE  FInv'
      <4>1. CASE n = 2
        <5>1. builtin' = builtin /\ bound' = bound /\ shown' = "denied"
              /\ bindFaults' \in 0..MaxBindFaults
          BY <1>u, <3>1, <4>1
        <5> QED BY <1>t, <1>u, <2>0, <2>1, <5>1 DEF Targeted
      <4>2. CASE n # 2
        <5>1. /\ builtin' \in Runners /\ builtin' # NoRunner
              /\ builtin'.target = "proxy"
          BY <1>u, <3>1, <4>2, NewRunnerIs
        <5>2. bound' = {k \in Keys : Live(k)} \cup {"proxy"}
          BY <2>0, <3>1, <4>2
        <5>3. bindFaults' \in 0..MaxBindFaults /\ shown' = "addr"
          BY <1>u, <3>1, <4>2
        <5> QED BY <2>1, <3>1, <5>1, <5>2, <5>3
      <4> QED BY <4>1, <4>2
    <3> QED BY <2>2, <2>4, <3>1 DEF StartBuiltinProxy
  <2> QED BY <1>7, <2>2, <2>3, <2>4 DEF ApplyLocalProxy
<1>8. CASE Connected
  <2>1. TypeOK'
    BY <1>8, <1>t DEF Connected, TypeOK, mgr, watch
  <2> QED BY <1>8, <2>1, <1>s DEF Connected, mgr
<1>9. CASE HealthEnds
  <2>1. TypeOK'
    BY <1>9, <1>t DEF HealthEnds, TypeOK, mgr, watch
  <2> QED BY <1>9, <2>1, <1>s DEF HealthEnds, mgr
<1>10. CASE ClearsQuic
  <2>1. /\ entries' \in [Keys -> Runners] /\ builtin' \in Runners
        /\ quic' \in 0..MaxTunnels
        /\ \A k \in Keys : /\ (entries'[k] # NoRunner) <=> Live(k)
                           /\ entries'[k].target = entries[k].target
        /\ (builtin' = NoRunner) <=> (builtin = NoRunner)
        /\ builtin'.target = builtin.target
    <3>2. CASE ptr
      BY <1>10, <1>t, <3>2, SetQuicStep DEF ClearsQuic
    <3>3. CASE ~ptr
      BY <1>10, <1>u, <3>3 DEF ClearsQuic, Live
    <3> QED BY <3>2, <3>3
  <2>2. TypeOK'
    BY <1>10, <1>t, <2>1 DEF ClearsQuic, TypeOK, watch
  <2> QED BY <1>10, <2>1, <2>2, SameListeners DEF ClearsQuic
<1>11. CASE WatchTick
  <2>1. TypeOK'
    BY <1>11, <1>t DEF WatchTick, TypeOK, mgr, local
  <2> QED BY <1>11, <2>1, <1>s, <1>t DEF WatchTick, mgr, local, Fresh
<1>12. CASE WatchSkips
  <2>1. TypeOK'
    BY <1>12, <1>t DEF WatchSkips, TypeOK, mgr, local
  <2> QED BY <1>12, <2>1, <1>s, <1>t DEF WatchSkips, mgr, local, Fresh
<1>13. CASE WatchOtherMode
  <2>1. TypeOK'
    BY <1>13, <1>t, ConfigTypes DEF WatchOtherMode, TypeOK, mgr, local
  <2> QED BY <1>13, <2>1, <1>s, <1>t DEF WatchOtherMode, mgr, local, Fresh
<1>14. CASE WatchApplies
  <2>1. PICK fails \in SUBSET Keys :
           /\ ApplySome(seen.rules, fails)
           /\ last' = LastAfter(closed \/ Applied(seen.rules, fails))
    BY <1>14 DEF WatchApplies
  <2>2. seen \in Configs /\ seen.rules \in Rules
    BY <1>t, ConfigTypes DEF TypeOK
  <2>3. /\ entries' \in [Keys -> Runners]
        /\ bound' \subseteq Keys \cup {"proxy"}
        /\ bindFaults' \in 0..MaxBindFaults
        /\ bound' = {k \in Keys : entries'[k] # NoRunner}
                       \cup (IF builtin' = NoRunner THEN {} ELSE {"proxy"})
        /\ closed => bound' = {}
        /\ \A k \in Keys : entries'[k] # NoRunner => entries'[k].target # "off"
    BY <1>14, <1>t, <2>1, <2>2, ApplyStep DEF WatchApplies
  <2>4. last' \in [mode : {"tun", "forward"}, rules : Rules]
    BY <1>t, <2>1, <2>2, ConfigTypes DEF LastAfter, TypeOK
  <2>5. TypeOK'
    BY <1>14, <1>t, <2>3, <2>4 DEF WatchApplies, TypeOK, local
  <2>6. rpc' # "setup"
    BY <1>14, <1>t DEF WatchApplies, Fresh, local
  <2> QED BY <1>14, <1>t, <2>3, <2>5, <2>6
          DEF WatchApplies, FInv, SocketsOwned, Targeted, Fresh, Live
<1>15. CASE StopBegins
  <2>1. TypeOK'
    BY <1>15, <1>t DEF StopBegins, TypeOK, mgr, watch
  <2> QED BY <1>15, <2>1, <1>s DEF StopBegins, mgr
<1>16. CASE StopCloses
  <2>1. /\ entries' = [k \in Keys |-> NoRunner] /\ builtin' = NoRunner
        /\ bound' = {} /\ quic' = 0 /\ closed' = TRUE
        /\ rpc' = rpc /\ wpc' = wpc
    BY <1>16 DEF StopCloses, Close, local, watch
  <2>2. \A k \in Keys : ~Live(k)'
    BY <2>1 DEF Live
  <2>3. TypeOK'
    BY <1>16, <1>t, <2>1, RunnerTypes DEF StopCloses, TypeOK, local, watch
  <2> QED BY <1>t, <2>1, <2>2, <2>3 DEF FInv, SocketsOwned, Targeted, Fresh
<1>17. CASE StopForgets
  <2>1. TypeOK'
    BY <1>17, <1>t DEF StopForgets, TypeOK, mgr, watch
  <2> QED BY <1>17, <2>1, <1>s, <1>t DEF StopForgets, mgr, watch, Fresh
<1>18. CASE UNCHANGED vars
  <2>1. TypeOK'
    BY <1>18, <1>t DEF TypeOK, vars, mgr, local, watch
  <2> QED BY <1>18, <2>1, <1>s, <1>t DEF vars, mgr, local, watch, Fresh
<1> QED
  BY <1>1, <1>2, <1>3, <1>4, <1>5, <1>6, <1>7, <1>8, <1>9, <1>10, <1>11, <1>12,
     <1>13, <1>14, <1>15, <1>16, <1>17, <1>18 DEF Next, Watcher

(* No reachable state has a listener that nobody can close, or an entry    *)
(* without its socket, whatever binds fail and whenever StopLocal comes:   *)
(* Apply, StartBuiltinProxy, SetQuic and Close of proxy/forward_mgr.go     *)
(* account for every socket they bind.                                     *)
THEOREM SocketsAreOwned == Spec => []SocketsOwned
<1>1. FInv => SocketsOwned
  BY DEF FInv
<1> QED BY <1>1, FInvInit, FInvStep, PTL DEF Spec

-----------------------------------------------------------------------------
(* The tunnel of the listeners *)

(* A step of one method under m.mu keeps every listener on m.quic.         *)
LEMMA TunnelStep == FInv /\ TunnelFits /\ [Next]_vars => TunnelFits'
<1> SUFFICES ASSUME FInv, TunnelFits, [Next]_vars PROVE TunnelFits'
  OBVIOUS
<1> USE ForwardAssumption
<1>t. SocketsOwned /\ Targeted /\ Fresh /\ TypeOK
  BY DEF FInv, SocketsOwned
<1>u. /\ entries \in [Keys -> Runners] /\ builtin \in Runners
      /\ quic \in 0..MaxTunnels /\ tunnels \in 0..MaxTunnels
  BY <1>t DEF TypeOK
<1>s. ASSUME UNCHANGED <<entries, builtin, quic>> PROVE TunnelFits'
  BY <1>s DEF TunnelFits, Live
<1>q. ASSUME NEW c \in 0..MaxTunnels, SetQuic(c) PROVE TunnelFits'
  <2>1. CASE closed
    BY <2>1, <1>q, <1>s DEF SetQuic
  <2>2. CASE ~closed
    BY <2>2, <1>q, <1>t, SetQuicStep DEF TunnelFits, Live
  <2> QED BY <2>1, <2>2
<1>a. ASSUME NEW rules \in Rules, NEW fails \in SUBSET Keys,
             ApplySome(rules, fails), UNCHANGED <<quic, builtin>>
      PROVE  TunnelFits'
  BY <1>a, <1>t, ApplyStep DEF TunnelFits, Live
<1>1. CASE Edit
  BY <1>1, <1>s DEF Edit, mgr
<1>2. CASE ServeFails
  BY <1>2, <1>u, ServeErrorIs DEF ServeFails, TunnelFits, Live
<1>3. ASSUME NEW k \in Keys, ServeAccepts(k) PROVE TunnelFits'
  <2>1. Live(k)
    BY <1>3 DEF ServeAccepts, Live, NoRunner
  <2>2. [entries[k] EXCEPT !.failures = 0].conn = entries[k].conn
    BY <1>u DEF Runners
  <2> QED BY <1>3, <1>u, <2>1, <2>2 DEF ServeAccepts, TunnelFits, Live
<1>4. CASE SetupForwardMode
  <2>1. saved.rules \in Rules
    BY <1>t, ConfigTypes DEF TypeOK
  <2> QED BY <1>4, <1>a, <1>s, <2>1 DEF SetupForwardMode, mgr
<1>5. CASE SetsQuic
  <2>1. tunnels + 1 \in 0..MaxTunnels
    BY <1>5, <1>u DEF SetsQuic
  <2> QED BY <1>5, <1>q, <1>s, <2>1 DEF SetsQuic
<1>6. CASE RunLocalLoops \/ RunLocalReturns
  BY <1>6, <1>s DEF RunLocalLoops, RunLocalReturns, mgr
<1>7. CASE ApplyLocalProxy
  <2>1. entries' = entries /\ quic' = quic
    BY <1>7 DEF ApplyLocalProxy
  <2>2. builtin' = builtin \/ builtin' = NoRunner \/ builtin' = NewRunner("proxy")
    BY <1>7 DEF ApplyLocalProxy, StartBuiltinProxy, StopBuiltinProxy
  <2> QED BY <1>u, <2>1, <2>2, NewRunnerIs DEF TunnelFits, Live
<1>8. CASE Connected
  BY <1>8, <1>s DEF Connected, mgr
<1>9. CASE HealthEnds
  BY <1>9, <1>s DEF HealthEnds, mgr
<1>10. CASE ClearsQuic
  BY <1>10, <1>q, <1>s DEF ClearsQuic
<1>11. CASE WatchTick \/ WatchSkips \/ WatchOtherMode
  BY <1>11, <1>s DEF WatchTick, WatchSkips, WatchOtherMode, mgr
<1>12. CASE WatchApplies
  <2>1. seen.rules \in Rules
    BY <1>t, ConfigTypes DEF TypeOK
  <2> QED BY <1>12, <1>a, <2>1 DEF WatchApplies
<1>13. CASE StopBegins \/ StopForgets
  BY <1>13, <1>s DEF StopBegins, StopForgets, mgr
<1>14. CASE StopCloses
  BY <1>14 DEF StopCloses, Close, TunnelFits, Live
<1>15. CASE UNCHANGED vars
  BY <1>15, <1>s DEF vars, mgr
<1> QED
  BY <1>1, <1>2, <1>3, <1>4, <1>5, <1>6, <1>7, <1>8, <1>9, <1>10, <1>11, <1>12,
     <1>13, <1>14, <1>15 DEF Next, Watcher

(* Every listener forwards into the tunnel the manager holds: a reconnect, *)
(* a rebuild and an added rule never leave one on a tunnel that is gone    *)
(* (ForwardManager.SetQuic and newForwardRunner).                          *)
THEOREM ListenersFitTunnel == Spec => []TunnelFits
<1>1. Init => TunnelFits
  BY DEF Init, TunnelFits, Live
<1> QED BY <1>1, FInvInit, FInvStep, TunnelStep, PTL DEF Spec

-----------------------------------------------------------------------------
(* The rules in force *)

(* The watcher's note and the listeners' targets change together.          *)
LEMMA ForceStep == FInv /\ InForce /\ [Next]_vars => InForce'
<1> SUFFICES ASSUME FInv, InForce, [Next]_vars PROVE InForce'
  OBVIOUS
<1> USE ForwardAssumption
<1>t. SocketsOwned /\ Targeted /\ Fresh /\ TypeOK
  BY DEF FInv, SocketsOwned
<1>u. /\ entries \in [Keys -> Runners] /\ builtin \in Runners
      /\ quic \in 0..MaxTunnels /\ tunnels \in 0..MaxTunnels
      /\ bindFaults \in 0..MaxBindFaults
  BY <1>t DEF TypeOK
<1>s. ASSUME \A k \in Keys : entries'[k].target = entries[k].target,
             bindFaults' = 0 => bindFaults = 0,
             closed' = closed, wpc' # "none" => wpc # "none", last' = last
      PROVE  InForce'
  BY <1>s DEF InForce
<1>1. CASE Edit
  BY <1>1, <1>s DEF Edit, mgr, watch
<1>2. CASE ServeFails
  <2>1. \A k \in Keys : entries'[k].target = entries[k].target
    BY <1>2, <1>u, ServeErrorIs DEF ServeFails
  <2> QED BY <1>2, <1>s, <2>1 DEF ServeFails, watch
<1>3. ASSUME NEW k \in Keys, ServeAccepts(k) PROVE InForce'
  <2>1. [entries[k] EXCEPT !.failures = 0].target = entries[k].target
    BY <1>u DEF Runners
  <2> QED BY <1>3, <1>u, <1>s, <2>1 DEF ServeAccepts, watch
<1>4. CASE SetupForwardMode
  <2>1. CASE rpc' = "exit" /\ UNCHANGED watch
    <3>1. wpc' = "none"
      BY <1>4, <2>1, <1>t DEF SetupForwardMode, Fresh, watch
    <3> QED BY <3>1 DEF InForce
  <2>2. ASSUME NEW fails \in SUBSET Keys, ApplySome(saved.rules, fails),
               last' = ForwardFingerprint(saved), UNCHANGED <<builtin, closed>>
        PROVE  InForce'
    <3>1. saved.rules \in Rules /\ last'.rules = saved.rules
      BY <1>t, <2>2, ConfigTypes DEF TypeOK
    <3>2. bindFaults' = 0 /\ ~closed => \A k \in Keys : entries'[k].target = saved.rules[k]
      BY <1>t, <2>2, <3>1, ApplyStep
    <3> QED BY <2>2, <3>1, <3>2 DEF InForce
  <2> QED BY <1>4, <2>1, <2>2 DEF SetupForwardMode
<1>5. CASE SetsQuic
  <2>1. tunnels + 1 \in 0..MaxTunnels
    BY <1>5, <1>u DEF SetsQuic
  <2>2. \A k \in Keys : entries'[k].target = entries[k].target
    BY <1>5, <1>t, <2>1, SetQuicStep DEF SetsQuic
  <2> QED BY <1>5, <1>s, <2>2 DEF SetsQuic, watch
<1>6. CASE RunLocalLoops \/ RunLocalReturns
  BY <1>6, <1>s DEF RunLocalLoops, RunLocalReturns, mgr, watch
<1>7. CASE ApplyLocalProxy
  <2>1. bindFaults' = 0 => bindFaults = 0
    BY <1>7, <1>u DEF ApplyLocalProxy, StartBuiltinProxy
  <2> QED BY <1>7, <1>s, <2>1 DEF ApplyLocalProxy, watch
<1>8. CASE Connected
  BY <1>8, <1>s DEF Connected, mgr, watch
<1>9. CASE HealthEnds
  BY <1>9, <1>s DEF HealthEnds, mgr, watch
<1>10. CASE ClearsQuic
  <2>1. \A k \in Keys : entries'[k].target = entries[k].target
    BY <1>10, <1>t, SetQuicStep DEF ClearsQuic
  <2> QED BY <1>10, <1>s, <2>1 DEF ClearsQuic, watch
<1>11. CASE WatchTick
  BY <1>11, <1>s DEF WatchTick, mgr
<1>12. CASE WatchSkips
  BY <1>12, <1>s DEF WatchSkips, mgr
<1>13. CASE WatchOtherMode
  <2>1. last'.mode = "tun"
    BY <1>13, <1>t, ConfigTypes DEF WatchOtherMode, TypeOK
  <2> QED BY <2>1 DEF InForce
<1>14. CASE WatchApplies
  <2>1. PICK fails \in SUBSET Keys :
           /\ ApplySome(seen.rules, fails)
           /\ last' = LastAfter(closed \/ Applied(seen.rules, fails))
    BY <1>14 DEF WatchApplies
  <2>2. seen.rules \in Rules /\ ForwardFingerprint(seen).rules = seen.rules
    BY <1>t, ConfigTypes DEF TypeOK
  <2>3. bindFaults' = 0 /\ ~closed =>
            /\ Applied(seen.rules, fails)
            /\ \A k \in Keys : entries'[k].target = seen.rules[k]
    BY <1>14, <1>t, <2>1, <2>2, ApplyStep DEF WatchApplies
  <2>4. bindFaults' = 0 /\ ~closed => last'.rules = seen.rules
    BY <2>1, <2>2, <2>3 DEF LastAfter
  <2>5. closed' = closed
    BY <1>14 DEF WatchApplies
  <2> QED BY <2>3, <2>4, <2>5 DEF InForce
<1>15. CASE StopBegins
  BY <1>15, <1>s DEF StopBegins, mgr, watch
<1>16. CASE StopForgets
  BY <1>16, <1>s DEF StopForgets, mgr, watch
<1>17. CASE StopCloses
  BY <1>17 DEF StopCloses, Close, InForce
<1>18. CASE UNCHANGED vars
  BY <1>18, <1>s DEF vars, mgr, watch
<1> QED
  BY <1>1, <1>2, <1>3, <1>4, <1>5, <1>6, <1>7, <1>8, <1>9, <1>10, <1>11, <1>12,
     <1>13, <1>14, <1>15, <1>16, <1>17, <1>18 DEF Next, Watcher

(* As long as no bind has failed, what watchUIForwardConfig remembers as   *)
(* applied is what every listener forwards to, however edits fall between  *)
(* its two reads of the file.                                              *)
THEOREM RulesInForce == Spec => []InForce
<1>1. Init => InForce
  BY DEF Init, InForce
<1> QED BY <1>1, FInvInit, FInvStep, ForceStep, PTL DEF Spec

-----------------------------------------------------------------------------
(* The relay: what its invariants say *)

(* The parts of hop k of direction d in H. *)
Buf(H, d, k) == H[d][k].buf
Fin(H, d, k) == H[d][k].fin
Dead(H, d, k) == H[d][k].dead

CopyStates == {"none", "run", "close", "done"}
Phases == {"none", "open", "late", "head", "dial", "relay", "done"}

(* The state of the copy out of hop h of direction d in C. *)
StateOf(C, d, h) == C[d][h]

(* The relay of a side has the copies that are running, and Remote comes   *)
(* as far as the dial only on a header that Local has written.             *)
Control ==
    /\ \A d \in Dirs, h \in 1..2 :
         /\ StateOf(copy, d, h) \in {"run", "close"} => phase[SideOf(d, h)] = "relay"
         /\ StateOf(copy, d, h) = "done" => phase[SideOf(d, h)] \in {"relay", "done"}
    /\ phase["remote"] \notin {"open", "late"}
    /\ phase["remote"] \in {"dial", "relay"} => StateOf(copy, "up", 1) # "none"

(* Before a copy starts nothing has been passed on. *)
Unmoved(d) ==
    /\ StateOf(copy, d, 1) = "none" => Buf(hop, d, 2) = <<>>
    /\ StateOf(copy, d, 2) = "none" => Buf(hop, d, 3) = <<>> /\ got[d] = <<>>

(* The header is on its way. *)
Header(d) ==
    IF /\ d = "up" /\ StateOf(copy, "up", 1) # "none"
       /\ phase["remote"] \in {"none", "head"}
    THEN 1 ELSE 0

(* The copy out of hop h of direction d may yet deliver what it reads.     *)
Flows(d, h) ==
    /\ StateOf(copy, d, h) \in {"none", "run"} /\ phase[SideOf(d, h)] # "done"
    /\ ~Dead(hop, d, h + 1)

(* A buffer holds the pieces that follow the first n. *)
Follows(b, n) == \A i \in 1..Len(b) : b[i] = n + i

(* Pieces of data of direction d that are past its second and first hop.   *)
Past2(d) == Len(got[d]) + Len(Buf(hop, d, 3)) - Header(d)
Past1(d) == Past2(d) + Len(Buf(hop, d, 2))

(* What is on its way of a TCP connection follows what has been read, in   *)
(* order, as far back as the copies still deliver.                         *)
InOrder(d) ==
    kind = "tcp" =>
      /\ Follows(got[d], 0) /\ Follows(Buf(hop, d, 3), Len(got[d]))
      /\ Len(got[d]) + Len(Buf(hop, d, 3)) <= sent[d]
      /\ Flows(d, 2) => Follows(Buf(hop, d, 2), Past2(d)) /\ Past1(d) <= sent[d]
      /\ Flows(d, 2) /\ Flows(d, 1) =>
           /\ Follows(Buf(hop, d, 1), Past1(d))
           /\ Past1(d) + Len(Buf(hop, d, 1)) = sent[d]

(* The numbers in a buffer, and that they rise.                            *)
Elems(b) == {b[i] : i \in 1..Len(b)}
Rising(b) == \A i, j \in 1..Len(b) : i < j => b[i] < b[j]

(* Every number of S is below every one of T.                              *)
Below(S, T) == \A x \in S, y \in T : x < y

(* Numbers of direction d that were read or wait to be, those in the       *)
(* stream, and those in front of the first copy.                           *)
Out3(d) == Elems(got[d]) \cup Elems(Buf(hop, d, 3))
Out2(d) == Elems(Buf(hop, d, 2))
Out1(d) == Elems(Buf(hop, d, 1))

(* The datagrams of a UDP connection are in order, as far back as the      *)
(* copies still deliver; the header, where it is on its way, is among      *)
(* those in the stream.                                                    *)
Sorted(d) ==
    kind = "udp" =>
      /\ Rising(got[d]) /\ Rising(Buf(hop, d, 3))
      /\ Below(Elems(got[d]), Elems(Buf(hop, d, 3))) /\ Out3(d) \subseteq 1..sent[d]
      /\ Flows(d, 2) =>
           /\ Rising(Buf(hop, d, 2)) /\ Below(Out3(d), Out2(d))
           /\ Out2(d) \subseteq 0..sent[d] /\ (0 \in Out2(d) <=> Header(d) = 1)
      /\ Flows(d, 2) /\ Flows(d, 1) =>
           /\ Rising(Buf(hop, d, 1)) /\ Below(Out3(d), Out1(d))
           /\ Below(Out2(d), Out1(d)) /\ Out1(d) \subseteq 1..sent[d]

(* A datagram that is neither empty nor dropped is among them, or comes    *)
(* after all that have got as far.                                         *)
Found(d, n) ==
    \/ n \in Out3(d)
    \/ /\ \A x \in Out3(d) : x < n
       /\ Flows(d, 2) =>
            \/ n \in Out2(d)
            \/ (\A x \in Out2(d) : x < n) /\ (Flows(d, 1) => n \in Out1(d))

NoneLost(d) == kind = "udp" => \A n \in 1..sent[d] : n \notin void[d] => Found(d, n)

(* What is kept of each direction. *)
Faithful(d) == Unmoved(d) /\ InOrder(d) /\ Sorted(d) /\ NoneLost(d)

RInv == RelayTypeOK /\ Control /\ \A d \in Dirs : Faithful(d)

(* A TCP connection over QUIC that only its applications end. *)
Clean == kind = "tcp" /\ transport = "quic" /\ ~faulty

(* The end of a direction goes from hop to hop behind its data, and a hop  *)
(* is given up only when what was to come through it has.                  *)
EndsAfter(d) ==
    /\ StateOf(copy, d, 1) \in {"close", "done"} =>
         Fin(hop, d, 1) /\ Buf(hop, d, 1) = <<>>
    /\ Fin(hop, d, 2) => StateOf(copy, d, 1) = "done"
    /\ StateOf(copy, d, 2) \in {"close", "done"} =>
         Fin(hop, d, 2) /\ Buf(hop, d, 2) = <<>>
    /\ Fin(hop, d, 3) => StateOf(copy, d, 2) = "done"
    /\ Dead(hop, d, 1) => StateOf(copy, d, 1) = "done"
    /\ Dead(hop, d, 2) \/ Dead(hop, d, 3) => StateOf(copy, d, 2) = "done"

(* Every piece that was written has been read or is on its way. *)
Total(d) == Past1(d) + Len(Buf(hop, d, 1)) = sent[d]

(* No timer has fired and a handler returns when its copies are done. *)
Undisturbed(s) ==
    /\ expired[s] = {} /\ phase[s] # "late"
    /\ phase[s] = "done" => /\ StateOf(copy, Out(s), 1) = "done"
                            /\ StateOf(copy, Opp(Out(s)), 2) = "done"

Orderly == /\ \A d \in Dirs : EndsAfter(d) /\ Total(d)
           /\ \A s \in Sides : Undisturbed(s)

EInv == RInv /\ (Clean => Orderly)

-----------------------------------------------------------------------------
(* Sides and directions *)

(* Each copy is run by one side: Local reads the application that writes   *)
(* "up" and the stream that brings "down".                                 *)
LEMMA SideOfIs ==
    /\ SideOf("up", 1) = "local" /\ SideOf("up", 2) = "remote"
    /\ SideOf("down", 1) = "remote" /\ SideOf("down", 2) = "local"
<1>1. SideOf("up", 1) = "local" BY DEF SideOf, Sides, Out
<1>2. SideOf("up", 2) = "remote" BY DEF SideOf, Sides, Out
<1>3. SideOf("down", 1) = "remote" BY DEF SideOf, Sides, Out
<1>4. SideOf("down", 2) = "local" BY DEF SideOf, Sides, Out
<1> QED BY <1>1, <1>2, <1>3, <1>4

(* A side runs the copies from its application and to it. *)
LEMMA SideRuns ==
    ASSUME NEW s \in Sides
    PROVE  /\ Out(s) \in Dirs /\ Opp(Out(s)) \in Dirs /\ Opp(Out(s)) # Out(s)
           /\ SideOf(Out(s), 1) = s /\ SideOf(Opp(Out(s)), 2) = s
           /\ \A d \in Dirs : d = Out(s) \/ d = Opp(Out(s))
BY SideOfIs DEF Sides, Dirs, Out, Opp

(* The side that runs a copy, seen from the copy. *)
LEMMA CopyRunBy ==
    ASSUME NEW d \in Dirs, NEW h \in 1..2
    PROVE  SideOf(d, h) \in Sides /\ Out(SideOf(d, 1)) = d
             /\ (d = "up" <=> (SideOf(d, 1) = "local"))
             /\ Out(SideOf(d, 2)) = Opp(d) /\ Opp(Opp(d)) = d
BY SideOfIs DEF Sides, Dirs, Out, Opp

-----------------------------------------------------------------------------
(* What becomes of the hops *)

Hops == [Dirs -> [1..3 -> Hop]]

(* A hop is a record of its three parts. *)
LEMMA HopIs ==
    ASSUME NEW r \in Hop
    PROVE  /\ r.buf \in Seq(Nat) /\ r.fin \in BOOLEAN /\ r.dead \in BOOLEAN
           /\ \A v \in Seq(Nat) : /\ [r EXCEPT !.buf = v] \in Hop
                                  /\ [r EXCEPT !.buf = v].buf = v
                                  /\ [r EXCEPT !.buf = v].fin = r.fin
                                  /\ [r EXCEPT !.buf = v].dead = r.dead
           /\ \A b \in BOOLEAN : /\ [r EXCEPT !.fin = b] \in Hop
                                 /\ [r EXCEPT !.fin = b].buf = r.buf
                                 /\ [r EXCEPT !.fin = b].fin = b
                                 /\ [r EXCEPT !.fin = b].dead = r.dead
           /\ \A b \in BOOLEAN : /\ [r EXCEPT !.dead = b] \in Hop
                                 /\ [r EXCEPT !.dead = b].buf = r.buf
                                 /\ [r EXCEPT !.dead = b].fin = r.fin
                                 /\ [r EXCEPT !.dead = b].dead = b
BY DEF Hop

(* One hop is replaced. *)
Put(H, d, k, r) == [H EXCEPT ![d][k] = r]

(* One hop is replaced: the hops are still hops. *)
LEMMA HopSet ==
    ASSUME NEW H \in Hops, NEW d \in Dirs, NEW k \in 1..3, NEW r \in Hop
    PROVE  Put(H, d, k, r) \in Hops
<1> DEFINE Q == [H[d] EXCEPT ![k] = r]
<1>1. Q \in [1..3 -> Hop]
  BY DEF Hops
<1>2. Put(H, d, k, r) = [H EXCEPT ![d] = Q]
  BY DEF Put
<1> HIDE DEF Q
<1> QED BY <1>1, <1>2 DEF Hops

(* One hop is replaced: the others are as they were. *)
LEMMA HopAt ==
    ASSUME NEW H \in Hops, NEW d \in Dirs, NEW k \in 1..3, NEW r \in Hop,
           NEW e \in Dirs, NEW j \in 1..3
    PROVE  Put(H, d, k, r)[e][j] = IF e = d /\ j = k THEN r ELSE H[e][j]
<1> DEFINE Q == [H[d] EXCEPT ![k] = r]
<1>1. Q \in [1..3 -> Hop] /\ Q[j] = IF j = k THEN r ELSE H[d][j]
  BY DEF Hops
<1>2. Put(H, d, k, r) = [H EXCEPT ![d] = Q]
  BY DEF Put
<1> HIDE DEF Q
<1>3. Put(H, d, k, r)[e] = IF e = d THEN Q ELSE H[e]
  BY <1>1, <1>2 DEF Hops
<1> QED BY <1>1, <1>3

(* A buffer is replaced. *)
SetBuf(H, d, k, v) == [H EXCEPT ![d][k].buf = v]

(* A buffer replaced leaves hops. *)
LEMMA BufHops ==
    ASSUME NEW H \in Hops, NEW d \in Dirs, NEW k \in 1..3, NEW v \in Seq(Nat)
    PROVE  SetBuf(H, d, k, v) \in Hops
<1>1. H[d][k] \in Hop
  BY DEF Hops
<1> DEFINE r == [H[d][k] EXCEPT !.buf = v]
<1>2. r \in Hop /\ SetBuf(H, d, k, v) = Put(H, d, k, r)
  BY <1>1, HopIs DEF SetBuf, Put
<1> HIDE DEF r
<1> QED BY <1>2, HopSet

(* Only that buffer changes. *)
LEMMA BufSet ==
    ASSUME NEW H \in Hops, NEW d \in Dirs, NEW k \in 1..3, NEW v \in Seq(Nat),
           NEW e \in Dirs, NEW j \in 1..3
    PROVE  /\ e = d /\ j = k => Buf(SetBuf(H, d, k, v), e, j) = v
           /\ ~(e = d /\ j = k) => Buf(SetBuf(H, d, k, v), e, j) = Buf(H, e, j)
           /\ Fin(SetBuf(H, d, k, v), e, j) <=> Fin(H, e, j)
           /\ Dead(SetBuf(H, d, k, v), e, j) <=> Dead(H, e, j)
<1>1. H[d][k] \in Hop
  BY DEF Hops
<1> DEFINE r == [H[d][k] EXCEPT !.buf = v]
<1>2. /\ r \in Hop
      /\ r.buf = v /\ r.fin = H[d][k].fin /\ r.dead = H[d][k].dead
      /\ SetBuf(H, d, k, v) = Put(H, d, k, r)
  BY <1>1, HopIs DEF SetBuf, Put
<1> HIDE DEF r
<1>3. SetBuf(H, d, k, v)[e][j] = IF e = d /\ j = k THEN r ELSE H[e][j]
  BY <1>2, HopAt
<1> QED BY <1>2, <1>3, <1>3 DEF Buf, Fin, Dead

(* An end is sent. *)
SetFin(H, d, k) == [H EXCEPT ![d][k].fin = TRUE]

(* An end sent leaves hops. *)
LEMMA FinHops ==
    ASSUME NEW H \in Hops, NEW d \in Dirs, NEW k \in 1..3
    PROVE  SetFin(H, d, k) \in Hops
<1>1. H[d][k] \in Hop
  BY DEF Hops
<1> DEFINE r == [H[d][k] EXCEPT !.fin = TRUE]
<1>2. r \in Hop /\ SetFin(H, d, k) = Put(H, d, k, r)
  BY <1>1, HopIs DEF SetFin, Put
<1> HIDE DEF r
<1> QED BY <1>2, HopSet

(* Only that end changes. *)
LEMMA FinSet ==
    ASSUME NEW H \in Hops, NEW d \in Dirs, NEW k \in 1..3,
           NEW e \in Dirs, NEW j \in 1..3
    PROVE  /\ Buf(SetFin(H, d, k), e, j) = Buf(H, e, j)
           /\ Fin(SetFin(H, d, k), e, j) <=> (Fin(H, e, j) \/ (e = d /\ j = k))
           /\ Dead(SetFin(H, d, k), e, j) <=> Dead(H, e, j)
<1>1. H[d][k] \in Hop
  BY DEF Hops
<1> DEFINE r == [H[d][k] EXCEPT !.fin = TRUE]
<1>2. /\ r \in Hop
      /\ r.buf = H[d][k].buf /\ r.fin = TRUE /\ r.dead = H[d][k].dead
      /\ SetFin(H, d, k) = Put(H, d, k, r)
  BY <1>1, HopIs DEF SetFin, Put
<1> HIDE DEF r
<1>3. SetFin(H, d, k)[e][j] = IF e = d /\ j = k THEN r ELSE H[e][j]
  BY <1>2, HopAt
<1> QED BY <1>2, <1>3, <1>3 DEF Buf, Fin, Dead

(* A reader is gone. *)
SetDead(H, d, k) == [H EXCEPT ![d][k].dead = TRUE]

(* A reader gone leaves hops. *)
LEMMA DeadHops ==
    ASSUME NEW H \in Hops, NEW d \in Dirs, NEW k \in 1..3
    PROVE  SetDead(H, d, k) \in Hops
<1>1. H[d][k] \in Hop
  BY DEF Hops
<1> DEFINE r == [H[d][k] EXCEPT !.dead = TRUE]
<1>2. r \in Hop /\ SetDead(H, d, k) = Put(H, d, k, r)
  BY <1>1, HopIs DEF SetDead, Put
<1> HIDE DEF r
<1> QED BY <1>2, HopSet

(* Only that reader is gone. *)
LEMMA DeadSet ==
    ASSUME NEW H \in Hops, NEW d \in Dirs, NEW k \in 1..3,
           NEW e \in Dirs, NEW j \in 1..3
    PROVE  /\ Buf(SetDead(H, d, k), e, j) = Buf(H, e, j)
           /\ Fin(SetDead(H, d, k), e, j) <=> Fin(H, e, j)
           /\ Dead(SetDead(H, d, k), e, j) <=> (Dead(H, e, j) \/ (e = d /\ j = k))
<1>1. H[d][k] \in Hop
  BY DEF Hops
<1> DEFINE r == [H[d][k] EXCEPT !.dead = TRUE]
<1>2. /\ r \in Hop
      /\ r.buf = H[d][k].buf /\ r.fin = H[d][k].fin /\ r.dead = TRUE
      /\ SetDead(H, d, k) = Put(H, d, k, r)
  BY <1>1, HopIs DEF SetDead, Put
<1> HIDE DEF r
<1>3. SetDead(H, d, k)[e][j] = IF e = d /\ j = k THEN r ELSE H[e][j]
  BY <1>2, HopAt
<1> QED BY <1>2, <1>3, <1>3 DEF Buf, Fin, Dead

(* The parts of a hop have their types. *)
LEMMA HopParts ==
    ASSUME NEW H \in Hops, NEW e \in Dirs, NEW j \in 1..3
    PROVE  /\ Buf(H, e, j) \in Seq(Nat)
           /\ Fin(H, e, j) \in BOOLEAN /\ Dead(H, e, j) \in BOOLEAN
<1>1. H[e][j] \in Hop
  BY DEF Hops
<1> QED BY <1>1, HopIs DEF Buf, Fin, Dead

(* What closing the stream at one side leaves of every hop. *)
LEMMA CloseStreamIs ==
    ASSUME NEW H \in Hops, NEW s \in Sides, NEW e \in Dirs, NEW j \in 1..3
    PROVE  /\ CloseStream(H, s) \in Hops
           /\ Buf(CloseStream(H, s), e, j) = Buf(H, e, j)
           /\ Fin(CloseStream(H, s), e, j) <=>
                (Fin(H, e, j) \/ (e = Out(s) /\ j = 2))
           /\ Dead(CloseStream(H, s), e, j) <=>
                (Dead(H, e, j) \/ (e = Opp(Out(s)) /\ j = 2))
<1> DEFINE i == Out(s)
           o == Opp(Out(s))
           k == 2
<1>1. CloseStream(H, s) = SetDead(SetFin(H, i, k), o, k)
  BY DEF CloseStream, SetFin, SetDead
<1>2. i \in Dirs /\ o \in Dirs /\ k \in 1..3
  BY SideRuns
<1>3. /\ (e = i /\ j = k) <=> (e = Out(s) /\ j = 2)
      /\ (e = o /\ j = k) <=> (e = Opp(Out(s)) /\ j = 2)
  OBVIOUS
<1> HIDE DEF i, o, k
<1> DEFINE F == SetFin(H, i, k)
<1>4. /\ F \in Hops /\ Buf(F, e, j) = Buf(H, e, j) /\ (Dead(F, e, j) <=> Dead(H, e, j))
      /\ Fin(F, e, j) <=> (Fin(H, e, j) \/ (e = i /\ j = k))
  <2>1. F \in Hops
    BY <1>2, FinHops
  <2> QED BY <1>2, <2>1, FinSet
<1>5. CloseStream(H, s) = SetDead(F, o, k)
  BY <1>1
<1> HIDE DEF F
<1>6. /\ SetDead(F, o, k) \in Hops
      /\ Buf(SetDead(F, o, k), e, j) = Buf(F, e, j)
      /\ Fin(SetDead(F, o, k), e, j) <=> Fin(F, e, j)
      /\ Dead(SetDead(F, o, k), e, j) <=> (Dead(F, e, j) \/ (e = o /\ j = k))
  <2>1. SetDead(F, o, k) \in Hops
    BY <1>2, <1>4, DeadHops
  <2> QED BY <1>2, <1>4, <2>1, DeadSet
<1> QED BY <1>3, <1>4, <1>5, <1>6

(* What closing the connection to an application leaves of every hop. *)
LEMMA CloseConnIs ==
    ASSUME NEW H \in Hops, NEW s \in Sides, NEW e \in Dirs, NEW j \in 1..3
    PROVE  /\ CloseConn(H, s) \in Hops
           /\ Buf(CloseConn(H, s), e, j) = Buf(H, e, j)
           /\ Fin(CloseConn(H, s), e, j) <=>
                (Fin(H, e, j) \/ (e = Opp(Out(s)) /\ j = 3))
           /\ Dead(H, e, j) \/ (e = Out(s) /\ j = 1) => Dead(CloseConn(H, s), e, j)
           /\ Dead(CloseConn(H, s), e, j) =>
                \/ Dead(H, e, j) \/ (e = Out(s) /\ j = 1)
                \/ e = Opp(Out(s)) /\ j = 3
<1> DEFINE A == SetDead(H, Out(s), 1)
           F == SetFin(A, Opp(Out(s)), 3)
           o == Opp(Out(s))
           b == H[o][3].dead \/ (kind = "tcp" /\ H[Out(s)][1].buf # <<>>)
           r == [F[o][3] EXCEPT !.dead = b]
<1>1. CloseConn(H, s) = Put(F, o, 3, r)
  BY DEF CloseConn, SetFin, SetDead, Put
<1>2. Out(s) \in Dirs /\ Opp(Out(s)) \in Dirs /\ Out(s) # Opp(Out(s))
  BY SideRuns
<1>3. /\ A \in Hops /\ Buf(A, e, j) = Buf(H, e, j) /\ (Fin(A, e, j) <=> Fin(H, e, j))
      /\ Dead(A, e, j) <=> (Dead(H, e, j) \/ (e = Out(s) /\ j = 1))
  <2>1. A \in Hops
    BY <1>2, DeadHops
  <2> QED BY <1>2, <2>1, DeadSet
<1> HIDE DEF A
<1>4. /\ F \in Hops /\ Buf(F, e, j) = Buf(A, e, j) /\ (Dead(F, e, j) <=> Dead(A, e, j))
      /\ Fin(F, e, j) <=> (Fin(A, e, j) \/ (e = Opp(Out(s)) /\ j = 3))
  <2>1. F \in Hops
    BY <1>2, <1>3, FinHops
  <2> QED BY <1>2, <1>3, <2>1, FinSet
<1> HIDE DEF F
<1>5. F[o][3] \in Hop
  BY <1>2, <1>4 DEF Hops
<1>6. /\ r \in Hop /\ r.buf = F[o][3].buf /\ r.fin = F[o][3].fin
      /\ H[o][3].dead => r.dead
  <2>1. b \in BOOLEAN /\ (H[o][3].dead => b)
    OBVIOUS
  <2> HIDE DEF b
  <2> QED BY <1>5, <2>1, HopIs
<1> HIDE DEF r
<1>7. CloseConn(H, s) \in Hops
  BY <1>1, <1>2, <1>4, <1>6, HopSet
<1>8. CloseConn(H, s)[e][j] = IF e = o /\ j = 3 THEN r ELSE F[e][j]
  BY <1>1, <1>2, <1>4, <1>6, HopAt
<1>9. /\ Buf(CloseConn(H, s), e, j) = Buf(F, e, j)
      /\ Fin(CloseConn(H, s), e, j) <=> Fin(F, e, j)
      /\ e = o /\ j = 3 /\ Dead(H, e, j) => Dead(CloseConn(H, s), e, j)
      /\ ~(e = o /\ j = 3) => (Dead(CloseConn(H, s), e, j) <=> Dead(F, e, j))
  BY <1>6, <1>8 DEF Buf, Fin, Dead
<1> QED BY <1>2, <1>3, <1>4, <1>7, <1>9

(* What moving a piece leaves of every hop. *)
LEMMA MovedIs ==
    ASSUME hop \in Hops, NEW d \in Dirs, NEW h \in 1..2, Buf(hop, d, h) # <<>>,
           NEW e \in Dirs, NEW j \in 1..3
    PROVE  /\ Moved(d, h) \in Hops
           /\ e = d /\ j = h => Buf(Moved(d, h), e, j) = Tail(Buf(hop, d, h))
           /\ e = d /\ j = h + 1 => Buf(Moved(d, h), e, j) =
                Append(Buf(hop, d, h + 1), Head(Buf(hop, d, h)))
           /\ ~(e = d /\ j \in {h, h + 1}) => Buf(Moved(d, h), e, j) = Buf(hop, e, j)
           /\ Fin(Moved(d, h), e, j) <=> Fin(hop, e, j)
           /\ Dead(Moved(d, h), e, j) <=> Dead(hop, e, j)
<1> DEFINE t == Tail(Buf(hop, d, h))
           T == SetBuf(hop, d, h, t)
           a == Append(Buf(hop, d, h + 1), Head(Buf(hop, d, h)))
<1>1. h \in 1..3 /\ h + 1 \in 1..3 /\ h # h + 1
  OBVIOUS
<1>2. Buf(hop, d, h) \in Seq(Nat) /\ Buf(hop, d, h + 1) \in Seq(Nat)
  BY <1>1, HopParts
<1>3. t \in Seq(Nat) /\ a \in Seq(Nat)
  BY <1>2
<1>4. Moved(d, h) = SetBuf(T, d, h + 1, a)
  BY DEF Moved, SetBuf, Buf
<1> HIDE DEF t
<1>5. /\ T \in Hops /\ (Fin(T, e, j) <=> Fin(hop, e, j))
      /\ Dead(T, e, j) <=> Dead(hop, e, j)
      /\ e = d /\ j = h => Buf(T, e, j) = t
      /\ ~(e = d /\ j = h) => Buf(T, e, j) = Buf(hop, e, j)
  <2>1. T \in Hops
    BY <1>1, <1>3, BufHops
  <2> QED BY <1>1, <1>3, <2>1, BufSet
<1> HIDE DEF T, a
<1>6. /\ Moved(d, h) \in Hops
      /\ e = d /\ j = h + 1 => Buf(Moved(d, h), e, j) = a
      /\ ~(e = d /\ j = h + 1) => Buf(Moved(d, h), e, j) = Buf(T, e, j)
      /\ Fin(Moved(d, h), e, j) <=> Fin(T, e, j)
      /\ Dead(Moved(d, h), e, j) <=> Dead(T, e, j)
  <2>1. Moved(d, h) \in Hops
    BY <1>1, <1>3, <1>4, <1>5, BufHops
  <2> QED BY <1>1, <1>3, <1>4, <1>5, <2>1, BufSet
<1> QED BY <1>1, <1>5, <1>6 DEF t, a

-----------------------------------------------------------------------------
(* Steps that move no data *)

(* From H to G no buffer changes and nothing is opened again. *)
Closes(H, G) ==
    /\ G \in Hops
    /\ \A e \in Dirs, k \in 1..3 : /\ Buf(G, e, k) = Buf(H, e, k)
                                   /\ Fin(H, e, k) => Fin(G, e, k)
                                   /\ Dead(H, e, k) => Dead(G, e, k)

LEMMA ClosesTrans ==
    ASSUME NEW H, NEW G, NEW F, Closes(H, G), Closes(G, F)
    PROVE  Closes(H, F)
BY DEF Closes

(* Closing anything only closes. *)
LEMMA ClosesKeep ==
    ASSUME NEW H \in Hops
    PROVE  /\ Closes(H, H)
           /\ \A d \in Dirs, k \in 1..3 : Closes(H, SetFin(H, d, k))
           /\ \A d \in Dirs, k \in 1..3 : Closes(H, SetDead(H, d, k))
           /\ \A s \in Sides : Closes(H, CloseStream(H, s)) /\ Closes(H, CloseConn(H, s))
<1>1. Closes(H, H)
  BY DEF Closes
<1>2. ASSUME NEW d \in Dirs, NEW k \in 1..3
      PROVE  Closes(H, SetFin(H, d, k)) /\ Closes(H, SetDead(H, d, k))
  <2>1. SetFin(H, d, k) \in Hops /\ SetDead(H, d, k) \in Hops
    BY FinHops, DeadHops
  <2>2. Closes(H, SetFin(H, d, k)) BY <2>1, FinSet DEF Closes
  <2>3. Closes(H, SetDead(H, d, k)) BY <2>1, DeadSet DEF Closes
  <2> QED BY <2>2, <2>3
<1>3. ASSUME NEW s \in Sides
      PROVE  Closes(H, CloseStream(H, s)) /\ Closes(H, CloseConn(H, s))
  <2>1. CloseStream(H, s) \in Hops /\ CloseConn(H, s) \in Hops
    BY CloseStreamIs, CloseConnIs DEF Dirs
  <2> QED BY <2>1, CloseStreamIs, CloseConnIs DEF Closes
<1> QED BY <1>1, <1>2, <1>3

(* Everything a handler closes when it returns. *)
LEMMA ShutKeeps ==
    ASSUME NEW H \in Hops, NEW s \in Sides
    PROVE  Closes(H, CloseStream(CloseConn(H, s), s))
<1>1. CloseConn(H, s) \in Hops
  BY CloseConnIs DEF Dirs
<1>2. /\ Closes(H, CloseConn(H, s))
      /\ Closes(CloseConn(H, s), CloseStream(CloseConn(H, s), s))
  BY <1>1, ClosesKeep
<1> QED BY <1>2, ClosesTrans

-----------------------------------------------------------------------------
(* The state of a copy is set. *)
Copies == [Dirs -> [1..2 -> CopyStates]]

SetCopy(C, d, h, v) == [C EXCEPT ![d][h] = v]

(* Only that copy changes. *)
LEMMA CopySet ==
    ASSUME NEW C \in Copies, NEW d \in Dirs, NEW h \in 1..2, NEW v \in CopyStates,
           NEW e \in Dirs, NEW g \in 1..2
    PROVE  /\ SetCopy(C, d, h, v) \in Copies
           /\ e = d /\ g = h => StateOf(SetCopy(C, d, h, v), e, g) = v
           /\ ~(e = d /\ g = h) => StateOf(SetCopy(C, d, h, v), e, g) = StateOf(C, e, g)
BY DEF Copies, SetCopy, StateOf

(* A relay starts the two copies of its side and no other. *)
LEMMA StartIs ==
    ASSUME NEW s \in Sides, copy \in Copies, StartRelay(s),
           NEW e \in Dirs, NEW g \in 1..2
    PROVE  /\ copy' \in Copies
           /\ SideOf(e, g) = s => StateOf(copy', e, g) = "run"
           /\ SideOf(e, g) # s => StateOf(copy', e, g) = StateOf(copy, e, g)
<1> DEFINE C == SetCopy(copy, Out(s), 1, "run")
<1>1. copy' = SetCopy(C, Opp(Out(s)), 2, "run") /\ "run" \in CopyStates
  BY DEF StartRelay, SetCopy, CopyStates
<1>2. Out(s) \in Dirs /\ Opp(Out(s)) \in Dirs /\ Opp(Out(s)) # Out(s)
  BY SideRuns
<1>3. /\ C \in Copies
      /\ StateOf(C, e, g) = IF e = Out(s) /\ g = 1 THEN "run" ELSE StateOf(copy, e, g)
  BY <1>1, <1>2, CopySet
<1> HIDE DEF C
<1>4. /\ copy' \in Copies
      /\ StateOf(copy', e, g) =
           IF e = Opp(Out(s)) /\ g = 2 THEN "run" ELSE StateOf(C, e, g)
  BY <1>1, <1>2, <1>3, CopySet
<1>5. (SideOf(e, g) = s) <=> ((e = Out(s) /\ g = 1) \/ (e = Opp(Out(s)) /\ g = 2))
  BY SideOfIs DEF Sides, Dirs, Out, Opp
<1> QED BY <1>3, <1>4, <1>5

-----------------------------------------------------------------------------
(* What is left of the types beside the hops and the counts. *)
RestTyped ==
    /\ kind \in Kinds /\ transport \in Transports
    /\ copy \in Copies /\ phase \in [Sides -> Phases]
    /\ syn \in BOOLEAN /\ tunnelUp \in BOOLEAN /\ faulty \in BOOLEAN
    /\ expired \in [Sides -> SUBSET {"conn", "stream"}]

DataTyped ==
    /\ hop \in Hops
    /\ \A d \in Dirs, h \in 1..3 : Len(Buf(hop, d, h)) <= Room
    /\ sent \in [Dirs -> Nat] /\ got \in [Dirs -> Seq(Nat)]
    /\ void \in [Dirs -> SUBSET Nat]
    /\ \A d \in Dirs : sent[d] <= MaxData[d]

(* The type invariant in the two parts the proofs use. *)
LEMMA TypesAre == RelayTypeOK <=> (RestTyped /\ DataTyped)
BY DEF RelayTypeOK, RestTyped, DataTyped, Hops, Copies, CopyStates, Phases, Buf

LEMMA TypesArePrimed == RelayTypeOK' <=> (RestTyped' /\ DataTyped')
BY DEF RelayTypeOK, RestTyped, DataTyped, Hops, Copies, CopyStates, Phases, Buf

(* A step that moves no data, starts no copy of which anything depends and *)
(* revives nothing.                                                        *)
Quiet ==
    /\ Closes(hop, hop') /\ got' = got /\ sent' = sent
    /\ kind' = kind /\ void' = void
    /\ \A e \in Dirs, g \in 1..2 :
         /\ StateOf(copy', e, g) \in {"none", "run"} =>
              StateOf(copy, e, g) \in {"none", "run"}
         /\ StateOf(copy', e, g) = "none" => StateOf(copy, e, g) = "none"
    /\ StateOf(copy, "up", 1) = "none" => StateOf(copy', "up", 1) = "none"
    /\ \A s \in Sides : phase[s] = "done" => phase'[s] = "done"
    /\ \/ phase'["remote"] = "done"
       \/ (phase'["remote"] \in {"none", "head"}) <=> (phase["remote"] \in {"none", "head"})

(* A quiet step keeps the types of the data. *)
LEMMA QuietData ==
    ASSUME DataTyped, Quiet
    PROVE  DataTyped'
<1>1. /\ hop' \in Hops /\ \A d \in Dirs, h \in 1..3 : Buf(hop', d, h) = Buf(hop, d, h)
      /\ got' = got /\ sent' = sent /\ void' = void
  BY DEF Quiet, Closes
<1> QED BY <1>1 DEF DataTyped

(* What a step does not touch of direction e stays as it is. *)
LEMMA OrderFrame ==
    ASSUME NEW e \in Dirs, Faithful(e), kind' = kind,
           got'[e] = got[e], sent'[e] = sent[e], void'[e] = void[e],
           Buf(hop', e, 1) = Buf(hop, e, 1), Buf(hop', e, 2) = Buf(hop, e, 2),
           Buf(hop', e, 3) = Buf(hop, e, 3),
           StateOf(copy', e, 1) = "none" => StateOf(copy, e, 1) = "none",
           StateOf(copy', e, 2) = "none" => StateOf(copy, e, 2) = "none",
           Flows(e, 1)' => Flows(e, 1), Flows(e, 2)' => Flows(e, 2),
           Flows(e, 2)' => Header(e)' = Header(e)
    PROVE  Faithful(e)'
<1>1. Unmoved(e)'
  BY DEF Unmoved, Faithful
<1>2. Flows(e, 2)' => Past2(e)' = Past2(e) /\ Past1(e)' = Past1(e)
  BY DEF Past2, Past1
<1>3. InOrder(e)'
  BY <1>2 DEF InOrder, Faithful
<1>4. Out3(e)' = Out3(e) /\ Out2(e)' = Out2(e) /\ Out1(e)' = Out1(e)
  BY DEF Out3, Out2, Out1
<1>5. Sorted(e)'
  BY <1>4 DEF Sorted, Faithful
<1>6. NoneLost(e)'
  BY <1>4 DEF NoneLost, Found, Faithful
<1> QED BY <1>1, <1>3, <1>5, <1>6 DEF Faithful

(* A quiet step keeps every direction in order. *)
LEMMA QuietOrder ==
    ASSUME RelayTypeOK, Quiet, NEW e \in Dirs, Faithful(e)
    PROVE  Faithful(e)'
<1>1. /\ Buf(hop', e, 1) = Buf(hop, e, 1) /\ Buf(hop', e, 2) = Buf(hop, e, 2)
      /\ Buf(hop', e, 3) = Buf(hop, e, 3)
      /\ Dead(hop, e, 2) => Dead(hop', e, 2)
      /\ Dead(hop, e, 3) => Dead(hop', e, 3)
      /\ got' = got /\ sent' = sent /\ void' = void /\ kind' = kind
  BY DEF Quiet, Closes
<1>2. /\ StateOf(copy', e, 1) = "none" => StateOf(copy, e, 1) = "none"
      /\ StateOf(copy', e, 2) = "none" => StateOf(copy, e, 2) = "none"
  BY DEF Quiet
<1>3. ASSUME NEW h \in 1..2 PROVE Flows(e, h)' => Flows(e, h)
  <2>1. SideOf(e, h) \in Sides BY CopyRunBy
  <2>2. /\ StateOf(copy', e, h) \in {"none", "run"} =>
             StateOf(copy, e, h) \in {"none", "run"}
        /\ phase[SideOf(e, h)] = "done" => phase'[SideOf(e, h)] = "done"
        /\ Dead(hop, e, h + 1) => Dead(hop', e, h + 1)
    BY <1>1, <2>1 DEF Quiet
  <2> QED BY <2>2 DEF Flows
<1>4. Flows(e, 2)' => Header(e)' = Header(e)
  <2> SUFFICES ASSUME Flows(e, 2)', e = "up" PROVE Header(e)' = Header(e)
    BY DEF Header
  <2>1. phase'["remote"] # "done"
    BY SideOfIs DEF Flows
  <2>2. (StateOf(copy, "up", 1) = "none") <=> (StateOf(copy', "up", 1) = "none")
    BY DEF Quiet, Dirs
  <2>3. (phase'["remote"] \in {"none", "head"}) <=> (phase["remote"] \in {"none", "head"})
    BY <2>1 DEF Quiet
  <2> QED BY <2>2, <2>3 DEF Header
<1> QED BY <1>1, <1>2, <1>3, <1>4, OrderFrame

(* A quiet step keeps the invariant once types and control are seen to. *)
LEMMA QuietStep ==
    ASSUME RInv, Quiet, RestTyped', Control'
    PROVE  RInv'
<1>1. RelayTypeOK'
  BY QuietData, TypesAre, TypesArePrimed DEF RInv
<1>2. \A e \in Dirs : Faithful(e)'
  BY QuietOrder DEF RInv
<1> QED BY <1>1, <1>2 DEF RInv

-----------------------------------------------------------------------------
(* A handler goes on, its copies left alone. *)
LEMMA PhaseControl ==
    ASSUME RelayTypeOK, Control, NEW s \in Sides, NEW p \in Phases, p # "relay",
           phase' = [phase EXCEPT ![s] = p], copy' = copy,
           \/ phase[s] \notin {"relay", "done"}
           \/ /\ p = "done" /\ StateOf(copy, Out(s), 1) = "done"
              /\ StateOf(copy, Opp(Out(s)), 2) = "done",
           s = "remote" => /\ p \notin {"open", "late"}
                           /\ p = "dial" => StateOf(copy, "up", 1) # "none"
    PROVE  Control' /\ phase' \in [Sides -> Phases]
<1>1. phase \in [Sides -> Phases]
  BY TypesAre DEF RestTyped
<1>2. phase' \in [Sides -> Phases] /\ phase'[s] = p
        /\ \A q \in Sides : q # s => phase'[q] = phase[q]
  BY <1>1
<1>3. ASSUME NEW d \in Dirs, NEW h \in 1..2
      PROVE  /\ StateOf(copy', d, h) \in {"run", "close"} =>
                  phase'[SideOf(d, h)] = "relay"
             /\ StateOf(copy', d, h) = "done" => phase'[SideOf(d, h)] \in {"relay", "done"}
  <2>1. SideOf(d, h) \in Sides
    BY CopyRunBy
  <2>2. /\ StateOf(copy, d, h) \in {"run", "close"} => phase[SideOf(d, h)] = "relay"
        /\ StateOf(copy, d, h) = "done" => phase[SideOf(d, h)] \in {"relay", "done"}
    BY DEF Control
  <2>3. CASE SideOf(d, h) # s
    BY <1>2, <2>1, <2>2, <2>3
  <2>4. CASE SideOf(d, h) = s
    <3>1. (d = Out(s) /\ h = 1) \/ (d = Opp(Out(s)) /\ h = 2)
      BY <2>4, SideOfIs DEF Sides, Dirs, Out, Opp
    <3> QED BY <1>2, <2>2, <2>4, <3>1
  <2> QED BY <2>3, <2>4
<1>4. /\ phase'["remote"] \notin {"open", "late"}
      /\ phase'["remote"] \in {"dial", "relay"} => StateOf(copy', "up", 1) # "none"
  <2>1. "remote" \in Sides BY DEF Sides
  <2> QED BY <1>2, <2>1 DEF Control
<1> QED BY <1>2, <1>3, <1>4 DEF Control

(* The same, of a step that leaves the data alone. *)
LEMMA PhaseStep ==
    ASSUME RInv, NEW s \in Sides, NEW p \in Phases, p # "relay",
           phase' = [phase EXCEPT ![s] = p], copy' = copy,
           \/ phase[s] \notin {"relay", "done"}
           \/ /\ p = "done" /\ StateOf(copy, Out(s), 1) = "done"
              /\ StateOf(copy, Opp(Out(s)), 2) = "done",
           s = "remote" => p = "done" \/ (phase[s] = "none" /\ p = "head"),
           Closes(hop, hop'), syn' \in BOOLEAN, faulty' \in BOOLEAN,
           UNCHANGED <<kind, transport, expired, tunnelUp, sent, void, got>>
    PROVE  RInv'
<1>1. phase \in [Sides -> Phases] /\ RestTyped
  BY TypesAre DEF RestTyped, RInv
<1>2. phase'[s] = p /\ \A q \in Sides : q # s => phase'[q] = phase[q]
  BY <1>1
<1>3. phase[s] = "done" => p = "done"
  OBVIOUS
<1>4. Control' /\ phase' \in [Sides -> Phases]
  BY PhaseControl DEF RInv
<1>5. Quiet
  <2>1. \A q \in Sides : phase[q] = "done" => phase'[q] = "done"
    BY <1>2, <1>3
  <2>2. \/ phase'["remote"] = "done"
        \/ (phase'["remote"] \in {"none", "head"}) <=> (phase["remote"] \in {"none", "head"})
    BY <1>2 DEF Sides
  <2> QED BY <2>1, <2>2 DEF Quiet
<1>6. RestTyped'
  BY <1>1, <1>4 DEF RestTyped
<1> QED BY <1>4, <1>5, <1>6, QuietStep

(* A step that leaves data, copies and handlers alone. *)
LEMMA StillStep ==
    ASSUME RInv, Closes(hop, hop'), RestTyped',
           UNCHANGED <<kind, copy, phase, sent, void, got>>
    PROVE  RInv'
<1>1. Quiet
  BY DEF Quiet
<1>2. Control'
  BY DEF Control, RInv
<1> QED BY <1>1, <1>2, QuietStep

(* A copy that has started goes on towards its end. *)
LEMMA CopyStep ==
    ASSUME RInv, NEW d \in Dirs, NEW h \in 1..2, NEW v \in {"close", "done"},
           StateOf(copy, d, h) \in {"run", "close"},
           copy' = SetCopy(copy, d, h, v),
           Closes(hop, hop'),
           UNCHANGED <<kind, transport, phase, syn, expired, tunnelUp, sent, void,
                       got, faulty>>
    PROVE  RInv'
<1>1. RestTyped
  BY TypesAre DEF RInv
<1>2. copy \in Copies /\ v \in CopyStates
  BY <1>1 DEF RestTyped, CopyStates
<1>3. copy' \in Copies
  BY <1>2, CopySet
<1>4. ASSUME NEW e \in Dirs, NEW g \in 1..2
      PROVE  \/ e = d /\ g = h /\ StateOf(copy', e, g) = v
             \/ ~(e = d /\ g = h) /\ StateOf(copy', e, g) = StateOf(copy, e, g)
  BY <1>2, CopySet
<1>5. Control'
  <2>1. ASSUME NEW e \in Dirs, NEW g \in 1..2
        PROVE  /\ StateOf(copy', e, g) \in {"run", "close"} =>
                    phase'[SideOf(e, g)] = "relay"
               /\ StateOf(copy', e, g) = "done" =>
                    phase'[SideOf(e, g)] \in {"relay", "done"}
    BY <1>4 DEF Control, RInv
  <2>2. /\ phase'["remote"] \notin {"open", "late"}
        /\ phase'["remote"] \in {"dial", "relay"} => StateOf(copy', "up", 1) # "none"
    BY <1>4 DEF Control, RInv, Dirs
  <2> QED BY <2>1, <2>2 DEF Control
<1>6. Quiet
  <2>1. ASSUME NEW e \in Dirs, NEW g \in 1..2
        PROVE  /\ StateOf(copy', e, g) \in {"none", "run"} =>
                    StateOf(copy, e, g) \in {"none", "run"}
               /\ StateOf(copy', e, g) = "none" => StateOf(copy, e, g) = "none"
    BY <1>4
  <2>2. StateOf(copy, "up", 1) = "none" => StateOf(copy', "up", 1) = "none"
    BY <1>4 DEF Dirs
  <2> QED BY <2>1, <2>2 DEF Quiet
<1>7. RestTyped'
  BY <1>1, <1>3 DEF RestTyped
<1> QED BY <1>5, <1>6, <1>7, QuietStep

-----------------------------------------------------------------------------
(* The actions that move no data *)

(* The applications that write nothing, and the loss of the tunnel. *)
LEMMA QuietApps ==
    ASSUME RInv,
           \/ \E d \in Dirs : AppEnds(d)
           \/ \E s \in Sides : AppAborts(s) \/ IdleFires(s)
           \/ TunnelEnds
    PROVE  RInv'
<1>1. RestTyped /\ hop \in Hops
  BY TypesAre DEF RInv, DataTyped
<1>2. ASSUME NEW d \in Dirs, AppEnds(d) PROVE RInv'
  <2>1. hop' = SetFin(hop, d, 1)
    BY <1>2 DEF AppEnds, SetFin
  <2>2. UNCHANGED <<kind, transport, copy, phase, syn, expired, tunnelUp, sent,
                    void, got, faulty>>
    BY <1>2 DEF AppEnds
  <2>3. Closes(hop, hop')
    BY <1>1, <2>1, ClosesKeep
  <2>4. RestTyped'
    BY <1>1, <2>2 DEF RestTyped
  <2> QED BY <2>2, <2>3, <2>4, StillStep
<1>3. ASSUME NEW s \in Sides, AppAborts(s) PROVE RInv'
  <2> DEFINE A == SetDead(hop, Out(s), 1)
  <2>1. hop' = SetDead(A, Opp(Out(s)), 3)
    BY <1>3 DEF AppAborts, SetDead
  <2>2. /\ faulty' = TRUE
        /\ UNCHANGED <<kind, transport, copy, phase, syn, expired, tunnelUp, sent,
                       void, got>>
    BY <1>3 DEF AppAborts
  <2>3. Out(s) \in Dirs /\ Opp(Out(s)) \in Dirs
    BY SideRuns
  <2>4. Closes(hop, A)
    BY <1>1, <2>3, ClosesKeep
  <2> HIDE DEF A
  <2>5. Closes(A, hop')
    <3>1. A \in Hops BY <2>4 DEF Closes
    <3> QED BY <2>1, <2>3, <3>1, ClosesKeep
  <2>6. Closes(hop, hop')
    BY <2>4, <2>5, ClosesTrans
  <2>7. RestTyped'
    BY <1>1, <2>2 DEF RestTyped
  <2> QED BY <2>2, <2>6, <2>7, StillStep
<1>4. ASSUME NEW s \in Sides, IdleFires(s) PROVE RInv'
  <2>1. /\ faulty' = TRUE /\ expired' \in [Sides -> SUBSET {"conn", "stream"}]
        /\ UNCHANGED <<kind, transport, hop, copy, phase, syn, tunnelUp, sent,
                       void, got>>
    BY <1>1, <1>4 DEF IdleFires, Expire, RestTyped
  <2>2. Closes(hop, hop')
    BY <1>1, <2>1, ClosesKeep
  <2>3. RestTyped'
    BY <1>1, <2>1 DEF RestTyped
  <2> QED BY <2>1, <2>2, <2>3, StillStep
<1>5. ASSUME TunnelEnds PROVE RInv'
  <2> DEFINE A == SetDead(hop, "up", 2)
  <2>1. hop' = SetDead(A, "down", 2)
    BY <1>5 DEF TunnelEnds, SetDead
  <2>2. /\ faulty' = TRUE /\ tunnelUp' = FALSE
        /\ UNCHANGED <<kind, transport, copy, phase, syn, expired, sent, void,
                       got>>
    BY <1>5 DEF TunnelEnds
  <2>3. "up" \in Dirs /\ "down" \in Dirs
    BY DEF Dirs
  <2>4. Closes(hop, A)
    BY <1>1, <2>3, ClosesKeep
  <2> HIDE DEF A
  <2>5. Closes(A, hop')
    <3>1. A \in Hops BY <2>4 DEF Closes
    <3> QED BY <2>1, <2>3, <3>1, ClosesKeep
  <2>6. Closes(hop, hop')
    BY <2>4, <2>5, ClosesTrans
  <2>7. RestTyped'
    BY <1>1, <2>2 DEF RestTyped
  <2> QED BY <2>2, <2>6, <2>7, StillStep
<1> QED BY <1>2, <1>3, <1>4, <1>5

(* The handlers, but for the header and the start of the relay. *)
LEMMA QuietHandlers ==
    ASSUME RInv,
           \/ OpenStream \/ OpenFails \/ LateStream \/ WriteHeadFails
           \/ AcceptStream \/ ReadHeadFails \/ DialFails \/ ServesProxy
           \/ \E s \in Sides : RelayReturns(s)
    PROVE  RInv'
<1>1. RestTyped /\ hop \in Hops /\ "local" \in Sides /\ "remote" \in Sides
  BY TypesAre DEF RInv, DataTyped, Sides
<1>2. /\ Closes(hop, hop)
      /\ \A s \in Sides : /\ Closes(hop, CloseStream(hop, s))
                          /\ Closes(hop, CloseConn(hop, s))
                          /\ Closes(hop, CloseStream(CloseConn(hop, s), s))
  BY <1>1, ClosesKeep, ShutKeeps
<1> USE DEF Phases
<1>3. CASE OpenStream
  <2>1. /\ phase["local"] = "open" /\ phase' = [phase EXCEPT !["local"] = "head"]
        /\ Closes(hop, hop') /\ syn' \in BOOLEAN /\ faulty' \in BOOLEAN /\ copy' = copy
        /\ UNCHANGED <<kind, transport, expired, tunnelUp, sent, void, got>>
    BY <1>1, <1>2, <1>3 DEF OpenStream, RestTyped
  <2> QED BY <1>1, <2>1, PhaseStep
<1>4. CASE OpenFails
  <2>1. PICK p \in {"late", "done"} : phase' = [phase EXCEPT !["local"] = p]
    BY <1>4 DEF OpenFails
  <2>2. /\ phase["local"] = "open"
        /\ Closes(hop, hop') /\ syn' \in BOOLEAN /\ faulty' \in BOOLEAN /\ copy' = copy
        /\ UNCHANGED <<kind, transport, expired, tunnelUp, sent, void, got>>
    BY <1>1, <1>2, <1>4 DEF OpenFails, RestTyped
  <2> QED BY <1>1, <2>1, <2>2, PhaseStep
<1>5. CASE LateStream
  <2>1. /\ phase["local"] = "late" /\ phase' = [phase EXCEPT !["local"] = "done"]
        /\ Closes(hop, hop') /\ syn' \in BOOLEAN /\ faulty' \in BOOLEAN /\ copy' = copy
        /\ UNCHANGED <<kind, transport, expired, tunnelUp, sent, void, got>>
    BY <1>1, <1>2, <1>5 DEF LateStream, RestTyped
  <2> QED BY <1>1, <2>1, PhaseStep
<1>6. CASE WriteHeadFails
  <2>1. /\ phase["local"] = "head" /\ phase' = [phase EXCEPT !["local"] = "done"]
        /\ Closes(hop, hop') /\ syn' \in BOOLEAN /\ faulty' \in BOOLEAN /\ copy' = copy
        /\ UNCHANGED <<kind, transport, expired, tunnelUp, sent, void, got>>
    BY <1>1, <1>2, <1>6 DEF WriteHeadFails, Shut, RestTyped
  <2> QED BY <1>1, <2>1, PhaseStep
<1>7. CASE AcceptStream
  <2>1. /\ phase["remote"] = "none" /\ phase' = [phase EXCEPT !["remote"] = "head"]
        /\ Closes(hop, hop') /\ syn' \in BOOLEAN /\ faulty' \in BOOLEAN /\ copy' = copy
        /\ UNCHANGED <<kind, transport, expired, tunnelUp, sent, void, got>>
    BY <1>1, <1>2, <1>7 DEF AcceptStream, RestTyped
  <2> QED BY <1>1, <2>1, PhaseStep
<1>8. CASE ReadHeadFails
  <2>1. /\ phase["remote"] = "head" /\ phase' = [phase EXCEPT !["remote"] = "done"]
        /\ Closes(hop, hop') /\ syn' \in BOOLEAN /\ faulty' \in BOOLEAN /\ copy' = copy
        /\ UNCHANGED <<kind, transport, expired, tunnelUp, sent, void, got>>
    BY <1>1, <1>2, <1>8 DEF ReadHeadFails, RestTyped
  <2> QED BY <1>1, <2>1, PhaseStep
<1>9. CASE DialFails
  <2>1. /\ phase["remote"] = "dial" /\ phase' = [phase EXCEPT !["remote"] = "done"]
        /\ Closes(hop, hop') /\ syn' \in BOOLEAN /\ faulty' \in BOOLEAN /\ copy' = copy
        /\ UNCHANGED <<kind, transport, expired, tunnelUp, sent, void, got>>
    BY <1>1, <1>2, <1>9 DEF DialFails, RestTyped
  <2> QED BY <1>1, <2>1, PhaseStep
<1>10. CASE ServesProxy
  <2>1. /\ phase["remote"] = "dial" /\ phase' = [phase EXCEPT !["remote"] = "done"]
        /\ Closes(hop, hop') /\ syn' \in BOOLEAN /\ faulty' \in BOOLEAN /\ copy' = copy
        /\ UNCHANGED <<kind, transport, expired, tunnelUp, sent, void, got>>
    BY <1>1, <1>2, <1>10 DEF ServesProxy, RestTyped
  <2> QED BY <1>1, <2>1, PhaseStep
<1>11. ASSUME NEW s \in Sides, RelayReturns(s) PROVE RInv'
  <2>1. /\ StateOf(copy, Out(s), 1) = "done" /\ StateOf(copy, Opp(Out(s)), 2) = "done"
        /\ phase' = [phase EXCEPT ![s] = "done"]
        /\ Closes(hop, hop') /\ syn' \in BOOLEAN /\ faulty' \in BOOLEAN /\ copy' = copy
        /\ UNCHANGED <<kind, transport, expired, tunnelUp, sent, void, got>>
    BY <1>1, <1>2, <1>11 DEF RelayReturns, Shut, RestTyped, StateOf
  <2> QED BY <2>1, PhaseStep
<1> QED BY <1>3, <1>4, <1>5, <1>6, <1>7, <1>8, <1>9, <1>10, <1>11

-----------------------------------------------------------------------------
(* closeWrite of the stream, by transport. *)
LEMMA CloseWriteIs ==
    ASSUME NEW H \in Hops, NEW s \in Sides
    PROVE  CloseWriteStream(H, s) =
             IF transport = "kcp" THEN CloseStream(H, s) ELSE SetFin(H, Out(s), 2)
BY DEF CloseWriteStream, SetFin

(* A copy that ends or closes. *)
LEMMA QuietCopies ==
    ASSUME RInv, NEW d \in Dirs, NEW h \in 1..2, CopyEnds(d, h) \/ CopyCloses(d, h)
    PROVE  RInv'
<1>1. RestTyped /\ hop \in Hops
  BY TypesAre DEF RInv, DataTyped
<1>2. CASE CopyEnds(d, h)
  <2>1. copy' = SetCopy(copy, d, h, "close")
    BY <1>2 DEF CopyEnds, SetCopy
  <2>2. /\ StateOf(copy, d, h) = "run" /\ hop' = hop
        /\ UNCHANGED <<kind, transport, phase, syn, expired, tunnelUp, sent, void,
                       got, faulty>>
    BY <1>2 DEF CopyEnds, StateOf
  <2>3. Closes(hop, hop')
    BY <1>1, <2>2, ClosesKeep
  <2> QED BY <2>1, <2>2, <2>3, CopyStep
<1>3. CASE CopyCloses(d, h)
  <2>1. copy' = SetCopy(copy, d, h, "done")
    BY <1>3 DEF CopyCloses, SetCopy
  <2>2. /\ StateOf(copy, d, h) = "close"
        /\ UNCHANGED <<kind, transport, phase, syn, expired, tunnelUp, sent, void,
                       got, faulty>>
    BY <1>3 DEF CopyCloses, StateOf
  <2>3. \/ hop' = hop \/ hop' = CloseWriteStream(hop, SideOf(d, 1))
        \/ hop' = SetFin(hop, d, 3)
    BY <1>3 DEF CopyCloses, SetFin
  <2>4. SideOf(d, 1) \in Sides /\ Out(SideOf(d, 1)) \in Dirs
    BY CopyRunBy
  <2>5. Closes(hop, hop')
    <3>1. CASE hop' = hop
      BY <1>1, <3>1, ClosesKeep
    <3>2. CASE hop' = CloseWriteStream(hop, SideOf(d, 1))
      <4>1. hop' = CloseStream(hop, SideOf(d, 1)) \/ hop' = SetFin(hop, Out(SideOf(d, 1)), 2)
        BY <1>1, <2>4, <3>2, CloseWriteIs
      <4> QED BY <1>1, <2>4, <4>1, ClosesKeep
    <3>3. CASE hop' = SetFin(hop, d, 3)
      BY <1>1, <3>3, ClosesKeep
    <3> QED BY <2>3, <3>1, <3>2, <3>3
  <2> QED BY <2>1, <2>2, <2>5, CopyStep
<1> QED BY <1>2, <1>3

(* The relay at Remote starts. *)
LEMMA QuietDial ==
    ASSUME RInv, Dialled
    PROVE  RInv'
<1>1. RestTyped /\ hop \in Hops /\ "remote" \in Sides
  BY TypesAre DEF RInv, DataTyped, Sides
<1>2. /\ phase["remote"] = "dial" /\ StartRelay("remote")
      /\ UNCHANGED <<kind, transport, hop, syn, expired, tunnelUp, sent, void, got,
                     faulty>>
  BY DEF Dialled
<1>3. phase' = [phase EXCEPT !["remote"] = "relay"] /\ phase \in [Sides -> Phases]
  BY <1>1, <1>2 DEF StartRelay, RestTyped
<1>4. /\ phase' \in [Sides -> Phases] /\ phase'["remote"] = "relay"
      /\ phase'["local"] = phase["local"]
  BY <1>3 DEF Sides, Phases
<1>5. ASSUME NEW e \in Dirs, NEW g \in 1..2
      PROVE  /\ copy' \in Copies
             /\ SideOf(e, g) = "remote" => StateOf(copy', e, g) = "run"
             /\ SideOf(e, g) # "remote" => StateOf(copy', e, g) = StateOf(copy, e, g)
  BY <1>1, <1>2, StartIs DEF RestTyped
<1>6. RestTyped'
  BY <1>1, <1>2, <1>4, <1>5 DEF RestTyped, Dirs
<1>7. \A e \in Dirs, g \in 1..2 : SideOf(e, g) = "remote" => StateOf(copy, e, g) = "none"
  <2> SUFFICES ASSUME NEW e \in Dirs, NEW g \in 1..2, SideOf(e, g) = "remote"
               PROVE  StateOf(copy, e, g) = "none"
    OBVIOUS
  <2>1. StateOf(copy, e, g) \in CopyStates
    BY <1>1 DEF RestTyped, Copies, StateOf
  <2> QED BY <1>2, <2>1 DEF Control, RInv, CopyStates
<1>8. Control'
  <2>1. ASSUME NEW e \in Dirs, NEW g \in 1..2
        PROVE  /\ StateOf(copy', e, g) \in {"run", "close"} =>
                    phase'[SideOf(e, g)] = "relay"
               /\ StateOf(copy', e, g) = "done" =>
                    phase'[SideOf(e, g)] \in {"relay", "done"}
    <3>1. SideOf(e, g) \in {"local", "remote"}
      BY CopyRunBy DEF Sides
    <3> QED BY <1>4, <1>5, <3>1 DEF Control, RInv
  <2>2. StateOf(copy', "up", 1) # "none"
    <3>1. StateOf(copy, "up", 1) # "none"
      BY <1>2 DEF Control, RInv
    <3> QED BY <1>5, <3>1, SideOfIs DEF Dirs
  <2> QED BY <1>4, <2>1, <2>2 DEF Control
<1>9. Quiet
  <2>1. Closes(hop, hop')
    BY <1>1, <1>2, ClosesKeep
  <2>2. StateOf(copy, "up", 1) = "none" => StateOf(copy', "up", 1) = "none"
    BY <1>5, SideOfIs DEF Dirs
  <2>3. ASSUME NEW e \in Dirs, NEW g \in 1..2
        PROVE  /\ StateOf(copy', e, g) \in {"none", "run"} =>
                    StateOf(copy, e, g) \in {"none", "run"}
               /\ StateOf(copy', e, g) = "none" => StateOf(copy, e, g) = "none"
    BY <1>5, <1>7
  <2>4. \A s \in Sides : phase[s] = "done" => phase'[s] = "done"
    BY <1>2, <1>4 DEF Sides
  <2> QED BY <1>2, <1>4, <2>1, <2>2, <2>3, <2>4 DEF Quiet
<1> QED BY <1>6, <1>8, <1>9, QuietStep

-----------------------------------------------------------------------------
(* The actions that move data *)

(* What is left behind the first piece follows it. *)
LEMMA FollowsTail ==
    ASSUME NEW b \in Seq(Nat), b # <<>>, NEW n \in Int, Follows(b, n)
    PROVE  /\ Tail(b) \in Seq(Nat) /\ Len(b) \in Nat /\ Len(b) >= 1
           /\ Len(Tail(b)) = Len(b) - 1
           /\ Head(b) = n + 1 /\ Head(b) \in Nat /\ Follows(Tail(b), n + 1)
<1>1. /\ Tail(b) \in Seq(Nat) /\ Len(b) \in Nat /\ Len(b) >= 1
      /\ Len(Tail(b)) = Len(b) - 1 /\ Head(b) = b[1] /\ Head(b) \in Nat
      /\ \A i \in 1..Len(Tail(b)) : Tail(b)[i] = b[i + 1]
  OBVIOUS
<1> QED BY <1>1 DEF Follows

(* The next piece at the end keeps a buffer in order. *)
LEMMA FollowsAppend ==
    ASSUME NEW b \in Seq(Nat), NEW n \in Int, Follows(b, n),
           NEW x \in Nat, x = n + Len(b) + 1
    PROVE  Follows(Append(b, x), n)
BY DEF Follows

(* Lengths of what is appended to and taken from. *)
LEMMA LengthOf ==
    /\ \A b \in Seq(Nat) : Len(b) \in Nat /\ (Len(b) = 0 <=> b = <<>>)
    /\ \A b \in Seq(Nat), x \in Nat :
          /\ Append(b, x) \in Seq(Nat) /\ Len(Append(b, x)) = Len(b) + 1
          /\ Append(b, x) # <<>>
    /\ \A b \in Seq(Nat) : b # <<>> =>
          /\ Tail(b) \in Seq(Nat) /\ Len(Tail(b)) = Len(b) - 1 /\ Head(b) \in Nat
          /\ Len(b) >= 1
<1>1. \A b \in Seq(Nat) : Len(b) \in Nat /\ (Len(b) = 0 <=> b = <<>>)
  OBVIOUS
<1>2. \A b \in Seq(Nat), x \in Nat :
          /\ Append(b, x) \in Seq(Nat) /\ Len(Append(b, x)) = Len(b) + 1
  OBVIOUS
<1>3. \A b \in Seq(Nat), x \in Nat : Append(b, x) # <<>>
  BY <1>1, <1>2
<1>4. \A b \in Seq(Nat) : b # <<>> =>
          /\ Tail(b) \in Seq(Nat) /\ Len(Tail(b)) = Len(b) - 1 /\ Head(b) \in Nat
          /\ Len(b) >= 1
  OBVIOUS
<1> QED BY <1>1, <1>2, <1>3, <1>4

(* The types of what is counted. *)
LEMMA CountsTyped ==
    ASSUME DataTyped, NEW d \in Dirs
    PROVE  /\ Buf(hop, d, 1) \in Seq(Nat) /\ Buf(hop, d, 2) \in Seq(Nat)
           /\ Buf(hop, d, 3) \in Seq(Nat) /\ got[d] \in Seq(Nat) /\ sent[d] \in Nat
           /\ Len(Buf(hop, d, 1)) \in Nat /\ Len(Buf(hop, d, 2)) \in Nat
           /\ Len(Buf(hop, d, 3)) \in Nat /\ Len(got[d]) \in Nat
           /\ Header(d) \in {0, 1} /\ Past2(d) \in Int /\ Past1(d) \in Int
<1>1. /\ Buf(hop, d, 1) \in Seq(Nat) /\ Buf(hop, d, 2) \in Seq(Nat)
      /\ Buf(hop, d, 3) \in Seq(Nat)
  BY HopParts DEF DataTyped
<1>2. got[d] \in Seq(Nat) /\ sent[d] \in Nat
  BY DEF DataTyped
<1>3. Header(d) \in {0, 1}
  BY DEF Header
<1>4. /\ Len(Buf(hop, d, 1)) \in Nat /\ Len(Buf(hop, d, 2)) \in Nat
      /\ Len(Buf(hop, d, 3)) \in Nat /\ Len(got[d]) \in Nat
  BY <1>1, <1>2, LengthOf
<1> QED BY <1>1, <1>2, <1>3, <1>4 DEF Past2, Past1

(* A step that leaves the copies and the handlers alone leaves every flow. *)
LEMMA FlowsSame ==
    ASSUME NEW e \in Dirs, UNCHANGED <<copy, phase>>,
           \A k \in 1..3 : Dead(hop', e, k) <=> Dead(hop, e, k)
    PROVE  /\ Flows(e, 1)' <=> Flows(e, 1)
           /\ Flows(e, 2)' <=> Flows(e, 2)
           /\ Header(e)' = Header(e)
<1>1. (Dead(hop', e, 2) <=> Dead(hop, e, 2)) /\ (Dead(hop', e, 3) <=> Dead(hop, e, 3))
  OBVIOUS
<1>2. Flows(e, 1)' <=> Flows(e, 1)
  BY <1>1 DEF Flows
<1>3. Flows(e, 2)' <=> Flows(e, 2)
  BY <1>1 DEF Flows
<1>4. Header(e)' = Header(e)
  BY DEF Header
<1> QED BY <1>2, <1>3, <1>4

-----------------------------------------------------------------------------
(* The datagrams of UDP *)

(* What is in a buffer to which a piece is added, *)
LEMMA ElemsAppend ==
    ASSUME NEW b \in Seq(Nat), NEW x \in Nat
    PROVE  /\ Elems(Append(b, x)) = Elems(b) \cup {x}
           /\ Rising(b) /\ (\A y \in Elems(b) : y < x) => Rising(Append(b, x))
<1>1. /\ Len(b) \in Nat /\ Len(Append(b, x)) = Len(b) + 1
      /\ \A i \in 1..Len(b) : Append(b, x)[i] = b[i] /\ b[i] \in Nat
      /\ Append(b, x)[Len(b) + 1] = x
  OBVIOUS
<1>2. 1..(Len(b) + 1) = (1..Len(b)) \cup {Len(b) + 1}
  BY <1>1
<1> QED BY <1>1, <1>2 DEF Elems, Rising

(* and in one from which the first is taken. *)
LEMMA ElemsTail ==
    ASSUME NEW b \in Seq(Nat), b # <<>>
    PROVE  /\ Head(b) \in Nat /\ Elems(b) = {Head(b)} \cup Elems(Tail(b))
           /\ Rising(b) =>
                Rising(Tail(b)) /\ \A y \in Elems(Tail(b)) : Head(b) < y
<1>1. /\ Len(b) \in Nat /\ Len(b) >= 1 /\ Len(Tail(b)) = Len(b) - 1
      /\ Head(b) = b[1] /\ Head(b) \in Nat
      /\ \A i \in 1..Len(Tail(b)) : Tail(b)[i] = b[i + 1] /\ i + 1 \in 1..Len(b)
  OBVIOUS
<1>2. \A i \in 1..Len(b) : i = 1 \/ (i - 1 \in 1..Len(Tail(b)) /\ Tail(b)[i - 1] = b[i])
  BY <1>1
<1>3. Elems(b) = {Head(b)} \cup Elems(Tail(b))
  <2>1. Elems(b) \subseteq {Head(b)} \cup Elems(Tail(b))
    BY <1>1, <1>2 DEF Elems
  <2>2. {Head(b)} \cup Elems(Tail(b)) \subseteq Elems(b)
    BY <1>1 DEF Elems
  <2> QED BY <2>1, <2>2
<1>4. ASSUME Rising(b) PROVE Rising(Tail(b)) /\ \A y \in Elems(Tail(b)) : Head(b) < y
  <2>1. \A i \in 1..Len(Tail(b)) : i \in Nat /\ 1 < i + 1 /\ 1 \in 1..Len(b)
    BY <1>1
  <2>2. \A y \in Elems(Tail(b)) : Head(b) < y
    BY <1>1, <1>4, <2>1 DEF Elems, Rising
  <2>3. Rising(Tail(b))
    BY <1>1, <1>4, <2>1 DEF Rising
  <2> QED BY <2>2, <2>3
<1> QED BY <1>1, <1>3, <1>4

(* The numbers in the hops are natural. *)
LEMMA ElemsTyped ==
    ASSUME NEW b \in Seq(Nat)
    PROVE  Elems(b) \subseteq Nat
BY DEF Elems

(* A datagram is written, or lost before it gets to the relay. *)
LEMMA UdpWritten ==
    ASSUME DataTyped, NEW d \in Dirs, kind' = kind, Sorted(d), NoneLost(d),
           got'[d] = got[d], sent'[d] = sent[d] + 1, void[d] \subseteq void'[d],
           Buf(hop', d, 2) = Buf(hop, d, 2), Buf(hop', d, 3) = Buf(hop, d, 3),
           Flows(d, 1)' <=> Flows(d, 1), Flows(d, 2)' <=> Flows(d, 2),
           Header(d)' = Header(d),
           \/ Buf(hop', d, 1) = Append(Buf(hop, d, 1), sent[d] + 1)
           \/ Buf(hop', d, 1) = Buf(hop, d, 1) /\ sent[d] + 1 \in void'[d]
    PROVE  Sorted(d)' /\ NoneLost(d)'
<1> SUFFICES ASSUME kind = "udp" PROVE Sorted(d)' /\ NoneLost(d)'
  BY DEF Sorted, NoneLost
<1>1. sent[d] \in Nat /\ Buf(hop, d, 1) \in Seq(Nat)
  BY CountsTyped
<1>2. Out3(d)' = Out3(d) /\ Out2(d)' = Out2(d)
  BY DEF Out3, Out2
<1> DEFINE c == Buf(hop, d, 1)
           w == sent[d] + 1
<1>3. /\ Elems(Append(c, w)) = Elems(c) \cup {w}
      /\ Rising(c) /\ (\A y \in Elems(c) : y < w) => Rising(Append(c, w))
  <2>1. w \in Nat
    BY <1>1
  <2> HIDE DEF c, w
  <2>2. c \in Seq(Nat)
    BY <1>1 DEF c
  <2> QED BY <2>1, <2>2, ElemsAppend
<1>4. \/ Out1(d)' = Out1(d) \cup {sent[d] + 1}
      \/ Out1(d)' = Out1(d) /\ sent[d] + 1 \in void'[d]
  BY <1>3 DEF Out1
<1>5. /\ Out3(d) \subseteq 1..sent[d]
      /\ Flows(d, 2) => Out2(d) \subseteq 0..sent[d]
      /\ Flows(d, 2) /\ Flows(d, 1) => Out1(d) \subseteq 1..sent[d]
  BY DEF Sorted
<1>6. /\ \A x \in 0..sent[d] : x < sent[d] + 1
      /\ \A x \in 1..sent[d] : x < sent[d] + 1
      /\ 1..sent[d] \subseteq 1..(sent[d] + 1) /\ 0..sent[d] \subseteq 0..(sent[d] + 1)
      /\ sent[d] + 1 \in 1..(sent[d] + 1)
      /\ 1..(sent[d] + 1) = (1..sent[d]) \cup {sent[d] + 1}
  BY <1>1
<1>7. Flows(d, 2) /\ Flows(d, 1) =>
        /\ Rising(Buf(hop', d, 1)) /\ Below(Out3(d), Out1(d)')
        /\ Below(Out2(d), Out1(d)') /\ Out1(d)' \subseteq 1..(sent[d] + 1)
  <2> HAVE Flows(d, 2) /\ Flows(d, 1)
  <2>1. Rising(Buf(hop, d, 1)) /\ Below(Out3(d), Out1(d)) /\ Below(Out2(d), Out1(d))
    BY DEF Sorted
  <2>2. Rising(Buf(hop', d, 1))
    BY <1>3, <1>5, <1>6, <2>1 DEF Out1
  <2> QED BY <1>4, <1>5, <1>6, <2>1, <2>2 DEF Below
<1>8. Sorted(d)'
  BY <1>2, <1>5, <1>6, <1>7 DEF Sorted
<1>9. ASSUME NEW n \in 1..(sent[d] + 1), n \notin void'[d] PROVE Found(d, n)'
  <2>1. CASE n = sent[d] + 1
    <3>1. Flows(d, 1) => n \in Out1(d)'
      BY <1>4, <1>9, <2>1
    <3>2. \A x \in Out3(d) : x < n
      BY <1>5, <1>6, <2>1
    <3>3. Flows(d, 2) => \A x \in Out2(d) : x < n
      BY <1>5, <1>6, <2>1
    <3> QED BY <1>2, <3>1, <3>2, <3>3 DEF Found
  <2>2. CASE n \in 1..sent[d]
    <3>1. Found(d, n)
      BY <1>9, <2>2 DEF NoneLost
    <3>2. Out1(d) \subseteq Out1(d)'
      BY <1>4
    <3> QED BY <1>2, <3>1, <3>2 DEF Found
  <2> QED BY <1>6, <2>1, <2>2
<1>10. NoneLost(d)'
  BY <1>9 DEF NoneLost
<1> QED BY <1>8, <1>10

(* An application reads a datagram. *)
LEMMA UdpRead ==
    ASSUME DataTyped, NEW d \in Dirs, kind' = kind, Sorted(d), NoneLost(d),
           Buf(hop, d, 3) # <<>>,
           got'[d] = Append(got[d], Head(Buf(hop, d, 3))),
           Buf(hop', d, 3) = Tail(Buf(hop, d, 3)),
           Buf(hop', d, 2) = Buf(hop, d, 2), Buf(hop', d, 1) = Buf(hop, d, 1),
           sent'[d] = sent[d], void'[d] = void[d],
           Flows(d, 1)' <=> Flows(d, 1), Flows(d, 2)' <=> Flows(d, 2),
           Header(d)' = Header(d)
    PROVE  Sorted(d)' /\ NoneLost(d)'
<1> SUFFICES ASSUME kind = "udp" PROVE Sorted(d)' /\ NoneLost(d)'
  BY DEF Sorted, NoneLost
<1> DEFINE b == Buf(hop, d, 3)
           x == Head(b)
<1>1. b \in Seq(Nat) /\ got[d] \in Seq(Nat)
  BY CountsTyped
<1>2. /\ Rising(got[d]) /\ Rising(b) /\ Below(Elems(got[d]), Elems(b))
      /\ Out3(d) = Elems(got[d]) \cup Elems(b)
  BY DEF Sorted, Out3
<1>3. /\ x \in Nat /\ Elems(b) = {x} \cup Elems(Tail(b))
      /\ Rising(Tail(b)) /\ \A y \in Elems(Tail(b)) : x < y
  BY <1>1, <1>2, ElemsTail
<1>4. /\ Elems(Append(got[d], x)) = Elems(got[d]) \cup {x}
      /\ Rising(Append(got[d], x))
  <2>1. \A y \in Elems(got[d]) : y < x
    BY <1>2, <1>3 DEF Below
  <2> HIDE DEF x
  <2> QED BY <1>1, <1>2, <1>3, <2>1, ElemsAppend
<1>5. got'[d] = Append(got[d], x) /\ Buf(hop', d, 3) = Tail(b)
  OBVIOUS
<1>6. Rising(got'[d]) /\ Rising(Buf(hop', d, 3))
  BY <1>3, <1>4, <1>5
<1>7. Elems(got'[d]) = Elems(got[d]) \cup {x} /\ Elems(Buf(hop', d, 3)) = Elems(Tail(b))
  BY <1>4, <1>5
<1> HIDE DEF x, b
<1>8. Below(Elems(got'[d]), Elems(Buf(hop', d, 3)))
  BY <1>2, <1>3, <1>7 DEF Below
<1>9. Out3(d)' = Out3(d) /\ Out2(d)' = Out2(d) /\ Out1(d)' = Out1(d)
  BY <1>2, <1>3, <1>7 DEF Out3, Out2, Out1
<1>10. Sorted(d)'
  BY <1>6, <1>8, <1>9 DEF Sorted
<1>11. NoneLost(d)'
  BY <1>9 DEF NoneLost, Found
<1> QED BY <1>10, <1>11

(* The first copy takes a datagram and passes it on, or it is an empty one. *)
LEMMA UdpTaken1 ==
    ASSUME DataTyped, NEW d \in Dirs, kind' = kind, Sorted(d), NoneLost(d),
           Flows(d, 1), Buf(hop, d, 1) # <<>>,
           Buf(hop', d, 1) = Tail(Buf(hop, d, 1)), Buf(hop', d, 3) = Buf(hop, d, 3),
           got'[d] = got[d], sent'[d] = sent[d], void'[d] = void[d],
           Flows(d, 1)' <=> Flows(d, 1), Flows(d, 2)' <=> Flows(d, 2),
           Header(d)' = Header(d),
           \/ Buf(hop', d, 2) = Append(Buf(hop, d, 2), Head(Buf(hop, d, 1)))
           \/ Buf(hop', d, 2) = Buf(hop, d, 2) /\ Head(Buf(hop, d, 1)) \in void[d]
    PROVE  Sorted(d)' /\ NoneLost(d)'
<1> SUFFICES ASSUME kind = "udp" PROVE Sorted(d)' /\ NoneLost(d)'
  BY DEF Sorted, NoneLost
<1> DEFINE b == Buf(hop, d, 1)
           c == Buf(hop, d, 2)
           x == Head(b)
<1>1. b \in Seq(Nat) /\ c \in Seq(Nat) /\ sent[d] \in Nat
  BY CountsTyped
<1>2. /\ x \in Nat /\ Elems(b) = {x} \cup Elems(Tail(b))
      /\ Rising(b) => Rising(Tail(b)) /\ \A y \in Elems(Tail(b)) : x < y
  BY <1>1, ElemsTail
<1>3. /\ Elems(Append(c, x)) = Elems(c) \cup {x}
      /\ Rising(c) /\ (\A y \in Elems(c) : y < x) => Rising(Append(c, x))
  <2> HIDE DEF c, x
  <2> QED BY <1>1, <1>2, ElemsAppend
<1>4. /\ Out3(d)' = Out3(d) /\ Out1(d) = {x} \cup Out1(d)'
      /\ \/ Out2(d)' = Out2(d) \cup {x}
         \/ Out2(d)' = Out2(d) /\ x \in void[d]
  <2>1. Out3(d)' = Out3(d)
    BY DEF Out3
  <2>2. Out1(d) = {x} \cup Out1(d)'
    BY <1>2 DEF Out1
  <2>3. \/ Out2(d)' = Out2(d) \cup {x}
        \/ Out2(d)' = Out2(d) /\ x \in void[d]
    BY <1>3 DEF Out2
  <2> QED BY <2>1, <2>2, <2>3
<1>5. ASSUME Flows(d, 2)
      PROVE  /\ Rising(Tail(b)) /\ Rising(Buf(hop', d, 2))
             /\ Below(Out3(d), Out2(d)') /\ Out2(d)' \subseteq 0..sent[d]
             /\ 0 \in Out2(d)' <=> 0 \in Out2(d)
             /\ Below(Out3(d), Out1(d)') /\ Below(Out2(d)', Out1(d)')
             /\ Out1(d)' \subseteq 1..sent[d]
  <2>1. /\ Rising(b) /\ Rising(c) /\ Below(Out3(d), Out1(d)) /\ Below(Out2(d), Out1(d))
        /\ Out1(d) \subseteq 1..sent[d] /\ Below(Out3(d), Out2(d))
        /\ Out2(d) \subseteq 0..sent[d]
    BY <1>5 DEF Sorted
  <2>2. \A y \in Out1(d)' : x < y
    BY <1>2, <2>1 DEF Out1
  <2>3. Rising(Buf(hop', d, 2))
    <3>1. \A y \in Elems(c) : y < x
      BY <1>4, <2>1 DEF Below, Out2
    <3> QED BY <1>3, <2>1, <3>1
  <2> HIDE DEF x, b, c
  <2>4. x \in 1..sent[d] /\ x # 0 /\ 1..sent[d] \subseteq 0..sent[d]
    <3>1. x \in 1..sent[d]
      BY <1>4, <2>1
    <3> QED BY <1>1, <3>1
  <2> QED BY <1>2, <1>4, <2>1, <2>2, <2>3, <2>4 DEF Below
<1>6. Sorted(d)'
  <2> HIDE DEF x, c
  <2> QED BY <1>4, <1>5 DEF Sorted
<1>7. ASSUME NEW n \in 1..sent[d], n \notin void[d] PROVE Found(d, n)'
  <2>1. Found(d, n)
    BY <1>7 DEF NoneLost
  <2>2. CASE ~Flows(d, 2)
    BY <1>4, <2>1, <2>2 DEF Found
  <2>3. CASE Flows(d, 2) /\ n = x
    <3>1. n \in Out2(d)' /\ n \in Out1(d)
      BY <1>4, <1>7, <2>3
    <3>2. \A y \in Out3(d) : y < n
      BY <2>3, <3>1 DEF Sorted, Below
    <3> QED BY <1>4, <3>1, <3>2 DEF Found
  <2>4. CASE Flows(d, 2) /\ n # x
    <3>1. n \in Out1(d) => n \in Out1(d)' /\ x < n
      <4>1. Rising(b)
        BY <2>4 DEF Sorted
      <4> QED BY <1>2, <1>4, <2>4, <4>1 DEF Out1
    <3> HIDE DEF x
    <3> QED BY <1>4, <2>1, <2>4, <3>1 DEF Found
  <2> QED BY <2>2, <2>3, <2>4
<1>8. NoneLost(d)'
  BY <1>7 DEF NoneLost
<1> QED BY <1>6, <1>8

(* The second copy takes a datagram and passes it on, or it is an empty    *)
(* one or dropped by the socket.                                           *)
LEMMA UdpTaken2 ==
    ASSUME DataTyped, NEW d \in Dirs, kind' = kind, Sorted(d), NoneLost(d),
           Flows(d, 2), Header(d) = 0, Buf(hop, d, 2) # <<>>,
           Buf(hop', d, 2) = Tail(Buf(hop, d, 2)), Buf(hop', d, 1) = Buf(hop, d, 1),
           got'[d] = got[d], sent'[d] = sent[d], void[d] \subseteq void'[d],
           Flows(d, 1)' <=> Flows(d, 1), Flows(d, 2)' <=> Flows(d, 2),
           Header(d)' = Header(d),
           \/ Buf(hop', d, 3) = Append(Buf(hop, d, 3), Head(Buf(hop, d, 2)))
           \/ Buf(hop', d, 3) = Buf(hop, d, 3) /\ Head(Buf(hop, d, 2)) \in void'[d]
    PROVE  Sorted(d)' /\ NoneLost(d)'
<1> SUFFICES ASSUME kind = "udp" PROVE Sorted(d)' /\ NoneLost(d)'
  BY DEF Sorted, NoneLost
<1> DEFINE b == Buf(hop, d, 2)
           c == Buf(hop, d, 3)
           x == Head(b)
<1>1. b \in Seq(Nat) /\ c \in Seq(Nat) /\ sent[d] \in Nat
  BY CountsTyped
<1>2. /\ Rising(got[d]) /\ Rising(c) /\ Rising(b) /\ Below(Elems(got[d]), Elems(c))
      /\ Out3(d) \subseteq 1..sent[d] /\ Below(Out3(d), Out2(d))
      /\ Out2(d) \subseteq 0..sent[d] /\ 0 \notin Out2(d)
  BY DEF Sorted
<1>3. /\ x \in Nat /\ Elems(b) = {x} \cup Elems(Tail(b))
      /\ Rising(Tail(b)) /\ \A y \in Elems(Tail(b)) : x < y
  BY <1>1, <1>2, ElemsTail
<1>4. /\ Elems(Append(c, x)) = Elems(c) \cup {x}
      /\ Rising(c) /\ (\A y \in Elems(c) : y < x) => Rising(Append(c, x))
  <2> HIDE DEF c, x
  <2> QED BY <1>1, <1>3, ElemsAppend
<1>5. /\ Out1(d)' = Out1(d) /\ Out2(d) = {x} \cup Out2(d)' /\ Buf(hop', d, 2) = Tail(b)
      /\ \A y \in Out2(d)' : x < y
  BY <1>3 DEF Out2, Out1
<1>6. \/ Buf(hop', d, 3) = Append(c, x) /\ Out3(d)' = Out3(d) \cup {x}
      \/ Buf(hop', d, 3) = c /\ Out3(d)' = Out3(d) /\ x \in void'[d]
  BY <1>4 DEF Out3
<1>7. /\ \A y \in Out3(d) : y < x
      /\ Elems(got[d]) \subseteq Out3(d) /\ Elems(c) \subseteq Out3(d)
      /\ x \in 1..sent[d]
  <2>1. x \in 0..sent[d] /\ x # 0
    BY <1>2, <1>5
  <2>2. x \in 1..sent[d]
    BY <1>1, <2>1
  <2> QED BY <1>2, <1>5, <2>2 DEF Below, Out3
<1>8. Rising(Buf(hop', d, 3)) /\ Below(Elems(got[d]), Elems(Buf(hop', d, 3)))
  <2>1. CASE Buf(hop', d, 3) = c
    BY <1>2, <2>1
  <2>2. CASE Buf(hop', d, 3) = Append(c, x)
    <3>1. Rising(Append(c, x)) /\ Elems(Append(c, x)) = Elems(c) \cup {x}
      BY <1>2, <1>4, <1>7
    <3> HIDE DEF c, x
    <3> QED BY <1>2, <1>7, <2>2, <3>1 DEF Below
  <2> QED BY <1>6, <2>1, <2>2
<1> HIDE DEF b, c, x
<1>9. /\ Out3(d)' \subseteq 1..sent[d] /\ Below(Out3(d)', Out2(d)')
      /\ Out2(d)' \subseteq 0..sent[d] /\ 0 \notin Out2(d)'
  BY <1>2, <1>5, <1>6, <1>7 DEF Below
<1>10. Flows(d, 1) => Below(Out3(d)', Out1(d)) /\ Below(Out2(d)', Out1(d))
  BY <1>5, <1>6 DEF Sorted, Below
<1>11. Sorted(d)'
  <2>1. Rising(got'[d]) /\ Rising(Buf(hop', d, 3)) /\ Rising(Buf(hop', d, 2))
    BY <1>2, <1>3, <1>5, <1>8
  <2>2. Below(Elems(got'[d]), Elems(Buf(hop', d, 3)))
    BY <1>8
  <2>3. Flows(d, 1) => Rising(Buf(hop', d, 1)) /\ Out1(d) \subseteq 1..sent[d]
    BY DEF Sorted
  <2>4. Header(d)' # 1
    OBVIOUS
  <2> QED BY <1>5, <1>9, <1>10, <2>1, <2>2, <2>3, <2>4 DEF Sorted
<1>12. ASSUME NEW n \in 1..sent[d], n \notin void'[d] PROVE Found(d, n)'
  <2>1. Found(d, n)
    BY <1>12 DEF NoneLost
  <2>2. CASE n = x
    BY <1>6, <1>12, <2>2 DEF Found
  <2>3. CASE n # x
    <3>1. n \in Out3(d) => n \in Out3(d)'
      BY <1>6
    <3>2. n \in Out2(d) => n \in Out2(d)' /\ x < n
      BY <1>5, <2>3
    <3>3. n \notin Out3(d) /\ n \notin Out2(d) => x < n
      BY <1>5, <2>1 DEF Found
    <3> QED BY <1>5, <1>6, <2>1, <3>1, <3>2, <3>3 DEF Found
  <2> QED BY <2>2, <2>3
<1>13. NoneLost(d)'
  BY <1>12 DEF NoneLost
<1> QED BY <1>11, <1>13

(* The header is read. *)
LEMMA UdpHeaderRead ==
    ASSUME DataTyped, NEW d \in Dirs, kind' = kind, Sorted(d), NoneLost(d),
           Buf(hop, d, 2) # <<>>, Buf(hop', d, 2) = Tail(Buf(hop, d, 2)),
           Buf(hop', d, 3) = Buf(hop, d, 3), Buf(hop', d, 1) = Buf(hop, d, 1),
           got'[d] = got[d], sent'[d] = sent[d], void'[d] = void[d],
           Flows(d, 1)' => Flows(d, 1), Flows(d, 2)' => Flows(d, 2),
           Header(d) = 1, Header(d)' = 0
    PROVE  Sorted(d)' /\ NoneLost(d)'
<1> SUFFICES ASSUME kind = "udp" PROVE Sorted(d)' /\ NoneLost(d)'
  BY DEF Sorted, NoneLost
<1> DEFINE b == Buf(hop, d, 2)
           x == Head(b)
<1>1. b \in Seq(Nat) /\ sent[d] \in Nat
  BY CountsTyped
<1>2. /\ x \in Nat /\ Elems(b) = {x} \cup Elems(Tail(b)) /\ Elems(b) \subseteq Nat
      /\ Rising(b) => Rising(Tail(b)) /\ \A y \in Elems(Tail(b)) : x < y
  BY <1>1, ElemsTail, ElemsTyped
<1>3. /\ Out3(d)' = Out3(d) /\ Out1(d)' = Out1(d) /\ Out2(d)' = Elems(Tail(b))
      /\ Out2(d) = Elems(b) /\ Buf(hop', d, 2) = Tail(b)
  BY DEF Out3, Out2, Out1
<1>4. ASSUME Flows(d, 2)
      PROVE  /\ Rising(Tail(b)) /\ x = 0 /\ 0 \notin Out2(d)'
             /\ Out2(d) = {0} \cup Out2(d)'
  <2>1. Rising(b) /\ 0 \in Out2(d)
    BY <1>4 DEF Sorted
  <2>2. Rising(Tail(b)) /\ \A y \in Out2(d)' : x < y
    BY <1>2, <1>3, <2>1
  <2> HIDE DEF b, x
  <2>3. x = 0
    <3>1. ASSUME 0 \in Out2(d)' PROVE FALSE
      BY <1>2, <2>2, <3>1
    <3> QED BY <1>2, <1>3, <2>1, <3>1
  <2>4. 0 \notin Out2(d)'
    BY <2>2, <2>3
  <2> QED BY <1>2, <1>3, <2>2, <2>3, <2>4
<1> HIDE DEF b, x
<1>5. Sorted(d)'
  <2>1. Flows(d, 2)' =>
          /\ Rising(Buf(hop', d, 2)) /\ Below(Out3(d), Out2(d)')
          /\ Out2(d)' \subseteq 0..sent[d] /\ 0 \notin Out2(d)'
    BY <1>3, <1>4 DEF Sorted, Below
  <2>2. Flows(d, 2)' /\ Flows(d, 1)' =>
          /\ Rising(Buf(hop', d, 1)) /\ Below(Out3(d), Out1(d))
          /\ Below(Out2(d)', Out1(d)) /\ Out1(d) \subseteq 1..sent[d]
    BY <1>4 DEF Sorted, Below
  <2> QED BY <1>3, <2>1, <2>2 DEF Sorted
<1>6. NoneLost(d)'
  <2>1. \A n \in 1..sent[d] : n # 0
    BY <1>1
  <2> QED BY <1>3, <1>4, <2>1 DEF NoneLost, Found
<1> QED BY <1>5, <1>6

(* The header is written. *)
LEMMA UdpHeaderWritten ==
    ASSUME DataTyped, NEW d \in Dirs, kind' = kind, Sorted(d), NoneLost(d),
           Flows(d, 2)' => got[d] = <<>> /\ Buf(hop, d, 3) = <<>> /\ Header(d)' = 1,
           Buf(hop, d, 2) = <<>>,
           Elems(Buf(hop', d, 2)) = {0}, Rising(Buf(hop', d, 2)),
           Buf(hop', d, 3) = Buf(hop, d, 3), Buf(hop', d, 1) = Buf(hop, d, 1),
           got'[d] = got[d], sent'[d] = sent[d], void'[d] = void[d],
           Flows(d, 1)' => Flows(d, 1), Flows(d, 2)' => Flows(d, 2)
    PROVE  Sorted(d)' /\ NoneLost(d)'
<1> SUFFICES ASSUME kind = "udp" PROVE Sorted(d)' /\ NoneLost(d)'
  BY DEF Sorted, NoneLost
<1>1. sent[d] \in Nat
  BY CountsTyped
<1>2. Elems(<<>>) = {}
  BY DEF Elems
<1>3. /\ Out3(d)' = Out3(d) /\ Out1(d)' = Out1(d) /\ Out2(d)' = {0} /\ Out2(d) = {}
      /\ Flows(d, 2)' => Out3(d) = {}
  BY <1>2 DEF Out3, Out2, Out1
<1>4. 0 \in 0..sent[d] /\ \A n \in 1..sent[d] : 0 < n
  BY <1>1
<1>5. Sorted(d)'
  BY <1>2, <1>3, <1>4 DEF Sorted, Below
<1>6. NoneLost(d)'
  BY <1>3, <1>4 DEF NoneLost, Found
<1> QED BY <1>5, <1>6

-----------------------------------------------------------------------------
(* What one more write leaves of the bound on all writes. *)
LEMMA BoundKept ==
    ASSUME DataTyped, NEW d \in Dirs, sent[d] < MaxData[d],
           sent' = [sent EXCEPT ![d] = @ + 1]
    PROVE  \A e \in Dirs : sent'[e] <= MaxData[e]
<1>1. MaxData[d] \in Nat /\ sent[d] \in Nat /\ sent \in [Dirs -> Nat]
  BY RelayAssumption DEF DataTyped, Dirs
<1> TAKE e \in Dirs
<1>2. CASE e = d
  <2>1. sent'[e] = sent[d] + 1
    BY <1>1, <1>2
  <2> QED BY <1>1, <1>2, <2>1
<1>3. CASE e # d
  <2>1. sent'[e] = sent[e]
    BY <1>1, <1>3
  <2> QED BY <2>1 DEF DataTyped
<1> QED BY <1>2, <1>3

(* An application writes a piece, or an empty datagram. *)
LEMMA WritesStep ==
    ASSUME RInv, NEW d \in Dirs, AppWrites(d) \/ AppWritesEmpty(d)
    PROVE  RInv'
<1>1. RestTyped /\ DataTyped /\ Control /\ hop \in Hops
  BY TypesAre DEF RInv, DataTyped
<1> DEFINE v == Append(Buf(hop, d, 1), sent[d] + 1)
<1>2. hop' = SetBuf(hop, d, 1, v)
  BY DEF AppWrites, AppWritesEmpty, SetBuf, Buf
<1>3. /\ sent[d] < MaxData[d] /\ Len(Buf(hop, d, 1)) < Room
      /\ sent' = [sent EXCEPT ![d] = @ + 1]
      /\ UNCHANGED <<kind, transport, copy, phase, syn, expired, tunnelUp, got, faulty>>
  BY DEF AppWrites, AppWritesEmpty, MayWrite, Buf
<1>4. v \in Seq(Nat) /\ Len(v) = Len(Buf(hop, d, 1)) + 1
  BY <1>1, CountsTyped, LengthOf
<1>5. ASSUME NEW e \in Dirs, NEW j \in 1..3
      PROVE  /\ hop' \in Hops
             /\ e = d /\ j = 1 => Buf(hop', e, j) = v
             /\ ~(e = d /\ j = 1) => Buf(hop', e, j) = Buf(hop, e, j)
             /\ Dead(hop', e, j) <=> Dead(hop, e, j)
  <2> HIDE DEF v
  <2>1. hop' \in Hops
    BY <1>1, <1>2, <1>4, BufHops
  <2> QED BY <1>1, <1>2, <1>4, <2>1, BufSet
<1>6. sent'[d] = sent[d] + 1 /\ \A e \in Dirs : e # d => sent'[e] = sent[e]
  BY <1>1, <1>3 DEF DataTyped
<1>10. /\ void' \in [Dirs -> SUBSET Nat] /\ void[d] \subseteq void'[d]
       /\ \A e \in Dirs : e # d => void'[e] = void[e]
  <2>1. void' = void \/ void' = [void EXCEPT ![d] = @ \cup {sent[d] + 1}]
    BY DEF AppWrites, AppWritesEmpty, Voids
  <2>2. void \in [Dirs -> SUBSET Nat] /\ sent[d] + 1 \in Nat
    BY <1>1 DEF DataTyped
  <2> QED BY <2>1, <2>2
<1>7. DataTyped'
  <2>1. hop' \in Hops
    BY <1>5
  <2>2. ASSUME NEW e \in Dirs, NEW j \in 1..3 PROVE Len(Buf(hop', e, j)) <= Room
    <3>1. Len(Buf(hop, e, j)) <= Room
      BY <1>1 DEF DataTyped
    <3>2. Len(v) <= Room
      BY <1>1, <1>3, <1>4, CountsTyped, RelayAssumption
    <3> HIDE DEF v
    <3> QED BY <1>5, <3>1, <3>2
  <2>3. sent' \in [Dirs -> Nat] /\ got' = got
    BY <1>1, <1>3 DEF DataTyped
  <2>4. \A e \in Dirs : sent'[e] <= MaxData[e]
    BY <1>1, <1>3, BoundKept
  <2> QED BY <1>1, <1>10, <2>1, <2>2, <2>3, <2>4 DEF DataTyped
<1>8. RestTyped' /\ Control'
  BY <1>1, <1>3 DEF RestTyped, Control
<1>9. ASSUME NEW e \in Dirs PROVE Faithful(e)'
  <2>1. /\ Flows(e, 1)' <=> Flows(e, 1)
        /\ Flows(e, 2)' <=> Flows(e, 2)
        /\ Header(e)' = Header(e)
    BY <1>3, <1>5, FlowsSame
  <2>2. Faithful(e)
    BY DEF RInv
  <2>3. Buf(hop', e, 2) = Buf(hop, e, 2) /\ Buf(hop', e, 3) = Buf(hop, e, 3)
    BY <1>5
  <2>4. CASE e # d
    <3>1. Buf(hop', e, 1) = Buf(hop, e, 1) /\ sent'[e] = sent[e] /\ got'[e] = got[e]
      BY <1>3, <1>5, <1>6, <2>4
    <3> QED BY <1>3, <1>10, <2>1, <2>2, <2>3, <2>4, <3>1, OrderFrame
  <2>5. CASE e = d
    <3>1. Buf(hop', d, 1) = v /\ got'[d] = got[d]
      BY <1>3, <1>5
    <3>2. Past2(d)' = Past2(d) /\ Past1(d)' = Past1(d)
      BY <1>3, <2>1, <2>3, <2>5 DEF Past2, Past1
    <3>3. Unmoved(d)'
      BY <1>3, <2>2, <2>3, <2>5 DEF Unmoved, Faithful
    <3>4. kind = "tcp" /\ Flows(d, 2) /\ Flows(d, 1) =>
            Follows(v, Past1(d)) /\ Past1(d) + Len(v) = sent[d] + 1
      <4> HAVE kind = "tcp" /\ Flows(d, 2) /\ Flows(d, 1)
      <4>1. Follows(Buf(hop, d, 1), Past1(d)) /\ Past1(d) + Len(Buf(hop, d, 1)) = sent[d]
        BY <2>2, <2>5 DEF InOrder, Faithful
      <4>2. Past1(d) \in Int /\ Buf(hop, d, 1) \in Seq(Nat) /\ sent[d] \in Nat
              /\ Len(Buf(hop, d, 1)) \in Nat
        BY <1>1, CountsTyped
      <4>3. Follows(v, Past1(d))
        BY <4>1, <4>2, FollowsAppend
      <4> QED BY <1>4, <4>1, <4>2, <4>3
    <3>5. sent[d] \in Nat /\ Len(got[d]) \in Nat /\ Len(Buf(hop, d, 3)) \in Nat
            /\ Past1(d) \in Int
      BY <1>1, CountsTyped
    <3> HIDE DEF v
    <3>6. InOrder(d)'
      <4> SUFFICES ASSUME kind = "tcp" PROVE InOrder(d)'
        BY <1>3 DEF InOrder
      <4>1. sent'[d] = sent[d] + 1 /\ sent[d] <= sent[d] + 1
        BY <1>6, <3>5
      <4>2. /\ Follows(got'[d], 0) /\ Follows(Buf(hop', d, 3), Len(got'[d]))
            /\ Len(got'[d]) + Len(Buf(hop', d, 3)) <= sent[d]
        BY <2>2, <2>3, <2>5, <3>1 DEF InOrder, Faithful
      <4>3. Flows(d, 2)' => Follows(Buf(hop', d, 2), Past2(d)') /\ Past1(d)' <= sent[d]
        BY <2>1, <2>2, <2>3, <2>5, <3>2 DEF InOrder, Faithful
      <4>4. Flows(d, 2)' /\ Flows(d, 1)' =>
              /\ Follows(Buf(hop', d, 1), Past1(d)')
              /\ Past1(d)' + Len(Buf(hop', d, 1)) = sent'[d]
        BY <2>1, <2>5, <3>1, <3>2, <3>4, <4>1
      <4>5. Len(got'[d]) + Len(Buf(hop', d, 3)) \in Int /\ Past1(d)' \in Int
        BY <2>3, <2>5, <3>1, <3>2, <3>5
      <4>6. ASSUME NEW m \in Int, m <= sent[d] PROVE m <= sent'[d]
        BY <3>5, <4>1, <4>6
      <4>7. Len(got'[d]) + Len(Buf(hop', d, 3)) <= sent'[d]
        BY <4>2, <4>5, <4>6
      <4>8. Flows(d, 2)' => Past1(d)' <= sent'[d]
        BY <4>3, <4>5, <4>6
      <4> QED BY <4>2, <4>3, <4>4, <4>7, <4>8 DEF InOrder
    <3>7. Buf(hop', d, 1) = Append(Buf(hop, d, 1), sent[d] + 1)
      BY <3>1 DEF v
    <3>8. Sorted(d)' /\ NoneLost(d)'
      BY <1>1, <1>3, <1>6, <1>10, <2>1, <2>2, <2>3, <2>5, <3>1, <3>7, UdpWritten DEF Faithful
    <3> QED BY <2>5, <3>3, <3>6, <3>8 DEF Faithful
  <2> QED BY <2>4, <2>5
<1> QED BY <1>7, <1>8, <1>9, TypesArePrimed DEF RInv

(* An application reads a piece. *)
LEMMA ReadsStep ==
    ASSUME RInv, NEW d \in Dirs, AppReads(d)
    PROVE  RInv'
<1>1. RestTyped /\ DataTyped /\ Control /\ hop \in Hops
  BY TypesAre DEF RInv, DataTyped
<1> DEFINE b == Buf(hop, d, 3)
           v == Tail(b)
<1>2. hop' = SetBuf(hop, d, 3, v)
  BY DEF AppReads, SetBuf, Buf
<1>3. /\ b # <<>> /\ got' = [got EXCEPT ![d] = Append(@, Head(b))]
      /\ UNCHANGED <<kind, transport, copy, phase, syn, expired, tunnelUp, sent,
                     void, faulty>>
  BY DEF AppReads, Buf
<1>4. /\ b \in Seq(Nat) /\ v \in Seq(Nat) /\ Len(v) = Len(b) - 1 /\ Len(b) \in Nat
      /\ got[d] \in Seq(Nat) /\ Len(got[d]) \in Nat /\ Head(b) \in Nat
      /\ Append(got[d], Head(b)) \in Seq(Nat)
      /\ Len(Append(got[d], Head(b))) = Len(got[d]) + 1
  BY <1>1, <1>3, CountsTyped, LengthOf
<1>5. ASSUME NEW e \in Dirs, NEW j \in 1..3
      PROVE  /\ hop' \in Hops
             /\ e = d /\ j = 3 => Buf(hop', e, j) = v
             /\ ~(e = d /\ j = 3) => Buf(hop', e, j) = Buf(hop, e, j)
             /\ Dead(hop', e, j) <=> Dead(hop, e, j)
  <2> HIDE DEF v
  <2>1. hop' \in Hops
    BY <1>1, <1>2, <1>4, BufHops
  <2> QED BY <1>1, <1>2, <1>4, <2>1, BufSet
<1>6. got'[d] = Append(got[d], Head(b)) /\ \A e \in Dirs : e # d => got'[e] = got[e]
  BY <1>1, <1>3 DEF DataTyped
<1>7. DataTyped'
  <2>1. hop' \in Hops
    BY <1>5
  <2>2. ASSUME NEW e \in Dirs, NEW j \in 1..3 PROVE Len(Buf(hop', e, j)) <= Room
    <3>1. Len(Buf(hop, e, j)) <= Room
      BY <1>1 DEF DataTyped
    <3>2. Len(v) <= Room
      <4>1. Len(b) <= Room BY <1>1 DEF DataTyped
      <4> QED BY <1>4, <4>1, RelayAssumption
    <3> HIDE DEF v, b
    <3> QED BY <1>5, <3>1, <3>2
  <2>3. got' \in [Dirs -> Seq(Nat)] /\ sent' = sent /\ void' = void
    BY <1>1, <1>3, <1>4 DEF DataTyped
  <2> QED BY <1>1, <2>1, <2>2, <2>3 DEF DataTyped
<1>8. RestTyped' /\ Control'
  BY <1>1, <1>3 DEF RestTyped, Control
<1>9. ASSUME NEW e \in Dirs PROVE Faithful(e)'
  <2>1. /\ Flows(e, 1)' <=> Flows(e, 1)
        /\ Flows(e, 2)' <=> Flows(e, 2)
        /\ Header(e)' = Header(e)
    BY <1>3, <1>5, FlowsSame
  <2>2. Faithful(e)
    BY DEF RInv
  <2>3. Buf(hop', e, 2) = Buf(hop, e, 2) /\ Buf(hop', e, 1) = Buf(hop, e, 1)
    BY <1>5
  <2>4. CASE e # d
    <3>1. Buf(hop', e, 3) = Buf(hop, e, 3) /\ sent'[e] = sent[e] /\ got'[e] = got[e]
      BY <1>3, <1>5, <1>6, <2>4
    <3> QED BY <1>3, <2>1, <2>2, <2>3, <3>1, OrderFrame
  <2>5. CASE e = d
    <3>1. Buf(hop', d, 3) = v /\ sent'[d] = sent[d]
      BY <1>3, <1>5
    <3>2. kind = "tcp" => /\ Follows(got[d], 0) /\ Follows(b, Len(got[d]))
                          /\ Len(got[d]) + Len(b) <= sent[d]
      BY <2>2, <2>5 DEF InOrder, Faithful
    <3>3. kind = "tcp" => Head(b) = Len(got[d]) + 1 /\ Follows(v, Len(got[d]) + 1)
      BY <1>3, <1>4, <3>2, FollowsTail
    <3>4. kind = "tcp" => Follows(Append(got[d], Head(b)), 0)
      <4> HAVE kind = "tcp"
      <4>1. Follows(got[d], 0) /\ Head(b) = 0 + Len(got[d]) + 1
        BY <1>4, <3>2, <3>3
      <4> HIDE DEF b
      <4> QED BY <1>4, <4>1, FollowsAppend
    <3>5. Past2(d) \in Int /\ Header(d) \in Int /\ Len(Buf(hop, d, 2)) \in Nat
            /\ sent[d] \in Nat
      BY <1>1, CountsTyped
    <3>6. Unmoved(d)'
      BY <1>3, <2>2, <2>3, <2>5 DEF Unmoved, Faithful
    <3>7. Len(got'[d]) = Len(got[d]) + 1 /\ Len(Buf(hop', d, 3)) = Len(b) - 1
      BY <1>4, <1>6, <3>1
    <3> HIDE DEF v
    <3>8. Past2(d)' = Past2(d)
      <4>1. Past2(d)' = (Len(got[d]) + 1) + (Len(b) - 1) - Header(d)
        BY <2>1, <2>5, <3>7 DEF Past2
      <4>2. Past2(d) = Len(got[d]) + Len(b) - Header(d)
        BY DEF Past2
      <4>3. Len(got[d]) \in Nat /\ Len(b) \in Nat
        BY <1>4
      <4>4. \A x, y \in Nat, n \in Int : (x + 1) + (y - 1) - n = x + y - n
        OBVIOUS
      <4> HIDE DEF b
      <4> QED BY <3>5, <4>1, <4>2, <4>3, <4>4, Zenon
    <3>9. Past1(d)' = Past1(d)
      BY <2>3, <2>5, <3>8 DEF Past1
    <3>10. kind = "tcp" => Follows(got'[d], 0) /\ Follows(Buf(hop', d, 3), Len(got'[d]))
      BY <1>6, <3>1, <3>3, <3>4, <3>7
    <3>11. kind = "tcp" => Len(got'[d]) + Len(Buf(hop', d, 3)) <= sent'[d]
      <4>1. Len(got'[d]) + Len(Buf(hop', d, 3)) = (Len(got[d]) + 1) + (Len(b) - 1)
        BY <3>7
      <4>2. Len(got[d]) \in Nat /\ Len(b) \in Nat
        BY <1>4
      <4>3. (Len(got[d]) + 1) + (Len(b) - 1) = Len(got[d]) + Len(b)
        BY <4>2
      <4> QED BY <3>1, <3>2, <4>1, <4>3
    <3>12. InOrder(d)'
      BY <1>3, <2>1, <2>2, <2>3, <2>5, <3>1, <3>8, <3>9, <3>10, <3>11 DEF InOrder, Faithful
    <3>13. Buf(hop', d, 3) = Tail(Buf(hop, d, 3)) /\ Buf(hop, d, 3) # <<>>
      BY <1>3, <3>1 DEF v
    <3>14. Sorted(d)' /\ NoneLost(d)'
      BY <1>1, <1>3, <1>6, <2>1, <2>2, <2>3, <2>5, <3>1, <3>13, UdpRead DEF Faithful
    <3> QED BY <2>5, <3>6, <3>12, <3>14 DEF Faithful
  <2> QED BY <2>4, <2>5
<1> QED BY <1>7, <1>8, <1>9, TypesArePrimed DEF RInv

-----------------------------------------------------------------------------
(* A copy that runs and can write is one that delivers. *)
LEMMA RunningFlows ==
    ASSUME RInv, NEW d \in Dirs, NEW h \in 1..2, StateOf(copy, d, h) = "run",
           ~Dead(hop, d, h + 1)
    PROVE  Flows(d, h) /\ (h = 2 => Header(d) = 0)
<1>1. phase[SideOf(d, h)] = "relay"
  BY DEF Control, RInv
<1>2. Flows(d, h)
  BY <1>1 DEF Flows
<1>3. h = 2 => Header(d) = 0
  BY <1>1, SideOfIs DEF Header
<1> QED BY <1>2, <1>3

(* A copy passes a piece on. *)
LEMMA MovesStep ==
    ASSUME RInv, NEW d \in Dirs, NEW h \in 1..2, CopyMoves(d, h)
    PROVE  RInv'
<1>1. RestTyped /\ DataTyped /\ Control /\ hop \in Hops
  BY TypesAre DEF RInv, DataTyped
<1>2. hop' = Moved(d, h)
  BY DEF CopyMoves
<1>3. /\ StateOf(copy, d, h) = "run" /\ Buf(hop, d, h) # <<>>
      /\ ~Dead(hop, d, h + 1) /\ Len(Buf(hop, d, h + 1)) < Room
      /\ UNCHANGED <<kind, transport, copy, phase, syn, expired, tunnelUp, sent,
                     void, got, faulty>>
  BY DEF CopyMoves, CanRead, SinkFails, StateOf, Buf, Dead
<1> DEFINE b == Buf(hop, d, h)
           c == Buf(hop, d, h + 1)
           t == Tail(b)
           a == Append(c, Head(b))
<1>4. h \in 1..3 /\ h + 1 \in 1..3
  OBVIOUS
<1>5. /\ b \in Seq(Nat) /\ c \in Seq(Nat) /\ t \in Seq(Nat) /\ Head(b) \in Nat
      /\ Len(b) \in Nat /\ Len(c) \in Nat
      /\ Len(t) = Len(b) - 1 /\ Len(a) = Len(c) + 1 /\ Len(b) >= 1
  <2>1. b \in Seq(Nat) /\ c \in Seq(Nat)
    BY <1>1, <1>4, HopParts
  <2> QED BY <1>3, <2>1, LengthOf
<1>6. ASSUME NEW e \in Dirs, NEW j \in 1..3
      PROVE  /\ hop' \in Hops
             /\ e = d /\ j = h => Buf(hop', e, j) = t
             /\ e = d /\ j = h + 1 => Buf(hop', e, j) = a
             /\ ~(e = d /\ j \in {h, h + 1}) => Buf(hop', e, j) = Buf(hop, e, j)
             /\ Dead(hop', e, j) <=> Dead(hop, e, j)
  <2>1. hop' \in Hops
    BY <1>1, <1>2, <1>3, MovedIs
  <2>2. e = d /\ j = h => Buf(hop', e, j) = t
    BY <1>1, <1>2, <1>3, MovedIs
  <2>3. e = d /\ j = h + 1 => Buf(hop', e, j) = a
    BY <1>1, <1>2, <1>3, MovedIs
  <2>4. ~(e = d /\ j \in {h, h + 1}) => Buf(hop', e, j) = Buf(hop, e, j)
    BY <1>1, <1>2, <1>3, MovedIs
  <2>5. Dead(hop', e, j) <=> Dead(hop, e, j)
    BY <1>1, <1>2, <1>3, MovedIs
  <2> QED BY <2>1, <2>2, <2>3, <2>4, <2>5
<1>7. DataTyped'
  <2>1. hop' \in Hops
    BY <1>6
  <2>2. ASSUME NEW e \in Dirs, NEW j \in 1..3 PROVE Len(Buf(hop', e, j)) <= Room
    <3>1. Len(Buf(hop, e, j)) <= Room /\ Len(b) <= Room
      BY <1>1, <1>4 DEF DataTyped
    <3>2. Len(t) <= Room /\ Len(a) <= Room
      BY <1>3, <1>5, <3>1, RelayAssumption
    <3> HIDE DEF a, b, c, t
    <3> QED BY <1>6, <3>1, <3>2
  <2> QED BY <1>1, <1>3, <2>1, <2>2 DEF DataTyped
<1>8. RestTyped' /\ Control'
  BY <1>1, <1>3 DEF RestTyped, Control
<1>9. Flows(d, h) /\ (h = 2 => Header(d) = 0)
  BY <1>3, RunningFlows
<1>10. ASSUME NEW e \in Dirs PROVE Faithful(e)'
  <2>1. /\ Flows(e, 1)' <=> Flows(e, 1)
        /\ Flows(e, 2)' <=> Flows(e, 2)
        /\ Header(e)' = Header(e)
    BY <1>3, <1>6, FlowsSame
  <2>2. /\ Faithful(e) /\ got'[e] = got[e] /\ sent'[e] = sent[e] /\ void'[e] = void[e]
        /\ kind' = kind
    BY <1>3 DEF RInv
  <2>3. CASE e # d
    <3>1. /\ Buf(hop', e, 1) = Buf(hop, e, 1) /\ Buf(hop', e, 2) = Buf(hop, e, 2)
          /\ Buf(hop', e, 3) = Buf(hop, e, 3)
      BY <1>6, <2>3
    <3> QED BY <1>3, <2>1, <2>2, <3>1, OrderFrame
  <2>4. /\ Past2(d) \in Int /\ Past1(d) \in Int /\ sent[d] \in Nat /\ Len(got[d]) \in Nat
        /\ Len(Buf(hop, d, 3)) \in Nat /\ Header(d) \in Int
        /\ Past1(d) = Past2(d) + Len(Buf(hop, d, 2))
        /\ Past2(d) = Len(got[d]) + Len(Buf(hop, d, 3)) - Header(d)
    BY <1>1, CountsTyped DEF Past1, Past2
  <2>5. CASE e = d /\ h = 1
    <3>1. Buf(hop', d, 1) = t /\ Buf(hop', d, 2) = a /\ Buf(hop', d, 3) = Buf(hop, d, 3)
      BY <1>6, <2>5
    <3>2. Unmoved(d)'
      BY <1>3, <2>2, <2>5, <3>1 DEF Unmoved, Faithful
    <3>3. Past2(d)' = Past2(d)
      BY <2>1, <2>2, <2>5, <3>1 DEF Past2
    <3>4. Past1(d)' = Past1(d) + 1
      <4>1. Past1(d)' = Past2(d) + Len(a)
        BY <3>1, <3>3 DEF Past1
      <4>2. Len(a) = Len(c) + 1 /\ Len(c) \in Nat /\ Past1(d) = Past2(d) + Len(c)
        BY <1>5, <2>4, <2>5
      <4>3. Past2(d) \in Int
        BY <2>4
      <4> HIDE DEF a, b, c
      <4> QED BY <4>1, <4>2, <4>3
    <3>5. ASSUME kind = "tcp", Flows(d, 2)
          PROVE  /\ Follows(a, Past2(d)) /\ Follows(t, Past1(d) + 1)
                 /\ Past1(d) + 1 <= sent[d] /\ Past1(d) + 1 + Len(t) = sent[d]
      <4>1. /\ Follows(c, Past2(d)) /\ Follows(b, Past1(d))
            /\ Past1(d) + Len(b) = sent[d]
        BY <1>9, <2>2, <2>5, <3>5 DEF InOrder, Faithful
      <4>2. Head(b) = Past1(d) + 1 /\ Follows(t, Past1(d) + 1)
        BY <1>3, <1>5, <2>4, <4>1, FollowsTail
      <4>3. Head(b) = Past2(d) + Len(c) + 1
        BY <2>4, <2>5, <4>2
      <4>4. Follows(a, Past2(d))
        BY <1>5, <2>4, <4>1, <4>3, FollowsAppend
      <4>5. Len(b) >= 1 /\ Len(b) \in Nat /\ Len(t) = Len(b) - 1
        BY <1>5
      <4>6. /\ Past1(d) + 1 <= Past1(d) + Len(b)
            /\ Past1(d) + 1 + (Len(b) - 1) = Past1(d) + Len(b)
        <5>1. Past1(d) \in Int BY <2>4
        <5> HIDE DEF b
        <5> QED BY <4>5, <5>1
      <4> QED BY <4>1, <4>2, <4>4, <4>5, <4>6
    <3>7. /\ Buf(hop, d, 1) # <<>> /\ Buf(hop', d, 1) = Tail(Buf(hop, d, 1))
          /\ Buf(hop', d, 2) = Append(Buf(hop, d, 2), Head(Buf(hop, d, 1)))
      BY <1>3, <2>5, <3>1
    <3>8. Sorted(d)' /\ NoneLost(d)'
      BY <1>1, <1>9, <2>1, <2>2, <2>5, <3>1, <3>7, UdpTaken1 DEF Faithful
    <3> HIDE DEF a, t
    <3>6. InOrder(d)'
      BY <2>1, <2>2, <2>5, <3>1, <3>3, <3>4, <3>5 DEF InOrder, Faithful
    <3> QED BY <2>5, <3>2, <3>6, <3>8 DEF Faithful
  <2>6. CASE e = d /\ h = 2
    <3>1. Buf(hop', d, 2) = t /\ Buf(hop', d, 3) = a /\ Buf(hop', d, 1) = Buf(hop, d, 1)
      BY <1>6, <2>6
    <3>2. kind = "tcp" => /\ Follows(c, Len(got[d])) /\ Follows(got[d], 0)
                          /\ Follows(b, Past2(d)) /\ Past1(d) <= sent[d]
      BY <1>9, <2>2, <2>6 DEF InOrder, Faithful
    <3>3. Past2(d) = Len(got[d]) + Len(c) /\ Past1(d) = Past2(d) + Len(b)
      BY <1>9, <2>4, <2>6
    <3>4. kind = "tcp" => Head(b) = Past2(d) + 1 /\ Follows(t, Past2(d) + 1)
      BY <1>3, <1>5, <2>4, <3>2, FollowsTail
    <3>5. kind = "tcp" => Follows(a, Len(got[d]))
      <4> HAVE kind = "tcp"
      <4>1. Head(b) = Len(got[d]) + Len(c) + 1
        BY <3>3, <3>4
      <4>2. Head(b) \in Nat /\ c \in Seq(Nat) /\ Len(got[d]) \in Int
        BY <1>5, <2>4
      <4> HIDE DEF b, c
      <4> QED BY <3>2, <4>1, <4>2, FollowsAppend
    <3>6. Unmoved(d)'
      <4>1. StateOf(copy, d, 1) # "none"
        BY <1>3, <2>2, <2>6 DEF Unmoved, Faithful
      <4> QED BY <1>3, <2>6, <4>1 DEF Unmoved
    <3>7. Len(b) >= 1 /\ Len(b) \in Nat /\ Len(t) = Len(b) - 1 /\ Len(a) = Len(c) + 1
            /\ Len(c) \in Nat
      BY <1>5
    <3>8. Past2(d)' = Past2(d) + 1
      <4>1. Past2(d)' = Len(got[d]) + Len(a) - 0
        BY <1>9, <2>1, <2>2, <2>6, <3>1 DEF Past2
      <4>2. PICK g \in Nat, n \in Nat : g = Len(got[d]) /\ n = Len(c)
        BY <2>4, <3>7
      <4>3. g + (n + 1) - 0 = (g + n) + 1
        OBVIOUS
      <4> QED BY <3>3, <3>7, <4>1, <4>2, <4>3
    <3>9. Past1(d)' = Past1(d)
      <4>1. Past1(d)' = (Past2(d) + 1) + Len(t)
        BY <3>1, <3>8 DEF Past1
      <4>2. Past2(d) \in Int /\ Len(b) \in Nat
        BY <2>4, <3>7
      <4>3. (Past2(d) + 1) + (Len(b) - 1) = Past2(d) + Len(b)
        BY <4>2
      <4> QED BY <3>3, <3>7, <4>1, <4>3
    <3>10. kind = "tcp" => Len(got[d]) + Len(a) <= sent[d]
      <4> HAVE kind = "tcp"
      <4>1. /\ Len(got[d]) \in Nat /\ Len(c) \in Nat /\ sent[d] \in Nat
            /\ Len(b) \in Nat /\ Len(b) >= 1
            /\ (Len(got[d]) + Len(c)) + Len(b) <= sent[d]
        BY <2>4, <3>2, <3>3, <3>7
      <4>2. PICK g \in Nat, n \in Nat, m \in Nat, w \in Nat :
              g = Len(got[d]) /\ n = Len(c) /\ m = Len(b) /\ w = sent[d]
        BY <4>1
      <4>3. m >= 1 /\ (g + n) + m <= w
        BY <4>1, <4>2
      <4>4. g + (n + 1) <= w
        BY ONLY <4>3, g \in Nat, n \in Nat, m \in Nat, w \in Nat
      <4> QED BY <3>7, <4>2, <4>4
    <3>12. /\ Buf(hop, d, 2) # <<>> /\ Buf(hop', d, 2) = Tail(Buf(hop, d, 2))
           /\ Buf(hop', d, 3) = Append(Buf(hop, d, 3), Head(Buf(hop, d, 2)))
      BY <1>3, <2>6, <3>1
    <3>13. Sorted(d)' /\ NoneLost(d)'
      BY <1>1, <1>9, <2>1, <2>2, <2>6, <3>1, <3>12, UdpTaken2 DEF Faithful
    <3> HIDE DEF a, t, b, c
    <3>11. InOrder(d)'
      BY <2>1, <2>2, <2>6, <3>1, <3>2, <3>4, <3>5, <3>8, <3>9, <3>10 DEF InOrder, Faithful
    <3> QED BY <2>6, <3>6, <3>11, <3>13 DEF Faithful
  <2> QED BY <2>3, <2>5, <2>6
<1> QED BY <1>7, <1>8, <1>10, TypesArePrimed DEF RInv

-----------------------------------------------------------------------------
(* A copy reads a piece and cannot pass it on. *)
LEMMA LosesStep ==
    ASSUME RInv, NEW d \in Dirs, NEW h \in 1..2, CopyLoses(d, h)
    PROVE  RInv'
<1>1. RestTyped /\ DataTyped /\ Control /\ hop \in Hops
  BY TypesAre DEF RInv, DataTyped
<1> DEFINE b == Buf(hop, d, h)
           t == Tail(b)
<1>2. hop' = SetBuf(hop, d, h, t)
  BY DEF CopyLoses, SetBuf, Buf
<1>3. /\ StateOf(copy, d, h) = "run" /\ b # <<>>
      /\ UNCHANGED <<kind, transport, phase, syn, expired, tunnelUp, sent, void,
                     got, faulty>>
  BY DEF CopyLoses, CanRead, StateOf, Buf
<1>4. copy' = SetCopy(copy, d, h, "close") \/ (Dead(hop, d, h + 1) /\ copy' = copy)
  BY DEF CopyLoses, SetCopy, Dead
<1>5. h \in 1..3
  OBVIOUS
<1>6. b \in Seq(Nat) /\ t \in Seq(Nat) /\ Len(t) = Len(b) - 1 /\ Len(b) \in Nat
  <2>1. b \in Seq(Nat)
    BY <1>1, <1>5, HopParts
  <2> QED BY <1>3, <2>1, LengthOf
<1>7. ASSUME NEW e \in Dirs, NEW j \in 1..3
      PROVE  /\ hop' \in Hops
             /\ e = d /\ j = h => Buf(hop', e, j) = t
             /\ ~(e = d /\ j = h) => Buf(hop', e, j) = Buf(hop, e, j)
             /\ Dead(hop', e, j) <=> Dead(hop, e, j)
  <2> HIDE DEF t
  <2>1. hop' \in Hops
    BY <1>1, <1>2, <1>5, <1>6, BufHops
  <2> QED BY <1>1, <1>2, <1>5, <1>6, <2>1, BufSet
<1>8. ASSUME NEW e \in Dirs, NEW g \in 1..2
      PROVE  /\ copy' \in Copies
             /\ ~(e = d /\ g = h) => StateOf(copy', e, g) = StateOf(copy, e, g)
             /\ e = d /\ g = h => \/ StateOf(copy', e, g) = "close"
                                  \/ StateOf(copy', e, g) = "run" /\ Dead(hop, d, h + 1)
  <2>1. copy \in Copies /\ "close" \in CopyStates
    BY <1>1 DEF RestTyped, CopyStates
  <2>2. CASE copy' = SetCopy(copy, d, h, "close")
    BY <2>1, <2>2, CopySet
  <2>3. CASE Dead(hop, d, h + 1) /\ copy' = copy
    BY <1>3, <2>1, <2>3
  <2> QED BY <1>4, <2>2, <2>3
<1>9. DataTyped'
  <2>1. hop' \in Hops
    BY <1>7
  <2>2. ASSUME NEW e \in Dirs, NEW j \in 1..3 PROVE Len(Buf(hop', e, j)) <= Room
    <3>1. Len(Buf(hop, e, j)) <= Room /\ Len(b) <= Room
      BY <1>1, <1>5 DEF DataTyped
    <3>2. Len(t) <= Room
      BY <1>6, <3>1, RelayAssumption
    <3> HIDE DEF b, t
    <3> QED BY <1>7, <3>1, <3>2
  <2> QED BY <1>1, <1>3, <2>1, <2>2 DEF DataTyped
<1>10. RestTyped'
  <2>1. copy' \in Copies
    BY <1>8
  <2> QED BY <1>1, <1>3, <2>1 DEF RestTyped
<1>11. Control'
  <2>1. ASSUME NEW e \in Dirs, NEW g \in 1..2
        PROVE  /\ StateOf(copy', e, g) \in {"run", "close"} =>
                    phase'[SideOf(e, g)] = "relay"
               /\ StateOf(copy', e, g) = "done" =>
                    phase'[SideOf(e, g)] \in {"relay", "done"}
    BY <1>1, <1>3, <1>8 DEF Control
  <2>2. /\ phase'["remote"] \notin {"open", "late"}
        /\ phase'["remote"] \in {"dial", "relay"} => StateOf(copy', "up", 1) # "none"
    BY <1>1, <1>3, <1>8 DEF Control, Dirs
  <2> QED BY <2>1, <2>2 DEF Control
<1>12. ASSUME NEW e \in Dirs PROVE Faithful(e)'
  <2>1. /\ Faithful(e) /\ got'[e] = got[e] /\ sent'[e] = sent[e] /\ void'[e] = void[e]
        /\ kind' = kind
    BY <1>3 DEF RInv
  <2>2. ASSUME NEW g \in 1..2
        PROVE  /\ StateOf(copy', e, g) = "none" => StateOf(copy, e, g) = "none"
               /\ Flows(e, g)' => Flows(e, g) /\ ~(e = d /\ g = h)
    <3>1. Dead(hop', e, g + 1) <=> Dead(hop, e, g + 1)
      BY <1>7
    <3> QED BY <1>3, <1>8, <3>1 DEF Flows
  <2>3. Header(e)' = Header(e)
    <3>1. (StateOf(copy', "up", 1) = "none") <=> (StateOf(copy, "up", 1) = "none")
      BY <1>3, <1>8 DEF Dirs
    <3> QED BY <1>3, <3>1 DEF Header
  <2>4. CASE e # d
    <3>1. /\ Buf(hop', e, 1) = Buf(hop, e, 1) /\ Buf(hop', e, 2) = Buf(hop, e, 2)
          /\ Buf(hop', e, 3) = Buf(hop, e, 3)
      BY <1>7, <2>4
    <3> QED BY <2>1, <2>2, <2>3, <3>1, OrderFrame
  <2>5. CASE e = d /\ h = 1
    <3>1. Buf(hop', d, 2) = Buf(hop, d, 2) /\ Buf(hop', d, 3) = Buf(hop, d, 3)
      BY <1>7, <2>5
    <3>2. Past2(d)' = Past2(d) /\ Past1(d)' = Past1(d)
      BY <2>1, <2>3, <2>5, <3>1 DEF Past1, Past2
    <3>3. Unmoved(d)'
      BY <2>1, <2>2, <2>5, <3>1 DEF Unmoved, Faithful
    <3>4. InOrder(d)'
      BY <2>1, <2>2, <2>5, <3>1, <3>2 DEF InOrder, Faithful
    <3>5. Out3(d)' = Out3(d) /\ Out2(d)' = Out2(d) /\ ~Flows(d, 1)'
      BY <2>1, <2>2, <2>5, <3>1 DEF Out3, Out2
    <3>6. Sorted(d)'
      BY <2>1, <2>2, <2>3, <2>5, <3>1, <3>5 DEF Sorted, Faithful
    <3>7. NoneLost(d)'
      BY <2>1, <2>2, <2>5, <3>5 DEF NoneLost, Found, Faithful
    <3> QED BY <2>5, <3>3, <3>4, <3>6, <3>7 DEF Faithful
  <2>6. CASE e = d /\ h = 2
    <3>1. Buf(hop', d, 3) = Buf(hop, d, 3)
      BY <1>7, <2>6
    <3>2. Unmoved(d)'
      <4>1. StateOf(copy, d, 1) # "none"
        BY <1>3, <2>1, <2>6 DEF Unmoved, Faithful
      <4>2. StateOf(copy', d, 1) # "none" /\ StateOf(copy', d, 2) # "none"
        BY <1>3, <1>8, <2>6, <4>1
      <4> QED BY <4>2 DEF Unmoved
    <3>3. InOrder(d)'
      BY <2>1, <2>2, <2>6, <3>1 DEF InOrder, Faithful
    <3>4. Out3(d)' = Out3(d) /\ ~Flows(d, 2)'
      BY <2>1, <2>2, <2>6, <3>1 DEF Out3
    <3>5. Sorted(d)'
      BY <2>1, <2>6, <3>1, <3>4 DEF Sorted, Faithful
    <3>6. NoneLost(d)'
      BY <2>1, <2>6, <3>4 DEF NoneLost, Found, Faithful
    <3> QED BY <2>6, <3>2, <3>3, <3>5, <3>6 DEF Faithful
  <2> QED BY <2>4, <2>5, <2>6
<1> QED BY <1>9, <1>10, <1>11, <1>12, TypesArePrimed DEF RInv

(* RelayUDPIdle discards an empty datagram, or a socket the one written.   *)
LEMMA SkipsStep ==
    ASSUME RInv, NEW d \in Dirs, NEW h \in 1..2, CopySkips(d, h) \/ CopyDrops(d, h)
    PROVE  RInv'
<1>1. RestTyped /\ DataTyped /\ Control /\ hop \in Hops
  BY TypesAre DEF RInv, DataTyped
<1> DEFINE b == Buf(hop, d, h)
           t == Tail(b)
<1>2. hop' = SetBuf(hop, d, h, t)
  BY DEF CopySkips, CopyDrops, SetBuf, Buf
<1>3. /\ kind = "udp" /\ StateOf(copy, d, h) = "run" /\ b # <<>>
      /\ UNCHANGED <<kind, transport, copy, phase, syn, expired, tunnelUp, sent,
                     got, faulty>>
  BY DEF CopySkips, CopyDrops, CanRead, StateOf, Buf
<1>4. h \in 1..3 /\ b \in Seq(Nat)
  BY <1>1, HopParts
<1>5. t \in Seq(Nat) /\ Len(t) = Len(b) - 1 /\ Len(b) \in Nat /\ Head(b) \in Nat
  BY <1>3, <1>4, LengthOf
<1>6. /\ void' \in [Dirs -> SUBSET Nat] /\ void[d] \subseteq void'[d]
      /\ Head(b) \in void'[d] /\ \A e \in Dirs : e # d => void'[e] = void[e]
      /\ h = 1 => void' = void
  <2>1. \/ void' = void /\ Head(b) \in void[d]
        \/ h = 2 /\ void' = [void EXCEPT ![d] = @ \cup {Head(b)}]
    BY DEF CopySkips, CopyDrops, HasData, Voids, Buf
  <2>2. void \in [Dirs -> SUBSET Nat]
    BY <1>1 DEF DataTyped
  <2> HIDE DEF b
  <2> QED BY <1>5, <2>1, <2>2
<1>7. ASSUME NEW e \in Dirs, NEW j \in 1..3
      PROVE  /\ hop' \in Hops
             /\ e = d /\ j = h => Buf(hop', e, j) = t
             /\ ~(e = d /\ j = h) => Buf(hop', e, j) = Buf(hop, e, j)
             /\ Dead(hop', e, j) <=> Dead(hop, e, j)
  <2> HIDE DEF t
  <2>1. hop' \in Hops
    BY <1>1, <1>2, <1>4, <1>5, BufHops
  <2> QED BY <1>1, <1>2, <1>4, <1>5, <2>1, BufSet
<1>8. DataTyped'
  <2>1. hop' \in Hops
    BY <1>4, <1>7
  <2>2. ASSUME NEW e \in Dirs, NEW j \in 1..3 PROVE Len(Buf(hop', e, j)) <= Room
    <3>1. Len(Buf(hop, e, j)) <= Room /\ Len(b) <= Room
      BY <1>1, <1>4 DEF DataTyped
    <3>2. Len(t) <= Room
      BY <1>5, <3>1, RelayAssumption
    <3> HIDE DEF b, t
    <3> QED BY <1>7, <3>1, <3>2
  <2> QED BY <1>1, <1>3, <1>6, <2>1, <2>2 DEF DataTyped
<1>9. RestTyped' /\ Control'
  BY <1>1, <1>3 DEF RestTyped, Control
<1>10. ASSUME NEW e \in Dirs PROVE Faithful(e)'
  <2>1. /\ Flows(e, 1)' <=> Flows(e, 1)
        /\ Flows(e, 2)' <=> Flows(e, 2)
        /\ Header(e)' = Header(e)
    BY <1>3, <1>7, FlowsSame
  <2>2. Faithful(e) /\ got'[e] = got[e] /\ sent'[e] = sent[e] /\ kind' = kind
    BY <1>3 DEF RInv
  <2>3. CASE e # d
    <3>1. /\ Buf(hop', e, 1) = Buf(hop, e, 1) /\ Buf(hop', e, 2) = Buf(hop, e, 2)
          /\ Buf(hop', e, 3) = Buf(hop, e, 3)
      BY <1>7, <2>3
    <3> QED BY <1>3, <1>6, <2>1, <2>2, <2>3, <3>1, OrderFrame
  <2>4. CASE e = d
    <3>1. InOrder(d)'
      BY <1>3 DEF InOrder
    <3>2. Unmoved(d)'
      <4>1. /\ h = 1 => Buf(hop', d, 2) = Buf(hop, d, 2)
            /\ Buf(hop', d, 3) = Buf(hop, d, 3)
        BY <1>7
      <4>2. StateOf(copy, d, 1) = "none" => h = 1
        BY <1>3, <2>2, <2>4 DEF Unmoved, Faithful
      <4> QED BY <1>3, <2>2, <2>4, <4>1, <4>2 DEF Unmoved, Faithful
    <3>3. CASE h = 1
      <4>1. /\ Buf(hop, d, 1) # <<>> /\ Buf(hop', d, 1) = Tail(Buf(hop, d, 1))
            /\ Buf(hop', d, 2) = Buf(hop, d, 2) /\ Buf(hop', d, 3) = Buf(hop, d, 3)
            /\ Head(Buf(hop, d, 1)) \in void[d]
        BY <1>3, <1>6, <1>7, <3>3
      <4>2. CASE Flows(d, 1)
        BY <1>1, <1>6, <2>1, <2>2, <2>4, <3>1, <3>2, <3>3, <4>1, <4>2, UdpTaken1 DEF Faithful
      <4>3. CASE ~Flows(d, 1)
        <5>1. Out3(d)' = Out3(d) /\ Out2(d)' = Out2(d)
          BY <2>2, <2>4, <4>1 DEF Out3, Out2
        <5>2. Sorted(d)'
          BY <1>6, <2>1, <2>2, <2>4, <3>3, <4>1, <4>3, <5>1 DEF Sorted, Faithful
        <5>3. NoneLost(d)'
          BY <1>6, <2>1, <2>2, <2>4, <3>3, <4>3, <5>1 DEF NoneLost, Found, Faithful
        <5> QED BY <2>4, <3>1, <3>2, <5>2, <5>3 DEF Faithful
      <4> QED BY <4>2, <4>3
    <3>4. CASE h = 2
      <4>1. /\ Buf(hop, d, 2) # <<>> /\ Buf(hop', d, 2) = Tail(Buf(hop, d, 2))
            /\ Buf(hop', d, 1) = Buf(hop, d, 1) /\ Buf(hop', d, 3) = Buf(hop, d, 3)
            /\ Head(Buf(hop, d, 2)) \in void'[d]
        BY <1>3, <1>6, <1>7, <3>4
      <4>2. CASE Flows(d, 2)
        <5>1. Header(d) = 0
          BY <1>3, <3>4, <4>2, RunningFlows DEF Flows
        <5> QED BY <1>1, <1>6, <2>1, <2>2, <2>4, <3>1, <3>2, <4>1, <4>2, <5>1,
                   UdpTaken2 DEF Faithful
      <4>3. CASE ~Flows(d, 2)
        <5>1. Out3(d)' = Out3(d)
          BY <2>2, <2>4, <4>1 DEF Out3
        <5>2. Sorted(d)'
          BY <2>1, <2>2, <2>4, <4>1, <4>3, <5>1 DEF Sorted, Faithful
        <5>3. NoneLost(d)'
          BY <1>6, <2>1, <2>2, <2>4, <4>3, <5>1 DEF NoneLost, Found, Faithful
        <5> QED BY <2>4, <3>1, <3>2, <5>2, <5>3 DEF Faithful
      <4> QED BY <4>2, <4>3
    <3> QED BY <3>3, <3>4
  <2> QED BY <2>3, <2>4
<1> QED BY <1>8, <1>9, <1>10, TypesArePrimed DEF RInv

(* A datagram is lost before it gets to the relay. *)
LEMMA DroppedStep ==
    ASSUME RInv, NEW d \in Dirs, AppWriteDropped(d)
    PROVE  RInv'
<1>1. RestTyped /\ DataTyped /\ Control
  BY TypesAre DEF RInv
<1>2. /\ kind = "udp" /\ sent[d] < MaxData[d] /\ sent' = [sent EXCEPT ![d] = @ + 1]
      /\ void' = [void EXCEPT ![d] = @ \cup {sent[d] + 1}]
      /\ UNCHANGED <<kind, transport, hop, copy, phase, syn, expired, tunnelUp,
                     got, faulty>>
  BY DEF AppWriteDropped, MayWrite, Voids
<1>3. /\ sent' \in [Dirs -> Nat] /\ void' \in [Dirs -> SUBSET Nat]
      /\ sent'[d] = sent[d] + 1 /\ void[d] \subseteq void'[d]
      /\ sent[d] + 1 \in void'[d]
      /\ \A e \in Dirs : e # d => sent'[e] = sent[e] /\ void'[e] = void[e]
  <2>1. sent \in [Dirs -> Nat] /\ void \in [Dirs -> SUBSET Nat] /\ sent[d] + 1 \in Nat
    BY <1>1 DEF DataTyped
  <2> QED BY <1>2, <2>1
<1>4. DataTyped'
  <2>1. \A e \in Dirs : sent'[e] <= MaxData[e]
    BY <1>1, <1>2, BoundKept
  <2> QED BY <1>1, <1>2, <1>3, <2>1 DEF DataTyped
<1>5. RestTyped' /\ Control'
  BY <1>1, <1>2 DEF RestTyped, Control
<1>6. ASSUME NEW e \in Dirs PROVE Faithful(e)'
  <2>1. /\ Flows(e, 1)' <=> Flows(e, 1)
        /\ Flows(e, 2)' <=> Flows(e, 2)
        /\ Header(e)' = Header(e)
    BY <1>2, FlowsSame
  <2>2. /\ Faithful(e) /\ got'[e] = got[e] /\ kind' = kind
        /\ Buf(hop', e, 1) = Buf(hop, e, 1) /\ Buf(hop', e, 2) = Buf(hop, e, 2)
        /\ Buf(hop', e, 3) = Buf(hop, e, 3)
    BY <1>2 DEF RInv
  <2>3. CASE e # d
    BY <1>2, <1>3, <2>1, <2>2, <2>3, OrderFrame
  <2>4. CASE e = d
    <3>1. InOrder(d)' /\ Unmoved(d)'
      BY <1>2, <2>2, <2>4 DEF InOrder, Unmoved, Faithful
    <3>2. Sorted(d)' /\ NoneLost(d)'
      BY <1>1, <1>3, <2>1, <2>2, <2>4, UdpWritten DEF Faithful
    <3> QED BY <2>4, <3>1, <3>2 DEF Faithful
  <2> QED BY <2>3, <2>4
<1> QED BY <1>4, <1>5, <1>6, TypesArePrimed DEF RInv

(* Remote reads the header. *)
LEMMA ReadHeadStep ==
    ASSUME RInv, ReadHead
    PROVE  RInv'
<1>1. RestTyped /\ DataTyped /\ Control /\ hop \in Hops
  BY TypesAre DEF RInv, DataTyped
<1>2. "up" \in Dirs /\ "down" \in Dirs /\ "remote" \in Sides /\ "dial" \in Phases
  BY DEF Dirs, Sides, Phases
<1> DEFINE b == Buf(hop, "up", 2)
           t == Tail(b)
<1>3. hop' = SetBuf(hop, "up", 2, t)
  BY DEF ReadHead, SetBuf, Buf
<1>4. /\ phase["remote"] = "head" /\ b # <<>>
      /\ phase' = [phase EXCEPT !["remote"] = "dial"]
      /\ UNCHANGED <<kind, transport, copy, syn, expired, tunnelUp, sent, void,
                     got, faulty>>
  BY DEF ReadHead, Buf
<1>5. b \in Seq(Nat) /\ t \in Seq(Nat) /\ Len(t) = Len(b) - 1 /\ Len(b) \in Nat
  BY <1>1, <1>2, <1>4, CountsTyped, LengthOf
<1>6. ASSUME NEW e \in Dirs, NEW j \in 1..3
      PROVE  /\ hop' \in Hops
             /\ e = "up" /\ j = 2 => Buf(hop', e, j) = t
             /\ ~(e = "up" /\ j = 2) => Buf(hop', e, j) = Buf(hop, e, j)
             /\ Dead(hop', e, j) <=> Dead(hop, e, j)
  <2> HIDE DEF t
  <2>1. hop' \in Hops
    BY <1>1, <1>2, <1>3, <1>5, BufHops
  <2> QED BY <1>1, <1>2, <1>3, <1>5, <2>1, BufSet
<1>7. StateOf(copy, "up", 1) # "none"
  BY <1>2, <1>4 DEF RInv, Unmoved, Faithful
<1>8. Control' /\ phase' \in [Sides -> Phases]
  BY <1>2, <1>4, <1>7, PhaseControl DEF RInv
<1>9. RestTyped'
  BY <1>1, <1>4, <1>8 DEF RestTyped
<1>10. DataTyped'
  <2>1. hop' \in Hops
    BY <1>2, <1>6
  <2>2. ASSUME NEW e \in Dirs, NEW j \in 1..3 PROVE Len(Buf(hop', e, j)) <= Room
    <3>1. Len(Buf(hop, e, j)) <= Room
      BY <1>1 DEF DataTyped
    <3>2. 2 \in 1..3
      OBVIOUS
    <3>3. Len(b) <= Room
      BY <1>1, <1>2, <3>2 DEF DataTyped
    <3>4. Len(t) <= Room
      BY <1>5, <3>3, RelayAssumption
    <3> HIDE DEF b, t
    <3> QED BY <1>6, <3>1, <3>4
  <2> QED BY <1>1, <1>4, <2>1, <2>2 DEF DataTyped
<1>11. phase'["remote"] = "dial" /\ phase'["local"] = phase["local"]
  BY <1>1, <1>4 DEF RestTyped, Sides
<1>12. ASSUME NEW e \in Dirs, NEW g \in 1..2 PROVE Flows(e, g)' => Flows(e, g)
  <2>1. Dead(hop', e, g + 1) <=> Dead(hop, e, g + 1)
    BY <1>6
  <2>2. SideOf(e, g) \in {"local", "remote"}
    BY CopyRunBy DEF Sides
  <2> QED BY <1>4, <1>11, <2>1, <2>2 DEF Flows
<1>13. Faithful("down")'
  <2>1. Faithful("down") /\ got'["down"] = got["down"] /\ sent'["down"] = sent["down"]
          /\ void'["down"] = void["down"] /\ kind' = kind
    BY <1>2, <1>4 DEF RInv
  <2>2. /\ Buf(hop', "down", 1) = Buf(hop, "down", 1)
        /\ Buf(hop', "down", 2) = Buf(hop, "down", 2)
        /\ Buf(hop', "down", 3) = Buf(hop, "down", 3)
    BY <1>2, <1>6
  <2>3. Header("down")' = Header("down")
    BY DEF Header
  <2> QED BY <1>2, <1>4, <1>12, <2>1, <2>2, <2>3, OrderFrame
<1>14. Faithful("up")'
  <2>1. /\ Faithful("up") /\ got'["up"] = got["up"] /\ sent'["up"] = sent["up"]
        /\ void'["up"] = void["up"] /\ kind' = kind
    BY <1>2, <1>4 DEF RInv
  <2>2. /\ Buf(hop', "up", 2) = t /\ Buf(hop', "up", 1) = Buf(hop, "up", 1)
        /\ Buf(hop', "up", 3) = Buf(hop, "up", 3)
    BY <1>2, <1>6
  <2>3. Unmoved("up")'
    BY <1>4, <1>7, <2>1, <2>2 DEF Unmoved, Faithful
  <2>4. Header("up") = 1 /\ Header("up")' = 0
    BY <1>4, <1>7, <1>11 DEF Header
  <2>5. PICK n \in Int, m \in Nat :
          /\ n = Len(got["up"]) + Len(Buf(hop, "up", 3)) /\ m = Len(b)
          /\ n - 1 = Past2("up") /\ n = Past2("up")'
    <3>1. Past2("up") = Len(got["up"]) + Len(Buf(hop, "up", 3)) - 1
      BY <2>4 DEF Past2
    <3>2. Past2("up")' = Len(got["up"]) + Len(Buf(hop, "up", 3)) - 0
      BY <2>1, <2>2, <2>4 DEF Past2
    <3>3. Len(got["up"]) \in Nat /\ Len(Buf(hop, "up", 3)) \in Nat
      BY <1>1, <1>2, CountsTyped
    <3> QED BY <1>5, <3>1, <3>2, <3>3
  <2>6. Past1("up")' = Past1("up")
    <3>1. Past1("up")' = n + Len(t) /\ Past1("up") = (n - 1) + m
      BY <2>2, <2>5 DEF Past1
    <3>2. Len(t) = m - 1
      BY <1>5, <2>5
    <3>3. n + (m - 1) = (n - 1) + m
      OBVIOUS
    <3> QED BY <3>1, <3>2, <3>3
  <2>7. kind = "tcp" /\ Flows("up", 2) => Follows(t, n)
    <3> HAVE kind = "tcp" /\ Flows("up", 2)
    <3>1. Follows(b, n - 1)
      BY <2>1, <2>5 DEF InOrder, Faithful
    <3>2. Follows(t, (n - 1) + 1)
      BY <1>4, <1>5, <3>1, FollowsTail
    <3> QED BY <3>2
  <2>8. Sorted("up")' /\ NoneLost("up")'
    <3>1. Buf(hop, "up", 2) # <<>> /\ Buf(hop', "up", 2) = Tail(Buf(hop, "up", 2))
      BY <1>4, <2>2
    <3>2. /\ Flows("up", 1)' => Flows("up", 1)
          /\ Flows("up", 2)' => Flows("up", 2)
      BY <1>2, <1>12
    <3> QED BY <1>1, <1>2, <2>1, <2>2, <2>4, <3>1, <3>2, UdpHeaderRead DEF Faithful
  <2> HIDE DEF t, b
  <2>9. InOrder("up")'
    <3>1. InOrder("up") /\ kind' = kind
      BY <2>1 DEF Faithful
    <3>2. /\ Flows("up", 1)' => Flows("up", 1)
          /\ Flows("up", 2)' => Flows("up", 2)
      BY <1>2, <1>12
    <3> SUFFICES ASSUME kind = "tcp" PROVE InOrder("up")'
      BY <3>1 DEF InOrder
    <3>3. /\ Follows(got["up"], 0) /\ Follows(Buf(hop, "up", 3), Len(got["up"]))
          /\ Len(got["up"]) + Len(Buf(hop, "up", 3)) <= sent["up"]
          /\ Flows("up", 2) => Past1("up") <= sent["up"]
          /\ Flows("up", 2) /\ Flows("up", 1) =>
               /\ Follows(Buf(hop, "up", 1), Past1("up"))
               /\ Past1("up") + Len(Buf(hop, "up", 1)) = sent["up"]
      BY <3>1 DEF InOrder
    <3> QED BY <2>1, <2>2, <2>5, <2>6, <2>7, <3>2, <3>3 DEF InOrder
  <2> QED BY <2>3, <2>8, <2>9 DEF Faithful
<1>15. \A e \in Dirs : Faithful(e)'
  BY <1>13, <1>14 DEF Dirs
<1> QED BY <1>8, <1>9, <1>10, <1>15, TypesArePrimed DEF RInv

-----------------------------------------------------------------------------
(* Local writes the header and starts its relay. *)
LEMMA WriteHeadStep ==
    ASSUME RInv, WriteHead
    PROVE  RInv'
<1>1. RestTyped /\ DataTyped /\ Control /\ hop \in Hops /\ copy \in Copies
  BY TypesAre DEF RInv, DataTyped, RestTyped
<1>2. "up" \in Dirs /\ "down" \in Dirs /\ "local" \in Sides /\ "remote" \in Sides
  BY DEF Dirs, Sides
<1> DEFINE v == Append(Buf(hop, "up", 2), 0)
<1>3. hop' = SetBuf(hop, "up", 2, v)
  BY DEF WriteHead, SetBuf, Buf
<1>4. /\ phase["local"] = "head" /\ StartRelay("local") /\ syn' = TRUE
      /\ UNCHANGED <<kind, transport, expired, tunnelUp, sent, void, got, faulty>>
  BY DEF WriteHead
<1>5. /\ phase' \in [Sides -> Phases] /\ phase'["local"] = "relay"
      /\ phase'["remote"] = phase["remote"]
  <2>1. phase' = [phase EXCEPT !["local"] = "relay"] /\ phase \in [Sides -> Phases]
    BY <1>1, <1>4 DEF StartRelay, RestTyped
  <2> QED BY <2>1 DEF Sides, Phases
<1>6. ASSUME NEW e \in Dirs, NEW g \in 1..2
      PROVE  /\ copy' \in Copies
             /\ SideOf(e, g) = "local" => StateOf(copy', e, g) = "run"
             /\ SideOf(e, g) # "local" => StateOf(copy', e, g) = StateOf(copy, e, g)
  BY <1>1, <1>2, <1>4, StartIs
<1>7. ASSUME NEW e \in Dirs, NEW g \in 1..2 PROVE StateOf(copy, e, g) \in CopyStates
  BY <1>1 DEF Copies, StateOf
<1>8. \A e \in Dirs, g \in 1..2 : SideOf(e, g) = "local" => StateOf(copy, e, g) = "none"
  BY <1>1, <1>4, <1>7 DEF Control, CopyStates
<1>9. Buf(hop, "up", 2) = <<>>
  <2>1. StateOf(copy, "up", 1) = "none"
    BY <1>2, <1>8, SideOfIs
  <2> QED BY <1>2, <2>1 DEF RInv, Unmoved, Faithful
<1>10. v \in Seq(Nat) /\ Len(v) = 1 /\ Follows(v, 0 - 1) /\ Len(Buf(hop, "up", 2)) = 0
  <2>1. v = Append(<<>>, 0)
    BY <1>9
  <2>2. v = <<0>>
    BY <2>1
  <2> HIDE DEF v
  <2> QED BY <1>9, <2>2 DEF Follows
<1>11. ASSUME NEW e \in Dirs, NEW j \in 1..3
       PROVE  /\ hop' \in Hops
              /\ e = "up" /\ j = 2 => Buf(hop', e, j) = v
              /\ ~(e = "up" /\ j = 2) => Buf(hop', e, j) = Buf(hop, e, j)
              /\ Dead(hop', e, j) <=> Dead(hop, e, j)
  <2> HIDE DEF v
  <2>1. hop' \in Hops
    BY <1>1, <1>2, <1>3, <1>10, BufHops
  <2> QED BY <1>1, <1>2, <1>3, <1>10, <2>1, BufSet
<1> HIDE DEF v
<1>12. DataTyped'
  <2>1. hop' \in Hops
    BY <1>2, <1>11
  <2>2. ASSUME NEW e \in Dirs, NEW j \in 1..3 PROVE Len(Buf(hop', e, j)) <= Room
    <3>1. Len(Buf(hop, e, j)) <= Room
      BY <1>1 DEF DataTyped
    <3>2. Len(v) <= Room
      BY <1>10, RelayAssumption
    <3> QED BY <1>11, <3>1, <3>2
  <2> QED BY <1>1, <1>4, <2>1, <2>2 DEF DataTyped
<1>13. RestTyped'
  <2>1. copy' \in Copies
    BY <1>2, <1>6
  <2> QED BY <1>1, <1>4, <1>5, <2>1 DEF RestTyped
<1>14. Control'
  <2>1. ASSUME NEW e \in Dirs, NEW g \in 1..2
        PROVE  /\ StateOf(copy', e, g) \in {"run", "close"} =>
                    phase'[SideOf(e, g)] = "relay"
               /\ StateOf(copy', e, g) = "done" =>
                    phase'[SideOf(e, g)] \in {"relay", "done"}
    <3>1. SideOf(e, g) \in {"local", "remote"}
      BY CopyRunBy DEF Sides
    <3> QED BY <1>1, <1>5, <1>6, <3>1 DEF Control
  <2>2. StateOf(copy', "up", 1) # "none"
    BY <1>2, <1>6, SideOfIs
  <2>3. phase'["remote"] \notin {"open", "late"}
    BY <1>1, <1>5 DEF Control
  <2> QED BY <2>1, <2>2, <2>3 DEF Control
<1>15. ASSUME NEW e \in Dirs, NEW g \in 1..2
       PROVE  /\ Flows(e, g)' => Flows(e, g)
              /\ StateOf(copy', e, g) = "none" => StateOf(copy, e, g) = "none"
  <2>1. Dead(hop', e, g + 1) <=> Dead(hop, e, g + 1)
    BY <1>11
  <2>2. SideOf(e, g) \in {"local", "remote"}
    BY CopyRunBy DEF Sides
  <2> QED BY <1>4, <1>5, <1>6, <1>8, <2>1, <2>2 DEF Flows
<1>16. Faithful("down")'
  <2>1. Faithful("down") /\ got'["down"] = got["down"] /\ sent'["down"] = sent["down"]
          /\ void'["down"] = void["down"] /\ kind' = kind
    BY <1>2, <1>4 DEF RInv
  <2>2. /\ Buf(hop', "down", 1) = Buf(hop, "down", 1)
        /\ Buf(hop', "down", 2) = Buf(hop, "down", 2)
        /\ Buf(hop', "down", 3) = Buf(hop, "down", 3)
    BY <1>2, <1>11
  <2>3. Header("down")' = Header("down")
    BY DEF Header
  <2> QED BY <1>2, <1>15, <2>1, <2>2, <2>3, OrderFrame
<1>17. Faithful("up")'
  <2>1. /\ Faithful("up") /\ got'["up"] = got["up"] /\ sent'["up"] = sent["up"]
        /\ void'["up"] = void["up"] /\ kind' = kind
    BY <1>2, <1>4 DEF RInv
  <2>2. /\ Buf(hop', "up", 2) = v /\ Buf(hop', "up", 1) = Buf(hop, "up", 1)
        /\ Buf(hop', "up", 3) = Buf(hop, "up", 3)
    BY <1>2, <1>11
  <2>3. StateOf(copy', "up", 1) = "run" /\ StateOf(copy, "up", 1) = "none"
    BY <1>2, <1>6, <1>8, SideOfIs
  <2>4. Unmoved("up")'
    BY <1>2, <1>15, <2>1, <2>2, <2>3 DEF Unmoved, Faithful
  <2>5. ASSUME Flows("up", 2)'
        PROVE  /\ Past2("up")' = 0 - 1 /\ Past1("up")' = Past1("up")
               /\ got["up"] = <<>> /\ Buf(hop, "up", 3) = <<>> /\ Header("up")' = 1
    <3>1. phase["remote"] \in {"none", "head"}
      <4>1. phase["remote"] # "done"
        BY <1>5, <2>5, SideOfIs DEF Flows
      <4>2. phase["remote"] \in Phases
        BY <1>1, <1>2 DEF RestTyped
      <4> QED BY <1>1, <2>3, <4>1, <4>2 DEF Control, Phases
    <3>2. Header("up") = 0 /\ Header("up")' = 1
      BY <1>5, <2>3, <3>1 DEF Header
    <3>3. Buf(hop, "up", 3) = <<>> /\ got["up"] = <<>>
      <4>1. StateOf(copy, "up", 2) = "none"
        BY <1>1, <1>2, <1>7, <3>1, SideOfIs DEF Control, CopyStates
      <4> QED BY <2>1, <4>1 DEF Unmoved, Faithful
    <3>4. Len(Buf(hop, "up", 3)) = 0 /\ Len(got["up"]) = 0
      BY <3>3
    <3>5. Past2("up")' = 0 + 0 - 1 /\ Past2("up") = 0 + 0 - 0
      BY <2>1, <2>2, <3>2, <3>4 DEF Past2
    <3>6. Past1("up")' = (0 + 0 - 1) + 1 /\ Past1("up") = (0 + 0 - 0) + 0
      BY <1>10, <2>2, <3>5 DEF Past1
    <3> QED BY <3>2, <3>3, <3>5, <3>6
  <2>6. InOrder("up")'
    <3>1. InOrder("up") /\ kind' = kind
      BY <2>1 DEF Faithful
    <3>2. /\ Flows("up", 1)' => Flows("up", 1)
          /\ Flows("up", 2)' => Flows("up", 2)
      BY <1>2, <1>15
    <3> SUFFICES ASSUME kind = "tcp" PROVE InOrder("up")'
      BY <3>1 DEF InOrder
    <3>3. /\ Follows(got["up"], 0) /\ Follows(Buf(hop, "up", 3), Len(got["up"]))
          /\ Len(got["up"]) + Len(Buf(hop, "up", 3)) <= sent["up"]
          /\ Flows("up", 2) => Past1("up") <= sent["up"]
          /\ Flows("up", 2) /\ Flows("up", 1) =>
               /\ Follows(Buf(hop, "up", 1), Past1("up"))
               /\ Past1("up") + Len(Buf(hop, "up", 1)) = sent["up"]
      BY <3>1 DEF InOrder
    <3> QED BY <1>10, <2>1, <2>2, <2>5, <3>2, <3>3 DEF InOrder
  <2>7. Sorted("up")' /\ NoneLost("up")'
    <3>1. /\ Flows("up", 1)' => Flows("up", 1)
          /\ Flows("up", 2)' => Flows("up", 2)
      BY <1>2, <1>15
    <3>2. Elems(Buf(hop', "up", 2)) = {0} /\ Rising(Buf(hop', "up", 2))
      <4>1. Len(v) = 1 /\ v[1] = 0
        BY <1>10 DEF Follows
      <4> QED BY <2>2, <4>1 DEF Elems, Rising
    <3> QED BY <1>1, <1>2, <1>9, <2>1, <2>2, <2>5, <3>1, <3>2, UdpHeaderWritten DEF Faithful
  <2> QED BY <2>4, <2>6, <2>7 DEF Faithful
<1>18. \A e \in Dirs : Faithful(e)'
  BY <1>16, <1>17 DEF Dirs
<1> QED BY <1>12, <1>13, <1>14, <1>18, TypesArePrimed DEF RInv

-----------------------------------------------------------------------------
(* At the start every hop is empty and open. *)
LEMMA RelayStarts ==
    ASSUME RelayInit
    PROVE  /\ hop \in Hops /\ copy \in Copies
           /\ \A d \in Dirs, k \in 1..3 :
                Buf(hop, d, k) = <<>> /\ ~Fin(hop, d, k) /\ ~Dead(hop, d, k)
           /\ \A d \in Dirs, h \in 1..2 : StateOf(copy, d, h) = "none"
           /\ phase["local"] = "open" /\ phase["remote"] = "none"
           /\ \A d \in Dirs : sent[d] = 0 /\ got[d] = <<>>
<1> DEFINE r == [buf |-> <<>>, fin |-> FALSE, dead |-> FALSE]
<1>1. r \in Hop /\ r.buf = <<>> /\ r.fin = FALSE /\ r.dead = FALSE
  BY DEF Hop
<1>2. hop = [d \in Dirs |-> [h \in 1..3 |-> r]]
  BY DEF RelayInit
<1> HIDE DEF r
<1>3. hop \in Hops
  BY <1>1, <1>2 DEF Hops
<1>4. ASSUME NEW d \in Dirs, NEW k \in 1..3
      PROVE  Buf(hop, d, k) = <<>> /\ ~Fin(hop, d, k) /\ ~Dead(hop, d, k)
  <2>1. hop[d][k] = r
    BY <1>2
  <2> QED BY <1>1, <2>1 DEF Buf, Fin, Dead
<1>5. copy \in Copies /\ \A d \in Dirs, h \in 1..2 : StateOf(copy, d, h) = "none"
  BY DEF RelayInit, Copies, CopyStates, StateOf
<1>6. phase["local"] = "open" /\ phase["remote"] = "none"
  BY DEF RelayInit, Sides
<1>7. \A d \in Dirs : sent[d] = 0 /\ got[d] = <<>>
  BY DEF RelayInit
<1> QED BY <1>3, <1>4, <1>5, <1>6, <1>7

(* The invariant of the relay holds at the start, *)
LEMMA RInvInit ==
    ASSUME RelayInit
    PROVE  RInv
<1>1. RestTyped
  <2>1. phase \in [Sides -> Phases]
    BY DEF RelayInit, Sides, Phases
  <2>2. expired \in [Sides -> SUBSET {"conn", "stream"}]
    BY DEF RelayInit
  <2> QED BY <2>1, <2>2, RelayStarts DEF RelayInit, RestTyped
<1>2. DataTyped
  <2>1. \A d \in Dirs, h \in 1..3 : Len(Buf(hop, d, h)) <= Room
    <3>1. 0 <= Room
      BY RelayAssumption
    <3> SUFFICES ASSUME NEW d \in Dirs, NEW h \in 1..3
                 PROVE  Len(Buf(hop, d, h)) <= Room
      OBVIOUS
    <3>2. Buf(hop, d, h) = <<>>
      BY RelayStarts
    <3> QED BY <3>1, <3>2
  <2>2. /\ sent \in [Dirs -> Nat] /\ got \in [Dirs -> Seq(Nat)]
        /\ void \in [Dirs -> SUBSET Nat]
    BY DEF RelayInit
  <2>3. \A d \in Dirs : sent[d] <= MaxData[d]
    BY RelayAssumption DEF RelayInit, Dirs
  <2> QED BY <2>1, <2>2, <2>3, RelayStarts DEF DataTyped
<1>3. Control
  <2>1. /\ \A d \in Dirs, h \in 1..2 : StateOf(copy, d, h) = "none"
        /\ phase["remote"] = "none"
    BY RelayStarts
  <2> QED BY <2>1 DEF Control
<1>4. ASSUME NEW d \in Dirs PROVE Faithful(d)
  <2>1. /\ Buf(hop, d, 1) = <<>> /\ Buf(hop, d, 2) = <<>> /\ Buf(hop, d, 3) = <<>>
        /\ got[d] = <<>> /\ sent[d] = 0 /\ StateOf(copy, "up", 1) = "none"
    BY RelayStarts DEF Dirs
  <2>2. \A n : Follows(<<>>, n)
    BY DEF Follows
  <2>3. Header(d) = 0
    BY <2>1 DEF Header
  <2>4. Past2(d) = 0 /\ Past1(d) = 0
    BY <2>1, <2>3 DEF Past1, Past2
  <2>5. Len(got[d]) = 0 /\ Len(Buf(hop, d, 3)) = 0 /\ Len(Buf(hop, d, 1)) = 0
    BY <2>1
  <2>6. Unmoved(d) /\ InOrder(d)
    BY <2>1, <2>2, <2>4, <2>5 DEF Unmoved, InOrder
  <2>7. Elems(<<>>) = {} /\ Rising(<<>>)
    BY DEF Elems, Rising
  <2>8. Out3(d) = {} /\ Out2(d) = {} /\ Out1(d) = {} /\ 1..sent[d] = {}
    BY <2>1, <2>7 DEF Out3, Out2, Out1
  <2>9. Sorted(d)
    BY <2>1, <2>3, <2>7, <2>8 DEF Sorted, Below
  <2>10. NoneLost(d)
    BY <2>8 DEF NoneLost
  <2> QED BY <2>6, <2>9, <2>10 DEF Faithful
<1> QED BY <1>1, <1>2, <1>3, <1>4, TypesAre DEF RInv

(* is kept by every step, *)
LEMMA RInvNext ==
    ASSUME RInv, [RelayNext]_relayVars
    PROVE  RInv'
<1>1. CASE UNCHANGED relayVars
  <2>1. UNCHANGED <<kind, transport, hop, copy, phase, syn, expired, tunnelUp,
                    sent, void, got, faulty>>
    BY <1>1 DEF relayVars
  <2>2. RestTyped' /\ Closes(hop, hop')
    BY <2>1, TypesAre, ClosesKeep DEF RInv, DataTyped, RestTyped
  <2> QED BY <2>1, <2>2, StillStep
<1>2. ASSUME NEW d \in Dirs,
             \/ AppWrites(d) \/ AppWritesEmpty(d) \/ AppWriteDropped(d)
             \/ AppEnds(d) \/ AppReads(d)
      PROVE  RInv'
  BY <1>2, WritesStep, DroppedStep, QuietApps, ReadsStep
<1>3. ASSUME NEW s \in Sides, AppAborts(s) \/ Side(s) PROVE RInv'
  BY <1>3, QuietApps, QuietHandlers DEF Side
<1>4. CASE TunnelEnds
  BY <1>4, QuietApps
<1>5. CASE LocalOpens
  BY <1>5, QuietHandlers, WriteHeadStep DEF LocalOpens
<1>6. CASE RemoteOpens
  BY <1>6, QuietHandlers, ReadHeadStep, QuietDial DEF RemoteOpens
<1>7. ASSUME NEW d \in Dirs, NEW h \in 1..2, Copy(d, h) PROVE RInv'
  BY <1>7, MovesStep, LosesStep, SkipsStep, QuietCopies DEF Copy
<1> QED BY <1>1, <1>2, <1>3, <1>4, <1>5, <1>6, <1>7 DEF RelayNext

(* and so always holds. *)
LEMMA RelayInductive == RelaySpec => []RInv
<1>1. RelayInit => RInv
  BY RInvInit
<1>2. RInv /\ [RelayNext]_relayVars => RInv'
  BY RInvNext
<1> QED BY <1>1, <1>2, PTL DEF RelaySpec

(* What an application reads of a TCP connection is a beginning of what    *)
(* the other one wrote; of UDP only what is empty or was dropped by a      *)
(* socket is missing in between. For any number of pieces and any room in  *)
(* the hops, on both transports and however copies, handlers, the idle     *)
(* timer and the tunnel end.                                               *)
THEOREM ReadsArePrefix == RelaySpec => []Prefix
<1>1. ASSUME RInv, NEW d \in Dirs, kind = "tcp" PROVE Beginning(d)
  <2>1. DataTyped /\ InOrder(d)
    BY <1>1, TypesAre DEF RInv, Faithful
  <2>2. Len(got[d]) \in Nat /\ Len(Buf(hop, d, 3)) \in Nat /\ sent[d] \in Nat
    BY <2>1, CountsTyped
  <2>3. Len(got[d]) <= sent[d]
    BY <1>1, <2>1, <2>2 DEF InOrder
  <2>4. \A i \in 1..Len(got[d]) : got[d][i] = i
    BY <1>1, <2>1 DEF InOrder, Follows
  <2> QED BY <2>3, <2>4 DEF Beginning
<1>2. ASSUME RInv, NEW d \in Dirs, kind = "udp" PROVE Selection(d)
  <2>1. DataTyped /\ Sorted(d) /\ NoneLost(d)
    BY <1>2, TypesAre DEF RInv, Faithful
  <2>2. sent[d] \in Nat /\ got[d] \in Seq(Nat) /\ Len(got[d]) \in Nat
    BY <2>1, CountsTyped
  <2>3. /\ Rising(got[d]) /\ Elems(got[d]) \subseteq 1..sent[d]
        /\ Below(Elems(got[d]), Elems(Buf(hop, d, 3)))
        /\ Out3(d) = Elems(got[d]) \cup Elems(Buf(hop, d, 3))
    BY <1>2, <2>1 DEF Sorted, Out3
  <2>4. ASSUME NEW i \in 1..Len(got[d])
        PROVE  /\ got[d][i] \in 1..sent[d]
               /\ \A n \in 1..got[d][i] :
                    n \notin void[d] => \E j \in 1..i : got[d][j] = n
    <3>1. got[d][i] \in Elems(got[d])
      BY DEF Elems
    <3>2. got[d][i] \in 1..sent[d]
      BY <2>3, <3>1
    <3>3. ASSUME NEW n \in 1..got[d][i], n \notin void[d]
          PROVE  \E j \in 1..i : got[d][j] = n
      <4>1. n \in 1..sent[d] /\ n <= got[d][i] /\ n \in Int /\ got[d][i] \in Int
        <5>1. \A w \in Nat : \A m \in 1..w : \A k \in 1..m :
                k \in 1..w /\ k <= m /\ k \in Int /\ m \in Int
          OBVIOUS
        <5> QED BY <2>2, <3>2, <5>1
      <4>2. Found(d, n)
        BY <1>2, <2>1, <3>3, <4>1 DEF NoneLost
      <4>3. n \in Elems(got[d])
        <5>1. n \in Out3(d)
          <6>1. (\A x \in Out3(d) : x < n) => got[d][i] < n
            BY <2>3, <3>1
          <6> QED BY <4>1, <4>2, <6>1 DEF Found
        <5>2. n \in Elems(Buf(hop, d, 3)) => got[d][i] < n
          BY <2>3, <3>1 DEF Below
        <5> QED BY <2>3, <4>1, <5>1, <5>2
      <4>4. PICK j \in 1..Len(got[d]) : got[d][j] = n
        BY <4>3 DEF Elems
      <4>5. i < j => got[d][i] < n
        BY <2>3, <4>4 DEF Rising
      <4>6. ~(i < j)
        BY <4>1, <4>5
      <4>7. j \in 1..i
        BY <2>2, <4>6
      <4> QED BY <4>4, <4>7
    <3> QED BY <3>2, <3>3
  <2> QED BY <2>3, <2>4 DEF Selection, Rising
<1>3. RInv => Prefix
  <2> HAVE RInv
  <2>1. RelayTypeOK /\ kind \in {"tcp", "udp"}
    BY RelayAssumption DEF RInv, RelayTypeOK
  <2> QED BY <1>1, <1>2, <2>1 DEF Prefix
<1> QED BY <1>3, RelayInductive, PTL

-----------------------------------------------------------------------------
(* A connection that only its applications end *)

(* The header stays where it is while both sides stay before or past it. *)
LEMMA HeaderSame ==
    ASSUME NEW e \in Dirs,
           (StateOf(copy', "up", 1) = "none") <=> (StateOf(copy, "up", 1) = "none"),
           (phase'["remote"] \in {"none", "head"}) <=> (phase["remote"] \in {"none", "head"})
    PROVE  Header(e)' = Header(e)
BY DEF Header

(* A direction whose data does not move keeps its total. *)
LEMMA TotalFrame ==
    ASSUME NEW e \in Dirs, Total(e), Header(e)' = Header(e),
           got'[e] = got[e], sent'[e] = sent[e],
           Buf(hop', e, 1) = Buf(hop, e, 1), Buf(hop', e, 2) = Buf(hop, e, 2),
           Buf(hop', e, 3) = Buf(hop, e, 3)
    PROVE  Total(e)'
BY DEF Total, Past1, Past2

(* A copy that closes or has closed has its end and an empty buffer as     *)
(* long as it is not given more.                                           *)
LEMMA EndsFrame ==
    ASSUME NEW e \in Dirs, EndsAfter(e),
           \A g \in 1..2 : \/ StateOf(copy', e, g) = StateOf(copy, e, g)
                           \/ StateOf(copy, e, g) = "none" /\ StateOf(copy', e, g) = "run",
           \A g \in 1..2 : StateOf(copy, e, g) \in {"close", "done"} =>
                             Buf(hop', e, g) = Buf(hop, e, g),
           Fin(hop, e, 1) => Fin(hop', e, 1),
           \A k \in 2..3 : Fin(hop', e, k) <=> Fin(hop, e, k),
           \A k \in 1..3 : Dead(hop', e, k) <=> Dead(hop, e, k)
    PROVE  EndsAfter(e)'
<1>1. /\ Fin(hop', e, 2) <=> Fin(hop, e, 2)
      /\ Fin(hop', e, 3) <=> Fin(hop, e, 3)
      /\ Dead(hop', e, 1) <=> Dead(hop, e, 1)
      /\ Dead(hop', e, 2) <=> Dead(hop, e, 2)
      /\ Dead(hop', e, 3) <=> Dead(hop, e, 3)
  OBVIOUS
<1>2. /\ StateOf(copy, e, 1) \in {"close", "done"} => Buf(hop', e, 1) = Buf(hop, e, 1)
      /\ StateOf(copy, e, 2) \in {"close", "done"} => Buf(hop', e, 2) = Buf(hop, e, 2)
  OBVIOUS
<1>3. /\ \/ StateOf(copy', e, 1) = StateOf(copy, e, 1)
         \/ StateOf(copy, e, 1) = "none" /\ StateOf(copy', e, 1) = "run"
      /\ \/ StateOf(copy', e, 2) = StateOf(copy, e, 2)
         \/ StateOf(copy, e, 2) = "none" /\ StateOf(copy', e, 2) = "run"
  OBVIOUS
<1> QED BY <1>1, <1>2, <1>3 DEF EndsAfter

(* A side stays undisturbed unless its timer fires or its handler gives up. *)
LEMMA UndisturbedFrame ==
    ASSUME NEW s \in Sides, Undisturbed(s), expired' = expired,
           \A e \in Dirs, g \in 1..2 :
              StateOf(copy, e, g) = "done" => StateOf(copy', e, g) = "done",
           \/ phase'[s] = phase[s]
           \/ phase'[s] \notin {"late", "done"}
           \/ /\ phase'[s] = "done" /\ StateOf(copy', Out(s), 1) = "done"
              /\ StateOf(copy', Opp(Out(s)), 2) = "done"
    PROVE  Undisturbed(s)'
<1>1. Out(s) \in Dirs /\ Opp(Out(s)) \in Dirs
  BY SideRuns
<1>2. /\ StateOf(copy, Out(s), 1) = "done" => StateOf(copy', Out(s), 1) = "done"
      /\ StateOf(copy, Opp(Out(s)), 2) = "done" => StateOf(copy', Opp(Out(s)), 2) = "done"
  BY <1>1
<1> QED BY <1>2 DEF Undisturbed

(* Steps that leave hops, data and copies alone. *)
LEMMA CleanPhase ==
    ASSUME RInv, Orderly, OpenStream \/ AcceptStream
    PROVE  Orderly'
<1>1. /\ UNCHANGED <<hop, copy, sent, got, expired>> /\ phase \in [Sides -> Phases]
      /\ \/ phase' = [phase EXCEPT !["local"] = "head"]
         \/ phase["remote"] = "none" /\ phase' = [phase EXCEPT !["remote"] = "head"]
  BY TypesAre DEF OpenStream, AcceptStream, RInv, RestTyped
<1>2. /\ \A s \in Sides : phase'[s] = phase[s] \/ phase'[s] = "head"
      /\ (phase'["remote"] \in {"none", "head"}) <=> (phase["remote"] \in {"none", "head"})
  BY <1>1 DEF Sides
<1>3. ASSUME NEW e \in Dirs PROVE EndsAfter(e)' /\ Total(e)'
  <2>1. EndsAfter(e) /\ Total(e)
    BY DEF Orderly
  <2>2. Header(e)' = Header(e)
    BY <1>1, <1>2, HeaderSame
  <2>3. EndsAfter(e)'
    BY <1>1, <2>1 DEF EndsAfter
  <2> QED BY <1>1, <2>1, <2>2, <2>3, TotalFrame
<1>4. ASSUME NEW s \in Sides PROVE Undisturbed(s)'
  <2>1. Undisturbed(s) BY DEF Orderly
  <2> QED BY <1>1, <1>2, <2>1, UndisturbedFrame
<1> QED BY <1>3, <1>4 DEF Orderly

-----------------------------------------------------------------------------
(* The applications. *)
LEMMA CleanApps ==
    ASSUME RInv, Orderly, NEW d \in Dirs, AppWrites(d) \/ AppEnds(d) \/ AppReads(d)
    PROVE  Orderly'
<1>1. RestTyped /\ DataTyped /\ hop \in Hops
  BY TypesAre DEF RInv, DataTyped
<1>2. UNCHANGED <<copy, phase, expired>>
  BY DEF AppWrites, AppEnds, AppReads
<1>3. ASSUME NEW e \in Dirs PROVE EndsAfter(e) /\ Total(e) /\ Header(e)' = Header(e)
  BY <1>2, HeaderSame DEF Orderly
<1>4. ASSUME NEW s \in Sides PROVE Undisturbed(s)'
  BY <1>2 DEF Orderly, Undisturbed
<1>5. CASE AppWrites(d)
  <2> DEFINE v == Append(Buf(hop, d, 1), sent[d] + 1)
  <2>1. hop' = SetBuf(hop, d, 1, v)
    BY <1>5 DEF AppWrites, SetBuf, Buf
  <2>2. ~Fin(hop, d, 1) /\ sent' = [sent EXCEPT ![d] = @ + 1] /\ got' = got
    BY <1>5 DEF AppWrites, MayWrite, Fin
  <2>3. v \in Seq(Nat) /\ Len(v) = Len(Buf(hop, d, 1)) + 1
    BY <1>1, CountsTyped, LengthOf
  <2> HIDE DEF v
  <2>4. ASSUME NEW e \in Dirs, NEW j \in 1..3
        PROVE  /\ e = d /\ j = 1 => Buf(hop', e, j) = v
               /\ ~(e = d /\ j = 1) => Buf(hop', e, j) = Buf(hop, e, j)
               /\ Fin(hop', e, j) <=> Fin(hop, e, j)
               /\ Dead(hop', e, j) <=> Dead(hop, e, j)
    BY <1>1, <2>1, <2>3, BufSet
  <2>5. sent'[d] = sent[d] + 1 /\ \A e \in Dirs : e # d => sent'[e] = sent[e]
    BY <1>1, <2>2 DEF DataTyped
  <2>6. ASSUME NEW e \in Dirs PROVE EndsAfter(e)'
    <3>1. \A g \in 1..2 : StateOf(copy, e, g) \in {"close", "done"} =>
                            Buf(hop', e, g) = Buf(hop, e, g)
      BY <1>3, <2>2, <2>4 DEF EndsAfter
    <3> QED BY <1>2, <1>3, <2>4, <3>1, EndsFrame
  <2>7. ASSUME NEW e \in Dirs PROVE Total(e)'
    <3>1. Buf(hop', e, 2) = Buf(hop, e, 2) /\ Buf(hop', e, 3) = Buf(hop, e, 3)
      BY <2>4
    <3>2. CASE e # d
      <4>1. Buf(hop', e, 1) = Buf(hop, e, 1) /\ sent'[e] = sent[e] /\ got'[e] = got[e]
        BY <2>2, <2>4, <2>5, <3>2
      <4> QED BY <1>3, <3>1, <4>1, TotalFrame
    <3>3. CASE e = d
      <4>1. Past1(d)' = Past1(d)
        BY <1>3, <2>2, <3>1, <3>3 DEF Past1, Past2
      <4>2. PICK p \in Int, n \in Nat : p = Past1(d) /\ n = Len(Buf(hop, d, 1))
        BY <1>1, CountsTyped
      <4>3. p + n = sent[d] /\ Len(Buf(hop', d, 1)) = n + 1
        BY <1>3, <2>3, <2>4, <4>2 DEF Total
      <4>4. p + (n + 1) = (p + n) + 1
        OBVIOUS
      <4> QED BY <2>5, <3>3, <4>1, <4>2, <4>3, <4>4 DEF Total
    <3> QED BY <3>2, <3>3
  <2> QED BY <1>4, <2>6, <2>7 DEF Orderly
<1>6. CASE AppEnds(d)
  <2>1. hop' = SetFin(hop, d, 1)
    BY <1>6 DEF AppEnds, SetFin
  <2>2. sent' = sent /\ got' = got
    BY <1>6 DEF AppEnds
  <2>3. ASSUME NEW e \in Dirs, NEW j \in 1..3
        PROVE  /\ Buf(hop', e, j) = Buf(hop, e, j)
               /\ Fin(hop', e, j) <=> (Fin(hop, e, j) \/ (e = d /\ j = 1))
               /\ Dead(hop', e, j) <=> Dead(hop, e, j)
    BY <1>1, <2>1, FinSet
  <2>4. ASSUME NEW e \in Dirs PROVE EndsAfter(e)'
    <3>1. Fin(hop, e, 1) => Fin(hop', e, 1)
      BY <2>3
    <3>2. \A k \in 2..3 : Fin(hop', e, k) <=> Fin(hop, e, k)
      BY <2>3
    <3> QED BY <1>2, <1>3, <2>3, <3>1, <3>2, EndsFrame
  <2>5. ASSUME NEW e \in Dirs PROVE Total(e)'
    <3>1. /\ Buf(hop', e, 1) = Buf(hop, e, 1) /\ Buf(hop', e, 2) = Buf(hop, e, 2)
          /\ Buf(hop', e, 3) = Buf(hop, e, 3)
      BY <2>3
    <3> QED BY <1>3, <2>2, <3>1, TotalFrame
  <2> QED BY <1>4, <2>4, <2>5 DEF Orderly
<1>7. CASE AppReads(d)
  <2> DEFINE b == Buf(hop, d, 3)
             v == Tail(b)
  <2>1. hop' = SetBuf(hop, d, 3, v)
    BY <1>7 DEF AppReads, SetBuf, Buf
  <2>2. b # <<>> /\ got' = [got EXCEPT ![d] = Append(@, Head(b))] /\ sent' = sent
    BY <1>7 DEF AppReads, Buf
  <2>3. /\ v \in Seq(Nat) /\ Len(v) = Len(b) - 1 /\ Len(b) \in Nat
        /\ Len(Append(got[d], Head(b))) = Len(got[d]) + 1 /\ Len(got[d]) \in Nat
    BY <1>1, <2>2, CountsTyped, LengthOf
  <2>4. got'[d] = Append(got[d], Head(b)) /\ \A e \in Dirs : e # d => got'[e] = got[e]
    BY <1>1, <2>2 DEF DataTyped
  <2> HIDE DEF v
  <2>5. ASSUME NEW e \in Dirs, NEW j \in 1..3
        PROVE  /\ e = d /\ j = 3 => Buf(hop', e, j) = v
               /\ ~(e = d /\ j = 3) => Buf(hop', e, j) = Buf(hop, e, j)
               /\ Fin(hop', e, j) <=> Fin(hop, e, j)
               /\ Dead(hop', e, j) <=> Dead(hop, e, j)
    BY <1>1, <2>1, <2>3, BufSet
  <2>6. ASSUME NEW e \in Dirs PROVE EndsAfter(e)'
    <3>1. \A g \in 1..2 : Buf(hop', e, g) = Buf(hop, e, g)
      BY <2>5
    <3> QED BY <1>2, <1>3, <2>5, <3>1, EndsFrame
  <2>7. ASSUME NEW e \in Dirs PROVE Total(e)'
    <3>1. Buf(hop', e, 1) = Buf(hop, e, 1) /\ Buf(hop', e, 2) = Buf(hop, e, 2)
      BY <2>5
    <3>2. CASE e # d
      <4>1. Buf(hop', e, 3) = Buf(hop, e, 3) /\ sent'[e] = sent[e] /\ got'[e] = got[e]
        BY <2>2, <2>4, <2>5, <3>2
      <4> QED BY <1>3, <3>1, <4>1, TotalFrame
    <3>3. CASE e = d
      <4>0. Header(d) \in Int
        BY DEF Header
      <4>1. PICK g \in Nat, n \in Nat, k \in Int :
              g = Len(got[d]) /\ n = Len(b) /\ k = Header(d)
        BY ONLY <2>3, <4>0
      <4>2. Len(got'[d]) = g + 1 /\ Len(Buf(hop', d, 3)) = n - 1
        BY <2>3, <2>4, <2>5, <4>1
      <4>3. (g + 1) + (n - 1) - k = g + n - k
        OBVIOUS
      <4>4. Past2(d)' = Past2(d)
        BY <1>3, <3>3, <4>1, <4>2, <4>3 DEF Past2
      <4> QED BY <1>3, <2>2, <3>1, <3>3, <4>4 DEF Past1, Total
    <3> QED BY <3>2, <3>3
  <2> QED BY <1>4, <2>6, <2>7 DEF Orderly
<1> QED BY <1>5, <1>6, <1>7

-----------------------------------------------------------------------------
(* The relay at Local starts behind the header. *)
LEMMA CleanWriteHead ==
    ASSUME RInv, Orderly, WriteHead
    PROVE  Orderly'
<1>1. RestTyped /\ DataTyped /\ Control /\ hop \in Hops /\ copy \in Copies
  BY TypesAre DEF RInv, DataTyped, RestTyped
<1>2. "up" \in Dirs /\ "down" \in Dirs /\ "local" \in Sides /\ "remote" \in Sides
  BY DEF Dirs, Sides
<1> DEFINE v == Append(Buf(hop, "up", 2), 0)
<1>3. hop' = SetBuf(hop, "up", 2, v)
  BY DEF WriteHead, SetBuf, Buf
<1>4. phase["local"] = "head" /\ StartRelay("local") /\ UNCHANGED <<expired, sent,
                                                                    got>>
  BY DEF WriteHead
<1>5. phase'["local"] = "relay" /\ phase'["remote"] = phase["remote"]
  <2>1. phase' = [phase EXCEPT !["local"] = "relay"] /\ phase \in [Sides -> Phases]
    BY <1>1, <1>4 DEF StartRelay, RestTyped
  <2> QED BY <2>1 DEF Sides
<1>6. ASSUME NEW e \in Dirs, NEW g \in 1..2
      PROVE  /\ SideOf(e, g) = "local" => StateOf(copy', e, g) = "run"
             /\ SideOf(e, g) # "local" => StateOf(copy', e, g) = StateOf(copy, e, g)
  BY <1>1, <1>2, <1>4, StartIs
<1>7. ASSUME NEW e \in Dirs, NEW g \in 1..2 PROVE StateOf(copy, e, g) \in CopyStates
  BY <1>1 DEF Copies, StateOf
<1>8. \A e \in Dirs, g \in 1..2 : SideOf(e, g) = "local" => StateOf(copy, e, g) = "none"
  BY <1>1, <1>4, <1>7 DEF Control, CopyStates
<1>9. v \in Seq(Nat) /\ Len(v) = Len(Buf(hop, "up", 2)) + 1
  BY <1>1, <1>2, CountsTyped, LengthOf
<1> HIDE DEF v
<1>10. ASSUME NEW e \in Dirs, NEW j \in 1..3
       PROVE  /\ e = "up" /\ j = 2 => Buf(hop', e, j) = v
              /\ ~(e = "up" /\ j = 2) => Buf(hop', e, j) = Buf(hop, e, j)
              /\ Fin(hop', e, j) <=> Fin(hop, e, j)
              /\ Dead(hop', e, j) <=> Dead(hop, e, j)
  BY <1>1, <1>2, <1>3, <1>9, BufSet
<1>11. StateOf(copy, "up", 1) = "none" /\ StateOf(copy', "up", 1) = "run"
         /\ StateOf(copy', "up", 2) = StateOf(copy, "up", 2)
  BY <1>2, <1>6, <1>8, SideOfIs
<1>12. StateOf(copy, "up", 2) \notin {"close", "done"}
  BY <1>2, <1>11 DEF Orderly, EndsAfter
<1>13. phase["remote"] \in {"none", "head"}
  <2>1. phase["remote"] # "done"
    <3>1. Out("remote") = "down" /\ Opp("down") = "up"
      BY DEF Out, Opp
    <3> QED BY <1>2, <1>12, <3>1 DEF Orderly, Undisturbed
  <2>2. phase["remote"] \in Phases
    BY <1>1, <1>2 DEF RestTyped
  <2> QED BY <1>1, <1>11, <2>1, <2>2 DEF Control, Phases
<1>14. ASSUME NEW e \in Dirs PROVE EndsAfter(e)'
  <2>1. EndsAfter(e)
    BY DEF Orderly
  <2>2. \A g \in 1..2 : StateOf(copy, e, g) \in {"close", "done"} =>
                          Buf(hop', e, g) = Buf(hop, e, g)
    BY <1>10, <1>12
  <2>3. \A g \in 1..2 : \/ StateOf(copy', e, g) = StateOf(copy, e, g)
                        \/ StateOf(copy, e, g) = "none" /\ StateOf(copy', e, g) = "run"
    BY <1>6, <1>8
  <2>4. /\ Fin(hop, e, 1) => Fin(hop', e, 1)
        /\ \A k \in 2..3 : Fin(hop', e, k) <=> Fin(hop, e, k)
        /\ \A k \in 1..3 : Dead(hop', e, k) <=> Dead(hop, e, k)
    BY <1>10
  <2> QED BY <2>1, <2>2, <2>3, <2>4, EndsFrame
<1>15. Total("down")'
  <2>1. /\ Buf(hop', "down", 1) = Buf(hop, "down", 1)
        /\ Buf(hop', "down", 2) = Buf(hop, "down", 2)
        /\ Buf(hop', "down", 3) = Buf(hop, "down", 3)
    BY <1>2, <1>10
  <2>2. Header("down")' = Header("down")
    BY DEF Header
  <2> QED BY <1>2, <1>4, <2>1, <2>2, TotalFrame DEF Orderly
<1>16. Total("up")'
  <2>1. Buf(hop', "up", 1) = Buf(hop, "up", 1) /\ Buf(hop', "up", 3) = Buf(hop, "up", 3)
          /\ Buf(hop', "up", 2) = v
    BY <1>2, <1>10
  <2>2. Header("up") = 0 /\ Header("up")' = 1
    BY <1>5, <1>11, <1>13 DEF Header
  <2>3. /\ Len(got["up"]) \in Nat
        /\ Len(Buf(hop, "up", 3)) \in Nat /\ Len(Buf(hop, "up", 2)) \in Nat
    BY <1>1, <1>2, CountsTyped
  <2>4. PICK g \in Nat, n \in Nat, m \in Nat :
          g = Len(got["up"]) /\ n = Len(Buf(hop, "up", 3)) /\ m = Len(Buf(hop, "up", 2))
    BY ONLY <2>3
  <2>5. Past1("up") = g + n - 0 + m /\ Past1("up")' = g + n - 1 + (m + 1)
    BY <1>4, <1>9, <2>1, <2>2, <2>4 DEF Past1, Past2
  <2>6. g + n - 0 + m = g + n - 1 + (m + 1)
    BY ONLY g \in Nat, n \in Nat, m \in Nat
  <2>7. Total("up")
    BY <1>2 DEF Orderly
  <2> QED BY <1>4, <2>1, <2>5, <2>6, <2>7 DEF Total
<1>17. ASSUME NEW s \in Sides PROVE Undisturbed(s)'
  <2>1. \A e \in Dirs, g \in 1..2 :
          StateOf(copy, e, g) = "done" => StateOf(copy', e, g) = "done"
    BY <1>6, <1>8
  <2>2. phase'[s] = phase[s] \/ phase'[s] \notin {"late", "done"}
    BY <1>5 DEF Sides
  <2> QED BY <1>4, <2>1, <2>2, UndisturbedFrame DEF Orderly
<1> QED BY <1>14, <1>15, <1>16, <1>17 DEF Orderly, Dirs

(* Remote takes the header off the stream. *)
LEMMA CleanReadHead ==
    ASSUME RInv, Orderly, ReadHead
    PROVE  Orderly'
<1>1. RestTyped /\ DataTyped /\ Control /\ hop \in Hops /\ copy \in Copies
  BY TypesAre DEF RInv, DataTyped, RestTyped
<1>2. "up" \in Dirs /\ "down" \in Dirs /\ "remote" \in Sides
  BY DEF Dirs, Sides
<1> DEFINE b == Buf(hop, "up", 2)
           t == Tail(b)
<1>3. hop' = SetBuf(hop, "up", 2, t)
  BY DEF ReadHead, SetBuf, Buf
<1>4. /\ phase["remote"] = "head" /\ b # <<>>
      /\ phase' = [phase EXCEPT !["remote"] = "dial"]
      /\ UNCHANGED <<copy, expired, sent, got>>
  BY DEF ReadHead, Buf
<1>5. t \in Seq(Nat) /\ Len(t) = Len(b) - 1 /\ Len(b) \in Nat
  BY <1>1, <1>2, <1>4, CountsTyped, LengthOf
<1>6. phase'["remote"] = "dial" /\ phase'["local"] = phase["local"]
  BY <1>1, <1>4 DEF RestTyped, Sides
<1> HIDE DEF t
<1>7. ASSUME NEW e \in Dirs, NEW j \in 1..3
      PROVE  /\ e = "up" /\ j = 2 => Buf(hop', e, j) = t
             /\ ~(e = "up" /\ j = 2) => Buf(hop', e, j) = Buf(hop, e, j)
             /\ Fin(hop', e, j) <=> Fin(hop, e, j)
             /\ Dead(hop', e, j) <=> Dead(hop, e, j)
  BY <1>1, <1>2, <1>3, <1>5, BufSet
<1>8. StateOf(copy, "up", 1) # "none"
  BY <1>2, <1>4 DEF RInv, Unmoved, Faithful
<1>9. StateOf(copy, "up", 2) \notin {"close", "done"}
  BY <1>1, <1>2, <1>4, SideOfIs DEF Control
<1>10. ASSUME NEW e \in Dirs PROVE EndsAfter(e)'
  <2>1. EndsAfter(e)
    BY DEF Orderly
  <2>2. \A g \in 1..2 : StateOf(copy, e, g) \in {"close", "done"} =>
                          Buf(hop', e, g) = Buf(hop, e, g)
    BY <1>7, <1>9
  <2>3. /\ Fin(hop, e, 1) => Fin(hop', e, 1)
        /\ \A k \in 2..3 : Fin(hop', e, k) <=> Fin(hop, e, k)
        /\ \A k \in 1..3 : Dead(hop', e, k) <=> Dead(hop, e, k)
    BY <1>7
  <2> QED BY <1>4, <2>1, <2>2, <2>3, EndsFrame
<1>11. Total("down")'
  <2>1. /\ Buf(hop', "down", 1) = Buf(hop, "down", 1)
        /\ Buf(hop', "down", 2) = Buf(hop, "down", 2)
        /\ Buf(hop', "down", 3) = Buf(hop, "down", 3)
    BY <1>2, <1>7
  <2>2. Header("down")' = Header("down")
    BY DEF Header
  <2> QED BY <1>2, <1>4, <2>1, <2>2, TotalFrame DEF Orderly
<1>12. Total("up")'
  <2>1. Buf(hop', "up", 1) = Buf(hop, "up", 1) /\ Buf(hop', "up", 3) = Buf(hop, "up", 3)
          /\ Buf(hop', "up", 2) = t
    BY <1>2, <1>7
  <2>2. Header("up") = 1 /\ Header("up")' = 0
    BY <1>4, <1>6, <1>8 DEF Header
  <2>3. Len(got["up"]) \in Nat /\ Len(Buf(hop, "up", 3)) \in Nat
    BY <1>1, <1>2, CountsTyped
  <2>4. PICK g \in Nat, n \in Nat, m \in Nat :
          g = Len(got["up"]) /\ n = Len(Buf(hop, "up", 3)) /\ m = Len(b)
    BY ONLY <1>5, <2>3
  <2>5. Past1("up") = g + n - 1 + m /\ Past1("up")' = g + n - 0 + (m - 1)
    BY <1>4, <1>5, <2>1, <2>2, <2>4 DEF Past1, Past2
  <2>6. g + n - 1 + m = g + n - 0 + (m - 1)
    BY ONLY g \in Nat, n \in Nat, m \in Nat
  <2>7. Total("up")
    BY <1>2 DEF Orderly
  <2> QED BY <1>4, <2>1, <2>5, <2>6, <2>7 DEF Total
<1>13. ASSUME NEW s \in Sides PROVE Undisturbed(s)'
  <2>1. phase'[s] = phase[s] \/ phase'[s] \notin {"late", "done"}
    BY <1>6 DEF Sides
  <2> QED BY <1>4, <2>1, UndisturbedFrame DEF Orderly
<1> QED BY <1>10, <1>11, <1>12, <1>13 DEF Orderly, Dirs

(* The relay at Remote starts. *)
LEMMA CleanDial ==
    ASSUME RInv, Orderly, Dialled
    PROVE  Orderly'
<1>1. RestTyped /\ Control /\ copy \in Copies /\ "up" \in Dirs /\ "remote" \in Sides
  BY TypesAre DEF RInv, RestTyped, Dirs, Sides
<1>2. phase["remote"] = "dial" /\ StartRelay("remote") /\ UNCHANGED <<hop, expired,
                                                                      sent, got>>
  BY DEF Dialled
<1>3. phase'["remote"] = "relay" /\ phase'["local"] = phase["local"]
  <2>1. phase' = [phase EXCEPT !["remote"] = "relay"] /\ phase \in [Sides -> Phases]
    BY <1>1, <1>2 DEF StartRelay, RestTyped
  <2> QED BY <2>1 DEF Sides
<1>4. ASSUME NEW e \in Dirs, NEW g \in 1..2
      PROVE  /\ SideOf(e, g) = "remote" => StateOf(copy', e, g) = "run"
             /\ SideOf(e, g) # "remote" => StateOf(copy', e, g) = StateOf(copy, e, g)
  BY <1>1, <1>2, StartIs
<1>5. ASSUME NEW e \in Dirs, NEW g \in 1..2 PROVE StateOf(copy, e, g) \in CopyStates
  BY <1>1 DEF Copies, StateOf
<1>6. \A e \in Dirs, g \in 1..2 : SideOf(e, g) = "remote" => StateOf(copy, e, g) = "none"
  BY <1>1, <1>2, <1>5 DEF Control, CopyStates
<1>7. ASSUME NEW e \in Dirs PROVE EndsAfter(e)' /\ Total(e)'
  <2>1. EndsAfter(e) /\ Total(e)
    BY DEF Orderly
  <2>2. \A g \in 1..2 : \/ StateOf(copy', e, g) = StateOf(copy, e, g)
                        \/ StateOf(copy, e, g) = "none" /\ StateOf(copy', e, g) = "run"
    BY <1>4, <1>6
  <2>3. EndsAfter(e)'
    BY <1>2, <2>1, <2>2, EndsFrame
  <2>4. StateOf(copy', "up", 1) = StateOf(copy, "up", 1)
    BY <1>1, <1>4, SideOfIs
  <2>5. Header(e)' = Header(e)
    BY <1>2, <1>3, <2>4, HeaderSame
  <2> QED BY <1>2, <2>1, <2>3, <2>5, TotalFrame
<1>8. ASSUME NEW s \in Sides PROVE Undisturbed(s)'
  <2>1. \A e \in Dirs, g \in 1..2 :
          StateOf(copy, e, g) = "done" => StateOf(copy', e, g) = "done"
    BY <1>4, <1>6
  <2>2. phase'[s] = phase[s] \/ phase'[s] \notin {"late", "done"}
    BY <1>3 DEF Sides
  <2> QED BY <1>2, <2>1, <2>2, UndisturbedFrame DEF Orderly
<1> QED BY <1>7, <1>8 DEF Orderly

-----------------------------------------------------------------------------
(* A copy that runs fails no write, and no read but at the end. *)
LEMMA CleanCopy ==
    ASSUME RInv, Orderly, NEW d \in Dirs, NEW h \in 1..2, StateOf(copy, d, h) = "run"
    PROVE  /\ ~SinkFails(d, h)
           /\ ReadFails(d, h) => Fin(hop, d, h) /\ Buf(hop, d, h) = <<>>
<1>1. EndsAfter(d)
  BY DEF Orderly
<1>2. ~Expired(d, h, Sink(h)) /\ ~Expired(d, h, Source(h))
  <2>1. expired[SideOf(d, h)] = {}
    BY CopyRunBy DEF Orderly, Undisturbed
  <2> QED BY <2>1 DEF Expired
<1>3. StateOf(copy, d, 2) \notin {"close", "done"}
  <2>1. CASE h = 2
    BY <2>1
  <2>2. CASE h = 1
    BY <1>1, <2>2 DEF EndsAfter
  <2> QED BY <2>1, <2>2
<1>4. ~Fin(hop, d, h + 1) /\ ~Dead(hop, d, h + 1) /\ ~Dead(hop, d, h)
  <2>1. CASE h = 1
    <3>1. ~Fin(hop, d, 2) /\ ~Dead(hop, d, 2) /\ ~Dead(hop, d, 1)
      BY <1>1, <1>3, <2>1 DEF EndsAfter
    <3> QED BY <2>1, <3>1
  <2>2. CASE h = 2
    <3>1. ~Fin(hop, d, 3) /\ ~Dead(hop, d, 3) /\ ~Dead(hop, d, 2)
      BY <1>1, <1>3, <2>2 DEF EndsAfter
    <3> QED BY <2>2, <3>1
  <2> QED BY <2>1, <2>2
<1>5. ~SinkFails(d, h)
  BY <1>2, <1>4 DEF SinkFails, Fin, Dead
<1>6. ReadFails(d, h) => Fin(hop, d, h) /\ Buf(hop, d, h) = <<>>
  BY <1>2, <1>4 DEF ReadFails, Fin, Dead, Buf
<1> QED BY <1>5, <1>6

(* A piece goes on to the next hop. *)
LEMMA CleanMoves ==
    ASSUME RInv, Orderly, NEW d \in Dirs, NEW h \in 1..2, CopyMoves(d, h)
    PROVE  Orderly'
<1>1. DataTyped /\ hop \in Hops
  BY TypesAre DEF RInv, DataTyped
<1>2. hop' = Moved(d, h)
  BY DEF CopyMoves
<1>3. /\ StateOf(copy, d, h) = "run" /\ Buf(hop, d, h) # <<>> /\ ~Dead(hop, d, h + 1)
      /\ UNCHANGED <<copy, phase, expired, sent, got>>
  BY DEF CopyMoves, CanRead, SinkFails, StateOf, Buf, Dead
<1> DEFINE b == Buf(hop, d, h)
           c == Buf(hop, d, h + 1)
           t == Tail(b)
           a == Append(c, Head(b))
<1>4. h \in 1..3 /\ h + 1 \in 1..3
  OBVIOUS
<1>5. Len(b) \in Nat /\ Len(c) \in Nat /\ Len(t) = Len(b) - 1 /\ Len(a) = Len(c) + 1
  <2>1. b \in Seq(Nat) /\ c \in Seq(Nat)
    BY <1>1, <1>4, HopParts
  <2> QED BY <1>3, <2>1, LengthOf
<1>6. ASSUME NEW e \in Dirs, NEW j \in 1..3
      PROVE  /\ e = d /\ j = h => Buf(hop', e, j) = t
             /\ e = d /\ j = h + 1 => Buf(hop', e, j) = a
             /\ ~(e = d /\ j \in {h, h + 1}) => Buf(hop', e, j) = Buf(hop, e, j)
             /\ Fin(hop', e, j) <=> Fin(hop, e, j)
             /\ Dead(hop', e, j) <=> Dead(hop, e, j)
  BY <1>1, <1>2, <1>3, MovedIs
<1> HIDE DEF a, t
<1>7. h = 1 => StateOf(copy, d, 2) \notin {"close", "done"}
  BY <1>3 DEF Orderly, EndsAfter
<1>8. ASSUME NEW e \in Dirs
      PROVE  EndsAfter(e) /\ Total(e) /\ Header(e)' = Header(e) /\ sent'[e] = sent[e]
               /\ got'[e] = got[e]
  BY <1>3, HeaderSame DEF Orderly
<1>9. ASSUME NEW e \in Dirs PROVE EndsAfter(e)'
  <2>1. ASSUME NEW g \in 1..2, StateOf(copy, e, g) \in {"close", "done"}
        PROVE  Buf(hop', e, g) = Buf(hop, e, g)
    <3>1. g \in 1..3 /\ ~(e = d /\ g \in {h, h + 1})
      BY <1>3, <1>7, <2>1
    <3> QED BY <1>6, <3>1
  <2>2. /\ Fin(hop, e, 1) => Fin(hop', e, 1)
        /\ \A k \in 2..3 : Fin(hop', e, k) <=> Fin(hop, e, k)
        /\ \A k \in 1..3 : Dead(hop', e, k) <=> Dead(hop, e, k)
    BY <1>6
  <2> QED BY <1>3, <1>8, <2>1, <2>2, EndsFrame
<1>10. ASSUME NEW e \in Dirs PROVE Total(e)'
  <2>1. CASE e # d
    <3>1. /\ Buf(hop', e, 1) = Buf(hop, e, 1) /\ Buf(hop', e, 2) = Buf(hop, e, 2)
          /\ Buf(hop', e, 3) = Buf(hop, e, 3)
      BY <1>6, <2>1
    <3> QED BY <1>8, <3>1, TotalFrame
  <2>2. Len(got[d]) \in Nat /\ Header(d) \in Int /\ Len(Buf(hop, d, 3)) \in Nat
          /\ Len(Buf(hop, d, 1)) \in Nat /\ Past2(d) \in Int
    BY <1>1, CountsTyped
  <2>3. CASE e = d /\ h = 1
    <3>1. Buf(hop', d, 1) = t /\ Buf(hop', d, 2) = a /\ Buf(hop', d, 3) = Buf(hop, d, 3)
      BY <1>6, <2>3
    <3>2. Past2(d)' = Past2(d)
      BY <1>8, <3>1 DEF Past2
    <3>3. PICK p \in Int, n \in Nat, m \in Nat : p = Past2(d) /\ n = Len(c) /\ m = Len(b)
      BY ONLY <1>5, <2>2
    <3>4. /\ Past1(d) = p + n /\ Past1(d)' = p + (n + 1)
          /\ Len(Buf(hop, d, 1)) = m /\ Len(Buf(hop', d, 1)) = m - 1
      BY <1>5, <2>3, <3>1, <3>2, <3>3 DEF Past1
    <3>5. p + n + m = p + (n + 1) + (m - 1)
      BY ONLY p \in Int, n \in Nat, m \in Nat
    <3> QED BY <1>8, <2>3, <3>4, <3>5 DEF Total
  <2>4. CASE e = d /\ h = 2
    <3>1. Buf(hop', d, 2) = t /\ Buf(hop', d, 3) = a /\ Buf(hop', d, 1) = Buf(hop, d, 1)
      BY <1>6, <2>4
    <3>2. PICK g \in Nat, k \in Int, n \in Nat, m \in Nat :
            g = Len(got[d]) /\ k = Header(d) /\ n = Len(c) /\ m = Len(b)
      BY ONLY <1>5, <2>2
    <3>3. Past2(d) = g + n - k /\ Past2(d)' = g + (n + 1) - k
      <4>1. h + 1 = 3
        BY <2>4
      <4>2. Len(Buf(hop, d, 3)) = n /\ Len(Buf(hop', d, 3)) = n + 1
        BY <1>5, <3>1, <3>2, <4>1
      <4> QED BY <1>8, <3>2, <4>2 DEF Past2
    <3>4. Past1(d) = g + n - k + m /\ Past1(d)' = g + (n + 1) - k + (m - 1)
      BY <1>5, <2>4, <3>1, <3>2, <3>3 DEF Past1
    <3>5. g + n - k + m = g + (n + 1) - k + (m - 1)
      BY ONLY g \in Nat, k \in Int, n \in Nat, m \in Nat
    <3> QED BY <1>8, <2>4, <3>1, <3>4, <3>5 DEF Total
  <2> QED BY <2>1, <2>3, <2>4
<1>11. ASSUME NEW s \in Sides PROVE Undisturbed(s)'
  BY <1>3 DEF Orderly, Undisturbed
<1> QED BY <1>9, <1>10, <1>11 DEF Orderly

(* A copy ends and closes behind it: the end follows the data. *)
LEMMA CleanEnds ==
    ASSUME RInv, Orderly, Clean, NEW d \in Dirs, NEW h \in 1..2,
           CopyEnds(d, h) \/ CopyCloses(d, h)
    PROVE  Orderly'
<1>1. RestTyped /\ DataTyped /\ hop \in Hops /\ copy \in Copies
  BY TypesAre DEF RInv, DataTyped, RestTyped
<1>2. UNCHANGED <<phase, expired, sent, got>>
  BY DEF CopyEnds, CopyCloses
<1> DEFINE v == IF StateOf(copy, d, h) = "run" THEN "close" ELSE "done"
<1>3. \/ /\ StateOf(copy, d, h) = "run" /\ copy' = SetCopy(copy, d, h, "close")
         /\ hop' = hop /\ ReadFails(d, h)
      \/ /\ StateOf(copy, d, h) = "close" /\ copy' = SetCopy(copy, d, h, "done")
         /\ hop' = SetFin(hop, d, h + 1)
  <2>1. CASE CopyEnds(d, h)
    BY <2>1 DEF CopyEnds, SetCopy, StateOf
  <2>2. CASE CopyCloses(d, h)
    <3>1. StateOf(copy, d, h) = "close" /\ copy' = SetCopy(copy, d, h, "done")
      BY <2>2 DEF CopyCloses, SetCopy, StateOf
    <3>2. CASE h = 1
      <4>1. hop' = CloseWriteStream(hop, SideOf(d, 1))
        BY <2>2, <3>2 DEF CopyCloses, Clean
      <4>2. hop' = SetFin(hop, Out(SideOf(d, 1)), 2)
        BY <1>1, <3>2, <4>1, CloseWriteIs, CopyRunBy DEF Clean
      <4> QED BY <3>1, <3>2, <4>2, CopyRunBy
    <3>3. CASE h = 2
      <4>1. hop' = SetFin(hop, d, 3)
        BY <2>2, <3>3 DEF CopyCloses, Clean, SetFin
      <4> QED BY <3>1, <3>3, <4>1
    <3> QED BY <3>2, <3>3
  <2> QED BY <2>1, <2>2
<1>4. v \in CopyStates /\ copy' = SetCopy(copy, d, h, v)
  BY <1>3 DEF CopyStates
<1>5. h + 1 \in 1..3
  OBVIOUS
<1>6. StateOf(copy, d, h) \in {"run", "close"} /\ v \in {"close", "done"}
        /\ (v = "done" <=> (StateOf(copy, d, h) = "close"))
  BY <1>3
<1> HIDE DEF v
<1>7. ASSUME NEW e \in Dirs, NEW g \in 1..2
      PROVE  /\ e = d /\ g = h => StateOf(copy', e, g) = v
             /\ ~(e = d /\ g = h) => StateOf(copy', e, g) = StateOf(copy, e, g)
  BY <1>1, <1>4, CopySet
<1>8. ASSUME NEW e \in Dirs, NEW j \in 1..3
      PROVE  /\ Buf(hop', e, j) = Buf(hop, e, j)
             /\ Fin(hop', e, j) <=> (Fin(hop, e, j) \/ (v = "done" /\ e = d /\ j = h + 1))
             /\ Dead(hop', e, j) <=> Dead(hop, e, j)
  <2>1. CASE hop' = hop /\ v = "close"
    BY <2>1
  <2>2. CASE hop' = SetFin(hop, d, h + 1) /\ v = "done"
    BY <1>1, <1>5, <2>2, FinSet
  <2> QED BY <1>3, <1>6, <2>1, <2>2
<1>9. Fin(hop, d, h) /\ Buf(hop, d, h) = <<>>
  <2>1. CASE StateOf(copy, d, h) = "run"
    BY <1>3, <2>1, CleanCopy
  <2>2. CASE StateOf(copy, d, h) = "close"
    <3>1. EndsAfter(d) /\ (h = 1 \/ h = 2)
      BY DEF Orderly
    <3> QED BY <2>2, <3>1 DEF EndsAfter
  <2> QED BY <1>6, <2>1, <2>2
<1>10. ASSUME NEW e \in Dirs PROVE EndsAfter(e)'
  <2>1. EndsAfter(e)
    BY DEF Orderly
  <2>2. /\ Buf(hop', e, 1) = Buf(hop, e, 1) /\ Buf(hop', e, 2) = Buf(hop, e, 2)
        /\ Fin(hop', e, 1) <=> Fin(hop, e, 1)
        /\ Fin(hop', e, 2) <=> (Fin(hop, e, 2) \/ (v = "done" /\ e = d /\ h = 1))
        /\ Fin(hop', e, 3) <=> (Fin(hop, e, 3) \/ (v = "done" /\ e = d /\ h = 2))
        /\ Dead(hop', e, 1) <=> Dead(hop, e, 1)
        /\ Dead(hop', e, 2) <=> Dead(hop, e, 2)
        /\ Dead(hop', e, 3) <=> Dead(hop, e, 3)
    BY <1>8
  <2>3. /\ e = d /\ h = 1 => StateOf(copy', e, 1) = v
        /\ ~(e = d /\ h = 1) => StateOf(copy', e, 1) = StateOf(copy, e, 1)
        /\ e = d /\ h = 2 => StateOf(copy', e, 2) = v
        /\ ~(e = d /\ h = 2) => StateOf(copy', e, 2) = StateOf(copy, e, 2)
    BY <1>7
  <2>4. CASE e # d
    BY <2>1, <2>2, <2>3, <2>4 DEF EndsAfter
  <2>5. CASE e = d /\ h = 1
    BY <1>6, <1>9, <2>1, <2>2, <2>3, <2>5 DEF EndsAfter
  <2>6. CASE e = d /\ h = 2
    BY <1>6, <1>9, <2>1, <2>2, <2>3, <2>6 DEF EndsAfter
  <2> QED BY <2>4, <2>5, <2>6
<1>11. ASSUME NEW e \in Dirs PROVE Total(e)'
  <2>1. /\ Buf(hop', e, 1) = Buf(hop, e, 1) /\ Buf(hop', e, 2) = Buf(hop, e, 2)
        /\ Buf(hop', e, 3) = Buf(hop, e, 3)
    BY <1>8
  <2>2. (StateOf(copy', "up", 1) = "none") <=> (StateOf(copy, "up", 1) = "none")
    BY <1>6, <1>7 DEF Dirs
  <2>3. Header(e)' = Header(e)
    BY <1>2, <2>2, HeaderSame
  <2> QED BY <1>2, <2>1, <2>3, TotalFrame DEF Orderly
<1>12. ASSUME NEW s \in Sides PROVE Undisturbed(s)'
  <2>1. \A e \in Dirs, g \in 1..2 :
          StateOf(copy, e, g) = "done" => StateOf(copy', e, g) = "done"
    BY <1>6, <1>7
  <2> QED BY <1>2, <2>1, UndisturbedFrame DEF Orderly
<1> QED BY <1>10, <1>11, <1>12 DEF Orderly

-----------------------------------------------------------------------------
(* A handler returns: what it closes has come to its end. *)
LEMMA CleanReturns ==
    ASSUME RInv, Orderly, NEW s \in Sides, RelayReturns(s)
    PROVE  Orderly'
<1>1. RestTyped /\ hop \in Hops
  BY TypesAre DEF RInv, DataTyped
<1> DEFINE o == Out(s)
           p == Opp(o)
           G == CloseConn(hop, s)
<1>2. hop' = CloseStream(G, s)
  BY DEF RelayReturns, Shut
<1>3. /\ phase[s] = "relay" /\ phase' = [phase EXCEPT ![s] = "done"]
      /\ StateOf(copy, o, 1) = "done" /\ StateOf(copy, p, 2) = "done"
      /\ UNCHANGED <<copy, expired, sent, got>>
  BY DEF RelayReturns, StateOf
<1>4. phase'[s] = "done" /\ \A r \in Sides : r # s => phase'[r] = phase[r]
  BY <1>1, <1>3 DEF RestTyped
<1>5. o \in Dirs /\ p \in Dirs
  BY SideRuns
<1>6. ASSUME NEW e \in Dirs, NEW j \in 1..3
      PROVE  /\ G \in Hops /\ Buf(G, e, j) = Buf(hop, e, j)
             /\ Fin(hop, e, j) => Fin(G, e, j)
             /\ Fin(G, e, j) => Fin(hop, e, j) \/ (e = p /\ j = 3)
             /\ Dead(G, e, j) => \/ Dead(hop, e, j) \/ (e = o /\ j = 1)
                                 \/ (e = p /\ j = 3)
  BY <1>1, CloseConnIs
<1>7. G \in Hops
  BY <1>5, <1>6
<1> HIDE DEF G, o, p
<1>8. ASSUME NEW e \in Dirs, NEW j \in 1..3
      PROVE  /\ Buf(hop', e, j) = Buf(hop, e, j)
             /\ Fin(hop, e, j) => Fin(hop', e, j)
             /\ Fin(hop', e, j) => \/ Fin(hop, e, j) \/ (e = p /\ j = 3)
                                   \/ (e = o /\ j = 2)
             /\ Dead(hop', e, j) => \/ Dead(hop, e, j) \/ (e = o /\ j = 1)
                                    \/ (e = p /\ j = 3) \/ (e = p /\ j = 2)
  <2>1. /\ Buf(hop', e, j) = Buf(G, e, j)
        /\ Fin(hop', e, j) <=> (Fin(G, e, j) \/ (e = o /\ j = 2))
        /\ Dead(hop', e, j) <=> (Dead(G, e, j) \/ (e = p /\ j = 2))
    BY <1>2, <1>7, CloseStreamIs DEF o, p
  <2> QED BY <1>6, <2>1
<1>9. ASSUME NEW e \in Dirs PROVE EndsAfter(e)'
  <2>1. EndsAfter(e)
    BY DEF Orderly
  <2>2. /\ Buf(hop', e, 1) = Buf(hop, e, 1) /\ Buf(hop', e, 2) = Buf(hop, e, 2)
        /\ Fin(hop, e, 1) => Fin(hop', e, 1)
        /\ Fin(hop, e, 2) => Fin(hop', e, 2)
        /\ Fin(hop', e, 2) => Fin(hop, e, 2) \/ e = o
        /\ Fin(hop', e, 3) => Fin(hop, e, 3) \/ e = p
        /\ Dead(hop', e, 1) => Dead(hop, e, 1) \/ e = o
        /\ Dead(hop', e, 2) => Dead(hop, e, 2) \/ e = p
        /\ Dead(hop', e, 3) => Dead(hop, e, 3) \/ e = p
    BY <1>8
  <2> QED BY <1>3, <2>1, <2>2 DEF EndsAfter
<1>10. ASSUME NEW e \in Dirs PROVE Total(e)'
  <2>1. /\ Buf(hop', e, 1) = Buf(hop, e, 1) /\ Buf(hop', e, 2) = Buf(hop, e, 2)
        /\ Buf(hop', e, 3) = Buf(hop, e, 3)
    BY <1>8
  <2>2. (phase'["remote"] \in {"none", "head"}) <=> (phase["remote"] \in {"none", "head"})
    BY <1>3, <1>4 DEF Sides
  <2>3. Header(e)' = Header(e)
    BY <1>3, <2>2, HeaderSame
  <2> QED BY <1>3, <2>1, <2>3, TotalFrame DEF Orderly
<1>11. ASSUME NEW r \in Sides PROVE Undisturbed(r)'
  <2>1. CASE r # s
    BY <1>3, <1>4, <2>1, UndisturbedFrame DEF Orderly
  <2>2. CASE r = s
    BY <1>3, <1>4, <2>2, UndisturbedFrame DEF Orderly, o, p
  <2> QED BY <2>1, <2>2
<1> QED BY <1>9, <1>10, <1>11 DEF Orderly

-----------------------------------------------------------------------------
(* The stronger invariant holds at the start, *)
LEMMA EInvInit ==
    ASSUME RelayInit
    PROVE  EInv
<1>1. ASSUME NEW d \in Dirs PROVE EndsAfter(d) /\ Total(d)
  <2>1. /\ Buf(hop, d, 1) = <<>> /\ Buf(hop, d, 2) = <<>> /\ Buf(hop, d, 3) = <<>>
        /\ ~Fin(hop, d, 2) /\ ~Fin(hop, d, 3)
        /\ ~Dead(hop, d, 1) /\ ~Dead(hop, d, 2) /\ ~Dead(hop, d, 3)
        /\ StateOf(copy, d, 1) = "none" /\ StateOf(copy, d, 2) = "none"
        /\ got[d] = <<>> /\ sent[d] = 0 /\ StateOf(copy, "up", 1) = "none"
    BY RelayStarts DEF Dirs
  <2>2. EndsAfter(d)
    BY <2>1 DEF EndsAfter
  <2>3. Header(d) = 0
    BY <2>1 DEF Header
  <2>4. Total(d)
    BY <2>1, <2>3 DEF Total, Past1, Past2
  <2> QED BY <2>2, <2>4
<1>2. ASSUME NEW s \in Sides PROVE Undisturbed(s)
  <2>1. expired[s] = {}
    BY DEF RelayInit
  <2>2. phase[s] \in {"open", "none"}
    BY RelayStarts DEF Sides
  <2> QED BY <2>1, <2>2 DEF Undisturbed
<1> QED BY <1>1, <1>2, RInvInit DEF EInv, Orderly

(* A step that is no fault keeps an orderly connection orderly. *)
LEMMA OrderlyNext ==
    ASSUME RInv, Clean, Orderly, [RelayNext]_relayVars, ~faulty'
    PROVE  Orderly'
<1>1. CASE UNCHANGED relayVars
  <2>1. UNCHANGED <<hop, copy, phase, expired, sent, got>>
    BY <1>1 DEF relayVars
  <2>2. ASSUME NEW e \in Dirs PROVE EndsAfter(e)' /\ Total(e)'
    <3>1. Header(e)' = Header(e)
      BY <2>1, HeaderSame
    <3>2. EndsAfter(e)'
      BY <2>1 DEF Orderly, EndsAfter
    <3> QED BY <2>1, <3>1, <3>2, TotalFrame DEF Orderly
  <2>3. ASSUME NEW s \in Sides PROVE Undisturbed(s)'
    BY <2>1 DEF Orderly, Undisturbed
  <2> QED BY <2>2, <2>3 DEF Orderly
<1>2. ASSUME NEW d \in Dirs,
             \/ AppWrites(d) \/ AppWritesEmpty(d) \/ AppWriteDropped(d)
             \/ AppEnds(d) \/ AppReads(d)
      PROVE  Orderly'
  <2>1. ~AppWritesEmpty(d) /\ ~AppWriteDropped(d)
    BY DEF AppWritesEmpty, AppWriteDropped, Clean
  <2> QED BY <1>2, <2>1, CleanApps
<1>3. ASSUME NEW s \in Sides, AppAborts(s) \/ Side(s) PROVE Orderly'
  <2>1. RelayReturns(s)
    BY <1>3 DEF AppAborts, Side, IdleFires
  <2> QED BY <2>1, CleanReturns
<1>4. ~TunnelEnds
  BY DEF TunnelEnds
<1>5. CASE LocalOpens
  <2>1. ~LateStream
    BY DEF LateStream, Orderly, Undisturbed, Sides
  <2>2. OpenStream \/ WriteHead
    BY <1>5, <2>1 DEF LocalOpens, OpenFails, WriteHeadFails
  <2> QED BY <2>2, CleanPhase, CleanWriteHead
<1>6. CASE RemoteOpens
  <2>1. AcceptStream \/ ReadHead \/ Dialled
    BY <1>6 DEF RemoteOpens, ReadHeadFails, DialFails, ServesProxy
  <2> QED BY <2>1, CleanPhase, CleanReadHead, CleanDial
<1>7. ASSUME NEW d \in Dirs, NEW h \in 1..2, Copy(d, h) PROVE Orderly'
  <2>1. CopyLoses(d, h) => StateOf(copy, d, h) = "run" /\ SinkFails(d, h)
    BY DEF CopyLoses, StateOf
  <2>2. ~CopyLoses(d, h)
    BY <2>1, CleanCopy
  <2>3. ~CopySkips(d, h) /\ ~CopyDrops(d, h)
    BY DEF CopySkips, CopyDrops, Clean
  <2> QED BY <1>7, <2>2, <2>3, CleanMoves, CleanEnds DEF Copy
<1> QED BY <1>1, <1>2, <1>3, <1>4, <1>5, <1>6, <1>7 DEF RelayNext

(* Nothing makes a connection clean that was not. *)
LEMMA CleanBefore ==
    ASSUME [RelayNext]_relayVars, faulty \in BOOLEAN, Clean'
    PROVE  Clean /\ ~faulty'
<1>1. UNCHANGED <<kind, transport>> /\ (faulty' = faulty \/ faulty' = TRUE)
  <2>1. CASE UNCHANGED relayVars
    BY <2>1 DEF relayVars
  <2>2. ASSUME NEW d \in Dirs,
               \/ AppWrites(d) \/ AppWritesEmpty(d) \/ AppWriteDropped(d)
               \/ AppEnds(d) \/ AppReads(d)
        PROVE  UNCHANGED <<kind, transport, faulty>>
    BY <2>2 DEF AppWrites, AppWritesEmpty, AppWriteDropped, AppEnds, AppReads
  <2>3. ASSUME NEW s \in Sides, AppAborts(s) \/ Side(s)
        PROVE  UNCHANGED <<kind, transport>> /\ (faulty' = faulty \/ faulty' = TRUE)
    BY <2>3 DEF AppAborts, Side, IdleFires, RelayReturns
  <2>4. ASSUME TunnelEnds \/ LocalOpens \/ RemoteOpens
        PROVE  UNCHANGED <<kind, transport>> /\ (faulty' = faulty \/ faulty' = TRUE)
    BY <2>4 DEF TunnelEnds, LocalOpens, RemoteOpens, OpenStream, OpenFails, LateStream,
                WriteHead, WriteHeadFails, AcceptStream, ReadHead, ReadHeadFails,
                Dialled, DialFails, ServesProxy
  <2>5. ASSUME NEW d \in Dirs, NEW h \in 1..2, Copy(d, h)
        PROVE  UNCHANGED <<kind, transport, faulty>>
    BY <2>5 DEF Copy, CopyMoves, CopyLoses, CopySkips, CopyDrops, CopyEnds,
                CopyCloses
  <2> QED BY <2>1, <2>2, <2>3, <2>4, <2>5 DEF RelayNext
<1> QED BY <1>1 DEF Clean

(* and is kept by every step. *)
LEMMA EInvNext ==
    ASSUME EInv, [RelayNext]_relayVars
    PROVE  EInv'
<1>1. RInv /\ faulty \in BOOLEAN
  BY TypesAre DEF EInv, RInv, RestTyped
<1>2. RInv'
  BY <1>1, RInvNext
<1>3. ASSUME Clean' PROVE Orderly'
  <2>1. Clean /\ ~faulty'
    BY <1>1, <1>3, CleanBefore
  <2> QED BY <1>1, <2>1, OrderlyNext DEF EInv
<1> QED BY <1>2, <1>3 DEF EInv

(* The end of a stream that an application sees over QUIC is the other     *)
(* one's: its writing side is closed and all it wrote has been read, for   *)
(* any amount of data and any room in the hops. The half close on one      *)
(* direction never cuts the other one short.                               *)
THEOREM EndsAreReal == RelaySpec => []EofIsReal
<1>1. RelayInit => EInv
  BY EInvInit
<1>2. EInv /\ [RelayNext]_relayVars => EInv'
  BY EInvNext
<1>3. EInv => EofIsReal
  <2> SUFFICES ASSUME EInv, Clean, NEW d \in Dirs, AtEof(d)
               PROVE  hop[d][1].fin /\ Len(got[d]) = sent[d]
    BY DEF EofIsReal, Clean
  <2>1. RInv /\ Orderly
    BY DEF EInv
  <2>2. DataTyped /\ Control /\ EndsAfter(d) /\ Total(d)
    BY <2>1, TypesAre DEF RInv, Orderly
  <2>3. Fin(hop, d, 3) /\ Buf(hop, d, 3) = <<>>
    BY DEF AtEof, Fin, Buf
  <2>4. /\ StateOf(copy, d, 2) = "done" /\ Buf(hop, d, 2) = <<>>
        /\ Fin(hop, d, 1) /\ Buf(hop, d, 1) = <<>>
    BY <2>2, <2>3 DEF EndsAfter
  <2>5. Header(d) = 0
    <3>1. d = "up" => phase["remote"] \in {"relay", "done"}
      BY <2>2, <2>4, SideOfIs DEF Control
    <3> QED BY <3>1 DEF Header
  <2>6. Len(got[d]) \in Nat
    BY <2>2, CountsTyped
  <2>7. PICK n \in Nat : n = Len(got[d])
    BY ONLY <2>6
  <2>8. sent[d] = n + 0 - 0 + 0 + 0
    BY <2>2, <2>3, <2>4, <2>5, <2>7 DEF Total, Past1, Past2
  <2> QED BY <2>4, <2>7, <2>8 DEF Fin
<1> QED BY <1>1, <1>2, <1>3, PTL DEF RelaySpec
=============================================================================
