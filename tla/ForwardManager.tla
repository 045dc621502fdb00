-------------------------- MODULE ForwardManager --------------------------
(***************************************************************************)
(* The forwarding side of a Local worker: the ForwardManager with its      *)
(* listeners (proxy/forward_mgr.go, proxy/proxy_l.go), the goroutine that  *)
(* watches the saved rules, RunLocal which gives it tunnels, and StopLocal *)
(* (pro/local.go).                                                         *)
(*                                                                         *)
(* A method of the manager holds m.mu throughout and is one step. A rule   *)
(* is a key (protocol and listen address) with a target; what a listener   *)
(* does with an accepted connection is Relay's and UdpForward's subject.   *)
(***************************************************************************)
EXTENDS Integers, FiniteSets

CONSTANTS
    Keys,             \* listenKey of a rule
    Targets,          \* remote IP and port of a rule
    Configs,          \* the saved configurations considered
    MaxServeFailures, \* maxServeFailures, 10 in the code
    MaxEdits,         \* bound: times the saved configuration is changed
    MaxBindFaults,    \* bound: binds that fail
    MaxServeFaults,   \* bound: accept errors
    MaxTunnels        \* bound: tunnels RunLocal gets

ASSUME ForwardAssumption ==
    /\ {MaxServeFailures, MaxEdits, MaxBindFaults, MaxServeFaults, MaxTunnels}
         \subseteq Nat
    /\ IsFiniteSet(Keys) /\ "proxy" \notin Keys
    /\ "off" \notin Targets
    /\ \A s \in Configs :
         /\ s.mode \in {"tun", "forward"}
         /\ s.rules \in [Keys -> Targets \cup {"off"}]
         /\ s.status \in {"ok", "invalid", "bad", "gone"}

VARIABLES
    saved,    \* goodlink.json as a worker sees it: mode, rules and status
    entries,  \* m.entries by key: the runner, or NoRunner
    builtin,  \* m.builtin
    bound,    \* sockets this process has bound: keys, and "proxy"
    quic,     \* m.quic: the tunnel's number, 0 for nil
    closed,   \* m.closed
    ptr,      \* m_forward_mgr # nil
    state,    \* m_local_state
    rpc,      \* where RunLocal is
    tunnel,   \* RunLocal's quic_conn
    wpc,      \* where watchUIForwardConfig is
    seen,     \* what its GetService returned
    last,     \* its last
    spc,      \* where StopLocal is
    shown,    \* what ReportProxyAddr / ReportProxyDenied said last
    edits, bindFaults, serveFaults, tunnels   \* counters for the bounds

mgr == <<entries, builtin, bound, quic, closed>>
local == <<ptr, state, rpc, tunnel, shown, tunnels>>
watch == <<wpc, seen, last>>
vars == <<saved, mgr, local, watch, spc, edits, bindFaults, serveFaults>>

NoRunner == [target |-> "off", conn |-> 0, failures |-> 0, failed |-> FALSE]

Rules == [Keys -> Targets \cup {"off"}]

(* In Configs, status is "ok"; "invalid": NormalizeAndValidate refuses the *)
(* file, the rules being fine; "bad": RulesFromUI refuses a rule too;      *)
(* "gone": GetService does not find the service.                           *)
ForwardFingerprint(s) == [mode |-> s.mode, rules |-> s.rules]

RulesFromUI(s) == s.status # "bad"

-----------------------------------------------------------------------------
(* Runners *)

(* Mutant: a listener created after the tunnel does not get it. *)
NewRunnerUnlinked(t) == [NoRunner EXCEPT !.target = t]

(* newForwardRunner followed by SetQuicConn when there is a tunnel.        *)
NewRunner(t) == [NoRunner EXCEPT !.target = t, !.conn = quic]

Live(k) == entries[k] # NoRunner

(* Mutant: the new target only reaches the entry's rule. *)
SetTargetRuleOnly(r, t) == r

SetTarget(r, t) == [r EXCEPT !.target = t]

(* A temporary accept error is retried; one more than MaxServeFailures in  *)
(* a row, or any other error, ends Serve. The socket stays bound.          *)
ServeError(r) ==
    {[r EXCEPT !.failed = TRUE],
     [r EXCEPT !.failures = IF @ < MaxServeFailures THEN @ + 1 ELSE @,
               !.failed = r.failures >= MaxServeFailures]}

ServeFails ==
    /\ serveFaults < MaxServeFaults
    /\ serveFaults' = serveFaults + 1
    /\ \/ \E k \in Keys : /\ Live(k) /\ ~entries[k].failed
                          /\ \E r \in ServeError(entries[k]) :
                                entries' = [entries EXCEPT ![k] = r]
                          /\ UNCHANGED builtin
       \/ /\ builtin # NoRunner /\ ~builtin.failed
          /\ builtin' \in ServeError(builtin)
          /\ UNCHANGED entries
    /\ UNCHANGED <<saved, bound, quic, closed, local, watch, spc, edits,
                   bindFaults>>

(* Accept succeeds again. *)
ServeAccepts(k) ==
    /\ entries[k].failures > 0 /\ ~entries[k].failed
    /\ entries' = [entries EXCEPT ![k].failures = 0]
    /\ UNCHANGED <<saved, builtin, bound, quic, closed, local, watch, spc,
                   edits, bindFaults, serveFaults>>

-----------------------------------------------------------------------------
(* The manager *)

Kept(rules) == {k \in Keys : Live(k) /\ rules[k] # "off"}
Stale(rules) == {k \in Kept(rules) : entries[k].failed}
Added(rules) == {k \in Keys : ~Live(k) /\ rules[k] # "off"}

Applied(rules, fails) == (Added(rules) \cap fails) = {}

(* The entries after Apply when binding the keys in fails does not work:   *)
(* unwanted ones go first; a kept one is retargeted, or rebuilt when it    *)
(* has failed and dropped when that does not work; new ones come last, all *)
(* of them or none.                                                        *)
ApplyEntries(rules, fails) ==
    [k \in Keys |->
        IF k \in Stale(rules)
        THEN IF k \in fails THEN NoRunner ELSE NewRunner(rules[k])
        ELSE IF k \in Kept(rules) THEN SetTarget(entries[k], rules[k])
        ELSE IF k \in Added(rules) /\ Applied(rules, fails)
        THEN NewRunner(rules[k])
        ELSE NoRunner]

(* Mutant: the runners already created are not closed when one fails.      *)
ApplyBoundLeaky(rules, fails) ==
    (bound \cap {"proxy"}) \cup ((Kept(rules) \cup Added(rules)) \ fails)

(* The sockets bound afterwards. *)
ApplyBound(rules, fails) ==
    (bound \cap {"proxy"})
      \cup (Kept(rules) \ (Stale(rules) \cap fails))
      \cup (IF Applied(rules, fails) THEN Added(rules) ELSE {})

Apply(rules, fails) ==
    IF closed THEN UNCHANGED <<entries, bound>>
    ELSE /\ entries' = ApplyEntries(rules, fails)
         /\ bound' = ApplyBound(rules, fails)

(* The keys whose bind fails are chosen by the system, within the bound.   *)
ApplySome(rules, fails) ==
    /\ fails \subseteq IF closed THEN {} ELSE Stale(rules) \cup Added(rules)
    /\ bindFaults + Cardinality(fails) <= MaxBindFaults
    /\ bindFaults' = bindFaults + Cardinality(fails)
    /\ Apply(rules, fails)

SetQuic(c) ==
    IF closed THEN UNCHANGED <<quic, entries, builtin>>
    ELSE /\ quic' = c
         /\ entries' = [k \in Keys |-> IF Live(k) THEN [entries[k] EXCEPT !.conn = c]
                                       ELSE NoRunner]
         /\ builtin' = IF builtin = NoRunner THEN builtin
                       ELSE [builtin EXCEPT !.conn = c]

(* 127.0.0.1:1080, else any port; an entry that exists is returned as it   *)
(* is. The result is what is reported.                                     *)
StartBuiltinProxy ==
    \/ /\ closed
       /\ shown' = "denied"
       /\ UNCHANGED <<builtin, bound, bindFaults>>
    \/ /\ ~closed /\ builtin # NoRunner
       /\ shown' = "addr"
       /\ UNCHANGED <<builtin, bound, bindFaults>>
    \/ /\ ~closed /\ builtin = NoRunner
       /\ \E n \in 0..2 :       \* binds that fail
            /\ bindFaults + n <= MaxBindFaults
            /\ bindFaults' = bindFaults + n
            /\ builtin' = IF n = 2 THEN NoRunner ELSE NewRunner("proxy")
            /\ bound' = IF n = 2 THEN bound ELSE bound \cup {"proxy"}
            /\ shown' = IF n = 2 THEN "denied" ELSE "addr"

StopBuiltinProxy == builtin' = NoRunner /\ bound' = bound \ {"proxy"}

Close ==
    /\ closed' = TRUE
    /\ quic' = 0
    /\ builtin' = NoRunner
    /\ entries' = [k \in Keys |-> NoRunner]
    /\ bound' = {}

-----------------------------------------------------------------------------
(* The saved configuration, written by the UI process *)

Edit ==
    /\ edits < MaxEdits
    /\ edits' = edits + 1
    /\ saved' \in Configs /\ saved' # saved
    /\ UNCHANGED <<mgr, local, watch, spc, bindFaults, serveFaults>>

-----------------------------------------------------------------------------
(* RunLocal *)

(* setupForwardMode: the watcher starts with what Apply was given.         *)
SetupForwardMode ==
    /\ rpc = "setup"
    /\ IF saved.status = "gone" \/ saved.mode = "tun" \/ ~RulesFromUI(saved)
       THEN /\ rpc' = "exit"
            /\ UNCHANGED <<mgr, bindFaults, ptr, watch>>
       ELSE \E fails \in SUBSET Keys :
              /\ UNCHANGED quic
              /\ IF Applied(saved.rules, fails)
                 THEN /\ ApplySome(saved.rules, fails)
                      /\ rpc' = "loop" /\ ptr' = TRUE
                      /\ wpc' = "tick" /\ last' = ForwardFingerprint(saved)
                      /\ UNCHANGED <<seen, builtin, closed>>
                 ELSE /\ bindFaults < MaxBindFaults
                      /\ bindFaults' = bindFaults + 1
                      /\ entries' = entries /\ bound' = {}
                      /\ closed' = TRUE /\ rpc' = "exit"
                      /\ UNCHANGED <<ptr, watch, builtin>>
    /\ UNCHANGED <<saved, state, tunnel, shown, tunnels, spc, edits, serveFaults>>

(* The loop looks at the state, then connects; a failed attempt goes back. *)
RunLocalLoops ==
    /\ \/ rpc = "loop" /\ state = 1 /\ rpc' = "connect"
       \/ rpc = "connect" /\ rpc' = "loop"
    /\ UNCHANGED <<saved, mgr, ptr, state, tunnel, shown, tunnels, watch, spc,
                   edits, bindFaults, serveFaults>>

(* GetLocalQuicConn gave a connection; the manager gets it, whatever       *)
(* StopLocal has done to the state since.                                  *)
SetsQuic ==
    /\ rpc = "connect"
    /\ tunnels < MaxTunnels
    /\ tunnels' = tunnels + 1
    /\ tunnel' = tunnels + 1
    /\ IF ptr THEN SetQuic(tunnels + 1) ELSE UNCHANGED <<quic, entries, builtin>>
    /\ rpc' = "proxy"
    /\ UNCHANGED <<saved, bound, closed, ptr, state, shown, watch, spc, edits,
                   bindFaults, serveFaults>>

(* The loop ends: state is no longer 1, or an error.                       *)
RunLocalReturns ==
    /\ rpc \in {"loop", "connect"}
    /\ rpc' = "exit"
    /\ UNCHANGED <<saved, mgr, ptr, state, tunnel, shown, tunnels, watch, spc,
                   edits, bindFaults, serveFaults>>

(* applyLocalProxy: Remote allows the proxy or does not.                   *)
ApplyLocalProxy ==
    /\ rpc = "proxy"
    /\ rpc' = "up"
    /\ \/ /\ IF ptr THEN StopBuiltinProxy ELSE UNCHANGED <<builtin, bound>>
          /\ shown' = "denied"
          /\ UNCHANGED bindFaults
       \/ /\ ptr /\ StartBuiltinProxy
       \/ /\ ~ptr /\ shown' = "denied"
          /\ UNCHANGED <<builtin, bound, bindFaults>>
    /\ UNCHANGED <<saved, entries, quic, closed, ptr, state, tunnel, tunnels,
                   watch, spc, edits, serveFaults>>

(* m_local_state is a plain variable: this overwrites StopLocal's 0.       *)
Connected ==
    /\ rpc = "up"
    /\ rpc' = "health" /\ state' = 2
    /\ UNCHANGED <<saved, mgr, ptr, tunnel, shown, tunnels, watch, spc, edits,
                   bindFaults, serveFaults>>

(* ProcessHealth returned; state stays 0 when StopLocal set it.            *)
HealthEnds ==
    /\ rpc = "health"
    /\ rpc' = "release"
    /\ state' = IF state # 0 THEN 1 ELSE 0
    /\ UNCHANGED <<saved, mgr, ptr, tunnel, shown, tunnels, watch, spc, edits,
                   bindFaults, serveFaults>>

ClearsQuic ==
    /\ rpc = "release"
    /\ rpc' = "loop" /\ tunnel' = 0
    /\ IF ptr THEN SetQuic(0) ELSE UNCHANGED <<quic, entries, builtin>>
    /\ UNCHANGED <<saved, bound, closed, ptr, state, shown, tunnels, watch, spc,
                   edits, bindFaults, serveFaults>>

-----------------------------------------------------------------------------
(* watchUIForwardConfig *)

(* A tick: the state, then the service. *)
WatchTick ==
    /\ wpc = "tick"
    /\ \/ state = 0 /\ wpc' = "done" /\ UNCHANGED seen
       \/ state # 0 /\ saved.status # "gone" /\ wpc' = "check" /\ seen' = saved
    /\ UNCHANGED <<saved, mgr, local, last, spc, edits, bindFaults, serveFaults>>

(* The tick takes no notice of what it read: same as last, or the file as  *)
(* it is now is refused. A file without the service is not.                *)
Skips == saved.status \in {"invalid", "bad"} \/ ForwardFingerprint(seen) = last

(* The file is read a second time to validate it; what is applied is what  *)
(* was read the first time.                                                *)
WatchSkips ==
    /\ wpc = "check"
    /\ Skips \/ (seen.mode = "forward" /\ ~RulesFromUI(seen))
    /\ wpc' = "tick"
    /\ UNCHANGED <<saved, mgr, local, seen, last, spc, edits, bindFaults,
                   serveFaults>>

WatchOtherMode ==
    /\ wpc = "check" /\ ~Skips /\ seen.mode = "tun"
    /\ wpc' = "tick"
    /\ last' = ForwardFingerprint(seen)
    /\ UNCHANGED <<saved, mgr, local, seen, spc, edits, bindFaults, serveFaults>>

(* Mutant: last is not moved. *)
LastAfterNever(ok) == last

(* last moves only when Apply returned nil. *)
LastAfter(ok) == IF ok THEN ForwardFingerprint(seen) ELSE last

WatchApplies ==
    /\ wpc = "check" /\ ~Skips /\ seen.mode = "forward" /\ RulesFromUI(seen)
    /\ wpc' = "tick"
    /\ \E fails \in SUBSET Keys :
         /\ ApplySome(seen.rules, fails)
         /\ last' = LastAfter(closed \/ Applied(seen.rules, fails))
    /\ UNCHANGED <<saved, builtin, quic, closed, local, seen, spc, edits,
                   serveFaults>>

-----------------------------------------------------------------------------
(* StopLocal, on the signal goroutine *)

StopBegins ==
    /\ spc = "none" /\ rpc # "setup"
    /\ state' = 0
    /\ spc' = IF ptr THEN "close" ELSE "done"
    /\ UNCHANGED <<saved, mgr, ptr, rpc, tunnel, shown, tunnels, watch, edits,
                   bindFaults, serveFaults>>

StopCloses ==
    /\ spc = "close"
    /\ Close
    /\ spc' = "nil"
    /\ UNCHANGED <<saved, local, watch, edits, bindFaults, serveFaults>>

StopForgets ==
    /\ spc = "nil"
    /\ ptr' = FALSE
    /\ spc' = "done"
    /\ UNCHANGED <<saved, mgr, state, rpc, tunnel, shown, tunnels, watch, edits,
                   bindFaults, serveFaults>>

-----------------------------------------------------------------------------
Init ==
    /\ saved \in {s \in Configs : s.mode = "forward" /\ s.status = "ok"}
    /\ entries = [k \in Keys |-> NoRunner] /\ builtin = NoRunner
    /\ bound = {} /\ quic = 0 /\ closed = FALSE
    /\ ptr = FALSE /\ state = 1 /\ rpc = "setup" /\ tunnel = 0 /\ shown = "none"
    /\ wpc = "none" /\ seen = saved /\ last = ForwardFingerprint(saved)
    /\ spc = "none"
    /\ edits = 0 /\ bindFaults = 0 /\ serveFaults = 0 /\ tunnels = 0

Watcher == WatchTick \/ WatchSkips \/ WatchOtherMode \/ WatchApplies

Next ==
    \/ Edit \/ ServeFails \/ \E k \in Keys : ServeAccepts(k)
    \/ SetupForwardMode \/ RunLocalLoops \/ SetsQuic \/ RunLocalReturns
    \/ ApplyLocalProxy
    \/ Connected \/ HealthEnds \/ ClearsQuic
    \/ Watcher
    \/ StopBegins \/ StopCloses \/ StopForgets

Spec == Init /\ [][Next]_vars

(* The ticker keeps ticking. *)
FairSpec == Spec /\ WF_vars(Watcher)

-----------------------------------------------------------------------------
(* Properties *)

Runners == [target : Targets \cup {"off", "proxy"}, conn : 0..MaxTunnels,
            failures : 0..MaxServeFailures, failed : BOOLEAN]

TypeOK ==
    /\ saved \in Configs /\ seen \in Configs
    /\ last \in [mode : {"tun", "forward"}, rules : Rules]
    /\ entries \in [Keys -> Runners] /\ builtin \in Runners
    /\ bound \subseteq Keys \cup {"proxy"}
    /\ quic \in 0..MaxTunnels /\ tunnel \in 0..MaxTunnels
    /\ closed \in BOOLEAN /\ ptr \in BOOLEAN /\ state \in 0..2
    /\ rpc \in {"setup", "loop", "connect", "proxy", "up", "health",
                "release", "exit"}
    /\ wpc \in {"none", "tick", "check", "done"}
    /\ spc \in {"none", "close", "nil", "done"}
    /\ shown \in {"none", "addr", "denied"}
    /\ edits \in 0..MaxEdits /\ bindFaults \in 0..MaxBindFaults
    /\ serveFaults \in 0..MaxServeFaults /\ tunnels \in 0..MaxTunnels

(* Every bound socket belongs to an entry or to the proxy and every entry  *)
(* has its socket: an Apply that fails half way, a rebuild, a refused      *)
(* proxy and StopLocal leave no listener that nobody can close and no      *)
(* entry without one. After Close in particular nothing is bound again.    *)
SocketsOwned ==
    /\ TypeOK
    /\ bound = {k \in Keys : Live(k)}
                 \cup (IF builtin = NoRunner THEN {} ELSE {"proxy"})
    /\ closed => bound = {}

(* All listeners forward into the manager's tunnel, whatever the order in  *)
(* which tunnels come and go and listeners are created or rebuilt.         *)
TunnelFits ==
    /\ \A k \in Keys : Live(k) => entries[k].conn = quic
    /\ builtin # NoRunner => builtin.conn = quic

(* As long as no bind has failed, the rules the watcher has taken note of  *)
(* are the rules in force: no edit that comes between its two reads, while *)
(* a listener is down, or during a reconnect, is half applied.             *)
InForce ==
    bindFaults = 0 /\ wpc # "none" /\ ~closed /\ last.mode = "forward" =>
        \A k \in Keys : entries[k].target = last.rules[k]

(* Edits that come to an end are taken note of: failing binds are retried. *)
EditsSettle ==
    <>[](state # 0 /\ wpc # "none" /\ saved.status = "ok")
        => <>[](wpc = "done" \/ last = ForwardFingerprint(saved))
=============================================================================
