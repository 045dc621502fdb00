------------------------------ MODULE Session ------------------------------
(***************************************************************************)
(* The rendezvous of package pro: Local processes (pro/local.go) and one   *)
(* Remote process (pro/remote.go) that share a tunnel key find each other  *)
(* through Redis (pro/comm.go) and punch a tunnel.                         *)
(*                                                                         *)
(* A Local registers a fresh session under the one key that all Locals of  *)
(* the tunnel share (regKey); the Remote claims it; from then on the two   *)
(* exchange a record under a key of the session's own (sess), each side    *)
(* reading it, acting on its State and writing the whole record back.      *)
(* No Redis command is conditional: Exists/Set, Get/Del and Get/Set are    *)
(* separate commands and separate steps here.                              *)
(***************************************************************************)
EXTENDS Integers, Sequences, FiniteSets

CONSTANTS
    Locals,             \* Local processes that share the tunnel key
    Configs,            \* Remote settings a session carries: transport, AllowLocalProxy
    LocalVersion,       \* version of each Local, a sequence of numbers
    RemoteVersion,      \* version of the Remote
    MaxSessions,        \* bound: number of session identifiers drawn
    MaxConnectAttempts, \* maxConnectAttempts, 15 in the code
    Faults,             \* Redis commands that may fail
    None                \* absent key, unset field

ASSUME SessionAssumption ==
    /\ MaxSessions \in Nat
    /\ MaxConnectAttempts \in Nat \ {0}
    /\ LocalVersion \in [Locals -> Seq(Nat)]
    /\ RemoteVersion \in Seq(Nat)
    /\ Faults \subseteq {"exists", "get", "set", "del"}

Sids == 1..MaxSessions

(* What STUN says of a side: WanPort1 = WanPort2 ("cone", NAT1-NAT3) or    *)
(* not ("sym", NAT4).                                                      *)
Nats == {"cone", "sym"}

(* RedisJsonType, without the timeouts and counters nobody branches on.    *)
(* laddr = None is LocalAddr.WanPort1 = 0: the Local sent no address.      *)
RedisJson ==
    [sid   : Sids,
     lver  : Seq(Nat),
     rver  : Seq(Nat),
     state : -2..4,
     cfg   : Configs \cup {None},
     laddr : Nats \cup {None},
     raddr : Nats \cup {None}]

ASSUME NoneAssumption == /\ None \notin RedisJson
                         /\ None \notin Sids
                         /\ None \notin Nats
                         /\ None \notin Configs
                         /\ None \notin [role : {"active", "passive"}, cfg : Configs, up : BOOLEAN]
                         /\ None \notin [role : {"active", "passive"}, cfg : Configs,
                                         started : BOOLEAN, chain : {"open", "conn", "nil"}]

(* A Local's tunnel endpoint; up is TunConn # nil. *)
LocalTun == [role : {"active", "passive"}, cfg : Configs, up : BOOLEAN]

(* The Remote's; chain is what its channel has delivered: nothing yet, a   *)
(* connection, or a signal without a connection (TunConn = nil).           *)
RemoteTun == [role : {"active", "passive"}, cfg : Configs,
              started : BOOLEAN, chain : {"open", "conn", "nil"}]

VARIABLES
    regKey,   \* registration under m_md5_tun_key
    sess,     \* record under each session's own key
    nextSid,  \* next session identifier (random in the code, so fresh)
    lpc,      \* where each Local is in RunLocal
    lsid,     \* its SessionID
    lnat,     \* its addr, as far as NAT type goes
    lrec,     \* its redisJson
    ltun,     \* its tun_active or tun_passive
    lcount,   \* its count of attempts since it last was connected
    rpc,      \* where the Remote is in RunRemote
    rcfg,     \* its m_svc
    rrec,     \* its redisJson
    rtun,     \* its tun_active or tun_passive
    served    \* sessions its handleConnection goroutines serve

redis  == <<regKey, sess>>
local  == <<lpc, lsid, lnat, lrec, ltun, lcount>>
remote == <<rpc, rcfg, rrec, rtun, served>>
vars   == <<regKey, sess, nextSid, lpc, lsid, lnat, lrec, ltun, lcount,
            rpc, rcfg, rrec, rtun, served>>

LocalPc  == {"exited", "probe", "exists", "set", "claim", "unreg",
             "poll", "handle", "connected"}
RemotePc == {"stopped", "scan", "claimed", "send", "poll", "handle", "wait"}

-----------------------------------------------------------------------------
(* Helpers *)

VersionsCompatible(a, b) ==
    IF Len(a) >= 2 /\ Len(b) >= 2
    THEN a[1] = b[1] /\ a[2] = b[2]
    ELSE a = b

(* RedisSessionSet: the whole record is written back, whatever is there;   *)
(* its error is ignored by every caller, so a failed write is a lost one.  *)
RedisSessionSet(s, rec) ==
    \/ sess' = [sess EXCEPT ![s] = rec]
    \/ "set" \in Faults /\ UNCHANGED sess

RedisSessionDel(s) ==
    \/ sess' = [sess EXCEPT ![s] = None]
    \/ "del" \in Faults /\ UNCHANGED sess

(* Mutant of DelRegistration: the key is left to expire. *)
DelRegistrationDropped == UNCHANGED regKey

(* Del of the registration key, by the Remote's claim and by a Local's     *)
(* RedisSessionUnregister: it removes whatever registration is there.      *)
DelRegistration ==
    \/ regKey' = None
    \/ "del" \in Faults /\ UNCHANGED regKey

(* RedisSessionGet fails: the key is absent, or the command failed. *)
GetFails(s) == sess[s] = None \/ "get" \in Faults

-----------------------------------------------------------------------------
(* Local *)

(* RunLocal returned: the worker process exits, and every resource of it   *)
(* with it.                                                                *)
LocalExit(l) ==
    /\ lpc'  = [lpc EXCEPT ![l] = "exited"]
    /\ lsid' = [lsid EXCEPT ![l] = None]
    /\ lnat' = [lnat EXCEPT ![l] = None]
    /\ lrec' = [lrec EXCEPT ![l] = None]
    /\ ltun' = [ltun EXCEPT ![l] = None]
    /\ lcount' = [lcount EXCEPT ![l] = 0]

(* count has reached maxConnectAttempts. *)
GivesUp(l) == lcount[l] >= MaxConnectAttempts

(* GetLocalQuicConn returned no connection and no error: Release, and      *)
(* perhaps give up.                                                        *)
AttemptFailed(l) ==
    IF GivesUp(l)
    THEN LocalExit(l)
    ELSE /\ lpc'  = [lpc EXCEPT ![l] = "probe"]
         /\ lsid' = [lsid EXCEPT ![l] = None]
         /\ lnat' = [lnat EXCEPT ![l] = None]
         /\ lrec' = [lrec EXCEPT ![l] = None]
         /\ ltun' = [ltun EXCEPT ![l] = None]
         /\ UNCHANGED lcount

(* The supervisor, or the user, starts the worker. *)
LocalStart(l) ==
    /\ lpc[l] = "exited"
    /\ lpc' = [lpc EXCEPT ![l] = "probe"]
    /\ UNCHANGED <<redis, nextSid, lsid, lnat, lrec, ltun, lcount, remote>>

(* One turn of RunLocal's loop up to registration: GetUDPAddr gives an     *)
(* address, count is incremented, a session identifier is drawn.           *)
LocalProbe(l) ==
    /\ lpc[l] = "probe"
    /\ nextSid \in Sids
    /\ \E nat \in Nats : lnat' = [lnat EXCEPT ![l] = nat]
    /\ nextSid' = nextSid + 1
    /\ lsid' = [lsid EXCEPT ![l] = nextSid]
    /\ lcount' = [lcount EXCEPT ![l] = @ + 1]
    /\ lpc' = [lpc EXCEPT ![l] = "exists"]
    /\ UNCHANGED <<redis, lrec, ltun, remote>>

(* GetUDPAddr gave no address in maxGetUDPAddrAttempts attempts. *)
LocalProbeFails(l) ==
    /\ lpc[l] = "probe"
    /\ LocalExit(l)
    /\ UNCHANGED <<redis, nextSid, remote>>

(* RedisSessionRegister's Exists. The loop reads .Val(), which is 0 when   *)
(* the command failed.                                                     *)
RegisterExists(l) ==
    /\ lpc[l] = "exists"
    /\ regKey = None \/ "exists" \in Faults
    /\ lpc' = [lpc EXCEPT ![l] = "set"]
    /\ UNCHANGED <<redis, nextSid, lsid, lnat, lrec, ltun, lcount, remote>>

(* The record a Local registers: its address only if it will dial          *)
(* (conn_type 1).                                                          *)
Registration(l) ==
    [sid   |-> lsid[l],
     lver  |-> LocalVersion[l],
     rver  |-> <<>>,
     state |-> 0,
     cfg   |-> None,
     laddr |-> IF lnat[l] = "cone" THEN lnat[l] ELSE None,
     raddr |-> None]

(* RedisSessionRegister's Set. *)
RegisterSet(l) ==
    /\ lpc[l] = "set"
    /\ regKey' = Registration(l)
    /\ lrec' = [lrec EXCEPT ![l] = Registration(l)]
    /\ lpc' = [lpc EXCEPT ![l] = "claim"]
    /\ UNCHANGED <<sess, nextSid, lsid, lnat, ltun, lcount, remote>>

RegisterSetFails(l) ==
    /\ lpc[l] = "set"
    /\ "set" \in Faults
    /\ LocalExit(l)
    /\ UNCHANGED <<redis, nextSid, remote>>

(* handleState0_RegisterSession finds the session's own key: claimed. *)
ClaimSeen(l) ==
    /\ lpc[l] = "claim"
    /\ sess[lsid[l]] # None
    /\ lrec' = [lrec EXCEPT ![l] = sess[lsid[l]]]
    /\ lpc' = [lpc EXCEPT ![l] = "poll"]
    /\ UNCHANGED <<redis, nextSid, lsid, lnat, ltun, lcount, remote>>

(* Mutant of ClaimTimeout: the polls are not limited once the registration *)
(* is gone.                                                                *)
ClaimTimeoutUnclaimed(l) ==
    /\ lpc[l] = "claim"
    /\ GetFails(lsid[l])
    /\ regKey # None
    /\ lpc' = [lpc EXCEPT ![l] = "unreg"]
    /\ UNCHANGED <<redis, nextSid, lsid, lnat, lrec, ltun, lcount, remote>>

(* The last of its polls found nothing. How many polls fit between two     *)
(* steps of the others is not bounded, so any poll may be the last.        *)
ClaimTimeout(l) ==
    /\ lpc[l] = "claim"
    /\ GetFails(lsid[l])
    /\ lpc' = [lpc EXCEPT ![l] = "unreg"]
    /\ UNCHANGED <<redis, nextSid, lsid, lnat, lrec, ltun, lcount, remote>>

RedisSessionUnregister(l) ==
    /\ lpc[l] = "unreg"
    /\ DelRegistration
    /\ AttemptFailed(l)
    /\ UNCHANGED <<sess, nextSid, remote>>

(* GetLocalQuicConn's loop reads the session. *)
LocalGet(l) ==
    /\ lpc[l] = "poll"
    /\ sess[lsid[l]] # None
    /\ lrec' = [lrec EXCEPT ![l] = sess[lsid[l]]]
    /\ lpc' = [lpc EXCEPT ![l] = "handle"]
    /\ UNCHANGED <<redis, nextSid, lsid, lnat, ltun, lcount, remote>>

(* The session is gone: an error, which ends RunLocal. *)
LocalGetFails(l) ==
    /\ lpc[l] = "poll"
    /\ GetFails(lsid[l])
    /\ LocalExit(l)
    /\ UNCHANGED <<redis, nextSid, remote>>

(* States -1 and -2: the Remote refused the session. *)
LocalRefused(l) ==
    /\ lpc[l] = "handle"
    /\ lrec[l].state < 0
    /\ RedisSessionDel(lsid[l])
    /\ LocalExit(l)
    /\ UNCHANGED <<regKey, nextSid, remote>>

(* Mutant of Incompatible: only versions are compared. *)
IncompatibleVersion(l) == ~VersionsCompatible(LocalVersion[l], lrec[l].rver)

Incompatible(l) ==
    \/ ~VersionsCompatible(LocalVersion[l], lrec[l].rver)
    \/ lnat[l] = "sym" /\ lrec[l].raddr = "sym"

(* State 1, and the Local refuses: versions differ, or both sides are      *)
(* NAT4.                                                                   *)
LocalRefuses(l) ==
    /\ lpc[l] = "handle"
    /\ lrec[l].state = 1
    /\ Incompatible(l)
    /\ RedisSessionDel(lsid[l])
    /\ LocalExit(l)
    /\ UNCHANGED <<regKey, nextSid, remote>>

(* The endpoint handleState1_ProcessRemoteAddr creates and starts: a NAT4  *)
(* Local waits for the Remote (conn_type 0), another one dials it.         *)
NewLocalTun(l) ==
    [role |-> IF lnat[l] = "cone" THEN "active" ELSE "passive",
     cfg  |-> lrec[l].cfg,
     up   |-> FALSE]

(* Mutant of Answer: the address is not published. *)
AnswerUnaddressed(l) == [lrec[l] EXCEPT !.state = 2]

Answer(l) == [lrec[l] EXCEPT !.state = 2, !.laddr = lnat[l]]

(* handleState1_ProcessRemoteAddr, both conn_types: replace the endpoint,  *)
(* publish the address, State 1 -> State 2.                                *)
LocalAccepts(l) ==
    /\ lpc[l] = "handle"
    /\ lrec[l].state = 1
    /\ ~Incompatible(l)
    /\ ltun' = [ltun EXCEPT ![l] = NewLocalTun(l)]
    /\ lrec' = [lrec EXCEPT ![l] = Answer(l)]
    /\ RedisSessionSet(lsid[l], Answer(l))
    /\ lpc' = [lpc EXCEPT ![l] = "poll"]
    /\ UNCHANGED <<regKey, nextSid, lsid, lnat, lcount, remote>>

LocalWaits(l) ==
    /\ lpc[l] = "handle"
    /\ lrec[l].state \in {0, 2}
    /\ lpc' = [lpc EXCEPT ![l] = "poll"]
    /\ UNCHANGED <<redis, nextSid, lsid, lnat, lrec, ltun, lcount, remote>>

(* State 3 with a connection: handleLocalState3_ConnectionSuccess. *)
LocalConnected(l) ==
    /\ lpc[l] = "handle"
    /\ lrec[l].state = 3
    /\ ltun[l] # None /\ ltun[l].up
    /\ lpc' = [lpc EXCEPT ![l] = "connected"]
    /\ UNCHANGED <<redis, nextSid, lsid, lnat, lrec, ltun, lcount, remote>>

(* State 3 without a connection of its own, or state 4. *)
LocalNotConnected(l) ==
    /\ lpc[l] = "handle"
    /\ \/ lrec[l].state = 3 /\ (ltun[l] = None \/ ~ltun[l].up)
       \/ lrec[l].state = 4
    /\ AttemptFailed(l)
    /\ UNCHANGED <<redis, nextSid, remote>>

(* ProcessHealth returned: Release, count = 0, and around again. *)
LocalHealthEnds(l) ==
    /\ lpc[l] = "connected"
    /\ lpc'  = [lpc EXCEPT ![l] = "probe"]
    /\ lsid' = [lsid EXCEPT ![l] = None]
    /\ lnat' = [lnat EXCEPT ![l] = None]
    /\ lrec' = [lrec EXCEPT ![l] = None]
    /\ ltun' = [ltun EXCEPT ![l] = None]
    /\ lcount' = [lcount EXCEPT ![l] = 0]
    /\ UNCHANGED <<redis, nextSid, remote>>

(* The worker is killed or stopped at any point. *)
LocalCrash(l) ==
    /\ lpc[l] # "exited"
    /\ LocalExit(l)
    /\ UNCHANGED <<redis, nextSid, remote>>

-----------------------------------------------------------------------------
(* Remote *)

(* processSession ends: Release, and back to RunRemote's loop. *)
RemoteRelease ==
    /\ rpc' = "scan"
    /\ rrec' = None
    /\ rtun' = None

RemoteStart ==
    /\ rpc = "stopped"
    /\ rpc' = "scan"
    /\ rcfg' \in Configs
    /\ UNCHANGED <<redis, nextSid, local, rrec, rtun, served>>

(* RedisSessionClaim's Get. *)
ClaimGet ==
    /\ rpc = "scan"
    /\ regKey # None
    /\ rrec' = regKey
    /\ rpc' = "claimed"
    /\ UNCHANGED <<redis, nextSid, local, rcfg, rtun, served>>

(* RedisSessionClaim's Del. *)
ClaimDel ==
    /\ rpc = "claimed"
    /\ DelRegistration
    /\ rpc' = "send"
    /\ UNCHANGED <<sess, nextSid, local, rcfg, rrec, rtun, served>>

VersionAccepted == VersionsCompatible(RemoteVersion, rrec.lver)

(* handleState1_SendRemoteAddr refuses the version: State = -1. *)
SendRefusal ==
    /\ rpc = "send"
    /\ ~VersionAccepted
    /\ RedisSessionSet(rrec.sid, [rrec EXCEPT !.state = -1, !.rver = RemoteVersion])
    /\ RemoteRelease
    /\ UNCHANGED <<regKey, nextSid, local, rcfg, served>>

(* ... or GetUDPAddr fails, of which the Local hears nothing. *)
SendAddrFails ==
    /\ rpc = "send"
    /\ VersionAccepted
    /\ RemoteRelease
    /\ UNCHANGED <<redis, nextSid, local, rcfg, served>>

(* The endpoint the Remote creates: it dials a Local that sent no address, *)
(* later, and waits at once for one that did.                              *)
NewRemoteTun ==
    IF rrec.laddr = None
    THEN [role |-> "active", cfg |-> rcfg, started |-> FALSE, chain |-> "open"]
    ELSE [role |-> "passive", cfg |-> rcfg, started |-> TRUE, chain |-> "open"]

(* ... or it answers with its address, settings and State = 1. *)
SendRemoteAddr ==
    /\ rpc = "send"
    /\ VersionAccepted
    /\ \E nat \in Nats :
         LET rec == [rrec EXCEPT !.state = 1, !.rver = RemoteVersion,
                                 !.cfg = rcfg, !.raddr = nat]
         IN  /\ rrec' = rec
             /\ RedisSessionSet(rrec.sid, rec)
    /\ rtun' = NewRemoteTun
    /\ rpc' = "poll"
    /\ UNCHANGED <<regKey, nextSid, local, rcfg, served>>

(* processSession's loop reads the session. *)
RemoteGet ==
    /\ rpc = "poll"
    /\ sess[rrec.sid] # None
    /\ rrec' = [sess[rrec.sid] EXCEPT !.rver = RemoteVersion]
    /\ rpc' = "handle"
    /\ UNCHANGED <<redis, nextSid, local, rcfg, rtun, served>>

(* Mutant of RemoteGetFails: it keeps polling. *)
RemoteGetFailsAgain ==
    /\ rpc = "poll"
    /\ GetFails(rrec.sid)
    /\ UNCHANGED vars

RemoteGetFails ==
    /\ rpc = "poll"
    /\ GetFails(rrec.sid)
    /\ RemoteRelease
    /\ UNCHANGED <<redis, nextSid, local, rcfg, served>>

RemoteWaits ==
    /\ rpc = "handle"
    /\ rrec.state \notin 2..4
    /\ rpc' = "poll"
    /\ UNCHANGED <<redis, nextSid, local, rcfg, rrec, rtun, served>>

(* State 2: handleState2_WaitConnection starts a dialling endpoint, then   *)
(* selects on the channels and a timer.                                    *)
RemoteDials ==
    /\ rpc = "handle"
    /\ rrec.state = 2
    /\ rtun' = [rtun EXCEPT !.started = TRUE]
    /\ rpc' = "wait"
    /\ UNCHANGED <<redis, nextSid, local, rcfg, rrec, served>>

(* A channel fired: State = 3 is written before TunConn is looked at; with *)
(* a connection a goroutine takes over, without one the loop goes on.      *)
WaitConnected ==
    /\ rpc = "wait"
    /\ rtun.chain # "open"
    /\ LET rec == [rrec EXCEPT !.state = 3]
       IN  /\ RedisSessionSet(rrec.sid, rec)
           /\ \/ /\ rtun.chain = "conn"
                 /\ served' = served \cup {rrec.sid}
                 /\ RemoteRelease
              \/ /\ rtun.chain = "nil"
                 /\ rrec' = rec
                 /\ rpc' = "poll"
                 /\ UNCHANGED <<rtun, served>>
    /\ UNCHANGED <<regKey, nextSid, local, rcfg>>

(* The timer fired: State = 4 and Release. *)
WaitTimeout ==
    /\ rpc = "wait"
    /\ RedisSessionSet(rrec.sid, [rrec EXCEPT !.state = 4])
    /\ RemoteRelease
    /\ UNCHANGED <<regKey, nextSid, local, rcfg, served>>

(* States 3 and 4 found by the loop: a connection that is there is served, *)
(* otherwise everything is released.                                       *)
RemoteEnds ==
    /\ rpc = "handle"
    /\ rrec.state \in {3, 4}
    /\ served' = IF rrec.state = 3 /\ rtun.chain = "conn"
                 THEN served \cup {rrec.sid} ELSE served
    /\ RemoteRelease
    /\ UNCHANGED <<redis, nextSid, local, rcfg>>

(* handleConnection ends with the health check. *)
ServeEnds(s) ==
    /\ s \in served
    /\ served' = served \ {s}
    /\ UNCHANGED <<redis, nextSid, local, rpc, rcfg, rrec, rtun>>

RemoteCrash ==
    /\ rpc # "stopped"
    /\ rpc' = "stopped"
    /\ rrec' = None
    /\ rtun' = None
    /\ served' = {}
    /\ UNCHANGED <<redis, nextSid, local, rcfg>>

-----------------------------------------------------------------------------
(* Environment: package tun (not in the repository) and Redis *)

(* Both endpoints of a session punch: complementary roles, one transport.  *)
Punching(l) ==
    /\ ltun[l] # None /\ rtun # None
    /\ lsid[l] = rrec.sid
    /\ rtun.started
    /\ ltun[l].role # rtun.role
    /\ ltun[l].cfg = rtun.cfg

(* The Local's endpoint has its connection. *)
LocalTunUp(l) ==
    /\ Punching(l)
    /\ ~ltun[l].up
    /\ ltun' = [ltun EXCEPT ![l].up = TRUE]
    /\ UNCHANGED <<redis, nextSid, lpc, lsid, lnat, lrec, lcount, remote>>

(* The Remote's endpoint signals its channel. *)
RemoteTunSignals(l) ==
    /\ Punching(l)
    /\ rtun.chain = "open"
    /\ \E c \in {"conn", "nil"} : rtun' = [rtun EXCEPT !.chain = c]
    /\ UNCHANGED <<redis, nextSid, local, rpc, rcfg, rrec, served>>

(* Keys expire: 30 seconds for a registration, three times the punching    *)
(* timeout for a session.                                                  *)
RegExpires ==
    /\ regKey # None
    /\ regKey' = None
    /\ UNCHANGED <<sess, nextSid, local, remote>>

SessExpires(s) ==
    /\ sess[s] # None
    /\ sess' = [sess EXCEPT ![s] = None]
    /\ UNCHANGED <<regKey, nextSid, local, remote>>

-----------------------------------------------------------------------------
Init ==
    /\ regKey = None
    /\ sess = [s \in Sids |-> None]
    /\ nextSid = 1
    /\ lpc = [l \in Locals |-> "exited"]
    /\ lsid = [l \in Locals |-> None]
    /\ lnat = [l \in Locals |-> None]
    /\ lrec = [l \in Locals |-> None]
    /\ ltun = [l \in Locals |-> None]
    /\ lcount = [l \in Locals |-> 0]
    /\ rpc = "stopped"
    /\ rcfg \in Configs
    /\ rrec = None
    /\ rtun = None
    /\ served = {}

LocalStep(l) ==
    \/ LocalProbe(l) \/ LocalProbeFails(l)
    \/ RegisterExists(l) \/ RegisterSet(l) \/ RegisterSetFails(l)
    \/ ClaimSeen(l) \/ ClaimTimeout(l) \/ RedisSessionUnregister(l)
    \/ LocalGet(l) \/ LocalGetFails(l)
    \/ LocalRefused(l) \/ LocalRefuses(l) \/ LocalAccepts(l) \/ LocalWaits(l)
    \/ LocalConnected(l) \/ LocalNotConnected(l)

RemoteStep ==
    \/ ClaimGet \/ ClaimDel
    \/ SendRefusal \/ SendAddrFails \/ SendRemoteAddr
    \/ RemoteGet \/ RemoteGetFails \/ RemoteWaits \/ RemoteDials
    \/ WaitConnected \/ WaitTimeout \/ RemoteEnds

Next ==
    \/ \E l \in Locals :
         LocalStep(l) \/ LocalStart(l) \/ LocalHealthEnds(l) \/ LocalCrash(l)
    \/ RemoteStep \/ RemoteStart \/ RemoteCrash
    \/ \E s \in Sids : ServeEnds(s)
    \/ \E l \in Locals : LocalTunUp(l) \/ RemoteTunSignals(l)
    \/ RegExpires
    \/ \E s \in Sids : SessExpires(s)

Spec == Init /\ [][Next]_vars

(* Running processes keep running, and keys do expire. Nothing obliges the *)
(* user to start a worker, the network to carry a tunnel or a health check *)
(* to end.                                                                 *)
Fairness ==
    /\ \A l \in Locals : WF_vars(LocalStep(l))
    /\ WF_vars(RemoteStep)
    /\ WF_vars(RegExpires)
    /\ \A s \in Sids : WF_vars(SessExpires(s))

FairSpec == Spec /\ Fairness

-----------------------------------------------------------------------------
(* Properties *)

TypeOK ==
    /\ regKey \in RedisJson \cup {None}
    /\ sess \in [Sids -> RedisJson \cup {None}]
    /\ nextSid \in 1..(MaxSessions + 1)
    /\ lpc \in [Locals -> LocalPc]
    /\ lsid \in [Locals -> Sids \cup {None}]
    /\ lnat \in [Locals -> Nats \cup {None}]
    /\ lrec \in [Locals -> RedisJson \cup {None}]
    /\ ltun \in [Locals -> LocalTun \cup {None}]
    /\ lcount \in [Locals -> 0..MaxConnectAttempts]
    /\ rpc \in RemotePc
    /\ rcfg \in Configs
    /\ rrec \in RedisJson \cup {None}
    /\ rtun \in RemoteTun \cup {None}
    /\ served \subseteq Sids

(* The two endpoints that work on one session always fit: one dials and    *)
(* the other waits, with one transport, and never from behind two NAT4s,   *)
(* although each side decides alone, from a record it read earlier.        *)
EndpointsFit ==
    \A l \in Locals :
      (ltun[l] # None /\ rtun # None /\ lsid[l] = rrec.sid)
        => /\ ltun[l].role # rtun.role
           /\ ltun[l].cfg = rtun.cfg
           /\ ~(lnat[l] = "sym" /\ rrec.raddr = "sym")

(* The Remote starts dialling only once it has the Local's address:        *)
(* handleState2_WaitConnection is never reached with an empty LocalAddr.   *)
DialsKnownAddress == rpc = "wait" => rrec.laddr # None

Rank(rec) == IF rec.state < 0 THEN 5 ELSE rec.state

(* A session's State under its own key never goes backwards, although both *)
(* sides overwrite the whole record without looking: the Local never puts  *)
(* back a 2 over the Remote's 3 or 4, the Remote never a 1 over a 2.       *)
StateNeverRegresses ==
    [][\A s \in Sids : (sess[s] # None /\ sess'[s] # None)
                        => Rank(sess[s]) <= Rank(sess'[s])]_vars

(* Every attempt of a Local ends, in a connection, a new attempt or the    *)
(* end of RunLocal, whatever becomes of the Remote: also when its          *)
(* registration was lost or the Remote died halfway.                       *)
AttemptEnds ==
    \A l \in Locals :
      (lpc[l] \in {"set", "claim", "unreg", "poll", "handle"})
        ~> (lpc[l] \in {"probe", "connected", "exited"})

(* The Remote handles one session at a time; it always gets back to        *)
(* scanning, so one Local that dies halfway does not shut out the others.  *)
RemoteGetsFree == (rpc \in {"claimed", "send", "poll", "handle", "wait"})
                    ~> (rpc \in {"scan", "stopped"})
=============================================================================
