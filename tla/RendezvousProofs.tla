-------------------------- MODULE RendezvousProofs --------------------------
(***************************************************************************)
(* Proofs about what brings two ends together: Session, in which they find *)
(* each other, and Stun, in which each finds its public address. The two   *)
(* modules share no name, and no proof of one uses the other.              *)
(*                                                                         *)
(* Session: for any number of Locals, sessions, attempts, any versions and *)
(* settings, and whichever Redis commands fail (the last two theorems:     *)
(* whichever but Del).                                                     *)
(*                                                                         *)
(* Neither TypeOK nor DialsKnownAddress is inductive. Both rest on what a  *)
(* process holds at each point of its loop (LocalHolds, RemoteHolds) and   *)
(* on what a record carries in each State, wherever a copy of it is: in    *)
(* Redis or in a process (Filled).                                         *)
(*                                                                         *)
(* EndpointsFit and StateNeverRegresses rest on who may know of a session  *)
(* at each point of its life (EInv): nobody before it is registered        *)
(* (SidsFit, Offered), only its Local before the Remote answers            *)
(* (Unanswered), and from then on the copies of the record agree on what   *)
(* the Remote offered, and on how far the session is (Agree, Current).     *)
(*                                                                         *)
(* Stun: for any list of servers, any attributes of other servers, any     *)
(* number of rounds and duplicates. The parser is a recursive function on  *)
(* positions and the packet one on attributes: induction over the set of   *)
(* positions, or of attributes, that are right (UpTo) shows that the walk  *)
(* exists and stays inside the packet (FindTyped), and that it finds the   *)
(* first attribute of a type (FindIsFirst). The invariant (SInv) then      *)
(* needs what the packets under way hold, that no transaction comes back   *)
(* (Past), and, for an entry with own servers only, that every packet of   *)
(* its transaction is to or from one of them and what the client has read  *)
(* so far is what the NAT shows them (OwnTraffic, OwnResult).              *)
(***************************************************************************)
EXTENDS Session, Stun, NaturalsInduction, WellFoundedInduction, SequenceTheorems, TLAPS

(* What a Local holds: a session and an address once it has probed, the    *)
(* record once it has registered, and room for another attempt before it.  *)
LocalHolds ==
    \A l \in Locals :
      /\ lpc[l] \notin {"exited", "probe"} => lsid[l] # None /\ lnat[l] # None
      /\ lpc[l] \in {"claim", "unreg", "poll", "handle", "connected"} => lrec[l] # None
      /\ lpc[l] \in {"exited", "probe"} => lcount[l] < MaxConnectAttempts

(* What the Remote holds: the record from the claim on, an endpoint once   *)
(* it has answered; it waits for a connection in State 2 only.             *)
RemoteHolds ==
    /\ rpc \notin {"stopped", "scan"} => rrec # None
    /\ rpc \in {"poll", "handle", "wait"} => rtun # None
    /\ rpc = "wait" => rrec.state = 2

(* What a record carries: the Remote's settings from State 1 on, and the   *)
(* Local's address from State 2 on.                                        *)
Filled(rec) ==
    rec # None => /\ rec.state \in 1..4 => rec.cfg # None
                  /\ rec.state \in 2..4 => rec.laddr # None

AllFilled ==
    /\ Filled(regKey)
    /\ \A s \in Sids : Filled(sess[s])
    /\ \A l \in Locals : Filled(lrec[l])
    /\ Filled(rrec)

IInv == TypeOK /\ LocalHolds /\ RemoteHolds /\ AllFilled

-----------------------------------------------------------------------------
(* Records *)

(* The writes of either side turn records into records. *)
LEMMA RecordUpdates ==
    ASSUME NEW rec \in RedisJson
    PROVE  /\ \A st \in -2..4 : [rec EXCEPT !.state = st] \in RedisJson
           /\ \A st \in -2..4, v \in Seq(Nat) :
                [rec EXCEPT !.state = st, !.rver = v] \in RedisJson
           /\ \A v \in Seq(Nat) : [rec EXCEPT !.rver = v] \in RedisJson
           /\ \A st \in -2..4, a \in Nats : [rec EXCEPT !.state = st, !.laddr = a] \in RedisJson
           /\ \A v \in Seq(Nat), c \in Configs, a \in Nats :
                [rec EXCEPT !.state = 1, !.rver = v, !.cfg = c, !.raddr = a] \in RedisJson
<1>1. \A st \in -2..4 : [rec EXCEPT !.state = st] \in RedisJson
  BY DEF RedisJson
<1>2. \A st \in -2..4, v \in Seq(Nat) : [rec EXCEPT !.state = st, !.rver = v] \in RedisJson
  BY DEF RedisJson
<1>3. \A v \in Seq(Nat) : [rec EXCEPT !.rver = v] \in RedisJson
  BY DEF RedisJson
<1>4. \A st \in -2..4, a \in Nats : [rec EXCEPT !.state = st, !.laddr = a] \in RedisJson
  BY DEF RedisJson
<1>5. \A v \in Seq(Nat), c \in Configs, a \in Nats :
         [rec EXCEPT !.state = 1, !.rver = v, !.cfg = c, !.raddr = a] \in RedisJson
  <2> TAKE v \in Seq(Nat), c \in Configs, a \in Nats
  <2>1. [rec EXCEPT !.state = 1, !.rver = v] \in RedisJson
    <3>1. 1 \in -2..4
      OBVIOUS
    <3> QED BY <1>2, <3>1
  <2>2. \A r \in RedisJson : [r EXCEPT !.cfg = c, !.raddr = a] \in RedisJson
    BY DEF RedisJson
  <2>3. [rec EXCEPT !.state = 1, !.rver = v, !.cfg = c, !.raddr = a]
          = [[rec EXCEPT !.state = 1, !.rver = v] EXCEPT !.cfg = c, !.raddr = a]
    OBVIOUS
  <2> QED BY <2>1, <2>2, <2>3
<1> QED BY <1>1, <1>2, <1>3, <1>4, <1>5

(* Their fields. *)
LEMMA RecordFields ==
    ASSUME NEW rec \in RedisJson
    PROVE  /\ rec.sid \in Sids /\ rec.state \in -2..4
           /\ rec.cfg \in Configs \cup {None} /\ rec.laddr \in Nats \cup {None}
           /\ rec # None
  BY NoneAssumption DEF RedisJson

LEMMA RegistrationRecord ==
    ASSUME TypeOK, NEW l \in Locals, lsid[l] # None
    PROVE  Registration(l) \in RedisJson /\ Filled(Registration(l))
<1>1. lsid[l] \in Sids /\ lnat[l] \in Nats \cup {None}
  BY DEF TypeOK
<1>2. LocalVersion[l] \in Seq(Nat) /\ <<>> \in Seq(Nat)
  BY SessionAssumption
<1>3. Registration(l) \in RedisJson
  BY <1>1, <1>2 DEF Registration, RedisJson
<1>4. Filled(Registration(l))
  BY DEF Registration, Filled
<1> QED BY <1>3, <1>4

-----------------------------------------------------------------------------
(* Types *)

(* RedisSessionSet and RedisSessionDel leave records, or nothing, in Redis. *)
LEMMA SetTyped ==
    ASSUME TypeOK, NEW s \in Sids, NEW rec \in RedisJson, RedisSessionSet(s, rec)
    PROVE  sess' \in [Sids -> RedisJson \cup {None}]
  BY DEF RedisSessionSet, TypeOK

LEMMA DelTyped ==
    ASSUME TypeOK, NEW s \in Sids, RedisSessionDel(s)
    PROVE  sess' \in [Sids -> RedisJson \cup {None}]
  BY DEF RedisSessionDel, TypeOK

LEMMA DelRegTyped ==
    ASSUME TypeOK, DelRegistration
    PROVE  regKey' \in RedisJson \cup {None}
  BY DEF DelRegistration, TypeOK

(* The part of TypeOK about the Locals. *)
LocalTyped ==
    /\ lpc \in [Locals -> LocalPc]
    /\ lsid \in [Locals -> Sids \cup {None}]
    /\ lnat \in [Locals -> Nats \cup {None}]
    /\ lrec \in [Locals -> RedisJson \cup {None}]
    /\ ltun \in [Locals -> LocalTun \cup {None}]
    /\ lcount \in [Locals -> 0..MaxConnectAttempts]

(* ... about the Remote, and about Redis. *)
RemoteTyped ==
    /\ rpc \in RemotePc
    /\ rcfg \in Configs
    /\ rrec \in RedisJson \cup {None}
    /\ rtun \in RemoteTun \cup {None}
    /\ served \subseteq Sids

RedisTyped ==
    /\ regKey \in RedisJson \cup {None}
    /\ sess \in [Sids -> RedisJson \cup {None}]
    /\ nextSid \in 1..(MaxSessions + 1)

LEMMA TypeParts == TypeOK <=> RedisTyped /\ LocalTyped /\ RemoteTyped
  BY DEF TypeOK, RedisTyped, LocalTyped, RemoteTyped

LEMMA TypePartsPrimed == TypeOK' <=> RedisTyped' /\ LocalTyped' /\ RemoteTyped'
  BY DEF TypeOK, RedisTyped, LocalTyped, RemoteTyped

LEMMA ExitTyped ==
    ASSUME TypeOK, NEW l \in Locals, LocalExit(l) \/ AttemptFailed(l)
    PROVE  LocalTyped'
<1>1. 0 \in 0..MaxConnectAttempts
  BY SessionAssumption
<1>2. ASSUME LocalExit(l) PROVE LocalTyped'
  BY <1>1, <1>2 DEF LocalExit, LocalTyped, LocalPc, TypeOK
<1>3. CASE AttemptFailed(l)
  <2>1. CASE GivesUp(l)
    BY <1>2, <1>3, <2>1 DEF AttemptFailed
  <2>2. CASE ~GivesUp(l)
    BY <1>3, <2>2 DEF AttemptFailed, LocalTyped, LocalPc, TypeOK
  <2> QED BY <2>1, <2>2
<1> QED BY <1>2, <1>3

LEMMA ReleaseTyped ==
    ASSUME TypeOK, RemoteRelease, rcfg' = rcfg, served' \subseteq Sids
    PROVE  RemoteTyped'
  BY DEF RemoteRelease, RemoteTyped, RemotePc, TypeOK

LEMMA TypeInit == Init => TypeOK
<1> SUFFICES ASSUME Init PROVE TypeOK
  OBVIOUS
<1>1. RedisTyped
  BY SessionAssumption DEF Init, RedisTyped
<1>2. LocalTyped
  <2>1. 0 \in 0..MaxConnectAttempts
    BY SessionAssumption
  <2> QED BY <2>1 DEF Init, LocalTyped, LocalPc
<1>3. RemoteTyped
  BY DEF Init, RemoteTyped, RemotePc
<1> QED BY <1>1, <1>2, <1>3, TypeParts

(* Every step of a Local keeps the types. *)
LEMMA LocalTypeStep ==
    ASSUME IInv, NEW l \in Locals,
           LocalStep(l) \/ LocalStart(l) \/ LocalHealthEnds(l) \/ LocalCrash(l)
    PROVE  TypeOK'
<1> USE DEF IInv
<1>0. RedisTyped /\ LocalTyped /\ RemoteTyped
  BY TypeParts
<1>1. remote' = remote => RemoteTyped'
  BY <1>0 DEF remote, RemoteTyped
<1>2. redis' = redis /\ nextSid' = nextSid => RedisTyped'
  BY <1>0 DEF redis, RedisTyped
<1>3. CASE LocalStart(l)
  <2>1. LocalTyped'
    BY <1>0, <1>3 DEF LocalStart, LocalTyped, LocalPc
  <2> QED BY <1>1, <1>2, <1>3, <2>1, TypePartsPrimed DEF LocalStart
<1>4. CASE LocalProbe(l)
  <2>1. lcount[l] + 1 \in 0..MaxConnectAttempts
    BY <1>0, <1>4, SessionAssumption DEF LocalProbe, LocalHolds, LocalTyped
  <2>2. PICK mapped \in Nats : lnat' = [lnat EXCEPT ![l] = mapped]
    BY <1>4 DEF LocalProbe
  <2>3. LocalTyped'
    BY <1>0, <1>4, <2>1, <2>2 DEF LocalProbe, LocalTyped, LocalPc
  <2>4. RedisTyped'
    BY <1>0, <1>4, SessionAssumption DEF LocalProbe, RedisTyped, Sids, redis
  <2> QED BY <1>1, <1>4, <2>3, <2>4, TypePartsPrimed DEF LocalProbe
<1>5. CASE LocalProbeFails(l) \/ RegisterSetFails(l) \/ LocalGetFails(l) \/ LocalCrash(l)
  <2>1. LocalTyped'
    BY <1>5, ExitTyped DEF LocalProbeFails, RegisterSetFails, LocalGetFails, LocalCrash
  <2> QED BY <1>1, <1>2, <1>5, <2>1, TypePartsPrimed
          DEF LocalProbeFails, RegisterSetFails, LocalGetFails, LocalCrash
<1>6. CASE RegisterExists(l) \/ ClaimTimeout(l) \/ LocalWaits(l) \/ LocalConnected(l)
  <2>1. LocalTyped'
    BY <1>0, <1>6 DEF RegisterExists, ClaimTimeout, LocalWaits, LocalConnected,
                      LocalTyped, LocalPc
  <2> QED BY <1>1, <1>2, <1>6, <2>1, TypePartsPrimed
          DEF RegisterExists, ClaimTimeout, LocalWaits, LocalConnected
<1>7. CASE RegisterSet(l)
  <2>1. Registration(l) \in RedisJson
    BY <1>7, RegistrationRecord DEF RegisterSet, LocalHolds
  <2>2. LocalTyped'
    BY <1>0, <1>7, <2>1 DEF RegisterSet, LocalTyped, LocalPc
  <2>3. RedisTyped'
    BY <1>0, <1>7, <2>1 DEF RegisterSet, RedisTyped
  <2> QED BY <1>1, <1>7, <2>2, <2>3, TypePartsPrimed DEF RegisterSet
<1>8. CASE ClaimSeen(l) \/ LocalGet(l)
  <2>1. lsid[l] \in Sids
    BY <1>0, <1>8 DEF ClaimSeen, LocalGet, LocalHolds, LocalTyped
  <2>2. sess[lsid[l]] \in RedisJson \cup {None}
    BY <1>0, <2>1 DEF RedisTyped
  <2>3. LocalTyped'
    BY <1>0, <1>8, <2>2 DEF ClaimSeen, LocalGet, LocalTyped, LocalPc
  <2> QED BY <1>1, <1>2, <1>8, <2>3, TypePartsPrimed DEF ClaimSeen, LocalGet
<1>9. CASE RedisSessionUnregister(l)
  <2>1. LocalTyped'
    BY <1>9, ExitTyped DEF RedisSessionUnregister
  <2>2. RedisTyped'
    BY <1>0, <1>9, DelRegTyped DEF RedisSessionUnregister, RedisTyped
  <2> QED BY <1>1, <1>9, <2>1, <2>2, TypePartsPrimed DEF RedisSessionUnregister
<1>10. CASE LocalRefused(l) \/ LocalRefuses(l)
  <2>1. lsid[l] \in Sids
    BY <1>0, <1>10 DEF LocalRefused, LocalRefuses, LocalHolds, LocalTyped
  <2>2. LocalTyped'
    BY <1>10, ExitTyped DEF LocalRefused, LocalRefuses
  <2>3. RedisTyped'
    BY <1>0, <1>10, <2>1, DelTyped DEF LocalRefused, LocalRefuses, RedisTyped
  <2> QED BY <1>1, <1>10, <2>2, <2>3, TypePartsPrimed DEF LocalRefused, LocalRefuses
<1>11. CASE LocalAccepts(l)
  <2>1. lsid[l] \in Sids /\ lnat[l] \in Nats /\ lrec[l] \in RedisJson
    BY <1>0, <1>11 DEF LocalAccepts, LocalHolds, LocalTyped
  <2>2. Answer(l) \in RedisJson
    <3>1. 2 \in -2..4
      OBVIOUS
    <3> QED BY <2>1, <3>1, RecordUpdates DEF Answer
  <2>3. NewLocalTun(l) \in LocalTun
    <3>1. lrec[l].cfg \in Configs
      BY <1>11, <2>1, RecordFields DEF LocalAccepts, AllFilled, Filled
    <3> QED BY <3>1 DEF NewLocalTun, LocalTun
  <2>4. LocalTyped'
    BY <1>0, <1>11, <2>2, <2>3 DEF LocalAccepts, LocalTyped, LocalPc
  <2>5. RedisTyped'
    BY <1>0, <1>11, <2>1, <2>2, SetTyped DEF LocalAccepts, RedisTyped
  <2> QED BY <1>1, <1>11, <2>4, <2>5, TypePartsPrimed DEF LocalAccepts
<1>12. CASE LocalNotConnected(l)
  <2>1. LocalTyped'
    BY <1>12, ExitTyped DEF LocalNotConnected
  <2> QED BY <1>1, <1>2, <1>12, <2>1, TypePartsPrimed DEF LocalNotConnected
<1>13. CASE LocalHealthEnds(l)
  <2>1. 0 \in 0..MaxConnectAttempts
    BY SessionAssumption
  <2>2. LocalTyped'
    BY <1>0, <1>13, <2>1 DEF LocalHealthEnds, LocalTyped, LocalPc
  <2> QED BY <1>1, <1>2, <1>13, <2>2, TypePartsPrimed DEF LocalHealthEnds
<1> QED
  BY <1>3, <1>4, <1>5, <1>6, <1>7, <1>8, <1>9, <1>10, <1>11, <1>12, <1>13
  DEF LocalStep

(* Every step of the Remote keeps the types. *)
LEMMA RemoteTypeStep ==
    ASSUME IInv, RemoteStep \/ RemoteStart \/ RemoteCrash
    PROVE  TypeOK'
<1> USE DEF IInv
<1>0. RedisTyped /\ LocalTyped /\ RemoteTyped
  BY TypeParts
<1>1. local' = local => LocalTyped'
  BY <1>0 DEF local, LocalTyped
<1>2. redis' = redis /\ nextSid' = nextSid => RedisTyped'
  BY <1>0 DEF redis, RedisTyped
<1>3. CASE RemoteStart
  <2>1. RemoteTyped'
    BY <1>0, <1>3 DEF RemoteStart, RemoteTyped, RemotePc
  <2> QED BY <1>1, <1>2, <1>3, <2>1, TypePartsPrimed DEF RemoteStart
<1>4. CASE RemoteCrash
  <2>1. RemoteTyped'
    BY <1>0, <1>4 DEF RemoteCrash, RemoteTyped, RemotePc
  <2> QED BY <1>1, <1>2, <1>4, <2>1, TypePartsPrimed DEF RemoteCrash
<1>5. CASE ClaimGet
  <2>1. RemoteTyped'
    BY <1>0, <1>5 DEF ClaimGet, RemoteTyped, RedisTyped, RemotePc
  <2> QED BY <1>1, <1>2, <1>5, <2>1, TypePartsPrimed DEF ClaimGet
<1>6. CASE ClaimDel
  <2>1. RemoteTyped'
    BY <1>0, <1>6 DEF ClaimDel, RemoteTyped, RemotePc
  <2>2. RedisTyped'
    BY <1>0, <1>6, DelRegTyped DEF ClaimDel, RedisTyped
  <2> QED BY <1>1, <1>6, <2>1, <2>2, TypePartsPrimed DEF ClaimDel
<1>7. rpc \in {"send", "poll", "handle", "wait"}
        => rrec \in RedisJson /\ rrec.sid \in Sids /\ rrec.state \in -2..4
  BY <1>0, RecordFields DEF RemoteHolds, RemoteTyped
<1>8. RemoteVersion \in Seq(Nat)
  BY SessionAssumption
<1>9. CASE SendRefusal
  <2>1. [rrec EXCEPT !.state = -1, !.rver = RemoteVersion] \in RedisJson
    <3>1. -1 \in -2..4
      OBVIOUS
    <3> QED BY <1>7, <1>8, <1>9, <3>1, RecordUpdates DEF SendRefusal
  <2>2. RedisTyped'
    BY <1>0, <1>7, <1>9, <2>1, SetTyped DEF SendRefusal, RedisTyped
  <2>3. RemoteTyped'
    BY <1>0, <1>9, ReleaseTyped DEF SendRefusal, RemoteTyped
  <2> QED BY <1>1, <1>9, <2>2, <2>3, TypePartsPrimed DEF SendRefusal
<1>10. CASE SendAddrFails \/ RemoteGetFails
  <2>1. RemoteTyped'
    BY <1>0, <1>10, ReleaseTyped DEF SendAddrFails, RemoteGetFails, RemoteTyped
  <2> QED BY <1>1, <1>2, <1>10, <2>1, TypePartsPrimed DEF SendAddrFails, RemoteGetFails
<1>11. CASE SendRemoteAddr
  <2>1. PICK mapped \in Nats :
          LET rec == [rrec EXCEPT !.state = 1, !.rver = RemoteVersion,
                                  !.cfg = rcfg, !.raddr = mapped]
          IN  rrec' = rec /\ RedisSessionSet(rrec.sid, rec)
    BY <1>11 DEF SendRemoteAddr
  <2>2. rcfg \in Configs
    BY <1>0 DEF RemoteTyped
  <2>3. rrec' \in RedisJson
    BY <1>7, <1>8, <1>11, <2>1, <2>2, RecordUpdates DEF SendRemoteAddr
  <2>4. RedisTyped'
    BY <1>0, <1>7, <1>11, <2>1, <2>3, SetTyped DEF SendRemoteAddr, RedisTyped
  <2>5. NewRemoteTun \in RemoteTun
    BY <2>2 DEF NewRemoteTun, RemoteTun
  <2>6. RemoteTyped'
    BY <1>0, <1>11, <2>3, <2>5 DEF SendRemoteAddr, RemoteTyped, RemotePc
  <2> QED BY <1>1, <1>11, <2>4, <2>6, TypePartsPrimed DEF SendRemoteAddr
<1>12. CASE RemoteGet
  <2>1. sess[rrec.sid] \in RedisJson
    BY <1>0, <1>7, <1>12 DEF RemoteGet, RedisTyped
  <2>2. rrec' \in RedisJson
    BY <1>8, <1>12, <2>1, RecordUpdates DEF RemoteGet
  <2>3. RemoteTyped'
    BY <1>0, <1>12, <2>2 DEF RemoteGet, RemoteTyped, RemotePc
  <2> QED BY <1>1, <1>2, <1>12, <2>3, TypePartsPrimed DEF RemoteGet
<1>13. CASE RemoteWaits
  <2>1. RemoteTyped'
    BY <1>0, <1>13 DEF RemoteWaits, RemoteTyped, RemotePc
  <2> QED BY <1>1, <1>2, <1>13, <2>1, TypePartsPrimed DEF RemoteWaits
<1>14. CASE RemoteDials
  <2>1. rtun \in RemoteTun
    BY <1>0, <1>14 DEF RemoteDials, RemoteHolds, RemoteTyped
  <2>2. rtun' \in RemoteTun
    BY <1>14, <2>1 DEF RemoteDials, RemoteTun
  <2>3. RemoteTyped'
    BY <1>0, <1>14, <2>2 DEF RemoteDials, RemoteTyped, RemotePc
  <2> QED BY <1>1, <1>2, <1>14, <2>3, TypePartsPrimed DEF RemoteDials
<1>15. CASE WaitConnected
  <2>1. [rrec EXCEPT !.state = 3] \in RedisJson
    <3>1. 3 \in -2..4
      OBVIOUS
    <3> QED BY <1>7, <1>15, <3>1, RecordUpdates DEF WaitConnected
  <2>2. RedisTyped'
    BY <1>0, <1>7, <1>15, <2>1, SetTyped DEF WaitConnected, RedisTyped
  <2>3. RemoteTyped'
    <3>1. CASE rtun.chain = "conn"
      <4>1. served' \subseteq Sids /\ RemoteRelease /\ rcfg' = rcfg
        BY <1>0, <1>7, <1>15, <3>1 DEF WaitConnected, RemoteTyped
      <4> QED BY <4>1, ReleaseTyped
    <3>2. CASE rtun.chain # "conn"
      BY <1>0, <1>15, <2>1, <3>2 DEF WaitConnected, RemoteTyped, RemotePc
    <3> QED BY <3>1, <3>2
  <2> QED BY <1>1, <1>15, <2>2, <2>3, TypePartsPrimed DEF WaitConnected
<1>16. CASE WaitTimeout
  <2>1. [rrec EXCEPT !.state = 4] \in RedisJson
    <3>1. 4 \in -2..4
      OBVIOUS
    <3> QED BY <1>7, <1>16, <3>1, RecordUpdates DEF WaitTimeout
  <2>2. RedisTyped'
    BY <1>0, <1>7, <1>16, <2>1, SetTyped DEF WaitTimeout, RedisTyped
  <2>3. RemoteTyped'
    BY <1>0, <1>16, ReleaseTyped DEF WaitTimeout, RemoteTyped
  <2> QED BY <1>1, <1>16, <2>2, <2>3, TypePartsPrimed DEF WaitTimeout
<1>17. CASE RemoteEnds
  <2>1. served' \subseteq Sids /\ RemoteRelease /\ rcfg' = rcfg
    BY <1>0, <1>7, <1>17 DEF RemoteEnds, RemoteTyped
  <2>2. RemoteTyped'
    BY <2>1, ReleaseTyped
  <2> QED BY <1>1, <1>2, <1>17, <2>2, TypePartsPrimed DEF RemoteEnds
<1> QED
  BY <1>3, <1>4, <1>5, <1>6, <1>9, <1>10, <1>11, <1>12, <1>13, <1>14, <1>15,
     <1>16, <1>17
  DEF RemoteStep

(* The environment's steps. *)
EnvStep ==
    \/ \E s \in Sids : ServeEnds(s) \/ SessExpires(s)
    \/ \E l \in Locals : LocalTunUp(l) \/ RemoteTunSignals(l)
    \/ RegExpires

LEMMA EnvTypeStep ==
    ASSUME IInv, EnvStep
    PROVE  TypeOK'
<1> USE DEF IInv
<1>0. RedisTyped /\ LocalTyped /\ RemoteTyped
  BY TypeParts
<1>1. ASSUME NEW s \in Sids, ServeEnds(s) PROVE TypeOK'
  BY <1>1 DEF ServeEnds, TypeOK, redis, local
<1>2. ASSUME NEW s \in Sids, SessExpires(s) PROVE TypeOK'
  BY <1>2 DEF SessExpires, TypeOK, local, remote
<1>3. CASE RegExpires
  BY <1>3 DEF RegExpires, TypeOK, local, remote
<1>4. ASSUME NEW l \in Locals, LocalTunUp(l) PROVE TypeOK'
  <2>1. ltun[l] \in LocalTun
    BY <1>0, <1>4 DEF LocalTunUp, Punching, LocalTyped
  <2>2. [ltun[l] EXCEPT !.up = TRUE] \in LocalTun
    BY <2>1 DEF LocalTun
  <2>3. LocalTyped'
    BY <1>0, <1>4, <2>2 DEF LocalTunUp, LocalTyped
  <2> QED BY <1>0, <1>4, <2>3, TypePartsPrimed
          DEF LocalTunUp, RedisTyped, RemoteTyped, redis, remote
<1>5. ASSUME NEW l \in Locals, RemoteTunSignals(l) PROVE TypeOK'
  <2>1. rtun \in RemoteTun
    BY <1>0, <1>5 DEF RemoteTunSignals, Punching, RemoteTyped
  <2>2. rtun' \in RemoteTun
    BY <1>5, <2>1 DEF RemoteTunSignals, RemoteTun
  <2>3. RemoteTyped'
    BY <1>0, <1>5, <2>2 DEF RemoteTunSignals, RemoteTyped
  <2> QED BY <1>0, <1>5, <2>3, TypePartsPrimed
          DEF RemoteTunSignals, RedisTyped, LocalTyped, redis, local
<1> QED BY <1>1, <1>2, <1>3, <1>4, <1>5 DEF EnvStep

-----------------------------------------------------------------------------
(* What the processes hold, and what records carry *)

(* Resetting one Local keeps what the Locals hold. *)
LEMMA ExitHolds ==
    ASSUME IInv, NEW l \in Locals, LocalExit(l) \/ AttemptFailed(l)
    PROVE  LocalHolds' /\ \A m \in Locals : Filled(lrec'[m])
<1> USE SessionAssumption DEF IInv
<1>1. ASSUME LocalExit(l) PROVE LocalHolds' /\ \A m \in Locals : Filled(lrec'[m])
  <2>1. LocalHolds'
    BY <1>1 DEF LocalExit, LocalHolds, TypeOK
  <2>2. \A m \in Locals : lrec'[m] = None \/ lrec'[m] = lrec[m]
    BY <1>1 DEF LocalExit, TypeOK
  <2> QED BY <2>1, <2>2 DEF AllFilled, Filled
<1>2. CASE AttemptFailed(l) /\ ~GivesUp(l)
  <2>1. LocalHolds'
    BY <1>2 DEF AttemptFailed, GivesUp, LocalHolds, TypeOK
  <2>2. \A m \in Locals : lrec'[m] = None \/ lrec'[m] = lrec[m]
    BY <1>2 DEF AttemptFailed, TypeOK
  <2> QED BY <2>1, <2>2 DEF AllFilled, Filled
<1> QED BY <1>1, <1>2 DEF AttemptFailed

(* A write of a record that carries what it should leaves such records. *)
LEMMA SetFilled ==
    ASSUME IInv, NEW s \in Sids, NEW rec, Filled(rec), RedisSessionSet(s, rec)
    PROVE  \A t \in Sids : Filled(sess'[t])
<1>1. \A t \in Sids : sess'[t] = rec \/ sess'[t] = sess[t]
  BY DEF RedisSessionSet, IInv, TypeOK
<1> QED BY <1>1 DEF IInv, AllFilled

LEMMA DelFilled ==
    ASSUME IInv, NEW s \in Sids, RedisSessionDel(s)
    PROVE  \A t \in Sids : Filled(sess'[t])
<1>1. \A t \in Sids : sess'[t] = None \/ sess'[t] = sess[t]
  BY DEF RedisSessionDel, IInv, TypeOK
<1> QED BY <1>1 DEF IInv, AllFilled, Filled

LEMMA DelRegFilled ==
    ASSUME IInv, DelRegistration
    PROVE  Filled(regKey')
  BY DEF DelRegistration, IInv, AllFilled, Filled

Kept == LocalHolds /\ RemoteHolds /\ AllFilled

(* Every step of a Local keeps both. *)
LEMMA LocalKeptStep ==
    ASSUME IInv, NEW l \in Locals,
           LocalStep(l) \/ LocalStart(l) \/ LocalHealthEnds(l) \/ LocalCrash(l)
    PROVE  Kept'
<1> USE DEF IInv
<1>1. remote' = remote => RemoteHolds' /\ Filled(rrec')
  BY DEF remote, RemoteHolds, AllFilled
<1>2. redis' = redis => Filled(regKey') /\ \A s \in Sids : Filled(sess'[s])
  BY DEF redis, AllFilled
<1>3. lrec' = lrec => \A m \in Locals : Filled(lrec'[m])
  BY DEF AllFilled
<1>4. CASE LocalStart(l)
  <2>1. LocalHolds'
    BY <1>4 DEF LocalStart, LocalHolds, TypeOK
  <2> QED BY <1>1, <1>2, <1>3, <1>4, <2>1 DEF LocalStart, Kept, AllFilled
<1>5. CASE LocalProbe(l)
  <2>1. PICK mapped \in Nats : lnat' = [lnat EXCEPT ![l] = mapped]
    BY <1>5 DEF LocalProbe
  <2>2. nextSid # None /\ mapped # None
    BY <1>5, NoneAssumption DEF LocalProbe
  <2>3. LocalHolds'
    BY <1>5, <2>1, <2>2 DEF LocalProbe, LocalHolds, TypeOK
  <2> QED BY <1>1, <1>2, <1>3, <1>5, <2>3 DEF LocalProbe, Kept, AllFilled
<1>6. CASE LocalProbeFails(l) \/ RegisterSetFails(l) \/ LocalGetFails(l) \/ LocalCrash(l)
           \/ LocalNotConnected(l)
  <2>1. LocalHolds' /\ \A m \in Locals : Filled(lrec'[m])
    BY <1>6, ExitHolds
    DEF LocalProbeFails, RegisterSetFails, LocalGetFails, LocalCrash, LocalNotConnected
  <2> QED BY <1>1, <1>2, <1>6, <2>1
          DEF LocalProbeFails, RegisterSetFails, LocalGetFails, LocalCrash,
              LocalNotConnected, Kept, AllFilled
<1>7. CASE RegisterExists(l) \/ ClaimTimeout(l) \/ LocalWaits(l) \/ LocalConnected(l)
  <2>1. LocalHolds'
    BY <1>7 DEF RegisterExists, ClaimTimeout, LocalWaits, LocalConnected, LocalHolds, TypeOK
  <2> QED BY <1>1, <1>2, <1>3, <1>7, <2>1
          DEF RegisterExists, ClaimTimeout, LocalWaits, LocalConnected, Kept, AllFilled
<1>8. CASE RegisterSet(l)
  <2>1. Registration(l) \in RedisJson /\ Filled(Registration(l))
    BY <1>8, RegistrationRecord DEF RegisterSet, LocalHolds
  <2>2. Registration(l) # None
    BY <2>1, RecordFields
  <2>3. LocalHolds'
    BY <1>8, <2>2 DEF RegisterSet, LocalHolds, TypeOK
  <2>4. \A m \in Locals : lrec'[m] = Registration(l) \/ lrec'[m] = lrec[m]
    BY <1>8 DEF RegisterSet, TypeOK
  <2>5. regKey' = Registration(l) /\ sess' = sess /\ remote' = remote
    BY <1>8 DEF RegisterSet
  <2> QED BY <1>1, <2>1, <2>3, <2>4, <2>5 DEF Kept, AllFilled
<1>9. CASE ClaimSeen(l) \/ LocalGet(l)
  <2>1. lsid[l] \in Sids
    BY <1>9 DEF ClaimSeen, LocalGet, LocalHolds, TypeOK
  <2>2. sess[lsid[l]] # None /\ Filled(sess[lsid[l]])
    BY <1>9, <2>1 DEF ClaimSeen, LocalGet, AllFilled
  <2>3. LocalHolds'
    BY <1>9, <2>2 DEF ClaimSeen, LocalGet, LocalHolds, TypeOK
  <2>4. \A m \in Locals : lrec'[m] = sess[lsid[l]] \/ lrec'[m] = lrec[m]
    BY <1>9 DEF ClaimSeen, LocalGet, TypeOK
  <2>5. redis' = redis /\ remote' = remote
    BY <1>9 DEF ClaimSeen, LocalGet
  <2> QED BY <1>1, <1>2, <2>2, <2>3, <2>4, <2>5 DEF Kept, AllFilled
<1>10. CASE RedisSessionUnregister(l)
  <2>1. LocalHolds' /\ \A m \in Locals : Filled(lrec'[m])
    BY <1>10, ExitHolds DEF RedisSessionUnregister
  <2>2. Filled(regKey') /\ sess' = sess /\ remote' = remote
    BY <1>10, DelRegFilled DEF RedisSessionUnregister
  <2> QED BY <1>1, <2>1, <2>2 DEF Kept, AllFilled
<1>11. CASE LocalRefused(l) \/ LocalRefuses(l)
  <2>1. lsid[l] \in Sids
    BY <1>11 DEF LocalRefused, LocalRefuses, LocalHolds, TypeOK
  <2>2. LocalHolds' /\ \A m \in Locals : Filled(lrec'[m])
    BY <1>11, ExitHolds DEF LocalRefused, LocalRefuses
  <2>3. \A s \in Sids : Filled(sess'[s])
    BY <1>11, <2>1, DelFilled DEF LocalRefused, LocalRefuses
  <2>4. regKey' = regKey /\ remote' = remote
    BY <1>11 DEF LocalRefused, LocalRefuses
  <2> QED BY <1>1, <2>2, <2>3, <2>4 DEF Kept, AllFilled
<1>12. CASE LocalAccepts(l)
  <2>1. lsid[l] \in Sids /\ lnat[l] \in Nats /\ lrec[l] \in RedisJson
    BY <1>12 DEF LocalAccepts, LocalHolds, TypeOK
  <2>2. Filled(Answer(l)) /\ Answer(l) # None
    <3>1. Answer(l) \in RedisJson
      <4>1. 2 \in -2..4
        OBVIOUS
      <4> QED BY <2>1, <4>1, RecordUpdates DEF Answer
    <3>2. Answer(l).cfg = lrec[l].cfg /\ Answer(l).laddr = lnat[l]
      BY <2>1 DEF Answer, RedisJson
    <3>3. lrec[l].cfg # None
      BY <1>12, <2>1, RecordFields DEF LocalAccepts, AllFilled, Filled
    <3>4. lnat[l] # None
      BY <2>1, NoneAssumption
    <3> QED BY <3>1, <3>2, <3>3, <3>4, RecordFields DEF Filled
  <2>3. LocalHolds'
    BY <1>12, <2>2 DEF LocalAccepts, LocalHolds, TypeOK
  <2>4. \A m \in Locals : lrec'[m] = Answer(l) \/ lrec'[m] = lrec[m]
    BY <1>12 DEF LocalAccepts, TypeOK
  <2>5. \A s \in Sids : Filled(sess'[s])
    BY <1>12, <2>1, <2>2, SetFilled DEF LocalAccepts
  <2>6. regKey' = regKey /\ remote' = remote
    BY <1>12 DEF LocalAccepts
  <2> QED BY <1>1, <2>2, <2>3, <2>4, <2>5, <2>6 DEF Kept, AllFilled
<1>13. CASE LocalHealthEnds(l)
  <2>1. LocalHolds'
    BY <1>13, SessionAssumption DEF LocalHealthEnds, LocalHolds, TypeOK
  <2>2. \A m \in Locals : lrec'[m] = None \/ lrec'[m] = lrec[m]
    BY <1>13 DEF LocalHealthEnds, TypeOK
  <2>3. \A m \in Locals : Filled(lrec'[m])
    BY <2>2 DEF AllFilled, Filled
  <2> QED BY <1>1, <1>2, <1>13, <2>1, <2>3 DEF LocalHealthEnds, Kept, AllFilled
<1> QED
  BY <1>4, <1>5, <1>6, <1>7, <1>8, <1>9, <1>10, <1>11, <1>12, <1>13 DEF LocalStep

(* Every step of the Remote keeps both. *)
LEMMA RemoteKeptStep ==
    ASSUME IInv, RemoteStep \/ RemoteStart \/ RemoteCrash
    PROVE  Kept'
<1> USE DEF IInv
<1>1. local' = local => LocalHolds' /\ \A m \in Locals : Filled(lrec'[m])
  BY DEF local, LocalHolds, AllFilled
<1>2. redis' = redis => Filled(regKey') /\ \A s \in Sids : Filled(sess'[s])
  BY DEF redis, AllFilled
<1>3. RemoteRelease => RemoteHolds' /\ Filled(rrec')
  BY DEF RemoteRelease, RemoteHolds, Filled
<1>4. rpc \in {"send", "poll", "handle", "wait"}
        => rrec \in RedisJson /\ rrec.sid \in Sids /\ rrec.state \in -2..4
  BY RecordFields DEF RemoteHolds, TypeOK
<1>5. CASE RemoteStart
  <2>1. RemoteHolds' /\ Filled(rrec')
    BY <1>5 DEF RemoteStart, RemoteHolds, AllFilled
  <2> QED BY <1>1, <1>2, <1>5, <2>1 DEF RemoteStart, Kept, AllFilled
<1>6. CASE RemoteCrash
  <2>1. RemoteHolds' /\ Filled(rrec')
    BY <1>6 DEF RemoteCrash, RemoteHolds, Filled
  <2> QED BY <1>1, <1>2, <1>6, <2>1 DEF RemoteCrash, Kept, AllFilled
<1>7. CASE ClaimGet
  <2>1. RemoteHolds' /\ Filled(rrec')
    BY <1>7 DEF ClaimGet, RemoteHolds, AllFilled
  <2> QED BY <1>1, <1>2, <1>7, <2>1 DEF ClaimGet, Kept, AllFilled
<1>8. CASE ClaimDel
  <2>1. RemoteHolds' /\ Filled(rrec')
    BY <1>8 DEF ClaimDel, RemoteHolds, AllFilled
  <2>2. Filled(regKey') /\ sess' = sess /\ local' = local
    BY <1>8, DelRegFilled DEF ClaimDel
  <2> QED BY <1>1, <2>1, <2>2 DEF Kept, AllFilled
<1>9. CASE SendRefusal
  <2>1. Filled([rrec EXCEPT !.state = -1, !.rver = RemoteVersion])
    BY <1>4, <1>9 DEF SendRefusal, Filled, RedisJson
  <2>2. \A s \in Sids : Filled(sess'[s])
    BY <1>4, <1>9, <2>1, SetFilled DEF SendRefusal
  <2> QED BY <1>1, <1>3, <1>9, <2>2 DEF SendRefusal, Kept, AllFilled
<1>10. CASE SendAddrFails \/ RemoteGetFails \/ RemoteEnds
  BY <1>1, <1>2, <1>3, <1>10 DEF SendAddrFails, RemoteGetFails, RemoteEnds, Kept, AllFilled
<1>11. CASE SendRemoteAddr
  <2>1. PICK mapped \in Nats :
          LET rec == [rrec EXCEPT !.state = 1, !.rver = RemoteVersion,
                                  !.cfg = rcfg, !.raddr = mapped]
          IN  rrec' = rec /\ RedisSessionSet(rrec.sid, rec)
    BY <1>11 DEF SendRemoteAddr
  <2>2. rcfg \in Configs /\ rcfg # None
    BY NoneAssumption DEF TypeOK
  <2>3. rrec' \in RedisJson /\ rrec'.state = 1 /\ rrec'.cfg = rcfg
    BY <1>4, <1>11, <2>1, <2>2, RecordUpdates, SessionAssumption DEF SendRemoteAddr, RedisJson
  <2>4. Filled(rrec') /\ rrec' # None
    BY <2>2, <2>3, RecordFields DEF Filled
  <2>5. \A s \in Sids : Filled(sess'[s])
    BY <1>4, <1>11, <2>1, <2>4, SetFilled DEF SendRemoteAddr
  <2>6. NewRemoteTun # None
    <3>1. NewRemoteTun \in RemoteTun
      BY <2>2 DEF NewRemoteTun, RemoteTun
    <3> QED BY <3>1, NoneAssumption DEF RemoteTun
  <2>7. RemoteHolds'
    BY <1>11, <2>4, <2>6 DEF SendRemoteAddr, RemoteHolds
  <2> QED BY <1>1, <1>11, <2>4, <2>5, <2>7 DEF SendRemoteAddr, Kept, AllFilled
<1>12. CASE RemoteGet
  <2>1. sess[rrec.sid] \in RedisJson /\ Filled(sess[rrec.sid])
    BY <1>4, <1>12 DEF RemoteGet, TypeOK, AllFilled
  <2>2. rrec' \in RedisJson /\ Filled(rrec')
    <3>1. rrec' = [sess[rrec.sid] EXCEPT !.rver = RemoteVersion]
      BY <1>12 DEF RemoteGet
    <3>2. rrec' \in RedisJson
      BY <2>1, <3>1, RecordUpdates, SessionAssumption
    <3>3. /\ rrec'.state = sess[rrec.sid].state /\ rrec'.cfg = sess[rrec.sid].cfg
          /\ rrec'.laddr = sess[rrec.sid].laddr
      BY <2>1, <3>1 DEF RedisJson
    <3> QED BY <2>1, <3>2, <3>3, RecordFields DEF Filled
  <2>3. RemoteHolds'
    BY <1>12, <2>2, RecordFields DEF RemoteGet, RemoteHolds
  <2> QED BY <1>1, <1>2, <1>12, <2>2, <2>3 DEF RemoteGet, Kept, AllFilled
<1>13. CASE RemoteWaits
  <2>1. RemoteHolds' /\ Filled(rrec')
    BY <1>13 DEF RemoteWaits, RemoteHolds, AllFilled
  <2> QED BY <1>1, <1>2, <1>13, <2>1 DEF RemoteWaits, Kept, AllFilled
<1>14. CASE RemoteDials
  <2>1. rtun' # None
    <3>1. rtun \in RemoteTun
      BY <1>14 DEF RemoteDials, RemoteHolds, TypeOK
    <3>2. rtun' \in RemoteTun
      BY <1>14, <3>1 DEF RemoteDials, RemoteTun
    <3> QED BY <3>2, NoneAssumption DEF RemoteTun
  <2>2. RemoteHolds' /\ Filled(rrec')
    BY <1>14, <2>1 DEF RemoteDials, RemoteHolds, AllFilled
  <2> QED BY <1>1, <1>2, <1>14, <2>2 DEF RemoteDials, Kept, AllFilled
<1>15. CASE WaitConnected \/ WaitTimeout
  <2>0. rpc = "wait" /\ rrec \in RedisJson /\ rrec.state = 2 /\ Filled(rrec)
    BY <1>4, <1>15 DEF WaitConnected, WaitTimeout, RemoteHolds, AllFilled
  <2>1. ASSUME NEW st \in {3, 4}
        PROVE  Filled([rrec EXCEPT !.state = st]) /\ [rrec EXCEPT !.state = st] # None
    <3>1. rrec.cfg # None /\ rrec.laddr # None
      BY <2>0, RecordFields DEF Filled
    <3>2. [rrec EXCEPT !.state = st] \in RedisJson
      <4>1. st \in -2..4
        OBVIOUS
      <4> QED BY <2>0, <4>1, RecordUpdates
    <3>3. /\ [rrec EXCEPT !.state = st].cfg = rrec.cfg
          /\ [rrec EXCEPT !.state = st].laddr = rrec.laddr
      BY <2>0 DEF RedisJson
    <3> QED BY <3>1, <3>2, <3>3, RecordFields DEF Filled
  <2>2. \A s \in Sids : Filled(sess'[s])
    BY <1>4, <1>15, <2>1, SetFilled DEF WaitConnected, WaitTimeout
  <2>3. RemoteHolds' /\ Filled(rrec')
    <3>1. CASE RemoteRelease
      BY <1>3, <3>1
    <3>2. CASE ~RemoteRelease
      <4>1. rrec' = [rrec EXCEPT !.state = 3] /\ rpc' = "poll" /\ rtun' = rtun
        BY <1>15, <3>2 DEF WaitConnected, WaitTimeout
      <4> QED BY <2>0, <2>1, <4>1 DEF RemoteHolds
    <3> QED BY <3>1, <3>2
  <2>4. regKey' = regKey /\ local' = local
    BY <1>15 DEF WaitConnected, WaitTimeout
  <2> QED BY <1>1, <2>2, <2>3, <2>4 DEF Kept, AllFilled
<1> QED
  BY <1>5, <1>6, <1>7, <1>8, <1>9, <1>10, <1>11, <1>12, <1>13, <1>14, <1>15
  DEF RemoteStep

LEMMA EnvKeptStep ==
    ASSUME IInv, EnvStep
    PROVE  Kept'
<1> USE DEF IInv
<1>1. ASSUME NEW s \in Sids, ServeEnds(s) PROVE Kept'
  BY <1>1 DEF ServeEnds, Kept, LocalHolds, RemoteHolds, AllFilled, redis, local
<1>2. ASSUME NEW s \in Sids, SessExpires(s) PROVE Kept'
  <2>1. \A t \in Sids : sess'[t] = None \/ sess'[t] = sess[t]
    BY <1>2 DEF SessExpires, TypeOK
  <2>2. \A t \in Sids : Filled(sess'[t])
    BY <2>1 DEF AllFilled, Filled
  <2> QED BY <1>2, <2>2
          DEF SessExpires, Kept, LocalHolds, RemoteHolds, AllFilled, local, remote
<1>3. CASE RegExpires
  <2>1. Filled(regKey')
    BY <1>3 DEF RegExpires, Filled
  <2> QED BY <1>3, <2>1
          DEF RegExpires, Kept, LocalHolds, RemoteHolds, AllFilled, local, remote
<1>4. ASSUME NEW l \in Locals, LocalTunUp(l) PROVE Kept'
  BY <1>4 DEF LocalTunUp, Kept, LocalHolds, RemoteHolds, AllFilled, redis, remote
<1>5. ASSUME NEW l \in Locals, RemoteTunSignals(l) PROVE Kept'
  <2>1. rtun' # None
    <3>1. rtun \in RemoteTun
      BY <1>5 DEF RemoteTunSignals, Punching, TypeOK
    <3>2. rtun' \in RemoteTun
      BY <1>5, <3>1 DEF RemoteTunSignals, RemoteTun
    <3> QED BY <3>2, NoneAssumption DEF RemoteTun
  <2> QED BY <1>5, <2>1
          DEF RemoteTunSignals, Kept, LocalHolds, RemoteHolds, AllFilled, redis, local
<1> QED BY <1>1, <1>2, <1>3, <1>4, <1>5 DEF EnvStep

-----------------------------------------------------------------------------
LEMMA IInvariant == Spec => []IInv
<1>1. Init => IInv
  <2>1. Init => Kept
    BY SessionAssumption DEF Init, Kept, LocalHolds, RemoteHolds, AllFilled, Filled
  <2> QED BY <2>1, TypeInit DEF IInv, Kept
<1>2. IInv /\ [Next]_vars => IInv'
  <2> SUFFICES ASSUME IInv, [Next]_vars PROVE TypeOK' /\ Kept'
    BY DEF IInv, Kept
  <2>1. ASSUME NEW l \in Locals,
               LocalStep(l) \/ LocalStart(l) \/ LocalHealthEnds(l) \/ LocalCrash(l)
        PROVE  TypeOK' /\ Kept'
    BY <2>1, LocalTypeStep, LocalKeptStep
  <2>2. CASE RemoteStep \/ RemoteStart \/ RemoteCrash
    BY <2>2, RemoteTypeStep, RemoteKeptStep
  <2>3. CASE EnvStep
    BY <2>3, EnvTypeStep, EnvKeptStep
  <2>4. CASE UNCHANGED vars
    BY <2>4 DEF vars, IInv, Kept, TypeOK, LocalHolds, RemoteHolds, AllFilled
  <2> QED BY <2>1, <2>2, <2>3, <2>4 DEF Next, EnvStep
<1> QED BY <1>1, <1>2, PTL DEF Spec

(* TypeOK holds throughout: a Local makes no more than maxConnectAttempts  *)
(* attempts in a row, and neither side ever starts an endpoint from a      *)
(* record that has no settings.                                            *)
THEOREM TypeCorrect == Spec => []TypeOK
<1>1. IInv => TypeOK
  BY DEF IInv
<1> QED BY <1>1, IInvariant, PTL

(* The Remote never dials, or waits for, a Local whose address it does not *)
(* have, whichever writes, deletions and expiries of the shared record     *)
(* come in between.                                                        *)
THEOREM DialsOnlyKnown == Spec => []DialsKnownAddress
<1>1. IInv => DialsKnownAddress
  BY RecordFields DEF IInv, TypeOK, RemoteHolds, AllFilled, Filled, DialsKnownAddress
<1> QED BY <1>1, IInvariant, PTL

-----------------------------------------------------------------------------
(* The endpoints of a session *)

Serving == {"poll", "handle", "wait"}

(* Session identifiers are not used twice, and records stay under theirs.  *)
SidsFit ==
    /\ regKey # None => regKey.sid < nextSid
    /\ rrec # None => rrec.sid < nextSid
    /\ \A s \in Sids :
         sess[s] # None => s < nextSid /\ sess[s].sid = s /\ sess[s].state # 0
    /\ \A l \in Locals :
         /\ lsid[l] # None => lsid[l] < nextSid
         /\ lrec[l] # None => lrec[l].sid = lsid[l]
    /\ \A l, m \in Locals : lsid[l] # None /\ lsid[l] = lsid[m] => l = m

(* A side that is between sessions holds nothing of one; a Local's         *)
(* endpoint has the role its NAT asks for.                                 *)
HoldsNothing ==
    /\ \A l \in Locals :
         /\ lpc[l] \in {"exited", "probe"} => lsid[l] = None
         /\ lpc[l] \in {"exited", "probe", "exists", "set"} => lrec[l] = None /\ ltun[l] = None
         /\ ltun[l] # None => (ltun[l].role = "active" <=> lnat[l] = "cone")
    /\ rpc \in {"stopped", "scan"} => rrec = None
    /\ rpc \notin Serving => rtun = None

(* The Remote has written nothing about the session. *)
Unanswered(s) ==
    /\ sess[s] = None
    /\ \A l \in Locals : lsid[l] = s => /\ ltun[l] = None
                                        /\ lrec[l] # None => lrec[l].state = 0

(* The record carries an address exactly when the session's Local dials.   *)
Addressed(rec) ==
    \A l \in Locals : lsid[l] = rec.sid => (rec.laddr = None <=> lnat[l] = "sym")

(* A session is registered once, and answered only after its registration  *)
(* was deleted.                                                            *)
Offered ==
    /\ \A l \in Locals : lpc[l] \in {"exists", "set"} =>
         /\ sess[lsid[l]] = None
         /\ regKey # None => regKey.sid # lsid[l]
         /\ rrec # None => rrec.sid # lsid[l]
    /\ regKey # None =>
         /\ Unanswered(regKey.sid) /\ Addressed(regKey)
         /\ rpc \in Serving \cup {"send"} => rrec.sid # regKey.sid
    /\ rpc \in {"claimed", "send"} => Unanswered(rrec.sid) /\ Addressed(rrec)

(* What the Remote, the record and the session's Local agree on while the  *)
(* Remote works on the session, and who is ahead of whom.                  *)
RecordFits ==
    sess[rrec.sid] # None =>
        LET rec == sess[rrec.sid]
        IN  /\ rec.cfg = rrec.cfg /\ rec.raddr = rrec.raddr /\ rec.state \in 1..4
            /\ rrec.state <= 2 => rec.state <= 2
            /\ rec.state = 1 => rrec.state = 1

LocalFits(l) ==
    /\ rtun.role = "active" <=> lnat[l] = "sym"
    /\ lrec[l] # None /\ lrec[l].state # 0 =>
         lrec[l].cfg = rrec.cfg /\ lrec[l].raddr = rrec.raddr
    /\ ltun[l] # None =>
         ltun[l].cfg = rrec.cfg /\ ~(lnat[l] = "sym" /\ rrec.raddr = "sym")
    /\ lpc[l] = "handle" /\ lrec[l].state = 1 => rrec.state = 1

Agree ==
    rpc \in Serving =>
        /\ rrec.cfg = rtun.cfg /\ rrec.state \in 1..4 /\ RecordFits
        /\ \A l \in Locals : lsid[l] = rrec.sid => LocalFits(l)

(* A Local that acts on State 1 still finds it, if anything. *)
Current ==
    \A l \in Locals :
        lpc[l] = "handle" /\ lrec[l].state = 1 =>
            sess[lsid[l]] = None \/ sess[lsid[l]].state = 1

EInv == SidsFit /\ HoldsNothing /\ Offered /\ Agree /\ Current

(* What the types say of sessions and records that are there. *)
LEMMA Present ==
    ASSUME IInv
    PROVE  /\ \A l \in Locals : /\ lsid[l] # None => lsid[l] \in Sids
                                /\ lrec[l] # None => lrec[l] \in RedisJson
                                /\ ltun[l] # None => ltun[l] \in LocalTun
                                /\ lpc[l] \in LocalPc
                                /\ lpc[l] \notin {"exited", "probe"} =>
                                     lsid[l] \in Sids /\ lnat[l] \in Nats
                                /\ lpc[l] = "handle" => lrec[l] \in RedisJson
           /\ \A s \in Sids : sess[s] # None => sess[s] \in RedisJson
           /\ regKey # None => regKey \in RedisJson
           /\ rrec # None => rrec \in RedisJson
           /\ rtun # None => rtun \in RemoteTun
           /\ rpc \notin {"stopped", "scan"} => rrec \in RedisJson /\ rrec.sid \in Sids
           /\ rpc \in Serving => rtun \in RemoteTun
           /\ nextSid \in Nat /\ Sids \subseteq Nat
<1>1. TypeOK /\ LocalHolds /\ RemoteHolds
  BY DEF IInv
<1>2. rpc \notin {"stopped", "scan"} => rrec \in RedisJson /\ rrec.sid \in Sids
  BY <1>1, RecordFields DEF TypeOK, RemoteHolds
<1>3. rpc \in Serving => rtun \in RemoteTun
  BY <1>1 DEF TypeOK, RemoteHolds, Serving
<1>4. nextSid \in Nat /\ Sids \subseteq Nat
  BY <1>1, SessionAssumption DEF TypeOK, Sids
<1> QED BY <1>1, <1>2, <1>3, <1>4 DEF TypeOK, LocalHolds

(* A Local, or the Remote, goes on as it was or drops its session.         *)
Same(l) == /\ lpc'[l] = lpc[l] /\ lsid'[l] = lsid[l] /\ lnat'[l] = lnat[l]
           /\ lrec'[l] = lrec[l] /\ ltun'[l] = ltun[l]
Reset(l) == /\ lpc'[l] \in {"exited", "probe"}
            /\ lsid'[l] = None /\ lrec'[l] = None /\ ltun'[l] = None
RemoteSame == rpc' = rpc /\ rrec' = rrec /\ rtun' = rtun
RemoteReset == rpc' \in {"stopped", "scan"} /\ rrec' = None /\ rtun' = None

(* Whatever is dropped, expires or is deleted breaks nothing.              *)
LEMMA Forgets ==
    ASSUME IInv, EInv,
           regKey' \in {regKey, None}, \A s \in Sids : sess'[s] \in {sess[s], None},
           nextSid' = nextSid, \A l \in Locals : Same(l) \/ Reset(l),
           RemoteSame \/ RemoteReset
    PROVE  EInv'
<1>0. SidsFit /\ HoldsNothing /\ Offered /\ Agree /\ Current
  BY DEF EInv
<1>l. \A l \in Locals : /\ lsid'[l] # None => Same(l)
                        /\ lrec'[l] # None => Same(l)
                        /\ ltun'[l] # None => Same(l)
                        /\ lpc'[l] \notin {"exited", "probe"} => Same(l)
  BY DEF Same, Reset
<1>r. /\ rrec' # None => RemoteSame
      /\ rpc' \notin {"stopped", "scan"} => RemoteSame
  BY DEF RemoteSame, RemoteReset
<1>p. /\ \A l \in Locals : lpc[l] \notin {"exited", "probe"} => lsid[l] \in Sids
      /\ regKey # None => regKey.sid \in Sids
      /\ rpc \notin {"stopped", "scan"} => rrec.sid \in Sids
  BY Present, RecordFields
<1>1. SidsFit'
  <2>1. regKey' # None => regKey'.sid < nextSid'
    BY <1>0 DEF SidsFit
  <2>2. rrec' # None => rrec'.sid < nextSid'
    BY <1>0, <1>r DEF SidsFit, RemoteSame
  <2>3. \A s \in Sids :
          sess'[s] # None => s < nextSid' /\ sess'[s].sid = s /\ sess'[s].state # 0
    BY <1>0 DEF SidsFit
  <2>4. \A l \in Locals : /\ lsid'[l] # None => lsid'[l] < nextSid'
                          /\ lrec'[l] # None => lrec'[l].sid = lsid'[l]
    BY <1>0, <1>l DEF SidsFit, Same
  <2>5. \A l, m \in Locals : lsid'[l] # None /\ lsid'[l] = lsid'[m] => l = m
    BY <1>0, <1>l DEF SidsFit, Same
  <2> QED BY <2>1, <2>2, <2>3, <2>4, <2>5 DEF SidsFit
<1>2. HoldsNothing'
  <2>1. ASSUME NEW l \in Locals
        PROVE  /\ lpc'[l] \in {"exited", "probe"} => lsid'[l] = None
               /\ lpc'[l] \in {"exited", "probe", "exists", "set"} =>
                    lrec'[l] = None /\ ltun'[l] = None
               /\ ltun'[l] # None => (ltun'[l].role = "active" <=> lnat'[l] = "cone")
    BY <1>0, <1>l DEF HoldsNothing, Same, Reset
  <2>2. /\ rpc' \in {"stopped", "scan"} => rrec' = None
        /\ rpc' \notin Serving => rtun' = None
    BY <1>0, <1>r DEF HoldsNothing, RemoteSame, RemoteReset
  <2> QED BY <2>1, <2>2 DEF HoldsNothing
<1>a. ASSUME NEW rec, rec.sid \in Sids, Addressed(rec)
      PROVE  \A l \in Locals : lsid'[l] = rec.sid => (rec.laddr = None <=> lnat'[l] = "sym")
  <2>1. rec.sid # None
    BY <1>a, NoneAssumption
  <2> QED BY <1>a, <1>l, <2>1 DEF Addressed, Same
<1>3. Offered'
  <2>1. ASSUME NEW l \in Locals, lpc'[l] \in {"exists", "set"}
        PROVE  /\ sess'[lsid'[l]] = None
               /\ regKey' # None => regKey'.sid # lsid'[l]
               /\ rrec' # None => rrec'.sid # lsid'[l]
    <3>1. Same(l) /\ lpc[l] \in {"exists", "set"}
      BY <1>l, <2>1 DEF Same
    <3>2. lsid[l] \in Sids
      BY <1>p, <3>1
    <3> QED BY <1>0, <1>r, <3>1, <3>2 DEF Offered, Same, RemoteSame
  <2>2. ASSUME regKey' # None
        PROVE  /\ Unanswered(regKey.sid)' /\ Addressed(regKey)'
               /\ rpc' \in Serving \cup {"send"} => rrec'.sid # regKey'.sid
    <3>1. regKey' = regKey /\ regKey # None
      BY <2>2
    <3>2. Unanswered(regKey.sid) /\ Addressed(regKey) /\ regKey.sid \in Sids
          /\ (rpc \in Serving \cup {"send"} => rrec.sid # regKey.sid)
      BY <1>0, <1>p, <3>1 DEF Offered
    <3>3. Unanswered(regKey.sid)'
      <4>1. sess'[regKey.sid] = None /\ regKey.sid # None
        BY <3>2, NoneAssumption DEF Unanswered
      <4> QED BY <1>l, <3>1, <3>2, <4>1 DEF Unanswered, Same
    <3>4. Addressed(regKey)'
      BY <1>a, <3>1, <3>2 DEF Addressed
    <3> QED BY <1>r, <3>1, <3>2, <3>3, <3>4 DEF Serving, RemoteSame
  <2>3. ASSUME rpc' \in {"claimed", "send"}
        PROVE  Unanswered(rrec.sid)' /\ Addressed(rrec)'
    <3>1. RemoteSame /\ rpc \in {"claimed", "send"}
      BY <1>r, <2>3 DEF RemoteSame
    <3>2. Unanswered(rrec.sid) /\ Addressed(rrec) /\ rrec.sid \in Sids
      BY <1>0, <1>p, <3>1 DEF Offered
    <3>3. sess'[rrec.sid] = None /\ rrec.sid # None /\ rrec' = rrec
      BY <3>1, <3>2, NoneAssumption DEF Unanswered, RemoteSame
    <3>4. Unanswered(rrec.sid)'
      BY <1>l, <3>2, <3>3 DEF Unanswered, Same
    <3>5. Addressed(rrec)'
      BY <1>a, <3>2, <3>3 DEF Addressed
    <3> QED BY <3>4, <3>5
  <2> QED BY <2>1, <2>2, <2>3 DEF Offered
<1>4. Agree'
  <2> SUFFICES ASSUME rpc' \in Serving
               PROVE  /\ rrec'.cfg = rtun'.cfg /\ rrec'.state \in 1..4 /\ RecordFits'
                      /\ \A l \in Locals : lsid'[l] = rrec'.sid => LocalFits(l)'
    BY DEF Agree
  <2>1. RemoteSame /\ rpc \in Serving /\ rrec.sid \in Sids
    BY <1>r, <1>p DEF RemoteSame, Serving
  <2>2. /\ rrec.cfg = rtun.cfg /\ rrec.state \in 1..4 /\ RecordFits
        /\ \A l \in Locals : lsid[l] = rrec.sid => LocalFits(l)
    BY <1>0, <2>1 DEF Agree
  <2>3. RecordFits'
    BY <2>1, <2>2 DEF RecordFits, RemoteSame
  <2>4. ASSUME NEW l \in Locals, lsid'[l] = rrec'.sid PROVE LocalFits(l)'
    <3>1. Same(l) /\ lsid[l] = rrec.sid
      BY <1>l, <2>1, <2>4, NoneAssumption DEF RemoteSame, Same
    <3> QED BY <2>1, <2>2, <3>1 DEF LocalFits, Same, RemoteSame
  <2> QED BY <2>1, <2>2, <2>3, <2>4 DEF RemoteSame
<1>5. Current'
  <2> SUFFICES ASSUME NEW l \in Locals, lpc'[l] = "handle", lrec'[l].state = 1
               PROVE  sess'[lsid'[l]] = None \/ sess'[lsid'[l]].state = 1
    BY DEF Current
  <2>1. Same(l) /\ lsid[l] \in Sids /\ lpc[l] = "handle"
    BY <1>l, <1>p DEF Same
  <2> QED BY <1>0, <2>1 DEF Current, Same
<1> QED BY <1>1, <1>2, <1>3, <1>4, <1>5 DEF EInv

(* A write under a session's key is there or lost, and no other key's.     *)
LEMMA SetIs ==
    ASSUME IInv, NEW s \in Sids, NEW rec, RedisSessionSet(s, rec)
    PROVE  sess'[s] \in {rec, sess[s]} /\ \A t \in Sids : t # s => sess'[t] = sess[t]
BY DEF RedisSessionSet, IInv, TypeOK

(* The Local stops at a poll, or goes on from one. *)
LEMMA MovesFit ==
    ASSUME IInv, EInv, NEW l \in Locals,
           RegisterExists(l) \/ ClaimTimeout(l) \/ LocalWaits(l) \/ LocalConnected(l)
    PROVE  EInv'
<1>0. SidsFit /\ HoldsNothing /\ Offered /\ Agree /\ Current
  BY DEF EInv
<1>1. UNCHANGED <<regKey, sess, nextSid, lsid, lnat, lrec, ltun, rpc, rrec, rtun>>
  BY DEF RegisterExists, ClaimTimeout, LocalWaits, LocalConnected, redis, remote
<1>2. /\ \A m \in Locals : m # l => lpc'[m] = lpc[m]
      /\ lpc'[l] \notin {"exited", "probe", "handle"}
      /\ lpc'[l] \in {"exists", "set"} => lpc[l] = "exists"
  BY DEF RegisterExists, ClaimTimeout, LocalWaits, LocalConnected, IInv, TypeOK
<1>3. SidsFit'
  BY <1>0, <1>1 DEF SidsFit
<1>4. HoldsNothing'
  BY <1>0, <1>1, <1>2 DEF HoldsNothing
<1>5. Offered'
  BY <1>0, <1>1, <1>2 DEF Offered, Unanswered, Addressed
<1>6. Agree'
  BY <1>0, <1>1, <1>2 DEF Agree, RecordFits, LocalFits
<1>7. Current'
  BY <1>0, <1>1, <1>2 DEF Current
<1> QED BY <1>3, <1>4, <1>5, <1>6, <1>7 DEF EInv

(* The identifier a Local draws is nobody's yet. *)
LEMMA ProbeFits ==
    ASSUME IInv, EInv, NEW l \in Locals, LocalProbe(l)
    PROVE  EInv'
<1>0. SidsFit /\ HoldsNothing /\ Offered /\ Agree /\ Current
  BY DEF EInv
<1>1. /\ UNCHANGED <<regKey, sess, lrec, ltun, rpc, rrec, rtun>>
      /\ nextSid' = nextSid + 1 /\ nextSid \in Sids /\ nextSid \in Nat
      /\ lpc[l] = "probe"
  BY Present DEF LocalProbe, redis, remote
<1>2. /\ lsid'[l] = nextSid /\ lpc'[l] = "exists" /\ lsid[l] = None
      /\ lrec[l] = None /\ ltun[l] = None
      /\ \A m \in Locals : m # l => lpc'[m] = lpc[m] /\ lsid'[m] = lsid[m] /\ lnat'[m] = lnat[m]
  BY <1>0, <1>1 DEF LocalProbe, HoldsNothing, IInv, TypeOK
<1>p. /\ \A m \in Locals : lsid[m] # None => lsid[m] \in Nat
      /\ rrec # None => rrec.sid \in Nat
      /\ regKey # None => regKey.sid \in Nat
      /\ rpc \notin {"stopped", "scan"} => rrec # None
      /\ \A s \in Sids : s \in Nat
  BY Present, RecordFields
<1>n. /\ rrec # None => rrec.sid # nextSid
      /\ regKey # None => regKey.sid # nextSid
      /\ sess[nextSid] = None
      /\ \A m \in Locals : lsid[m] # None => lsid[m] # nextSid
  BY <1>0, <1>1, <1>p DEF SidsFit
<1>3. SidsFit'
  <2>1. /\ regKey # None => regKey.sid < nextSid'
        /\ rrec # None => rrec.sid < nextSid'
        /\ \A s \in Sids : sess[s] # None => s < nextSid'
        /\ \A m \in Locals : lsid'[m] # None => lsid'[m] < nextSid'
    BY <1>0, <1>1, <1>2, <1>p DEF SidsFit
  <2>2. \A m \in Locals : lrec[m] # None => lrec[m].sid = lsid'[m]
    BY <1>0, <1>2 DEF SidsFit
  <2>3. \A k, m \in Locals : lsid'[k] # None /\ lsid'[k] = lsid'[m] => k = m
    BY <1>0, <1>2, <1>n DEF SidsFit
  <2> QED BY <1>0, <1>1, <2>1, <2>2, <2>3 DEF SidsFit
<1>4. HoldsNothing'
  BY <1>0, <1>1, <1>2 DEF HoldsNothing
<1>5. Offered'
  <2>1. ASSUME NEW m \in Locals, lpc'[m] \in {"exists", "set"}
        PROVE  /\ sess'[lsid'[m]] = None
               /\ regKey' # None => regKey'.sid # lsid'[m]
               /\ rrec' # None => rrec'.sid # lsid'[m]
    BY <1>0, <1>1, <1>2, <1>n, <2>1 DEF Offered
  <2>2. regKey' # None => /\ Unanswered(regKey.sid)' /\ Addressed(regKey)'
                          /\ rpc' \in Serving \cup {"send"} => rrec'.sid # regKey'.sid
    BY <1>0, <1>1, <1>2, <1>n DEF Offered, Unanswered, Addressed
  <2>3. rpc' \in {"claimed", "send"} => Unanswered(rrec.sid)' /\ Addressed(rrec)'
    BY <1>0, <1>1, <1>2, <1>p, <1>n DEF Offered, Unanswered, Addressed
  <2> QED BY <2>1, <2>2, <2>3 DEF Offered
<1>6. Agree'
  <2>1. rpc \in Serving => \A m \in Locals : lsid'[m] = rrec.sid => m # l
    BY <1>2, <1>p, <1>n DEF Serving
  <2> QED BY <1>0, <1>1, <1>2, <2>1 DEF Agree, RecordFits, LocalFits
<1>7. Current'
  BY <1>0, <1>1, <1>2 DEF Current
<1> QED BY <1>3, <1>4, <1>5, <1>6, <1>7 DEF EInv

(* A Local registers its session, which nobody has seen so far. *)
LEMMA RegisterFits ==
    ASSUME IInv, EInv, NEW l \in Locals, RegisterSet(l)
    PROVE  EInv'
<1> DEFINE R == Registration(l)
<1>0. SidsFit /\ HoldsNothing /\ Offered /\ Agree /\ Current
  BY DEF EInv
<1>1. /\ UNCHANGED <<sess, nextSid, lsid, lnat, ltun, rpc, rrec, rtun>>
      /\ lpc[l] = "set" /\ regKey' = R
  BY DEF RegisterSet, remote
<1>2. /\ lpc'[l] = "claim" /\ lrec'[l] = R /\ ltun[l] = None
      /\ \A m \in Locals : m # l => lpc'[m] = lpc[m] /\ lrec'[m] = lrec[m]
  BY <1>0, <1>1 DEF RegisterSet, HoldsNothing, IInv, TypeOK
<1>3. lsid[l] \in Sids /\ lsid[l] # None /\ lnat[l] \in Nats
  BY <1>1, Present, NoneAssumption
<1>4. R.sid = lsid[l] /\ R.state = 0 /\ (R.laddr = None <=> lnat[l] = "sym")
  BY <1>3, NoneAssumption DEF Registration, Nats
<1> HIDE DEF R
<1>5. /\ sess[lsid[l]] = None /\ (rrec # None => rrec.sid # lsid[l])
      /\ rpc \notin {"stopped", "scan"} => rrec # None
      /\ \A m \in Locals : m # l => lsid[m] # lsid[l]
  BY <1>0, <1>1, <1>3, Present, RecordFields DEF Offered, SidsFit
<1>6. SidsFit'
  BY <1>0, <1>1, <1>2, <1>3, <1>4 DEF SidsFit
<1>7. HoldsNothing'
  BY <1>0, <1>1, <1>2 DEF HoldsNothing
<1>8. Offered'
  <2>1. ASSUME NEW m \in Locals, lpc'[m] \in {"exists", "set"}
        PROVE  /\ sess'[lsid'[m]] = None
               /\ regKey' # None => regKey'.sid # lsid'[m]
               /\ rrec' # None => rrec'.sid # lsid'[m]
    <3>1. m # l /\ lpc[m] \in {"exists", "set"}
      BY <1>2, <2>1
    <3> QED BY <1>0, <1>1, <1>4, <1>5, <3>1 DEF Offered
  <2>2. Unanswered(regKey.sid)' /\ Addressed(regKey)'
    BY <1>1, <1>2, <1>4, <1>5 DEF Unanswered, Addressed
  <2>3. rpc' \in Serving \cup {"send"} => rrec'.sid # regKey'.sid
    BY <1>1, <1>4, <1>5 DEF Serving
  <2>4. rpc' \in {"claimed", "send"} => Unanswered(rrec.sid)' /\ Addressed(rrec)'
    BY <1>0, <1>1, <1>2, <1>5 DEF Offered, Unanswered, Addressed
  <2> QED BY <2>1, <2>2, <2>3, <2>4 DEF Offered
<1>9. Agree'
  <2>1. rpc \in Serving => \A m \in Locals : lsid[m] = rrec.sid => m # l
    BY <1>5 DEF Serving
  <2> QED BY <1>0, <1>1, <1>2, <2>1 DEF Agree, RecordFits, LocalFits
<1>10. Current'
  BY <1>0, <1>1, <1>2 DEF Current
<1> QED BY <1>6, <1>7, <1>8, <1>9, <1>10 DEF EInv

(* A Local reads its session: the registration is gone by then. *)
LEMMA ReadFits ==
    ASSUME IInv, EInv, NEW l \in Locals, ClaimSeen(l) \/ LocalGet(l)
    PROVE  EInv'
<1> DEFINE rec == sess[lsid[l]]
<1>0. SidsFit /\ HoldsNothing /\ Offered /\ Agree /\ Current
  BY DEF EInv
<1>1. /\ UNCHANGED <<regKey, sess, nextSid, lsid, lnat, ltun, rpc, rrec, rtun>>
      /\ lpc[l] \in {"claim", "poll"} /\ rec # None
  BY DEF ClaimSeen, LocalGet, redis, remote
<1>2. /\ lpc'[l] \in {"poll", "handle"} /\ lrec'[l] = rec
      /\ \A m \in Locals : m # l => lpc'[m] = lpc[m] /\ lrec'[m] = lrec[m]
  BY DEF ClaimSeen, LocalGet, IInv, TypeOK
<1>3. lsid[l] \in Sids /\ lsid[l] # None
  BY <1>1, Present, NoneAssumption
<1>4. rec.sid = lsid[l] /\ rec.state # 0
  BY <1>0, <1>1, <1>3 DEF SidsFit
<1>5. /\ regKey # None => regKey.sid # lsid[l]
      /\ rpc \in {"claimed", "send"} => rrec.sid # lsid[l]
  BY <1>0, <1>1 DEF Offered, Unanswered
<1>6. SidsFit'
  BY <1>0, <1>1, <1>2, <1>4 DEF SidsFit
<1>7. HoldsNothing'
  BY <1>0, <1>1, <1>2 DEF HoldsNothing
<1>8. Offered'
  <2>1. ASSUME NEW m \in Locals, lpc'[m] \in {"exists", "set"}
        PROVE  /\ sess'[lsid'[m]] = None
               /\ regKey' # None => regKey'.sid # lsid'[m]
               /\ rrec' # None => rrec'.sid # lsid'[m]
    <3>1. m # l /\ lpc[m] \in {"exists", "set"}
      BY <1>2, <2>1
    <3> QED BY <1>0, <1>1, <3>1 DEF Offered
  <2>2. regKey' # None => /\ Unanswered(regKey.sid)' /\ Addressed(regKey)'
                          /\ rpc' \in Serving \cup {"send"} => rrec'.sid # regKey'.sid
    BY <1>0, <1>1, <1>2, <1>5 DEF Offered, Unanswered, Addressed
  <2>3. rpc' \in {"claimed", "send"} => Unanswered(rrec.sid)' /\ Addressed(rrec)'
    BY <1>0, <1>1, <1>2, <1>5 DEF Offered, Unanswered, Addressed
  <2> QED BY <2>1, <2>2, <2>3 DEF Offered
<1>9. Agree'
  <2> SUFFICES ASSUME rpc \in Serving, NEW m \in Locals, lsid[m] = rrec.sid
               PROVE  LocalFits(m)'
    BY <1>0, <1>1 DEF Agree, RecordFits
  <2>1. RecordFits /\ LocalFits(m)
    BY <1>0 DEF Agree
  <2>2. CASE m = l
    BY <1>1, <1>2, <2>1, <2>2 DEF RecordFits, LocalFits
  <2>3. CASE m # l
    BY <1>1, <1>2, <2>1, <2>3 DEF LocalFits
  <2> QED BY <2>2, <2>3
<1>10. Current'
  BY <1>0, <1>1, <1>2 DEF Current
<1> QED BY <1>6, <1>7, <1>8, <1>9, <1>10 DEF EInv

(* A Local answers: what it puts back is what the Remote offered, and no   *)
(* one has moved the session on since.                                     *)
LEMMA AcceptFits ==
    ASSUME IInv, EInv, NEW l \in Locals, LocalAccepts(l)
    PROVE  EInv'
<1> DEFINE A == Answer(l)
<1>0. SidsFit /\ HoldsNothing /\ Offered /\ Agree /\ Current
  BY DEF EInv
<1>1. /\ UNCHANGED <<regKey, nextSid, lsid, lnat, rpc, rrec, rtun>>
      /\ lpc[l] = "handle" /\ lrec[l].state = 1
      /\ ~(lnat[l] = "sym" /\ lrec[l].raddr = "sym")
  BY DEF LocalAccepts, Incompatible, remote
<1>2. /\ lpc'[l] = "poll" /\ lrec'[l] = A /\ ltun'[l] = NewLocalTun(l)
      /\ \A m \in Locals : m # l => lpc'[m] = lpc[m] /\ lrec'[m] = lrec[m] /\ ltun'[m] = ltun[m]
  BY DEF LocalAccepts, IInv, TypeOK
<1>3. lsid[l] \in Sids /\ lsid[l] # None /\ lnat[l] \in Nats /\ lrec[l] \in RedisJson
      /\ lrec[l] # None
  BY <1>1, Present, NoneAssumption
<1>4. /\ A.sid = lsid[l] /\ A.state = 2 /\ A.cfg = lrec[l].cfg /\ A.raddr = lrec[l].raddr
      /\ A # None
  <2>1. lrec[l].sid = lsid[l]
    BY <1>0, <1>3 DEF SidsFit
  <2>2. A \in RedisJson
    <3>1. 2 \in -2..4
      OBVIOUS
    <3> QED BY <1>3, <3>1, RecordUpdates DEF Answer
  <2>3. A.sid = lrec[l].sid /\ A.state = 2 /\ A.cfg = lrec[l].cfg /\ A.raddr = lrec[l].raddr
    BY <1>3 DEF Answer, RedisJson
  <2> QED BY <2>1, <2>2, <2>3, RecordFields
<1>5. /\ NewLocalTun(l).role = "active" <=> lnat[l] = "cone"
      /\ NewLocalTun(l).cfg = lrec[l].cfg
  BY DEF NewLocalTun
<1>6. /\ sess'[lsid[l]] \in {A, sess[lsid[l]]}
      /\ \A t \in Sids : t # lsid[l] => sess'[t] = sess[t]
  BY <1>3, SetIs DEF LocalAccepts
<1> HIDE DEF A
<1>7. /\ regKey # None => regKey.sid # lsid[l] /\ regKey.sid \in Sids
      /\ rpc \in {"claimed", "send"} => rrec.sid # lsid[l]
      /\ rpc \notin {"stopped", "scan"} => rrec.sid \in Sids
      /\ \A m \in Locals : m # l => lsid[m] # lsid[l]
      /\ \A m \in Locals : lpc[m] \notin {"exited", "probe"} => lsid[m] \in Sids
  <2>1. regKey # None => regKey.sid # lsid[l]
    BY <1>0, <1>1, <1>3 DEF Offered, Unanswered
  <2>2. rpc \in {"claimed", "send"} => rrec.sid # lsid[l]
    BY <1>0, <1>1, <1>3 DEF Offered, Unanswered
  <2> QED BY <1>0, <1>3, <2>1, <2>2, Present, RecordFields DEF SidsFit
<1>8. SidsFit'
  <2>1. \A s \in Sids : sess'[s] # None => s < nextSid /\ sess'[s].sid = s /\ sess'[s].state # 0
    BY <1>0, <1>3, <1>4, <1>6 DEF SidsFit
  <2>2. \A m \in Locals : lrec'[m] # None => lrec'[m].sid = lsid[m]
    BY <1>0, <1>2, <1>4 DEF SidsFit
  <2> QED BY <1>0, <1>1, <2>1, <2>2 DEF SidsFit
<1>9. HoldsNothing'
  BY <1>0, <1>1, <1>2, <1>5 DEF HoldsNothing
<1>10. Offered'
  <2>1. ASSUME NEW m \in Locals, lpc'[m] \in {"exists", "set"}
        PROVE  /\ sess'[lsid'[m]] = None
               /\ regKey' # None => regKey'.sid # lsid'[m]
               /\ rrec' # None => rrec'.sid # lsid'[m]
    <3>1. m # l /\ lpc[m] \in {"exists", "set"} /\ lsid[m] \in Sids /\ lsid[m] # lsid[l]
      BY <1>2, <1>7, <2>1
    <3> QED BY <1>0, <1>1, <1>6, <3>1 DEF Offered
  <2>2. regKey' # None => /\ Unanswered(regKey.sid)' /\ Addressed(regKey)'
                          /\ rpc' \in Serving \cup {"send"} => rrec'.sid # regKey'.sid
    BY <1>0, <1>1, <1>2, <1>6, <1>7 DEF Offered, Unanswered, Addressed
  <2>3. rpc' \in {"claimed", "send"} => Unanswered(rrec.sid)' /\ Addressed(rrec)'
    BY <1>0, <1>1, <1>2, <1>6, <1>7 DEF Offered, Unanswered, Addressed
  <2> QED BY <2>1, <2>2, <2>3 DEF Offered
<1>11. Agree'
  <2> SUFFICES ASSUME rpc \in Serving
               PROVE  RecordFits' /\ \A m \in Locals : lsid[m] = rrec.sid => LocalFits(m)'
    BY <1>0, <1>1 DEF Agree
  <2>0. rrec.sid \in Sids /\ RecordFits
        /\ \A m \in Locals : lsid[m] = rrec.sid => LocalFits(m)
    BY <1>0, <1>7 DEF Agree, Serving
  <2>1. CASE rrec.sid = lsid[l]
    <3>1. /\ lrec[l].cfg = rrec.cfg /\ lrec[l].raddr = rrec.raddr /\ rrec.state = 1
          /\ rtun.role = "active" <=> lnat[l] = "sym"
      BY <1>1, <1>3, <2>0, <2>1 DEF LocalFits
    <3>2. RecordFits'
      BY <1>1, <1>4, <1>6, <2>0, <2>1, <3>1 DEF RecordFits
    <3>3. LocalFits(l)'
      BY <1>1, <1>2, <1>4, <1>5, <3>1 DEF LocalFits
    <3> QED BY <1>7, <2>1, <3>2, <3>3
  <2>2. CASE rrec.sid # lsid[l]
    <3>1. RecordFits'
      BY <1>1, <1>6, <2>0, <2>2 DEF RecordFits
    <3>2. \A m \in Locals : lsid[m] = rrec.sid => m # l
      BY <2>2
    <3> QED BY <1>1, <1>2, <2>0, <3>1, <3>2 DEF LocalFits
  <2> QED BY <2>1, <2>2
<1>12. Current'
  <2> SUFFICES ASSUME NEW m \in Locals, lpc'[m] = "handle", lrec'[m].state = 1
               PROVE  sess'[lsid'[m]] = None \/ sess'[lsid'[m]].state = 1
    BY DEF Current
  <2>1. m # l /\ lpc[m] = "handle" /\ lrec[m].state = 1 /\ lsid[m] \in Sids
        /\ lsid[m] # lsid[l]
    BY <1>2, <1>7
  <2> QED BY <1>0, <1>1, <1>6, <2>1 DEF Current
<1> QED BY <1>8, <1>9, <1>10, <1>11, <1>12 DEF EInv

(* What only moves on an endpoint, or only changes what it has done.       *)
LEMMA TunnelFits ==
    ASSUME IInv, EInv,
           \/ \E l \in Locals : LocalTunUp(l) \/ RemoteTunSignals(l)
           \/ RemoteWaits \/ RemoteDials
    PROVE  EInv'
<1>0. SidsFit /\ HoldsNothing /\ Offered /\ Agree /\ Current
  BY DEF EInv
<1>1. /\ UNCHANGED <<regKey, sess, nextSid, lpc, lsid, lnat, lrec, rrec>>
      /\ rpc' # rpc => rpc \in Serving /\ rpc' \in Serving
  BY DEF LocalTunUp, RemoteTunSignals, RemoteWaits, RemoteDials, redis, remote, local, Serving
<1>2. \A m \in Locals :
        /\ ltun'[m] # None <=> ltun[m] # None
        /\ ltun[m] # None => ltun'[m].role = ltun[m].role /\ ltun'[m].cfg = ltun[m].cfg
  <2>1. ASSUME NEW l \in Locals, LocalTunUp(l)
        PROVE  \A m \in Locals :
                 /\ ltun'[m] # None <=> ltun[m] # None
                 /\ ltun[m] # None => ltun'[m].role = ltun[m].role /\ ltun'[m].cfg = ltun[m].cfg
    <3>1. ltun[l] # None /\ ltun[l] \in LocalTun
      BY <2>1, Present DEF LocalTunUp, Punching
    <3>2. ltun'[l] = [ltun[l] EXCEPT !.up = TRUE] /\ \A m \in Locals : m # l => ltun'[m] = ltun[m]
      BY <2>1 DEF LocalTunUp, IInv, TypeOK
    <3>3. ltun'[l] \in LocalTun /\ ltun'[l].role = ltun[l].role /\ ltun'[l].cfg = ltun[l].cfg
      BY <3>1, <3>2 DEF LocalTun
    <3>4. ltun'[l] # None
      BY <3>3, NoneAssumption DEF LocalTun
    <3> QED BY <3>1, <3>2, <3>3, <3>4
  <2>2. CASE ~\E l \in Locals : LocalTunUp(l)
    BY <2>2 DEF RemoteTunSignals, RemoteWaits, RemoteDials, local
  <2> QED BY <2>1, <2>2
<1>3. /\ rpc \in Serving => rtun'.role = rtun.role /\ rtun'.cfg = rtun.cfg
      /\ rpc \notin Serving => rtun' = rtun
  <2>1. CASE rtun' = rtun
    BY <2>1
  <2>2. CASE rtun' # rtun
    <3>1. RemoteDials \/ \E l \in Locals : RemoteTunSignals(l)
      BY <2>2 DEF LocalTunUp, RemoteWaits, remote
    <3>2. rpc \in Serving
      BY <1>0, <3>1 DEF RemoteTunSignals, Punching, RemoteDials, HoldsNothing, Serving
    <3>3. rtun \in RemoteTun
      BY <3>2, Present
    <3>4. rtun'.role = rtun.role /\ rtun'.cfg = rtun.cfg
      BY <3>1, <3>3 DEF RemoteTunSignals, RemoteDials, RemoteTun
    <3> QED BY <3>2, <3>4
  <2> QED BY <2>1, <2>2
<1>s. /\ rpc' \in Serving <=> rpc \in Serving
      /\ rpc' \notin Serving => rpc' = rpc
  BY <1>1
<1>4. SidsFit'
  BY <1>0, <1>1 DEF SidsFit
<1>5. HoldsNothing'
  BY <1>0, <1>1, <1>2, <1>3, <1>s DEF HoldsNothing, Serving
<1>6. Offered'
  <2>3. /\ rpc' \in Serving \cup {"send"} => rpc \in Serving \cup {"send"}
        /\ rpc' \in {"claimed", "send"} => rpc \in {"claimed", "send"}
    BY <1>1, <1>s DEF Serving
  <2>4. regKey' # None => /\ Unanswered(regKey.sid)' /\ Addressed(regKey)'
                          /\ rpc' \in Serving \cup {"send"} => rrec'.sid # regKey'.sid
    BY <1>0, <1>1, <1>2, <2>3 DEF Offered, Unanswered, Addressed
  <2>5. rpc' \in {"claimed", "send"} => Unanswered(rrec.sid)' /\ Addressed(rrec)'
    BY <1>0, <1>1, <1>2, <2>3 DEF Offered, Unanswered, Addressed
  <2> QED BY <1>0, <1>1, <2>4, <2>5 DEF Offered
<1>7. Agree'
  <2> SUFFICES ASSUME rpc \in Serving
               PROVE  /\ rrec'.cfg = rtun'.cfg /\ rrec'.state \in 1..4 /\ RecordFits'
                      /\ \A m \in Locals : lsid'[m] = rrec'.sid => LocalFits(m)'
    BY <1>s DEF Agree
  <2>1. /\ rrec.cfg = rtun.cfg /\ rrec.state \in 1..4 /\ RecordFits
        /\ \A m \in Locals : lsid[m] = rrec.sid => LocalFits(m)
    BY <1>0 DEF Agree
  <2>2. RecordFits'
    BY <1>1, <2>1 DEF RecordFits
  <2>3. ASSUME NEW m \in Locals, lsid'[m] = rrec'.sid PROVE LocalFits(m)'
    BY <1>1, <1>2, <1>3, <2>1, <2>3 DEF LocalFits
  <2> QED BY <1>1, <1>3, <2>1, <2>2, <2>3
<1>8. Current'
  BY <1>0, <1>1 DEF Current
<1> QED BY <1>4, <1>5, <1>6, <1>7, <1>8 DEF EInv

(* The Remote takes a registration, and deletes it before it answers.      *)
LEMMA ClaimFits ==
    ASSUME IInv, EInv, "del" \notin Faults, ClaimGet \/ ClaimDel
    PROVE  EInv'
<1>0. SidsFit /\ HoldsNothing /\ Offered /\ Agree /\ Current
  BY DEF EInv
<1>1. UNCHANGED <<sess, nextSid, lpc, lsid, lnat, lrec, ltun, rtun>>
  BY DEF ClaimGet, ClaimDel, redis, local
<1>2. \/ /\ rpc = "scan" /\ regKey # None /\ regKey' = regKey
         /\ rrec' = regKey /\ rpc' = "claimed"
      \/ /\ rpc = "claimed" /\ regKey' = None /\ rrec' = rrec /\ rpc' = "send"
  BY DEF ClaimGet, ClaimDel, DelRegistration, redis
<1>3. SidsFit'
  BY <1>0, <1>1, <1>2 DEF SidsFit
<1>4. HoldsNothing'
  BY <1>0, <1>1, <1>2 DEF HoldsNothing, Serving
<1>5. Offered'
  BY <1>0, <1>1, <1>2 DEF Offered, Unanswered, Addressed, Serving
<1>6. Agree'
  BY <1>2 DEF Agree, Serving
<1>7. Current'
  BY <1>0, <1>1 DEF Current
<1> QED BY <1>3, <1>4, <1>5, <1>6, <1>7 DEF EInv

(* It refuses a session it has not answered, and forgets it.               *)
LEMMA RefusalFits ==
    ASSUME IInv, EInv, SendRefusal
    PROVE  EInv'
<1> DEFINE R == [rrec EXCEPT !.state = -1, !.rver = RemoteVersion]
<1>0. SidsFit /\ HoldsNothing /\ Offered /\ Agree /\ Current
  BY DEF EInv
<1>1. /\ UNCHANGED <<regKey, nextSid, lpc, lsid, lnat, lrec, ltun>>
      /\ rpc = "send" /\ rpc' = "scan" /\ rrec' = None /\ rtun' = None
  BY DEF SendRefusal, RemoteRelease, local
<1>2. rrec \in RedisJson /\ rrec.sid \in Sids /\ rrec # None /\ rrec.sid # None
  BY <1>1, Present, RecordFields, NoneAssumption
<1>3. R.sid = rrec.sid /\ R.state = -1
  BY <1>2 DEF RedisJson
<1>4. /\ sess'[rrec.sid] \in {R, sess[rrec.sid]}
      /\ \A t \in Sids : t # rrec.sid => sess'[t] = sess[t]
  BY <1>2, SetIs DEF SendRefusal
<1> HIDE DEF R
<1>5. /\ Unanswered(rrec.sid)
      /\ regKey # None => regKey.sid # rrec.sid /\ regKey.sid \in Sids
      /\ \A m \in Locals : lpc[m] \notin {"exited", "probe"} => lsid[m] \in Sids
  BY <1>0, <1>1, Present, RecordFields DEF Offered
<1>6. SidsFit'
  <2>1. \A s \in Sids : sess'[s] # None => s < nextSid /\ sess'[s].sid = s /\ sess'[s].state # 0
    BY <1>0, <1>2, <1>3, <1>4 DEF SidsFit
  <2> QED BY <1>0, <1>1, <2>1 DEF SidsFit
<1>7. HoldsNothing'
  BY <1>0, <1>1 DEF HoldsNothing
<1>8. Offered'
  <2>1. ASSUME NEW m \in Locals, lpc[m] \in {"exists", "set"} PROVE sess'[lsid[m]] = None
    BY <1>0, <1>2, <1>4, <1>5, <2>1 DEF Offered
  <2>2. regKey' # None => Unanswered(regKey.sid)' /\ Addressed(regKey)'
    BY <1>0, <1>1, <1>4, <1>5 DEF Offered, Unanswered, Addressed
  <2> QED BY <1>0, <1>1, <2>1, <2>2 DEF Offered, Serving
<1>9. Agree'
  BY <1>1 DEF Agree, Serving
<1>10. Current'
  <2> SUFFICES ASSUME NEW m \in Locals, lpc[m] = "handle", lrec[m].state = 1
               PROVE  sess'[lsid[m]] = None \/ sess'[lsid[m]].state = 1
    BY <1>1 DEF Current
  <2>1. lsid[m] \in Sids /\ lrec[m] # None
    BY Present, RecordFields
  <2>2. lsid[m] # rrec.sid
    BY <1>5, <2>1 DEF Unanswered
  <2> QED BY <1>0, <1>4, <2>1, <2>2 DEF Current
<1> QED BY <1>6, <1>7, <1>8, <1>9, <1>10 DEF EInv

(* It answers a session it has not answered before: its role follows from  *)
(* the registration, as the Local's follows from its own NAT.              *)
LEMMA OfferFits ==
    ASSUME IInv, EInv, SendRemoteAddr
    PROVE  EInv'
<1>0. SidsFit /\ HoldsNothing /\ Offered /\ Agree /\ Current
  BY DEF EInv
<1>1. /\ UNCHANGED <<regKey, nextSid, lpc, lsid, lnat, lrec, ltun>>
      /\ rpc = "send" /\ rpc' = "poll" /\ rtun' = NewRemoteTun
  BY DEF SendRemoteAddr, local
<1>2. rrec \in RedisJson /\ rrec.sid \in Sids /\ rrec # None /\ rrec.sid # None
  BY <1>1, Present, RecordFields, NoneAssumption
<1>3. PICK mapped \in Nats :
        LET rec == [rrec EXCEPT !.state = 1, !.rver = RemoteVersion,
                                !.cfg = rcfg, !.raddr = mapped]
        IN  rrec' = rec /\ RedisSessionSet(rrec.sid, rec)
  BY DEF SendRemoteAddr
<1>4. rrec'.sid = rrec.sid /\ rrec'.state = 1 /\ rrec'.cfg = rcfg
  BY <1>2, <1>3 DEF RedisJson
<1>5. /\ sess'[rrec.sid] \in {rrec', sess[rrec.sid]}
      /\ \A t \in Sids : t # rrec.sid => sess'[t] = sess[t]
  BY <1>2, <1>3, SetIs
<1>6. rtun'.cfg = rcfg /\ (rtun'.role = "active" <=> rrec.laddr = None)
  BY <1>1 DEF NewRemoteTun
<1>7. /\ Unanswered(rrec.sid) /\ Addressed(rrec)
      /\ regKey # None => regKey.sid # rrec.sid /\ regKey.sid \in Sids
      /\ \A m \in Locals : lpc[m] \notin {"exited", "probe"} => lsid[m] \in Sids
  BY <1>0, <1>1, Present, RecordFields DEF Offered
<1>8. SidsFit'
  <2>1. \A s \in Sids : sess'[s] # None => s < nextSid /\ sess'[s].sid = s /\ sess'[s].state # 0
    BY <1>0, <1>2, <1>4, <1>5 DEF SidsFit
  <2>2. rrec'.sid < nextSid
    BY <1>0, <1>2, <1>4 DEF SidsFit
  <2> QED BY <1>0, <1>1, <2>1, <2>2 DEF SidsFit
<1>9. HoldsNothing'
  BY <1>0, <1>1 DEF HoldsNothing, Serving
<1>10. Offered'
  <2>1. ASSUME NEW m \in Locals, lpc[m] \in {"exists", "set"}
        PROVE  sess'[lsid[m]] = None /\ rrec'.sid # lsid[m]
    BY <1>0, <1>2, <1>4, <1>5, <1>7, <2>1 DEF Offered
  <2>2. regKey' # None => Unanswered(regKey.sid)' /\ Addressed(regKey)'
    BY <1>0, <1>1, <1>5, <1>7 DEF Offered, Unanswered, Addressed
  <2>3. regKey' # None => rrec'.sid # regKey'.sid
    BY <1>1, <1>4, <1>7
  <2> QED BY <1>0, <1>1, <2>1, <2>2, <2>3 DEF Offered, Serving
<1>11. Agree'
  <2>1. sess[rrec.sid] = None
    BY <1>7 DEF Unanswered
  <2>2. RecordFits'
    BY <1>4, <1>5, <2>1 DEF RecordFits
  <2>3. ASSUME NEW m \in Locals, lsid[m] = rrec.sid PROVE LocalFits(m)'
    <3>1. ltun[m] = None /\ (lrec[m] # None => lrec[m].state = 0)
      BY <1>7, <2>3 DEF Unanswered
    <3>2. rrec.laddr = None <=> lnat[m] = "sym"
      BY <1>7, <2>3 DEF Addressed
    <3> QED BY <1>1, <1>4, <1>6, <3>1, <3>2 DEF LocalFits
  <2> QED BY <1>1, <1>4, <1>6, <2>2, <2>3 DEF Agree
<1>12. Current'
  <2> SUFFICES ASSUME NEW m \in Locals, lpc[m] = "handle", lrec[m].state = 1
               PROVE  sess'[lsid[m]] = None \/ sess'[lsid[m]].state = 1
    BY <1>1 DEF Current
  <2>1. lsid[m] \in Sids /\ lrec[m] # None
    BY Present, RecordFields
  <2>2. lsid[m] # rrec.sid
    BY <1>7, <2>1 DEF Unanswered
  <2> QED BY <1>0, <1>5, <2>1, <2>2 DEF Current
<1> QED BY <1>8, <1>9, <1>10, <1>11, <1>12 DEF EInv

(* It reads the session it works on: the settings are the ones it wrote.   *)
LEMMA RemoteReadFits ==
    ASSUME IInv, EInv, RemoteGet
    PROVE  EInv'
<1> DEFINE rec == sess[rrec.sid]
<1>0. SidsFit /\ HoldsNothing /\ Offered /\ Agree /\ Current
  BY DEF EInv
<1>1. /\ UNCHANGED <<regKey, sess, nextSid, lpc, lsid, lnat, lrec, ltun, rtun>>
      /\ rpc = "poll" /\ rpc' = "handle" /\ rec # None
  BY DEF RemoteGet, redis, local
<1>2. rrec \in RedisJson /\ rrec.sid \in Sids /\ rrec # None /\ rec \in RedisJson
  BY <1>1, Present, RecordFields
<1>3. rec.sid = rrec.sid /\ rec.cfg = rrec.cfg /\ rec.raddr = rrec.raddr /\ rec.state \in 1..4
  BY <1>0, <1>1, <1>2 DEF SidsFit, Agree, RecordFits, Serving
<1>4. /\ rrec'.sid = rrec.sid /\ rrec'.cfg = rrec.cfg /\ rrec'.raddr = rrec.raddr
      /\ rrec'.state = rec.state
  <2>1. rrec' = [rec EXCEPT !.rver = RemoteVersion]
    BY DEF RemoteGet
  <2> QED BY <1>2, <1>3, <2>1 DEF RedisJson
<1>5. SidsFit'
  BY <1>0, <1>1, <1>2, <1>4 DEF SidsFit
<1>6. HoldsNothing'
  BY <1>0, <1>1 DEF HoldsNothing, Serving
<1>7. Offered'
  <2>1. regKey' # None => Unanswered(regKey.sid)' /\ Addressed(regKey)'
    BY <1>0, <1>1 DEF Offered, Unanswered, Addressed
  <2> QED BY <1>0, <1>1, <1>2, <1>4, <2>1 DEF Offered, Serving
<1>8. Agree'
  <2>1. rrec.cfg = rtun.cfg /\ \A m \in Locals : lsid[m] = rrec.sid => LocalFits(m)
    BY <1>0, <1>1 DEF Agree, Serving
  <2>2. RecordFits'
    BY <1>1, <1>3, <1>4 DEF RecordFits
  <2>3. ASSUME NEW m \in Locals, lsid[m] = rrec.sid PROVE LocalFits(m)'
    <3>1. lpc[m] = "handle" /\ lrec[m].state = 1 => rec.state = 1
      BY <1>0, <1>1, <2>3 DEF Current
    <3> QED BY <1>1, <1>4, <2>1, <2>3, <3>1 DEF LocalFits
  <2> QED BY <1>1, <1>3, <1>4, <2>1, <2>2, <2>3 DEF Agree
<1>9. Current'
  BY <1>0, <1>1 DEF Current
<1> QED BY <1>5, <1>6, <1>7, <1>8, <1>9 DEF EInv

(* It ends the session, in State 3 or 4: nobody acts on State 1 any more.  *)
LEMMA WaitFits ==
    ASSUME IInv, EInv, WaitConnected \/ WaitTimeout
    PROVE  EInv'
<1>0. SidsFit /\ HoldsNothing /\ Offered /\ Agree /\ Current
  BY DEF EInv
<1>1. /\ UNCHANGED <<regKey, nextSid, lpc, lsid, lnat, lrec, ltun>>
      /\ rpc = "wait" /\ rrec.state = 2
  BY DEF WaitConnected, WaitTimeout, local, IInv, RemoteHolds
<1>2. rrec \in RedisJson /\ rrec.sid \in Sids /\ rrec # None
  BY <1>1, Present, RecordFields
<1>3. PICK st \in {3, 4} :
        /\ RedisSessionSet(rrec.sid, [rrec EXCEPT !.state = st])
        /\ \/ RemoteReset
           \/ /\ rrec' = [rrec EXCEPT !.state = st]
              /\ rpc' = "poll" /\ rtun' = rtun
  BY DEF WaitConnected, WaitTimeout, RemoteRelease, RemoteReset
<1> DEFINE R == [rrec EXCEPT !.state = st]
<1>4. R.sid = rrec.sid /\ R.state = st /\ R.cfg = rrec.cfg /\ R.raddr = rrec.raddr
  BY <1>2 DEF RedisJson
<1>5. /\ sess'[rrec.sid] \in {R, sess[rrec.sid]}
      /\ \A t \in Sids : t # rrec.sid => sess'[t] = sess[t]
  BY <1>2, <1>3, SetIs
<1>6. RemoteReset \/ (rrec' = R /\ rpc' = "poll" /\ rtun' = rtun)
  BY <1>3
<1> HIDE DEF R
<1>7. /\ rrec.cfg = rtun.cfg /\ RecordFits
      /\ \A m \in Locals : lsid[m] = rrec.sid => LocalFits(m)
      /\ regKey # None => regKey.sid # rrec.sid /\ regKey.sid \in Sids
      /\ \A m \in Locals : lpc[m] \notin {"exited", "probe"} => lsid[m] \in Sids
  BY <1>0, <1>1, Present, RecordFields DEF Agree, Offered, Serving
<1>8. \A m \in Locals : lsid[m] = rrec.sid => ~(lpc[m] = "handle" /\ lrec[m].state = 1)
  BY <1>1, <1>7 DEF LocalFits
<1>9. SidsFit'
  <2>1. \A s \in Sids : sess'[s] # None => s < nextSid /\ sess'[s].sid = s /\ sess'[s].state # 0
    BY <1>0, <1>2, <1>4, <1>5 DEF SidsFit
  <2>2. rrec' # None => rrec'.sid < nextSid
    BY <1>0, <1>2, <1>4, <1>6 DEF SidsFit, RemoteReset
  <2> QED BY <1>0, <1>1, <2>1, <2>2 DEF SidsFit
<1>10. HoldsNothing'
  BY <1>0, <1>1, <1>6 DEF HoldsNothing, Serving, RemoteReset
<1>11. Offered'
  <2>1. ASSUME NEW m \in Locals, lpc[m] \in {"exists", "set"}
        PROVE  sess'[lsid[m]] = None /\ (rrec' # None => rrec'.sid # lsid[m])
    BY <1>0, <1>2, <1>4, <1>5, <1>6, <1>7, <2>1 DEF Offered, RemoteReset
  <2>2. regKey' # None => Unanswered(regKey.sid)' /\ Addressed(regKey)'
    BY <1>0, <1>1, <1>5, <1>7 DEF Offered, Unanswered, Addressed
  <2>3. /\ regKey' # None /\ rpc' \in Serving \cup {"send"} => rrec'.sid # regKey'.sid
        /\ rpc' \notin {"claimed", "send"}
    BY <1>1, <1>4, <1>6, <1>7 DEF RemoteReset, Serving
  <2> QED BY <1>0, <1>1, <2>1, <2>2, <2>3 DEF Offered
<1>12. Agree'
  <2> SUFFICES ASSUME rrec' = R, rpc' = "poll", rtun' = rtun
               PROVE  /\ rrec'.cfg = rtun'.cfg /\ rrec'.state \in 1..4 /\ RecordFits'
                      /\ \A m \in Locals : lsid'[m] = rrec'.sid => LocalFits(m)'
    BY <1>6 DEF Agree, RemoteReset, Serving
  <2>1. RecordFits'
    BY <1>1, <1>4, <1>5, <1>7 DEF RecordFits
  <2>2. ASSUME NEW m \in Locals, lsid[m] = rrec.sid PROVE LocalFits(m)'
    BY <1>1, <1>4, <1>7, <1>8, <2>2 DEF LocalFits
  <2> QED BY <1>1, <1>4, <1>7, <2>1, <2>2
<1>13. Current'
  <2> SUFFICES ASSUME NEW m \in Locals, lpc[m] = "handle", lrec[m].state = 1
               PROVE  sess'[lsid[m]] = None \/ sess'[lsid[m]].state = 1
    BY <1>1 DEF Current
  <2> QED BY <1>0, <1>5, <1>7, <1>8 DEF Current
<1> QED BY <1>9, <1>10, <1>11, <1>12, <1>13 DEF EInv

(* A Local that gives a session up keeps nothing of it. *)
LEMMA Resets ==
    ASSUME IInv, NEW l \in Locals,
           LocalExit(l) \/ AttemptFailed(l) \/ LocalHealthEnds(l)
    PROVE  Reset(l) /\ \A m \in Locals : m # l => Same(m)
BY DEF LocalExit, AttemptFailed, LocalHealthEnds, Reset, Same, IInv, TypeOK

LEMMA LocalGivesUpFits ==
    ASSUME IInv, EInv, NEW l \in Locals,
           \/ LocalProbeFails(l) \/ RegisterSetFails(l) \/ RedisSessionUnregister(l)
           \/ LocalGetFails(l) \/ LocalRefused(l) \/ LocalRefuses(l)
           \/ LocalNotConnected(l) \/ LocalHealthEnds(l) \/ LocalCrash(l) \/ LocalStart(l)
    PROVE  EInv'
<1>1. regKey' \in {regKey, None} /\ nextSid' = nextSid /\ RemoteSame
  BY DEF LocalProbeFails, RegisterSetFails, RedisSessionUnregister, LocalGetFails,
         LocalRefused, LocalRefuses, LocalNotConnected, LocalHealthEnds, LocalCrash,
         LocalStart, DelRegistration, RemoteSame, redis, remote
<1>2. \A s \in Sids : sess'[s] \in {sess[s], None}
  <2>1. CASE LocalRefused(l) \/ LocalRefuses(l)
    BY <2>1 DEF LocalRefused, LocalRefuses, RedisSessionDel, IInv, TypeOK
  <2>2. CASE ~(LocalRefused(l) \/ LocalRefuses(l))
    <3>1. sess' = sess
      BY <2>2 DEF LocalProbeFails, RegisterSetFails, RedisSessionUnregister, LocalGetFails,
                  LocalNotConnected, LocalHealthEnds, LocalCrash, LocalStart, redis
    <3> QED BY <3>1
  <2> QED BY <2>1, <2>2
<1>3. \A m \in Locals : Same(m) \/ Reset(m)
  <2>1. CASE LocalStart(l)
    <3>1. Reset(l)
      BY <2>1 DEF LocalStart, Reset, EInv, HoldsNothing, IInv, TypeOK
    <3>2. \A m \in Locals : m # l => Same(m)
      BY <2>1 DEF LocalStart, Same, IInv, TypeOK
    <3> QED BY <3>1, <3>2
  <2>2. CASE ~LocalStart(l)
    <3>1. LocalExit(l) \/ AttemptFailed(l) \/ LocalHealthEnds(l)
      BY <2>2 DEF LocalProbeFails, RegisterSetFails, RedisSessionUnregister, LocalGetFails,
                  LocalRefused, LocalRefuses, LocalNotConnected, LocalCrash
    <3> QED BY <3>1, Resets
  <2> QED BY <2>1, <2>2
<1> QED BY <1>1, <1>2, <1>3, Forgets

(* The Remote gives a session up, or a key expires. *)
LEMMA RemoteGivesUpFits ==
    ASSUME IInv, EInv,
           \/ RemoteStart \/ RemoteCrash \/ SendAddrFails \/ RemoteGetFails \/ RemoteEnds
           \/ \E s \in Sids : ServeEnds(s) \/ SessExpires(s)
           \/ RegExpires \/ UNCHANGED vars
    PROVE  EInv'
<1>1. regKey' \in {regKey, None} /\ nextSid' = nextSid /\ \A l \in Locals : Same(l)
  BY DEF RemoteStart, RemoteCrash, SendAddrFails, RemoteGetFails, RemoteEnds, ServeEnds,
         SessExpires, RegExpires, Same, redis, local, vars
<1>2. \A s \in Sids : sess'[s] \in {sess[s], None}
  BY DEF RemoteStart, RemoteCrash, SendAddrFails, RemoteGetFails, RemoteEnds, ServeEnds,
         SessExpires, RegExpires, redis, vars, IInv, TypeOK
<1>3. RemoteSame \/ RemoteReset
  <2>1. rpc = "stopped" => rrec = None /\ rtun = None
    BY DEF EInv, HoldsNothing, Serving
  <2> QED BY <2>1
          DEF RemoteStart, RemoteCrash, SendAddrFails, RemoteGetFails, RemoteEnds, ServeEnds,
              SessExpires, RegExpires, RemoteRelease, RemoteSame, RemoteReset, remote, vars
<1> QED BY <1>1, <1>2, <1>3, Forgets

LEMMA EInvInit == Init => EInv
<1> SUFFICES ASSUME Init PROVE EInv
  OBVIOUS
<1>1. SidsFit /\ HoldsNothing /\ Offered
  BY DEF Init, SidsFit, HoldsNothing, Offered, Serving
<1>2. Agree /\ Current
  BY DEF Init, Agree, Current, Serving
<1> QED BY <1>1, <1>2 DEF EInv

LEMMA EInvStep ==
    ASSUME IInv, EInv, "del" \notin Faults, [Next]_vars
    PROVE  EInv'
<1>1. ASSUME NEW l \in Locals,
             LocalStep(l) \/ LocalStart(l) \/ LocalHealthEnds(l) \/ LocalCrash(l)
      PROVE  EInv'
  BY <1>1, ProbeFits, RegisterFits, ReadFits, AcceptFits, MovesFit, LocalGivesUpFits
  DEF LocalStep
<1>2. CASE RemoteStep \/ RemoteStart \/ RemoteCrash
  BY <1>2, ClaimFits, RefusalFits, OfferFits, RemoteReadFits, TunnelFits, WaitFits,
     RemoteGivesUpFits DEF RemoteStep
<1>3. CASE EnvStep \/ UNCHANGED vars
  BY <1>3, TunnelFits, RemoteGivesUpFits DEF EnvStep
<1> QED BY <1>1, <1>2, <1>3 DEF Next, EnvStep

LEMMA EInvariant == ASSUME "del" \notin Faults PROVE Spec => []EInv
<1>1. IInv /\ EInv /\ [Next]_vars => EInv'
  BY EInvStep
<1> QED BY <1>1, EInvInit, IInvariant, PTL DEF Spec

(* Whatever both sides read, wrote and lost on the way, the endpoints of   *)
(* one session fit: one dials and one waits, with the same settings, and   *)
(* not both from behind a NAT4. It takes Redis to execute the deletions it *)
(* is sent (Get, Set and Exists may fail): a registration that outlives    *)
(* its claim would be answered a second time.                              *)
THEOREM EndpointsAlwaysFit == ASSUME "del" \notin Faults PROVE Spec => []EndpointsFit
<1>1. IInv /\ EInv => EndpointsFit
  <2> SUFFICES ASSUME IInv, EInv, NEW l \in Locals, ltun[l] # None, rtun # None,
                      lsid[l] = rrec.sid
               PROVE  /\ ltun[l].role # rtun.role /\ ltun[l].cfg = rtun.cfg
                      /\ ~(lnat[l] = "sym" /\ rrec.raddr = "sym")
    BY DEF EndpointsFit
  <2>1. rpc \in Serving /\ HoldsNothing /\ Agree
    BY DEF EInv, HoldsNothing
  <2>2. lpc[l] \notin {"exited", "probe"}
    BY <2>1 DEF HoldsNothing
  <2>3. lnat[l] \in {"cone", "sym"}
    BY <2>2, Present DEF Nats
  <2>4. rtun \in RemoteTun /\ ltun[l] \in LocalTun
    BY <2>1, Present
  <2>5. LocalFits(l) /\ rrec.cfg = rtun.cfg
    BY <2>1 DEF Agree
  <2> QED BY <2>1, <2>3, <2>4, <2>5 DEF HoldsNothing, LocalFits, LocalTun, RemoteTun
<1> QED BY <1>1, IInvariant, EInvariant, PTL

(* A session's State only advances under its key: the Local writes its 2   *)
(* where a 1 is or nothing, the Remote its 1 or -1 where nothing is and    *)
(* its 3 or 4 where nothing is later than a 2, although none of the writes *)
(* looks. The same hypothesis.                                             *)
THEOREM StateOnlyAdvances ==
    ASSUME "del" \notin Faults PROVE Spec => StateNeverRegresses
<1> DEFINE Advances == \A s \in Sids : (sess[s] # None /\ sess'[s] # None)
                                         => Rank(sess[s]) <= Rank(sess'[s])
<1>1. IInv /\ EInv /\ [Next]_vars => [Advances]_vars
  <2> SUFFICES ASSUME IInv, EInv, Next, NEW s \in Sids, sess[s] # None, sess'[s] # None
               PROVE  Rank(sess[s]) <= Rank(sess'[s])
    OBVIOUS
  <2>0. sess[s] \in RedisJson /\ sess[s].state \in Int
    BY Present, RecordFields
  <2>s. ASSUME sess'[s] = sess[s] PROVE Rank(sess[s]) <= Rank(sess'[s])
    BY <2>0, <2>s DEF Rank
  <2>1. ASSUME NEW l \in Locals, LocalAccepts(l) PROVE Rank(sess[s]) <= Rank(sess'[s])
    <3>1. /\ lpc[l] = "handle" /\ lrec[l].state = 1 /\ RedisSessionSet(lsid[l], Answer(l))
          /\ lsid[l] \in Sids /\ lrec[l] \in RedisJson
      BY <2>1, Present DEF LocalAccepts
    <3>2. Answer(l).state = 2
      BY <3>1 DEF Answer, RedisJson
    <3>3. s = lsid[l] => sess[s].state = 1
      BY <3>1 DEF EInv, Current
    <3>4. sess'[s] = sess[s] \/ (s = lsid[l] /\ sess'[s] = Answer(l))
      BY <3>1, SetIs
    <3> QED BY <2>s, <3>2, <3>3, <3>4 DEF Rank
  <2>2. CASE SendRefusal \/ SendRemoteAddr
    <3>1. rpc = "send" /\ rrec.sid \in Sids
      BY <2>2, Present DEF SendRefusal, SendRemoteAddr
    <3>2. sess[rrec.sid] = None
      BY <3>1 DEF EInv, Offered, Unanswered
    <3>3. sess'[s] = sess[s]
      BY <2>2, <3>1, <3>2, SetIs DEF SendRefusal, SendRemoteAddr
    <3> QED BY <2>s, <3>3
  <2>3. CASE WaitConnected \/ WaitTimeout
    <3>1. rpc = "wait" /\ rrec.state = 2 /\ rrec \in RedisJson /\ rrec.sid \in Sids
      BY <2>3, Present DEF WaitConnected, WaitTimeout, IInv, RemoteHolds
    <3>2. PICK st \in {3, 4} : RedisSessionSet(rrec.sid, [rrec EXCEPT !.state = st])
      BY <2>3 DEF WaitConnected, WaitTimeout
    <3>3. [rrec EXCEPT !.state = st].state = st
      BY <3>1 DEF RedisJson
    <3>4. s = rrec.sid => sess[s].state \in 1..2
      BY <3>1 DEF EInv, Agree, RecordFits, Serving
    <3>5. sess'[s] = sess[s] \/ (s = rrec.sid /\ sess'[s] = [rrec EXCEPT !.state = st])
      BY <3>1, <3>2, SetIs
    <3>6. CASE s = rrec.sid /\ sess'[s] = [rrec EXCEPT !.state = st]
      <4>1. sess'[s].state \in {3, 4} /\ sess[s].state \in 1..2
        BY <3>3, <3>4, <3>6
      <4> QED BY <4>1 DEF Rank
    <3> QED BY <2>s, <3>5, <3>6
  <2>4. ASSUME NEW l \in Locals,
               LocalStep(l) \/ LocalStart(l) \/ LocalHealthEnds(l) \/ LocalCrash(l),
               ~LocalAccepts(l)
        PROVE  sess'[s] = sess[s]
    <3>1. ASSUME LocalRefused(l) \/ LocalRefuses(l) PROVE sess'[s] = sess[s]
      BY <3>1 DEF LocalRefused, LocalRefuses, RedisSessionDel, IInv, TypeOK
    <3> QED
      BY <2>4, <3>1
      DEF LocalStep, LocalStart, LocalHealthEnds, LocalCrash, LocalProbe, LocalProbeFails,
          RegisterExists, RegisterSet, RegisterSetFails, ClaimSeen, ClaimTimeout,
          RedisSessionUnregister, LocalGet, LocalGetFails, LocalWaits, LocalConnected,
          LocalNotConnected, redis
  <2>5. ASSUME RemoteStep \/ RemoteStart \/ RemoteCrash,
               ~(SendRefusal \/ SendRemoteAddr \/ WaitConnected \/ WaitTimeout)
        PROVE  sess'[s] = sess[s]
    BY <2>5 DEF RemoteStep, RemoteStart, RemoteCrash, ClaimGet, ClaimDel, SendAddrFails,
                RemoteGet, RemoteGetFails, RemoteWaits, RemoteDials, RemoteEnds, redis
  <2>6. ASSUME EnvStep PROVE sess'[s] = sess[s]
    BY <2>6 DEF EnvStep, ServeEnds, SessExpires, RegExpires, LocalTunUp, RemoteTunSignals,
                redis, IInv, TypeOK
  <2> QED BY <2>s, <2>1, <2>2, <2>3, <2>4, <2>5, <2>6 DEF Next, EnvStep
<1> QED BY <1>1, IInvariant, EInvariant, PTL DEF Spec, StateNeverRegresses

-----------------------------------------------------------------------------
(* Stun: induction, over sets of numbers *)

LEMMA LeastOf ==
    ASSUME NEW T \in SUBSET Nat, T # {}
    PROVE  \E x \in T : \A y \in T : x <= y
<1>1. PICK x \in T : \A y \in T : ~(<<y, x>> \in OpToRel(<, Nat))
  BY NatLessThanWellFounded, WFMin, Zenon
<1>2. \A y \in T : ~(y < x)
  BY <1>1, Zenon DEF OpToRel
<1>3. \A y \in T : y \in Nat
  OBVIOUS
<1>4. \A y \in T : x <= y
  BY <1>2, <1>3
<1> QED BY <1>4

(* What holds of 0 and of the next number holds up to N. *)
LEMMA UpTo ==
    ASSUME NEW N \in Nat, NEW S, 0 \in S,
           \A n \in Nat : n < N /\ n \in S => n + 1 \in S
    PROVE  \A n \in 0..N : n \in S
<1> SUFFICES ASSUME NEW m \in 0..N, m \notin S PROVE FALSE
  OBVIOUS
<1> DEFINE T == {n \in 0..N : n \notin S}
<1>1. T \in SUBSET Nat /\ T # {}
  OBVIOUS
<1>2. PICK x \in T : \A y \in T : x <= y
  <2> HIDE DEF T
  <2> QED BY <1>1, LeastOf
<1>3. x \in 0..N /\ x \notin S /\ x # 0
  OBVIOUS
<1>4. x - 1 \in 0..N /\ x - 1 \in Nat /\ x - 1 < N /\ (x - 1) + 1 = x
  BY <1>3
<1>5. x - 1 \in S
  <2>1. x - 1 \notin T
    BY <1>2, <1>3
  <2> QED BY <1>4, <2>1
<1> QED BY <1>3, <1>4, <1>5

IsWalk(N, stop, val, nxt, w) ==
    w = [s \in 0..N |-> IF stop[s] THEN val[s] ELSE w[nxt[s]]]

(* A walk that goes on behind where it is comes to an end. *)
LEMMA WalkExists ==
    ASSUME NEW N \in Nat, NEW stop, NEW val, NEW nxt,
           \A s \in 0..N : ~stop[s] => nxt[s] \in (s + 1)..N
    PROVE  \E w : IsWalk(N, stop, val, nxt, w)
<1> DEFINE Walks(w, s) == w[s] = IF stop[s] THEN val[s] ELSE w[nxt[s]]
           S == {k \in 0..N : \E w : \A s \in (N - k)..N : Walks(w, s)}
<1>1. 0 \in S
  <2> DEFINE w == [s \in {N} |-> val[N]]
  <2>1. stop[N]
    OBVIOUS
  <2>2. \A s \in (N - 0)..N : Walks(w, s)
    BY <2>1
  <2>3. \E u : \A s \in (N - 0)..N : Walks(u, s)
    <3> HIDE DEF w, Walks
    <3> QED BY <2>2
  <2> HIDE DEF Walks
  <2> QED BY <2>3
<1>2. ASSUME NEW k \in Nat, k < N, k \in S PROVE k + 1 \in S
  <2>1. PICK u : \A s \in (N - k)..N : Walks(u, s)
    BY <1>2
  <2> DEFINE m == N - (k + 1)
             x == IF stop[m] THEN val[m] ELSE u[nxt[m]]
             w == [s \in 0..N |-> IF s = m THEN x ELSE u[s]]
  <2>2. m \in 0..N /\ N - k = m + 1
    BY <1>2
  <2>3. ASSUME NEW s \in m..N PROVE Walks(w, s)
    <3>1. s \in 0..N
      BY <2>2
    <3>2. ~stop[s] => nxt[s] \in 0..N /\ nxt[s] # m /\ w[nxt[s]] = u[nxt[s]]
      BY <2>2, <3>1
    <3>3. CASE s = m
      <4>1. w[s] = x
        BY <3>1, <3>3
      <4> QED BY <3>2, <3>3, <4>1
    <3>4. CASE s # m
      <4>1. s \in (N - k)..N /\ w[s] = u[s]
        BY <2>2, <3>1, <3>4
      <4>2. Walks(u, s)
        BY <2>1, <4>1
      <4> HIDE DEF w
      <4> QED BY <3>2, <4>1, <4>2
    <3> QED BY <3>3, <3>4
  <2>4. \E v : \A s \in m..N : Walks(v, s)
    <3> HIDE DEF w, Walks
    <3> QED BY <2>3
  <2>5. k + 1 \in 0..N
    BY <1>2
  <2> HIDE DEF Walks
  <2> QED BY <2>4, <2>5
<1>3. N \in S
  <2>1. N \in 0..N
    OBVIOUS
  <2> HIDE DEF S
  <2> QED BY <1>1, <1>2, <2>1, UpTo
<1>4. PICK u : \A s \in 0..N : Walks(u, s)
  BY <1>3
<1> DEFINE w == [s \in 0..N |-> u[s]]
<1>5. w = [s \in 0..N |-> IF stop[s] THEN val[s] ELSE w[nxt[s]]]
  <2>1. ASSUME NEW s \in 0..N PROVE u[s] = IF stop[s] THEN val[s] ELSE w[nxt[s]]
    <3>1. ~stop[s] => nxt[s] \in 0..N /\ w[nxt[s]] = u[nxt[s]]
      OBVIOUS
    <3>2. Walks(u, s)
      BY <1>4
    <3> HIDE DEF w
    <3> QED BY <3>1, <3>2
  <2> QED BY <2>1
<1>6. IsWalk(N, stop, val, nxt, w)
  BY <1>5 DEF IsWalk
<1> HIDE DEF w
<1> QED BY <1>6

Finds(attrs, type, tid, w) ==
    w = [start \in 0..Len(attrs) |->
          IF start + 4 > Len(attrs) \/ After(attrs, start) > Len(attrs) THEN Failed
          ELSE IF TypeAt(attrs, start) = type
          THEN ParseAddress(type, Slice(attrs, start, Len(attrs)),
                            LengthAt(attrs, start), tid)
          ELSE w[After(attrs, start)]]

LEMMA FindIs ==
    ASSUME NEW attrs, NEW type, NEW tid, \E w : Finds(attrs, type, tid, w)
    PROVE  \E w : Finds(attrs, type, tid, w) /\ FindAddress(attrs, type, tid) = w[0]
<1> DEFINE v == CHOOSE w : Finds(attrs, type, tid, w)
<1>1. FindAddress(attrs, type, tid) = v[0]
  BY DEF FindAddress, Finds
<1>2. Finds(attrs, type, tid, v)
  OBVIOUS
<1> HIDE DEF v
<1> QED BY <1>1, <1>2

-----------------------------------------------------------------------------
(* Bytes *)

LEMMA BytesAre ==
    ASSUME NEW a \in Bytes
    PROVE  Len(a) \in Nat /\ \A i \in 1..Len(a) : a[i] \in 0..255
BY LenProperties, ElementOfSeq DEF Bytes

(* A slice inside its array. *)
LEMMA SliceIs ==
    ASSUME NEW a \in Bytes, NEW lo \in Nat, NEW hi \in Nat, lo <= hi, hi <= Len(a)
    PROVE  /\ Slice(a, lo, hi) \in Bytes /\ Len(Slice(a, lo, hi)) = hi - lo
           /\ \A k \in 1..(hi - lo) : Slice(a, lo, hi)[k] = a[lo + k]
<1>1. Slice(a, lo, hi) = SubSeq(a, lo + 1, hi)
  BY DEF Slice
<1>2. ASSUME NEW i \in (lo + 1)..hi PROVE a[i] \in 0..255
  <2>1. PICK n \in Nat : n = Len(a)
    BY BytesAre
  <2>2. i \in 1..n
    BY <2>1
  <2> QED BY <2>1, <2>2, BytesAre
<1> DEFINE b == SubSeq(a, lo + 1, hi)
<1>3. /\ b \in Seq(0..255) /\ Len(b) = IF lo + 1 <= hi THEN hi - (lo + 1) + 1 ELSE 0
      /\ \A i \in 1..(hi - (lo + 1) + 1) : b[i] = a[(lo + 1) + i - 1]
  <2>1. lo + 1 \in Int /\ hi \in Int
    OBVIOUS
  <2> QED BY <1>2, <2>1, SubSeqProperties
<1> HIDE DEF b
<1>4. Len(b) = hi - lo
  BY <1>3
<1>5. \A k \in 1..(hi - lo) : b[k] = a[lo + k]
  <2> SUFFICES ASSUME NEW k \in 1..(hi - lo) PROVE b[k] = a[lo + k]
    OBVIOUS
  <2>1. k \in 1..(hi - (lo + 1) + 1) /\ (lo + 1) + k - 1 = lo + k
    OBVIOUS
  <2>2. b[k] = a[(lo + 1) + k - 1]
    BY <1>3, <2>1
  <2> QED BY <2>1, <2>2
<1> QED BY <1>1, <1>3, <1>4, <1>5 DEF b, Bytes

LEMMA XorTyped == \A a, b : Xor(a, b) \in 0..255
<1>1. \A a, b : \A w \in {1, 2, 4, 8, 16, 32, 64, 128} : Differ(a, b, w) \in {0, w}
  BY DEF Differ
<1> SUFFICES ASSUME NEW a, NEW b PROVE Xor(a, b) \in 0..255
  OBVIOUS
<1>2. /\ Differ(a, b, 1) \in {0, 1} /\ Differ(a, b, 2) \in {0, 2}
      /\ Differ(a, b, 4) \in {0, 4} /\ Differ(a, b, 8) \in {0, 8}
      /\ Differ(a, b, 16) \in {0, 16} /\ Differ(a, b, 32) \in {0, 32}
      /\ Differ(a, b, 64) \in {0, 64} /\ Differ(a, b, 128) \in {0, 128}
  BY <1>1
<1> QED BY <1>2 DEF Xor

LEMMA XoredTyped ==
    ASSUME NEW b \in Bytes, NEW key
    PROVE  Xored(b, key) \in Bytes /\ Len(Xored(b, key)) = Len(b)
<1> DEFINE x == [i \in 1..Len(b) |-> Xor(b[i], key[i])]
<1>1. x \in [1..Len(b) -> 0..255]
  BY XorTyped
<1>2. PICK n \in Nat : n = Len(b)
  BY BytesAre
<1>3. x \in [1..n -> 0..255]
  BY <1>1, <1>2
<1> HIDE DEF x
<1>4. x \in Seq(0..255) /\ Len(x) = n
  BY <1>3
<1> QED BY <1>2, <1>4 DEF Xored, Bytes, x

LEMMA Joined ==
    ASSUME NEW x \in 0..255, NEW y \in 0..255
    PROVE  x * 256 + y \in Word
BY DEF Word

LEMMA BigEndianTyped ==
    ASSUME NEW b \in Bytes, Len(b) >= 2
    PROVE  BigEndian(b) \in Word
<1>1. PICK n \in Nat : n = Len(b)
  BY BytesAre
<1>2. b[1] \in 0..255 /\ b[2] \in 0..255
  <2>1. 1 \in 1..n /\ 2 \in 1..n
    BY <1>1
  <2> QED BY <1>1, <2>1, BytesAre, Zenon
<1> QED BY <1>2, Joined DEF BigEndian

(* Arithmetic on sixteen bits. *)
LEMMA High == ASSUME NEW n \in Nat, n < 65536 PROVE n \div 256 \in 0..255
OBVIOUS

LEMMA Low ==
    ASSUME NEW n \in Nat
    PROVE  n % 256 \in 0..255 /\ (n % 65536) % 256 = n % 256
OBVIOUS

LEMMA Both == ASSUME NEW n \in Nat PROVE (n \div 256) * 256 + (n % 256) = n
OBVIOUS

LEMMA Wrapped ==
    ASSUME NEW n \in Nat
    PROVE  n % 65536 \in Nat /\ n % 65536 < 65536 /\ (n < 65536 => n % 65536 = n)
OBVIOUS

LEMMA Rounded ==
    ASSUME NEW n \in Nat
    PROVE  /\ n % 4 \in Nat /\ n % 4 <= n
           /\ \A m \in Nat : m <= n /\ n <= m + 3 /\ m % 4 = 0 => n - (n % 4) = m
OBVIOUS

LEMMA Uint16Is ==
    ASSUME NEW n \in Nat
    PROVE  /\ Uint16(n) \in Bytes /\ Len(Uint16(n)) = 2
           /\ BigEndian(Uint16(n)) = n % 65536
<1> DEFINE r == n % 65536
           x == r \div 256
           y == n % 256
<1>1. r \in Nat /\ r < 65536
  BY Wrapped
<1>2. y = r % 256 /\ y \in 0..255
  BY Low
<1> HIDE DEF r
<1>3. x \in 0..255 /\ x * 256 + y = r
  BY <1>1, <1>2, High, Both
<1>4. Uint16(n) = <<x, y>>
  BY DEF Uint16, r
<1> HIDE DEF x, y
<1>5. <<x, y>> \in Seq(0..255) /\ Len(<<x, y>>) = 2
  BY <1>2, <1>3
<1> QED BY <1>3, <1>4, <1>5 DEF BigEndian, Bytes, r

LEMMA PaddedIs ==
    ASSUME NEW n \in Nat
    PROVE  /\ Padded(n) \in Nat
           /\ n < 65533 => \A m \in n..(n + 3) : m % 4 = 0 => Padded(n) = m
<1> DEFINE k == (n + 3) % 65536
<1>1. k \in Nat /\ (n < 65533 => k = n + 3)
  BY Wrapped
<1>2. Padded(n) = k - (k % 4)
  BY DEF Padded
<1> HIDE DEF k
<1>3. Padded(n) \in Nat
  BY <1>1, <1>2, Rounded
<1>4. ASSUME n < 65533, NEW m \in n..(n + 3), m % 4 = 0 PROVE Padded(n) = m
  <2>1. m \in Nat /\ m <= k /\ k <= m + 3
    BY <1>1, <1>4
  <2> QED BY <1>1, <1>2, <1>4, <2>1, Rounded
<1> QED BY <1>3, <1>4

-----------------------------------------------------------------------------
(* What the parser returns *)

Address ==
    {x \in [ip : Bytes, port : Word] : x = Failed \/ Len(x.ip) \in {4, 16}}

LEMMA AddressIs ==
    ASSUME NEW ip \in Bytes, NEW port \in Word, Len(ip) \in {4, 16}
    PROVE  [ip |-> ip, port |-> port] \in Address
BY DEF Address

LEMMA FailedIs == Failed \in Address
<1>1. <<>> \in Bytes /\ 0 \in Word
  BY DEF Bytes, Word
<1> QED BY <1>1 DEF Failed, Address

LEMMA OutOfRangeIsNot == OutOfRange \notin Bytes
BY DEF OutOfRange, Bytes

LEMMA PanicIsNot == Panic \notin Address
BY OutOfRangeIsNot DEF Panic, Address

LEMMA ParseTyped ==
    ASSUME NEW type, NEW a \in Bytes, NEW n \in Nat, NEW tid
    PROVE  ParseAddress(type, a, n, tid) \in Address
<1> DEFINE p == ParseAddress(type, a, n, tid)
           value == Slice(a, 4, 4 + n)
           size == IF value[2] = 1 THEN 4 ELSE 16
           ip == Slice(value, 4, 4 + size)
           port == Slice(value, 2, 4)
<1>1. CASE ~Fits(a, n)
  BY <1>1, FailedIs DEF ParseAddress
<1>2. CASE Fits(a, n)
  <2>1. value \in Bytes /\ Len(value) = n /\ value # OutOfRange
    <3>1. 4 \in Nat /\ 4 + n \in Nat /\ 4 <= 4 + n /\ 4 + n <= Len(a)
      BY <1>2, BytesAre DEF Fits
    <3>2. (4 + n) - 4 = n
      OBVIOUS
    <3> HIDE DEF value
    <3>3. value \in Bytes /\ Len(value) = (4 + n) - 4
      BY <3>1, SliceIs DEF value
    <3> QED BY <3>2, <3>3, OutOfRangeIsNot
  <2>2. \/ p = Failed
        \/ /\ value[2] \in {1, 2} /\ 4 + size <= Len(value)
           /\ p = IF type = XorMappedAddress
                  THEN [ip |-> Xored(ip, MagicCookie \o tid),
                        port |-> BigEndian(Xored(port, MagicCookie))]
                  ELSE [ip |-> ip, port |-> BigEndian(port)]
    <3> HIDE DEF value
    <3>1. p = IF Len(value) < 2 \/ value[2] \notin {1, 2} THEN Failed
              ELSE IF Len(value) < 4 + size THEN Failed
              ELSE IF type = XorMappedAddress
              THEN [ip |-> Xored(ip, MagicCookie \o tid),
                    port |-> BigEndian(Xored(port, MagicCookie))]
              ELSE [ip |-> ip, port |-> BigEndian(port)]
      BY <1>2, <2>1 DEF ParseAddress, value
    <3> HIDE DEF p, ip, port
    <3> QED BY <2>1, <3>1
  <2>3. CASE /\ value[2] \in {1, 2} /\ 4 + size <= Len(value)
             /\ p = IF type = XorMappedAddress
                    THEN [ip |-> Xored(ip, MagicCookie \o tid),
                          port |-> BigEndian(Xored(port, MagicCookie))]
                    ELSE [ip |-> ip, port |-> BigEndian(port)]
    <3> HIDE DEF value, p
    <3>1. 4 + size \in Nat /\ 4 <= 4 + size /\ 4 <= Len(value) /\ size \in Nat
      BY <2>1, <2>3
    <3> HIDE DEF size
    <3>2. ip \in Bytes /\ Len(ip) \in {4, 16}
      <4>1. (4 + size) - 4 = size /\ size \in {4, 16} /\ 4 \in Nat
        BY <3>1 DEF size
      <4>2. ip \in Bytes /\ Len(ip) = (4 + size) - 4
        BY <2>1, <2>3, <3>1, <4>1, SliceIs
      <4> QED BY <4>1, <4>2
    <3>3. port \in Bytes /\ Len(port) = 2
      <4>1. 2 \in Nat /\ 4 \in Nat /\ 2 <= 4 /\ 4 - 2 = 2
        OBVIOUS
      <4>2. Slice(value, 2, 4) \in Bytes /\ Len(Slice(value, 2, 4)) = 4 - 2
        BY <2>1, <3>1, <4>1, SliceIs
      <4> QED BY <4>1, <4>2
    <3> HIDE DEF ip, port
    <3>4. /\ Xored(ip, MagicCookie \o tid) \in Bytes
          /\ Len(Xored(ip, MagicCookie \o tid)) \in {4, 16}
      BY <3>2, XoredTyped
    <3>5. BigEndian(port) \in Word
      BY <3>3, BigEndianTyped
    <3>6. BigEndian(Xored(port, MagicCookie)) \in Word
      <4>1. Xored(port, MagicCookie) \in Bytes /\ Len(Xored(port, MagicCookie)) >= 2
        BY <3>3, XoredTyped
      <4> QED BY <4>1, BigEndianTyped
    <3>7. /\ [ip |-> ip, port |-> BigEndian(port)] \in Address
          /\ [ip |-> Xored(ip, MagicCookie \o tid),
              port |-> BigEndian(Xored(port, MagicCookie))] \in Address
      BY <3>2, <3>4, <3>5, <3>6, AddressIs
    <3>8. p \in Address
      BY <2>3, <3>7, Zenon
    <3> QED BY <3>8 DEF p
  <2> QED BY <2>2, <2>3, FailedIs
<1> QED BY <1>1, <1>2

(* Behind an attribute that is all there comes another, or the end.        *)
LEMMA AfterIs ==
    ASSUME NEW a \in Bytes, NEW s \in 0..Len(a), ~(s + 4 > Len(a))
    PROVE  /\ LengthAt(a, s) \in Word /\ TypeAt(a, s) \in Word
           /\ After(a, s) \in Nat /\ s + 4 <= After(a, s)
<1>1. PICK N \in Nat : N = Len(a)
  BY BytesAre
<1>2. s \in Nat /\ s + 2 \in Nat /\ s + 4 \in Nat /\ s + 4 <= N
  BY <1>1
<1>3. (s + 2) - s = 2 /\ (s + 4) - (s + 2) = 2 /\ s <= s + 2 /\ s + 2 <= s + 4
      /\ s + 2 <= N
  BY <1>2
<1>4. Slice(a, s, s + 2) \in Bytes /\ Len(Slice(a, s, s + 2)) = (s + 2) - s
  BY <1>1, <1>2, <1>3, SliceIs
<1>5. /\ Slice(a, s + 2, s + 4) \in Bytes
      /\ Len(Slice(a, s + 2, s + 4)) = (s + 4) - (s + 2)
  BY <1>1, <1>2, <1>3, SliceIs
<1>6. TypeAt(a, s) \in Word
  BY <1>3, <1>4, BigEndianTyped DEF TypeAt
<1>7. LengthAt(a, s) \in Word
  <2>1. Len(Slice(a, s + 2, s + 4)) >= 2
    BY <1>3, <1>5
  <2> QED BY <1>5, <2>1, BigEndianTyped DEF LengthAt
<1>8. LengthAt(a, s) \in Nat
  BY <1>7 DEF Word
<1>9. Padded(LengthAt(a, s)) \in Nat
  BY <1>8, PaddedIs
<1> QED BY <1>2, <1>6, <1>7, <1>9 DEF After

-----------------------------------------------------------------------------
(* The walk over the attributes *)

Ends(a, s) == s + 4 > Len(a) \/ After(a, s) > Len(a)

Parsed(a, s, type, tid) ==
    ParseAddress(type, Slice(a, s, Len(a)), LengthAt(a, s), tid)

LEMMA StepIs ==
    ASSUME NEW a \in Bytes, NEW s \in 0..Len(a), ~Ends(a, s)
    PROVE  After(a, s) \in (s + 1)..Len(a)
<1>1. PICK N \in Nat : N = Len(a)
  BY BytesAre
<1>2. s \in 0..N
  BY <1>1
<1>3. ~(s + 4 > Len(a)) /\ After(a, s) <= Len(a)
  <2>1. ~(s + 4 > Len(a)) /\ ~(After(a, s) > Len(a))
    BY DEF Ends
  <2>2. After(a, s) \in Nat
    BY <2>1, AfterIs
  <2> QED BY <1>1, <2>1, <2>2
<1>4. After(a, s) \in Nat /\ s + 4 <= After(a, s)
  BY <1>3, AfterIs
<1> QED BY <1>1, <1>2, <1>3, <1>4

LEMMA FindExists ==
    ASSUME NEW a \in Bytes, NEW type, NEW tid
    PROVE  \E w : Finds(a, type, tid, w)
<1>1. PICK N \in Nat : N = Len(a)
  BY BytesAre
<1> DEFINE stop == [s \in 0..N |-> Ends(a, s) \/ TypeAt(a, s) = type]
           val == [s \in 0..N |-> IF Ends(a, s) THEN Failed ELSE Parsed(a, s, type, tid)]
           nxt == [s \in 0..N |-> After(a, s)]
<1>2. \A s \in 0..N : ~stop[s] => nxt[s] \in (s + 1)..N
  BY <1>1, StepIs
<1>3. \E w : w = [s \in 0..N |-> IF stop[s] THEN val[s] ELSE w[nxt[s]]]
  <2>1. PICK st, v, n : st = stop /\ v = val /\ n = nxt
    OBVIOUS
  <2> HIDE DEF stop, val, nxt
  <2>2. \A s \in 0..N : ~st[s] => n[s] \in (s + 1)..N
    BY <1>2, <2>1, Zenon
  <2>3. \E w : IsWalk(N, st, v, n, w)
    BY <2>2, WalkExists
  <2> QED BY <2>1, <2>3, Zenon DEF IsWalk
<1>4. PICK w : w = [s \in 0..N |-> IF stop[s] THEN val[s] ELSE w[nxt[s]]]
  BY <1>3
<1>5. ASSUME NEW s \in 0..N
      PROVE  (IF stop[s] THEN val[s] ELSE w[nxt[s]])
               = IF Ends(a, s) THEN Failed
                 ELSE IF TypeAt(a, s) = type THEN Parsed(a, s, type, tid)
                 ELSE w[After(a, s)]
  OBVIOUS
<1>6. w = [s \in 0..N |-> IF Ends(a, s) THEN Failed
                 ELSE IF TypeAt(a, s) = type THEN Parsed(a, s, type, tid)
                 ELSE w[After(a, s)]]
  <2> HIDE DEF stop, val, nxt
  <2> QED BY <1>4, <1>5, Zenon
<1>7. Finds(a, type, tid, w)
  BY <1>1, <1>6, Zenon DEF Finds, Ends, Parsed
<1> QED BY <1>7

LEMMA FindsAt ==
    ASSUME NEW a, NEW type, NEW tid, NEW w, Finds(a, type, tid, w), NEW s \in 0..Len(a)
    PROVE  /\ Ends(a, s) => w[s] = Failed
           /\ ~Ends(a, s) /\ TypeAt(a, s) = type => w[s] = Parsed(a, s, type, tid)
           /\ ~Ends(a, s) /\ TypeAt(a, s) # type => w[s] = w[After(a, s)]
BY Zenon DEF Finds, Ends, Parsed

LEMMA ParsedTyped ==
    ASSUME NEW a \in Bytes, NEW s \in 0..Len(a), NEW type, NEW tid, ~Ends(a, s)
    PROVE  Parsed(a, s, type, tid) \in Address
<1>1. PICK N \in Nat : N = Len(a)
  BY BytesAre
<1>2. s \in Nat /\ s <= N /\ ~(s + 4 > Len(a))
  BY <1>1 DEF Ends
<1>3. Slice(a, s, N) \in Bytes
  BY <1>1, <1>2, SliceIs
<1>4. LengthAt(a, s) \in Nat
  BY <1>2, AfterIs DEF Word
<1> QED BY <1>1, <1>3, <1>4, ParseTyped DEF Parsed

(* The parser never slices outside the packet, whatever it says. *)
LEMMA FindTyped ==
    ASSUME NEW a \in Bytes, NEW type, NEW tid
    PROVE  FindAddress(a, type, tid) \in Address
<1>1. PICK N \in Nat : N = Len(a)
  BY BytesAre
<1>2. PICK w : Finds(a, type, tid, w) /\ FindAddress(a, type, tid) = w[0]
  BY FindExists, FindIs
<1> DEFINE S == {k \in 0..N : \A s \in (N - k)..N : w[s] \in Address}
<1>3. 0 \in S
  <2>1. N \in 0..Len(a) /\ Ends(a, N)
    BY <1>1 DEF Ends
  <2>2. w[N] \in Address
    BY <1>2, <2>1, FindsAt, FailedIs
  <2> QED BY <2>2
<1>4. ASSUME NEW k \in Nat, k < N, k \in S PROVE k + 1 \in S
  <2>1. \A s \in (N - k)..N : w[s] \in Address
    BY <1>4
  <2>2. ASSUME NEW s \in (N - (k + 1))..N PROVE w[s] \in Address
    <3>1. s \in 0..N /\ s \in 0..Len(a)
      BY <1>1, <1>4
    <3>2. CASE Ends(a, s)
      BY <1>2, <3>1, <3>2, FindsAt, FailedIs
    <3>3. CASE ~Ends(a, s) /\ TypeAt(a, s) = type
      BY <1>2, <3>1, <3>3, FindsAt, ParsedTyped
    <3>4. CASE ~Ends(a, s) /\ TypeAt(a, s) # type
      <4>1. After(a, s) \in (s + 1)..N
        BY <1>1, <3>1, <3>4, StepIs
      <4>2. After(a, s) \in (N - k)..N
        BY <1>4, <3>1, <4>1
      <4>3. w[s] = w[After(a, s)]
        BY <1>2, <3>1, <3>4, FindsAt
      <4> QED BY <2>1, <4>2, <4>3
    <3> QED BY <3>2, <3>3, <3>4
  <2>3. k + 1 \in 0..N
    BY <1>4
  <2> QED BY <2>2, <2>3
<1>5. N \in S
  <2>1. N \in 0..N
    OBVIOUS
  <2> HIDE DEF S
  <2> QED BY <1>3, <1>4, <2>1, UpTo
<1>6. w[0] \in Address
  BY <1>5
<1> QED BY <1>2, <1>6

-----------------------------------------------------------------------------
(* Attributes one behind the other *)

LEMMA BytesEqual ==
    ASSUME NEW a \in Bytes, NEW b \in Bytes, Len(a) = Len(b),
           \A k \in 1..Len(a) : a[k] = b[k]
    PROVE  a = b
BY SeqEqual DEF Bytes

LEMMA CatIs ==
    ASSUME NEW a \in Bytes, NEW b \in Bytes
    PROVE  /\ a \o b \in Bytes /\ Len(a \o b) = Len(a) + Len(b)
           /\ \A k \in 1..Len(a) : (a \o b)[k] = a[k]
           /\ \A k \in 1..Len(b) : (a \o b)[Len(a) + k] = b[k]
<1>1. PICK n \in Nat : n = Len(a)
  BY BytesAre
<1>2. PICK m \in Nat : m = Len(b)
  BY BytesAre
<1>3. a \in Seq(0..255) /\ b \in Seq(0..255)
  BY DEF Bytes
<1>4. /\ a \o b \in Seq(0..255) /\ Len(a \o b) = n + m
      /\ \A i \in 1..(n + m) : (a \o b)[i] = IF i <= n THEN a[i] ELSE b[i - n]
  BY <1>1, <1>2, <1>3, ConcatProperties
<1>5. ASSUME NEW k \in 1..n PROVE (a \o b)[k] = a[k]
  <2>1. k \in 1..(n + m) /\ k <= n
    OBVIOUS
  <2> QED BY <1>4, <2>1
<1>6. ASSUME NEW k \in 1..m PROVE (a \o b)[n + k] = b[k]
  <2>1. n + k \in 1..(n + m) /\ ~(n + k <= n) /\ (n + k) - n = k
    OBVIOUS
  <2>2. (a \o b)[n + k] = b[(n + k) - n]
    BY <1>4, <2>1
  <2> QED BY <2>1, <2>2
<1> QED BY <1>1, <1>2, <1>4, <1>5, <1>6 DEF Bytes

(* c is the n bytes of a behind the first lo. *)
Cut(c, a, lo, n) == c \in Bytes /\ Len(c) = n /\ \A k \in 1..n : c[k] = a[lo + k]

LEMMA Sliced ==
    ASSUME NEW a \in Bytes, NEW lo \in Nat, NEW n \in Nat, lo + n <= Len(a)
    PROVE  Cut(Slice(a, lo, lo + n), a, lo, n)
<1>0. PICK c : c = Slice(a, lo, lo + n)
  OBVIOUS
<1>1. PICK hi \in Nat : hi = lo + n
  OBVIOUS
<1>2. lo <= hi /\ hi - lo = n /\ hi <= Len(a)
  BY <1>1
<1>3. c \in Bytes /\ Len(c) = hi - lo /\ \A k \in 1..(hi - lo) : c[k] = a[lo + k]
  BY <1>0, <1>1, <1>2, SliceIs
<1>4. Cut(c, a, lo, n)
  BY ONLY <1>2, <1>3 DEF Cut
<1> QED BY <1>0, <1>4

LEMMA PaddedTo ==
    ASSUME NEW n \in Nat, n < 65533, NEW m, Rounds(n, m)
    PROVE  Padded(n) = m
BY PaddedIs DEF Rounds

Attribute == Word \X Word \X Bytes

LEMMA ChunkIs ==
    ASSUME NEW attr \in Attribute
    PROVE  /\ Chunk(attr) \in Bytes /\ Len(Chunk(attr)) = 4 + Len(attr[3])
           /\ Chunk(attr)[1] * 256 + Chunk(attr)[2] = attr[1]
           /\ Chunk(attr)[3] * 256 + Chunk(attr)[4] = attr[2]
           /\ \A k \in 1..Len(attr[3]) : Chunk(attr)[4 + k] = attr[3][k]
<1> DEFINE t == Uint16(attr[1])
           n == Uint16(attr[2])
           v == attr[3]
           h == t \o n
<1>1. attr[1] \in Word /\ attr[2] \in Word /\ v \in Bytes
  BY DEF Attribute
<1>2. attr[1] \in Nat /\ attr[2] \in Nat /\ attr[1] < 65536 /\ attr[2] < 65536
  BY <1>1 DEF Word
<1>3. t \in Bytes /\ Len(t) = 2 /\ t[1] * 256 + t[2] = attr[1]
  BY <1>2, Uint16Is, Wrapped DEF BigEndian
<1>4. n \in Bytes /\ Len(n) = 2 /\ n[1] * 256 + n[2] = attr[2]
  BY <1>2, Uint16Is, Wrapped DEF BigEndian
<1>5. Chunk(attr) = h \o v
  BY DEF Chunk
<1> HIDE DEF t, n, v
<1>6. PICK c : c = h
  OBVIOUS
<1>7. c = t \o n
  BY <1>6
<1> HIDE DEF h
<1>8. /\ c \in Bytes /\ Len(c) = 2 + 2
      /\ \A k \in 1..2 : c[k] = t[k]
      /\ \A k \in 1..2 : c[2 + k] = n[k]
  <2>1. /\ c \in Bytes /\ Len(c) = Len(t) + Len(n)
        /\ \A k \in 1..Len(t) : c[k] = t[k]
        /\ \A k \in 1..Len(n) : c[Len(t) + k] = n[k]
    BY <1>3, <1>4, <1>7, CatIs, Zenon
  <2> QED BY ONLY <1>3, <1>4, <2>1
<1>9. h \in Bytes /\ Len(h) = 4
  BY <1>6, <1>8
<1>10. h[1] = t[1] /\ h[2] = t[2] /\ h[3] = n[1] /\ h[4] = n[2]
  <2>1. c[1] = t[1] /\ c[2] = t[2] /\ c[2 + 1] = n[1] /\ c[2 + 2] = n[2]
    BY <1>8
  <2> QED BY <1>6, <2>1
<1>11. PICK d : d = Chunk(attr)
  OBVIOUS
<1>12. PICK m \in Nat : m = Len(v)
  BY <1>1, BytesAre
<1>13. /\ d \in Bytes /\ Len(d) = 4 + m
       /\ \A k \in 1..4 : d[k] = h[k]
       /\ \A k \in 1..m : d[4 + k] = v[k]
  <2>1. d = h \o v
    BY <1>5, <1>11, Zenon
  <2>2. /\ d \in Bytes /\ Len(d) = Len(h) + Len(v)
        /\ \A k \in 1..Len(h) : d[k] = h[k]
        /\ \A k \in 1..Len(v) : d[Len(h) + k] = v[k]
    BY <1>1, <1>9, <2>1, CatIs, Zenon
  <2> QED BY ONLY <1>9, <1>12, <2>2
<1>14. d[1] = t[1] /\ d[2] = t[2] /\ d[3] = n[1] /\ d[4] = n[2]
  BY <1>10, <1>13
<1> QED BY <1>3, <1>4, <1>11, <1>12, <1>13, <1>14 DEF v

(* An attribute stands behind the first s bytes. *)
Holds(a, s, attr) ==
    /\ s \in Nat /\ s + Len(Chunk(attr)) <= Len(a)
    /\ \A k \in 1..Len(Chunk(attr)) : a[s + k] = Chunk(attr)[k]

LEMMA HeldIs ==
    ASSUME NEW a \in Bytes, NEW s, NEW attr \in Attribute, Holds(a, s, attr), Sound(attr)
    PROVE  /\ TypeAt(a, s) = attr[1] /\ LengthAt(a, s) = attr[2]
           /\ After(a, s) = s + Len(Chunk(attr)) /\ s \in 0..Len(a) /\ ~Ends(a, s)
<1> DEFINE c == Chunk(attr)
<1>1. PICK N \in Nat : N = Len(a)
  BY BytesAre
<1>2. attr[3] \in Bytes /\ attr[2] \in Nat
  BY DEF Attribute, Word
<1>3. PICK m \in Nat : m = Len(attr[3])
  BY <1>2, BytesAre
<1>4. /\ Len(c) = 4 + m /\ c[1] * 256 + c[2] = attr[1] /\ c[3] * 256 + c[4] = attr[2]
  BY <1>3, ChunkIs
<1>5. s \in Nat /\ s + (4 + m) <= N /\ \A k \in 1..(4 + m) : a[s + k] = c[k]
  BY <1>1, <1>4 DEF Holds
<1> HIDE DEF c
<1>6. a[s + 1] = c[1] /\ a[s + 2] = c[2] /\ a[s + 3] = c[3] /\ a[s + 4] = c[4]
  BY <1>5
<1>7. Slice(a, s, s + 2)[1] = c[1] /\ Slice(a, s, s + 2)[2] = c[2]
  <2>1. 2 \in Nat /\ s \in Nat /\ s + 2 <= Len(a)
    BY <1>1, <1>5
  <2>2. \A k \in 1..2 : Slice(a, s, s + 2)[k] = a[s + k]
    BY <2>1, Sliced DEF Cut
  <2> QED BY <1>6, <2>2
<1>8. Slice(a, s + 2, s + 4)[1] = c[3] /\ Slice(a, s + 2, s + 4)[2] = c[4]
  <2>1. /\ 2 \in Nat /\ s + 2 \in Nat /\ (s + 2) + 2 <= Len(a)
        /\ (s + 2) + 1 = s + 3 /\ (s + 2) + 2 = s + 4
    BY <1>1, <1>5
  <2>2. PICK lo \in Nat : lo = s + 2
    BY <2>1
  <2>3. \A k \in 1..2 : Slice(a, lo, lo + 2)[k] = a[lo + k]
    BY <2>1, <2>2, Sliced DEF Cut
  <2>4. Slice(a, lo, lo + 2)[1] = a[lo + 1] /\ Slice(a, lo, lo + 2)[2] = a[lo + 2]
    BY <2>3
  <2> QED BY <1>6, <2>1, <2>2, <2>4
<1>9. TypeAt(a, s) = attr[1] /\ LengthAt(a, s) = attr[2]
  BY <1>4, <1>7, <1>8 DEF TypeAt, LengthAt, BigEndian
<1>10. Padded(attr[2]) = m
  <2>1. attr[2] < 65533 /\ Rounds(attr[2], m)
    BY <1>3 DEF Sound
  <2> QED BY <1>2, <2>1, PaddedTo
<1>11. After(a, s) = s + (4 + m)
  BY <1>5, <1>9, <1>10 DEF After
<1>12. s \in 0..N /\ ~(s + 4 > N) /\ ~(s + (4 + m) > N)
  BY <1>5
<1> QED BY <1>1, <1>4, <1>9, <1>11, <1>12 DEF Ends, c

-----------------------------------------------------------------------------
(* The address that an attribute holds *)

LEMMA SameSlices ==
    ASSUME NEW a \in Bytes, NEW b \in Bytes, NEW lo \in Nat, NEW n \in Nat,
           lo + n <= Len(a), lo + n <= Len(b), \A k \in 1..(lo + n) : a[k] = b[k]
    PROVE  Slice(a, lo, lo + n) = Slice(b, lo, lo + n)
<1>1. PICK c : c = Slice(a, lo, lo + n)
  OBVIOUS
<1>2. PICK d : d = Slice(b, lo, lo + n)
  OBVIOUS
<1>3. c \in Bytes /\ Len(c) = n /\ \A k \in 1..n : c[k] = a[lo + k]
  <2>1. Cut(c, a, lo, n)
    BY <1>1, Sliced
  <2> QED BY <2>1 DEF Cut
<1>4. d \in Bytes /\ Len(d) = n /\ \A k \in 1..n : d[k] = b[lo + k]
  <2>1. Cut(d, b, lo, n)
    BY <1>2, Sliced
  <2> QED BY <2>1 DEF Cut
<1>5. ASSUME NEW k \in 1..n PROVE c[k] = d[k]
  <2>1. lo + k \in 1..(lo + n)
    OBVIOUS
  <2>2. a[lo + k] = b[lo + k]
    BY <2>1
  <2> QED BY <1>3, <1>4, <2>2
<1>6. c = d
  BY <1>3, <1>4, <1>5, BytesEqual
<1> QED BY <1>1, <1>2, <1>6

(* What is made of an attribute's value. *)
Decoded(type, value, tid) ==
    LET size == IF value[2] = 1 THEN 4 ELSE 16
    IN  IF Len(value) < 2 \/ value[2] \notin {1, 2} \/ Len(value) < 4 + size THEN Failed
        ELSE IF type = XorMappedAddress
        THEN [ip |-> Xored(Slice(value, 4, 4 + size), MagicCookie \o tid),
              port |-> BigEndian(Xored(Slice(value, 2, 4), MagicCookie))]
        ELSE [ip |-> Slice(value, 4, 4 + size), port |-> BigEndian(Slice(value, 2, 4))]

LEMMA ParseIs ==
    ASSUME NEW type, NEW a \in Bytes, NEW n \in Nat, NEW tid, 4 + n <= Len(a)
    PROVE  ParseAddress(type, a, n, tid) = Decoded(type, Slice(a, 4, 4 + n), tid)
<1>1. PICK value : value = Slice(a, 4, 4 + n)
  OBVIOUS
<1>2. value \in Bytes /\ value # OutOfRange
  <2>1. 4 \in Nat
    OBVIOUS
  <2>2. Cut(value, a, 4, n)
    BY <1>1, <2>1, Sliced
  <2> QED BY <2>2, OutOfRangeIsNot DEF Cut
<1>3. Fits(a, n)
  <2>1. PICK N \in Nat : N = Len(a)
    BY BytesAre
  <2> QED BY <2>1 DEF Fits
<1> QED BY <1>1, <1>2, <1>3 DEF ParseAddress, Decoded

LEMMA DecodedIs ==
    ASSUME NEW attr \in Attribute, NEW tid, NEW value \in Bytes,
           Len(value) = attr[2], attr[2] <= Len(attr[3]),
           \A k \in 1..attr[2] : value[k] = attr[3][k]
    PROVE  Decoded(attr[1], value, tid) = AddressIn(attr, tid)
<1>1. PICK n \in Nat : n = attr[2]
  BY DEF Attribute, Word
<1>2. PICK v \in Bytes : v = attr[3]
  BY DEF Attribute
<1>3. PICK m \in Nat : m = Len(v)
  BY BytesAre
<1>4. PICK f : f = value[2]
  OBVIOUS
<1> DEFINE size == IF f = 1 THEN 4 ELSE 16
<1>5. n <= m /\ Len(value) = n /\ \A k \in 1..n : value[k] = v[k]
  BY <1>1, <1>2, <1>3
<1>6. CASE n < 8
  <2>1. AddressIn(attr, tid) = Failed
    BY <1>1, <1>6 DEF AddressIn
  <2>2. n < 2 \/ f \notin {1, 2} \/ n < 4 + size
    BY <1>6
  <2>3. Decoded(attr[1], value, tid) = Failed
    BY <1>4, <1>5, <2>2 DEF Decoded
  <2> QED BY <2>1, <2>3
<1>7. CASE n >= 8 /\ (f \notin {1, 2} \/ n < 4 + size)
  <2>1. v[2] = f
    BY <1>4, <1>5, <1>7
  <2>2. AddressIn(attr, tid) = Failed
    BY <1>1, <1>2, <1>7, <2>1 DEF AddressIn
  <2>3. Decoded(attr[1], value, tid) = Failed
    BY <1>4, <1>5, <1>7 DEF Decoded
  <2> QED BY <2>2, <2>3
<1>8. CASE n >= 8 /\ f \in {1, 2} /\ n >= 4 + size
  <2>1. v[2] = f /\ size \in Nat
    BY <1>4, <1>5, <1>8
  <2>2. SubSeq(v, 5, 4 + size) = Slice(value, 4, 4 + size)
    <3>1. 4 \in Nat /\ 4 + size <= m /\ 4 + size <= n /\ 4 <= 4 + size
      BY <1>5, <1>8, <2>1
    <3>2. \A k \in 1..(4 + size) : value[k] = v[k]
      BY <1>5, <2>1, <3>1
    <3> HIDE DEF size
    <3>3. Slice(value, 4, 4 + size) = Slice(v, 4, 4 + size)
      BY <1>3, <1>5, <2>1, <3>1, <3>2, SameSlices
    <3>4. Slice(v, 4, 4 + size) = SubSeq(v, 5, 4 + size)
      <4>1. PICK hi \in Nat : hi = 4 + size
        BY <2>1
      <4>2. 4 <= hi /\ hi <= Len(v) /\ 4 + 1 = 5
        BY <1>3, <3>1, <4>1
      <4>3. Slice(v, 4, hi) = SubSeq(v, 5, hi)
        BY <4>2 DEF Slice
      <4> QED BY <4>1, <4>3
    <3> QED BY <3>3, <3>4
  <2>3. SubSeq(v, 3, 4) = Slice(value, 2, 4)
    <3>1. 2 \in Nat /\ 2 + 2 <= m /\ 2 + 2 <= n /\ 2 + 2 = 4
      BY <1>5, <1>8
    <3>2. \A k \in 1..(2 + 2) : value[k] = v[k]
      BY <1>5, <3>1
    <3>3. Slice(value, 2, 2 + 2) = Slice(v, 2, 2 + 2)
      BY <1>3, <1>5, <3>1, <3>2, SameSlices
    <3>4. Slice(v, 2, 4) = SubSeq(v, 3, 4)
      BY <1>3, <3>1 DEF Slice
    <3> QED BY <3>1, <3>3, <3>4
  <2> DEFINE ip == Slice(value, 4, 4 + size)
             port == Slice(value, 2, 4)
             r == IF attr[1] = XorMappedAddress
                  THEN [ip |-> Xored(ip, MagicCookie \o tid),
                        port |-> BigEndian(Xored(port, MagicCookie))]
                  ELSE [ip |-> ip, port |-> BigEndian(port)]
  <2>4. ~(Len(value) < 2 \/ f \notin {1, 2} \/ Len(value) < 4 + size)
    BY <1>5, <1>8
  <2>5. ~(attr[2] < 8 \/ f \notin {1, 2} \/ attr[2] < 4 + size)
    BY <1>1, <1>8
  <2>6. Decoded(attr[1], value, tid) = r
    BY <1>4, <2>4, Zenon DEF Decoded
  <2>7. AddressIn(attr, tid) = r
    BY <1>2, <2>1, <2>2, <2>3, <2>5, Zenon DEF AddressIn
  <2> QED BY <2>6, <2>7
<1> QED BY <1>6, <1>7, <1>8

LEMMA ParsedIs ==
    ASSUME NEW a \in Bytes, NEW s, NEW attr \in Attribute, Holds(a, s, attr),
           Sound(attr), NEW tid
    PROVE  Parsed(a, s, attr[1], tid) = AddressIn(attr, tid)
<1>1. PICK N \in Nat : N = Len(a)
  BY BytesAre
<1>2. PICK n \in Nat : n = attr[2]
  BY DEF Attribute, Word
<1>3. PICK v \in Bytes : v = attr[3]
  BY DEF Attribute
<1>4. PICK m \in Nat : m = Len(v)
  BY BytesAre
<1>5. n <= m
  BY <1>2, <1>3, <1>4 DEF Sound, Rounds
<1>6. PICK c : c = Chunk(attr)
  OBVIOUS
<1>7. Len(c) = 4 + m /\ \A k \in 1..m : c[4 + k] = v[k]
  BY <1>3, <1>4, <1>6, ChunkIs
<1>8. s \in Nat /\ s + (4 + m) <= N /\ \A k \in 1..(4 + m) : a[s + k] = c[k]
  BY <1>1, <1>6, <1>7 DEF Holds
<1>9. PICK r \in Nat : N = s + r
  <2>1. N - s \in Nat /\ N = s + (N - s)
    BY <1>8
  <2> QED BY <2>1
<1>10. PICK b : b = Slice(a, s, s + r)
  OBVIOUS
<1>11. b \in Bytes /\ Len(b) = r /\ \A k \in 1..r : b[k] = a[s + k]
  <2>1. s \in Nat /\ s + r <= Len(a)
    BY <1>1, <1>8, <1>9
  <2>2. Cut(b, a, s, r)
    BY <1>10, <2>1, Sliced
  <2> QED BY <2>2 DEF Cut
<1>12. 4 \in Nat /\ 4 + n <= r /\ 4 + m <= r
  BY <1>5, <1>8, <1>9
<1>13. PICK value : value = Slice(b, 4, 4 + n)
  OBVIOUS
<1>14. value \in Bytes /\ Len(value) = n /\ \A k \in 1..n : value[k] = b[4 + k]
  <2>1. Cut(value, b, 4, n)
    BY <1>11, <1>12, <1>13, Sliced
  <2> QED BY <2>1 DEF Cut
<1>15. ASSUME NEW k \in 1..n PROVE value[k] = v[k]
  <2>1. k \in 1..m /\ 4 + k \in 1..(4 + m) /\ 4 + k \in 1..r
    BY <1>5, <1>12
  <2>2. value[k] = b[4 + k] /\ b[4 + k] = a[s + (4 + k)] /\ a[s + (4 + k)] = c[4 + k]
    BY <1>8, <1>11, <1>14, <2>1
  <2> QED BY <1>7, <2>1, <2>2
<1>16. LengthAt(a, s) = n
  BY <1>2, HeldIs
<1>17. Parsed(a, s, attr[1], tid) = ParseAddress(attr[1], b, n, tid)
  BY <1>1, <1>9, <1>10, <1>16 DEF Parsed
<1>18. ParseAddress(attr[1], b, n, tid) = Decoded(attr[1], value, tid)
  BY <1>11, <1>12, <1>13, ParseIs
<1>19. Decoded(attr[1], value, tid) = AddressIn(attr, tid)
  BY <1>2, <1>3, <1>4, <1>5, <1>14, <1>15, DecodedIs
<1> QED BY <1>17, <1>18, <1>19

-----------------------------------------------------------------------------
(* A packet made of a list of attributes *)

Joins(list, e) ==
    e = [i \in 0..Len(list) |-> IF i = 0 THEN <<>> ELSE e[i - 1] \o Chunk(list[i])]

LEMMA JoinExists == ASSUME NEW list, Len(list) \in Nat PROVE \E e : Joins(list, e)
<1> DEFINE N == Len(list)
           At(e, i) == e[i] = IF i = 0 THEN <<>> ELSE e[i - 1] \o Chunk(list[i])
           S == {k \in 0..N : \E e : \A i \in 0..k : At(e, i)}
<1>1. 0 \in S
  <2> DEFINE e == [i \in {0} |-> <<>>]
  <2>1. \A i \in 0..0 : At(e, i)
    OBVIOUS
  <2> HIDE DEF e, At
  <2> QED BY <2>1
<1>2. ASSUME NEW k \in Nat, k < N, k \in S PROVE k + 1 \in S
  <2>1. PICK u : \A i \in 0..k : At(u, i)
    BY <1>2
  <2> DEFINE x == u[k] \o Chunk(list[k + 1])
             e == [i \in 0..(k + 1) |-> IF i = k + 1 THEN x ELSE u[i]]
  <2>2. ASSUME NEW i \in 0..(k + 1) PROVE At(e, i)
    <3>1. CASE i = k + 1
      <4>0. i # 0 /\ i - 1 = k /\ k \in 0..(k + 1) /\ k # k + 1
        BY <3>1
      <4>1. e[i] = x
        <5> HIDE DEF x
        <5> QED BY <3>1
      <4>2. e[i - 1] = u[k]
        <5> HIDE DEF x
        <5> QED BY <4>0
      <4> HIDE DEF e
      <4> QED BY <3>1, <4>0, <4>1, <4>2
    <3>2. CASE i # k + 1
      <4>1. i \in 0..k /\ e[i] = u[i] /\ (i # 0 => i - 1 \in 0..(k + 1) /\ i - 1 # k + 1)
        BY <3>2
      <4>2. i # 0 => e[i - 1] = u[i - 1]
        BY <4>1
      <4>3. At(u, i)
        BY <2>1, <4>1
      <4> HIDE DEF e
      <4> QED BY <4>1, <4>2, <4>3
    <3> QED BY <3>1, <3>2
  <2>3. k + 1 \in 0..N
    BY <1>2
  <2> HIDE DEF e, At
  <2>4. \E v : \A i \in 0..(k + 1) : At(v, i)
    BY <2>2
  <2> QED BY <2>3, <2>4
<1>3. N \in S
  <2>1. N \in 0..N
    OBVIOUS
  <2> HIDE DEF S
  <2> QED BY <1>1, <1>2, <2>1, UpTo
<1>4. PICK u : \A i \in 0..N : At(u, i)
  BY <1>3
<1> DEFINE e == [i \in 0..N |-> u[i]]
<1>5. e = [i \in 0..N |-> IF i = 0 THEN <<>> ELSE e[i - 1] \o Chunk(list[i])]
  <2>1. ASSUME NEW i \in 0..N
        PROVE  u[i] = IF i = 0 THEN <<>> ELSE e[i - 1] \o Chunk(list[i])
    <3>1. i # 0 => i - 1 \in 0..N /\ e[i - 1] = u[i - 1]
      OBVIOUS
    <3>2. At(u, i)
      BY <1>4
    <3> HIDE DEF e
    <3> QED BY <3>1, <3>2
  <2> QED BY <2>1
<1>6. Joins(list, e)
  BY <1>5 DEF Joins
<1> HIDE DEF e
<1> QED BY <1>6

LEMMA EncodedIs ==
    ASSUME NEW list, Len(list) \in Nat
    PROVE  \E e : Joins(list, e) /\ Encoded(list) = e[Len(list)]
<1> DEFINE v == CHOOSE e : Joins(list, e)
<1>1. Encoded(list) = v[Len(list)]
  BY DEF Encoded, Joins
<1>2. Joins(list, v)
  BY JoinExists
<1> HIDE DEF v
<1> QED BY <1>1, <1>2

LEMMA JoinAt ==
    ASSUME NEW list, NEW e, Joins(list, e), Len(list) \in Nat, NEW i \in 1..Len(list)
    PROVE  e[0] = <<>> /\ e[i] = e[i - 1] \o Chunk(list[i])
<1>1. i \in 0..Len(list) /\ i # 0 /\ 0 \in 0..Len(list)
  OBVIOUS
<1> QED BY <1>1, Zenon DEF Joins

List == Seq(Attribute)

LEMMA ListIs ==
    ASSUME NEW list \in List
    PROVE  Len(list) \in Nat /\ \A i \in 1..Len(list) : list[i] \in Attribute
BY LenProperties, ElementOfSeq DEF List

(* The packet up to an attribute is the beginning of the packet.           *)
LEMMA JoinedIs ==
    ASSUME NEW list \in List, NEW e, Joins(list, e), NEW i \in 0..Len(list)
    PROVE  e[i] \in Bytes
<1>1. PICK N \in Nat : N = Len(list)
  BY ListIs
<1> DEFINE S == {n \in 0..N : e[n] \in Bytes}
<1>2. 0 \in S
  <2>1. 0 \in 0..N
    OBVIOUS
  <2>2. e[0] = <<>>
    BY <1>1, <2>1, Zenon DEF Joins
  <2>3. <<>> \in Bytes
    BY DEF Bytes
  <2> QED BY <2>1, <2>2, <2>3
<1>3. ASSUME NEW n \in Nat, n < N, n \in S PROVE n + 1 \in S
  <2>1. n + 1 \in 1..N /\ n + 1 \in 0..N /\ (n + 1) - 1 = n
    BY <1>3
  <2>2. e[n + 1] = e[n] \o Chunk(list[n + 1])
    BY <1>1, <2>1, JoinAt
  <2>3. Chunk(list[n + 1]) \in Bytes
    BY <1>1, <2>1, ListIs, ChunkIs
  <2>4. e[n] \o Chunk(list[n + 1]) \in Bytes
    BY <1>3, <2>3, CatIs
  <2> QED BY <2>1, <2>2, <2>4
<1>4. i \in S
  <2> HIDE DEF S
  <2> QED BY <1>1, <1>2, <1>3, UpTo
<1> QED BY <1>4

Begins(a, b) == Len(a) <= Len(b) /\ \A k \in 1..Len(a) : b[k] = a[k]

LEMMA BeginsCat == ASSUME NEW a \in Bytes, NEW b \in Bytes PROVE Begins(a, a \o b)
<1>1. PICK c : c = a \o b
  OBVIOUS
<1>2. /\ Len(c) = Len(a) + Len(b) /\ \A k \in 1..Len(a) : c[k] = a[k]
      /\ Len(a) \in Nat /\ Len(b) \in Nat
  BY <1>1, CatIs, BytesAre, Zenon
<1>3. Begins(a, c)
  BY <1>2 DEF Begins
<1> QED BY <1>1, <1>3

LEMMA BeginsTransitive ==
    ASSUME NEW a \in Bytes, NEW b \in Bytes, NEW c \in Bytes, Begins(a, b), Begins(b, c)
    PROVE  Begins(a, c)
<1>1. Len(a) \in Nat /\ Len(b) \in Nat /\ Len(c) \in Nat
  BY BytesAre
<1> QED BY <1>1 DEF Begins

LEMMA JoinBegins ==
    ASSUME NEW list \in List, NEW e, Joins(list, e), NEW i \in 0..Len(list)
    PROVE  Begins(e[i], e[Len(list)])
<1>1. PICK N \in Nat : N = Len(list)
  BY ListIs
<1>2. PICK M \in Nat : N = i + M
  <2>1. N - i \in Nat /\ N = i + (N - i)
    BY <1>1
  <2> QED BY <2>1
<1> DEFINE S == {d \in 0..M : Begins(e[i], e[i + d])}
<1>3. 0 \in S
  <2>1. e[i] \in Bytes
    BY JoinedIs
  <2>2. i + 0 = i /\ Len(e[i]) \in Nat /\ 0 \in 0..M
    BY <1>1, <2>1, BytesAre
  <2>3. Begins(e[i], e[i])
    BY <2>2 DEF Begins
  <2> QED BY <2>2, <2>3
<1>4. ASSUME NEW d \in Nat, d < M, d \in S PROVE d + 1 \in S
  <2>1. /\ d + 1 \in 0..M /\ i + (d + 1) \in 1..N /\ i + (d + 1) \in 0..N
        /\ (i + (d + 1)) - 1 = i + d /\ i + d \in 0..N
    BY <1>1, <1>2, <1>4
  <2>2. e[i + (d + 1)] = e[i + d] \o Chunk(list[i + (d + 1)])
    BY <1>1, <2>1, JoinAt
  <2>3. Chunk(list[i + (d + 1)]) \in Bytes
    BY <1>1, <2>1, ListIs, ChunkIs
  <2>4. e[i] \in Bytes /\ e[i + d] \in Bytes /\ e[i + (d + 1)] \in Bytes
    BY <1>1, <2>1, JoinedIs
  <2>5. Begins(e[i + d], e[i + (d + 1)])
    BY <2>2, <2>3, <2>4, BeginsCat
  <2>6. Begins(e[i], e[i + (d + 1)])
    BY <1>4, <2>4, <2>5, BeginsTransitive
  <2> QED BY <2>1, <2>6
<1>5. M \in S
  <2>1. M \in 0..M
    OBVIOUS
  <2> HIDE DEF S
  <2> QED BY <1>3, <1>4, <2>1, UpTo
<1> QED BY <1>1, <1>2, <1>5

LEMMA JoinHolds ==
    ASSUME NEW list \in List, NEW e, Joins(list, e), NEW i \in 1..Len(list)
    PROVE  /\ Holds(e[Len(list)], Len(e[i - 1]), list[i])
           /\ Len(e[i]) = Len(e[i - 1]) + Len(Chunk(list[i]))
<1>1. PICK N \in Nat : N = Len(list)
  BY ListIs
<1>2. i \in 0..N /\ i - 1 \in 0..N /\ N \in 0..N
  BY <1>1
<1>3. PICK a \in Bytes : a = e[N]
  BY <1>1, <1>2, JoinedIs
<1>4. PICK b \in Bytes : b = e[i]
  BY <1>1, <1>2, JoinedIs
<1>5. PICK d \in Bytes : d = e[i - 1]
  BY <1>1, <1>2, JoinedIs
<1>6. PICK c \in Bytes : c = Chunk(list[i])
  BY <1>1, ListIs, ChunkIs
<1>7. b = d \o c
  BY <1>1, <1>4, <1>5, <1>6, JoinAt
<1>8. Begins(b, a)
  BY <1>1, <1>2, <1>3, <1>4, JoinBegins
<1>9. PICK n \in Nat : n = Len(d)
  BY BytesAre
<1>10. PICK m \in Nat : m = Len(c)
  BY BytesAre
<1>11. Len(b) = n + m /\ \A k \in 1..m : b[n + k] = c[k]
  <2>1. Len(b) = Len(d) + Len(c) /\ \A k \in 1..Len(c) : b[Len(d) + k] = c[k]
    BY <1>7, CatIs, Zenon
  <2> QED BY <1>9, <1>10, <2>1
<1>12. n + m <= Len(a) /\ \A k \in 1..(n + m) : a[k] = b[k]
  BY <1>8, <1>11 DEF Begins
<1>13. ASSUME NEW k \in 1..m PROVE a[n + k] = c[k]
  <2>1. n + k \in 1..(n + m)
    OBVIOUS
  <2> QED BY <1>11, <1>12, <2>1
<1>14. Holds(a, n, list[i])
  BY <1>6, <1>10, <1>12, <1>13 DEF Holds
<1> QED BY <1>1, <1>3, <1>4, <1>5, <1>6, <1>9, <1>10, <1>11, <1>14

-----------------------------------------------------------------------------
(* What is found in a well-formed packet *)

(* None of the first n attributes is of the type. *)
Without(list, n, type) == \A i \in 1..n : list[i][1] # type

(* The walk w comes to the place behind the first n attributes.            *)
Reaches(w, e, n) == w[0] = w[Len(e[n])]

(* The walk passes over attributes of other types. *)
LEMMA Passes ==
    ASSUME NEW list \in List, WellFormed(list), NEW e, Joins(list, e), NEW type, NEW tid,
           NEW w, Finds(e[Len(list)], type, tid, w),
           NEW n \in 0..Len(list), Without(list, n, type)
    PROVE  Reaches(w, e, n)
<1>1. PICK N \in Nat : N = Len(list)
  BY ListIs
<1>2. PICK a \in Bytes : a = e[N]
  <2>1. N \in 0..N
    OBVIOUS
  <2> QED BY <1>1, <2>1, JoinedIs
<1> DEFINE S == {k \in 0..n : w[0] = w[Len(e[k])]}
<1>3. 0 \in S
  <2>1. 0 \in 0..N /\ 0 \in 0..n
    BY <1>1
  <2>2. e[0] = <<>>
    BY <1>1, <2>1, Zenon DEF Joins
  <2>3. Len(e[0]) = 0
    BY <2>2
  <2> QED BY <2>1, <2>3
<1>4. ASSUME NEW k \in Nat, k < n, k \in S PROVE k + 1 \in S
  <2>1. k + 1 \in 1..N /\ k + 1 \in 1..n /\ k + 1 \in 0..n /\ (k + 1) - 1 = k
    BY <1>1, <1>4
  <2>2. PICK s : s = Len(e[k])
    OBVIOUS
  <2>3. PICK attr \in Attribute : attr = list[k + 1]
    BY <1>1, <2>1, ListIs
  <2>4. Holds(a, s, attr) /\ Len(e[k + 1]) = s + Len(Chunk(attr))
    BY <1>1, <1>2, <2>1, <2>2, <2>3, JoinHolds
  <2>5. Sound(attr)
    BY <1>1, <2>1, <2>3 DEF WellFormed
  <2>6. TypeAt(a, s) = attr[1] /\ After(a, s) = Len(e[k + 1]) /\ s \in 0..Len(a)
        /\ ~Ends(a, s)
    BY <2>4, <2>5, HeldIs
  <2>7. attr[1] # type
    BY <2>1, <2>3 DEF Without
  <2>8. Finds(a, type, tid, w)
    BY <1>1, <1>2
  <2>9. w[s] = w[After(a, s)]
    BY <2>6, <2>7, <2>8, FindsAt
  <2> QED BY <1>4, <2>1, <2>2, <2>6, <2>9
<1>5. n \in S
  <2>1. n \in Nat /\ n \in 0..n
    BY <1>1
  <2> HIDE DEF S
  <2> QED BY <1>3, <1>4, <2>1, UpTo
<1> QED BY <1>5 DEF Reaches

LEMMA EncodedTyped == ASSUME NEW list \in List PROVE Encoded(list) \in Bytes
<1>1. PICK e : Joins(list, e) /\ Encoded(list) = e[Len(list)]
  BY ListIs, EncodedIs
<1>2. Len(list) \in 0..Len(list)
  BY ListIs
<1> QED BY <1>1, <1>2, JoinedIs

LEMMA FindFirst ==
    ASSUME NEW list \in List, WellFormed(list), NEW tid, NEW i \in 1..Len(list),
           NEW n, n = i - 1, Without(list, n, list[i][1])
    PROVE  FindAddress(Encoded(list), list[i][1], tid) = AddressIn(list[i], tid)
<1>1. PICK e : Joins(list, e) /\ Encoded(list) = e[Len(list)]
  BY ListIs, EncodedIs
<1>2. PICK a \in Bytes : a = Encoded(list)
  BY EncodedTyped
<1>3. PICK attr \in Attribute : attr = list[i]
  BY ListIs
<1>4. PICK w : Finds(a, attr[1], tid, w) /\ FindAddress(a, attr[1], tid) = w[0]
  BY FindExists, FindIs
<1>6. n \in 0..Len(list) /\ Without(list, n, attr[1])
  BY <1>3, ListIs
<1>7. w[0] = w[Len(e[n])]
  <2>1. PICK type : type = attr[1]
    OBVIOUS
  <2>2. Finds(e[Len(list)], type, tid, w) /\ Without(list, n, type)
    BY <1>1, <1>2, <1>4, <1>6, <2>1, Zenon
  <2>3. Reaches(w, e, n)
    BY <1>1, <1>6, <2>2, Passes
  <2> QED BY <2>3 DEF Reaches
<1>8. Holds(a, Len(e[n]), attr)
  BY <1>1, <1>2, <1>3, JoinHolds
<1>9. Sound(attr)
  BY <1>3 DEF WellFormed
<1>10. PICK s : s = Len(e[n])
  OBVIOUS
<1>11. TypeAt(a, s) = attr[1] /\ s \in 0..Len(a) /\ ~Ends(a, s)
  BY <1>8, <1>9, <1>10, HeldIs
<1>12. w[s] = Parsed(a, s, attr[1], tid)
  BY <1>4, <1>11, FindsAt
<1>13. Parsed(a, s, attr[1], tid) = AddressIn(attr, tid)
  BY <1>8, <1>9, <1>10, ParsedIs
<1> QED BY <1>2, <1>3, <1>4, <1>7, <1>10, <1>12, <1>13

LEMMA FindNone ==
    ASSUME NEW list \in List, WellFormed(list), NEW type, NEW tid,
           \A j \in 1..Len(list) : list[j][1] # type
    PROVE  FindAddress(Encoded(list), type, tid) = Failed
<1>1. PICK e : Joins(list, e) /\ Encoded(list) = e[Len(list)]
  BY ListIs, EncodedIs
<1>2. PICK a \in Bytes : a = Encoded(list)
  BY EncodedTyped
<1>3. PICK w : Finds(a, type, tid, w) /\ FindAddress(a, type, tid) = w[0]
  BY FindExists, FindIs
<1>4. Len(list) \in 0..Len(list)
  BY ListIs
<1>5. w[0] = w[Len(a)]
  <2>1. Finds(e[Len(list)], type, tid, w)
    BY <1>1, <1>2, <1>3, Zenon
  <2>2. Without(list, Len(list), type)
    BY DEF Without
  <2>3. Reaches(w, e, Len(list))
    BY <1>1, <1>4, <2>1, <2>2, Passes
  <2> QED BY <1>1, <1>2, <2>3 DEF Reaches
<1>6. Len(a) \in 0..Len(a) /\ Ends(a, Len(a))
  BY BytesAre DEF Ends
<1> QED BY <1>2, <1>3, <1>5, <1>6, FindsAt

LEMMA FindIsFirst ==
    ASSUME NEW list \in List, WellFormed(list), NEW type, NEW tid
    PROVE  FindAddress(Encoded(list), type, tid) = FirstOf(list, type, tid)
<1> DEFINE I == {i \in 1..Len(list) : list[i][1] = type}
<1>1. PICK N \in Nat : N = Len(list)
  BY ListIs
<1>2. CASE I = {}
  BY <1>2, FindNone DEF FirstOf
<1>3. CASE I # {}
  <2> DEFINE i == CHOOSE x \in I : \A j \in I : x <= j
  <2>1. \E x \in I : \A j \in I : x <= j
    <3>1. I \in SUBSET Nat
      BY <1>1
    <3> HIDE DEF I
    <3> QED BY <1>3, <3>1, LeastOf
  <2>2. i \in I /\ \A j \in I : i <= j
    <3> HIDE DEF I
    <3> QED BY <2>1, Zenon
  <2>3. FirstOf(list, type, tid) = AddressIn(list[i], tid)
    BY <1>3, Zenon DEF FirstOf
  <2> HIDE DEF i
  <2>4. i \in 1..N /\ list[i][1] = type
    BY <1>1, <2>2
  <2>5. PICK n : n = i - 1
    OBVIOUS
  <2>6. ASSUME NEW j \in 1..n PROVE list[j][1] # list[i][1]
    <3>1. j \in 1..N /\ ~(i <= j)
      BY <2>4, <2>5
    <3> QED BY <1>1, <2>2, <2>4, <3>1
  <2>7. Without(list, n, list[i][1])
    BY <2>6 DEF Without
  <2> QED BY <1>1, <2>3, <2>4, <2>5, <2>7, FindFirst
<1> QED BY <1>2, <1>3

-----------------------------------------------------------------------------
(* What an own server sends *)

AttrOf(type, addr) ==
    <<type, 4 + Len(addr.ip), <<0, Family(addr)>> \o Uint16(addr.port) \o addr.ip>>

LEMMA ValueIs ==
    ASSUME NEW ip \in Bytes, Len(ip) = 4, NEW port \in Nat,
           NEW v, v = <<0, 1>> \o Uint16(port) \o ip
    PROVE  /\ v \in Bytes /\ Len(v) = 8 /\ v[2] = 1
           /\ SubSeq(v, 5, 8) = ip /\ SubSeq(v, 3, 4) = Uint16(port)
<1>1. PICK h : h = <<0, 1>>
  OBVIOUS
<1>2. h \in Bytes /\ Len(h) = 2 /\ h[2] = 1
  <2>1. <<0, 1>> \in Seq(0..255) /\ Len(<<0, 1>>) = 2 /\ <<0, 1>>[2] = 1
    OBVIOUS
  <2> QED BY <1>1, <2>1 DEF Bytes
<1>3. PICK u \in Bytes : u = Uint16(port) /\ Len(u) = 2
  BY Uint16Is
<1>4. PICK x : x = h \o u
  OBVIOUS
<1>5. /\ x \in Bytes /\ Len(x) = 4
      /\ \A k \in 1..2 : x[k] = h[k]
      /\ \A k \in 1..2 : x[2 + k] = u[k]
  <2>1. /\ x \in Bytes /\ Len(x) = Len(h) + Len(u)
        /\ \A k \in 1..Len(h) : x[k] = h[k]
        /\ \A k \in 1..Len(u) : x[Len(h) + k] = u[k]
    BY <1>2, <1>3, <1>4, CatIs, Zenon
  <2> QED BY ONLY <1>2, <1>3, <2>1
<1>6. /\ v \in Bytes /\ Len(v) = 8
      /\ \A k \in 1..4 : v[k] = x[k]
      /\ \A k \in 1..4 : v[4 + k] = ip[k]
  <2>1. PICK w : w = x \o ip
    OBVIOUS
  <2>2. /\ w \in Bytes /\ Len(w) = Len(x) + Len(ip)
        /\ \A k \in 1..Len(x) : w[k] = x[k]
        /\ \A k \in 1..Len(ip) : w[Len(x) + k] = ip[k]
    BY <1>5, <2>1, CatIs, Zenon
  <2>3. Len(ip) = 4
    OBVIOUS
  <2>4. w = v
    BY <1>1, <1>3, <1>4, <2>1
  <2>5. /\ w \in Bytes /\ Len(w) = 8
        /\ \A k \in 1..4 : w[k] = x[k]
        /\ \A k \in 1..4 : w[4 + k] = ip[k]
    BY ONLY <1>5, <2>2, <2>3
  <2> QED BY <2>4, <2>5, Zenon
<1>7. v[2] = 1
  BY <1>2, <1>5, <1>6
<1>8. SubSeq(v, 5, 8) = ip
  <2>1. 4 \in Nat /\ 4 + 4 <= Len(v) /\ 4 + 4 = 8 /\ 4 + 1 = 5
    BY <1>6
  <2>2. PICK c : c = Slice(v, 4, 4 + 4)
    OBVIOUS
  <2>3. Cut(c, v, 4, 4)
    BY <1>6, <2>1, <2>2, Sliced
  <2>4. c \in Bytes /\ Len(c) = 4 /\ \A k \in 1..4 : c[k] = ip[k]
    BY <1>6, <2>3 DEF Cut
  <2>5. c = ip
    BY <2>4, BytesEqual
  <2>6. c = SubSeq(v, 5, 8)
    BY <1>6, <2>1, <2>2 DEF Slice
  <2> QED BY <2>5, <2>6
<1>9. SubSeq(v, 3, 4) = u
  <2>1. 2 \in Nat /\ 2 + 2 <= Len(v) /\ 2 + 2 = 4 /\ 2 + 1 = 3
    BY <1>6
  <2>2. PICK c : c = Slice(v, 2, 2 + 2)
    OBVIOUS
  <2>3. Cut(c, v, 2, 2)
    BY <1>6, <2>1, <2>2, Sliced
  <2>4. c \in Bytes /\ Len(c) = 2 /\ \A k \in 1..2 : c[k] = v[2 + k]
    BY <2>3 DEF Cut
  <2>5. \A k \in 1..2 : v[2 + k] = x[2 + k]
    BY <1>6
  <2>6. c = u
    <3>1. Len(c) = Len(u) /\ \A k \in 1..Len(c) : c[k] = u[k]
      BY ONLY <1>3, <1>5, <2>4, <2>5
    <3> QED BY <2>4, <3>1, BytesEqual
  <2>7. c = SubSeq(v, 3, 4)
    BY <1>6, <2>1, <2>2 DEF Slice
  <2> QED BY <2>6, <2>7
<1> QED BY <1>3, <1>6, <1>7, <1>8, <1>9

LEMMA AttrIs ==
    ASSUME NEW type \in Word, NEW addr, addr.ip \in Bytes, Len(addr.ip) = 4,
           addr.port \in Nat
    PROVE  /\ AttrOf(type, addr) \in Attribute /\ AttrOf(type, addr)[1] = type
           /\ Sound(AttrOf(type, addr))
           /\ AddressAttr(type, addr) = Chunk(AttrOf(type, addr))
           /\ type # XorMappedAddress /\ addr.port \in Word =>
                \A tid : AddressIn(AttrOf(type, addr), tid)
                           = [ip |-> addr.ip, port |-> addr.port]
<1>1. PICK ip \in Bytes : ip = addr.ip /\ Len(ip) = 4
  OBVIOUS
<1>2. PICK port \in Nat : port = addr.port
  OBVIOUS
<1>3. PICK v : v = <<0, 1>> \o Uint16(port) \o ip
  OBVIOUS
<1>4. /\ v \in Bytes /\ Len(v) = 8 /\ v[2] = 1
      /\ SubSeq(v, 5, 8) = ip /\ SubSeq(v, 3, 4) = Uint16(port)
  BY <1>1, <1>3, ValueIs
<1>5. Family(addr) = 1 /\ 4 + Len(addr.ip) = 8
  BY DEF Family
<1>6. AttrOf(type, addr) = <<type, 8, v>>
  BY <1>1, <1>2, <1>3, <1>5, Zenon DEF AttrOf
<1>7. PICK attr : attr = <<type, 8, v>>
  OBVIOUS
<1>8. attr[1] = type /\ attr[2] = 8 /\ attr[3] = v
  BY <1>7
<1>9. attr \in Attribute
  <2>1. 8 \in Word
    BY DEF Word
  <2> QED BY <1>4, <1>7, <2>1 DEF Attribute
<1>10. Sound(attr)
  <2>1. Rounds(8, 8)
    BY DEF Rounds
  <2>2. attr[2] < 65533
    BY <1>8
  <2>3. Rounds(attr[2], Len(attr[3]))
    BY <1>4, <1>8, <2>1
  <2> QED BY <2>2, <2>3 DEF Sound
<1>11. AddressAttr(type, addr) = Chunk(attr)
  BY <1>1, <1>2, <1>3, <1>5, <1>8, Zenon DEF AddressAttr, Chunk
<1>12. ASSUME type # XorMappedAddress, port \in Word, NEW tid
       PROVE  AddressIn(attr, tid) = [ip |-> ip, port |-> port]
  <2>1. BigEndian(Uint16(port)) = port
    BY <1>12, Uint16Is, Wrapped DEF Word
  <2>2. ~(attr[2] < 8 \/ v[2] \notin {1, 2} \/ attr[2] < 4 + 4) /\ 4 + 4 = 8
    BY <1>4, <1>8
  <2>3. AddressIn(attr, tid) = [ip |-> SubSeq(v, 5, 4 + 4),
                                port |-> BigEndian(SubSeq(v, 3, 4))]
    <3>1. attr[1] # XorMappedAddress /\ attr[3] = v /\ v[2] = 1
      BY <1>4, <1>8, <1>12
    <3> QED BY <2>2, <3>1 DEF AddressIn
  <2> QED BY <1>4, <2>1, <2>2, <2>3
<1> QED BY <1>1, <1>2, <1>6, <1>7, <1>8, <1>9, <1>10, <1>11, <1>12

Adds(e, i, x) == e[i] = e[i - 1] \o x

LEMMA JoinAdds ==
    ASSUME NEW list, NEW e, Joins(list, e), Len(list) \in Nat, NEW i \in 1..Len(list)
    PROVE  e[0] = <<>> /\ Adds(e, i, Chunk(list[i]))
BY JoinAt DEF Adds

LEMMA EncodedThree ==
    ASSUME NEW a \in Attribute, NEW b \in Attribute, NEW c \in Attribute
    PROVE  Encoded(<<a, b, c>>) = Chunk(a) \o Chunk(b) \o Chunk(c)
<1>1. PICK list : list = <<a, b, c>>
  OBVIOUS
<1>2. Len(list) = 3 /\ list[1] = a /\ list[2] = b /\ list[3] = c
  BY <1>1
<1>3. PICK e : Joins(list, e) /\ Encoded(list) = e[3]
  <2>1. Len(list) \in Nat
    BY <1>2
  <2> QED BY <1>2, <2>1, EncodedIs
<1>4. \A i \in 1..3 : e[0] = <<>> /\ Adds(e, i, Chunk(list[i]))
  <2> SUFFICES ASSUME NEW i \in 1..3 PROVE e[0] = <<>> /\ Adds(e, i, Chunk(list[i]))
    OBVIOUS
  <2>1. Len(list) \in Nat /\ i \in 1..Len(list)
    BY <1>2
  <2> QED BY <1>3, <2>1, JoinAdds, Zenon
<1>5. e[1] = <<>> \o Chunk(a) /\ e[2] = e[1] \o Chunk(b) /\ e[3] = e[2] \o Chunk(c)
  <2>1. e[0] = <<>> /\ 1 \in 1..3 /\ 2 \in 1..3 /\ 3 \in 1..3
    BY <1>4
  <2>2. /\ Adds(e, 1, Chunk(a))
        /\ Adds(e, 2, Chunk(b))
        /\ Adds(e, 3, Chunk(c))
    BY <1>2, <1>4, <2>1, Zenon
  <2>3. 1 - 1 = 0 /\ 2 - 1 = 1 /\ 3 - 1 = 2
    OBVIOUS
  <2> QED BY <2>1, <2>2, <2>3, Zenon DEF Adds
<1>6. <<>> \o Chunk(a) = Chunk(a)
  BY ChunkIs, ConcatEmptySeq DEF Bytes
<1> QED BY <1>1, <1>3, <1>5, <1>6

IsFour(a, b, c, d) ==
    Encoded(<<a, b, c, d>>) = Chunk(a) \o Chunk(b) \o Chunk(c) \o Chunk(d)

LEMMA EncodedFour ==
    ASSUME NEW a \in Attribute, NEW b \in Attribute, NEW c \in Attribute,
           NEW d \in Attribute
    PROVE  IsFour(a, b, c, d)
<1>1. PICK list : list = <<a, b, c, d>>
  OBVIOUS
<1>2. Len(list) = 4 /\ list[1] = a /\ list[2] = b /\ list[3] = c /\ list[4] = d
  BY <1>1
<1>3. PICK e : Joins(list, e) /\ Encoded(list) = e[4]
  <2>1. Len(list) \in Nat
    BY <1>2
  <2> QED BY <1>2, <2>1, EncodedIs
<1>4. \A i \in 1..4 : e[0] = <<>> /\ Adds(e, i, Chunk(list[i]))
  <2> SUFFICES ASSUME NEW i \in 1..4 PROVE e[0] = <<>> /\ Adds(e, i, Chunk(list[i]))
    OBVIOUS
  <2>1. Len(list) \in Nat /\ i \in 1..Len(list)
    BY <1>2
  <2> QED BY <1>3, <2>1, JoinAdds, Zenon
<1>5. /\ e[1] = <<>> \o Chunk(a) /\ e[2] = e[1] \o Chunk(b)
      /\ e[3] = e[2] \o Chunk(c) /\ e[4] = e[3] \o Chunk(d)
  <2>1. e[0] = <<>> /\ 1 \in 1..4 /\ 2 \in 1..4 /\ 3 \in 1..4 /\ 4 \in 1..4
    BY <1>4
  <2>2. /\ Adds(e, 1, Chunk(a))
        /\ Adds(e, 2, Chunk(b))
        /\ Adds(e, 3, Chunk(c))
        /\ Adds(e, 4, Chunk(d))
    BY <1>2, <1>4, <2>1, Zenon
  <2>3. 1 - 1 = 0 /\ 2 - 1 = 1 /\ 3 - 1 = 2 /\ 4 - 1 = 3
    OBVIOUS
  <2> QED BY <2>1, <2>2, <2>3, Zenon DEF Adds
<1>6. <<>> \o Chunk(a) = Chunk(a)
  BY ChunkIs, ConcatEmptySeq DEF Bytes
<1> QED BY <1>1, <1>3, <1>5, <1>6 DEF IsFour

-----------------------------------------------------------------------------
Obscured(addr, tid) ==
    [port |-> BigEndian(Xored(Uint16(addr.port), MagicCookie)),
     ip |-> Xored(addr.ip, MagicCookie \o tid)]

Checksum == <<Fingerprint, 4, <<0, 0, 0, 0>>>>

(* The attributes of an own server's answer. *)
OwnList(public, tid, other) ==
    IF other.ip = <<>>
    THEN <<AttrOf(MappedAddress, public), AttrOf(XorMappedAddress, Obscured(public, tid)),
           Checksum>>
    ELSE <<AttrOf(MappedAddress, public), AttrOf(XorMappedAddress, Obscured(public, tid)),
           AttrOf(ChangedAddress, other), Checksum>>

LEMMA TypesDiffer ==
    /\ MappedAddress \in Word /\ XorMappedAddress \in Word /\ ChangedAddress \in Word
    /\ Fingerprint \in Word
    /\ MappedAddress # XorMappedAddress /\ MappedAddress # ChangedAddress
    /\ MappedAddress # Fingerprint /\ XorMappedAddress # ChangedAddress
    /\ XorMappedAddress # Fingerprint /\ ChangedAddress # Fingerprint
BY DEF MappedAddress, XorMappedAddress, ChangedAddress, Fingerprint, Word

LEMMA ChecksumIs ==
    /\ Checksum \in Attribute /\ Checksum[1] = Fingerprint /\ Sound(Checksum)
    /\ BuildFingerprint = Chunk(Checksum)
<1>1. PICK z : z = <<0, 0, 0, 0>>
  OBVIOUS
<1>2. z \in Bytes /\ Len(z) = 4
  <2>1. <<0, 0, 0, 0>> \in Seq(0..255) /\ Len(<<0, 0, 0, 0>>) = 4
    OBVIOUS
  <2> QED BY <1>1, <2>1 DEF Bytes
<1>3. PICK f : f = Fingerprint
  OBVIOUS
<1>4. PICK p : p = <<f, 4, z>>
  OBVIOUS
<1>5. p = Checksum
  BY <1>1, <1>3, <1>4, Zenon DEF Checksum
<1>6. p[1] = f /\ p[2] = 4 /\ p[3] = z
  BY <1>4
<1>7. f \in Word /\ 4 \in Word
  BY <1>3, TypesDiffer DEF Word
<1>8. p \in Attribute
  BY <1>2, <1>4, <1>7 DEF Attribute
<1>9. Sound(p)
  <2>1. Rounds(4, 4)
    BY DEF Rounds
  <2>2. p[2] < 65533
    BY <1>6
  <2>3. Rounds(p[2], Len(p[3]))
    BY <1>2, <1>6, <2>1
  <2> QED BY <2>2, <2>3 DEF Sound
<1>10. BuildFingerprint = Chunk(p)
  BY <1>1, <1>3, <1>6, Zenon DEF BuildFingerprint, Chunk
<1> QED BY <1>3, <1>5, <1>6, <1>8, <1>9, <1>10

Peer(addr) == addr.ip \in Bytes /\ Len(addr.ip) = 4 /\ addr.port \in Nat

LEMMA ObscuredIs ==
    ASSUME NEW addr, Peer(addr), NEW tid PROVE Peer(Obscured(addr, tid))
<1>1. Xored(addr.ip, MagicCookie \o tid) \in Bytes
      /\ Len(Xored(addr.ip, MagicCookie \o tid)) = 4
  BY XoredTyped DEF Peer
<1>2. PICK u \in Bytes : u = Uint16(addr.port) /\ Len(u) = 2
  BY Uint16Is DEF Peer
<1>3. PICK x \in Bytes : x = Xored(u, MagicCookie) /\ Len(x) = 2
  BY <1>2, XoredTyped
<1>4. BigEndian(x) \in Nat
  BY <1>3, BigEndianTyped DEF Word
<1> QED BY <1>1, <1>2, <1>3, <1>4 DEF Peer, Obscured

LEMMA PeerAttr ==
    ASSUME NEW type \in Word, NEW addr, Peer(addr)
    PROVE  /\ AttrOf(type, addr) \in Attribute /\ AttrOf(type, addr)[1] = type
           /\ Sound(AttrOf(type, addr))
           /\ AddressAttr(type, addr) = Chunk(AttrOf(type, addr))
BY AttrIs DEF Peer

LEMMA BuildIs ==
    ASSUME NEW public, Peer(public), NEW tid, NEW other,
           other.ip # <<>> => Peer(other),
           NEW list, list = OwnList(public, tid, other)
    PROVE  /\ list \in List /\ WellFormed(list)
           /\ BuildBindingResponse(public, tid, other) = Encoded(list)
<1>1. PICK a \in Attribute : a = AttrOf(MappedAddress, public) /\ Sound(a)
                             /\ BuildMappedAddress(public) = Chunk(a)
  BY TypesDiffer, PeerAttr DEF BuildMappedAddress
<1>2. PICK b \in Attribute : b = AttrOf(XorMappedAddress, Obscured(public, tid))
                             /\ Sound(b) /\ BuildXorMappedAddress(public, tid) = Chunk(b)
  <2>1. BuildXorMappedAddress(public, tid)
          = AddressAttr(XorMappedAddress, Obscured(public, tid))
    BY Zenon DEF BuildXorMappedAddress, Obscured
  <2> QED BY <2>1, TypesDiffer, PeerAttr, ObscuredIs
<1>3. PICK d \in Attribute : d = Checksum /\ Sound(d) /\ BuildFingerprint = Chunk(d)
  BY ChecksumIs
<1>4. Chunk(a) \in Bytes /\ Chunk(b) \in Bytes /\ Chunk(a) \o Chunk(b) \in Bytes
  BY ChunkIs, CatIs
<1>5. CASE other.ip = <<>>
  <2>1. list = <<a, b, d>>
    BY <1>1, <1>2, <1>3, <1>5, Zenon DEF OwnList
  <2>2. list \in List /\ Len(list) = 3 /\ list[1] = a /\ list[2] = b /\ list[3] = d
    BY <2>1 DEF List
  <2>3. WellFormed(list)
    BY <1>1, <1>2, <1>3, <2>2 DEF WellFormed
  <2>4. BuildChangedAddress(other) = <<>>
    BY <1>5 DEF BuildChangedAddress
  <2>5. (Chunk(a) \o Chunk(b)) \o <<>> = Chunk(a) \o Chunk(b)
    BY <1>4, ConcatEmptySeq DEF Bytes
  <2>6. BuildBindingResponse(public, tid, other) = Chunk(a) \o Chunk(b) \o Chunk(d)
    BY <1>1, <1>2, <1>3, <2>4, <2>5, Zenon DEF BuildBindingResponse
  <2>7. Encoded(<<a, b, d>>) = Chunk(a) \o Chunk(b) \o Chunk(d)
    BY EncodedThree
  <2>8. BuildBindingResponse(public, tid, other) = Encoded(list)
    BY <2>1, <2>6, <2>7, Zenon
  <2> QED BY <2>2, <2>3, <2>8
<1>6. CASE other.ip # <<>>
  <2>0. PICK c \in Attribute : c = AttrOf(ChangedAddress, other) /\ Sound(c)
                               /\ BuildChangedAddress(other) = Chunk(c)
    BY <1>6, TypesDiffer, PeerAttr DEF BuildChangedAddress
  <2>1. list = <<a, b, c, d>>
    BY <1>1, <1>2, <1>3, <1>6, <2>0, Zenon DEF OwnList
  <2>2. /\ list \in List /\ Len(list) = 4 /\ list[1] = a /\ list[2] = b
        /\ list[3] = c /\ list[4] = d
    BY <2>1 DEF List
  <2>3. WellFormed(list)
    BY <1>1, <1>2, <1>3, <2>0, <2>2 DEF WellFormed
  <2>4. BuildBindingResponse(public, tid, other)
          = Chunk(a) \o Chunk(b) \o Chunk(c) \o Chunk(d)
    BY <1>1, <1>2, <1>3, <2>0, Zenon DEF BuildBindingResponse
  <2>5. Encoded(<<a, b, c, d>>) = Chunk(a) \o Chunk(b) \o Chunk(c) \o Chunk(d)
    <3>1. IsFour(a, b, c, d)
      BY EncodedFour
    <3> QED BY <3>1, Zenon DEF IsFour
  <2>6. BuildBindingResponse(public, tid, other) = Encoded(list)
    BY <2>1, <2>4, <2>5, Zenon
  <2> QED BY <2>2, <2>3, <2>6
<1> QED BY <1>5, <1>6

LEMMA BuildTyped ==
    ASSUME NEW public, Peer(public), NEW tid, NEW other,
           other.ip # <<>> => Peer(other)
    PROVE  BuildBindingResponse(public, tid, other) \in Bytes
<1>1. PICK list : list = OwnList(public, tid, other)
  OBVIOUS
<1>2. list \in List /\ BuildBindingResponse(public, tid, other) = Encoded(list)
  BY <1>1, BuildIs
<1> QED BY <1>2, EncodedTyped

(* The client reads in an own server's answer what the server put there.   *)
LEMMA OwnFinds ==
    ASSUME NEW public, Peer(public), public.port \in Word, NEW tid, NEW other,
           other.ip # <<>> => Peer(other) /\ other.port \in Word
    PROVE  /\ FindAddress(BuildBindingResponse(public, tid, other), MappedAddress, tid)
                = [ip |-> public.ip, port |-> public.port]
           /\ FindAddress(BuildBindingResponse(public, tid, other), ChangedAddress, tid)
                = IF other.ip = <<>> THEN Failed
                  ELSE [ip |-> other.ip, port |-> other.port]
<1>1. PICK list : list = OwnList(public, tid, other)
  OBVIOUS
<1>2. PICK p : p = BuildBindingResponse(public, tid, other)
  OBVIOUS
<1>3. list \in List /\ WellFormed(list) /\ p = Encoded(list)
  BY <1>1, <1>2, BuildIs
<1>4. PICK a : a = AttrOf(MappedAddress, public)
  OBVIOUS
<1>5. /\ a[1] = MappedAddress
      /\ AddressIn(a, tid) = [ip |-> public.ip, port |-> public.port]
  <2>1. public.ip \in Bytes /\ Len(public.ip) = 4 /\ public.port \in Nat
    BY DEF Peer
  <2> QED BY <1>4, <2>1, TypesDiffer, AttrIs
<1>6. PICK b : b = AttrOf(XorMappedAddress, Obscured(public, tid))
               /\ b[1] = XorMappedAddress
  BY TypesDiffer, PeerAttr, ObscuredIs
<1>7. PICK d : d = Checksum /\ d[1] = Fingerprint
  BY ChecksumIs
<1>8. FindAddress(p, MappedAddress, tid) = [ip |-> public.ip, port |-> public.port]
  <2>1. list[1] = a /\ 1 \in 1..Len(list)
    <3>1. CASE other.ip = <<>>
      <4>1. list = <<a, b, d>>
        BY <1>1, <1>4, <1>6, <1>7, <3>1, Zenon DEF OwnList
      <4> QED BY <4>1
    <3>2. CASE other.ip # <<>>
      <4>1. PICK c : c = AttrOf(ChangedAddress, other)
        OBVIOUS
      <4>2. list = <<a, b, c, d>>
        BY <1>1, <1>4, <1>6, <1>7, <3>2, <4>1, Zenon DEF OwnList
      <4> QED BY <4>2
    <3> QED BY <3>1, <3>2
  <2>2. PICK n : n = 1 - 1
    OBVIOUS
  <2>3. Without(list, n, list[1][1])
    BY <2>2 DEF Without
  <2>4. FindAddress(Encoded(list), list[1][1], tid) = AddressIn(list[1], tid)
    BY <1>3, <2>1, <2>2, <2>3, FindFirst
  <2> QED BY <1>3, <1>5, <2>1, <2>4
<1>9. ASSUME other.ip = <<>> PROVE FindAddress(p, ChangedAddress, tid) = Failed
  <2>1. list = <<a, b, d>>
    BY <1>1, <1>4, <1>6, <1>7, <1>9, Zenon DEF OwnList
  <2>2. Len(list) = 3 /\ list[1] = a /\ list[2] = b /\ list[3] = d
    BY <2>1
  <2>3. /\ list[1][1] # ChangedAddress /\ list[2][1] # ChangedAddress
        /\ list[3][1] # ChangedAddress
    BY <1>5, <1>6, <1>7, <2>2, TypesDiffer
  <2>4. \A j \in 1..Len(list) : list[j][1] # ChangedAddress
    BY <2>2, <2>3
  <2> QED BY <1>3, <2>4, FindNone
<1>10. ASSUME other.ip # <<>>
       PROVE  FindAddress(p, ChangedAddress, tid)
                = [ip |-> other.ip, port |-> other.port]
  <2>1. PICK c : c = AttrOf(ChangedAddress, other)
    OBVIOUS
  <2>2. /\ c[1] = ChangedAddress
        /\ AddressIn(c, tid) = [ip |-> other.ip, port |-> other.port]
    <3>1. other.ip \in Bytes /\ Len(other.ip) = 4 /\ other.port \in Nat
      BY <1>10 DEF Peer
    <3> QED BY <1>10, <2>1, <3>1, TypesDiffer, AttrIs
  <2>3. list = <<a, b, c, d>>
    BY <1>1, <1>4, <1>6, <1>7, <1>10, <2>1, Zenon DEF OwnList
  <2>4. Len(list) = 4 /\ list[1] = a /\ list[2] = b /\ list[3] = c
    BY <2>3
  <2>5. list[1][1] # list[3][1] /\ list[2][1] # list[3][1] /\ 3 \in 1..Len(list)
    BY <1>5, <1>6, <2>2, <2>4, TypesDiffer
  <2>6. PICK n : n = 3 - 1
    OBVIOUS
  <2>7. Without(list, n, list[3][1])
    BY <2>5, <2>6 DEF Without
  <2>8. FindAddress(Encoded(list), list[3][1], tid) = AddressIn(list[3], tid)
    BY <1>3, <2>5, <2>6, <2>7, FindFirst
  <2> QED BY <1>3, <2>2, <2>4, <2>8
<1> QED BY <1>2, <1>8, <1>9, <1>10

-----------------------------------------------------------------------------
(* The invariant *)

Public == <<203, 0, 113, 9>>

(* One of the two ports of an own server. *)
OwnPort(d) == OwnAt(d.ip) /\ d.port \in {3478, 3479}

(* The client has not yet made a transaction behind this one.              *)
Past(txn) == txn[1] < round \/ (txn[1] = round /\ txn[2] <= entry)

(* What the client reads in an own server's answer. *)
Reports(a) ==
    LET p == ParseResponse(a.attrs, Tid(a.txn))
    IN  p.mapped = Mapping(a.to) /\ (p.changed = Failed \/ OwnPort(p.changed))

(* Where the first and the second request to the address went.             *)
Asked(port) == [ip |-> IpOf(Servers[entry][host]), port |-> port]

Kinds ==
    /\ nat \in {"cone", "symmetric"} /\ pc \in {"send", "wait", "next", "done"}
    /\ round \in 1..(MaxRounds + 1) /\ (pc # "done" => round <= MaxRounds)
    /\ entry \in 1..Len(Servers)
    /\ host \in 1..Len(Servers[entry]) /\ step \in 1..3
    /\ wan \in [ip : Bytes, ports : [1..3 -> Word]]
    /\ changed \in Address /\ mixed \in BOOLEAN /\ dups \in 0..MaxDups

Arrived(a) ==
    /\ a.attrs \in Bytes /\ a.txn \in Nat \X Nat /\ Past(a.txn)
    /\ a.list = <<>> \/ (a.list \in List /\ a.attrs = Encoded(a.list))

Packets ==
    /\ \A r \in reqs : r.to \in Address /\ r.txn = Txn
    /\ \A a \in answers : Arrived(a)

Sightings ==
    /\ verdict \subseteq {nat}
    /\ \A t \in txns : /\ OwnAt(t.key.ip) /\ t.port \in Word
                       /\ t.addr = Mapping([ip |-> t.key.ip, port |-> t.port])

WanFilled ==
    /\ pc \in {"send", "wait"} =>
         /\ step = 1 => wan = NoWan
         /\ step # 1 => wan.ip # <<>> /\ wan.ports[1] # 0
         /\ step = 3 => wan.ports[2] # 0
    /\ pc \in {"next", "done"} =>
         wan = NoWan \/ (wan.ip # <<>> /\ \A i \in 1..3 : wan.ports[i] # 0)
    /\ pc = "wait" => to = Dest

OwnTraffic ==
    /\ \A r \in reqs : OwnPort(r.to)
    /\ \A a \in answers : a.txn = Txn => OwnPort(a.to) /\ Reports(a)
    /\ pc \in {"send", "wait"} /\ step # 1 => OwnPort(changed)

OwnResult ==
    /\ pc \in {"send", "wait"} /\ step # 1 =>
         wan.ip = Public /\ (mixed \/ wan.ports[1] = Mapping(Asked(3478)).port)
    /\ pc \in {"send", "wait"} /\ step = 3 =>
         mixed \/ wan.ports[2] = Mapping(Asked(3479)).port
    /\ pc \in {"next", "done"} /\ wan # NoWan =>
         /\ wan.ip = Public
         /\ mixed \/ ((wan.ports[1] # wan.ports[2]) <=> (nat = "symmetric"))

SInv == Kinds /\ Packets /\ Sightings /\ WanFilled /\ (EntryOwn => OwnTraffic /\ OwnResult)

LEMMA HostTyped ==
    ASSUME Kinds PROVE Servers[entry][host] \in 0..255
<1>1. Servers \in Seq(Seq(0..255)) /\ entry \in 1..Len(Servers)
  BY StunAssumption DEF Kinds
<1>2. Servers[entry] \in Seq(0..255)
  BY <1>1, ElementOfSeq
<1>3. host \in 1..Len(Servers[entry])
  BY DEF Kinds
<1> QED BY <1>2, <1>3, ElementOfSeq

LEMMA IpTyped ==
    ASSUME NEW h \in 0..255
    PROVE  IpOf(h) \in Bytes /\ Len(IpOf(h)) = 4 /\ IpOf(h)[4] = h
<1>1. <<198, 51, 100, h>> \in Seq(0..255) /\ Len(<<198, 51, 100, h>>) = 4
      /\ <<198, 51, 100, h>>[4] = h
  OBVIOUS
<1> QED BY <1>1, Zenon DEF IpOf, Bytes

LEMMA OwnTyped ==
    ASSUME NEW ip, OwnAt(ip)
    PROVE  ip \in Bytes /\ Len(ip) = 4 /\ ip[4] \in 0..255
<1>1. PICK h \in Own : ip = IpOf(h)
  BY DEF OwnAt
<1>2. h \in 0..255
  BY StunAssumption
<1> QED BY <1>1, <1>2, IpTyped

LEMMA DestTyped == ASSUME Kinds PROVE Dest \in Address
<1>1. CASE step = 3
  BY <1>1 DEF Kinds, Dest
<1>2. CASE step # 3
  <2>1. PICK h \in 0..255 : h = Servers[entry][host]
    BY HostTyped
  <2>2. 3477 + step \in Word
    BY DEF Kinds, Word
  <2>3. [ip |-> IpOf(h), port |-> 3477 + step] \in Address
    BY <2>2, IpTyped, AddressIs
  <2> QED BY <1>2, <2>1, <2>3 DEF Dest
<1> QED BY <1>1, <1>2

LEMMA ResponseTyped ==
    ASSUME NEW attrs \in Bytes, NEW tid
    PROVE  /\ ParseResponse(attrs, tid).mapped \in Address
           /\ ParseResponse(attrs, tid).changed \in Address
           /\ ParseResponse(attrs, tid).ok =>
                /\ ParseResponse(attrs, tid).mapped # Failed
                /\ ParseResponse(attrs, tid).changed # Failed
<1>1. \A type : FindAddress(attrs, type, tid) \in Address
  BY FindTyped
<1> QED BY <1>1 DEF ParseResponse

LEMMA AddressTyped ==
    ASSUME NEW x \in Address
    PROVE  /\ x.ip \in Bytes /\ x.port \in Word
           /\ x # Failed => x.ip # <<>>
<1>1. x \in [ip : Bytes, port : Word] /\ (x = Failed \/ Len(x.ip) \in {4, 16})
  BY DEF Address
<1>2. x.ip \in Bytes /\ x.port \in Word
  BY <1>1
<1>3. ASSUME x # Failed, x.ip = <<>> PROVE FALSE
  <2>1. Len(x.ip) \in {4, 16}
    BY <1>1, <1>3
  <2>2. Len(x.ip) = 0
    BY <1>3
  <2> QED BY <2>1, <2>2
<1> QED BY <1>2, <1>3

-----------------------------------------------------------------------------
(* The NAT *)

LEMMA MappingIs ==
    ASSUME NEW d, OwnAt(d.ip), d.port \in Word
    PROVE  /\ Mapping(d).ip = Public /\ Peer(Mapping(d))
           /\ Mapping(d) = [ip |-> Mapping(d).ip, port |-> Mapping(d).port]
<1>1. PICK h \in 0..255 : h = d.ip[4]
  BY OwnTyped
<1>2. PICK p \in Nat : p = d.port
  BY DEF Word
<1>3. 40000 + 8 * h + p - 3478 \in Nat
  OBVIOUS
<1>4. Mapping(d).port \in Nat /\ Mapping(d).ip = Public
  BY <1>1, <1>2, <1>3 DEF Mapping, Public
<1>5. Public \in Bytes /\ Len(Public) = 4
  <2>1. <<203, 0, 113, 9>> \in Seq(0..255) /\ Len(<<203, 0, 113, 9>>) = 4
    OBVIOUS
  <2> QED BY <2>1 DEF Public, Bytes
<1>6. Mapping(d) = [ip |-> Mapping(d).ip, port |-> Mapping(d).port]
  BY DEF Mapping
<1> QED BY <1>4, <1>5, <1>6 DEF Peer

LEMMA MappingPort ==
    ASSUME NEW d, OwnPort(d)
    PROVE  d.port \in Word /\ Mapping(d).port \in Word /\ Mapping(d).port # 0
<1>1. PICK h \in 0..255 : h = d.ip[4]
  BY OwnTyped DEF OwnPort
<1>2. PICK p \in {3478, 3479} : p = d.port
  BY DEF OwnPort
<1>3. PICK m : m = 40000 + 8 * h + p - 3478
  OBVIOUS
<1>4. m \in Nat /\ m < 65536 /\ m # 0
  BY <1>3
<1>5. 40000 \in Nat /\ 40000 < 65536 /\ 40000 # 0
  OBVIOUS
<1>6. Mapping(d).port = IF nat = "cone" THEN 40000 ELSE m
  BY <1>1, <1>2, <1>3 DEF Mapping
<1> QED BY <1>2, <1>4, <1>5, <1>6 DEF Word

(* The NAT is symmetric if and only if two ports of a host see two of its. *)
LEMMA MappingDiffers ==
    ASSUME NEW ip, OwnAt(ip), NEW p \in Word, NEW q \in Word, p # q
    PROVE  (Mapping([ip |-> ip, port |-> p]).port = Mapping([ip |-> ip, port |-> q]).port)
             <=> nat = "cone"
<1>1. PICK h \in 0..255 : h = ip[4]
  BY OwnTyped
<1>2. p \in Nat /\ q \in Nat
  BY DEF Word
<1>3. 40000 + 8 * h + p - 3478 # 40000 + 8 * h + q - 3478
  BY <1>2
<1> QED BY <1>1, <1>3 DEF Mapping

-----------------------------------------------------------------------------
(* The address that the server at d announces as its other one.            *)
Announced(d) ==
    [ip |-> IF \E h \in Unnamed : d.ip = IpOf(h) THEN <<>> ELSE d.ip,
     port |-> IF d.port = 3478 THEN 3479 ELSE 3478]

LEMMA AnnouncedIs ==
    ASSUME NEW d, OwnAt(d.ip)
    PROVE  /\ Announced(d).ip # <<>> =>
                /\ Peer(Announced(d)) /\ Announced(d).port \in Word
                /\ OwnPort(Announced(d))
<1>1. PICK o : o = Announced(d)
  OBVIOUS
<1>2. o.port \in {3478, 3479} /\ (o.ip # <<>> => o.ip = d.ip)
  BY <1>1 DEF Announced
<1>3. 3478 \in Word /\ 3479 \in Word /\ 3478 \in Nat /\ 3479 \in Nat
  BY DEF Word
<1>4. ASSUME o.ip # <<>> PROVE Peer(o) /\ o.port \in Word /\ OwnPort(o)
  BY <1>2, <1>3, <1>4, OwnTyped DEF Peer, OwnPort
<1> QED BY <1>1, <1>4

LEMMA AnswerTyped ==
    ASSUME NEW d, OwnAt(d.ip), d.port \in Word, NEW tid
    PROVE  BuildBindingResponse(Mapping(d), tid, Announced(d)) \in Bytes
<1>1. PICK m : m = Mapping(d)
  OBVIOUS
<1>2. PICK o : o = Announced(d)
  OBVIOUS
<1>3. Peer(m) /\ (o.ip # <<>> => Peer(o))
  BY <1>1, <1>2, MappingIs, AnnouncedIs
<1>4. BuildBindingResponse(m, tid, o) \in Bytes
  BY <1>3, BuildTyped
<1> QED BY <1>1, <1>2, <1>4

LEMMA AnswerReports ==
    ASSUME NEW a, OwnPort(a.to),
           a.attrs = BuildBindingResponse(Mapping(a.to), Tid(a.txn), Announced(a.to))
    PROVE  Reports(a)
<1>1. PICK m : m = Mapping(a.to)
  OBVIOUS
<1>2. PICK o : o = Announced(a.to)
  OBVIOUS
<1>3. PICK tid : tid = Tid(a.txn)
  OBVIOUS
<1>4. PICK attrs : attrs = a.attrs
  OBVIOUS
<1>5. OwnAt(a.to.ip) /\ a.to.port \in Word /\ m.port \in Word
  BY <1>1, MappingPort DEF OwnPort
<1>6. /\ Peer(m) /\ m.ip = Public /\ m = [ip |-> m.ip, port |-> m.port]
      /\ (o.ip # <<>> => Peer(o) /\ o.port \in Word /\ OwnPort(o))
  BY <1>1, <1>2, <1>5, MappingIs, AnnouncedIs
<1>7. /\ FindAddress(attrs, MappedAddress, tid) = [ip |-> m.ip, port |-> m.port]
      /\ FindAddress(attrs, ChangedAddress, tid)
           = IF o.ip = <<>> THEN Failed ELSE [ip |-> o.ip, port |-> o.port]
  <2>1. attrs = BuildBindingResponse(m, tid, o)
    BY <1>1, <1>2, <1>3, <1>4
  <2> QED BY <1>5, <1>6, <2>1, OwnFinds
<1>8. m # Failed
  <2> SUFFICES ASSUME m = Failed PROVE FALSE
    OBVIOUS
  <2>1. Len(m.ip) = 4
    BY <1>6, Zenon DEF Peer
  <2>2. m.ip = <<>>
    BY DEF Failed
  <2>3. Len(m.ip) = 0
    BY ONLY <2>2
  <2> QED BY ONLY <2>1, <2>3
<1>9. PICK p : p = ParseResponse(attrs, tid)
  OBVIOUS
<1>10. p.mapped = m
  BY <1>6, <1>7, <1>8, <1>9 DEF ParseResponse
<1>11. p.changed = Failed \/ OwnPort(p.changed)
  <2>1. p.changed = FindAddress(attrs, ChangedAddress, tid)
    BY <1>9 DEF ParseResponse
  <2>2. o.ip # <<>> => OwnPort([ip |-> o.ip, port |-> o.port])
    BY <1>6 DEF OwnPort
  <2> QED BY <1>7, <2>1, <2>2
<1> QED BY <1>1, <1>3, <1>4, <1>9, <1>10, <1>11 DEF Reports

-----------------------------------------------------------------------------
(* The steps, one conjunct at a time *)

Wan == [ip : Bytes, ports : [1..3 -> Word]]

LEMMA NoWanTyped == NoWan \in Wan
<1>1. <<>> \in Bytes /\ 0 \in Word
  BY DEF Bytes, Word
<1>2. <<0, 0, 0>> \in [1..3 -> Word]
  BY <1>1
<1> QED BY <1>1, <1>2 DEF NoWan, Wan

LEMMA HostsTyped ==
    ASSUME NEW i \in 1..Len(Servers)
    PROVE  Len(Servers[i]) \in Nat /\ 1 \in 1..Len(Servers[i])
<1>1. Servers[i] \in Seq(0..255) /\ Len(Servers[i]) > 0
  BY StunAssumption, ElementOfSeq
<1>2. Len(Servers[i]) \in Nat
  BY <1>1, LenProperties
<1> QED BY <1>1, <1>2

(* The client gives up on the address. *)
LEMMA NextHostIs ==
    ASSUME Kinds, NextHost
    PROVE  /\ pc' \in {"send", "next"} /\ host' \in 1..Len(Servers[entry])
           /\ step' = 1 /\ wan' = NoWan /\ changed' = changed /\ mixed' = FALSE
<1>1. Len(Servers[entry]) \in Nat /\ host \in 1..Len(Servers[entry])
  BY HostsTyped DEF Kinds
<1> QED BY <1>1 DEF NextHost

(* The client takes an answer for its request's. *)
Takes(a) ==
    LET p == ParseResponse(a.attrs, Tid(Txn))
    IN  /\ a.txn = Txn /\ Usable(p)
        /\ wan' = [ip |-> IF step = 1 THEN p.mapped.ip ELSE wan.ip,
                   ports |-> [wan.ports EXCEPT ![step] = p.mapped.port]]
        /\ changed' = IF step = 1 THEN p.changed ELSE changed
        /\ pc' = IF step = 3 THEN "next" ELSE "send"
        /\ step' = IF step = 3 THEN 3 ELSE step + 1
        /\ mixed' = (mixed \/ a.to # to)
        /\ UNCHANGED host

LEMMA ReadsIs ==
    ASSUME NEW a, Reads(a), Kinds
    PROVE  /\ pc = "wait" /\ UNCHANGED <<nat, round, entry, to, reqs, txns, verdict>>
           /\ answers' \subseteq answers /\ dups' \in 0..MaxDups
           /\ NextHost \/ Takes(a)
<1>1. /\ pc = "wait" /\ UNCHANGED <<nat, round, entry, to, reqs, txns, verdict>>
      /\ answers' \subseteq answers
  BY DEF Reads
<1>2. dups' \in 0..MaxDups
  BY StunAssumption DEF Reads, Kinds
<1>3. NextHost \/ Takes(a)
  BY Zenon DEF Reads, Takes
<1> QED BY <1>1, <1>2, <1>3

LEMMA KindsStep == SInv /\ [StunNext]_stunVars => Kinds'
<1> SUFFICES ASSUME SInv, [StunNext]_stunVars PROVE Kinds'
  OBVIOUS
<1>1. Kinds
  BY DEF SInv
<1>2. CASE Sends
  BY <1>1, <1>2 DEF Sends, Kinds
<1>3. ASSUME NextHost, pc # "done", UNCHANGED <<nat, round, entry>>,
             dups' \in 0..MaxDups
      PROVE  Kinds'
  <2>1. /\ pc' \in {"send", "next"} /\ host' \in 1..Len(Servers[entry])
        /\ step' = 1 /\ wan' = NoWan /\ changed' = changed /\ mixed' = FALSE
    BY <1>1, <1>3, NextHostIs
  <2>2. wan' \in Wan
    BY <2>1, NoWanTyped
  <2>3. round <= MaxRounds
    BY <1>1, <1>3 DEF Kinds
  <2>4. mixed' \in BOOLEAN
    BY <2>1, Zenon
  <2>5. /\ pc' \in {"send", "next"} /\ host' \in 1..Len(Servers[entry'])
        /\ step' = 1 /\ changed' = changed
    BY <1>3, <2>1, Zenon
  <2> QED BY <1>1, <1>3, <2>2, <2>3, <2>4, <2>5 DEF Kinds, Wan
<1>4. CASE SendFails
  BY <1>1, <1>3, <1>4 DEF SendFails, Kinds
<1>5. CASE LookupFails
  BY <1>1, <1>5 DEF LookupFails, Kinds
<1>6. CASE TimesOut
  BY <1>1, <1>3, <1>6 DEF TimesOut, Kinds
<1>7. CASE NextEntry
  <2>1. Len(Servers) \in Nat /\ Len(Servers) > 0
    BY StunAssumption, LenProperties
  <2>2. entry' \in 1..Len(Servers)
    BY <1>1, <1>7, <2>1 DEF NextEntry, Kinds
  <2>3. 1 \in 1..Len(Servers[entry'])
    BY <2>2, HostsTyped
  <2>4. round' \in 1..(MaxRounds + 1) /\ (pc' # "done" => round' <= MaxRounds)
    BY <1>1, <1>7, StunAssumption DEF NextEntry, Kinds, RoundAfter
  <2>5. wan' \in Wan /\ pc' \in {"send", "done"}
    BY <1>1, <1>7, NoWanTyped DEF NextEntry, Kinds, Wan
  <2> QED BY <1>1, <1>7, <2>2, <2>3, <2>4, <2>5 DEF NextEntry, Kinds, Wan
<1>8. ASSUME NEW a \in answers, Reads(a) PROVE Kinds'
  <2> DEFINE p == ParseResponse(a.attrs, Tid(Txn))
  <2>1. a.attrs \in Bytes
    BY DEF SInv, Packets, Arrived
  <2>2. p.mapped \in Address /\ p.changed \in Address
    BY <2>1, ResponseTyped
  <2>3. p.mapped.ip \in Bytes /\ p.mapped.port \in Word
    BY <2>2, AddressTyped
  <2>4. pc = "wait" /\ dups' \in 0..MaxDups /\ UNCHANGED <<nat, round, entry>>
    BY <1>1, <1>8, ReadsIs
  <2>5. CASE NextHost
    BY <1>3, <2>4, <2>5
  <2>6. CASE Takes(a)
    <3>1. wan' \in Wan
      <4>1. wan.ip \in Bytes /\ wan.ports \in [1..3 -> Word] /\ step \in 1..3
        BY <1>1 DEF Kinds
      <4>2. wan' = [ip |-> IF step = 1 THEN p.mapped.ip ELSE wan.ip,
                    ports |-> [wan.ports EXCEPT ![step] = p.mapped.port]]
        BY <2>6 DEF Takes
      <4> HIDE DEF p
      <4> QED BY <2>3, <4>1, <4>2 DEF Wan
    <3>2. changed' \in Address
      <4>1. changed' = IF step = 1 THEN p.changed ELSE changed
        BY <2>6 DEF Takes
      <4> HIDE DEF p
      <4> QED BY <1>1, <2>2, <4>1 DEF Kinds
    <3>3. /\ pc' \in {"send", "next"} /\ step' \in 1..3 /\ mixed' \in BOOLEAN
          /\ host' = host
      BY <1>1, <2>6 DEF Takes, Kinds
    <3> QED BY <1>1, <2>4, <3>1, <3>2, <3>3 DEF Kinds, Wan
  <2> QED BY <1>1, <1>8, <2>5, <2>6, ReadsIs
<1>9. ASSUME NEW r \in reqs, ServerAnswers(r) \/ OtherAnswers(r) PROVE Kinds'
  BY <1>1, <1>9 DEF ServerAnswers, OtherAnswers, client, Kinds
<1>10. CASE UNCHANGED stunVars
  BY <1>1, <1>10 DEF stunVars, client, Kinds
<1> QED BY <1>2, <1>4, <1>5, <1>6, <1>7, <1>8, <1>9, <1>10 DEF StunNext, Client

-----------------------------------------------------------------------------
LEMMA FixedNat == [StunNext]_stunVars => nat' = nat
BY DEF StunNext, Client, Sends, SendFails, LookupFails, TimesOut, NextEntry, Reads,
       ServerAnswers, OtherAnswers, stunVars

(* Transactions do not come back. *)
LEMMA PastStep ==
    ASSUME Kinds, [StunNext]_stunVars, NEW txn \in Nat \X Nat, Past(txn)
    PROVE  Past(txn)'
<1>1. PICK i \in Nat : i = txn[1]
  OBVIOUS
<1>2. PICK j \in Nat : j = txn[2]
  OBVIOUS
<1>3. i < round \/ (i = round /\ j <= entry)
  BY <1>1, <1>2 DEF Past
<1>4. round \in Nat /\ entry \in Nat
  BY StunAssumption, LenProperties DEF Kinds
<1>5. CASE UNCHANGED <<round, entry>>
  BY <1>1, <1>2, <1>3, <1>5 DEF Past
<1>6. CASE NextEntry
  <2>1. \/ UNCHANGED <<round, entry>>
        \/ entry' = entry + 1 /\ round' = round
        \/ round' = round + 1
    BY <1>6 DEF NextEntry, RoundAfter
  <2>2. i < round' \/ (i = round' /\ j <= entry')
    BY <1>3, <1>4, <2>1
  <2> QED BY <1>1, <1>2, <2>2 DEF Past
<1> QED BY <1>5, <1>6 DEF StunNext, Client, Sends, SendFails, LookupFails, TimesOut,
             Reads, ServerAnswers, OtherAnswers, client, stunVars

LEMMA OtherList == ASSUME NEW list \in Others PROVE list \in List
BY StunAssumption DEF List, Attribute, Bytes

(* What an own server puts on the wire. *)
LEMMA ServerSends ==
    ASSUME NEW r, ServerAnswers(r)
    PROVE  \E a : /\ answers' = answers \cup {a}
                  /\ a.txn = r.txn /\ a.to = r.to /\ a.list = <<>>
                  /\ a.attrs = BuildBindingResponse(Mapping(r.to), Tid(r.txn),
                                                    Announced(r.to))
<1> DEFINE a == [txn |-> r.txn, to |-> r.to, list |-> <<>>,
                 attrs |-> BuildBindingResponse(Mapping(r.to), Tid(r.txn), Announced(r.to))]
<1>1. answers' = answers \cup {a}
  BY Zenon DEF ServerAnswers, Announced
<1>2. /\ a.txn = r.txn /\ a.to = r.to /\ a.list = <<>>
      /\ a.attrs = BuildBindingResponse(Mapping(r.to), Tid(r.txn), Announced(r.to))
  OBVIOUS
<1> HIDE DEF a
<1> QED BY <1>1, <1>2

LEMMA OtherSends ==
    ASSUME NEW r, OtherAnswers(r)
    PROVE  \E a : /\ answers' = answers \cup {a}
                  /\ a.txn = r.txn /\ a.to = r.to
                  /\ a.list \in List /\ a.attrs = Encoded(a.list)
<1>1. PICK list \in Others :
        answers' = answers \cup
          {[txn |-> r.txn, to |-> r.to, list |-> list, attrs |-> Encoded(list)]}
  BY DEF OtherAnswers
<1> DEFINE a == [txn |-> r.txn, to |-> r.to, list |-> list, attrs |-> Encoded(list)]
<1>2. /\ a.txn = r.txn /\ a.to = r.to /\ a.list = list /\ a.attrs = Encoded(list)
      /\ list \in List
  BY OtherList
<1>3. answers' = answers \cup {a}
  BY <1>1
<1> HIDE DEF a
<1> QED BY <1>2, <1>3

LEMMA TxnTyped == ASSUME Kinds PROVE Txn \in Nat \X Nat /\ Past(Txn)
<1>1. round \in Nat /\ entry \in Nat
  BY StunAssumption, LenProperties DEF Kinds
<1> QED BY <1>1 DEF Txn, Past

LEMMA PacketsStep == SInv /\ [StunNext]_stunVars => Packets'
<1> SUFFICES ASSUME SInv, [StunNext]_stunVars PROVE Packets'
  OBVIOUS
<1>1. Kinds /\ Packets
  BY DEF SInv
<1>2. ASSUME NEW a, Arrived(a) PROVE Arrived(a)'
  BY <1>1, <1>2, PastStep DEF Arrived
<1>3. ASSUME answers' \subseteq answers PROVE \A a \in answers' : Arrived(a)'
  BY <1>1, <1>2, <1>3 DEF Packets
<1>4. ASSUME reqs' \subseteq reqs, UNCHANGED <<round, entry>>
      PROVE  \A r \in reqs' : r.to \in Address /\ r.txn = Txn'
  BY <1>1, <1>4 DEF Packets, Txn
<1>5. CASE Sends
  <2>1. reqs' = reqs \cup {[txn |-> Txn, to |-> Dest]} /\ answers' = answers
        /\ UNCHANGED <<round, entry>>
    BY <1>5 DEF Sends
  <2>2. Txn' = Txn
    BY <2>1 DEF Txn
  <2>3. \A r \in reqs' : r.to \in Address /\ r.txn = Txn'
    BY <1>1, <2>1, <2>2, DestTyped DEF Packets
  <2> QED BY <1>3, <2>1, <2>3 DEF Packets
<1>6. CASE SendFails \/ LookupFails \/ TimesOut \/ UNCHANGED stunVars
  <2>1. UNCHANGED <<reqs, answers, round, entry>>
    BY <1>6 DEF SendFails, LookupFails, TimesOut, stunVars, client
  <2> QED BY <1>3, <1>4, <2>1 DEF Packets
<1>7. CASE NextEntry
  <2>1. reqs' = {} /\ answers' = answers
    BY <1>7 DEF NextEntry
  <2> QED BY <1>3, <2>1 DEF Packets
<1>8. ASSUME NEW a \in answers, Reads(a) PROVE Packets'
  <2>1. answers' \subseteq answers /\ UNCHANGED <<reqs, round, entry>>
    BY <1>1, <1>8, ReadsIs
  <2> QED BY <1>3, <1>4, <2>1 DEF Packets
<1>9. ASSUME NEW r \in reqs, NEW a, answers' = answers \cup {a},
             reqs' \subseteq reqs, UNCHANGED <<round, entry>>,
             a.txn = r.txn, a.attrs \in Bytes,
             a.list = <<>> \/ (a.list \in List /\ a.attrs = Encoded(a.list))
      PROVE  Packets'
  <2>1. a.txn \in Nat \X Nat /\ Past(a.txn)
    BY <1>1, <1>9, TxnTyped DEF Packets
  <2>2. Arrived(a)
    BY <1>9, <2>1 DEF Arrived
  <2>3. \A b \in answers' : Arrived(b)'
    BY <1>1, <1>2, <1>9, <2>2 DEF Packets
  <2> QED BY <1>4, <1>9, <2>3 DEF Packets
<1>10. ASSUME NEW r \in reqs, ServerAnswers(r) PROVE Packets'
  <2>1. PICK a : /\ answers' = answers \cup {a}
                 /\ a.txn = r.txn /\ a.to = r.to /\ a.list = <<>>
                 /\ a.attrs = BuildBindingResponse(Mapping(r.to), Tid(r.txn),
                                                   Announced(r.to))
    BY <1>10, ServerSends
  <2>2. OwnAt(r.to.ip) /\ r.to.port \in Word
    BY <1>1, <1>10, AddressTyped DEF ServerAnswers, Packets
  <2>3. a.attrs \in Bytes
    BY <2>1, <2>2, AnswerTyped
  <2>4. reqs' \subseteq reqs /\ UNCHANGED <<round, entry>>
    BY <1>10 DEF ServerAnswers, client
  <2> QED BY <1>9, <2>1, <2>3, <2>4
<1>11. ASSUME NEW r \in reqs, OtherAnswers(r) PROVE Packets'
  <2>1. PICK a : /\ answers' = answers \cup {a}
                 /\ a.txn = r.txn /\ a.to = r.to
                 /\ a.list \in List /\ a.attrs = Encoded(a.list)
    BY <1>11, OtherSends
  <2>2. a.attrs \in Bytes
    BY <2>1, EncodedTyped
  <2>3. reqs' \subseteq reqs /\ UNCHANGED <<round, entry>>
    BY <1>11 DEF OtherAnswers, client
  <2> QED BY <1>9, <2>1, <2>2, <2>3
<1> QED BY <1>5, <1>6, <1>7, <1>8, <1>10, <1>11 DEF StunNext, Client

-----------------------------------------------------------------------------
LEMMA SightingsStep == SInv /\ [StunNext]_stunVars => Sightings'
<1> SUFFICES ASSUME SInv, [StunNext]_stunVars PROVE Sightings'
  OBVIOUS
<1>1. Kinds /\ Packets /\ Sightings /\ nat \in {"cone", "symmetric"}
  BY DEF SInv, Kinds
<1>2. nat' = nat /\ \A d : Mapping(d)' = Mapping(d)
  BY FixedNat DEF Mapping
<1> DEFINE True(t) == /\ OwnAt(t.key.ip) /\ t.port \in Word
                      /\ t.addr = Mapping([ip |-> t.key.ip, port |-> t.port])
<1>3. \A t \in txns : True(t)
  BY <1>1 DEF Sightings
<1>4. ASSUME txns' \subseteq txns, verdict' = verdict PROVE Sightings'
  BY <1>1, <1>2, <1>4 DEF Sightings
<1>5. ASSUME NEW r \in reqs, ServerAnswers(r) PROVE Sightings'
  <2> DEFINE key == [ip |-> r.to.ip, txn |-> r.txn]
             here == [key |-> key, port |-> r.to.port, addr |-> Mapping(r.to)]
  <2>1. PICK kept \in SUBSET txns :
          LET seen == {t \in kept : t.key = key /\ t.port # r.to.port}
          IN  IF seen = {}
              THEN /\ txns' = {t \in kept : t.key # key} \cup {here}
                   /\ UNCHANGED verdict
              ELSE /\ txns' = {t \in kept : t.key # key}
                   /\ verdict' = verdict \cup
                        {IF AddrEqual(t.addr, here.addr) THEN "cone"
                         ELSE "symmetric" : t \in seen}
    BY <1>5, Zenon DEF ServerAnswers, Correlates
  <2> DEFINE seen == {t \in kept : t.key = key /\ t.port # r.to.port}
  <2>2. OwnAt(r.to.ip) /\ r.to.port \in Word
    BY <1>1, <1>5, AddressTyped DEF ServerAnswers, Packets
  <2>3. True(here)
    <3>1. here.key.ip = r.to.ip /\ here.port = r.to.port /\ here.addr = Mapping(r.to)
      OBVIOUS
    <3>2. Mapping(r.to) = Mapping([ip |-> r.to.ip, port |-> r.to.port])
      BY DEF Mapping
    <3> HIDE DEF here
    <3> QED BY <2>2, <3>1, <3>2
  <2>4. ASSUME NEW t \in seen
        PROVE  (IF AddrEqual(t.addr, here.addr) THEN "cone" ELSE "symmetric") = nat
    <3>1. /\ t.key.ip = r.to.ip /\ t.port # r.to.port /\ here.addr = Mapping(r.to)
          /\ True(t)
      BY <1>3
    <3>2. PICK ip : ip = r.to.ip
      OBVIOUS
    <3>3. PICK p \in Word : p = t.port
      BY <3>1
    <3>4. PICK q \in Word : q = r.to.port
      BY <2>2
    <3>5. t.addr = Mapping([ip |-> ip, port |-> p])
      BY <3>1, <3>2, <3>3
    <3>6. here.addr = Mapping([ip |-> ip, port |-> q])
      <4>1. Mapping(r.to) = Mapping([ip |-> ip, port |-> q])
        BY <3>2, <3>4 DEF Mapping
      <4> QED BY <3>1, <4>1
    <3>7. OwnAt(ip) /\ p # q
      BY <2>2, <3>1, <3>2, <3>3, <3>4
    <3>8. (t.addr.port = here.addr.port) <=> nat = "cone"
      <4> HIDE DEF here
      <4> QED BY <3>5, <3>6, <3>7, MappingDiffers
    <3>9. t.addr.ip = here.addr.ip
      <4> HIDE DEF here
      <4> QED BY <3>5, <3>6 DEF Mapping
    <3> HIDE DEF here
    <3> QED BY <1>1, <3>8, <3>9 DEF AddrEqual
  <2>5. verdict' \subseteq {nat}
    <3>1. \/ verdict' = verdict
          \/ verdict' = verdict \cup
               {IF AddrEqual(t.addr, here.addr) THEN "cone" ELSE "symmetric" : t \in seen}
      BY <2>1
    <3>2. verdict \subseteq {nat}
      BY <1>1 DEF Sightings
    <3> HIDE DEF here, seen
    <3> QED BY <2>4, <3>1, <3>2
  <2>6. \A t \in txns' : True(t)
    <3>1. txns' \subseteq txns \cup {here}
      <4> HIDE DEF here
      <4> QED BY <2>1
    <3> HIDE DEF here, True
    <3> QED BY <1>3, <2>3, <3>1
  <2> QED BY <1>2, <2>5, <2>6 DEF Sightings
<1>6. CASE NextEntry
  <2>1. txns' = {} /\ verdict' = verdict
    BY <1>6 DEF NextEntry
  <2> QED BY <1>4, <2>1
<1>7. CASE Sends \/ SendFails \/ LookupFails \/ TimesOut \/ UNCHANGED stunVars
  <2>1. txns' = txns /\ verdict' = verdict
    BY <1>7 DEF Sends, SendFails, LookupFails, TimesOut, stunVars
  <2> QED BY <1>4, <2>1
<1>8. ASSUME NEW a \in answers, Reads(a) PROVE Sightings'
  BY <1>1, <1>4, <1>8, ReadsIs
<1>9. ASSUME NEW r \in reqs, OtherAnswers(r) PROVE Sightings'
  BY <1>4, <1>9 DEF OtherAnswers
<1> QED BY <1>5, <1>6, <1>7, <1>8, <1>9 DEF StunNext, Client

LEMMA WanFilledStep == SInv /\ [StunNext]_stunVars => WanFilled'
<1> SUFFICES ASSUME SInv, [StunNext]_stunVars PROVE WanFilled'
  OBVIOUS
<1>1. Kinds /\ Packets /\ WanFilled
  BY DEF SInv
<1>2. CASE Sends
  BY <1>2, <1>1 DEF Sends, WanFilled, Dest
<1>3. ASSUME NextHost PROVE WanFilled'
  BY <1>1, <1>3, NextHostIs DEF WanFilled
<1>4. CASE SendFails \/ TimesOut
  BY <1>3, <1>4 DEF SendFails, TimesOut
<1>5. CASE LookupFails
  BY <1>1, <1>5 DEF LookupFails, WanFilled
<1>6. CASE NextEntry
  <2>1. pc = "next" /\ step' = 1 /\ pc' \in {"send", "done"}
        /\ \/ wan' = NoWan
           \/ pc' = "done" /\ wan' = wan
    BY <1>6 DEF NextEntry
  <2> QED BY <1>1, <2>1 DEF WanFilled
<1>7. ASSUME NEW a \in answers, Takes(a), pc = "wait" PROVE WanFilled'
  <2> DEFINE p == ParseResponse(a.attrs, Tid(Txn))
  <2>1. a.attrs \in Bytes
    BY <1>1 DEF Packets, Arrived
  <2>2. p.ok /\ p.mapped.port # 0
    BY <1>7 DEF Takes, Usable
  <2>3. p.mapped.ip # <<>>
    BY <2>1, <2>2, ResponseTyped, AddressTyped
  <2>4. wan' = [ip |-> IF step = 1 THEN p.mapped.ip ELSE wan.ip,
                ports |-> [wan.ports EXCEPT ![step] = p.mapped.port]]
        /\ pc' = (IF step = 3 THEN "next" ELSE "send")
        /\ step' = IF step = 3 THEN 3 ELSE step + 1
    BY <1>7 DEF Takes
  <2> HIDE DEF p
  <2>5. wan.ports \in [1..3 -> Word] /\ step \in 1..3
    BY <1>1 DEF Kinds
  <2>6. wan'.ip # <<>>
    BY <1>1, <1>7, <2>3, <2>4, <2>5 DEF WanFilled
  <2>7. \A i \in 1..3 : i <= step => wan'.ports[i] # 0
    <3>1. \A i \in 1..3 : wan'.ports[i] = IF i = step THEN p.mapped.port ELSE wan.ports[i]
      BY <2>4, <2>5
    <3>2. \A i \in 1..3 : i < step => wan.ports[i] # 0
      BY <1>1, <1>7, <2>5 DEF WanFilled
    <3> QED BY <2>2, <2>5, <3>1, <3>2
  <2>8. CASE step = 3
    BY <2>4, <2>6, <2>7, <2>8 DEF WanFilled
  <2>9. CASE step # 3
    <3>1. pc' = "send" /\ step' = step + 1
      BY <2>4, <2>9
    <3> QED BY <2>5, <2>6, <2>7, <2>9, <3>1 DEF WanFilled
  <2> QED BY <2>8, <2>9
<1>8. ASSUME NEW a \in answers, Reads(a) PROVE WanFilled'
  BY <1>1, <1>3, <1>7, <1>8, ReadsIs
<1>9. CASE UNCHANGED client
  BY <1>1, <1>9 DEF client, WanFilled, Dest
<1>10. ASSUME NEW r \in reqs, ServerAnswers(r) \/ OtherAnswers(r) PROVE WanFilled'
  BY <1>9, <1>10 DEF ServerAnswers, OtherAnswers
<1> QED BY <1>2, <1>4, <1>5, <1>6, <1>8, <1>9, <1>10 DEF StunNext, Client, stunVars

-----------------------------------------------------------------------------
(* The client asks an own server. *)
LEMMA HostOwn ==
    ASSUME Kinds, EntryOwn
    PROVE  /\ OwnAt(IpOf(Servers[entry][host]))
           /\ step # 3 => Dest = Asked(3477 + step) /\ OwnPort(Dest)
<1>1. Servers[entry][host] \in Own
  BY DEF Kinds, EntryOwn
<1>2. OwnAt(IpOf(Servers[entry][host]))
  BY <1>1 DEF OwnAt
<1>3. ASSUME step # 3 PROVE Dest = Asked(3477 + step) /\ OwnPort(Dest)
  <2>1. 3477 + step \in {3478, 3479}
    BY <1>3 DEF Kinds
  <2>2. Dest = Asked(3477 + step)
    BY <1>3 DEF Dest, Asked
  <2> QED BY <1>2, <2>1, <2>2 DEF OwnPort, Asked
<1> QED BY <1>2, <1>3

(* No answer is older than its transaction. *)
LEMMA NewTxn ==
    ASSUME Kinds, NextEntry, ~UNCHANGED <<round, entry>>, NEW txn \in Nat \X Nat,
           Past(txn)
    PROVE  txn # Txn'
<1>1. PICK i \in Nat : i = txn[1]
  OBVIOUS
<1>2. PICK j \in Nat : j = txn[2]
  OBVIOUS
<1>3. i < round \/ (i = round /\ j <= entry)
  BY <1>1, <1>2 DEF Past
<1>4. round \in Nat /\ entry \in Nat
  BY StunAssumption, LenProperties DEF Kinds
<1>5. \/ entry' = entry + 1 /\ round' = round
      \/ round' = round + 1
  BY DEF NextEntry, RoundAfter
<1>6. i # round' \/ j # entry'
  BY <1>3, <1>4, <1>5
<1> QED BY <1>1, <1>2, <1>6 DEF Txn

LEMMA OwnStep ==
    SInv /\ [StunNext]_stunVars => (EntryOwn' => OwnTraffic' /\ OwnResult')
<1> SUFFICES ASSUME SInv, [StunNext]_stunVars, EntryOwn' PROVE OwnTraffic' /\ OwnResult'
  OBVIOUS
<1>1. Kinds /\ Packets /\ WanFilled
  BY DEF SInv
<1>2. nat' = nat /\ \A d : Mapping(d)' = Mapping(d)
  BY FixedNat DEF Mapping
<1>3. \A a : Reports(a)' = Reports(a)
  BY <1>2 DEF Reports
<1>4. ASSUME entry' = entry PROVE EntryOwn /\ OwnTraffic /\ OwnResult
  <2>1. EntryOwn
    BY <1>4 DEF EntryOwn
  <2> QED BY <2>1 DEF SInv
<1>5. CASE Sends
  <2>1. EntryOwn /\ OwnTraffic /\ OwnResult
    BY <1>4, <1>5 DEF Sends
  <2>2. OwnPort(Dest)
    <3>1. CASE step = 3
      BY <1>5, <2>1, <3>1 DEF Sends, OwnTraffic, Dest
    <3>2. CASE step # 3
      BY <1>1, <2>1, <3>2, HostOwn
    <3> QED BY <3>1, <3>2
  <2>3. reqs' = reqs \cup {[txn |-> Txn, to |-> Dest]} /\ pc = "send" /\ pc' = "wait"
        /\ UNCHANGED <<nat, round, entry, host, step, changed, wan, answers, mixed>>
    BY <1>5 DEF Sends
  <2>4. \A r \in reqs' : OwnPort(r.to)
    BY <2>1, <2>2, <2>3 DEF OwnTraffic
  <2>5. OwnTraffic'
    BY <1>3, <2>1, <2>3, <2>4 DEF OwnTraffic, Txn
  <2>6. OwnResult'
    BY <1>2, <2>1, <2>3 DEF OwnResult, Asked
  <2> QED BY <2>5, <2>6
<1>6. ASSUME NextHost, UNCHANGED <<reqs, round, entry>>, answers' \subseteq answers
      PROVE  OwnTraffic' /\ OwnResult'
  <2>1. step' = 1 /\ wan' = NoWan
    BY <1>1, <1>6, NextHostIs
  <2>2. OwnTraffic /\ Txn' = Txn
    BY <1>4, <1>6 DEF Txn
  <2>3. OwnTraffic'
    BY <1>3, <1>6, <2>1, <2>2 DEF OwnTraffic
  <2>4. OwnResult'
    BY <2>1 DEF OwnResult, NoWan
  <2> QED BY <2>3, <2>4
<1>7. CASE SendFails \/ TimesOut
  BY <1>6, <1>7 DEF SendFails, TimesOut
<1>8. CASE LookupFails
  <2>1. /\ pc = "send" /\ step = 1 /\ pc' = "next"
        /\ UNCHANGED <<nat, round, entry, host, step, changed, wan, reqs, answers, mixed>>
    BY <1>8 DEF LookupFails
  <2>2. OwnTraffic /\ Txn' = Txn /\ wan = NoWan
    BY <1>1, <1>4, <2>1 DEF Txn, WanFilled
  <2> QED BY <1>3, <2>1, <2>2 DEF OwnTraffic, OwnResult, NoWan
<1>9. CASE NextEntry
  <2>1. reqs' = {} /\ step' = 1 /\ answers' = answers
    BY <1>9 DEF NextEntry
  <2>2. CASE UNCHANGED <<round, entry>>
    <3>1. OwnTraffic /\ OwnResult /\ Txn' = Txn
      BY <1>4, <2>2 DEF Txn
    <3>2. OwnTraffic'
      BY <1>3, <2>1, <3>1 DEF OwnTraffic
    <3>3. /\ pc = "next" /\ pc' \in {"send", "done"} /\ mixed' = mixed
          /\ wan' = NoWan \/ wan' = wan
      BY <1>9 DEF NextEntry
    <3>4. OwnResult'
      BY <1>2, <2>1, <3>1, <3>3 DEF OwnResult
    <3> QED BY <3>2, <3>4
  <2>3. CASE ~UNCHANGED <<round, entry>>
    <3>1. wan' = NoWan
      BY <1>9, <2>3 DEF NextEntry
    <3>2. ASSUME NEW a \in answers' PROVE a.txn # Txn'
      BY <1>1, <1>9, <2>1, <2>3, NewTxn DEF Packets, Arrived
    <3>3. OwnTraffic'
      BY <2>1, <3>2 DEF OwnTraffic
    <3>4. OwnResult'
      BY <2>1, <3>1 DEF OwnResult
    <3> QED BY <3>3, <3>4
  <2> QED BY <2>2, <2>3
<1>10. ASSUME NEW a \in answers, Takes(a), pc = "wait", answers' \subseteq answers,
              UNCHANGED <<round, entry, to, reqs>>
       PROVE  OwnTraffic' /\ OwnResult'
  <2> DEFINE p == ParseResponse(a.attrs, Tid(Txn))
  <2>1. EntryOwn /\ OwnTraffic /\ OwnResult /\ Txn' = Txn
    BY <1>4, <1>10 DEF Txn
  <2>2. a.txn = Txn /\ p.ok
    BY <1>10 DEF Takes, Usable
  <2>3. OwnPort(a.to) /\ Reports(a)
    BY <2>1, <2>2 DEF OwnTraffic
  <2>4. p.mapped = Mapping(a.to) /\ (p.changed = Failed \/ OwnPort(p.changed))
    BY <2>2, <2>3 DEF Reports
  <2>5. p.changed # Failed
    BY <2>2 DEF ParseResponse
  <2>6. /\ wan' = [ip |-> IF step = 1 THEN p.mapped.ip ELSE wan.ip,
                   ports |-> [wan.ports EXCEPT ![step] = p.mapped.port]]
        /\ changed' = (IF step = 1 THEN p.changed ELSE changed)
        /\ pc' = (IF step = 3 THEN "next" ELSE "send")
        /\ step' = (IF step = 3 THEN 3 ELSE step + 1)
        /\ host' = host
    BY <1>10 DEF Takes
  <2>7. mixed' \/ (~mixed /\ a.to = to)
    BY <1>10, Zenon DEF Takes
  <2> HIDE DEF p
  <2>8. wan.ports \in [1..3 -> Word] /\ step \in 1..3
    BY <1>1 DEF Kinds
  <2>9. OwnTraffic'
    BY <1>3, <1>10, <2>1, <2>4, <2>5, <2>6, <2>8 DEF OwnTraffic
  <2>10. Mapping(a.to).ip = Public
    BY <2>3, MappingIs, MappingPort DEF OwnPort
  <2>11. wan'.ip = Public
    BY <1>10, <2>1, <2>4, <2>6, <2>10 DEF OwnResult
  <2>12. \A i \in 1..3 : wan'.ports[i] = IF i = step THEN Mapping(a.to).port
                                          ELSE wan.ports[i]
    BY <2>4, <2>6, <2>8
  <2>13. to = Dest /\ (step # 3 => Dest = Asked(3477 + step))
    BY <1>1, <1>10, <2>1, HostOwn DEF WanFilled
  <2>14. Asked(3478)' = Asked(3478) /\ Asked(3479)' = Asked(3479)
    BY <1>10, <2>6 DEF Asked
  <2>15. mixed' \/ wan'.ports[1] = Mapping(Asked(3478)).port
    <3>1. CASE step = 1
      <4>1. 3477 + step = 3478
        BY <3>1
      <4> QED BY <2>7, <2>12, <2>13, <3>1, <4>1
    <3>2. CASE step # 1
      BY <1>10, <2>1, <2>7, <2>8, <2>12, <3>2 DEF OwnResult
    <3> QED BY <3>1, <3>2
  <2>16. step # 1 => mixed' \/ wan'.ports[2] = Mapping(Asked(3479)).port
    <3>1. CASE step = 2
      <4>1. 3477 + step = 3479
        BY <3>1
      <4> QED BY <2>7, <2>12, <2>13, <3>1, <4>1
    <3>2. CASE step = 3
      BY <1>10, <2>1, <2>7, <2>8, <2>12, <3>2 DEF OwnResult
    <3> QED BY <2>8, <3>1, <3>2
  <2>17. (Mapping(Asked(3478)).port = Mapping(Asked(3479)).port) <=> nat = "cone"
    <3>1. 3478 \in Word /\ 3479 \in Word /\ 3478 # 3479
      BY DEF Word
    <3>2. OwnAt(IpOf(Servers[entry][host]))
      BY <1>1, <2>1, HostOwn
    <3> QED BY <3>1, <3>2, MappingDiffers DEF Asked
  <2>18. OwnResult'
    <3>1. CASE step = 3
      <4>1. nat # "cone" <=> nat = "symmetric"
        BY <1>1 DEF Kinds
      <4>2. mixed' \/ ((wan'.ports[1] # wan'.ports[2]) <=> (nat = "symmetric"))
        BY <2>15, <2>16, <2>17, <3>1, <4>1
      <4> QED BY <1>2, <2>6, <2>11, <3>1, <4>2 DEF OwnResult
    <3>2. CASE step # 3
      <4>1. pc' = "send" /\ (step' = 3 => step # 1)
        BY <2>6, <3>2
      <4> QED BY <1>2, <2>11, <2>14, <2>15, <2>16, <4>1 DEF OwnResult
    <3> QED BY <3>1, <3>2
  <2> QED BY <2>9, <2>18
<1>11. ASSUME NEW a \in answers, Reads(a) PROVE OwnTraffic' /\ OwnResult'
  BY <1>1, <1>6, <1>10, <1>11, ReadsIs
<1>12. ASSUME UNCHANGED client, reqs' \subseteq reqs, mixed' = mixed,
              \A a \in answers' : a \in answers \/ (OwnPort(a.to) /\ Reports(a))
       PROVE  OwnTraffic' /\ OwnResult'
  <2>1. OwnTraffic /\ OwnResult /\ Txn' = Txn
    BY <1>4, <1>12 DEF client, Txn
  <2>2. OwnTraffic'
    BY <1>3, <1>12, <2>1 DEF OwnTraffic, client
  <2>3. OwnResult'
    BY <1>2, <1>12, <2>1 DEF OwnResult, client, Asked
  <2> QED BY <2>2, <2>3
<1>13. ASSUME NEW r \in reqs, ServerAnswers(r) PROVE OwnTraffic' /\ OwnResult'
  <2>1. PICK a : /\ answers' = answers \cup {a}
                 /\ a.txn = r.txn /\ a.to = r.to /\ a.list = <<>>
                 /\ a.attrs = BuildBindingResponse(Mapping(r.to), Tid(r.txn),
                                                   Announced(r.to))
    BY <1>13, ServerSends
  <2>2. UNCHANGED client /\ reqs' \subseteq reqs /\ mixed' = mixed
    BY <1>13 DEF ServerAnswers
  <2>3. OwnPort(r.to)
    BY <1>4, <1>13, <2>2 DEF client, OwnTraffic
  <2>4. Reports(a)
    BY <2>1, <2>3, AnswerReports
  <2>5. \A b \in answers' : b \in answers \/ (OwnPort(b.to) /\ Reports(b))
    BY <2>1, <2>3, <2>4
  <2> QED BY <1>12, <2>2, <2>5, Zenon
<1>14. ASSUME NEW r \in reqs, OtherAnswers(r) PROVE FALSE
  BY <1>4, <1>14 DEF OtherAnswers, client, OwnTraffic, OwnPort
<1>15. CASE UNCHANGED stunVars
  <2>1. UNCHANGED client /\ reqs' \subseteq reqs /\ mixed' = mixed
    BY <1>15 DEF stunVars
  <2>2. \A b \in answers' : b \in answers \/ (OwnPort(b.to) /\ Reports(b))
    BY <1>15 DEF stunVars
  <2> QED BY <1>12, <2>1, <2>2, Zenon
<1> QED BY <1>5, <1>7, <1>8, <1>9, <1>11, <1>13, <1>14, <1>15 DEF StunNext, Client

LEMMA SInvInit == StunInit => SInv
<1> SUFFICES ASSUME StunInit PROVE SInv
  OBVIOUS
<1>1. /\ pc = "send" /\ round = 1 /\ entry = 1 /\ host = 1 /\ step = 1
      /\ changed = Failed /\ wan = NoWan /\ mixed = FALSE /\ dups = 0
      /\ reqs = {} /\ answers = {} /\ txns = {} /\ verdict = {}
      /\ nat \in {"cone", "symmetric"}
  BY DEF StunInit
<1>2. Len(Servers) \in Nat /\ Len(Servers) > 0
  BY StunAssumption, LenProperties
<1>3. entry \in 1..Len(Servers) /\ host \in 1..Len(Servers[entry])
  BY <1>1, <1>2, HostsTyped
<1>4. mixed \in BOOLEAN
  BY <1>1, Zenon
<1>5. round \in 1..(MaxRounds + 1) /\ round <= MaxRounds /\ dups \in 0..MaxDups
  BY <1>1, StunAssumption
<1>6. Kinds
  BY <1>1, <1>3, <1>4, <1>5, NoWanTyped, FailedIs DEF Kinds, Wan
<1>7. Packets /\ Sightings
  BY <1>1 DEF Packets, Sightings
<1>8. WanFilled /\ OwnTraffic /\ OwnResult
  BY <1>1 DEF WanFilled, OwnTraffic, OwnResult
<1> QED BY <1>6, <1>7, <1>8 DEF SInv

LEMMA SInvStep == SInv /\ [StunNext]_stunVars => SInv'
BY KindsStep, PacketsStep, SightingsStep, WanFilledStep, OwnStep DEF SInv

LEMMA SInvHolds == StunSpec => []SInv
BY SInvInit, SInvStep, PTL DEF StunSpec

(* For every list of servers, whatever they answer and however often or    *)
(* late: what the servers log about the NAT is true.                       *)
THEOREM LogIsTrue == StunSpec => []VerdictTrue
<1>1. SInv => VerdictTrue
  BY DEF SInv, Sightings, VerdictTrue
<1> QED BY <1>1, SInvHolds, PTL

(* No packet, however its lengths lie, makes the parser slice outside it,  *)
(* and in a well-formed one it finds the first attribute of a type.        *)
THEOREM ParserIsRight == StunSpec => []ParserFinds
<1>1. ASSUME SInv PROVE ParserFinds
  <2> SUFFICES ASSUME NEW a \in answers
              PROVE  /\ LET p == ParseResponse(a.attrs, Tid(a.txn))
                        IN  Panic \notin {p.mapped, p.changed}
                     /\ WellFormed(a.list) /\ a.list # <<>> =>
                          \A type \in {MappedAddress, XorMappedAddress, ChangedAddress} :
                             FindAddress(a.attrs, type, Tid(a.txn)) =
                               FirstOf(a.list, type, Tid(a.txn))
    BY DEF ParserFinds
  <2>1. Arrived(a)
    BY <1>1 DEF SInv, Packets
  <2>2. a.attrs \in Bytes
    BY <2>1 DEF Arrived
  <2>3. LET p == ParseResponse(a.attrs, Tid(a.txn))
        IN  Panic \notin {p.mapped, p.changed}
    BY <2>2, ResponseTyped, PanicIsNot
  <2>4. ASSUME WellFormed(a.list), a.list # <<>>, NEW type
        PROVE  FindAddress(a.attrs, type, Tid(a.txn)) =
                 FirstOf(a.list, type, Tid(a.txn))
    <3>1. PICK list \in List : list = a.list
      BY <2>1, <2>4 DEF Arrived
    <3>2. a.attrs = Encoded(list)
      BY <2>1, <2>4, <3>1 DEF Arrived
    <3> QED BY <2>4, <3>1, <3>2, FindIsFirst
  <2> QED BY <2>3, <2>4
<1> QED BY <1>1, SInvHolds, PTL

(* What the search returns is complete or empty, and if own servers        *)
(* answered it is the public address and, unless an answer was taken for   *)
(* another request's, shows a symmetric NAT exactly if there is one.       *)
THEOREM AddressIsPublic == StunSpec => []Classified
<1>1. ASSUME SInv PROVE Classified
  <2>1. Kinds /\ Packets /\ Sightings /\ WanFilled
    BY <1>1 DEF SInv
  <2>2. StunTypeOK
    <3>1. \A a \in answers : a.attrs \in Bytes
      BY <2>1 DEF Packets, Arrived
    <3>2. changed.ip \in Bytes /\ changed.port \in Word
      BY <2>1, AddressTyped DEF Kinds
    <3>3. verdict \subseteq {"cone", "symmetric"}
      BY <2>1 DEF Kinds, Sightings
    <3> QED BY <2>1, <3>1, <3>2, <3>3 DEF StunTypeOK, Kinds
  <2>3. pc = "done" => \/ wan = NoWan
                       \/ wan.ip # <<>> /\ \A i \in 1..3 : wan.ports[i] # 0
    BY <2>1 DEF WanFilled
  <2>4. ASSUME pc = "done", Complete(wan), EntryOwn
        PROVE  /\ wan.ip = Mapping(to).ip
               /\ ~mixed => ((wan.ports[1] # wan.ports[2]) <=> (nat = "symmetric"))
    <3>1. wan # NoWan
      BY <2>4 DEF Complete, NoWan
    <3>2. /\ wan.ip = Public
          /\ mixed \/ ((wan.ports[1] # wan.ports[2]) <=> (nat = "symmetric"))
      BY <1>1, <2>4, <3>1 DEF SInv, OwnResult
    <3>3. Mapping(to).ip = Public
      BY DEF Mapping, Public
    <3> QED BY <3>2, <3>3
  <2> QED BY <2>2, <2>3, <2>4 DEF Classified
<1> QED BY <1>1, SInvHolds, PTL
=============================================================================
