---------------------------- MODULE UdpForward ----------------------------
(***************************************************************************)
(* ForwardUDPClient (proxy/proxy_l.go): datagrams that arrive on a local   *)
(* port are carried over the tunnel, one stream (a session) per client     *)
(* address. Four kinds of goroutine share the table of sessions: Serve,    *)
(* the owner of the runner (SetQuicConn, ClearQuicConn and Close, which    *)
(* the forward manager calls one at a time), the sweeper of idle sessions, *)
(* and one readBack per session.                                           *)
(*                                                                         *)
(* A critical section of sessMu is one step, but the sweeper's is two: it  *)
(* waits in it for the mutexes of the sessions, one of which Serve holds   *)
(* while it writes. Whoever takes sessions out of the table closes them    *)
(* afterwards, one by one, outside sessMu.                                 *)
(***************************************************************************)
EXTENDS Integers, FiniteSets

CONSTANTS
    Clients,        \* client addresses
    MaxUDPSessions, \* maxUDPSessions, 1024 in the code
    MaxTunnels,     \* bound: tunnels, one after the other
    MaxStreams,     \* bound: sessions opened
    None            \* no client

ASSUME UdpForwardAssumption ==
    /\ IsFiniteSet(Clients)
    /\ MaxUDPSessions \in Nat \ {0}
    /\ MaxTunnels \in Nat
    /\ MaxStreams \in Nat
    /\ None \notin Clients

Sessions == 1..MaxStreams  \* in the order of createdAt; 0 is nil
Tunnels  == 1..MaxTunnels  \* 0 is nil

(* When a session last carried something: it was written to less than      *)
(* UDPIdleTimeout ago, or only heard of since then, or neither.            *)
Ages == {"used", "heard", "idle"}

VARIABLES
    tunnel,   \* the last tunnel ...
    up,       \* ... and whether it is up
    conn,     \* p.quicConn
    table,    \* p.sessions
    opened,   \* number of sessions opened
    client,   \* clientAddr of each session's stream
    over,     \* tunnel each session's stream belongs to
    closed,   \* sessions with s.closed
    age,      \* lastUsed of each session, see Ages
    sweeping, \* p.sweeping
    sweeper,  \* sweepIdle: "none", "tick", "sweep" (holding sessMu)
    reader,   \* readBack of each session
    serve,    \* Serve: [pc, key, sess, conn]
    owner,    \* the runner's owner: [pc, conn]
    sockOpen, \* p.pc is open
    todo,     \* sessions Serve, the owner and the sweeper have yet to close
    rtodo     \* ... and each readBack

tun   == <<tunnel, up>>
sess  == <<opened, client, over>>
sweep == <<sweeping, sweeper>>
vars  == <<tunnel, up, conn, table, opened, client, over, closed, age,
           sweeping, sweeper, reader, serve, owner, sockOpen, todo, rtodo>>

-----------------------------------------------------------------------------
(* Helpers *)

Live == {c \in Clients : table[c] # 0}
Held == {table[c] : c \in Live}

Empty == [c \in Clients |-> 0]

(* sessMu can be taken. *)
Free == sweeper # "sweep"

(* s.mu can be taken: Serve is not in s.write. *)
Unlocked(s) == ~(serve.pc = "writing" /\ serve.sess = s)

(* The stream of a session works. *)
Works(s) == up /\ over[s] = tunnel /\ s \notin closed

(* Mutant of Drop: the entry is left in the table. *)
DropNothing(c) == UNCHANGED table

(* dropSession's critical section: whatever session the address has now.   *)
Drop(c) == table' = [table EXCEPT ![c] = 0]

Of(c) == IF table[c] = 0 THEN {} ELSE {table[c]}

-----------------------------------------------------------------------------
(* Serve *)

NoServe == [pc |-> "read", key |-> None, sess |-> 0, conn |-> 0]

Go(pc) == serve' = [serve EXCEPT !.pc = pc]

(* Back to ReadFrom. *)
Again == serve' = NoServe

(* A datagram, and the tunnel is ready; otherwise it is dropped. *)
Receive(c) ==
    /\ serve.pc = "read" /\ sockOpen
    /\ conn # 0
    /\ serve' = [serve EXCEPT !.pc = "look", !.key = c]
    /\ UNCHANGED <<tun, conn, table, sess, closed, age, sweep, reader,
                   owner, sockOpen, todo, rtodo>>

(* The socket is closed, or failed for good. *)
ServeEnds ==
    /\ serve.pc = "read"
    /\ Go("done")
    /\ UNCHANGED <<tun, conn, table, sess, closed, age, sweep, reader,
                   owner, sockOpen, todo, rtodo>>

GetSession ==
    /\ serve.pc = "look" /\ Free
    /\ serve' = IF table[serve.key] # 0
                THEN [serve EXCEPT !.pc = "write", !.sess = table[serve.key]]
                ELSE [serve EXCEPT !.pc = "open"]
    /\ UNCHANGED <<tun, conn, table, sess, closed, age, sweep, reader,
                   owner, sockOpen, todo, rtodo>>

(* newSession reads the tunnel a second time: it may have gone since. *)
OpenBegin ==
    /\ serve.pc = "open"
    /\ serve' = IF conn = 0 THEN NoServe
                ELSE [serve EXCEPT !.pc = "opening", !.conn = conn]
    /\ UNCHANGED <<tun, conn, table, sess, closed, age, sweep, reader,
                   owner, sockOpen, todo, rtodo>>

(* OpenStreamSync and the header succeed on the tunnel read before. *)
Opened ==
    /\ serve.pc = "opening"
    /\ up /\ serve.conn = tunnel
    /\ opened < MaxStreams
    /\ opened' = opened + 1
    /\ client' = [client EXCEPT ![opened + 1] = serve.key]
    /\ over' = [over EXCEPT ![opened + 1] = serve.conn]
    /\ serve' = [serve EXCEPT !.pc = "insert", !.sess = opened + 1, !.conn = 0]
    /\ UNCHANGED <<tun, conn, table, closed, age, sweep, reader, owner,
                   sockOpen, todo, rtodo>>

(* ... or fail, or the target is no IPv4 address: no stream is left.       *)
OpenFails ==
    /\ serve.pc = "opening"
    /\ Again
    /\ UNCHANGED <<tun, conn, table, sess, closed, age, sweep, reader,
                   owner, sockOpen, todo, rtodo>>

(* Mutant of Full: off by one. *)
FullLate == Cardinality(Live) > MaxUDPSessions

Full == Cardinality(Live) >= MaxUDPSessions

(* evictOldestLocked: the session created first. *)
Oldest == CHOOSE c \in Live : \A d \in Live : table[c] <= table[d]

(* The session enters the table; sweeper and readBack are started. *)
Put ==
    /\ table' = [table EXCEPT ![serve.key] = serve.sess]
    /\ sweeping' = TRUE
    /\ sweeper' = IF sweeping THEN sweeper ELSE "tick"
    /\ reader' = [reader EXCEPT ![serve.sess] = "read"]
    /\ Go("write")

(* newSession's critical section. Serve alone inserts, so the session of   *)
(* the address it looks for once more is never there (InsertsAlone).       *)
Insert ==
    /\ serve.pc = "insert" /\ Free
    /\ table[serve.key] = 0
    /\ ~Full
    /\ Put
    /\ UNCHANGED <<tun, conn, sess, closed, age, owner, sockOpen, todo, rtodo>>

(* At the limit the lock is released to close the victim. *)
Evict ==
    /\ serve.pc = "insert" /\ Free
    /\ table[serve.key] = 0
    /\ Full
    /\ table' = [table EXCEPT ![Oldest] = 0]
    /\ todo' = [todo EXCEPT !.serve = {table[Oldest]}]
    /\ Go("put")
    /\ UNCHANGED <<tun, conn, sess, closed, age, sweep, reader, owner,
                   sockOpen, rtodo>>

InsertAfterEvict ==
    /\ serve.pc = "put" /\ Free
    /\ todo.serve = {}
    /\ Put
    /\ UNCHANGED <<tun, conn, sess, closed, age, owner, sockOpen, todo, rtodo>>

(* s.write takes s.mu; on a closed session it fails at once. *)
WriteBegin ==
    /\ serve.pc = "write"
    /\ Go(IF serve.sess \in closed THEN "drop" ELSE "writing")
    /\ UNCHANGED <<tun, conn, table, sess, closed, age, sweep, reader,
                   owner, sockOpen, todo, rtodo>>

(* Mutant of WriteEnd: without the write deadline. *)
WriteEndNoDeadline ==
    /\ serve.pc = "writing"
    /\ Works(serve.sess) /\ Again
    /\ age' = [age EXCEPT ![serve.sess] = "used"]
    /\ UNCHANGED <<tun, conn, table, sess, closed, sweep, reader, owner,
                   sockOpen, todo, rtodo>>

(* The frame is out, or an error or the write deadline ends the wait;      *)
(* lastUsed is set in either case.                                         *)
WriteEnd ==
    /\ serve.pc = "writing"
    /\ \/ Works(serve.sess) /\ Again
       \/ Go("drop")
    /\ age' = [age EXCEPT ![serve.sess] = "used"]
    /\ UNCHANGED <<tun, conn, table, sess, closed, sweep, reader, owner,
                   sockOpen, todo, rtodo>>

ServeDrops ==
    /\ serve.pc = "drop" /\ Free
    /\ Drop(serve.key)
    /\ todo' = [todo EXCEPT !.serve = Of(serve.key)]
    /\ Go("dropped")
    /\ UNCHANGED <<tun, conn, sess, closed, age, sweep, reader, owner,
                   sockOpen, rtodo>>

ServeDropped ==
    /\ serve.pc = "dropped"
    /\ todo.serve = {}
    /\ Again
    /\ UNCHANGED <<tun, conn, table, sess, closed, age, sweep, reader,
                   owner, sockOpen, todo, rtodo>>

-----------------------------------------------------------------------------
(* SetQuicConn, ClearQuicConn and Close *)

(* Mutant of TakeAll: a new table, and the old one is forgotten. *)
TakeAllForgets ==
    /\ Free
    /\ table' = Empty
    /\ UNCHANGED todo

(* closeAllSessions' critical section. *)
TakeAll ==
    /\ Free
    /\ table' = Empty
    /\ todo' = [todo EXCEPT !.owner = Held]

(* A new tunnel: the sessions are closed first, then the tunnel is set.    *)
SetQuicConn ==
    /\ owner.pc = "none" /\ sockOpen
    /\ ~up /\ conn = 0
    /\ tunnel < MaxTunnels
    /\ tunnel' = tunnel + 1
    /\ up' = TRUE
    /\ TakeAll
    /\ owner' = [pc |-> "set", conn |-> tunnel + 1]
    /\ UNCHANGED <<conn, sess, closed, age, sweep, reader, serve, sockOpen, rtodo>>

SetQuicConnEnds ==
    /\ owner.pc = "set" /\ todo.owner = {}
    /\ conn' = owner.conn
    /\ owner' = [pc |-> "none", conn |-> 0]
    /\ UNCHANGED <<tun, table, sess, closed, age, sweep, reader, serve,
                   sockOpen, todo, rtodo>>

(* The other order: the tunnel is cleared first. *)
ClearQuicConn ==
    /\ owner.pc = "none"
    /\ conn # 0
    /\ conn' = 0
    /\ owner' = [owner EXCEPT !.pc = "clear"]
    /\ UNCHANGED <<tun, table, sess, closed, age, sweep, reader, serve,
                   sockOpen, todo, rtodo>>

ClearTakes ==
    /\ owner.pc = "clear"
    /\ TakeAll
    /\ owner' = [owner EXCEPT !.pc = "closing"]
    /\ UNCHANGED <<tun, conn, sess, closed, age, sweep, reader, serve,
                   sockOpen, rtodo>>

ClearEnds ==
    /\ owner.pc = "closing" /\ todo.owner = {}
    /\ owner' = [owner EXCEPT !.pc = "none"]
    /\ UNCHANGED <<tun, conn, table, sess, closed, age, sweep, reader,
                   serve, sockOpen, todo, rtodo>>

Close ==
    /\ owner.pc = "none" /\ sockOpen
    /\ TakeAll
    /\ owner' = [owner EXCEPT !.pc = "sock"]
    /\ UNCHANGED <<tun, conn, sess, closed, age, sweep, reader, serve,
                   sockOpen, rtodo>>

CloseEnds ==
    /\ owner.pc = "sock" /\ todo.owner = {}
    /\ sockOpen' = FALSE
    /\ owner' = [owner EXCEPT !.pc = "none"]
    /\ UNCHANGED <<tun, conn, table, sess, closed, age, sweep, reader,
                   serve, todo, rtodo>>

-----------------------------------------------------------------------------
(* sweepIdle *)

(* Mutant of SweeperLeaves: the flag is not reset. *)
SweeperLeavesFlagged == sweeper' = "none" /\ UNCHANGED sweeping

SweeperLeaves == sweeper' = "none" /\ sweeping' = FALSE

(* A tick: with an empty table the sweeper ends, otherwise it keeps sessMu *)
(* and asks every session how long it has been idle.                       *)
SweepTick ==
    /\ sweeper = "tick" /\ todo.sweeper = {}
    /\ IF Live = {} THEN SweeperLeaves
                    ELSE sweeper' = "sweep" /\ UNCHANGED sweeping
    /\ UNCHANGED <<tun, conn, table, sess, closed, age, reader, serve,
                   owner, sockOpen, todo, rtodo>>

(* Mutant of Victims: nobody is idle. *)
NoVictims == {}

Victims == {s \in Held : age[s] # "used"}

Sweep ==
    /\ sweeper = "sweep"
    /\ \A s \in Held : Unlocked(s)
    /\ table' = [c \in Clients |-> IF table[c] \in Victims THEN 0 ELSE table[c]]
    /\ todo' = [todo EXCEPT !.sweeper = Victims]
    /\ sweeper' = "tick"
    /\ UNCHANGED <<tun, conn, sess, closed, age, sweeping, reader, serve,
                   owner, sockOpen, rtodo>>

-----------------------------------------------------------------------------
(* readBack *)

(* A datagram comes back and is passed on to the client; lastUsed is not   *)
(* touched.                                                                *)
Downlink(s) ==
    /\ reader[s] = "read" /\ Works(s) /\ sockOpen
    /\ age[s] = "idle"
    /\ age' = [age EXCEPT ![s] = "heard"]
    /\ UNCHANGED <<tun, conn, table, sess, closed, sweep, reader, serve,
                   owner, sockOpen, todo, rtodo>>

(* The stream ends, from either side, or the client cannot be written to. *)
ReadEnds(s) ==
    /\ reader[s] = "read"
    /\ reader' = [reader EXCEPT ![s] = "drop"]
    /\ UNCHANGED <<tun, conn, table, sess, closed, age, sweep, serve,
                   owner, sockOpen, todo, rtodo>>

(* The deferred dropSession(key). *)
ReaderDrops(s) ==
    /\ reader[s] = "drop" /\ Free
    /\ Drop(client[s])
    /\ rtodo' = [rtodo EXCEPT ![s] = Of(client[s])]
    /\ reader' = [reader EXCEPT ![s] = "done"]
    /\ UNCHANGED <<tun, conn, sess, closed, age, sweep, serve, owner,
                   sockOpen, todo>>

-----------------------------------------------------------------------------
(* s.close, by whoever took the session out of the table *)

(* A closed session has no age any more. *)
Shut(s) == /\ Unlocked(s)
           /\ closed' = closed \cup {s}
           /\ age' = [age EXCEPT ![s] = "used"]

ServeCloses(s) ==
    /\ s \in todo.serve
    /\ Shut(s)
    /\ todo' = [todo EXCEPT !.serve = @ \ {s}]
    /\ UNCHANGED <<tun, conn, table, sess, sweep, reader, serve,
                   owner, sockOpen, rtodo>>

OwnerCloses(s) ==
    /\ s \in todo.owner
    /\ Shut(s)
    /\ todo' = [todo EXCEPT !.owner = @ \ {s}]
    /\ UNCHANGED <<tun, conn, table, sess, sweep, reader, serve,
                   owner, sockOpen, rtodo>>

SweeperCloses(s) ==
    /\ s \in todo.sweeper
    /\ Shut(s)
    /\ todo' = [todo EXCEPT !.sweeper = @ \ {s}]
    /\ UNCHANGED <<tun, conn, table, sess, sweep, reader, serve,
                   owner, sockOpen, rtodo>>

ReaderCloses(r, s) ==
    /\ s \in rtodo[r]
    /\ Shut(s)
    /\ rtodo' = [rtodo EXCEPT ![r] = @ \ {s}]
    /\ UNCHANGED <<tun, conn, table, sess, sweep, reader, serve,
                   owner, sockOpen, todo>>

-----------------------------------------------------------------------------
(* Environment *)

TunnelDies ==
    /\ up
    /\ up' = FALSE
    /\ UNCHANGED <<tunnel, conn, table, sess, closed, age, sweep, reader,
                   serve, owner, sockOpen, todo, rtodo>>

(* UDPIdleTimeout has passed since the last datagram of a session. *)
TimePasses(s) ==
    /\ s <= opened /\ s \notin closed
    /\ age[s] # "idle"
    /\ age' = [age EXCEPT ![s] = "idle"]
    /\ UNCHANGED <<tun, conn, table, sess, closed, sweep, reader, serve, owner,
                   sockOpen, todo, rtodo>>

-----------------------------------------------------------------------------
Init ==
    /\ tunnel = 0 /\ up = FALSE /\ conn = 0
    /\ table = Empty
    /\ opened = 0
    /\ client = [s \in Sessions |-> None]
    /\ over = [s \in Sessions |-> 0]
    /\ closed = {}
    /\ age = [s \in Sessions |-> "used"]
    /\ sweeping = FALSE /\ sweeper = "none"
    /\ reader = [s \in Sessions |-> "none"]
    /\ serve = NoServe
    /\ owner = [pc |-> "none", conn |-> 0]
    /\ sockOpen = TRUE
    /\ todo = [serve |-> {}, owner |-> {}, sweeper |-> {}]
    /\ rtodo = [s \in Sessions |-> {}]

ServeStep ==
    \/ GetSession \/ OpenBegin \/ Opened \/ OpenFails
    \/ Insert \/ Evict \/ InsertAfterEvict
    \/ WriteBegin \/ WriteEnd \/ ServeDrops \/ ServeDropped
    \/ \E s \in Sessions : ServeCloses(s)

OwnerStep ==
    \/ SetQuicConnEnds \/ ClearTakes \/ ClearEnds \/ CloseEnds
    \/ \E s \in Sessions : OwnerCloses(s)

SweeperStep == SweepTick \/ Sweep \/ \E s \in Sessions : SweeperCloses(s)

ReaderStep(r) == ReaderDrops(r) \/ \E s \in Sessions : ReaderCloses(r, s)

Next ==
    \/ \E c \in Clients : Receive(c)
    \/ ServeStep \/ ServeEnds
    \/ SetQuicConn \/ ClearQuicConn \/ Close \/ OwnerStep
    \/ SweeperStep
    \/ \E s \in Sessions : Downlink(s) \/ ReadEnds(s) \/ ReaderStep(s) \/ TimePasses(s)
    \/ TunnelDies

Spec == Init /\ [][Next]_vars

(* Goroutines run: a write ends with its deadline, an open with its        *)
(* timeout, a read when its stream has ended. Who waits for sessMu gets it *)
(* however often the sweeper does: Go's mutexes do not starve a waiter.    *)
(* Clients need not send.                                                  *)
Fairness ==
    /\ SF_vars(ServeStep) /\ SF_vars(OwnerStep)
    /\ \A s \in Sessions : WF_vars(SweeperCloses(s))
    /\ \A s \in Sessions : SF_vars(ReaderStep(s))
    /\ \A s \in Sessions : WF_vars(~Works(s) /\ ReadEnds(s))
    /\ WF_vars(Sweep)

FairSpec == Spec /\ Fairness

(* Minutes pass: the sweeper ticks, sessions become idle. *)
ClockRuns ==
    /\ WF_vars(SweepTick)
    /\ \A s \in Sessions : WF_vars(TimePasses(s))

-----------------------------------------------------------------------------
(* Properties *)

ServePc == {"read", "look", "open", "opening", "insert", "put", "write",
            "writing", "drop", "dropped", "done"}

TypeOK ==
    /\ tunnel \in 0..MaxTunnels /\ up \in BOOLEAN /\ conn \in 0..MaxTunnels
    /\ table \in [Clients -> 0..MaxStreams]
    /\ opened \in 0..MaxStreams
    /\ client \in [Sessions -> Clients \cup {None}]
    /\ over \in [Sessions -> 0..MaxTunnels]
    /\ closed \subseteq Sessions
    /\ age \in [Sessions -> Ages]
    /\ sweeping \in BOOLEAN /\ sweeper \in {"none", "tick", "sweep"}
    /\ reader \in [Sessions -> {"none", "read", "drop", "done"}]
    /\ serve \in [pc : ServePc, key : Clients \cup {None}, sess : 0..MaxStreams,
                  conn : 0..MaxTunnels]
    /\ owner \in [pc : {"none", "set", "clear", "closing", "sock"}, conn : 0..MaxTunnels]
    /\ sockOpen \in BOOLEAN
    /\ todo \in [serve : SUBSET Sessions, owner : SUBSET Sessions, sweeper : SUBSET Sessions]
    /\ rtodo \in [Sessions -> SUBSET Sessions]

(* Some goroutine is about to close the session. *)
Doomed(s) == \/ s \in todo.serve \cup todo.owner \cup todo.sweeper
             \/ \E r \in Sessions : s \in rtodo[r]

(* No stream leaks: an open session is in the table under its client's     *)
(* address, where the next datagram, the sweeper and Close find it, or is  *)
(* just being put there, or somebody is about to close it, whoever replaces*)
(* the table or drops by address in between.                               *)
NoLeak ==
    \A s \in Sessions : (s <= opened /\ s \notin closed) =>
        \/ table[client[s]] = s
        \/ serve.pc \in {"insert", "put"} /\ serve.sess = s
        \/ Doomed(s)

(* The table never grows past maxUDPSessions, although newSession lets go  *)
(* of the lock between making room and inserting.                          *)
TableBounded == Cardinality(Live) <= MaxUDPSessions

(* As long as there are sessions there is a sweeper, and only one: it      *)
(* cannot leave while newSession counts on it.                             *)
SweeperRuns ==
    /\ sweeping <=> sweeper # "none"
    /\ Live # {} => sweeping

(* newSession never finds a session that somebody else made for the        *)
(* address it is opening a stream for, so none is wasted.                  *)
InsertsAlone == serve.pc \in {"open", "opening", "insert", "put"} => table[serve.key] = 0

(* A session over a tunnel that is gone leaves the table without waiting   *)
(* for anybody to be idle: also one that was being opened while            *)
(* SetQuicConn or ClearQuicConn emptied the table.                         *)
StaleGoesAway ==
    \A s \in Sessions : (s \in Held /\ ~Works(s)) ~> (s \notin Held)

(* Serve, the one goroutine that reads the port, always gets back to it:   *)
(* it is not stuck behind a session, the sweeper or a dead tunnel.         *)
ServeReturns == (serve.pc # "read") ~> (serve.pc \in {"read", "done"})

(* After Close every stream is closed in the end if time goes on, also one *)
(* that Serve was opening meanwhile and put into the table of a closed     *)
(* runner.                                                                 *)
CloseReleases == ClockRuns =>
    \A s \in Sessions : (~sockOpen /\ s <= opened) ~> (s \in closed)
=============================================================================
