------------------------------- MODULE Relay -------------------------------
(***************************************************************************)
(* One forwarded connection from end to end: the application at Local, the *)
(* relay there (handleConn, ForwardTCPConn, ForwardUdpConn), a stream of   *)
(* the tunnel, the relay at Remote (process_stream) and the service it     *)
(* dials; Relay and RelayUDPIdle (proxy/proxy_io.go) on both sides.        *)
(*                                                                         *)
(* A direction is three hops: application to relay, relay to relay, relay  *)
(* to application. Data is numbered; 0 on the stream is the header. The    *)
(* streams (quic-go, smux) and the kernel's sockets are modelled from how  *)
(* the code uses them.                                                     *)
(*                                                                         *)
(* Init, Next and the rest carry the prefix Relay, so that ProxyProofs can *)
(* extend this module together with ForwardManager.                        *)
(***************************************************************************)
EXTENDS Integers, Sequences

CONSTANTS
    Kinds,      \* of connection: "tcp", "udp"
    Transports, \* "quic", "kcp"
    MaxData,    \* bound: pieces of data, by direction
    Room        \* pieces a hop holds before its writer blocks

ASSUME RelayAssumption ==
    /\ Kinds \subseteq {"tcp", "udp"} /\ Transports \subseteq {"quic", "kcp"}
    /\ MaxData \in [{"up", "down"} -> Nat] /\ Room \in Nat \ {0}

Dirs == {"up", "down"}
Sides == {"local", "remote"}

VARIABLES
    kind, transport,
    hop,      \* per direction, three hops: buf, fin (end sent), dead (reader gone)
    copy,     \* per direction, the two copyBuf goroutines
    phase,    \* of each side's handler
    syn,      \* the stream can be accepted at Remote
    expired,  \* what of each side the idle timer has given a deadline
    tunnelUp, \* the tunnel is up
    sent,     \* per direction, data the application has written
    void,     \* per direction, the datagrams that are empty or were dropped by a socket
    got,      \* per direction, data the other application has read
    faulty    \* something other than the applications ended the connection

relayVars == <<kind, transport, hop, copy, phase, syn, expired, tunnelUp, sent, void,
               got, faulty>>

Opp(d) == IF d = "up" THEN "down" ELSE "up"

(* The direction in which side s writes to the stream.                     *)
Out(s) == IF s = "local" THEN "up" ELSE "down"

(* The side that runs the copy from hop h to hop h + 1 of direction d.     *)
SideOf(d, h) == CHOOSE s \in Sides : (Out(s) = d) <=> (h = 1)

(* The two ends of that copy. *)
Source(h) == IF h = 1 THEN "conn" ELSE "stream"
Sink(h) == IF h = 1 THEN "stream" ELSE "conn"

-----------------------------------------------------------------------------
(* Closing *)

(* CancelRead and Close of the stream at side s: nothing more comes out of *)
(* it and nothing more goes in.                                            *)
CloseStream(H, s) ==
    [H EXCEPT ![Out(s)][2].fin = TRUE, ![Opp(Out(s))][2].dead = TRUE]

(* Mutant of CloseWriteStream: as before the half close was introduced.    *)
CloseWriteStreamBoth(H, s) == CloseStream(H, s)

(* closeWrite of the stream: a half close on QUIC; smux closes all of it.  *)
CloseWriteStream(H, s) ==
    IF transport = "kcp" THEN CloseStream(H, s)
    ELSE [H EXCEPT ![Out(s)][2].fin = TRUE]

(* Close of the connection to the application. A TCP connection closed     *)
(* with data unread is reset.                                              *)
CloseConn(H, s) ==
    [H EXCEPT ![Out(s)][1].dead = TRUE,
              ![Opp(Out(s))][3].fin = TRUE,
              ![Opp(Out(s))][3].dead = @ \/ (kind = "tcp" /\ H[Out(s)][1].buf # <<>>)]

Shut(s) == hop' = CloseStream(CloseConn(hop, s), s)

-----------------------------------------------------------------------------
(* The applications *)

MayWrite(d) ==
    /\ sent[d] < MaxData[d] /\ ~hop[d][1].fin /\ ~hop[d][1].dead
    /\ d = "down" => phase["remote"] \in {"relay", "done"}

Voids(d, n) == void' = [void EXCEPT ![d] = @ \cup {n}]

AppWrites(d) ==
    /\ MayWrite(d) /\ Len(hop[d][1].buf) < Room
    /\ sent' = [sent EXCEPT ![d] = @ + 1]
    /\ hop' = [hop EXCEPT ![d][1].buf = Append(@, sent[d] + 1)]
    /\ UNCHANGED <<kind, transport, copy, phase, syn, expired, tunnelUp, void,
                   got, faulty>>

(* An empty datagram. *)
AppWritesEmpty(d) ==
    /\ kind = "udp" /\ MayWrite(d) /\ Len(hop[d][1].buf) < Room
    /\ sent' = [sent EXCEPT ![d] = @ + 1]
    /\ Voids(d, sent[d] + 1)
    /\ hop' = [hop EXCEPT ![d][1].buf = Append(@, sent[d] + 1)]
    /\ UNCHANGED <<kind, transport, copy, phase, syn, expired, tunnelUp, got,
                   faulty>>

(* A datagram does not reach the relay: its socket is full, or the network *)
(* loses it.                                                               *)
AppWriteDropped(d) ==
    /\ kind = "udp" /\ MayWrite(d)
    /\ sent' = [sent EXCEPT ![d] = @ + 1]
    /\ Voids(d, sent[d] + 1)
    /\ UNCHANGED <<kind, transport, hop, copy, phase, syn, expired, tunnelUp, got,
                   faulty>>

(* The application shuts down its writing side; UDP has no such thing.     *)
AppEnds(d) ==
    /\ kind = "tcp" /\ ~hop[d][1].fin
    /\ d = "down" => phase["remote"] \in {"relay", "done"}
    /\ hop' = [hop EXCEPT ![d][1].fin = TRUE]
    /\ UNCHANGED <<kind, transport, copy, phase, syn, expired, tunnelUp, sent,
                   void, got, faulty>>

AppReads(d) ==
    /\ hop[d][3].buf # <<>> /\ ~hop[d][3].dead
    /\ got' = [got EXCEPT ![d] = Append(@, Head(hop[d][3].buf))]
    /\ hop' = [hop EXCEPT ![d][3].buf = Tail(@)]
    /\ UNCHANGED <<kind, transport, copy, phase, syn, expired, tunnelUp, sent,
                   void, faulty>>

(* The application at side s is gone: reset, or port unreachable.          *)
AppAborts(s) ==
    /\ ~faulty
    /\ faulty' = TRUE
    /\ hop' = [hop EXCEPT ![Out(s)][1].dead = TRUE, ![Opp(Out(s))][3].dead = TRUE]
    /\ UNCHANGED <<kind, transport, copy, phase, syn, expired, tunnelUp, sent,
                   void, got>>

(* The tunnel is lost or released: its streams fail on both sides.         *)
TunnelEnds ==
    /\ tunnelUp /\ ~faulty
    /\ tunnelUp' = FALSE /\ faulty' = TRUE
    /\ hop' = [hop EXCEPT !["up"][2].dead = TRUE, !["down"][2].dead = TRUE]
    /\ UNCHANGED <<kind, transport, copy, phase, syn, expired, sent, void,
                   got>>

-----------------------------------------------------------------------------
(* Local: handleConn, ForwardTCPConn, ForwardUdpConn *)

(* OpenStreamSync returns a stream; smux announces it at once.             *)
OpenStream ==
    /\ phase["local"] = "open" /\ tunnelUp
    /\ phase' = [phase EXCEPT !["local"] = "head"]
    /\ syn' = (transport = "kcp")
    /\ UNCHANGED <<kind, transport, hop, copy, expired, tunnelUp, sent, void,
                   got, faulty>>

(* It fails or takes longer than ten seconds; on KCP the OpenStream under  *)
(* way goes on.                                                            *)
OpenFails ==
    /\ phase["local"] = "open"
    /\ hop' = CloseConn(hop, "local")
    /\ phase' \in {[phase EXCEPT !["local"] = p] :
                     p \in IF transport = "kcp" THEN {"late", "done"} ELSE {"done"}}
    /\ faulty' = TRUE
    /\ UNCHANGED <<kind, transport, copy, syn, expired, tunnelUp, sent, void,
                   got>>

(* The stream that comes late is closed. *)
LateStream ==
    /\ phase["local"] = "late"
    /\ phase' = [phase EXCEPT !["local"] = "done"]
    /\ hop' = CloseStream(hop, "local")
    /\ syn' = tunnelUp
    /\ UNCHANGED <<kind, transport, copy, expired, tunnelUp, sent, void, got,
                   faulty>>

StartRelay(s) ==
    /\ phase' = [phase EXCEPT ![s] = "relay"]
    /\ copy' = [copy EXCEPT ![Out(s)][1] = "run", ![Opp(Out(s))][2] = "run"]

(* The header goes first. *)
WriteHead ==
    /\ phase["local"] = "head" /\ ~hop["up"][2].dead
    /\ hop' = [hop EXCEPT !["up"][2].buf = Append(@, 0)]
    /\ syn' = TRUE
    /\ StartRelay("local")
    /\ UNCHANGED <<kind, transport, expired, tunnelUp, sent, void, got,
                   faulty>>

WriteHeadFails ==
    /\ phase["local"] = "head" /\ hop["up"][2].dead
    /\ phase' = [phase EXCEPT !["local"] = "done"]
    /\ Shut("local")
    /\ faulty' = TRUE
    /\ UNCHANGED <<kind, transport, copy, syn, expired, tunnelUp, sent, void,
                   got>>

-----------------------------------------------------------------------------
(* Remote: ProcessProxyServer, process_stream *)

AcceptStream ==
    /\ phase["remote"] = "none" /\ syn /\ tunnelUp
    /\ phase' = [phase EXCEPT !["remote"] = "head"]
    /\ UNCHANGED <<kind, transport, hop, copy, syn, expired, tunnelUp, sent,
                   void, got, faulty>>

ReadHead ==
    /\ phase["remote"] = "head"
    /\ hop["up"][2].buf # <<>> /\ ~hop["up"][2].dead
    /\ hop' = [hop EXCEPT !["up"][2].buf = Tail(@)]
    /\ phase' = [phase EXCEPT !["remote"] = "dial"]
    /\ UNCHANGED <<kind, transport, copy, syn, expired, tunnelUp, sent, void,
                   got, faulty>>

(* No header within headReadTimeout, or the stream fails or ends.          *)
ReadHeadFails ==
    /\ phase["remote"] = "head"
    /\ hop["up"][2].buf = <<>> \/ hop["up"][2].dead
    /\ phase' = [phase EXCEPT !["remote"] = "done"]
    /\ hop' = CloseStream(hop, "remote")
    /\ faulty' = TRUE
    /\ UNCHANGED <<kind, transport, copy, syn, expired, tunnelUp, sent, void,
                   got>>

Dialled ==
    /\ phase["remote"] = "dial"
    /\ StartRelay("remote")
    /\ UNCHANGED <<kind, transport, hop, syn, expired, tunnelUp, sent, void,
                   got, faulty>>

DialFails ==
    /\ phase["remote"] = "dial"
    /\ phase' = [phase EXCEPT !["remote"] = "done"]
    /\ hop' = CloseStream(hop, "remote")
    /\ faulty' = TRUE
    /\ UNCHANGED <<kind, transport, copy, syn, expired, tunnelUp, sent, void,
                   got>>

(* The connection is for the built-in proxy, which serves the stream and   *)
(* leaves it to process_stream to close.                                   *)
ServesProxy ==
    /\ phase["remote"] = "dial" /\ kind = "tcp"
    /\ phase' = [phase EXCEPT !["remote"] = "done"]
    /\ hop' = CloseStream(hop, "remote")
    /\ faulty' = TRUE
    /\ UNCHANGED <<kind, transport, copy, syn, expired, tunnelUp, sent, void,
                   got>>

-----------------------------------------------------------------------------
(* Relay, RelayUDPIdle *)

Expired(d, h, end) == end \in expired[SideOf(d, h)]

SinkFails(d, h) ==
    hop[d][h + 1].dead \/ hop[d][h + 1].fin \/ Expired(d, h, Sink(h))

CanRead(d, h) == hop[d][h].buf # <<>> /\ ~hop[d][h].dead
                   /\ ~Expired(d, h, Source(h))

ReadFails(d, h) ==
    \/ hop[d][h].dead \/ Expired(d, h, Source(h))
    \/ hop[d][h].buf = <<>> /\ hop[d][h].fin

(* Mutant of Moved: a piece that does not fit is written again. *)
MovedTwice(d, h) ==
    [hop EXCEPT ![d][h].buf = IF Len(hop[d][h + 1].buf) = 0 THEN @ ELSE Tail(@),
                ![d][h + 1].buf = Append(@, Head(hop[d][h].buf))]

Moved(d, h) ==
    [hop EXCEPT ![d][h].buf = Tail(@),
                ![d][h + 1].buf = Append(@, Head(hop[d][h].buf))]

(* n > 0 of RelayUDPIdle: an empty datagram is not passed on. *)
HasData(d, h) == Head(hop[d][h].buf) \notin void[d]

(* A piece is read and written. *)
CopyMoves(d, h) ==
    /\ copy[d][h] = "run"
    /\ CanRead(d, h) /\ HasData(d, h)
    /\ ~SinkFails(d, h) /\ Len(hop[d][h + 1].buf) < Room
    /\ hop' = Moved(d, h)
    /\ UNCHANGED <<kind, transport, copy, phase, syn, expired, tunnelUp, sent,
                   void, got, faulty>>

(* A piece is read and the write fails, or it goes nowhere because the     *)
(* other side has not yet been heard to be gone.                           *)
CopyLoses(d, h) ==
    /\ copy[d][h] = "run"
    /\ CanRead(d, h) /\ HasData(d, h) /\ SinkFails(d, h)
    /\ hop' = [hop EXCEPT ![d][h].buf = Tail(@)]
    /\ \/ copy' = [copy EXCEPT ![d][h] = "close"]
       \/ /\ hop[d][h + 1].dead /\ ~hop[d][h + 1].fin /\ ~Expired(d, h, Sink(h))
          /\ UNCHANGED copy
    /\ UNCHANGED <<kind, transport, phase, syn, expired, tunnelUp, sent, void,
                   got, faulty>>

(* RelayUDPIdle reads an empty datagram: nothing is written, the timer is  *)
(* not reset.                                                              *)
CopySkips(d, h) ==
    /\ kind = "udp" /\ copy[d][h] = "run"
    /\ CanRead(d, h) /\ ~HasData(d, h)
    /\ hop' = [hop EXCEPT ![d][h].buf = Tail(@)]
    /\ UNCHANGED <<kind, transport, copy, phase, syn, expired, tunnelUp, sent,
                   void, got, faulty>>

(* RelayUDPIdle writes a datagram to its UDP socket and it goes no further *)
(* (the reader's socket is full, the network loses it): never an error.    *)
CopyDrops(d, h) ==
    /\ kind = "udp" /\ h = 2 /\ copy[d][h] = "run"
    /\ CanRead(d, h) /\ HasData(d, h) /\ ~SinkFails(d, h)
    /\ hop' = [hop EXCEPT ![d][h].buf = Tail(@)]
    /\ Voids(d, Head(hop[d][h].buf))
    /\ UNCHANGED <<kind, transport, copy, phase, syn, expired, tunnelUp, sent, got,
                   faulty>>

CopyEnds(d, h) ==
    /\ copy[d][h] = "run"
    /\ ReadFails(d, h)
    /\ copy' = [copy EXCEPT ![d][h] = "close"]
    /\ UNCHANGED <<kind, transport, hop, phase, syn, expired, tunnelUp, sent,
                   void, got, faulty>>

(* closeWrite; RelayUDPIdle has none. *)
CopyCloses(d, h) ==
    /\ copy[d][h] = "close"
    /\ copy' = [copy EXCEPT ![d][h] = "done"]
    /\ hop' = IF kind = "udp" THEN hop
              ELSE IF h = 1 THEN CloseWriteStream(hop, SideOf(d, 1))
              ELSE [hop EXCEPT ![d][3].fin = TRUE]
    /\ UNCHANGED <<kind, transport, phase, syn, expired, tunnelUp, sent, void,
                   got, faulty>>

(* The copy at hop h has data to read and can go on: a UDP socket never    *)
(* blocks its writer.                                                      *)
Active(d, h) ==
    /\ CanRead(d, h) /\ HasData(d, h)
    /\ \/ SinkFails(d, h) \/ Len(hop[d][h + 1].buf) < Room
       \/ kind = "udp" /\ h = 2

Idle(d, h) ==
    \/ copy[d][h] = "done"
    \/ copy[d][h] = "run" /\ ~ReadFails(d, h) /\ ~Active(d, h)

(* Mutant: the read of the connection keeps its deadline. *)
ExpireStream(s) == expired' = [expired EXCEPT ![s] = {"stream"}]

(* newIdleTimer: every deadline is set to now. *)
Expire(s) == expired' = [expired EXCEPT ![s] = {"conn", "stream"}]

(* The timer, reset by every piece read: it fires when neither copy of the *)
(* side has had anything to do for so long.                                *)
IdleFires(s) ==
    /\ phase[s] = "relay" /\ expired[s] = {}
    /\ Idle(Out(s), 1) /\ Idle(Opp(Out(s)), 2)
    /\ Expire(s)
    /\ faulty' = TRUE
    /\ UNCHANGED <<kind, transport, hop, copy, phase, syn, tunnelUp, sent,
                   void, got>>

(* Both copies are done: everything is closed. *)
RelayReturns(s) ==
    /\ phase[s] = "relay"
    /\ copy[Out(s)][1] = "done" /\ copy[Opp(Out(s))][2] = "done"
    /\ phase' = [phase EXCEPT ![s] = "done"]
    /\ Shut(s)
    /\ UNCHANGED <<kind, transport, copy, syn, expired, tunnelUp, sent, void,
                   got, faulty>>

-----------------------------------------------------------------------------
RelayInit ==
    /\ kind \in Kinds /\ transport \in Transports
    /\ hop = [d \in Dirs |-> [h \in 1..3 |->
                [buf |-> <<>>, fin |-> FALSE, dead |-> FALSE]]]
    /\ copy = [d \in Dirs |-> [h \in 1..2 |-> "none"]]
    /\ phase = [s \in Sides |-> IF s = "local" THEN "open" ELSE "none"]
    /\ syn = FALSE /\ tunnelUp = TRUE /\ faulty = FALSE
    /\ expired = [s \in Sides |-> {}]
    /\ sent = [d \in Dirs |-> 0] /\ got = [d \in Dirs |-> <<>>]
    /\ void = [d \in Dirs |-> {}]

Copy(d, h) ==
    \/ CopyMoves(d, h) \/ CopyLoses(d, h) \/ CopySkips(d, h) \/ CopyDrops(d, h)
    \/ CopyEnds(d, h) \/ CopyCloses(d, h)

LocalOpens == OpenStream \/ OpenFails \/ LateStream \/ WriteHead \/ WriteHeadFails

RemoteOpens == \/ AcceptStream \/ ReadHead \/ ReadHeadFails \/ Dialled
               \/ DialFails \/ ServesProxy

Side(s) == IdleFires(s) \/ RelayReturns(s)

RelayNext ==
    \/ \E d \in Dirs : \/ AppWrites(d) \/ AppWritesEmpty(d) \/ AppWriteDropped(d)
                      \/ AppEnds(d) \/ AppReads(d)
    \/ \E s \in Sides : AppAborts(s) \/ Side(s)
    \/ TunnelEnds \/ LocalOpens \/ RemoteOpens
    \/ \E d \in Dirs, h \in 1..2 : Copy(d, h)

RelaySpec == RelayInit /\ [][RelayNext]_relayVars

(* Calls return and timers fire; nothing is assumed of the applications.   *)
RelayFairSpec ==
    /\ RelaySpec
    /\ WF_relayVars(LocalOpens) /\ WF_relayVars(RemoteOpens)
    /\ \A s \in Sides : WF_relayVars(Side(s))
    /\ \A d \in Dirs, h \in 1..2 : WF_relayVars(Copy(d, h))

-----------------------------------------------------------------------------
(* Properties *)

Hop == [buf : Seq(Nat), fin : BOOLEAN, dead : BOOLEAN]

RelayTypeOK ==
    /\ kind \in Kinds /\ transport \in Transports
    /\ hop \in [Dirs -> [1..3 -> Hop]]
    /\ \A d \in Dirs, h \in 1..3 : Len(hop[d][h].buf) <= Room
    /\ copy \in [Dirs -> [1..2 -> {"none", "run", "close", "done"}]]
    /\ phase \in [Sides -> {"none", "open", "late", "head", "dial", "relay", "done"}]
    /\ syn \in BOOLEAN /\ tunnelUp \in BOOLEAN /\ faulty \in BOOLEAN
    /\ expired \in [Sides -> SUBSET {"conn", "stream"}]
    /\ sent \in [Dirs -> Nat] /\ got \in [Dirs -> Seq(Nat)]
    /\ void \in [Dirs -> SUBSET Nat]
    /\ \A d \in Dirs : sent[d] <= MaxData[d]

(* What was read is a beginning of what was written.                       *)
Beginning(d) ==
    /\ Len(got[d]) <= sent[d]
    /\ \A i \in 1..Len(got[d]) : got[d][i] = i

(* What was read was written, each datagram at most once and in order, and *)
(* those missing before the last one read are empty or were dropped by a   *)
(* socket.                                                                 *)
Selection(d) ==
    /\ \A i, j \in 1..Len(got[d]) : i < j => got[d][i] < got[d][j]
    /\ \A i \in 1..Len(got[d]) :
         /\ got[d][i] \in 1..sent[d]
         /\ \A n \in 1..got[d][i] :
              n \notin void[d] => \E j \in 1..i : got[d][j] = n

(* What the other application reads of a TCP connection is a beginning of  *)
(* what was written: nothing is lost in the middle, repeated or taken for  *)
(* the header, on any transport and however the connection ends. Of UDP    *)
(* the two relays and the stream lose nothing in the middle either, repeat *)
(* and reorder nothing: only the sockets at the ends drop datagrams, and   *)
(* RelayUDPIdle the empty ones.                                            *)
Prefix ==
    /\ RelayTypeOK
    /\ \A d \in Dirs : IF kind = "tcp" THEN Beginning(d) ELSE Selection(d)

AtEof(d) == hop[d][3].fin /\ ~hop[d][3].dead /\ hop[d][3].buf = <<>>

(* On QUIC an end of stream that an application sees is the other one's:   *)
(* it closed its writing side and all it wrote has arrived. In particular  *)
(* an application may close its side and still read the whole answer.      *)
EofIsReal ==
    kind = "tcp" /\ transport = "quic" /\ ~faulty =>
        \A d \in Dirs : AtEof(d) => /\ hop[d][1].fin
                                    /\ Len(got[d]) = sent[d]

(* Every connection is released on both sides, whatever the applications   *)
(* and the tunnel do: a silent one by the idle timer, one that was never   *)
(* set up by the timeouts of the open, the header and the dial.            *)
Released == \A s \in Sides :
    (phase[s] # "none") ~> (phase[s] = "done" /\ (syn => hop[Out(s)][2].fin))
=============================================================================
