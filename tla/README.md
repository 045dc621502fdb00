# GoodLink in TLA+

GoodLink connects two computers behind NATs by a tunnel they punch through UDP.
A *Local* asks for the tunnel, a *Remote* offers it, and the two meet through
Redis. A UI process supervises the workers that do this and edits their
configuration. This directory models the parts of the program in which order,
concurrency and failure matter, checks them with TLC on small instances and
proves the most important properties with TLAPS.

## 1. The system

| Component | Source | State | Operations | Talks to |
|---|---|---|---|---|
| rendezvous | `pro/local.go`, `pro/remote.go`, `pro/comm.go` | registration key shared by all Locals of a tunnel, one record per session, each side's copy of the record, its endpoint, its attempt counter | register, claim, send address, answer, wait, refuse, time out, release | Redis, package `tun`, STUN, UPnP, the UI by status lines |
| process supervisor | `ui2/start.go`, `ui2/state.go`, `ui2/ui.go` | per service: `started`, `autoRestart`, `cmd`, `gen`, pid file, status | `HandleStart`, `HandleStop`, delayed stops, waiter, automatic restart, status lines | workers (pipes, signals), HTTP handlers |
| coalescing sender | `udpbatch/batch_windows.go` | queue, `closed`, `fatal`, `sender`, kick channel, condition variable | `WriteTo`, `Close`, `sendLoop` | the UDP socket, quic-go above it |
| batch grouping | `udpbatch/udpbatch.go`, `batch_linux.go` | none | group datagrams of one size and address | coalescing sender |
| UDP forwarding | `proxy/proxy_l.go` | table of sessions by client address, tunnel connection, sweeper flag | serve, open, evict, sweep, read back, change tunnel | tunnel streams, forward manager |
| TCP forwarding, relay, frames | `proxy/proxy_l.go`, `proxy_r.go`, `proxy_io.go` | two half-open directions per connection | accept, relay, half-close, frame | tunnel streams |
| forward manager | `proxy/forward_mgr.go`, watcher in `pro/local.go` | runners by listen address, built-in proxy, tunnel connection | apply rules, start/stop proxy, set tunnel, close | configuration file, runners |
| STUN | `stun2/cli.go`, `stun2/svr.go` | client: round, entry, address, request, result; server: transactions seen in the last seconds | search, answer, correlate | rendezvous, NAT detection |
| configuration | `config/uiconfig.go`, `ui2/state.go` | services and rules, in memory and on disk | normalise, validate, save, rename, delete, import | supervisor, workers |
| self update | `ui2/upgrade.go` | files old, new, staged; phase | check, download, swap, roll back | supervisor |
| UPnP | `upnp/upnp.go` | mappings made, ports to keep | add, delete, clean | rendezvous |
| pid files, single instance | `utils/` | pid files, lock | write, remove, clean up orphans | supervisor |
| network stack, transports, API, front end, `winipcfg` | `netstack/`, `tls2/`, `ui2/server.go`, `ui2/frontend/`, `winipcfg/` | mostly that of libraries | adapters | |

What is hard:

* *rendezvous*: no Redis command is conditional and none is retried. Exists/Set,
  Get/Del and Get/Set interleave; either side dies halfway; keys expire; errors
  of writes are ignored. Correct means: the endpoints of one session fit, nobody
  dials an address it does not have, State only moves forward, every attempt
  ends and the Remote is never stuck in a session.
* *supervisor*: starts, stops, stops delayed by 500 ms, waiters of several
  generations and scanners of dead workers run at once under two locks, and the
  status is under a third. Correct means: the record is one generation or none,
  no worker is lost or doubled, a crashed worker comes back, Stopping passes.
* *UDP forwarding*: sessions are dropped by address, not by identity, outside the
  lock that protects the table, while the tunnel under them is replaced. Correct
  means: no stream is forgotten, the table keeps to its limit, sessions of a dead
  tunnel go, the one reading goroutine is never stuck.
* *coalescing sender*: a goroutine that starts on demand and leaves when idle, a
  condition variable, a one-token channel, partial writes. Correct means: one
  sender, no abandoned datagram, no lost wake-up, order kept, Close returns.
* *forward manager*: rules change in a file while listeners fail, tunnels come and
  go and the process is told to stop. Correct means: every socket has an owner,
  every listener the current tunnel, what was applied is in force, and a change
  that can be applied is applied in the end.
* *relay*: four copying goroutines per connection, half closes, an idle timer that
  sets deadlines under them, streams that open after the wait for them was given
  up. Correct means: a TCP reader gets a beginning of what was written, a UDP
  reader gets datagrams once and in order, an end of stream is a real one, both
  sides are released.
* *configuration*: handlers change memory, validate, and save through one `.tmp`
  file, without a lock across these. Correct means: the file is always a whole
  and valid list, a failed start, creation, deletion or import leaves nothing
  behind (the edits of one service keep their change in memory, by the code's
  design), deleted is deleted.
* *pid files*: the UI dies or quits at any moment, workers do not die with it,
  numbers are reused, processes refuse. Correct means: a live worker is on
  record, the next UI finds it and kills nobody else.
* *self update*: the program replaces itself, file by file, with operations that
  fail. Correct means: there is always an executable to start, and an update that
  ends does not leave the new executable with the old `wintun.dll`. (The other
  mixture is possible: when the new program cannot be started, only the
  executable goes back, `upgrade.go:257`.)
* *STUN*: one transaction ID for three requests over UDP; lengths from the network
  in 16 bits. Correct means: the address and the NAT type are right, the parser
  stays in the packet.

`PROJECT.json` lists the hazards with their lines and the properties that would
catch them.

## 2. Modules

| Module | Models | Checked by | Proved in |
|---|---|---|---|
| `Session` | rendezvous, any number of Locals, one Remote | `MCSession` | `RendezvousProofs` |
| `Supervisor` | supervisor for one service | `MCSupervisor` | `SupervisorProofs` |
| `Coalesce` | `coalesceConn` | `MCCoalesce` | `CoalesceProofs` |
| `DatagramQueue` | what `coalesceConn` promises; `Coalesce` implements it | `MCCoalesce` | `CoalesceProofs` |
| `UdpForward` | `ForwardUDPClient` | `MCUdpForward` | `UdpForwardProofs` |
| `ForwardManager` | forward manager, its watcher, `RunLocal`, `StopLocal` | `MCForwardManager` | `ProxyProofs` |
| `Relay` | one forwarded connection from end to end | `MCRelay` | `ProxyProofs` |
| `ConfigStore` | service list, handlers, `goodlink.json` | `MCConfigStore` | `ConfigStoreProofs` |
| `Workers` | UI processes, workers, pid files | `MCWorkers` | `WorkersProofs` |
| `SelfUpdate` | download and updater | `MCSelfUpdate` | `SelfUpdateProofs` |
| `StunMessage`, `Stun` | attributes as bytes; client, servers and network | `MCStun` | `RendezvousProofs` |

Definitions whose comment begins with "Mutant" are variants of the definition
after them with a plausible mistake; no specification uses them, and
`PROJECT.json` says which property each of them breaks.

### Session

`regKey` is the value under `m_md5_tun_key`, `sess[s]` the one under the key of
session `s`. Each Local has a program counter, its session, the NAT type STUN
gave it, its copy of the record, its endpoint and its count; the Remote has one
of each, because `RunRemote` calls `processSession` synchronously, and the set
of sessions its goroutines serve.

One action is one Redis command together with the local work around it. A poll
loop of `n` turns is one action that finds what it waits for and one that gives
up; how many turns fit between two steps of the other side is not bounded, so
giving up is possible at every poll. A session identifier is random in the code
and fresh in the model. A record keeps the fields somebody branches on: state,
versions, the Remote's settings, and of each address whether it is there and
which NAT type it shows. `Faults` is the set of Redis commands that may fail.
`LocalCrash` and `RemoteCrash` stand for a kill, a crash and a stop: the process
exits in each case, and only Redis remembers.

Package `tun` is not in the repository. The model says only that two started
endpoints of one session with complementary roles and one transport may get a
connection, or a signal without one.

### Supervisor

`started`, `autoRestart`, `cur` (the `cmd`) and `gen` are the `svcProc`;
`pidFile` the generation whose pid the file holds. A generation has a process
(`child`), a waiter and a scanner. `startMu` is the variable `starter`, with the
program counter of its holder. A *stopper* is a call of `HandleStop` with its
goroutine, or the tail of `updateConnectionStatus` after a fatal line with the
goroutine that stops the service 500 ms later. Each critical section of `procMu`
and each access to the status is a step of its own; delays are not measured.

### Coalesce

A critical section of `mu` is one step. `waiting` is the set of goroutines in
`cond.Wait`, which only a Broadcast empties. Datagrams are numbered as they are
accepted, so order and uniqueness can be read off `written`. What `WriteBatch`
does is abstracted to how many datagrams of the batch went out and what kind of
error followed; on a closed socket a write fails at once.

### UdpForward

`table` is `p.sessions`, `conn` is `p.quicConn`; a session is numbered in the
order of `createdAt`. Serve, the owner (who calls `SetQuicConn`,
`ClearQuicConn` and `Close` one at a time, as the forward manager does under its
lock), the sweeper and one `readBack` per session take steps. A critical section
of `sessMu` is one step except the sweeper's: it asks each session for
`lastUsed` under the session's own mutex, which Serve holds during a write, so
the sweeper can wait while it holds `sessMu`. Whoever takes sessions out of the
table keeps them in `todo` (or `rtodo`) until each is closed, which again needs
the session's mutex. `age` abstracts `lastUsed` to what the sweep tells apart,
and remembers whether the far end has been heard of since.
The branch of `newSession` that finds a session already there is not an action:
Serve alone inserts, and `InsertsAlone` shows that the branch is never taken.

### DatagramQueue

A bounded queue with two actions: a datagram is accepted; the first few of those
pending go out, the next few are dropped, and from some moment on the queue
refuses. `Coalesce` maps the rest of the sender's batch followed by `queue` to
`pending`, `written` to `out` and `closed \/ fatal` to `refusing`; every other
variable is hidden, and most of its steps are stutters.

### ForwardManager

A method of the manager runs under `m.mu` and is one step: `ApplySome` is
all of `Apply` with the set of keys whose bind fails as its input. `entries` are the
runners by listen key, `bound` the sockets the process holds (which the code does
not know as a set, and which `SocketsOwned` compares with `entries`). `saved` is
the file, changed by the environment; `seen` and `last` are the watcher's two
variables, and its two reads of the file are two steps. `RunLocal` looks at
`m_local_state` when an attempt begins, and gives the manager a connection without
looking again. `state` is
`m_local_state`, written without a lock by `RunLocal` and `StopLocal`. A rule is
a key and a target; a saved configuration is valid, refused by the validation,
refused also by `RulesFromUI`, or without the service.

### Relay

A direction is three hops, each a buffer of at most `Room` pieces with a flag for
the end of stream and one for a reader that has gone. The four `copyBuf` calls
move pieces between hops; the header is piece 0 of the stream. For UDP a piece is
a datagram, and `void` says which of them are empty or were dropped by a socket:
an application's datagram may be empty or not reach the relay, `RelayUDPIdle`
reads an empty one and writes nothing (`HasData`, `CopySkips`), and what it writes
to its UDP socket may go no further (`CopyDrops`), because a UDP socket never makes
its writer wait. Closing differs by
transport: QUIC streams close for writing only, KCP streams (smux) close whole.
The idle timer sets deadlines on both ends, which end the reads. `faulty` records
that something other than the two applications ended the connection. quic-go,
smux and the sockets are modelled from how the code uses them. The names of the
specification carry the prefix `Relay`, so that one module of proofs can extend
it together with `ForwardManager`. What the built-in proxy does with a stream is
one step that ends in closing it.

### ConfigStore

Every request is a handler with a program counter, because the HTTP server runs
it in a goroutine of its own and no lock spans its steps. Files are inodes: a
handler that has opened `.tmp` goes on writing to it when another one renames
it, and one that copies in place holds the inodes it opened. An import may
bring a service under any id, also one that is in use or was deleted. A service is reduced to what the validation compares. `overlapped` is a
history variable; two properties are promised only while requests come one at a
time, because that is what the code gives.

### Workers

Several UIs may be launched; the mutex lets one in. Its memory (`rec`, `start`,
`stops`, ...) is lost with it, the process table and the pid files are not. A
worker that died stays in the table until its waiter has waited for it, so its
number is not reused before.

The clean-up (`clean`) goes from file to file, and for each reads the number, asks
`processAlive`, then `processImageMatches`, then calls `KillProcess`: four steps,
because the code opens the process by its number each time, and it may have ended
and the number be another's in between. `Admins` are the UIs with administrator
rights; the administrator's copy that `RelaunchAsAdmin` starts is a launch of its
own, and a user who cancels the dialogue goes on without the rights. Such a UI may
be refused when it opens or ends a worker of one that had them (`Beyond`): the
code takes a refusal for a process that has ended, or does not look at it, and
removes the file. Other programs' processes may refuse as well or be killed. A UI's
own child is always killed: it runs with the UI's rights.

`lost` is a history variable: live workers no file leads to. These are, when a UI
ends, a worker between `cmd.Start` and `WriteWorkerPid`, one between
`RemoveWorkerPid` and the kill, one whose service was deleted during its start and
one started while the UI quits; a worker whose file could not be written in either
place, which is not reported; and one the clean-up was refused. The two
directories for pid files are one: the second is used when the first cannot be
written.

### SelfUpdate

A file has three names, its own, `.new` and `.old`, and holds a version or is
torn. Renaming, removing and copying are steps that may fail; a running
executable can be renamed but not overwritten. A program that starts may remove
any `.old` that is not in use, because the age it looks at is the time of
modification, which renaming keeps. The updater goes through
`applyZip`, `replaceFile` with its fallback by copying, the way back when
`wintun.dll` cannot be replaced, and `restoreAndRestart`; it may be killed anywhere. A package without any checksum
list is not verified by the code and is not among `Zips`. That the UI stops its
workers before it exits (`StopCmdProcess`) is in `Workers`.

### StunMessage and Stun

`StunMessage` has the attributes as bytes: what the server builds, and the walk
of the client's parser with its 16-bit arithmetic, a slice outside the packet
being the value `Panic` (its `OutOfRange` holds 256, so it is no byte sequence).
Exclusive or is defined bit by bit, for bytes, with plain arithmetic, so that it
can be reasoned about. `Stun` puts a client, its own servers and other ones
around a NAT. A request may be lost, an answer lost, late or duplicated, and it
is taken by whichever read comes next. `mixed` is a history variable for an
answer taken for another request's.

## 3. Runs

| Run | Instance | Shows |
|---|---|---|
| `SessionSafety` | 2 Locals (one too old), QUIC and KCP, 2 sessions, 2 attempts, failing Exists/Get/Set | `EndpointsFit`, `DialsKnownAddress`, `StateNeverRegresses` |
| `SessionLive` | 1 Local, 2 sessions, 1 attempt, failing Set and Del | `AttemptEnds`, `RemoteGetsFree` |
| `Supervisor` | 2 generations, 1 stopper, three kinds of status line | `OneRecord`, `NoStrayChild`, `CrashRecovers`, `StoppingEnds` |
| `Coalesce` | 2 writers, 2 closers, 2 senders, queue 3, batch 2, 5 datagrams | `QueueHasSender`, `NoLostWakeup`, `InOrder`, `CloseEnds`, `ImplementsQueue` |
| `UdpSafety` | 2 clients, limit 1, 2 tunnels, 2 streams, symmetric | `NoLeak`, `TableBounded`, `SweeperRuns` |
| `UdpLive` | 1 client, 2 tunnels, 1 stream | `StaleGoesAway`, `ServeReturns`, `CloseReleases` |
| `ForwardManager` | 2 keys, 2 targets, 7 configurations, 2 edits, 2 failing binds, 1 accept error, 2 tunnels | `SocketsOwned`, `TunnelFits`, `InForce`, `EditsSettle` |
| `Relay` | TCP and UDP over QUIC and KCP, 2 pieces up, 1 down, room for 1, any datagram empty or dropped | `Prefix`, `EofIsReal`, `Released` |
| `ConfigStore` | 2 ids, 2 names, 1 address, 2 handlers, all 8 requests, 2 requests, 1 fault, 1 crash | `FileValid`, `FileWhole`, `DeletedStays`, `RefusalRestores` |
| `Workers` | 1 service, 2 process numbers, 2 UIs of which one is elevated, 2 workers, 1 other program, symmetric | `Recorded`, `OrphansCleaned`, `CleanupSpares` |
| `SelfUpdate` | 4 packages, with and without an earlier `.old`, 6 faults, 1 kill | `Recoverable`, `NoMix`, `OnlyVerified` |
| `Stun` | 2 entries with 2 and 1 addresses, own and other servers, 1 round, 1 duplicate | `Classified`, `ParserFinds`, `VerdictTrue` |

Types. `TypeOK` is a conjunct of `SocketsOwned`, `Prefix`, `FileValid`,
`Recorded`, `Recoverable` and `Classified` (there `StunTypeOK`). It is proved of
every module, by itself or as a part of these.

Bounds. Two sessions are the smallest instance in which a registration is
overwritten, claimed twice or deleted by somebody else; session records of
different sessions do not touch each other. In `SessionLive` a second Local would
add only a registration that disappears, which `RegExpires` does already.
`EndpointsFit` and `StateNeverRegresses` are checked without failing Del: a
registration that is not deleted is claimed twice, and the second claim starts the
session again from State 1. Two generations are enough for an old waiter, scanner
or stop to meet a newer worker. Five datagrams fill a queue of three while a batch
of two is being written. Two streams of one client make a `readBack` drop a newer
session than its own (in `UdpSafety`; `UdpLive` has one stream); two clients at a
limit of one make an eviction; a second tunnel makes sessions stale. Two keys let
an `Apply` fail half way, two edits let one come between the watcher's two reads
and one after. With room for one piece every write can block, and two pieces show
a repetition or a gap. Two requests at once are the smallest overlap, on a list of
one service and on one of two. Two process numbers, two workers and another
program make a number used again while its pid file is there, and a generation
meet its successor; with one UI elevated and one not, each may be the one that
cleans up after the other. Six faults let every operation of the updater fail once
along its longest path. Two addresses and two entries let each loop of the search
go on after a failure; the attribute lists have a length that wraps when it is
padded, one beyond the packet, addresses of both families and of none, a port of
0.

Deadlock is checked for `Session`, `Supervisor` and `Coalesce`. It is not where
the system may rest: a closed runner, a stopped Local, a finished connection, a
UI to which no request comes, a finished update or search.

Fairness. *Session*: running processes keep running and keys do expire (both
have a TTL in the code); nothing obliges anybody to start a worker, the network
to carry a tunnel, or a health check to end. *Supervisor*: goroutines run, weakly
fair; a waiter that wants `startMu` gets it (strong fairness of the automatic
restart, which Go's mutex gives by its starvation mode); a worker need not die.
*Coalesce*: goroutines run and timers fire; a write on an open socket may block
for good, one on a closed socket returns. *UdpForward*: goroutines run; a write
ends with its deadline, an open with its 10 s, a read when its stream is gone (the
header of a new session is written without a deadline, `proxy_l.go:376`; that it
returns is assumed);
who waits for `sessMu` gets it although the sweeper takes it again and again
(strong fairness, by the starvation mode of Go's mutex). Only `CloseReleases`
assumes that the sweeper's ticks and the idle timeout happen (`ClockRuns`);
clients never need to send. *ForwardManager*: the watcher's ticker ticks; nothing
is assumed of `RunLocal`, tunnels or users. *Relay*: calls return and timers
fire, each copy and each handler on its own; nothing is assumed of the
applications.

Liveness and bounds. `Spawn` stops at `MaxGen`; then `starter` rests at "spawn"
unless the spawn fails, which fairness makes happen. `LocalProbe` stops at
`MaxSessions`, where only failing probes are left, and `Opened` at `MaxStreams`,
where only failing opens are. `EditsSettle` uses that edits and failing binds
come to an end, which their bounds give.

## 4. Where comments and code disagree

Met while modelling; in each case the model does what the code does.

1. `pro/comm.go:229` says that `RedisSessionUnregister` removes the Local's own
   unclaimed registration; line 236 deletes whatever is there.
2. `ui2/start.go:368` says that a waiter of an older generation changes no
   status; line 398 writes it outside `procMu`, after the check.
3. `ui2/start.go:70` means to spare the pid file of a generation just started; a
   delayed stop that comes after the start takes the new generation, file and
   worker. The record stays consistent (`OneRecord`), but it is the new worker
   that is stopped.
4. `proxy/proxy_io.go:22` says that data in either direction refreshes the UDP
   idle timeout; on the Local only writes do (`proxy_l.go:302`, `:448`).
5. `ui2/upgrade.go:249` says that a failed replacement restores `.old` and
   restarts the old version; without an `.old` `restoreAndRestart` returns and
   nothing is started. `Recoverable` shows that the executable is there.
6. `utils/killcmd.go:86` takes the workers for stopped when the pid files are
   removed on quitting; one that is started in between outlives the UI without
   a file. `OrphansCleaned` names the exception.
7. `config/uiconfig.go:163` says that a failed save keeps the old contents; the
   fallback for a failed rename truncates the file first. `FileWhole` names it.
8. `ui2/start.go:617` wants no deleted service to come back after a restart; two
   handlers that overlap can bring it back. `DeletedStays` names it.
9. `proxy/proxy_io.go:144` says that an empty datagram is legal, and
   `proxy/frame_test.go:16` that datagrams of length 0 must come back as they were.
   `writeFrame` and `readFrame` do that, but `RelayUDPIdle` drops an empty datagram
   at either end, before framing it (line 190) and after reading its frame (line
   171): one that `ForwardUDPClient` has framed at Local (`proxy_l.go:301`) is lost
   at Remote. `Prefix` names them among the datagrams that may be missing
   (`void`), and they do not reset the idle timer.
10. `utils/killcmd.go:128` removes a pid file because its process is gone, and
    line 134 keeps the file of a process that is not ours because a clean-up could
    not find it otherwise. A process that cannot be opened counts as gone, and
    after `KillProcess` the file goes even if the kill was refused (line 140). So a
    worker of an elevated UI survives the clean-up of one that is not, without a
    file. `OrphansCleaned` names it.
11. `utils/killcmd.go:130`, `:136` and `:139` open the process by its number one
    after the other. If the worker ends after its image was checked and the number
    is given away before the kill, another program is killed. `CleanupSpares`
    names this case and excludes every other.
12. `ui2/upgrade.go:26` means to keep `.old` for a week after an update; the age is
    the file's time of modification (line 49), which renaming keeps, so what was
    installed a week ago may go at the first start after the update. `Recoverable`
    holds all the same: a file that runs is not removed.

## 5. Proofs

All for every value of the constants that satisfies the named assumptions of the
modules (`SessionAssumption`, `NoneAssumption`, `ForwardAssumption`,
`StoreAssumption`, ...): bounds are natural numbers, limits are positive where
the code's are, sets that the code keeps in memory are finite, and the model
values that stand for "nothing" are not among the values.

* `CoalesceProofs`. `IInv` is `TypeOK` with `OneSender`, `QueueHasSender` and
  `NoLostWakeup`; none is inductive alone: a writer that finds `sender` set
  starts no other, so `QueueHasSender` needs `OneSender`, and the idle exit
  keeps `NoLostWakeup` because a waiting writer means a full queue. `InOrder`
  needs `Ordered`: only a sender in "write" holds a rest, and its rest, what is
  written and the queue increase and are bounded by `accepted`.
  `CoalesceIsQueue` is the refinement: `Spec => ImplementsQueue`. `BatchBounded`
  (a batch is at most `MaxBatch` long) bounds what is pending by the queue's
  capacity; `PendingIs` evaluates the mapping at the one goroutine that holds a
  rest; `QueueStep` maps an accepted `WriteTo` to an accept, the end of a write
  to a settle (some out, some dropped), a close or a fatal error to a refusal,
  and all the rest to stutters. The facts on sequences it needs (`CutJoin`,
  `Rejoin`, `JoinAppend`) are lemmas of their own.
* `SupervisorProofs`. `SInv` is `TypeOK`, `StarterAlone` (while a start is under
  way the service is not started and the next generation is unused), `OneRecord`
  and `NoStrayChild`. `AtMostOneWorker` follows from it.
* `RendezvousProofs`, on `Session`. `IInv` is `TypeOK` with what each program counter says of the
  side's variables (`LocalHolds`, `RemoteHolds`) and `AllFilled`: every record in
  State 2 or later, in Redis or in a copy, carries the Local's address. It holds
  with every set of `Faults`.
  `EndpointsFit` and `StateNeverRegresses` are proved for every set of `Faults`
  without Del, and the hypothesis is needed: with a failing Del TLC finds a
  Remote that answers, crashes, claims the registration that is still there and
  offers the same session again with other settings. `EInv` has five parts.
  `SidsFit`: identifiers are used once and records stay under theirs.
  `HoldsNothing`: a side between sessions has neither record nor endpoint.
  `Offered`: what is registered, or claimed and not yet sent, nobody has
  answered, and it carries an address exactly if its Local dials (this is where
  the two roles, decided by two processes, meet). `Agree`: while the Remote works
  on a session, its copy, the record and the Local's copy have the same settings
  and addresses, and a Local that acts on State 1 has a Remote still in State 1.
  `Current`: such a Local finds State 1 under the key, or nothing; that is why
  its whole-record write puts nothing back.
* `RendezvousProofs`, on `Stun`. First the operators, for every packet. The
  parser walks by a recursive function on positions, a packet of another server
  is put together by one on attributes. The library's theorems on recursive
  functions take operators as parameters, so existence and what they compute are
  shown by a set instead: those positions (or attributes) for which everything
  up to there is right have no least one missing (`UpTo`, from the
  well-foundedness of the naturals). `FindTyped`: on any bytes the walk returns
  an address or nothing and never `Panic`, lengths near 2^16 included.
  `FindIsFirst`: in a packet made from well-formed attributes it returns the
  first of its type. `OwnFinds`: from what `BuildBindingResponse` makes, the
  client reads the mapped and the changed address that went in.
  Then the system. `SInv` is `Kinds` (types), `Packets` (what the packets under
  way hold, and that no transaction is later than the client's: `Past`),
  `Sightings` (an entry in `s.txns` has the address the NAT shows that port),
  `WanFilled` (what has been read at each step is not zero), and for an entry
  with own servers only `OwnTraffic` (every packet of its transaction goes to or
  comes from one of them) and `OwnResult` (what the client holds is what the NAT
  shows them, and of two different ports unless `mixed`). The last two begin anew
  with each entry, and they can because a late answer carries an earlier
  transaction. `VerdictTrue` follows from `Sightings`, `ParserFinds` from
  `Packets`, `Classified` from the rest.
* `UdpForwardProofs`. `UInv` is `TypeOK` with `Filed` (a session is in the table
  under its own client, because `dropSession` goes by address), `ServeHolds`,
  `Hands` (nobody takes sessions before having closed the ones taken before)
  and `InsertsAlone`. `NoLeak` is inductive relative to it. `TableBounded` needs
  `Room`: after an eviction there is room until Serve has inserted. That an
  oldest session exists uses the well-foundedness of the naturals.
* `ProxyProofs`, on `ForwardManager`. `FInv` is `SocketsOwned` (with `TypeOK`), `Targeted` (a
  live entry never has the target of an absent one, so sockets and entries can be
  compared) and `Fresh` (before `setupForwardMode` there are no entries, which is
  why its failure may give up all sockets at once). `TunnelFits` is inductive
  relative to it, and so is `InForce`: `ApplyStep` says what one `Apply` makes of
  the entries, and the watcher remembers only what was applied.
* `ProxyProofs`, on `Relay`. `Prefix` is about what has been read and says nothing
  of what is still under way, so `RInv` adds it. `InOrder`, for TCP: the buffer in front
  of an application continues what it has read, the buffer behind continues that
  one, and so on back to the writer, but only as far as every copy on the way
  still delivers (`Flows`); behind a hop that was given up anything may lie,
  because none of it gets through. The header counts as one piece in the stream
  until Remote has read it (`Header`), and `Control` and `Unmoved` say that no
  copy runs before it. For UDP datagrams may be missing, so the buffers do not
  continue each other; `Sorted` says that they rise, each below the one behind, and
  `NoneLost` that every datagram that is neither empty nor dropped is in one of
  them or comes after all that have got as far (`Found`), again as far as the
  copies deliver. Most actions move no data and revive nothing (`Quiet`);
  those that move data have a lemma each. `EofIsReal` needs `Orderly`, which
  holds while only the applications end the connection: an end is passed on only
  behind the data of its direction and nothing is given up before its end
  (`EndsAfter`), every piece written is read or under way (`Total`), and no timer
  fires and no handler gives up (`Undisturbed`). In such a connection no write of
  a copy can fail (`CleanCopy`): that is what the half close buys.
* `SelfUpdateProofs`. `UInv` is `Recoverable` with `StageInv`: for every point of
  `RunSelfUpdate`, `applyZip`, `replaceFile` and the way back, what the three
  names of both files hold and under which name the updater's own image is
  mapped (which is why a program that starts meanwhile cannot remove the old
  executable). `NoMix` and `OnlyVerified` follow from it.
* `WorkersProofs`. `WInv` is `TypeOK`, `AllFindable` (a live worker of the UI that
  serves is on file, or somebody holds it in a variable and is about to file or
  kill it) and eight parts about who holds what: one UI serves (`OneOwner`,
  `Served`), one start per service (`StartAlone`), a waiter's process is its own
  (`WaitersFit`, `Held`: a number is not handed out before `Wait` has returned),
  and what a delete leaves (`DelFits`, `WorkersKnown`, `CmdStarted`).
  `CleanFits` says where the clean-up under way is, and that a process of another
  program it is about to kill took its number after the image was checked;
  `CleanupSpares`, an action property, follows. `OrphansCleaned` needs
  `OrphansFiled` too: what a dead UI left is on a file that the clean-up still has
  before it (`OnFile`), or is in `lost`; `CleanSteps` and `FiledCleans` show it for
  the clean-up's steps and for those of the UI that quits.
* `ConfigStoreProofs`. `FileValid` holds whatever overlaps: `GInv` says that every
  inode, and every copy on its way to one, is a valid list or torn. `FileWhole`,
  `DeletedStays` and the action property `RefusalRestores` are about requests
  that come one at a time; `WInv`, `DInv` and `RInv` say what such a request has
  done to the files, to the list, and what it would put back, at each of its
  steps.

Only model-checked: the liveness properties, that is those of section 3 that
assume fairness (fairness and ENABLED are beyond the prover). Every invariant and
every action property of a run, and the refinement, is proved.

## 6. Not modelled

Time is not measured: a timeout may happen whenever its wait goes on.
Encryption, JSON and log texts are left out. One Remote per tunnel key; two
updaters at once; a network that reorders datagrams outside the tunnel; an import
that brings a deleted service back while a waiter of its old worker lives
(`gen` counts from 0 again, `ui2/ui.go:130`); the migration of old configuration files and the backup before
an import; the notification a second UI leaves for the first; systems other than
Windows where the code differs (pid files, update). Batch grouping and
`windowsWriter` keep no state: `Coalesce` allows every split of a batch they may
produce. UPnP is a mapping table in front of SOAP exchanges. The network stack
sets up gVisor and a TUN device; the connections it hands over are in `Relay`.
The HTTP API decodes requests for handlers that are modelled; the front end
presents what the API returns; `winipcfg` is bindings to the Windows API.

## 7. Open

Every safety property that a run checks is proved. What could be added are the
parts of section 6 that keep state: several Remotes with one tunnel key (a claim
is a read and a delete, `pro/remote.go:266`), the status text that a waiter
writes outside `procMu` (`ui2/start.go:398`), and the UPnP mapping table.
