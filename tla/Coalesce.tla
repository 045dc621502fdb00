----------------------------- MODULE Coalesce -----------------------------
(***************************************************************************)
(* coalesceConn (udpbatch/batch_windows.go): WriteTo queues a datagram and *)
(* returns; a sender goroutine, started on demand and leaving when idle,   *)
(* hands the queue to the socket in batches; Close stops it.               *)
(*                                                                         *)
(* A critical section of mu is one step. cond.Wait is the set waiting,     *)
(* which only a Broadcast empties; kick is the channel of capacity 1.      *)
(* Datagrams are numbered in the order WriteTo accepts them.               *)
(***************************************************************************)
EXTENDS Integers, Sequences, FiniteSets

CONSTANTS
    Writers,       \* goroutines that call WriteTo
    Closers,       \* goroutines that call Close
    Senders,       \* identities for sender goroutines
    QueueCap,      \* queueCap, 256 in the code
    MaxBatch,      \* maxBatch, 64
    WriteAttempts, \* writeAttempts, 3
    MaxMsgs        \* bound: datagrams accepted

ASSUME CoalesceAssumption ==
    /\ QueueCap \in Nat \ {0}
    /\ MaxBatch \in Nat \ {0}
    /\ WriteAttempts \in Nat \ {0}
    /\ MaxMsgs \in Nat
    /\ Writers \cap Closers = {}

VARIABLES
    queue,    \* c.queue
    closed,   \* c.closed
    fatal,    \* c.fatal # nil
    sender,   \* c.sender
    kick,     \* a token is in c.kick
    waiting,  \* goroutines in c.cond.Wait
    sockOpen, \* c.pc is open
    wpc,      \* writers: "out" or "in" WriteTo
    cpc,      \* closers: "out", "sock", "await", "done"
    spc,      \* senders: "none", "select", "pop", "write"
    rest,     \* each sender's batch, what is left of it
    attempt,  \* each sender's attempt in writeAll
    accepted, \* number of datagrams accepted
    written   \* datagrams handed to the socket, in order

conn == <<queue, closed, fatal, sender, kick, waiting>>
vars == <<queue, closed, fatal, sender, kick, waiting, sockOpen, wpc, cpc,
          spc, rest, attempt, accepted, written>>

-----------------------------------------------------------------------------
(* WriteTo *)

WriteCall(w) ==
    /\ wpc[w] = "out"
    /\ wpc' = [wpc EXCEPT ![w] = "in"]
    /\ UNCHANGED <<conn, sockOpen, cpc, spc, rest, attempt, accepted, written>>

(* The loop condition of cond.Wait: full, and neither closed nor failed.   *)
MustWait == Len(queue) >= QueueCap /\ ~closed /\ ~fatal

WriteWaits(w) ==
    /\ wpc[w] = "in" /\ w \notin waiting
    /\ MustWait
    /\ waiting' = waiting \cup {w}
    /\ UNCHANGED <<queue, closed, fatal, sender, kick, sockOpen, wpc, cpc, spc,
                   rest, attempt, accepted, written>>

(* The stored error, or net.ErrClosed. *)
WriteRefused(w) ==
    /\ wpc[w] = "in" /\ w \notin waiting
    /\ fatal \/ closed
    /\ wpc' = [wpc EXCEPT ![w] = "out"]
    /\ UNCHANGED <<conn, sockOpen, cpc, spc, rest, attempt, accepted, written>>

WriteAccepted(w) ==
    /\ wpc[w] = "in" /\ w \notin waiting
    /\ ~MustWait /\ ~fatal /\ ~closed
    /\ accepted < MaxMsgs
    /\ accepted' = accepted + 1
    /\ queue' = Append(queue, accepted + 1)
    /\ \/ sender /\ UNCHANGED <<sender, spc>>
       \/ /\ ~sender
          /\ sender' = TRUE
          /\ \E s \in Senders : /\ spc[s] = "none"
                                /\ spc' = [spc EXCEPT ![s] = "select"]
    /\ kick' = TRUE
    /\ wpc' = [wpc EXCEPT ![w] = "out"]
    /\ UNCHANGED <<closed, fatal, waiting, sockOpen, cpc, rest, attempt, written>>

-----------------------------------------------------------------------------
(* Close: mark and wake, close the socket, wait for the sender. *)

CloseMark(c) ==
    /\ cpc[c] = "out"
    /\ closed' = TRUE
    /\ IF closed THEN UNCHANGED <<kick, waiting>>
                 ELSE kick' = TRUE /\ waiting' = {}
    /\ cpc' = [cpc EXCEPT ![c] = "sock"]
    /\ UNCHANGED <<queue, fatal, sender, sockOpen, wpc, spc, rest, attempt,
                   accepted, written>>

(* Mutant of CloseSocket: the socket is closed after the sender has gone. *)
CloseSocketLast(c) ==
    /\ cpc[c] = "sock"
    /\ ~sender
    /\ sockOpen' = FALSE
    /\ cpc' = [cpc EXCEPT ![c] = "await"]
    /\ UNCHANGED <<conn, wpc, spc, rest, attempt, accepted, written>>

CloseSocket(c) ==
    /\ cpc[c] = "sock"
    /\ sockOpen' = FALSE
    /\ cpc' = [cpc EXCEPT ![c] = "await"]
    /\ UNCHANGED <<conn, wpc, spc, rest, attempt, accepted, written>>

CloseWaits(c) ==
    /\ cpc[c] = "await" /\ c \notin waiting
    /\ sender
    /\ waiting' = waiting \cup {c}
    /\ UNCHANGED <<queue, closed, fatal, sender, kick, sockOpen, wpc, cpc, spc,
                   rest, attempt, accepted, written>>

CloseReturns(c) ==
    /\ cpc[c] = "await" /\ c \notin waiting
    /\ ~sender
    /\ cpc' = [cpc EXCEPT ![c] = "done"]
    /\ UNCHANGED <<conn, sockOpen, wpc, spc, rest, attempt, accepted, written>>

-----------------------------------------------------------------------------
(* sendLoop *)

(* Mutant of SenderLeaves: nobody is woken. *)
SenderLeavesSilently(s) ==
    /\ sender' = FALSE
    /\ spc' = [spc EXCEPT ![s] = "none"]
    /\ UNCHANGED waiting

(* The goroutine ends: sender = false and Broadcast. *)
SenderLeaves(s) ==
    /\ sender' = FALSE
    /\ waiting' = {}
    /\ spc' = [spc EXCEPT ![s] = "none"]

Kicked(s) ==
    /\ spc[s] = "select"
    /\ kick
    /\ kick' = FALSE
    /\ spc' = [spc EXCEPT ![s] = "pop"]
    /\ UNCHANGED <<queue, closed, fatal, sender, waiting, sockOpen, wpc, cpc,
                   rest, attempt, accepted, written>>

(* Mutant of IdleExit: the timer is final, the queue is not looked at. *)
IdleExitUnchecked(s) ==
    /\ spc[s] = "select"
    /\ ~closed
    /\ SenderLeaves(s)
    /\ UNCHANGED <<queue, closed, fatal, kick, sockOpen, wpc, cpc, rest, attempt,
                   accepted, written>>

(* The idle timer: tryIdleExit, which refuses when there is work. *)
IdleExit(s) ==
    /\ spc[s] = "select"
    /\ ~closed /\ queue = <<>>
    /\ SenderLeaves(s)
    /\ UNCHANGED <<queue, closed, fatal, kick, sockOpen, wpc, cpc, rest, attempt,
                   accepted, written>>

IdleRefused(s) ==
    /\ spc[s] = "select"
    /\ closed \/ queue # <<>>
    /\ spc' = [spc EXCEPT ![s] = "pop"]
    /\ UNCHANGED <<conn, sockOpen, wpc, cpc, rest, attempt, accepted, written>>

(* pop of an empty queue. *)
PopEmpty(s) ==
    /\ spc[s] = "pop"
    /\ queue = <<>>
    /\ IF closed THEN SenderLeaves(s)
                 ELSE /\ spc' = [spc EXCEPT ![s] = "select"]
                      /\ UNCHANGED <<sender, waiting>>
    /\ UNCHANGED <<queue, closed, fatal, kick, sockOpen, wpc, cpc, rest, attempt,
                   accepted, written>>

BatchLen == IF Len(queue) < MaxBatch THEN Len(queue) ELSE MaxBatch

(* pop of a batch; after a fatal error the batch is only released. *)
Pop(s) ==
    /\ spc[s] = "pop"
    /\ queue # <<>>
    /\ queue' = SubSeq(queue, BatchLen + 1, Len(queue))
    /\ waiting' = {}
    /\ IF fatal
       THEN spc' = [spc EXCEPT ![s] = "select"] /\ UNCHANGED <<rest, attempt>>
       ELSE /\ spc' = [spc EXCEPT ![s] = "write"]
            /\ rest' = [rest EXCEPT ![s] = SubSeq(queue, 1, BatchLen)]
            /\ attempt' = [attempt EXCEPT ![s] = 0]
    /\ UNCHANGED <<closed, fatal, sender, kick, sockOpen, wpc, cpc, accepted, written>>

(* writeAll is done with the batch: what is left of it is released. *)
BatchDone(s) ==
    /\ spc' = [spc EXCEPT ![s] = "select"]
    /\ rest' = [rest EXCEPT ![s] = <<>>]
    /\ attempt' = [attempt EXCEPT ![s] = 0]

(* Mutant: one datagram more is out than the writer reports. *)
OutOneMore(s, n) ==
    written' = written \o SubSeq(rest[s], 1, IF n < Len(rest[s]) THEN n + 1 ELSE n)

(* The first n datagrams of the rest are out. *)
Out(s, n) == written' = written \o SubSeq(rest[s], 1, n)

WriteOk(s) ==
    /\ spc[s] = "write"
    /\ sockOpen
    /\ Out(s, Len(rest[s]))
    /\ BatchDone(s)
    /\ UNCHANGED <<conn, sockOpen, wpc, cpc, accepted>>

(* Mutant of Unsent: the whole batch is tried again. *)
UnsentAll(s, n) == rest[s]

Unsent(s, n) == SubSeq(rest[s], n + 1, Len(rest[s]))

(* Some went out, then an error that is not fatal: try the others again,   *)
(* WriteAttempts times in all.                                             *)
WriteRetry(s) ==
    /\ spc[s] = "write"
    /\ sockOpen
    /\ \E n \in 0..(Len(rest[s]) - 1) :
         /\ Out(s, n)
         /\ IF attempt[s] + 1 < WriteAttempts
            THEN /\ rest' = [rest EXCEPT ![s] = Unsent(s, n)]
                 /\ attempt' = [attempt EXCEPT ![s] = @ + 1]
                 /\ UNCHANGED spc
            ELSE BatchDone(s)
    /\ UNCHANGED <<conn, sockOpen, wpc, cpc, accepted>>

(* ... or a fatal one, always when the socket is closed: noteFatal. *)
WriteFatal(s) ==
    /\ spc[s] = "write"
    /\ \E n \in 0..(Len(rest[s]) - 1) :
         /\ sockOpen \/ n = 0
         /\ Out(s, n)
    /\ fatal' = TRUE
    /\ waiting' = {}
    /\ BatchDone(s)
    /\ UNCHANGED <<queue, closed, sender, kick, sockOpen, wpc, cpc, accepted>>

-----------------------------------------------------------------------------
Init ==
    /\ queue = <<>> /\ closed = FALSE /\ fatal = FALSE
    /\ sender = FALSE /\ kick = FALSE /\ waiting = {}
    /\ sockOpen = TRUE
    /\ wpc = [w \in Writers |-> "out"]
    /\ cpc = [c \in Closers |-> "out"]
    /\ spc = [s \in Senders |-> "none"]
    /\ rest = [s \in Senders |-> <<>>]
    /\ attempt = [s \in Senders |-> 0]
    /\ accepted = 0
    /\ written = <<>>

WriterStep(w) == WriteWaits(w) \/ WriteRefused(w) \/ WriteAccepted(w)

CloserStep(c) == CloseSocket(c) \/ CloseWaits(c) \/ CloseReturns(c)

SenderStep(s) ==
    \/ Kicked(s) \/ IdleExit(s) \/ IdleRefused(s) \/ PopEmpty(s) \/ Pop(s)

Next ==
    \/ \E w \in Writers : WriteCall(w) \/ WriterStep(w)
    \/ \E c \in Closers : CloseMark(c) \/ CloserStep(c)
    \/ \E s \in Senders : SenderStep(s) \/ WriteOk(s) \/ WriteRetry(s) \/ WriteFatal(s)

Spec == Init /\ [][Next]_vars

(* Goroutines run and timers fire. A write to an open socket may block for *)
(* good; one on a closed socket returns.                                   *)
Fairness ==
    /\ \A w \in Writers : WF_vars(WriterStep(w))
    /\ \A c \in Closers : WF_vars(CloserStep(c))
    /\ \A s \in Senders : WF_vars(SenderStep(s))
    /\ \A s \in Senders : WF_vars(~sockOpen /\ WriteFatal(s))

FairSpec == Spec /\ Fairness

-----------------------------------------------------------------------------
(* Properties *)

TypeOK ==
    /\ queue \in Seq(Nat) /\ Len(queue) <= QueueCap
    /\ closed \in BOOLEAN /\ fatal \in BOOLEAN /\ sender \in BOOLEAN
    /\ kick \in BOOLEAN /\ sockOpen \in BOOLEAN
    /\ waiting \subseteq Writers \cup Closers
    /\ wpc \in [Writers -> {"out", "in"}]
    /\ cpc \in [Closers -> {"out", "sock", "await", "done"}]
    /\ spc \in [Senders -> {"none", "select", "pop", "write"}]
    /\ rest \in [Senders -> Seq(Nat)]
    /\ attempt \in [Senders -> 0..(WriteAttempts - 1)]
    /\ accepted \in Nat
    /\ written \in Seq(Nat)

Active == {s \in Senders : spc[s] # "none"}

(* There is one sender goroutine exactly when c.sender says so: WriteTo    *)
(* never starts a second one next to one that is leaving.                  *)
OneSender == /\ sender <=> Active # {}
             /\ \A s, t \in Active : s = t

(* A queued datagram always has a sender that will come back for it: the   *)
(* idle exit cannot slip in between a datagram and its wake-up.            *)
QueueHasSender == queue # <<>> => sender

(* No wake-up is lost: a goroutine waits only while what it waits for has  *)
(* not happened, a full queue for a writer, a running sender for Close.    *)
NoLostWakeup ==
    /\ \A w \in waiting \cap Writers : wpc[w] = "in" /\ MustWait
    /\ \A c \in waiting \cap Closers : cpc[c] = "await" /\ sender

InFlight == {s \in Senders : rest[s] # <<>>}

Pending == IF InFlight = {} THEN <<>> ELSE rest[CHOOSE s \in InFlight : TRUE]

(* Datagrams reach the socket in the order WriteTo accepted them, each at  *)
(* most once, through retries, partial batches, a sender that leaves and   *)
(* another that takes over: the numbers only grow along written, what is   *)
(* left of the batch, and the queue.                                       *)
InOrder ==
    LET all == written \o Pending \o queue
    IN  \A i, j \in 1..Len(all) : i < j => all[i] < all[j]

(* Close always returns, also with the sender stuck in a write when it is  *)
(* called, and every datagram is settled by then: all buffers go back to   *)
(* the pool, with nobody calling WriteTo any more.                         *)
CloseEnds ==
    \A c \in Closers :
        (cpc[c] # "out") ~> (cpc[c] = "done" /\ Pending \o queue = <<>>)

(* What is accepted and not settled: the rest of the batch, then the queue. *)
Queue == INSTANCE DatagramQueue WITH
    Capacity <- QueueCap + MaxBatch,
    accepted <- accepted,
    pending <- Pending \o queue,
    out <- written,
    refusing <- closed \/ fatal

(* The conn is a bounded queue that delivers in order, drops only from the *)
(* front and refuses for good: across goroutines that come and go, partial *)
(* batches, retries and errors.                                            *)
ImplementsQueue == Queue!Spec
=============================================================================
