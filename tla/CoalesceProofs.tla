-------------------------- MODULE CoalesceProofs --------------------------
(***************************************************************************)
(* Proofs about Coalesce, for any number of goroutines and any capacities. *)
(* The four state invariants are inductive only together: that a waiter is *)
(* never forgotten needs the sender it waits for, which needs the flag to  *)
(* match the goroutines. That Coalesce implements DatagramQueue is proved  *)
(* step by step at the end, from these, InOrder's strengthening and the    *)
(* length of a batch.                                                      *)
(***************************************************************************)
EXTENDS Coalesce, SequenceTheorems, TLAPS

(* Cutting a sequence of numbers gives sequences of numbers that are not   *)
(* longer: what pop and the retry of writeAll rely on.                     *)
LEMMA Cut ==
    ASSUME NEW q \in Seq(Nat), NEW n \in 0..Len(q)
    PROVE  /\ SubSeq(q, 1, n) \in Seq(Nat)
           /\ SubSeq(q, n + 1, Len(q)) \in Seq(Nat)
           /\ Len(SubSeq(q, n + 1, Len(q))) = Len(q) - n
<1>1. Len(q) \in Nat /\ \A i \in 1..Len(q) : q[i] \in Nat
  BY LenProperties, ElementOfSeq
<1>2. SubSeq(q, 1, n) \in Seq(Nat)
  <2>1. \A i \in 1..n : q[i] \in Nat
    BY <1>1
  <2> QED BY <1>1, <2>1, SubSeqProperties
<1>3. /\ SubSeq(q, n + 1, Len(q)) \in Seq(Nat)
      /\ Len(SubSeq(q, n + 1, Len(q))) = IF n + 1 <= Len(q) THEN Len(q) - (n + 1) + 1 ELSE 0
  <2>1. \A i \in (n + 1)..Len(q) : q[i] \in Nat
    BY <1>1
  <2> QED BY <1>1, <2>1, SubSeqProperties
<1> QED BY <1>1, <1>2, <1>3

(* A batch is part of the queue, and not empty when the queue is not. *)
LEMMA BatchFits ==
    ASSUME TypeOK
    PROVE  /\ BatchLen \in 0..Len(queue)
           /\ queue # <<>> => BatchLen > 0
<1>1. Len(queue) \in Nat /\ (queue # <<>> => Len(queue) > 0)
  BY LenProperties, EmptySeq DEF TypeOK
<1> QED BY <1>1, CoalesceAssumption DEF BatchLen

(* Every step keeps the types: the queue within QueueCap and the attempts  *)
(* within WriteAttempts are the parts that need the code's checks.         *)
LEMMA TypeStep == TypeOK /\ [Next]_vars => TypeOK'
<1> SUFFICES ASSUME TypeOK, [Next]_vars PROVE TypeOK'
  OBVIOUS
<1> USE CoalesceAssumption
<1>1. ASSUME NEW w \in Writers, WriteCall(w) PROVE TypeOK'
  BY <1>1 DEF WriteCall, TypeOK, conn
<1>2. ASSUME NEW w \in Writers, WriteWaits(w) PROVE TypeOK'
  BY <1>2 DEF WriteWaits, TypeOK
<1>3. ASSUME NEW w \in Writers, WriteRefused(w) PROVE TypeOK'
  BY <1>3 DEF WriteRefused, TypeOK, conn
<1>4. ASSUME NEW w \in Writers, WriteAccepted(w) PROVE TypeOK'
  <2>1. Len(queue) < QueueCap
    BY <1>4, LenProperties DEF WriteAccepted, MustWait, TypeOK
  <2>2. accepted + 1 \in Nat
    BY DEF TypeOK
  <2>3. queue' \in Seq(Nat) /\ Len(queue') = Len(queue) + 1
    BY <1>4, <2>2, AppendProperties DEF WriteAccepted, TypeOK
  <2>4. Len(queue') <= QueueCap
    <3>1. Len(queue) \in Nat
      BY LenProperties DEF TypeOK
    <3> QED BY <2>1, <2>3, <3>1
  <2>5. spc' \in [Senders -> {"none", "select", "pop", "write"}] /\ sender' \in BOOLEAN
    BY <1>4 DEF WriteAccepted, TypeOK
  <2> QED BY <1>4, <2>2, <2>3, <2>4, <2>5 DEF WriteAccepted, TypeOK
<1>5. ASSUME NEW c \in Closers, CloseMark(c) PROVE TypeOK'
  BY <1>5 DEF CloseMark, TypeOK
<1>6. ASSUME NEW c \in Closers, CloseSocket(c) PROVE TypeOK'
  BY <1>6 DEF CloseSocket, TypeOK, conn
<1>7. ASSUME NEW c \in Closers, CloseWaits(c) PROVE TypeOK'
  BY <1>7 DEF CloseWaits, TypeOK
<1>8. ASSUME NEW c \in Closers, CloseReturns(c) PROVE TypeOK'
  BY <1>8 DEF CloseReturns, TypeOK, conn
<1>9. ASSUME NEW s \in Senders, Kicked(s) PROVE TypeOK'
  BY <1>9 DEF Kicked, TypeOK
<1>10. ASSUME NEW s \in Senders, IdleExit(s) PROVE TypeOK'
  BY <1>10 DEF IdleExit, SenderLeaves, TypeOK
<1>11. ASSUME NEW s \in Senders, IdleRefused(s) PROVE TypeOK'
  BY <1>11 DEF IdleRefused, TypeOK, conn
<1>12. ASSUME NEW s \in Senders, PopEmpty(s) PROVE TypeOK'
  BY <1>12 DEF PopEmpty, SenderLeaves, TypeOK
<1>13. ASSUME NEW s \in Senders, Pop(s) PROVE TypeOK'
  <2>1. /\ SubSeq(queue, 1, BatchLen) \in Seq(Nat)
        /\ queue' \in Seq(Nat)
        /\ Len(queue') = Len(queue) - BatchLen
    BY <1>13, BatchFits, Cut DEF Pop, TypeOK
  <2>2. Len(queue') <= QueueCap
    <3>1. Len(queue) \in Nat /\ Len(queue) <= QueueCap
      BY LenProperties DEF TypeOK
    <3>2. BatchLen \in 0..Len(queue)
      BY BatchFits
    <3>3. \A n, b, c \in Int : n <= c /\ b >= 0 => n - b <= c
      OBVIOUS
    <3> QED BY <2>1, <3>1, <3>2, <3>3
  <2>3. /\ rest' \in [Senders -> Seq(Nat)]
        /\ attempt' \in [Senders -> 0..(WriteAttempts - 1)]
        /\ spc' \in [Senders -> {"none", "select", "pop", "write"}]
    <3>1. CASE fatal
      BY <1>13, <3>1 DEF Pop, TypeOK
    <3>2. CASE ~fatal
      <4>1. /\ rest' = [rest EXCEPT ![s] = SubSeq(queue, 1, BatchLen)]
            /\ attempt' = [attempt EXCEPT ![s] = 0]
            /\ spc' = [spc EXCEPT ![s] = "write"]
        BY <1>13, <3>2 DEF Pop
      <4>2. 0 \in 0..(WriteAttempts - 1)
        OBVIOUS
      <4> QED BY <2>1, <4>1, <4>2 DEF TypeOK
    <3> QED BY <3>1, <3>2
  <2> QED BY <1>13, <2>1, <2>2, <2>3 DEF Pop, TypeOK
<1>14. ASSUME NEW s \in Senders, NEW n \in 0..Len(rest[s]), Out(s, n)
       PROVE  written' \in Seq(Nat)
  <2>1. SubSeq(rest[s], 1, n) \in Seq(Nat)
    BY Cut DEF TypeOK
  <2> QED BY <1>14, <2>1, ConcatProperties DEF Out, TypeOK
<1>15. ASSUME NEW s \in Senders PROVE Len(rest[s]) \in Nat
  BY LenProperties DEF TypeOK
<1>16. ASSUME NEW s \in Senders, BatchDone(s)
       PROVE  /\ spc' \in [Senders -> {"none", "select", "pop", "write"}]
              /\ rest' \in [Senders -> Seq(Nat)]
              /\ attempt' \in [Senders -> 0..(WriteAttempts - 1)]
  BY <1>16, EmptySeq DEF BatchDone, TypeOK
<1>17. ASSUME NEW s \in Senders, WriteOk(s) PROVE TypeOK'
  <2>1. written' \in Seq(Nat)
    BY <1>17, <1>14, <1>15 DEF WriteOk
  <2> QED BY <1>17, <1>16, <2>1 DEF WriteOk, TypeOK, conn
<1>18. ASSUME NEW s \in Senders, WriteRetry(s) PROVE TypeOK'
  <2>1. PICK n \in 0..(Len(rest[s]) - 1) :
           /\ Out(s, n)
           /\ IF attempt[s] + 1 < WriteAttempts
              THEN /\ rest' = [rest EXCEPT ![s] = Unsent(s, n)]
                   /\ attempt' = [attempt EXCEPT ![s] = @ + 1]
                   /\ UNCHANGED spc
              ELSE BatchDone(s)
    BY <1>18 DEF WriteRetry
  <2>2. n \in 0..Len(rest[s])
    BY <1>15
  <2>3. written' \in Seq(Nat)
    BY <1>14, <2>1, <2>2
  <2>4. Unsent(s, n) \in Seq(Nat)
    BY <2>2, Cut DEF Unsent, TypeOK
  <2>5. /\ spc' \in [Senders -> {"none", "select", "pop", "write"}]
        /\ rest' \in [Senders -> Seq(Nat)]
        /\ attempt' \in [Senders -> 0..(WriteAttempts - 1)]
    <3>1. CASE attempt[s] + 1 < WriteAttempts
      <4>1. attempt[s] + 1 \in 0..(WriteAttempts - 1)
        BY <3>1 DEF TypeOK
      <4>2. /\ rest' = [rest EXCEPT ![s] = Unsent(s, n)]
            /\ attempt' = [attempt EXCEPT ![s] = attempt[s] + 1]
            /\ spc' = spc
        BY <2>1, <3>1
      <4> QED BY <2>4, <4>1, <4>2 DEF TypeOK
    <3>2. CASE ~(attempt[s] + 1 < WriteAttempts)
      BY <1>16, <2>1, <3>2
    <3> QED BY <3>1, <3>2
  <2> QED BY <1>18, <2>3, <2>5 DEF WriteRetry, TypeOK, conn
<1>19. ASSUME NEW s \in Senders, WriteFatal(s) PROVE TypeOK'
  <2>1. PICK n \in 0..(Len(rest[s]) - 1) : Out(s, n)
    BY <1>19 DEF WriteFatal
  <2>2. written' \in Seq(Nat)
    BY <1>14, <1>15, <2>1
  <2> QED BY <1>19, <1>16, <2>2 DEF WriteFatal, TypeOK
<1>20. CASE UNCHANGED vars
  BY <1>20 DEF vars, TypeOK
<1> QED
  BY <1>1, <1>2, <1>3, <1>4, <1>5, <1>6, <1>7, <1>8, <1>9, <1>10, <1>11, <1>12,
     <1>13, <1>17, <1>18, <1>19, <1>20
  DEF Next, WriterStep, CloserStep, SenderStep

LEMMA TypeInit == Init => TypeOK
<1>1. 0 \in 0..(WriteAttempts - 1)
  BY CoalesceAssumption
<1>2. <<>> \in Seq(Nat) /\ Len(<<>>) = 0
  BY EmptySeq
<1> SUFFICES ASSUME Init PROVE TypeOK
  OBVIOUS
<1>3. queue \in Seq(Nat) /\ Len(queue) <= QueueCap /\ written \in Seq(Nat)
  BY CoalesceAssumption, <1>2 DEF Init
<1>4. rest \in [Senders -> Seq(Nat)]
  BY <1>2, Zenon DEF Init
<1>5. attempt \in [Senders -> 0..(WriteAttempts - 1)]
  BY <1>1, Zenon DEF Init
<1>6. /\ wpc \in [Writers -> {"out", "in"}]
      /\ cpc \in [Closers -> {"out", "sock", "await", "done"}]
      /\ spc \in [Senders -> {"none", "select", "pop", "write"}]
      /\ waiting \subseteq Writers \cup Closers
      /\ accepted \in Nat
  BY DEF Init
<1>7. /\ closed \in BOOLEAN /\ fatal \in BOOLEAN /\ sender \in BOOLEAN
      /\ kick \in BOOLEAN /\ sockOpen \in BOOLEAN
  BY DEF Init
<1> QED BY <1>3, <1>4, <1>5, <1>6, <1>7 DEF TypeOK

(* TypeOK holds throughout: in particular WriteTo never lets the queue     *)
(* exceed queueCap and writeAll never makes more than writeAttempts tries. *)
THEOREM TypeCorrect == Spec => []TypeOK
  BY TypeInit, TypeStep, PTL DEF Spec

-----------------------------------------------------------------------------
(* The safety invariants *)

IInv == TypeOK /\ OneSender /\ QueueHasSender /\ NoLostWakeup

(* Every step keeps the match of c.sender and the sender goroutines. *)
LEMMA SenderStepKeeps == IInv /\ [Next]_vars => OneSender'
<1> SUFFICES ASSUME IInv, [Next]_vars PROVE OneSender'
  OBVIOUS
<1> USE DEF IInv
<1>1. ASSUME spc' = spc, sender' = sender PROVE OneSender'
  BY <1>1 DEF OneSender, Active
<1>2. ASSUME NEW s \in Senders, SenderLeaves(s), spc[s] # "none" PROVE OneSender'
  BY <1>2 DEF SenderLeaves, OneSender, Active, TypeOK
<1>3. ASSUME NEW s \in Senders, NEW pc \in {"select", "pop", "write"},
             spc[s] # "none", spc' = [spc EXCEPT ![s] = pc], sender' = sender
      PROVE  OneSender'
  BY <1>3 DEF OneSender, Active, TypeOK
<1>4. ASSUME NEW w \in Writers, WriteAccepted(w) PROVE OneSender'
  <2>1. CASE sender
    BY <1>1, <1>4, <2>1 DEF WriteAccepted
  <2>2. CASE ~sender
    <3>1. PICK s \in Senders : spc[s] = "none" /\ spc' = [spc EXCEPT ![s] = "select"]
      BY <1>4, <2>2 DEF WriteAccepted
    <3>2. sender' = TRUE
      BY <1>4, <2>2 DEF WriteAccepted
    <3> QED BY <2>2, <3>1, <3>2 DEF OneSender, Active, TypeOK
  <2> QED BY <2>1, <2>2
<1>5. ASSUME NEW s \in Senders, Kicked(s) \/ IdleRefused(s) PROVE OneSender'
  BY <1>3, <1>5 DEF Kicked, IdleRefused, conn
<1>6. ASSUME NEW s \in Senders, IdleExit(s) PROVE OneSender'
  BY <1>2, <1>6 DEF IdleExit
<1>7. ASSUME NEW s \in Senders, PopEmpty(s) PROVE OneSender'
  BY <1>2, <1>3, <1>7 DEF PopEmpty
<1>8. ASSUME NEW s \in Senders, Pop(s) PROVE OneSender'
  BY <1>3, <1>8 DEF Pop
<1>9. ASSUME NEW s \in Senders, WriteOk(s) \/ WriteRetry(s) \/ WriteFatal(s)
      PROVE  OneSender'
  <2>1. spc[s] = "write" /\ sender' = sender
    BY <1>9 DEF WriteOk, WriteRetry, WriteFatal, conn
  <2>2. spc' = spc \/ spc' = [spc EXCEPT ![s] = "select"]
    BY <1>9 DEF WriteOk, WriteRetry, WriteFatal, BatchDone
  <2> QED BY <1>1, <1>3, <2>1, <2>2
<1>10. ASSUME NEW w \in Writers, WriteCall(w) \/ WriteWaits(w) \/ WriteRefused(w)
       PROVE  OneSender'
  BY <1>1, <1>10 DEF WriteCall, WriteWaits, WriteRefused, conn
<1>11. ASSUME NEW c \in Closers,
              CloseMark(c) \/ CloseSocket(c) \/ CloseWaits(c) \/ CloseReturns(c)
       PROVE  OneSender'
  BY <1>1, <1>11 DEF CloseMark, CloseSocket, CloseWaits, CloseReturns, conn
<1>12. CASE UNCHANGED vars
  BY <1>1, <1>12 DEF vars
<1> QED
  BY <1>4, <1>5, <1>6, <1>7, <1>8, <1>9, <1>10, <1>11, <1>12
  DEF Next, WriterStep, CloserStep, SenderStep

(* Every step keeps a sender behind a queue that is not empty. *)
LEMMA QueueStepKeeps == IInv /\ [Next]_vars => QueueHasSender'
<1> SUFFICES ASSUME IInv, [Next]_vars PROVE QueueHasSender'
  OBVIOUS
<1> USE DEF IInv
<1>1. ASSUME queue' = queue, sender' = sender PROVE QueueHasSender'
  BY <1>1 DEF QueueHasSender
<1>2. ASSUME NEW w \in Writers, WriteAccepted(w) PROVE QueueHasSender'
  BY <1>2 DEF WriteAccepted, QueueHasSender
<1>3. ASSUME NEW s \in Senders, IdleExit(s) \/ PopEmpty(s) PROVE QueueHasSender'
  BY <1>3 DEF IdleExit, PopEmpty, QueueHasSender
<1>4. ASSUME NEW s \in Senders, Pop(s) PROVE QueueHasSender'
  BY <1>4 DEF Pop, QueueHasSender
<1>5. ASSUME NEW s \in Senders, Kicked(s) \/ IdleRefused(s) PROVE QueueHasSender'
  BY <1>1, <1>5 DEF Kicked, IdleRefused, conn
<1>6. ASSUME NEW s \in Senders, WriteOk(s) \/ WriteRetry(s) \/ WriteFatal(s)
      PROVE  QueueHasSender'
  BY <1>1, <1>6 DEF WriteOk, WriteRetry, WriteFatal, conn
<1>7. ASSUME NEW w \in Writers, WriteCall(w) \/ WriteWaits(w) \/ WriteRefused(w)
      PROVE  QueueHasSender'
  BY <1>1, <1>7 DEF WriteCall, WriteWaits, WriteRefused, conn
<1>8. ASSUME NEW c \in Closers,
             CloseMark(c) \/ CloseSocket(c) \/ CloseWaits(c) \/ CloseReturns(c)
      PROVE  QueueHasSender'
  BY <1>1, <1>8 DEF CloseMark, CloseSocket, CloseWaits, CloseReturns, conn
<1>9. CASE UNCHANGED vars
  BY <1>1, <1>9 DEF vars
<1> QED
  BY <1>2, <1>3, <1>4, <1>5, <1>6, <1>7, <1>8, <1>9
  DEF Next, WriterStep, CloserStep, SenderStep

(* No step ends what a goroutine waits for without waking it. *)
LEMMA WakeupStepKeeps == IInv /\ [Next]_vars => NoLostWakeup'
<1> SUFFICES ASSUME IInv, [Next]_vars PROVE NoLostWakeup'
  OBVIOUS
<1> USE CoalesceAssumption DEF IInv
<1>1. ASSUME waiting' = {} PROVE NoLostWakeup'
  BY <1>1 DEF NoLostWakeup
<1>2. ASSUME waiting' = waiting, queue' = queue, closed' = closed, fatal' = fatal,
             sender' = sender, wpc' = wpc, cpc' = cpc
      PROVE  NoLostWakeup'
  BY <1>2 DEF NoLostWakeup, MustWait
<1>3. ASSUME NEW w \in Writers, WriteCall(w) \/ WriteRefused(w) PROVE NoLostWakeup'
  BY <1>3 DEF WriteCall, WriteRefused, NoLostWakeup, MustWait, TypeOK, conn
<1>4. ASSUME NEW w \in Writers, WriteWaits(w) PROVE NoLostWakeup'
  BY <1>4 DEF WriteWaits, NoLostWakeup, MustWait, TypeOK
<1>5. ASSUME NEW w \in Writers, WriteAccepted(w) PROVE NoLostWakeup'
  <2>1. waiting \cap Writers = {}
    BY <1>5 DEF WriteAccepted, NoLostWakeup
  <2>2. waiting' = waiting /\ cpc' = cpc
    BY <1>5 DEF WriteAccepted
  <2>3. sender' = TRUE
    BY <1>5 DEF WriteAccepted, TypeOK
  <2> QED BY <2>1, <2>2, <2>3 DEF NoLostWakeup
<1>6. ASSUME NEW c \in Closers, CloseMark(c) PROVE NoLostWakeup'
  <2>1. CASE closed
    BY <1>6, <2>1 DEF CloseMark, NoLostWakeup, MustWait, TypeOK
  <2>2. CASE ~closed
    BY <1>1, <1>6, <2>2 DEF CloseMark
  <2> QED BY <2>1, <2>2
<1>7. ASSUME NEW c \in Closers, CloseSocket(c) \/ CloseReturns(c) PROVE NoLostWakeup'
  BY <1>7 DEF CloseSocket, CloseReturns, NoLostWakeup, MustWait, TypeOK, conn
<1>8. ASSUME NEW c \in Closers, CloseWaits(c) PROVE NoLostWakeup'
  BY <1>8 DEF CloseWaits, NoLostWakeup, MustWait, TypeOK
<1>9. ASSUME NEW s \in Senders, IdleExit(s) \/ Pop(s) \/ WriteFatal(s)
      PROVE  NoLostWakeup'
  BY <1>1, <1>9 DEF IdleExit, SenderLeaves, Pop, WriteFatal
<1>10. ASSUME NEW s \in Senders, PopEmpty(s) PROVE NoLostWakeup'
  BY <1>1, <1>2, <1>10 DEF PopEmpty, SenderLeaves
<1>11. ASSUME NEW s \in Senders, Kicked(s) \/ IdleRefused(s) PROVE NoLostWakeup'
  BY <1>2, <1>11 DEF Kicked, IdleRefused, conn
<1>12. ASSUME NEW s \in Senders, WriteOk(s) \/ WriteRetry(s) PROVE NoLostWakeup'
  BY <1>2, <1>12 DEF WriteOk, WriteRetry, conn
<1>13. CASE UNCHANGED vars
  BY <1>2, <1>13 DEF vars
<1> QED
  BY <1>3, <1>4, <1>5, <1>6, <1>7, <1>8, <1>9, <1>10, <1>11, <1>12, <1>13
  DEF Next, WriterStep, CloserStep, SenderStep

LEMMA IInvariant == Spec => []IInv
<1>1. Init => IInv
  <2>1. Init => OneSender /\ QueueHasSender /\ NoLostWakeup
    BY DEF Init, OneSender, Active, QueueHasSender, NoLostWakeup
  <2> QED BY <2>1, TypeInit DEF IInv
<1>2. IInv /\ [Next]_vars => IInv'
  BY TypeStep, SenderStepKeeps, QueueStepKeeps, WakeupStepKeeps DEF IInv
<1> QED BY <1>1, <1>2, PTL DEF Spec

(* There is at all times at most one sender goroutine, and one exactly     *)
(* when c.sender is set: two would reorder what they send.                 *)
THEOREM AtMostOneSender == Spec => []OneSender
<1>1. IInv => OneSender
  BY DEF IInv
<1> QED BY <1>1, IInvariant, PTL

(* A datagram that WriteTo has accepted is never left behind by the idle   *)
(* exit of the sender.                                                     *)
THEOREM QueueNeverAbandoned == Spec => []QueueHasSender
<1>1. IInv => QueueHasSender
  BY DEF IInv
<1> QED BY <1>1, IInvariant, PTL

(* Nobody sleeps on c.cond for something that has happened: every change   *)
(* of the queue, of closed, fatal and sender that could end a wait comes   *)
(* with a Broadcast.                                                       *)
THEOREM WakeupsNotLost == Spec => []NoLostWakeup
<1>1. IInv => NoLostWakeup
  BY DEF IInv
<1> QED BY <1>1, IInvariant, PTL

-----------------------------------------------------------------------------
(* The order of datagrams *)

Increasing(q) == \A i, j \in 1..Len(q) : i < j => q[i] < q[j]
Below(p, q)   == \A i \in 1..Len(p), j \in 1..Len(q) : p[i] < q[j]
AtMost(q, n)  == \A i \in 1..Len(q) : q[i] <= n

(* The two parts of a sequence cut after n. *)
LEMMA CutElements ==
    ASSUME NEW q \in Seq(Nat), NEW n \in 0..Len(q)
    PROVE  /\ Len(SubSeq(q, 1, n)) = n
           /\ \A i \in 1..n : SubSeq(q, 1, n)[i] = q[i]
           /\ Len(SubSeq(q, n + 1, Len(q))) = Len(q) - n
           /\ \A i \in 1..(Len(q) - n) : SubSeq(q, n + 1, Len(q))[i] = q[n + i]
<1>1. Len(q) \in Nat /\ \A i \in 1..Len(q) : q[i] \in Nat
  BY LenProperties, ElementOfSeq
<1>2. /\ Len(SubSeq(q, 1, n)) = IF 1 <= n THEN n - 1 + 1 ELSE 0
      /\ \A i \in 1..(n - 1 + 1) : SubSeq(q, 1, n)[i] = q[1 + i - 1]
  <2>1. \A i \in 1..n : q[i] \in Nat
    BY <1>1
  <2> QED BY <1>1, <2>1, SubSeqProperties
<1>3. /\ Len(SubSeq(q, n + 1, Len(q))) = IF n + 1 <= Len(q) THEN Len(q) - (n + 1) + 1 ELSE 0
      /\ \A i \in 1..(Len(q) - (n + 1) + 1) :
            SubSeq(q, n + 1, Len(q))[i] = q[(n + 1) + i - 1]
  <2>1. \A i \in (n + 1)..Len(q) : q[i] \in Nat
    BY <1>1
  <2> QED BY <1>1, <2>1, SubSeqProperties
<1>4. \A i \in 1..n : SubSeq(q, 1, n)[i] = q[i]
  <2> SUFFICES ASSUME NEW i \in 1..n PROVE SubSeq(q, 1, n)[i] = q[i]
    OBVIOUS
  <2>1. i \in 1..(n - 1 + 1) /\ 1 + i - 1 = i
    BY <1>1
  <2> QED BY <1>2, <2>1
<1>5. \A i \in 1..(Len(q) - n) : SubSeq(q, n + 1, Len(q))[i] = q[n + i]
  <2> SUFFICES ASSUME NEW i \in 1..(Len(q) - n)
               PROVE  SubSeq(q, n + 1, Len(q))[i] = q[n + i]
    OBVIOUS
  <2>1. i \in 1..(Len(q) - (n + 1) + 1) /\ (n + 1) + i - 1 = n + i
    BY <1>1
  <2> QED BY <1>3, <2>1
<1> QED BY <1>1, <1>2, <1>3, <1>4, <1>5

(* Cutting keeps the order, inside the parts and towards others. *)
LEMMA CutOrder ==
    ASSUME NEW q \in Seq(Nat), NEW n \in 0..Len(q), Increasing(q)
    PROVE  LET a == SubSeq(q, 1, n)
               b == SubSeq(q, n + 1, Len(q))
           IN  /\ Increasing(a) /\ Increasing(b) /\ Below(a, b)
               /\ \A p : Below(p, q) => Below(p, a) /\ Below(p, b)
               /\ \A p : Below(q, p) => Below(a, p) /\ Below(b, p)
               /\ \A m : AtMost(q, m) => AtMost(a, m) /\ AtMost(b, m)
<1> DEFINE a == SubSeq(q, 1, n)
           b == SubSeq(q, n + 1, Len(q))
<1>1. Len(q) \in Nat /\ \A i \in 1..Len(q) : q[i] \in Nat
  BY LenProperties, ElementOfSeq
<1>2. Len(a) = n /\ \A i \in 1..Len(a) : i \in 1..Len(q) /\ a[i] = q[i]
  BY <1>1, CutElements
<1>3. Len(b) = Len(q) - n /\ \A i \in 1..Len(b) : n + i \in 1..Len(q) /\ b[i] = q[n + i]
  BY <1>1, CutElements
<1> HIDE DEF a, b
<1>4. Increasing(a)
  BY <1>1, <1>2 DEF Increasing
<1>5. Increasing(b)
  <2> SUFFICES ASSUME NEW i \in 1..Len(b), NEW j \in 1..Len(b), i < j
               PROVE  b[i] < b[j]
    BY DEF Increasing
  <2>1. n + i \in 1..Len(q) /\ n + j \in 1..Len(q) /\ n + i < n + j
    BY <1>1, <1>3
  <2> QED BY <1>3, <2>1 DEF Increasing
<1>6. Below(a, b)
  <2> SUFFICES ASSUME NEW i \in 1..Len(a), NEW j \in 1..Len(b)
               PROVE  a[i] < b[j]
    BY DEF Below
  <2>1. i \in 1..Len(q) /\ n + j \in 1..Len(q) /\ i < n + j
    BY <1>1, <1>2, <1>3
  <2> QED BY <1>2, <1>3, <2>1 DEF Increasing
<1>7. \A p : Below(p, q) => Below(p, a) /\ Below(p, b)
  BY <1>1, <1>2, <1>3 DEF Below
<1>8. \A p : Below(q, p) => Below(a, p) /\ Below(b, p)
  BY <1>1, <1>2, <1>3 DEF Below
<1>9. \A m : AtMost(q, m) => AtMost(a, m) /\ AtMost(b, m)
  BY <1>1, <1>2, <1>3 DEF AtMost
<1> QED BY <1>4, <1>5, <1>6, <1>7, <1>8, <1>9 DEF a, b

(* Joining keeps the order when the first part is below the second. *)
LEMMA JoinOrder ==
    ASSUME NEW p \in Seq(Nat), NEW q \in Seq(Nat)
    PROVE  /\ Increasing(p) /\ Increasing(q) /\ Below(p, q) => Increasing(p \o q)
           /\ \A r : Below(p, r) /\ Below(q, r) => Below(p \o q, r)
           /\ \A n : AtMost(p, n) /\ AtMost(q, n) => AtMost(p \o q, n)
<1> DEFINE a == p \o q
<1>1. Len(p) \in Nat /\ Len(q) \in Nat
  BY LenProperties
<1>2. /\ Len(a) = Len(p) + Len(q)
      /\ \A i \in 1..Len(a) : a[i] = IF i <= Len(p) THEN p[i] ELSE q[i - Len(p)]
  BY ConcatProperties
<1>3. \A i \in 1..Len(a) : (i <= Len(p) /\ i \in 1..Len(p) /\ a[i] = p[i])
                           \/ (i > Len(p) /\ i - Len(p) \in 1..Len(q) /\ a[i] = q[i - Len(p)])
  BY <1>1, <1>2
<1> HIDE DEF a
<1>4. ASSUME Increasing(p), Increasing(q), Below(p, q) PROVE Increasing(a)
  <2> SUFFICES ASSUME NEW i \in 1..Len(a), NEW j \in 1..Len(a), i < j
               PROVE  a[i] < a[j]
    BY DEF Increasing
  <2>1. CASE j <= Len(p)
    <3>1. i \in 1..Len(p) /\ j \in 1..Len(p) /\ a[i] = p[i] /\ a[j] = p[j]
      BY <1>1, <1>2, <1>3, <2>1
    <3> QED BY <1>4, <3>1 DEF Increasing
  <2>2. CASE i <= Len(p) /\ j > Len(p)
    <3>1. i \in 1..Len(p) /\ j - Len(p) \in 1..Len(q) /\ a[i] = p[i] /\ a[j] = q[j - Len(p)]
      BY <1>1, <1>2, <1>3, <2>2
    <3> QED BY <1>4, <3>1 DEF Below
  <2>3. CASE i > Len(p)
    <3>1. /\ i - Len(p) \in 1..Len(q) /\ j - Len(p) \in 1..Len(q)
          /\ i - Len(p) < j - Len(p)
          /\ a[i] = q[i - Len(p)] /\ a[j] = q[j - Len(p)]
      BY <1>1, <1>2, <1>3, <2>3
    <3> QED BY <1>4, <3>1 DEF Increasing
  <2> QED BY <1>1, <1>2, <2>1, <2>2, <2>3
<1>5. \A r : Below(p, r) /\ Below(q, r) => Below(a, r)
  BY <1>3 DEF Below
<1>6. \A n : AtMost(p, n) /\ AtMost(q, n) => AtMost(a, n)
  BY <1>3 DEF AtMost
<1> QED BY <1>4, <1>5, <1>6 DEF a

(* What a datagram may be compared with: everything written is below what  *)
(* is left of a batch, that is below the queue, and no number has been     *)
(* given out beyond accepted. Only a sender in writeAll holds a batch.     *)
Ordered ==
    /\ Increasing(written) /\ Increasing(queue) /\ Below(written, queue)
    /\ AtMost(written, accepted) /\ AtMost(queue, accepted)
    /\ \A s \in Senders : /\ Increasing(rest[s]) /\ AtMost(rest[s], accepted)
                          /\ Below(written, rest[s]) /\ Below(rest[s], queue)
                          /\ rest[s] # <<>> => spc[s] = "write"

LEMMA EmptyOrder ==
    /\ Increasing(<<>>)
    /\ \A q : Below(<<>>, q) /\ Below(q, <<>>)
    /\ \A n : AtMost(<<>>, n)
<1>1. Len(<<>>) = 0
  BY EmptySeq
<1> QED BY <1>1 DEF Increasing, Below, AtMost

(* While a sender runs, no other holds a batch. *)
LEMMA OthersEmpty ==
    ASSUME TypeOK, OneSender, Ordered, NEW s \in Senders, spc[s] # "none",
           NEW t \in Senders, t # s
    PROVE  rest[t] = <<>>
<1>1. spc[t] = "none"
  BY DEF OneSender, Active
<1> QED BY <1>1 DEF Ordered

(* A write that hands out the first n datagrams of the batch and keeps the *)
(* others, or drops them, leaves everything in order.                      *)
LEMMA OutOrder ==
    ASSUME TypeOK, OneSender, Ordered, NEW s \in Senders, spc[s] = "write",
           NEW n \in 0..Len(rest[s]), Out(s, n),
           queue' = queue, accepted' = accepted,
           NEW r \in {<<>>, Unsent(s, n)}, rest' = [rest EXCEPT ![s] = r],
           r # <<>> => spc'[s] = "write"
    PROVE  Ordered'
<1> DEFINE a == SubSeq(rest[s], 1, n)
<1>1. rest[s] \in Seq(Nat) /\ written \in Seq(Nat) /\ a \in Seq(Nat)
  BY Cut DEF TypeOK
<1>2. /\ Increasing(a) /\ AtMost(a, accepted)
      /\ Below(written, a) /\ Below(a, queue)
  BY <1>1, CutOrder DEF Ordered
<1>3. /\ Increasing(r) /\ AtMost(r, accepted)
      /\ Below(written, r) /\ Below(r, queue) /\ Below(a, r)
  <2>1. CASE r = <<>>
    BY <2>1, EmptyOrder
  <2>2. CASE r = Unsent(s, n)
    BY <1>1, <2>2, CutOrder DEF Ordered, Unsent
  <2> QED BY <2>1, <2>2
<1> HIDE DEF a
<1>4. written' = written \o a
  BY DEF Out, a
<1>5. Increasing(written') /\ Below(written', queue') /\ AtMost(written', accepted')
  BY <1>1, <1>2, <1>4, JoinOrder DEF Ordered
<1>6. Below(written', r)
  BY <1>1, <1>3, <1>4, JoinOrder
<1>7. ASSUME NEW t \in Senders
      PROVE  /\ Increasing(rest'[t]) /\ AtMost(rest'[t], accepted')
             /\ Below(written', rest'[t]) /\ Below(rest'[t], queue')
             /\ rest'[t] # <<>> => spc'[t] = "write"
  <2>1. CASE t = s
    <3>1. rest'[t] = r
      BY <2>1 DEF TypeOK
    <3> QED BY <1>3, <1>6, <2>1, <3>1
  <2>2. CASE t # s
    <3>1. rest'[t] = <<>>
      BY <2>2, OthersEmpty DEF TypeOK
    <3> QED BY <3>1, EmptyOrder
  <2> QED BY <2>1, <2>2
<1> QED BY <1>5, <1>7 DEF Ordered

(* Every step keeps the order. *)
LEMMA OrderStepKeeps == IInv /\ Ordered /\ [Next]_vars => Ordered'
<1> SUFFICES ASSUME IInv, Ordered, [Next]_vars PROVE Ordered'
  OBVIOUS
<1> USE DEF IInv
<1>1. ASSUME queue' = queue, rest' = rest, written' = written, accepted' = accepted,
             \A s \in Senders : spc[s] = "write" => spc'[s] = "write"
      PROVE  Ordered'
  BY <1>1 DEF Ordered
<1>2. ASSUME NEW w \in Writers, WriteAccepted(w) PROVE Ordered'
  <2>1. accepted \in Nat /\ queue \in Seq(Nat) /\ written \in Seq(Nat)
    BY DEF TypeOK
  <2>2. /\ accepted' = accepted + 1 /\ queue' = Append(queue, accepted + 1)
        /\ rest' = rest /\ written' = written
    BY <1>2 DEF WriteAccepted
  <2>3. /\ Len(queue) \in Nat /\ Len(queue') = Len(queue) + 1
        /\ \A i \in 1..Len(queue) : queue'[i] = queue[i] /\ queue[i] \in Nat
        /\ queue'[Len(queue) + 1] = accepted + 1
    BY <2>1, <2>2, AppendProperties, LenProperties, ElementOfSeq
  <2>4. \A i \in 1..Len(queue') :
            i \in 1..Len(queue) \/ (i = Len(queue) + 1 /\ queue'[i] = accepted + 1)
    BY <2>3
  <2>5. Increasing(queue') /\ AtMost(queue', accepted')
    BY <2>1, <2>2, <2>3, <2>4 DEF Ordered, Increasing, AtMost
  <2>6. ASSUME NEW p \in Seq(Nat), AtMost(p, accepted), Below(p, queue)
        PROVE  Below(p, queue') /\ AtMost(p, accepted')
    <3>1. \A i \in 1..Len(p) : p[i] \in Nat /\ p[i] <= accepted
      BY <2>6, ElementOfSeq DEF AtMost
    <3> QED BY <2>1, <2>2, <2>3, <2>4, <2>6, <3>1 DEF Below, AtMost
  <2>7. Below(written', queue') /\ AtMost(written', accepted')
    BY <2>1, <2>2, <2>6 DEF Ordered
  <2>8. \A s \in Senders : Below(rest'[s], queue') /\ AtMost(rest'[s], accepted')
    BY <2>2, <2>6 DEF Ordered, TypeOK
  <2>9. \A s \in Senders : spc[s] = "write" => spc'[s] = "write"
    BY <1>2 DEF WriteAccepted, TypeOK
  <2> QED BY <2>2, <2>5, <2>7, <2>8, <2>9 DEF Ordered
<1>3. ASSUME NEW s \in Senders, Pop(s) PROVE Ordered'
  <2> DEFINE b == SubSeq(queue, 1, BatchLen)
  <2>1. queue \in Seq(Nat) /\ written \in Seq(Nat) /\ BatchLen \in 0..Len(queue)
    BY BatchFits DEF TypeOK
  <2>2. queue' = SubSeq(queue, BatchLen + 1, Len(queue)) /\ written' = written
        /\ accepted' = accepted
    BY <1>3 DEF Pop
  <2>3. /\ Increasing(queue') /\ AtMost(queue', accepted') /\ Below(written', queue')
        /\ Increasing(b) /\ AtMost(b, accepted') /\ Below(written', b) /\ Below(b, queue')
    BY <2>1, <2>2, CutOrder DEF Ordered
  <2>4. \A t \in Senders : t # s => rest[t] = <<>>
    BY <1>3, OthersEmpty DEF Pop
  <2>5. rest[s] = <<>>
    BY <1>3 DEF Pop, Ordered
  <2> HIDE DEF b
  <2>6. ASSUME NEW t \in Senders
        PROVE  rest'[t] = <<>> \/ (rest'[t] = b /\ spc'[t] = "write")
    <3>1. CASE fatal
      BY <1>3, <2>4, <2>5, <3>1 DEF Pop
    <3>2. CASE ~fatal
      BY <1>3, <2>4, <3>2 DEF Pop, TypeOK, b
    <3> QED BY <3>1, <3>2
  <2>7. ASSUME NEW t \in Senders
        PROVE  /\ Increasing(rest'[t]) /\ AtMost(rest'[t], accepted')
               /\ Below(written', rest'[t]) /\ Below(rest'[t], queue')
               /\ rest'[t] # <<>> => spc'[t] = "write"
    BY <2>3, <2>6, EmptyOrder
  <2>8. AtMost(written', accepted')
    BY <2>2 DEF Ordered
  <2>9. Increasing(written') /\ Increasing(queue') /\ Below(written', queue')
        /\ AtMost(queue', accepted')
    BY <2>2, <2>3 DEF Ordered
  <2> QED BY <2>7, <2>8, <2>9 DEF Ordered
<1>4. ASSUME NEW s \in Senders, WriteOk(s) PROVE Ordered'
  <2>1. Len(rest[s]) \in 0..Len(rest[s])
    BY LenProperties DEF TypeOK
  <2>2. rest' = [rest EXCEPT ![s] = <<>>] /\ Out(s, Len(rest[s])) /\ spc[s] = "write"
        /\ queue' = queue /\ accepted' = accepted
    BY <1>4 DEF WriteOk, BatchDone, conn
  <2> QED BY <2>1, <2>2, OutOrder
<1>5. ASSUME NEW s \in Senders, WriteRetry(s) PROVE Ordered'
  <2>1. PICK n \in 0..(Len(rest[s]) - 1) :
           /\ Out(s, n)
           /\ IF attempt[s] + 1 < WriteAttempts
              THEN /\ rest' = [rest EXCEPT ![s] = Unsent(s, n)]
                   /\ attempt' = [attempt EXCEPT ![s] = @ + 1]
                   /\ UNCHANGED spc
              ELSE BatchDone(s)
    BY <1>5 DEF WriteRetry
  <2>2. n \in 0..Len(rest[s])
    BY LenProperties DEF TypeOK
  <2>3. spc[s] = "write" /\ queue' = queue /\ accepted' = accepted
    BY <1>5 DEF WriteRetry, conn
  <2>4. CASE attempt[s] + 1 < WriteAttempts
    BY <2>1, <2>2, <2>3, <2>4, OutOrder
  <2>5. CASE ~(attempt[s] + 1 < WriteAttempts)
    <3>1. rest' = [rest EXCEPT ![s] = <<>>]
      BY <2>1, <2>5 DEF BatchDone
    <3> QED BY <2>1, <2>2, <2>3, <3>1, OutOrder
  <2> QED BY <2>4, <2>5
<1>6. ASSUME NEW s \in Senders, WriteFatal(s) PROVE Ordered'
  <2>1. PICK n \in 0..(Len(rest[s]) - 1) : Out(s, n)
    BY <1>6 DEF WriteFatal
  <2>2. n \in 0..Len(rest[s])
    BY LenProperties DEF TypeOK
  <2>3. rest' = [rest EXCEPT ![s] = <<>>] /\ spc[s] = "write"
        /\ queue' = queue /\ accepted' = accepted
    BY <1>6 DEF WriteFatal, BatchDone
  <2> QED BY <2>1, <2>2, <2>3, OutOrder
<1>7. ASSUME NEW s \in Senders,
             Kicked(s) \/ IdleExit(s) \/ IdleRefused(s) \/ PopEmpty(s)
      PROVE  Ordered'
  <2>1. \A t \in Senders : spc[t] = "write" => spc'[t] = "write"
    BY <1>7 DEF Kicked, IdleExit, IdleRefused, PopEmpty, SenderLeaves, TypeOK
  <2>2. queue' = queue /\ rest' = rest /\ written' = written /\ accepted' = accepted
    BY <1>7 DEF Kicked, IdleExit, IdleRefused, PopEmpty, conn
  <2> QED BY <1>1, <2>1, <2>2
<1>8. ASSUME NEW w \in Writers, WriteCall(w) \/ WriteWaits(w) \/ WriteRefused(w)
      PROVE  Ordered'
  BY <1>1, <1>8 DEF WriteCall, WriteWaits, WriteRefused, conn
<1>9. ASSUME NEW c \in Closers,
             CloseMark(c) \/ CloseSocket(c) \/ CloseWaits(c) \/ CloseReturns(c)
      PROVE  Ordered'
  BY <1>1, <1>9 DEF CloseMark, CloseSocket, CloseWaits, CloseReturns, conn
<1>10. CASE UNCHANGED vars
  BY <1>1, <1>10 DEF vars
<1> QED
  BY <1>2, <1>3, <1>4, <1>5, <1>6, <1>7, <1>8, <1>9, <1>10
  DEF Next, WriterStep, CloserStep, SenderStep

LEMMA OrderedImpliesInOrder == TypeOK /\ Ordered => InOrder
<1> SUFFICES ASSUME TypeOK, Ordered PROVE InOrder
  OBVIOUS
<1>1. /\ Pending \in Seq(Nat) /\ Increasing(Pending)
      /\ Below(written, Pending) /\ Below(Pending, queue)
  <2>1. CASE InFlight = {}
    BY <2>1, EmptyOrder, EmptySeq DEF Pending
  <2>2. CASE InFlight # {}
    <3>1. (CHOOSE s \in InFlight : TRUE) \in Senders
      BY <2>2 DEF InFlight
    <3> QED BY <2>2, <3>1 DEF Pending, Ordered, TypeOK
  <2> QED BY <2>1, <2>2
<1> HIDE DEF Pending
<1>2. queue \in Seq(Nat) /\ written \in Seq(Nat)
  BY DEF TypeOK
<1>3. written \o Pending \in Seq(Nat)
  BY <1>1, <1>2, ConcatProperties
<1>4. Increasing(written \o Pending) /\ Below(written \o Pending, queue)
  BY <1>1, <1>2, JoinOrder DEF Ordered
<1>5. Increasing((written \o Pending) \o queue)
  BY <1>2, <1>3, <1>4, JoinOrder DEF Ordered
<1> QED BY <1>5 DEF InOrder, Increasing

(* Datagrams reach the socket in the order in which WriteTo accepted them  *)
(* and none twice, for any number of writers, any batch size and any       *)
(* sequence of partial writes, retries, idle exits and restarts of the     *)
(* sender.                                                                 *)
THEOREM OrderKept == Spec => []InOrder
<1>1. Init => Ordered
  BY EmptyOrder DEF Init, Ordered
<1>2. IInv /\ Ordered /\ [Next]_vars => Ordered'
  BY OrderStepKeeps
<1>3. IInv /\ Ordered => InOrder
  BY OrderedImpliesInOrder DEF IInv
<1> QED BY <1>1, <1>2, <1>3, IInvariant, PTL DEF Spec

-----------------------------------------------------------------------------
(* The bounded queue *)

(* Cutting what is joined, and joining what was cut. *)
LEMMA CutJoin ==
    ASSUME NEW p \in Seq(Nat), NEW q \in Seq(Nat), NEW n \in 0..Len(p)
    PROVE  /\ SubSeq(p \o q, 1, n) = SubSeq(p, 1, n)
           /\ SubSeq(p \o q, n + 1, Len(p \o q)) = SubSeq(p, n + 1, Len(p)) \o q
<1> DEFINE a == p \o q
           r == SubSeq(p, n + 1, Len(p))
<1>0. Len(p) \in Nat /\ Len(q) \in Nat
  BY LenProperties
<1>1. /\ a \in Seq(Nat) /\ Len(a) = Len(p) + Len(q)
      /\ \A i \in 1..(Len(p) + Len(q)) : a[i] = IF i <= Len(p) THEN p[i] ELSE q[i - Len(p)]
  BY ConcatProperties
<1> HIDE DEF a
<1>2. n \in 0..Len(a)
  BY <1>0, <1>1
<1>3. SubSeq(a, 1, n) = SubSeq(p, 1, n)
  <2>1. /\ SubSeq(a, 1, n) \in Seq(Nat) /\ SubSeq(p, 1, n) \in Seq(Nat)
        /\ Len(SubSeq(a, 1, n)) = n /\ Len(SubSeq(p, 1, n)) = n
        /\ \A i \in 1..n : SubSeq(a, 1, n)[i] = a[i] /\ SubSeq(p, 1, n)[i] = p[i]
    BY <1>1, <1>2, Cut, CutElements
  <2>2. \A i \in 1..n : a[i] = p[i]
    BY <1>0, <1>1
  <2> QED BY <2>1, <2>2, SeqEqual
<1>4. SubSeq(a, n + 1, Len(a)) = r \o q
  <2> DEFINE b == SubSeq(a, n + 1, Len(a))
  <2>1. /\ b \in Seq(Nat) /\ Len(b) = Len(a) - n
        /\ \A i \in 1..(Len(a) - n) : b[i] = a[n + i]
    BY <1>1, <1>2, Cut, CutElements
  <2>2. /\ r \in Seq(Nat) /\ Len(r) = Len(p) - n
        /\ \A i \in 1..(Len(p) - n) : r[i] = p[n + i]
    BY Cut, CutElements
  <2> HIDE DEF b, r
  <2>3. /\ r \o q \in Seq(Nat) /\ Len(r \o q) = Len(r) + Len(q)
        /\ \A i \in 1..(Len(r) + Len(q)) :
              (r \o q)[i] = IF i <= Len(r) THEN r[i] ELSE q[i - Len(r)]
    BY <2>2, ConcatProperties
  <2>4. Len(b) = Len(r \o q)
    BY <1>0, <1>1, <2>1, <2>2, <2>3
  <2>5. ASSUME NEW i \in 1..Len(b) PROVE b[i] = (r \o q)[i]
    <3>1. /\ i \in 1..(Len(a) - n) /\ i \in 1..(Len(r) + Len(q))
          /\ n + i \in 1..(Len(p) + Len(q))
      BY <1>0, <1>1, <2>1, <2>2
    <3>2. b[i] = a[n + i]
      BY <2>1, <3>1
    <3>3. CASE i <= Len(r)
      <4>1. i \in 1..(Len(p) - n) /\ n + i <= Len(p)
        BY <1>0, <2>2, <3>1, <3>3
      <4>2. a[n + i] = p[n + i]
        BY <1>1, <3>1, <4>1
      <4>3. (r \o q)[i] = r[i]
        BY <2>3, <3>1, <3>3
      <4> QED BY <2>2, <3>2, <4>1, <4>2, <4>3
    <3>4. CASE ~(i <= Len(r))
      <4>1. ~(n + i <= Len(p)) /\ n + i - Len(p) = i - Len(r)
        BY <1>0, <2>2, <3>1, <3>4
      <4>2. a[n + i] = q[n + i - Len(p)]
        <5>1. \A j \in 1..(Len(p) + Len(q)) : ~(j <= Len(p)) => a[j] = q[j - Len(p)]
          BY <1>1
        <5> QED BY <3>1, <4>1, <5>1
      <4>3. (r \o q)[i] = q[i - Len(r)]
        BY <2>3, <3>1, <3>4
      <4> QED BY <3>2, <4>1, <4>2, <4>3
    <3> QED BY <3>3, <3>4
  <2> QED BY <2>1, <2>3, <2>4, <2>5, SeqEqual DEF b
<1> QED BY <1>3, <1>4 DEF a

LEMMA Rejoin ==
    ASSUME NEW q \in Seq(Nat), NEW n \in 0..Len(q)
    PROVE  SubSeq(q, 1, n) \o SubSeq(q, n + 1, Len(q)) = q
<1>0. Len(q) \in Nat
  BY LenProperties
<1>1. 1 \in 1..(Len(q) + 1) /\ n \in (1 - 1)..Len(q) /\ Len(q) \in n..Len(q)
  BY <1>0
<1> QED BY <1>1, ConcatAdjacentSubSeq, SubSeqFull

LEMMA JoinAppend ==
    ASSUME NEW p \in Seq(Nat), NEW q \in Seq(Nat), NEW x \in Nat
    PROVE  p \o Append(q, x) = Append(p \o q, x)
<1>1. <<x>> \in Seq(Nat)
  OBVIOUS
<1>2. p \o q \in Seq(Nat)
  BY ConcatProperties
<1>3. Append(q, x) = q \o <<x>> /\ Append(p \o q, x) = (p \o q) \o <<x>>
  BY <1>2, AppendIsConcat
<1> QED BY <1>1, <1>3, ConcatAssociative

(* pop takes MaxBatch datagrams at most. *)
BatchBounded == \A s \in Senders : Len(rest[s]) <= MaxBatch

(* When every other sender's batch is empty, this one's is the batch.      *)
LEMMA PendingOf ==
    ASSUME NEW s \in Senders, \A t \in Senders : t # s => rest[t] = <<>>
    PROVE  Pending = rest[s]
<1>1. InFlight \subseteq {s}
  BY DEF InFlight
<1>2. CASE rest[s] = <<>>
  <2>1. InFlight = {}
    BY <1>1, <1>2 DEF InFlight
  <2> QED BY <1>2, <2>1 DEF Pending
<1>3. CASE rest[s] # <<>>
  <2>1. InFlight = {s}
    BY <1>1, <1>3 DEF InFlight
  <2>2. (CHOOSE t \in InFlight : TRUE) = s
    BY <2>1
  <2> QED BY <2>1, <2>2 DEF Pending
<1> QED BY <1>2, <1>3

LEMMA PendingOfPrimed ==
    ASSUME NEW s \in Senders, \A t \in Senders : t # s => rest'[t] = <<>>
    PROVE  Pending' = rest'[s]
<1>1. InFlight' \subseteq {s}
  BY DEF InFlight
<1>2. CASE rest'[s] = <<>>
  <2>1. InFlight' = {}
    BY <1>1, <1>2 DEF InFlight
  <2> QED BY <1>2, <2>1 DEF Pending
<1>3. CASE rest'[s] # <<>>
  <2>1. InFlight' = {s}
    BY <1>1, <1>3 DEF InFlight
  <2>2. (CHOOSE t \in InFlight' : TRUE) = s
    BY <2>1
  <2> QED BY <2>1, <2>2 DEF Pending
<1> QED BY <1>2, <1>3

LEMMA PendingIs ==
    ASSUME TypeOK, BatchBounded
    PROVE  Pending \in Seq(Nat) /\ Len(Pending) <= MaxBatch
<1>1. CASE InFlight = {}
  BY <1>1, EmptySeq, CoalesceAssumption DEF Pending
<1>2. CASE InFlight # {}
  <2>1. (CHOOSE s \in InFlight : TRUE) \in Senders
    BY <1>2 DEF InFlight
  <2> QED BY <1>2, <2>1 DEF Pending, BatchBounded, TypeOK
<1> QED BY <1>1, <1>2

LEMMA BoundStep == IInv /\ Ordered /\ BatchBounded /\ [Next]_vars => BatchBounded'
<1> SUFFICES ASSUME IInv, Ordered, BatchBounded, [Next]_vars PROVE BatchBounded'
  OBVIOUS
<1>0. TypeOK
  BY DEF IInv
<1>1. ASSUME NEW s \in Senders, NEW r \in Seq(Nat), Len(r) <= MaxBatch,
             rest' = [rest EXCEPT ![s] = r]
      PROVE  BatchBounded'
  BY <1>0, <1>1 DEF BatchBounded, TypeOK
<1>e. <<>> \in Seq(Nat) /\ Len(<<>>) <= MaxBatch
  BY EmptySeq, CoalesceAssumption
<1>2. ASSUME NEW s \in Senders, Pop(s) PROVE BatchBounded'
  <2>1. CASE fatal
    BY <1>2, <2>1 DEF Pop, BatchBounded
  <2>2. CASE ~fatal
    <3>1. rest' = [rest EXCEPT ![s] = SubSeq(queue, 1, BatchLen)]
      BY <1>2, <2>2 DEF Pop
    <3>2. queue \in Seq(Nat) /\ BatchLen \in 0..Len(queue)
      BY <1>0, BatchFits DEF TypeOK
    <3>3. SubSeq(queue, 1, BatchLen) \in Seq(Nat) /\ Len(SubSeq(queue, 1, BatchLen)) = BatchLen
      BY <3>2, Cut, CutElements
    <3>4. BatchLen <= MaxBatch
      <4>1. Len(queue) \in Nat
        BY <3>2, LenProperties
      <4> QED BY <4>1, CoalesceAssumption DEF BatchLen
    <3> QED BY <1>1, <3>1, <3>3, <3>4
  <2> QED BY <2>1, <2>2
<1>3. ASSUME NEW s \in Senders, WriteOk(s) \/ WriteFatal(s) PROVE BatchBounded'
  BY <1>1, <1>3, <1>e DEF WriteOk, WriteFatal, BatchDone
<1>4. ASSUME NEW s \in Senders, WriteRetry(s) PROVE BatchBounded'
  <2>1. PICK n \in 0..(Len(rest[s]) - 1) :
           \/ rest' = [rest EXCEPT ![s] = Unsent(s, n)]
           \/ rest' = [rest EXCEPT ![s] = <<>>]
    BY <1>4 DEF WriteRetry, BatchDone
  <2>2. rest[s] \in Seq(Nat) /\ Len(rest[s]) \in Nat /\ Len(rest[s]) <= MaxBatch
    BY <1>0, LenProperties DEF TypeOK, BatchBounded
  <2>3. n \in 0..Len(rest[s])
    BY <2>2
  <2>4. Unsent(s, n) \in Seq(Nat) /\ Len(Unsent(s, n)) <= MaxBatch
    <3>1. Unsent(s, n) \in Seq(Nat) /\ Len(Unsent(s, n)) = Len(rest[s]) - n
      BY <2>2, <2>3, Cut DEF Unsent
    <3> QED BY <2>2, <2>3, <3>1, CoalesceAssumption
  <2> QED BY <1>1, <1>e, <2>1, <2>4
<1>5. ASSUME rest' = rest PROVE BatchBounded'
  BY <1>5 DEF BatchBounded
<1>6. ASSUME NEW s \in Senders,
             Kicked(s) \/ IdleExit(s) \/ IdleRefused(s) \/ PopEmpty(s)
      PROVE  BatchBounded'
  BY <1>5, <1>6 DEF Kicked, IdleExit, IdleRefused, PopEmpty
<1>7. ASSUME NEW w \in Writers,
             WriteCall(w) \/ WriteWaits(w) \/ WriteRefused(w) \/ WriteAccepted(w)
      PROVE  BatchBounded'
  BY <1>5, <1>7 DEF WriteCall, WriteWaits, WriteRefused, WriteAccepted
<1>8. ASSUME NEW c \in Closers,
             CloseMark(c) \/ CloseSocket(c) \/ CloseWaits(c) \/ CloseReturns(c)
      PROVE  BatchBounded'
  BY <1>5, <1>8 DEF CloseMark, CloseSocket, CloseWaits, CloseReturns
<1>9. CASE UNCHANGED vars
  BY <1>5, <1>9 DEF vars
<1> QED
  BY <1>2, <1>3, <1>4, <1>6, <1>7, <1>8, <1>9 DEF Next, WriterStep, CloserStep, SenderStep

(* A step of the conn that settles the first m of the pending datagrams,   *)
(* n of them by handing them to the socket, is a step of the queue.        *)
LEMMA Settles ==
    ASSUME NEW m \in 0..Len(Pending \o queue), NEW n \in 0..m,
           written' = written \o SubSeq(Pending \o queue, 1, n),
           (Pending \o queue)' = SubSeq(Pending \o queue, m + 1, Len(Pending \o queue)),
           (closed \/ fatal) => (closed' \/ fatal'),
           accepted' = accepted
    PROVE  Queue!Settle
<1>1. (closed \/ fatal)' \in {closed \/ fatal, TRUE}
  OBVIOUS
<1> QED BY <1>1, Zenon DEF Queue!Settle

(* Nothing settled: the queue stutters, or begins to refuse.               *)
LEMMA SettlesNothing ==
    ASSUME TypeOK, BatchBounded, rest' = rest, queue' = queue, written' = written,
           accepted' = accepted, (closed \/ fatal) => (closed' \/ fatal')
    PROVE  Queue!Settle
<1> DEFINE p == Pending \o queue
<1>1. p \in Seq(Nat) /\ written \in Seq(Nat)
  BY PendingIs, ConcatProperties DEF TypeOK
<1>2. Len(p) \in Nat
  BY <1>1, LenProperties
<1>3. Pending' = Pending
  BY DEF Pending, InFlight
<1>4. p' = p
  BY <1>3
<1> HIDE DEF p
<1>5. SubSeq(p, 1, 0) = <<>> /\ SubSeq(p, 0 + 1, Len(p)) = p
  BY <1>1, SubSeqEmpty, SubSeqFull
<1>6. written' = written \o SubSeq(p, 1, 0) /\ p' = SubSeq(p, 0 + 1, Len(p))
  BY <1>1, <1>4, <1>5, ConcatEmptySeq
<1>7. 0 \in 0..Len(p) /\ 0 \in 0..0
  BY <1>2
<1> QED BY <1>6, <1>7, Settles DEF p

(* A write that hands out the first n datagrams of the batch and keeps the *)
(* others, or drops them.                                                  *)
LEMMA WriteSettles ==
    ASSUME TypeOK, OneSender, Ordered, NEW s \in Senders, spc[s] = "write",
           NEW n \in 0..Len(rest[s]), Out(s, n),
           queue' = queue, accepted' = accepted,
           NEW r \in {<<>>, Unsent(s, n)}, rest' = [rest EXCEPT ![s] = r],
           (closed \/ fatal) => (closed' \/ fatal')
    PROVE  Queue!Settle
<1> DEFINE p == Pending \o queue
<1>0. rest[s] \in Seq(Nat) /\ queue \in Seq(Nat) /\ rest \in [Senders -> Seq(Nat)]
  BY DEF TypeOK
<1>1. \A t \in Senders : t # s => rest[t] = <<>>
  BY OthersEmpty
<1>2. Pending = rest[s] /\ Pending' = r
  <2>1. rest'[s] = r /\ \A t \in Senders : t # s => rest'[t] = <<>>
    BY <1>0, <1>1
  <2> QED BY <1>1, <2>1, PendingOf, PendingOfPrimed
<1>3. p = rest[s] \o queue /\ p' = r \o queue
  BY <1>2
<1>4. Len(rest[s]) \in Nat /\ Len(queue) \in Nat /\ Len(p) = Len(rest[s]) + Len(queue)
  BY <1>0, <1>3, LenProperties, ConcatProperties
<1> HIDE DEF p
<1>5. written' = written \o SubSeq(p, 1, n)
  BY <1>0, <1>3, CutJoin DEF Out
<1>6. CASE r = Unsent(s, n)
  <2>1. p' = SubSeq(p, n + 1, Len(p))
    BY <1>0, <1>3, <1>6, CutJoin DEF Unsent
  <2>2. n \in 0..Len(p) /\ n \in 0..n
    BY <1>4
  <2> QED BY <1>5, <2>1, <2>2, Settles DEF p
<1>7. CASE r = <<>>
  <2> DEFINE m == Len(rest[s])
  <2>1. m \in 0..m /\ n \in 0..m /\ m \in 0..Len(p)
    BY <1>4
  <2>2. SubSeq(rest[s], m + 1, m) = <<>>
    BY <1>4, SubSeqEmpty
  <2>3. SubSeq(p, m + 1, Len(p)) = <<>> \o queue
    BY <1>0, <1>3, <2>1, <2>2, CutJoin
  <2>4. p' = SubSeq(p, m + 1, Len(p))
    BY <1>3, <1>7, <2>3
  <2> HIDE DEF m
  <2> QED BY <1>5, <2>1, <2>4, Settles DEF p
<1> QED BY <1>6, <1>7

(* Every step of coalesceConn is a step of the queue, or none. *)
LEMMA QueueStep ==
    IInv /\ Ordered /\ BatchBounded /\ [Next]_vars => [Queue!Next]_(Queue!abstract)
<1> SUFFICES ASSUME IInv, Ordered, BatchBounded, [Next]_vars
             PROVE  [Queue!Next]_(Queue!abstract)
  OBVIOUS
<1>0. TypeOK /\ OneSender
  BY DEF IInv
<1>t. queue \in Seq(Nat) /\ Pending \in Seq(Nat) /\ accepted \in Nat
      /\ Len(queue) \in Nat /\ Len(Pending) \in Nat /\ Len(Pending) <= MaxBatch
  BY <1>0, PendingIs, LenProperties DEF TypeOK
<1>s. ASSUME Queue!Settle PROVE [Queue!Next]_(Queue!abstract)
  BY <1>s DEF Queue!Next
<1>1. ASSUME NEW w \in Writers, WriteAccepted(w) PROVE [Queue!Next]_(Queue!abstract)
  <2>1. /\ ~closed /\ ~fatal /\ ~(Len(queue) >= QueueCap)
        /\ accepted' = accepted + 1 /\ queue' = Append(queue, accepted + 1)
        /\ rest' = rest /\ UNCHANGED <<closed, fatal, written>>
    BY <1>1 DEF WriteAccepted, MustWait
  <2>2. Pending' = Pending
    BY <2>1 DEF Pending, InFlight
  <2>3. Len(Pending \o queue) < QueueCap + MaxBatch
    <3>1. Len(Pending \o queue) = Len(Pending) + Len(queue)
      BY <1>t, ConcatProperties
    <3> QED BY <1>t, <2>1, <3>1, CoalesceAssumption
  <2>4. (Pending \o queue)' = Append(Pending \o queue, accepted + 1)
    <3>1. accepted + 1 \in Nat
      BY <1>t
    <3>2. Pending \o Append(queue, accepted + 1) = Append(Pending \o queue, accepted + 1)
      BY <1>t, <3>1, JoinAppend
    <3> QED BY <2>1, <2>2, <3>2
  <2>5. Queue!Accept
    BY <2>1, <2>3, <2>4 DEF Queue!Accept
  <2> QED BY <2>5 DEF Queue!Next
<1>2. ASSUME NEW s \in Senders, Pop(s) PROVE [Queue!Next]_(Queue!abstract)
  <2>1. \A t \in Senders : t # s => rest[t] = <<>>
    BY <1>0, <1>2, OthersEmpty DEF Pop
  <2>2. rest[s] = <<>> /\ Pending = <<>>
    <3>1. rest[s] = <<>>
      BY <1>2 DEF Pop, Ordered
    <3> QED BY <2>1, <3>1, PendingOf
  <2>3. Pending \o queue = queue
    BY <1>t, <2>2, ConcatEmptySeq
  <2>4. BatchLen \in 0..Len(queue)
    BY <1>0, BatchFits
  <2>5. /\ queue' = SubSeq(queue, BatchLen + 1, Len(queue))
        /\ UNCHANGED <<closed, fatal, accepted, written>>
    BY <1>2 DEF Pop
  <2>6. CASE fatal
    <3>1. rest' = rest
      BY <1>2, <2>6 DEF Pop
    <3>2. Pending' = <<>>
      BY <2>2, <3>1 DEF Pending, InFlight
    <3>3. queue' \in Seq(Nat)
      BY <1>t, <2>4, <2>5, Cut
    <3>4. (Pending \o queue)' = SubSeq(queue, BatchLen + 1, Len(queue))
      BY <2>5, <3>2, <3>3, ConcatEmptySeq
    <3>5. written' = written \o SubSeq(queue, 1, 0)
      BY <1>0, <2>5, SubSeqEmpty, ConcatEmptySeq DEF TypeOK
    <3>6. BatchLen \in 0..Len(Pending \o queue) /\ 0 \in 0..BatchLen
      BY <2>3, <2>4
    <3>7. Queue!Settle
      BY <2>3, <2>5, <3>4, <3>5, <3>6, Settles
    <3> QED BY <1>s, <3>7
  <2>7. CASE ~fatal
    <3> DEFINE b == SubSeq(queue, 1, BatchLen)
    <3>1. rest' = [rest EXCEPT ![s] = b]
      BY <1>2, <2>7 DEF Pop
    <3> HIDE DEF b
    <3>2. rest'[s] = b /\ \A t \in Senders : t # s => rest'[t] = <<>>
      BY <1>0, <2>1, <3>1 DEF TypeOK
    <3>3. Pending' = b
      BY <3>2, PendingOfPrimed
    <3>4. (Pending \o queue)' = Pending \o queue
      BY <1>t, <2>3, <2>4, <2>5, <3>3, Rejoin DEF b
    <3>5. UNCHANGED Queue!abstract
      BY <2>5, <3>4 DEF Queue!abstract
    <3> QED BY <3>5
  <2> QED BY <2>6, <2>7
<1>3. ASSUME NEW s \in Senders, WriteOk(s) PROVE [Queue!Next]_(Queue!abstract)
  <2>1. Len(rest[s]) \in 0..Len(rest[s])
    BY <1>0, LenProperties DEF TypeOK
  <2>2. /\ rest' = [rest EXCEPT ![s] = <<>>] /\ Out(s, Len(rest[s])) /\ spc[s] = "write"
        /\ UNCHANGED <<queue, accepted, closed, fatal>>
    BY <1>3 DEF WriteOk, BatchDone, conn
  <2> QED BY <1>0, <1>s, <2>1, <2>2, WriteSettles
<1>4. ASSUME NEW s \in Senders, WriteRetry(s) PROVE [Queue!Next]_(Queue!abstract)
  <2>1. PICK n \in 0..(Len(rest[s]) - 1) :
           /\ Out(s, n)
           /\ \/ rest' = [rest EXCEPT ![s] = Unsent(s, n)]
              \/ rest' = [rest EXCEPT ![s] = <<>>]
    BY <1>4 DEF WriteRetry, BatchDone
  <2>2. n \in 0..Len(rest[s])
    BY <1>0, LenProperties DEF TypeOK
  <2>3. spc[s] = "write" /\ UNCHANGED <<queue, accepted, closed, fatal>>
    BY <1>4 DEF WriteRetry, conn
  <2> QED BY <1>0, <1>s, <2>1, <2>2, <2>3, WriteSettles
<1>5. ASSUME NEW s \in Senders, WriteFatal(s) PROVE [Queue!Next]_(Queue!abstract)
  <2>1. PICK n \in 0..(Len(rest[s]) - 1) : Out(s, n)
    BY <1>5 DEF WriteFatal
  <2>2. n \in 0..Len(rest[s])
    BY <1>0, LenProperties DEF TypeOK
  <2>3. /\ rest' = [rest EXCEPT ![s] = <<>>] /\ spc[s] = "write" /\ fatal'
        /\ UNCHANGED <<queue, accepted>>
    BY <1>5 DEF WriteFatal, BatchDone
  <2> QED BY <1>0, <1>s, <2>1, <2>2, <2>3, WriteSettles
<1>6. ASSUME rest' = rest, queue' = queue, written' = written, accepted' = accepted,
             (closed \/ fatal) => (closed' \/ fatal')
      PROVE  [Queue!Next]_(Queue!abstract)
  BY <1>0, <1>6, <1>s, SettlesNothing
<1>7. ASSUME NEW s \in Senders,
             Kicked(s) \/ IdleExit(s) \/ IdleRefused(s) \/ PopEmpty(s)
      PROVE  [Queue!Next]_(Queue!abstract)
  BY <1>6, <1>7 DEF Kicked, IdleExit, IdleRefused, PopEmpty, conn
<1>8. ASSUME NEW w \in Writers, WriteCall(w) \/ WriteWaits(w) \/ WriteRefused(w)
      PROVE  [Queue!Next]_(Queue!abstract)
  BY <1>6, <1>8 DEF WriteCall, WriteWaits, WriteRefused, conn
<1>9. ASSUME NEW c \in Closers,
             CloseMark(c) \/ CloseSocket(c) \/ CloseWaits(c) \/ CloseReturns(c)
      PROVE  [Queue!Next]_(Queue!abstract)
  BY <1>6, <1>9 DEF CloseMark, CloseSocket, CloseWaits, CloseReturns, conn
<1>10. CASE UNCHANGED vars
  BY <1>6, <1>10 DEF vars
<1> QED
  BY <1>1, <1>2, <1>3, <1>4, <1>5, <1>7, <1>8, <1>9, <1>10
  DEF Next, WriterStep, CloserStep, SenderStep

(* coalesceConn is a bounded queue: whatever senders come and go, batches  *)
(* go out in part, writes are retried or fail, WriteTo and Close can be    *)
(* understood as DatagramQueue's steps, which keep the order, drop only    *)
(* from the front and never accept again once they refuse.                 *)
THEOREM CoalesceIsQueue == Spec => ImplementsQueue
<1>1. Init => Ordered /\ BatchBounded /\ Queue!Init
  <2> SUFFICES ASSUME Init PROVE Ordered /\ BatchBounded /\ Queue!Init
    OBVIOUS
  <2>1. Ordered
    BY EmptyOrder DEF Init, Ordered
  <2>2. BatchBounded
    BY EmptySeq, CoalesceAssumption DEF Init, BatchBounded
  <2>3. InFlight = {}
    BY DEF Init, InFlight
  <2>4. Pending \o queue = <<>>
    <3>1. Pending = <<>> /\ queue = <<>>
      BY <2>3 DEF Init, Pending
    <3> QED BY <3>1, EmptySeq, ConcatEmptySeq
  <2>5. Queue!Init
    BY <2>4 DEF Init, Queue!Init
  <2> QED BY <2>1, <2>2, <2>5
<1>2. IInv /\ Ordered /\ BatchBounded /\ [Next]_vars => (Ordered /\ BatchBounded)'
  BY OrderStepKeeps, BoundStep
<1>3. IInv /\ Ordered /\ BatchBounded /\ [Next]_vars => [Queue!Next]_(Queue!abstract)
  BY QueueStep
<1> QED BY <1>1, <1>2, <1>3, IInvariant, PTL DEF Spec, ImplementsQueue, Queue!Spec
=============================================================================
