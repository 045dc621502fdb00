--------------------------- MODULE DatagramQueue ---------------------------
(***************************************************************************)
(* What a connection over coalesceConn (udpbatch/batch_windows.go) may     *)
(* count on: a bounded queue in front of an unreliable socket. Accepted    *)
(* datagrams go out in order, each at most once; some are dropped, never   *)
(* one behind another that is kept; once the queue refuses it refuses for  *)
(* ever and empties.                                                       *)
(***************************************************************************)
EXTENDS Integers, Sequences

CONSTANT Capacity    \* datagrams accepted and not yet settled

VARIABLES
    accepted,  \* number of datagrams accepted
    pending,   \* those that are neither out nor dropped
    out,       \* those handed to the socket
    refusing   \* no more are accepted

abstract == <<accepted, pending, out, refusing>>

Init == accepted = 0 /\ pending = <<>> /\ out = <<>> /\ ~refusing

Accept ==
    /\ ~refusing /\ Len(pending) < Capacity
    /\ accepted' = accepted + 1
    /\ pending' = Append(pending, accepted + 1)
    /\ UNCHANGED <<out, refusing>>

(* The first n go out, those after them up to the mth are dropped; the     *)
(* queue may be refusing from now on.                                      *)
Settle ==
    /\ \E m \in 0..Len(pending) : \E n \in 0..m :
         /\ out' = out \o SubSeq(pending, 1, n)
         /\ pending' = SubSeq(pending, m + 1, Len(pending))
    /\ refusing' \in {refusing, TRUE}
    /\ UNCHANGED accepted

Next == Accept \/ Settle

Spec == Init /\ [][Next]_abstract
=============================================================================
