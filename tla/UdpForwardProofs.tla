------------------------- MODULE UdpForwardProofs -------------------------
(***************************************************************************)
(* Proofs about UdpForward, for any set of clients, limit on the sessions  *)
(* and number of tunnels and streams. NoLeak is not inductive by itself:   *)
(* whoever takes sessions out of the table must have closed the ones it    *)
(* took before (Hands), and a session must be in the table under its own   *)
(* client's address, because dropSession goes by address (Filed).          *)
(***************************************************************************)
EXTENDS UdpForward, FiniteSetTheorems, WellFoundedInduction, TLAPS

(* A session in the table is an opened one, filed under its client. *)
Filed ==
    /\ \A c \in Clients : table[c] # 0 => table[c] <= opened /\ client[table[c]] = c
    /\ \A s \in Sessions : s <= opened => client[s] \in Clients
    /\ \A s \in Sessions : reader[s] # "none" => s <= opened

(* What Serve holds while it deals with a datagram. *)
ServeHolds ==
    /\ serve.pc \notin {"read", "done"} => serve.key \in Clients
    /\ serve.pc \in {"insert", "put"} =>
          /\ serve.sess \in 1..opened
          /\ client[serve.sess] = serve.key
          /\ reader[serve.sess] = "none"

(* Only who is closing sessions has sessions to close. *)
Hands ==
    /\ serve.pc \notin {"put", "dropped"} => todo.serve = {}
    /\ owner.pc \notin {"set", "closing", "sock"} => todo.owner = {}
    /\ sweeper = "sweep" => todo.sweeper = {}
    /\ \A s \in Sessions : reader[s] # "done" => rtodo[s] = {}

Room == serve.pc = "put" => Cardinality(Live) < MaxUDPSessions

UInv == TypeOK /\ Filed /\ ServeHolds /\ Hands /\ InsertsAlone

(* A table with sessions in it has an oldest one. *)
LEMMA OldestExists ==
    ASSUME TypeOK, Live # {}
    PROVE  Oldest \in Live
<1> DEFINE T == {table[c] : c \in Live}
<1>1. T \subseteq Nat
  BY UdpForwardAssumption DEF TypeOK, Live
<1>2. T # {}
  OBVIOUS
<1>3. PICK x \in T : \A y \in T : ~(<<y, x>> \in OpToRel(<, Nat))
  <2> HIDE DEF T
  <2> QED BY <1>1, <1>2, NatLessThanWellFounded, WFMin, Zenon
<1>4. \A y \in T : ~(y < x)
  BY <1>1, <1>3, Zenon DEF OpToRel
<1>5. \A y \in T : x <= y
  BY <1>1, <1>4
<1>6. PICK c \in Live : table[c] = x
  OBVIOUS
<1>7. \A d \in Live : table[c] <= table[d]
  BY <1>5, <1>6
<1> QED BY <1>7 DEF Oldest

(* A full table is not empty. *)
LEMMA FullHasSessions ==
    ASSUME TypeOK, Full
    PROVE  Live # {}
BY FS_EmptySet, UdpForwardAssumption DEF Full

(* Records stay records of their kind when a field is set. *)
LEMMA Records ==
    ASSUME TypeOK
    PROVE  /\ NoServe \in [pc : ServePc, key : Clients \cup {None},
                           sess : 0..MaxStreams, conn : 0..MaxTunnels]
           /\ \A pc \in ServePc : [serve EXCEPT !.pc = pc]
                 \in [pc : ServePc, key : Clients \cup {None},
                      sess : 0..MaxStreams, conn : 0..MaxTunnels]
           /\ \A pc \in ServePc, c \in Clients : [serve EXCEPT !.pc = pc, !.key = c]
                 \in [pc : ServePc, key : Clients \cup {None},
                      sess : 0..MaxStreams, conn : 0..MaxTunnels]
           /\ \A pc \in ServePc, s \in 0..MaxStreams, t \in 0..MaxTunnels :
                 /\ [serve EXCEPT !.pc = pc, !.sess = s] \in
                       [pc : ServePc, key : Clients \cup {None},
                            sess : 0..MaxStreams, conn : 0..MaxTunnels]
                 /\ [serve EXCEPT !.pc = pc, !.sess = s, !.conn = t] \in
                       [pc : ServePc, key : Clients \cup {None},
                            sess : 0..MaxStreams, conn : 0..MaxTunnels]
                 /\ [serve EXCEPT !.pc = pc, !.conn = t] \in
                       [pc : ServePc, key : Clients \cup {None},
                            sess : 0..MaxStreams, conn : 0..MaxTunnels]
           /\ \A S \in SUBSET Sessions :
                 /\ [todo EXCEPT !.serve = S] \in
                       [serve : SUBSET Sessions, owner : SUBSET Sessions, sweeper : SUBSET Sessions]
                 /\ [todo EXCEPT !.owner = S] \in
                       [serve : SUBSET Sessions, owner : SUBSET Sessions, sweeper : SUBSET Sessions]
                 /\ [todo EXCEPT !.sweeper = S] \in
                       [serve : SUBSET Sessions, owner : SUBSET Sessions, sweeper : SUBSET Sessions]
           /\ Held \subseteq Sessions
           /\ \A c \in Clients : Of(c) \in SUBSET Sessions
           /\ \A c : [table EXCEPT ![c] = 0] \in [Clients -> 0..MaxStreams]
<1> USE UdpForwardAssumption
<1>1. NoServe \in [pc : ServePc, key : Clients \cup {None},
                   sess : 0..MaxStreams, conn : 0..MaxTunnels]
  BY DEF NoServe, ServePc
<1>2. \A pc \in ServePc : [serve EXCEPT !.pc = pc]
         \in [pc : ServePc, key : Clients \cup {None},
              sess : 0..MaxStreams, conn : 0..MaxTunnels]
  BY DEF TypeOK
<1>3. \A S \in SUBSET Sessions :
         /\ [todo EXCEPT !.serve = S] \in
               [serve : SUBSET Sessions, owner : SUBSET Sessions, sweeper : SUBSET Sessions]
         /\ [todo EXCEPT !.owner = S] \in
               [serve : SUBSET Sessions, owner : SUBSET Sessions, sweeper : SUBSET Sessions]
         /\ [todo EXCEPT !.sweeper = S] \in
               [serve : SUBSET Sessions, owner : SUBSET Sessions, sweeper : SUBSET Sessions]
  BY DEF TypeOK
<1>4. Held \subseteq Sessions
  BY DEF TypeOK, Held, Live, Sessions
<1>5. \A c \in Clients : Of(c) \in SUBSET Sessions
  BY DEF TypeOK, Of, Sessions
<1>6. \A c : [table EXCEPT ![c] = 0] \in [Clients -> 0..MaxStreams]
  <2>1. table \in [Clients -> 0..MaxStreams]
    BY DEF TypeOK
  <2>2. 0 \in 0..MaxStreams
    OBVIOUS
  <2> TAKE c
  <2>3. \A d \in Clients : [table EXCEPT ![c] = 0][d] \in 0..MaxStreams
    BY <2>1, <2>2, Zenon
  <2> QED BY <2>1, <2>3, Zenon
<1>7. \A pc \in ServePc, c \in Clients : [serve EXCEPT !.pc = pc, !.key = c]
         \in [pc : ServePc, key : Clients \cup {None},
              sess : 0..MaxStreams, conn : 0..MaxTunnels]
  BY DEF TypeOK
<1>8. \A pc \in ServePc, s \in 0..MaxStreams, t \in 0..MaxTunnels :
         /\ [serve EXCEPT !.pc = pc, !.sess = s] \in
               [pc : ServePc, key : Clients \cup {None},
                sess : 0..MaxStreams, conn : 0..MaxTunnels]
         /\ [serve EXCEPT !.pc = pc, !.sess = s, !.conn = t] \in
               [pc : ServePc, key : Clients \cup {None},
                sess : 0..MaxStreams, conn : 0..MaxTunnels]
         /\ [serve EXCEPT !.pc = pc, !.conn = t] \in
               [pc : ServePc, key : Clients \cup {None},
                sess : 0..MaxStreams, conn : 0..MaxTunnels]
  BY DEF TypeOK
<1> QED BY <1>1, <1>2, <1>3, <1>4, <1>5, <1>6, <1>7, <1>8

(* UInv holds at the start. *)
LEMMA UInit == Init => UInv
<1> USE UdpForwardAssumption
<1> SUFFICES ASSUME Init PROVE UInv
  OBVIOUS
<1>1. TypeOK
  <2>1. /\ serve \in [pc : ServePc, key : Clients \cup {None}, sess : 0..MaxStreams,
                      conn : 0..MaxTunnels]
        /\ owner \in [pc : {"none", "set", "clear", "closing", "sock"}, conn : 0..MaxTunnels]
        /\ todo \in [serve : SUBSET Sessions, owner : SUBSET Sessions,
                     sweeper : SUBSET Sessions]
    BY DEF Init, NoServe, ServePc
  <2>2. /\ table \in [Clients -> 0..MaxStreams]
        /\ client \in [Sessions -> Clients \cup {None}]
        /\ over \in [Sessions -> 0..MaxTunnels]
    BY DEF Init, Empty
  <2>3. age \in [Sessions -> Ages] /\ rtodo \in [Sessions -> SUBSET Sessions]
    BY DEF Init, Ages
  <2>4. reader \in [Sessions -> {"none", "read", "drop", "done"}]
    BY DEF Init
  <2>5. tunnel \in 0..MaxTunnels /\ conn \in 0..MaxTunnels /\ opened \in 0..MaxStreams
    BY DEF Init
  <2>6. /\ up \in BOOLEAN /\ sweeping \in BOOLEAN /\ sockOpen \in BOOLEAN
        /\ closed \subseteq Sessions /\ sweeper \in {"none", "tick", "sweep"}
    BY Zenon DEF Init
  <2> QED BY <2>1, <2>2, <2>3, <2>4, <2>5, <2>6 DEF TypeOK
<1>2. Filed
  BY DEF Init, Filed, Empty, Sessions
<1>3. ServeHolds /\ InsertsAlone
  BY DEF Init, ServeHolds, InsertsAlone, NoServe
<1>4. Hands
  BY DEF Init, Hands, NoServe
<1> QED BY <1>1, <1>2, <1>3, <1>4 DEF UInv
(* Every step keeps the types. *)
LEMMA TypeStep == TypeOK /\ ServeHolds /\ Filed /\ [Next]_vars => TypeOK'
<1> SUFFICES ASSUME TypeOK, ServeHolds, Filed, [Next]_vars PROVE TypeOK'
  OBVIOUS
<1> USE UdpForwardAssumption
<1> USE DEF tun, sess, sweep
<1>1. ASSUME NEW c \in Clients, Receive(c) PROVE TypeOK'
  <2>1. serve' \in [pc : ServePc, key : Clients \cup {None}, sess : 0..MaxStreams,
                     conn : 0..MaxTunnels]
    <3>1. "look" \in ServePc
      BY DEF ServePc
    <3> QED BY <1>1, <3>1, Records, Zenon DEF Receive
  <2> QED BY <1>1, <2>1 DEF Receive, TypeOK
<1>2. CASE ServeEnds
  <2>1. serve' \in [pc : ServePc, key : Clients \cup {None}, sess : 0..MaxStreams,
                     conn : 0..MaxTunnels]
    BY <1>2, Records DEF ServeEnds, NoServe, Go, Again, ServePc, TypeOK
  <2> QED BY <1>2, <2>1 DEF ServeEnds, TypeOK
<1>3. CASE GetSession
  <2>1. serve' \in [pc : ServePc, key : Clients \cup {None}, sess : 0..MaxStreams,
                     conn : 0..MaxTunnels]
    <3>1. "write" \in ServePc /\ "open" \in ServePc
      BY DEF ServePc
    <3>2. table[serve.key] \in 0..MaxStreams
      BY <1>3 DEF GetSession, ServeHolds, TypeOK
    <3> QED BY <1>3, <3>1, <3>2, Records DEF GetSession
  <2> QED BY <1>3, <2>1 DEF GetSession, TypeOK
<1>4. CASE OpenBegin
  <2>1. serve' \in [pc : ServePc, key : Clients \cup {None}, sess : 0..MaxStreams,
                     conn : 0..MaxTunnels]
    <3>1. "opening" \in ServePc /\ conn \in 0..MaxTunnels
      BY DEF ServePc, TypeOK
    <3> QED BY <1>4, <3>1, Records, Zenon DEF OpenBegin
  <2> QED BY <1>4, <2>1 DEF OpenBegin, TypeOK
<1>5. CASE OpenFails
  <2>1. serve' \in [pc : ServePc, key : Clients \cup {None}, sess : 0..MaxStreams,
                     conn : 0..MaxTunnels]
    BY <1>5, Records DEF OpenFails, NoServe, Go, Again, ServePc, TypeOK
  <2> QED BY <1>5, <2>1 DEF OpenFails, TypeOK
<1>6. CASE WriteBegin
  <2>1. serve' \in [pc : ServePc, key : Clients \cup {None}, sess : 0..MaxStreams,
                     conn : 0..MaxTunnels]
    BY <1>6, Records DEF WriteBegin, NoServe, Go, Again, ServePc, TypeOK
  <2> QED BY <1>6, <2>1 DEF WriteBegin, TypeOK
<1>7. CASE Opened
  <2>1. serve' \in [pc : ServePc, key : Clients \cup {None}, sess : 0..MaxStreams,
                     conn : 0..MaxTunnels]
    <3>1. "insert" \in ServePc /\ opened + 1 \in 0..MaxStreams /\ 0 \in 0..MaxTunnels
      BY <1>7 DEF ServePc, Opened, TypeOK
    <3> QED BY <1>7, <3>1, Records DEF Opened
  <2>2. opened + 1 \in Sessions /\ opened' \in 0..MaxStreams
    BY <1>7 DEF Opened, TypeOK, Sessions
  <2>3. /\ client' \in [Sessions -> Clients \cup {None}]
        /\ over' \in [Sessions -> 0..MaxTunnels]
    BY <1>7, <2>2 DEF Opened, TypeOK
  <2> QED BY <1>7, <2>1, <2>2, <2>3 DEF Opened, TypeOK
<1>8. CASE Insert
  <2>1. serve' \in [pc : ServePc, key : Clients \cup {None}, sess : 0..MaxStreams,
                     conn : 0..MaxTunnels]
    BY <1>8, Records DEF Insert, Put, Go, ServePc
  <2>2. /\ table' \in [Clients -> 0..MaxStreams]
        /\ sweeping' \in BOOLEAN /\ sweeper' \in {"none", "tick", "sweep"}
    BY <1>8 DEF Insert, Put, TypeOK
  <2>3. reader' \in [Sessions -> {"none", "read", "drop", "done"}]
    BY <1>8 DEF Insert, Put, TypeOK
  <2> QED BY <1>8, <2>1, <2>2, <2>3 DEF Insert, TypeOK
<1>9. CASE InsertAfterEvict
  <2>1. serve' \in [pc : ServePc, key : Clients \cup {None}, sess : 0..MaxStreams,
                     conn : 0..MaxTunnels]
    BY <1>9, Records DEF InsertAfterEvict, Put, Go, ServePc
  <2>2. /\ table' \in [Clients -> 0..MaxStreams]
        /\ sweeping' \in BOOLEAN /\ sweeper' \in {"none", "tick", "sweep"}
    BY <1>9 DEF InsertAfterEvict, Put, TypeOK
  <2>3. reader' \in [Sessions -> {"none", "read", "drop", "done"}]
    BY <1>9 DEF InsertAfterEvict, Put, TypeOK
  <2> QED BY <1>9, <2>1, <2>2, <2>3 DEF InsertAfterEvict, TypeOK
<1>10. CASE Evict
  <2>1. serve' \in [pc : ServePc, key : Clients \cup {None}, sess : 0..MaxStreams,
                     conn : 0..MaxTunnels]
    BY <1>10, Records DEF Evict, Go, ServePc
  <2>2. Oldest \in Live
    BY <1>10, FullHasSessions, OldestExists DEF Evict
  <2>3. {table[Oldest]} \in SUBSET Sessions
    BY <2>2 DEF Live, TypeOK, Sessions
  <2>4. todo' \in [serve : SUBSET Sessions, owner : SUBSET Sessions, sweeper : SUBSET Sessions]
    BY <1>10, <2>3, Records DEF Evict
  <2>5. table' \in [Clients -> 0..MaxStreams]
    BY <1>10, Records DEF Evict
  <2> QED BY <1>10, <2>1, <2>4, <2>5 DEF Evict, TypeOK
<1>11. CASE WriteEnd
  <2>1. serve' \in [pc : ServePc, key : Clients \cup {None}, sess : 0..MaxStreams,
                     conn : 0..MaxTunnels]
    BY <1>11, Records DEF WriteEnd, NoServe, Go, Again, ServePc, TypeOK
  <2>2. age' \in [Sessions -> Ages]
    BY <1>11 DEF WriteEnd, TypeOK, Ages
  <2> QED BY <1>11, <2>1, <2>2 DEF WriteEnd, TypeOK
<1>12. CASE ServeDrops
  <2>1. serve' \in [pc : ServePc, key : Clients \cup {None}, sess : 0..MaxStreams,
                     conn : 0..MaxTunnels]
    BY <1>12, Records DEF ServeDrops, NoServe, Go, Again, ServePc, TypeOK
  <2>2. todo' \in [serve : SUBSET Sessions, owner : SUBSET Sessions, sweeper : SUBSET Sessions]
    BY <1>12, Records DEF ServeDrops, ServeHolds
  <2>3. table' \in [Clients -> 0..MaxStreams]
    BY <1>12, Records DEF ServeDrops, Drop
  <2> QED BY <1>12, <2>1, <2>2, <2>3 DEF ServeDrops, TypeOK
<1>13. CASE ServeDropped
  <2>1. serve' \in [pc : ServePc, key : Clients \cup {None}, sess : 0..MaxStreams,
                     conn : 0..MaxTunnels]
    BY <1>13, Records DEF ServeDropped, NoServe, Go, Again, ServePc, TypeOK
  <2> QED BY <1>13, <2>1 DEF ServeDropped, TypeOK
<1>14. CASE SetQuicConn
  <2>1. owner' \in [pc : {"none", "set", "clear", "closing", "sock"}, conn : 0..MaxTunnels]
    BY <1>14 DEF SetQuicConn, TypeOK
  <2>2. todo' \in [serve : SUBSET Sessions, owner : SUBSET Sessions, sweeper : SUBSET Sessions]
    BY <1>14, Records DEF SetQuicConn, TakeAll
  <2>3. table' \in [Clients -> 0..MaxStreams]
    BY <1>14 DEF SetQuicConn, TakeAll, Empty
  <2>4. tunnel' \in 0..MaxTunnels /\ up' \in BOOLEAN
    BY <1>14 DEF SetQuicConn, TypeOK
  <2> QED BY <1>14, <2>1, <2>2, <2>3, <2>4 DEF SetQuicConn, TypeOK
<1>15. CASE ClearTakes
  <2>1. owner' \in [pc : {"none", "set", "clear", "closing", "sock"}, conn : 0..MaxTunnels]
    BY <1>15 DEF ClearTakes, TypeOK
  <2>2. todo' \in [serve : SUBSET Sessions, owner : SUBSET Sessions, sweeper : SUBSET Sessions]
    BY <1>15, Records DEF ClearTakes, TakeAll
  <2>3. table' \in [Clients -> 0..MaxStreams]
    BY <1>15 DEF ClearTakes, TakeAll, Empty
  <2> QED BY <1>15, <2>1, <2>2, <2>3 DEF ClearTakes, TypeOK
<1>16. CASE Close
  <2>1. owner' \in [pc : {"none", "set", "clear", "closing", "sock"}, conn : 0..MaxTunnels]
    BY <1>16 DEF Close, TypeOK
  <2>2. todo' \in [serve : SUBSET Sessions, owner : SUBSET Sessions, sweeper : SUBSET Sessions]
    BY <1>16, Records DEF Close, TakeAll
  <2>3. table' \in [Clients -> 0..MaxStreams]
    BY <1>16 DEF Close, TakeAll, Empty
  <2> QED BY <1>16, <2>1, <2>2, <2>3 DEF Close, TypeOK
<1>17. CASE SetQuicConnEnds
  <2>1. owner' \in [pc : {"none", "set", "clear", "closing", "sock"}, conn : 0..MaxTunnels]
    BY <1>17 DEF SetQuicConnEnds, TypeOK
  <2> QED BY <1>17, <2>1 DEF SetQuicConnEnds, TypeOK
<1>18. CASE ClearQuicConn
  <2>1. owner' \in [pc : {"none", "set", "clear", "closing", "sock"}, conn : 0..MaxTunnels]
    BY <1>18 DEF ClearQuicConn, TypeOK
  <2> QED BY <1>18, <2>1 DEF ClearQuicConn, TypeOK
<1>19. CASE ClearEnds
  <2>1. owner' \in [pc : {"none", "set", "clear", "closing", "sock"}, conn : 0..MaxTunnels]
    BY <1>19 DEF ClearEnds, TypeOK
  <2> QED BY <1>19, <2>1 DEF ClearEnds, TypeOK
<1>20. CASE CloseEnds
  <2>1. owner' \in [pc : {"none", "set", "clear", "closing", "sock"}, conn : 0..MaxTunnels]
    BY <1>20 DEF CloseEnds, TypeOK
  <2> QED BY <1>20, <2>1 DEF CloseEnds, TypeOK
<1>21. CASE SweepTick
  BY <1>21 DEF SweepTick, SweeperLeaves, TypeOK
<1>22. CASE Sweep
  <2>1. Victims \in SUBSET Sessions
    BY Records DEF Victims
  <2>2. todo' \in [serve : SUBSET Sessions, owner : SUBSET Sessions, sweeper : SUBSET Sessions]
    BY <1>22, <2>1, Records DEF Sweep
  <2>3. table' \in [Clients -> 0..MaxStreams]
    BY <1>22 DEF Sweep, TypeOK
  <2> QED BY <1>22, <2>2, <2>3 DEF Sweep, TypeOK
<1>23. ASSUME NEW s \in Sessions, Downlink(s) PROVE TypeOK'
  <2>1. age' \in [Sessions -> Ages]
    BY <1>23 DEF Downlink, TypeOK, Ages
  <2> QED BY <1>23, <2>1 DEF Downlink, TypeOK
<1>24. ASSUME NEW s \in Sessions, ReadEnds(s) PROVE TypeOK'
  <2>1. reader' \in [Sessions -> {"none", "read", "drop", "done"}]
    BY <1>24 DEF ReadEnds, TypeOK
  <2> QED BY <1>24, <2>1 DEF ReadEnds, TypeOK
<1>25. ASSUME NEW s \in Sessions, ReaderDrops(s) PROVE TypeOK'
  <2>1. reader' \in [Sessions -> {"none", "read", "drop", "done"}]
    BY <1>25 DEF ReaderDrops, TypeOK
  <2>2. client[s] \in Clients
    BY <1>25 DEF ReaderDrops, Filed
  <2>3. rtodo' \in [Sessions -> SUBSET Sessions]
    BY <1>25, <2>2, Records DEF ReaderDrops, TypeOK
  <2>4. table' \in [Clients -> 0..MaxStreams]
    BY <1>25, Records DEF ReaderDrops, Drop
  <2> QED BY <1>25, <2>1, <2>3, <2>4 DEF ReaderDrops, TypeOK
<1>26. ASSUME NEW s \in Sessions, ServeCloses(s) PROVE TypeOK'
  <2>1. todo.serve \ {s} \in SUBSET Sessions
    BY DEF TypeOK
  <2>2. todo' \in [serve : SUBSET Sessions, owner : SUBSET Sessions, sweeper : SUBSET Sessions]
    BY <1>26, <2>1, Records DEF ServeCloses
  <2>3. closed' \subseteq Sessions /\ age' \in [Sessions -> Ages]
    BY <1>26 DEF ServeCloses, Shut, TypeOK, Ages
  <2> QED BY <1>26, <2>2, <2>3 DEF ServeCloses, TypeOK
<1>27. ASSUME NEW s \in Sessions, OwnerCloses(s) PROVE TypeOK'
  <2>1. todo.owner \ {s} \in SUBSET Sessions
    BY DEF TypeOK
  <2>2. todo' \in [serve : SUBSET Sessions, owner : SUBSET Sessions, sweeper : SUBSET Sessions]
    BY <1>27, <2>1, Records DEF OwnerCloses
  <2>3. closed' \subseteq Sessions /\ age' \in [Sessions -> Ages]
    BY <1>27 DEF OwnerCloses, Shut, TypeOK, Ages
  <2> QED BY <1>27, <2>2, <2>3 DEF OwnerCloses, TypeOK
<1>28. ASSUME NEW s \in Sessions, SweeperCloses(s) PROVE TypeOK'
  <2>1. todo.sweeper \ {s} \in SUBSET Sessions
    BY DEF TypeOK
  <2>2. todo' \in [serve : SUBSET Sessions, owner : SUBSET Sessions, sweeper : SUBSET Sessions]
    BY <1>28, <2>1, Records DEF SweeperCloses
  <2>3. closed' \subseteq Sessions /\ age' \in [Sessions -> Ages]
    BY <1>28 DEF SweeperCloses, Shut, TypeOK, Ages
  <2> QED BY <1>28, <2>2, <2>3 DEF SweeperCloses, TypeOK
<1>29. ASSUME NEW r \in Sessions, NEW s \in Sessions, ReaderCloses(r, s) PROVE TypeOK'
  <2>1. rtodo' \in [Sessions -> SUBSET Sessions]
    BY <1>29 DEF ReaderCloses, TypeOK
  <2>2. closed' \subseteq Sessions /\ age' \in [Sessions -> Ages]
    BY <1>29 DEF ReaderCloses, Shut, TypeOK, Ages
  <2> QED BY <1>29, <2>1, <2>2 DEF ReaderCloses, TypeOK
<1>30. CASE TunnelDies
  BY <1>30 DEF TunnelDies, TypeOK
<1>31. ASSUME NEW s \in Sessions, TimePasses(s) PROVE TypeOK'
  <2>1. age' \in [Sessions -> Ages]
    BY <1>31 DEF TimePasses, TypeOK, Ages
  <2> QED BY <1>31, <2>1 DEF TimePasses, TypeOK
<1>32. CASE UNCHANGED vars
  BY <1>32 DEF vars, TypeOK
<1> QED
  BY <1>1, <1>2, <1>3, <1>4, <1>5, <1>6, <1>7, <1>8, <1>9, <1>10, <1>11, <1>12, <1>13,
     <1>14, <1>15, <1>16, <1>17, <1>18, <1>19, <1>20, <1>21, <1>22, <1>23, <1>24, <1>25,
     <1>26, <1>27, <1>28, <1>29, <1>30, <1>31, <1>32
  DEF Next, ServeStep, OwnerStep, SweeperStep, ReaderStep

(* Every step keeps sessions filed under their clients. *)
LEMMA FiledStep == TypeOK /\ Filed /\ ServeHolds /\ [Next]_vars => Filed'
<1> SUFFICES ASSUME TypeOK, Filed, ServeHolds, [Next]_vars PROVE Filed'
  OBVIOUS
<1> USE UdpForwardAssumption DEF tun, sess, sweep
<1>a. /\ table \in [Clients -> 0..MaxStreams] /\ opened \in 0..MaxStreams
      /\ client \in [Sessions -> Clients \cup {None}]
      /\ reader \in [Sessions -> {"none", "read", "drop", "done"}]
  BY DEF TypeOK
<1>b. /\ serve \in [pc : ServePc, key : Clients \cup {None}, sess : 0..MaxStreams,
                    conn : 0..MaxTunnels]
      /\ todo \in [serve : SUBSET Sessions, owner : SUBSET Sessions,
                   sweeper : SUBSET Sessions]
      /\ rtodo \in [Sessions -> SUBSET Sessions]
  BY DEF TypeOK
<1>1. ASSUME NEW c \in Clients, Receive(c) PROVE Filed'
  BY <1>1, <1>a, <1>b DEF Receive, Filed, ServeHolds, Sessions
<1>2. CASE ServeEnds
  BY <1>2, <1>a, <1>b DEF ServeEnds, Go, Filed, ServeHolds, Sessions
<1>3. CASE GetSession
  BY <1>3, <1>a, <1>b DEF GetSession, Filed, ServeHolds, Sessions
<1>4. CASE OpenBegin
  BY <1>4, <1>a, <1>b DEF OpenBegin, NoServe, Filed, ServeHolds, Sessions
<1>5. CASE Opened
  BY <1>5, <1>a, <1>b DEF Opened, Sessions, Filed, ServeHolds, Sessions
<1>6. CASE OpenFails
  BY <1>6, <1>a, <1>b DEF OpenFails, Again, NoServe, Filed, ServeHolds, Sessions
<1>7. CASE Insert
  BY <1>7, <1>a, <1>b DEF Insert, Put, Go, Filed, ServeHolds, Sessions
<1>8. CASE Evict
  BY <1>8, <1>a, <1>b DEF Evict, Go, Filed, ServeHolds, Sessions
<1>9. CASE InsertAfterEvict
  BY <1>9, <1>a, <1>b DEF InsertAfterEvict, Put, Go, Filed, ServeHolds, Sessions
<1>10. CASE WriteBegin
  BY <1>10, <1>a, <1>b DEF WriteBegin, Go, Filed, ServeHolds, Sessions
<1>11. CASE WriteEnd
  BY <1>11, <1>a, <1>b DEF WriteEnd, Go, Again, NoServe, Filed, ServeHolds, Sessions
<1>12. CASE ServeDrops
  BY <1>12, <1>a, <1>b DEF ServeDrops, Drop, Go, Filed, ServeHolds, Sessions
<1>13. CASE ServeDropped
  BY <1>13, <1>a, <1>b DEF ServeDropped, Again, NoServe, Filed, ServeHolds, Sessions
<1>14. CASE SetQuicConn
  BY <1>14, <1>a, <1>b DEF SetQuicConn, TakeAll, Empty, Filed, ServeHolds, Sessions
<1>15. CASE SetQuicConnEnds
  BY <1>15, <1>a, <1>b DEF SetQuicConnEnds, Filed, ServeHolds, Sessions
<1>16. CASE ClearQuicConn
  BY <1>16, <1>a, <1>b DEF ClearQuicConn, Filed, ServeHolds, Sessions
<1>17. CASE ClearTakes
  BY <1>17, <1>a, <1>b DEF ClearTakes, TakeAll, Empty, Filed, ServeHolds, Sessions
<1>18. CASE ClearEnds
  BY <1>18, <1>a, <1>b DEF ClearEnds, Filed, ServeHolds, Sessions
<1>19. CASE Close
  BY <1>19, <1>a, <1>b DEF Close, TakeAll, Empty, Filed, ServeHolds, Sessions
<1>20. CASE CloseEnds
  BY <1>20, <1>a, <1>b DEF CloseEnds, Filed, ServeHolds, Sessions
<1>21. CASE SweepTick
  BY <1>21, <1>a, <1>b DEF SweepTick, SweeperLeaves, Filed, ServeHolds, Sessions
<1>22. CASE Sweep
  BY <1>22, <1>a, <1>b DEF Sweep, Filed, ServeHolds, Sessions
<1>23. ASSUME NEW s \in Sessions, Downlink(s) PROVE Filed'
  BY <1>23, <1>a, <1>b DEF Downlink, Filed, ServeHolds, Sessions
<1>24. ASSUME NEW s \in Sessions, ReadEnds(s) PROVE Filed'
  BY <1>24, <1>a, <1>b DEF ReadEnds, Filed, ServeHolds, Sessions
<1>25. ASSUME NEW s \in Sessions, ReaderDrops(s) PROVE Filed'
  BY <1>25, <1>a, <1>b DEF ReaderDrops, Drop, Filed, ServeHolds, Sessions
<1>26. ASSUME NEW s \in Sessions, ServeCloses(s) PROVE Filed'
  BY <1>26, <1>a, <1>b DEF ServeCloses, Filed, ServeHolds, Sessions
<1>27. ASSUME NEW s \in Sessions, OwnerCloses(s) PROVE Filed'
  BY <1>27, <1>a, <1>b DEF OwnerCloses, Filed, ServeHolds, Sessions
<1>28. ASSUME NEW s \in Sessions, SweeperCloses(s) PROVE Filed'
  BY <1>28, <1>a, <1>b DEF SweeperCloses, Filed, ServeHolds, Sessions
<1>29. ASSUME NEW r \in Sessions, NEW s \in Sessions, ReaderCloses(r, s) PROVE Filed'
  BY <1>29, <1>a, <1>b DEF ReaderCloses, Filed, ServeHolds, Sessions
<1>30. CASE TunnelDies
  BY <1>30, <1>a, <1>b DEF TunnelDies, Filed, ServeHolds, Sessions
<1>31. ASSUME NEW s \in Sessions, TimePasses(s) PROVE Filed'
  BY <1>31, <1>a, <1>b DEF TimePasses, Filed, ServeHolds, Sessions
<1>32. CASE UNCHANGED vars
  BY <1>32, <1>a, <1>b DEF vars, Filed, ServeHolds, Sessions
<1> QED
  BY <1>1, <1>2, <1>3, <1>4, <1>5, <1>6, <1>7, <1>8, <1>9, <1>10, <1>11, <1>12, <1>13,
     <1>14, <1>15, <1>16, <1>17, <1>18, <1>19, <1>20, <1>21, <1>22, <1>23, <1>24, <1>25,
     <1>26, <1>27, <1>28, <1>29, <1>30, <1>31, <1>32
  DEF Next, ServeStep, OwnerStep, SweeperStep, ReaderStep

(* Every step keeps what Serve relies on. *)
LEMMA ServeStepHolds == TypeOK /\ Filed /\ ServeHolds /\ [Next]_vars => ServeHolds'
<1> SUFFICES ASSUME TypeOK, Filed, ServeHolds, [Next]_vars PROVE ServeHolds'
  OBVIOUS
<1> USE UdpForwardAssumption DEF tun, sess, sweep
<1>a. /\ table \in [Clients -> 0..MaxStreams] /\ opened \in 0..MaxStreams
      /\ client \in [Sessions -> Clients \cup {None}]
      /\ reader \in [Sessions -> {"none", "read", "drop", "done"}]
  BY DEF TypeOK
<1>b. /\ serve \in [pc : ServePc, key : Clients \cup {None}, sess : 0..MaxStreams,
                    conn : 0..MaxTunnels]
      /\ todo \in [serve : SUBSET Sessions, owner : SUBSET Sessions,
                   sweeper : SUBSET Sessions]
      /\ rtodo \in [Sessions -> SUBSET Sessions]
  BY DEF TypeOK
<1>1. ASSUME NEW c \in Clients, Receive(c) PROVE ServeHolds'
  BY <1>1, <1>a, <1>b DEF Receive, ServeHolds, Sessions, Filed
<1>2. CASE ServeEnds
  BY <1>2, <1>a, <1>b DEF ServeEnds, Go, ServeHolds, Sessions, Filed
<1>3. CASE GetSession
  BY <1>3, <1>a, <1>b DEF GetSession, ServeHolds, Sessions, Filed
<1>4. CASE OpenBegin
  BY <1>4, <1>a, <1>b DEF OpenBegin, NoServe, ServeHolds, Sessions, Filed
<1>5. CASE Opened
  BY <1>5, <1>a, <1>b DEF Opened, Sessions, ServeHolds, Sessions, Filed
<1>6. CASE OpenFails
  BY <1>6, <1>a, <1>b DEF OpenFails, Again, NoServe, ServeHolds, Sessions, Filed
<1>7. CASE Insert
  BY <1>7, <1>a, <1>b DEF Insert, Put, Go, ServeHolds, Sessions, Filed
<1>8. CASE Evict
  BY <1>8, <1>a, <1>b DEF Evict, Go, ServeHolds, Sessions, Filed
<1>9. CASE InsertAfterEvict
  BY <1>9, <1>a, <1>b DEF InsertAfterEvict, Put, Go, ServeHolds, Sessions, Filed
<1>10. CASE WriteBegin
  BY <1>10, <1>a, <1>b DEF WriteBegin, Go, ServeHolds, Sessions, Filed
<1>11. CASE WriteEnd
  <2>1. serve'.pc \notin {"insert", "put"} /\ (serve'.pc # "read" => serve'.key = serve.key)
    BY <1>11, <1>b DEF WriteEnd, Go, Again, NoServe
  <2>2. serve.key \in Clients
    BY <1>11 DEF WriteEnd, ServeHolds
  <2> QED BY <2>1, <2>2 DEF ServeHolds
<1>12. CASE ServeDrops
  BY <1>12, <1>a, <1>b DEF ServeDrops, Drop, Go, ServeHolds, Sessions, Filed
<1>13. CASE ServeDropped
  BY <1>13, <1>a, <1>b DEF ServeDropped, Again, NoServe, ServeHolds, Sessions, Filed
<1>14. CASE SetQuicConn
  BY <1>14, <1>a, <1>b DEF SetQuicConn, TakeAll, Empty, ServeHolds, Sessions, Filed
<1>15. CASE SetQuicConnEnds
  BY <1>15, <1>a, <1>b DEF SetQuicConnEnds, ServeHolds, Sessions, Filed
<1>16. CASE ClearQuicConn
  BY <1>16, <1>a, <1>b DEF ClearQuicConn, ServeHolds, Sessions, Filed
<1>17. CASE ClearTakes
  BY <1>17, <1>a, <1>b DEF ClearTakes, TakeAll, Empty, ServeHolds, Sessions, Filed
<1>18. CASE ClearEnds
  BY <1>18, <1>a, <1>b DEF ClearEnds, ServeHolds, Sessions, Filed
<1>19. CASE Close
  BY <1>19, <1>a, <1>b DEF Close, TakeAll, Empty, ServeHolds, Sessions, Filed
<1>20. CASE CloseEnds
  BY <1>20, <1>a, <1>b DEF CloseEnds, ServeHolds, Sessions, Filed
<1>21. CASE SweepTick
  BY <1>21, <1>a, <1>b DEF SweepTick, SweeperLeaves, ServeHolds, Sessions, Filed
<1>22. CASE Sweep
  BY <1>22, <1>a, <1>b DEF Sweep, ServeHolds, Sessions, Filed
<1>23. ASSUME NEW s \in Sessions, Downlink(s) PROVE ServeHolds'
  BY <1>23, <1>a, <1>b DEF Downlink, ServeHolds, Sessions, Filed
<1>24. ASSUME NEW s \in Sessions, ReadEnds(s) PROVE ServeHolds'
  BY <1>24, <1>a, <1>b DEF ReadEnds, ServeHolds, Sessions, Filed
<1>25. ASSUME NEW s \in Sessions, ReaderDrops(s) PROVE ServeHolds'
  BY <1>25, <1>a, <1>b DEF ReaderDrops, Drop, ServeHolds, Sessions, Filed
<1>26. ASSUME NEW s \in Sessions, ServeCloses(s) PROVE ServeHolds'
  BY <1>26, <1>a, <1>b DEF ServeCloses, ServeHolds, Sessions, Filed
<1>27. ASSUME NEW s \in Sessions, OwnerCloses(s) PROVE ServeHolds'
  BY <1>27, <1>a, <1>b DEF OwnerCloses, ServeHolds, Sessions, Filed
<1>28. ASSUME NEW s \in Sessions, SweeperCloses(s) PROVE ServeHolds'
  BY <1>28, <1>a, <1>b DEF SweeperCloses, ServeHolds, Sessions, Filed
<1>29. ASSUME NEW r \in Sessions, NEW s \in Sessions, ReaderCloses(r, s) PROVE ServeHolds'
  BY <1>29, <1>a, <1>b DEF ReaderCloses, ServeHolds, Sessions, Filed
<1>30. CASE TunnelDies
  BY <1>30, <1>a, <1>b DEF TunnelDies, ServeHolds, Sessions, Filed
<1>31. ASSUME NEW s \in Sessions, TimePasses(s) PROVE ServeHolds'
  BY <1>31, <1>a, <1>b DEF TimePasses, ServeHolds, Sessions, Filed
<1>32. CASE UNCHANGED vars
  BY <1>32, <1>a, <1>b DEF vars, ServeHolds, Sessions, Filed
<1> QED
  BY <1>1, <1>2, <1>3, <1>4, <1>5, <1>6, <1>7, <1>8, <1>9, <1>10, <1>11, <1>12, <1>13,
     <1>14, <1>15, <1>16, <1>17, <1>18, <1>19, <1>20, <1>21, <1>22, <1>23, <1>24, <1>25,
     <1>26, <1>27, <1>28, <1>29, <1>30, <1>31, <1>32
  DEF Next, ServeStep, OwnerStep, SweeperStep, ReaderStep

(* Nobody takes sessions before having closed the ones taken before. *)
LEMMA HandsStep == TypeOK /\ ServeHolds /\ Hands /\ [Next]_vars => Hands'
<1> SUFFICES ASSUME TypeOK, ServeHolds, Hands, [Next]_vars PROVE Hands'
  OBVIOUS
<1> USE UdpForwardAssumption DEF tun, sess, sweep
<1>a. /\ table \in [Clients -> 0..MaxStreams] /\ opened \in 0..MaxStreams
      /\ client \in [Sessions -> Clients \cup {None}]
      /\ reader \in [Sessions -> {"none", "read", "drop", "done"}]
  BY DEF TypeOK
<1>b. /\ serve \in [pc : ServePc, key : Clients \cup {None}, sess : 0..MaxStreams,
                    conn : 0..MaxTunnels]
      /\ todo \in [serve : SUBSET Sessions, owner : SUBSET Sessions,
                   sweeper : SUBSET Sessions]
      /\ rtodo \in [Sessions -> SUBSET Sessions]
  BY DEF TypeOK
<1>c. owner \in [pc : {"none", "set", "clear", "closing", "sock"}, conn : 0..MaxTunnels]
  BY DEF TypeOK
<1>1. ASSUME NEW c \in Clients, Receive(c) PROVE Hands'
  BY <1>1, <1>a, <1>b DEF Receive, Hands, ServeHolds, Sessions
<1>2. CASE ServeEnds
  BY <1>2, <1>a, <1>b DEF ServeEnds, Go, Hands, ServeHolds, Sessions
<1>3. CASE GetSession
  BY <1>3, <1>a, <1>b DEF GetSession, Hands, ServeHolds, Sessions
<1>4. CASE OpenBegin
  BY <1>4, <1>a, <1>b DEF OpenBegin, NoServe, Hands, ServeHolds, Sessions
<1>5. CASE Opened
  BY <1>5, <1>a, <1>b DEF Opened, Sessions, Hands, ServeHolds, Sessions
<1>6. CASE OpenFails
  BY <1>6, <1>a, <1>b DEF OpenFails, Again, NoServe, Hands, ServeHolds, Sessions
<1>7. CASE Insert
  BY <1>7, <1>a, <1>b DEF Insert, Put, Go, Hands, ServeHolds, Sessions
<1>8. CASE Evict
  BY <1>8, <1>a, <1>b DEF Evict, Go, Hands, ServeHolds, Sessions
<1>9. CASE InsertAfterEvict
  BY <1>9, <1>a, <1>b DEF InsertAfterEvict, Put, Go, Hands, ServeHolds, Sessions
<1>10. CASE WriteBegin
  BY <1>10, <1>a, <1>b DEF WriteBegin, Go, Hands, ServeHolds, Sessions
<1>11. CASE WriteEnd
  BY <1>11, <1>a, <1>b DEF WriteEnd, Go, Again, NoServe, Hands, ServeHolds, Sessions
<1>12. CASE ServeDrops
  BY <1>12, <1>a, <1>b DEF ServeDrops, Drop, Go, Hands, ServeHolds, Sessions
<1>13. CASE ServeDropped
  BY <1>13, <1>a, <1>b DEF ServeDropped, Again, NoServe, Hands, ServeHolds, Sessions
<1>14. CASE SetQuicConn
  BY <1>14, <1>a, <1>b DEF SetQuicConn, TakeAll, Empty, Hands, ServeHolds, Sessions
<1>15. CASE SetQuicConnEnds
  BY <1>15, <1>a, <1>b DEF SetQuicConnEnds, Hands, ServeHolds, Sessions
<1>16. CASE ClearQuicConn
  BY <1>16, <1>a, <1>b DEF ClearQuicConn, Hands, ServeHolds, Sessions
<1>17. CASE ClearTakes
  BY <1>17, <1>a, <1>b DEF ClearTakes, TakeAll, Empty, Hands, ServeHolds, Sessions
<1>18. CASE ClearEnds
  BY <1>18, <1>a, <1>b DEF ClearEnds, Hands, ServeHolds, Sessions
<1>19. CASE Close
  BY <1>19, <1>a, <1>b DEF Close, TakeAll, Empty, Hands, ServeHolds, Sessions
<1>20. CASE CloseEnds
  BY <1>20, <1>a, <1>b DEF CloseEnds, Hands, ServeHolds, Sessions
<1>21. CASE SweepTick
  BY <1>21, <1>a, <1>b DEF SweepTick, SweeperLeaves, Hands, ServeHolds, Sessions
<1>22. CASE Sweep
  BY <1>22, <1>a, <1>b DEF Sweep, Hands, ServeHolds, Sessions
<1>23. ASSUME NEW s \in Sessions, Downlink(s) PROVE Hands'
  BY <1>23, <1>a, <1>b DEF Downlink, Hands, ServeHolds, Sessions
<1>24. ASSUME NEW s \in Sessions, ReadEnds(s) PROVE Hands'
  BY <1>24, <1>a, <1>b DEF ReadEnds, Hands, ServeHolds, Sessions
<1>25. ASSUME NEW s \in Sessions, ReaderDrops(s) PROVE Hands'
  BY <1>25, <1>a, <1>b DEF ReaderDrops, Drop, Hands, ServeHolds, Sessions
<1>26. ASSUME NEW s \in Sessions, ServeCloses(s) PROVE Hands'
  BY <1>26, <1>a, <1>b DEF ServeCloses, Hands, ServeHolds, Sessions
<1>27. ASSUME NEW s \in Sessions, OwnerCloses(s) PROVE Hands'
  BY <1>27, <1>a, <1>b DEF OwnerCloses, Hands, ServeHolds, Sessions
<1>28. ASSUME NEW s \in Sessions, SweeperCloses(s) PROVE Hands'
  BY <1>28, <1>a, <1>b DEF SweeperCloses, Hands, ServeHolds, Sessions
<1>29. ASSUME NEW r \in Sessions, NEW s \in Sessions, ReaderCloses(r, s) PROVE Hands'
  BY <1>29, <1>a, <1>b DEF ReaderCloses, Hands, ServeHolds, Sessions
<1>30. CASE TunnelDies
  BY <1>30, <1>a, <1>b DEF TunnelDies, Hands, ServeHolds, Sessions
<1>31. ASSUME NEW s \in Sessions, TimePasses(s) PROVE Hands'
  BY <1>31, <1>a, <1>b DEF TimePasses, Hands, ServeHolds, Sessions
<1>32. CASE UNCHANGED vars
  BY <1>32, <1>a, <1>b DEF vars, Hands, ServeHolds, Sessions
<1> QED
  BY <1>1, <1>2, <1>3, <1>4, <1>5, <1>6, <1>7, <1>8, <1>9, <1>10, <1>11, <1>12, <1>13,
     <1>14, <1>15, <1>16, <1>17, <1>18, <1>19, <1>20, <1>21, <1>22, <1>23, <1>24, <1>25,
     <1>26, <1>27, <1>28, <1>29, <1>30, <1>31, <1>32
  DEF Next, ServeStep, OwnerStep, SweeperStep, ReaderStep

(* Only Serve puts sessions into the table. *)
LEMMA AloneStep == TypeOK /\ ServeHolds /\ InsertsAlone /\ [Next]_vars => InsertsAlone'
<1> SUFFICES ASSUME TypeOK, ServeHolds, InsertsAlone, [Next]_vars PROVE InsertsAlone'
  OBVIOUS
<1> USE UdpForwardAssumption DEF tun, sess, sweep
<1>a. /\ table \in [Clients -> 0..MaxStreams] /\ opened \in 0..MaxStreams
      /\ client \in [Sessions -> Clients \cup {None}]
      /\ reader \in [Sessions -> {"none", "read", "drop", "done"}]
  BY DEF TypeOK
<1>b. /\ serve \in [pc : ServePc, key : Clients \cup {None}, sess : 0..MaxStreams,
                    conn : 0..MaxTunnels]
      /\ todo \in [serve : SUBSET Sessions, owner : SUBSET Sessions,
                   sweeper : SUBSET Sessions]
      /\ rtodo \in [Sessions -> SUBSET Sessions]
  BY DEF TypeOK
<1>1. ASSUME NEW c \in Clients, Receive(c) PROVE InsertsAlone'
  BY <1>1, <1>a, <1>b DEF Receive, InsertsAlone, ServeHolds
<1>2. CASE ServeEnds
  BY <1>2, <1>a, <1>b DEF ServeEnds, Go, InsertsAlone, ServeHolds
<1>3. CASE GetSession
  BY <1>3, <1>a, <1>b DEF GetSession, InsertsAlone, ServeHolds
<1>4. CASE OpenBegin
  BY <1>4, <1>a, <1>b DEF OpenBegin, NoServe, InsertsAlone, ServeHolds
<1>5. CASE Opened
  BY <1>5, <1>a, <1>b DEF Opened, Sessions, InsertsAlone, ServeHolds
<1>6. CASE OpenFails
  BY <1>6, <1>a, <1>b DEF OpenFails, Again, NoServe, InsertsAlone, ServeHolds
<1>7. CASE Insert
  BY <1>7, <1>a, <1>b DEF Insert, Put, Go, InsertsAlone, ServeHolds
<1>8. CASE Evict
  BY <1>8, <1>a, <1>b DEF Evict, Go, InsertsAlone, ServeHolds
<1>9. CASE InsertAfterEvict
  BY <1>9, <1>a, <1>b DEF InsertAfterEvict, Put, Go, InsertsAlone, ServeHolds
<1>10. CASE WriteBegin
  BY <1>10, <1>a, <1>b DEF WriteBegin, Go, InsertsAlone, ServeHolds
<1>11. CASE WriteEnd
  BY <1>11, <1>a, <1>b DEF WriteEnd, Go, Again, NoServe, InsertsAlone, ServeHolds
<1>12. CASE ServeDrops
  BY <1>12, <1>a, <1>b DEF ServeDrops, Drop, Go, InsertsAlone, ServeHolds
<1>13. CASE ServeDropped
  BY <1>13, <1>a, <1>b DEF ServeDropped, Again, NoServe, InsertsAlone, ServeHolds
<1>14. CASE SetQuicConn
  BY <1>14, <1>a, <1>b DEF SetQuicConn, TakeAll, Empty, InsertsAlone, ServeHolds
<1>15. CASE SetQuicConnEnds
  BY <1>15, <1>a, <1>b DEF SetQuicConnEnds, InsertsAlone, ServeHolds
<1>16. CASE ClearQuicConn
  BY <1>16, <1>a, <1>b DEF ClearQuicConn, InsertsAlone, ServeHolds
<1>17. CASE ClearTakes
  BY <1>17, <1>a, <1>b DEF ClearTakes, TakeAll, Empty, InsertsAlone, ServeHolds
<1>18. CASE ClearEnds
  BY <1>18, <1>a, <1>b DEF ClearEnds, InsertsAlone, ServeHolds
<1>19. CASE Close
  BY <1>19, <1>a, <1>b DEF Close, TakeAll, Empty, InsertsAlone, ServeHolds
<1>20. CASE CloseEnds
  BY <1>20, <1>a, <1>b DEF CloseEnds, InsertsAlone, ServeHolds
<1>21. CASE SweepTick
  BY <1>21, <1>a, <1>b DEF SweepTick, SweeperLeaves, InsertsAlone, ServeHolds
<1>22. CASE Sweep
  BY <1>22, <1>a, <1>b DEF Sweep, InsertsAlone, ServeHolds
<1>23. ASSUME NEW s \in Sessions, Downlink(s) PROVE InsertsAlone'
  BY <1>23, <1>a, <1>b DEF Downlink, InsertsAlone, ServeHolds
<1>24. ASSUME NEW s \in Sessions, ReadEnds(s) PROVE InsertsAlone'
  BY <1>24, <1>a, <1>b DEF ReadEnds, InsertsAlone, ServeHolds
<1>25. ASSUME NEW s \in Sessions, ReaderDrops(s) PROVE InsertsAlone'
  BY <1>25, <1>a, <1>b DEF ReaderDrops, Drop, InsertsAlone, ServeHolds
<1>26. ASSUME NEW s \in Sessions, ServeCloses(s) PROVE InsertsAlone'
  BY <1>26, <1>a, <1>b DEF ServeCloses, InsertsAlone, ServeHolds
<1>27. ASSUME NEW s \in Sessions, OwnerCloses(s) PROVE InsertsAlone'
  BY <1>27, <1>a, <1>b DEF OwnerCloses, InsertsAlone, ServeHolds
<1>28. ASSUME NEW s \in Sessions, SweeperCloses(s) PROVE InsertsAlone'
  BY <1>28, <1>a, <1>b DEF SweeperCloses, InsertsAlone, ServeHolds
<1>29. ASSUME NEW r \in Sessions, NEW s \in Sessions, ReaderCloses(r, s) PROVE InsertsAlone'
  BY <1>29, <1>a, <1>b DEF ReaderCloses, InsertsAlone, ServeHolds
<1>30. CASE TunnelDies
  BY <1>30, <1>a, <1>b DEF TunnelDies, InsertsAlone, ServeHolds
<1>31. ASSUME NEW s \in Sessions, TimePasses(s) PROVE InsertsAlone'
  BY <1>31, <1>a, <1>b DEF TimePasses, InsertsAlone, ServeHolds
<1>32. CASE UNCHANGED vars
  BY <1>32, <1>a, <1>b DEF vars, InsertsAlone, ServeHolds
<1> QED
  BY <1>1, <1>2, <1>3, <1>4, <1>5, <1>6, <1>7, <1>8, <1>9, <1>10, <1>11, <1>12, <1>13,
     <1>14, <1>15, <1>16, <1>17, <1>18, <1>19, <1>20, <1>21, <1>22, <1>23, <1>24, <1>25,
     <1>26, <1>27, <1>28, <1>29, <1>30, <1>31, <1>32
  DEF Next, ServeStep, OwnerStep, SweeperStep, ReaderStep

(* Every step keeps a sweeper for the sessions in the table. *)
LEMMA SweeperStepRuns == TypeOK /\ SweeperRuns /\ [Next]_vars => SweeperRuns'
<1> SUFFICES ASSUME TypeOK, SweeperRuns, [Next]_vars PROVE SweeperRuns'
  OBVIOUS
<1> USE UdpForwardAssumption DEF tun, sess, sweep
<1>a. /\ table \in [Clients -> 0..MaxStreams] /\ opened \in 0..MaxStreams
      /\ client \in [Sessions -> Clients \cup {None}]
      /\ reader \in [Sessions -> {"none", "read", "drop", "done"}]
  BY DEF TypeOK
<1>b. /\ serve \in [pc : ServePc, key : Clients \cup {None}, sess : 0..MaxStreams,
                    conn : 0..MaxTunnels]
      /\ todo \in [serve : SUBSET Sessions, owner : SUBSET Sessions,
                   sweeper : SUBSET Sessions]
      /\ rtodo \in [Sessions -> SUBSET Sessions]
  BY DEF TypeOK
<1>c. sweeping \in BOOLEAN /\ sweeper \in {"none", "tick", "sweep"}
  BY DEF TypeOK
<1>1. ASSUME NEW c \in Clients, Receive(c) PROVE SweeperRuns'
  BY <1>1, <1>a, <1>b DEF Receive, SweeperRuns, Live
<1>2. CASE ServeEnds
  BY <1>2, <1>a, <1>b DEF ServeEnds, Go, SweeperRuns, Live
<1>3. CASE GetSession
  BY <1>3, <1>a, <1>b DEF GetSession, SweeperRuns, Live
<1>4. CASE OpenBegin
  BY <1>4, <1>a, <1>b DEF OpenBegin, NoServe, SweeperRuns, Live
<1>5. CASE Opened
  BY <1>5, <1>a, <1>b DEF Opened, Sessions, SweeperRuns, Live
<1>6. CASE OpenFails
  BY <1>6, <1>a, <1>b DEF OpenFails, Again, NoServe, SweeperRuns, Live
<1>7. CASE Insert
  BY <1>7, <1>a, <1>b DEF Insert, Put, Go, SweeperRuns, Live
<1>8. CASE Evict
  BY <1>8, <1>a, <1>b DEF Evict, Go, SweeperRuns, Live
<1>9. CASE InsertAfterEvict
  BY <1>9, <1>a, <1>b DEF InsertAfterEvict, Put, Go, SweeperRuns, Live
<1>10. CASE WriteBegin
  BY <1>10, <1>a, <1>b DEF WriteBegin, Go, SweeperRuns, Live
<1>11. CASE WriteEnd
  BY <1>11, <1>a, <1>b DEF WriteEnd, Go, Again, NoServe, SweeperRuns, Live
<1>12. CASE ServeDrops
  BY <1>12, <1>a, <1>b DEF ServeDrops, Drop, Go, SweeperRuns, Live
<1>13. CASE ServeDropped
  BY <1>13, <1>a, <1>b DEF ServeDropped, Again, NoServe, SweeperRuns, Live
<1>14. CASE SetQuicConn
  BY <1>14, <1>a, <1>b DEF SetQuicConn, TakeAll, Empty, SweeperRuns, Live
<1>15. CASE SetQuicConnEnds
  BY <1>15, <1>a, <1>b DEF SetQuicConnEnds, SweeperRuns, Live
<1>16. CASE ClearQuicConn
  BY <1>16, <1>a, <1>b DEF ClearQuicConn, SweeperRuns, Live
<1>17. CASE ClearTakes
  BY <1>17, <1>a, <1>b DEF ClearTakes, TakeAll, Empty, SweeperRuns, Live
<1>18. CASE ClearEnds
  BY <1>18, <1>a, <1>b DEF ClearEnds, SweeperRuns, Live
<1>19. CASE Close
  BY <1>19, <1>a, <1>b DEF Close, TakeAll, Empty, SweeperRuns, Live
<1>20. CASE CloseEnds
  BY <1>20, <1>a, <1>b DEF CloseEnds, SweeperRuns, Live
<1>21. CASE SweepTick
  BY <1>21, <1>a, <1>b DEF SweepTick, SweeperLeaves, SweeperRuns, Live
<1>22. CASE Sweep
  BY <1>22, <1>a, <1>b DEF Sweep, SweeperRuns, Live
<1>23. ASSUME NEW s \in Sessions, Downlink(s) PROVE SweeperRuns'
  BY <1>23, <1>a, <1>b DEF Downlink, SweeperRuns, Live
<1>24. ASSUME NEW s \in Sessions, ReadEnds(s) PROVE SweeperRuns'
  BY <1>24, <1>a, <1>b DEF ReadEnds, SweeperRuns, Live
<1>25. ASSUME NEW s \in Sessions, ReaderDrops(s) PROVE SweeperRuns'
  BY <1>25, <1>a, <1>b DEF ReaderDrops, Drop, SweeperRuns, Live
<1>26. ASSUME NEW s \in Sessions, ServeCloses(s) PROVE SweeperRuns'
  BY <1>26, <1>a, <1>b DEF ServeCloses, SweeperRuns, Live
<1>27. ASSUME NEW s \in Sessions, OwnerCloses(s) PROVE SweeperRuns'
  BY <1>27, <1>a, <1>b DEF OwnerCloses, SweeperRuns, Live
<1>28. ASSUME NEW s \in Sessions, SweeperCloses(s) PROVE SweeperRuns'
  BY <1>28, <1>a, <1>b DEF SweeperCloses, SweeperRuns, Live
<1>29. ASSUME NEW r \in Sessions, NEW s \in Sessions, ReaderCloses(r, s) PROVE SweeperRuns'
  BY <1>29, <1>a, <1>b DEF ReaderCloses, SweeperRuns, Live
<1>30. CASE TunnelDies
  BY <1>30, <1>a, <1>b DEF TunnelDies, SweeperRuns, Live
<1>31. ASSUME NEW s \in Sessions, TimePasses(s) PROVE SweeperRuns'
  BY <1>31, <1>a, <1>b DEF TimePasses, SweeperRuns, Live
<1>32. CASE UNCHANGED vars
  BY <1>32, <1>a, <1>b DEF vars, SweeperRuns, Live
<1> QED
  BY <1>1, <1>2, <1>3, <1>4, <1>5, <1>6, <1>7, <1>8, <1>9, <1>10, <1>11, <1>12, <1>13,
     <1>14, <1>15, <1>16, <1>17, <1>18, <1>19, <1>20, <1>21, <1>22, <1>23, <1>24, <1>25,
     <1>26, <1>27, <1>28, <1>29, <1>30, <1>31, <1>32
  DEF Next, ServeStep, OwnerStep, SweeperStep, ReaderStep

(* Every step keeps track of every open session. *)
LEMMA LeakStep == UInv /\ NoLeak /\ [Next]_vars => NoLeak'
<1> SUFFICES ASSUME UInv, NoLeak, [Next]_vars PROVE NoLeak'
  OBVIOUS
<1> USE UdpForwardAssumption DEF tun, sess, sweep
<1>a. /\ table \in [Clients -> 0..MaxStreams] /\ opened \in 0..MaxStreams
      /\ client \in [Sessions -> Clients \cup {None}]
      /\ reader \in [Sessions -> {"none", "read", "drop", "done"}]
  BY DEF TypeOK, UInv
<1>b. /\ serve \in [pc : ServePc, key : Clients \cup {None}, sess : 0..MaxStreams,
                    conn : 0..MaxTunnels]
      /\ todo \in [serve : SUBSET Sessions, owner : SUBSET Sessions,
                   sweeper : SUBSET Sessions]
      /\ rtodo \in [Sessions -> SUBSET Sessions]
  BY DEF TypeOK, UInv
<1>c. closed \subseteq Sessions
  BY DEF TypeOK, UInv
<1>d. Filed /\ ServeHolds /\ Hands /\ InsertsAlone
  BY DEF UInv
<1>1. ASSUME NEW c \in Clients, Receive(c) PROVE NoLeak'
  BY <1>1, <1>a, <1>b, <1>c, <1>d DEF Receive, NoLeak, Doomed, Filed, ServeHolds, Hands,
     InsertsAlone, Sessions
<1>2. CASE ServeEnds
  BY <1>2, <1>a, <1>b, <1>c, <1>d DEF ServeEnds, Go, NoLeak, Doomed, Filed, ServeHolds,
     Hands, InsertsAlone, Sessions
<1>3. CASE GetSession
  BY <1>3, <1>a, <1>b, <1>c, <1>d DEF GetSession, NoLeak, Doomed, Filed, ServeHolds,
     Hands, InsertsAlone, Sessions
<1>4. CASE OpenBegin
  BY <1>4, <1>a, <1>b, <1>c, <1>d DEF OpenBegin, NoServe, NoLeak, Doomed, Filed,
     ServeHolds, Hands, InsertsAlone, Sessions
<1>5. CASE Opened
  BY <1>5, <1>a, <1>b, <1>c, <1>d DEF Opened, Sessions, NoLeak, Doomed, Filed,
     ServeHolds, Hands, InsertsAlone, Sessions
<1>6. CASE OpenFails
  BY <1>6, <1>a, <1>b, <1>c, <1>d DEF OpenFails, Again, NoServe, NoLeak, Doomed, Filed,
     ServeHolds, Hands, InsertsAlone, Sessions
<1>7. CASE Insert
  BY <1>7, <1>a, <1>b, <1>c, <1>d DEF Insert, Put, Go, NoLeak, Doomed, Filed,
     ServeHolds, Hands, InsertsAlone, Sessions
<1>8. CASE Evict
  BY <1>8, <1>a, <1>b, <1>c, <1>d DEF Evict, Go, NoLeak, Doomed, Filed, ServeHolds,
     Hands, InsertsAlone, Sessions
<1>9. CASE InsertAfterEvict
  BY <1>9, <1>a, <1>b, <1>c, <1>d DEF InsertAfterEvict, Put, Go, NoLeak, Doomed, Filed,
     ServeHolds, Hands, InsertsAlone, Sessions
<1>10. CASE WriteBegin
  BY <1>10, <1>a, <1>b, <1>c, <1>d DEF WriteBegin, Go, NoLeak, Doomed, Filed,
     ServeHolds, Hands, InsertsAlone, Sessions
<1>11. CASE WriteEnd
  BY <1>11, <1>a, <1>b, <1>c, <1>d DEF WriteEnd, Go, Again, NoServe, NoLeak, Doomed,
     Filed, ServeHolds, Hands, InsertsAlone, Sessions
<1>12. CASE ServeDrops
  <2> SUFFICES ASSUME NEW x \in Sessions, x <= opened', x \notin closed'
               PROVE  \/ table'[client'[x]] = x
                      \/ serve'.pc \in {"insert", "put"} /\ serve'.sess = x
                      \/ Doomed(x)'
    BY DEF NoLeak
  <2>1. x <= opened /\ x \notin closed /\ client'[x] = client[x] /\ client[x] \in Clients
    BY <1>12, <1>d DEF ServeDrops, Filed
  <2>2. /\ todo'.serve = Of(serve.key) /\ todo.serve = {} /\ rtodo' = rtodo
        /\ todo'.owner = todo.owner /\ todo'.sweeper = todo.sweeper
    BY <1>12, <1>b, <1>d DEF ServeDrops, Hands
  <2>3. CASE Doomed(x)
    BY <2>2, <2>3 DEF Doomed
  <2>4. CASE table[client[x]] = x
    <3>1. CASE client[x] = serve.key
      BY <2>1, <2>2, <2>4, <3>1 DEF Doomed, Of, Sessions
    <3>2. CASE client[x] # serve.key
      BY <1>12, <1>a, <2>1, <2>4, <3>2 DEF ServeDrops, Drop
    <3> QED BY <3>1, <3>2
  <2>5. CASE serve.pc \in {"insert", "put"} /\ serve.sess = x
    BY <1>12, <2>5 DEF ServeDrops
  <2> QED BY <2>1, <2>3, <2>4, <2>5 DEF NoLeak
<1>13. CASE ServeDropped
  BY <1>13, <1>a, <1>b, <1>c, <1>d DEF ServeDropped, Again, NoServe, NoLeak, Doomed,
     Filed, ServeHolds, Hands, InsertsAlone, Sessions
<1>14. CASE SetQuicConn
  <2> SUFFICES ASSUME NEW x \in Sessions, x <= opened', x \notin closed'
               PROVE  \/ table'[client'[x]] = x
                      \/ serve'.pc \in {"insert", "put"} /\ serve'.sess = x
                      \/ Doomed(x)'
    BY DEF NoLeak
  <2>1. x <= opened /\ x \notin closed /\ client'[x] = client[x] /\ client[x] \in Clients
    BY <1>14, <1>d DEF SetQuicConn, Filed
  <2>2. /\ todo'.owner = Held /\ todo.owner = {} /\ rtodo' = rtodo
        /\ todo'.serve = todo.serve /\ todo'.sweeper = todo.sweeper
    BY <1>14, <1>b, <1>d DEF SetQuicConn, Hands, TakeAll
  <2>3. CASE Doomed(x)
    BY <2>2, <2>3 DEF Doomed
  <2>4. CASE table[client[x]] = x
    <3>1. x \in Held
      BY <2>1, <2>4 DEF Held, Live, Sessions
    <3> QED BY <2>2, <3>1 DEF Doomed
  <2>5. CASE serve.pc \in {"insert", "put"} /\ serve.sess = x
    BY <1>14, <2>5 DEF SetQuicConn
  <2> QED BY <2>1, <2>3, <2>4, <2>5 DEF NoLeak
<1>15. CASE SetQuicConnEnds
  BY <1>15, <1>a, <1>b, <1>c, <1>d DEF SetQuicConnEnds, NoLeak, Doomed, Filed,
     ServeHolds, Hands, InsertsAlone, Sessions
<1>16. CASE ClearQuicConn
  BY <1>16, <1>a, <1>b, <1>c, <1>d DEF ClearQuicConn, NoLeak, Doomed, Filed, ServeHolds,
     Hands, InsertsAlone, Sessions
<1>17. CASE ClearTakes
  <2> SUFFICES ASSUME NEW x \in Sessions, x <= opened', x \notin closed'
               PROVE  \/ table'[client'[x]] = x
                      \/ serve'.pc \in {"insert", "put"} /\ serve'.sess = x
                      \/ Doomed(x)'
    BY DEF NoLeak
  <2>1. x <= opened /\ x \notin closed /\ client'[x] = client[x] /\ client[x] \in Clients
    BY <1>17, <1>d DEF ClearTakes, Filed
  <2>2. /\ todo'.owner = Held /\ todo.owner = {} /\ rtodo' = rtodo
        /\ todo'.serve = todo.serve /\ todo'.sweeper = todo.sweeper
    BY <1>17, <1>b, <1>d DEF ClearTakes, Hands, TakeAll
  <2>3. CASE Doomed(x)
    BY <2>2, <2>3 DEF Doomed
  <2>4. CASE table[client[x]] = x
    <3>1. x \in Held
      BY <2>1, <2>4 DEF Held, Live, Sessions
    <3> QED BY <2>2, <3>1 DEF Doomed
  <2>5. CASE serve.pc \in {"insert", "put"} /\ serve.sess = x
    BY <1>17, <2>5 DEF ClearTakes
  <2> QED BY <2>1, <2>3, <2>4, <2>5 DEF NoLeak
<1>18. CASE ClearEnds
  BY <1>18, <1>a, <1>b, <1>c, <1>d DEF ClearEnds, NoLeak, Doomed, Filed, ServeHolds,
     Hands, InsertsAlone, Sessions
<1>19. CASE Close
  <2> SUFFICES ASSUME NEW x \in Sessions, x <= opened', x \notin closed'
               PROVE  \/ table'[client'[x]] = x
                      \/ serve'.pc \in {"insert", "put"} /\ serve'.sess = x
                      \/ Doomed(x)'
    BY DEF NoLeak
  <2>1. x <= opened /\ x \notin closed /\ client'[x] = client[x] /\ client[x] \in Clients
    BY <1>19, <1>d DEF Close, Filed
  <2>2. /\ todo'.owner = Held /\ todo.owner = {} /\ rtodo' = rtodo
        /\ todo'.serve = todo.serve /\ todo'.sweeper = todo.sweeper
    BY <1>19, <1>b, <1>d DEF Close, Hands, TakeAll
  <2>3. CASE Doomed(x)
    BY <2>2, <2>3 DEF Doomed
  <2>4. CASE table[client[x]] = x
    <3>1. x \in Held
      BY <2>1, <2>4 DEF Held, Live, Sessions
    <3> QED BY <2>2, <3>1 DEF Doomed
  <2>5. CASE serve.pc \in {"insert", "put"} /\ serve.sess = x
    BY <1>19, <2>5 DEF Close
  <2> QED BY <2>1, <2>3, <2>4, <2>5 DEF NoLeak
<1>20. CASE CloseEnds
  BY <1>20, <1>a, <1>b, <1>c, <1>d DEF CloseEnds, NoLeak, Doomed, Filed, ServeHolds,
     Hands, InsertsAlone, Sessions
<1>21. CASE SweepTick
  BY <1>21, <1>a, <1>b, <1>c, <1>d DEF SweepTick, SweeperLeaves, NoLeak, Doomed, Filed,
     ServeHolds, Hands, InsertsAlone, Sessions
<1>22. CASE Sweep
  <2> SUFFICES ASSUME NEW x \in Sessions, x <= opened', x \notin closed'
               PROVE  \/ table'[client'[x]] = x
                      \/ serve'.pc \in {"insert", "put"} /\ serve'.sess = x
                      \/ Doomed(x)'
    BY DEF NoLeak
  <2>1. x <= opened /\ x \notin closed /\ client'[x] = client[x] /\ client[x] \in Clients
    BY <1>22, <1>d DEF Sweep, Filed
  <2>2. /\ todo'.sweeper = Victims /\ todo.sweeper = {} /\ rtodo' = rtodo
        /\ todo'.serve = todo.serve /\ todo'.owner = todo.owner
    BY <1>22, <1>b, <1>d DEF Sweep, Hands
  <2>3. CASE Doomed(x)
    BY <2>2, <2>3 DEF Doomed
  <2>4. CASE table[client[x]] = x
    <3>1. CASE x \in Victims
      BY <2>2, <3>1 DEF Doomed
    <3>2. CASE x \notin Victims
      BY <1>22, <1>a, <2>1, <2>4, <3>2 DEF Sweep
    <3> QED BY <3>1, <3>2
  <2>5. CASE serve.pc \in {"insert", "put"} /\ serve.sess = x
    BY <1>22, <2>5 DEF Sweep
  <2> QED BY <2>1, <2>3, <2>4, <2>5 DEF NoLeak
<1>23. ASSUME NEW s \in Sessions, Downlink(s) PROVE NoLeak'
  BY <1>23, <1>a, <1>b, <1>c, <1>d DEF Downlink, NoLeak, Doomed, Filed, ServeHolds,
     Hands, InsertsAlone, Sessions
<1>24. ASSUME NEW s \in Sessions, ReadEnds(s) PROVE NoLeak'
  BY <1>24, <1>a, <1>b, <1>c, <1>d DEF ReadEnds, NoLeak, Doomed, Filed, ServeHolds,
     Hands, InsertsAlone, Sessions
<1>25. ASSUME NEW s \in Sessions, ReaderDrops(s) PROVE NoLeak'
  <2> SUFFICES ASSUME NEW x \in Sessions, x <= opened', x \notin closed'
               PROVE  \/ table'[client'[x]] = x
                      \/ serve'.pc \in {"insert", "put"} /\ serve'.sess = x
                      \/ Doomed(x)'
    BY DEF NoLeak
  <2>1. x <= opened /\ x \notin closed /\ client'[x] = client[x] /\ client[x] \in Clients
    BY <1>25, <1>d DEF ReaderDrops, Filed
  <2>2. /\ rtodo'[s] = Of(client[s]) /\ rtodo[s] = {} /\ todo' = todo
        /\ \A r \in Sessions \ {s} : rtodo'[r] = rtodo[r]
    BY <1>25, <1>b, <1>d DEF ReaderDrops, Hands
  <2>3. CASE Doomed(x)
    BY <2>2, <2>3 DEF Doomed
  <2>4. CASE table[client[x]] = x
    <3>1. CASE client[x] = client[s]
      BY <2>1, <2>2, <2>4, <3>1 DEF Doomed, Of, Sessions
    <3>2. CASE client[x] # client[s]
      BY <1>25, <1>a, <2>1, <2>4, <3>2 DEF ReaderDrops, Drop
    <3> QED BY <3>1, <3>2
  <2>5. CASE serve.pc \in {"insert", "put"} /\ serve.sess = x
    BY <1>25, <2>5 DEF ReaderDrops
  <2> QED BY <2>1, <2>3, <2>4, <2>5 DEF NoLeak
<1>26. ASSUME NEW s \in Sessions, ServeCloses(s) PROVE NoLeak'
  <2> SUFFICES ASSUME NEW x \in Sessions, x <= opened', x \notin closed'
               PROVE  \/ table'[client'[x]] = x
                      \/ serve'.pc \in {"insert", "put"} /\ serve'.sess = x
                      \/ Doomed(x)'
    BY DEF NoLeak
  <2>1. /\ todo'.serve = todo.serve \ {s} /\ rtodo' = rtodo
        /\ todo'.owner = todo.owner /\ todo'.sweeper = todo.sweeper
    BY <1>26, <1>b DEF ServeCloses
  <2>2. x # s /\ x \notin closed /\ x <= opened /\ client' = client
    BY <1>26 DEF ServeCloses, Shut
  <2>3. table' = table /\ serve' = serve
    BY <1>26 DEF ServeCloses
  <2>4. CASE Doomed(x)
    BY <2>1, <2>2, <2>4 DEF Doomed
  <2> QED BY <2>2, <2>3, <2>4 DEF NoLeak
<1>27. ASSUME NEW s \in Sessions, OwnerCloses(s) PROVE NoLeak'
  <2> SUFFICES ASSUME NEW x \in Sessions, x <= opened', x \notin closed'
               PROVE  \/ table'[client'[x]] = x
                      \/ serve'.pc \in {"insert", "put"} /\ serve'.sess = x
                      \/ Doomed(x)'
    BY DEF NoLeak
  <2>1. /\ todo'.owner = todo.owner \ {s} /\ rtodo' = rtodo
        /\ todo'.serve = todo.serve /\ todo'.sweeper = todo.sweeper
    BY <1>27, <1>b DEF OwnerCloses
  <2>2. x # s /\ x \notin closed /\ x <= opened /\ client' = client
    BY <1>27 DEF OwnerCloses, Shut
  <2>3. table' = table /\ serve' = serve
    BY <1>27 DEF OwnerCloses
  <2>4. CASE Doomed(x)
    BY <2>1, <2>2, <2>4 DEF Doomed
  <2> QED BY <2>2, <2>3, <2>4 DEF NoLeak
<1>28. ASSUME NEW s \in Sessions, SweeperCloses(s) PROVE NoLeak'
  <2> SUFFICES ASSUME NEW x \in Sessions, x <= opened', x \notin closed'
               PROVE  \/ table'[client'[x]] = x
                      \/ serve'.pc \in {"insert", "put"} /\ serve'.sess = x
                      \/ Doomed(x)'
    BY DEF NoLeak
  <2>1. /\ todo'.sweeper = todo.sweeper \ {s} /\ rtodo' = rtodo
        /\ todo'.serve = todo.serve /\ todo'.owner = todo.owner
    BY <1>28, <1>b DEF SweeperCloses
  <2>2. x # s /\ x \notin closed /\ x <= opened /\ client' = client
    BY <1>28 DEF SweeperCloses, Shut
  <2>3. table' = table /\ serve' = serve
    BY <1>28 DEF SweeperCloses
  <2>4. CASE Doomed(x)
    BY <2>1, <2>2, <2>4 DEF Doomed
  <2> QED BY <2>2, <2>3, <2>4 DEF NoLeak
<1>29. ASSUME NEW r \in Sessions, NEW s \in Sessions, ReaderCloses(r, s) PROVE NoLeak'
  <2> SUFFICES ASSUME NEW x \in Sessions, x <= opened', x \notin closed'
               PROVE  \/ table'[client'[x]] = x
                      \/ serve'.pc \in {"insert", "put"} /\ serve'.sess = x
                      \/ Doomed(x)'
    BY DEF NoLeak
  <2>1. /\ rtodo'[r] = rtodo[r] \ {s} /\ todo' = todo
        /\ \A q \in Sessions \ {r} : rtodo'[q] = rtodo[q]
    BY <1>29, <1>b DEF ReaderCloses
  <2>2. x # s /\ x \notin closed /\ x <= opened /\ client' = client
    BY <1>29 DEF ReaderCloses, Shut
  <2>3. table' = table /\ serve' = serve
    BY <1>29 DEF ReaderCloses
  <2>4. CASE Doomed(x)
    BY <2>1, <2>2, <2>4 DEF Doomed
  <2> QED BY <2>2, <2>3, <2>4 DEF NoLeak
<1>30. CASE TunnelDies
  BY <1>30, <1>a, <1>b, <1>c, <1>d DEF TunnelDies, NoLeak, Doomed, Filed, ServeHolds,
     Hands, InsertsAlone, Sessions
<1>31. ASSUME NEW s \in Sessions, TimePasses(s) PROVE NoLeak'
  BY <1>31, <1>a, <1>b, <1>c, <1>d DEF TimePasses, NoLeak, Doomed, Filed, ServeHolds,
     Hands, InsertsAlone, Sessions
<1>32. CASE UNCHANGED vars
  BY <1>32, <1>a, <1>b, <1>c, <1>d DEF vars, NoLeak, Doomed, Filed, ServeHolds, Hands,
     InsertsAlone, Sessions
<1> QED
  BY <1>1, <1>2, <1>3, <1>4, <1>5, <1>6, <1>7, <1>8, <1>9, <1>10, <1>11, <1>12, <1>13,
     <1>14, <1>15, <1>16, <1>17, <1>18, <1>19, <1>20, <1>21, <1>22, <1>23, <1>24, <1>25,
     <1>26, <1>27, <1>28, <1>29, <1>30, <1>31, <1>32
  DEF Next, ServeStep, OwnerStep, SweeperStep, ReaderStep

(* What leaves the table makes it smaller. *)
LEMMA Shrinks ==
    ASSUME TypeOK, Live' \subseteq Live
    PROVE  /\ Cardinality(Live) \in Nat /\ Cardinality(Live') \in Nat
           /\ Cardinality(Live') <= Cardinality(Live)
<1>1. IsFiniteSet(Live)
  <2>1. Live \in SUBSET Clients
    BY DEF Live
  <2> QED BY <2>1, FS_Subset, UdpForwardAssumption
<1>2. IsFiniteSet(Live') /\ Cardinality(Live') <= Cardinality(Live)
  BY <1>1, FS_Subset
<1> QED BY <1>1, <1>2, FS_CardinalityType

(* Every step keeps the table within its limit. *)
LEMMA BoundStep == TypeOK /\ TableBounded /\ Room /\ [Next]_vars => (TableBounded /\ Room)'
<1> SUFFICES ASSUME TypeOK, TableBounded, Room, [Next]_vars PROVE (TableBounded /\ Room)'
  OBVIOUS
<1> USE UdpForwardAssumption DEF tun, sess, sweep
<1>a. /\ table \in [Clients -> 0..MaxStreams] /\ opened \in 0..MaxStreams
      /\ client \in [Sessions -> Clients \cup {None}]
      /\ reader \in [Sessions -> {"none", "read", "drop", "done"}]
  BY DEF TypeOK
<1>b. /\ serve \in [pc : ServePc, key : Clients \cup {None}, sess : 0..MaxStreams,
                    conn : 0..MaxTunnels]
      /\ todo \in [serve : SUBSET Sessions, owner : SUBSET Sessions,
                   sweeper : SUBSET Sessions]
      /\ rtodo \in [Sessions -> SUBSET Sessions]
  BY DEF TypeOK
<1>e. /\ IsFiniteSet(Live) /\ Cardinality(Live) \in Nat
      /\ Cardinality(Live) <= MaxUDPSessions
  <2>1. Live \in SUBSET Clients
    BY DEF Live
  <2> QED BY <2>1, FS_Subset, FS_CardinalityType DEF TableBounded
<1>f. ASSUME Live' \subseteq Live, serve'.pc = "put" => serve.pc = "put"
      PROVE  (TableBounded /\ Room)'
  BY <1>e, <1>f, Shrinks DEF TableBounded, Room
<1>1. ASSUME NEW c \in Clients, Receive(c) PROVE (TableBounded /\ Room)'
  <2>1. Live' \subseteq Live
    BY <1>1, <1>a DEF Receive, Live
  <2>2. serve'.pc = "put" => serve.pc = "put"
    BY <1>1, <1>b DEF Receive
  <2> QED BY <1>f, <2>1, <2>2
<1>2. CASE ServeEnds
  <2>1. Live' \subseteq Live
    BY <1>2, <1>a DEF ServeEnds, Go, Live
  <2>2. serve'.pc = "put" => serve.pc = "put"
    BY <1>2, <1>b DEF ServeEnds, Go
  <2> QED BY <1>f, <2>1, <2>2
<1>3. CASE GetSession
  <2>1. Live' \subseteq Live
    BY <1>3, <1>a DEF GetSession, Live
  <2>2. serve'.pc = "put" => serve.pc = "put"
    BY <1>3, <1>b DEF GetSession
  <2> QED BY <1>f, <2>1, <2>2
<1>4. CASE OpenBegin
  <2>1. Live' \subseteq Live
    BY <1>4, <1>a DEF OpenBegin, NoServe, Live
  <2>2. serve'.pc = "put" => serve.pc = "put"
    BY <1>4, <1>b DEF OpenBegin, NoServe
  <2> QED BY <1>f, <2>1, <2>2
<1>5. CASE Opened
  <2>1. Live' \subseteq Live
    BY <1>5, <1>a DEF Opened, Sessions, Live
  <2>2. serve'.pc = "put" => serve.pc = "put"
    BY <1>5, <1>b DEF Opened, Sessions
  <2> QED BY <1>f, <2>1, <2>2
<1>6. CASE OpenFails
  <2>1. Live' \subseteq Live
    BY <1>6, <1>a DEF OpenFails, Again, NoServe, Live
  <2>2. serve'.pc = "put" => serve.pc = "put"
    BY <1>6, <1>b DEF OpenFails, Again, NoServe
  <2> QED BY <1>f, <2>1, <2>2
<1>7. CASE Insert
  <2>1. Live' \subseteq Live \cup {serve.key}
    BY <1>7, <1>a DEF Insert, Put, Live
  <2>2. Cardinality(Live) < MaxUDPSessions
    BY <1>7, <1>e DEF Insert, Full
  <2>3. Cardinality(Live') < MaxUDPSessions + 1 /\ Cardinality(Live') \in Nat
    <3>1. IsFiniteSet(Live \cup {serve.key})
      BY <1>e, FS_AddElement
    <3>2. Cardinality(Live \cup {serve.key}) <= Cardinality(Live) + 1
      <4>1. \/ Cardinality(Live \cup {serve.key}) = Cardinality(Live)
            \/ Cardinality(Live \cup {serve.key}) = Cardinality(Live) + 1
        BY <1>e, FS_AddElement, Zenon
      <4> QED BY <1>e, <4>1
    <3>3. Cardinality(Live') <= Cardinality(Live \cup {serve.key}) /\ IsFiniteSet(Live')
      BY <2>1, <3>1, FS_Subset
    <3>4. Cardinality(Live') \in Nat /\ Cardinality(Live \cup {serve.key}) \in Nat
      BY <3>1, <3>3, FS_CardinalityType
    <3> QED BY <1>e, <2>2, <3>2, <3>3, <3>4
  <2>4. Room'
    BY <1>7, <1>b DEF Insert, Put, Go, Room
  <2> QED BY <2>3, <2>4 DEF TableBounded
<1>8. CASE Evict
  <2>1. Oldest \in Live
    BY <1>8, FullHasSessions, OldestExists DEF Evict
  <2>2. Live' \subseteq Live \ {Oldest}
    BY <1>8, <1>a DEF Evict, Live
  <2>3. IsFiniteSet(Live \ {Oldest}) /\ Cardinality(Live \ {Oldest}) = Cardinality(Live) - 1
    BY <1>e, <2>1, FS_RemoveElement
  <2>4. Cardinality(Live') <= Cardinality(Live) - 1 /\ IsFiniteSet(Live')
    BY <2>2, <2>3, FS_Subset
  <2>5. Cardinality(Live') \in Nat
    BY <2>4, FS_CardinalityType
  <2> QED BY <1>e, <2>4, <2>5 DEF TableBounded, Room
<1>9. CASE InsertAfterEvict
  <2>1. Live' \subseteq Live \cup {serve.key}
    BY <1>9, <1>a DEF InsertAfterEvict, Put, Live
  <2>2. Cardinality(Live) < MaxUDPSessions
    BY <1>9, <1>e DEF InsertAfterEvict, Room
  <2>3. Cardinality(Live') < MaxUDPSessions + 1 /\ Cardinality(Live') \in Nat
    <3>1. IsFiniteSet(Live \cup {serve.key})
      BY <1>e, FS_AddElement
    <3>2. Cardinality(Live \cup {serve.key}) <= Cardinality(Live) + 1
      <4>1. \/ Cardinality(Live \cup {serve.key}) = Cardinality(Live)
            \/ Cardinality(Live \cup {serve.key}) = Cardinality(Live) + 1
        BY <1>e, FS_AddElement, Zenon
      <4> QED BY <1>e, <4>1
    <3>3. Cardinality(Live') <= Cardinality(Live \cup {serve.key}) /\ IsFiniteSet(Live')
      BY <2>1, <3>1, FS_Subset
    <3>4. Cardinality(Live') \in Nat /\ Cardinality(Live \cup {serve.key}) \in Nat
      BY <3>1, <3>3, FS_CardinalityType
    <3> QED BY <1>e, <2>2, <3>2, <3>3, <3>4
  <2>4. Room'
    BY <1>9, <1>b DEF InsertAfterEvict, Put, Go, Room
  <2> QED BY <2>3, <2>4 DEF TableBounded
<1>10. CASE WriteBegin
  <2>1. Live' \subseteq Live
    BY <1>10, <1>a DEF WriteBegin, Go, Live
  <2>2. serve'.pc = "put" => serve.pc = "put"
    BY <1>10, <1>b DEF WriteBegin, Go
  <2> QED BY <1>f, <2>1, <2>2
<1>11. CASE WriteEnd
  <2>1. Live' \subseteq Live
    BY <1>11, <1>a DEF WriteEnd, Go, Again, NoServe, Live
  <2>2. serve'.pc = "put" => serve.pc = "put"
    BY <1>11, <1>b DEF WriteEnd, Go, Again, NoServe
  <2> QED BY <1>f, <2>1, <2>2
<1>12. CASE ServeDrops
  <2>1. Live' \subseteq Live
    BY <1>12, <1>a DEF ServeDrops, Drop, Go, Live
  <2>2. serve'.pc = "put" => serve.pc = "put"
    BY <1>12, <1>b DEF ServeDrops, Drop, Go
  <2> QED BY <1>f, <2>1, <2>2
<1>13. CASE ServeDropped
  <2>1. Live' \subseteq Live
    BY <1>13, <1>a DEF ServeDropped, Again, NoServe, Live
  <2>2. serve'.pc = "put" => serve.pc = "put"
    BY <1>13, <1>b DEF ServeDropped, Again, NoServe
  <2> QED BY <1>f, <2>1, <2>2
<1>14. CASE SetQuicConn
  <2>1. Live' \subseteq Live
    BY <1>14, <1>a DEF SetQuicConn, TakeAll, Empty, Live
  <2>2. serve'.pc = "put" => serve.pc = "put"
    BY <1>14, <1>b DEF SetQuicConn, TakeAll, Empty
  <2> QED BY <1>f, <2>1, <2>2
<1>15. CASE SetQuicConnEnds
  <2>1. Live' \subseteq Live
    BY <1>15, <1>a DEF SetQuicConnEnds, Live
  <2>2. serve'.pc = "put" => serve.pc = "put"
    BY <1>15, <1>b DEF SetQuicConnEnds
  <2> QED BY <1>f, <2>1, <2>2
<1>16. CASE ClearQuicConn
  <2>1. Live' \subseteq Live
    BY <1>16, <1>a DEF ClearQuicConn, Live
  <2>2. serve'.pc = "put" => serve.pc = "put"
    BY <1>16, <1>b DEF ClearQuicConn
  <2> QED BY <1>f, <2>1, <2>2
<1>17. CASE ClearTakes
  <2>1. Live' \subseteq Live
    BY <1>17, <1>a DEF ClearTakes, TakeAll, Empty, Live
  <2>2. serve'.pc = "put" => serve.pc = "put"
    BY <1>17, <1>b DEF ClearTakes, TakeAll, Empty
  <2> QED BY <1>f, <2>1, <2>2
<1>18. CASE ClearEnds
  <2>1. Live' \subseteq Live
    BY <1>18, <1>a DEF ClearEnds, Live
  <2>2. serve'.pc = "put" => serve.pc = "put"
    BY <1>18, <1>b DEF ClearEnds
  <2> QED BY <1>f, <2>1, <2>2
<1>19. CASE Close
  <2>1. Live' \subseteq Live
    BY <1>19, <1>a DEF Close, TakeAll, Empty, Live
  <2>2. serve'.pc = "put" => serve.pc = "put"
    BY <1>19, <1>b DEF Close, TakeAll, Empty
  <2> QED BY <1>f, <2>1, <2>2
<1>20. CASE CloseEnds
  <2>1. Live' \subseteq Live
    BY <1>20, <1>a DEF CloseEnds, Live
  <2>2. serve'.pc = "put" => serve.pc = "put"
    BY <1>20, <1>b DEF CloseEnds
  <2> QED BY <1>f, <2>1, <2>2
<1>21. CASE SweepTick
  <2>1. Live' \subseteq Live
    BY <1>21, <1>a DEF SweepTick, SweeperLeaves, Live
  <2>2. serve'.pc = "put" => serve.pc = "put"
    BY <1>21, <1>b DEF SweepTick, SweeperLeaves
  <2> QED BY <1>f, <2>1, <2>2
<1>22. CASE Sweep
  <2>1. Live' \subseteq Live
    BY <1>22, <1>a DEF Sweep, Live
  <2>2. serve'.pc = "put" => serve.pc = "put"
    BY <1>22, <1>b DEF Sweep
  <2> QED BY <1>f, <2>1, <2>2
<1>23. ASSUME NEW s \in Sessions, Downlink(s) PROVE (TableBounded /\ Room)'
  <2>1. Live' \subseteq Live
    BY <1>23, <1>a DEF Downlink, Live
  <2>2. serve'.pc = "put" => serve.pc = "put"
    BY <1>23, <1>b DEF Downlink
  <2> QED BY <1>f, <2>1, <2>2
<1>24. ASSUME NEW s \in Sessions, ReadEnds(s) PROVE (TableBounded /\ Room)'
  <2>1. Live' \subseteq Live
    BY <1>24, <1>a DEF ReadEnds, Live
  <2>2. serve'.pc = "put" => serve.pc = "put"
    BY <1>24, <1>b DEF ReadEnds
  <2> QED BY <1>f, <2>1, <2>2
<1>25. ASSUME NEW s \in Sessions, ReaderDrops(s) PROVE (TableBounded /\ Room)'
  <2>1. Live' \subseteq Live
    BY <1>25, <1>a DEF ReaderDrops, Drop, Live
  <2>2. serve'.pc = "put" => serve.pc = "put"
    BY <1>25, <1>b DEF ReaderDrops, Drop
  <2> QED BY <1>f, <2>1, <2>2
<1>26. ASSUME NEW s \in Sessions, ServeCloses(s) PROVE (TableBounded /\ Room)'
  <2>1. Live' \subseteq Live
    BY <1>26, <1>a DEF ServeCloses, Live
  <2>2. serve'.pc = "put" => serve.pc = "put"
    BY <1>26, <1>b DEF ServeCloses
  <2> QED BY <1>f, <2>1, <2>2
<1>27. ASSUME NEW s \in Sessions, OwnerCloses(s) PROVE (TableBounded /\ Room)'
  <2>1. Live' \subseteq Live
    BY <1>27, <1>a DEF OwnerCloses, Live
  <2>2. serve'.pc = "put" => serve.pc = "put"
    BY <1>27, <1>b DEF OwnerCloses
  <2> QED BY <1>f, <2>1, <2>2
<1>28. ASSUME NEW s \in Sessions, SweeperCloses(s) PROVE (TableBounded /\ Room)'
  <2>1. Live' \subseteq Live
    BY <1>28, <1>a DEF SweeperCloses, Live
  <2>2. serve'.pc = "put" => serve.pc = "put"
    BY <1>28, <1>b DEF SweeperCloses
  <2> QED BY <1>f, <2>1, <2>2
<1>29. ASSUME NEW r \in Sessions, NEW s \in Sessions, ReaderCloses(r, s) PROVE (TableBounded /\ Room)'
  <2>1. Live' \subseteq Live
    BY <1>29, <1>a DEF ReaderCloses, Live
  <2>2. serve'.pc = "put" => serve.pc = "put"
    BY <1>29, <1>b DEF ReaderCloses
  <2> QED BY <1>f, <2>1, <2>2
<1>30. CASE TunnelDies
  <2>1. Live' \subseteq Live
    BY <1>30, <1>a DEF TunnelDies, Live
  <2>2. serve'.pc = "put" => serve.pc = "put"
    BY <1>30, <1>b DEF TunnelDies
  <2> QED BY <1>f, <2>1, <2>2
<1>31. ASSUME NEW s \in Sessions, TimePasses(s) PROVE (TableBounded /\ Room)'
  <2>1. Live' \subseteq Live
    BY <1>31, <1>a DEF TimePasses, Live
  <2>2. serve'.pc = "put" => serve.pc = "put"
    BY <1>31, <1>b DEF TimePasses
  <2> QED BY <1>f, <2>1, <2>2
<1>32. CASE UNCHANGED vars
  <2>1. Live' \subseteq Live
    BY <1>32, <1>a DEF vars, Live
  <2>2. serve'.pc = "put" => serve.pc = "put"
    BY <1>32, <1>b DEF vars
  <2> QED BY <1>f, <2>1, <2>2
<1> QED
  BY <1>1, <1>2, <1>3, <1>4, <1>5, <1>6, <1>7, <1>8, <1>9, <1>10, <1>11, <1>12, <1>13,
     <1>14, <1>15, <1>16, <1>17, <1>18, <1>19, <1>20, <1>21, <1>22, <1>23, <1>24, <1>25,
     <1>26, <1>27, <1>28, <1>29, <1>30, <1>31, <1>32
  DEF Next, ServeStep, OwnerStep, SweeperStep, ReaderStep

(* UInv is an invariant. *)
LEMMA Inductive == Spec => []UInv
<1>1. UInv /\ [Next]_vars => UInv'
  BY TypeStep, FiledStep, ServeStepHolds, HandsStep, AloneStep DEF UInv
<1> QED BY UInit, <1>1, PTL DEF Spec

(* Every state has its type. *)
THEOREM TypeCorrect == Spec => []TypeOK
<1>1. UInv => TypeOK
  BY DEF UInv
<1> QED BY Inductive, <1>1, PTL

(* newSession's second look at the table never finds a session. *)
THEOREM ServeAloneInserts == Spec => []InsertsAlone
<1>1. UInv => InsertsAlone
  BY DEF UInv
<1> QED BY Inductive, <1>1, PTL

(* No stream is forgotten, however SetQuicConn, ClearQuicConn, Close, the  *)
(* sweeper, the readBacks and Serve's own drops and evictions interleave.  *)
THEOREM StreamsNotLeaked == Spec => []NoLeak
<1>1. Init => NoLeak
  BY UdpForwardAssumption DEF Init, NoLeak, Sessions
<1>2. UInv /\ NoLeak /\ [Next]_vars => NoLeak'
  BY LeakStep
<1> QED BY Inductive, <1>1, <1>2, PTL DEF Spec

(* There is one sweeper as long as there are sessions. *)
THEOREM SweeperStays == Spec => []SweeperRuns
<1>1. Init => SweeperRuns
  BY DEF Init, SweeperRuns, Live, Empty
<1>2. TypeOK /\ SweeperRuns /\ [Next]_vars => SweeperRuns'
  BY SweeperStepRuns
<1> QED BY TypeCorrect, <1>1, <1>2, PTL DEF Spec

(* The table stays within maxUDPSessions, although the lock is released    *)
(* between making room and inserting.                                      *)
THEOREM TableStaysBounded == Spec => []TableBounded
<1>1. Init => TableBounded /\ Room
  <2> SUFFICES ASSUME Init PROVE TableBounded /\ Room
    OBVIOUS
  <2>1. Live = {}
    BY DEF Init, Live, Empty
  <2>2. Cardinality(Live) = 0
    BY <2>1, FS_EmptySet
  <2> QED BY <2>2, UdpForwardAssumption DEF Init, TableBounded, Room, NoServe
<1>2. TypeOK /\ TableBounded /\ Room /\ [Next]_vars => (TableBounded /\ Room)'
  BY BoundStep
<1> QED BY TypeCorrect, <1>1, <1>2, PTL DEF Spec
=============================================================================
