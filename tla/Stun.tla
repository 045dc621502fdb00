-------------------------------- MODULE Stun --------------------------------
(***************************************************************************)
(* Finding the public address: GetStunIpPort (stun2/cli.go) asks STUN      *)
(* servers through a NAT, over UDP that loses, duplicates and delays. Some *)
(* of the servers are this program's own (stun2/svr.go), the others answer *)
(* with any of Others' attributes. The client's socket does not look at    *)
(* the sender, and its three requests to a server carry one transaction.   *)
(*                                                                         *)
(* StunInit, StunNext and the rest carry a prefix, so that the proofs may  *)
(* extend this module together with Session.                               *)
(***************************************************************************)
EXTENDS StunMessage, FiniteSets

CONSTANTS
    Servers,     \* the STUN list: for every entry the addresses it resolves to
    Own,         \* hosts that run this program's server
    Unnamed,     \* those whose server was not given an IP address to announce
    Others,      \* attribute lists of other servers, as <<type, length, value>>
    MaxRounds,   \* maxStunRounds, 3 in the code
    MaxDups      \* bound: duplicated answers

ASSUME StunAssumption ==
    /\ MaxRounds \in Nat \ {0} /\ MaxDups \in Nat
    /\ Unnamed \subseteq Own /\ Own \subseteq 0..255
    /\ Servers \in Seq(Seq(0..255)) /\ Len(Servers) > 0
    /\ \A i \in 1..Len(Servers) : Len(Servers[i]) > 0
    /\ \A list \in Others : list \in Seq(Word \X Word \X Seq(0..255))

VARIABLES
    nat,      \* "cone": one public port; "symmetric": one per destination
    pc,       \* where the client is
    round, entry, host,   \* its loops: round, entry of the list, address
    step,     \* the request of the three
    to,       \* its destination
    changed,  \* the changed address of the first answer
    wan,      \* wan_ip, wan_port1, wan_port2, wan_port3
    reqs, answers,        \* packets under way
    txns,     \* the servers' s.txns: which ports a transaction was seen from
    verdict,  \* the NAT types the servers have logged
    mixed,    \* history: an answer was taken for another request's
    dups      \* counter for the bound

client == <<pc, round, entry, host, step, to, changed, wan>>
stunVars == <<nat, client, reqs, answers, txns, verdict, mixed, dups>>

IpOf(h) == <<198, 51, 100, h>>

NoWan == [ip |-> <<>>, ports |-> <<0, 0, 0>>]

(* The transaction ID is made for an entry of the list. *)
Txn == <<round, entry>>
Tid(txn) == [i \in 1..12 |-> 16 * txn[1] + txn[2]]

(* The client's public address for a destination. *)
Mapping(dest) ==
    [ip |-> <<203, 0, 113, 9>>,
     port |-> IF nat = "cone" THEN 40000
              ELSE 40000 + 8 * dest.ip[4] + dest.port - 3478]

-----------------------------------------------------------------------------
(* The server: handleStunRequest *)

(* The attributes of a packet, each with type, length and value. *)
Chunk(attr) == Uint16(attr[1]) \o Uint16(attr[2]) \o attr[3]

Encoded(attrs) ==
    LET enc[i \in 0..Len(attrs)] ==
          IF i = 0 THEN <<>> ELSE enc[i - 1] \o Chunk(attrs[i])
    IN  enc[Len(attrs)]

(* Mutant: the ports are not compared. *)
AddrEqualIp(a, b) == a.ip = b.ip

AddrEqual(a, b) == a.ip = b.ip /\ a.port = b.port

OwnAt(ip) == \E h \in Own : ip = IpOf(h)

(* Sightings of a transaction older than three seconds are dropped: any of *)
(* them may be. With both ports seen the NAT type is logged.               *)
Correlates(r) ==
    LET key == [ip |-> r.to.ip, txn |-> r.txn]
    IN  \E kept \in SUBSET txns :
          LET seen == {t \in kept : t.key = key /\ t.port # r.to.port}
              here == [key |-> key, port |-> r.to.port, addr |-> Mapping(r.to)]
          IN  IF seen = {}
              THEN /\ txns' = {t \in kept : t.key # key} \cup {here}
                   /\ UNCHANGED verdict
              ELSE /\ txns' = {t \in kept : t.key # key}
                   /\ verdict' = verdict \cup
                        {IF AddrEqual(t.addr, here.addr) THEN "cone"
                         ELSE "symmetric" : t \in seen}

(* The other of the two ports is announced as the changed address.         *)
ServerAnswers(r) ==
    /\ pc # "done" /\ OwnAt(r.to.ip)
    /\ Correlates(r)
    /\ reqs' = reqs \ {r}
    /\ answers' = answers \cup
         {[txn |-> r.txn, to |-> r.to, list |-> <<>>,
           attrs |-> BuildBindingResponse(Mapping(r.to), Tid(r.txn),
               [ip |-> IF \E h \in Unnamed : r.to.ip = IpOf(h) THEN <<>>
                      ELSE r.to.ip,
                port |-> IF r.to.port = 3478 THEN 3479 ELSE 3478])]}
    /\ UNCHANGED <<nat, client, mixed, dups>>

OtherAnswers(r) ==
    /\ pc # "done" /\ ~OwnAt(r.to.ip)
    /\ reqs' = reqs \ {r}
    /\ \E list \in Others :
         answers' = answers \cup
           {[txn |-> r.txn, to |-> r.to, list |-> list, attrs |-> Encoded(list)]}
    /\ UNCHANGED <<nat, client, txns, verdict, mixed, dups>>

-----------------------------------------------------------------------------
(* The client *)

(* Mutant: both of the server's ports are asked as one. *)
DestSamePort ==
    IF step = 3 THEN changed ELSE [ip |-> IpOf(Servers[entry][host]), port |-> 3478]

(* The three requests: to 3478, to 3479, to the changed address.           *)
Dest ==
    IF step = 3 THEN changed
    ELSE [ip |-> IpOf(Servers[entry][host]), port |-> 3477 + step]

(* getStunResponse sends to an IPv4 address. *)
Sends ==
    /\ pc = "send" /\ Len(Dest.ip) = 4
    /\ to' = Dest
    /\ reqs' = reqs \cup {[txn |-> Txn, to |-> Dest]}
    /\ pc' = "wait"
    /\ UNCHANGED <<nat, round, entry, host, step, changed, wan, answers, txns,
                   verdict, mixed, dups>>

(* GetStunIpPort2 gives up on an address and takes the next one; after the *)
(* last it returns, perhaps without an error.                              *)
NextHost ==
    /\ pc' = IF host < Len(Servers[entry]) THEN "send" ELSE "next"
    /\ host' = IF host < Len(Servers[entry]) THEN host + 1 ELSE host
    /\ step' = 1
    /\ wan' = NoWan /\ mixed' = FALSE
    /\ UNCHANGED changed

(* The address does not resolve as IPv4, or the packet cannot be sent.     *)
SendFails ==
    /\ pc = "send"
    /\ NextHost
    /\ UNCHANGED <<nat, round, entry, to, reqs, answers, txns, verdict, dups>>

(* The entry's name is not found: none of its addresses is asked.          *)
LookupFails ==
    /\ pc = "send" /\ host = 1 /\ step = 1
    /\ pc' = "next"
    /\ UNCHANGED <<nat, round, entry, host, step, to, changed, wan, reqs, answers,
                   txns, verdict, mixed, dups>>

(* 3 s have passed. *)
TimesOut ==
    /\ pc = "wait"
    /\ NextHost
    /\ UNCHANGED <<nat, round, entry, to, reqs, answers, txns, verdict, dups>>

(* What the three calls of getStunIpPort2 ask of the answer.               *)
Usable(p) ==
    p.ok /\ p.mapped.port # 0 /\ (step = 1 => p.changed.port # 0)

(* conn.Read returns whatever has arrived; 32 bytes, cookie and            *)
(* transaction must fit.                                                   *)
Reads(a) ==
    /\ pc = "wait"
    /\ \/ answers' = answers \ {a} /\ UNCHANGED dups
       \/ answers' = answers /\ dups < MaxDups /\ dups' = dups + 1
    /\ LET p == ParseResponse(a.attrs, Tid(Txn)) IN
         IF Len(a.attrs) < 12 \/ a.txn # Txn \/ ~Usable(p) THEN NextHost
         ELSE /\ wan' = [ip |-> IF step = 1 THEN p.mapped.ip ELSE wan.ip,
                         ports |-> [wan.ports EXCEPT ![step] = p.mapped.port]]
              /\ changed' = IF step = 1 THEN p.changed ELSE changed
              /\ pc' = IF step = 3 THEN "next" ELSE "send"
              /\ step' = IF step = 3 THEN 3 ELSE step + 1
              /\ mixed' = (mixed \/ a.to # to)
              /\ UNCHANGED host
    /\ UNCHANGED <<nat, round, entry, to, reqs, txns, verdict>>

Complete(w) == w.ip # <<>> /\ w.ports[1] # 0 /\ w.ports[2] # 0

RoundAfter == round + 1

(* GetStunIpPort looks at the result: it returns, or goes on with the next *)
(* entry, the next round, or gives up. Bound: a request is not under way   *)
(* longer than its entry (4 s and more); an answer may be.                 *)
NextEntry ==
    /\ pc = "next"
    /\ host' = 1 /\ step' = 1
    /\ IF Complete(wan)
       THEN pc' = "done" /\ UNCHANGED <<wan, entry, round>>
       ELSE /\ wan' = NoWan
            /\ entry' = IF entry < Len(Servers) THEN entry + 1 ELSE 1
            /\ round' = IF entry < Len(Servers) THEN round ELSE RoundAfter
            /\ pc' = IF round' > MaxRounds THEN "done" ELSE "send"
    /\ reqs' = {} /\ txns' = {}
    /\ UNCHANGED <<nat, to, changed, answers, verdict, mixed, dups>>

-----------------------------------------------------------------------------
StunInit ==
    /\ nat \in {"cone", "symmetric"}
    /\ pc = "send" /\ round = 1 /\ entry = 1 /\ host = 1 /\ step = 1
    /\ to = Failed /\ changed = Failed /\ wan = NoWan
    /\ reqs = {} /\ answers = {} /\ txns = {} /\ verdict = {}
    /\ mixed = FALSE /\ dups = 0

Client == \/ Sends \/ SendFails \/ LookupFails \/ TimesOut \/ NextEntry
          \/ \E a \in answers : Reads(a)

StunNext == Client \/ \E r \in reqs : ServerAnswers(r) \/ OtherAnswers(r)

StunSpec == StunInit /\ [][StunNext]_stunVars

-----------------------------------------------------------------------------
(* Properties *)

Bytes == Seq(0..255)

StunTypeOK ==
    /\ nat \in {"cone", "symmetric"} /\ pc \in {"send", "wait", "next", "done"}
    /\ round \in 1..(MaxRounds + 1) /\ entry \in 1..Len(Servers)
    /\ host \in 1..Len(Servers[entry]) /\ step \in 1..3
    /\ wan.ip \in Bytes /\ \A i \in 1..3 : wan.ports[i] \in Word
    /\ changed.ip \in Bytes /\ changed.port \in Word
    /\ \A a \in answers : a.attrs \in Bytes
    /\ verdict \subseteq {"cone", "symmetric"}
    /\ mixed \in BOOLEAN /\ dups \in 0..MaxDups

(* Every address of the entry is that of an own server. *)
EntryOwn == \A i \in 1..Len(Servers[entry]) : Servers[entry][i] \in Own

(* What the search returns is complete or empty, whatever the servers      *)
(* answer (a port of 0 would pass for no NAT4). If own servers answered it *)
(* is the public address, and unless an answer was taken for another       *)
(* request's the two ports differ exactly behind a symmetric NAT: that is  *)
(* how both ends choose who dials.                                         *)
Classified ==
    /\ StunTypeOK
    /\ pc = "done" => \/ wan = NoWan
                      \/ wan.ip # <<>> /\ \A i \in 1..3 : wan.ports[i] # 0
    /\ pc = "done" /\ Complete(wan) /\ EntryOwn =>
        /\ wan.ip = Mapping(to).ip
        /\ ~mixed => ((wan.ports[1] # wan.ports[2]) <=> (nat = "symmetric"))

(* The address in an attribute that is long enough for one of its family.  *)
AddressIn(attr, tid) ==
    LET value == attr[3]
        size == IF value[2] = 1 THEN 4 ELSE 16
        ip == SubSeq(value, 5, 4 + size)
        port == SubSeq(value, 3, 4)
    IN  IF attr[2] < 8 \/ value[2] \notin {1, 2} \/ attr[2] < 4 + size THEN Failed
        ELSE IF attr[1] = XorMappedAddress
        THEN [ip |-> Xored(ip, MagicCookie \o tid),
              port |-> BigEndian(Xored(port, MagicCookie))]
        ELSE [ip |-> ip, port |-> BigEndian(port)]

(* The first attribute of a type, by the list the packet was made from.    *)
FirstOf(list, type, tid) ==
    LET I == {i \in 1..Len(list) : list[i][1] = type}
    IN  IF I = {} THEN Failed
        ELSE AddressIn(list[CHOOSE i \in I : \A j \in I : i <= j], tid)

(* n bytes and their padding are m bytes. *)
Rounds(n, m) == m \in n..(n + 3) /\ m % 4 = 0

Sound(attr) == attr[2] < 65533 /\ Rounds(attr[2], Len(attr[3]))

WellFormed(list) == \A i \in 1..Len(list) : Sound(list[i])

(* No answer makes the parser slice outside the packet, with lengths at    *)
(* the edge of 16 bits, and in a well-formed one the address that is found *)
(* is the first of its type, behind whatever attributes.                   *)
ParserFinds ==
    \A a \in answers :
        /\ LET p == ParseResponse(a.attrs, Tid(a.txn))
           IN  Panic \notin {p.mapped, p.changed}
        /\ WellFormed(a.list) /\ a.list # <<>> =>
             \A type \in {MappedAddress, XorMappedAddress, ChangedAddress} :
                FindAddress(a.attrs, type, Tid(a.txn)) =
                  FirstOf(a.list, type, Tid(a.txn))

(* The servers log the NAT's true type, whichever requests were repeated,  *)
(* lost or expired.                                                        *)
VerdictTrue == verdict \subseteq {nat}
=============================================================================
