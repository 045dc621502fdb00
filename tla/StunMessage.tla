----------------------------- MODULE StunMessage -----------------------------
(***************************************************************************)
(* STUN attributes as bytes: what stun2/svr.go builds and stun2/cli.go     *)
(* parses. An address is [ip, port], the ip four or sixteen bytes. A slice *)
(* outside its array is a panic in Go and here OutOfRange, no array of     *)
(* bytes.                                                                  *)
(***************************************************************************)
EXTENDS Integers, Sequences

MappedAddress == 1
ChangedAddress == 5
XorMappedAddress == 32
Fingerprint == 32808

MagicCookie == <<33, 18, 164, 66>>       \* 0x2112A442

(* What two bytes hold. *)
Word == {n \in Nat : n < 65536}

Uint16(n) == <<(n % 65536) \div 256, n % 256>>

BigEndian(b) == b[1] * 256 + b[2]

(* Exclusive or of two bytes, bit by bit: w where the bit of weight w is   *)
(* set in one of them only.                                                *)
Differ(a, b, w) == IF (a \div w) % 2 = (b \div w) % 2 THEN 0 ELSE w

Xor(a, b) ==
    Differ(a, b, 1) + Differ(a, b, 2) + Differ(a, b, 4) + Differ(a, b, 8)
      + Differ(a, b, 16) + Differ(a, b, 32) + Differ(a, b, 64) + Differ(a, b, 128)

Xored(bytes, key) == [i \in 1..Len(bytes) |-> Xor(bytes[i], key[i])]

Family(addr) == IF Len(addr.ip) = 4 THEN 1 ELSE 2

-----------------------------------------------------------------------------
(* Building *)

(* Type, length and value of an address attribute. *)
AddressAttr(type, addr) ==
    Uint16(type) \o Uint16(4 + Len(addr.ip))
      \o (<<0, Family(addr)>> \o Uint16(addr.port) \o addr.ip)

BuildMappedAddress(addr) == AddressAttr(MappedAddress, addr)

(* Port and address combined with the cookie and the transaction ID.       *)
BuildXorMappedAddress(addr, tid) ==
    AddressAttr(XorMappedAddress,
                [port |-> BigEndian(Xored(Uint16(addr.port), MagicCookie)),
                 ip |-> Xored(addr.ip, MagicCookie \o tid)])

(* Nothing when the server was not given an IP address.                    *)
BuildChangedAddress(addr) ==
    IF addr.ip = <<>> THEN <<>> ELSE AddressAttr(ChangedAddress, addr)

(* The checksum is nobody's concern here: the client does not look at it.  *)
BuildFingerprint == Uint16(Fingerprint) \o Uint16(4) \o <<0, 0, 0, 0>>

BuildBindingResponse(remote, tid, changed) ==
    BuildMappedAddress(remote) \o BuildXorMappedAddress(remote, tid)
      \o BuildChangedAddress(changed) \o BuildFingerprint

-----------------------------------------------------------------------------
(* Parsing *)

Failed == [ip |-> <<>>, port |-> 0]
OutOfRange == <<256>>
Panic == [ip |-> OutOfRange, port |-> 0]

(* a[lo:hi] in Go. *)
Slice(a, lo, hi) ==
    IF lo <= hi /\ hi <= Len(a) THEN SubSeq(a, lo + 1, hi) ELSE OutOfRange

Fits(attributes, length) == Len(attributes) >= 4 /\ length + 4 <= Len(attributes)

(* getStunIpPort5 *)
ParseAddress(type, attributes, length, tid) ==
    IF ~Fits(attributes, length) THEN Failed
    ELSE LET value == Slice(attributes, 4, 4 + length) IN
    IF value = OutOfRange THEN Panic
    ELSE IF Len(value) < 2 \/ value[2] \notin {1, 2} THEN Failed
    ELSE LET size == IF value[2] = 1 THEN 4 ELSE 16 IN
    IF Len(value) < 4 + size THEN Failed
    ELSE LET ip == Slice(value, 4, 4 + size)
             port == Slice(value, 2, 4)
         IN  IF type = XorMappedAddress
             THEN [ip |-> Xored(ip, MagicCookie \o tid),
                   port |-> BigEndian(Xored(port, MagicCookie))]
             ELSE [ip |-> ip, port |-> BigEndian(port)]

(* Mutant: attributes are taken to be of a length divisible by four.       *)
PaddedNot(length) == length

(* (attrLength + 3) &^ 3 in 16 bits. *)
Padded(length) == LET n == (length + 3) % 65536 IN n - (n % 4)

(* The attribute that begins behind the first start bytes. *)
TypeAt(attrs, start) == BigEndian(Slice(attrs, start, start + 2))
LengthAt(attrs, start) == BigEndian(Slice(attrs, start + 2, start + 4))
After(attrs, start) == start + 4 + Padded(LengthAt(attrs, start))

(* getStunIpPort4: the first attribute of the type. *)
FindAddress(attrs, type, tid) ==
    LET walk[start \in 0..Len(attrs)] ==
          IF start + 4 > Len(attrs) \/ After(attrs, start) > Len(attrs) THEN Failed
          ELSE IF TypeAt(attrs, start) = type
          THEN ParseAddress(type, Slice(attrs, start, Len(attrs)),
                            LengthAt(attrs, start), tid)
          ELSE walk[After(attrs, start)]
    IN  walk[0]

(* getStunIpPort2 after the header: the mapped address, plain or combined, *)
(* and the changed address.                                                *)
ParseResponse(attrs, tid) ==
    LET plain == FindAddress(attrs, MappedAddress, tid)
        mapped == IF plain = Failed THEN FindAddress(attrs, XorMappedAddress, tid)
                  ELSE plain
        changed == FindAddress(attrs, ChangedAddress, tid)
    IN  [ok |-> mapped # Failed /\ changed # Failed,
         mapped |-> mapped, changed |-> changed]
=============================================================================
