------------------------------- MODULE MCStun -------------------------------
(* Stun with one list entry that resolves to two hosts and a second entry. *)
EXTENDS Stun

MCServers == <<<<1, 2>>, <<3>>>>

Software == <<32802, 5, <<104, 101, 108, 108, 111, 0, 0, 0>>>>
Plain(type, port) == <<type, 8, <<0, 1>> \o Uint16(port) \o <<192, 0, 2, 1>>>>
Six(type) == <<type, 20, <<0, 2>> \o Uint16(4660) \o [i \in 1..16 |-> i]>>

(* A string before the addresses; IPv6; a port of 0; a length that wraps   *)
(* when it is padded; one beyond the packet; an unknown family; a length   *)
(* too short for the address that is there; one with bytes to spare.       *)
Attributes ==
    {Software, Plain(32, 50000), Plain(1, 0), Plain(5, 3479), Six(32),
     <<1, 65535, <<0, 1, 2, 3, 4, 5, 6, 7>>>>,
     <<1, 13, <<0, 1, 2, 3, 4, 5, 6, 7>>>>,
     <<1, 8, <<0, 3, 2, 3, 4, 5, 6, 7>>>>,
     <<1, 6, <<0, 1, 2, 3, 4, 5, 6, 7>>>>,
     <<32, 9, <<0, 1, 2, 3, 4, 5, 6, 7, 8, 0, 0, 0>>>>}

(* Every attribute with a changed address, alone, and behind a string;     *)
(* no attributes at all.                                                   *)
MCOthers ==
    {<<>>} \cup {<<a>> : a \in Attributes}
      \cup {<<a, Plain(5, 3479)>> : a \in Attributes}
      \cup {<<Software, Plain(32, 50000), Six(5)>>, <<Software, Six(32), Plain(5, 0)>>}
=============================================================================
