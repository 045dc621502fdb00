------------------------- MODULE MCForwardManager -------------------------
(* An instance of ForwardManager for TLC. *)
EXTENDS ForwardManager

Conf(m, a, b, s) == [mode |-> m, rules |-> [a |-> a, b |-> b], status |-> s]

(* Rules to start from, to retarget, to add and to drop, and a file that   *)
(* is refused in each of the ways the code tells apart.                    *)
MCConfigs == {Conf("forward", "x", "off", "ok"), Conf("forward", "y", "x", "ok"),
              Conf("forward", "off", "x", "ok"), Conf("tun", "x", "off", "ok"),
              Conf("forward", "y", "off", "invalid"),
              Conf("forward", "y", "off", "bad"),
              Conf("forward", "off", "off", "gone")}
=============================================================================
