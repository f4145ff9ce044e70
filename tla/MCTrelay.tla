------------------------------- MODULE MCTrelay -------------------------------
(***************************************************************************)
(* Small instances of trelay for TLC.                                      *)
(***************************************************************************)
EXTENDS Trelay

CONSTANTS eth, wlan, lan, vlan

Request(n, d, e) == [name |-> n, dev1 |-> d, dev2 |-> e]

\* Two relays that can exist at the same time.
Relays == {Request("a", eth, wlan), Request("b", lan, vlan)}
=============================================================================
