------------------------------ MODULE EadCrypt ------------------------------
(***************************************************************************)
(* The message protection of ead-crypt.c: every encrypted message carries  *)
(* an initialization vector that the sender advances by a key-dependent    *)
(* step of one to four, and the receiver accepts only IVs inside a window  *)
(* above the last one accepted.  IVs are counted from the value ead_set_key*)
(* takes from the session key, so both directions start at IvBase.         *)
(***************************************************************************)
EXTENDS Naturals

CONSTANTS EAD_MAX_IV_INCR,  \* width of the receive window, 128 in ead.h
          IvOfs,            \* steps the sender may take, 1 .. 4 in the code
          MaxIv             \* bound on the IVs a receiver is driven to

ASSUME CryptAssumption == /\ EAD_MAX_IV_INCR \in Nat
                          /\ IvOfs \subseteq 1..4
                          /\ IvOfs # {}
                          /\ MaxIv \in Nat

\* ead_set_key: rx and tx counters are both set from the key.
IvBase == 0

check_rx_iv_repeat(rx, iv) ==   \* mutant: the last IV is accepted again
  /\ iv >= rx
  /\ iv <= rx + EAD_MAX_IV_INCR

check_rx_iv_late(rx, iv) ==     \* mutant: only the last IV is refused
  /\ iv # rx
  /\ iv <= rx + EAD_MAX_IV_INCR

\* The IV is new and not too far ahead of the last one accepted.
ead_check_rx_iv(rx, iv) == /\ iv > rx
                           /\ iv <= rx + EAD_MAX_IV_INCR

\* The IVs the next message may carry.
ead_get_tx_iv(tx) == {tx + ofs : ofs \in IvOfs}

(***************************************************************************)
(* The possible results of decrypting message m with the given key: the    *)
(* receive counter afterwards and whether the message is accepted.  Under  *)
(* another key the plain text is noise: the padding or IV test may refuse  *)
(* it at once, or the noise lands inside the window, which moves the       *)
(* counter before the SHA1 test refuses the message.                       *)
(***************************************************************************)
ead_decrypt_message(key, rx, m) ==
  IF m.key = key
  THEN IF ead_check_rx_iv(rx, m.iv)
       THEN {[rx |-> m.iv, ok |-> TRUE]}
       ELSE {[rx |-> rx, ok |-> FALSE]}
  ELSE {[rx |-> r, ok |-> FALSE] :
          r \in {rx} \cup {i \in 0..MaxIv : ead_check_rx_iv(rx, i)}}
=============================================================================
