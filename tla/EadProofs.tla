------------------------------ MODULE EadProofs ------------------------------
(***************************************************************************)
(* Machine-checked proofs about EadProtocol, for every set of clients,     *)
(* users and passwords, every bound and every assignment of arguments:     *)
(* type correctness, the safety properties, the refinement of EadSession,  *)
(* the daemon's children, and the order of the output.                     *)
(***************************************************************************)
EXTENDS EadProtocol, TLAPS

USE DEF EAD_TYPE_PING, EAD_TYPE_PONG, EAD_TYPE_SET_USERNAME,
        EAD_TYPE_ACK_USERNAME, EAD_TYPE_GET_PRIME, EAD_TYPE_PRIME,
        EAD_TYPE_SEND_A, EAD_TYPE_SEND_B, EAD_TYPE_SEND_AUTH,
        EAD_TYPE_DONE_AUTH, EAD_TYPE_SEND_CMD, EAD_TYPE_RESULT_CMD,
        EAD_CMD_NORMAL, EAD_CMD_BACKGROUND, IvBase

-----------------------------------------------------------------------------
(***************************************************************************)
(* Type correctness.  Some variables hold a "not yet set" value that the   *)
(* messages' types exclude; TypeInv adds when they are set.                *)
(***************************************************************************)
Verifier == [user : Users, hash : Hash]

\* Once a session is open the user and crypt string are known, a command is
\* streamed only for a real packet and key, and a client gets past the login
\* steps only with a user, a password and the salt the daemon sent.
SetWhenUsed ==
  /\ state >= EAD_TYPE_GET_PRIME => tpe \in Verifier
  /\ pc # "idle" => pkt \in CmdMsg /\ skey \in Key
  /\ \A c \in Clients :
       /\ phase[c] \in {"ack", "prime", "b"} => LogsIn(c)
       /\ phase[c] = "b" => c_salt[c] \in Salts
       /\ phase[c] \in {"auth", "result"} => c_key[c] \in Key

TypeInv == TypeOK /\ SetWhenUsed

\* The kinds of message are told apart by their type field.
LEMMA MessageKinds ==
  ASSUME NEW m \in Message
  PROVE  /\ m.cl \in Clients
         /\ m.sid \in Sids
         /\ m.type # EAD_TYPE_PING => m.nid \in Nids \cup {Broadcast}
         /\ m.type = EAD_TYPE_SET_USERNAME => m \in UserMsg
         /\ m.type = EAD_TYPE_PRIME => m \in SaltMsg
         /\ m.type = EAD_TYPE_SEND_A => m \in NumberAMsg
         /\ m.type = EAD_TYPE_SEND_B => m \in NumberBMsg
         /\ m.type \in {EAD_TYPE_SEND_AUTH, EAD_TYPE_DONE_AUTH} => m \in AuthMsg
         /\ m.type = EAD_TYPE_SEND_CMD => m \in CmdMsg
         /\ m.type = EAD_TYPE_RESULT_CMD => m \in ResultMsg
  BY DEF Message, HeaderOnly, UserMsg, SaltMsg, NumberAMsg, NumberBMsg,
         AuthMsg, CmdMsg, ResultMsg

\* Before anything is set the type invariant holds.
LEMMA TypeInit == Init => TypeInv
  <1> SUFFICES ASSUME Init PROVE TypeInv
    OBVIOUS
  <1>1. WireTypeOK
    BY DEF Init, WireTypeOK
  <1>2. AuthTypeOK
    BY DEF Init, ServerInit, AuthTypeOK, States, NoVerifier
  <1>3. KidTypeOK
    BY DEF Init, ServerInit, KidTypeOK
  <1>4. LoopTypeOK
    BY DEF Init, ServerInit, LoopTypeOK
  <1>5. ClientTypeOK
    BY DEF Init, ClientInit, ClientTypeOK, Phases
  <1>6. SetWhenUsed
    BY DEF Init, ServerInit, ClientInit, SetWhenUsed
  <1> QED
    BY <1>1, <1>2, <1>3, <1>4, <1>5, <1>6 DEF TypeInv, TypeOK

\* Taking a message keeps the record of taken messages well typed.
LEMMA DeliverType ==
  ASSUME WireTypeOK, NEW m \in net, Deliver(m)
  PROVE  delivered' \subseteq Message
  BY DEF WireTypeOK, Deliver

\* A decryption leaves a natural number in the receive counter.
LEMMA DecryptType ==
  ASSUME NEW key, NEW rx \in Nat, NEW m, m.iv \in Nat,
         NEW d \in ead_decrypt_message(key, rx, m)
  PROVE  /\ d.rx \in Nat
         /\ d.rx >= rx
         /\ d.ok => m.key = key /\ m.iv > rx /\ d.rx = m.iv
  BY CryptAssumption DEF ead_decrypt_message, ead_check_rx_iv

\* The next IV is a larger natural number.
LEMMA TxIvType ==
  ASSUME NEW tx \in Nat, NEW iv \in ead_get_tx_iv(tx)
  PROVE  iv \in Nat /\ iv > tx
  BY CryptAssumption DEF ead_get_tx_iv

\* The handlers of the authentication preserve the type invariant.
LEMMA TypeAuthHandlers ==
  ASSUME TypeInv, NEW m \in net, UNCHANGED clientVars,
         \/ handle_ping(m)
         \/ handle_set_username(m)
         \/ handle_get_prime(m)
         \/ handle_send_a(m)
         \/ handle_send_auth(m)
  PROVE  TypeInv'
  <1> USE DEF TypeInv, TypeOK
  <1>m. m \in Message
    BY DEF WireTypeOK
  <1>c. ClientTypeOK'
    BY DEF ClientTypeOK, clientVars
  <1>k. KidTypeOK' /\ LoopTypeOK'
    BY DEF KidTypeOK, LoopTypeOK, kidVars, loopVars, histVars, handle_ping,
           handle_set_username, handle_get_prime, handle_send_a,
           handle_send_auth
  <1>d. delivered' \subseteq Message
    BY DeliverType DEF Receive, handle_ping, handle_set_username,
           handle_get_prime, handle_send_a, handle_send_auth
  <1>1. CASE handle_ping(m)
    <2>1. net' \subseteq Message
      BY <1>1, <1>m, MessageKinds, ServerAssumption
         DEF handle_ping, Receive, Send, ReplyHeader, Header, WireTypeOK,
             Message, HeaderOnly
    <2>2. AuthTypeOK' /\ SetWhenUsed'
      BY <1>1 DEF handle_ping, AuthTypeOK, SetWhenUsed, authVars, cryptVars,
                  loopVars, clientVars
    <2> QED
      BY <1>c, <1>k, <1>d, <2>1, <2>2 DEF WireTypeOK
  <1>2. CASE handle_set_username(m)
    <2>1. m \in UserMsg
      BY <1>2, <1>m, MessageKinds DEF handle_set_username, Receive
    <2>2. net' \subseteq Message
      BY <1>2, <2>1, ServerAssumption
         DEF handle_set_username, Receive, Send, ReplyHeader, Header,
             WireTypeOK, Message, HeaderOnly, UserMsg
    <2>3. tpe' \in [user : Users \cup {NoUser}, hash : Hash \cup {NoHash}]
      BY <1>2, <2>1, ServerAssumption
         DEF handle_set_username, prepare_password, AuthTypeOK, Verifier,
             UserMsg
    <2>4. m.user \in DOMAIN PasswdFile => tpe' \in Verifier
      BY <1>2, <2>1, ServerAssumption
         DEF handle_set_username, prepare_password, Verifier, UserMsg
    <2>a. refused' \in BOOLEAN
      BY <1>2 DEF handle_set_username
    <2>b. /\ state' \in States /\ ts' \in Nat /\ nts' \in Nat /\ B' \in Nat
          /\ skey' \in Key \cup {NoKey}
          /\ ead_rx_iv' \in Nat /\ ead_tx_iv' \in Nat
          /\ SetWhenUsed'
      BY <1>2, <2>3, <2>4
         DEF handle_set_username, AuthTypeOK, SetWhenUsed, States, cryptVars,
             loopVars, clientVars, Verifier
    <2>5. AuthTypeOK' /\ SetWhenUsed'
      BY <2>3, <2>a, <2>b DEF AuthTypeOK
    <2> QED
      BY <1>c, <1>k, <1>d, <2>2, <2>5 DEF WireTypeOK
  <1>3. CASE handle_get_prime(m)
    <2>1. net' \subseteq Message
      BY <1>3, <1>m, MessageKinds, ServerAssumption
         DEF handle_get_prime, Receive, Send, WireTypeOK, SetWhenUsed,
             Verifier, Hash, Message, SaltMsg
    <2>2. AuthTypeOK' /\ SetWhenUsed'
      BY <1>3 DEF handle_get_prime, t_servergenexp, Receive, AuthTypeOK,
                  SetWhenUsed, States,
                  cryptVars, loopVars, clientVars
    <2> QED
      BY <1>c, <1>k, <1>d, <2>1, <2>2 DEF WireTypeOK
  <1>4. CASE handle_send_a(m)
    <2>1. m \in NumberAMsg
      BY <1>4, <1>m, MessageKinds DEF handle_send_a, Receive
    <2>2. net' \subseteq Message
      BY <1>4, <2>1, ServerAssumption
         DEF handle_send_a, Send, WireTypeOK, AuthTypeOK, Message,
             NumberAMsg, NumberBMsg
    <2>3. t_servergetkey(m.a) \in Key
      BY <1>4, <2>1 DEF handle_send_a, Receive, t_servergetkey, SetWhenUsed,
             AuthTypeOK, Verifier, NumberAMsg, Key
    <2>a. refused' \in BOOLEAN
      BY <1>4 DEF handle_send_a, AuthTypeOK
    <2>b. /\ state' \in States /\ ts' \in Nat /\ nts' \in Nat /\ B' \in Nat
          /\ tpe' = tpe
          /\ skey' \in Key \cup {NoKey}
          /\ ead_rx_iv' \in Nat /\ ead_tx_iv' \in Nat
          /\ SetWhenUsed'
      BY <1>4, <2>3
         DEF handle_send_a, Receive, AuthTypeOK, SetWhenUsed, States, IvBase,
             loopVars, clientVars
    <2>4. AuthTypeOK' /\ SetWhenUsed'
      BY <2>a, <2>b DEF AuthTypeOK
    <2> QED
      BY <1>c, <1>k, <1>d, <2>2, <2>4 DEF WireTypeOK
  <1>5. CASE handle_send_auth(m)
    <2>1. m \in AuthMsg
      BY <1>5, <1>m, MessageKinds DEF handle_send_auth, Receive
    <2>2. net' \subseteq Message
      BY <1>5, <2>1, ServerAssumption
         DEF handle_send_auth, t_serververify, Send, WireTypeOK, Message,
             AuthMsg
    <2>3. AuthTypeOK' /\ SetWhenUsed'
      BY <1>5
         DEF handle_send_auth, Receive, AuthTypeOK, SetWhenUsed, States,
             cryptVars, loopVars, clientVars
    <2> QED
      BY <1>c, <1>k, <1>d, <2>2, <2>3 DEF WireTypeOK
  <1> QED
    BY <1>1, <1>2, <1>3, <1>4, <1>5

\* So do the ways handle_send_cmd can begin.
LEMMA TypeCmdHandlers ==
  ASSUME TypeInv, NEW m \in net, UNCHANGED clientVars,
         \/ send_cmd_refused(m)
         \/ send_cmd_normal(m)
         \/ send_cmd_normal_failed(m)
         \/ send_cmd_background(m)
         \/ send_cmd_ignored(m)
  PROVE  TypeInv'
  <1> USE DEF TypeInv, TypeOK
  <1>r. Receive(m, EAD_TYPE_SEND_CMD)
    BY DEF send_cmd_refused, send_cmd_normal, send_cmd_normal_failed,
           send_cmd_background, send_cmd_ignored, Decrypted
  <1>m. m \in CmdMsg
    BY <1>r, MessageKinds DEF WireTypeOK, Receive
  <1>d. delivered' \subseteq Message
    BY <1>r, DeliverType DEF Receive
  <1>c. ClientTypeOK'
    BY DEF ClientTypeOK, clientVars
  <1>x. ead_rx_iv' \in Nat
    <2>1. PICK d \in ead_decrypt_message(skey, ead_rx_iv, m) : ead_rx_iv' = d.rx
      BY DEF send_cmd_refused, send_cmd_normal, send_cmd_normal_failed,
             send_cmd_background, send_cmd_ignored, Decrypted
    <2>2. ead_rx_iv \in Nat /\ m.iv \in Nat
      BY <1>m DEF AuthTypeOK, CmdMsg
    <2> QED
      BY <2>1, <2>2, DecryptType
  <1>a. AuthTypeOK'
    <2>1. /\ UNCHANGED authVars
          /\ skey' = skey
          /\ ead_tx_iv' \in Nat
      BY TxIvType
         DEF send_cmd_refused, send_cmd_normal, send_cmd_normal_failed,
             send_cmd_background, send_cmd_ignored, AuthTypeOK
    <2> QED
      BY <2>1, <1>x DEF AuthTypeOK, authVars
  <1>1. CASE send_cmd_normal(m)
    <2>1. skey \in Key
      BY <1>1, <1>m, DecryptType
         DEF send_cmd_normal, Decrypted, AuthTypeOK, CmdMsg
    <2>2. KidTypeOK'
      BY <1>1 DEF send_cmd_normal, StartChild, fork, KidTypeOK
    <2>3. LoopTypeOK'
      BY <1>1, <1>m DEF send_cmd_normal, LoopTypeOK, KidTypeOK, CmdMsg
    <2>4. SetWhenUsed'
      BY <1>1, <1>m, <2>1
         DEF send_cmd_normal, SetWhenUsed, authVars, clientVars
    <2> QED
      BY <1>1, <1>a, <1>c, <1>d, <2>2, <2>3, <2>4
         DEF send_cmd_normal, WireTypeOK
  <1>2. CASE send_cmd_background(m)
    <2>1. skey \in Key
      BY <1>2, <1>m, DecryptType
         DEF send_cmd_background, Decrypted, AuthTypeOK, CmdMsg
    <2>2. KidTypeOK'
      BY <1>2 DEF send_cmd_background, fork, KidTypeOK
    <2>3. LoopTypeOK'
      BY <1>2, <1>m DEF send_cmd_background, LoopTypeOK, loopVars, CmdMsg
    <2>4. SetWhenUsed'
      BY <1>2 DEF send_cmd_background, SetWhenUsed, authVars, loopVars,
                  clientVars
    <2>5. net' \subseteq Message
      <3>1. PICK iv \in ead_get_tx_iv(ead_tx_iv) :
              Send([type |-> EAD_TYPE_RESULT_CMD, cl |-> m.cl, nid |-> Nid,
                    sid |-> m.sid, key |-> skey, iv |-> iv, from |-> 0,
                    len |-> 0, done |-> TRUE, job |-> npid + 1])
        BY <1>2 DEF send_cmd_background
      <3>2. iv \in Nat
        BY TxIvType DEF AuthTypeOK
      <3>3. [type |-> EAD_TYPE_RESULT_CMD, cl |-> m.cl, nid |-> Nid,
             sid |-> m.sid, key |-> skey, iv |-> iv, from |-> 0,
             len |-> 0, done |-> TRUE, job |-> npid + 1] \in ResultMsg
        BY <1>m, <2>1, <3>2, ServerAssumption
           DEF KidTypeOK, CmdMsg, ResultMsg
      <3> QED
        BY <3>1, <3>3 DEF Send, WireTypeOK, Message
    <2> QED
      BY <1>a, <1>c, <1>d, <2>2, <2>3, <2>4, <2>5 DEF WireTypeOK
  <1>3. CASE \/ send_cmd_refused(m)
             \/ send_cmd_normal_failed(m)
             \/ send_cmd_ignored(m)
    <2>1. KidTypeOK'
      BY <1>3 DEF send_cmd_refused, send_cmd_normal_failed, send_cmd_ignored,
                  KidTypeOK, kidVars
    <2>2. LoopTypeOK'
      BY <1>3 DEF send_cmd_refused, send_cmd_normal_failed, send_cmd_ignored,
                  LoopTypeOK, loopVars, histVars
    <2>3. SetWhenUsed'
      BY <1>3 DEF send_cmd_refused, send_cmd_normal_failed, send_cmd_ignored,
                  SetWhenUsed, authVars, loopVars, clientVars
    <2>4. net' = net
      BY <1>3 DEF send_cmd_refused, send_cmd_normal_failed, send_cmd_ignored
    <2> QED
      BY <1>a, <1>c, <1>d, <2>1, <2>2, <2>3, <2>4 DEF WireTypeOK
  <1> QED
    BY <1>1, <1>2, <1>3

\* So does the streaming loop.
LEMMA TypeLoop ==
  ASSUME TypeInv, UNCHANGED clientVars, ServerLoop
  PROVE  TypeInv'
  <1> USE DEF TypeInv, TypeOK
  <1>c. ClientTypeOK'
    BY DEF ClientTypeOK, clientVars
  <1>b. pc # "idle"
    BY DEF ServerLoop, cmd_select, cmd_break, cmd_send, cmd_expired, cmd_kill,
           cmd_done
  <1>k. pkt \in CmdMsg /\ skey \in Key
    BY <1>b DEF SetWhenUsed
  <1>r. \A iv \in ead_get_tx_iv(ead_tx_iv), n \in Nat, done \in BOOLEAN :
          Result(iv, n, done) \in ResultMsg
    BY <1>k, TxIvType, ServerAssumption
       DEF Result, ResultMsg, CmdMsg, AuthTypeOK, LoopTypeOK
  <1>1. CASE cmd_select
    <2>1. LoopTypeOK'
      BY <1>1 DEF cmd_select, LoopTypeOK, histVars
    <2>2. WireTypeOK' /\ AuthTypeOK' /\ SetWhenUsed'
      BY <1>1, <1>k
         DEF cmd_select, WireTypeOK, AuthTypeOK, SetWhenUsed, wireVars,
             authVars, cryptVars, clientVars
    <2>3. KidTypeOK'
      BY <1>1 DEF cmd_select, KidTypeOK, kidVars
    <2> QED
      BY <1>c, <2>1, <2>2, <2>3
  <1>2. CASE cmd_break \/ cmd_expired
    <2>1. LoopTypeOK'
      BY <1>2 DEF cmd_break, cmd_expired, LoopTypeOK, histVars
    <2>2. WireTypeOK' /\ AuthTypeOK' /\ SetWhenUsed'
      BY <1>2, <1>k
         DEF cmd_break, cmd_expired, WireTypeOK, AuthTypeOK, SetWhenUsed,
             wireVars, authVars, cryptVars, clientVars
    <2>3. KidTypeOK'
      BY <1>2 DEF cmd_break, cmd_expired, KidTypeOK, kidVars
    <2> QED
      BY <1>c, <2>1, <2>2, <2>3
  <1>3. CASE cmd_send
    <2>1. net' \subseteq Message
      <3>1. PICK iv \in ead_get_tx_iv(ead_tx_iv) : Send(Result(iv, bytes, FALSE))
        BY <1>3 DEF cmd_send, ead_encrypt_message
      <3>2. Result(iv, bytes, FALSE) \in ResultMsg
        BY <1>r DEF LoopTypeOK
      <3> QED
        BY <3>1, <3>2 DEF Send, WireTypeOK, Message
    <2>2. LoopTypeOK'
      BY <1>3 DEF cmd_send, LoopTypeOK, histVars
    <2>3. AuthTypeOK' /\ SetWhenUsed'
      BY <1>3, <1>k, TxIvType
         DEF cmd_send, ead_encrypt_message, AuthTypeOK, SetWhenUsed,
             authVars, clientVars
    <2>4. KidTypeOK'
      BY <1>3 DEF cmd_send, KidTypeOK, kidVars
    <2> QED
      BY <1>3, <1>c, <2>1, <2>2, <2>3, <2>4 DEF cmd_send, WireTypeOK
  <1>4. CASE cmd_kill
    <2>1. LoopTypeOK'
      BY <1>4 DEF cmd_kill, LeaveHandler, LoopTypeOK, histVars
    <2>2. WireTypeOK' /\ AuthTypeOK' /\ SetWhenUsed'
      BY <1>4 DEF cmd_kill, LeaveHandler, WireTypeOK, AuthTypeOK, SetWhenUsed,
                  wireVars, authVars, cryptVars, clientVars
    <2>3. KidTypeOK'
      BY <1>4 DEF cmd_kill, LeaveHandler, Dies, KidTypeOK, LoopTypeOK
    <2> QED
      BY <1>c, <2>1, <2>2, <2>3
  <1>5. CASE cmd_done
    <2>1. net' \subseteq Message
      <3>1. PICK iv \in ead_get_tx_iv(ead_tx_iv) : Send(Result(iv, 0, TRUE))
        BY <1>5 DEF cmd_done, ead_encrypt_message
      <3>2. Result(iv, 0, TRUE) \in ResultMsg
        BY <1>r DEF LoopTypeOK
      <3> QED
        BY <3>1, <3>2 DEF Send, WireTypeOK, Message
    <2>2. LoopTypeOK'
      BY <1>5 DEF cmd_done, LeaveHandler, LoopTypeOK, histVars
    <2>3. AuthTypeOK' /\ SetWhenUsed'
      BY <1>5, TxIvType
         DEF cmd_done, ead_encrypt_message, LeaveHandler, AuthTypeOK,
             SetWhenUsed, authVars,
             clientVars
    <2>4. KidTypeOK'
      BY <1>5 DEF cmd_done, LeaveHandler, KidTypeOK, LoopTypeOK
    <2> QED
      BY <1>5, <1>c, <2>1, <2>2, <2>3, <2>4 DEF cmd_done, WireTypeOK
  <1> QED
    BY <1>1, <1>2, <1>3, <1>4, <1>5 DEF ServerLoop

\* So do the children, the signal handler and the restart.
LEMMA TypeKids ==
  ASSUME TypeInv, UNCHANGED clientVars,
         Kids \/ instance_handle_sigchld \/ restart_server
  PROVE  TypeInv'
  <1> USE DEF TypeInv, TypeOK
  <1>c. ClientTypeOK'
    BY DEF ClientTypeOK, clientVars
  <1>1. CASE restart_server
    <2>1. WireTypeOK' /\ SetWhenUsed'
      BY <1>1 DEF restart_server, WireTypeOK, wireVars, SetWhenUsed, clientVars
    <2>2. AuthTypeOK'
      BY <1>1 DEF restart_server, AuthTypeOK, States, NoVerifier
    <2>3. KidTypeOK'
      BY <1>1 DEF restart_server, KidTypeOK
    <2>4. LoopTypeOK'
      BY <1>1 DEF restart_server, LoopTypeOK
    <2> QED
      BY <1>c, <2>1, <2>2, <2>3, <2>4
  <1>2. CASE ChildWrite
    <2>1. WireTypeOK' /\ AuthTypeOK' /\ SetWhenUsed'
      BY <1>2 DEF ChildWrite, WireTypeOK, AuthTypeOK, SetWhenUsed, wireVars,
                  authVars, cryptVars, clientVars
    <2>2. KidTypeOK'
      BY <1>2 DEF ChildWrite, KidTypeOK, kidVars
    <2>3. LoopTypeOK'
      BY <1>2 DEF ChildWrite, LoopTypeOK, histVars
    <2> QED
      BY <1>c, <2>1, <2>2, <2>3
  <1>3. CASE (\E p \in alive : ChildExit(p)) \/ instance_handle_sigchld
    <2>1. WireTypeOK' /\ AuthTypeOK' /\ SetWhenUsed'
      BY <1>3 DEF ChildExit, instance_handle_sigchld, WireTypeOK, AuthTypeOK,
                  SetWhenUsed, wireVars, authVars, cryptVars, loopVars,
                  clientVars
    <2>2. KidTypeOK'
      BY <1>3 DEF ChildExit, Dies, instance_handle_sigchld, Reap, KidTypeOK
    <2>3. LoopTypeOK'
      BY <1>3 DEF ChildExit, instance_handle_sigchld, LoopTypeOK, loopVars,
                  histVars
    <2> QED
      BY <1>c, <2>1, <2>2, <2>3
  <1> QED
    BY <1>1, <1>2, <1>3 DEF Kids

\* So do the clients.
LEMMA TypeClients ==
  ASSUME TypeInv, NEW c \in Clients, ClientStep(c), UNCHANGED serverVars
  PROVE  TypeInv'
  <1> USE DEF TypeInv, TypeOK
  <1>s. /\ AuthTypeOK' /\ KidTypeOK' /\ LoopTypeOK'
        /\ (pc # "idle" => pkt \in CmdMsg /\ skey \in Key)'
        /\ (state >= EAD_TYPE_GET_PRIME => tpe \in Verifier)'
    BY DEF serverVars, authVars, cryptVars, kidVars, loopVars, histVars,
           AuthTypeOK, KidTypeOK, LoopTypeOK, SetWhenUsed
  <1>1. CASE send_ping(c)
    <2>1. net' \subseteq Message
      BY <1>1, ClientAssumption, WireAssumption
         DEF send_ping, Send, Header, WireTypeOK, Message, HeaderOnly
    <2> QED
      BY <1>1, <1>s, <2>1
         DEF send_ping, WireTypeOK, ClientTypeOK, Phases, SetWhenUsed, LogsIn
  <1>2. CASE send_packet_timeout(c)
    BY <1>2, <1>s
       DEF send_packet_timeout, wireVars, WireTypeOK, ClientTypeOK, Phases,
           SetWhenUsed, LogsIn
  <1>3. CASE ClientReceive(c)
    <2>1. PICK m \in net : \/ handle_pong_listing(c, m)
                           \/ handle_pong(c, m)
                           \/ handle_ack(c, m)
                           \/ handle_prime(c, m)
                           \/ handle_b(c, m)
                           \/ handle_b_failed(c, m)
                           \/ handle_done_auth_only(c, m)
                           \/ handle_done_auth(c, m)
                           \/ handle_cmd_data(c, m)
      BY <1>3 DEF ClientReceive
    <2>m. m \in Message
      BY DEF WireTypeOK
    <2>d. delivered' \subseteq Message
      BY <2>1, DeliverType
         DEF Response, handle_pong_listing, handle_pong, handle_ack,
             handle_prime, handle_b, handle_b_failed, handle_done_auth_only,
             handle_done_auth, handle_cmd_data
    <2>2. CASE \/ handle_pong_listing(c, m)
               \/ handle_b_failed(c, m)
               \/ handle_done_auth_only(c, m)
      BY <2>2, <1>s, <2>d
         DEF handle_pong_listing, handle_b_failed, handle_done_auth_only,
             WireTypeOK, ClientTypeOK, Phases, SetWhenUsed, LogsIn
    <2>3. CASE handle_pong(c, m)
      <3>1. m.nid \in Nids /\ m.sid \in Sids
        BY <2>3, <2>m, MessageKinds, ClientAssumption
           DEF handle_pong, Response
      <3>2. [type |-> EAD_TYPE_SET_USERNAME, cl |-> c, nid |-> m.nid,
             sid |-> m.sid, user |-> Args[c].username] \in UserMsg
        BY <2>3, <3>1, ClientAssumption DEF handle_pong, UserMsg
      <3>3. WireTypeOK'
        BY <2>3, <3>2, <2>d DEF handle_pong, Send, WireTypeOK, Message
      <3> QED
        BY <2>3, <1>s, <3>3
           DEF handle_pong, ClientTypeOK, Phases, SetWhenUsed, LogsIn
    <2>4. CASE handle_ack(c, m)
      <3>1. NextHeader(EAD_TYPE_GET_PRIME, m) \in HeaderOnly
        BY <2>4, <2>m, MessageKinds
           DEF handle_ack, Response, NextHeader, Header, HeaderOnly
      <3>2. WireTypeOK'
        BY <2>4, <3>1, <2>d DEF handle_ack, Send, WireTypeOK, Message
      <3> QED
        BY <2>4, <1>s, <3>2
           DEF handle_ack, ClientTypeOK, Phases, SetWhenUsed, LogsIn
    <2>5. CASE handle_prime(c, m)
      <3>1. m \in SaltMsg
        BY <2>5, <2>m, MessageKinds DEF handle_prime, Response
      <3>2. [type |-> EAD_TYPE_SEND_A, cl |-> c, nid |-> m.nid,
             sid |-> m.sid, a |-> c] \in NumberAMsg
        BY <3>1 DEF SaltMsg, NumberAMsg
      <3>3. WireTypeOK'
        BY <2>5, <3>2, <2>d
           DEF handle_prime, t_clientgenexp, Send, WireTypeOK, Message
      <3>4. m.ext_salt \in Salts
        BY <3>1 DEF SaltMsg
      <3> QED
        BY <2>5, <1>s, <3>3, <3>4
           DEF handle_prime, ClientTypeOK, Phases, SetWhenUsed, LogsIn
    <2>6. CASE handle_b(c, m)
      <3>1. m \in NumberBMsg
        BY <2>6, <2>m, MessageKinds DEF handle_b, Response
      <3>2. t_clientgetkey(c, m.b) \in Key
        BY <2>6, <3>1, ClientAssumption
           DEF handle_b, t_clientgetkey, t_clientgenexp, md5_crypt, Key,
               Hash, NumberBMsg,
               SetWhenUsed, LogsIn
      <3>3. [type |-> EAD_TYPE_SEND_AUTH, cl |-> c, nid |-> m.nid,
             sid |-> m.sid, proof |-> t_clientgetkey(c, m.b)] \in AuthMsg
        BY <3>1, <3>2 DEF NumberBMsg, AuthMsg
      <3>4. WireTypeOK'
        BY <2>6, <3>3, <2>d DEF handle_b, Send, WireTypeOK, Message
      <3> QED
        BY <2>6, <1>s, <3>2, <3>4
           DEF handle_b, ClientTypeOK, Phases, SetWhenUsed, LogsIn
    <2>7. CASE handle_done_auth(c, m)
      <3>1. m \in AuthMsg
        BY <2>7, <2>m, MessageKinds DEF handle_done_auth, Response
      <3>2. PICK iv \in ead_get_tx_iv(IvBase) :
              Send([type |-> EAD_TYPE_SEND_CMD, cl |-> c, nid |-> m.nid,
                    sid |-> m.sid, key |-> c_key[c], iv |-> iv,
                    cmdtype |-> Args[c].cmdtype])
        BY <2>7 DEF handle_done_auth
      <3>3. iv \in Nat
        BY TxIvType
      <3>4. c_key[c] \in Key
        BY <2>7 DEF handle_done_auth, SetWhenUsed
      <3>5. [type |-> EAD_TYPE_SEND_CMD, cl |-> c, nid |-> m.nid,
             sid |-> m.sid, key |-> c_key[c], iv |-> iv,
             cmdtype |-> Args[c].cmdtype] \in CmdMsg
        BY <3>1, <3>3, <3>4, ClientAssumption DEF AuthMsg, CmdMsg
      <3>6. WireTypeOK'
        BY <3>2, <3>5, <2>d DEF Send, WireTypeOK, Message
      <3> QED
        BY <2>7, <1>s, <3>6
           DEF handle_done_auth, ClientTypeOK, Phases, SetWhenUsed, LogsIn
    <2>8. CASE handle_cmd_data(c, m)
      <3>1. m \in ResultMsg
        BY <2>8, <2>m, MessageKinds DEF handle_cmd_data, Response
      <3>2. PICK d \in ead_decrypt_message(c_key[c], c_rx_iv[c], m) :
              /\ c_rx_iv' = [c_rx_iv EXCEPT ![c] = d.rx]
              /\ IF d.ok
                 THEN /\ console' = [console EXCEPT ![c] = @ \o Chunks(m)]
                      /\ phase' = [phase EXCEPT ![c] =
                                     IF m.done THEN "ok" ELSE @]
                 ELSE UNCHANGED <<console, phase>>
        BY <2>8 DEF handle_cmd_data
      <3>3. d.rx \in Nat
        BY <3>1, DecryptType DEF ClientTypeOK, ResultMsg
      <3>4. Chunks(m) \in Seq(Nat)
        BY <3>1 DEF Chunks, ResultMsg
      <3>5. console[c] \o Chunks(m) \in Seq(Nat)
        BY <3>4 DEF ClientTypeOK
      <3>6. console' \in [Clients -> Seq(Nat)]
        BY <3>2, <3>5 DEF ClientTypeOK
      <3>7. /\ phase' \in [Clients -> Phases]
            /\ phase'[c] \in {phase[c], "ok"}
            /\ \A x \in Clients : x # c => phase'[x] = phase[x]
        BY <3>2 DEF ClientTypeOK, Phases
      <3>8. c_rx_iv' \in [Clients -> Nat] /\ UNCHANGED <<net, c_salt, c_key>>
        BY <2>8, <3>2, <3>3 DEF handle_cmd_data, ClientTypeOK
      <3>9. WireTypeOK' /\ ClientTypeOK'
        BY <2>d, <3>6, <3>7, <3>8 DEF WireTypeOK, ClientTypeOK
      <3> QED
        BY <1>s, <3>7, <3>8, <3>9 DEF SetWhenUsed, LogsIn
    <2> QED
      BY <2>1, <2>2, <2>3, <2>4, <2>5, <2>6, <2>7, <2>8
  <1> QED
    BY <1>1, <1>2, <1>3 DEF ClientStep

\* Every step of the system preserves the type invariant.
LEMMA TypeStep == TypeInv /\ [Next]_vars => TypeInv'
  <1> SUFFICES ASSUME TypeInv, [Next]_vars PROVE TypeInv'
    OBVIOUS
  <1>1. CASE UNCHANGED vars
    BY <1>1 DEF vars, wireVars, serverVars, authVars, cryptVars, kidVars,
                loopVars, histVars, clientVars, TypeInv, TypeOK, WireTypeOK,
                AuthTypeOK, KidTypeOK, LoopTypeOK, ClientTypeOK, SetWhenUsed
  <1>2. CASE ServerStep /\ UNCHANGED clientVars
    BY <1>2, TypeAuthHandlers, TypeCmdHandlers, TypeLoop, TypeKids
       DEF ServerStep, ServerHandler
  <1>3. CASE \E c \in Clients : ClientStep(c) /\ UNCHANGED serverVars
    BY <1>3, TypeClients
  <1> QED
    BY <1>1, <1>2, <1>3 DEF Next

\* Every variable of the daemon (ead.c), the clients (ead-client.c) and the
\* network keeps its type, and a value is set before the code uses it.
THEOREM TypeCorrect == Spec => []TypeOK
  <1>1. Init => TypeInv
    BY TypeInit
  <1>2. TypeInv /\ [Next]_vars => TypeInv'
    BY TypeStep
  <1>3. TypeInv => TypeOK
    BY DEF TypeInv
  <1> QED
    BY <1>1, <1>2, <1>3, PTL DEF Spec

-----------------------------------------------------------------------------
(***************************************************************************)
(* The inductive invariant.                                                *)
(***************************************************************************)

\* Session number b is not that of a session still without a key.
Spent(b) == state \in {EAD_TYPE_GET_PRIME, EAD_TYPE_SEND_A} => b < ts

\* The session, its user and the key.
SessionInv ==
  /\ SessionPointers
  /\ ts <= nts
  /\ state >= EAD_TYPE_GET_PRIME => /\ tpe.user \in DOMAIN PasswdFile
                                    /\ tpe.hash = PasswdFile[tpe.user]
  /\ skey # NoKey => /\ skey.b <= nts
                     /\ skey.user \in DOMAIN PasswdFile
                     /\ skey.hash = PasswdFile[skey.user]

\* A command streams only in its own authenticated session.
BusyInv ==
  pc # "idle" => /\ state = EAD_TYPE_SEND_CMD
                 /\ pkt.key = skey
                 /\ runs[pkt.cl] > 0

\* A client holds a key only after it has received B, made from its own
\* arguments and a session number already given out.
KeyInv ==
  \A c \in Clients :
    /\ phase[c] \in {"new", "pong", "listed", "ack", "prime", "b"}
         => c_key[c] = NoKey
    /\ c_key[c] # NoKey => /\ c_key[c].b <= nts
                           /\ c_key[c].user = Args[c].username
                           /\ c_key[c].hash.pw = Args[c].password
    /\ phase[c] = "listed" => Args[c].nid = Broadcast

\* The messages that carry session numbers, proofs and commands.
RequestInv ==
  \A m \in net :
    /\ m.type = EAD_TYPE_SEND_B => m.b <= nts
    /\ m.type = EAD_TYPE_SEND_AUTH => m.proof = c_key[m.cl]
    /\ m.type = EAD_TYPE_DONE_AUTH => /\ m.proof = c_key[m.cl]
                                      /\ Authorised(m.cl)
    /\ m.type = EAD_TYPE_SEND_CMD =>
         /\ m.key = c_key[m.cl]
         /\ m.iv > IvBase
         /\ phase[m.cl] \in {"result", "ok", "failed"}
         /\ Args[m.cl].command
         /\ m.cl \in Confirmed

\* A client's command is one message.
OneCommand ==
  \A m1, m2 \in net :
    /\ m1.type = EAD_TYPE_SEND_CMD
    /\ m2.type = EAD_TYPE_SEND_CMD
    /\ m1.cl = m2.cl
    => m1 = m2

\* A command that was run is behind the receive counter of its key, and its
\* key cannot come back.
RunInv ==
  \A c \in Clients : runs[c] > 0 =>
    /\ runs[c] = 1
    /\ Authorised(c)
    /\ c_key[c] # NoKey
    /\ Spent(c_key[c].b)
    /\ \E m \in net : /\ m.type = EAD_TYPE_SEND_CMD
                      /\ m.cl = c
                      /\ c_key[c] = skey => m.iv <= ead_rx_iv

\* Results are sent after the run, and the transmit counter of their key is
\* past them.
ResultInv ==
  \A m \in net : m.type = EAD_TYPE_RESULT_CMD =>
    /\ runs[m.cl] > 0
    /\ m.key.b <= nts
    /\ Spent(m.key.b)
    /\ m.key = skey => m.iv <= ead_tx_iv

SafetyInv ==
  /\ SessionInv
  /\ BusyInv
  /\ KeyInv
  /\ RequestInv
  /\ OneCommand
  /\ RunInv
  /\ ResultInv
  /\ IvNeverReused
  /\ SuccessMeansRan

-----------------------------------------------------------------------------
(***************************************************************************)
(* The invariant holds at the start and is preserved.                      *)
(***************************************************************************)

\* Nothing has been sent, opened or run at the start.
LEMMA SafetyInit == Init => SafetyInv
  <1> SUFFICES ASSUME Init PROVE SafetyInv
    OBVIOUS
  <1> USE DEF Init, ServerInit, ClientInit
  <1>1. SessionInv
    BY DEF SessionInv, SessionPointers
  <1>2. BusyInv /\ KeyInv /\ SuccessMeansRan
    BY DEF BusyInv, KeyInv, SuccessMeansRan
  <1>3. RequestInv /\ OneCommand /\ ResultInv /\ IvNeverReused
    BY DEF RequestInv, OneCommand, ResultInv, IvNeverReused
  <1>4. RunInv
    BY DEF RunInv
  <1> QED
    BY <1>1, <1>2, <1>3, <1>4 DEF SafetyInv

\* Steps that send nothing and touch neither session, keys, runs nor phases:
\* the receive counter may only grow.
LEMMA QuietStep ==
  ASSUME TypeInv, TypeInv', SafetyInv,
         UNCHANGED <<net, authVars, skey, ead_tx_iv, runs, phase, c_key>>,
         ead_rx_iv' >= ead_rx_iv,
         pc' # "idle" => pc # "idle" /\ pkt' = pkt
  PROVE  SafetyInv'
  <1> USE DEF SafetyInv, authVars
  <1>1. SessionInv'
    BY DEF SessionInv, SessionPointers
  <1>2. BusyInv'
    BY DEF BusyInv
  <1>3. KeyInv' /\ SuccessMeansRan'
    BY DEF KeyInv, SuccessMeansRan
  <1>4. RequestInv' /\ OneCommand'
    BY DEF RequestInv, OneCommand, Confirmed
  <1>5. RunInv'
    <2> SUFFICES ASSUME NEW c \in Clients, runs[c] > 0
                 PROVE  /\ runs[c] = 1
                        /\ Authorised(c)
                        /\ c_key[c] # NoKey
                        /\ Spent(c_key[c].b)
                        /\ \E m \in net : /\ m.type = EAD_TYPE_SEND_CMD
                                          /\ m.cl = c
                                          /\ c_key[c] = skey => m.iv <= ead_rx_iv'
      BY DEF RunInv, Spent
    <2>1. PICK m \in net : /\ m.type = EAD_TYPE_SEND_CMD
                           /\ m.cl = c
                           /\ c_key[c] = skey => m.iv <= ead_rx_iv
      BY DEF RunInv
    <2>2. m.iv \in Nat
      BY <2>1, MessageKinds DEF TypeInv, TypeOK, WireTypeOK, CmdMsg
    <2>3. c_key[c] = skey => m.iv <= ead_rx_iv'
      BY <2>1, <2>2 DEF TypeInv, TypeOK, AuthTypeOK
    <2> QED
      BY <2>1, <2>3 DEF RunInv
  <1>6. ResultInv' /\ IvNeverReused'
    BY DEF ResultInv, IvNeverReused, Spent
  <1> QED
    BY <1>1, <1>2, <1>3, <1>4, <1>5, <1>6

\* Steps that only send a message of a kind the invariant does not speak of.
LEMMA PlainSend ==
  ASSUME TypeInv, SafetyInv, NEW n,
         n.type \in {EAD_TYPE_PING, EAD_TYPE_PONG, EAD_TYPE_SET_USERNAME,
                     EAD_TYPE_ACK_USERNAME, EAD_TYPE_GET_PRIME,
                     EAD_TYPE_PRIME, EAD_TYPE_SEND_A},
         net' = net \cup {n},
         UNCHANGED <<skey, ead_rx_iv, ead_tx_iv, runs, c_key>>,
         nts' \in Nat, nts' >= nts,
         \A c \in Clients : phase[c] \in {"result", "ok", "failed"}
                              => phase'[c] = phase[c],
         state' \in {EAD_TYPE_GET_PRIME, EAD_TYPE_SEND_A} =>
           \A b \in Nat : b <= nts /\ Spent(b) => b < ts'
  PROVE  RequestInv' /\ OneCommand' /\ RunInv' /\ ResultInv' /\ IvNeverReused'
  <1> USE DEF SafetyInv
  <1>n. nts \in Nat
    BY DEF TypeInv, TypeOK, AuthTypeOK
  <1>1. RequestInv'
    <2>1. \A m \in net : m.type = EAD_TYPE_SEND_B => m.b \in Nat
      BY MessageKinds DEF TypeInv, TypeOK, WireTypeOK, NumberBMsg
    <2>2. \A m \in net : m.type = EAD_TYPE_SEND_CMD => m.cl \in Clients
      BY MessageKinds DEF TypeInv, TypeOK, WireTypeOK
    <2> QED
      BY <1>n, <2>1, <2>2 DEF RequestInv, Confirmed
  <1>2. OneCommand'
    BY DEF OneCommand
  <1>3. RunInv'
    <2> SUFFICES ASSUME NEW c \in Clients, runs[c] > 0
                 PROVE  /\ runs[c] = 1
                        /\ Authorised(c)
                        /\ c_key[c] # NoKey
                        /\ state' \in {EAD_TYPE_GET_PRIME, EAD_TYPE_SEND_A}
                             => c_key[c].b < ts'
                        /\ \E m \in net : /\ m.type = EAD_TYPE_SEND_CMD
                                          /\ m.cl = c
                                          /\ c_key[c] = skey => m.iv <= ead_rx_iv
      BY DEF RunInv, Spent
    <2>1. c_key[c].b \in Nat /\ c_key[c].b <= nts
      BY DEF RunInv, KeyInv, TypeInv, TypeOK, ClientTypeOK, Key
    <2> QED
      BY <2>1 DEF RunInv
  <1>4. ResultInv'
    <2> SUFFICES ASSUME NEW m \in net, m.type = EAD_TYPE_RESULT_CMD
                 PROVE  /\ runs[m.cl] > 0
                        /\ m.key.b <= nts'
                        /\ state' \in {EAD_TYPE_GET_PRIME, EAD_TYPE_SEND_A}
                             => m.key.b < ts'
                        /\ m.key = skey => m.iv <= ead_tx_iv
      BY DEF ResultInv, Spent
    <2>1. m.key.b \in Nat
      BY MessageKinds DEF TypeInv, TypeOK, WireTypeOK, ResultMsg, Key
    <2> QED
      BY <1>n, <2>1 DEF ResultInv
  <1>5. IvNeverReused'
    BY DEF IvNeverReused
  <1> QED
    BY <1>1, <1>2, <1>3, <1>4, <1>5

\* Authentication: ping, user name and prime.
LEMMA SafetyLogin ==
  ASSUME TypeInv, TypeInv', SafetyInv, NEW m \in net, UNCHANGED clientVars,
         handle_ping(m) \/ handle_set_username(m) \/ handle_get_prime(m)
  PROVE  SafetyInv'
  <1> USE DEF SafetyInv
  <1>t. /\ nts \in Nat /\ nts' \in Nat /\ ts \in Nat /\ B \in Nat
        /\ state \in States /\ state' \in States
    BY DEF TypeInv, TypeOK, AuthTypeOK
  <1>k. /\ UNCHANGED <<cryptVars, loopVars, runs, phase, c_key>>
        /\ nts' >= nts
        /\ pc = "idle"
    BY <1>t DEF handle_ping, handle_set_username, handle_get_prime,
                t_servergenexp, Receive,
                authVars, histVars, clientVars
  <1>1. BusyInv'
    BY <1>k DEF BusyInv, loopVars
  <1>2. KeyInv' /\ SuccessMeansRan'
    <2>1. \A c \in Clients : c_key[c] # NoKey => c_key[c].b \in Nat
      BY DEF TypeInv, TypeOK, ClientTypeOK, Key
    <2> QED
      BY <1>t, <1>k, <2>1 DEF KeyInv, SuccessMeansRan
  <1>3. SessionInv'
    <2>1. skey # NoKey => skey.b \in Nat
      BY DEF TypeInv, TypeOK, AuthTypeOK, Key
    <2>2. CASE handle_ping(m)
      BY <2>2 DEF handle_ping, SessionInv, SessionPointers, authVars, cryptVars
    <2>3. CASE handle_set_username(m)
      BY <2>1, <2>3, <1>t
         DEF handle_set_username, prepare_password, SessionInv,
             SessionPointers, States, cryptVars
    <2>4. CASE handle_get_prime(m)
      BY <2>4, <1>t DEF handle_get_prime, t_servergenexp, Receive, SessionInv,
             SessionPointers, cryptVars
    <2> QED
      BY <2>2, <2>3, <2>4
  <1>4. RequestInv' /\ OneCommand' /\ RunInv' /\ ResultInv' /\ IvNeverReused'
    <2>1. state' \in {EAD_TYPE_GET_PRIME, EAD_TYPE_SEND_A} =>
            \A b \in Nat : b <= nts /\ Spent(b) => b < ts'
      BY <1>t DEF handle_ping, handle_set_username, handle_get_prime, Receive,
                  Spent, authVars
    <2>2. CASE handle_ping(m) \/ handle_set_username(m)
      <3>1. /\ net' = net \cup {ReplyHeader(m)}
            /\ ReplyHeader(m).type \in {EAD_TYPE_PONG, EAD_TYPE_ACK_USERNAME}
        BY <2>2 DEF handle_ping, handle_set_username, Receive, Send,
                    ReplyHeader, Header
      <3> QED
        BY <1>k, <1>t, <2>1, <3>1, PlainSend DEF cryptVars
    <2>3. CASE handle_get_prime(m)
      <3> DEFINE n == [type |-> EAD_TYPE_PRIME, cl |-> m.cl, nid |-> Nid,
                       sid |-> m.sid, ext_salt |-> tpe.hash.salt]
      <3>1. net' = net \cup {n} /\ n.type = EAD_TYPE_PRIME
        BY <2>3 DEF handle_get_prime, Send
      <3> HIDE DEF n
      <3> QED
        BY <1>k, <1>t, <2>1, <3>1, PlainSend DEF cryptVars
    <2> QED
      BY <2>2, <2>3
  <1> QED
    BY <1>1, <1>2, <1>3, <1>4

\* Authentication: A and the key.
LEMMA SafetySendA ==
  ASSUME TypeInv, TypeInv', SafetyInv, NEW m \in net, UNCHANGED clientVars,
         handle_send_a(m)
  PROVE  SafetyInv'
  <1> USE DEF SafetyInv
  <1>t. /\ nts \in Nat /\ ts \in Nat /\ B \in Nat
        /\ state = EAD_TYPE_SEND_A
        /\ pc = "idle"
        /\ UNCHANGED <<tpe, ts, nts, B, loopVars, runs, phase, c_key>>
    BY DEF TypeInv, TypeOK, AuthTypeOK, handle_send_a, Receive, histVars,
           clientVars
  <1>b. B = ts /\ ts <= nts
    BY <1>t DEF SessionInv, SessionPointers
  <1>s. \/ /\ skey' = t_servergetkey(m.a)
           /\ ead_rx_iv' = IvBase
           /\ ead_tx_iv' = IvBase
           /\ state' = EAD_TYPE_SEND_AUTH
        \/ UNCHANGED <<state, skey, ead_rx_iv, ead_tx_iv>>
    BY DEF handle_send_a
  <1> DEFINE n == [type |-> EAD_TYPE_SEND_B, cl |-> m.cl, nid |-> Nid,
                   sid |-> m.sid, b |-> B]
  <1>n. net' = net \cup {n} /\ n.type = EAD_TYPE_SEND_B /\ n.b = B
    BY DEF handle_send_a, Send
  <1> HIDE DEF n
  <1>1. BusyInv' /\ KeyInv' /\ SuccessMeansRan'
    BY <1>t DEF BusyInv, KeyInv, SuccessMeansRan, loopVars
  <1>2. SessionInv'
    <2>1. t_servergetkey(m.a).b = ts /\ t_servergetkey(m.a) \in Key
      <3>1. m \in NumberAMsg
        BY MessageKinds DEF handle_send_a, Receive, TypeInv, TypeOK, WireTypeOK
      <3> QED
        BY <1>t, <3>1 DEF t_servergetkey, TypeInv, SetWhenUsed, Verifier,
                          NumberAMsg, Key
    <2>2. t_servergetkey(m.a) # NoKey
      BY <2>1, WireAssumption DEF Key, Hash
    <2> QED
      BY <1>t, <1>b, <1>s, <2>1, <2>2
         DEF SessionInv, SessionPointers, t_servergetkey
  <1>3. RequestInv'
    BY <1>t, <1>b, <1>n DEF RequestInv, Confirmed
  <1>4. OneCommand' /\ IvNeverReused'
    BY <1>n DEF OneCommand, IvNeverReused
  <1>5. RunInv'
    <2> SUFFICES ASSUME NEW c \in Clients, runs[c] > 0
                 PROVE  /\ runs[c] = 1
                        /\ Authorised(c)
                        /\ c_key[c] # NoKey
                        /\ Spent(c_key[c].b)'
                        /\ \E x \in net' : /\ x.type = EAD_TYPE_SEND_CMD
                                           /\ x.cl = c
                                           /\ c_key[c] = skey' => x.iv <= ead_rx_iv'
      BY <1>t DEF RunInv
    <2>1. c_key[c].b < ts
      BY <1>t DEF RunInv, Spent
    <2>2. c_key[c] # t_servergetkey(m.a)
      BY <1>t, <2>1 DEF t_servergetkey
    <2> QED
      BY <1>t, <1>s, <1>n, <2>1, <2>2 DEF RunInv, Spent
  <1>6. ResultInv'
    <2> SUFFICES ASSUME NEW x \in net, x.type = EAD_TYPE_RESULT_CMD
                 PROVE  /\ runs[x.cl] > 0
                        /\ x.key.b <= nts
                        /\ Spent(x.key.b)'
                        /\ x.key = skey' => x.iv <= ead_tx_iv'
      BY <1>t, <1>n DEF ResultInv
    <2>1. x.key.b < ts
      BY <1>t DEF ResultInv, Spent
    <2>2. x.key # t_servergetkey(m.a)
      BY <1>t, <2>1 DEF t_servergetkey
    <2> QED
      BY <1>t, <1>s, <2>1, <2>2 DEF ResultInv, Spent
  <1> QED
    BY <1>1, <1>2, <1>3, <1>4, <1>5, <1>6

\* Authentication: the proofs.  The client's proof equals our key, so the
\* client's user and password are those of the password file.
LEMMA SafetySendAuth ==
  ASSUME TypeInv, TypeInv', SafetyInv, NEW m \in net, UNCHANGED clientVars,
         handle_send_auth(m)
  PROVE  SafetyInv'
  <1> USE DEF SafetyInv
  <1>t. /\ state = EAD_TYPE_SEND_AUTH
        /\ m.type = EAD_TYPE_SEND_AUTH
        /\ pc = "idle"
        /\ UNCHANGED <<tpe, nts, B, cryptVars, loopVars, runs, phase, c_key>>
        /\ m.cl \in Clients
    BY MessageKinds DEF handle_send_auth, Receive, histVars, clientVars,
           TypeInv, TypeOK, WireTypeOK
  <1>1. BusyInv' /\ KeyInv' /\ SuccessMeansRan'
    BY <1>t DEF BusyInv, KeyInv, SuccessMeansRan, loopVars
  <1>2. SessionInv'
    BY <1>t DEF handle_send_auth, SessionInv, SessionPointers, cryptVars,
                TypeInv, TypeOK, AuthTypeOK
  <1>s. state' \in {EAD_TYPE_SEND_CMD, EAD_TYPE_SET_USERNAME}
    BY DEF handle_send_auth
  <1>3. CASE ~t_serververify(m.proof)
    <2>1. net' = net
      BY <1>3 DEF handle_send_auth
    <2>2. RequestInv' /\ OneCommand' /\ IvNeverReused'
      BY <1>t, <2>1 DEF RequestInv, Confirmed, OneCommand, IvNeverReused
    <2>3. RunInv' /\ ResultInv'
      BY <1>t, <1>s, <2>1 DEF RunInv, ResultInv, Spent, cryptVars
    <2> QED
      BY <1>1, <1>2, <2>2, <2>3
  <1>4. CASE t_serververify(m.proof)
    <2> DEFINE n == [type |-> EAD_TYPE_DONE_AUTH, cl |-> m.cl, nid |-> Nid,
                     sid |-> m.sid, proof |-> skey]
    <2>1. /\ net' = net \cup {n}
          /\ n.type = EAD_TYPE_DONE_AUTH /\ n.cl = m.cl /\ n.proof = skey
      BY <1>4 DEF handle_send_auth, Send
    <2> HIDE DEF n
    <2>2. skey = c_key[m.cl] /\ skey # NoKey
      BY <1>4, <1>t DEF t_serververify, RequestInv, SessionInv, SessionPointers
    <2>3. Authorised(m.cl)
      BY <1>t, <2>2 DEF Authorised, SessionInv, KeyInv
    <2>4. RequestInv'
      BY <1>t, <2>1, <2>2, <2>3 DEF RequestInv, Confirmed
    <2>5. OneCommand' /\ IvNeverReused'
      BY <2>1 DEF OneCommand, IvNeverReused
    <2>6. RunInv'
      BY <1>t, <1>s, <2>1 DEF RunInv, Spent, cryptVars
    <2>7. ResultInv'
      BY <1>t, <1>s, <2>1 DEF ResultInv, Spent, cryptVars
    <2> QED
      BY <1>1, <1>2, <2>4, <2>5, <2>6, <2>7
  <1> QED
    BY <1>3, <1>4

\* What decryption under the session's key tells about an accepted command:
\* it is its client's one command, that client is authorised, and it has not
\* been run before.
LEMMA AcceptedCommand ==
  ASSUME TypeInv, SafetyInv, NEW m \in net, NEW t, Decrypted(m, t)
  PROVE  /\ m \in CmdMsg
         /\ m.type = EAD_TYPE_SEND_CMD
         /\ m.cl \in Clients
         /\ state = EAD_TYPE_SEND_CMD
         /\ pc = "idle"
         /\ m.key = skey /\ skey = c_key[m.cl] /\ skey \in Key /\ skey # NoKey
         /\ ead_rx_iv' = m.iv
         /\ m.iv > ead_rx_iv
         /\ m.iv \in Nat
         /\ Authorised(m.cl)
         /\ runs[m.cl] = 0
  <1> USE DEF SafetyInv
  <1>1. m.type = EAD_TYPE_SEND_CMD /\ state = EAD_TYPE_SEND_CMD /\ pc = "idle"
    BY DEF Decrypted, Receive
  <1>2. m \in CmdMsg
    BY <1>1, MessageKinds DEF TypeInv, TypeOK, WireTypeOK
  <1>3. PICK d \in ead_decrypt_message(skey, ead_rx_iv, m) :
          d.ok /\ ead_rx_iv' = d.rx
    BY DEF Decrypted
  <1>4. m.iv \in Nat /\ m.key \in Key /\ m.cl \in Clients
    BY <1>2 DEF CmdMsg
  <1>5. m.key = skey /\ m.iv > ead_rx_iv /\ ead_rx_iv' = m.iv
    BY <1>3, <1>4, DecryptType DEF TypeInv, TypeOK, AuthTypeOK
  <1>6. skey # NoKey
    BY <1>1 DEF SessionInv, SessionPointers
  <1>7. skey = c_key[m.cl]
    BY <1>1, <1>5 DEF RequestInv
  <1>8. Authorised(m.cl)
    BY <1>4, <1>6, <1>7 DEF Authorised, SessionInv, KeyInv
  <1>9. runs[m.cl] = 0
    <2> SUFFICES ASSUME runs[m.cl] > 0 PROVE FALSE
      BY <1>4 DEF TypeInv, TypeOK, LoopTypeOK
    <2>1. PICK x \in net : /\ x.type = EAD_TYPE_SEND_CMD
                           /\ x.cl = m.cl
                           /\ c_key[m.cl] = skey => x.iv <= ead_rx_iv
      BY <1>4 DEF RunInv
    <2>2. x = m
      BY <1>1, <2>1 DEF OneCommand
    <2> QED
      BY <1>4, <1>5, <1>7, <2>1, <2>2 DEF TypeInv, TypeOK, AuthTypeOK
  <1> QED
    BY <1>1, <1>2, <1>4, <1>5, <1>6, <1>7, <1>8, <1>9

\* A command that is refused, ignored, or whose child cannot be started.
LEMMA SafetyNotRun ==
  ASSUME TypeInv, TypeInv', SafetyInv, NEW m \in net, UNCHANGED clientVars,
         \/ send_cmd_refused(m)
         \/ send_cmd_normal_failed(m)
         \/ send_cmd_ignored(m)
  PROVE  SafetyInv'
  <1>1. ead_rx_iv' >= ead_rx_iv
    <2>1. Receive(m, EAD_TYPE_SEND_CMD)
      BY DEF send_cmd_refused, send_cmd_normal_failed, send_cmd_ignored,
             Decrypted
    <2>2. m.iv \in Nat /\ ead_rx_iv \in Nat
      BY <2>1, MessageKinds
         DEF Receive, TypeInv, TypeOK, WireTypeOK, AuthTypeOK, CmdMsg
    <2>3. PICK d \in ead_decrypt_message(skey, ead_rx_iv, m) : ead_rx_iv' = d.rx
      BY DEF send_cmd_refused, send_cmd_normal_failed, send_cmd_ignored,
             Decrypted
    <2> QED
      BY <2>2, <2>3, DecryptType
  <1>2. UNCHANGED <<net, authVars, skey, ead_tx_iv, runs, phase, c_key, pc, pkt>>
    BY DEF send_cmd_refused, send_cmd_normal_failed, send_cmd_ignored,
           histVars, loopVars, clientVars
  <1> QED
    BY <1>1, <1>2, QuietStep

\* A command that is run: its counter goes to one and the receive counter to
\* its IV.
LEMMA SafetyRun ==
  ASSUME TypeInv, TypeInv', SafetyInv, NEW m \in net, UNCHANGED clientVars,
         send_cmd_normal(m) \/ send_cmd_background(m)
  PROVE  SafetyInv'
  <1> USE DEF SafetyInv
  <1>a. PICK t : Decrypted(m, t)
    BY DEF send_cmd_normal, send_cmd_background
  <1>b. /\ m.type = EAD_TYPE_SEND_CMD
        /\ m.cl \in Clients
        /\ state = EAD_TYPE_SEND_CMD
        /\ pc = "idle"
        /\ m.key = skey /\ skey = c_key[m.cl] /\ skey \in Key /\ skey # NoKey
        /\ ead_rx_iv' = m.iv
        /\ m.iv > ead_rx_iv
        /\ m.iv \in Nat
        /\ Authorised(m.cl)
        /\ runs[m.cl] = 0
    BY <1>a, AcceptedCommand
  <1>c. /\ UNCHANGED <<authVars, skey, phase, c_key>>
        /\ runs' = [runs EXCEPT ![m.cl] = @ + 1]
    BY DEF send_cmd_normal, send_cmd_background, clientVars
  <1>r. /\ runs'[m.cl] = 1
        /\ \A c \in Clients : c # m.cl => runs'[c] = runs[c]
    BY <1>b, <1>c DEF TypeInv, TypeOK, LoopTypeOK
  <1>v. net \subseteq net'
    BY DEF send_cmd_normal, send_cmd_background, Send
  <1>1. SessionInv'
    BY <1>c DEF SessionInv, SessionPointers, authVars
  <1>2. KeyInv' /\ SuccessMeansRan'
    BY <1>c, <1>r DEF KeyInv, SuccessMeansRan, authVars
  <1>3. RunInv'
    <2> SUFFICES ASSUME NEW c \in Clients, runs'[c] > 0
                 PROVE  /\ runs'[c] = 1
                        /\ Authorised(c)
                        /\ c_key[c] # NoKey
                        /\ Spent(c_key[c].b)
                        /\ \E x \in net' : /\ x.type = EAD_TYPE_SEND_CMD
                                           /\ x.cl = c
                                           /\ c_key[c] = skey => x.iv <= ead_rx_iv'
      BY <1>c DEF RunInv, Spent, authVars
    <2>1. CASE c = m.cl
      BY <1>b, <1>r, <1>v, <2>1 DEF Spent
    <2>2. CASE c # m.cl
      <3>1. PICK x \in net : /\ x.type = EAD_TYPE_SEND_CMD
                             /\ x.cl = c
                             /\ c_key[c] = skey => x.iv <= ead_rx_iv
        BY <1>r, <2>2 DEF RunInv
      <3>2. x.iv \in Nat
        BY <3>1, MessageKinds DEF TypeInv, TypeOK, WireTypeOK, CmdMsg
      <3>3. c_key[c] = skey => x.iv <= ead_rx_iv'
        BY <1>b, <3>1, <3>2 DEF TypeInv, TypeOK, AuthTypeOK
      <3> QED
        BY <1>r, <1>v, <2>2, <3>1, <3>3 DEF RunInv
    <2> QED
      BY <2>1, <2>2
  <1>g. \A x \in net : x.type = EAD_TYPE_RESULT_CMD => runs'[x.cl] > 0
    BY <1>r, MessageKinds DEF ResultInv, TypeInv, TypeOK, WireTypeOK
  <1>4. CASE send_cmd_normal(m)
    <2>1. net' = net /\ ead_tx_iv' = ead_tx_iv /\ pkt' = m
      BY <1>4 DEF send_cmd_normal
    <2>2. BusyInv'
      BY <1>b, <1>c, <1>r, <2>1 DEF BusyInv, authVars
    <2>3. RequestInv' /\ OneCommand' /\ IvNeverReused'
      BY <1>c, <2>1 DEF RequestInv, Confirmed, OneCommand, IvNeverReused,
                        authVars
    <2>4. ResultInv'
      BY <1>c, <1>g, <2>1 DEF ResultInv, Spent, authVars
    <2> QED
      BY <1>1, <1>2, <1>3, <2>2, <2>3, <2>4
  <1>5. CASE send_cmd_background(m)
    <2>1. PICK iv \in ead_get_tx_iv(ead_tx_iv) :
            /\ ead_tx_iv' = iv
            /\ Send([type |-> EAD_TYPE_RESULT_CMD, cl |-> m.cl, nid |-> Nid,
                     sid |-> m.sid, key |-> skey, iv |-> iv, from |-> 0,
                     len |-> 0, done |-> TRUE, job |-> npid + 1])
      BY <1>5 DEF send_cmd_background
    <2> DEFINE n == [type |-> EAD_TYPE_RESULT_CMD, cl |-> m.cl, nid |-> Nid,
                     sid |-> m.sid, key |-> skey, iv |-> iv, from |-> 0,
                     len |-> 0, done |-> TRUE, job |-> npid + 1]
    <2>2. /\ net' = net \cup {n}
          /\ n.type = EAD_TYPE_RESULT_CMD /\ n.cl = m.cl
          /\ n.key = skey /\ n.iv = iv
      BY <2>1 DEF Send
    <2> HIDE DEF n
    <2>3. iv \in Nat /\ iv > ead_tx_iv
      BY <2>1, TxIvType DEF TypeInv, TypeOK, AuthTypeOK
    <2>4. BusyInv'
      BY <1>5, <1>b DEF send_cmd_background, BusyInv, loopVars
    <2>5. RequestInv' /\ OneCommand'
      BY <1>c, <2>2 DEF RequestInv, Confirmed, OneCommand, authVars
    <2>6. \A x \in net : x.type = EAD_TYPE_RESULT_CMD => x.iv \in Nat
      BY MessageKinds DEF TypeInv, TypeOK, WireTypeOK, ResultMsg
    <2>7. IvNeverReused'
      BY <2>2, <2>3, <2>6 DEF IvNeverReused, ResultInv, TypeInv, TypeOK,
                              AuthTypeOK
    <2>8. ResultInv'
      <3>1. skey.b <= nts
        BY <1>b DEF SessionInv
      <3>2. \A x \in net : x.type = EAD_TYPE_RESULT_CMD /\ x.key = skey
                             => x.iv <= iv
        BY <2>3, <2>6 DEF ResultInv, TypeInv, TypeOK, AuthTypeOK
      <3> QED
        BY <1>b, <1>c, <1>g, <1>r, <2>1, <2>2, <2>3, <3>1, <3>2
           DEF ResultInv, Spent, authVars
    <2> QED
      BY <1>1, <1>2, <1>3, <2>4, <2>5, <2>7, <2>8
  <1> QED
    BY <1>4, <1>5

\* A step that sends one more RESULT_CMD of the running command.
LEMMA ResultStep ==
  ASSUME TypeInv, TypeInv', SafetyInv, pc # "idle",
         NEW iv \in ead_get_tx_iv(ead_tx_iv), NEW len, NEW done,
         ead_tx_iv' = iv, Send(Result(iv, len, done)),
         UNCHANGED <<authVars, skey, ead_rx_iv, runs, phase, c_key>>,
         pc' # "idle" => pkt' = pkt
  PROVE  SafetyInv'
  <1> USE DEF SafetyInv
  <1> DEFINE n == Result(iv, len, done)
  <1>b. state = EAD_TYPE_SEND_CMD /\ skey # NoKey /\ runs[pkt.cl] > 0
    BY DEF BusyInv, SessionInv, SessionPointers
  <1>n. /\ net' = net \cup {n}
        /\ n.type = EAD_TYPE_RESULT_CMD /\ n.cl = pkt.cl
        /\ n.key = skey /\ n.iv = iv
    BY DEF Send, Result
  <1> HIDE DEF n
  <1>i. iv \in Nat /\ iv > ead_tx_iv /\ ead_tx_iv \in Nat
    BY TxIvType DEF TypeInv, TypeOK, AuthTypeOK
  <1>x. \A x \in net : x.type = EAD_TYPE_RESULT_CMD => x.iv \in Nat
    BY MessageKinds DEF TypeInv, TypeOK, WireTypeOK, ResultMsg
  <1>1. SessionInv' /\ BusyInv'
    BY DEF SessionInv, SessionPointers, BusyInv, authVars
  <1>2. KeyInv' /\ SuccessMeansRan'
    BY DEF KeyInv, SuccessMeansRan, authVars
  <1>3. RequestInv' /\ OneCommand'
    BY <1>n DEF RequestInv, Confirmed, OneCommand, authVars
  <1>4. RunInv'
    BY <1>n DEF RunInv, Spent, authVars
  <1>5. IvNeverReused'
    BY <1>n, <1>i, <1>x DEF IvNeverReused, ResultInv
  <1>6. ResultInv'
    <2>1. skey.b <= nts
      BY <1>b DEF SessionInv
    <2>2. \A x \in net : x.type = EAD_TYPE_RESULT_CMD /\ x.key = skey
                           => x.iv <= iv
      BY <1>i, <1>x DEF ResultInv
    <2> QED
      BY <1>b, <1>n, <1>i, <2>1, <2>2 DEF ResultInv, Spent, authVars
  <1> QED
    BY <1>1, <1>2, <1>3, <1>4, <1>5, <1>6

\* The streaming loop.
LEMMA SafetyLoop ==
  ASSUME TypeInv, TypeInv', SafetyInv, UNCHANGED clientVars, ServerLoop
  PROVE  SafetyInv'
  <1>1. CASE cmd_select \/ cmd_break \/ cmd_expired \/ cmd_kill
    <2>1. /\ UNCHANGED <<net, authVars, cryptVars, runs, phase, c_key>>
          /\ pc' # "idle" => pc # "idle" /\ pkt' = pkt
      BY <1>1 DEF cmd_select, cmd_break, cmd_expired, cmd_kill, LeaveHandler,
                  wireVars, histVars, clientVars
    <2>2. ead_rx_iv' >= ead_rx_iv
      BY <2>1 DEF cryptVars, TypeInv, TypeOK, AuthTypeOK
    <2> QED
      BY <2>1, <2>2, QuietStep DEF cryptVars
  <1>2. CASE cmd_send
    <2>1. PICK iv \in ead_get_tx_iv(ead_tx_iv) :
            ead_tx_iv' = iv /\ Send(Result(iv, bytes, FALSE))
      BY <1>2 DEF cmd_send, ead_encrypt_message
    <2> QED
      BY <1>2, <2>1, ResultStep DEF cmd_send, histVars, clientVars
  <1>3. CASE cmd_done
    <2>1. PICK iv \in ead_get_tx_iv(ead_tx_iv) :
            ead_tx_iv' = iv /\ Send(Result(iv, 0, TRUE))
      BY <1>3 DEF cmd_done, ead_encrypt_message
    <2> QED
      BY <1>3, <2>1, ResultStep DEF cmd_done, LeaveHandler, histVars, clientVars
  <1> QED
    BY <1>1, <1>2, <1>3 DEF ServerLoop

\* The children, the signal handler and the restart.
LEMMA SafetyKids ==
  ASSUME TypeInv, TypeInv', SafetyInv, UNCHANGED clientVars,
         Kids \/ instance_handle_sigchld \/ restart_server
  PROVE  SafetyInv'
  <1>1. CASE Kids \/ instance_handle_sigchld
    <2>1. UNCHANGED <<net, authVars, cryptVars, runs, phase, c_key, pc, pkt>>
      BY <1>1 DEF Kids, ChildWrite, ChildExit, instance_handle_sigchld,
                  wireVars, loopVars, histVars, clientVars
    <2>2. ead_rx_iv' >= ead_rx_iv
      BY <2>1 DEF cryptVars, TypeInv, TypeOK, AuthTypeOK
    <2> QED
      BY <2>1, <2>2, QuietStep DEF cryptVars
  <1>2. CASE restart_server
    <2> USE DEF SafetyInv
    <2>1. /\ UNCHANGED <<net, nts, runs, phase, c_key>>
          /\ state' = EAD_TYPE_SET_USERNAME /\ ts' = 0 /\ skey' = NoKey
          /\ pc' = "idle"
      BY <1>2 DEF restart_server, wireVars, clientVars
    <2>2. SessionInv'
      BY <2>1 DEF SessionInv, SessionPointers, TypeInv, TypeOK, AuthTypeOK
    <2>3. BusyInv' /\ KeyInv' /\ SuccessMeansRan'
      BY <2>1 DEF BusyInv, KeyInv, SuccessMeansRan
    <2>4. RequestInv' /\ OneCommand' /\ IvNeverReused'
      BY <2>1 DEF RequestInv, Confirmed, OneCommand, IvNeverReused
    <2>5. RunInv'
      BY <2>1 DEF RunInv, Spent
    <2>6. ResultInv'
      <3>1. \A x \in net : x.type = EAD_TYPE_RESULT_CMD => x.key # NoKey
        BY MessageKinds, WireAssumption
           DEF TypeInv, TypeOK, WireTypeOK, ResultMsg, Key, Hash
      <3> QED
        BY <2>1, <3>1 DEF ResultInv, Spent
    <2> QED
      BY <2>2, <2>3, <2>4, <2>5, <2>6
  <1> QED
    BY <1>1, <1>2

\* A client that sends nothing and only moves on.
LEMMA PhaseStep ==
  ASSUME TypeInv, SafetyInv, UNCHANGED serverVars,
         UNCHANGED <<net, c_key>>,
         NEW c \in Clients, NEW q, phase' = [phase EXCEPT ![c] = q],
         q \in {phase[c], "listed", "ok", "failed"},
         q = "listed" => /\ phase[c] \in {"pong", "listed"}
                         /\ Args[c].nid = Broadcast,
         q = "ok" /\ LogsIn(c) /\ Args[c].command => runs[c] = 1
  PROVE  SafetyInv'
  <1> USE DEF SafetyInv, serverVars, authVars, cryptVars, loopVars, histVars
  <1>p. /\ phase'[c] = q
        /\ \A x \in Clients : x # c => phase'[x] = phase[x]
    BY DEF TypeInv, TypeOK, ClientTypeOK
  <1>1. SessionInv' /\ BusyInv'
    BY DEF SessionInv, SessionPointers, BusyInv
  <1>2. KeyInv' /\ SuccessMeansRan'
    BY <1>p DEF KeyInv, SuccessMeansRan
  <1>3. RequestInv'
    <2>1. \A m \in net : m.cl \in Clients
      BY MessageKinds DEF TypeInv, TypeOK, WireTypeOK
    <2> QED
      BY <1>p, <2>1 DEF RequestInv, Confirmed
  <1>4. OneCommand' /\ IvNeverReused'
    BY DEF OneCommand, IvNeverReused
  <1>5. RunInv' /\ ResultInv'
    BY DEF RunInv, ResultInv, Spent
  <1> QED
    BY <1>1, <1>2, <1>3, <1>4, <1>5

\* A client that sends one of the login requests and waits for its response.
LEMMA RequestStep ==
  ASSUME TypeInv, TypeInv', SafetyInv, UNCHANGED serverVars, UNCHANGED c_key,
         NEW c \in Clients, NEW q, phase' = [phase EXCEPT ![c] = q],
         phase[c] \in {"new", "pong", "ack", "prime"},
         q \in {"pong", "ack", "prime", "b"},
         NEW n, net' = net \cup {n},
         n.type \in {EAD_TYPE_PING, EAD_TYPE_SET_USERNAME, EAD_TYPE_GET_PRIME,
                     EAD_TYPE_SEND_A}
  PROVE  SafetyInv'
  <1> USE DEF SafetyInv
  <1>p. /\ phase'[c] = q
        /\ \A x \in Clients : x # c => phase'[x] = phase[x]
    BY DEF TypeInv, TypeOK, ClientTypeOK
  <1>s. UNCHANGED <<authVars, cryptVars, loopVars, runs>>
    BY DEF serverVars, histVars
  <1>1. SessionInv' /\ BusyInv'
    BY <1>s DEF SessionInv, SessionPointers, BusyInv, authVars, cryptVars,
                loopVars
  <1>2. KeyInv' /\ SuccessMeansRan'
    BY <1>p, <1>s DEF KeyInv, SuccessMeansRan, authVars
  <1>3. RequestInv' /\ OneCommand' /\ RunInv' /\ ResultInv' /\ IvNeverReused'
    <2>1. \A x \in Clients : phase[x] \in {"result", "ok", "failed"}
                               => phase'[x] = phase[x]
      BY <1>p
    <2>2. nts' \in Nat /\ nts' >= nts
      BY <1>s DEF authVars, TypeInv, TypeOK, AuthTypeOK
    <2>3. state' \in {EAD_TYPE_GET_PRIME, EAD_TYPE_SEND_A} =>
            \A b \in Nat : b <= nts /\ Spent(b) => b < ts'
      BY <1>s DEF authVars, Spent
    <2>4. UNCHANGED <<skey, ead_rx_iv, ead_tx_iv, runs>>
      BY <1>s DEF cryptVars
    <2> QED
      BY <2>1, <2>2, <2>3, <2>4, PlainSend
  <1> QED
    BY <1>1, <1>2, <1>3

\* The client derives its key: it had none, so nothing of it is on the way.
LEMMA SafetyHandleB ==
  ASSUME TypeInv, TypeInv', SafetyInv, UNCHANGED serverVars,
         NEW c \in Clients, NEW m \in net, handle_b(c, m)
  PROVE  SafetyInv'
  <1> USE DEF SafetyInv
  <1> DEFINE k == t_clientgetkey(c, m.b)
             n == [type |-> EAD_TYPE_SEND_AUTH, cl |-> c, nid |-> m.nid,
                   sid |-> m.sid, proof |-> k]
  <1>n. /\ net' = net \cup {n}
        /\ n.type = EAD_TYPE_SEND_AUTH /\ n.cl = c /\ n.proof = k
    BY DEF handle_b, Send
  <1>k. /\ c_key' = [c_key EXCEPT ![c] = k]
        /\ phase' = [phase EXCEPT ![c] = "auth"]
        /\ phase[c] = "b"
        /\ m.type = EAD_TYPE_SEND_B
    BY DEF handle_b, Response
  <1>b. k.b <= nts /\ k.user = Args[c].username
        /\ k.hash.pw = Args[c].password
    BY <1>k DEF t_clientgetkey, t_clientgenexp, md5_crypt, RequestInv
  <1>y. k \in Key
    BY <1>k DEF TypeInv, TypeOK, SetWhenUsed, ClientTypeOK
  <1> HIDE DEF k, n
  <1>p. /\ phase'[c] = "auth" /\ c_key'[c] = k
        /\ \A x \in Clients : x # c => /\ phase'[x] = phase[x]
                                       /\ c_key'[x] = c_key[x]
    BY <1>k DEF TypeInv, TypeOK, ClientTypeOK
  <1>o. c_key[c] = NoKey
    BY <1>k DEF KeyInv
  <1>s. UNCHANGED <<authVars, cryptVars, loopVars, runs>>
    BY DEF serverVars, histVars
  <1>m. \A x \in net :
          /\ x.cl \in Clients
          /\ x.type \in {EAD_TYPE_SEND_AUTH, EAD_TYPE_DONE_AUTH,
                         EAD_TYPE_SEND_CMD} => x.cl # c
    <2>1. \A x \in net :
            /\ x.cl \in Clients
            /\ x.type \in {EAD_TYPE_SEND_AUTH, EAD_TYPE_DONE_AUTH}
                 => x.proof \in Key
            /\ x.type = EAD_TYPE_SEND_CMD => x.key \in Key
      BY MessageKinds DEF TypeInv, TypeOK, WireTypeOK, AuthMsg, CmdMsg
    <2>2. NoKey \notin Key
      BY WireAssumption DEF Key, Hash
    <2> QED
      BY <1>o, <2>1, <2>2 DEF RequestInv
  <1>1. SessionInv' /\ BusyInv'
    BY <1>s DEF SessionInv, SessionPointers, BusyInv, authVars, cryptVars,
                loopVars
  <1>2. KeyInv' /\ SuccessMeansRan'
    BY <1>s, <1>p, <1>b DEF KeyInv, SuccessMeansRan, authVars
  <1>3. RequestInv'
    BY <1>s, <1>p, <1>n, <1>m DEF RequestInv, Confirmed, authVars
  <1>4. OneCommand' /\ IvNeverReused'
    BY <1>n DEF OneCommand, IvNeverReused
  <1>5. RunInv'
    <2>1. ~(runs[c] > 0)
      BY <1>o DEF RunInv
    <2> QED
      BY <1>s, <1>p, <1>n, <2>1 DEF RunInv, Spent, authVars, cryptVars
  <1>6. ResultInv'
    BY <1>s, <1>n DEF ResultInv, Spent, authVars, cryptVars
  <1> QED
    BY <1>1, <1>2, <1>3, <1>4, <1>5, <1>6

\* The client sends its command, its first.
LEMMA SafetySendCommand ==
  ASSUME TypeInv, TypeInv', SafetyInv, UNCHANGED serverVars,
         NEW c \in Clients, NEW m \in net, handle_done_auth(c, m)
  PROVE  SafetyInv'
  <1> USE DEF SafetyInv
  <1>1. PICK iv \in ead_get_tx_iv(IvBase) :
          Send([type |-> EAD_TYPE_SEND_CMD, cl |-> c, nid |-> m.nid,
                sid |-> m.sid, key |-> c_key[c], iv |-> iv,
                cmdtype |-> Args[c].cmdtype])
    BY DEF handle_done_auth
  <1> DEFINE n == [type |-> EAD_TYPE_SEND_CMD, cl |-> c, nid |-> m.nid,
                   sid |-> m.sid, key |-> c_key[c], iv |-> iv,
                   cmdtype |-> Args[c].cmdtype]
  <1>n. /\ net' = net \cup {n}
        /\ n.type = EAD_TYPE_SEND_CMD /\ n.cl = c /\ n.key = c_key[c]
        /\ n.iv = iv
    BY <1>1 DEF Send
  <1> HIDE DEF n
  <1>i. iv > IvBase
    BY TxIvType
  <1>k. /\ phase' = [phase EXCEPT ![c] = "result"]
        /\ phase[c] = "auth"
        /\ c_key' = c_key
        /\ m.type = EAD_TYPE_DONE_AUTH /\ m.cl = c
        /\ Args[c].command
    BY DEF handle_done_auth, Response
  <1>p. /\ phase'[c] = "result"
        /\ \A x \in Clients : x # c => phase'[x] = phase[x]
    BY <1>k DEF TypeInv, TypeOK, ClientTypeOK
  <1>s. UNCHANGED <<authVars, cryptVars, loopVars, runs>>
    BY DEF serverVars, histVars
  <1>m. \A x \in net : x.cl \in Clients /\ (x.type = EAD_TYPE_SEND_CMD => x.cl # c)
    BY <1>k, MessageKinds DEF RequestInv, TypeInv, TypeOK, WireTypeOK
  <1>2. SessionInv' /\ BusyInv'
    BY <1>s DEF SessionInv, SessionPointers, BusyInv, authVars, cryptVars,
                loopVars
  <1>3. KeyInv' /\ SuccessMeansRan'
    BY <1>s, <1>p, <1>k DEF KeyInv, SuccessMeansRan, authVars
  <1>4. RequestInv'
    <2>1. \A x \in Confirmed \cup {c} : x \in Confirmed'
      BY <1>k, <1>n DEF Confirmed
    <2> QED
      BY <1>s, <1>p, <1>k, <1>n, <1>m, <1>i, <2>1 DEF RequestInv, authVars
  <1>5. OneCommand'
    BY <1>n, <1>m DEF OneCommand
  <1>6. RunInv'
    BY <1>s, <1>k, <1>n DEF RunInv, Spent, authVars, cryptVars
  <1>7. ResultInv' /\ IvNeverReused'
    BY <1>s, <1>n DEF ResultInv, IvNeverReused, Spent, authVars, cryptVars
  <1> QED
    BY <1>2, <1>3, <1>4, <1>5, <1>6, <1>7

\* Every step of a client.
LEMMA SafetyClients ==
  ASSUME TypeInv, TypeInv', SafetyInv, UNCHANGED serverVars,
         NEW c \in Clients, ClientStep(c)
  PROVE  SafetyInv'
  <1>1. CASE send_ping(c)
    <2> DEFINE n == Header(EAD_TYPE_PING, c, Args[c].nid, 0)
    <2>1. /\ net' = net \cup {n} /\ n.type = EAD_TYPE_PING
          /\ phase' = [phase EXCEPT ![c] = "pong"] /\ phase[c] = "new"
          /\ UNCHANGED c_key
      BY <1>1 DEF send_ping, Send, Header
    <2> HIDE DEF n
    <2> QED
      BY <2>1, RequestStep
  <1>2. CASE send_packet_timeout(c)
    <2> DEFINE q == IF phase[c] = "listed" THEN "ok" ELSE "failed"
    <2>1. /\ phase' = [phase EXCEPT ![c] = q]
          /\ UNCHANGED <<net, c_key>>
      BY <1>2 DEF send_packet_timeout, wireVars, TypeInv, TypeOK, ClientTypeOK
    <2>2. /\ q \in {"ok", "failed"}
          /\ ~(q = "ok" /\ LogsIn(c))
      BY DEF SafetyInv, KeyInv, LogsIn
    <2> HIDE DEF q
    <2> QED
      BY <2>1, <2>2, PhaseStep
  <1>3. ASSUME NEW m \in net, handle_pong_listing(c, m)
        PROVE  SafetyInv'
    <2> DEFINE q == IF Args[c].nid = Broadcast THEN "listed" ELSE "ok"
    <2>1. /\ phase' = [phase EXCEPT ![c] = q]
          /\ phase[c] \in {"pong", "listed"}
          /\ UNCHANGED <<net, c_key>>
      BY <1>3 DEF handle_pong_listing
    <2>2. /\ q \in {"listed", "ok"}
          /\ q = "listed" => Args[c].nid = Broadcast
          /\ ~(q = "ok" /\ LogsIn(c))
      BY <1>3 DEF handle_pong_listing, LogsIn
    <2> HIDE DEF q
    <2> QED
      BY <2>1, <2>2, PhaseStep
  <1>4. ASSUME NEW m \in net, handle_pong(c, m)
        PROVE  SafetyInv'
    <2> DEFINE n == [type |-> EAD_TYPE_SET_USERNAME, cl |-> c, nid |-> m.nid,
                     sid |-> m.sid, user |-> Args[c].username]
    <2>1. /\ net' = net \cup {n} /\ n.type = EAD_TYPE_SET_USERNAME
          /\ phase' = [phase EXCEPT ![c] = "ack"] /\ phase[c] = "pong"
          /\ UNCHANGED c_key
      BY <1>4 DEF handle_pong, Send
    <2> HIDE DEF n
    <2> QED
      BY <2>1, RequestStep
  <1>5. ASSUME NEW m \in net, handle_ack(c, m)
        PROVE  SafetyInv'
    <2> DEFINE n == NextHeader(EAD_TYPE_GET_PRIME, m)
    <2>1. /\ net' = net \cup {n} /\ n.type = EAD_TYPE_GET_PRIME
          /\ phase' = [phase EXCEPT ![c] = "prime"] /\ phase[c] = "ack"
          /\ UNCHANGED c_key
      BY <1>5 DEF handle_ack, Send, NextHeader, Header
    <2> HIDE DEF n
    <2> QED
      BY <2>1, RequestStep
  <1>6. ASSUME NEW m \in net, handle_prime(c, m)
        PROVE  SafetyInv'
    <2> DEFINE n == [type |-> EAD_TYPE_SEND_A, cl |-> c, nid |-> m.nid,
                     sid |-> m.sid, a |-> c]
    <2>1. /\ net' = net \cup {n} /\ n.type = EAD_TYPE_SEND_A
          /\ phase' = [phase EXCEPT ![c] = "b"] /\ phase[c] = "prime"
          /\ UNCHANGED c_key
      BY <1>6 DEF handle_prime, t_clientgenexp, Send
    <2> HIDE DEF n
    <2> QED
      BY <2>1, RequestStep
  <1>7. ASSUME NEW m \in net,
               handle_b_failed(c, m) \/ handle_done_auth_only(c, m)
        PROVE  SafetyInv'
    <2>1. PICK q \in {"ok", "failed"} :
            /\ phase' = [phase EXCEPT ![c] = q]
            /\ q = "ok" => ~Args[c].command
      BY <1>7 DEF handle_b_failed, handle_done_auth_only
    <2>2. UNCHANGED <<net, c_key>>
      BY <1>7 DEF handle_b_failed, handle_done_auth_only
    <2> QED
      BY <2>1, <2>2, PhaseStep
  <1>8. ASSUME NEW m \in net, handle_cmd_data(c, m)
        PROVE  SafetyInv'
    <2>1. PICK q \in {phase[c], "ok"} : phase' = [phase EXCEPT ![c] = q]
      <3>1. phase' = [phase EXCEPT ![c] = "ok"]
            \/ phase' = [phase EXCEPT ![c] = phase[c]]
        BY <1>8 DEF handle_cmd_data, TypeInv, TypeOK, ClientTypeOK
      <3> QED
        BY <3>1
    <2>2. UNCHANGED <<net, c_key>> /\ phase[c] = "result"
      BY <1>8 DEF handle_cmd_data
    <2>3. runs[c] = 1
      <3>1. m.type = EAD_TYPE_RESULT_CMD /\ m.cl = c
        BY <1>8 DEF handle_cmd_data, Response
      <3> QED
        BY <3>1 DEF SafetyInv, ResultInv, RunInv
    <2> QED
      BY <2>1, <2>2, <2>3, PhaseStep
  <1> QED
    BY <1>1, <1>2, <1>3, <1>4, <1>5, <1>6, <1>7, <1>8, SafetyHandleB,
       SafetySendCommand DEF ClientStep, ClientReceive

\* Every step of the system preserves the invariant.
LEMMA SafetyStep == TypeInv /\ SafetyInv /\ [Next]_vars => SafetyInv'
  <1> SUFFICES ASSUME TypeInv, SafetyInv, [Next]_vars PROVE SafetyInv'
    OBVIOUS
  <1>t. TypeInv'
    BY TypeStep
  <1>1. CASE UNCHANGED vars
    <2>1. /\ UNCHANGED <<net, authVars, cryptVars, runs, phase, c_key, pc, pkt>>
          /\ ead_rx_iv' >= ead_rx_iv
      BY <1>1 DEF vars, wireVars, serverVars, authVars, cryptVars, loopVars,
                  histVars, clientVars, TypeInv, TypeOK, AuthTypeOK
    <2> QED
      BY <1>t, <2>1, QuietStep DEF cryptVars
  <1>2. CASE ServerStep /\ UNCHANGED clientVars
    BY <1>2, <1>t, SafetyLogin, SafetySendA, SafetySendAuth, SafetyNotRun,
       SafetyRun, SafetyLoop, SafetyKids DEF ServerStep, ServerHandler
  <1>3. CASE \E c \in Clients : ClientStep(c) /\ UNCHANGED serverVars
    BY <1>3, <1>t, SafetyClients
  <1> QED
    BY <1>1, <1>2, <1>3 DEF Next

\* Both invariants hold throughout.
LEMMA Invariance == Spec => [](TypeInv /\ SafetyInv)
  <1>1. Init => TypeInv /\ SafetyInv
    BY TypeInit, SafetyInit
  <1>2. TypeInv /\ SafetyInv /\ [Next]_vars => (TypeInv /\ SafetyInv)'
    BY TypeStep, SafetyStep
  <1> QED
    BY <1>1, <1>2, PTL DEF Spec

-----------------------------------------------------------------------------
(***************************************************************************)
(* The safety properties.                                                  *)
(***************************************************************************)

\* The handlers' pointers ts and B and the session key (ead.c:410-470) are
\* valid and of one session whenever the state lets a handler use them.
THEOREM SessionPointersCorrect == Spec => []SessionPointers
  <1>1. SafetyInv => SessionPointers
    BY DEF SafetyInv, SessionInv
  <1> QED
    BY <1>1, Invariance, PTL

\* No duplicated or late SEND_CMD runs a client's command again (ead.c:472,
\* ead-crypt.c:72), across sessions and restarts.
THEOREM AtMostOnceCorrect == Spec => []AtMostOnce
  <1>1. TypeInv /\ SafetyInv => AtMostOnce
    <2> SUFFICES ASSUME TypeInv, SafetyInv, NEW c \in Clients
                 PROVE  runs[c] <= 1
      BY DEF AtMostOnce
    <2>1. runs[c] \in Nat
      BY DEF TypeInv, TypeOK, LoopTypeOK
    <2>2. runs[c] > 0 => runs[c] = 1
      BY DEF SafetyInv, RunInv
    <2> QED
      BY <2>1, <2>2
  <1> QED
    BY <1>1, Invariance, PTL

\* handle_send_cmd runs only commands of clients that know the password of
\* the user they name, however their handshakes interleave.
THEOREM OnlyAuthorisedRunCorrect == Spec => []OnlyAuthorisedRun
  <1>1. SafetyInv => OnlyAuthorisedRun
    BY DEF SafetyInv, RunInv, OnlyAuthorisedRun
  <1> QED
    BY <1>1, Invariance, PTL

\* A client's exit with success (ead-client.c, main) means its command was run
\* once.
THEOREM SuccessMeansRanCorrect == Spec => []SuccessMeansRan
  <1>1. SafetyInv => SuccessMeansRan
    BY DEF SafetyInv
  <1> QED
    BY <1>1, Invariance, PTL

\* handle_send_auth confirms to a client only the key that client holds.
THEOREM ConfirmsOwnKeyCorrect == Spec => []ConfirmsOwnKey
  <1>1. SafetyInv => ConfirmsOwnKey
    BY DEF SafetyInv, RequestInv, ConfirmsOwnKey
  <1> QED
    BY <1>1, Invariance, PTL

\* ead_encrypt_message never uses one initialization vector twice under a key.
THEOREM IvNeverReusedCorrect == Spec => []IvNeverReused
  <1>1. SafetyInv => IvNeverReused
    BY DEF SafetyInv
  <1> QED
    BY <1>1, Invariance, PTL
-----------------------------------------------------------------------------
(***************************************************************************)
(* The refinement of EadSession.                                           *)
(***************************************************************************)

\* A message other than DONE_AUTH confirms nobody.
LEMMA NotConfirming ==
  ASSUME NEW n, net' = net \/ net' = net \cup {n},
         n.type # EAD_TYPE_DONE_AUTH
  PROVE  Confirmed' = Confirmed
  BY DEF Confirmed

\* A step of the daemon without DONE_AUTH confirms nobody.
LEMMA ServerConfirms ==
  ASSUME NEW m \in net,
         \/ handle_ping(m) \/ handle_set_username(m) \/ handle_get_prime(m)
         \/ handle_send_a(m) \/ send_cmd_refused(m) \/ send_cmd_normal(m)
         \/ send_cmd_normal_failed(m) \/ send_cmd_background(m)
         \/ send_cmd_ignored(m)
  PROVE  Confirmed' = Confirmed
  <1>1. CASE handle_ping(m) \/ handle_set_username(m)
    <2>1. /\ net' = net \cup {ReplyHeader(m)}
          /\ ReplyHeader(m).type # EAD_TYPE_DONE_AUTH
      BY <1>1 DEF handle_ping, handle_set_username, Receive, Send,
                  ReplyHeader, Header
    <2> QED
      BY <2>1, NotConfirming
  <1>2. CASE handle_get_prime(m)
    <2> DEFINE n == [type |-> EAD_TYPE_PRIME, cl |-> m.cl, nid |-> Nid,
                     sid |-> m.sid, ext_salt |-> tpe.hash.salt]
    <2>1. net' = net \cup {n} /\ n.type = EAD_TYPE_PRIME
      BY <1>2 DEF handle_get_prime, Send
    <2> HIDE DEF n
    <2> QED
      BY <2>1, NotConfirming
  <1>3. CASE handle_send_a(m)
    <2> DEFINE n == [type |-> EAD_TYPE_SEND_B, cl |-> m.cl, nid |-> Nid,
                     sid |-> m.sid, b |-> B]
    <2>1. net' = net \cup {n} /\ n.type = EAD_TYPE_SEND_B
      BY <1>3 DEF handle_send_a, Send
    <2> HIDE DEF n
    <2> QED
      BY <2>1, NotConfirming
  <1>4. CASE send_cmd_background(m)
    <2>1. PICK iv \in ead_get_tx_iv(ead_tx_iv) :
            Send([type |-> EAD_TYPE_RESULT_CMD, cl |-> m.cl, nid |-> Nid,
                  sid |-> m.sid, key |-> skey, iv |-> iv, from |-> 0,
                  len |-> 0, done |-> TRUE, job |-> npid + 1])
      BY <1>4 DEF send_cmd_background
    <2> DEFINE n == [type |-> EAD_TYPE_RESULT_CMD, cl |-> m.cl, nid |-> Nid,
                     sid |-> m.sid, key |-> skey, iv |-> iv, from |-> 0,
                     len |-> 0, done |-> TRUE, job |-> npid + 1]
    <2>2. net' = net \cup {n} /\ n.type = EAD_TYPE_RESULT_CMD
      BY <2>1 DEF Send
    <2> HIDE DEF n
    <2> QED
      BY <2>2, NotConfirming
  <1>5. CASE send_cmd_refused(m) \/ send_cmd_normal(m)
             \/ send_cmd_normal_failed(m) \/ send_cmd_ignored(m)
    <2>1. net' = net
      BY <1>5 DEF send_cmd_refused, send_cmd_normal, send_cmd_normal_failed,
                  send_cmd_ignored
    <2> QED
      BY <2>1 DEF Confirmed
  <1> QED
    BY <1>1, <1>2, <1>3, <1>4, <1>5

\* The streaming loop, the children and a restart confirm nobody and run
\* nothing.
LEMMA LoopConfirms ==
  ASSUME ServerLoop \/ Kids \/ instance_handle_sigchld \/ restart_server
  PROVE  Confirmed' = Confirmed /\ runs' = runs
  <1>1. CASE cmd_send \/ cmd_done
    <2>1. runs' = runs
      BY <1>1 DEF cmd_send, cmd_done, histVars
    <2>2. PICK iv, n, d : net' = net \cup {Result(iv, n, d)}
      BY <1>1 DEF cmd_send, cmd_done, ead_encrypt_message, Send
    <2>3. Result(iv, n, d).type # EAD_TYPE_DONE_AUTH
      BY DEF Result
    <2> QED
      BY <2>1, <2>2, <2>3, NotConfirming
  <1>2. CASE ~(cmd_send \/ cmd_done)
    <2>1. net' = net /\ runs' = runs
      BY <1>2 DEF ServerLoop, cmd_select, cmd_break, cmd_expired, cmd_kill,
                  Kids, ChildWrite, ChildExit, instance_handle_sigchld,
                  restart_server, wireVars, histVars
    <2> QED
      BY <2>1 DEF Confirmed
  <1> QED
    BY <1>1, <1>2

\* A client confirms nobody and moves only its own phase, which is final once
\* it has ended.
LEMMA ClientConfirms ==
  ASSUME TypeInv, NEW c \in Clients, ClientStep(c)
  PROVE  /\ Confirmed' = Confirmed
         /\ phase[c] # "ok"
         /\ \A x \in Clients : x # c => phase'[x] = phase[x]
  <1>p. /\ phase[c] # "ok"
        /\ \A x \in Clients : x # c => phase'[x] = phase[x]
    BY DEF ClientStep, ClientReceive, send_ping, handle_pong_listing,
           handle_pong, handle_ack, handle_prime, handle_b, handle_b_failed,
           handle_done_auth_only, handle_done_auth, handle_cmd_data,
           send_packet_timeout, Waiting, TypeInv, TypeOK, ClientTypeOK
  <1>1. CASE send_packet_timeout(c)
             \/ \E m \in net : \/ handle_pong_listing(c, m)
                               \/ handle_b_failed(c, m)
                               \/ handle_done_auth_only(c, m)
                               \/ handle_cmd_data(c, m)
    <2>1. net' = net
      BY <1>1 DEF send_packet_timeout, handle_pong_listing, handle_b_failed,
                  handle_done_auth_only, handle_cmd_data, wireVars
    <2> QED
      BY <1>p, <2>1 DEF Confirmed
  <1>2. CASE send_ping(c) \/ \E m \in net : handle_ack(c, m)
    <2>1. PICK t, a, i, s :
            /\ t \in {EAD_TYPE_PING, EAD_TYPE_GET_PRIME}
            /\ net' = net \cup {Header(t, a, i, s)}
      BY <1>2 DEF send_ping, handle_ack, NextHeader, Send
    <2>2. Header(t, a, i, s).type # EAD_TYPE_DONE_AUTH
      BY <2>1 DEF Header
    <2> QED
      BY <1>p, <2>1, <2>2, NotConfirming
  <1>3. ASSUME NEW m \in net, handle_pong(c, m)
        PROVE  Confirmed' = Confirmed
    <2> DEFINE n == [type |-> EAD_TYPE_SET_USERNAME, cl |-> c, nid |-> m.nid,
                     sid |-> m.sid, user |-> Args[c].username]
    <2>1. net' = net \cup {n} /\ n.type = EAD_TYPE_SET_USERNAME
      BY <1>3 DEF handle_pong, Send
    <2> HIDE DEF n
    <2> QED
      BY <2>1, NotConfirming
  <1>4. ASSUME NEW m \in net, handle_prime(c, m)
        PROVE  Confirmed' = Confirmed
    <2> DEFINE n == [type |-> EAD_TYPE_SEND_A, cl |-> c, nid |-> m.nid,
                     sid |-> m.sid, a |-> c]
    <2>1. net' = net \cup {n} /\ n.type = EAD_TYPE_SEND_A
      BY <1>4 DEF handle_prime, t_clientgenexp, Send
    <2> HIDE DEF n
    <2> QED
      BY <2>1, NotConfirming
  <1>5. ASSUME NEW m \in net, handle_b(c, m)
        PROVE  Confirmed' = Confirmed
    <2> DEFINE n == [type |-> EAD_TYPE_SEND_AUTH, cl |-> c, nid |-> m.nid,
                     sid |-> m.sid, proof |-> t_clientgetkey(c, m.b)]
    <2>1. net' = net \cup {n} /\ n.type = EAD_TYPE_SEND_AUTH
      BY <1>5 DEF handle_b, Send
    <2> HIDE DEF n
    <2> QED
      BY <2>1, NotConfirming
  <1>6. ASSUME NEW m \in net, handle_done_auth(c, m)
        PROVE  Confirmed' = Confirmed
    <2>1. PICK iv \in ead_get_tx_iv(IvBase) :
            Send([type |-> EAD_TYPE_SEND_CMD, cl |-> c, nid |-> m.nid,
                  sid |-> m.sid, key |-> c_key[c], iv |-> iv,
                  cmdtype |-> Args[c].cmdtype])
      BY <1>6 DEF handle_done_auth
    <2> DEFINE n == [type |-> EAD_TYPE_SEND_CMD, cl |-> c, nid |-> m.nid,
                     sid |-> m.sid, key |-> c_key[c], iv |-> iv,
                     cmdtype |-> Args[c].cmdtype]
    <2>2. net' = net \cup {n} /\ n.type = EAD_TYPE_SEND_CMD
      BY <2>1 DEF Send
    <2> HIDE DEF n
    <2> QED
      BY <2>2, NotConfirming
  <1> QED
    BY <1>p, <1>1, <1>2, <1>3, <1>4, <1>5, <1>6
       DEF ClientStep, ClientReceive

\* Every step of the daemon and its clients is one the promise allows, or
\* changes nothing it speaks of.
LEMMA RefinesStep ==
  TypeInv /\ SafetyInv /\ [Next]_vars
    => [Session!Next]_(Session!sessionVars)
  <1> SUFFICES ASSUME TypeInv, SafetyInv, [Next]_vars
               PROVE  [Session!Next]_(Session!sessionVars)
    OBVIOUS
  <1>t. TypeInv' /\ SafetyInv'
    BY TypeStep, SafetyStep
  <1>1. CASE UNCHANGED vars
    BY <1>1 DEF vars, wireVars, serverVars, histVars, clientVars,
                Session!sessionVars, Confirmed, Reported
  <1>2. CASE ServerStep /\ UNCHANGED clientVars
    <2>r. Reported' = Reported
      BY <1>2 DEF Reported, clientVars
    <2>1. CASE ServerLoop \/ Kids \/ instance_handle_sigchld \/ restart_server
      BY <2>1, <2>r, LoopConfirms DEF Session!sessionVars
    <2>2. ASSUME NEW m \in net,
                 \/ handle_ping(m) \/ handle_set_username(m)
                 \/ handle_get_prime(m) \/ handle_send_a(m)
                 \/ send_cmd_refused(m) \/ send_cmd_normal_failed(m)
                 \/ send_cmd_ignored(m)
          PROVE  UNCHANGED Session!sessionVars
      <3>1. runs' = runs
        BY <2>2 DEF handle_ping, handle_set_username, handle_get_prime,
                    handle_send_a, send_cmd_refused, send_cmd_normal_failed,
                    send_cmd_ignored, histVars
      <3> QED
        BY <2>2, <2>r, <3>1, ServerConfirms DEF Session!sessionVars
    <2>3. ASSUME NEW m \in net, handle_send_auth(m)
          PROVE  Session!Next \/ UNCHANGED Session!sessionVars
      <3>1. runs' = runs /\ m.cl \in Clients
        BY <2>3, MessageKinds DEF handle_send_auth, histVars, TypeInv, TypeOK,
                                  WireTypeOK
      <3>2. CASE ~t_serververify(m.proof)
        <4>1. net' = net
          BY <2>3, <3>2 DEF handle_send_auth
        <4> QED
          BY <2>r, <3>1, <4>1 DEF Session!sessionVars, Confirmed
      <3>3. CASE t_serververify(m.proof)
        <4> DEFINE n == [type |-> EAD_TYPE_DONE_AUTH, cl |-> m.cl,
                         nid |-> Nid, sid |-> m.sid, proof |-> skey]
        <4>1. /\ net' = net \cup {n}
              /\ n.type = EAD_TYPE_DONE_AUTH /\ n.cl = m.cl
          BY <2>3, <3>3 DEF handle_send_auth, Send
        <4> HIDE DEF n
        <4>2. Confirmed' = Confirmed \cup {m.cl}
          BY <3>1, <4>1 DEF Confirmed
        <4>3. Authorised(m.cl)
          BY <1>t, <4>1 DEF SafetyInv, RequestInv
        <4>4. Session!Confirm(m.cl)
          BY <2>r, <3>1, <4>2, <4>3 DEF Session!Confirm
        <4> QED
          BY <3>1, <4>4 DEF Session!Next
      <3> QED
        BY <3>2, <3>3
    <2>4. ASSUME NEW m \in net, send_cmd_normal(m) \/ send_cmd_background(m)
          PROVE  Session!Next
      <3>1. /\ m.type = EAD_TYPE_SEND_CMD
            /\ runs' = [runs EXCEPT ![m.cl] = @ + 1]
        BY <2>4 DEF send_cmd_normal, send_cmd_background, Decrypted, Receive
      <3>2. /\ m.cl \in Clients
            /\ Args[m.cl].command
            /\ m.cl \in Confirmed
        BY <3>1, MessageKinds DEF SafetyInv, RequestInv, TypeInv, TypeOK,
                                  WireTypeOK
      <3>3. runs \in [Clients -> Nat]
        BY DEF TypeInv, TypeOK, LoopTypeOK
      <3>4. runs'[m.cl] = 1
        <4>1. runs'[m.cl] = runs[m.cl] + 1 /\ runs'[m.cl] > 0
          BY <3>1, <3>2, <3>3
        <4> QED
          BY <1>t, <3>2, <4>1 DEF SafetyInv, RunInv
      <3>5. runs[m.cl] = 0 /\ runs' = [runs EXCEPT ![m.cl] = 1]
        <4>1. runs'[m.cl] = runs[m.cl] + 1 /\ runs[m.cl] \in Nat
          BY <3>1, <3>2, <3>3
        <4>2. runs[m.cl] = 0
          BY <3>4, <4>1
        <4>3. runs[m.cl] + 1 = 1
          BY <4>2
        <4> QED
          BY <3>1, <4>2, <4>3
      <3>6. Session!Run(m.cl)
        BY <2>4, <2>r, <3>2, <3>5, ServerConfirms DEF Session!Run
      <3> QED
        BY <3>2, <3>6 DEF Session!Next
    <2> QED
      BY <1>2, <2>1, <2>2, <2>3, <2>4 DEF ServerStep, ServerHandler
  <1>3. ASSUME NEW c \in Clients, ClientStep(c), UNCHANGED serverVars
        PROVE  Session!Next \/ UNCHANGED Session!sessionVars
    <2>1. Confirmed' = Confirmed /\ runs' = runs
      BY <1>3, ClientConfirms DEF serverVars, histVars
    <2>2. CASE c \in Reported'
      <3>1. Reported' = Reported \cup {c}
        BY <1>3, <2>2, ClientConfirms DEF Reported
      <3>2. runs[c] = 1
        BY <1>t, <2>1, <2>2 DEF SafetyInv, SuccessMeansRan, Reported
      <3>3. Session!Report(c)
        BY <2>1, <3>1, <3>2 DEF Session!Report
      <3> QED
        BY <3>3 DEF Session!Next
    <2>3. CASE c \notin Reported'
      <3>1. Reported' = Reported
        BY <1>3, <2>3, ClientConfirms DEF Reported
      <3> QED
        BY <2>1, <3>1 DEF Session!sessionVars
    <2> QED
      BY <2>2, <2>3
  <1> QED
    BY <1>1, <1>2, <1>3 DEF Next

\* The protocol of ead.c and ead-client.c implements the promise of
\* EadSession: it confirms only clients that know the password, runs a
\* confirmed client's command once and reports success only after that.
THEOREM RefinesSessionCorrect == Spec => RefinesSession
  <1>1. Init => Session!Init
    BY DEF Init, ServerInit, ClientInit, Session!Init, Confirmed, Reported
  <1> QED
    BY <1>1, RefinesStep, Invariance, PTL DEF Spec, RefinesSession, Session!Spec
-----------------------------------------------------------------------------
(***************************************************************************)
(* Success means confirmation.                                             *)
(***************************************************************************)

\* A client that has sent its command, or logged in and ended well, has been
\* confirmed.
ConfirmInv ==
  \A c \in Clients :
    phase[c] = "result" \/ (phase[c] = "ok" /\ LogsIn(c)) => c \in Confirmed

\* A client reaches those phases only from each other or on a DONE_AUTH.
LEMMA ConfirmStep ==
  TypeInv /\ SafetyInv /\ ConfirmInv /\ [Next]_vars => ConfirmInv'
  <1> SUFFICES ASSUME TypeInv, SafetyInv, ConfirmInv, [Next]_vars
               PROVE  ConfirmInv'
    OBVIOUS
  <1>1. CASE UNCHANGED vars
    BY <1>1 DEF vars, wireVars, clientVars, ConfirmInv, Confirmed
  <1>2. CASE ServerStep /\ UNCHANGED clientVars
    <2>1. Confirmed \subseteq Confirmed'
      <3>1. CASE ServerLoop \/ Kids \/ instance_handle_sigchld \/ restart_server
        BY <3>1, LoopConfirms
      <3>2. ASSUME NEW m \in net, handle_send_auth(m)
            PROVE  Confirmed \subseteq Confirmed'
        <4>1. net \subseteq net'
          BY <3>2 DEF handle_send_auth, Send
        <4> QED
          BY <4>1 DEF Confirmed
      <3> QED
        BY <1>2, <3>1, <3>2, ServerConfirms DEF ServerStep, ServerHandler
    <2> QED
      BY <1>2, <2>1 DEF ConfirmInv, clientVars
  <1>3. ASSUME NEW c \in Clients, ClientStep(c), UNCHANGED serverVars
        PROVE  ConfirmInv'
    <2>1. SUFFICES ASSUME phase'[c] = "result"
                          \/ (phase'[c] = "ok" /\ LogsIn(c))
                   PROVE  c \in Confirmed
      BY <1>3, ClientConfirms DEF ConfirmInv
    <2>2. phase \in [Clients -> Phases]
      BY DEF TypeInv, TypeOK, ClientTypeOK
    <2>3. CASE send_ping(c)
      BY <2>1, <2>2, <2>3 DEF send_ping
    <2>4. CASE send_packet_timeout(c)
      BY <2>1, <2>2, <2>4 DEF send_packet_timeout, SafetyInv, KeyInv, LogsIn
    <2>5. ASSUME NEW m \in net,
                 \/ handle_pong_listing(c, m) \/ handle_pong(c, m)
                 \/ handle_ack(c, m) \/ handle_prime(c, m)
                 \/ handle_b(c, m) \/ handle_b_failed(c, m)
          PROVE  c \in Confirmed
      BY <2>1, <2>2, <2>5 DEF handle_pong_listing, handle_pong, handle_ack,
         handle_prime, handle_b, handle_b_failed, LogsIn
    <2>6. ASSUME NEW m \in net,
                 handle_done_auth_only(c, m) \/ handle_done_auth(c, m)
          PROVE  c \in Confirmed
      BY <2>6 DEF handle_done_auth_only, handle_done_auth, Response, Confirmed
    <2>7. ASSUME NEW m \in net, handle_cmd_data(c, m)
          PROVE  c \in Confirmed
      BY <2>7 DEF handle_cmd_data, ConfirmInv
    <2> QED
      BY <1>3, <2>3, <2>4, <2>5, <2>6, <2>7 DEF ClientStep, ClientReceive
  <1> QED
    BY <1>1, <1>2, <1>3 DEF Next

\* A client that logs in and exits with success (ead-client.c, main) was
\* confirmed by handle_send_auth, and knows its user's password.
THEOREM SuccessMeansConfirmedCorrect == Spec => []SuccessMeansConfirmed
  <1>1. Init => ConfirmInv
    BY DEF Init, ClientInit, ConfirmInv
  <1>2. TypeInv /\ SafetyInv /\ ConfirmInv => SuccessMeansConfirmed
    BY DEF ConfirmInv, SuccessMeansConfirmed, SafetyInv, RequestInv, Confirmed
  <1> QED
    BY <1>1, <1>2, ConfirmStep, Invariance, PTL DEF Spec

-----------------------------------------------------------------------------
(***************************************************************************)
(* The children of the daemon: what SIGCHLD, wait() and child_pending mean *)
(* for the command that is streaming.  Their inductive invariant.          *)
(***************************************************************************)

\* Children have been forked and are alive or dead; all but the streaming
\* command's child, the newest, are strays.
KidsInv ==
  /\ alive \cap zombies = {}
  /\ \A p \in alive \cup zombies \cup strays : p <= npid
  /\ \A p \in alive \cup zombies : p = pid \/ p \in strays
  /\ pc = "idle" => pid = 0
  /\ pc # "idle" => pid = npid /\ pid \notin strays /\ pid > 0
  /\ 0 \notin alive \cup zombies

\* child_pending was cleared for a command whose child lives: by a stray.
ClearedInv ==
  pc # "idle" /\ ~child_pending /\ pid \in alive => \E p \in strays : p < pid

\* Commands carry their client's type, and results name a forked child.
JobInv ==
  \A m \in net :
    /\ m.type = EAD_TYPE_SEND_CMD => m.cmdtype = Args[m.cl].cmdtype
    /\ m.type = EAD_TYPE_RESULT_CMD => m.job <= npid

ChildInv ==
  /\ ReapNeverBlocks
  /\ PendingMeansUnreaped
  /\ KidsInv
  /\ ClearedInv
  /\ JobInv
  /\ EarlyDoneNeedsStray

-----------------------------------------------------------------------------
(***************************************************************************)
(* The processes.                                                          *)
(***************************************************************************)

\* The part of the invariant that speaks of processes only.
ProcessInv == ReapNeverBlocks /\ PendingMeansUnreaped /\ KidsInv /\ ClearedInv

\* How the set of children may change: it empties on a restart, loses members,
\* or gains the process forked last.
ChildrenStep ==
  /\ npid' >= npid
  /\ \/ alive' = {}
     \/ strays \subseteq strays' /\ alive' \subseteq alive
     \/ /\ strays \subseteq strays'
        /\ npid' = npid + 1
        /\ alive' = alive \cup {npid + 1}

\* Steps that leave the processes alone and neither enter nor leave the
\* streaming loop.
LEMMA ProcessQuiet ==
  ASSUME TypeInv, ProcessInv, UNCHANGED <<kidVars, pid>>,
         pc' = "idle" <=> pc = "idle"
  PROVE  ProcessInv' /\ ChildrenStep
  <1>1. ProcessInv'
    BY DEF ProcessInv, ReapNeverBlocks, PendingMeansUnreaped, KidsInv,
           ClearedInv, kidVars
  <1>2. ChildrenStep
    BY DEF ChildrenStep, kidVars, TypeInv, TypeOK, KidTypeOK
  <1> QED
    BY <1>1, <1>2

\* The steps that start a child.
LEMMA ProcessFork ==
  ASSUME TypeInv, ProcessInv, NEW m,
         \/ send_cmd_normal(m) \/ send_cmd_background(m)
         \/ send_cmd_normal_failed(m)
  PROVE  ProcessInv' /\ ChildrenStep
  <1> USE DEF ProcessInv, ReapNeverBlocks, PendingMeansUnreaped
  <1>t. /\ npid \in Nat /\ alive \subseteq Nat /\ zombies \subseteq Nat
        /\ strays \subseteq Nat /\ pc = "idle" /\ pid = 0
    BY DEF TypeInv, TypeOK, KidTypeOK, KidsInv, send_cmd_normal,
           send_cmd_background, send_cmd_normal_failed, Decrypted, Receive
  <1>1. CASE send_cmd_normal(m)
    <2>1. /\ npid' = npid + 1 /\ pid' = npid + 1 /\ pc' = "select"
          /\ alive' = alive \cup {npid + 1}
          /\ child_pending' = TRUE
          /\ UNCHANGED <<sigchld, zombies, strays>>
      BY <1>1 DEF send_cmd_normal, StartChild, fork
    <2>2. KidsInv'
      <3>1. \A p \in alive \cup zombies \cup strays : p \in Nat /\ p <= npid
        BY <1>t DEF KidsInv
      <3>2. (alive \cap zombies = {})'
        BY <1>t, <2>1, <3>1 DEF KidsInv
      <3>3. \A p \in (alive \cup zombies \cup strays)' : p <= npid'
        BY <1>t, <2>1, <3>1
      <3>4. \A p \in (alive \cup zombies)' : p = pid' \/ p \in strays'
        BY <1>t, <2>1 DEF KidsInv
      <3>5. pid' \notin strays'
        BY <1>t, <2>1, <3>1
      <3>6. pid' > 0 /\ 0 \notin (alive \cup zombies)'
        BY <1>t, <2>1 DEF KidsInv
      <3> QED
        BY <2>1, <3>2, <3>3, <3>4, <3>5, <3>6 DEF KidsInv
    <2>3. ClearedInv'
      BY <2>1 DEF ClearedInv
    <2> QED
      BY <1>t, <2>1, <2>2, <2>3 DEF ChildrenStep
  <1>2. CASE send_cmd_background(m)
    <2>1. /\ npid' = npid + 1
          /\ alive' = alive \cup {npid + 1}
          /\ strays' = strays \cup {npid + 1}
          /\ UNCHANGED <<child_pending, sigchld, zombies, pc, pid>>
      BY <1>2 DEF send_cmd_background, fork, loopVars
    <2>2. KidsInv' /\ ClearedInv'
      BY <1>t, <2>1 DEF KidsInv, ClearedInv
    <2> QED
      BY <1>t, <2>1, <2>2 DEF ChildrenStep
  <1>3. CASE send_cmd_normal_failed(m)
    <2>1. UNCHANGED <<sigchld, alive, zombies, strays, npid, pc, pid>>
      BY <1>3 DEF send_cmd_normal_failed, loopVars
    <2> QED
      BY <1>t, <2>1 DEF KidsInv, ClearedInv, ChildrenStep
  <1> QED
    BY <1>1, <1>2, <1>3

\* Leaving the handler: a child it leaves behind becomes a stray.
LEMMA ProcessLeave ==
  ASSUME TypeInv, ProcessInv, cmd_kill \/ cmd_done
  PROVE  ProcessInv' /\ ChildrenStep
  <1> USE DEF ProcessInv, ReapNeverBlocks, PendingMeansUnreaped
  <1>t. /\ npid \in Nat /\ npid' = npid
        /\ pc # "idle" /\ pc' = "idle" /\ pid' = 0
        /\ strays' = strays \cup ({pid} \cap (alive \cup zombies))
    BY DEF TypeInv, TypeOK, KidTypeOK, cmd_kill, cmd_done, LeaveHandler
  <1>1. \/ UNCHANGED <<alive, zombies, sigchld>>
        \/ /\ pid \in alive
           /\ alive' = alive \ {pid}
           /\ zombies' = zombies \cup {pid}
           /\ sigchld' = TRUE
    BY DEF cmd_kill, cmd_done, Dies
  <1>2. KidsInv'
    BY <1>t, <1>1 DEF KidsInv
  <1>3. ClearedInv' /\ ChildrenStep
    BY <1>t, <1>1 DEF ClearedInv, ChildrenStep
  <1> QED
    BY <1>t, <1>1, <1>2, <1>3

\* A child dies, is reaped, or the whole process is restarted.  When a child
\* is reaped while the streaming one lives, it was a stray, and older.
LEMMA ProcessDeath ==
  ASSUME TypeInv, ProcessInv,
         \/ \E p \in alive : ChildExit(p)
         \/ instance_handle_sigchld
         \/ restart_server
  PROVE  ProcessInv' /\ ChildrenStep
  <1> USE DEF ProcessInv, ReapNeverBlocks, PendingMeansUnreaped
  <1>t. /\ npid \in Nat /\ npid' = npid
        /\ alive \subseteq Nat /\ zombies \subseteq Nat /\ strays \subseteq Nat
    BY DEF TypeInv, TypeOK, KidTypeOK, ChildExit, instance_handle_sigchld,
           restart_server
  <1>1. ASSUME NEW p \in alive, ChildExit(p)
        PROVE  ProcessInv' /\ ChildrenStep
    <2>1. /\ alive' = alive \ {p}
          /\ zombies' = zombies \cup {p}
          /\ sigchld' = TRUE
          /\ UNCHANGED <<child_pending, strays, pc, pid>>
      BY <1>1 DEF ChildExit, Dies, loopVars
    <2>2. KidsInv' /\ ClearedInv' /\ ChildrenStep
      BY <1>t, <2>1 DEF KidsInv, ClearedInv, ChildrenStep
    <2> QED
      BY <2>1, <2>2
  <1>2. CASE instance_handle_sigchld
    <2>1. PICK p \in zombies : zombies' = zombies \ {p}
      BY <1>2 DEF instance_handle_sigchld, Reap
    <2>2. /\ sigchld' = FALSE /\ child_pending' = FALSE
          /\ UNCHANGED <<alive, strays, pc, pid>>
      BY <1>2 DEF instance_handle_sigchld, Reap, loopVars
    <2>3. KidsInv' /\ ChildrenStep
      BY <1>t, <2>1, <2>2 DEF KidsInv, ChildrenStep
    <2>4. ClearedInv'
      <3> SUFFICES ASSUME pc # "idle", pid \in alive
                   PROVE  \E x \in strays : x < pid
        BY <2>2 DEF ClearedInv
      <3>1. p # pid /\ p \in strays /\ p <= npid /\ pid = npid
        BY <2>1 DEF KidsInv
      <3> QED
        BY <1>t, <3>1
    <2> QED
      BY <2>2, <2>3, <2>4
  <1>3. CASE restart_server
    BY <1>3, <1>t DEF restart_server, KidsInv, ClearedInv, ChildrenStep
  <1> QED
    BY <1>1, <1>2, <1>3

\* Every step of the system preserves the process part of the invariant.
LEMMA ProcessStep ==
  ASSUME TypeInv, ProcessInv, [Next]_vars
  PROVE  ProcessInv' /\ ChildrenStep
  <1>1. CASE \/ UNCHANGED vars
             \/ \E c \in Clients : ClientStep(c) /\ UNCHANGED serverVars
    <2>1. UNCHANGED <<kidVars, pid, pc>>
      BY <1>1 DEF vars, serverVars, loopVars
    <2> QED
      BY <2>1, ProcessQuiet
  <1>2. ASSUME NEW m \in net,
               \/ handle_ping(m) \/ handle_set_username(m)
               \/ handle_get_prime(m) \/ handle_send_a(m)
               \/ handle_send_auth(m) \/ send_cmd_refused(m)
               \/ send_cmd_ignored(m)
        PROVE  ProcessInv' /\ ChildrenStep
    <2>1. UNCHANGED <<kidVars, loopVars>>
      BY <1>2 DEF handle_ping, handle_set_username, handle_get_prime,
         handle_send_a, handle_send_auth, send_cmd_refused, send_cmd_ignored
    <2> QED
      BY <2>1, ProcessQuiet DEF loopVars
  <1>3. CASE cmd_select \/ cmd_break \/ cmd_send \/ cmd_expired \/ ChildWrite
    <2>1. /\ UNCHANGED <<kidVars, pid>>
          /\ pc' = "idle" <=> pc = "idle"
      BY <1>3 DEF cmd_select, cmd_break, cmd_send, cmd_expired, ChildWrite
    <2> QED
      BY <2>1, ProcessQuiet
  <1> QED
    BY <1>1, <1>2, <1>3, ProcessFork, ProcessLeave, ProcessDeath
       DEF Next, ServerStep, ServerHandler, ServerLoop, Kids

-----------------------------------------------------------------------------
(***************************************************************************)
(* The messages.                                                           *)
(***************************************************************************)

\* What the invariant asks of a message that is new.
NewMessage(n) ==
  /\ n.type = EAD_TYPE_SEND_CMD => n.cmdtype = Args[n.cl].cmdtype
  /\ n.type = EAD_TYPE_RESULT_CMD =>
       /\ n.job <= npid'
       /\ /\ n.done
          /\ n.job \in alive'
          /\ ntohs(Args[n.cl].cmdtype) = EAD_CMD_NORMAL
          => \E p \in strays' : p < n.job
       /\ cmd_send \/ cmd_done \/ \E m \in net : send_cmd_background(m)

\* Old messages stay as they should be when children come and go.
LEMMA JobStep ==
  ASSUME TypeInv, TypeInv', JobInv, EarlyDoneNeedsStray, ChildrenStep,
         \A n \in net' : n \in net \/ NewMessage(n)
  PROVE  JobInv' /\ EarlyDoneNeedsStray'
  <1>t. /\ npid \in Nat /\ npid' \in Nat
        /\ \A m \in net : m.type = EAD_TYPE_RESULT_CMD => m.job \in Nat
    BY MessageKinds DEF TypeInv, TypeOK, WireTypeOK, KidTypeOK, ResultMsg
  <1>1. JobInv'
    <2> SUFFICES ASSUME NEW m \in net'
                 PROVE  /\ m.type = EAD_TYPE_SEND_CMD
                             => m.cmdtype = Args[m.cl].cmdtype
                        /\ m.type = EAD_TYPE_RESULT_CMD => m.job <= npid'
      BY DEF JobInv
    <2>1. CASE m \in net
      BY <1>t, <2>1 DEF JobInv, ChildrenStep
    <2>2. CASE NewMessage(m)
      BY <2>2 DEF NewMessage
    <2> QED
      BY <2>1, <2>2
  <1>2. EarlyDoneNeedsStray'
    BY <1>t DEF EarlyDoneNeedsStray, JobInv, NewMessage, ChildrenStep
  <1> QED
    BY <1>1, <1>2

\* Every message a step sends is as the invariant asks.
LEMMA MessagesStep ==
  ASSUME TypeInv, TypeInv', ProcessInv, ProcessInv', JobInv, [Next]_vars
  PROVE  \A n \in net' : n \in net \/ NewMessage(n)
  <1>t. npid \in Nat
    BY DEF TypeInv, TypeOK, KidTypeOK
  <1>1. ASSUME net' = net
        PROVE  \A n \in net' : n \in net \/ NewMessage(n)
    BY <1>1
  <1>2. ASSUME NEW x, net' = net \cup {x},
               x.type \notin {EAD_TYPE_SEND_CMD, EAD_TYPE_RESULT_CMD}
        PROVE  \A n \in net' : n \in net \/ NewMessage(n)
    BY <1>2 DEF NewMessage
  <1>3. ASSUME NEW m \in net,
               \/ handle_ping(m) \/ handle_set_username(m)
               \/ handle_get_prime(m) \/ handle_send_a(m)
               \/ handle_send_auth(m)
        PROVE  \A n \in net' : n \in net \/ NewMessage(n)
    <2>1. CASE handle_ping(m) \/ handle_set_username(m)
      <3>1. /\ net' = net \cup {ReplyHeader(m)}
            /\ ReplyHeader(m).type \in {EAD_TYPE_PONG, EAD_TYPE_ACK_USERNAME}
        BY <2>1 DEF handle_ping, handle_set_username, Receive, Send,
                    ReplyHeader, Header
      <3> QED
        BY <1>2, <3>1
    <2>2. CASE handle_get_prime(m)
      <3> DEFINE x == [type |-> EAD_TYPE_PRIME, cl |-> m.cl, nid |-> Nid,
                       sid |-> m.sid, ext_salt |-> tpe.hash.salt]
      <3>1. net' = net \cup {x} /\ x.type = EAD_TYPE_PRIME
        BY <2>2 DEF handle_get_prime, Send
      <3> HIDE DEF x
      <3> QED
        BY <1>2, <3>1
    <2>3. CASE handle_send_a(m)
      <3> DEFINE x == [type |-> EAD_TYPE_SEND_B, cl |-> m.cl, nid |-> Nid,
                       sid |-> m.sid, b |-> B]
      <3>1. net' = net \cup {x} /\ x.type = EAD_TYPE_SEND_B
        BY <2>3 DEF handle_send_a, Send
      <3> HIDE DEF x
      <3> QED
        BY <1>2, <3>1
    <2>4. CASE handle_send_auth(m)
      <3> DEFINE x == [type |-> EAD_TYPE_DONE_AUTH, cl |-> m.cl, nid |-> Nid,
                       sid |-> m.sid, proof |-> skey]
      <3>1. /\ net' = net \/ net' = net \cup {x}
            /\ x.type = EAD_TYPE_DONE_AUTH
        BY <2>4 DEF handle_send_auth, Send
      <3> HIDE DEF x
      <3> QED
        BY <1>1, <1>2, <3>1
    <2> QED
      BY <1>3, <2>1, <2>2, <2>3, <2>4
  <1>4. ASSUME NEW m \in net, send_cmd_background(m)
        PROVE  \A n \in net' : n \in net \/ NewMessage(n)
    <2>1. PICK iv \in ead_get_tx_iv(ead_tx_iv) :
            Send([type |-> EAD_TYPE_RESULT_CMD, cl |-> m.cl, nid |-> Nid,
                  sid |-> m.sid, key |-> skey, iv |-> iv, from |-> 0,
                  len |-> 0, done |-> TRUE, job |-> npid + 1])
      BY <1>4 DEF send_cmd_background
    <2> DEFINE x == [type |-> EAD_TYPE_RESULT_CMD, cl |-> m.cl, nid |-> Nid,
                     sid |-> m.sid, key |-> skey, iv |-> iv, from |-> 0,
                     len |-> 0, done |-> TRUE, job |-> npid + 1]
    <2>2. /\ net' = net \cup {x} /\ x.type = EAD_TYPE_RESULT_CMD
          /\ x.cl = m.cl /\ x.job = npid + 1 /\ npid' = npid + 1
      BY <1>4, <2>1 DEF Send, send_cmd_background, fork
    <2> HIDE DEF x
    <2>3. ntohs(Args[m.cl].cmdtype) # EAD_CMD_NORMAL
      BY <1>4 DEF send_cmd_background, Decrypted, Receive, JobInv
    <2> QED
      BY <1>4, <1>t, <2>2, <2>3 DEF NewMessage
  <1>5. CASE cmd_send \/ cmd_done
    <2>1. PICK iv, len, d : /\ net' = net \cup {Result(iv, len, d)}
                            /\ d = TRUE => cmd_done
                            /\ d \in BOOLEAN
      BY <1>5 DEF cmd_send, cmd_done, ead_encrypt_message, Send
    <2> DEFINE x == Result(iv, len, d)
    <2>2. /\ net' = net \cup {x} /\ x.type = EAD_TYPE_RESULT_CMD
          /\ x.job = pid /\ x.done = d
      BY <2>1 DEF Result
    <2> HIDE DEF x
    <2>3. pid = npid /\ npid' = npid /\ alive' = alive /\ pc # "idle"
      BY <1>5 DEF cmd_send, cmd_done, kidVars, ProcessInv, KidsInv
    <2>4. d /\ pid \in alive => \E p \in strays' : p < pid
      <3>1. cmd_done => ~child_pending /\ strays \subseteq strays'
        BY DEF cmd_done, LeaveHandler
      <3> QED
        BY <2>1, <2>3, <3>1 DEF ProcessInv, ClearedInv
    <2> QED
      BY <1>5, <1>t, <2>2, <2>3, <2>4 DEF NewMessage
  <1>6. ASSUME NEW m \in net,
               send_cmd_refused(m) \/ send_cmd_normal(m)
               \/ send_cmd_normal_failed(m) \/ send_cmd_ignored(m)
        PROVE  net' = net
    BY <1>6 DEF send_cmd_refused, send_cmd_normal, send_cmd_normal_failed,
                send_cmd_ignored
  <1>7. CASE cmd_select \/ cmd_break \/ cmd_expired \/ cmd_kill \/ Kids
             \/ instance_handle_sigchld \/ restart_server \/ UNCHANGED vars
    <2>1. net' = net
      BY <1>7 DEF cmd_select, cmd_break, cmd_expired, cmd_kill, Kids,
         ChildWrite, ChildExit, instance_handle_sigchld, restart_server,
         vars, wireVars
    <2> QED
      BY <1>1, <2>1
  <1>8. ASSUME NEW c \in Clients, ClientStep(c)
        PROVE  \A n \in net' : n \in net \/ NewMessage(n)
    <2>1. CASE send_packet_timeout(c)
               \/ \E m \in net : \/ handle_pong_listing(c, m)
                                 \/ handle_b_failed(c, m)
                                 \/ handle_done_auth_only(c, m)
                                 \/ handle_cmd_data(c, m)
      <3>1. net' = net
        BY <2>1 DEF send_packet_timeout, handle_pong_listing, handle_b_failed,
                    handle_done_auth_only, handle_cmd_data, wireVars
      <3> QED
        BY <1>1, <3>1
    <2>2. CASE send_ping(c) \/ \E m \in net : handle_ack(c, m)
      <3>1. PICK t, a, i, s :
              /\ t \in {EAD_TYPE_PING, EAD_TYPE_GET_PRIME}
              /\ net' = net \cup {Header(t, a, i, s)}
        BY <2>2 DEF send_ping, handle_ack, NextHeader, Send
      <3>2. Header(t, a, i, s).type = t
        BY DEF Header
      <3> QED
        BY <1>2, <3>1, <3>2
    <2>3. ASSUME NEW m \in net, handle_pong(c, m)
          PROVE  \A n \in net' : n \in net \/ NewMessage(n)
      <3> DEFINE x == [type |-> EAD_TYPE_SET_USERNAME, cl |-> c,
                       nid |-> m.nid, sid |-> m.sid,
                       user |-> Args[c].username]
      <3>1. net' = net \cup {x} /\ x.type = EAD_TYPE_SET_USERNAME
        BY <2>3 DEF handle_pong, Send
      <3> HIDE DEF x
      <3> QED
        BY <1>2, <3>1
    <2>4. ASSUME NEW m \in net, handle_prime(c, m)
          PROVE  \A n \in net' : n \in net \/ NewMessage(n)
      <3> DEFINE x == [type |-> EAD_TYPE_SEND_A, cl |-> c, nid |-> m.nid,
                       sid |-> m.sid, a |-> c]
      <3>1. net' = net \cup {x} /\ x.type = EAD_TYPE_SEND_A
        BY <2>4 DEF handle_prime, t_clientgenexp, Send
      <3> HIDE DEF x
      <3> QED
        BY <1>2, <3>1
    <2>5. ASSUME NEW m \in net, handle_b(c, m)
          PROVE  \A n \in net' : n \in net \/ NewMessage(n)
      <3> DEFINE x == [type |-> EAD_TYPE_SEND_AUTH, cl |-> c, nid |-> m.nid,
                       sid |-> m.sid, proof |-> t_clientgetkey(c, m.b)]
      <3>1. net' = net \cup {x} /\ x.type = EAD_TYPE_SEND_AUTH
        BY <2>5 DEF handle_b, Send
      <3> HIDE DEF x
      <3> QED
        BY <1>2, <3>1
    <2>6. ASSUME NEW m \in net, handle_done_auth(c, m)
          PROVE  \A n \in net' : n \in net \/ NewMessage(n)
      <3>1. PICK iv \in ead_get_tx_iv(IvBase) :
              Send([type |-> EAD_TYPE_SEND_CMD, cl |-> c, nid |-> m.nid,
                    sid |-> m.sid, key |-> c_key[c], iv |-> iv,
                    cmdtype |-> Args[c].cmdtype])
        BY <2>6 DEF handle_done_auth
      <3> DEFINE x == [type |-> EAD_TYPE_SEND_CMD, cl |-> c, nid |-> m.nid,
                       sid |-> m.sid, key |-> c_key[c], iv |-> iv,
                       cmdtype |-> Args[c].cmdtype]
      <3>2. /\ net' = net \cup {x} /\ x.type = EAD_TYPE_SEND_CMD
            /\ x.cl = c /\ x.cmdtype = Args[c].cmdtype
        BY <3>1 DEF Send
      <3> HIDE DEF x
      <3> QED
        BY <3>2 DEF NewMessage
    <2> QED
      BY <1>8, <2>1, <2>2, <2>3, <2>4, <2>5, <2>6 DEF ClientStep, ClientReceive
  <1> QED
    BY <1>1, <1>3, <1>4, <1>5, <1>6, <1>7, <1>8
       DEF Next, ServerStep, ServerHandler, ServerLoop

\* Both invariants hold throughout.
LEMMA ChildInvariance == Spec => [](TypeInv /\ ChildInv)
  <1>1. Init => TypeInv /\ ChildInv
    <2>1. Init => ChildInv
      BY DEF Init, ServerInit, ChildInv, ReapNeverBlocks, KidsInv, ClearedInv,
             PendingMeansUnreaped, JobInv, EarlyDoneNeedsStray
    <2> QED
      BY <2>1, TypeInit
  <1>2. TypeInv /\ ChildInv /\ [Next]_vars => (TypeInv /\ ChildInv)'
    <2> SUFFICES ASSUME TypeInv, ChildInv, [Next]_vars
                 PROVE  TypeInv' /\ ChildInv'
      OBVIOUS
    <2>1. TypeInv'
      BY TypeStep
    <2>2. ProcessInv' /\ ChildrenStep
      BY ProcessStep DEF ChildInv, ProcessInv
    <2>3. JobInv' /\ EarlyDoneNeedsStray'
      BY <2>1, <2>2, MessagesStep, JobStep DEF ChildInv, ProcessInv
    <2> QED
      BY <2>1, <2>2, <2>3 DEF ChildInv, ProcessInv
  <1> QED
    BY <1>1, <1>2, PTL DEF Spec

-----------------------------------------------------------------------------
(***************************************************************************)
(* The properties.                                                         *)
(***************************************************************************)

\* wait() in instance_handle_sigchld (ead.c:756) always finds a dead child,
\* although pending SIGCHLDs are merged.
THEOREM ReapNeverBlocksCorrect == Spec => []ReapNeverBlocks
  <1>1. ChildInv => ReapNeverBlocks
    BY DEF ChildInv
  <1> QED
    BY <1>1, ChildInvariance, PTL

\* The pid handle_send_cmd kills (ead.c:570) still belongs to its child while
\* child_pending is set.
THEOREM PendingMeansUnreapedCorrect == Spec => []PendingMeansUnreaped
  <1>1. ChildInv => PendingMeansUnreaped
    BY DEF ChildInv
  <1> QED
    BY <1>1, ChildInvariance, PTL

\* handle_send_cmd reports the end of a command that is still running only
\* when a child an earlier command left behind has died.
THEOREM EarlyDoneNeedsStrayCorrect == Spec => []EarlyDoneNeedsStray
  <1>1. ChildInv => EarlyDoneNeedsStray
    BY DEF ChildInv
  <1> QED
    BY <1>1, ChildInvariance, PTL

-----------------------------------------------------------------------------
(***************************************************************************)
(* The order of the output.  The inductive invariant.                      *)
(***************************************************************************)
Results == {m \in net : m.type = EAD_TYPE_RESULT_CMD}

\* A key is of the client whose A it holds, and results are sent under the
\* key of their client: two clients never see one another's output.
OwnerInv ==
  /\ \A c \in Clients : c_key[c] # NoKey => c_key[c].a = c
  /\ \A m \in Results : m.key = c_key[m.cl]
  /\ pc # "idle" => skey = c_key[pkt.cl]

\* A result with the higher IV carries what comes later in the output, and
\* what is still in the pipe comes after all of them.
OutputInv ==
  /\ \A m1, m2 \in Results :
       m1.key = m2.key /\ m1.iv < m2.iv => m1.from + m1.len <= m2.from
  /\ pc # "idle" =>
       \A m \in Results : m.key = skey => m.from + m.len <= consumed

\* What a client has written came with a result at or below its counter.
ConsoleInv ==
  \A c \in Clients : \A i \in DOMAIN console[c] :
    \E m \in Results : /\ m.key = c_key[c]
                       /\ m.iv <= c_rx_iv[c]
                       /\ console[c][i] <= m.from + m.len

OrderInv == OwnerInv /\ OutputInv /\ ConsoleInv /\ ConsoleOrdered

-----------------------------------------------------------------------------
(***************************************************************************)
(* The invariant is preserved.                                             *)
(***************************************************************************)

\* The fields of the results are numbers and a key.
LEMMA ResultTypes ==
  ASSUME TypeInv
  PROVE  \A m \in Results : /\ m.cl \in Clients /\ m.key \in Key
                            /\ m.iv \in Nat /\ m.from \in Nat /\ m.len \in Nat
                            /\ m.key # NoKey
  <1>1. NoKey \notin Key
    BY WireAssumption DEF Key, Hash
  <1>2. \A m \in Results : m \in ResultMsg
    BY MessageKinds DEF TypeInv, TypeOK, WireTypeOK, Results
  <1> QED
    BY <1>1, <1>2 DEF ResultMsg

\* A client that has a key keeps it, and a new key holds the client's A.
LEMMA KeysKept ==
  ASSUME TypeInv, SafetyInv, [Next]_vars, NEW c \in Clients
  PROVE  c_key'[c] = c_key[c] \/ (c_key[c] = NoKey /\ c_key'[c].a = c)
  <1>1. CASE UNCHANGED c_key
    BY <1>1
  <1>2. ASSUME NEW x \in Clients, NEW m \in net, handle_b(x, m)
        PROVE  c_key'[c] = c_key[c] \/ (c_key[c] = NoKey /\ c_key'[c].a = c)
    <2>1. /\ c_key' = [c_key EXCEPT ![x] = t_clientgetkey(x, m.b)]
          /\ phase[x] = "b"
          /\ t_clientgetkey(x, m.b).a = x
      BY <1>2 DEF handle_b, t_clientgetkey, t_clientgenexp
    <2>2. c_key[x] = NoKey
      BY <2>1 DEF SafetyInv, KeyInv
    <2> QED
      BY <2>1, <2>2 DEF TypeInv, TypeOK, ClientTypeOK
  <1>3. ASSUME NEW x \in Clients, ClientStep(x)
        PROVE  UNCHANGED c_key \/ \E m \in net : handle_b(x, m)
    BY <1>3 DEF ClientStep, ClientReceive, send_ping, send_packet_timeout,
       handle_pong_listing, handle_pong, handle_ack, handle_prime,
       handle_b_failed, handle_done_auth_only, handle_done_auth,
       handle_cmd_data
  <1> QED
    BY <1>1, <1>2, <1>3 DEF Next, vars, clientVars

\* The streaming loop keeps its packet and its key, and only a send moves
\* the count of what has been read from the pipe.
LEMMA LoopKept ==
  ASSUME TypeInv, [Next]_vars, pc' # "idle",
         ~\E m \in net : send_cmd_normal(m)
  PROVE  /\ pc # "idle"
         /\ skey' = skey /\ pkt' = pkt
         /\ consumed' = consumed \/ cmd_send
  <1>1. CASE UNCHANGED vars \/ UNCHANGED serverVars
    BY <1>1 DEF vars, serverVars, cryptVars, loopVars
  <1>2. ASSUME NEW m \in net,
               \/ handle_ping(m) \/ handle_set_username(m)
               \/ handle_get_prime(m) \/ handle_send_a(m)
               \/ handle_send_auth(m) \/ send_cmd_refused(m)
               \/ send_cmd_normal_failed(m) \/ send_cmd_background(m)
               \/ send_cmd_ignored(m)
        PROVE  pc' = "idle"
    BY <1>2 DEF handle_ping, handle_set_username, handle_get_prime,
       handle_send_a, handle_send_auth, send_cmd_refused,
       send_cmd_normal_failed, send_cmd_background, send_cmd_ignored,
       Decrypted, Receive, loopVars
  <1>3. CASE ServerLoop
    BY <1>3 DEF ServerLoop, cmd_select, cmd_break, cmd_send, cmd_expired,
       cmd_kill, cmd_done, LeaveHandler, cryptVars
  <1>4. CASE Kids \/ instance_handle_sigchld \/ restart_server
    <2>1. restart_server => pc' = "idle"
      BY DEF restart_server
    <2>2. CASE Kids
      <3>1. UNCHANGED <<skey, pc, pkt, consumed>>
        BY <2>2 DEF Kids, ChildWrite, ChildExit, cryptVars, loopVars
      <3> QED
        BY <3>1
    <2>3. CASE instance_handle_sigchld
      BY <2>3 DEF instance_handle_sigchld, cryptVars, loopVars
    <2> QED
      BY <1>4, <2>1, <2>2, <2>3
  <1> QED
    BY <1>1, <1>2, <1>3, <1>4 DEF Next, ServerStep, ServerHandler

\* The one new result of a step: it is under the session's key, after all
\* earlier results of that key, and holds what is next in the output.
NewResult(n) ==
  /\ n.key = skey /\ skey = c_key[n.cl] /\ n.cl \in Clients
  /\ c_key' = c_key /\ skey' = skey
  /\ n.iv \in Nat /\ n.from \in Nat /\ n.len \in Nat
  /\ Results' = Results \cup {n}
  /\ \A m \in Results : m.key = skey => m.iv < n.iv /\ m.from + m.len <= n.from
  /\ pc' # "idle" => consumed' = n.from + n.len

\* Before a command is run there is no result under its key.
LEMMA FirstResult ==
  ASSUME TypeInv, SafetyInv, OwnerInv, NEW m \in net, NEW t, Decrypted(m, t)
  PROVE  \A n \in Results : n.key # skey
  <1>1. /\ m.cl \in Clients /\ skey = c_key[m.cl] /\ skey # NoKey
        /\ runs[m.cl] = 0
    BY AcceptedCommand
  <1>2. SUFFICES ASSUME NEW n \in Results, n.key = skey PROVE FALSE
    OBVIOUS
  <1>3. n.cl \in Clients /\ n.key # NoKey
    BY ResultTypes
  <1>4. n.cl = m.cl
    BY <1>1, <1>2, <1>3 DEF OwnerInv
  <1>5. runs[n.cl] > 0
    BY DEF SafetyInv, ResultInv, Results
  <1> QED
    BY <1>1, <1>4, <1>5

\* The results a step may add.
LEMMA ResultsStep ==
  ASSUME TypeInv, TypeInv', SafetyInv, ChildInv, ChildInv', OwnerInv,
         OutputInv, [Next]_vars
  PROVE  Results' = Results \/ \E n : NewResult(n)
  <1>g. net \subseteq net'
    <2>1. CASE ServerStep
      <3>1. CASE ServerHandler
        BY ZenonT(30), <3>1 DEF ServerHandler, handle_ping, handle_set_username,
           handle_get_prime, handle_send_a, handle_send_auth,
           send_cmd_refused, send_cmd_normal, send_cmd_normal_failed,
           send_cmd_background, send_cmd_ignored, Send
      <3>2. CASE ServerLoop
        BY <3>2 DEF ServerLoop, cmd_select, cmd_break, cmd_send, cmd_expired,
           cmd_kill, cmd_done, ead_encrypt_message, Send, wireVars
      <3>3. CASE Kids \/ instance_handle_sigchld \/ restart_server
        BY <3>3 DEF Kids, ChildWrite, ChildExit, instance_handle_sigchld,
           restart_server, wireVars
      <3> QED
        BY <2>1, <3>1, <3>2, <3>3 DEF ServerStep
    <2>2. ASSUME NEW c \in Clients, ClientStep(c)
          PROVE  net \subseteq net'
      BY <2>2 DEF ClientStep, ClientReceive, send_ping, send_packet_timeout,
         handle_pong_listing, handle_pong, handle_ack, handle_prime, handle_b,
         handle_b_failed, handle_done_auth_only, handle_done_auth,
         handle_cmd_data, Send, wireVars
    <2> QED
      BY <2>1, <2>2 DEF Next, vars, wireVars
  <1>t. /\ \A m \in Results : m.key = skey => m.iv <= ead_tx_iv
        /\ \A m \in Results : m.iv \in Nat
        /\ ead_tx_iv \in Nat
    BY ResultTypes DEF SafetyInv, ResultInv, Results, TypeInv, TypeOK,
       AuthTypeOK
  <1>1. CASE cmd_send \/ cmd_done
    <2>1. PICK iv \in ead_get_tx_iv(ead_tx_iv), len \in Nat, d \in BOOLEAN :
            /\ net' = net \cup {Result(iv, len, d)}
            /\ pc' # "idle" => consumed' = consumed + len
      BY <1>1 DEF cmd_send, cmd_done, ead_encrypt_message, Send, LeaveHandler,
         TypeInv, TypeOK, LoopTypeOK
    <2> DEFINE n == Result(iv, len, d)
    <2>2. /\ n.type = EAD_TYPE_RESULT_CMD /\ n.key = skey /\ n.cl = pkt.cl
          /\ n.iv = iv /\ n.from = consumed /\ n.len = len
      BY DEF Result
    <2>n. net' = net \cup {n}
      BY <2>1
    <2> HIDE DEF n
    <2>3. Results' = Results \cup {n}
      BY <2>n, <2>2 DEF Results
    <2>4. pc # "idle"
      BY <1>1 DEF cmd_send, cmd_done
    <2>5. pkt.cl \in Clients /\ skey = c_key[pkt.cl] /\ consumed \in Nat
      BY <2>4 DEF OwnerInv, TypeInv, TypeOK, SetWhenUsed, LoopTypeOK, CmdMsg
    <2>6. c_key' = c_key /\ skey' = skey
      <3>1. ~\E c \in Clients : ClientStep(c) /\ UNCHANGED serverVars
        <4>1. PICK x \in ead_get_tx_iv(ead_tx_iv) : ead_tx_iv' = x
          BY <1>1 DEF cmd_send, cmd_done, ead_encrypt_message
        <4>2. x \in Nat /\ x > ead_tx_iv
          BY <1>t, TxIvType
        <4> QED
          BY <1>t, <4>1, <4>2 DEF serverVars, cryptVars
      <3>2. UNCHANGED clientVars
        BY <3>1 DEF Next, vars
      <3> QED
        BY <1>1, <3>2 DEF clientVars, cmd_send, cmd_done
    <2>7. iv \in Nat /\ iv > ead_tx_iv
      BY <1>t, TxIvType
    <2>8. \A m \in Results :
            m.key = skey => m.iv < n.iv /\ m.from + m.len <= n.from
      BY <1>t, <2>2, <2>4, <2>7 DEF OutputInv
    <2> QED
      BY <2>1, <2>2, <2>3, <2>5, <2>6, <2>7, <2>8 DEF NewResult
  <1>2. ASSUME NEW m \in net, send_cmd_background(m), UNCHANGED clientVars
        PROVE  \E n : NewResult(n)
    <2>1. PICK iv \in ead_get_tx_iv(ead_tx_iv) :
            Send([type |-> EAD_TYPE_RESULT_CMD, cl |-> m.cl, nid |-> Nid,
                  sid |-> m.sid, key |-> skey, iv |-> iv, from |-> 0,
                  len |-> 0, done |-> TRUE, job |-> npid + 1])
      BY <1>2 DEF send_cmd_background
    <2> DEFINE n == [type |-> EAD_TYPE_RESULT_CMD, cl |-> m.cl, nid |-> Nid,
                     sid |-> m.sid, key |-> skey, iv |-> iv, from |-> 0,
                     len |-> 0, done |-> TRUE, job |-> npid + 1]
    <2>2. /\ net' = net \cup {n} /\ n.type = EAD_TYPE_RESULT_CMD
          /\ n.key = skey /\ n.cl = m.cl /\ n.iv = iv /\ n.from = 0
          /\ n.len = 0
      BY <2>1 DEF Send
    <2> HIDE DEF n
    <2>3. Results' = Results \cup {n}
      BY <2>2 DEF Results
    <2>4. Decrypted(m, {EAD_CMD_BACKGROUND})
      BY <1>2 DEF send_cmd_background
    <2>5. m.cl \in Clients /\ skey = c_key[m.cl] /\ pc = "idle"
      BY <2>4, AcceptedCommand
    <2>6. \A x \in Results : x.key # skey
      BY <2>4, FirstResult
    <2>7. UNCHANGED <<skey, c_key, pc>>
      BY <1>2 DEF send_cmd_background, loopVars, clientVars
    <2>8. iv \in Nat
      BY <1>t, TxIvType
    <2> QED
      BY <2>2, <2>3, <2>5, <2>6, <2>7, <2>8 DEF NewResult
  <1>3. ASSUME NEW n \in net', n \notin net, n.type = EAD_TYPE_RESULT_CMD
        PROVE  cmd_send \/ cmd_done \/ \E m \in net : send_cmd_background(m)
    BY <1>3, MessagesStep DEF ChildInv, ProcessInv, NewMessage
  <1>4. ASSUME NEW m \in net, send_cmd_background(m)
        PROVE  UNCHANGED clientVars
    <2>1. ead_tx_iv' # ead_tx_iv
      BY <1>4, <1>t, TxIvType DEF send_cmd_background
    <2> QED
      BY <2>1 DEF Next, vars, serverVars, cryptVars
  <1> QED
    BY <1>1, <1>2, <1>3, <1>4, <1>g DEF Results

\* Keys and results stay with their owners.
LEMMA OwnerStep ==
  ASSUME TypeInv, TypeInv', SafetyInv, OwnerInv, [Next]_vars,
         Results' = Results \/ \E n : NewResult(n)
  PROVE  OwnerInv'
  <1>k. \A c \in Clients :
          c_key'[c] = c_key[c] \/ (c_key[c] = NoKey /\ c_key'[c].a = c)
    BY KeysKept
  <1>1. \A c \in Clients : c_key'[c] # NoKey => c_key'[c].a = c
    BY <1>k DEF OwnerInv
  <1>2. \A m \in Results : m.key = c_key'[m.cl]
    BY <1>k, ResultTypes DEF OwnerInv
  <1>3. \A m \in Results' : m.key = c_key'[m.cl]
    BY <1>2 DEF NewResult
  <1>4. ASSUME pc' # "idle" PROVE skey' = c_key'[pkt'.cl]
    <2>1. ASSUME NEW m \in net, send_cmd_normal(m)
          PROVE  skey' = c_key'[pkt'.cl]
      <3>1. /\ m.cl \in Clients /\ skey = c_key[m.cl] /\ skey # NoKey
            /\ pkt' = m /\ skey' = skey
        BY <2>1, AcceptedCommand DEF send_cmd_normal
      <3> QED
        BY <1>k, <3>1
    <2>2. CASE ~\E m \in net : send_cmd_normal(m)
      <3>1. pc # "idle" /\ skey' = skey /\ pkt' = pkt
        BY <1>4, <2>2, LoopKept
      <3>2. pkt.cl \in Clients /\ skey \in Key /\ NoKey \notin Key
        BY <3>1, WireAssumption DEF TypeInv, SetWhenUsed, CmdMsg, Key, Hash
      <3> QED
        BY <1>k, <3>1, <3>2 DEF OwnerInv
    <2> QED
      BY <2>1, <2>2
  <1> QED
    BY <1>1, <1>3, <1>4 DEF OwnerInv

\* Results and the rest of the pipe stay in order.
LEMMA OutputStep ==
  ASSUME TypeInv, TypeInv', SafetyInv, OwnerInv, OutputInv, [Next]_vars,
         Results' = Results \/ \E n : NewResult(n)
  PROVE  OutputInv'
  <1>t. \A m \in Results : /\ m.iv \in Nat /\ m.from \in Nat /\ m.len \in Nat
    BY ResultTypes
  <1>1. \A m1, m2 \in Results' :
          m1.key = m2.key /\ m1.iv < m2.iv => m1.from + m1.len <= m2.from
    <2>1. ASSUME NEW n, NewResult(n), NEW m1 \in Results', NEW m2 \in Results',
                 m1.key = m2.key, m1.iv < m2.iv
          PROVE  m1.from + m1.len <= m2.from
      <3>1. Results' = Results \cup {n} /\ n.iv \in Nat /\ n.key = skey
        BY <2>1 DEF NewResult
      <3>2. CASE m1 \in Results /\ m2 \in Results
        BY <2>1, <3>2 DEF OutputInv
      <3>3. CASE m1 \in Results /\ m2 = n
        BY <2>1, <3>1, <3>3 DEF NewResult
      <3>4. CASE m1 = n /\ m2 \in Results
        <4>1. m2.iv < n.iv /\ m2.iv \in Nat
          BY <1>t, <2>1, <3>1, <3>4 DEF NewResult
        <4> QED
          BY <2>1, <3>1, <3>4, <4>1
      <3>5. CASE m1 = n /\ m2 = n
        BY <2>1, <3>1, <3>5
      <3> QED
        BY <3>1, <3>2, <3>3, <3>4, <3>5
    <2> QED
      BY <2>1 DEF OutputInv
  <1>2. ASSUME pc' # "idle", NEW m \in Results', m.key = skey'
        PROVE  m.from + m.len <= consumed'
    <2>1. ASSUME NEW n, NewResult(n)
          PROVE  m.from + m.len <= consumed'
      <3>1. /\ consumed' = n.from + n.len /\ n.from \in Nat /\ n.len \in Nat
            /\ Results' = Results \cup {n} /\ skey' = skey
        BY <1>2, <2>1 DEF NewResult
      <3>2. CASE m \in Results
        BY <1>2, <1>t, <2>1, <3>1, <3>2 DEF NewResult
      <3>3. CASE m = n
        BY <3>1, <3>3
      <3> QED
        BY <3>1, <3>2, <3>3
    <2>2. CASE Results' = Results
      <3>1. ASSUME NEW x \in net, send_cmd_normal(x)
            PROVE  FALSE
        <4>1. Decrypted(x, {EAD_CMD_NORMAL}) /\ skey' = skey
          BY <3>1 DEF send_cmd_normal
        <4> QED
          BY <1>2, <2>2, <4>1, FirstResult
      <3>2. /\ pc # "idle" /\ skey' = skey
            /\ consumed' = consumed \/ cmd_send
        BY <1>2, <3>1, LoopKept
      <3>3. m.from + m.len <= consumed
        BY <1>2, <2>2, <3>2 DEF OutputInv
      <3>4. consumed' = consumed + bytes \/ consumed' = consumed
        BY <3>2 DEF cmd_send
      <3> QED
        BY <1>2, <1>t, <2>2, <3>3, <3>4 DEF TypeInv, TypeOK, LoopTypeOK
    <2> QED
      BY <2>1, <2>2
  <1> QED
    BY <1>1, <1>2 DEF OutputInv

\* What the concatenation of two sequences holds.
LEMMA Concatenation ==
  ASSUME NEW s \in Seq(Nat), NEW t \in Seq(Nat)
  PROVE  /\ Len(s) \in Nat
         /\ DOMAIN (s \o t) = 1..(Len(s) + Len(t))
         /\ \A i \in 1..Len(s) : (s \o t)[i] = s[i]
         /\ \A i \in Len(s)+1 .. Len(s)+Len(t) :
              i - Len(s) \in 1..Len(t) /\ (s \o t)[i] = t[i - Len(s)]
  OBVIOUS

\* A client writes a result behind what it has written, or nothing.
LEMMA ConsoleStep ==
  ASSUME TypeInv, TypeInv', SafetyInv, OrderInv, OwnerInv', OutputInv',
         [Next]_vars, Results' = Results \/ \E n : NewResult(n)
  PROVE  ConsoleInv' /\ ConsoleOrdered'
  <1> DEFINE Behind(c) ==
        \A i \in DOMAIN console'[c] :
          \E m \in Results' : /\ m.key = c_key'[c]
                              /\ m.iv <= c_rx_iv'[c]
                              /\ console'[c][i] <= m.from + m.len
      Sorted(c) == \A i, j \in DOMAIN console'[c] :
                     i < j => console'[c][i] < console'[c][j]
  <1>t. /\ c_key \in [Clients -> Key \cup {NoKey}]
        /\ c_rx_iv \in [Clients -> Nat]
        /\ console \in [Clients -> Seq(Nat)]
    BY DEF TypeInv, TypeOK, ClientTypeOK
  <1>r. Results \subseteq Results'
    BY DEF NewResult
  <1>m. \A m \in Results : /\ m.iv \in Nat /\ m.from \in Nat /\ m.len \in Nat
                           /\ m.key # NoKey
    BY ResultTypes
  <1>1. ASSUME NEW c \in Clients, c_key'[c] = c_key[c],
               console'[c] = console[c], c_rx_iv'[c] \in Nat,
               c_rx_iv'[c] >= c_rx_iv[c]
        PROVE  Behind(c) /\ Sorted(c)
    <2>1. Sorted(c)
      BY <1>1 DEF OrderInv, ConsoleOrdered
    <2>2. ASSUME NEW i \in DOMAIN console'[c]
          PROVE  \E m \in Results' : /\ m.key = c_key'[c]
                                     /\ m.iv <= c_rx_iv'[c]
                                     /\ console'[c][i] <= m.from + m.len
      <3>1. PICK m \in Results : /\ m.key = c_key[c]
                                 /\ m.iv <= c_rx_iv[c]
                                 /\ console[c][i] <= m.from + m.len
        BY <1>1, <2>2 DEF OrderInv, ConsoleInv
      <3>2. m.iv <= c_rx_iv'[c]
        BY <1>1, <1>t, <1>m, <3>1
      <3> QED
        BY <1>1, <1>r, <3>1, <3>2
    <2> QED
      BY <2>1, <2>2
  <1>2. ASSUME NEW c \in Clients, c_key[c] = NoKey, console'[c] = console[c]
        PROVE  Behind(c) /\ Sorted(c)
    <2>1. DOMAIN console'[c] = {}
      BY <1>2, <1>m DEF OrderInv, ConsoleInv
    <2> QED
      BY <2>1
  <1>3. ASSUME NEW c \in Clients, NEW m \in net, handle_cmd_data(c, m)
        PROVE  Behind(c) /\ Sorted(c)
    <2>1. m \in Results
      BY <1>3 DEF handle_cmd_data, Response, Results
    <2>t. m.iv \in Nat /\ m.from \in Nat /\ m.len \in Nat
      BY <1>m, <2>1
    <2>2. PICK d \in ead_decrypt_message(c_key[c], c_rx_iv[c], m) :
            /\ c_rx_iv' = [c_rx_iv EXCEPT ![c] = d.rx]
            /\ d.ok => console' = [console EXCEPT ![c] = @ \o Chunks(m)]
            /\ ~d.ok => UNCHANGED console
      BY <1>3 DEF handle_cmd_data
    <2>3. /\ d.rx \in Nat /\ d.rx >= c_rx_iv[c]
          /\ d.ok => m.key = c_key[c] /\ m.iv > c_rx_iv[c] /\ d.rx = m.iv
      BY <1>t, <2>t, DecryptType
    <2>4. c_key' = c_key /\ c_rx_iv'[c] = d.rx
      BY <1>3, <1>t, <2>2 DEF handle_cmd_data
    <2>5. CASE ~d.ok
      BY <1>1, <2>2, <2>3, <2>4, <2>5
    <2>6. CASE d.ok
      <3> DEFINE old == console[c]
                 new == Chunks(m)
      <3>1. console'[c] = old \o new /\ old \in Seq(Nat)
        BY <1>t, <2>2, <2>6
      <3>2. /\ new \in Seq(Nat) /\ Len(new) = m.len
            /\ \A i \in 1..m.len : new[i] = m.from + i
        BY <2>t DEF Chunks
      <3> HIDE DEF old, new
      <3>3. /\ Len(old) \in Nat
            /\ DOMAIN console'[c] = 1..(Len(old) + m.len)
            /\ \A i \in 1..Len(old) : console'[c][i] = old[i]
            /\ \A i \in Len(old)+1 .. Len(old)+m.len :
                 console'[c][i] = m.from + (i - Len(old))
        <4>1. /\ Len(old) \in Nat
              /\ DOMAIN (old \o new) = 1..(Len(old) + Len(new))
              /\ \A i \in 1..Len(old) : (old \o new)[i] = old[i]
              /\ \A i \in Len(old)+1 .. Len(old)+Len(new) :
                   /\ i - Len(old) \in 1..Len(new)
                   /\ (old \o new)[i] = new[i - Len(old)]
          BY <3>1, <3>2, Concatenation
        <4>2. \A i \in Len(old)+1 .. Len(old)+m.len :
                (old \o new)[i] = m.from + (i - Len(old))
          BY <3>2, <4>1
        <4> QED
          BY <3>1, <3>2, <4>1, <4>2
      <3>4. \A i \in 1..Len(old) : /\ old[i] \in Nat
                                   /\ i \in DOMAIN console[c]
        BY <3>1 DEF old
      <3>5. \A i \in 1..Len(old) : old[i] <= m.from
        <4> SUFFICES ASSUME NEW i \in 1..Len(old) PROVE old[i] <= m.from
          OBVIOUS
        <4>1. PICK x \in Results : /\ x.key = c_key[c]
                                   /\ x.iv <= c_rx_iv[c]
                                   /\ old[i] <= x.from + x.len
          BY <3>4 DEF OrderInv, ConsoleInv, old
        <4>2. x.iv < m.iv /\ x.key = m.key
          BY <1>t, <1>m, <2>t, <2>3, <2>6, <4>1
        <4>3. x.from + x.len <= m.from
          BY <2>1, <4>2 DEF OrderInv, OutputInv
        <4> QED
          BY <1>m, <2>t, <3>4, <4>1, <4>3
      <3>6. Sorted(c)
        <4>1. \A i, j \in 1..Len(old) : i < j => old[i] < old[j]
          BY <3>4 DEF OrderInv, ConsoleOrdered, old
        <4> SUFFICES ASSUME NEW i \in 1..(Len(old) + m.len),
                            NEW j \in 1..(Len(old) + m.len), i < j
                     PROVE  console'[c][i] < console'[c][j]
          BY <3>3
        <4>2. CASE j <= Len(old)
          <5>1. i \in 1..Len(old) /\ j \in 1..Len(old)
            BY <2>t, <3>3, <4>2
          <5> QED
            BY <3>3, <4>1, <5>1
        <4>3. CASE i <= Len(old) /\ j > Len(old)
          BY SMTT(20), <2>t, <3>3, <3>4, <3>5, <4>3
        <4>4. CASE i > Len(old)
          <5>1. /\ i \in Len(old)+1 .. Len(old)+m.len
                /\ j \in Len(old)+1 .. Len(old)+m.len
            BY <2>t, <3>3, <4>4
          <5> QED
            BY <2>t, <3>3, <5>1
        <4> QED
          BY <2>t, <3>3, <4>2, <4>3, <4>4
      <3>7. Behind(c)
        <4>1. m \in Results' /\ m.key = c_key'[c] /\ m.iv <= c_rx_iv'[c]
          BY <1>r, <2>1, <2>t, <2>3, <2>4, <2>6
        <4>2. \A i \in 1..(Len(old) + m.len) :
                console'[c][i] <= m.from + m.len
          <5> SUFFICES ASSUME NEW i \in 1..(Len(old) + m.len)
                       PROVE  console'[c][i] <= m.from + m.len
            OBVIOUS
          <5>1. CASE i <= Len(old)
            BY <2>t, <3>3, <3>4, <3>5, <5>1
          <5>2. CASE i > Len(old)
            BY <2>t, <3>3, <5>2
          <5> QED
            BY <2>t, <3>3, <5>1, <5>2
        <4> QED
          BY <3>3, <4>1, <4>2
      <3> QED
        BY <3>6, <3>7
    <2> QED
      BY <2>5, <2>6
  <1> HIDE DEF Behind, Sorted
  <1>q. ASSUME NEW c \in Clients, c_key'[c] = c_key[c],
               console'[c] = console[c], c_rx_iv'[c] = c_rx_iv[c]
        PROVE  Behind(c) /\ Sorted(c)
    <2>1. c_rx_iv'[c] \in Nat /\ c_rx_iv'[c] >= c_rx_iv[c]
      BY <1>q, <1>t
    <2> QED
      BY <1>1, <1>q, <2>1
  <1>4. ASSUME NEW x \in Clients, ClientStep(x), NEW c \in Clients
        PROVE  Behind(c) /\ Sorted(c)
    <2>1. CASE UNCHANGED <<c_key, c_rx_iv, console>>
      BY <1>q, <2>1
    <2>2. ASSUME NEW m \in net, handle_b(x, m)
          PROVE  Behind(c) /\ Sorted(c)
      <3>1. /\ c_key' = [c_key EXCEPT ![x] = t_clientgetkey(x, m.b)]
            /\ c_rx_iv' = [c_rx_iv EXCEPT ![x] = IvBase]
            /\ phase[x] = "b" /\ UNCHANGED console
        BY <2>2 DEF handle_b
      <3>2. c_key[x] = NoKey
        BY <3>1 DEF SafetyInv, KeyInv
      <3>3. CASE c = x
        BY <1>2, <3>1, <3>2, <3>3
      <3>4. CASE c # x
        <4>1. c_key'[c] = c_key[c] /\ c_rx_iv'[c] = c_rx_iv[c]
          BY <1>t, <3>1, <3>4
        <4> QED
          BY <1>q, <3>1, <4>1
      <3> QED
        BY <3>3, <3>4
    <2>3. ASSUME NEW m \in net, handle_cmd_data(x, m)
          PROVE  Behind(c) /\ Sorted(c)
      <3>1. CASE c = x
        BY <1>3, <2>3, <3>1
      <3>2. CASE c # x
        <4>1. c_key' = c_key /\ c_rx_iv'[c] = c_rx_iv[c]
              /\ console'[c] = console[c]
          BY <1>t, <2>3, <3>2 DEF handle_cmd_data
        <4> QED
          BY <1>q, <4>1
      <3> QED
        BY <3>1, <3>2
    <2> QED
      BY <1>4, <2>1, <2>2, <2>3 DEF ClientStep, ClientReceive, send_ping,
         send_packet_timeout, handle_pong_listing, handle_pong, handle_ack,
         handle_prime, handle_b_failed, handle_done_auth_only,
         handle_done_auth
  <1>5. ASSUME UNCHANGED clientVars, NEW c \in Clients
        PROVE  Behind(c) /\ Sorted(c)
    BY <1>5, <1>q DEF clientVars
  <1>6. \A c \in Clients : Behind(c) /\ Sorted(c)
    BY <1>4, <1>5 DEF Next, vars
  <1> QED
    BY <1>6 DEF ConsoleInv, ConsoleOrdered, Behind, Sorted

\* The client's IV window (ead-crypt.c:75) keeps the console in the order
\* in which handle_send_cmd read the command's output (ead.c:560).
THEOREM ConsoleOrderedCorrect == Spec => []ConsoleOrdered
  <1>1. Init => OrderInv
    BY DEF Init, ServerInit, ClientInit, OrderInv, OwnerInv, OutputInv,
           ConsoleInv, ConsoleOrdered, Results
  <1>2. /\ TypeInv /\ SafetyInv /\ ChildInv
        /\ TypeInv' /\ ChildInv'
        /\ OrderInv /\ [Next]_vars
        => OrderInv'
    <2> SUFFICES ASSUME TypeInv, SafetyInv, ChildInv, TypeInv', ChildInv',
                        OrderInv, [Next]_vars
                 PROVE  OrderInv'
      OBVIOUS
    <2>1. Results' = Results \/ \E n : NewResult(n)
      BY ResultsStep DEF OrderInv
    <2>2. OwnerInv' /\ OutputInv'
      BY <2>1, OwnerStep, OutputStep DEF OrderInv
    <2> QED
      BY <2>1, <2>2, ConsoleStep DEF OrderInv
  <1>3. OrderInv => ConsoleOrdered
    BY DEF OrderInv
  <1> QED
    BY <1>1, <1>2, <1>3, Invariance, ChildInvariance, PTL DEF Spec
=============================================================================
