------------------------------ MODULE EadClient ------------------------------
(***************************************************************************)
(* The client processes, ead-client.c.  main() sends one request after the *)
(* other; send_packet waits for the response of the matching type and node *)
(* until it times out, and a step that gets no response ends the process.  *)
(* Taking a response and sending the next request is one step: nothing     *)
(* outside the process can see the state in between.                       *)
(***************************************************************************)
EXTENDS EadWire, EadCrypt, Sequences

CONSTANTS Args,        \* the command line of each client
          Impatient    \* clients that may time out

\* nid is the <node> argument, Broadcast when there is none; command tells
\* whether there is a third argument; send_command always sends type NORMAL,
\* the other types stand for other programs that speak the protocol.
ASSUME ClientAssumption ==
  /\ Args \in [Clients -> [nid : Nids \cup {Broadcast},
                           username : Users \cup {NoUser},
                           password : Passwords \cup {NoPass},
                           command : BOOLEAN,
                           cmdtype : Nat]]
  /\ Impatient \subseteq Clients

VARIABLES phase,    \* the response awaited, or how the process ended
          c_salt,   \* pw_salt
          c_key,    \* key given to ead_set_key
          c_rx_iv,  \* the client's ead_rx_iv
          console   \* the chunks of output written to stdout

clientVars == <<phase, c_salt, c_key, c_rx_iv, console>>

Phases == {"new", "pong", "listed", "ack", "prime", "b", "auth", "result",
           "ok", "failed"}
Waiting == {"pong", "listed", "ack", "prime", "b", "auth", "result"}

ClientInit ==
  /\ phase = [c \in Clients |-> "new"]
  /\ c_salt = [c \in Clients |-> NoSalt]
  /\ c_key = [c \in Clients |-> NoKey]
  /\ c_rx_iv = [c \in Clients |-> IvBase]
  /\ console = [c \in Clients |-> <<>>]

\* send_ping, with sid 0.
send_ping(c) ==
  /\ phase[c] = "new"
  /\ phase' = [phase EXCEPT ![c] = "pong"]
  /\ Send(Header(EAD_TYPE_PING, c, Args[c].nid, 0))
  /\ UNCHANGED <<delivered, c_salt, c_key, c_rx_iv, console>>

\* The tests of send_packet on a response: our port, the node id, the type.
Response(c, m, type) ==
  /\ m \in net
  /\ Deliverable(m)
  /\ m.type = type
  /\ m.cl = c
  /\ Args[c].nid # Broadcast => m.nid = Args[c].nid
  /\ Deliver(m)

\* Without a node the client lists every answer until it times out; without a
\* user or password it stops here.
handle_pong_listing(c, m) ==
  /\ phase[c] \in {"pong", "listed"}
  /\ Response(c, m, EAD_TYPE_PONG)
  /\ phase' = [phase EXCEPT ![c] =
                 IF Args[c].nid = Broadcast THEN "listed" ELSE "ok"]
  /\ \/ Args[c].nid = Broadcast
     \/ Args[c].username = NoUser
     \/ Args[c].password = NoPass
  /\ UNCHANGED <<net, c_salt, c_key, c_rx_iv, console>>

\* The request buffer is the response's: its node id and sid are kept.
NextHeader(t, m) == Header(t, m.cl, m.nid, m.sid)

\* send_username
handle_pong(c, m) ==
  /\ phase[c] = "pong"
  /\ Response(c, m, EAD_TYPE_PONG)
  /\ Args[c].nid # Broadcast
  /\ Args[c].username # NoUser
  /\ Args[c].password # NoPass
  /\ phase' = [phase EXCEPT ![c] = "ack"]
  /\ Send([type |-> EAD_TYPE_SET_USERNAME, cl |-> c, nid |-> m.nid,
           sid |-> m.sid, user |-> Args[c].username])
  /\ UNCHANGED <<c_salt, c_key, c_rx_iv, console>>

\* handle_none, then get_prime
handle_ack(c, m) ==
  /\ phase[c] = "ack"
  /\ Response(c, m, EAD_TYPE_ACK_USERNAME)
  /\ phase' = [phase EXCEPT ![c] = "prime"]
  /\ Send(NextHeader(EAD_TYPE_GET_PRIME, m))
  /\ UNCHANGED <<c_salt, c_key, c_rx_iv, console>>

\* The random A of a client process, by the process.
t_clientgenexp(c) == c

\* handle_prime, then send_a
handle_prime(c, m) ==
  /\ phase[c] = "prime"
  /\ Response(c, m, EAD_TYPE_PRIME)
  /\ phase' = [phase EXCEPT ![c] = "b"]
  /\ c_salt' = [c_salt EXCEPT ![c] = m.ext_salt]
  /\ Send([type |-> EAD_TYPE_SEND_A, cl |-> c, nid |-> m.nid, sid |-> m.sid,
           a |-> t_clientgenexp(c)])
  /\ UNCHANGED <<c_key, c_rx_iv, console>>

\* t_clientpasswd on the crypt string of our password under the server's salt,
\* and t_clientgetkey on the server's B.
t_clientgetkey(c, b) ==
  [a |-> t_clientgenexp(c), b |-> b, user |-> Args[c].username,
   hash |-> md5_crypt(Args[c].password, c_salt[c])]

\* handle_b, then send_auth
handle_b(c, m) ==
  /\ phase[c] = "b"
  /\ Response(c, m, EAD_TYPE_SEND_B)
  /\ phase' = [phase EXCEPT ![c] = "auth"]
  /\ c_key' = [c_key EXCEPT ![c] = t_clientgetkey(c, m.b)]
  /\ c_rx_iv' = [c_rx_iv EXCEPT ![c] = IvBase]
  /\ Send([type |-> EAD_TYPE_SEND_AUTH, cl |-> c, nid |-> m.nid,
           sid |-> m.sid, proof |-> t_clientgetkey(c, m.b)])
  /\ UNCHANGED <<c_salt, console>>

\* t_clientgetkey finds no key: send_auth returns 0.
handle_b_failed(c, m) ==
  /\ "key" \in Failures
  /\ phase[c] = "b"
  /\ Response(c, m, EAD_TYPE_SEND_B)
  /\ phase' = [phase EXCEPT ![c] = "failed"]
  /\ UNCHANGED <<net, c_salt, c_key, c_rx_iv, console>>

\* handle_done_auth without a command to run
handle_done_auth_only(c, m) ==
  /\ phase[c] = "auth"
  /\ Response(c, m, EAD_TYPE_DONE_AUTH)
  /\ m.proof = c_key[c]
  /\ ~Args[c].command
  /\ phase' = [phase EXCEPT ![c] = "ok"]
  /\ UNCHANGED <<net, c_salt, c_key, c_rx_iv, console>>

\* handle_done_auth, then send_command: the first message under the key
handle_done_auth(c, m) ==
  /\ phase[c] = "auth"
  /\ Response(c, m, EAD_TYPE_DONE_AUTH)
  /\ m.proof = c_key[c]
  /\ Args[c].command
  /\ phase' = [phase EXCEPT ![c] = "result"]
  /\ \E iv \in ead_get_tx_iv(IvBase) :
       Send([type |-> EAD_TYPE_SEND_CMD, cl |-> c, nid |-> m.nid,
             sid |-> m.sid, key |-> c_key[c], iv |-> iv,
             cmdtype |-> Args[c].cmdtype])
  /\ UNCHANGED <<c_salt, c_key, c_rx_iv, console>>

\* The chunks a RESULT_CMD carries.
Chunks(m) == [i \in 1..m.len |-> m.from + i]

handle_cmd_data(c, m) ==
  /\ phase[c] = "result"
  /\ Response(c, m, EAD_TYPE_RESULT_CMD)
  /\ \E d \in ead_decrypt_message(c_key[c], c_rx_iv[c], m) :
       /\ c_rx_iv' = [c_rx_iv EXCEPT ![c] = d.rx]
       /\ IF d.ok
          THEN /\ console' = [console EXCEPT ![c] = @ \o Chunks(m)]
               /\ phase' = [phase EXCEPT ![c] = IF m.done THEN "ok" ELSE @]
          ELSE UNCHANGED <<console, phase>>
  /\ UNCHANGED <<net, c_salt, c_key>>

timeout_is_success(c) ==        \* mutant: a step without a response succeeds
  /\ c \in Impatient
  /\ phase[c] \in Waiting
  /\ phase' = [phase EXCEPT ![c] = "ok"]
  /\ UNCHANGED <<wireVars, c_salt, c_key, c_rx_iv, console>>

\* select() returns 0: the step failed, unless it was the listing of nodes.
send_packet_timeout(c) ==
  /\ c \in Impatient
  /\ phase[c] \in Waiting
  /\ phase' = [phase EXCEPT ![c] = IF @ = "listed" THEN "ok" ELSE "failed"]
  /\ UNCHANGED <<wireVars, c_salt, c_key, c_rx_iv, console>>

ClientReceive(c) ==
  \E m \in net : \/ handle_pong_listing(c, m)
                 \/ handle_pong(c, m)
                 \/ handle_ack(c, m)
                 \/ handle_prime(c, m)
                 \/ handle_b(c, m)
                 \/ handle_b_failed(c, m)
                 \/ handle_done_auth_only(c, m)
                 \/ handle_done_auth(c, m)
                 \/ handle_cmd_data(c, m)

ClientStep(c) == send_ping(c) \/ ClientReceive(c) \/ send_packet_timeout(c)
=============================================================================
