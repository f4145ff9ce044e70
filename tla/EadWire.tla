------------------------------- MODULE EadWire -------------------------------
(***************************************************************************)
(* The wire of the Emergency Access Daemon (package/network/services/ead): *)
(* message types of ead.h, the message records, and the broadcast UDP      *)
(* network between the clients and the daemon.                             *)
(*                                                                         *)
(* The network is the set of every message ever sent.  A message that is   *)
(* never taken is lost, one taken late is reordered, and, when Duplicates  *)
(* is TRUE, one may be taken any number of times.                          *)
(*                                                                         *)
(* Cryptographic values are abstracted to what equality tells apart: the   *)
(* ephemeral A of a client process is the client, the ephemeral B of a     *)
(* server session is the session's number, a crypt string is the pair of   *)
(* password and salt, and a session key is the tuple it is derived from.   *)
(***************************************************************************)
EXTENDS Naturals

CONSTANTS Clients,    \* client processes, each runs ead-client once
          Users,      \* user names
          Passwords,  \* clear-text passwords
          Salts,      \* salts of crypt strings ("$1$...")
          Nids,       \* node ids
          Broadcast,  \* node id 0xffff
          Sids,       \* instance numbers a message's sid may name
          Duplicates, \* may a message be delivered more than once?
          Failures,   \* what may fail: "memory", "key" (the agreement on
                      \* one), "fork" (or pipe)
          NoUser, NoPass, NoSalt, NoKey   \* not given, or not yet set

ASSUME WireAssumption == /\ Broadcast \notin Nids
                         /\ Sids \subseteq Nat
                         /\ 0 \in Sids
                         /\ Duplicates \in BOOLEAN
                         /\ Failures \subseteq {"memory", "key", "fork"}
                         /\ NoUser \notin Users
                         /\ NoPass \notin Passwords
                         /\ NoSalt \notin Salts
                         /\ NoKey \notin [a : Clients, b : Nat, user : Users,
                                          hash : [pw : Passwords, salt : Salts]]

VARIABLES net,        \* every message sent so far
          delivered   \* messages already taken (tracked without duplicates)

wireVars == <<net, delivered>>

(***************************************************************************)
(* enum ead_type.  The type of a response is the request's plus one.       *)
(***************************************************************************)
EAD_TYPE_PING         == 0
EAD_TYPE_PONG         == 1
EAD_TYPE_SET_USERNAME == 2
EAD_TYPE_ACK_USERNAME == 3
EAD_TYPE_GET_PRIME    == 4
EAD_TYPE_PRIME        == 5
EAD_TYPE_SEND_A       == 6
EAD_TYPE_SEND_B       == 7
EAD_TYPE_SEND_AUTH    == 8
EAD_TYPE_DONE_AUTH    == 9
EAD_TYPE_SEND_CMD     == 10
EAD_TYPE_RESULT_CMD   == 11

\* enum ead_cmd_type
EAD_CMD_NORMAL     == 0
EAD_CMD_BACKGROUND == 1

\* What md5_crypt returns: equal strings only for equal password and salt.
Hash == [pw : Passwords, salt : Salts]
md5_crypt(pw, salt) == [pw |-> pw, salt |-> salt]

\* The SRP session key, by the values both ends compute it from.
Key == [a : Clients, b : Nat, user : Users, hash : Hash]

(***************************************************************************)
(* The messages, struct ead_msg.  "cl" stands for the client's address and *)
(* port: the source of a request, the destination of a response.  The job  *)
(* of a RESULT_CMD is a history field, the child process it reports on.    *)
(***************************************************************************)
HeaderOnly == [type : {EAD_TYPE_PING, EAD_TYPE_PONG, EAD_TYPE_ACK_USERNAME,
                       EAD_TYPE_GET_PRIME},
               cl : Clients, nid : Nids \cup {Broadcast}, sid : Sids]
UserMsg    == [type : {EAD_TYPE_SET_USERNAME},
               cl : Clients, nid : Nids, sid : Sids, user : Users]
SaltMsg    == [type : {EAD_TYPE_PRIME},
               cl : Clients, nid : Nids, sid : Sids, ext_salt : Salts]
NumberAMsg == [type : {EAD_TYPE_SEND_A},
               cl : Clients, nid : Nids, sid : Sids, a : Clients]
NumberBMsg == [type : {EAD_TYPE_SEND_B},
               cl : Clients, nid : Nids, sid : Sids, b : Nat]
AuthMsg    == [type : {EAD_TYPE_SEND_AUTH, EAD_TYPE_DONE_AUTH},
               cl : Clients, nid : Nids, sid : Sids, proof : Key]
CmdMsg     == [type : {EAD_TYPE_SEND_CMD},
               cl : Clients, nid : Nids, sid : Sids,
               key : Key, iv : Nat, cmdtype : Nat]
ResultMsg  == [type : {EAD_TYPE_RESULT_CMD},
               cl : Clients, nid : Nids, sid : Sids,
               key : Key, iv : Nat, from : Nat, len : Nat, done : BOOLEAN,
               job : Nat]

Message == HeaderOnly \cup UserMsg \cup SaltMsg \cup NumberAMsg
           \cup NumberBMsg \cup AuthMsg \cup CmdMsg \cup ResultMsg

(***************************************************************************)
(* Sending and taking messages.                                            *)
(***************************************************************************)
Header(t, c, n, s) == [type |-> t, cl |-> c, nid |-> n, sid |-> s]

Send(m) == net' = net \cup {m}

Deliverable(m) == Duplicates \/ m \notin delivered

Deliver(m) == delivered' = IF Duplicates THEN delivered
                                         ELSE delivered \cup {m}
=============================================================================
