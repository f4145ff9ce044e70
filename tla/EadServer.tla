------------------------------ MODULE EadServer ------------------------------
(***************************************************************************)
(* One instance process of the Emergency Access Daemon, ead.c: the packet  *)
(* handlers of the authentication state machine, the execution of a        *)
(* command with its streaming loop, the SIGCHLD handler that runs between  *)
(* any two of its steps, and the kill and restart by the supervisor.       *)
(***************************************************************************)
EXTENDS EadWire, EadCrypt

CONSTANTS Nid,          \* this node's id
          InstanceId,   \* instance->id, the position of its -d option
          PasswdFile,   \* the usable lines of passwd_file: user -> crypt string
          BigEndian,    \* byte order of the device
          MaxTs,        \* bound: sessions opened (t_serveropenraw)
          MaxRounds,    \* bound: iterations of the streaming loop
          MaxOut,       \* bound: chunks of output a command writes
          MaxRestarts,  \* bound: restarts of the process
          NoPkt         \* no packet is being worked on

ASSUME ServerAssumption ==
  /\ Nid \in Nids
  /\ InstanceId \in Sids
  /\ DOMAIN PasswdFile \subseteq Users
  /\ PasswdFile \in [DOMAIN PasswdFile -> Hash]
  /\ BigEndian \in BOOLEAN
  /\ {MaxTs, MaxRounds, MaxOut, MaxRestarts} \subseteq Nat
  /\ NoPkt \notin Message

VARIABLES
  state,          \* request type the authentication expects next
  tpe,            \* what prepare_password found: user and crypt string
  ts,             \* open SRP session, 0 for NULL
  nts,            \* sessions opened so far (numbers the random B)
  B,              \* session the pointer B points into, 0 for NULL
  refused,        \* the session's check hash holds an A that was refused
  skey,           \* key last given to ead_set_key
  ead_rx_iv, ead_tx_iv,
  child_pending,  \* cleared by SIGCHLD
  sigchld,        \* SIGCHLD is pending
  alive,          \* child processes running
  zombies,        \* child processes dead and not yet reaped
  strays,         \* children left behind by the command that forked them
  npid,           \* processes forked so far (numbers the pids)
  pc,             \* where handle_send_cmd is, "idle" outside it
  pkt, pid,       \* the packet and the child it is working on
  bytes,          \* chunks read in this iteration
  rounds,         \* iterations done
  produced, consumed,  \* chunks written to, and read from, the pipe
  runs,           \* history: how often each client's command was started
  restarts        \* restarts so far

authVars  == <<state, tpe, ts, nts, B, refused>>
cryptVars == <<skey, ead_rx_iv, ead_tx_iv>>
kidVars   == <<child_pending, sigchld, alive, zombies, strays, npid>>
loopVars  == <<pc, pkt, pid, bytes, rounds, produced, consumed>>
histVars  == <<runs, restarts>>

NoHash == md5_crypt(NoPass, NoSalt)
NoVerifier == [user |-> NoUser, hash |-> NoHash]

ServerInit ==
  /\ state = EAD_TYPE_SET_USERNAME
  /\ tpe = NoVerifier
  /\ ts = 0 /\ nts = 0 /\ B = 0 /\ refused = FALSE
  /\ skey = NoKey
  /\ ead_rx_iv = IvBase /\ ead_tx_iv = IvBase
  /\ child_pending = FALSE /\ sigchld = FALSE
  /\ alive = {} /\ zombies = {} /\ strays = {} /\ npid = 0
  /\ pc = "idle" /\ pkt = NoPkt /\ pid = 0 /\ bytes = 0
  /\ rounds = 0 /\ produced = 0 /\ consumed = 0
  /\ runs = [c \in Clients |-> 0]
  /\ restarts = 0

(***************************************************************************)
(* handle_packet and the tests at the head of parse_message: the node id,  *)
(* the state the authentication is in, the instance named by the sid.  The *)
(* process takes packets one at a time: none while a command streams.      *)
(***************************************************************************)
Receive_any_state(m, type) ==   \* mutant: the state is not tested
  /\ pc = "idle"
  /\ m \in net
  /\ Deliverable(m)
  /\ m.type = type
  /\ m.nid \in {Broadcast, Nid}
  /\ type # EAD_TYPE_PING => m.sid = InstanceId
  /\ Deliver(m)

Receive(m, type) ==
  /\ pc = "idle"
  /\ m \in net
  /\ Deliverable(m)
  /\ m.type = type
  /\ m.nid \in {Broadcast, Nid}
  /\ type >= EAD_TYPE_GET_PRIME => state = type
  /\ type # EAD_TYPE_PING => m.sid = InstanceId
  /\ Deliver(m)

ReplyHeader_same_type(m) ==     \* mutant: the request's type is echoed
  Header(m.type, m.cl, Nid, m.sid)

\* The header parse_message puts on the response: our node id, the sid echoed.
ReplyHeader(m) == Header(m.type + 1, m.cl, Nid, m.sid)

handle_ping(m) ==
  /\ Receive(m, EAD_TYPE_PING)
  /\ Send(ReplyHeader(m))
  /\ UNCHANGED <<authVars, cryptVars, kidVars, loopVars, histVars>>

prepare_password_prefix(user) ==   \* mutant: another user's line matches
  LET line == CHOOSE u \in DOMAIN PasswdFile : u # user
  IN  [user |-> user, hash |-> PasswdFile[line]]

\* The name, already copied, with the crypt string of the user's line of the
\* password file; without such a line the string is that of an earlier user.
prepare_password(user) ==
  [user |-> user,
   hash |-> IF user \in DOMAIN PasswdFile THEN PasswdFile[user] ELSE tpe.hash]

(***************************************************************************)
(* The old session is closed first, the response goes out before           *)
(* set_state(GET_PRIME) looks the user up, and a user that is not found,   *)
(* or a session that cannot be opened, leaves the state at SET_USERNAME.   *)
(***************************************************************************)
handle_set_username(m) ==
  /\ Receive(m, EAD_TYPE_SET_USERNAME)
  /\ Send(ReplyHeader(m))
  /\ tpe' = prepare_password(m.user)
  /\ \/ /\ m.user \in DOMAIN PasswdFile
        /\ nts < MaxTs
        /\ nts' = nts + 1
        /\ ts' = nts + 1
        /\ state' = EAD_TYPE_GET_PRIME
     \/ /\ m.user \in DOMAIN PasswdFile => "memory" \in Failures
        /\ ts' = 0
        /\ state' = EAD_TYPE_SET_USERNAME
        /\ nts' = nts
  /\ refused' = FALSE
  /\ UNCHANGED <<B, cryptVars, kidVars, loopVars, histVars>>

\* The random B of a session, by the session's number.
t_servergenexp == ts

\* set_state(SEND_A) computes the session's B.
handle_get_prime(m) ==
  /\ Receive(m, EAD_TYPE_GET_PRIME)
  /\ Send([type |-> EAD_TYPE_PRIME, cl |-> m.cl, nid |-> Nid, sid |-> m.sid,
           ext_salt |-> tpe.hash.salt])
  /\ B' = t_servergenexp
  /\ state' = EAD_TYPE_SEND_A
  /\ UNCHANGED <<tpe, ts, nts, refused, cryptVars, kidVars, loopVars, histVars>>

\* t_servergetkey, from the session, its verifier and the client's A.
t_servergetkey(a) == [a |-> a, b |-> ts, user |-> tpe.user, hash |-> tpe.hash]

\* B is sent before set_state(SEND_AUTH) derives the key, which may fail with A
\* already in the session's check hash.
handle_send_a(m) ==
  /\ Receive(m, EAD_TYPE_SEND_A)
  /\ Send([type |-> EAD_TYPE_SEND_B, cl |-> m.cl, nid |-> Nid, sid |-> m.sid,
           b |-> B])
  /\ \/ /\ skey' = t_servergetkey(m.a)
        /\ ead_rx_iv' = IvBase
        /\ ead_tx_iv' = IvBase
        /\ state' = EAD_TYPE_SEND_AUTH
        /\ refused' = refused
     \/ /\ "key" \in Failures
        /\ refused' = TRUE
        /\ UNCHANGED <<state, skey, ead_rx_iv, ead_tx_iv>>
  /\ UNCHANGED <<tpe, ts, nts, B, kidVars, loopVars, histVars>>

t_serververify_any(proof) ==    \* mutant: only the session is compared
  proof.b = skey.b

\* The client's proof is that of our key, in a session that took only one A.
t_serververify(proof) == ~refused /\ proof = skey

handle_send_auth(m) ==
  /\ Receive(m, EAD_TYPE_SEND_AUTH)
  /\ \/ /\ t_serververify(m.proof)
        /\ Send([type |-> EAD_TYPE_DONE_AUTH, cl |-> m.cl, nid |-> Nid,
                 sid |-> m.sid, proof |-> skey])
        /\ state' = EAD_TYPE_SEND_CMD
        /\ ts' = ts
     \/ /\ ~t_serververify(m.proof)
        /\ net' = net
        /\ state' = EAD_TYPE_SET_USERNAME
        /\ ts' = 0
  /\ UNCHANGED <<tpe, nts, B, refused, cryptVars, kidVars, loopVars, histVars>>

(***************************************************************************)
(* handle_send_cmd.  ntohs is applied to a one-byte field: on a            *)
(* little-endian device every type but NORMAL leaves the known ones.       *)
(***************************************************************************)
ntohs(byte) == IF BigEndian THEN byte ELSE byte * 256

\* One RESULT_CMD message under initialization vector iv.
Result(iv, n, done) ==
  [type |-> EAD_TYPE_RESULT_CMD, cl |-> pkt.cl, nid |-> Nid, sid |-> pkt.sid,
   key |-> skey, iv |-> iv, from |-> consumed, len |-> n, done |-> done,
   job |-> pid]

encrypt_without_step(n, done) ==   \* mutant: the new counter is not stored
  \E iv \in ead_get_tx_iv(ead_tx_iv) :
    /\ ead_tx_iv' = ead_tx_iv
    /\ Send(Result(iv, n, done))

\* A result is encrypted under the next IV and sent.
ead_encrypt_message(n, done) ==
  \E iv \in ead_get_tx_iv(ead_tx_iv) :
    /\ ead_tx_iv' = iv
    /\ Send(Result(iv, n, done))

\* Decryption refuses the message: no response, only the counter may move.
send_cmd_refused(m) ==
  /\ Receive(m, EAD_TYPE_SEND_CMD)
  /\ \E d \in ead_decrypt_message(skey, ead_rx_iv, m) :
       /\ ~d.ok
       /\ ead_rx_iv' = d.rx
  /\ UNCHANGED <<net, authVars, skey, ead_tx_iv, kidVars, loopVars, histVars>>

\* Decrypted, and its type is one of the given ones.
Decrypted(m, types) ==
  /\ Receive(m, EAD_TYPE_SEND_CMD)
  /\ ntohs(m.cmdtype) \in types
  /\ \E d \in ead_decrypt_message(skey, ead_rx_iv, m) :
       /\ d.ok
       /\ ead_rx_iv' = d.rx

fork == /\ npid' = npid + 1
        /\ alive' = alive \cup {npid + 1}

StartChild_unmarked ==          \* mutant: child_pending is not set
  fork /\ UNCHANGED child_pending

\* child_pending is set before the fork.
StartChild == fork /\ child_pending' = TRUE

\* The child is started and the streaming loop entered.
send_cmd_normal(m) ==
  /\ Decrypted(m, {EAD_CMD_NORMAL})
  /\ StartChild
  /\ runs' = [runs EXCEPT ![m.cl] = @ + 1]
  /\ pc' = "select"
  /\ pkt' = m
  /\ pid' = npid + 1
  /\ UNCHANGED <<net, authVars, skey, ead_tx_iv, sigchld, zombies, strays,
                 bytes, rounds, produced, consumed, restarts>>

\* pipe() fails, or fork() fails after child_pending was set.
send_cmd_normal_failed(m) ==
  /\ "fork" \in Failures
  /\ Decrypted(m, {EAD_CMD_NORMAL})
  /\ child_pending' \in {child_pending, TRUE}
  /\ UNCHANGED <<net, authVars, skey, ead_tx_iv, sigchld, alive, zombies,
                 strays, npid, loopVars, histVars>>

\* The child runs on its own and success is reported at once.
send_cmd_background(m) ==
  /\ Decrypted(m, {EAD_CMD_BACKGROUND})
  /\ fork
  /\ strays' = strays \cup {npid + 1}
  /\ runs' = [runs EXCEPT ![m.cl] = @ + 1]
  /\ \E iv \in ead_get_tx_iv(ead_tx_iv) :
       /\ ead_tx_iv' = iv
       /\ Send([type |-> EAD_TYPE_RESULT_CMD, cl |-> m.cl, nid |-> Nid,
                sid |-> m.sid, key |-> skey, iv |-> iv, from |-> 0, len |-> 0,
                done |-> TRUE, job |-> npid + 1])
  /\ UNCHANGED <<authVars, skey, child_pending, sigchld, zombies,
                 loopVars, restarts>>

\* A type that is neither, or a background fork that fails: no response.
send_cmd_ignored(m) ==
  /\ \/ Decrypted(m, Nat \ {EAD_CMD_NORMAL, EAD_CMD_BACKGROUND})
     \/ "fork" \in Failures /\ Decrypted(m, {EAD_CMD_BACKGROUND})
  /\ UNCHANGED <<net, authVars, skey, ead_tx_iv, kidVars, loopVars, histVars>>

\* select() and read(): what the pipe holds, nothing when it is empty.
cmd_select ==
  /\ pc = "select"
  /\ IF produced > consumed THEN bytes' \in 1..(produced - consumed)
                            ELSE bytes' = 0
  /\ pc' = "check"
  /\ UNCHANGED <<wireVars, authVars, cryptVars, kidVars, pkt, pid, rounds,
                 produced, consumed, histVars>>

\* "if (!bytes && !child_pending) break;"
cmd_break ==
  /\ pc = "check"
  /\ bytes = 0 /\ ~child_pending
  /\ pc' = "exit"
  /\ UNCHANGED <<wireVars, authVars, cryptVars, kidVars, pkt, pid, bytes,
                 rounds, produced, consumed, histVars>>

\* Output or a keepalive is sent; the loop goes on until its time is over.
cmd_send ==
  /\ pc = "check"
  /\ bytes > 0 \/ child_pending
  /\ ead_encrypt_message(bytes, FALSE)
  /\ consumed' = consumed + bytes
  /\ bytes' = 0
  /\ rounds' = rounds + 1
  /\ \/ rounds + 1 < MaxRounds /\ pc' = "select"
     \/ pc' = "exit"
  /\ UNCHANGED <<delivered, authVars, skey, ead_rx_iv, kidVars, pkt, pid,
                 produced, histVars>>

\* Back to the packet loop: the handler's locals are gone.
LeaveHandler ==
  /\ pc' = "idle" /\ pkt' = NoPkt /\ pid' = 0 /\ bytes' = 0
  /\ rounds' = 0 /\ produced' = 0 /\ consumed' = 0
  /\ strays' = strays \cup ({pid} \cap (alive \cup zombies))

\* Process p is dead and its parent signalled.
Dies(p) ==
  /\ alive' = alive \ {p}
  /\ zombies' = zombies \cup {p}
  /\ sigchld' = TRUE

\* After the loop: a child still pending is to be killed ...
cmd_expired ==
  /\ pc = "exit"
  /\ child_pending
  /\ pc' = "kill"
  /\ UNCHANGED <<wireVars, authVars, cryptVars, kidVars, pkt, pid, bytes,
                 rounds, produced, consumed, histVars>>

cmd_kill_waits ==               \* mutant: the killed child is waited for
  /\ pc = "kill"
  /\ alive' = alive \ {pid}
  /\ zombies' = zombies \ {pid}
  /\ sigchld' = (sigchld \/ pid \in alive)
  /\ LeaveHandler
  /\ UNCHANGED <<wireVars, authVars, cryptVars, child_pending, npid, histVars>>

\* ... and no response sent (SIGCHLD may have come in between);
cmd_kill ==
  /\ pc = "kill"
  /\ IF pid \in alive
     THEN Dies(pid)
     ELSE UNCHANGED <<alive, zombies, sigchld>>
  /\ LeaveHandler
  /\ UNCHANGED <<wireVars, authVars, cryptVars, child_pending, npid, histVars>>

\* otherwise the end of the command is reported.
cmd_done ==
  /\ pc = "exit"
  /\ ~child_pending
  /\ ead_encrypt_message(0, TRUE)
  /\ LeaveHandler
  /\ UNCHANGED <<delivered, authVars, skey, ead_rx_iv, child_pending, sigchld,
                 alive, zombies, npid, histVars>>

(***************************************************************************)
(* The children: the running command writes to the pipe, a child exits,    *)
(* and instance_handle_sigchld reaps one child and clears child_pending,   *)
(* whichever child it was.  SIGCHLDs that are pending together are one.    *)
(***************************************************************************)
ChildWrite ==
  /\ pid \in alive
  /\ produced < MaxOut
  /\ produced' = produced + 1
  /\ UNCHANGED <<wireVars, authVars, cryptVars, kidVars, pc, pkt, pid, bytes,
                 rounds, consumed, histVars>>

ChildExit(p) ==
  /\ p \in alive
  /\ Dies(p)
  /\ UNCHANGED <<wireVars, authVars, cryptVars, child_pending, strays, npid,
                 loopVars, histVars>>

Reap_unmarked ==                \* mutant: child_pending is left alone
  /\ \E p \in zombies : zombies' = zombies \ {p}
  /\ UNCHANGED child_pending

\* wait() and "child_pending = false"
Reap == /\ \E p \in zombies : zombies' = zombies \ {p}
        /\ child_pending' = FALSE

instance_handle_sigchld ==
  /\ sigchld
  /\ sigchld' = FALSE
  /\ Reap
  /\ UNCHANGED <<wireVars, authVars, cryptVars, alive, strays, npid,
                 loopVars, histVars>>

(***************************************************************************)
(* stop_server and start_server: the process is killed and a new one       *)
(* forked from the supervisor, with the statics' initial values.  What it  *)
(* left running is no child of the new process.                            *)
(***************************************************************************)
restart_server ==
  /\ restarts < MaxRestarts
  /\ restarts' = restarts + 1
  /\ state' = EAD_TYPE_SET_USERNAME
  /\ tpe' = NoVerifier
  /\ ts' = 0 /\ B' = 0 /\ refused' = FALSE
  /\ skey' = NoKey
  /\ ead_rx_iv' = IvBase /\ ead_tx_iv' = IvBase
  /\ child_pending' = FALSE /\ sigchld' = FALSE
  /\ alive' = {} /\ zombies' = {} /\ strays' = {}
  /\ pc' = "idle" /\ pkt' = NoPkt /\ pid' = 0 /\ bytes' = 0
  /\ rounds' = 0 /\ produced' = 0 /\ consumed' = 0
  /\ UNCHANGED <<wireVars, nts, npid, runs>>

ServerHandler ==
  \E m \in net : \/ handle_ping(m)
                 \/ handle_set_username(m)
                 \/ handle_get_prime(m)
                 \/ handle_send_a(m)
                 \/ handle_send_auth(m)
                 \/ send_cmd_refused(m)
                 \/ send_cmd_normal(m)
                 \/ send_cmd_normal_failed(m)
                 \/ send_cmd_background(m)
                 \/ send_cmd_ignored(m)

ServerLoop == cmd_select \/ cmd_break \/ cmd_send \/ cmd_expired \/ cmd_kill
              \/ cmd_done

Kids == ChildWrite \/ (\E p \in alive : ChildExit(p))

ServerStep == ServerHandler \/ ServerLoop \/ Kids \/ instance_handle_sigchld
              \/ restart_server
=============================================================================
