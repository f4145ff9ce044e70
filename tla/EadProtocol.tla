----------------------------- MODULE EadProtocol -----------------------------
(***************************************************************************)
(* The daemon's instance process and its clients over the network, and     *)
(* what the two ends together must guarantee.                              *)
(***************************************************************************)
EXTENDS EadServer, EadClient

serverVars == <<authVars, cryptVars, kidVars, loopVars, histVars>>
vars == <<wireVars, serverVars, clientVars>>

Init ==
  /\ net = {}
  /\ delivered = {}
  /\ ServerInit
  /\ ClientInit

Next ==
  \/ ServerStep /\ UNCHANGED clientVars
  \/ \E c \in Clients : ClientStep(c) /\ UNCHANGED serverVars

Spec == Init /\ [][Next]_vars

(***************************************************************************)
(* The daemon serves packets and runs its loop, the kernel delivers        *)
(* signals, clients react to responses and their timeouts expire.  Nothing *)
(* is assumed of the supervisor's restarts or of the commands' output.     *)
(***************************************************************************)
Fairness ==
  /\ WF_vars(ServerHandler /\ UNCHANGED clientVars)
  /\ WF_vars(ServerLoop /\ UNCHANGED clientVars)
  /\ WF_vars(instance_handle_sigchld /\ UNCHANGED clientVars)
  /\ \A c \in Clients : WF_vars(ClientStep(c) /\ UNCHANGED serverVars)

FairSpec == Spec /\ Fairness

-----------------------------------------------------------------------------
(***************************************************************************)
(* Type correctness.                                                       *)
(***************************************************************************)
States == {EAD_TYPE_SET_USERNAME, EAD_TYPE_GET_PRIME, EAD_TYPE_SEND_A,
           EAD_TYPE_SEND_AUTH, EAD_TYPE_SEND_CMD}

WireTypeOK ==
  /\ net \subseteq Message
  /\ delivered \subseteq Message

AuthTypeOK ==
  /\ state \in States
  /\ tpe \in [user : Users \cup {NoUser}, hash : Hash \cup {NoHash}]
  /\ ts \in Nat /\ nts \in Nat /\ B \in Nat /\ refused \in BOOLEAN
  /\ skey \in Key \cup {NoKey}
  /\ ead_rx_iv \in Nat /\ ead_tx_iv \in Nat

KidTypeOK ==
  /\ child_pending \in BOOLEAN /\ sigchld \in BOOLEAN
  /\ alive \subseteq Nat /\ zombies \subseteq Nat /\ strays \subseteq Nat
  /\ npid \in Nat

LoopTypeOK ==
  /\ pc \in {"idle", "select", "check", "exit", "kill"}
  /\ pkt \in CmdMsg \cup {NoPkt}
  /\ pid \in Nat /\ bytes \in Nat /\ rounds \in Nat
  /\ produced \in Nat /\ consumed \in Nat
  /\ runs \in [Clients -> Nat]
  /\ restarts \in Nat

ClientTypeOK ==
  /\ phase \in [Clients -> Phases]
  /\ c_salt \in [Clients -> Salts \cup {NoSalt}]
  /\ c_key \in [Clients -> Key \cup {NoKey}]
  /\ c_rx_iv \in [Clients -> Nat]
  /\ console \in [Clients -> Seq(Nat)]

\* Every variable of the daemon, the clients and the network has its type.
TypeOK == WireTypeOK /\ AuthTypeOK /\ KidTypeOK /\ LoopTypeOK /\ ClientTypeOK

-----------------------------------------------------------------------------
(***************************************************************************)
(* Safety.                                                                 *)
(***************************************************************************)

\* The handlers dereference ts, B and the key without a test (ead.c:410-470).
\* Whatever clients interleave, time out or repeat: in a state whose handler
\* uses the session it is open, B points into that session and not into one
\* closed before, and the key in use is the one agreed in it.
SessionPointers ==
  /\ state >= EAD_TYPE_GET_PRIME => ts # 0
  /\ state = EAD_TYPE_SET_USERNAME => ts = 0
  /\ state >= EAD_TYPE_SEND_A => B = ts
  /\ state >= EAD_TYPE_SEND_AUTH => skey # NoKey /\ skey.b = ts

\* A client sends its command once; duplicated and late packets, sessions
\* opened in between and restarts of the daemon never run it a second time.
AtMostOnce == \A c \in Clients : runs[c] <= 1

\* The client's user exists and the password is that user's.
Authorised(c) ==
  /\ Args[c].username \in DOMAIN PasswdFile
  /\ PasswdFile[Args[c].username].pw = Args[c].password

\* Only commands of clients that know the password of the user they name are
\* run, also when two clients' handshakes interleave on the one session.
OnlyAuthorisedRun == \A c \in Clients : runs[c] > 0 => Authorised(c)

\* The client logs in rather than listing nodes.
LogsIn(c) == /\ Args[c].nid # Broadcast
             /\ Args[c].username # NoUser
             /\ Args[c].password # NoPass

\* A client that exits with success has really had its command run, by the
\* daemon, exactly once.
SuccessMeansRan ==
  \A c \in Clients : phase[c] = "ok" /\ LogsIn(c) /\ Args[c].command
                       => runs[c] = 1

\* The daemon has confirmed the client's authentication.
Confirmed == {c \in Clients :
                \E m \in net : m.type = EAD_TYPE_DONE_AUTH /\ m.cl = c}

\* A client that logs in and exits with success ("Authentication succesful",
\* ead-client.c:424) was confirmed by the daemon and knows its user's password.
SuccessMeansConfirmed ==
  \A c \in Clients : phase[c] = "ok" /\ LogsIn(c)
                       => c \in Confirmed /\ Authorised(c)

\* DONE_AUTH reaches a client only for the key that client holds: the daemon
\* never confirms to one client the session it agreed with another.
ConfirmsOwnKey ==
  \A m \in net : m.type = EAD_TYPE_DONE_AUTH => m.proof = c_key[m.cl]

\* No two different messages of the daemon are encrypted under one key and
\* initialization vector, across commands, sessions and restarts.
IvNeverReused ==
  \A m1, m2 \in {m \in net : m.type = EAD_TYPE_RESULT_CMD} :
    m1.key = m2.key /\ m1.iv = m2.iv => m1 = m2

\* Output on a client's console is in the order it was written and without
\* repetition, whatever the network does to the RESULT_CMD packets.
ConsoleOrdered ==
  \A c \in Clients : \A i, j \in DOMAIN console[c] :
    i < j => console[c][i] < console[c][j]

\* instance_handle_sigchld calls wait(), which blocks when no child is dead:
\* a pending SIGCHLD always has a dead child, though SIGCHLDs coalesce.
ReapNeverBlocks == sigchld => zombies # {}

\* While child_pending is set the command's own child has not been reaped, so
\* its pid cannot have been given to another process when kill() is reached
\* (ead.c:572), even when older children die meanwhile and SIGCHLDs coalesce.
PendingMeansUnreaped ==
  pc # "idle" /\ child_pending => pid \in alive \cup zombies

\* The end of a command that is still running is reported only because of an
\* older child left behind by a command that was killed, ran in the background
\* or was itself reported early: its SIGCHLD clears child_pending for the
\* wrong command.
EarlyDoneNeedsStray ==
  \A m \in net :
    /\ m.type = EAD_TYPE_RESULT_CMD
    /\ m.done
    /\ m.job \in alive
    /\ ntohs(Args[m.cl].cmdtype) = EAD_CMD_NORMAL
    => \E p \in strays : p < m.job

-----------------------------------------------------------------------------
(***************************************************************************)
(* Refinement of the daemon's promise.  A client is confirmed when a       *)
(* DONE_AUTH for it is sent, has run when its child was forked, and is     *)
(* told of success when its process exits with 0 after its command.        *)
(***************************************************************************)
Reported  == {c \in Clients : phase[c] = "ok" /\ LogsIn(c) /\ Args[c].command}

Session == INSTANCE EadSession WITH
             Allowed   <- {c \in Clients : Authorised(c)},
             Asking    <- {c \in Clients : Args[c].command},
             confirmed <- Confirmed,
             ran       <- runs,
             reported  <- Reported

\* Every behaviour of the daemon and its clients, with packets lost, repeated
\* and reordered, with interleaved clients, failures and restarts, is one the
\* promise allows: confirm the authorised, run once, report after the run.
RefinesSession == Session!Spec

-----------------------------------------------------------------------------
(***************************************************************************)
(* Liveness.                                                               *)
(***************************************************************************)

\* When packets are neither lost nor repeated, a client that knows its password
\* and is the only one to log in reaches the end of its command, unless the
\* command outlives its time; clients that list the nodes make no difference.
LoneClientServed ==
  \A c \in Clients : LogsIn(c) => <>(phase[c] = "ok" \/ pc = "kill")
=============================================================================
