----------------------------- MODULE EadSession -----------------------------
(***************************************************************************)
(* What the Emergency Access Daemon promises, without packets, keys or     *)
(* sessions: a client that knows the password may be confirmed; a command  *)
(* is run for a confirmed client, and only once; a client is told of       *)
(* success only after its command was run.                                 *)
(***************************************************************************)
EXTENDS Naturals

CONSTANTS Clients,  \* clients
          Allowed,  \* those that know the password of the user they name
          Asking    \* those that have a command to run

VARIABLES confirmed,  \* clients told that they are authenticated
          ran,        \* how often each client's command was started
          reported    \* clients told that their command is finished

sessionVars == <<confirmed, ran, reported>>

Init == /\ confirmed = {}
        /\ ran = [c \in Clients |-> 0]
        /\ reported = {}

Confirm(c) == /\ c \in Allowed
              /\ confirmed' = confirmed \cup {c}
              /\ UNCHANGED <<ran, reported>>

Run(c) == /\ c \in confirmed \cap Asking
          /\ ran[c] = 0
          /\ ran' = [ran EXCEPT ![c] = 1]
          /\ UNCHANGED <<confirmed, reported>>

Report(c) == /\ ran[c] = 1
             /\ reported' = reported \cup {c}
             /\ UNCHANGED <<confirmed, ran>>

Next == \E c \in Clients : Confirm(c) \/ Run(c) \/ Report(c)

Spec == Init /\ [][Next]_sessionVars
=============================================================================
