-------------------------------- MODULE MCEad --------------------------------
(***************************************************************************)
(* Small instances of the protocol for TLC.                                *)
(***************************************************************************)
EXTENDS EadProtocol, TLC

CONSTANTS c1, c2, c3, alice, bob, carol, pwA, pwB, saltA, saltB, node

Login(u, p, cmd) == [nid |-> node, username |-> u, password |-> p,
                     command |-> cmd, cmdtype |-> EAD_CMD_NORMAL]

MCPasswdFile == alice :> md5_crypt(pwA, saltA) @@ bob :> md5_crypt(pwB, saltB)

\* Two users run a command at the same time.
MCTwoUsers == c1 :> Login(alice, pwA, TRUE) @@ c2 :> Login(bob, pwB, TRUE)

\* The second client names the first one's user, with another password; the
\* third one authenticates only.
MCWrongPassword == c1 :> Login(alice, pwA, TRUE)
                   @@ c2 :> Login(alice, pwB, TRUE)
                   @@ c3 :> Login(bob, pwB, FALSE)

\* The command line of another program, one that runs background commands.
Background(u, p) == [Login(u, p, TRUE) EXCEPT !.cmdtype = EAD_CMD_BACKGROUND]

\* A background and a normal command of one user, while another user sends a
\* command of a type nobody knows.
MCCommands == c1 :> Background(alice, pwA)
              @@ c2 :> Login(alice, pwA, TRUE)
              @@ c3 :> [Login(bob, pwB, TRUE) EXCEPT !.cmdtype = 2]

\* A single user, while somebody lists the nodes.
MCLone == c1 :> Login(alice, pwA, TRUE)
          @@ c2 :> [Login(alice, pwA, FALSE) EXCEPT !.nid = Broadcast]
=============================================================================
