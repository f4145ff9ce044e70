------------------------------ MODULE NvramStore ------------------------------
(***************************************************************************)
(* What the nvram tool promises to one user at a time: variables that a    *)
(* command edits together, a commit that makes them permanent, and a       *)
(* restart of the device, the only thing that forgets what was not         *)
(* committed.  A restart can destroy a commit in progress, for flash is    *)
(* rewritten in place.  A full /tmp takes the variables from the readers   *)
(* and writers until the next restart, but it never costs an edit or what  *)
(* is in flash.                                                            *)
(***************************************************************************)
EXTENDS Naturals

CONSTANTS Names,     \* variable names
          Values,    \* their values
          NoValue,   \* a variable that is not set
          Edits,     \* what the commands do: names to a new value or NoValue
          Standing,  \* what the variables that cannot be removed fall back to
          Canon(_),  \* the text those get when they are kept as numbers
          Fits(_),   \* do these variables fit into the partition?
          Lost       \* there is no image

VARIABLES current,   \* what a reader sees
          committed, \* what is in flash
          staged,    \* in /tmp: "nothing", the "edits", or a file that is
                     \* too short and makes the commands fail: "stuck"
          boots      \* restarts of the device

vars == <<current, committed, staged, boots>>

Store == [Names -> Values \cup {NoValue}]

Init == current \in Store /\ committed = current /\ staged = "nothing" /\ boots = 0

\* f after the edits e.
Apply(f, e) ==
  [n \in Names |-> IF n \notin DOMAIN e THEN f[n]
                   ELSE IF e[n] = NoValue /\ n \in DOMAIN Standing
                   THEN Standing[n] ELSE e[n]]

\* Of f some variables are gone, or were kept as numbers.
Truncated(f, g) ==
  \A n \in Names : \/ g[n] \in {f[n], NoValue}
                   \/ n \in DOMAIN Standing /\ g[n] \in {Standing[n], Canon(f[n])}

Stage ==
  /\ staged = "nothing" /\ staged' = "edits"
  /\ UNCHANGED <<current, committed, boots>>

\* /tmp has no room for the staging file; a command that writes into it
\* makes it unreadable.
NoRoom ==
  /\ staged # "edits" /\ staged' = "stuck"
  /\ current' \in {current, Lost}
  /\ UNCHANGED <<committed, boots>>

\* A command applies all its edits at once; when the variables no longer fit
\* some of them are lost.
Update ==
  /\ staged = "edits" /\ Lost \notin {current, committed}
  /\ \E e \in Edits :
        LET f == Apply(current, e)
        IN  IF Fits(f) THEN current' = f
            ELSE current' \in Store /\ Truncated(f, current')
  /\ UNCHANGED <<committed, staged, boots>>

CommitStart ==
  /\ staged = "edits" /\ current # Lost
  /\ committed' = Lost
  /\ UNCHANGED <<current, staged, boots>>

CommitEnd ==
  /\ staged = "edits" /\ committed = Lost
  /\ committed' = current
  /\ UNCHANGED <<current, staged, boots>>

Unstage ==
  /\ staged = "edits" /\ committed = current
  /\ staged' = "nothing"
  /\ UNCHANGED <<current, committed, boots>>

Reboot ==
  /\ boots' = boots + 1
  /\ current' = committed /\ staged' = "nothing"
  /\ UNCHANGED committed

Next == Stage \/ NoRoom \/ Update \/ CommitStart \/ CommitEnd \/ Unstage \/ Reboot

Spec == Init /\ [][Next]_vars
=============================================================================
