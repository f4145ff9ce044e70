---------------------------- MODULE EadSupervisor ----------------------------
(***************************************************************************)
(* The supervising process of the Emergency Access Daemon, ead.c: main()   *)
(* keeps one instance process per -d interface, learns every second which  *)
(* bridge each interface is a port of, and replaces an instance whose      *)
(* bridge has changed, since a process keeps the bridge it was forked with.*)
(* Bridges are read one after the other: an interface may move in between. *)
(***************************************************************************)
EXTENDS Integers, Sequences

CONSTANTS Instances,   \* the list of instances, a sequence in list order
          Bridges,     \* the bridges, a sequence in the order of scandir()
          NoBridge,    \* the interface is in no bridge, or bridge[0] is 0
          MaxMoves,    \* bound: how often interfaces change their bridge
          MaxCrashes,  \* bound: how often an instance process dies by itself
          MaxFails     \* bound: how often fork() fails

ASSUME SupervisorAssumption ==
  /\ Instances \in Seq(Nat) /\ Bridges \in Seq(Nat)
  /\ NoBridge \notin {Bridges[b] : b \in DOMAIN Bridges}
  /\ {MaxMoves, MaxCrashes, MaxFails} \subseteq Nat

Insts   == {Instances[k] : k \in DOMAIN Instances}
BrNames == {Bridges[b] : b \in DOMAIN Bridges}

VARIABLES port,       \* the bridge each interface is really in
          in_pid,     \* in->pid, 0 for none
          in_bridge,  \* in->bridge
          br_check,   \* in->br_check
          procs,      \* running instance processes
          zombies,    \* dead ones that were not waited for
          sigchld,    \* SIGCHLD is pending
          npid,       \* processes forked so far
          step,       \* where main() is
          k,          \* the position in the list it is at
          forked,     \* fork() has returned, in->pid is not yet set: the pid
          crashed,    \* history: pids of processes that died by themselves
          moves, crashes, fails   \* counted for the bounds

vars == <<port, in_pid, in_bridge, br_check, procs, zombies, sigchld, npid,
          step, k, forked, crashed, moves, crashes, fails>>

instVars == <<in_pid, in_bridge, br_check>>
kernVars == <<procs, zombies, sigchld, npid>>
histVars == <<crashed, moves, crashes, fails>>

Init ==
  /\ port \in [Insts -> BrNames \cup {NoBridge}]
  /\ in_pid = [i \in Insts |-> 0]
  /\ in_bridge = [i \in Insts |-> NoBridge]
  /\ br_check = [i \in Insts |-> FALSE]
  /\ procs = {} /\ zombies = {} /\ sigchld = FALSE /\ npid = 0
  /\ step = "start" /\ k = 1 /\ forked = 0
  /\ crashed = {} /\ moves = 0 /\ crashes = 0 /\ fails = 0

Pids(ps) == {p.pid : p \in ps}

kill_forgotten(S) ==            \* mutant: in->pid is cleared, nothing killed
  /\ in_pid' = [i \in Insts |-> IF i \in S THEN 0 ELSE in_pid[i]]
  /\ UNCHANGED <<procs, zombies, sigchld, npid>>

\* stop_server(in, false) for every instance of S.
stop_server(S) ==
  LET killed == {p \in procs : \E i \in S : in_pid[i] = p.pid}
  IN  /\ procs' = procs \ killed
      /\ zombies' = zombies \cup Pids(killed)
      /\ sigchld' = (sigchld \/ killed # {})
      /\ in_pid' = [i \in Insts |-> IF i \in S THEN 0 ELSE in_pid[i]]
      /\ UNCHANGED npid

(***************************************************************************)
(* start_servers and start_server: the instances without a process, in     *)
(* list order.  The signal handlers run between fork() and the assignment. *)
(***************************************************************************)
start_skip ==
  /\ step = "start" /\ k \in DOMAIN Instances /\ forked = 0
  /\ in_pid[Instances[k]] > 0
  /\ k' = k + 1
  /\ UNCHANGED <<port, instVars, kernVars, step, forked, histVars>>

start_server ==
  /\ step = "start" /\ k \in DOMAIN Instances /\ forked = 0
  /\ in_pid[Instances[k]] = 0
  /\ npid' = npid + 1
  /\ forked' = npid + 1
  /\ procs' = procs \cup {[pid |-> npid + 1, inst |-> Instances[k],
                           bridge |-> in_bridge[Instances[k]]]}
  /\ UNCHANGED <<port, instVars, zombies, sigchld, step, k, histVars>>

start_server_negative ==        \* mutant: "i->pid = 0" is missing
  /\ step = "start" /\ k \in DOMAIN Instances /\ forked = 0
  /\ in_pid[Instances[k]] = 0
  /\ fails < MaxFails
  /\ fails' = fails + 1
  /\ in_pid' = [in_pid EXCEPT ![Instances[k]] = 0 - 1]
  /\ k' = k + 1
  /\ UNCHANGED <<port, in_bridge, br_check, kernVars, step, forked, crashed,
                 moves, crashes>>

\* fork() fails: the next round tries again.
start_server_failed ==
  /\ step = "start" /\ k \in DOMAIN Instances /\ forked = 0
  /\ in_pid[Instances[k]] = 0
  /\ fails < MaxFails
  /\ fails' = fails + 1
  /\ k' = k + 1
  /\ UNCHANGED <<port, instVars, kernVars, step, forked, crashed, moves,
                 crashes>>

start_server_return ==
  /\ step = "start" /\ forked # 0
  /\ in_pid' = [in_pid EXCEPT ![Instances[k]] = forked]
  /\ forked' = 0
  /\ k' = k + 1
  /\ UNCHANGED <<port, in_bridge, br_check, kernVars, step, histVars>>

start_servers_end ==
  /\ step = "start" /\ k \notin DOMAIN Instances
  /\ step' = "scan" /\ k' = 1
  /\ UNCHANGED <<port, instVars, kernVars, forked, histVars>>

(***************************************************************************)
(* check_all_interfaces.                                                   *)
(***************************************************************************)

check_bridge_no_stop(b) ==      \* mutant: the process is not replaced
  LET seen == {i \in Insts : port[i] = b}
  IN  /\ br_check' = [i \in Insts |-> br_check[i] \/ i \in seen]
      /\ in_bridge' = [i \in Insts |-> IF i \in seen THEN b ELSE in_bridge[i]]
      /\ UNCHANGED <<in_pid, kernVars>>

\* check_bridge_port for every port of bridge b.
check_bridge(b) ==
  LET seen == {i \in Insts : port[i] = b}
  IN  /\ br_check' = [i \in Insts |-> br_check[i] \/ i \in seen]
      /\ in_bridge' = [i \in Insts |-> IF i \in seen THEN b ELSE in_bridge[i]]
      /\ stop_server({i \in seen : in_bridge[i] # b})

check_next_bridge ==
  /\ step = "scan" /\ k \in DOMAIN Bridges
  /\ check_bridge(Bridges[k])
  /\ k' = k + 1
  /\ UNCHANGED <<port, step, forked, histVars>>

\* Instances not seen in any bridge; then start_servers again.
check_all_interfaces_end ==
  LET gone == {i \in Insts : ~br_check[i] /\ in_bridge[i] # NoBridge}
  IN  /\ step = "scan" /\ k \notin DOMAIN Bridges
      /\ br_check' = [i \in Insts |-> FALSE]
      /\ in_bridge' = [i \in Insts |->
                         IF i \in gone THEN NoBridge ELSE in_bridge[i]]
      /\ stop_server(gone)
      /\ step' = "start" /\ k' = 1
      /\ UNCHANGED <<port, forked, histVars>>

(***************************************************************************)
(* Signals.  server_handle_sigchld stores the status of wait() in "pid":   *)
(* no status of a dead instance is the pid of one, so none is cleared.     *)
(***************************************************************************)
server_handle_sigchld ==
  /\ step # "exit"
  /\ sigchld
  /\ sigchld' = FALSE
  /\ \E p \in zombies : zombies' = zombies \ {p}
  /\ UNCHANGED <<port, instVars, procs, npid, step, k, forked, histVars>>

sigint_skips_first ==          \* mutant: the first instance is forgotten
  /\ step # "exit"
  /\ step' = "exit"
  /\ stop_server(Insts \ {Instances[1]})
  /\ UNCHANGED <<port, in_bridge, br_check, k, forked, histVars>>

\* SIGINT or SIGTERM: every instance is stopped and the process exits.
server_handle_sigint ==
  /\ step # "exit"
  /\ step' = "exit"
  /\ stop_server(Insts)
  /\ UNCHANGED <<port, in_bridge, br_check, k, forked, histVars>>

(***************************************************************************)
(* The surroundings: an interface changes its bridge, an instance process  *)
(* dies by itself.                                                         *)
(***************************************************************************)
Move ==
  /\ step # "exit"
  /\ moves < MaxMoves
  /\ moves' = moves + 1
  /\ \E i \in Insts, b \in BrNames \cup {NoBridge} :
       /\ b # port[i]
       /\ port' = [port EXCEPT ![i] = b]
  /\ UNCHANGED <<instVars, kernVars, step, k, forked, crashed, crashes, fails>>

Crash ==
  /\ step # "exit"
  /\ crashes < MaxCrashes
  /\ crashes' = crashes + 1
  /\ \E p \in procs : /\ procs' = procs \ {p}
                      /\ zombies' = zombies \cup {p.pid}
                      /\ crashed' = crashed \cup {p.pid}
  /\ sigchld' = TRUE
  /\ UNCHANGED <<port, instVars, npid, step, k, forked, moves, fails>>

Main == start_skip \/ start_server \/ start_server_failed
        \/ start_server_return \/ start_servers_end
        \/ check_next_bridge \/ check_all_interfaces_end

Next == Main \/ server_handle_sigchld \/ server_handle_sigint \/ Move \/ Crash

Spec == Init /\ [][Next]_vars

\* main() loops for ever and pending signals are delivered.
FairSpec == Spec /\ WF_vars(Main) /\ WF_vars(server_handle_sigchld)

-----------------------------------------------------------------------------
\* Every variable has its type.
TypeOK ==
  /\ port \in [Insts -> BrNames \cup {NoBridge}]
  /\ in_pid \in [Insts -> 0..npid]
  /\ in_bridge \in [Insts -> BrNames \cup {NoBridge}]
  /\ br_check \in [Insts -> BOOLEAN]
  /\ procs \subseteq [pid : 1..npid, inst : Insts,
                      bridge : BrNames \cup {NoBridge}]
  /\ zombies \subseteq 1..npid /\ crashed \subseteq 1..npid
  /\ sigchld \in BOOLEAN
  /\ step \in {"start", "scan", "exit"} /\ k \in Nat
  /\ npid \in Nat /\ forked \in 0..npid
  /\ moves \in 0..MaxMoves /\ crashes \in 0..MaxCrashes
  /\ fails \in 0..MaxFails

\* Two processes of one instance would both answer on its interface: there is
\* never more than one, whatever moves, dies or is restarted.
AtMostOneServer ==
  \A p, q \in procs : p.inst = q.inst => p = q

\* in->pid names the instance's own running process, from the fork to the stop
\* that clears it, unless that process died by itself: only then is it stale.
PidIsOwnChild ==
  \A i \in Insts : in_pid[i] # 0 =>
    \/ in_pid[i] \in crashed
    \/ \E p \in procs : p.pid = in_pid[i] /\ p.inst = i

\* A running process listens on the bridge its instance was last seen in.
ListensOnBridge ==
  \A p \in procs : in_pid[p.inst] = p.pid => p.bridge = in_bridge[p.inst]

\* What start_server and stop_server keep up between them: each instance has at
\* most one process, in->pid is that process, and it listens where it should.
ServersKnown == AtMostOneServer /\ PidIsOwnChild /\ ListensOnBridge

\* After SIGTERM no instance process is left, except one that was forked while
\* the signal arrived and whose pid was not yet stored.
NothingLeftBehind == step = "exit" => Pids(procs) \subseteq {forked} \ {0}

\* When interfaces stop moving, every instance's process ends up listening on
\* the bridge its interface is in, or has died by itself, or main() has ended.
FollowsBridge ==
  \A i \in Insts :
    <>[](\/ step = "exit"
         \/ in_pid[i] \in crashed
         \/ \E p \in procs : p.inst = i /\ p.bridge = port[i])
=============================================================================
