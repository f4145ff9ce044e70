-------------------------- MODULE EadSupervisorProofs --------------------------
(***************************************************************************)
(* Proofs about the supervising process: it knows every instance process   *)
(* it has started, one per instance, whatever moves, dies or is signalled. *)
(***************************************************************************)
EXTENDS EadSupervisor, TLAPS

-----------------------------------------------------------------------------
(***************************************************************************)
(* The inductive invariant.                                                *)
(***************************************************************************)

\* Between fork() and the assignment main() stays at the instance it forked
\* for, whose in->pid is 0, and nobody else has the new pid.
ForkInv ==
  forked # 0 =>
    /\ step # "scan" /\ k \in DOMAIN Instances
    /\ in_pid[Instances[k]] = 0
    /\ \A i \in Insts : in_pid[i] # forked
    /\ \/ forked \in crashed
       \/ \E p \in procs : /\ p.pid = forked /\ p.inst = Instances[k]
                           /\ p.bridge = in_bridge[Instances[k]]

\* A running process is the one its instance names, or the one just forked.
KnownInv ==
  \A p \in procs : \/ in_pid[p.inst] = p.pid
                   \/ forked = p.pid /\ p.inst = Instances[k]

\* No two processes and no two instances share a pid; the dead do not run.
UniqueInv ==
  /\ \A p, q \in procs : p.pid = q.pid => p = q
  /\ \A p \in procs : p.pid \notin crashed
  /\ \A i, j \in Insts : in_pid[i] # 0 /\ in_pid[i] = in_pid[j] => i = j

\* The signal handler that ends the process has cleared every pid.
ExitInv == step = "exit" => \A i \in Insts : in_pid[i] = 0

SupervisorInv ==
  /\ TypeOK
  /\ ForkInv
  /\ KnownInv
  /\ UniqueInv
  /\ PidIsOwnChild
  /\ ListensOnBridge
  /\ ExitInv

-----------------------------------------------------------------------------
\* The entries of the list of instances are instances.
LEMMA InstanceInList ==
  ASSUME NEW n \in DOMAIN Instances
  PROVE  Instances[n] \in Insts
  BY DEF Insts

\* Bridges read from the list are names of bridges.
LEMMA BridgeInList ==
  ASSUME NEW n \in DOMAIN Bridges
  PROVE  Bridges[n] \in BrNames
  BY DEF BrNames

\* The bounds of the model are numbers.
LEMMA BoundsAreNat == MaxMoves \in Nat /\ MaxCrashes \in Nat /\ MaxFails \in Nat
  BY SupervisorAssumption DEF SupervisorAssumption

\* The initial state satisfies the invariant.
LEMMA SupervisorInit == Init => SupervisorInv
  <1> SUFFICES ASSUME Init
               PROVE  SupervisorInv
    OBVIOUS
  <1>1. TypeOK
    <2>1. /\ in_pid \in [Insts -> 0..npid]
          /\ in_bridge \in [Insts -> BrNames \cup {NoBridge}]
          /\ br_check \in [Insts -> BOOLEAN]
      BY DEF Init
    <2>2. /\ moves \in 0..MaxMoves /\ crashes \in 0..MaxCrashes
          /\ fails \in 0..MaxFails /\ forked \in 0..npid
      BY BoundsAreNat DEF Init
    <2> QED
      BY <2>1, <2>2 DEF Init, TypeOK
  <1>2. ForkInv /\ KnownInv /\ UniqueInv /\ PidIsOwnChild /\ ListensOnBridge
        /\ ExitInv
    BY DEF Init, ForkInv, KnownInv, UniqueInv, PidIsOwnChild, ListensOnBridge,
           ExitInv
  <1> QED
    BY <1>1, <1>2 DEF SupervisorInv

-----------------------------------------------------------------------------
(***************************************************************************)
(* start_servers.                                                          *)
(***************************************************************************)

\* An instance that has a process, or whose fork() fails, is passed over; the
\* end of the list leads to the scan.
LEMMA StartPasses ==
  ASSUME SupervisorInv, start_skip \/ start_server_failed \/ start_servers_end
  PROVE  SupervisorInv'
  <1>1. /\ UNCHANGED <<port, in_pid, in_bridge, br_check, procs, zombies,
                       sigchld, npid, forked, crashed, moves, crashes>>
        /\ step' \in {"start", "scan"} /\ k' \in Nat
        /\ fails' \in 0..MaxFails
        /\ forked = 0
    <2>1. k \in Nat /\ fails \in 0..MaxFails
      BY DEF SupervisorInv, TypeOK
    <2>2. CASE start_skip
      BY <2>1, <2>2 DEF start_skip, instVars, kernVars, histVars
    <2>3. CASE start_server_failed
      BY <2>1, <2>3, BoundsAreNat
      DEF start_server_failed, instVars, kernVars, histVars
    <2>4. CASE start_servers_end
      BY <2>1, <2>4 DEF start_servers_end, instVars, kernVars, histVars,
                        SupervisorInv, ForkInv
    <2> QED
      BY <2>2, <2>3, <2>4
  <1>2. TypeOK'
    BY <1>1 DEF SupervisorInv, TypeOK
  <1>3. KnownInv'
    <2>1. \A p \in procs : p.pid # 0
      BY DEF SupervisorInv, TypeOK
    <2> QED
      BY <1>1, <2>1 DEF SupervisorInv, KnownInv
  <1>4. ForkInv' /\ UniqueInv' /\ PidIsOwnChild' /\ ListensOnBridge' /\ ExitInv'
    BY <1>1 DEF SupervisorInv, ForkInv, UniqueInv, PidIsOwnChild,
                ListensOnBridge, ExitInv
  <1> QED
    BY <1>2, <1>3, <1>4 DEF SupervisorInv

\* fork(): the new process has a pid nobody has or had, and the instance it is
\* for had no process.
LEMMA StartForks ==
  ASSUME SupervisorInv, start_server
  PROVE  SupervisorInv'
  <1> DEFINE i == Instances[k]
             new == [pid |-> npid + 1, inst |-> i, bridge |-> in_bridge[i]]
  <1>1. /\ UNCHANGED <<port, in_pid, in_bridge, br_check, zombies, sigchld,
                       step, k, crashed, moves, crashes, fails>>
        /\ npid' = npid + 1 /\ forked' = npid + 1 /\ forked = 0
        /\ procs' = procs \cup {new}
        /\ step = "start" /\ k \in DOMAIN Instances /\ in_pid[i] = 0
    BY DEF start_server, instVars, histVars
  <1>2. i \in Insts
    BY <1>1, InstanceInList
  <1>3. /\ npid \in Nat
        /\ \A j \in Insts : in_pid[j] \in 0..npid
        /\ \A p \in procs : p.pid \in 1..npid /\ p.inst \in Insts
        /\ in_bridge[i] \in BrNames \cup {NoBridge}
    BY <1>2 DEF SupervisorInv, TypeOK
  <1>4. TypeOK'
    <2>1. in_pid \in [Insts -> 0..(npid + 1)]
      BY <1>3 DEF SupervisorInv, TypeOK
    <2>2. new \in [pid : 1..(npid + 1), inst : Insts,
                   bridge : BrNames \cup {NoBridge}]
      BY <1>2, <1>3
    <2>3. procs \subseteq [pid : 1..(npid + 1), inst : Insts,
                           bridge : BrNames \cup {NoBridge}]
      BY <1>3 DEF SupervisorInv, TypeOK
    <2>4. /\ zombies \subseteq 1..(npid + 1) /\ crashed \subseteq 1..(npid + 1)
          /\ npid + 1 \in Nat /\ npid + 1 \in 0..(npid + 1)
      BY <1>3 DEF SupervisorInv, TypeOK
    <2> QED
      BY <1>1, <2>1, <2>2, <2>3, <2>4 DEF SupervisorInv, TypeOK
  <1>5. ForkInv'
    <2>1. \A j \in Insts : in_pid[j] # npid + 1
      BY <1>3
    <2>2. /\ new \in procs' /\ new.pid = forked' /\ new.inst = Instances[k']
          /\ new.bridge = in_bridge'[Instances[k']]
      BY <1>1
    <2> QED
      BY <1>1, <2>1, <2>2 DEF ForkInv
  <1>6. KnownInv'
    <2>1. \A p \in procs : in_pid[p.inst] = p.pid
      BY <1>1, <1>3 DEF SupervisorInv, KnownInv
    <2> QED
      BY <1>1, <2>1 DEF KnownInv
  <1>7. UniqueInv'
    <2>1. \A p \in procs : p.pid # npid + 1
      BY <1>3
    <2>2. npid + 1 \notin crashed
      BY <1>3 DEF SupervisorInv, TypeOK
    <2> QED
      BY <1>1, <2>1, <2>2 DEF SupervisorInv, UniqueInv
  <1>8. PidIsOwnChild' /\ ExitInv'
    BY <1>1 DEF SupervisorInv, PidIsOwnChild, ExitInv
  <1>9. ListensOnBridge'
    BY <1>1 DEF SupervisorInv, ListensOnBridge
  <1> QED
    BY <1>4, <1>5, <1>6, <1>7, <1>8, <1>9 DEF SupervisorInv

\* The pid fork() returned is stored: the process becomes its instance's.
LEMMA StartStores ==
  ASSUME SupervisorInv, start_server_return
  PROVE  SupervisorInv'
  <1> DEFINE i == Instances[k]
  <1>1. /\ UNCHANGED <<port, in_bridge, br_check, procs, zombies, sigchld,
                       npid, step, crashed, moves, crashes, fails>>
        /\ in_pid' = [in_pid EXCEPT ![i] = forked]
        /\ forked' = 0 /\ k' = k + 1 /\ forked # 0 /\ step = "start"
    BY DEF start_server_return, kernVars, histVars
  <1>2. /\ i \in Insts /\ in_pid[i] = 0
        /\ \A j \in Insts : in_pid[j] # forked
        /\ \/ forked \in crashed
           \/ \E p \in procs : /\ p.pid = forked /\ p.inst = i
                               /\ p.bridge = in_bridge[i]
    BY <1>1, InstanceInList DEF SupervisorInv, ForkInv
  <1>3. /\ npid \in Nat /\ k \in Nat /\ forked \in 0..npid
        /\ in_pid \in [Insts -> 0..npid]
        /\ \A p \in procs : p.pid \in 1..npid /\ p.inst \in Insts
    BY DEF SupervisorInv, TypeOK
  <1>4. \A j \in Insts : in_pid'[j] = IF j = i THEN forked ELSE in_pid[j]
    BY <1>1, <1>2, <1>3
  <1>5. TypeOK'
    <2>1. in_pid' \in [Insts -> 0..npid]
      BY <1>1, <1>3
    <2>2. forked' \in 0..npid /\ k' \in Nat
      BY <1>1, <1>3
    <2> QED
      BY <1>1, <2>1, <2>2 DEF SupervisorInv, TypeOK
  <1>6. KnownInv'
    <2>1. ASSUME NEW p \in procs
          PROVE  in_pid'[p.inst] = p.pid
      <3>1. CASE in_pid[p.inst] = p.pid
        BY <3>1, <1>2, <1>3, <1>4
      <3>2. CASE forked = p.pid /\ p.inst = i
        BY <3>2, <1>3, <1>4
      <3> QED
        BY <3>1, <3>2 DEF SupervisorInv, KnownInv
    <2> QED
      BY <1>1, <2>1 DEF KnownInv
  <1>7. UniqueInv'
    BY <1>1, <1>2, <1>4 DEF SupervisorInv, UniqueInv
  <1>8. PidIsOwnChild'
    BY <1>1, <1>2, <1>4 DEF SupervisorInv, PidIsOwnChild
  <1>9. ListensOnBridge'
    <2>1. ASSUME NEW p \in procs, in_pid'[p.inst] = p.pid
          PROVE  p.bridge = in_bridge[p.inst]
      <3>1. CASE p.inst = i
        <4>1. p.pid = forked
          BY <2>1, <3>1, <1>2, <1>4
        <4>2. p.pid \notin crashed => p.bridge = in_bridge[i]
          BY <4>1, <1>2 DEF SupervisorInv, UniqueInv
        <4>3. p.pid \notin crashed
          BY DEF SupervisorInv, UniqueInv
        <4> QED
          BY <3>1, <4>2, <4>3
      <3>2. CASE p.inst # i
        BY <2>1, <3>2, <1>3, <1>4 DEF SupervisorInv, ListensOnBridge
      <3> QED
        BY <3>1, <3>2
    <2> QED
      BY <1>1, <2>1 DEF ListensOnBridge
  <1>10. ForkInv' /\ ExitInv'
    BY <1>1 DEF ForkInv, ExitInv
  <1> QED
    BY <1>5, <1>6, <1>7, <1>8, <1>9, <1>10 DEF SupervisorInv

-----------------------------------------------------------------------------
(***************************************************************************)
(* stop_server.                                                            *)
(***************************************************************************)

\* What the invariant says of the pids a stop_server(S) kills: they belong to
\* the instances of S, and the process just forked is not among them.
LEMMA KilledAreOwn ==
  ASSUME SupervisorInv, NEW p \in procs, NEW i \in Insts, in_pid[i] = p.pid
  PROVE  p.inst = i /\ p.pid # forked
  <1>1. /\ p.pid \in 1..npid /\ p.inst \in Insts
        /\ npid \in Nat /\ forked \in 0..npid
    BY DEF SupervisorInv, TypeOK
  <1>2. p.pid # forked
    BY <1>1 DEF SupervisorInv, ForkInv
  <1>3. in_pid[p.inst] = p.pid
    BY <1>2 DEF SupervisorInv, KnownInv
  <1> QED
    BY <1>1, <1>2, <1>3 DEF SupervisorInv, UniqueInv

\* stop_server(S) leaves every process of the other instances alone and lets go
\* of every process of S but the one that is just being forked.
LEMMA StopServer ==
  ASSUME SupervisorInv, NEW S \in SUBSET Insts, stop_server(S),
         UNCHANGED <<forked, crashed>>,
         k' = k \/ forked = 0
  PROVE  /\ in_pid' \in [Insts -> 0..npid]
         /\ procs' = {p \in procs : p.inst \notin S \/ p.pid = forked}
         /\ npid' = npid /\ zombies' \subseteq 1..npid /\ sigchld' \in BOOLEAN
         /\ \A i \in Insts : in_pid'[i] = IF i \in S THEN 0 ELSE in_pid[i]
         /\ KnownInv' /\ UniqueInv' /\ PidIsOwnChild'
  <1> DEFINE killed == {p \in procs : \E i \in S : in_pid[i] = p.pid}
  <1>1. /\ procs' = procs \ killed /\ npid' = npid
        /\ zombies' = zombies \cup Pids(killed)
        /\ sigchld' = (sigchld \/ killed # {})
        /\ in_pid' = [i \in Insts |-> IF i \in S THEN 0 ELSE in_pid[i]]
    BY DEF stop_server
  <1>2. /\ npid \in Nat /\ in_pid \in [Insts -> 0..npid]
        /\ \A p \in procs : p.pid \in 1..npid /\ p.inst \in Insts
        /\ zombies \subseteq 1..npid /\ sigchld \in BOOLEAN
    BY DEF SupervisorInv, TypeOK
  <1>3. /\ in_pid' \in [Insts -> 0..npid]
        /\ \A i \in Insts : in_pid'[i] = IF i \in S THEN 0 ELSE in_pid[i]
    BY <1>1, <1>2
  <1>4. \A p \in procs : p \in killed <=> p.inst \in S /\ p.pid # forked
    <2>1. ASSUME NEW p \in procs, p \in killed
          PROVE  p.inst \in S /\ p.pid # forked
      BY <2>1, KilledAreOwn
    <2>2. ASSUME NEW p \in procs, p.inst \in S, p.pid # forked
          PROVE  p \in killed
      <3>1. in_pid[p.inst] = p.pid
        BY <2>2 DEF SupervisorInv, KnownInv
      <3> QED
        BY <2>2, <3>1
    <2> QED
      BY <2>1, <2>2
  <1>5. procs' = {p \in procs : p.inst \notin S \/ p.pid = forked}
    BY <1>1, <1>4
  <1>6. zombies' \subseteq 1..npid /\ sigchld' \in BOOLEAN
    BY <1>1, <1>2 DEF Pids
  <1>7. KnownInv'
    <2>1. ASSUME NEW p \in procs'
          PROVE  \/ in_pid'[p.inst] = p.pid
                 \/ forked' = p.pid /\ p.inst = Instances[k']
      <3>1. p \in procs /\ p.pid # 0 /\ p.inst \in Insts
        BY <1>2, <1>5
      <3>2. CASE p.pid = forked
        <4>1. in_pid[p.inst] # p.pid
          BY <3>1, <3>2 DEF SupervisorInv, ForkInv
        <4> QED
          BY <3>1, <3>2, <4>1 DEF SupervisorInv, KnownInv
      <3>3. CASE p.pid # forked
        BY <3>1, <3>3, <1>3, <1>5 DEF SupervisorInv, KnownInv
      <3> QED
        BY <3>2, <3>3
    <2> QED
      BY <2>1 DEF KnownInv
  <1>8. UniqueInv'
    BY <1>3, <1>5 DEF SupervisorInv, UniqueInv
  <1>9. PidIsOwnChild'
    <2>1. ASSUME NEW i \in Insts, in_pid'[i] # 0
          PROVE  \/ in_pid'[i] \in crashed
                 \/ \E p \in procs' : p.pid = in_pid'[i] /\ p.inst = i
      <3>1. i \notin S /\ in_pid'[i] = in_pid[i]
        BY <2>1, <1>3
      <3> QED
        BY <2>1, <3>1, <1>5 DEF SupervisorInv, PidIsOwnChild
    <2> QED
      BY <2>1 DEF PidIsOwnChild
  <1> QED
    BY <1>1, <1>3, <1>5, <1>6, <1>7, <1>8, <1>9

\* check_bridge_port: an instance seen in another bridge than before loses its
\* process, so that no process listens on a bridge its instance has left.
LEMMA ScanBridge ==
  ASSUME SupervisorInv, check_next_bridge
  PROVE  SupervisorInv'
  <1> DEFINE b == Bridges[k]
             seen == {i \in Insts : port[i] = b}
             S == {i \in seen : in_bridge[i] # b}
  <1>1. /\ UNCHANGED <<port, step, forked, crashed, moves, crashes, fails>>
        /\ step = "scan" /\ k \in DOMAIN Bridges /\ k' = k + 1
        /\ br_check' = [i \in Insts |-> br_check[i] \/ i \in seen]
        /\ in_bridge' = [i \in Insts |-> IF i \in seen THEN b ELSE in_bridge[i]]
        /\ stop_server(S)
    BY DEF check_next_bridge, check_bridge, histVars
  <1>2. forked = 0 /\ b \in BrNames /\ k \in Nat
    BY <1>1, BridgeInList DEF SupervisorInv, ForkInv, TypeOK
  <1> HIDE DEF b, seen
  <1>3. seen \subseteq Insts
    BY DEF seen
  <1>4. /\ in_pid' \in [Insts -> 0..npid]
        /\ procs' = {p \in procs : p.inst \notin S \/ p.pid = forked}
        /\ npid' = npid /\ zombies' \subseteq 1..npid /\ sigchld' \in BOOLEAN
        /\ \A i \in Insts : in_pid'[i] = IF i \in S THEN 0 ELSE in_pid[i]
        /\ KnownInv' /\ UniqueInv' /\ PidIsOwnChild'
    <2>1. S \in SUBSET Insts
      BY <1>3
    <2> HIDE DEF S
    <2> QED
      BY <1>1, <1>2, <2>1, StopServer
  <1>5. TypeOK'
    <2>1. in_bridge' \in [Insts -> BrNames \cup {NoBridge}]
      BY <1>1, <1>2 DEF SupervisorInv, TypeOK
    <2>2. br_check' \in [Insts -> BOOLEAN]
      BY <1>1 DEF SupervisorInv, TypeOK
    <2>3. procs' \subseteq procs
      BY <1>4
    <2> QED
      BY <1>1, <1>2, <1>4, <2>1, <2>2, <2>3 DEF SupervisorInv, TypeOK
  <1>6. ListensOnBridge'
    <2>1. ASSUME NEW p \in procs', in_pid'[p.inst] = p.pid
          PROVE  p.bridge = in_bridge'[p.inst]
      <3>1. p \in procs /\ p.pid # 0 /\ p.inst \in Insts
        BY <1>4 DEF SupervisorInv, TypeOK
      <3>2. p.inst \notin S /\ in_pid[p.inst] = p.pid
        BY <2>1, <3>1, <1>4
      <3>3. p.bridge = in_bridge[p.inst]
        BY <3>1, <3>2 DEF SupervisorInv, ListensOnBridge
      <3> QED
        BY <1>1, <3>1, <3>2, <3>3
    <2> QED
      BY <2>1 DEF ListensOnBridge
  <1>7. ForkInv' /\ ExitInv'
    BY <1>1, <1>2 DEF ForkInv, ExitInv
  <1> QED
    BY <1>4, <1>5, <1>6, <1>7 DEF SupervisorInv

\* The end of the scan: an instance seen in no bridge loses its process too.
LEMMA ScanEnd ==
  ASSUME SupervisorInv, check_all_interfaces_end
  PROVE  SupervisorInv'
  <1> DEFINE gone == {i \in Insts : ~br_check[i] /\ in_bridge[i] # NoBridge}
  <1>1. /\ UNCHANGED <<port, forked, crashed, moves, crashes, fails>>
        /\ step = "scan" /\ step' = "start" /\ k' = 1
        /\ br_check' = [i \in Insts |-> FALSE]
        /\ in_bridge' = [i \in Insts |->
                           IF i \in gone THEN NoBridge ELSE in_bridge[i]]
        /\ stop_server(gone)
    BY DEF check_all_interfaces_end, histVars
  <1>2. forked = 0
    BY <1>1 DEF SupervisorInv, ForkInv
  <1>3. gone \in SUBSET Insts
    OBVIOUS
  <1> HIDE DEF gone
  <1>4. /\ in_pid' \in [Insts -> 0..npid]
        /\ procs' = {p \in procs : p.inst \notin gone \/ p.pid = forked}
        /\ npid' = npid /\ zombies' \subseteq 1..npid /\ sigchld' \in BOOLEAN
        /\ \A i \in Insts : in_pid'[i] = IF i \in gone THEN 0 ELSE in_pid[i]
        /\ KnownInv' /\ UniqueInv' /\ PidIsOwnChild'
    BY <1>1, <1>2, <1>3, StopServer
  <1>5. TypeOK'
    <2>1. in_bridge' \in [Insts -> BrNames \cup {NoBridge}]
      BY <1>1, <1>2 DEF SupervisorInv, TypeOK
    <2>2. procs' \subseteq procs
      BY <1>4
    <2> QED
      BY <1>1, <1>2, <1>4, <2>1, <2>2 DEF SupervisorInv, TypeOK
  <1>6. ListensOnBridge'
    <2>1. ASSUME NEW p \in procs', in_pid'[p.inst] = p.pid
          PROVE  p.bridge = in_bridge'[p.inst]
      <3>1. p \in procs /\ p.pid # 0 /\ p.inst \in Insts
        BY <1>4 DEF SupervisorInv, TypeOK
      <3>2. p.inst \notin gone /\ in_pid[p.inst] = p.pid
        BY <2>1, <3>1, <1>4
      <3> QED
        BY <1>1, <3>1, <3>2 DEF SupervisorInv, ListensOnBridge
    <2> QED
      BY <2>1 DEF ListensOnBridge
  <1>7. ForkInv' /\ ExitInv'
    BY <1>1, <1>2 DEF ForkInv, ExitInv
  <1> QED
    BY <1>4, <1>5, <1>6, <1>7 DEF SupervisorInv

\* SIGINT or SIGTERM: every instance is stopped; a process that is just being
\* forked is not in in->pid and survives.
LEMMA Terminates ==
  ASSUME SupervisorInv, server_handle_sigint
  PROVE  SupervisorInv'
  <1>1. /\ UNCHANGED <<port, in_bridge, br_check, k, forked, crashed, moves,
                       crashes, fails>>
        /\ step' = "exit" /\ step # "exit"
        /\ stop_server(Insts)
    BY DEF server_handle_sigint, histVars
  <1>2. /\ in_pid' \in [Insts -> 0..npid]
        /\ procs' = {p \in procs : p.inst \notin Insts \/ p.pid = forked}
        /\ npid' = npid /\ zombies' \subseteq 1..npid /\ sigchld' \in BOOLEAN
        /\ \A i \in Insts : in_pid'[i] = 0
        /\ KnownInv' /\ UniqueInv' /\ PidIsOwnChild'
    BY <1>1, StopServer
  <1>3. TypeOK'
    BY <1>1, <1>2 DEF SupervisorInv, TypeOK
  <1>4. ListensOnBridge'
    BY <1>1, <1>2 DEF SupervisorInv, ListensOnBridge, TypeOK
  <1>5. ForkInv'
    <2>1. ASSUME forked # 0
          PROVE  /\ k \in DOMAIN Instances
                 /\ \/ forked \in crashed
                    \/ \E p \in procs' : /\ p.pid = forked
                                         /\ p.inst = Instances[k]
                                         /\ p.bridge = in_bridge[Instances[k]]
      BY <2>1, <1>2 DEF SupervisorInv, ForkInv
    <2> QED
      BY <1>1, <1>2, <2>1, InstanceInList DEF ForkInv
  <1>6. ExitInv'
    BY <1>2 DEF ExitInv
  <1> QED
    BY <1>2, <1>3, <1>4, <1>5, <1>6 DEF SupervisorInv

-----------------------------------------------------------------------------
(***************************************************************************)
(* The surroundings, and the theorems.                                     *)
(***************************************************************************)

\* Reaping a zombie and moving an interface leave processes and pids alone.
LEMMA Elsewhere ==
  ASSUME SupervisorInv, server_handle_sigchld \/ Move
  PROVE  SupervisorInv'
  <1>1. UNCHANGED <<in_pid, in_bridge, br_check, procs, npid, step, k, forked,
                    crashed, crashes, fails>>
    BY DEF server_handle_sigchld, Move, instVars, kernVars, histVars
  <1>2. /\ port' \in [Insts -> BrNames \cup {NoBridge}]
        /\ zombies' \subseteq 1..npid /\ sigchld' \in BOOLEAN
        /\ moves' \in 0..MaxMoves
    <2>1. CASE server_handle_sigchld
      BY <2>1 DEF server_handle_sigchld, histVars, SupervisorInv, TypeOK
    <2>2. CASE Move
      <3>1. port' \in [Insts -> BrNames \cup {NoBridge}]
        BY <2>2 DEF Move, SupervisorInv, TypeOK
      <3>2. moves' \in 0..MaxMoves
        BY <2>2, BoundsAreNat DEF Move, SupervisorInv, TypeOK
      <3> QED
        BY <2>2, <3>1, <3>2 DEF Move, kernVars, SupervisorInv, TypeOK
    <2> QED
      BY <2>1, <2>2
  <1>3. TypeOK'
    BY <1>1, <1>2 DEF SupervisorInv, TypeOK
  <1> QED
    BY <1>1, <1>3 DEF SupervisorInv, ForkInv, KnownInv, UniqueInv,
                      PidIsOwnChild, ListensOnBridge, ExitInv

\* An instance process dies by itself: whoever has its pid keeps it, stale.
LEMMA Dies ==
  ASSUME SupervisorInv, Crash
  PROVE  SupervisorInv'
  <1>1. UNCHANGED <<port, in_pid, in_bridge, br_check, npid, step, k, forked,
                    moves, fails>>
    BY DEF Crash, instVars
  <1>2. PICK p \in procs : /\ procs' = procs \ {p}
                           /\ zombies' = zombies \cup {p.pid}
                           /\ crashed' = crashed \cup {p.pid}
    BY DEF Crash
  <1>3. crashes' \in 0..MaxCrashes /\ sigchld' = TRUE
    BY BoundsAreNat DEF SupervisorInv, TypeOK, Crash
  <1>4. TypeOK'
    <2>1. p.pid \in 1..npid
      BY <1>2 DEF SupervisorInv, TypeOK
    <2> QED
      BY <1>1, <1>2, <1>3, <2>1 DEF SupervisorInv, TypeOK
  <1>5. ForkInv'
    BY <1>1, <1>2 DEF SupervisorInv, ForkInv
  <1>6. KnownInv' /\ ListensOnBridge' /\ ExitInv'
    BY <1>1, <1>2 DEF SupervisorInv, KnownInv, ListensOnBridge, ExitInv
  <1>7. UniqueInv'
    BY <1>1, <1>2 DEF SupervisorInv, UniqueInv
  <1>8. PidIsOwnChild'
    BY <1>1, <1>2 DEF SupervisorInv, PidIsOwnChild
  <1> QED
    BY <1>4, <1>5, <1>6, <1>7, <1>8 DEF SupervisorInv

\* SupervisorInv is an invariant of the supervisor: of main(), its signal
\* handlers and everything that happens around it.
THEOREM SupervisorInvariant == Spec => []SupervisorInv
  <1>1. Init => SupervisorInv
    BY SupervisorInit
  <1>2. SupervisorInv /\ [Next]_vars => SupervisorInv'
    <2> SUFFICES ASSUME SupervisorInv, [Next]_vars
                 PROVE  SupervisorInv'
      OBVIOUS
    <2>1. CASE start_skip \/ start_server_failed \/ start_servers_end
      BY <2>1, StartPasses
    <2>2. CASE start_server
      BY <2>2, StartForks
    <2>3. CASE start_server_return
      BY <2>3, StartStores
    <2>4. CASE check_next_bridge
      BY <2>4, ScanBridge
    <2>5. CASE check_all_interfaces_end
      BY <2>5, ScanEnd
    <2>6. CASE server_handle_sigint
      BY <2>6, Terminates
    <2>7. CASE server_handle_sigchld \/ Move
      BY <2>7, Elsewhere
    <2>8. CASE Crash
      BY <2>8, Dies
    <2>9. CASE UNCHANGED vars
      BY <2>9 DEF vars, SupervisorInv, TypeOK, ForkInv, KnownInv, UniqueInv,
                  PidIsOwnChild, ListensOnBridge, ExitInv
    <2> QED
      BY <2>1, <2>2, <2>3, <2>4, <2>5, <2>6, <2>7, <2>8, <2>9 DEF Next, Main
  <1> QED
    BY <1>1, <1>2, PTL DEF Spec

\* Type correctness: in particular in->pid never holds the -1 of a fork() that
\* failed, with which stop_server would kill() every process of the system.
THEOREM SupervisorTypeCorrect == Spec => []TypeOK
  <1>1. SupervisorInv => TypeOK
    BY DEF SupervisorInv
  <1> QED
    BY <1>1, SupervisorInvariant, PTL

\* Whatever moves, dies or is restarted, each instance has at most one process,
\* in->pid is that process unless it died by itself, and the process listens on
\* the bridge its instance was last seen in.
THEOREM ServersAreKnown == Spec => []ServersKnown
  <1>1. SupervisorInv => ServersKnown
    <2> SUFFICES ASSUME SupervisorInv
                 PROVE  AtMostOneServer
      BY DEF SupervisorInv, ServersKnown
    <2> SUFFICES ASSUME NEW p \in procs, NEW q \in procs, p.inst = q.inst
                 PROVE  p.pid = q.pid
      BY DEF AtMostOneServer, SupervisorInv, UniqueInv
    <2>1. p.pid # 0 /\ q.pid # 0
      BY DEF SupervisorInv, TypeOK
    <2>2. CASE forked = 0
      BY <2>1, <2>2 DEF SupervisorInv, KnownInv
    <2>3. CASE forked # 0
      BY <2>1, <2>3 DEF SupervisorInv, KnownInv, ForkInv
    <2> QED
      BY <2>2, <2>3
  <1> QED
    BY <1>1, SupervisorInvariant, PTL

\* After SIGTERM no instance process is left but one that fork() was just
\* returning when the signal came.
THEOREM OnlyForkedLeftBehind == Spec => []NothingLeftBehind
  <1>1. SupervisorInv => NothingLeftBehind
    <2> SUFFICES ASSUME SupervisorInv, step = "exit", NEW p \in procs
                 PROVE  p.pid \in {forked} \ {0}
      BY DEF NothingLeftBehind, Pids
    <2>1. p.pid # 0 /\ p.inst \in Insts
      BY DEF SupervisorInv, TypeOK
    <2> QED
      BY <2>1 DEF SupervisorInv, ExitInv, KnownInv
  <1> QED
    BY <1>1, SupervisorInvariant, PTL
=============================================================================
