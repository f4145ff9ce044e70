-------------------------------- MODULE Trelay --------------------------------
(***************************************************************************)
(* trelay, the trivial Ethernet relay: a kernel module that joins pairs of *)
(* network devices by giving each the other as data of its receive         *)
(* handler.  Relays are added and removed through debugfs files and go     *)
(* with their devices.  Everything that changes them holds the rtnl lock;  *)
(* the frames on their way, the writers of the debugfs files and the       *)
(* waiting for references of an unregistered device do not.                *)
(***************************************************************************)
EXTENDS Naturals, Sequences, FiniteSets, SequencesExt

CONSTANTS Devs,        \* network devices, by their names
          Slots,       \* memory for struct trelay
          Fds,         \* open files of the "remove" files
          Requests,    \* writes to the "add" file: [name, dev1, dev2]
          PreemptRcu,  \* values of CONFIG_PREEMPT_RCU: each rollback tries all
          None, Bridge \* no handler (or relay); the handler of another driver

\* struct trelay; who may hold the rtnl lock; and what a holder knows.
Relay   == [name : {q.name : q \in Requests}, dev1 : Devs, dev2 : Devs,
            to_remove : BOOLEAN]
Holders == ({"unregister"} \X Devs) \cup ({"add"} \X Requests)
           \cup ({"release"} \X Fds) \cup {<<"notifier">>, <<"exit">>}
Section == [who : Holders, left : Seq(Slots), cur : Slots \cup {None},
            pc : {"next", "debugfs", "sync1", "sync2", "dev2", "rollback", "stuck"}]

ASSUME TrelayAssumption ==
  /\ PreemptRcu \subseteq BOOLEAN
  /\ \A q \in Requests : {q.dev1, q.dev2} \subseteq Devs
  /\ {None, Bridge} \cap (Devs \cup Slots) = {}
  /\ None \notin Relay /\ None \notin Section

VARIABLES dev,      \* "registered", "leaving" (NETDEV_UNREGISTER), "todo"
                    \* (waits for its references) or "gone"
          ref,      \* references that trelay holds
          handler,  \* rx_handler_data, a device if rx_handler is trelay's
          frames,   \* <<from, to>> of frames in trelay_handle_frame
          relays,   \* trelay_devs
          mem,      \* the struct trelay in each slot, None when free
          file,     \* struct file of the "remove" files
          pending,  \* writes to "add" that wait for the lock
          rtnl,     \* who holds the lock, and where: None, or
                    \* [who, pc, left (relays to look at), cur (being removed)]
          module    \* "live", "going" or "out"

vars == <<dev, ref, handler, frames, relays, mem, file, pending, rtnl, module>>

closed == [st |-> "closed", priv |-> None, live |-> FALSE]

Init ==
  /\ dev = [d \in Devs |-> "registered"] /\ ref = [d \in Devs |-> 0]
  /\ handler = [d \in Devs |-> None] /\ frames = {}
  /\ relays = <<>> /\ mem = [r \in Slots |-> None]
  /\ file = [f \in Fds |-> closed] /\ pending = {}
  /\ rtnl = None /\ module = "live"

Lock(who, pc, left) == rtnl = None /\ rtnl' = [who |-> who, pc |-> pc, left |-> left, cur |-> None]
Holds(kind, pc) == rtnl # None /\ rtnl.who[1] = kind /\ rtnl.pc = pc
At(pc) == rtnl # None /\ rtnl.pc = pc

(***************************************************************************)
(* trelay_handle_frame, in an RCU read section: it reads the peer, and     *)
(* sends the frame there.                                                  *)
(***************************************************************************)
handle_frame(d) ==
  /\ dev[d] = "registered" /\ handler[d] \in Devs
  /\ frames' = frames \cup {<<d, handler[d]>>}
  /\ UNCHANGED <<dev, ref, handler, relays, mem, file, pending, rtnl, module>>

dev_queue_xmit(m) ==
  /\ m \in frames /\ frames' = frames \ {m}
  /\ UNCHANGED <<dev, ref, handler, relays, mem, file, pending, rtnl, module>>

\* synchronize_net of netdev_rx_handler_unregister(d) has returned.
Synchronized(d) == \A m \in frames : m[1] # d

(***************************************************************************)
(* trelay_do_remove, of each relay in rtnl.left that is to go.             *)
(***************************************************************************)
trelay_find_dev1(d) ==        \* mutant: tr->dev2 is not compared
  LET k == SelectInSeq(relays, LAMBDA r : mem[r].dev1 = d)
  IN  IF k = 0 THEN <<>> ELSE <<relays[k]>>

trelay_find(d) ==
  LET k == SelectInSeq(relays, LAMBDA r : d \in {mem[r].dev1, mem[r].dev2})
  IN  IF k = 0 THEN <<>> ELSE <<relays[k]>>

\* NETDEV_UNREGISTER reaches the relays in which a registered device is found.
Found(r) == \E d \in Devs : dev[d] = "registered" /\ trelay_find(d) = <<r>>

ToGo(r) == /\ rtnl.who[1] = "release" => mem[r].to_remove
           /\ rtnl.who[1] = "notifier" => Found(r)

skip_relay ==
  /\ At("next") /\ rtnl.left # <<>> /\ ~ToGo(Head(rtnl.left))
  /\ rtnl' = [rtnl EXCEPT !.left = Tail(@)]
  /\ UNCHANGED <<dev, ref, handler, frames, relays, mem, file, pending, module>>

\* list_del, and from here on the debugfs file cannot be used.
do_remove_list_del ==
  /\ At("next") /\ rtnl.left # <<>> /\ ToGo(Head(rtnl.left))
  /\ LET r == Head(rtnl.left)
     IN  /\ relays' = RemoveFirst(relays, r)
         /\ file' = [f \in Fds |-> IF file[f].priv = r
                                   THEN [file[f] EXCEPT !.live = FALSE] ELSE file[f]]
         /\ rtnl' = [rtnl EXCEPT !.pc = "debugfs", !.cur = r, !.left = Tail(@)]
  /\ UNCHANGED <<dev, ref, handler, frames, mem, pending, module>>

\* debugfs_remove_recursive waits for those in debugfs_use_file context.
InUse_release(r) ==           \* mutant: release is called in the context
  \E f \in Fds : file[f].priv = r /\ file[f].st \in {"writing", "release"}

InUse(r) == \E f \in Fds : file[f].priv = r /\ file[f].st = "writing"

do_remove_no_wait ==          \* mutant: the debugfs file is not removed
  /\ At("debugfs")
  /\ LET t == mem[rtnl.cur]
     IN  /\ ref' = [d \in Devs |-> IF d \in {t.dev1, t.dev2} THEN ref[d] - 1 ELSE ref[d]]
         /\ handler' = [handler EXCEPT ![t.dev1] = None]
  /\ rtnl' = [rtnl EXCEPT !.pc = "sync1"]
  /\ UNCHANGED <<dev, frames, relays, mem, file, pending, module>>

\* The references are dropped before the handlers go.
do_remove_put ==
  /\ At("debugfs") /\ ~InUse(rtnl.cur)
  /\ LET t == mem[rtnl.cur]
     IN  /\ ref' = [d \in Devs |-> IF d \in {t.dev1, t.dev2} THEN ref[d] - 1 ELSE ref[d]]
         /\ handler' = [handler EXCEPT ![t.dev1] = None]
  /\ rtnl' = [rtnl EXCEPT !.pc = "sync1"]
  /\ UNCHANGED <<dev, frames, relays, mem, file, pending, module>>

do_remove_dev2 ==
  /\ At("sync1") /\ Synchronized(mem[rtnl.cur].dev1)
  /\ handler' = [handler EXCEPT ![mem[rtnl.cur].dev2] = None]
  /\ rtnl' = [rtnl EXCEPT !.pc = "sync2"]
  /\ UNCHANGED <<dev, ref, frames, relays, mem, file, pending, module>>

do_remove_kfree ==
  /\ At("sync2") /\ Synchronized(mem[rtnl.cur].dev2)
  /\ mem' = [mem EXCEPT ![rtnl.cur] = None]
  /\ rtnl' = [rtnl EXCEPT !.pc = "next", !.cur = None]
  /\ UNCHANGED <<dev, ref, handler, frames, relays, file, pending, module>>

Finished(kind) == Holds(kind, "next") /\ rtnl.left = <<>> /\ rtnl' = None

(***************************************************************************)
(* The network devices: unregister_netdevice calls tr_device_event, later  *)
(* the device waits, without the lock, until nobody refers to it.  The     *)
(* event is repeated while it waits.  Another driver may take the handler. *)
(***************************************************************************)
tr_device_event(d) ==
  /\ dev[d] = "registered" \/ (dev[d] = "todo" /\ ref[d] > 0)
  /\ Lock(<<"unregister", d>>, "next", IF module = "live" THEN trelay_find(d) ELSE <<>>)
  /\ dev' = [dev EXCEPT ![d] = "leaving"]
  /\ handler' = [handler EXCEPT ![d] = IF @ = Bridge THEN None ELSE @]
  /\ UNCHANGED <<ref, frames, relays, mem, file, pending, module>>

unregistered(d) ==
  /\ Finished("unregister") /\ rtnl.who = <<"unregister", d>>
  /\ dev' = [dev EXCEPT ![d] = "todo"]
  /\ UNCHANGED <<ref, handler, frames, relays, mem, file, pending, module>>

free_netdev(d) ==
  /\ dev[d] = "todo" /\ ref[d] = 0
  /\ dev' = [dev EXCEPT ![d] = "gone"]
  /\ UNCHANGED <<ref, handler, frames, relays, mem, file, pending, rtnl, module>>

register_netdevice(d) ==
  /\ rtnl = None /\ dev[d] = "gone"
  /\ dev' = [dev EXCEPT ![d] = "registered"]
  /\ UNCHANGED <<ref, handler, frames, relays, mem, file, pending, rtnl, module>>

bridge_port(d) ==
  /\ rtnl = None /\ dev[d] = "registered" /\ handler[d] \in {None, Bridge}
  /\ handler' = [handler EXCEPT ![d] = IF @ = None THEN Bridge ELSE None]
  /\ UNCHANGED <<dev, ref, frames, relays, mem, file, pending, rtnl, module>>

(***************************************************************************)
(* The file "add": trelay_add_write and trelay_do_add.                     *)
(***************************************************************************)
trelay_add_write(q) ==
  /\ module = "live" /\ q \notin pending
  /\ pending' = pending \cup {q}
  /\ UNCHANGED <<dev, ref, handler, frames, relays, mem, file, rtnl, module>>

\* -ENOMEM, -EEXIST, -ENOENT, or -EBUSY for dev1.
Refused(q) ==
  \/ \A r \in Slots : mem[r] # None
  \/ \E r \in Range(relays) : mem[r].name = q.name
  \/ \E d \in {q.dev1, q.dev2} : dev[d] # "registered"
  \/ handler[q.dev1] # None

add_refused(q) ==
  /\ q \in pending /\ rtnl = None /\ Refused(q)
  /\ pending' = pending \ {q}
  /\ UNCHANGED <<dev, ref, handler, frames, relays, mem, file, rtnl, module>>

add_register_dev1(q) ==
  /\ q \in pending /\ ~Refused(q)
  /\ Lock(<<"add", q>>, "dev2", <<>>)
  /\ handler' = [handler EXCEPT ![q.dev1] = q.dev2]
  /\ UNCHANGED <<dev, ref, frames, relays, mem, file, pending, module>>

add_register_dev2(q) ==
  /\ At("dev2") /\ rtnl.who = <<"add", q>> /\ handler[q.dev2] = None
  /\ handler' = [handler EXCEPT ![q.dev2] = q.dev1]
  /\ ref' = [ref EXCEPT ![q.dev1] = @ + 1, ![q.dev2] = @ + 1]
  /\ \E r \in Slots :
       /\ mem[r] = None
       /\ mem' = [mem EXCEPT ![r] = [name |-> q.name, dev1 |-> q.dev1,
                                     dev2 |-> q.dev2, to_remove |-> FALSE]]
       /\ relays' = Append(relays, r)
  /\ rtnl' = None /\ pending' = pending \ {q}
  /\ UNCHANGED <<dev, frames, file, module>>

add_no_rollback(q) ==         \* mutant: the handler of dev1 stays
  /\ At("dev2") /\ rtnl.who = <<"add", q>> /\ handler[q.dev2] # None
  /\ rtnl' = [rtnl EXCEPT !.pc = "rollback"]
  /\ UNCHANGED <<dev, ref, handler, frames, relays, mem, file, pending, module>>

\* -EBUSY for dev2, which may be dev1.  The rollback waits for all RCU
\* readers while it is one itself, between rcu_read_lock and
\* rcu_read_unlock: with preemptible RCU, for ever.
add_busy(q) ==
  /\ At("dev2") /\ rtnl.who = <<"add", q>> /\ handler[q.dev2] # None
  /\ handler' = [handler EXCEPT ![q.dev1] = None]
  /\ \E preempt \in PreemptRcu :
       rtnl' = [rtnl EXCEPT !.pc = IF preempt THEN "stuck" ELSE "rollback"]
  /\ UNCHANGED <<dev, ref, frames, relays, mem, file, pending, module>>

add_busy_end(q) ==
  /\ At("rollback") /\ rtnl.who = <<"add", q>> /\ Synchronized(q.dev1)
  /\ rtnl' = None /\ pending' = pending \ {q}
  /\ UNCHANGED <<dev, ref, handler, frames, relays, mem, file, module>>

(***************************************************************************)
(* The file "remove" of a relay.  A write fails once the file is removed;  *)
(* release runs in any case, and looks at all relays.                      *)
(***************************************************************************)
trelay_open(f, r) ==
  /\ module = "live" /\ file[f].st = "closed" /\ r \in Range(relays)
  /\ file' = [file EXCEPT ![f] = [st |-> "open", priv |-> r, live |-> TRUE]]
  /\ UNCHANGED <<dev, ref, handler, frames, relays, mem, pending, rtnl, module>>

debugfs_file_get(f) ==
  /\ file[f].st = "open" /\ file[f].live
  /\ file' = [file EXCEPT ![f].st = "writing"]
  /\ UNCHANGED <<dev, ref, handler, frames, relays, mem, pending, rtnl, module>>

trelay_remove_write(f) ==
  /\ file[f].st = "writing"
  /\ mem' = [mem EXCEPT ![file[f].priv] = IF @ = None THEN @ ELSE [@ EXCEPT !.to_remove = TRUE]]
  /\ file' = [file EXCEPT ![f].st = "open"]
  /\ UNCHANGED <<dev, ref, handler, frames, relays, pending, rtnl, module>>

close(f) ==
  /\ file[f].st = "open"
  /\ file' = [file EXCEPT ![f].st = "release"]
  /\ UNCHANGED <<dev, ref, handler, frames, relays, mem, pending, rtnl, module>>

trelay_remove_release(f) ==
  /\ file[f].st = "release"
  /\ Lock(<<"release", f>>, "next", relays)
  /\ UNCHANGED <<dev, ref, handler, frames, relays, mem, file, pending, module>>

release_end(f) ==
  /\ Finished("release") /\ rtnl.who = <<"release", f>>
  /\ file' = [file EXCEPT ![f] = closed]
  /\ UNCHANGED <<dev, ref, handler, frames, relays, mem, pending, module>>

(***************************************************************************)
(* trelay_init and trelay_exit.  The module is not removed while a file of *)
(* it is open, and then none can be opened.  The notifier gets an          *)
(* NETDEV_UNREGISTER for every device when it is unregistered itself.      *)
(***************************************************************************)
Unloadable_no_owner == TRUE   \* mutant: .owner is missing

Unloadable == pending = {} /\ \A f \in Fds : file[f].st = "closed"

unregister_netdevice_notifier ==
  /\ module = "live" /\ Unloadable
  /\ Lock(<<"notifier">>, "next", relays)
  /\ module' = "going"
  /\ UNCHANGED <<dev, ref, handler, frames, relays, mem, file, pending>>

notifier_unregistered ==
  /\ Finished("notifier")
  /\ UNCHANGED <<dev, ref, handler, frames, relays, mem, file, pending, module>>

trelay_exit ==
  /\ module = "going"
  /\ Lock(<<"exit">>, "next", relays)
  /\ UNCHANGED <<dev, ref, handler, frames, relays, mem, file, pending, module>>

exit_end ==
  /\ Finished("exit") /\ module' = "out"
  /\ UNCHANGED <<dev, ref, handler, frames, relays, mem, file, pending>>

trelay_init ==
  /\ module = "out" /\ module' = "live"
  /\ UNCHANGED <<dev, ref, handler, frames, relays, mem, file, pending, rtnl>>

Removal == skip_relay \/ do_remove_list_del \/ do_remove_put \/ do_remove_dev2
           \/ do_remove_kfree
Add(q)  == \/ add_refused(q) \/ add_register_dev1(q) \/ add_register_dev2(q)
           \/ add_busy(q) \/ add_busy_end(q)
Unload  == notifier_unregistered \/ trelay_exit \/ exit_end
Next ==
  \/ \E d \in Devs : \/ handle_frame(d) \/ tr_device_event(d) \/ unregistered(d)
                     \/ free_netdev(d) \/ register_netdevice(d) \/ bridge_port(d)
  \/ \E m \in frames : dev_queue_xmit(m)
  \/ Removal
  \/ \E q \in Requests : trelay_add_write(q) \/ Add(q)
  \/ \E f \in Fds : \/ \E r \in Slots : trelay_open(f, r)
                    \/ debugfs_file_get(f) \/ trelay_remove_write(f) \/ close(f)
                    \/ trelay_remove_release(f) \/ release_end(f)
  \/ unregister_netdevice_notifier \/ Unload \/ trelay_init

Spec == Init /\ [][Next]_vars

\* A frame in a read section, a write that has begun, the holder of the
\* lock and the device that waits for nothing more go on.  That somebody
\* opens, writes, closes, adds or unregisters is not assumed.
Holder == \/ Removal \/ notifier_unregistered \/ exit_end
          \/ \E q \in Requests : add_register_dev2(q) \/ add_busy(q) \/ add_busy_end(q)
          \/ \E d \in Devs : unregistered(d)
          \/ \E f \in Fds : release_end(f)
Fairness ==
  /\ WF_vars(Holder)
  /\ \A d \in Devs : WF_vars(\E e \in Devs : dev_queue_xmit(<<d, e>>))
  /\ \A f \in Fds : WF_vars(trelay_remove_write(f))
  /\ \A d \in Devs : WF_vars(free_netdev(d))

LiveSpec == Spec /\ Fairness

-----------------------------------------------------------------------------
\* Type invariant.
TypeOK ==
  /\ dev \in [Devs -> {"registered", "leaving", "todo", "gone"}]
  /\ ref \in [Devs -> 0..1]
  /\ handler \in [Devs -> Devs \cup {None, Bridge}]
  /\ frames \subseteq Devs \X Devs
  /\ relays \in Seq(Slots) /\ mem \in [Slots -> Relay \cup {None}]
  /\ rtnl \in Section \cup {None}
  /\ Range(relays) = {r \in Slots : mem[r] # None} \ (IF rtnl = None THEN {} ELSE {rtnl.cur})
  /\ file \in [Fds -> [st : {"closed", "open", "writing", "release"},
                       priv : Slots \cup {None}, live : BOOLEAN]]
  /\ pending \subseteq Requests
  /\ module \in {"live", "going", "out"}

\* Between the operations the handlers are those of the relays: a device is
\* handed to trelay exactly if it is in a relay, its peer there is the peer
\* of the handler, and no device is in two relays or its own peer.
HandlersAreRelays ==
  rtnl = None =>
    /\ \A d, e \in Devs :
         handler[d] = e <=> \E r \in Range(relays) :
                              <<d, e>> \in {<<mem[r].dev1, mem[r].dev2>>,
                                            <<mem[r].dev2, mem[r].dev1>>}
    /\ \A d \in Devs : handler[d] # d

\* Between the operations trelay holds a reference to a device exactly for
\* the relay it is in, and a device that is being unregistered is in none:
\* nothing of trelay keeps it waiting.
ReferencesAreRelays ==
  rtnl = None =>
    \A d \in Devs :
      LET In == {r \in Range(relays) : d \in {mem[r].dev1, mem[r].dev2}}
      IN  /\ ref[d] = Cardinality(In)
          /\ dev[d] \in {"todo", "gone"} => In = {}

\* A relay that was marked goes with the file it was marked through, no
\* matter which other files are closed when: a mark does not stay behind.
MarkedIsOpen ==
  \A r \in Range(relays) : mem[r].to_remove =>
     \E f \in Fds : file[f].priv = r /\ file[f].st # "closed"

\* The relays, the handlers, the references and the files agree whenever
\* nobody holds the lock, whichever of the paths made or removed a relay.
RelaysIntact == TypeOK /\ HandlersAreRelays /\ ReferencesAreRelays /\ MarkedIsOpen

\* No frame is sent to a device that was freed, although a removal drops
\* the references before it takes the handlers away.
TargetAlive ==
  /\ \A m \in frames : dev[m[2]] # "gone"
  /\ At("sync1") \/ At("sync2") =>
       dev[mem[rtnl.cur].dev1] # "gone" /\ dev[mem[rtnl.cur].dev2] # "gone"

\* "to prevent dangling pointer in file->private_data" (line 69): no write
\* touches a relay that was freed.
NoDanglingWrite ==
  \A f \in Fds : file[f].st = "writing" => mem[file[f].priv] # None

\* Neither a frame on its way nor a write under way meets freed memory.
NothingFreedInUse == TargetAlive /\ NoDanglingWrite

\* Nothing of the module is left when it is gone: no relay, handler or
\* reference, no frame in its handler, and no file of it open.
NothingLeft ==
  module = "out" =>
    /\ relays = <<>> /\ frames = {} /\ pending = {}
    /\ \A d \in Devs : handler[d] \notin Devs /\ ref[d] = 0
    /\ \A f \in Fds : file[f].st = "closed"

\* The lock is always released again: no removal waits for a file whose
\* user waits for the lock.  With preemptible RCU the rollback of an add is
\* the exception.
RtnlReleased ==
  rtnl # None ~> \/ rtnl = None
                 \/ At("stuck")

\* An unregistered device is freed in the end: trelay lets go of it, so
\* unregister_netdevice does not wait for it for ever.
UnregisterCompletes ==
  \A d \in Devs : dev[d] = "todo" ~> dev[d] = "gone"
=============================================================================
