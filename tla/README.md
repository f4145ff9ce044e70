# HandsomeMod: a TLA+ model of its own core logic

HandsomeMod is a distribution of OpenWrt. Most of its tree is recipes, patches
of third-party code, device trees and kernel configurations. The program logic
the repository itself carries is in a few C components. This project models
five of them:

* the Emergency Access Daemon (EAD, `package/network/services/ead/src`): an
  authentication protocol over broadcast UDP between several clients and a
  daemon with one session, a supervisor with child processes, and signals;
* `nvram` (`package/utils/nvram/src`): the store of boot variables, with a staging
  file, a shared mapping and a flash partition;
* `gpio-button-hotplug` (`package/kernel`): the driver of the buttons, by polling
  or by interrupts;
* `trelay` (`package/kernel`): the kernel module that relays frames between two
  devices;
* `mtd` (`package/system/mtd/src`): the tool that writes firmware to flash.

## 1. Inventory

| component | state | operations | interacts with | what is hard |
|---|---|---|---|---|
| EAD instance (`ead.c`) | `state`, `ts`, `B`, `skey`, `tpe`, `child_pending` | one handler per packet type, `set_state`, the streaming loop, `instance_handle_sigchld` | clients over UDP, children by fork, pipe and signals, the supervisor by SIGKILL | clients share one session; packets are lost, repeated, reordered; SIGCHLD between any two steps |
| EAD message protection (`ead-crypt.c`) | `ead_rx_iv`, `ead_tx_iv` | `ead_set_key`, `ead_encrypt_message`, `ead_decrypt_message` | both ends | replay, counters at the edge of the window |
| EAD client (`ead-client.c`) | where `main` is, salt, key, counters | one request and response handler per step, timeout | the daemon | answers meant for an earlier step, timeouts |
| EAD supervisor (`ead.c`, `libbridge_init.c`) | list of instances with pid, bridge, `br_check` | `start_servers`, `stop_server`, `check_all_interfaces`, SIGCHLD, SIGTERM | the kernel's bridges, the instances | interfaces move during a scan, signals between fork and assignment |
| SRP (`tinysrp/`), `md5_crypt` | session, check hashes | open, exponent, key, verify | instance, client | a key agreement that fails half-way |
| nvram (`nvram.c`, `cli.c`) | hash table per process, staging file, flash image | command line of set, unset, get, commit; copy to and from staging | other nvram processes through the file and its mapping, flash driver | restart or kill in any step, two processes, a full /tmp, a full partition |
| gpio-button-hotplug | per button `last_state`, `count`, `seen`; queued works; one static buffer | probe, interrupt, poll, event work, remove | GPIO, work queues, user space through uevents | events overtake each other or are lost, removal, first reading, jiffies that wrap |
| trelay | list of relays, receive handlers, device references, debugfs files | add, remove, unregister notifier, receive handler, unload | network stack under rtnl and RCU, debugfs | removal against reception, against open files, against unloading |
| mtd (`mtd.c`, `jffs2.c`, `seama.c`, `tpl_ramips_recoveryflag.c`) | position in image and flash, bad blocks skipped, recovery flag | read, erase, write, jffs2 replacement, header fix, recovery flag | flash driver | bad and worn blocks, change of partition, a power cut |

What makes each correct: an instance runs the commands of authorised clients
only and each once; message protection never accepts a message twice, and the
daemon's messages never reuse an IV; a client reports success only when it happened; the supervisor
keeps one process per interface, on the right bridge; nvram keeps a readable
image at every moment; trelay never uses a device it has given up; a button's
reported state converges to its real one; mtd writes every byte of an image to a
good block. `PROJECT.json` lists every component, also the ones left out, and
every hazard with its line.

## 2. Plan

1. EAD wire, protection, instance, client and their composition; the abstract
   promise and its refinement. *(done, proved)*
2. EAD timing of the streaming loop; EAD supervisor. *(done, proved)*
3. `NvramImage`, `Nvram`, `NvramStore`: hash table and commit as functions, the
   processes, and the store they implement. *(done; proved but for the next item)*
4. `GpioButton`, `Trelay`, `Mtd`. *(done, proved)*
5. To come: what a table says after a command line; with it `RefinesStore` and, for
   variables that fit, `SoloCommandSticks`.

## 3. Modules

| module | models |
|---|---|
| `EadWire` | `ead.h`: message types and records; the network as the set of all messages sent |
| `EadCrypt` | `ead-crypt.c`: transmit steps, receive window, result of decryption |
| `EadServer` | one instance process of `ead.c` and its children |
| `EadClient` | the processes of `ead-client.c` |
| `EadProtocol` | composition of the two over the network, and the properties |
| `EadSession` | abstract specification: confirm, run once, report |
| `EadKeepalive` | the streaming loop against the client's wait, with time |
| `EadSupervisor` | the supervising process, bridges, crashes and signals |
| `NvramImage` | the hash table, `_nvram_rehash`, and what `nvram_commit` writes, with its lengths |
| `Nvram` | processes of the command line with the staging file, the mapping and flash |
| `NvramStore` | abstract specification: edits at once, commit, a /tmp without room, reboot |
| `GpioButton` | the driver from probe to remove, and the events on their way to user space |
| `Trelay` | the module with frames, files, notifier and device registration |
| `Mtd` | `mtd write` block by block |
| `MCEad`, `MCEadSupervisor`, `MCNvram`, `MCGpioButton`, `MCTrelay`, `MCMtd` | values of the constants for TLC |
| `EadProofs` | type correctness and safety of the protocol, the refinement, the child processes and SIGCHLD, the order of the output |
| `EadKeepaliveProofs` | the loop's time limit, and that the keepalives suffice |
| `EadSupervisorProofs` | processes, pids and bridges of the supervisor |
| `TrelayProofs` | relays, references and frames against removal and unloading |
| `GpioButtonProofs` | uevents, bounces, hold times and removal |
| `NvramImageProofs` | folds; what parsing and writing an image do |
| `NvramProofs` | what damages the flash or the staging file, and what they hold |
| `MtdProofs` | bad blocks, the recovery flag, the image on the flash |

### How the code corresponds to the model

*Network.* `net` is the set of all messages ever sent. A message not taken is
lost, one taken late is reordered; with `Duplicates` any may be taken again.
`cl` stands for the address and port of a client. Malformed packets are refused
by length and magic tests before any state changes and are left out.

*Cryptography.* A key is the record of what it is derived from: the client's A
(one per client process), the session's B (one per session), the user name and
the crypt string. Two ends hold the same key exactly when these agree; SRP's and
AES's strength is an assumption, not a result. Decrypting under a wrong key gives
noise, which may land in the receive window and move the counter before the SHA1
test refuses the message: `ead_decrypt_message` returns every such outcome. IVs
are counted from the value `ead_set_key` derives. The code clears the highest byte
of that value, so the 32-bit counters are too far from wrapping to matter.

*Instance.* Each packet handler is one action together with the response and
`set_state`, in the code's order: ACK_USERNAME goes out before the user is looked
up, B before the key agreement may fail. `t_servergetkey` puts A into the
session's check hash before it may refuse it; `refused` remembers that, and such a
session can never be verified. `handle_send_cmd` is divided where other processes
and the signal handler can come in between: entry (with fork), `select`, the test
of `child_pending`, the send, the test after the loop, the kill. `ntohs` on the
one-byte `type` is modelled for both byte orders. SIGCHLD is one pending bit; the
handler reaps some dead child and clears `child_pending` whichever child it was.
`restart_server` is the supervisor's kill and fork: statics at their initial
values, older children no longer its own. `strays`, `runs`, the `job` of a result
and `restarts` are history variables that no guard of the code reads.

*Client.* Taking a response and sending the next request is one action, since
`send_packet` returns into `main` without any step others can see. A response is
accepted by type, port and node id, as in `send_packet`; a timeout ends the
process. Every client runs once. `ead-client` itself only sends commands of type
NORMAL; the other type stands for other programs that speak the protocol.

*Supervisor.* `main` is a loop of small steps: one per instance started (fork and
the assignment of its result apart), one per bridge read. Signals and changes of
bridge membership come between any two. `stop_server` kills and clears
`in->pid`. `server_handle_sigchld` compares the exit *status* with the pids, so it
never clears one; an instance that dies by itself stays down until its bridge
changes.

*Keepalive.* Time in ticks, both `select()` waits, the packets in flight. Whether
`select()` writes the remaining time back is a variable at the daemon
(`s_updates`, both cases in one run) and a constant at the client.

*nvram.* A process is at one system call of the command line: find the staging
file, copy flash to it, open, parse, run the arguments, clear and write the
mapping, close, copy to flash, unlink. `inode` holds every staging file ever made,
`path` the one the name leads to: a process keeps what it opened after another
one unlinked it. Lengths are in bytes as the code computes them. `_nvram_rehash`
writes a NUL behind each name for a moment; the mapping of a writer is shared, so
for that moment others see only some of the first tuples, in a file that is not
whole, while a reader's mapping is private. A
sector of flash is erased before it is written. `kill` and `reboot` come between
any two steps; a reboot empties /tmp. `nvram_to_staging` ignores the result of
`write()` (498): in a full /tmp the file ends early (`Shorts`) or has nothing in it,
and is preferred to flash all the same (`Stored`). Whoever runs over its end in a
mapping dies of SIGBUS: a parse that finds no end, and `nvram_commit`'s memset over
the whole partition (293), which has cleared what there was by then
(`commit_clear_dies`). A kill leaves the staging file as it was in the middle of a
step (`Midway`).

`NvramStore` keeps such a file as "stuck" until the next restart: readers may find
nothing, no command can edit or commit, and neither what is in flash nor an edit
already made is lost. `boots` is a history variable of both, so a restart is the
only step that may forget an edit.

*Buttons.* A button is a line with a level; `flip` changes it and raises the
interrupt if that is enabled. One reading of `gpio_keys_handle_button` is one step:
`reaction` says which of its early returns it takes. Each event is a work of its
own with its steps (allocation, each variable through the static buffer,
broadcast). Work of one CPU runs one at a time, except that an allocation may
sleep. `setup` is the board: what the device tree and the kernel give.
`readings`, `told` and `missed` are history variables.

*trelay.* `rtnl` is the holder of the lock with its place in the code; every
operation under it goes on in steps between which frames, files and the freeing
of devices go on. A frame is in the receive handler from the read of the handler
to `dev_queue_xmit`; `synchronize_net` in `netdev_rx_handler_unregister` waits for
those of its device. debugfs lets a removal wait for writes under way, but not for
a release. `PreemptRcu` says whether a rollback inside `rcu_read_lock` can wait for
itself for ever ("stuck").

*mtd.* Lengths are in erase blocks; a block holds what was last written to it.
The loop is divided at every call of the flash driver, and a power cut may come
between any two (a property of every state is a property of every cut). Bad and
worn blocks are chosen at the start. The driver may refuse a write or store a part
of it (`write_fails`, `fixseama_write_fails`). `seama` says that the header's
checksum covers the marker and so has to change; a header for which it does not is
left alone by `seama_fix_md5`. `failed` is a history variable: what failed unseen.

## 4. Runs

| run | instance | shows |
|---|---|---|
| `two_users` | two clients, two users, two sessions, one restart, duplicates | pointers of the one session are never stale; no command twice; confirmations only for the own key; no IV twice; the refinement of `EadSession` |
| `wrong_password` | three clients (the user, one with another password, one without a command), failures, a timeout | only authorised commands run; success is real, with a command and without |
| `command` | big-endian, background, normal and unknown command, failing forks, duplicates, two rounds of the loop | results that overtake or repeat each other leave the console ordered and free of repetition; SIGCHLD: `wait()` never blocks, the pid is safe while pending, what an early report needs |
| `lone_client` | fairness, no loss, no duplicates, no failures; another client lists the nodes | the client is served or its command outlives its time |
| `keepalive` | the client's library hides select()'s write-back, the daemon's may or may not | the client gives up only on killed commands; the time limit within its bounds; the client ends |
| `keepalive_linux_client` | select() writes back at the client | **violated**: see findings |
| `supervisor` | two instances, two bridges, two moves, a crash, a failing fork, fairness | one process per instance, pids never stale but after a crash, right bridge, nothing left at exit; processes follow their interfaces |
| `nvram_serial` | one process, 8 command lines, three runs, two faults (restarts, a full /tmp), 52 bytes | every image can be read back and stays in the partition; which images can be opened for writing; the refinement of `NvramStore` |
| `nvram_races` | two processes, four command lines, three runs, one kill | readers damage nothing; a writer that was alone keeps what it wrote |
| `gpio_button` | three boards: polled with sleeping and failing allocations, polled with more changes, interrupt with a wrapping clock | uevents say what happened in its order; bounces are removed; the hold time is right; nothing runs after remove; the driver and user space end up with the button's state |
| `trelay` | four devices, two relays, one file, both kinds of RCU | relays, handlers, references and marks agree; nothing freed is used; nothing is left after unload; the lock is released; unregistered devices are freed |
| `mtd` | 7 NAND blocks (two bad, one worn), two partitions with and without bad blocks, failing writes, a checksum that cannot be computed, all 32 options | status 0 means the image is there, its header fixed if that could be; bad blocks are untouched; a power cut is covered by the recovery flag; the tool ends |

*Conjunctions.* `LoopKeepsTime`, `ServersKnown`, `ImagesSound`, `UeventsFaithful`,
`ReportsArePresses`, `ButtonIsHeard`, `RelaysIntact`, `NothingFreedInUse` and
`FlashOK` are conjunctions of properties with names of their own, each with its
comment.

*Bounds.* Two clients are what interleaving on one session needs; with two
sessions a late packet of the first meets the second. `EAD_MAX_IV_INCR` is 2 or 4
instead of 128, so that messages outside the window on both sides occur; `MaxIv`
lets noise move the counter past the window. `MaxRounds` bounds the loop: its end
by time is possible in every round. `MaxOut` is the output, in packets. `command`
has two rounds, so that two results with data are under way and either may come
first; the failure of the memory and of the key agreement, which `wrong_password`
has, is left out there to pay for the second round. Two moves
let an interface be seen in two bridges, or in none, in one scan. In
`EadKeepalive` a tick is a fraction of the 200 ms wait and the command's time a few
seconds, with every phase of the clock's second as a start. In `nvram_serial` the
partition is so small that the command lines fill it exactly, leave a few bytes
and overflow it; three runs make a set, its commit and a later command. Three
changes of a button make a press, a release and a press, with bounces counted
among them; the thresholds are 0, 1 and 2, the clock wraps at 3. Two disjoint
relays are the most that four devices allow; a bridge that takes one of the
devices makes an add fail half-way. Seven blocks hold the image of five with two
bad blocks; two and four blocks make the image change its partition.

*Deadlock* is not checked: clients run once and end, the network may lose
everything, the supervisor may be told to exit, runs and changes are bounded, and
with preemptible RCU trelay really may stop.

*Fairness.* `EadProtocol`: the daemon's packet loop and streaming loop go on, the
kernel delivers pending signals, a client takes a response that is there; all
weak, one per actor. Nothing is assumed of restarts or of the command.
`lone_client` needs a network without loss, because neither end sends anything
again. `EadSupervisor`: `main` never stops and signals are delivered.
`EadKeepalive`: time passes and whoever is due acts. `GpioButton`: the kernel ends
the probe, handles interrupts and runs queued works; nobody has to press
anything. `Trelay`: the holder of the lock, a frame in a handler, a write under way
and `netdev_run_todo` go on; nobody has to close a file, send a frame or unload.
`Mtd`: only a power cut stops the program. All are weak fairness of steps that the
scheduler gives to every runnable task.

## 5. Findings and observations

*Finding.* `ead.c:549` says that keepalives are sent "so that the client doesn't
timeout". `send_packet` (`ead-client.c:92-98`) sets its `timeval` once and passes
it to `select()` in a loop. Linux writes the remaining time back, and a C library
such as glibc lets the program see it: the 2000 ms then count from the request.
The run `keepalive_linux_client` finds a client that gives up on a running command
though every keepalive arrived. Where the library passes a copy, as the musl the
target is built with does, the comment holds (`keepalive`).

*Observations.* The model has these behaviours because the code has them; the
properties name them as their exceptions.

* `nvram.c:302`: variables that no longer fit are dropped and the status is 0,
  although the comment at 299 says "Write out all tuples" (`Truncated` in
  `NvramStore`).
* `nvram.c:498`: the result of `write()` is ignored. A full /tmp leaves an empty or
  short staging file that every command prefers to flash (`cli.c:30`, 47); readers and
  writers then fail or die of SIGBUS until the next restart ("stuck" in
  `NvramStore`).
* `nvram.c:404`: an image that fills the partition exactly is refused for writing
  ever after (`WritableUnlessFull`).
* `cli.c:164`: only the first argument decides whether the store is opened for
  writing; the comment at 163 says "iterate over arguments" (`expect_write`, and
  `Edits` in the refinement).
* `gpio-button-hotplug.c:615`: the first reading is queued before the interrupt is
  requested; a press in between is not reported while it is held (`missed`),
  although 271-273 say pressed buttons "will be reported".
* `gpio-button-hotplug.c:289`: a press handled at jiffies 0 counts as no event
  (`SeenIsHoldTime`); an event without memory is lost for good (`fails`).
* `trelay.c:180`: the rollback of an add waits for RCU readers inside its own read
  section (`RtnlReleased`).
* `mtd.c:651`: the test for bad blocks ignores the offset of `-p`, the erase at 663
  does not; `mtd.c:667`: what is left for the next partition is miscounted after a
  bad block; `jffs2.c:71`: `-j` erases blocks in spite of `-n`, and failures there
  are not seen (`Ordinary`, `failed`).
* `mtd.c:585`: an image that cannot be read to its end is a success (`failed`).
* `seama.c:162`: `seama_fix_md5` without memory for the data, or unable to read
  them, is taken for a header that is fixed already. `mtd_fixseama` returns 0, the
  recovery flag is cleared and the exit status is 0 while the header has the old
  checksum, which a boot loader would refuse. `Installed` and `RecoveryCovers` name
  it as their exception ("header" in `failed`) and demand the rest of the image all
  the same; the other failures of `mtd_fixseama` do end with status 1 and the flag
  set.

## 6. Proofs

Every theorem is about a module's `Spec`, for every value of its constants under
its named assumptions (`WireAssumption`, `CryptAssumption`, `ServerAssumption`,
`ClientAssumption`, `KeepaliveAssumption`, `SupervisorAssumption`,
`ImageAssumption`, `NvramAssumption`, `ButtonAssumption`, `TrelayAssumption`,
`MtdAssumption`), which TLC evaluates on the runs: any number of clients,
instances, processes, buttons, devices or blocks, any lengths and any bounds. An
invariant is seldom inductive by itself; each section below names what was added.

**EAD protocol** (`EadProofs`).

* `TypeCorrect`. `TypeInv` adds to the types what keeps them: a handler that
  uses the verifier or the key runs in a state in which it is set.
* `SafetyInv` is the inductive invariant of the protocol: what the state says of
  the session, its B and key; that a client's key is built from its own arguments
  and a session number already given out; that a DONE_AUTH for a client holds that
  client's key, and a SEND_CMD follows one; that a command that has run has moved
  the receive counter past its IV or belongs to a session that is over (`Spent`),
  which is what makes a replay harmless; and that every result lies below the
  transmit counter of its key. From it: `SessionPointersCorrect`,
  `AtMostOnceCorrect`, `OnlyAuthorisedRunCorrect`, `SuccessMeansRanCorrect`,
  `ConfirmsOwnKeyCorrect`, `IvNeverReusedCorrect`, and `RefinesSessionCorrect`,
  which maps every step to a step of `EadSession` or a stutter.
  `SuccessMeansConfirmedCorrect` adds `ConfirmInv`: who is past the confirmation
  took a DONE_AUTH for the key it holds.
* `ChildInv` relates children, zombies, strays and `child_pending`: while nothing
  older has died, the pending bit is cleared only by the command's own child. From
  it: `ReapNeverBlocksCorrect`, `PendingMeansUnreapedCorrect`,
  `EarlyDoneNeedsStrayCorrect`.
* `ConsoleOrderedCorrect` rests on `OrderInv`: each key has one job (`OwnerInv`),
  the results of a job carry its output in the order of their IVs (`OutputInv`), and
  a console holds what lies below the client's receive counter (`ConsoleInv`).

**EAD timing** (`EadKeepaliveProofs`). `LoopIsOnTime`: the next look at the clock
comes less than one `select()` timeout after the time is over (`ClockInv`).
`KeepalivesSuffice` assumes what its run assumes, that `select()` leaves the
client's timeval alone: a client that waits has more time left than the next packet
needs (`WaitInv`), and the packet that ends the command is the last one under way
(`DoneInv`). The proof needs `PCAP_TIMEOUT + 2 * Latency < EAD_TIMEOUT_LONG`: the
request and the first keepalive both take their time.

**EAD supervisor** (`EadSupervisorProofs`). `SupervisorInvariant` adds to the
properties where `main` stands between `fork()` and the assignment (`ForkInv`), that
every running process is named by its instance or was just forked (`KnownInv`), that
no pid is shared (`UniqueInv`), and that SIGTERM cleared them all (`ExitInv`). From
it: `SupervisorTypeCorrect`, `ServersAreKnown`, `OnlyForkedLeftBehind`.

**nvram** (`NvramImageProofs`, `NvramProofs`), in three steps.

* `RehashSays` and `CommitWrites` are about the two loops of `nvram.c`, for images
  and tables of any length: parsing gives every variable the value the image gives
  it, and what is written keeps to the partition, names no variable twice and has
  the length its tuples ask for.
* `NvramInvariant`: without a mishap there is one writer at a time; its buffer is
  whole, its mapping is of the file the name leads to, as long as the partition, and
  only where it writes may flash or that file be damaged (`LoneInv`). From it: `OnlyMishapsDamage`.
* `DataInvariant`: whatever happens, files and buffers are empty, torn, or images,
  cut short or not, that keep to the partition, whole ones with their own length, and every process
  has a table with each name once, in its bucket. From it: `ImagesAreSound`,
  `WritableUnlessFullCorrect`.

**Buttons** (`GpioButtonProofs`). `GpioInvariant`: a work item has filled in as many
variables as it says (`FillInv`), and what may still look at a button goes button
by button when the driver is closed (`QuietInv`); the driver's memory is the last
change it handled (`ToldInv`), its counter the readings that differ from it
(`CountInv`); on one CPU the static buffer belongs to one item (`CreatedInv`), and
sent and queued events are one queue that alternates (`OrderInv`). From it:
`RemovedIsQuiet`, `UeventsAreFaithful`, and the action properties
`OnlyPressesReported` and `SeenMeasuresHold`.

**trelay** (`TrelayProofs`). `TrelayInvariant` says at every place of every holder of
the lock which relay it is at and how much of that relay is left: list (`ListInv`,
`HolderInv`), devices (`DisjointInv`, `DeviceInv`), handlers (`HandlerInv`),
references (`RefInv`), frames (`FrameInv`), files (`FileInv`), unloading
(`ModuleInv`). From it: `RelaysStayIntact`, `NoUseAfterFree`, `UnloadLeavesNothing`.

**mtd** (`MtdProofs`), in two layers. `MtdInvariant`: with bad blocks the file
pointer, the offset that is erased next and the bad blocks skipped go together
(`PosInv`), and the recovery flag is set while the flash is incomplete (`FlagInv`),
where a header whose checksum could not be computed does not count as incomplete.
From it: `BadBlocksSafe`, `FlagCoversWriting`, `RecoveryIsCovered`.
`InstallInvariant` says what the good blocks in front of the file pointer hold
(`FrontInv`), those behind it (`BehindInv`) and the header, fixed or given up
(`HeaderInv`); the n-th
good block is counted with cardinalities of sets of blocks. From it:
`ImageInstalled`.

*What the proofs changed in the models.* The bound on the latency counted one way
only; the conjunct on offsets in `Installed` was undefined for an offset behind the
first partition; an image in flash was not said to keep to the partition, and a
field's text not to fit it.

*Induction over data.* A least counterexample takes its place: `WFMin` of the
library gives every non-empty set of numbers a least member without an operator
parameter. `FoldExists` builds the function that `FoldLeft` chooses on the prefixes
of a sequence, `FoldTrace` turns it into the list of the values the loop goes
through, and a fact about the loop is one about the least of them.

*Only model-checked:* `SoloCommandSticks` and `RefinesStore`, whose proofs are for
later: they need what a table says after a command line, and for the first a
hypothesis that everything fits; and liveness (`LoneClientServed`, `ClientEnds`,
`FollowsBridge`, `ButtonIsHeard`, `RtnlReleased`, `UnregisterCompletes`,
`Terminates`), which is out of the prover's reach under fairness.

## 7. Not modelled

*Of EAD:* the arithmetic of SRP, AES, SHA1 and MD5; packet capture and header
checksums; start-up code; the shell that `system()` starts, which survives the
kill of the child; descriptors (the read end of the pipe is never closed); the
`-f` mode, in which the first instance never returns to `main`. On a little-endian
device a background command is dropped without an answer (`ead.c:491`); only
instance 0 ever answers a login (`ead.c:597`).

*Of nvram:* the CRC, which only `info` reads; the search for the magic; a `malloc`
that fails; `set` without a "=", which is no edit; a second copy that overwrites
the staging file in part.

*Of the others:* the table of button names, the device tree parser and unloading of
the button driver (where the device tree gives `interrupts` instead of a GPIO the
driver passes no trigger flags and the interrupt controller's setting counts); in
the instance of trelay a relay of a device with itself and relays that share a
device, and a debugfs file that cannot be created, which the code ignores: that
relay can only be removed with its device or the module. Of mtd: trx, wrg and
imagetag headers, the FIS table, `jffs2write`, `verify`, `dump` and `resetbc`; the
`-s` option, which leaves out the markers before an offset (618). `mtd_check_open`
of the recovery flag's partition overwrites the globals `erasesize`, `mtdsize` and
`mtdtype`; the model counts blocks of one size and keeps the type and the size of
the partition that is written.

*The rest of the tree.* Of the C code in the repository by far the most is
vendored (kconfig, the rtl8367c SDK, `elf.h`), register tables and drivers of
switch and network chips whose hardware is not described here (rtl8367c, ar8216,
rtl8366, ag71xx), boot loaders, or batch converters of image formats
(`firmware-utils`). These have either no state beyond a file, or a state whose other
half is a chip: an action would restate register writes and no property could be
wrong. The five components above are those with concurrency, failure or
persistent state of their own, and they are small beside the rest; a share of
the whole tree's lines says little here. `PROJECT.json` lists every component with
the reason.
