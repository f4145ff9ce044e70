-------------------------------- MODULE Nvram --------------------------------
(***************************************************************************)
(* The nvram command, cli.c over nvram.c, run by several processes at a    *)
(* time without any lock.  A writing command copies flash to the staging   *)
(* file unless there is one, maps it MAP_SHARED, edits a table of its own  *)
(* and writes the table back; "commit" copies the staging file to flash    *)
(* and removes it.  Reading commands map the file MAP_PRIVATE.  One action *)
(* is what happens between two accesses to the file system, flash or the   *)
(* shared mapping.                                                         *)
(*                                                                         *)
(* While a process parses or rewrites a shared mapping it changes bytes in *)
(* place (a "=" is replaced by NUL and put back, the data are cleared), so *)
(* another process that reads at this moment sees the tuples only up to    *)
(* some point: it is given any prefix, marked as not whole.  A file that   *)
(* /tmp had no room for ends before the partition does, marked as not      *)
(* full: a process that runs over its end in a mapping dies of SIGBUS.     *)
(***************************************************************************)
EXTENDS NvramImage

CONSTANTS Procs,      \* processes
          Commands,   \* command lines: sequences of arguments
          Images,     \* images the bootloader may have left in flash
          Faults,     \* which of "kill", "reboot" and "full" can happen
          MaxRuns,    \* bound: commands that are started
          MaxFaults   \* bound: faults

\* The bootloader writes images as nvram_commit does; main() runs with at
\* least one argument.
ASSUME NvramAssumption ==
  /\ \A img \in Images :
       /\ img \in [tuples : Seq([name : Names, value : Values]),
                  len : Nat, sdram : [SdramNames -> Fields]]
       /\ UniqueNames(img) /\ UsedBytes(img) <= DataEnd
       /\ img.len = commit_len(UsedBytes(img))
  /\ \A args \in Commands :
       args # <<>> /\ args \in Seq([op : STRING, name : Names, value : Values])

VARIABLES flash,    \* contents of the mtd partition
          path,     \* the inode /tmp/.nvram names, 0 for none
          inode,    \* contents of the staging files created so far
          proc,     \* the processes
          clash,    \* processes whose shared mapping another rewrites
          runs, faults,    \* counted for the bounds
          solo,     \* history: the writer that was never beside another one
          before,   \* history: what was stored when the last of them started
          mishap,   \* history: writers overlapped, or a fault hit one
          boots     \* history: restarts of the device

vars == <<flash, path, inode, proc, clash, runs, faults, solo, before, mishap, boots>>
histVars == <<runs, faults, solo, before, mishap, boots>>

Empty == [none |-> "empty"]  \* a short file in which no parse succeeds
Torn  == [none |-> "torn"]   \* flash whose rewriting was cut short: no magic

Whole(img) == [img |-> img, whole |-> TRUE, full |-> TRUE]
Cut(c, k)  == [img   |-> [c.img EXCEPT !.tuples = SubSeq(@, 1, k)],
               whole |-> FALSE, full |-> c.full]
Cuts(c)    == {Cut(c, k) : k \in 0..Len(c.img.tuples)}

\* The first pages of c: all tuples, or those before the end.
Shorts(c) == IF c = Torn THEN {} ELSE {[d EXCEPT !.full = FALSE] : d \in Cuts(c) \cup {c}}
Short(c)  == c # Torn /\ (c # Empty => ~c.full)

Readable(c) == c \notin {Empty, Torn} /\ c.whole
Sound(c)    == Readable(c) /\ c.full

Idle == [pc |-> "idle", args |-> <<>>, write |-> FALSE, stat |-> 0,
         table |-> EmptyTable, ino |-> 0, buf |-> Empty]

Init ==
  /\ flash \in {Whole(img) : img \in Images}
  /\ path = 0 /\ inode = <<>>
  /\ proc = [p \in Procs |-> Idle]
  /\ clash = {} /\ runs = 0 /\ faults = 0
  /\ solo = {} /\ before = flash /\ mishap = FALSE /\ boots = 0

At(p, pc) == proc[p].pc = pc
Goto(p, pc) == proc' = [proc EXCEPT ![p].pc = pc]
Finish(p, stat) ==
  proc' = [proc EXCEPT ![p] = [Idle EXCEPT !.pc = "done", !.stat = stat,
                                 !.args = proc[p].args, !.write = proc[p].write]]

SIGBUS == 135      \* the status of a process that died of it

\* The contents a reader finds: the staging file's if there is one, whatever
\* is in it, or else flash.
Stored == IF path # 0 THEN inode[path] ELSE flash

(***************************************************************************)
(* main(): the arguments, up to the first that is unknown or incomplete.   *)
(***************************************************************************)
\* Only the first argument is looked at.
expect_write(args) == args[1].op \in {"set", "unset", "commit"}

Executed(args) ==
  SubSeq(args, 1, LET k == SelectInSeq(args, LAMBDA a : a.op = "bad")
                  IN  IF k = 0 THEN Len(args) ELSE k - 1)

HasOp(args, op) == \E k \in DOMAIN args : args[k].op = op

Commits(args) == HasOp(Executed(args), "commit")
Done(args)    == ~HasOp(args, "bad")
Writes(args)  == expect_write(args) \/ Commits(args)

\* One argument: the table and the status after it.
do_arg(r, a) ==
  CASE a.op = "set" ->
         [t    |-> nvram_set(r.t, a.name, a.value),
          stat |-> IF ValLen[a.value] + 1 > Space THEN -12 ELSE 0]
    [] a.op = "unset" -> [t |-> nvram_unset(r.t, a.name), stat |-> 0]
    [] a.op = "get" ->
         [t |-> r.t, stat |-> IF nvram_get(r.t, a.name) = NoValue THEN 1 ELSE 0]
    [] a.op \in {"show", "info"} -> [t |-> r.t, stat |-> 0]
    [] OTHER -> r

do_args(t, args) == FoldLeft(do_arg, [t |-> t, stat |-> 1], Executed(args))

Writers == {q \in Procs : proc[q].pc \notin {"idle", "done"} /\ Writes(proc[q].args)}

main(p, args) ==
  /\ proc[p].pc \in {"idle", "done"}
  /\ runs < MaxRuns
  /\ runs' = runs + 1
  /\ proc' = [proc EXCEPT ![p] = [Idle EXCEPT !.pc = "find", !.args = args,
                                              !.write = expect_write(args)]]
  /\ solo' = IF ~Writes(args) THEN solo \ {p}
             ELSE IF Writers = {} /\ Sound(flash) /\ Sound(Stored) THEN {p} ELSE {}
  /\ before' = IF p \in solo' THEN Stored ELSE before
  /\ mishap' = (mishap \/ (Writes(args) /\ Writers # {}))
  /\ UNCHANGED <<flash, path, inode, clash, faults, boots>>

(***************************************************************************)
(* Opening.  nvram_open_staging and nvram_open_rdonly look for the staging *)
(* file first and open it by name later.                                   *)
(***************************************************************************)
find_staging_ignored(p) ==      \* mutant: a writer always copies flash
  /\ At(p, "find")
  /\ Goto(p, IF proc[p].write THEN "to_staging"
             ELSE IF path # 0 THEN "open" ELSE "open_mtd")
  /\ UNCHANGED <<flash, path, inode, clash, histVars>>

nvram_find_staging(p) ==
  /\ At(p, "find")
  /\ Goto(p, IF path # 0 THEN "open"
             ELSE IF proc[p].write THEN "to_staging" ELSE "open_mtd")
  /\ UNCHANGED <<flash, path, inode, clash, histVars>>

to_staging_read(p) ==
  /\ At(p, "to_staging")
  /\ proc' = [proc EXCEPT ![p].buf = flash, ![p].pc = "create"]
  /\ UNCHANGED <<flash, path, inode, clash, histVars>>

to_staging_create(p) ==
  /\ At(p, "create")
  /\ IF path # 0 THEN UNCHANGED <<path, inode>>
     ELSE path' = Len(inode) + 1 /\ inode' = Append(inode, Empty)
  /\ proc' = [proc EXCEPT ![p].ino = path', ![p].pc = "copy"]
  /\ UNCHANGED <<flash, clash, histVars>>

changing_shared(i, p, pcs) ==   \* mutant: readers map MAP_SHARED too
  {q \in Procs \ {p} : proc[q].pc \in pcs /\ proc[q].ino = i}

\* Processes that are changing bytes of inode i in place.
Changing(i, p, pcs) ==
  {q \in Procs \ {p} : proc[q].write /\ proc[q].pc \in pcs /\ proc[q].ino = i}

to_staging_write(p) ==
  /\ At(p, "copy")
  /\ inode' = [inode EXCEPT ![proc[p].ino] = proc[p].buf]
  /\ clash' = clash \cup Changing(proc[p].ino, p, {"rehash", "write"})
  /\ Goto(p, "open")
  /\ UNCHANGED <<flash, path, histVars>>

\* What the staging file holds in the middle of p's changes to it: the first
\* pages of the copy, or a NUL in the place of a "=".
Midway(p) ==
  LET c == inode[proc[p].ino]
  IN  IF At(p, "copy") /\ Short(c) THEN Shorts(proc[p].buf)
      ELSE IF At(p, "rehash") /\ proc[p].write /\ c \notin {Empty, Torn} THEN Cuts(c)
      ELSE {}

LeftMidway(p) ==
  \/ UNCHANGED inode
  \/ \E c \in Midway(p) : inode' = [inode EXCEPT ![proc[p].ino] = c]

\* There is no room for the pages the file lacks: the result of write(),
\* which stores some of them or none, is ignored.
to_staging_write_fails(p) ==
  /\ At(p, "copy") /\ Short(inode[proc[p].ino])
  /\ "full" \in Faults /\ faults < MaxFaults
  /\ faults' = faults + 1 /\ mishap' = TRUE
  /\ LeftMidway(p)
  /\ Goto(p, "open")
  /\ UNCHANGED <<flash, path, clash, runs, solo, before, boots>>

nvram_open_staging(p) ==
  /\ At(p, "open")
  /\ LET c == IF path = 0 THEN Torn ELSE inode[path] IN
     \/ /\ c = Torn                        \* no file, or no magic in it
        /\ Finish(p, 1)
        /\ UNCHANGED clash
     \/ /\ c = Empty                       \* the search or the parse leaves the file
        /\ Finish(p, SIGBUS)
        /\ UNCHANGED clash
     \/ /\ c \notin {Empty, Torn}
        /\ ~OpenAllowed(c.img, ~proc[p].write)
        /\ Finish(p, 1)
        /\ UNCHANGED clash
     \/ /\ c \notin {Empty, Torn}
        /\ OpenAllowed(c.img, ~proc[p].write)
        /\ proc' = [proc EXCEPT ![p].ino = path, ![p].pc = "rehash"]
        /\ LET O == Changing(path, p, {"write"})
           IN  clash' = IF proc[p].write /\ O # {} THEN clash \cup O \cup {p} ELSE clash
  /\ UNCHANGED <<flash, path, inode, histVars>>

nvram_open_mtd(p) ==
  /\ At(p, "open_mtd")
  /\ IF flash = Torn THEN Finish(p, 1)
     ELSE proc' = [proc EXCEPT ![p].table = nvram_rehash(flash.img), ![p].pc = "run"]
  /\ UNCHANGED <<flash, path, inode, clash, histVars>>

\* What a read of inode i by p can find.
Seen(i, p) ==
  LET c == inode[i]
  IN  IF c \in {Empty, Torn} THEN {c}
      ELSE IF c.whole /\ Changing(i, p, {"rehash", "write"}) = {} THEN {c}
      ELSE Cuts(c) \cup {c}

\* The contents after p has stopped changing them in place to c.
Settled(p, c) == IF p \in clash THEN {c} \cup Cuts(c) ELSE {c}

\* A parse of what is not whole ends early or leaves the mapping.
rehash(p) ==
  /\ At(p, "rehash")
  /\ \E c \in Seen(proc[p].ino, p) :
       \/ /\ c \notin {Empty, Torn}
          /\ proc' = [proc EXCEPT ![p].table = nvram_rehash(c.img), ![p].pc = "run"]
       \/ /\ ~Readable(c)
          /\ Finish(p, SIGBUS)
  /\ IF inode[proc[p].ino] \in {Empty, Torn} THEN UNCHANGED inode
     ELSE \E c \in Settled(p, inode[proc[p].ino]) :
            inode' = [inode EXCEPT ![proc[p].ino] = c]
  /\ clash' = clash \ {p}
  /\ UNCHANGED <<flash, path, histVars>>

(***************************************************************************)
(* The commands, nvram_commit() into the shared mapping, and the copy to   *)
(* flash.                                                                  *)
(***************************************************************************)
run_args(p) ==
  /\ At(p, "run")
  /\ LET r == do_args(proc[p].table, proc[p].args)
     IN  proc' = [proc EXCEPT ![p].table = r.t, ![p].stat = r.stat,
                     ![p].pc = IF proc[p].write THEN "clear" ELSE "close"]
  /\ UNCHANGED <<flash, path, inode, clash, histVars>>

\* memset() over the whole partition clears what a short file has and dies
\* of what it has not.
commit_clear_dies(p) ==
  /\ At(p, "clear") /\ Short(inode[proc[p].ino])
  /\ inode' = [inode EXCEPT ![proc[p].ino] = Empty]
  /\ Finish(p, SIGBUS)
  /\ UNCHANGED <<flash, path, clash, histVars>>

commit_clear(p) ==
  /\ At(p, "clear") /\ ~Short(inode[proc[p].ino])
  /\ LET O   == Changing(proc[p].ino, p, {"rehash", "write"})
         old == inode[proc[p].ino]
         new == nvram_commit(proc[p].table)
         len == IF old = Torn THEN new.len ELSE old.img.len
     IN  /\ \E half \in Cuts(Whole([new EXCEPT !.len = len])) :
              inode' = [inode EXCEPT ![proc[p].ino] = half]
         /\ clash' = IF O # {} THEN clash \cup O \cup {p} ELSE clash
         /\ proc' = [proc EXCEPT ![p].buf = Whole(new), ![p].pc = "write"]
  /\ UNCHANGED <<flash, path, histVars>>

commit_write(p) ==
  /\ At(p, "write")
  /\ \E c \in Settled(p, proc[p].buf) :
       inode' = [inode EXCEPT ![proc[p].ino] = c]
  /\ clash' = clash \ {p}
  /\ proc' = [proc EXCEPT ![p].pc = "close", ![p].stat = 0,
                          ![p].table = EmptyTable, ![p].buf = Empty]
  /\ UNCHANGED <<flash, path, histVars>>

\* The status of a command line with an unknown argument is 1 in the end.
nvram_close(p) ==
  /\ At(p, "close")
  /\ IF Commits(proc[p].args) THEN Goto(p, "read")
     ELSE Finish(p, IF Done(proc[p].args) THEN proc[p].stat ELSE 1)
  /\ UNCHANGED <<flash, path, inode, clash, histVars>>

staging_to_nvram_read(p) ==
  /\ At(p, "read")
  /\ \/ /\ path = 0
        /\ Finish(p, IF Done(proc[p].args) THEN -1 ELSE 1)
     \/ /\ path # 0
        /\ \E c \in Seen(path, p) :
             IF Short(c) THEN Finish(p, IF Done(proc[p].args) THEN -1 ELSE 1)
             ELSE proc' = [proc EXCEPT ![p].buf = c, ![p].pc = "flash"]
  /\ UNCHANGED <<flash, path, inode, clash, histVars>>

unlink_before(p) ==             \* mutant: the staging file goes first
  /\ At(p, "flash")
  /\ path' = 0
  /\ flash' = Torn
  /\ Goto(p, "flashing")
  /\ UNCHANGED <<inode, clash, histVars>>

flash_erase(p) ==
  /\ At(p, "flash")
  /\ flash' = Torn
  /\ Goto(p, "flashing")
  /\ UNCHANGED <<path, inode, clash, histVars>>

flash_write(p) ==
  /\ At(p, "flashing")
  /\ flash' \in IF \E q \in Procs \ {p} : At(q, "flashing")
                THEN {Torn, proc[p].buf} ELSE {proc[p].buf}
  /\ Goto(p, "unlink")
  /\ UNCHANGED <<path, inode, clash, histVars>>

unlink_staging(p) ==
  /\ At(p, "unlink")
  /\ path' = 0
  /\ Finish(p, IF ~Done(proc[p].args) \/ path = 0 THEN 1 ELSE 0)
  /\ UNCHANGED <<flash, inode, clash, histVars>>

(***************************************************************************)
(* Faults: a process is killed; the device restarts and /tmp is empty.     *)
(***************************************************************************)
kill(p) ==
  /\ "kill" \in Faults /\ faults < MaxFaults
  /\ proc[p].pc \notin {"idle", "done"}
  /\ faults' = faults + 1
  /\ proc' = [proc EXCEPT ![p] = Idle]
  /\ clash' = clash \ {p}
  /\ mishap' = (mishap \/ Writes(proc[p].args))
  /\ LeftMidway(p)
  /\ UNCHANGED <<flash, path, runs, solo, before, boots>>

reboot ==
  /\ "reboot" \in Faults /\ faults < MaxFaults
  /\ faults' = faults + 1
  /\ proc' = [p \in Procs |-> Idle]
  /\ path' = 0 /\ clash' = {} /\ boots' = boots + 1
  /\ mishap' = (mishap \/ flash = Torn)
  /\ UNCHANGED <<flash, inode, runs, solo, before>>

Step(p) ==
  \/ nvram_find_staging(p) \/ to_staging_read(p) \/ to_staging_create(p)
  \/ to_staging_write(p) \/ nvram_open_staging(p) \/ nvram_open_mtd(p)
  \/ rehash(p) \/ run_args(p) \/ commit_clear_dies(p) \/ commit_clear(p)
  \/ commit_write(p) \/ nvram_close(p) \/ staging_to_nvram_read(p)
  \/ flash_erase(p) \/ flash_write(p) \/ unlink_staging(p)

Next ==
  \/ \E p \in Procs, args \in Commands : main(p, args)
  \/ \E p \in Procs : Step(p)
  \/ \E p \in Procs : to_staging_write_fails(p) \/ kill(p)
  \/ reboot

Spec == Init /\ [][Next]_vars

-----------------------------------------------------------------------------
Contents == [img : [tuples : Seq([name : Names, value : Values]),
                    len : Nat, sdram : [SdramNames -> Fields]],
             whole : BOOLEAN, full : BOOLEAN]

PCs == {"idle", "find", "to_staging", "create", "copy", "open", "open_mtd",
        "rehash", "run", "clear", "write", "close", "read", "flash",
        "flashing", "unlink", "done"}

\* Type invariant.
TypeOK ==
  /\ flash \in Contents \cup {Torn}
  /\ path \in 0..Len(inode)
  /\ \A i \in DOMAIN inode : inode[i] \in Contents \cup {Empty, Torn}
  /\ clash \subseteq Procs /\ solo \subseteq Procs /\ mishap \in BOOLEAN /\ boots \in Nat
  /\ \A p \in Procs : /\ proc[p].pc \in PCs
                      /\ proc[p].ino \in 0..Len(inode)
                      /\ proc[p].buf \in Contents \cup {Empty, Torn}

\* As long as no two writing commands ran at the same time and no fault hit
\* one, flash is a whole image unless it is being rewritten, and so is the
\* staging file unless its writer is at work: reading commands, which map
\* the file MAP_PRIVATE, can run at any time without damaging it.
DamageNeedsMishap ==
  mishap \/ /\ Sound(flash) \/ \E p \in Procs : At(p, "flashing")
            /\ \/ path = 0 \/ Sound(inode[path])
               \/ \E p \in Procs : proc[p].pc \in {"copy", "write"}

\* The last edit of every variable in a command line.
EditsOf(args) ==
  LET E(n) == {k \in DOMAIN Executed(args) :
                 args[k].op \in {"set", "unset"} /\ args[k].name = n}
      D    == {n \in Names : E(n) # {}}
  IN  [n \in D |-> LET a == args[Max(E(n))]
                   IN  IF a.op = "set" THEN a.value ELSE NoValue]

\* The variables f after the edits e of a command line.
Edited(f, e) ==
  [n \in Names |-> IF n \notin DOMAIN e THEN f[n]
                   ELSE IF e[n] = NoValue /\ n \in SdramNames THEN Hex[Default[n]]
                   ELSE e[n]]

\* A writing command that was alone from start to end and reports success
\* has made its edits and no other: they are what every reader sees now,
\* and what is in flash if it committed.  Reading commands beside it, and
\* writers before and after it, make no difference.
SoloCommandSticks ==
  [][\A p \in solo \cap solo' :
       (/\ proc[p].pc \notin {"idle", "done"} /\ proc'[p].pc = "done"
        /\ proc[p].write /\ proc'[p].stat = 0)
       => LET f == Edited(Vars(before.img), EditsOf(proc[p].args))
          IN  /\ Sound(Stored') /\ Vars(Stored'.img) = f
              /\ Commits(proc[p].args) =>
                   Sound(flash') /\ Vars(flash'.img) = f /\ path' = 0]_vars

\* The variables f, written as tuples, fit into the partition.
FitsAll(f) ==
  HeaderSize + MapThenSumSet(LAMBDA n : TupleLen(Tuple(n, f[n])),
                             {n \in Names : f[n] # NoValue}) <= DataEnd

\* The text of a variable as the header gives it back.
FromHeader(v) == IF v = NoValue THEN NoValue ELSE Hex[Num[v]]

\* For one user at a time the tool implements NvramStore: reboots, a full
\* /tmp and a full partition included.  Until its contents are written a
\* staging file is the business of its writer.
Copied == path # 0 /\ ~\E p \in Procs : At(p, "copy")

Promise == INSTANCE NvramStore WITH
  Edits     <- {EditsOf(args) : args \in {c \in Commands : expect_write(c)}},
  Standing  <- [n \in SdramNames |-> Hex[Default[n]]],
  Canon     <- FromHeader,
  Fits      <- FitsAll,
  Lost      <- Torn,
  current   <- IF \E p \in Procs : At(p, "write")
               THEN Vars(proc[CHOOSE p \in Procs : At(p, "write")].buf.img)
               ELSE LET c == IF Copied THEN inode[path] ELSE flash
                    IN  IF Readable(c) THEN Vars(c.img) ELSE Torn,
  committed <- IF flash = Torn THEN Torn ELSE Vars(flash.img),
  staged    <- IF ~Copied THEN "nothing"
               ELSE IF Short(inode[path]) THEN "stuck" ELSE "edits"

RefinesStore == Promise!Spec

(***************************************************************************)
(* The image at its limits.                                                *)
(***************************************************************************)
Contained == {inode[i] : i \in DOMAIN inode} \cup {flash}

\* No image is written past the end of the partition: the tuples, the NUL
\* that ends them and the length in the header all stay within it.
ImageFits ==
  \A c \in Contained \ {Empty, Torn} :
     UsedBytes(c.img) + 2 <= Space /\ c.img.len <= Space

\* No image names a variable twice: unset would bring the second one back.
NamesUnique == \A c \in Contained \ {Empty, Torn} : UniqueNames(c.img)

\* Parsing an image into the hash table gives every variable the value the
\* image gives it, whatever the buckets.
ParseReadsImage ==
  \A c \in Contained \ {Empty, Torn} : TableVars(nvram_rehash(c.img)) = Vars(c.img)

\* What nvram_commit writes, the next nvram_open can read.
ImagesSound == TypeOK /\ ImageFits /\ NamesUnique /\ ParseReadsImage

\* A staged image with at least 6 free bytes can be opened for writing
\* again; one with fewer is refused although it is intact.
WritableUnlessFull ==
  \A c \in Contained \ {Empty, Torn} :
     Readable(c) => (OpenAllowed(c.img, FALSE) <=> UsedBytes(c.img) + 6 <= Space)
=============================================================================
