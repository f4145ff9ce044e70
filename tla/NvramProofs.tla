------------------------------ MODULE NvramProofs ------------------------------
(***************************************************************************)
(* Proofs about the nvram command run by any number of processes, with any *)
(* command lines and faults: as long as no two writing commands overlap    *)
(* and no fault hits one, flash and the staging file stay whole; and in    *)
(* any case what they hold keeps to the partition and is read back as it   *)
(* was written.                                                            *)
(***************************************************************************)
EXTENDS Nvram, NvramImageProofs

-----------------------------------------------------------------------------
(***************************************************************************)
(* The inductive invariant.                                                *)
(***************************************************************************)
Running(r)  == r.pc \notin {"idle", "done"}
IsWriter(r) == Running(r) /\ Writes(r.args)

ProcFields == {"pc", "args", "write", "stat", "table", "ino", "buf"}

\* Only commands that write come to the places where something is written.
ProcOK(r) ==
  /\ DOMAIN r = ProcFields
  /\ Running(r) /\ r.write => Writes(r.args)
  /\ r.pc \in {"to_staging", "create", "copy", "clear", "write"} => r.write
  /\ r.pc = "open_mtd" => ~r.write
  /\ r.pc \in {"read", "flash", "flashing", "unlink"} => Commits(r.args)

\* A process that no other writer disturbs has whole contents to write, has
\* mapped the staging file that has the name, and flash is torn while it
\* rewrites it.
LoneOK(r, contents, file) ==
  /\ r.pc \in {"create", "copy", "write", "flash", "flashing"} => Sound(r.buf)
  /\ r.pc = "copy" \/ (r.pc \in {"rehash", "run", "clear", "write"} /\ r.write)
     => r.ino = file /\ file # 0
  /\ r.pc = "flashing" => contents = Torn

\* The staging files are a list, and the name stands for one of them.
InodeInv == inode \in Seq(Range(inode)) /\ path \in 0..Len(inode)

ProcInv ==
  /\ proc = [p \in Procs |-> proc[p]]
  /\ \A p \in Procs : ProcOK(proc[p])

FlashInv   == Sound(flash) \/ \E p \in Procs : At(p, "flashing")
StagingInv == \/ path = 0 \/ Sound(inode[path])
              \/ \E p \in Procs : proc[p].pc \in {"copy", "write"}

LoneInv ==
  ~mishap =>
    /\ clash = {}
    /\ \A p, q \in Procs : IsWriter(proc[p]) /\ IsWriter(proc[q]) => p = q
    /\ \A p \in Procs : LoneOK(proc[p], flash, path)
    /\ FlashInv
    /\ StagingInv

NvramInv == InodeInv /\ ProcInv /\ LoneInv

-----------------------------------------------------------------------------
(***************************************************************************)
(* Lists of staging files.                                                 *)
(***************************************************************************)

\* A new staging file.
LEMMA Created ==
  ASSUME NEW s, s \in Seq(Range(s)), NEW c
  PROVE  /\ Append(s, c) \in Seq(Range(Append(s, c)))
         /\ Len(Append(s, c)) = Len(s) + 1 /\ Len(s) \in Nat
  <1> DEFINE S == Range(s) \cup {c}
             t == Append(s, c)
  <1>1. s \in Seq(S)
    <2>1. s \in [1..Len(s) -> Range(s)] /\ Len(s) \in Nat
      OBVIOUS
    <2>2. s \in [1..Len(s) -> S]
      BY <2>1
    <2> QED
      BY <2>1, <2>2
  <1>2. t \in Seq(S) /\ Len(t) = Len(s) + 1 /\ Len(s) \in Nat
    BY <1>1
  <1> HIDE DEF t
  <1>3. Len(t) \in Nat /\ DOMAIN t = 1..Len(t) /\ t = [k \in 1..Len(t) |-> t[k]]
    BY <1>2
  <1>4. \A k \in 1..Len(t) : t[k] \in Range(t)
    BY <1>3 DEF Range
  <1>5. t \in [1..Len(t) -> Range(t)]
    BY <1>3, <1>4
  <1>6. t \in Seq(Range(t))
    BY <1>3, <1>5
  <1> QED
    BY <1>2, <1>6 DEF t

\* A function from the first numbers is a list.
LEMMA IsList ==
  ASSUME NEW S, NEW n \in Nat, NEW t \in [1..n -> S]
  PROVE  t \in Seq(S) /\ Len(t) = n
  OBVIOUS

-----------------------------------------------------------------------------
(***************************************************************************)
(* Processes.                                                              *)
(***************************************************************************)

\* A whole image is sound.
LEMMA WholeIsSound ==
  ASSUME NEW img
  PROVE  Sound(Whole(img))
  <1>1. Whole(img).whole = TRUE /\ Whole(img).full = TRUE
    BY DEF Whole
  <1>2. "whole" \in DOMAIN Whole(img)
    BY DEF Whole
  <1>3. "whole" \notin DOMAIN Empty /\ "whole" \notin DOMAIN Torn
    BY DEF Empty, Torn
  <1> QED
    BY <1>1, <1>2, <1>3 DEF Sound, Readable

\* What the initial or a finished process is.
LEMMA Resting ==
  /\ ProcOK(Idle) /\ ~IsWriter(Idle)
  /\ \A p, stat :
       LET r == [Idle EXCEPT !.pc = "done", !.stat = stat, !.args = proc[p].args,
                             !.write = proc[p].write]
       IN  ProcOK(r) /\ ~IsWriter(r)
  <1>1. ProcOK(Idle) /\ ~IsWriter(Idle)
    BY DEF Idle, ProcOK, ProcFields, IsWriter, Running
  <1>2. ASSUME NEW p, NEW stat
        PROVE  LET r == [Idle EXCEPT !.pc = "done", !.stat = stat, !.args = proc[p].args,
                                     !.write = proc[p].write]
               IN  ProcOK(r) /\ ~IsWriter(r)
    <2> DEFINE r == [Idle EXCEPT !.pc = "done", !.stat = stat, !.args = proc[p].args,
                                 !.write = proc[p].write]
    <2>1. DOMAIN r = ProcFields /\ r.pc = "done"
      BY DEF Idle, ProcFields
    <2> HIDE DEF r
    <2>2. ProcOK(r) /\ ~IsWriter(r)
      BY <2>1 DEF ProcOK, IsWriter, Running
    <2> QED
      BY <2>2 DEF r
  <1> QED
    BY <1>1, <1>2

\* Only a writer is where others could disturb it.
LEMMA Bystander ==
  ASSUME NEW r, ProcOK(r), ~IsWriter(r)
  PROVE  /\ r.pc \notin {"to_staging", "create", "copy", "clear", "write", "read",
                         "flash", "flashing", "unlink"}
         /\ Running(r) => ~r.write
         /\ \A x, y : LoneOK(r, x, y)
  <1>1. Running(r) => ~r.write /\ ~Commits(r.args)
    BY DEF ProcOK, IsWriter, Writes
  <1>2. r.pc \notin {"to_staging", "create", "copy", "clear", "write", "read",
                     "flash", "flashing", "unlink"}
    BY <1>1 DEF ProcOK, Running
  <1>3. r.pc \in {"rehash", "run"} => ~r.write
    BY <1>1 DEF Running
  <1> QED
    BY <1>1, <1>2, <1>3 DEF LoneOK

\* Beside the one writer nobody writes or maps the staging file shared.
LEMMA Lone ==
  ASSUME NvramInv, ~mishap, NEW p \in Procs, IsWriter(proc[p])
  PROVE  /\ \A q \in Procs : q # p => ~IsWriter(proc[q])
         /\ \A q \in Procs : q # p =>
              proc[q].pc \notin {"copy", "write", "flashing"}
         /\ \A k : \A S : S \cap {"idle", "done"} = {} => Changing(k, p, S) = {}
  <1>1. \A q \in Procs : q # p => ~IsWriter(proc[q])
    BY DEF NvramInv, LoneInv
  <1>2. \A q \in Procs : ProcOK(proc[q])
    BY DEF NvramInv, ProcInv
  <1>3. \A q \in Procs : q # p => /\ proc[q].pc \notin {"copy", "write", "flashing"}
                                  /\ Running(proc[q]) => ~proc[q].write
    BY <1>1, <1>2, Bystander
  <1>4. ASSUME NEW k, NEW S, S \cap {"idle", "done"} = {}
        PROVE  Changing(k, p, S) = {}
    BY <1>3, <1>4 DEF Changing, Running
  <1> QED
    BY <1>1, <1>3, <1>4

\* A step of one process that keeps what the invariant says of it.
LEMMA OneMoves ==
  ASSUME NvramInv, NEW p \in Procs, NEW r, proc' = [proc EXCEPT ![p] = r],
         ProcOK(r), IsWriter(r) => IsWriter(proc[p]), InodeInv', mishap' = mishap,
         ~mishap => /\ clash' = {} /\ LoneOK(r, flash', path')
                    /\ flash' # flash \/ path' # path => IsWriter(proc[p])
                    /\ FlashInv' /\ StagingInv'
  PROVE  NvramInv'
  <1>1. \A q \in Procs : proc'[q] = IF q = p THEN r ELSE proc[q]
    BY DEF NvramInv, ProcInv
  <1>2. ProcInv'
    <2>1. proc' = [q \in Procs |-> proc'[q]]
      BY DEF NvramInv, ProcInv
    <2> QED
      BY <1>1, <2>1 DEF NvramInv, ProcInv
  <1>3. LoneInv'
    <2> SUFFICES ASSUME ~mishap
                 PROVE  /\ \A q, s \in Procs :
                             IsWriter(proc'[q]) /\ IsWriter(proc'[s]) => q = s
                        /\ \A q \in Procs : LoneOK(proc'[q], flash', path')
      BY DEF LoneInv, IsWriter, Running, LoneOK, Sound, Readable, Empty, Torn
    <2>1. \A q \in Procs : IsWriter(proc'[q]) => IsWriter(proc[q])
      BY <1>1
    <2>2. ASSUME NEW q \in Procs, q # p
          PROVE  LoneOK(proc[q], flash', path')
      <3>1. CASE IsWriter(proc[p])
        <4>1. ~IsWriter(proc[q]) /\ ProcOK(proc[q])
          BY <2>2, <3>1, Lone DEF NvramInv, ProcInv
        <4> QED
          BY <4>1, Bystander
      <3>2. CASE ~IsWriter(proc[p])
        BY <3>2 DEF NvramInv, LoneInv
      <3> QED
        BY <3>1, <3>2
    <2> QED
      BY <1>1, <2>1, <2>2 DEF NvramInv, LoneInv
  <1> QED
    BY <1>2, <1>3 DEF NvramInv

\* A step that is a mishap, or comes after one, has little to keep.
LEMMA Damaged ==
  ASSUME NvramInv, NEW p \in Procs, NEW r, proc' = [proc EXCEPT ![p] = r],
         ProcOK(r), InodeInv', mishap'
  PROVE  NvramInv'
  <1>1. \A q \in Procs : proc'[q] = IF q = p THEN r ELSE proc[q]
    BY DEF NvramInv, ProcInv
  <1>2. proc' = [q \in Procs |-> proc'[q]]
    BY DEF NvramInv, ProcInv
  <1>3. ProcInv'
    BY <1>1, <1>2 DEF NvramInv, ProcInv
  <1> QED
    BY <1>3 DEF NvramInv, LoneInv

\* A step of a process that is not rewriting anything keeps flash and the
\* staging file as whole as they are.
LEMMA StillWhole ==
  ASSUME NvramInv, ~mishap, NEW p \in Procs, NEW r, proc' = [proc EXCEPT ![p] = r]
  PROVE  /\ flash' = flash /\ proc[p].pc # "flashing" => FlashInv'
         /\ /\ path' = path /\ inode' = inode
            /\ proc[p].pc \notin {"copy", "write"}
            => StagingInv'
  <1>1. \A q \in Procs : q # p => proc'[q] = proc[q]
    BY DEF NvramInv, ProcInv
  <1>2. FlashInv /\ StagingInv
    BY DEF NvramInv, LoneInv
  <1>3. ASSUME flash' = flash, proc[p].pc # "flashing"
        PROVE  FlashInv'
    <2>1. CASE Sound(flash)
      BY <1>3, <2>1 DEF FlashInv, Sound, Readable, Empty, Torn
    <2>2. CASE \E q \in Procs : At(q, "flashing")
      BY <1>1, <1>3, <2>2 DEF FlashInv, At
    <2> QED
      BY <1>2, <2>1, <2>2 DEF FlashInv
  <1>4. ASSUME path' = path, inode' = inode, proc[p].pc \notin {"copy", "write"}
        PROVE  StagingInv'
    <2>1. CASE path = 0 \/ Sound(inode[path])
      BY <1>4, <2>1 DEF StagingInv, Sound, Readable, Empty, Torn
    <2>2. CASE \E q \in Procs : proc[q].pc \in {"copy", "write"}
      BY <1>1, <1>4, <2>2 DEF StagingInv
    <2> QED
      BY <1>2, <2>1, <2>2 DEF StagingInv
  <1> QED
    BY <1>3, <1>4

\* A step that touches neither flash nor the staging file.
LEMMA Quietly ==
  ASSUME NvramInv, NEW p \in Procs, NEW r, proc' = [proc EXCEPT ![p] = r],
         ProcOK(r), IsWriter(r) => IsWriter(proc[p]),
         UNCHANGED <<flash, path, inode, mishap>>,
         ~mishap => clash' = {} /\ LoneOK(r, flash, path),
         proc[p].pc \notin {"copy", "write", "flashing"}
  PROVE  NvramInv'
  <1>1. InodeInv'
    BY DEF NvramInv, InodeInv
  <1>2. ~mishap => FlashInv' /\ StagingInv'
    BY StillWhole
  <1> QED
    BY <1>1, <1>2, OneMoves

\* A process ends.
LEMMA Ended ==
  ASSUME NvramInv, NEW p \in Procs, NEW stat, Finish(p, stat),
         UNCHANGED <<flash, path, inode, mishap>>, ~mishap => clash' = {},
         proc[p].pc \notin {"copy", "write", "flashing"}
  PROVE  NvramInv'
  <1> DEFINE r == [Idle EXCEPT !.pc = "done", !.stat = stat, !.args = proc[p].args,
                               !.write = proc[p].write]
  <1>1. proc' = [proc EXCEPT ![p] = r]
    BY DEF Finish
  <1>2. ProcOK(r) /\ ~IsWriter(r)
    BY Resting
  <1> HIDE DEF r
  <1>3. LoneOK(r, flash, path)
    BY <1>2, Bystander
  <1> QED
    BY <1>1, <1>2, <1>3, Quietly

\* A process goes on with other fields.
LEMMA GoesOn ==
  ASSUME NvramInv, NEW p \in Procs, NEW r, DOMAIN r = DOMAIN proc[p],
         r.args = proc[p].args, r.write = proc[p].write, Running(proc[p]),
         r.pc \in {"to_staging", "create", "copy", "clear", "write"} => proc[p].write,
         r.pc = "open_mtd" => ~proc[p].write,
         r.pc \in {"read", "flash", "flashing", "unlink"} => Commits(proc[p].args)
  PROVE  ProcOK(r) /\ (IsWriter(r) => IsWriter(proc[p]))
  <1>1. ProcOK(proc[p])
    BY DEF NvramInv, ProcInv
  <1>2. Running(r) /\ r.write => Writes(r.args)
    BY <1>1 DEF ProcOK
  <1>3. DOMAIN r = ProcFields
    BY <1>1 DEF ProcOK
  <1> QED
    BY <1>2, <1>3 DEF ProcOK, IsWriter

\* The fields of a process that goes on.
LEMMA Moved ==
  ASSUME NvramInv, NEW p \in Procs, NEW c, NEW k, NEW b, NEW t, NEW x
  PROVE  /\ LET r == [proc[p] EXCEPT !.pc = c]
            IN  /\ DOMAIN r = DOMAIN proc[p] /\ r.pc = c
                /\ r.args = proc[p].args /\ r.write = proc[p].write
                /\ r.ino = proc[p].ino /\ r.buf = proc[p].buf
                /\ r.table = proc[p].table
         /\ LET r == [proc[p] EXCEPT !.buf = b, !.pc = c]
            IN  /\ DOMAIN r = DOMAIN proc[p] /\ r.pc = c /\ r.buf = b
                /\ r.args = proc[p].args /\ r.write = proc[p].write
                /\ r.ino = proc[p].ino /\ r.table = proc[p].table
         /\ LET r == [proc[p] EXCEPT !.ino = k, !.pc = c]
            IN  /\ DOMAIN r = DOMAIN proc[p] /\ r.pc = c /\ r.ino = k
                /\ r.args = proc[p].args /\ r.write = proc[p].write
                /\ r.buf = proc[p].buf /\ r.table = proc[p].table
         /\ LET r == [proc[p] EXCEPT !.table = t, !.pc = c]
            IN  /\ DOMAIN r = DOMAIN proc[p] /\ r.pc = c /\ r.table = t
                /\ r.args = proc[p].args /\ r.write = proc[p].write
                /\ r.ino = proc[p].ino /\ r.buf = proc[p].buf
         /\ LET r == [proc[p] EXCEPT !.table = t, !.stat = x, !.pc = c]
            IN  /\ DOMAIN r = DOMAIN proc[p] /\ r.pc = c /\ r.table = t
                /\ r.args = proc[p].args /\ r.write = proc[p].write
                /\ r.ino = proc[p].ino /\ r.buf = proc[p].buf
         /\ LET r == [proc[p] EXCEPT !.pc = c, !.stat = x, !.table = t, !.buf = b]
            IN  /\ DOMAIN r = DOMAIN proc[p] /\ r.pc = c /\ r.table = t
                /\ r.args = proc[p].args /\ r.write = proc[p].write
                /\ r.ino = proc[p].ino /\ r.buf = b
  <1>1. DOMAIN proc[p] = {"pc", "args", "write", "stat", "table", "ino", "buf"}
    BY DEF NvramInv, ProcInv, ProcOK, ProcFields
  <1> QED
    BY <1>1

\* What the invariant says of a process that takes a step.
LEMMA Stepping ==
  ASSUME NvramInv, NEW p \in Procs
  PROVE  /\ proc[p].pc \in {"to_staging", "create", "copy", "clear", "write"}
              => proc[p].write /\ IsWriter(proc[p])
         /\ proc[p].pc \in {"read", "flash", "flashing", "unlink"}
              => Commits(proc[p].args) /\ IsWriter(proc[p])
         /\ proc[p].pc = "open_mtd" => ~proc[p].write
         /\ proc[p].write /\ Running(proc[p]) => IsWriter(proc[p])
         /\ ~mishap => clash = {} /\ LoneOK(proc[p], flash, path)
         /\ ~mishap /\ IsWriter(proc[p]) =>
              /\ proc[p].pc # "flashing" => Sound(flash)
              /\ proc[p].pc \notin {"copy", "write"} /\ path # 0 => Sound(inode[path])
  <1>1. ProcOK(proc[p])
    BY DEF NvramInv, ProcInv
  <1>2. ASSUME ~mishap, IsWriter(proc[p])
        PROVE  /\ proc[p].pc # "flashing" => Sound(flash)
               /\ proc[p].pc \notin {"copy", "write"} /\ path # 0 => Sound(inode[path])
    <2>1. \A q \in Procs : q # p => proc[q].pc \notin {"copy", "write", "flashing"}
      BY <1>2, Lone
    <2>2. FlashInv /\ StagingInv
      BY <1>2 DEF NvramInv, LoneInv
    <2> QED
      BY <2>1, <2>2 DEF FlashInv, StagingInv, At
  <1>3. ~mishap => clash = {} /\ LoneOK(proc[p], flash, path)
    BY DEF NvramInv, LoneInv
  <1> QED
    BY <1>1, <1>2, <1>3 DEF ProcOK, IsWriter, Running, Writes

-----------------------------------------------------------------------------
(***************************************************************************)
(* The steps that leave flash and the staging file alone.                  *)
(***************************************************************************)

\* Looking for the staging file.
LEMMA FindStep ==
  ASSUME NvramInv, NEW p \in Procs, nvram_find_staging(p)
  PROVE  NvramInv'
  <1> DEFINE c == IF path # 0 THEN "open"
                  ELSE IF proc[p].write THEN "to_staging" ELSE "open_mtd"
             r == [proc[p] EXCEPT !.pc = c]
  <1>1. proc' = [proc EXCEPT ![p] = r] /\ proc[p].pc = "find"
    BY DEF nvram_find_staging, Goto, At
  <1>2. /\ DOMAIN r = DOMAIN proc[p] /\ r.pc = c
        /\ r.args = proc[p].args /\ r.write = proc[p].write
    BY Moved
  <1> HIDE DEF r
  <1>3. ProcOK(r) /\ (IsWriter(r) => IsWriter(proc[p]))
    BY <1>1, <1>2, GoesOn DEF Running
  <1>4. LoneOK(r, flash, path)
    BY <1>2 DEF LoneOK
  <1>5. UNCHANGED <<flash, path, inode, mishap, clash>>
    BY DEF nvram_find_staging, histVars
  <1>6. ~mishap => clash' = {}
    BY <1>5, Stepping
  <1> QED
    BY <1>1, <1>3, <1>4, <1>5, <1>6, Quietly

\* Reading flash to copy it.
LEMMA ReadFlashStep ==
  ASSUME NvramInv, NEW p \in Procs, to_staging_read(p)
  PROVE  NvramInv'
  <1> DEFINE r == [proc[p] EXCEPT !.buf = flash, !.pc = "create"]
  <1>1. proc' = [proc EXCEPT ![p] = r] /\ proc[p].pc = "to_staging"
    BY DEF to_staging_read, At
  <1>2. /\ DOMAIN r = DOMAIN proc[p] /\ r.pc = "create" /\ r.buf = flash
        /\ r.args = proc[p].args /\ r.write = proc[p].write
    BY Moved
  <1> HIDE DEF r
  <1>3. proc[p].write /\ IsWriter(proc[p])
    BY <1>1, Stepping
  <1>4. ProcOK(r) /\ (IsWriter(r) => IsWriter(proc[p]))
    BY <1>1, <1>2, <1>3, GoesOn DEF Running
  <1>5. ~mishap => LoneOK(r, flash, path)
    BY <1>1, <1>2, <1>3, Stepping DEF LoneOK
  <1>6. UNCHANGED <<flash, path, inode, mishap, clash>>
    BY DEF to_staging_read, histVars
  <1>7. ~mishap => clash' = {}
    BY <1>6, Stepping
  <1> QED
    BY <1>1, <1>4, <1>5, <1>6, <1>7, Quietly

\* Opening flash.
LEMMA OpenMtdStep ==
  ASSUME NvramInv, NEW p \in Procs, nvram_open_mtd(p)
  PROVE  NvramInv'
  <1>1. proc[p].pc = "open_mtd" /\ UNCHANGED <<flash, path, inode, mishap, clash>>
    BY DEF nvram_open_mtd, At, histVars
  <1>2. ~mishap => clash' = {}
    BY <1>1, Stepping
  <1>3. CASE flash = Torn
    <2>1. Finish(p, 1)
      BY <1>3 DEF nvram_open_mtd
    <2> QED
      BY <1>1, <1>2, <2>1, Ended
  <1>4. CASE flash # Torn
    <2> DEFINE r == [proc[p] EXCEPT !.table = nvram_rehash(flash.img), !.pc = "run"]
    <2>1. proc' = [proc EXCEPT ![p] = r]
      BY <1>4 DEF nvram_open_mtd
    <2>2. /\ DOMAIN r = DOMAIN proc[p] /\ r.pc = "run"
          /\ r.args = proc[p].args /\ r.write = proc[p].write
      BY Moved
    <2> HIDE DEF r
    <2>3. ProcOK(r) /\ (IsWriter(r) => IsWriter(proc[p]))
      BY <1>1, <2>2, GoesOn DEF Running
    <2>4. LoneOK(r, flash, path)
      BY <1>1, <2>2, Stepping DEF LoneOK
    <2> QED
      BY <1>1, <1>2, <2>1, <2>3, <2>4, Quietly
  <1> QED
    BY <1>3, <1>4

\* Executing the arguments.
LEMMA RunStep ==
  ASSUME NvramInv, NEW p \in Procs, run_args(p)
  PROVE  NvramInv'
  <1> DEFINE d == do_args(proc[p].table, proc[p].args)
             c == IF proc[p].write THEN "clear" ELSE "close"
             r == [proc[p] EXCEPT !.table = d.t, !.stat = d.stat, !.pc = c]
  <1>1. proc' = [proc EXCEPT ![p] = r] /\ proc[p].pc = "run"
    BY DEF run_args, At
  <1> HIDE DEF d
  <1>2. /\ DOMAIN r = DOMAIN proc[p] /\ r.pc = c /\ r.ino = proc[p].ino
        /\ r.args = proc[p].args /\ r.write = proc[p].write
    BY Moved
  <1> HIDE DEF r
  <1>3. ProcOK(r) /\ (IsWriter(r) => IsWriter(proc[p]))
    BY <1>1, <1>2, GoesOn DEF Running
  <1>4. ~mishap => LoneOK(r, flash, path)
    BY <1>1, <1>2, Stepping DEF LoneOK
  <1>5. UNCHANGED <<flash, path, inode, mishap, clash>>
    BY DEF run_args, histVars
  <1>6. ~mishap => clash' = {}
    BY <1>5, Stepping
  <1> QED
    BY <1>1, <1>3, <1>4, <1>5, <1>6, Quietly

\* Closing, and going on to the copy to flash.
LEMMA CloseStep ==
  ASSUME NvramInv, NEW p \in Procs, nvram_close(p)
  PROVE  NvramInv'
  <1>1. proc[p].pc = "close" /\ UNCHANGED <<flash, path, inode, mishap, clash>>
    BY DEF nvram_close, At, histVars
  <1>2. ~mishap => clash' = {}
    BY <1>1, Stepping
  <1>3. CASE ~Commits(proc[p].args)
    <2>1. Finish(p, IF Done(proc[p].args) THEN proc[p].stat ELSE 1)
      BY <1>3 DEF nvram_close
    <2> QED
      BY <1>1, <1>2, <2>1, Ended
  <1>4. CASE Commits(proc[p].args)
    <2> DEFINE r == [proc[p] EXCEPT !.pc = "read"]
    <2>1. proc' = [proc EXCEPT ![p] = r]
      BY <1>4 DEF nvram_close, Goto
    <2>2. /\ DOMAIN r = DOMAIN proc[p] /\ r.pc = "read"
          /\ r.args = proc[p].args /\ r.write = proc[p].write
      BY Moved
    <2> HIDE DEF r
    <2>3. ProcOK(r) /\ (IsWriter(r) => IsWriter(proc[p]))
      BY <1>1, <1>4, <2>2, GoesOn DEF Running
    <2>4. LoneOK(r, flash, path)
      BY <2>2 DEF LoneOK
    <2> QED
      BY <1>1, <1>2, <2>1, <2>3, <2>4, Quietly
  <1> QED
    BY <1>3, <1>4

\* Reading the staging file to copy it to flash.
LEMMA ReadStagingStep ==
  ASSUME NvramInv, NEW p \in Procs, staging_to_nvram_read(p)
  PROVE  NvramInv'
  <1>1. proc[p].pc = "read" /\ UNCHANGED <<flash, path, inode, mishap, clash>>
    BY DEF staging_to_nvram_read, At, histVars
  <1>2. ~mishap => clash' = {}
    BY <1>1, Stepping
  <1>3. Commits(proc[p].args) /\ IsWriter(proc[p])
    BY <1>1, Stepping
  <1>4. ASSUME NEW stat, Finish(p, stat)
        PROVE  NvramInv'
    BY <1>1, <1>2, <1>4, Ended
  <1>5. ASSUME path # 0, NEW b \in Seen(path, p),
               proc' = [proc EXCEPT ![p].buf = b, ![p].pc = "flash"]
        PROVE  NvramInv'
    <2> DEFINE r == [proc[p] EXCEPT !.buf = b, !.pc = "flash"]
    <2>1. proc' = [proc EXCEPT ![p] = r]
      BY <1>5
    <2>2. /\ DOMAIN r = DOMAIN proc[p] /\ r.pc = "flash" /\ r.buf = b
          /\ r.args = proc[p].args /\ r.write = proc[p].write
      BY Moved
    <2> HIDE DEF r
    <2>3. ProcOK(r) /\ (IsWriter(r) => IsWriter(proc[p]))
      BY <1>1, <1>3, <2>2, GoesOn DEF Running
    <2>4. ASSUME ~mishap
          PROVE  Sound(b)
      <3>1. Sound(inode[path])
        BY <1>1, <1>3, <1>5, <2>4, Stepping
      <3>2. Changing(path, p, {"rehash", "write"}) = {}
        BY <1>3, <2>4, Lone
      <3>3. Seen(path, p) = {inode[path]}
        BY <3>1, <3>2 DEF Seen, Sound, Readable
      <3> QED
        BY <1>5, <3>1, <3>3
    <2>5. ~mishap => LoneOK(r, flash, path)
      BY <2>2, <2>4 DEF LoneOK
    <2> QED
      BY <1>1, <1>2, <2>1, <2>3, <2>5, Quietly
  <1> QED
    BY <1>4, <1>5 DEF staging_to_nvram_read

\* Opening and mapping the staging file.
LEMMA OpenStagingStep ==
  ASSUME NvramInv, NEW p \in Procs, nvram_open_staging(p)
  PROVE  NvramInv'
  <1>1. proc[p].pc = "open" /\ UNCHANGED <<flash, path, inode, mishap>>
    BY DEF nvram_open_staging, At, histVars
  <1> DEFINE found == IF path = 0 THEN Torn ELSE inode[path]
             O == Changing(path, p, {"write"})
             r == [proc[p] EXCEPT !.ino = path, !.pc = "rehash"]
  <1>2. ASSUME NEW stat, Finish(p, stat), UNCHANGED clash
        PROVE  NvramInv'
    BY <1>1, <1>2, Stepping, Ended
  <1>3. ASSUME found \notin {Empty, Torn}, proc' = [proc EXCEPT ![p] = r],
               clash' = IF proc[p].write /\ O # {} THEN clash \cup O \cup {p} ELSE clash
        PROVE  NvramInv'
    <2>1. path # 0
      BY <1>3
    <2>2. /\ DOMAIN r = DOMAIN proc[p] /\ r.pc = "rehash" /\ r.ino = path
          /\ r.args = proc[p].args /\ r.write = proc[p].write
      BY Moved
    <2> HIDE DEF r
    <2>3. ProcOK(r) /\ (IsWriter(r) => IsWriter(proc[p]))
      BY <1>1, <2>2, GoesOn DEF Running
    <2>4. LoneOK(r, flash, path)
      BY <2>1, <2>2 DEF LoneOK
    <2>5. ~mishap /\ proc[p].write => O = {}
      BY <1>1, Stepping, Lone DEF Running
    <2>6. ~mishap => clash' = {}
      BY <1>3, <2>5, Stepping
    <2> QED
      BY <1>1, <1>3, <2>3, <2>4, <2>6, Quietly
  <1>4. \/ \E stat \in {1, SIGBUS} : Finish(p, stat) /\ UNCHANGED clash
        \/ /\ found \notin {Empty, Torn} /\ proc' = [proc EXCEPT ![p] = r]
           /\ clash' = IF proc[p].write /\ O # {} THEN clash \cup O \cup {p} ELSE clash
    BY DEF nvram_open_staging
  <1> QED
    BY <1>2, <1>3, <1>4

-----------------------------------------------------------------------------
(***************************************************************************)
(* The steps that write the staging file.                                  *)
(***************************************************************************)

\* A writer's step that leaves flash alone and the staging file sound, or
\* being rewritten.
LEMMA Staged ==
  ASSUME NvramInv, NEW p \in Procs, NEW r, proc' = [proc EXCEPT ![p] = r],
         ProcOK(r), IsWriter(r) => IsWriter(proc[p]), IsWriter(proc[p]), InodeInv',
         UNCHANGED <<flash, mishap>>, proc[p].pc # "flashing",
         ~mishap => /\ clash' = {} /\ LoneOK(r, flash, path')
                    /\ \/ r.pc \in {"copy", "write"}
                       \/ path' # 0 => Sound(inode'[path'])
  PROVE  NvramInv'
  <1>1. proc'[p] = r
    BY DEF NvramInv, ProcInv
  <1>2. ASSUME ~mishap
        PROVE  StagingInv'
    <2>1. CASE r.pc \in {"copy", "write"}
      BY <1>1, <2>1 DEF StagingInv
    <2>2. CASE path' # 0 => Sound(inode'[path'])
      BY <2>2 DEF StagingInv, Sound, Readable, Empty, Torn
    <2> QED
      BY <1>2, <2>1, <2>2
  <1>3. ~mishap => FlashInv'
    BY StillWhole
  <1> QED
    BY <1>2, <1>3, OneMoves

\* Creating the staging file.
LEMMA CreateStep ==
  ASSUME NvramInv, NEW p \in Procs, to_staging_create(p)
  PROVE  NvramInv'
  <1> DEFINE r == [proc[p] EXCEPT !.ino = path', !.pc = "copy"]
  <1>1. /\ proc' = [proc EXCEPT ![p] = r] /\ proc[p].pc = "create"
        /\ UNCHANGED <<flash, mishap, clash>>
    BY DEF to_staging_create, At, histVars
  <1>2. /\ DOMAIN r = DOMAIN proc[p] /\ r.pc = "copy" /\ r.ino = path'
        /\ r.args = proc[p].args /\ r.write = proc[p].write /\ r.buf = proc[p].buf
    BY Moved
  <1> HIDE DEF r
  <1>3. proc[p].write /\ IsWriter(proc[p])
    BY <1>1, Stepping
  <1>4. ProcOK(r) /\ (IsWriter(r) => IsWriter(proc[p]))
    BY <1>1, <1>2, <1>3, GoesOn DEF Running
  <1>5. InodeInv' /\ path' # 0
    <2>1. CASE path # 0
      <3>1. path' = path /\ inode' = inode
        BY <2>1 DEF to_staging_create
      <3> QED
        BY <2>1, <3>1 DEF NvramInv, InodeInv
    <2>2. CASE path = 0
      <3>1. path' = Len(inode) + 1 /\ inode' = Append(inode, Empty)
        BY <2>2 DEF to_staging_create
      <3>2. inode' \in Seq(Range(inode')) /\ Len(inode') = Len(inode) + 1 /\ Len(inode) \in Nat
        BY <3>1, Created DEF NvramInv, InodeInv
      <3> QED
        BY <3>1, <3>2 DEF InodeInv
    <2> QED
      BY <2>1, <2>2
  <1>6. ~mishap => clash' = {} /\ LoneOK(r, flash, path')
    BY <1>1, <1>2, <1>5, Stepping DEF LoneOK
  <1> QED
    BY <1>1, <1>2, <1>3, <1>4, <1>5, <1>6, Staged

\* A staging file gets new contents.
LEMMA InodeWritten ==
  ASSUME NvramInv, NEW k, NEW c, inode' = [inode EXCEPT ![k] = c], path' = path
  PROVE  InodeInv' /\ (path # 0 => inode'[path] = IF path = k THEN c ELSE inode[path])
  <1>1. /\ inode' \in Seq(Range(inode')) /\ Len(inode') = Len(inode) /\ Len(inode) \in Nat
        /\ \A j \in 1..Len(inode) : inode'[j] = IF j = k THEN c ELSE inode[j]
    <2>1. Len(inode) \in Nat /\ inode = [j \in 1..Len(inode) |-> inode[j]]
      BY DEF NvramInv, InodeInv
    <2>2. /\ DOMAIN inode' = 1..Len(inode) /\ inode' = [j \in 1..Len(inode) |-> inode'[j]]
          /\ \A j \in 1..Len(inode) : inode'[j] = IF j = k THEN c ELSE inode[j]
      BY <2>1
    <2>3. \A j \in 1..Len(inode) : inode'[j] \in Range(inode')
      BY <2>2 DEF Range
    <2>4. inode' \in [1..Len(inode) -> Range(inode')]
      BY <2>2, <2>3
    <2>5. inode' \in Seq(Range(inode')) /\ Len(inode') = Len(inode)
      BY <2>1, <2>4, IsList
    <2> QED
      BY <2>1, <2>2, <2>5
  <1>2. path \in 0..Len(inode)
    BY DEF NvramInv, InodeInv
  <1> QED
    BY <1>1, <1>2 DEF InodeInv

\* Copying flash to the staging file.
LEMMA CopyStep ==
  ASSUME NvramInv, NEW p \in Procs, to_staging_write(p)
  PROVE  NvramInv'
  <1> DEFINE r == [proc[p] EXCEPT !.pc = "open"]
  <1>1. /\ proc' = [proc EXCEPT ![p] = r] /\ proc[p].pc = "copy"
        /\ UNCHANGED <<flash, path, mishap>>
        /\ inode' = [inode EXCEPT ![proc[p].ino] = proc[p].buf]
        /\ clash' = clash \cup Changing(proc[p].ino, p, {"rehash", "write"})
    BY DEF to_staging_write, At, Goto, histVars
  <1>2. /\ DOMAIN r = DOMAIN proc[p] /\ r.pc = "open"
        /\ r.args = proc[p].args /\ r.write = proc[p].write
    BY Moved
  <1> HIDE DEF r
  <1>3. proc[p].write /\ IsWriter(proc[p])
    BY <1>1, Stepping
  <1>4. ProcOK(r) /\ (IsWriter(r) => IsWriter(proc[p]))
    BY <1>1, <1>2, <1>3, GoesOn DEF Running
  <1>5. /\ InodeInv'
        /\ path # 0 => inode'[path] = IF path = proc[p].ino THEN proc[p].buf ELSE inode[path]
    BY ZenonT(30), <1>1, InodeWritten
  <1>6. LoneOK(r, flash, path')
    BY <1>2 DEF LoneOK
  <1>7. ~mishap => clash' = {}
    BY <1>1, <1>3, Stepping, Lone
  <1>8. ~mishap => Sound(inode'[path'])
    BY <1>1, <1>5, Stepping DEF LoneOK
  <1> QED
    BY <1>1, <1>3, <1>4, <1>5, <1>6, <1>7, <1>8, Staged

\* Clearing the mapping and writing the table into it.
LEMMA ClearStep ==
  ASSUME NvramInv, NEW p \in Procs, commit_clear(p)
  PROVE  NvramInv'
  <1> DEFINE O == Changing(proc[p].ino, p, {"rehash", "write"})
             new == nvram_commit(proc[p].table)
             r == [proc[p] EXCEPT !.buf = Whole(new), !.pc = "write"]
  <1>1. /\ proc' = [proc EXCEPT ![p] = r] /\ proc[p].pc = "clear"
        /\ UNCHANGED <<flash, path, mishap>>
        /\ clash' = IF O # {} THEN clash \cup O \cup {p} ELSE clash
    BY DEF commit_clear, At, histVars
  <1>2. \E half : inode' = [inode EXCEPT ![proc[p].ino] = half]
    BY DEF commit_clear
  <1> HIDE DEF new
  <1>3. /\ DOMAIN r = DOMAIN proc[p] /\ r.pc = "write" /\ r.ino = proc[p].ino
        /\ r.args = proc[p].args /\ r.write = proc[p].write /\ r.buf = Whole(new)
    BY Moved
  <1> HIDE DEF r
  <1>4. proc[p].write /\ IsWriter(proc[p])
    BY <1>1, Stepping
  <1>5. ProcOK(r) /\ (IsWriter(r) => IsWriter(proc[p]))
    BY <1>1, <1>3, <1>4, GoesOn DEF Running
  <1>6. InodeInv'
    BY <1>1, <1>2, InodeWritten
  <1>7. Sound(r.buf)
    BY <1>3, WholeIsSound
  <1>8. ~mishap => LoneOK(r, flash, path')
    BY <1>1, <1>3, <1>4, <1>7, Stepping DEF LoneOK
  <1>9. ~mishap => clash' = {}
    BY <1>1, <1>4, Stepping, Lone
  <1> QED
    BY <1>1, <1>3, <1>4, <1>5, <1>6, <1>8, <1>9, Staged

\* A lone writer finds the file it has mapped as long as the partition.
LEMMA ClearDiesStep ==
  ASSUME NvramInv, NEW p \in Procs, commit_clear_dies(p)
  PROVE  NvramInv'
  <1> DEFINE r == [Idle EXCEPT !.pc = "done", !.stat = SIGBUS, !.args = proc[p].args,
                               !.write = proc[p].write]
  <1>1. /\ proc' = [proc EXCEPT ![p] = r] /\ proc[p].pc = "clear"
        /\ UNCHANGED <<flash, path, mishap>>
        /\ Short(inode[proc[p].ino]) /\ inode' = [inode EXCEPT ![proc[p].ino] = Empty]
    BY DEF commit_clear_dies, At, Finish, histVars
  <1>2. ProcOK(r)
    BY Resting
  <1> HIDE DEF r
  <1>3. InodeInv'
    BY <1>1, InodeWritten
  <1>4. mishap
    <2> SUFFICES ASSUME ~mishap
                 PROVE  FALSE
      OBVIOUS
    <2>1. proc[p].write /\ IsWriter(proc[p])
      BY <1>1, Stepping
    <2>2. proc[p].ino = path /\ path # 0
      BY <1>1, <2>1, Stepping DEF LoneOK
    <2>3. Sound(inode[path])
      BY <1>1, <2>1, <2>2, Stepping
    <2> QED
      BY <1>1, <2>2, <2>3 DEF Short, Sound, Readable
  <1> QED
    BY <1>1, <1>2, <1>3, <1>4, Damaged

\* The table is in the mapping.
LEMMA WriteStep ==
  ASSUME NvramInv, NEW p \in Procs, commit_write(p)
  PROVE  NvramInv'
  <1> DEFINE r == [proc[p] EXCEPT !.pc = "close", !.stat = 0, !.table = EmptyTable,
                                  !.buf = Empty]
  <1>1. /\ proc' = [proc EXCEPT ![p] = r] /\ proc[p].pc = "write"
        /\ UNCHANGED <<flash, path, mishap>> /\ clash' = clash \ {p}
    BY DEF commit_write, At, histVars
  <1>2. /\ DOMAIN r = DOMAIN proc[p] /\ r.pc = "close"
        /\ r.args = proc[p].args /\ r.write = proc[p].write
    BY Moved
  <1> HIDE DEF r
  <1>3. proc[p].write /\ IsWriter(proc[p])
    BY <1>1, Stepping
  <1>4. ProcOK(r) /\ (IsWriter(r) => IsWriter(proc[p]))
    BY <1>1, <1>2, <1>3, GoesOn DEF Running
  <1>5. PICK c \in Settled(p, proc[p].buf) : inode' = [inode EXCEPT ![proc[p].ino] = c]
    BY DEF commit_write
  <1>6. /\ InodeInv'
        /\ path # 0 => inode'[path] = IF path = proc[p].ino THEN c ELSE inode[path]
    BY <1>1, <1>5, InodeWritten
  <1>7. ~mishap => clash' = {} /\ c = proc[p].buf
    BY <1>1, <1>5, Stepping DEF Settled
  <1>8. ~mishap => Sound(inode'[path'])
    BY <1>1, <1>3, <1>6, <1>7, Stepping DEF LoneOK
  <1>9. LoneOK(r, flash, path')
    BY <1>2 DEF LoneOK
  <1> QED
    BY <1>1, <1>3, <1>4, <1>6, <1>7, <1>8, <1>9, Staged

\* Parsing the mapping.
LEMMA RehashStep ==
  ASSUME NvramInv, NEW p \in Procs, rehash(p)
  PROVE  NvramInv'
  <1>1. /\ proc[p].pc = "rehash" /\ UNCHANGED <<flash, path, mishap>>
        /\ clash' = clash \ {p}
    BY DEF rehash, At, histVars
  <1>2. InodeInv' /\ (~mishap => inode' = inode)
    <2>1. CASE inode[proc[p].ino] \in {Empty, Torn}
      <3>1. inode' = inode
        BY <2>1 DEF rehash
      <3> QED
        BY <1>1, <3>1 DEF NvramInv, InodeInv
    <2>2. CASE inode[proc[p].ino] \notin {Empty, Torn}
      <3>1. PICK c \in Settled(p, inode[proc[p].ino]) :
                   inode' = [inode EXCEPT ![proc[p].ino] = c]
        BY <2>2 DEF rehash
      <3>2. ~mishap => c = inode[proc[p].ino]
        BY Stepping DEF Settled
      <3>3. inode = [k \in DOMAIN inode |-> inode[k]]
        BY DEF NvramInv, InodeInv
      <3>4. ~mishap => inode' = inode
        BY <3>1, <3>2, <3>3
      <3> QED
        BY <1>1, <3>1, <3>4, InodeWritten
    <2> QED
      BY <2>1, <2>2
  <1>3. ~mishap => clash' = {}
    BY <1>1, Stepping
  <1>4. ASSUME NEW r, proc' = [proc EXCEPT ![p] = r], ProcOK(r),
               IsWriter(r) => IsWriter(proc[p]), ~mishap => LoneOK(r, flash, path)
        PROVE  NvramInv'
    <2>1. ~mishap => FlashInv' /\ StagingInv'
      BY <1>1, <1>2, <1>4, StillWhole
    <2> QED
      BY <1>1, <1>2, <1>3, <1>4, <2>1, OneMoves
  <1>5. CASE \E t : proc' = [proc EXCEPT ![p].table = t, ![p].pc = "run"]
    <2>1. PICK t : proc' = [proc EXCEPT ![p].table = t, ![p].pc = "run"]
      BY <1>5
    <2> DEFINE r == [proc[p] EXCEPT !.table = t, !.pc = "run"]
    <2>2. proc' = [proc EXCEPT ![p] = r]
      BY <2>1
    <2>3. /\ DOMAIN r = DOMAIN proc[p] /\ r.pc = "run" /\ r.ino = proc[p].ino
          /\ r.args = proc[p].args /\ r.write = proc[p].write
      BY Moved
    <2> HIDE DEF r
    <2>4. ProcOK(r) /\ (IsWriter(r) => IsWriter(proc[p]))
      BY <1>1, <2>3, GoesOn DEF Running
    <2>5. ~mishap => LoneOK(r, flash, path)
      BY <1>1, <2>3, Stepping DEF LoneOK
    <2> QED
      BY <1>4, <2>2, <2>4, <2>5
  <1>6. CASE Finish(p, SIGBUS)
    <2> DEFINE r == [Idle EXCEPT !.pc = "done", !.stat = SIGBUS, !.args = proc[p].args,
                                 !.write = proc[p].write]
    <2>1. proc' = [proc EXCEPT ![p] = r]
      BY <1>6 DEF Finish
    <2>2. ProcOK(r) /\ ~IsWriter(r)
      BY Resting
    <2> HIDE DEF r
    <2>3. LoneOK(r, flash, path)
      BY <2>2, Bystander
    <2> QED
      BY <1>4, <2>1, <2>2, <2>3
  <1>7. \/ \E t : proc' = [proc EXCEPT ![p].table = t, ![p].pc = "run"]
        \/ Finish(p, SIGBUS)
    BY DEF rehash
  <1> QED
    BY <1>5, <1>6, <1>7

-----------------------------------------------------------------------------
(***************************************************************************)
(* The copy to flash.                                                      *)
(***************************************************************************)

\* A writer's step that rewrites flash or removes the staging file.
LEMMA Flashed ==
  ASSUME NvramInv, NEW p \in Procs, NEW r, proc' = [proc EXCEPT ![p] = r],
         ProcOK(r), IsWriter(r) => IsWriter(proc[p]), IsWriter(proc[p]),
         UNCHANGED <<inode, mishap, clash>>, path' \in {0, path},
         proc[p].pc \notin {"copy", "write"},
         ~mishap => /\ LoneOK(r, flash', path')
                    /\ r.pc = "flashing" \/ Sound(flash')
  PROVE  NvramInv'
  <1>1. proc'[p] = r
    BY DEF NvramInv, ProcInv
  <1>2. InodeInv'
    BY DEF NvramInv, InodeInv
  <1>3. ~mishap => FlashInv'
    BY <1>1 DEF FlashInv, At, Sound, Readable, Empty, Torn
  <1>4. ~mishap => StagingInv'
    <2>1. CASE path' = path
      BY <2>1, StillWhole
    <2>2. CASE path' = 0
      BY <2>2 DEF StagingInv
    <2> QED
      BY <2>1, <2>2
  <1>5. ~mishap => clash' = {}
    BY Stepping
  <1> QED
    BY <1>2, <1>3, <1>4, <1>5, OneMoves

\* Erasing flash.
LEMMA EraseStep ==
  ASSUME NvramInv, NEW p \in Procs, flash_erase(p)
  PROVE  NvramInv'
  <1> DEFINE r == [proc[p] EXCEPT !.pc = "flashing"]
  <1>1. /\ proc' = [proc EXCEPT ![p] = r] /\ proc[p].pc = "flash"
        /\ UNCHANGED <<path, inode, mishap, clash>> /\ flash' = Torn
    BY DEF flash_erase, At, Goto, histVars
  <1>2. /\ DOMAIN r = DOMAIN proc[p] /\ r.pc = "flashing" /\ r.buf = proc[p].buf
        /\ r.args = proc[p].args /\ r.write = proc[p].write
    BY Moved
  <1> HIDE DEF r
  <1>3. Commits(proc[p].args) /\ IsWriter(proc[p])
    BY <1>1, Stepping
  <1>4. ProcOK(r) /\ (IsWriter(r) => IsWriter(proc[p]))
    BY <1>1, <1>2, <1>3, GoesOn DEF Running
  <1>5. ~mishap => LoneOK(r, flash', path')
    BY <1>1, <1>2, Stepping DEF LoneOK
  <1> QED
    BY <1>1, <1>2, <1>3, <1>4, <1>5, Flashed

\* Writing flash.
LEMMA FlashStep ==
  ASSUME NvramInv, NEW p \in Procs, flash_write(p)
  PROVE  NvramInv'
  <1> DEFINE r == [proc[p] EXCEPT !.pc = "unlink"]
  <1>1. /\ proc' = [proc EXCEPT ![p] = r] /\ proc[p].pc = "flashing"
        /\ UNCHANGED <<path, inode, mishap, clash>>
    BY DEF flash_write, At, Goto, histVars
  <1>2. /\ DOMAIN r = DOMAIN proc[p] /\ r.pc = "unlink"
        /\ r.args = proc[p].args /\ r.write = proc[p].write
    BY Moved
  <1> HIDE DEF r
  <1>3. Commits(proc[p].args) /\ IsWriter(proc[p])
    BY <1>1, Stepping
  <1>4. ProcOK(r) /\ (IsWriter(r) => IsWriter(proc[p]))
    BY <1>1, <1>2, <1>3, GoesOn DEF Running
  <1>5. ASSUME ~mishap
        PROVE  Sound(flash')
    <2>1. ~\E q \in Procs \ {p} : At(q, "flashing")
      BY <1>3, <1>5, Lone DEF At
    <2>2. flash' = proc[p].buf
      BY <2>1 DEF flash_write
    <2> QED
      BY <1>1, <1>5, <2>2, Stepping DEF LoneOK
  <1>6. LoneOK(r, flash', path')
    BY <1>2 DEF LoneOK
  <1> QED
    BY <1>1, <1>3, <1>4, <1>5, <1>6, Flashed

\* Removing the staging file.
LEMMA UnlinkStep ==
  ASSUME NvramInv, NEW p \in Procs, unlink_staging(p)
  PROVE  NvramInv'
  <1> DEFINE stat == IF ~Done(proc[p].args) \/ path = 0 THEN 1 ELSE 0
             r == [Idle EXCEPT !.pc = "done", !.stat = stat, !.args = proc[p].args,
                               !.write = proc[p].write]
  <1>1. /\ proc' = [proc EXCEPT ![p] = r] /\ proc[p].pc = "unlink"
        /\ UNCHANGED <<flash, inode, mishap, clash>> /\ path' = 0
    BY DEF unlink_staging, At, Finish, histVars
  <1>2. ProcOK(r) /\ ~IsWriter(r)
    BY Resting
  <1> HIDE DEF r
  <1>3. LoneOK(r, flash', path')
    BY <1>2, Bystander
  <1>4. IsWriter(proc[p])
    BY <1>1, Stepping
  <1>5. ~mishap => Sound(flash')
    <2>1. ~mishap => Sound(flash)
      BY <1>1, <1>4, Stepping
    <2> QED
      BY <1>1, <2>1
  <1> QED
    BY <1>1, <1>2, <1>3, <1>4, <1>5, Flashed

-----------------------------------------------------------------------------
(***************************************************************************)
(* Starting, and the faults.                                               *)
(***************************************************************************)

\* A command is started.
LEMMA StartStep ==
  ASSUME NvramInv, NEW p \in Procs, NEW args, main(p, args)
  PROVE  NvramInv'
  <1> DEFINE r == [Idle EXCEPT !.pc = "find", !.args = args, !.write = expect_write(args)]
  <1>1. /\ proc' = [proc EXCEPT ![p] = r] /\ proc[p].pc \in {"idle", "done"}
        /\ UNCHANGED <<flash, path, inode, clash>>
        /\ mishap' = (mishap \/ (Writes(args) /\ Writers # {}))
    BY DEF main
  <1>2. r.pc = "find" /\ r.args = args /\ r.write = expect_write(args)
    BY DEF Idle
  <1>3. DOMAIN r = ProcFields
    BY DEF Idle, ProcFields
  <1> HIDE DEF r
  <1>4. ProcOK(r)
    BY <1>2, <1>3 DEF ProcOK, Writes
  <1>5. CASE mishap'
    <2>1. InodeInv'
      BY <1>1 DEF NvramInv, InodeInv
    <2> QED
      BY <1>1, <1>4, <1>5, <2>1, Damaged
  <1>6. CASE ~mishap'
    <2>1. ~mishap /\ (Writes(args) => Writers = {})
      BY <1>1, <1>6
    <2>2. \A q \in Procs : proc'[q] = IF q = p THEN r ELSE proc[q]
      BY <1>1 DEF NvramInv, ProcInv
    <2>3. proc' = [q \in Procs |-> proc'[q]]
      BY <1>1 DEF NvramInv, ProcInv
    <2>4. ProcInv' /\ InodeInv'
      BY <1>1, <1>4, <2>2, <2>3 DEF NvramInv, ProcInv, InodeInv
    <2>5. Writes(args) => \A q \in Procs : ~IsWriter(proc[q])
      BY <2>1 DEF Writers, IsWriter, Running
    <2>6. IsWriter(r) => Writes(args)
      BY <1>2 DEF IsWriter
    <2>7. \A q, s \in Procs : IsWriter(proc'[q]) /\ IsWriter(proc'[s]) => q = s
      BY <2>1, <2>2, <2>5, <2>6 DEF NvramInv, LoneInv
    <2>8. LoneOK(r, flash, path)
      BY <1>2 DEF LoneOK
    <2>9. \A q \in Procs : LoneOK(proc'[q], flash', path')
      BY <1>1, <2>1, <2>2, <2>8 DEF NvramInv, LoneInv
    <2>10. FlashInv' /\ StagingInv'
      BY <1>1, <2>1, StillWhole
    <2>11. clash' = {}
      BY <1>1, <2>1 DEF NvramInv, LoneInv
    <2>12. LoneInv'
      BY <2>7, <2>9, <2>10, <2>11
         DEF LoneInv, IsWriter, Running, LoneOK, Sound, Readable, Empty, Torn
    <2> QED
      BY <2>4, <2>12 DEF NvramInv
  <1> QED
    BY <1>5, <1>6

\* A process that stops in the middle of a change to the staging file.
LEMMA Halfway ==
  ASSUME NvramInv, NEW p \in Procs, LeftMidway(p), path' = path
  PROVE  /\ InodeInv'
         /\ Running(proc[p]) /\ ~IsWriter(proc[p]) => inode' = inode
  <1>1. InodeInv'
    <2>1. CASE UNCHANGED inode
      BY <2>1 DEF NvramInv, InodeInv
    <2>2. CASE \E c \in Midway(p) : inode' = [inode EXCEPT ![proc[p].ino] = c]
      BY <2>2, InodeWritten
    <2> QED
      BY <2>1, <2>2 DEF LeftMidway
  <1>2. ASSUME Running(proc[p]), ~IsWriter(proc[p])
        PROVE  Midway(p) = {}
    <2>1. proc[p].pc # "copy" /\ ~proc[p].write
      BY <1>2, Bystander DEF NvramInv, ProcInv
    <2> QED
      BY <2>1 DEF Midway, At
  <1> QED
    BY <1>1, <1>2 DEF LeftMidway

\* /tmp is full.
LEMMA FullStep ==
  ASSUME NvramInv, NEW p \in Procs, to_staging_write_fails(p)
  PROVE  NvramInv'
  <1> DEFINE r == [proc[p] EXCEPT !.pc = "open"]
  <1>1. /\ proc' = [proc EXCEPT ![p] = r] /\ proc[p].pc = "copy"
        /\ LeftMidway(p) /\ path' = path /\ mishap'
    BY DEF to_staging_write_fails, At, Goto
  <1>2. /\ DOMAIN r = DOMAIN proc[p] /\ r.pc = "open"
        /\ r.args = proc[p].args /\ r.write = proc[p].write
    BY Moved
  <1> HIDE DEF r
  <1>3. ProcOK(r)
    BY <1>1, <1>2, GoesOn DEF Running
  <1>4. InodeInv'
    BY <1>1, Halfway
  <1> QED
    BY <1>1, <1>3, <1>4, Damaged

\* A process is killed.
LEMMA KillStep ==
  ASSUME NvramInv, NEW p \in Procs, kill(p)
  PROVE  NvramInv'
  <1>1. /\ proc' = [proc EXCEPT ![p] = Idle] /\ Running(proc[p])
        /\ UNCHANGED <<flash, path>> /\ LeftMidway(p) /\ clash' = clash \ {p}
        /\ mishap' = (mishap \/ Writes(proc[p].args))
    BY DEF kill, Running
  <1>2. ProcOK(Idle) /\ ~IsWriter(Idle)
    BY Resting
  <1>3. CASE mishap'
    <2>1. InodeInv'
      BY <1>1, Halfway
    <2> QED
      BY <1>1, <1>2, <1>3, <2>1, Damaged
  <1>4. CASE ~mishap'
    <2>1. ~mishap /\ ~IsWriter(proc[p]) /\ inode' = inode
      BY <1>1, <1>4, Halfway DEF IsWriter
    <2>2. proc[p].pc \notin {"copy", "write", "flashing"}
      BY <2>1, Stepping
    <2>3. LoneOK(Idle, flash, path)
      BY <1>2, Bystander
    <2>4. clash' = {} /\ FlashInv' /\ StagingInv'
      BY <1>1, <2>1, <2>2, Stepping, StillWhole
    <2>5. \A q \in Procs : proc'[q] = IF q = p THEN Idle ELSE proc[q]
      BY <1>1 DEF NvramInv, ProcInv
    <2>6. proc' = [q \in Procs |-> proc'[q]]
      BY <1>1 DEF NvramInv, ProcInv
    <2>7. ProcInv' /\ InodeInv'
      <3>1. InodeInv'
        BY <1>1, Halfway
      <3> QED
        BY <1>2, <2>5, <2>6, <3>1 DEF NvramInv, ProcInv
    <2>8. /\ \A q, s \in Procs : IsWriter(proc'[q]) /\ IsWriter(proc'[s]) => q = s
          /\ \A q \in Procs : LoneOK(proc'[q], flash', path')
      BY <1>1, <1>2, <2>1, <2>3, <2>5 DEF NvramInv, LoneInv
    <2>9. LoneInv'
      BY <2>4, <2>8 DEF LoneInv, IsWriter, Running, LoneOK, Sound, Readable, Empty, Torn
    <2> QED
      BY <2>7, <2>9 DEF NvramInv
  <1> QED
    BY <1>3, <1>4

\* The device restarts.
LEMMA RebootStep ==
  ASSUME NvramInv, reboot
  PROVE  NvramInv'
  <1>1. /\ proc' = [p \in Procs |-> Idle] /\ path' = 0 /\ clash' = {}
        /\ mishap' = (mishap \/ flash = Torn) /\ UNCHANGED <<flash, inode>>
    BY DEF reboot
  <1>2. ProcOK(Idle) /\ ~IsWriter(Idle)
    BY Resting
  <1>3. \A p \in Procs : proc'[p] = Idle
    BY <1>1
  <1>4. ProcInv'
    BY <1>1, <1>2, <1>3 DEF ProcInv
  <1>5. InodeInv'
    BY <1>1 DEF NvramInv, InodeInv
  <1>6. ASSUME ~mishap'
        PROVE  Sound(flash)
    <2>1. ~mishap /\ flash # Torn
      BY <1>1, <1>6
    <2>2. \A p \in Procs : proc[p].pc # "flashing"
      BY <2>1 DEF NvramInv, LoneInv, LoneOK
    <2> QED
      BY <2>1, <2>2 DEF NvramInv, LoneInv, FlashInv, At
  <1>7. ASSUME ~mishap'
        PROVE  FlashInv' /\ StagingInv'
    <2>1. FlashInv'
      BY <1>1, <1>6, <1>7 DEF FlashInv, Sound, Readable, Empty, Torn
    <2> QED
      BY <1>1, <2>1 DEF StagingInv
  <1>8. \A q \in Procs : ~IsWriter(proc'[q]) /\ LoneOK(proc'[q], flash', path')
    BY <1>2, <1>3, Bystander
  <1>9. LoneInv'
    BY <1>1, <1>7, <1>8 DEF LoneInv, IsWriter, Running, LoneOK, Sound, Readable, Empty, Torn
  <1> QED
    BY <1>4, <1>5, <1>9 DEF NvramInv

\* The invariant holds at first.
LEMMA NvramInit ==
  ASSUME Init
  PROVE  NvramInv
  <1>1. /\ proc = [p \in Procs |-> Idle] /\ path = 0 /\ clash = {} /\ inode = <<>>
    BY DEF Init
  <1>2. ProcOK(Idle) /\ ~IsWriter(Idle)
    BY Resting
  <1>3. \A p \in Procs : proc[p] = Idle
    BY <1>1
  <1>4. ProcInv
    BY <1>1, <1>2, <1>3 DEF ProcInv
  <1>5. InodeInv
    BY <1>1 DEF InodeInv
  <1>6. Sound(flash)
    BY WholeIsSound DEF Init
  <1>7. \A q \in Procs : ~IsWriter(proc[q]) /\ LoneOK(proc[q], flash, path)
    BY <1>2, <1>3, Bystander
  <1> QED
    BY <1>1, <1>4, <1>5, <1>6, <1>7 DEF NvramInv, LoneInv, FlashInv, StagingInv

-----------------------------------------------------------------------------
(***************************************************************************)
(* The theorems.                                                           *)
(***************************************************************************)

\* Whatever the processes, the command lines and the faults are: without a
\* mishap one writer at a time is in nvram_open_staging(), nvram_commit() or
\* staging_to_nvram(), its buffer is whole and its mapping is of the file
\* that has the name.
THEOREM NvramInvariant == Spec => []NvramInv
<1>1. Init => NvramInv
  BY NvramInit
<1>2. NvramInv /\ [Next]_vars => NvramInv'
  <2> SUFFICES ASSUME NvramInv, [Next]_vars
               PROVE  NvramInv'
    OBVIOUS
  <2>1. ASSUME NEW p \in Procs, NEW args \in Commands, main(p, args)
        PROVE  NvramInv'
    BY <2>1, StartStep
  <2>2. ASSUME NEW p \in Procs, Step(p)
        PROVE  NvramInv'
    BY <2>2, FindStep, ReadFlashStep, CreateStep, CopyStep, OpenStagingStep, OpenMtdStep,
       RehashStep, RunStep, ClearDiesStep, ClearStep, WriteStep, CloseStep,
       ReadStagingStep, EraseStep, FlashStep, UnlinkStep DEF Step
  <2>3. ASSUME NEW p \in Procs, to_staging_write_fails(p) \/ kill(p)
        PROVE  NvramInv'
    BY <2>3, FullStep, KillStep
  <2>4. CASE reboot
    BY <2>4, RebootStep
  <2>5. CASE UNCHANGED vars
    <3>1. UNCHANGED <<flash, path, inode, proc, clash, mishap>>
      BY <2>5 DEF vars
    <3> QED
      BY <3>1 DEF NvramInv, InodeInv, ProcInv, LoneInv, FlashInv, StagingInv, At
  <2> QED
    BY <2>1, <2>2, <2>3, <2>4, <2>5 DEF Next
<1> QED
  BY <1>1, <1>2, PTL DEF Spec

\* As long as no two writing commands overlap and no fault hits one, what
\* staging_to_nvram() leaves in flash and what nvram_commit() leaves in the
\* staging file are whole images, however many reading commands run beside.
THEOREM OnlyMishapsDamage == Spec => []DamageNeedsMishap
<1>1. NvramInv => DamageNeedsMishap
  BY DEF NvramInv, LoneInv, FlashInv, StagingInv, DamageNeedsMishap
<1> QED
  BY <1>1, NvramInvariant, PTL

-----------------------------------------------------------------------------
(***************************************************************************)
(* What the images hold.  The inductive invariant.                         *)
(***************************************************************************)

\* Contents with an image that keeps to the partition; those that are whole
\* have the length their tuples ask for.
ContentsOK(c) ==
  /\ c = [img |-> c.img, whole |-> c.whole, full |-> c.full]
  /\ c.whole \in BOOLEAN /\ c.full \in BOOLEAN
  /\ ImageOK(c.img)
  /\ c.whole => c.img.len = commit_len(UsedBytes(c.img))

FileOK(c) == c \in {Empty, Torn} \/ ContentsOK(c)

\* A process has a table without two entries of a name, and contents to write;
\* one that has mapped a staging file knows which; n is the number of files.
DataOK(r, n) ==
  /\ r.pc \in PCs /\ r.ino \in 0..n /\ FileOK(r.buf) /\ TableOK(r.table)
  /\ Running(r) => r.args \in Commands
  /\ \/ r.pc \in {"copy", "rehash"}
     \/ r.pc \in {"run", "clear", "write"} /\ r.write
     => r.ino # 0
  /\ r.pc \in {"create", "copy", "flash", "flashing"} => r.buf # Empty
  /\ r.pc = "write" => ContentsOK(r.buf)

FilesInv ==
  /\ flash # Empty /\ FileOK(flash)
  /\ \A i \in 1..Len(inode) : FileOK(inode[i])

WorkInv == \A p \in Procs : DataOK(proc[p], Len(inode))
HistInv ==
  clash \subseteq Procs /\ solo \subseteq Procs /\ mishap \in BOOLEAN /\ boots \in Nat

DataInv == FilesInv /\ WorkInv /\ HistInv

-----------------------------------------------------------------------------
(***************************************************************************)
(* Contents.                                                               *)
(***************************************************************************)

\* Contents are neither an empty file nor torn flash.
LEMMA ContentsAre ==
  ASSUME NEW c, ContentsOK(c)
  PROVE  c \notin {Empty, Torn} /\ FileOK(c)
  <1>1. "whole" \in DOMAIN c
    BY DEF ContentsOK
  <1>2. "whole" \notin DOMAIN Empty /\ "whole" \notin DOMAIN Torn
    BY DEF Empty, Torn
  <1> QED
    BY <1>1, <1>2 DEF FileOK

LEMMA EmptyIsNotTorn == Empty # Torn
  BY DEF Empty, Torn

\* What others see of contents that are being changed.
LEMMA CutsOK ==
  ASSUME NEW c, ContentsOK(c), NEW d \in Cuts(c)
  PROVE  ContentsOK(d)
  <1>1. PICK k \in 0..Len(c.img.tuples) : d = Cut(c, k)
    BY DEF Cuts
  <1>2. PICK img : img = [c.img EXCEPT !.tuples = SubSeq(@, 1, k)]
    OBVIOUS
  <1>3. ImageOK(img)
    BY <1>1, <1>2, CutKeeps DEF ContentsOK
  <1>4. d = [img |-> img, whole |-> FALSE, full |-> c.full] /\ c.full \in BOOLEAN
    BY <1>1, <1>2 DEF Cut, ContentsOK
  <1> QED
    BY <1>3, <1>4 DEF ContentsOK

\* What a full /tmp leaves of a copy.
LEMMA ShortsOK ==
  ASSUME NEW c, FileOK(c), c # Empty, NEW d \in Shorts(c)
  PROVE  ContentsOK(d)
  <1>1. ContentsOK(c)
    BY DEF Shorts, FileOK
  <1>2. PICK b \in Cuts(c) \cup {c} : d = [b EXCEPT !.full = FALSE]
    BY DEF Shorts
  <1>3. ContentsOK(b)
    BY <1>1, <1>2, CutsOK
  <1>4. d = [img |-> b.img, whole |-> b.whole, full |-> FALSE]
    <2>1. b = [img |-> b.img, whole |-> b.whole, full |-> b.full]
      BY <1>3 DEF ContentsOK
    <2> QED
      BY <1>2, <2>1
  <1> QED
    BY <1>3, <1>4 DEF ContentsOK

\* What a read can find, and what a process leaves.
LEMMA SeenOK ==
  ASSUME NEW i, NEW p, FileOK(inode[i]), NEW c \in Seen(i, p)
  PROVE  FileOK(c)
  <1>1. CASE inode[i] \in {Empty, Torn}
    BY <1>1 DEF Seen, FileOK
  <1>2. CASE inode[i] \notin {Empty, Torn}
    <2>1. ContentsOK(inode[i])
      BY <1>2 DEF FileOK
    <2>2. c \in Cuts(inode[i]) \/ c = inode[i]
      BY <1>2 DEF Seen
    <2>3. ContentsOK(c)
      BY <2>1, <2>2, CutsOK
    <2> QED
      BY <2>3 DEF FileOK
  <1> QED
    BY <1>1, <1>2

LEMMA SettledOK ==
  ASSUME NEW p, NEW d, ContentsOK(d), NEW c \in Settled(p, d)
  PROVE  ContentsOK(c)
  <1>1. c \in Cuts(d) \/ c = d
    BY DEF Settled
  <1> QED
    BY <1>1, CutsOK

\* What nvram_commit() writes.
LEMMA CommitOK ==
  ASSUME NEW t, TableOK(t)
  PROVE  ContentsOK(Whole(nvram_commit(t)))
  BY CommitWrites DEF Whole, ContentsOK

\* What nvram_open() makes of contents.
LEMMA Parsed ==
  ASSUME NEW c, ContentsOK(c)
  PROVE  /\ TableOK(nvram_rehash(c.img))
         /\ TableVars(nvram_rehash(c.img)) = Vars(c.img)
  <1>1. /\ c.img.tuples \in Seq(Tuples) /\ c.img.sdram \in [SdramNames -> Fields]
        /\ UsedBytes(c.img) <= DataEnd
    BY DEF ContentsOK, ImageOK
  <1> QED
    BY <1>1, RehashSays

-----------------------------------------------------------------------------
(***************************************************************************)
(* The arguments of a command line.                                        *)
(***************************************************************************)
Arguments == [op : STRING, name : Names, value : Values]

LEMMA CommandsAre ==
  ASSUME NEW args \in Commands
  PROVE  args \in Seq(Arguments) /\ Executed(args) \in Seq(Arguments)
  <1>1. args \in Seq(Arguments)
    BY NvramAssumption DEF NvramAssumption, Arguments
  <1>2. PICK I : I = {i \in 1..Len(args) : args[i].op = "bad"}
    OBVIOUS
  <1>3. PICK k : k = IF I # {} THEN Min(I) ELSE 0
    OBVIOUS
  <1>4. k = SelectInSeq(args, LAMBDA a : a.op = "bad")
    BY <1>2, <1>3 DEF SelectInSeq
  <1>5. k \in 0..Len(args) /\ Len(args) \in Nat
    <2>1. I \in SUBSET Nat
      BY <1>1, <1>2
    <2>2. I # {} => Min(I) \in I
      BY <2>1, Smallest
    <2> QED
      BY <1>1, <1>2, <1>3, <2>2
  <1>6. PICK m : m = IF k = 0 THEN Len(args) ELSE k - 1
    OBVIOUS
  <1>7. Executed(args) = SubSeq(args, 1, m)
    BY <1>4, <1>6 DEF Executed
  <1>8. m \in 0..Len(args)
    BY <1>5, <1>6
  <1> QED
    BY <1>1, <1>7, <1>8

Results == [t : Tables, stat : Int]

\* An argument keeps the table a table.
LEMMA ArgKeepsType ==
  ASSUME NEW r \in Results, NEW a \in Arguments
  PROVE  do_arg(r, a) \in Results
  <1>1. /\ r.t \in Tables /\ r.stat \in Int /\ TableOK(r.t)
        /\ a.name \in Names /\ a.value \in Values
    BY TablesAre DEF Results, Arguments
  <1>2. nvram_set(r.t, a.name, a.value) \in Tables /\ nvram_unset(r.t, a.name) \in Tables
    BY <1>1, SetChanges, UnsetRemoves, TablesAre
  <1>3. \A t \in Tables, x \in Int : [t |-> t, stat |-> x] \in Results
    BY DEF Results
  <1>4. CASE a.op = "set"
    BY <1>2, <1>3, <1>4 DEF do_arg
  <1>5. CASE a.op = "unset"
    BY <1>2, <1>3, <1>5 DEF do_arg
  <1>6. CASE a.op = "get"
    BY <1>1, <1>3, <1>6 DEF do_arg
  <1>7. CASE a.op \in {"show", "info"}
    BY <1>1, <1>3, <1>7 DEF do_arg
  <1>8. CASE a.op \notin {"set", "unset", "get", "show", "info"}
    BY <1>8 DEF do_arg
  <1> QED
    BY <1>4, <1>5, <1>6, <1>7, <1>8

\* The table and the status after the first arguments.
LEMMA ArgsTrace ==
  ASSUME NEW t, TableOK(t), NEW args \in Commands
  PROVE  \E F \in [0..Len(Executed(args)) -> Results] :
           /\ F[0] = [t |-> t, stat |-> 1] /\ F[Len(Executed(args))] = do_args(t, args)
           /\ \A n \in 1..Len(Executed(args)) : F[n] = do_arg(F[n - 1], Executed(args)[n])
  <1>1. PICK s : s = Executed(args)
    OBVIOUS
  <1>2. PICK base : base = [t |-> t, stat |-> 1]
    OBVIOUS
  <1>3. s \in Seq(Arguments) /\ base \in Results
    BY <1>1, <1>2, CommandsAre, TablesAre DEF Results
  <1>4. PICK step : /\ IsStep(step, Results, Arguments)
                    /\ \A a \in Results, e \in Arguments : step[<<a, e>>] = do_arg(a, e)
    <2>1. \A a \in Results, e \in Arguments : do_arg(a, e) \in Results
      BY ArgKeepsType
    <2> DEFINE f == [x \in Results \X Arguments |-> do_arg(x[1], x[2])]
    <2>2. f \in [Results \X Arguments -> Results]
      BY <2>1
    <2>3. \A a \in Results, e \in Arguments : f[<<a, e>>] = do_arg(a, e)
      OBVIOUS
    <2> HIDE DEF f
    <2> QED
      BY <2>2, <2>3 DEF IsStep
  <1> DEFINE Op(a, e) == do_arg(a, e)
             Def(it) == it = [x \in SUBSET DOMAIN s |->
                                IF x = {} THEN base
                                ELSE Op(it[x \ {Max(x)}], s[Max(x)])]
  <1>5. do_args(t, args) = (CHOOSE it : Def(it))[DOMAIN s]
    BY <1>1, <1>2 DEF do_args, FoldLeft, MapThenFoldSet
  <1>6. PICK it : it = CHOOSE g : Def(g)
    OBVIOUS
  <1>7. \A x \in SUBSET DOMAIN s : x # {} =>
          s[Max(x)] \in Arguments /\ x \ {Max(x)} \in SUBSET DOMAIN s
    BY <1>3, LastPart
  <1>8. \A a \in Results, e \in Arguments : step[<<a, e>>] = Op(a, e)
    BY <1>4
  <1> HIDE DEF Op
  <1>9. Def(it)
    <2>1. PICK g : /\ g = [x \in SUBSET DOMAIN s |-> g[x]]
                   /\ \A x \in SUBSET DOMAIN s : g[x] \in Results
                   /\ Iterates(g, step, Results, base, s)
      BY <1>3, <1>4, FoldExists
    <2>2. \A x \in SUBSET DOMAIN s : x # {} => g[x] = Op(g[x \ {Max(x)}], s[Max(x)])
      BY <1>7, <1>8, <2>1 DEF Iterates
    <2>3. Def(g)
      BY <2>1, <2>2 DEF Iterates
    <2> HIDE DEF Def
    <2> QED
      BY <1>6, <2>3
  <1>10. /\ it[{}] = base
         /\ \A x \in SUBSET DOMAIN s : x # {} => it[x] = Op(it[x \ {Max(x)}], s[Max(x)])
    BY <1>9
  <1>11. Iterates(it, step, Results, base, s)
    BY <1>7, <1>8, <1>10 DEF Iterates
  <1> HIDE DEF Def
  <1>12. PICK F : Trace(F, step, Results, base, s, it[DOMAIN s])
    BY <1>3, <1>4, <1>11, FoldTrace
  <1>13. \A n \in 1..Len(s) : n - 1 \in 0..Len(s) /\ s[n] \in Arguments
    BY <1>3
  <1>14. \A n \in 1..Len(s) : F[n] = Op(F[n - 1], s[n])
    BY <1>8, <1>12, <1>13 DEF Trace
  <1>15. /\ F \in [0..Len(s) -> Results] /\ F[0] = base
         /\ F[Len(s)] = do_args(t, args)
    BY <1>5, <1>6, <1>12 DEF Trace
  <1> QED
    BY <1>1, <1>2, <1>14, <1>15 DEF Op

LEMMA ArgsKeepTable ==
  ASSUME NEW t, TableOK(t), NEW args \in Commands
  PROVE  TableOK(do_args(t, args).t)
  <1>1. PICK F \in [0..Len(Executed(args)) -> Results] :
          F[Len(Executed(args))] = do_args(t, args)
    BY ArgsTrace
  <1>2. Len(Executed(args)) \in 0..Len(Executed(args))
    BY CommandsAre
  <1>3. do_args(t, args) \in Results
    BY <1>1, <1>2
  <1> QED
    BY <1>3, TablesAre DEF Results

-----------------------------------------------------------------------------
(***************************************************************************)
(* A step of one process.                                                  *)
(***************************************************************************)

\* The history says what it said of processes.
LEMMA HistStep ==
  ASSUME HistInv, [Next]_vars
  PROVE  HistInv'
  <1>1. \A k, p, S : Changing(k, p, S) \subseteq Procs
    BY DEF Changing
  <1>2. ASSUME NEW p \in Procs, NEW args, main(p, args)
        PROVE  HistInv'
    BY <1>2 DEF main, HistInv
  <1>3. ASSUME NEW p \in Procs, Step(p)
        PROVE  HistInv'
    <2>1. UNCHANGED <<solo, mishap, boots>>
      BY <1>3 DEF Step, nvram_find_staging, to_staging_read, to_staging_create,
         to_staging_write, nvram_open_staging, nvram_open_mtd, rehash, run_args,
         commit_clear_dies, commit_clear, commit_write, nvram_close,
         staging_to_nvram_read, flash_erase, flash_write, unlink_staging, histVars
    <2>2. CASE to_staging_write(p)
      BY <1>1, <2>1, <2>2 DEF to_staging_write, HistInv
    <2>3. CASE nvram_open_staging(p)
      BY <1>1, <2>1, <2>3 DEF nvram_open_staging, HistInv
    <2>4. CASE commit_clear(p)
      BY <1>1, <2>1, <2>4 DEF commit_clear, HistInv
    <2>5. CASE rehash(p) \/ commit_write(p)
      <3>1. clash' = clash \ {p}
        BY <2>5 DEF rehash, commit_write
      <3> QED
        BY <2>1, <3>1 DEF HistInv
    <2>6. CASE ~ \/ to_staging_write(p) \/ nvram_open_staging(p) \/ commit_clear(p)
                 \/ rehash(p) \/ commit_write(p)
      <3>1. clash' = clash
        BY <1>3, <2>6 DEF Step, nvram_find_staging, to_staging_read, to_staging_create,
           nvram_open_mtd, run_args, commit_clear_dies, nvram_close,
           staging_to_nvram_read, flash_erase, flash_write, unlink_staging
      <3> QED
        BY <2>1, <3>1 DEF HistInv
    <2> QED
      BY <2>2, <2>3, <2>4, <2>5, <2>6
  <1>4. ASSUME NEW p \in Procs, to_staging_write_fails(p)
        PROVE  HistInv'
    BY <1>4 DEF to_staging_write_fails, HistInv
  <1>5. ASSUME NEW p \in Procs, kill(p)
        PROVE  HistInv'
    <2>1. /\ clash' = clash \ {p} /\ UNCHANGED <<solo, boots>>
          /\ mishap' = (mishap \/ Writes(proc[p].args))
      BY <1>5 DEF kill
    <2> QED
      BY <2>1 DEF HistInv
  <1>6. CASE reboot
    BY <1>6 DEF reboot, HistInv
  <1>7. CASE UNCHANGED vars
    BY <1>7 DEF vars, HistInv
  <1> QED
    BY <1>2, <1>3, <1>4, <1>5, <1>6, <1>7 DEF Next

\* What is known of the staging files and of a process.
LEMMA Known ==
  ASSUME NvramInv, FilesInv, WorkInv, NEW p \in Procs
  PROVE  /\ Len(inode) \in Nat /\ inode = [k \in 1..Len(inode) |-> inode[k]]
         /\ DOMAIN inode = 1..Len(inode) /\ path \in 0..Len(inode)
         /\ DataOK(proc[p], Len(inode))
         /\ proc[p].ino # 0 => FileOK(inode[proc[p].ino])
         /\ path # 0 => FileOK(inode[path])
  <1>1. inode \in Seq(Range(inode)) /\ path \in 0..Len(inode)
    BY DEF NvramInv, InodeInv
  <1>2. /\ Len(inode) \in Nat /\ inode = [k \in 1..Len(inode) |-> inode[k]]
        /\ DOMAIN inode = 1..Len(inode)
    BY <1>1
  <1>3. DataOK(proc[p], Len(inode)) /\ proc[p].ino \in 0..Len(inode)
    BY DEF WorkInv, DataOK
  <1> QED
    BY <1>1, <1>2, <1>3 DEF FilesInv

\* A step of one process that keeps what is known.
LEMMA DataMoves ==
  ASSUME NvramInv, FilesInv, WorkInv, NEW p \in Procs, NEW r,
         proc' = [proc EXCEPT ![p] = r], Len(inode') \in Nat, Len(inode') >= Len(inode),
         DataOK(r, Len(inode')), FilesInv'
  PROVE  FilesInv' /\ WorkInv'
  <1>1. \A q \in Procs : proc'[q] = IF q = p THEN r ELSE proc[q]
    BY DEF NvramInv, ProcInv
  <1>2. ASSUME NEW q \in Procs
        PROVE  DataOK(proc[q], Len(inode'))
    <2>1. DataOK(proc[q], Len(inode)) /\ Len(inode) \in Nat
      BY Known
    <2>2. proc[q].ino \in 0..Len(inode')
      BY <2>1 DEF DataOK
    <2> QED
      BY <2>1, <2>2 DEF DataOK
  <1>3. \A q \in Procs : DataOK(proc'[q], Len(inode'))
    BY <1>1, <1>2
  <1> QED
    BY <1>3 DEF WorkInv

\* A step that leaves the files alone.
LEMMA DataQuietly ==
  ASSUME NvramInv, FilesInv, WorkInv, NEW p \in Procs, NEW r,
         proc' = [proc EXCEPT ![p] = r], UNCHANGED <<flash, inode>>, DataOK(r, Len(inode))
  PROVE  FilesInv' /\ WorkInv'
  <1>1. FilesInv'
    BY DEF FilesInv
  <1>2. Len(inode') \in Nat /\ Len(inode') >= Len(inode)
    <2>1. Len(inode) \in Nat /\ inode' = inode
      BY Known
    <2> QED
      BY <2>1
  <1>3. DataOK(r, Len(inode'))
    BY <1>2
  <1> QED
    BY <1>1, <1>2, <1>3, DataMoves

\* A step that rewrites one staging file.
LEMMA DataWritten ==
  ASSUME NvramInv, FilesInv, WorkInv, NEW p \in Procs, NEW r,
         proc' = [proc EXCEPT ![p] = r], NEW k \in 1..Len(inode), NEW c, FileOK(c),
         inode' = [inode EXCEPT ![k] = c], flash' = flash, DataOK(r, Len(inode))
  PROVE  FilesInv' /\ WorkInv'
  <1>1. /\ Len(inode) \in Nat /\ inode = [i \in 1..Len(inode) |-> inode[i]]
    BY Known
  <1>2. /\ inode' = [i \in 1..Len(inode) |-> inode'[i]]
        /\ \A i \in 1..Len(inode) : inode'[i] = IF i = k THEN c ELSE inode[i]
    BY <1>1
  <1>3. Len(inode') = Len(inode)
    <2>1. PICK n \in Nat : n = Len(inode)
      BY <1>1
    <2>2. PICK S : S = {inode'[i] : i \in 1..n}
      OBVIOUS
    <2>3. inode' \in [1..n -> S]
      BY <1>2, <2>1, <2>2
    <2> QED
      BY <2>1, <2>3, IsList
  <1>4. FilesInv'
    BY <1>2, <1>3 DEF FilesInv
  <1>5. Len(inode') \in Nat /\ Len(inode') >= Len(inode)
    BY <1>1, <1>3
  <1>6. DataOK(r, Len(inode'))
    BY <1>3
  <1> QED
    BY <1>4, <1>5, <1>6, DataMoves

\* A process that has ended or was never started.
LEMMA RestingOK ==
  ASSUME NEW n \in Nat
  PROVE  /\ DataOK(Idle, n)
         /\ \A p, stat :
              DataOK([Idle EXCEPT !.pc = "done", !.stat = stat, !.args = proc[p].args,
                                  !.write = proc[p].write], n)
         /\ \A args \in Commands : \A w :
              DataOK([Idle EXCEPT !.pc = "find", !.args = args, !.write = w], n)
  <1>1. TableOK(EmptyTable) /\ FileOK(Empty)
    BY EmptyOK DEF FileOK
  <1>2. ASSUME NEW r, r.pc \in {"idle", "done", "find"}, r.ino = 0, r.buf = Empty,
               r.table = EmptyTable, r.pc = "find" => r.args \in Commands
        PROVE  DataOK(r, n)
    BY <1>1, <1>2 DEF DataOK, PCs, Running
  <1>3. DataOK(Idle, n)
    <2>1. /\ Idle.pc = "idle" /\ Idle.ino = 0 /\ Idle.buf = Empty
          /\ Idle.table = EmptyTable
      BY DEF Idle
    <2> QED
      BY <1>2, <2>1
  <1>4. ASSUME NEW p, NEW stat, NEW r,
               r = [Idle EXCEPT !.pc = "done", !.stat = stat, !.args = proc[p].args,
                                !.write = proc[p].write]
        PROVE  DataOK(r, n)
    <2>1. r.pc = "done" /\ r.ino = 0 /\ r.buf = Empty /\ r.table = EmptyTable
      BY <1>4 DEF Idle
    <2> QED
      BY <1>2, <2>1
  <1>5. ASSUME NEW args \in Commands, NEW w, NEW r,
               r = [Idle EXCEPT !.pc = "find", !.args = args, !.write = w]
        PROVE  DataOK(r, n)
    <2>1. /\ r.pc = "find" /\ r.ino = 0 /\ r.buf = Empty /\ r.table = EmptyTable
          /\ r.args \in Commands
      BY <1>5 DEF Idle
    <2> QED
      BY <1>2, <2>1
  <1> QED
    BY <1>3, <1>4, <1>5

\* A process ends.
LEMMA DataEnded ==
  ASSUME NvramInv, FilesInv, WorkInv, NEW p \in Procs, NEW stat, Finish(p, stat),
         UNCHANGED <<flash, inode>>
  PROVE  FilesInv' /\ WorkInv'
  <1>1. PICK r : r = [Idle EXCEPT !.pc = "done", !.stat = stat, !.args = proc[p].args,
                                  !.write = proc[p].write]
    OBVIOUS
  <1>2. proc' = [proc EXCEPT ![p] = r]
    BY <1>1 DEF Finish
  <1>3. DataOK(r, Len(inode))
    BY <1>1, Known, RestingOK
  <1> QED
    BY <1>2, <1>3, DataQuietly

-----------------------------------------------------------------------------
(***************************************************************************)
(* The operations.                                                         *)
(***************************************************************************)

\* Looking for the staging file.
LEMMA DataFind ==
  ASSUME NvramInv, FilesInv, WorkInv, NEW p \in Procs, nvram_find_staging(p)
  PROVE  FilesInv' /\ WorkInv'
  <1> DEFINE c == IF path # 0 THEN "open"
                  ELSE IF proc[p].write THEN "to_staging" ELSE "open_mtd"
             r == [proc[p] EXCEPT !.pc = c]
  <1>1. /\ proc' = [proc EXCEPT ![p] = r] /\ proc[p].pc = "find"
        /\ UNCHANGED <<flash, inode>>
    BY DEF nvram_find_staging, Goto, At
  <1>2. /\ r.pc = c /\ r.ino = proc[p].ino /\ r.buf = proc[p].buf
        /\ r.args = proc[p].args /\ r.table = proc[p].table
    BY Moved
  <1> HIDE DEF r
  <1>3. r.pc \in {"open", "to_staging", "open_mtd"}
    BY <1>2
  <1>4. DataOK(r, Len(inode))
    BY <1>1, <1>2, <1>3, Known DEF DataOK, Running, PCs
  <1> QED
    BY <1>1, <1>4, DataQuietly

\* Reading flash to copy it.
LEMMA DataReadFlash ==
  ASSUME NvramInv, FilesInv, WorkInv, NEW p \in Procs, to_staging_read(p)
  PROVE  FilesInv' /\ WorkInv'
  <1> DEFINE r == [proc[p] EXCEPT !.buf = flash, !.pc = "create"]
  <1>1. /\ proc' = [proc EXCEPT ![p] = r] /\ proc[p].pc = "to_staging"
        /\ UNCHANGED <<flash, inode>>
    BY DEF to_staging_read, At
  <1>2. /\ r.pc = "create" /\ r.ino = proc[p].ino /\ r.buf = flash
        /\ r.args = proc[p].args /\ r.table = proc[p].table
    BY Moved
  <1> HIDE DEF r
  <1>3. DataOK(r, Len(inode))
    BY <1>1, <1>2, Known DEF DataOK, Running, PCs, FilesInv
  <1> QED
    BY <1>1, <1>3, DataQuietly

\* Opening flash.
LEMMA DataOpenMtd ==
  ASSUME NvramInv, FilesInv, WorkInv, NEW p \in Procs, nvram_open_mtd(p)
  PROVE  FilesInv' /\ WorkInv'
  <1>1. proc[p].pc = "open_mtd" /\ UNCHANGED <<flash, inode>>
    BY DEF nvram_open_mtd, At
  <1>2. CASE flash = Torn
    <2>1. Finish(p, 1)
      BY <1>2 DEF nvram_open_mtd
    <2> QED
      BY <1>1, <2>1, DataEnded
  <1>3. CASE flash # Torn
    <2> DEFINE r == [proc[p] EXCEPT !.table = nvram_rehash(flash.img), !.pc = "run"]
    <2>1. proc' = [proc EXCEPT ![p] = r]
      BY <1>3 DEF nvram_open_mtd
    <2>2. /\ r.pc = "run" /\ r.ino = proc[p].ino /\ r.buf = proc[p].buf
          /\ r.args = proc[p].args /\ r.write = proc[p].write
          /\ r.table = nvram_rehash(flash.img)
      BY Moved
    <2> HIDE DEF r
    <2>3. ContentsOK(flash)
      BY <1>3 DEF FilesInv, FileOK
    <2>4. TableOK(nvram_rehash(flash.img))
      BY <2>3, Parsed
    <2>5. ~r.write
      BY <1>1, <2>2, Stepping
    <2>6. DataOK(r, Len(inode))
      BY <1>1, <2>2, <2>4, <2>5, Known DEF DataOK, Running, PCs
    <2> QED
      BY <1>1, <2>1, <2>6, DataQuietly
  <1> QED
    BY <1>2, <1>3

\* Creating the staging file.
LEMMA DataCreate ==
  ASSUME NvramInv, FilesInv, WorkInv, NEW p \in Procs, to_staging_create(p)
  PROVE  FilesInv' /\ WorkInv'
  <1> DEFINE r == [proc[p] EXCEPT !.ino = path', !.pc = "copy"]
  <1>1. proc' = [proc EXCEPT ![p] = r] /\ proc[p].pc = "create" /\ flash' = flash
    BY DEF to_staging_create, At
  <1>2. /\ r.pc = "copy" /\ r.ino = path' /\ r.buf = proc[p].buf
        /\ r.args = proc[p].args /\ r.table = proc[p].table
    <2>1. PICK k : k = path'
      OBVIOUS
    <2>2. r = [proc[p] EXCEPT !.ino = k, !.pc = "copy"]
      BY <2>1
    <2> HIDE DEF r
    <2> QED
      BY <2>1, <2>2, Moved
  <1> HIDE DEF r
  <1>3. \A n \in Nat : n >= Len(inode) /\ path' \in 1..n => DataOK(r, n)
    <2>1. DataOK(proc[p], Len(inode))
      BY Known
    <2> QED
      BY <1>1, <1>2, <2>1 DEF DataOK, Running, PCs
  <1>4. CASE path # 0
    <2>1. path' = path /\ inode' = inode
      BY <1>4 DEF to_staging_create
    <2>2. DataOK(r, Len(inode))
      BY <1>3, <1>4, <2>1, Known
    <2> QED
      BY <1>1, <2>1, <2>2, DataQuietly
  <1>5. CASE path = 0
    <2>1. path' = Len(inode) + 1 /\ inode' = Append(inode, Empty)
      BY <1>5 DEF to_staging_create
    <2>2. Len(inode') = Len(inode) + 1 /\ Len(inode) \in Nat
      BY <2>1, Created DEF NvramInv, InodeInv
    <2>3. Len(inode') \in Nat /\ Len(inode') >= Len(inode) /\ path' \in 1..Len(inode')
      BY <2>1, <2>2
    <2>4. DataOK(r, Len(inode'))
      BY <1>3, <2>3
    <2>5. \A i \in 1..Len(inode') :
            inode'[i] = IF i = Len(inode) + 1 THEN Empty ELSE inode[i]
      BY <2>1, <2>2 DEF NvramInv, InodeInv
    <2>6. ASSUME NEW i \in 1..Len(inode')
          PROVE  FileOK(inode'[i])
      <3>1. i = Len(inode) + 1 \/ i \in 1..Len(inode)
        BY <2>2
      <3> QED
        BY <2>5, <3>1 DEF FilesInv, FileOK
    <2>7. FilesInv'
      BY <1>1, <2>6 DEF FilesInv
    <2> QED
      BY <1>1, <2>3, <2>4, <2>7, DataMoves
  <1> QED
    BY <1>4, <1>5

\* A process that stops in the middle of a change to the staging file.
LEMMA DataHalfway ==
  ASSUME NvramInv, FilesInv, WorkInv, NEW p \in Procs, NEW r,
         proc' = [proc EXCEPT ![p] = r], LeftMidway(p), flash' = flash,
         DataOK(r, Len(inode))
  PROVE  FilesInv' /\ WorkInv'
  <1>1. CASE UNCHANGED inode
    BY <1>1, DataQuietly
  <1>2. CASE \E c \in Midway(p) : inode' = [inode EXCEPT ![proc[p].ino] = c]
    <2>1. PICK k : k = proc[p].ino
      OBVIOUS
    <2>2. PICK c \in Midway(p) : inode' = [inode EXCEPT ![k] = c]
      BY <1>2, <2>1
    <2>3. DataOK(proc[p], Len(inode))
      BY Known
    <2>4. proc[p].pc \in {"copy", "rehash"}
      BY <2>2 DEF Midway, At
    <2>5. k \in 1..Len(inode) /\ FileOK(inode[k])
      BY <2>1, <2>3, <2>4, Known DEF DataOK
    <2>6. CASE proc[p].pc = "copy"
      <3>1. FileOK(proc[p].buf) /\ proc[p].buf # Empty
        BY <2>3, <2>6 DEF DataOK
      <3>2. c \in Shorts(proc[p].buf)
        BY <2>2, <2>6 DEF Midway, At
      <3>3. FileOK(c)
        BY <3>1, <3>2, ShortsOK DEF FileOK
      <3> QED
        BY <2>2, <2>5, <3>3, DataWritten
    <2>7. CASE proc[p].pc = "rehash"
      <3>1. inode[k] \notin {Empty, Torn} /\ c \in Cuts(inode[k])
        BY <2>1, <2>2, <2>7 DEF Midway, At
      <3>2. FileOK(c)
        BY <2>5, <3>1, CutsOK DEF FileOK
      <3> QED
        BY <2>2, <2>5, <3>2, DataWritten
    <2> QED
      BY <2>4, <2>6, <2>7
  <1> QED
    BY <1>1, <1>2 DEF LeftMidway

\* Copying flash to the staging file, and failing to.
LEMMA DataCopy ==
  ASSUME NvramInv, FilesInv, WorkInv, NEW p \in Procs,
         to_staging_write(p) \/ to_staging_write_fails(p)
  PROVE  FilesInv' /\ WorkInv'
  <1> DEFINE r == [proc[p] EXCEPT !.pc = "open"]
  <1>1. proc' = [proc EXCEPT ![p] = r] /\ proc[p].pc = "copy" /\ flash' = flash
    BY DEF to_staging_write, to_staging_write_fails, At, Goto
  <1>2. /\ r.pc = "open" /\ r.ino = proc[p].ino /\ r.buf = proc[p].buf
        /\ r.args = proc[p].args /\ r.table = proc[p].table
    BY Moved
  <1> HIDE DEF r
  <1>3. DataOK(r, Len(inode))
    BY <1>1, <1>2, Known DEF DataOK, Running, PCs
  <1>4. CASE to_staging_write(p)
    <2>1. PICK k : k = proc[p].ino
      OBVIOUS
    <2>2. PICK c : c = proc[p].buf
      OBVIOUS
    <2>3. inode' = [inode EXCEPT ![k] = c]
      BY <1>4, <2>1, <2>2 DEF to_staging_write
    <2>4. k \in 1..Len(inode) /\ FileOK(c)
      BY <1>1, <2>1, <2>2, Known DEF DataOK
    <2> QED
      BY <1>1, <1>3, <2>3, <2>4, DataWritten
  <1>5. CASE to_staging_write_fails(p)
    <2>1. LeftMidway(p)
      BY <1>5 DEF to_staging_write_fails
    <2> QED
      BY <1>1, <1>3, <2>1, DataHalfway
  <1> QED
    BY <1>4, <1>5

\* Opening and mapping the staging file.
LEMMA DataOpenStaging ==
  ASSUME NvramInv, FilesInv, WorkInv, NEW p \in Procs, nvram_open_staging(p)
  PROVE  FilesInv' /\ WorkInv'
  <1>1. proc[p].pc = "open" /\ UNCHANGED <<flash, inode>>
    BY DEF nvram_open_staging, At
  <1> DEFINE found == IF path = 0 THEN Torn ELSE inode[path]
             r == [proc[p] EXCEPT !.ino = path, !.pc = "rehash"]
  <1>2. ASSUME NEW stat, Finish(p, stat)
        PROVE  FilesInv' /\ WorkInv'
    BY <1>1, <1>2, DataEnded
  <1>3. ASSUME found \notin {Empty, Torn}, proc' = [proc EXCEPT ![p] = r]
        PROVE  FilesInv' /\ WorkInv'
    <2>1. path # 0
      BY <1>3
    <2>2. /\ r.pc = "rehash" /\ r.ino = path /\ r.buf = proc[p].buf
          /\ r.args = proc[p].args /\ r.table = proc[p].table
      BY Moved
    <2> HIDE DEF r
    <2>3. DataOK(r, Len(inode))
      BY <1>1, <2>1, <2>2, Known DEF DataOK, Running, PCs
    <2> QED
      BY <1>1, <1>3, <2>3, DataQuietly
  <1>4. \/ \E stat \in {1, SIGBUS} : Finish(p, stat)
        \/ found \notin {Empty, Torn} /\ proc' = [proc EXCEPT ![p] = r]
    BY DEF nvram_open_staging
  <1> QED
    BY <1>2, <1>3, <1>4

\* Parsing the staging file.
LEMMA DataRehash ==
  ASSUME NvramInv, FilesInv, WorkInv, NEW p \in Procs, rehash(p)
  PROVE  FilesInv' /\ WorkInv'
  <1>1. proc[p].pc = "rehash" /\ flash' = flash
    BY DEF rehash, At
  <1>2. PICK k : k = proc[p].ino
    OBVIOUS
  <1>3. k \in 1..Len(inode) /\ FileOK(inode[k]) /\ Len(inode) \in Nat
    BY <1>1, <1>2, Known DEF DataOK
  <1>4. PICK r : proc' = [proc EXCEPT ![p] = r] /\ DataOK(r, Len(inode))
    <2>1. PICK c \in Seen(k, p) :
            \/ /\ c \notin {Empty, Torn}
               /\ proc' = [proc EXCEPT ![p].table = nvram_rehash(c.img), ![p].pc = "run"]
            \/ Finish(p, SIGBUS)
      BY <1>2 DEF rehash
    <2>2. CASE Finish(p, SIGBUS)
      <3>1. PICK r : r = [Idle EXCEPT !.pc = "done", !.stat = SIGBUS,
                                      !.args = proc[p].args, !.write = proc[p].write]
        OBVIOUS
      <3>2. proc' = [proc EXCEPT ![p] = r]
        BY <2>2, <3>1 DEF Finish
      <3>3. DataOK(r, Len(inode))
        BY <1>3, <3>1, RestingOK
      <3> QED
        BY <3>2, <3>3
    <2>3. CASE /\ c \notin {Empty, Torn}
               /\ proc' = [proc EXCEPT ![p].table = nvram_rehash(c.img), ![p].pc = "run"]
      <3> DEFINE r == [proc[p] EXCEPT !.table = nvram_rehash(c.img), !.pc = "run"]
      <3>1. proc' = [proc EXCEPT ![p] = r]
        BY <2>3
      <3>2. /\ r.pc = "run" /\ r.ino = proc[p].ino /\ r.buf = proc[p].buf
            /\ r.args = proc[p].args /\ r.table = nvram_rehash(c.img)
        BY Moved
      <3> HIDE DEF r
      <3>3. ContentsOK(c)
        BY <1>3, <2>3, SeenOK DEF FileOK
      <3>4. TableOK(nvram_rehash(c.img))
        BY <3>3, Parsed
      <3>5. DataOK(r, Len(inode))
        BY <1>1, <3>2, <3>4, Known DEF DataOK, Running, PCs
      <3> QED
        BY <3>1, <3>5
    <2> QED
      BY <2>1, <2>2, <2>3
  <1>5. CASE inode[k] \in {Empty, Torn}
    <2>1. inode' = inode
      BY <1>2, <1>5 DEF rehash
    <2> QED
      BY <1>1, <1>4, <2>1, DataQuietly
  <1>6. CASE inode[k] \notin {Empty, Torn}
    <2>1. PICK c \in Settled(p, inode[k]) : inode' = [inode EXCEPT ![k] = c]
      BY <1>2, <1>6 DEF rehash
    <2>2. ContentsOK(inode[k])
      BY <1>3, <1>6 DEF FileOK
    <2>3. FileOK(c)
      BY <2>2, SettledOK DEF FileOK
    <2> QED
      BY <1>1, <1>3, <1>4, <2>1, <2>3, DataWritten
  <1> QED
    BY <1>5, <1>6

\* Executing the arguments.
LEMMA DataRun ==
  ASSUME NvramInv, FilesInv, WorkInv, NEW p \in Procs, run_args(p)
  PROVE  FilesInv' /\ WorkInv'
  <1> DEFINE d == do_args(proc[p].table, proc[p].args)
             c == IF proc[p].write THEN "clear" ELSE "close"
             r == [proc[p] EXCEPT !.table = d.t, !.stat = d.stat, !.pc = c]
  <1>1. /\ proc' = [proc EXCEPT ![p] = r] /\ proc[p].pc = "run"
        /\ UNCHANGED <<flash, inode>>
    BY DEF run_args, At
  <1>2. DataOK(proc[p], Len(inode))
    BY Known
  <1>3. TableOK(proc[p].table) /\ proc[p].args \in Commands
    BY <1>1, <1>2 DEF DataOK, Running
  <1>4. TableOK(d.t)
    BY <1>3, ArgsKeepTable
  <1> HIDE DEF d
  <1>5. /\ r.pc = c /\ r.ino = proc[p].ino /\ r.args = proc[p].args
        /\ r.write = proc[p].write /\ r.buf = proc[p].buf /\ r.table = d.t
    BY Moved
  <1> HIDE DEF r
  <1>6. DataOK(r, Len(inode))
    BY <1>1, <1>2, <1>4, <1>5 DEF DataOK, Running, PCs
  <1> QED
    BY <1>1, <1>6, DataQuietly

\* Clearing a mapping that is longer than the file.
LEMMA DataClearDies ==
  ASSUME NvramInv, FilesInv, WorkInv, NEW p \in Procs, commit_clear_dies(p)
  PROVE  FilesInv' /\ WorkInv'
  <1>1. PICK r : r = [Idle EXCEPT !.pc = "done", !.stat = SIGBUS, !.args = proc[p].args,
                                  !.write = proc[p].write]
    OBVIOUS
  <1>2. PICK k : k = proc[p].ino
    OBVIOUS
  <1>3. /\ proc' = [proc EXCEPT ![p] = r] /\ proc[p].pc = "clear" /\ flash' = flash
        /\ inode' = [inode EXCEPT ![k] = Empty]
    BY <1>1, <1>2 DEF commit_clear_dies, At, Finish
  <1>4. proc[p].write
    BY <1>3, Stepping
  <1>5. k \in 1..Len(inode)
    BY <1>2, <1>3, <1>4, Known DEF DataOK
  <1>6. FileOK(Empty) /\ DataOK(r, Len(inode))
    BY <1>1, Known, RestingOK DEF FileOK
  <1> QED
    BY <1>3, <1>5, <1>6, DataWritten

\* Clearing the mapping before the tuples are written.
LEMMA DataClear ==
  ASSUME NvramInv, FilesInv, WorkInv, NEW p \in Procs, commit_clear(p)
  PROVE  FilesInv' /\ WorkInv'
  <1>1. PICK new : new = nvram_commit(proc[p].table)
    OBVIOUS
  <1>2. PICK k : k = proc[p].ino
    OBVIOUS
  <1>3. PICK len : len = IF inode[k] = Torn THEN new.len ELSE inode[k].img.len
    OBVIOUS
  <1>4. PICK img : img = [new EXCEPT !.len = len]
    OBVIOUS
  <1>5. PICK half \in Cuts(Whole(img)) : inode' = [inode EXCEPT ![k] = half]
    BY <1>1, <1>2, <1>3, <1>4 DEF commit_clear
  <1>6. /\ proc[p].pc = "clear" /\ flash' = flash
        /\ proc' = [proc EXCEPT ![p].buf = Whole(new), ![p].pc = "write"]
    BY <1>1 DEF commit_clear, At
  <1>7. DataOK(proc[p], Len(inode))
    BY Known
  <1>8. proc[p].write
    BY <1>6, Stepping
  <1>9. k \in 1..Len(inode) /\ FileOK(inode[k]) /\ TableOK(proc[p].table)
    BY <1>2, <1>6, <1>7, <1>8, Known DEF DataOK
  <1>10. ImageOK(new) /\ ContentsOK(Whole(new))
    BY <1>1, <1>9, CommitOK, CommitWrites
  <1>11. len \in Nat /\ len <= Space
    <2>1. inode[k] # Empty
      BY <1>2 DEF commit_clear, Short, Empty, Torn
    <2>2. CASE inode[k] = Torn
      BY <1>3, <1>10, <2>2 DEF ImageOK
    <2>3. CASE inode[k] # Torn
      BY <1>3, <1>9, <2>1, <2>3 DEF FileOK, ContentsOK, ImageOK
    <2> QED
      BY <2>2, <2>3
  <1>12. ImageOK(img)
    <2>1. /\ img \in [tuples : Seq(Tuples), len : Nat, sdram : [SdramNames -> Fields]]
          /\ img.tuples = new.tuples /\ img.len = len
      BY <1>4, <1>10, <1>11 DEF ImageOK
    <2>2. UsedBytes(img) = UsedBytes(new) /\ UniqueNames(img)
      BY <1>10, <2>1 DEF UsedBytes, UniqueNames, ImageOK
    <2> QED
      BY <1>10, <1>11, <2>1, <2>2 DEF ImageOK
  <1>13. FileOK(half)
    <2>1. PICK j \in 0..Len(img.tuples) : half = Cut(Whole(img), j)
      BY <1>5 DEF Cuts, Whole
    <2>2. PICK h : h = [img EXCEPT !.tuples = SubSeq(@, 1, j)]
      OBVIOUS
    <2>3. ImageOK(h)
      BY <1>12, <2>2, CutKeeps
    <2>4. half = [img |-> h, whole |-> FALSE, full |-> TRUE]
      BY <2>1, <2>2 DEF Cut, Whole
    <2> QED
      BY <2>3, <2>4 DEF FileOK, ContentsOK
  <1> DEFINE r == [proc[p] EXCEPT !.buf = Whole(new), !.pc = "write"]
  <1>14. proc' = [proc EXCEPT ![p] = r]
    BY <1>6
  <1>15. /\ r.pc = "write" /\ r.ino = proc[p].ino /\ r.buf = Whole(new)
         /\ r.args = proc[p].args /\ r.table = proc[p].table
    BY Moved
  <1> HIDE DEF r
  <1>16. DataOK(r, Len(inode))
    BY <1>2, <1>6, <1>7, <1>9, <1>10, <1>15 DEF DataOK, Running, PCs, FileOK
  <1> QED
    BY <1>5, <1>6, <1>9, <1>13, <1>14, <1>16, DataWritten

\* Writing the tuples.
LEMMA DataWrite ==
  ASSUME NvramInv, FilesInv, WorkInv, NEW p \in Procs, commit_write(p)
  PROVE  FilesInv' /\ WorkInv'
  <1>1. /\ proc[p].pc = "write" /\ flash' = flash
        /\ proc' = [proc EXCEPT ![p].pc = "close", ![p].stat = 0,
                                ![p].table = EmptyTable, ![p].buf = Empty]
    BY DEF commit_write, At
  <1>2. PICK k : k = proc[p].ino
    OBVIOUS
  <1>3. PICK c \in Settled(p, proc[p].buf) : inode' = [inode EXCEPT ![k] = c]
    BY <1>2 DEF commit_write
  <1>4. proc[p].write
    BY <1>1, Stepping
  <1>5. k \in 1..Len(inode) /\ ContentsOK(proc[p].buf)
    BY <1>1, <1>2, <1>4, Known DEF DataOK
  <1>6. FileOK(c)
    BY <1>5, SettledOK DEF FileOK
  <1> DEFINE r == [proc[p] EXCEPT !.pc = "close", !.stat = 0, !.table = EmptyTable,
                                  !.buf = Empty]
  <1>7. proc' = [proc EXCEPT ![p] = r]
    BY <1>1
  <1>8. /\ r.pc = "close" /\ r.ino = proc[p].ino /\ r.buf = Empty
        /\ r.args = proc[p].args /\ r.table = EmptyTable
    BY Moved
  <1> HIDE DEF r
  <1>9. TableOK(EmptyTable) /\ FileOK(Empty)
    BY EmptyOK DEF FileOK
  <1>10. DataOK(r, Len(inode))
    BY <1>1, <1>8, <1>9, Known DEF DataOK, Running, PCs
  <1> QED
    BY <1>1, <1>3, <1>5, <1>6, <1>7, <1>10, DataWritten

\* A process goes on elsewhere with what it has.
LEMMA DataOnly ==
  ASSUME NvramInv, FilesInv, WorkInv, NEW p \in Procs, Running(proc[p]), NEW c,
         Goto(p, c), c \in {"read", "flashing", "unlink"}, UNCHANGED inode,
         c = "flashing" => proc[p].pc = "flash", flash' # Empty, FileOK(flash')
  PROVE  FilesInv' /\ WorkInv'
  <1> DEFINE r == [proc[p] EXCEPT !.pc = c]
  <1>1. proc' = [proc EXCEPT ![p] = r]
    BY DEF Goto
  <1>2. /\ r.pc = c /\ r.ino = proc[p].ino /\ r.buf = proc[p].buf
        /\ r.args = proc[p].args /\ r.table = proc[p].table
    BY Moved
  <1> HIDE DEF r
  <1>3. DataOK(r, Len(inode))
    BY <1>2, Known DEF DataOK, Running, PCs
  <1>4. Len(inode') \in Nat /\ Len(inode') >= Len(inode)
    BY Known
  <1>5. FilesInv'
    BY DEF FilesInv
  <1> QED
    BY <1>1, <1>3, <1>4, <1>5, DataMoves

\* Closing, and going on to the copy to flash.
LEMMA DataClose ==
  ASSUME NvramInv, FilesInv, WorkInv, NEW p \in Procs, nvram_close(p)
  PROVE  FilesInv' /\ WorkInv'
  <1>1. proc[p].pc = "close" /\ UNCHANGED <<flash, inode>>
    BY DEF nvram_close, At
  <1>2. CASE Commits(proc[p].args)
    <2>1. Goto(p, "read")
      BY <1>2 DEF nvram_close
    <2>2. flash' # Empty /\ FileOK(flash')
      BY <1>1 DEF FilesInv
    <2> QED
      BY <1>1, <2>1, <2>2, DataOnly DEF Running
  <1>3. CASE ~Commits(proc[p].args)
    <2>1. Finish(p, IF Done(proc[p].args) THEN proc[p].stat ELSE 1)
      BY <1>3 DEF nvram_close
    <2> QED
      BY <1>1, <2>1, DataEnded
  <1> QED
    BY <1>2, <1>3

\* Reading the staging file to copy it to flash.
LEMMA DataReadStaging ==
  ASSUME NvramInv, FilesInv, WorkInv, NEW p \in Procs, staging_to_nvram_read(p)
  PROVE  FilesInv' /\ WorkInv'
  <1>1. proc[p].pc = "read" /\ UNCHANGED <<flash, inode>>
    BY DEF staging_to_nvram_read, At
  <1>2. ASSUME NEW stat, Finish(p, stat)
        PROVE  FilesInv' /\ WorkInv'
    BY <1>1, <1>2, DataEnded
  <1>3. ASSUME path # 0, NEW b \in Seen(path, p), ~Short(b),
               proc' = [proc EXCEPT ![p].buf = b, ![p].pc = "flash"]
        PROVE  FilesInv' /\ WorkInv'
    <2> DEFINE r == [proc[p] EXCEPT !.buf = b, !.pc = "flash"]
    <2>1. proc' = [proc EXCEPT ![p] = r]
      BY <1>3
    <2>2. /\ r.pc = "flash" /\ r.ino = proc[p].ino /\ r.buf = b
          /\ r.args = proc[p].args /\ r.table = proc[p].table
      BY Moved
    <2> HIDE DEF r
    <2>3. FileOK(b) /\ b # Empty
      BY <1>3, Known, SeenOK, EmptyIsNotTorn DEF Short
    <2>4. DataOK(r, Len(inode))
      BY <1>1, <2>2, <2>3, Known DEF DataOK, Running, PCs
    <2> QED
      BY <1>1, <2>1, <2>4, DataQuietly
  <1> QED
    BY <1>2, <1>3 DEF staging_to_nvram_read

\* Erasing flash, and writing it.
LEMMA DataErase ==
  ASSUME NvramInv, FilesInv, WorkInv, NEW p \in Procs, flash_erase(p)
  PROVE  FilesInv' /\ WorkInv'
  <1>1. /\ proc[p].pc = "flash" /\ UNCHANGED inode /\ flash' = Torn
        /\ Goto(p, "flashing")
    BY DEF flash_erase, At
  <1>2. flash' # Empty /\ FileOK(flash')
    BY <1>1, EmptyIsNotTorn DEF FileOK
  <1> QED
    BY <1>1, <1>2, DataOnly DEF Running

LEMMA DataFlash ==
  ASSUME NvramInv, FilesInv, WorkInv, NEW p \in Procs, flash_write(p)
  PROVE  FilesInv' /\ WorkInv'
  <1>1. /\ proc[p].pc = "flashing" /\ UNCHANGED inode /\ Goto(p, "unlink")
        /\ flash' \in {Torn, proc[p].buf}
    BY DEF flash_write, At
  <1>2. flash' # Empty /\ FileOK(flash')
    BY <1>1, Known, EmptyIsNotTorn DEF DataOK, FileOK
  <1> QED
    BY <1>1, <1>2, DataOnly DEF Running

\* Removing the staging file.
LEMMA DataUnlink ==
  ASSUME NvramInv, FilesInv, WorkInv, NEW p \in Procs, unlink_staging(p)
  PROVE  FilesInv' /\ WorkInv'
  <1>1. PICK stat : Finish(p, stat) /\ UNCHANGED <<flash, inode>>
    BY DEF unlink_staging
  <1> QED
    BY <1>1, DataEnded

\* A command is started, a process is killed, the device restarts.
LEMMA DataStart ==
  ASSUME NvramInv, FilesInv, WorkInv, NEW p \in Procs, NEW args \in Commands,
         main(p, args)
  PROVE  FilesInv' /\ WorkInv'
  <1>1. PICK w : w = expect_write(args)
    OBVIOUS
  <1>2. PICK r : r = [Idle EXCEPT !.pc = "find", !.args = args, !.write = w]
    OBVIOUS
  <1>3. proc' = [proc EXCEPT ![p] = r] /\ UNCHANGED <<flash, inode>>
    BY <1>1, <1>2 DEF main
  <1>4. DataOK(r, Len(inode))
    BY <1>2, Known, RestingOK
  <1> QED
    BY <1>3, <1>4, DataQuietly

LEMMA DataKill ==
  ASSUME NvramInv, FilesInv, WorkInv, NEW p \in Procs, kill(p)
  PROVE  FilesInv' /\ WorkInv'
  <1>1. proc' = [proc EXCEPT ![p] = Idle] /\ flash' = flash /\ LeftMidway(p)
    BY DEF kill
  <1>2. DataOK(Idle, Len(inode))
    BY Known, RestingOK
  <1> QED
    BY <1>1, <1>2, DataHalfway

LEMMA DataReboot ==
  ASSUME NvramInv, FilesInv, WorkInv, reboot
  PROVE  FilesInv' /\ WorkInv'
  <1>1. proc' = [p \in Procs |-> Idle] /\ UNCHANGED <<flash, inode>>
    BY DEF reboot
  <1>2. Len(inode') \in Nat
    BY <1>1 DEF NvramInv, InodeInv
  <1>3. \A p \in Procs : DataOK(proc'[p], Len(inode'))
    BY <1>1, <1>2, RestingOK
  <1>4. FilesInv'
    BY <1>1 DEF FilesInv
  <1> QED
    BY <1>3, <1>4 DEF WorkInv

\* The images the bootloader leaves keep to the partition.
LEMMA DataInit ==
  ASSUME Init
  PROVE  DataInv
  <1>1. PICK img \in Images : flash = Whole(img)
    BY DEF Init
  <1>2. /\ proc = [p \in Procs |-> Idle] /\ clash = {} /\ solo = {} /\ mishap = FALSE
        /\ inode = <<>> /\ boots = 0
    BY DEF Init
  <1>3. /\ img \in [tuples : Seq(Tuples), len : Nat, sdram : [SdramNames -> Fields]]
        /\ UniqueNames(img) /\ UsedBytes(img) <= DataEnd
        /\ img.len = commit_len(UsedBytes(img))
    BY NvramAssumption DEF NvramAssumption, Tuples
  <1>4. UsedBytes(img) \in Nat
    BY <1>3, UsedPrefix
  <1>5. img.len <= Space
    BY <1>3, <1>4, LenFits
  <1>6. ContentsOK(flash)
    BY <1>1, <1>3, <1>5 DEF Whole, ContentsOK, ImageOK
  <1>7. FilesInv
    BY <1>2, <1>6, ContentsAre DEF FilesInv
  <1>8. WorkInv
    BY <1>2, RestingOK DEF WorkInv
  <1> QED
    BY <1>2, <1>7, <1>8 DEF DataInv, HistInv

-----------------------------------------------------------------------------
(***************************************************************************)
(* The theorems.                                                           *)
(***************************************************************************)

\* Whatever the processes, the command lines and the faults are, the files
\* hold images that keep to the partition and name no variable twice, and
\* every process has a table of such variables.
THEOREM DataInvariant == Spec => []DataInv
<1>1. Init => DataInv
  BY DataInit
<1>2. NvramInv /\ DataInv /\ [Next]_vars => DataInv'
  <2> SUFFICES ASSUME NvramInv, FilesInv, WorkInv, HistInv, [Next]_vars
               PROVE  FilesInv' /\ WorkInv'
    BY HistStep DEF DataInv
  <2>1. ASSUME NEW p \in Procs, NEW args \in Commands, main(p, args)
        PROVE  FilesInv' /\ WorkInv'
    BY <2>1, DataStart
  <2>2. ASSUME NEW p \in Procs, Step(p)
        PROVE  FilesInv' /\ WorkInv'
    BY <2>2, DataFind, DataReadFlash, DataCreate, DataCopy, DataOpenStaging, DataOpenMtd,
       DataRehash, DataRun, DataClearDies, DataClear, DataWrite, DataClose,
       DataReadStaging, DataErase, DataFlash, DataUnlink DEF Step
  <2>3. ASSUME NEW p \in Procs, to_staging_write_fails(p) \/ kill(p)
        PROVE  FilesInv' /\ WorkInv'
    BY <2>3, DataCopy, DataKill
  <2>4. CASE reboot
    BY <2>4, DataReboot
  <2>5. CASE UNCHANGED vars
    BY <2>5 DEF vars, FilesInv, WorkInv
  <2> QED
    BY <2>1, <2>2, <2>3, <2>4, <2>5 DEF Next
<1> QED
  BY <1>1, <1>2, NvramInvariant, PTL DEF Spec

\* What flash or a staging file holds, if it is neither empty nor torn.
LEMMA Held ==
  ASSUME NvramInv, DataInv, NEW c \in Contained \ {Empty, Torn}
  PROVE  ContentsOK(c)
  <1>1. DOMAIN inode = 1..Len(inode)
    BY DEF NvramInv, InodeInv
  <1> QED
    BY <1>1 DEF Contained, DataInv, FilesInv, FileOK

\* What nvram_commit() writes, the next nvram_open() reads, whatever the
\* command lines, the processes beside it and the faults were: the tuples and
\* the length keep to the partition, no name is in it twice, and parsing it
\* into the hash table gives every variable the value the image gives it.
THEOREM ImagesAreSound == Spec => []ImagesSound
<1>1. NvramInv /\ DataInv => ImagesSound
  <2> SUFFICES ASSUME NvramInv, DataInv
               PROVE  ImagesSound
    OBVIOUS
  <2>1. ASSUME NEW c, ContentsOK(c)
        PROVE  /\ c \in Contents /\ UsedBytes(c.img) + 2 <= Space /\ c.img.len <= Space
               /\ UniqueNames(c.img) /\ TableVars(nvram_rehash(c.img)) = Vars(c.img)
    <3>1. /\ ImageOK(c.img) /\ c = [img |-> c.img, whole |-> c.whole, full |-> c.full]
          /\ c.whole \in BOOLEAN /\ c.full \in BOOLEAN
      BY <2>1 DEF ContentsOK
    <3>2. c \in Contents
      BY <3>1 DEF ImageOK, Contents, Tuples
    <3>3. UsedBytes(c.img) \in Nat
      BY <3>1, UsedPrefix DEF ImageOK
    <3>4. UsedBytes(c.img) + 2 <= Space
      BY <3>1, <3>3, LengthsAre DEF ImageOK
    <3> QED
      BY <2>1, <3>1, <3>2, <3>4, Parsed DEF ImageOK
  <2>2. \A c : FileOK(c) => c \in Contents \cup {Empty, Torn}
    BY <2>1 DEF FileOK
  <2>3. DOMAIN inode = 1..Len(inode) /\ path \in 0..Len(inode)
    BY DEF NvramInv, InodeInv
  <2>4. TypeOK
    BY <2>2, <2>3 DEF DataInv, FilesInv, WorkInv, HistInv, DataOK, TypeOK
  <2>5. ImageFits /\ NamesUnique /\ ParseReadsImage
    BY <2>1, Held DEF ImageFits, NamesUnique, ParseReadsImage
  <2> QED
    BY <2>4, <2>5 DEF ImagesSound
<1> QED
  BY <1>1, NvramInvariant, DataInvariant, PTL

\* nvram_open() for writing refuses the whole image of nvram_commit() exactly
\* when fewer than 6 bytes of the partition are free.
THEOREM WritableUnlessFullCorrect == Spec => []WritableUnlessFull
<1>1. NvramInv /\ DataInv => WritableUnlessFull
  <2> SUFFICES ASSUME NvramInv, DataInv, NEW c \in Contained \ {Empty, Torn}, Readable(c)
               PROVE  OpenAllowed(c.img, FALSE) <=> UsedBytes(c.img) + 6 <= Space
    BY DEF WritableUnlessFull
  <2>1. ContentsOK(c)
    BY Held
  <2>2. c.img.len = commit_len(UsedBytes(c.img))
    BY <2>1 DEF ContentsOK, Readable
  <2>3. UsedBytes(c.img) \in Nat /\ UsedBytes(c.img) <= DataEnd
    BY <2>1, UsedPrefix DEF ContentsOK, ImageOK
  <2>4. commit_len(UsedBytes(c.img)) < Space <=> UsedBytes(c.img) + 6 <= Space
    BY <2>3, LenFits
  <2> QED
    BY <2>2, <2>4 DEF OpenAllowed
<1> QED
  BY <1>1, NvramInvariant, DataInvariant, PTL
=============================================================================
