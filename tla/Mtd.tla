--------------------------------- MODULE Mtd ----------------------------------
(***************************************************************************)
(* "mtd write": an image goes, erase block by erase block, to one or more  *)
(* flash partitions, around the bad blocks of a NAND flash; -j puts the    *)
(* saved configuration at the place of the JFFS2_EOF marker of the image,  *)
(* -p starts at an offset, -n does not erase, -e erases everything first,  *)
(* -t keeps the recovery flag of the boot loader set while the flash is    *)
(* not whole.  Offsets and lengths count erase blocks.  A power cut may    *)
(* come at any time, so what must survive one holds in every state.        *)
(***************************************************************************)
EXTENDS Integers, Sequences, FiniteSets

CONSTANTS Jobs,     \* flash devices and images, see MtdAssumption
          Options   \* [no_erase, part_offset, jffs2, erase, recover]

Old     == <<"old", 0>>
Erased  == <<"erased", 0>>
Mixed   == <<"mixed", 0>>
Garbage == <<"garbage", 0>>

ASSUME MtdAssumption ==
  /\ \A o \in Options : /\ o.part_offset \in Nat
                         /\ {o.no_erase, o.jffs2, o.erase, o.recover} \subseteq BOOLEAN
  /\ \A x \in Jobs : /\ x.sizes \in Seq(Nat \ {0}) /\ x.sizes # <<>>
                    /\ {x.image, x.conf} \subseteq Nat \ {0}
                    /\ x.eof \in 0..x.image
                    /\ {x.nand, x.seama} \subseteq BOOLEAN

VARIABLES job,     \* the flash and the image
          opt, bad, worn,  \* options, bad blocks, blocks that fail to erase
          flash,   \* Old, Erased, <<"img", k>>, <<"conf", k>>, <<"fixed", 1>>,
                   \* Mixed (written without an erase) or Garbage
          flag,    \* magic of the recovery flag
          pc, status,
          m,       \* mtd_write: part (from mtd and next), pos (of fd), w, e,
                   \* skip, offset, sb (skip_bad_blocks), buf (block of the image,
                   \* 0: empty, ImageLen + 1: the part of one)
          img,     \* blocks read from the image
          jffs2file, jffs2_replaced,
          j,       \* mtd_replace_jffs2: mtdofs, n (blocks written)
          failed   \* history: what failed unseen: "read" of the image, erase
                   \* or write of the "jffs2" data, checksum for the "header"

vars == <<job, opt, bad, worn, flash, flag, pc, status, m, img, jffs2file,
          jffs2_replaced, j, failed>>
chip == <<job, opt, bad, worn>>

Sizes    == job.sizes   \* blocks of each partition of the device argument
ImageLen == job.image   \* blocks of the image
Eof      == job.eof     \* the block that starts with JFFS2_EOF, 0 for none
ConfLen  == job.conf    \* blocks of jffs2 data made from the -j file
Nand     == job.nand    \* mtdtype
Seama    == job.seama   \* its header's checksum covers the marker: it is to be fixed
MaxBad   == job.bad     \* bound: bad blocks
MaxWorn  == job.worn    \* bound: blocks that fail to erase

Parts  == DOMAIN Sizes
Blocks == UNION {{<<p, b>> : b \in 0..Sizes[p]-1} : p \in Parts}

Init ==
  /\ job \in Jobs
  /\ opt \in Options
  /\ bad \in SUBSET Blocks /\ IsFiniteSet(bad) /\ Cardinality(bad) <= MaxBad
  /\ bad # {} => Nand
  /\ worn \in SUBSET (Blocks \ bad) /\ Cardinality(worn) <= MaxWorn
  /\ flash = [x \in Blocks |-> Old] /\ flag = "none"
  /\ pc = (IF opt.erase THEN "erase_first" ELSE "resume") /\ status = -1
  /\ m = [part |-> 1, pos |-> 0, w |-> 0, e |-> 0, skip |-> 0, offset |-> 0,
          sb |-> 0, buf |-> 0]
  /\ img = 0 /\ jffs2file = opt.jffs2 /\ jffs2_replaced = FALSE
  /\ j = [mtdofs |-> 0, n |-> 0]
  /\ failed = {}

(***************************************************************************)
(* The flash driver.  MEMERASE fails outside the partition, for bad and    *)
(* for worn blocks; MEMGETBADBLOCK fails outside the partition.            *)
(***************************************************************************)
At(b)        == <<m.part, b>>
Inside(b)    == b < Sizes[m.part]
Erasable(b)  == Inside(b) /\ At(b) \notin bad \cup worn
erased(b)    == IF Erasable(b) THEN [flash EXCEPT ![At(b)] = Erased] ELSE flash

mtd_block_is_bad(b) == Nand /\ At(b) \in bad
BadUnknown(b)       == Nand /\ ~Inside(b)

\* write(fd, data, erasesize) at block b
written(f, b, data) ==
  IF Inside(b) THEN [f EXCEPT ![At(b)] = IF @ = Erased THEN data ELSE Mixed] ELSE f

\* What is at buf + offset: past the end of buf it is somebody else's.
Data == IF m.offset = 0 THEN <<"img", m.buf>> ELSE Garbage

Exit(s) == pc' = "done" /\ status' = s

(***************************************************************************)
(* mtd_erase of every partition, for -e.                                   *)
(***************************************************************************)
mtd_erase ==
  /\ pc = "erase_first" /\ pc' = "resume"
  /\ flash' = [x \in Blocks |-> IF x \in bad \cup worn THEN flash[x] ELSE Erased]
  /\ UNCHANGED <<chip, flag, status, m, img, jffs2file, jffs2_replaced, j, failed>>

(***************************************************************************)
(* mtd_write: the (next) partition is opened.                              *)
(***************************************************************************)
resume ==
  /\ pc = "resume"
  /\ pc' = IF opt.recover /\ flag # "recover" THEN "flag_erase" ELSE "read"
  /\ m' = [m EXCEPT !.pos = opt.part_offset, !.w = 0, !.e = 0]
  /\ UNCHANGED <<chip, flash, flag, status, img, jffs2file, jffs2_replaced, j, failed>>

\* mtd_tpl_recoverflag_write, set before and cleared after the image.
recoverflag_erase ==
  /\ pc \in {"flag_erase", "clear_erase"}
  /\ \/ flag' = "erased" /\ UNCHANGED status
        /\ pc' = IF pc = "flag_erase" THEN "flag_write" ELSE "clear_write"
     \/ Exit(1) /\ UNCHANGED flag
  /\ UNCHANGED <<chip, flash, m, img, jffs2file, jffs2_replaced, j, failed>>

recoverflag_write ==
  /\ pc \in {"flag_write", "clear_write"}
  /\ \/ /\ flag' = IF pc = "flag_write" THEN "recover" ELSE "none"
        /\ IF pc = "flag_write" THEN pc' = "read" /\ UNCHANGED status ELSE Exit(0)
     \/ Exit(1) /\ UNCHANGED flag
  /\ UNCHANGED <<chip, flash, m, img, jffs2file, jffs2_replaced, j, failed>>

\* The next block of the image, padded; a block may be left from the last partition.
read_image ==
  /\ pc = "read" /\ m.buf = 0 /\ img < ImageLen
  /\ img' = img + 1 /\ m' = [m EXCEPT !.buf = img + 1]
  /\ pc' = "got"
  /\ UNCHANGED <<chip, flash, flag, status, jffs2file, jffs2_replaced, j, failed>>

read_left ==
  /\ pc = "read" /\ m.buf # 0 /\ pc' = "got"
  /\ UNCHANGED <<chip, flash, flag, status, m, img, jffs2file, jffs2_replaced, j, failed>>

read_end ==
  /\ pc = "read" /\ m.buf = 0 /\ img = ImageLen
  /\ pc' = "end"
  /\ UNCHANGED <<chip, flash, flag, status, m, img, jffs2file, jffs2_replaced, j, failed>>

\* A failed read ends the loop like the end of the image, after the part
\* of a block that was read before (image_check has read the first bytes).
read_fails ==
  /\ pc = "read" /\ m.buf = 0 /\ img < ImageLen
  /\ failed' = failed \cup {"read"} /\ img' = ImageLen
  /\ \/ img > 0 /\ pc' = "end" /\ UNCHANGED m
     \/ m' = [m EXCEPT !.buf = ImageLen + 1] /\ pc' = "got"
  /\ UNCHANGED <<chip, flash, flag, status, jffs2file, jffs2_replaced, j>>

IsMarker == jffs2file /\ m.buf = Eof

\* A block of the image whose place the jffs2 data have taken.
skip_block ==
  /\ pc = "got" /\ m.skip > 0
  /\ m' = [m EXCEPT !.skip = @ - 1, !.buf = 0]
  /\ pc' = "read"
  /\ UNCHANGED <<chip, flash, flag, status, img, jffs2file, jffs2_replaced, j, failed>>

found_marker ==
  /\ pc = "got" /\ m.skip <= 0 /\ IsMarker
  /\ j' = [mtdofs |-> m.e, n |-> 0]
  /\ pc' = "jffs2"
  /\ UNCHANGED <<chip, flash, flag, status, m, img, jffs2file, jffs2_replaced, failed>>

got_block ==
  /\ pc = "got" /\ m.skip <= 0 /\ ~IsMarker
  /\ pc' = IF opt.no_erase THEN "write" ELSE "erase"
  /\ UNCHANGED <<chip, flash, flag, status, m, img, jffs2file, jffs2_replaced, j, failed>>

(***************************************************************************)
(* The loop that erases what the block needs.                              *)
(***************************************************************************)
MustErase == m.w + 1 > m.e - m.sb

erase_end ==
  /\ pc = "erase" /\ ~MustErase /\ pc' = "write"
  /\ UNCHANGED <<chip, flash, flag, status, m, img, jffs2file, jffs2_replaced, j, failed>>

erase_status_unknown ==
  /\ pc = "erase" /\ MustErase /\ BadUnknown(m.e)
  /\ Exit(1)
  /\ UNCHANGED <<chip, flash, flag, m, img, jffs2file, jffs2_replaced, j, failed>>

erase_stays ==                     \* mutant: the file pointer stays
  /\ pc = "erase" /\ MustErase /\ mtd_block_is_bad(m.e)
  /\ m' = [m EXCEPT !.sb = @ + 1, !.e = @ + 1]
  /\ UNCHANGED <<chip, flash, flag, pc, status, img, jffs2file, jffs2_replaced, j, failed>>

erase_skips_bad ==
  /\ pc = "erase" /\ MustErase /\ mtd_block_is_bad(m.e)
  /\ m' = [m EXCEPT !.sb = @ + 1, !.e = @ + 1, !.pos = @ + 1]
  /\ UNCHANGED <<chip, flash, flag, pc, status, img, jffs2file, jffs2_replaced, j, failed>>

Erasing == pc = "erase" /\ MustErase /\ ~BadUnknown(m.e) /\ ~mtd_block_is_bad(m.e)

erase_block ==
  /\ Erasing /\ Erasable(m.e + opt.part_offset)
  /\ flash' = erased(m.e + opt.part_offset)
  /\ m' = [m EXCEPT !.e = @ + 1]
  /\ UNCHANGED <<chip, flag, pc, status, img, jffs2file, jffs2_replaced, j, failed>>

\* The erase fails: the rest goes to the next partition.  With bad blocks
\* behind it the block is also written here, as e - w blocks.
erase_next_same ==                 \* mutant: "mtd = next" is missing
  /\ Erasing /\ ~Erasable(m.e + opt.part_offset) /\ m.part < Len(Sizes)
  /\ m' = [m EXCEPT !.w = 0, !.e = 0]
  /\ pc' = "resume"
  /\ UNCHANGED <<chip, flash, flag, status, img, jffs2file, jffs2_replaced, j, failed>>

erase_next ==
  /\ Erasing /\ ~Erasable(m.e + opt.part_offset) /\ m.part < Len(Sizes)
  /\ LET more == m.e - m.w
         here == {At(b) : b \in m.pos..m.pos + more - 1}
     IN  /\ flash' = [x \in Blocks |->
                        IF x \notin here THEN flash[x]
                        ELSE IF flash[x] # Erased THEN Mixed
                        ELSE IF x = At(m.pos) THEN Data ELSE Garbage]
         /\ m' = [m EXCEPT !.part = @ + 1, !.w = 0, !.e = 0,
                           !.offset = IF more > 0 THEN more ELSE @]
  /\ pc' = "resume"
  /\ UNCHANGED <<chip, flag, status, img, jffs2file, jffs2_replaced, j, failed>>

erase_fails ==
  /\ Erasing /\ ~Erasable(m.e + opt.part_offset) /\ m.part = Len(Sizes)
  /\ Exit(1)
  /\ UNCHANGED <<chip, flash, flag, m, img, jffs2file, jffs2_replaced, j, failed>>

write_block ==
  /\ pc = "write" /\ Inside(m.pos)
  /\ flash' = written(flash, m.pos, Data)
  /\ m' = [m EXCEPT !.pos = @ + 1, !.w = @ + 1, !.buf = 0, !.offset = 0]
  /\ pc' = "read"
  /\ UNCHANGED <<chip, flag, status, img, jffs2file, jffs2_replaced, j, failed>>

\* The driver refuses the block, or stores a part of it.
write_fails ==
  /\ pc = "write" /\ Inside(m.pos)
  /\ flash' \in {flash, written(flash, m.pos, Garbage)}
  /\ Exit(1)
  /\ UNCHANGED <<chip, flag, m, img, jffs2file, jffs2_replaced, j, failed>>

write_no_space ==
  /\ pc = "write" /\ ~Inside(m.pos)
  /\ Exit(1)
  /\ UNCHANGED <<chip, flash, flag, m, img, jffs2file, jffs2_replaced, j, failed>>

(***************************************************************************)
(* mtd_replace_jffs2: pad() writes each block of jffs2 data, the last one  *)
(* holds the marker.                                                       *)
(***************************************************************************)
pad_status_unknown ==
  /\ pc = "jffs2" /\ BadUnknown(j.mtdofs)
  /\ Exit(1)
  /\ UNCHANGED <<chip, flash, flag, m, img, jffs2file, jffs2_replaced, j, failed>>

pad_skips_bad ==
  /\ pc = "jffs2" /\ mtd_block_is_bad(j.mtdofs)
  /\ j' = [j EXCEPT !.mtdofs = @ + 1] /\ m' = [m EXCEPT !.pos = @ + 1]
  /\ UNCHANGED <<chip, flash, flag, pc, status, img, jffs2file, jffs2_replaced, failed>>

\* The results of the erase and of the write are not looked at.
pad_erase ==
  /\ pc = "jffs2" /\ ~BadUnknown(j.mtdofs) /\ ~mtd_block_is_bad(j.mtdofs)
  /\ flash' = erased(j.mtdofs)
  /\ failed' = IF Erasable(j.mtdofs) THEN failed ELSE failed \cup {"jffs2"}
  /\ pc' = "jffs2_write"
  /\ UNCHANGED <<chip, flag, status, m, img, jffs2file, jffs2_replaced, j>>

pad_write ==
  /\ pc = "jffs2_write"
  /\ flash' = written(flash, m.pos, <<"conf", j.n + 1>>)
  /\ j' = [mtdofs |-> j.mtdofs + 1, n |-> j.n + 1]
  /\ m' = [m EXCEPT !.pos = IF Inside(@) THEN @ + 1 ELSE @]
  /\ pc' = IF j.n + 1 = ConfLen THEN "jffs2_end" ELSE "jffs2"
  /\ UNCHANGED <<chip, flag, status, img, jffs2file, jffs2_replaced, failed>>

replace_keeps_e ==                 \* mutant: "e += skip" is missing
  /\ pc = "jffs2_end"
  /\ LET skip == j.mtdofs - m.e
     IN  m' = [m EXCEPT !.w = @ + skip, !.skip = skip - 1, !.buf = 0, !.offset = 0]
  /\ jffs2_replaced' = TRUE /\ jffs2file' = FALSE
  /\ pc' = "read"
  /\ UNCHANGED <<chip, flash, flag, status, img, j, failed>>

replace_jffs2_end ==
  /\ pc = "jffs2_end"
  /\ LET skip == j.mtdofs - m.e
     IN  m' = [m EXCEPT !.w = @ + skip, !.e = @ + skip, !.skip = skip - 1,
                        !.buf = 0, !.offset = 0]
  /\ jffs2_replaced' = TRUE /\ jffs2file' = FALSE
  /\ pc' = "read"
  /\ UNCHANGED <<chip, flash, flag, status, img, j, failed>>

(***************************************************************************)
(* The end of mtd_write: mtd_fixseama puts the new checksum into the       *)
(* header in the first block of the last partition.                        *)
(***************************************************************************)
end_clear_first ==                 \* mutant: the flag is cleared first
  /\ pc = "end" /\ UNCHANGED status
  /\ IF opt.recover /\ flag # "none"
     THEN flag' = "none" /\ UNCHANGED pc
     ELSE pc' = (IF jffs2_replaced /\ Seama THEN "fix" ELSE "close") /\ UNCHANGED flag
  /\ UNCHANGED <<chip, flash, m, img, jffs2file, jffs2_replaced, j, failed>>

end_loop ==
  /\ pc = "end"
  /\ pc' = IF jffs2_replaced /\ Seama THEN "fix" ELSE "close"
  /\ UNCHANGED <<chip, flash, flag, status, m, img, jffs2file, jffs2_replaced, j, failed>>

\* seama_fix_md5 has no memory for the data or cannot read them: the result
\* is not told from that of a header that needs no fixing.
fixseama_gives_up ==
  /\ pc = "fix" /\ flash[At(0)] = <<"img", 1>>
  /\ failed' = failed \cup {"header"}
  /\ pc' = "close"
  /\ UNCHANGED <<chip, flash, flag, status, m, img, jffs2file, jffs2_replaced, j>>

\* Without a header, memory for its block or a read or an erase of it the
\* program ends.
fixseama_erase ==
  /\ pc = "fix"
  /\ \/ /\ flash[At(0)] = <<"img", 1>> /\ Erasable(0)
        /\ flash' = erased(0) /\ pc' = "fix_write" /\ UNCHANGED status
     \/ Exit(1) /\ UNCHANGED flash
  /\ UNCHANGED <<chip, flag, m, img, jffs2file, jffs2_replaced, j, failed>>

fixseama_write ==
  /\ pc = "fix_write"
  /\ flash' = written(flash, 0, <<"fixed", 1>>)
  /\ pc' = "close"
  /\ UNCHANGED <<chip, flag, status, m, img, jffs2file, jffs2_replaced, j, failed>>

fixseama_write_fails ==
  /\ pc = "fix_write"
  /\ flash' \in {flash, written(flash, 0, Garbage)}
  /\ Exit(1)
  /\ UNCHANGED <<chip, flag, m, img, jffs2file, jffs2_replaced, j, failed>>

close_fd ==
  /\ pc = "close"
  /\ IF opt.recover /\ flag # "none" THEN pc' = "clear_erase" /\ UNCHANGED status
     ELSE Exit(0)
  /\ UNCHANGED <<chip, flash, flag, m, img, jffs2file, jffs2_replaced, j, failed>>

Read  == read_image \/ read_left \/ read_end \/ read_fails
Got   == skip_block \/ found_marker \/ got_block
Erase == erase_end \/ erase_status_unknown \/ erase_skips_bad \/ erase_block
         \/ erase_next \/ erase_fails
Write == write_block \/ write_fails \/ write_no_space
Jffs2 == pad_status_unknown \/ pad_skips_bad \/ pad_erase \/ pad_write
         \/ replace_jffs2_end
Ends  == end_loop \/ fixseama_gives_up \/ fixseama_erase \/ fixseama_write
         \/ fixseama_write_fails \/ close_fd
Next  == mtd_erase \/ resume \/ recoverflag_erase \/ recoverflag_write
         \/ Read \/ Got \/ Erase \/ Write \/ Jffs2 \/ Ends

Spec == Init /\ [][Next]_vars

\* Nothing but a power cut stops the program.
LiveSpec == Spec /\ WF_vars(Next)

-----------------------------------------------------------------------------
Contents == {Old, Erased, Mixed, Garbage, <<"fixed", 1>>}
            \cup {<<"img", k>> : k \in 1..ImageLen+1} \cup {<<"conf", k>> : k \in 1..ConfLen}

Counters == [part : Parts, pos : Nat, w : Nat, e : Nat, skip : Int, offset : Nat,
             sb : Nat, buf : 0..ImageLen+1]

\* Type invariant.
TypeOK ==
  /\ job \in Jobs /\ opt \in Options
  /\ bad \subseteq Blocks /\ worn \subseteq Blocks \ bad /\ (bad # {} => Nand)
  /\ flash \in [Blocks -> Contents] /\ flag \in {"none", "erased", "recover"}
  /\ status \in {-1, 0, 1} /\ (status # -1 <=> pc = "done")
  /\ m \in Counters
  /\ img \in 0..ImageLen /\ {jffs2file, jffs2_replaced} \subseteq BOOLEAN
  /\ j \in [mtdofs : Nat, n : 0..ConfLen] /\ failed \subseteq {"read", "jffs2", "header"}

\* The good blocks with new data, and the order of the blocks.
New == {x \in Blocks \ bad : flash[x] \notin {Old, Erased}}
Before(x, y) == x[1] < y[1] \/ (x[1] = y[1] /\ x[2] < y[2])

\* The place of a content: the configuration comes before the marker.
Rank(c) == IF c[1] = "conf" THEN Eof - 1 + c[2]
           ELSE IF c[2] < Eof THEN c[2] ELSE ConfLen + c[2]

\* The new data are the given contents, each on one block, in their order.
Holds(contents) ==
  /\ {flash[x] : x \in New} = contents
  /\ \A x, y \in New : Before(x, y) => Rank(flash[x]) < Rank(flash[y])

\* The header is fixed unless its checksum could not be computed.
HeaderDone == jffs2_replaced /\ Seama /\ "header" \notin failed

Img(a, b) == {IF HeaderDone /\ k = 1 THEN <<"fixed", 1>> ELSE <<"img", k>> : k \in a..b}
Conf(n)   == {<<"conf", k>> : k \in 1..n}

\* The image, or the image with the configuration at its marker in the
\* place of as many of its blocks (and of the bad ones in between), and
\* with the header that fits it if that could be computed.
Whole ==
  IF ~jffs2_replaced THEN Holds(Img(1, ImageLen))
  ELSE \E k \in Eof + ConfLen .. Eof + ConfLen + Cardinality(bad) :
         Holds(Img(1, Eof - 1) \cup Conf(ConfLen) \cup Img(k, ImageLen))

\* What the code handles: -n needs a flash that -e could erase and no -j.
\* Left out are bad blocks together with -p or before a change of the
\* partition, and -p together with -j: erases are then not where writes are.
Ordinary == /\ opt.no_erase => opt.erase /\ ~opt.jffs2 /\ bad \cup worn = {}
            /\ bad = {} \/ (m.part = 1 /\ opt.part_offset = 0)
            /\ opt.part_offset = 0 \/ ~opt.jffs2

\* An exit status of 0 says that the whole image is on the good blocks, in
\* order and from the offset on, with the configuration in it if the image
\* has a place for it, unless reading the image or writing the configuration
\* failed unseen.  Its header has the new checksum, unless computing that
\* failed unseen (seama.c:162), which costs the checksum and nothing else.
Installed ==
  Ordinary /\ failed \subseteq {"header"} /\ status = 0 =>
    /\ Whole
    /\ jffs2_replaced <=> opt.jffs2 /\ Eof # 0
    /\ \A x \in New : x[2] >= opt.part_offset

\* No bad block of a NAND flash is ever erased or written.
BadUntouched == Ordinary => \A x \in bad : flash[x] = Old

\* What mtd write has in its counters stays in range, and what it does to the
\* flash stays off the bad blocks.
FlashOK == TypeOK /\ BadUntouched

\* Whenever the power is cut, the flash holds what it held before or the
\* whole new image, its header fixed unless the checksum could not be
\* computed, or the recovery flag is set.
RecoveryCovers ==
  opt.recover /\ ~opt.erase /\ Ordinary /\ failed \subseteq {"header"} =>
    (\A x \in Blocks : flash[x] = Old) \/ Whole \/ flag = "recover"

\* mtd write ends, whatever the bad blocks, the worn blocks and the sizes.
Terminates == <>(pc = "done")
=============================================================================
