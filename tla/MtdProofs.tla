------------------------------- MODULE MtdProofs -------------------------------
(***************************************************************************)
(* Proofs about "mtd write" for any flash, image and options: its counters *)
(* stay in range, no bad block is touched, the recovery flag is set until  *)
(* the image is complete, and when the program ends with success the whole *)
(* image is on the flash, in order; in both cases with the header that     *)
(* fits it, unless its checksum could not be computed.                     *)
(***************************************************************************)
EXTENDS Mtd, FiniteSetTheorems, TLAPS

-----------------------------------------------------------------------------
(***************************************************************************)
(* The inductive invariant.                                                *)
(***************************************************************************)
Good(b) == At(b) \notin bad

\* Where the block that was read still has to be written.
Holding == {"got", "erase", "write", "jffs2", "jffs2_write", "jffs2_end"}

\* After the loop.
Closing == {"end", "fix", "fix_write", "close", "clear_erase", "clear_write"}

BufferInv ==
  /\ pc \in Holding => m.buf # 0
  /\ pc \in Closing => m.buf = 0 /\ img = ImageLen

Jffs2Inv ==
  /\ pc \in {"jffs2", "jffs2_write"} => j.n < ConfLen
  /\ pc \in {"jffs2", "jffs2_write", "jffs2_end"} => j.mtdofs >= m.e

\* With bad blocks in the partition the file pointer, the offset that is
\* erased next and the bad blocks skipped go together, so that what is written
\* is the block that was found good.
PosInv ==
  Ordinary /\ bad # {} =>
    /\ pc \in {"erase_first", "resume"} => m.sb = 0
    /\ pc \in {"flag_erase", "flag_write", "read", "got"}
         => m.pos = m.e /\ m.e = m.w + m.sb
    /\ pc = "erase" => \/ m.pos = m.e /\ m.e = m.w + m.sb
                       \/ m.pos + 1 = m.e /\ m.e = m.w + m.sb + 1 /\ Good(m.pos)
    /\ pc = "write" => m.pos + 1 = m.e /\ m.e = m.w + m.sb + 1 /\ Good(m.pos)
    /\ pc \in {"jffs2", "jffs2_write", "jffs2_end"}
         => m.pos = j.mtdofs /\ m.e = m.w + m.sb
    /\ pc = "jffs2_write" => Good(m.pos) /\ Inside(m.pos)
    /\ pc = "fix_write" => Good(0)

Untouched == \A x \in Blocks : flash[x] = Old

HeaderFixed == HeaderDone => flash[At(0)] = <<"fixed", 1>>

FixInv ==
  /\ "header" \in failed => pc \in {"close", "clear_erase", "clear_write", "done"}
  /\ pc \in {"fix", "fix_write"} => jffs2_replaced /\ Seama
  /\ pc = "fix_write" => flash[At(0)] = Erased
  /\ pc \in {"close", "clear_erase", "clear_write"} => HeaderFixed

\* The flag is set from the first erase of the flash on.
FlagInv ==
  opt.recover =>
    /\ pc \in Holding \cup {"read", "end", "fix", "fix_write", "close", "clear_erase"}
         => flag = "recover"
    /\ ~opt.erase /\ flag # "recover"
         => pc \in {"resume", "flag_erase", "flag_write", "clear_write", "done"}
    /\ ~opt.erase /\ (pc \in {"flag_erase", "flag_write"}
                      \/ (pc = "resume" /\ flag # "recover"))
         => Untouched

\* Without -e: as long as the recovery flag is not set, the flash is as it
\* was, or the whole image was written and its header is fixed, unless the
\* checksum for it could not be computed (seama.c:162).
FlagUntilEnd ==
  opt.recover /\ ~opt.erase /\ flag # "recover" =>
    Untouched \/ (img = ImageLen /\ m.buf = 0 /\ HeaderFixed)

MtdInv == /\ TypeOK /\ BufferInv /\ Jffs2Inv /\ PosInv /\ FixInv /\ FlagInv
          /\ BadUntouched /\ FlagUntilEnd

-----------------------------------------------------------------------------
(***************************************************************************)
(* Facts about the flash and the counters.                                 *)
(***************************************************************************)

\* The flash, the image and the options stay.
LEMMA SameChip ==
  ASSUME UNCHANGED chip
  PROVE  /\ UNCHANGED <<job, opt, bad, worn>>
         /\ Blocks' = Blocks /\ Contents' = Contents /\ Sizes' = Sizes
         /\ Parts' = Parts /\ Counters' = Counters
         /\ ImageLen' = ImageLen /\ ConfLen' = ConfLen /\ Eof' = Eof
         /\ Nand' = Nand /\ Seama' = Seama
  BY DEF chip, Blocks, Contents, Counters, Sizes, Parts, ImageLen, ConfLen, Eof,
         Nand, Seama

\* The types of what the code computes with.
LEMMA Fields ==
  ASSUME TypeOK
  PROVE  /\ Sizes \in Seq(Nat \ {0}) /\ Len(Sizes) \in Nat /\ Parts = 1..Len(Sizes)
         /\ m.part \in 1..Len(Sizes) /\ Sizes[m.part] \in Nat \ {0}
         /\ ImageLen \in Nat \ {0} /\ ConfLen \in Nat \ {0} /\ Eof \in 0..ImageLen
         /\ Nand \in BOOLEAN /\ Seama \in BOOLEAN
         /\ opt.part_offset \in Nat /\ opt.no_erase \in BOOLEAN /\ opt.jffs2 \in BOOLEAN
         /\ opt.erase \in BOOLEAN /\ opt.recover \in BOOLEAN
         /\ m.pos \in Nat /\ m.w \in Nat /\ m.e \in Nat /\ m.skip \in Int
         /\ m.offset \in Nat /\ m.sb \in Nat /\ m.buf \in 0..ImageLen+1
         /\ j.mtdofs \in Nat /\ j.n \in 0..ConfLen
  <1>1. job \in Jobs /\ opt \in Options
    BY DEF TypeOK
  <1>2. /\ Sizes \in Seq(Nat \ {0}) /\ Sizes # <<>>
        /\ ImageLen \in Nat \ {0} /\ ConfLen \in Nat \ {0} /\ Eof \in 0..ImageLen
        /\ Nand \in BOOLEAN /\ Seama \in BOOLEAN
    BY <1>1, MtdAssumption DEF MtdAssumption, Sizes, ImageLen, ConfLen, Eof, Nand, Seama
  <1>3. /\ opt.part_offset \in Nat /\ opt.no_erase \in BOOLEAN /\ opt.jffs2 \in BOOLEAN
        /\ opt.erase \in BOOLEAN /\ opt.recover \in BOOLEAN
    BY <1>1, MtdAssumption DEF MtdAssumption
  <1>4. Len(Sizes) \in Nat /\ Parts = 1..Len(Sizes)
    BY <1>2 DEF Parts
  <1>5. /\ m.part \in Parts
        /\ m.pos \in Nat /\ m.w \in Nat /\ m.e \in Nat /\ m.skip \in Int
        /\ m.offset \in Nat /\ m.sb \in Nat /\ m.buf \in 0..ImageLen+1
        /\ j.mtdofs \in Nat /\ j.n \in 0..ConfLen
    BY DEF TypeOK, Counters
  <1>6. Sizes[m.part] \in Nat \ {0}
    BY <1>2, <1>4, <1>5
  <1> QED
    BY <1>2, <1>3, <1>4, <1>5, <1>6

\* What the counters become.
LEMMA Counting ==
  ASSUME TypeOK
  PROVE  /\ m \in Counters /\ j \in [mtdofs : Nat, n : 0..ConfLen]
         /\ m.pos + 1 \in Nat /\ m.w + 1 \in Nat /\ m.e + 1 \in Nat /\ m.sb + 1 \in Nat
         /\ m.skip - 1 \in Int /\ j.mtdofs + 1 \in Nat /\ 0 \in 0..ImageLen+1
  <1>1. m \in Counters /\ j \in [mtdofs : Nat, n : 0..ConfLen]
    BY DEF TypeOK
  <1>2. /\ m.pos \in Nat /\ m.w \in Nat /\ m.e \in Nat /\ m.sb \in Nat
        /\ m.skip \in Int /\ j.mtdofs \in Nat /\ ImageLen \in Nat
    BY Fields
  <1> QED
    BY <1>1, <1>2

\* The blocks of the partition that is open.
LEMMA OpenBlocks ==
  ASSUME TypeOK, NEW b \in Nat
  PROVE  At(b) \in Blocks <=> Inside(b)
  <1>1. m.part \in Parts /\ Sizes[m.part] \in Nat \ {0}
    BY Fields
  <1>2. ASSUME Inside(b)
        PROVE  At(b) \in Blocks
    <2>1. b \in 0..Sizes[m.part]-1
      BY <1>1, <1>2 DEF Inside
    <2>2. At(b) \in {<<m.part, k>> : k \in 0..Sizes[m.part]-1}
      BY <2>1 DEF At
    <2> QED
      BY <1>1, <2>2 DEF Blocks
  <1>3. ASSUME At(b) \in Blocks
        PROVE  Inside(b)
    <2>1. PICK p \in Parts : At(b) \in {<<p, k>> : k \in 0..Sizes[p]-1}
      BY <1>3 DEF Blocks
    <2>2. PICK k \in 0..Sizes[p]-1 : At(b) = <<p, k>>
      BY <2>1
    <2>3. m.part = p /\ b = k
      BY <2>2 DEF At
    <2> QED
      BY <1>1, <2>2, <2>3 DEF Inside
  <1> QED
    BY <1>2, <1>3

\* What an erase leaves.
LEMMA AfterErase ==
  ASSUME TypeOK, NEW b \in Nat
  PROVE  /\ erased(b) \in [Blocks -> Contents]
         /\ \A x \in Blocks : erased(b)[x] = IF x = At(b) /\ Erasable(b) THEN Erased
                                             ELSE flash[x]
  <1>1. Erased \in Contents
    BY DEF Contents
  <1>2. flash \in [Blocks -> Contents]
    BY DEF TypeOK
  <1> QED
    BY <1>1, <1>2 DEF erased

\* What a write leaves.
LEMMA AfterWrite ==
  ASSUME TypeOK, NEW b \in Nat, NEW data \in Contents
  PROVE  /\ written(flash, b, data) \in [Blocks -> Contents]
         /\ \A x \in Blocks :
              written(flash, b, data)[x] =
                IF x = At(b) THEN IF flash[x] = Erased THEN data ELSE Mixed ELSE flash[x]
  <1>1. Mixed \in Contents
    BY DEF Contents
  <1>2. flash \in [Blocks -> Contents]
    BY DEF TypeOK
  <1>3. At(b) \in Blocks <=> Inside(b)
    BY OpenBlocks
  <1>4. CASE Inside(b)
    BY <1>1, <1>2, <1>3, <1>4 DEF written
  <1>5. CASE ~Inside(b)
    BY <1>2, <1>3, <1>5 DEF written
  <1> QED
    BY <1>4, <1>5

\* What is written is one of the contents.
LEMMA DataTyped ==
  ASSUME TypeOK, m.buf # 0
  PROVE  Data \in Contents
  <1>1. m.buf \in 1..ImageLen+1
    BY Fields
  <1> QED
    BY <1>1 DEF Data, Contents

-----------------------------------------------------------------------------
(***************************************************************************)
(* The steps that leave the flash alone.                                   *)
(***************************************************************************)

\* What the flag says follows from where the program is.
LEMMA FlagFollows ==
  ASSUME pc' # "done", BufferInv', FixInv', FlagInv'
  PROVE  FlagUntilEnd'
  <1> SUFFICES ASSUME opt'.recover, ~opt'.erase, flag' # "recover"
               PROVE  Untouched' \/ (img' = ImageLen' /\ m'.buf = 0 /\ HeaderFixed')
    BY DEF FlagUntilEnd
  <1>1. pc' \in {"resume", "flag_erase", "flag_write", "clear_write"}
    BY DEF FlagInv
  <1>2. pc' \in {"resume", "flag_erase", "flag_write"} => Untouched'
    BY DEF FlagInv
  <1>3. pc' = "clear_write" => img' = ImageLen' /\ m'.buf = 0 /\ HeaderFixed'
    BY DEF BufferInv, FixInv, Closing
  <1> QED
    BY <1>1, <1>2, <1>3

\* Without a change of the flash or of the partition it is enough to look at
\* the counters and the flag.
LEMMA FlashKept ==
  ASSUME MtdInv, UNCHANGED <<chip, flash>>, m'.part = m.part,
         TypeOK', BufferInv', Jffs2Inv', PosInv', FixInv', FlagInv',
         pc' = "done" => FlagUntilEnd'
  PROVE  MtdInv'
  <1>1. UNCHANGED <<job, opt, bad, worn>>
    BY SameChip
  <1>2. BadUntouched'
    BY <1>1 DEF MtdInv, BadUntouched, Ordinary
  <1> QED
    BY <1>2, FlagFollows DEF MtdInv

\* mtd_write() gives up or ends.
LEMMA Exits ==
  ASSUME MtdInv, NEW s \in {0, 1}, Exit(s),
         UNCHANGED <<chip, flash, flag, m, img, jffs2file, jffs2_replaced, j, failed>>
  PROVE  MtdInv'
  <1>1. /\ UNCHANGED <<job, opt, bad, worn>>
        /\ Blocks' = Blocks /\ Contents' = Contents /\ Counters' = Counters
        /\ ImageLen' = ImageLen /\ ConfLen' = ConfLen /\ Nand' = Nand /\ Seama' = Seama
    BY SameChip
  <1>2. pc' = "done" /\ status' = s
    BY DEF Exit
  <1>3. TypeOK'
    BY <1>1, <1>2 DEF MtdInv, TypeOK
  <1>4. BufferInv' /\ Jffs2Inv' /\ PosInv' /\ FixInv' /\ FlagInv'
    BY <1>2 DEF BufferInv, Jffs2Inv, PosInv, FixInv, FlagInv, Holding, Closing
  <1>5. FlagUntilEnd'
    BY <1>1, <1>2 DEF MtdInv, FlagUntilEnd, Untouched, HeaderFixed, HeaderDone, At
  <1> QED
    BY <1>3, <1>4, <1>5, FlashKept

\* The program goes on elsewhere with the same counters.
LEMMA GoesOn ==
  ASSUME MtdInv, pc # "done", pc' # "done",
         UNCHANGED <<chip, flash, flag, status, m, img, jffs2file, jffs2_replaced, j, failed>>,
         BufferInv', Jffs2Inv', PosInv', FixInv', FlagInv'
  PROVE  MtdInv'
  <1>1. /\ UNCHANGED <<job, opt, bad, worn>>
        /\ Blocks' = Blocks /\ Contents' = Contents /\ Counters' = Counters
        /\ ImageLen' = ImageLen /\ ConfLen' = ConfLen /\ Nand' = Nand /\ Seama' = Seama
    BY SameChip
  <1>2. TypeOK'
    BY <1>1 DEF MtdInv, TypeOK
  <1> QED
    BY <1>2, FlashKept

\* A partition is opened.
LEMMA ResumeStep ==
  ASSUME MtdInv, resume
  PROVE  MtdInv'
  <1>1. /\ UNCHANGED <<job, opt, bad, worn>>
        /\ Blocks' = Blocks /\ Contents' = Contents /\ Counters' = Counters
        /\ ImageLen' = ImageLen /\ ConfLen' = ConfLen /\ Nand' = Nand /\ Seama' = Seama
    BY SameChip DEF resume
  <1>2. TypeOK
    BY DEF MtdInv
  <1>3. /\ pc = "resume" /\ pc' \in {"flag_erase", "read"}
        /\ opt.recover => pc' = IF flag # "recover" THEN "flag_erase" ELSE "read"
        /\ UNCHANGED <<flash, flag, status, img, jffs2file, jffs2_replaced, j, failed>>
        /\ m' = [m EXCEPT !.pos = opt.part_offset, !.w = 0, !.e = 0]
    BY DEF resume
  <1>4. /\ m' \in Counters
        /\ m'.part = m.part /\ m'.pos = opt.part_offset /\ m'.w = 0 /\ m'.e = 0
        /\ m'.sb = m.sb /\ m'.buf = m.buf
    <2>1. m \in Counters /\ opt.part_offset \in Nat
      BY <1>2, Fields DEF TypeOK
    <2> QED
      BY <1>3, <2>1 DEF Counters
  <1>5. TypeOK'
    BY <1>1, <1>2, <1>3, <1>4 DEF TypeOK
  <1>6. BufferInv' /\ Jffs2Inv' /\ FixInv'
    BY <1>3 DEF MtdInv, BufferInv, Jffs2Inv, FixInv, Holding, Closing
  <1>7. PosInv'
    <2>1. Ordinary' /\ bad' # {} => Ordinary /\ bad # {} /\ opt.part_offset = 0
      BY <1>1, <1>4 DEF Ordinary
    <2>2. Ordinary' /\ bad' # {} => m'.sb = 0 /\ m'.pos = 0
      BY <1>3, <1>4, <2>1 DEF MtdInv, PosInv
    <2>3. Ordinary' /\ bad' # {} => m'.pos = m'.e /\ m'.e = m'.w + m'.sb
      BY <1>4, <2>2
    <2> QED
      BY <1>3, <2>3 DEF PosInv
  <1>8. FlagInv'
    BY <1>1, <1>2, <1>3, Fields DEF MtdInv, FlagInv, Untouched, Holding
  <1> QED
    BY <1>3, <1>4, <1>5, <1>6, <1>7, <1>8, FlashKept DEF resume

\* The recovery flag's block is erased.
LEMMA FlagEraseStep ==
  ASSUME MtdInv, recoverflag_erase
  PROVE  MtdInv'
  <1>1. UNCHANGED <<chip, flash, m, img, jffs2file, jffs2_replaced, j, failed>>
    BY DEF recoverflag_erase
  <1>2. CASE Exit(1) /\ UNCHANGED flag
    BY <1>1, <1>2, Exits
  <1>3. CASE /\ flag' = "erased" /\ UNCHANGED status
             /\ pc' = IF pc = "flag_erase" THEN "flag_write" ELSE "clear_write"
    <2>1. /\ UNCHANGED <<job, opt, bad, worn>>
          /\ Blocks' = Blocks /\ Contents' = Contents /\ Counters' = Counters
          /\ ImageLen' = ImageLen /\ ConfLen' = ConfLen /\ Nand' = Nand /\ Seama' = Seama
      BY <1>1, SameChip
    <2>2. \/ pc = "flag_erase" /\ pc' = "flag_write"
          \/ pc = "clear_erase" /\ pc' = "clear_write"
      BY <1>3 DEF recoverflag_erase
    <2>3. TypeOK'
      BY <1>1, <1>3, <2>1, <2>2 DEF MtdInv, TypeOK
    <2>4. BufferInv' /\ Jffs2Inv' /\ FixInv'
      BY <1>1, <2>1, <2>2
         DEF MtdInv, BufferInv, Jffs2Inv, FixInv, HeaderFixed, HeaderDone, At, Holding, Closing
    <2>5. PosInv'
      BY <1>1, <2>1, <2>2 DEF MtdInv, PosInv, Ordinary
    <2>6. FlagInv'
      BY <1>1, <1>3, <2>1, <2>2 DEF MtdInv, FlagInv, FlagUntilEnd, Untouched, Holding
    <2> QED
      BY <1>1, <2>2, <2>3, <2>4, <2>5, <2>6, FlashKept
  <1> QED
    BY <1>2, <1>3 DEF recoverflag_erase

\* The recovery flag is written.
LEMMA FlagWriteStep ==
  ASSUME MtdInv, recoverflag_write
  PROVE  MtdInv'
  <1>1. UNCHANGED <<chip, flash, m, img, jffs2file, jffs2_replaced, j, failed>>
    BY DEF recoverflag_write
  <1>2. CASE Exit(1) /\ UNCHANGED flag
    BY <1>1, <1>2, Exits
  <1>3. CASE /\ flag' = IF pc = "flag_write" THEN "recover" ELSE "none"
             /\ IF pc = "flag_write" THEN pc' = "read" /\ UNCHANGED status ELSE Exit(0)
    <2>1. /\ UNCHANGED <<job, opt, bad, worn>>
          /\ Blocks' = Blocks /\ Contents' = Contents /\ Counters' = Counters
          /\ ImageLen' = ImageLen /\ ConfLen' = ConfLen /\ Nand' = Nand /\ Seama' = Seama
      BY <1>1, SameChip
    <2>2. \/ pc = "flag_write" /\ pc' = "read" /\ flag' = "recover" /\ UNCHANGED status
          \/ pc = "clear_write" /\ pc' = "done" /\ flag' = "none" /\ status' = 0
      BY <1>3 DEF recoverflag_write, Exit
    <2>3. TypeOK'
      BY <1>1, <2>1, <2>2 DEF MtdInv, TypeOK
    <2>4. BufferInv' /\ Jffs2Inv' /\ FixInv'
      BY <1>1, <2>2 DEF MtdInv, BufferInv, Jffs2Inv, FixInv, Holding, Closing
    <2>5. PosInv'
      BY <1>1, <2>1, <2>2 DEF MtdInv, PosInv, Ordinary
    <2>6. FlagInv'
      BY <2>2 DEF FlagInv, Holding
    <2>7. pc' = "done" => FlagUntilEnd'
      BY <1>1, <2>1, <2>2 DEF MtdInv, FlagUntilEnd, BufferInv, FixInv, HeaderFixed,
                                HeaderDone, At, Closing
    <2> QED
      BY <1>1, <2>3, <2>4, <2>5, <2>6, <2>7, FlashKept
  <1> QED
    BY <1>2, <1>3 DEF recoverflag_write

\* The steps of the read of the next block.
LEMMA ReadStep ==
  ASSUME MtdInv, Read
  PROVE  MtdInv'
  <1>1. /\ pc = "read" /\ pc' \in {"got", "end"}
        /\ UNCHANGED <<chip, flash, flag, status, jffs2file, jffs2_replaced, j>>
    BY DEF Read, read_image, read_left, read_end, read_fails
  <1>2. /\ UNCHANGED <<job, opt, bad, worn>>
        /\ Blocks' = Blocks /\ Contents' = Contents /\ Counters' = Counters
        /\ ImageLen' = ImageLen /\ ConfLen' = ConfLen /\ Nand' = Nand /\ Seama' = Seama
    BY <1>1, SameChip
  <1>3. TypeOK
    BY DEF MtdInv
  <1>4. /\ m \in Counters /\ m.buf \in 0..ImageLen+1 /\ ImageLen \in Nat \ {0}
        /\ img \in 0..ImageLen /\ failed \subseteq {"read", "jffs2", "header"}
    BY <1>3, Fields DEF TypeOK
  <1>5. /\ m' \in Counters
        /\ m'.part = m.part /\ m'.pos = m.pos /\ m'.w = m.w /\ m'.e = m.e /\ m'.sb = m.sb
        /\ pc' = "got" => m'.buf # 0
        /\ pc' = "end" => m'.buf = 0 /\ img' = ImageLen
        /\ img' \in 0..ImageLen /\ failed' \subseteq {"read", "jffs2", "header"}
        /\ "header" \in failed' => "header" \in failed
    <2>1. ASSUME NEW b \in 1..ImageLen+1, m' = [m EXCEPT !.buf = b]
          PROVE  /\ m' \in Counters /\ m'.buf = b /\ b # 0
                 /\ m'.part = m.part /\ m'.pos = m.pos /\ m'.w = m.w /\ m'.e = m.e
                 /\ m'.sb = m.sb
      <3>1. b \in 0..ImageLen+1 /\ b # 0
        BY <1>4
      <3> QED
        BY <1>4, <2>1, <3>1 DEF Counters
    <2>2. CASE read_image
      <3>1. img + 1 \in 1..ImageLen+1 /\ img + 1 \in 0..ImageLen
        BY <1>4, <2>2 DEF read_image
      <3> QED
        BY <1>4, <2>1, <2>2, <3>1 DEF read_image
    <2>3. CASE read_left
      BY <1>4, <2>3 DEF read_left
    <2>4. CASE read_end
      BY <1>4, <2>4 DEF read_end
    <2>5. CASE read_fails
      <3>1. ImageLen + 1 \in 1..ImageLen+1 /\ ImageLen \in 0..ImageLen
        BY <1>4
      <3> QED
        BY <1>4, <2>1, <2>5, <3>1 DEF read_fails
    <2> QED
      BY <2>2, <2>3, <2>4, <2>5 DEF Read
  <1>8. TypeOK'
    BY <1>1, <1>2, <1>3, <1>5 DEF TypeOK
  <1>9. BufferInv' /\ Jffs2Inv' /\ FixInv'
    BY <1>1, <1>2, <1>5 DEF MtdInv, BufferInv, Jffs2Inv, FixInv, Holding, Closing
  <1>10. PosInv'
    BY <1>1, <1>2, <1>5 DEF MtdInv, PosInv, Ordinary
  <1>11. FlagInv'
    BY <1>1, <1>2 DEF MtdInv, FlagInv, Holding
  <1> QED
    BY <1>1, <1>5, <1>8, <1>9, <1>10, <1>11, FlashKept

\* A block is skipped, is the marker, or is to be written.
LEMMA GotStep ==
  ASSUME MtdInv, Got
  PROVE  MtdInv'
  <1>1. /\ pc = "got" /\ pc' \in {"read", "jffs2", "erase", "write"}
        /\ UNCHANGED <<chip, flash, flag, status, img, jffs2file, jffs2_replaced, failed>>
    BY DEF Got, skip_block, found_marker, got_block
  <1>2. /\ UNCHANGED <<job, opt, bad, worn>>
        /\ Blocks' = Blocks /\ Contents' = Contents /\ Counters' = Counters
        /\ ImageLen' = ImageLen /\ ConfLen' = ConfLen /\ Nand' = Nand /\ Seama' = Seama
    BY <1>1, SameChip
  <1>3. TypeOK
    BY DEF MtdInv
  <1>4. \/ pc' = "read" /\ m' = [m EXCEPT !.skip = m.skip - 1, !.buf = 0] /\ j' = j
        \/ pc' = "jffs2" /\ m' = m /\ j' = [mtdofs |-> m.e, n |-> 0]
        \/ pc' = "erase" /\ m' = m /\ j' = j
        \/ pc' = "write" /\ m' = m /\ j' = j /\ opt.no_erase
    BY DEF Got, skip_block, found_marker, got_block
  <1>5. /\ m' \in Counters
        /\ m'.part = m.part /\ m'.pos = m.pos /\ m'.w = m.w /\ m'.e = m.e /\ m'.sb = m.sb
        /\ pc' # "read" => m'.buf = m.buf
    <2>1. m \in Counters /\ m.skip - 1 \in Int /\ 0 \in 0..ImageLen+1
      BY <1>3, Counting
    <2> QED
      BY <1>4, <2>1 DEF Counters
  <1>6. /\ j' \in [mtdofs : Nat, n : 0..ConfLen]
        /\ pc' = "jffs2" => j'.n = 0 /\ j'.mtdofs = m.e /\ ConfLen > 0
    <2>1. j \in [mtdofs : Nat, n : 0..ConfLen] /\ 0 \in 0..ConfLen /\ m.e \in Nat /\ ConfLen > 0
      BY <1>3, Fields DEF TypeOK
    <2> QED
      BY <1>4, <2>1
  <1>7. TypeOK'
    BY <1>1, <1>2, <1>3, <1>5, <1>6 DEF TypeOK
  <1>8. BufferInv'
    BY <1>1, <1>5 DEF MtdInv, BufferInv, Holding, Closing
  <1>9. Jffs2Inv'
    <2>1. m.e \in Nat
      BY <1>3, Fields
    <2> QED
      BY <1>1, <1>2, <1>5, <1>6, <2>1 DEF Jffs2Inv
  <1>10. PosInv'
    <2>1. Ordinary' /\ bad' # {} => /\ Ordinary /\ bad # {} /\ pc' # "write"
                                    /\ m.pos = m.e /\ m.e = m.w + m.sb
      BY <1>1, <1>2, <1>4, <1>5 DEF MtdInv, PosInv, Ordinary
    <2> QED
      BY <1>1, <1>5, <1>6, <2>1 DEF PosInv
  <1>11. FixInv' /\ FlagInv'
    BY <1>1, <1>2 DEF MtdInv, FixInv, FlagInv, Holding
  <1> QED
    BY <1>1, <1>5, <1>7, <1>8, <1>9, <1>10, <1>11, FlashKept

\* Enough is erased.
LEMMA EraseEndStep ==
  ASSUME MtdInv, erase_end
  PROVE  MtdInv'
  <1>1. /\ pc = "erase" /\ pc' = "write" /\ ~MustErase
        /\ UNCHANGED <<chip, flash, flag, status, m, img, jffs2file, jffs2_replaced, j, failed>>
    BY DEF erase_end
  <1>2. /\ UNCHANGED <<job, opt, bad, worn>>
        /\ m.w \in Nat /\ m.e \in Nat /\ m.sb \in Nat
    BY <1>1, SameChip, Fields DEF MtdInv
  <1>3. BufferInv' /\ Jffs2Inv' /\ FixInv' /\ FlagInv'
    BY <1>1, <1>2 DEF MtdInv, BufferInv, Jffs2Inv, FixInv, FlagInv, Holding, Closing
  <1>4. PosInv'
    <2>1. m.e # m.w + m.sb
      BY <1>1, <1>2 DEF MustErase
    <2> QED
      BY <1>1, <1>2, <2>1 DEF MtdInv, PosInv, Ordinary, Good, At
  <1> QED
    BY <1>1, <1>3, <1>4, GoesOn

\* The loop steps over a bad block.
LEMMA EraseSkipStep ==
  ASSUME MtdInv, erase_skips_bad
  PROVE  MtdInv'
  <1>1. /\ pc = "erase" /\ pc' = "erase" /\ MustErase
        /\ UNCHANGED <<chip, flash, flag, status, img, jffs2file, jffs2_replaced, j, failed>>
        /\ m' = [m EXCEPT !.sb = m.sb + 1, !.e = m.e + 1, !.pos = m.pos + 1]
    BY DEF erase_skips_bad
  <1>2. /\ UNCHANGED <<job, opt, bad, worn>>
        /\ Blocks' = Blocks /\ Contents' = Contents /\ Counters' = Counters
        /\ ImageLen' = ImageLen /\ ConfLen' = ConfLen /\ Nand' = Nand /\ Seama' = Seama
    BY <1>1, SameChip
  <1>3. TypeOK
    BY DEF MtdInv
  <1>4. /\ m' \in Counters
        /\ m'.part = m.part /\ m'.pos = m.pos + 1 /\ m'.e = m.e + 1 /\ m'.sb = m.sb + 1
        /\ m'.w = m.w /\ m'.buf = m.buf
    <2>1. m \in Counters /\ m.pos + 1 \in Nat /\ m.e + 1 \in Nat /\ m.sb + 1 \in Nat
      BY <1>3, Counting
    <2> QED
      BY <1>1, <2>1 DEF Counters
  <1>5. TypeOK'
    BY <1>1, <1>2, <1>3, <1>4 DEF TypeOK
  <1>6. BufferInv' /\ Jffs2Inv' /\ FixInv' /\ FlagInv'
    BY <1>1, <1>2, <1>4 DEF MtdInv, BufferInv, Jffs2Inv, FixInv, FlagInv, Holding, Closing
  <1>7. PosInv'
    <2>1. Ordinary' /\ bad' # {} => Ordinary /\ bad # {}
      BY <1>2, <1>4 DEF Ordinary
    <2>2. m.e # m.w + m.sb + 1 /\ m.e \in Nat /\ m.w \in Nat /\ m.sb \in Nat
      <3>1. m.e \in Nat /\ m.w \in Nat /\ m.sb \in Nat
        BY <1>3, Fields
      <3> QED
        BY <1>1, <3>1 DEF MustErase
    <2>3. Ordinary' /\ bad' # {} => m.pos = m.e /\ m.e = m.w + m.sb
      BY <1>1, <2>1, <2>2 DEF MtdInv, PosInv
    <2>4. Ordinary' /\ bad' # {} => m'.pos = m'.e /\ m'.e = m'.w + m'.sb
      BY <1>4, <2>2, <2>3
    <2> QED
      BY <1>1, <2>4 DEF PosInv
  <1> QED
    BY <1>1, <1>4, <1>5, <1>6, <1>7, FlashKept

\* pad() steps over a bad block.
LEMMA PadSkipStep ==
  ASSUME MtdInv, pad_skips_bad
  PROVE  MtdInv'
  <1>1. /\ pc = "jffs2" /\ pc' = "jffs2"
        /\ UNCHANGED <<chip, flash, flag, status, img, jffs2file, jffs2_replaced, failed>>
        /\ m' = [m EXCEPT !.pos = m.pos + 1] /\ j' = [j EXCEPT !.mtdofs = j.mtdofs + 1]
    BY DEF pad_skips_bad
  <1>2. /\ UNCHANGED <<job, opt, bad, worn>>
        /\ Blocks' = Blocks /\ Contents' = Contents /\ Counters' = Counters
        /\ ImageLen' = ImageLen /\ ConfLen' = ConfLen /\ Nand' = Nand /\ Seama' = Seama
    BY <1>1, SameChip
  <1>3. TypeOK
    BY DEF MtdInv
  <1>4. /\ m' \in Counters
        /\ m'.part = m.part /\ m'.pos = m.pos + 1 /\ m'.e = m.e /\ m'.sb = m.sb
        /\ m'.w = m.w /\ m'.buf = m.buf
    <2>1. m \in Counters /\ m.pos + 1 \in Nat
      BY <1>3, Counting
    <2> QED
      BY <1>1, <2>1 DEF Counters
  <1>5. /\ j' \in [mtdofs : Nat, n : 0..ConfLen] /\ j'.n = j.n /\ j'.mtdofs = j.mtdofs + 1
    <2>1. j \in [mtdofs : Nat, n : 0..ConfLen] /\ j.mtdofs + 1 \in Nat
      BY <1>3, Counting
    <2> QED
      BY <1>1, <2>1
  <1>6. TypeOK'
    BY <1>1, <1>2, <1>3, <1>4, <1>5 DEF TypeOK
  <1>7. BufferInv' /\ FixInv' /\ FlagInv'
    BY <1>1, <1>2, <1>4 DEF MtdInv, BufferInv, FixInv, FlagInv, Holding, Closing
  <1>8. Jffs2Inv'
    <2>1. j.n < ConfLen /\ j.mtdofs >= m.e /\ m.e \in Nat /\ j.mtdofs \in Nat
      BY <1>1, <1>3, Fields DEF MtdInv, Jffs2Inv
    <2>2. j'.mtdofs >= m'.e /\ j'.n < ConfLen'
      BY <1>2, <1>4, <1>5, <2>1
    <2> QED
      BY <1>1, <2>2 DEF Jffs2Inv
  <1>9. PosInv'
    BY <1>1, <1>2, <1>4, <1>5 DEF MtdInv, PosInv, Ordinary
  <1> QED
    BY <1>1, <1>4, <1>6, <1>7, <1>8, <1>9, FlashKept

\* mtd_replace_jffs2() returns.
LEMMA ReplacedStep ==
  ASSUME MtdInv, replace_jffs2_end
  PROVE  MtdInv'
  <1> DEFINE skip == j.mtdofs - m.e
  <1>1. /\ pc = "jffs2_end" /\ pc' = "read" /\ jffs2_replaced' = TRUE /\ jffs2file' = FALSE
        /\ UNCHANGED <<chip, flash, flag, status, img, j, failed>>
        /\ m' = [m EXCEPT !.w = m.w + skip, !.e = m.e + skip, !.skip = skip - 1,
                          !.buf = 0, !.offset = 0]
    BY DEF replace_jffs2_end
  <1>2. /\ UNCHANGED <<job, opt, bad, worn>>
        /\ Blocks' = Blocks /\ Contents' = Contents /\ Counters' = Counters
        /\ ImageLen' = ImageLen /\ ConfLen' = ConfLen /\ Nand' = Nand /\ Seama' = Seama
    BY <1>1, SameChip
  <1>3. TypeOK
    BY DEF MtdInv
  <1>4. /\ skip \in Nat /\ m.e + skip = j.mtdofs
        /\ m.e \in Nat /\ m.w \in Nat /\ m.sb \in Nat
    <2>1. j.mtdofs >= m.e /\ m.e \in Nat /\ j.mtdofs \in Nat /\ m.w \in Nat /\ m.sb \in Nat
      BY <1>1, <1>3, Fields DEF MtdInv, Jffs2Inv
    <2> QED
      BY <2>1
  <1> HIDE DEF skip
  <1>5. /\ m' \in Counters
        /\ m'.part = m.part /\ m'.pos = m.pos /\ m'.e = m.e + skip /\ m'.sb = m.sb
        /\ m'.w = m.w + skip
    <2>1. m \in Counters /\ 0 \in 0..ImageLen+1
      BY <1>3, Counting
    <2>2. m.w + skip \in Nat /\ m.e + skip \in Nat /\ skip - 1 \in Int /\ 0 \in Nat
      BY <1>4
    <2> QED
      BY <1>1, <2>1, <2>2 DEF Counters
  <1>6. TypeOK'
    BY <1>1, <1>2, <1>3, <1>5 DEF TypeOK
  <1>7. BufferInv' /\ Jffs2Inv' /\ FixInv' /\ FlagInv'
    BY <1>1, <1>2 DEF MtdInv, BufferInv, Jffs2Inv, FixInv, FlagInv, Holding, Closing
  <1>8. PosInv'
    <2>1. Ordinary' /\ bad' # {} => m.pos = j.mtdofs /\ m.e = m.w + m.sb
      BY <1>1, <1>2, <1>5 DEF MtdInv, PosInv, Ordinary
    <2>2. Ordinary' /\ bad' # {} => m'.pos = m'.e /\ m'.e = m'.w + m'.sb
      BY <1>4, <1>5, <2>1
    <2> QED
      BY <1>1, <2>2 DEF PosInv
  <1> QED
    BY <1>1, <1>5, <1>6, <1>7, <1>8, FlashKept

\* The loop has ended.
LEMMA EndStep ==
  ASSUME MtdInv, end_loop
  PROVE  MtdInv'
  <1>1. /\ pc = "end" /\ pc' \in {"fix", "close"}
        /\ pc' = "fix" <=> jffs2_replaced /\ Seama
        /\ UNCHANGED <<chip, flash, flag, status, m, img, jffs2file, jffs2_replaced, j, failed>>
    BY DEF end_loop
  <1>2. UNCHANGED <<job, opt, bad, worn>> /\ ImageLen' = ImageLen /\ Seama' = Seama
    BY <1>1, SameChip
  <1>3. BufferInv' /\ Jffs2Inv' /\ PosInv' /\ FlagInv'
    BY <1>1, <1>2 DEF MtdInv, BufferInv, Jffs2Inv, PosInv, FlagInv, Holding, Closing
  <1>4. FixInv'
    BY <1>1, <1>2 DEF MtdInv, FixInv, HeaderFixed, HeaderDone
  <1> QED
    BY <1>1, <1>3, <1>4, GoesOn

\* The file is closed and the flag is cleared next.
LEMMA CloseStep ==
  ASSUME MtdInv, close_fd
  PROVE  MtdInv'
  <1>1. /\ pc = "close"
        /\ UNCHANGED <<chip, flash, flag, m, img, jffs2file, jffs2_replaced, j, failed>>
    BY DEF close_fd
  <1>2. CASE Exit(0)
    BY <1>1, <1>2, Exits
  <1>3. CASE pc' = "clear_erase" /\ UNCHANGED status
    <2>1. UNCHANGED <<job, opt, bad, worn>> /\ ImageLen' = ImageLen /\ Seama' = Seama
      BY <1>1, SameChip
    <2>2. BufferInv' /\ Jffs2Inv' /\ PosInv' /\ FlagInv' /\ FixInv'
      BY <1>1, <1>3, <2>1 DEF MtdInv, BufferInv, Jffs2Inv, PosInv, FlagInv, FixInv,
                              HeaderFixed, HeaderDone, At, Holding, Closing
    <2> QED
      BY <1>1, <1>3, <2>2, GoesOn
  <1> QED
    BY <1>2, <1>3 DEF close_fd

-----------------------------------------------------------------------------
(***************************************************************************)
(* The steps that change the flash.                                        *)
(***************************************************************************)

\* -e erases every partition.
LEMMA EraseFirstStep ==
  ASSUME MtdInv, mtd_erase
  PROVE  MtdInv'
  <1>1. /\ pc = "erase_first" /\ pc' = "resume"
        /\ flash' = [x \in Blocks |-> IF x \in bad \cup worn THEN flash[x] ELSE Erased]
        /\ UNCHANGED <<chip, flag, status, m, img, jffs2file, jffs2_replaced, j, failed>>
    BY DEF mtd_erase
  <1>2. /\ UNCHANGED <<job, opt, bad, worn>>
        /\ Blocks' = Blocks /\ Contents' = Contents /\ Counters' = Counters
        /\ ImageLen' = ImageLen /\ ConfLen' = ConfLen /\ Nand' = Nand /\ Seama' = Seama
    BY <1>1, SameChip
  <1>3. TypeOK
    BY DEF MtdInv
  <1>4. flash' \in [Blocks -> Contents]
    <2>1. flash \in [Blocks -> Contents] /\ Erased \in Contents
      BY <1>3 DEF TypeOK, Contents
    <2> QED
      BY <1>1, <2>1
  <1>5. TypeOK'
    BY <1>1, <1>2, <1>3, <1>4 DEF TypeOK
  <1>6. BufferInv' /\ Jffs2Inv' /\ FixInv'
    BY <1>1 DEF MtdInv, BufferInv, Jffs2Inv, FixInv, Holding, Closing
  <1>7. PosInv'
    BY <1>1, <1>2 DEF MtdInv, PosInv, Ordinary
  <1>8. FlagInv'
    BY <1>1, <1>2 DEF MtdInv, FlagInv, Holding
  <1>9. BadUntouched'
    <2>1. \A x \in bad : flash'[x] = flash[x]
      BY <1>1, <1>3 DEF TypeOK
    <2> QED
      BY <1>1, <1>2, <2>1 DEF MtdInv, BadUntouched, Ordinary
  <1> QED
    BY <1>1, <1>5, <1>6, <1>7, <1>8, <1>9, FlagFollows DEF MtdInv

\* A block is erased.
LEMMA EraseBlockStep ==
  ASSUME MtdInv, erase_block
  PROVE  MtdInv'
  <1> DEFINE b == m.e + opt.part_offset
  <1>1. /\ pc = "erase" /\ pc' = "erase" /\ MustErase /\ flash' = erased(b) /\ Erasable(b)
        /\ UNCHANGED <<chip, flag, status, img, jffs2file, jffs2_replaced, j, failed>>
        /\ m' = [m EXCEPT !.e = m.e + 1]
    BY DEF erase_block, Erasing
  <1>2. /\ UNCHANGED <<job, opt, bad, worn>>
        /\ Blocks' = Blocks /\ Contents' = Contents /\ Counters' = Counters
        /\ ImageLen' = ImageLen /\ ConfLen' = ConfLen /\ Nand' = Nand /\ Seama' = Seama
    BY <1>1, SameChip
  <1>3. TypeOK
    BY DEF MtdInv
  <1>4. b \in Nat
    <2>1. m.e \in Nat /\ opt.part_offset \in Nat
      BY <1>3, Fields
    <2> QED
      BY <2>1
  <1>5. /\ m' \in Counters /\ m'.e = m.e + 1
        /\ m'.part = m.part /\ m'.pos = m.pos /\ m'.sb = m.sb /\ m'.w = m.w /\ m'.buf = m.buf
    <2>1. m \in Counters /\ m.e + 1 \in Nat
      BY <1>3, Counting
    <2> QED
      BY <1>1, <2>1 DEF Counters
  <1>6. /\ flash' \in [Blocks -> Contents]
        /\ \A x \in Blocks : flash'[x] = IF x = At(b) THEN Erased ELSE flash[x]
    BY <1>1, <1>3, <1>4, AfterErase
  <1>7. Good(b)
    BY <1>1 DEF Erasable, Good
  <1>8. TypeOK'
    BY <1>1, <1>2, <1>3, <1>5, <1>6 DEF TypeOK
  <1>9. BufferInv' /\ Jffs2Inv' /\ FixInv' /\ FlagInv'
    BY <1>1, <1>2, <1>5 DEF MtdInv, BufferInv, Jffs2Inv, FixInv, FlagInv, Holding, Closing
  <1>10. PosInv'
    <2> SUFFICES ASSUME Ordinary', bad' # {}
                 PROVE  m'.pos + 1 = m'.e /\ m'.e = m'.w + m'.sb + 1 /\ Good(m.pos)'
      BY <1>1, <1>5 DEF PosInv, Good, At
    <2>1. Ordinary /\ bad # {} /\ opt.part_offset = 0
      BY <1>2, <1>5 DEF Ordinary
    <2>2. m.e # m.w + m.sb + 1 /\ m.e \in Nat /\ m.w \in Nat /\ m.sb \in Nat
      <3>1. m.e \in Nat /\ m.w \in Nat /\ m.sb \in Nat
        BY <1>3, Fields
      <3> QED
        BY <1>1, <3>1 DEF MustErase
    <2>3. m.pos = m.e /\ m.e = m.w + m.sb
      BY <1>1, <2>1, <2>2 DEF MtdInv, PosInv
    <2>4. b = m.pos
      BY <2>1, <2>2, <2>3
    <2>5. m'.pos + 1 = m'.e /\ m'.e = m'.w + m'.sb + 1
      BY <1>5, <2>2, <2>3
    <2> QED
      BY <1>2, <1>5, <1>7, <2>4, <2>5 DEF Good, At
  <1>11. BadUntouched'
    <2>1. \A x \in bad : flash'[x] = flash[x]
      BY <1>3, <1>6, <1>7 DEF TypeOK, Good
    <2> QED
      BY <1>2, <1>5, <2>1 DEF MtdInv, BadUntouched, Ordinary
  <1> QED
    BY <1>1, <1>8, <1>9, <1>10, <1>11, FlagFollows DEF MtdInv

\* An erase fails and the next partition is taken.
LEMMA EraseNextStep ==
  ASSUME MtdInv, erase_next
  PROVE  MtdInv'
  <1> DEFINE more == m.e - m.w
             offset == IF more > 0 THEN more ELSE m.offset
  <1>1. /\ pc = "erase" /\ pc' = "resume" /\ m.part < Len(Sizes)
        /\ UNCHANGED <<chip, flag, status, img, jffs2file, jffs2_replaced, j, failed>>
        /\ m' = [m EXCEPT !.part = m.part + 1, !.w = 0, !.e = 0, !.offset = offset]
    BY DEF erase_next, Erasing
  <1>2. /\ UNCHANGED <<job, opt, bad, worn>>
        /\ Blocks' = Blocks /\ Contents' = Contents /\ Counters' = Counters
        /\ ImageLen' = ImageLen /\ ConfLen' = ConfLen /\ Nand' = Nand /\ Seama' = Seama
    BY <1>1, SameChip
  <1>3. TypeOK /\ m.buf # 0
    BY <1>1 DEF MtdInv, BufferInv, Holding
  <1>4. /\ m.part \in 1..Len(Sizes) /\ Len(Sizes) \in Nat /\ Parts = 1..Len(Sizes)
        /\ m.e \in Nat /\ m.w \in Nat /\ m.offset \in Nat
    BY <1>3, Fields
  <1>5. m.part + 1 \in Parts /\ m.part + 1 # 1 /\ offset \in Nat
    BY <1>1, <1>4
  <1> HIDE DEF offset
  <1>6. m' \in Counters /\ m'.part = m.part + 1 /\ m'.buf = m.buf
    <2>1. m \in Counters /\ 0 \in Nat
      BY <1>3, Counting
    <2> QED
      BY <1>1, <1>5, <2>1 DEF Counters
  <1>7. flash' \in [Blocks -> Contents]
    <2>1. /\ flash \in [Blocks -> Contents] /\ Data \in Contents
          /\ Mixed \in Contents /\ Garbage \in Contents
      BY <1>3, DataTyped DEF TypeOK, Contents
    <2>2. \E here : flash' = [x \in Blocks |->
                               IF x \notin here THEN flash[x]
                               ELSE IF flash[x] # Erased THEN Mixed
                               ELSE IF x = At(m.pos) THEN Data ELSE Garbage]
      BY DEF erase_next
    <2> QED
      BY <2>1, <2>2
  <1>8. TypeOK'
    BY <1>1, <1>2, <1>3, <1>6, <1>7 DEF TypeOK
  <1>9. BufferInv' /\ Jffs2Inv' /\ FixInv'
    BY <1>1 DEF MtdInv, BufferInv, Jffs2Inv, FixInv, Holding, Closing
  <1>10. FlagInv'
    BY <1>1, <1>2 DEF MtdInv, FlagInv, Holding
  <1>11. ~(Ordinary' /\ bad' # {})
    BY <1>5, <1>6 DEF Ordinary
  <1>12. PosInv' /\ BadUntouched'
    BY <1>11 DEF PosInv, BadUntouched
  <1> QED
    BY <1>1, <1>8, <1>9, <1>10, <1>12, FlagFollows DEF MtdInv

\* A block is written.
LEMMA WriteStep ==
  ASSUME MtdInv, write_block
  PROVE  MtdInv'
  <1>1. /\ pc = "write" /\ pc' = "read" /\ flash' = written(flash, m.pos, Data)
        /\ UNCHANGED <<chip, flag, status, img, jffs2file, jffs2_replaced, j, failed>>
        /\ m' = [m EXCEPT !.pos = m.pos + 1, !.w = m.w + 1, !.buf = 0, !.offset = 0]
    BY DEF write_block
  <1>2. /\ UNCHANGED <<job, opt, bad, worn>>
        /\ Blocks' = Blocks /\ Contents' = Contents /\ Counters' = Counters
        /\ ImageLen' = ImageLen /\ ConfLen' = ConfLen /\ Nand' = Nand /\ Seama' = Seama
    BY <1>1, SameChip
  <1>3. TypeOK /\ m.buf # 0
    BY <1>1 DEF MtdInv, BufferInv, Holding
  <1>4. m.pos \in Nat /\ m.w \in Nat /\ m.e \in Nat /\ m.sb \in Nat
    BY <1>3, Fields
  <1>5. /\ m' \in Counters /\ m'.pos = m.pos + 1 /\ m'.w = m.w + 1
        /\ m'.part = m.part /\ m'.sb = m.sb /\ m'.e = m.e
    <2>1. m \in Counters /\ m.pos + 1 \in Nat /\ m.w + 1 \in Nat /\ 0 \in 0..ImageLen+1
      BY <1>3, Counting
    <2> QED
      BY <1>1, <2>1 DEF Counters
  <1>6. /\ flash' \in [Blocks -> Contents]
        /\ \A x \in Blocks : x # At(m.pos) => flash'[x] = flash[x]
    BY <1>1, <1>3, <1>4, AfterWrite, DataTyped
  <1>7. TypeOK'
    BY <1>1, <1>2, <1>3, <1>5, <1>6 DEF TypeOK
  <1>8. BufferInv' /\ Jffs2Inv' /\ FixInv' /\ FlagInv'
    BY <1>1, <1>2 DEF MtdInv, BufferInv, Jffs2Inv, FixInv, FlagInv, Holding, Closing
  <1>9. Ordinary' /\ bad' # {} =>
          /\ Ordinary /\ bad # {} /\ Good(m.pos)
          /\ m.pos + 1 = m.e /\ m.e = m.w + m.sb + 1
    BY <1>1, <1>2, <1>5 DEF MtdInv, PosInv, Ordinary
  <1>10. PosInv'
    <2>1. Ordinary' /\ bad' # {} => m'.pos = m'.e /\ m'.e = m'.w + m'.sb
      BY <1>4, <1>5, <1>9
    <2> QED
      BY <1>1, <2>1 DEF PosInv
  <1>11. BadUntouched'
    <2> SUFFICES ASSUME Ordinary', NEW x \in bad'
                 PROVE  flash'[x] = Old
      BY DEF BadUntouched
    <2>1. flash[x] = Old /\ x \in Blocks /\ x # At(m.pos)
      BY <1>2, <1>3, <1>9 DEF MtdInv, BadUntouched, TypeOK, Good
    <2> QED
      BY <1>6, <2>1
  <1> QED
    BY <1>1, <1>7, <1>8, <1>10, <1>11, FlagFollows DEF MtdInv

\* pad() erases the block it is going to write.
LEMMA PadEraseStep ==
  ASSUME MtdInv, pad_erase
  PROVE  MtdInv'
  <1>1. /\ pc = "jffs2" /\ pc' = "jffs2_write" /\ flash' = erased(j.mtdofs)
        /\ ~BadUnknown(j.mtdofs) /\ ~mtd_block_is_bad(j.mtdofs)
        /\ UNCHANGED <<chip, flag, status, m, img, jffs2file, jffs2_replaced, j>>
        /\ failed' \in {failed, failed \cup {"jffs2"}}
    BY DEF pad_erase
  <1>2. /\ UNCHANGED <<job, opt, bad, worn>> /\ Sizes' = Sizes
        /\ Blocks' = Blocks /\ Contents' = Contents /\ Counters' = Counters
        /\ ImageLen' = ImageLen /\ ConfLen' = ConfLen /\ Nand' = Nand /\ Seama' = Seama
    BY <1>1, SameChip
  <1>3. TypeOK /\ j.mtdofs \in Nat
    BY Fields DEF MtdInv
  <1>4. /\ flash' \in [Blocks -> Contents]
        /\ \A x \in Blocks : flash'[x] = IF x = At(j.mtdofs) /\ Erasable(j.mtdofs)
                                         THEN Erased ELSE flash[x]
    BY <1>1, <1>3, AfterErase
  <1>5. TypeOK'
    BY <1>1, <1>2, <1>3, <1>4 DEF TypeOK
  <1>6. BufferInv' /\ Jffs2Inv' /\ FixInv' /\ FlagInv'
    BY <1>1, <1>2 DEF MtdInv, BufferInv, Jffs2Inv, FixInv, FlagInv, Holding, Closing
  <1>7. PosInv'
    <2> SUFFICES ASSUME Ordinary', bad' # {}
                 PROVE  /\ m.pos = j.mtdofs /\ m.e = m.w + m.sb
                        /\ Good(m.pos) /\ Inside(m.pos)
      BY <1>1, <1>2 DEF PosInv, Good, Inside, At
    <2>1. m.pos = j.mtdofs /\ m.e = m.w + m.sb
      BY <1>1, <1>2 DEF MtdInv, PosInv, Ordinary
    <2>2. Nand
      BY <1>2, <1>3 DEF TypeOK
    <2> QED
      BY <1>1, <2>1, <2>2 DEF BadUnknown, mtd_block_is_bad, Good
  <1>8. BadUntouched'
    <2>1. \A x \in bad : flash'[x] = flash[x]
      BY <1>3, <1>4 DEF TypeOK, Erasable
    <2> QED
      BY <1>1, <1>2, <2>1 DEF MtdInv, BadUntouched, Ordinary
  <1> QED
    BY <1>1, <1>5, <1>6, <1>7, <1>8, FlagFollows DEF MtdInv

\* pad() writes a block of jffs2 data.
LEMMA PadWriteStep ==
  ASSUME MtdInv, pad_write
  PROVE  MtdInv'
  <1> DEFINE pos == IF Inside(m.pos) THEN m.pos + 1 ELSE m.pos
  <1>1. /\ pc = "jffs2_write" /\ pc' = IF j.n + 1 = ConfLen THEN "jffs2_end" ELSE "jffs2"
        /\ flash' = written(flash, m.pos, <<"conf", j.n + 1>>)
        /\ UNCHANGED <<chip, flag, status, img, jffs2file, jffs2_replaced, failed>>
        /\ m' = [m EXCEPT !.pos = pos]
        /\ j' = [mtdofs |-> j.mtdofs + 1, n |-> j.n + 1]
    BY DEF pad_write
  <1>2. /\ UNCHANGED <<job, opt, bad, worn>> /\ Sizes' = Sizes
        /\ Blocks' = Blocks /\ Contents' = Contents /\ Counters' = Counters
        /\ ImageLen' = ImageLen /\ ConfLen' = ConfLen /\ Nand' = Nand /\ Seama' = Seama
    BY <1>1, SameChip
  <1>3. TypeOK
    BY DEF MtdInv
  <1>4. /\ j.mtdofs \in Nat /\ j.n \in Nat /\ ConfLen \in Nat /\ m.pos \in Nat /\ m.e \in Nat
        /\ j.n < ConfLen /\ j.mtdofs >= m.e
    BY <1>1, <1>3, Fields DEF MtdInv, Jffs2Inv
  <1>5. /\ j.n + 1 \in 1..ConfLen /\ j.n + 1 \in 0..ConfLen /\ j.mtdofs + 1 \in Nat
        /\ pos \in Nat /\ j.mtdofs + 1 >= m.e
        /\ j.n + 1 # ConfLen => j.n + 1 < ConfLen
    BY <1>4
  <1> HIDE DEF pos
  <1>6. /\ m' \in Counters /\ m'.pos = pos
        /\ m'.part = m.part /\ m'.e = m.e /\ m'.sb = m.sb /\ m'.w = m.w /\ m'.buf = m.buf
    <2>1. m \in Counters
      BY <1>3, Counting
    <2> QED
      BY <1>1, <1>5, <2>1 DEF Counters
  <1>7. /\ j' \in [mtdofs : Nat, n : 0..ConfLen]
        /\ j'.n = j.n + 1 /\ j'.mtdofs = j.mtdofs + 1
    BY <1>1, <1>5
  <1>8. /\ flash' \in [Blocks -> Contents]
        /\ \A x \in Blocks : x # At(m.pos) => flash'[x] = flash[x]
    <2>1. <<"conf", j.n + 1>> \in Contents
      BY <1>5 DEF Contents
    <2> QED
      BY <1>1, <1>3, <1>4, <2>1, AfterWrite
  <1>9. TypeOK'
    BY <1>1, <1>2, <1>3, <1>6, <1>7, <1>8 DEF TypeOK
  <1>10. BufferInv' /\ FixInv' /\ FlagInv'
    BY <1>1, <1>2, <1>6 DEF MtdInv, BufferInv, FixInv, FlagInv, Holding, Closing
  <1>11. Jffs2Inv'
    <2>1. j'.mtdofs >= m'.e /\ (pc' = "jffs2" => j'.n < ConfLen')
      BY <1>1, <1>2, <1>5, <1>6, <1>7
    <2> QED
      BY <1>1, <2>1 DEF Jffs2Inv
  <1>12. Ordinary' /\ bad' # {} =>
           /\ Ordinary /\ bad # {} /\ Good(m.pos) /\ Inside(m.pos)
           /\ m.pos = j.mtdofs /\ m.e = m.w + m.sb
    BY <1>1, <1>2, <1>6 DEF MtdInv, PosInv, Ordinary
  <1>13. PosInv'
    <2>1. Ordinary' /\ bad' # {} => m'.pos = j'.mtdofs /\ m'.e = m'.w + m'.sb
      BY <1>6, <1>7, <1>12 DEF pos
    <2> QED
      BY <1>1, <2>1 DEF PosInv
  <1>14. BadUntouched'
    <2> SUFFICES ASSUME Ordinary', NEW x \in bad'
                 PROVE  flash'[x] = Old
      BY DEF BadUntouched
    <2>1. flash[x] = Old /\ x \in Blocks /\ x # At(m.pos)
      BY <1>2, <1>3, <1>12 DEF MtdInv, BadUntouched, TypeOK, Good
    <2> QED
      BY <1>8, <2>1
  <1> QED
    BY <1>1, <1>9, <1>10, <1>11, <1>13, <1>14, FlagFollows DEF MtdInv

\* The block with the header is erased.
LEMMA FixEraseStep ==
  ASSUME MtdInv, fixseama_erase
  PROVE  MtdInv'
  <1>1. /\ pc = "fix"
        /\ UNCHANGED <<chip, flag, m, img, jffs2file, jffs2_replaced, j, failed>>
    BY DEF fixseama_erase
  <1>2. CASE Exit(1) /\ UNCHANGED flash
    BY <1>1, <1>2, Exits
  <1>3. CASE /\ Erasable(0) /\ flash' = erased(0) /\ pc' = "fix_write" /\ UNCHANGED status
    <2>1. /\ UNCHANGED <<job, opt, bad, worn>>
          /\ Blocks' = Blocks /\ Contents' = Contents /\ Counters' = Counters
          /\ ImageLen' = ImageLen /\ ConfLen' = ConfLen /\ Nand' = Nand /\ Seama' = Seama
      BY <1>1, SameChip
    <2>2. TypeOK
      BY DEF MtdInv
    <2>3. /\ flash' \in [Blocks -> Contents]
          /\ \A x \in Blocks : flash'[x] = IF x = At(0) THEN Erased ELSE flash[x]
      BY <1>3, <2>2, AfterErase
    <2>4. At(0) \in Blocks /\ Good(0)
      BY <1>3, <2>2, OpenBlocks DEF Erasable, Good
    <2>5. TypeOK'
      BY <1>1, <1>3, <2>1, <2>2, <2>3 DEF TypeOK
    <2>6. BufferInv' /\ Jffs2Inv' /\ FlagInv'
      BY <1>1, <1>3, <2>1 DEF MtdInv, BufferInv, Jffs2Inv, FlagInv, Holding, Closing
    <2>7. FixInv'
      BY <1>1, <1>3, <2>1, <2>3, <2>4 DEF MtdInv, FixInv, At
    <2>8. PosInv'
      BY <1>1, <1>3, <2>1, <2>4 DEF PosInv, Good, At
    <2>9. BadUntouched'
      <3>1. \A x \in bad : flash'[x] = flash[x]
        BY <2>2, <2>3, <2>4 DEF TypeOK, Good
      <3> QED
        BY <1>1, <2>1, <3>1 DEF MtdInv, BadUntouched, Ordinary
    <2> QED
      BY <1>3, <2>5, <2>6, <2>7, <2>8, <2>9, FlagFollows DEF MtdInv
  <1> QED
    BY <1>2, <1>3 DEF fixseama_erase

\* The header is written with the new checksum.
LEMMA FixWriteStep ==
  ASSUME MtdInv, fixseama_write
  PROVE  MtdInv'
  <1>1. /\ pc = "fix_write" /\ pc' = "close" /\ flash' = written(flash, 0, <<"fixed", 1>>)
        /\ UNCHANGED <<chip, flag, status, m, img, jffs2file, jffs2_replaced, j, failed>>
    BY DEF fixseama_write
  <1>2. /\ UNCHANGED <<job, opt, bad, worn>>
        /\ Blocks' = Blocks /\ Contents' = Contents /\ Counters' = Counters
        /\ ImageLen' = ImageLen /\ ConfLen' = ConfLen /\ Nand' = Nand /\ Seama' = Seama
    BY <1>1, SameChip
  <1>3. TypeOK
    BY DEF MtdInv
  <1>4. At(0) \in Blocks
    <2>1. Sizes[m.part] \in Nat \ {0}
      BY <1>3, Fields
    <2>2. Inside(0)
      BY <2>1 DEF Inside
    <2> QED
      BY <1>3, <2>2, OpenBlocks
  <1>5. /\ flash' \in [Blocks -> Contents]
        /\ \A x \in Blocks :
             flash'[x] = IF x = At(0) THEN IF flash[x] = Erased THEN <<"fixed", 1>> ELSE Mixed
                         ELSE flash[x]
    <2>1. <<"fixed", 1>> \in Contents
      BY DEF Contents
    <2> QED
      BY <1>1, <1>3, <2>1, AfterWrite
  <1>6. TypeOK'
    BY <1>1, <1>2, <1>3, <1>5 DEF TypeOK
  <1>7. BufferInv' /\ Jffs2Inv' /\ PosInv' /\ FlagInv'
    BY <1>1, <1>2 DEF MtdInv, BufferInv, Jffs2Inv, PosInv, FlagInv, Holding, Closing
  <1>8. FixInv'
    BY <1>1, <1>2, <1>4, <1>5 DEF MtdInv, FixInv, HeaderFixed, HeaderDone, At
  <1>9. BadUntouched'
    <2> SUFFICES ASSUME Ordinary', NEW x \in bad'
                 PROVE  flash'[x] = Old
      BY DEF BadUntouched
    <2>1. flash[x] = Old /\ x \in Blocks /\ x # At(0)
      BY <1>1, <1>2, <1>3 DEF MtdInv, BadUntouched, TypeOK, PosInv, Ordinary, Good
    <2> QED
      BY <1>5, <2>1
  <1> QED
    BY <1>1, <1>6, <1>7, <1>8, <1>9, FlagFollows DEF MtdInv

\* The checksum of the header cannot be computed.
LEMMA GivesUpStep ==
  ASSUME MtdInv, fixseama_gives_up
  PROVE  MtdInv'
  <1>1. /\ pc = "fix" /\ pc' = "close" /\ failed' = failed \cup {"header"}
        /\ UNCHANGED <<chip, flash, flag, status, m, img, jffs2file, jffs2_replaced, j>>
    BY DEF fixseama_gives_up
  <1>2. /\ UNCHANGED <<job, opt, bad, worn>>
        /\ Blocks' = Blocks /\ Contents' = Contents /\ Counters' = Counters
        /\ ImageLen' = ImageLen /\ ConfLen' = ConfLen /\ Nand' = Nand /\ Seama' = Seama
    BY <1>1, SameChip
  <1>3. TypeOK'
    BY <1>1, <1>2 DEF MtdInv, TypeOK
  <1>4. BufferInv' /\ Jffs2Inv' /\ PosInv' /\ FlagInv'
    BY <1>1, <1>2 DEF MtdInv, BufferInv, Jffs2Inv, PosInv, FlagInv, Holding, Closing
  <1>5. FixInv'
    BY <1>1 DEF FixInv, HeaderFixed, HeaderDone
  <1> QED
    BY <1>1, <1>3, <1>4, <1>5, FlashKept

\* The driver fails to write a block of the image, or the header.
LEMMA BrokenWrite ==
  ASSUME MtdInv, NEW b \in Nat,
         (pc = "write" /\ b = m.pos) \/ (pc = "fix_write" /\ b = 0),
         flash' \in {flash, written(flash, b, Garbage)}, Exit(1),
         UNCHANGED <<chip, flag, m, img, jffs2file, jffs2_replaced, j, failed>>
  PROVE  MtdInv'
  <1>1. /\ UNCHANGED <<job, opt, bad, worn>>
        /\ Blocks' = Blocks /\ Contents' = Contents /\ Counters' = Counters
        /\ ImageLen' = ImageLen /\ ConfLen' = ConfLen /\ Nand' = Nand /\ Seama' = Seama
    BY SameChip
  <1>2. TypeOK /\ pc' = "done" /\ status' = 1
    BY DEF MtdInv, Exit
  <1>3. flash' \in [Blocks -> Contents] /\ \A x \in Blocks : x # At(b) => flash'[x] = flash[x]
    <2>1. Garbage \in Contents
      BY DEF Contents
    <2>2. /\ written(flash, b, Garbage) \in [Blocks -> Contents]
          /\ \A x \in Blocks : x # At(b) => written(flash, b, Garbage)[x] = flash[x]
      BY <1>2, <2>1, AfterWrite
    <2>3. flash \in [Blocks -> Contents]
      BY <1>2 DEF TypeOK
    <2> QED
      BY <2>2, <2>3
  <1>4. TypeOK'
    BY <1>1, <1>2, <1>3 DEF TypeOK
  <1>5. BufferInv' /\ Jffs2Inv' /\ PosInv' /\ FixInv' /\ FlagInv'
    BY <1>2 DEF BufferInv, Jffs2Inv, PosInv, FixInv, FlagInv, Holding, Closing
  <1>6. FlagUntilEnd'
    BY <1>1 DEF MtdInv, FlagInv, FlagUntilEnd, Holding
  <1>7. BadUntouched'
    <2> SUFFICES ASSUME Ordinary', NEW x \in bad'
                 PROVE  flash'[x] = Old
      BY DEF BadUntouched
    <2>1. flash[x] = Old /\ x \in Blocks /\ x # At(b)
      BY <1>1, <1>2 DEF MtdInv, BadUntouched, TypeOK, PosInv, Ordinary, Good
    <2> QED
      BY <1>3, <2>1
  <1> QED
    BY <1>4, <1>5, <1>6, <1>7 DEF MtdInv

\* mtd_write() and seama_fix_md5() end the program there.
LEMMA BrokenWriteStep ==
  ASSUME MtdInv, write_fails \/ fixseama_write_fails
  PROVE  MtdInv'
  <1>1. m.pos \in Nat
    BY Fields DEF MtdInv
  <1> QED
    BY <1>1, BrokenWrite DEF write_fails, fixseama_write_fails

-----------------------------------------------------------------------------
(***************************************************************************)
(* The theorems.                                                           *)
(***************************************************************************)

\* The invariant holds at first.
LEMMA MtdInit ==
  ASSUME Init
  PROVE  MtdInv
  <1>1. /\ job \in Jobs /\ opt \in Options
        /\ bad \subseteq Blocks /\ worn \subseteq Blocks \ bad /\ (bad # {} => Nand)
        /\ flash = [x \in Blocks |-> Old] /\ flag = "none" /\ status = -1
        /\ pc = (IF opt.erase THEN "erase_first" ELSE "resume")
        /\ m = [part |-> 1, pos |-> 0, w |-> 0, e |-> 0, skip |-> 0, offset |-> 0,
                sb |-> 0, buf |-> 0]
        /\ img = 0 /\ jffs2file = opt.jffs2 /\ jffs2_replaced = FALSE
        /\ j = [mtdofs |-> 0, n |-> 0] /\ failed = {}
    BY DEF Init
  <1>2. /\ job.sizes \in Seq(Nat \ {0}) /\ job.sizes # <<>> /\ opt.jffs2 \in BOOLEAN
        /\ job.image \in Nat /\ job.conf \in Nat
    BY <1>1, MtdAssumption DEF MtdAssumption
  <1>3. 1 \in Parts
    BY <1>2 DEF Parts, Sizes
  <1>4. /\ 0 \in 0..ImageLen+1 /\ 0 \in 0..ImageLen /\ 0 \in 0..ConfLen
        /\ 0 \in Nat /\ 0 \in Int
    BY <1>2 DEF ImageLen, ConfLen
  <1>5. m \in Counters /\ j \in [mtdofs : Nat, n : 0..ConfLen] /\ m.sb = 0
    BY <1>1, <1>3, <1>4 DEF Counters
  <1>6. flash \in [Blocks -> Contents]
    <2>1. Old \in Contents
      BY DEF Contents
    <2> QED
      BY <1>1, <2>1
  <1>7. TypeOK
    BY <1>1, <1>2, <1>4, <1>5, <1>6 DEF TypeOK
  <1>8. Untouched
    BY <1>1 DEF Untouched
  <1>9. BufferInv /\ Jffs2Inv /\ PosInv /\ FixInv
    BY <1>1, <1>5 DEF BufferInv, Jffs2Inv, PosInv, FixInv, Holding, Closing
  <1>10. FlagInv /\ FlagUntilEnd
    BY <1>1, <1>8 DEF FlagInv, FlagUntilEnd, Holding
  <1>11. BadUntouched
    BY <1>1 DEF BadUntouched
  <1> QED
    BY <1>7, <1>9, <1>10, <1>11 DEF MtdInv

\* mtd_write() of any image to any partitions: the file pointer, the offset
\* of the erases and the count of bad blocks go together, and the recovery
\* flag is set whenever the flash is neither old nor complete.  What it says of
\* the header is only promised when seama_fix_md5() could compute the checksum.
THEOREM MtdInvariant == Spec => []MtdInv
<1>1. Init => MtdInv
  BY MtdInit
<1>2. MtdInv /\ [Next]_vars => MtdInv'
  <2> SUFFICES ASSUME MtdInv, [Next]_vars
               PROVE  MtdInv'
    OBVIOUS
  <2>1. CASE mtd_erase
    BY <2>1, EraseFirstStep
  <2>2. CASE resume
    BY <2>2, ResumeStep
  <2>3. CASE recoverflag_erase \/ recoverflag_write
    BY <2>3, FlagEraseStep, FlagWriteStep
  <2>4. CASE Read \/ Got
    BY <2>4, ReadStep, GotStep
  <2>5. CASE Erase
    <3>1. CASE erase_status_unknown \/ erase_fails
      BY <3>1, Exits DEF erase_status_unknown, erase_fails
    <3> QED
      BY <2>5, <3>1, EraseEndStep, EraseSkipStep, EraseBlockStep, EraseNextStep DEF Erase
  <2>6. CASE Write
    <3>1. CASE write_no_space
      BY <3>1, Exits DEF write_no_space
    <3> QED
      BY <2>6, <3>1, WriteStep, BrokenWriteStep DEF Write
  <2>7. CASE Jffs2
    <3>1. CASE pad_status_unknown
      BY <3>1, Exits DEF pad_status_unknown
    <3> QED
      BY <2>7, <3>1, PadSkipStep, PadEraseStep, PadWriteStep, ReplacedStep DEF Jffs2
  <2>8. CASE Ends
    BY <2>8, EndStep, GivesUpStep, FixEraseStep, FixWriteStep, BrokenWriteStep, CloseStep
       DEF Ends
  <2>9. CASE UNCHANGED vars
    <3>1. /\ UNCHANGED <<chip, flash, flag, pc, status, m, img, jffs2file, jffs2_replaced, j>>
          /\ failed' = failed
      BY <2>9 DEF vars, chip
    <3>2. /\ UNCHANGED <<job, opt, bad, worn>> /\ Sizes' = Sizes
          /\ Blocks' = Blocks /\ Contents' = Contents /\ Counters' = Counters
          /\ ImageLen' = ImageLen /\ ConfLen' = ConfLen /\ Nand' = Nand /\ Seama' = Seama
      BY <3>1, SameChip
    <3>3. TypeOK' /\ BufferInv' /\ Jffs2Inv'
      BY <3>1, <3>2 DEF MtdInv, TypeOK, BufferInv, Jffs2Inv
    <3>4. PosInv' /\ FixInv' /\ BadUntouched'
      BY <3>1, <3>2 DEF MtdInv, PosInv, FixInv, HeaderFixed, HeaderDone, BadUntouched,
                        Ordinary, Good, Inside, At
    <3>5. FlagInv' /\ FlagUntilEnd'
      BY <3>1, <3>2 DEF MtdInv, FlagInv, FlagUntilEnd, HeaderFixed, HeaderDone, Untouched, At
    <3> QED
      BY <3>3, <3>4, <3>5 DEF MtdInv
  <2> QED
    BY <2>1, <2>2, <2>3, <2>4, <2>5, <2>6, <2>7, <2>8, <2>9 DEF Next
<1> QED
  BY <1>1, <1>2, PTL DEF Spec

\* The counters of mtd_write() stay in range, and no block that
\* mtd_block_is_bad() reports is erased or written.
THEOREM BadBlocksSafe == Spec => []FlashOK
<1>1. MtdInv => FlashOK
  BY DEF MtdInv, FlashOK
<1> QED
  BY <1>1, MtdInvariant, PTL

\* With -t and without -e the recovery flag covers every power cut until the
\* last block of the image is written and mtd_fixseama() is done; then the
\* header is fixed, unless seama_fix_md5() could not compute its checksum and
\* mtd_fixseama() reported nothing of it (seama.c:162).
THEOREM FlagCoversWriting == Spec => []FlagUntilEnd
<1>1. MtdInv => FlagUntilEnd
  BY DEF MtdInv
<1> QED
  BY <1>1, MtdInvariant, PTL

-----------------------------------------------------------------------------
(***************************************************************************)
(* What is on the flash.  The inductive invariant, for the options the     *)
(* code handles and as long as nothing but the checksum for the header has *)
(* failed unseen.                                                          *)
(***************************************************************************)
Clear   == Ordinary /\ failed \subseteq {"header"}
Padding == {"jffs2", "jffs2_write", "jffs2_end"}

\* The file pointer is at the block that is erased next ...
AtFront == /\ m.pos = m.w + m.sb + opt.part_offset
           /\ opt.no_erase \/ m.e = m.w + m.sb

\* ... or that block is erased and good.
Ready == /\ m.pos = m.w + m.sb + opt.part_offset
         /\ m.e = m.w + m.sb + 1
         /\ Inside(m.pos) /\ Good(m.pos) /\ flash[At(m.pos)] = Erased

FrontInv ==
  /\ bad = {} => m.sb = 0
  /\ Clear =>
       /\ m.offset = 0
       /\ opt.no_erase /\ pc # "erase_first" => \A x \in Blocks : flash[x] # Old
       /\ pc \in {"erase_first", "resume"} => m.sb = 0
       /\ pc \in {"flag_erase", "flag_write", "read", "got"} => AtFront
       /\ pc = "erase" => ~opt.no_erase /\ (AtFront \/ Ready)
       /\ pc = "write" => (opt.no_erase /\ AtFront) \/ Ready
       /\ pc \in Padding => m.pos = j.mtdofs /\ m.e = m.w + m.sb
       /\ pc = "jffs2_write" =>
            Inside(m.pos) /\ Good(m.pos) /\ flash[At(m.pos)] = Erased

\* New data are behind the file pointer, and not before the offset of -p.
BehindInv ==
  Clear =>
    /\ \A x \in New : x[2] >= opt.part_offset
    /\ pc = "erase_first" => New = {}
    /\ pc = "resume" => \A x \in New : x[1] < m.part
    /\ pc \in {"flag_erase", "flag_write", "read"} \cup Holding
         => \A x \in New : Before(x, At(m.pos))

\* Blocks of the image that are written or skipped, and of the configuration.
Done  == IF m.buf = 0 THEN img ELSE img - 1
Confs == IF jffs2_replaced THEN ConfLen ELSE IF pc \in Padding THEN j.n ELSE 0

\* The configuration replaces the marker once, when it comes; the buffer holds
\* the block read last; no block is written while some are to be skipped.
ReadInv ==
  Clear =>
    /\ m.buf # 0 => m.buf = img
    /\ m.skip >= 0
    /\ jffs2file <=> opt.jffs2 /\ ~jffs2_replaced
    /\ jffs2_replaced => opt.jffs2 /\ Eof # 0 /\ Done >= Eof
    /\ ~jffs2_replaced \/ pc \in {"erase", "write"} => m.skip = 0
    /\ pc \in Padding => jffs2file /\ m.buf = Eof
    /\ pc = "jffs2_end" => j.n = ConfLen
    /\ jffs2file /\ Eof # 0 =>
         Done < Eof /\ (pc \in {"erase", "write"} => m.buf # Eof)

\* The bad blocks the configuration went around.
Passed == {x \in bad : x[1] = m.part /\ m.e <= x[2] /\ x[2] < j.mtdofs}

SkipInv ==
  /\ IsFiniteSet(bad)
  /\ Clear /\ pc \in Padding => j.mtdofs = m.e + j.n + Cardinality(Passed)

\* The block at which the image goes on behind the configuration.
Resumes(k) ==
  /\ k \in Eof + ConfLen .. Eof + ConfLen + Cardinality(bad)
  /\ jffs2_replaced => /\ m.skip > 0 => k = Done + 1 + m.skip
                       /\ m.skip = 0 => k <= Done + 1

\* What has to be on the flash by now.
Due(k) == {<<"img", i>> : i \in {n \in 1..Done : jffs2_replaced => n < Eof \/ n >= k}}
          \cup Conf(Confs)

DataInv ==
  Clear /\ pc \notin {"fix_write", "close", "clear_erase", "clear_write", "done"}
    => \E k : Resumes(k) /\ Holds(Due(k))

\* While the header is rewritten everything else is there.
HeaderInv ==
  Clear /\ pc = "fix_write" =>
    /\ Eof > 1
    /\ \A x \in New : Before(At(0), x)
    /\ \E k : Resumes(k) /\ Holds(Due(k) \ {<<"img", 1>>})

EndInv ==
  Clear /\ pc \in {"close", "clear_erase", "clear_write"} => Whole

InstallInv ==
  /\ FrontInv /\ BehindInv /\ ReadInv /\ SkipInv /\ DataInv /\ HeaderInv /\ EndInv
  /\ Installed /\ RecoveryCovers

-----------------------------------------------------------------------------
(***************************************************************************)
(* Facts about the blocks and their order.                                 *)
(***************************************************************************)

\* A block is a partition and a number.
LEMMA BlockShape ==
  ASSUME TypeOK, NEW x \in Blocks
  PROVE  /\ x = <<x[1], x[2]>> /\ x[1] \in Nat /\ x[2] \in Nat
         /\ x[1] = m.part => x = At(x[2])
  <1>0. PICK p \in Parts : x \in {<<p, b>> : b \in 0..Sizes[p]-1}
    BY DEF Blocks
  <1>1. PICK b \in 0..Sizes[p]-1 : x = <<p, b>>
    BY <1>0
  <1>2. Parts = 1..Len(Sizes) /\ Len(Sizes) \in Nat /\ Sizes \in Seq(Nat \ {0})
    BY Fields
  <1>3. p \in Nat /\ Sizes[p] \in Nat
    BY <1>2
  <1> QED
    BY <1>1, <1>3 DEF At

\* The order of the blocks is strict and total.
LEMMA BlockOrder ==
  ASSUME TypeOK, NEW x \in Blocks, NEW y \in Blocks
  PROVE  /\ ~(Before(x, y) /\ Before(y, x))
         /\ x = y \/ Before(x, y) \/ Before(y, x)
         /\ ~Before(x, x)
  <1>1. /\ x = <<x[1], x[2]>> /\ x[1] \in Nat /\ x[2] \in Nat
        /\ y = <<y[1], y[2]>> /\ y[1] \in Nat /\ y[2] \in Nat
    BY BlockShape
  <1>2. x[1] = y[1] /\ x[2] = y[2] => x = y
    BY <1>1
  <1> HIDE DEF Before
  <1> QED
    BY <1>1, <1>2 DEF Before

\* What the number of the bad blocks is.
LEMMA BadCount ==
  ASSUME IsFiniteSet(bad)
  PROVE  Cardinality(bad) \in Nat
  BY FS_CardinalityType

\* The data stay where no block with new data is touched.
LEMMA DataKept ==
  ASSUME UNCHANGED chip, NEW k,
         \A x \in Blocks \ bad :
           flash'[x] = flash[x] \/ {flash[x], flash'[x]} \subseteq {Old, Erased}
  PROVE  /\ New' = New /\ \A x \in New : flash'[x] = flash[x]
         /\ Holds(Due(k)) /\ Due(k)' = Due(k) => Holds(Due(k))'
         /\ Holds(Due(k) \ {<<"img", 1>>}) /\ Due(k)' = Due(k)
              => Holds(Due(k) \ {<<"img", 1>>})'
  <1>1. Blocks' = Blocks /\ bad' = bad /\ Eof' = Eof /\ ConfLen' = ConfLen
    BY SameChip
  <1>2. New' = New /\ \A x \in New : flash'[x] = flash[x]
    BY <1>1 DEF New
  <1>3. {flash[x] : x \in New}' = {flash[x] : x \in New}
    BY <1>2
  <1>4. \A x \in New : Rank(flash[x])' = Rank(flash[x])
    BY <1>1, <1>2 DEF Rank
  <1> QED
    BY <1>2, <1>3, <1>4 DEF Holds, Before

\* An earlier state was clear as well.
LEMMA ClearBefore ==
  ASSUME TypeOK, UNCHANGED chip, m'.part \in Nat, m'.part >= m.part,
         failed \subseteq failed', Clear'
  PROVE  Clear
  <1>1. UNCHANGED <<opt, bad, worn>>
    BY SameChip
  <1>2. m.part \in Nat /\ m.part >= 1
    <2>1. m.part \in 1..Len(Sizes) /\ Len(Sizes) \in Nat
      BY Fields
    <2> QED
      BY <2>1
  <1> QED
    BY <1>1, <1>2 DEF Clear, Ordinary

\* For a step that does not end the program the two properties follow.
LEMMA NotExit ==
  ASSUME MtdInv', pc' # "done", FrontInv', BehindInv', ReadInv', SkipInv', DataInv',
         HeaderInv', EndInv'
  PROVE  InstallInv'
  <1>1. Installed'
    BY DEF MtdInv, TypeOK, Installed
  <1>2. RecoveryCovers'
    <2> SUFFICES ASSUME (opt.recover /\ ~opt.erase /\ Clear)', flag' # "recover"
                 PROVE  Untouched' \/ Whole'
      BY DEF RecoveryCovers, Untouched, Clear
    <2>1. pc' \in {"resume", "flag_erase", "flag_write", "clear_write"}
      BY DEF MtdInv, FlagInv
    <2>2. pc' # "clear_write" => Untouched'
      BY <2>1 DEF MtdInv, FlagInv
    <2>3. pc' = "clear_write" => Whole'
      BY DEF EndInv
    <2> QED
      BY <2>2, <2>3
  <1> QED
    BY <1>1, <1>2 DEF InstallInv

-----------------------------------------------------------------------------
(***************************************************************************)
(* Steps that leave the flash alone.                                       *)
(***************************************************************************)

\* Nothing but the place in the program changes, and the program goes on.
LEMMA Moves ==
  ASSUME MtdInv, MtdInv', InstallInv, pc' # "done", pc # "erase_first", pc # "done",
         UNCHANGED <<chip, flash, m, img, jffs2file, jffs2_replaced, failed>>,
         pc' \in Padding \/ pc \in Padding => j' = j,
         pc \in Padding <=> pc' \in Padding,
         FrontInv', BehindInv', ReadInv', HeaderInv', EndInv',
         pc \notin {"fix_write", "close", "clear_erase", "clear_write"}
           \/ pc' \in {"fix_write", "close", "clear_erase", "clear_write"}
  PROVE  InstallInv'
  <1>1. /\ UNCHANGED <<job, opt, bad, worn>> /\ Blocks' = Blocks
        /\ ConfLen' = ConfLen /\ Eof' = Eof /\ (Clear' <=> Clear)
    BY SameChip DEF Clear, Ordinary
  <1>2. SkipInv'
    BY <1>1 DEF InstallInv, SkipInv, Passed
  <1>3. \A k : Due(k)' = Due(k) /\ (Resumes(k)' <=> Resumes(k))
    <2>1. Done' = Done
      BY DEF Done
    <2>2. Confs' = Confs
      BY <1>1 DEF Confs
    <2>3. \A k : (Resumes(k)' <=> Resumes(k))
      BY <1>1, <2>1 DEF Resumes
    <2>4. \A k : Due(k)' = Due(k)
      BY <1>1, <2>1, <2>2 DEF Due, Conf
    <2> QED
      BY <2>3, <2>4
  <1>4. DataInv'
    <2>1. \A k : Holds(Due(k)) => Holds(Due(k))'
      BY <1>3, DataKept
    <2> QED
      BY <1>1, <1>3, <2>1 DEF InstallInv, DataInv
  <1> QED
    BY <1>2, <1>4, NotExit

\* mtd_write() gives up or ends.
LEMMA ExitsInstalled ==
  ASSUME MtdInv, MtdInv', InstallInv, NEW s \in {0, 1}, Exit(s), pc # "erase_first",
         UNCHANGED <<chip, flash, flag, m, img, jffs2file, jffs2_replaced, failed>>,
         s = 0 => pc \in {"close", "clear_write"}
  PROVE  InstallInv'
  <1>1. /\ UNCHANGED <<job, opt, bad, worn>> /\ Blocks' = Blocks /\ Sizes' = Sizes
        /\ ConfLen' = ConfLen /\ Eof' = Eof /\ ImageLen' = ImageLen /\ Seama' = Seama
    BY SameChip
  <1>2. pc' = "done" /\ status' = s
    BY DEF Exit
  <1>3. (Clear' <=> Clear) /\ New' = New
    BY <1>1 DEF Clear, Ordinary, New
  <1>4. FrontInv'
    BY <1>1, <1>2, <1>3 DEF InstallInv, FrontInv, Padding
  <1>5. BehindInv'
    BY <1>1, <1>2, <1>3 DEF InstallInv, BehindInv, Holding
  <1>6. ReadInv'
    BY <1>1, <1>2, <1>3 DEF InstallInv, ReadInv, Padding, Done
  <1>7. SkipInv' /\ DataInv' /\ HeaderInv' /\ EndInv'
    BY <1>1, <1>2 DEF InstallInv, SkipInv, DataInv, HeaderInv, EndInv, Padding
  <1>8. Whole' <=> Whole
    BY <1>1, <1>3 DEF Whole, Holds, Rank, Before, Img, Conf, HeaderDone
  <1>9. Installed'
    <2>1. SUFFICES ASSUME s = 0, Clear
                   PROVE  /\ Whole
                          /\ jffs2_replaced <=> opt.jffs2 /\ Eof # 0
                          /\ \A x \in New : x[2] >= opt.part_offset
      BY <1>1, <1>2, <1>3, <1>8 DEF Installed, Clear
    <2>2. Whole
      BY <2>1 DEF InstallInv, EndInv
    <2>3. \A x \in New : x[2] >= opt.part_offset
      BY <2>1 DEF InstallInv, BehindInv
    <2>4. Done = ImageLen
      BY <2>1 DEF MtdInv, BufferInv, Closing, Done
    <2>5. ~(jffs2file /\ Eof # 0)
      <3>1. Eof \in 0..ImageLen /\ ImageLen \in Nat
        BY Fields DEF MtdInv
      <3>2. jffs2file /\ Eof # 0 => Done < Eof
        BY <2>1 DEF InstallInv, ReadInv
      <3> QED
        BY <2>4, <3>1, <3>2
    <2> QED
      BY <2>1, <2>2, <2>3, <2>5 DEF InstallInv, ReadInv
  <1>10. RecoveryCovers'
    BY <1>1, <1>3, <1>8 DEF InstallInv, RecoveryCovers, Clear
  <1> QED
    BY <1>4, <1>5, <1>6, <1>7, <1>9, <1>10 DEF InstallInv

\* What the two properties say of the flash stays with it.
LEMMA WholeKept ==
  ASSUME UNCHANGED <<chip, flash, jffs2_replaced, failed>>
  PROVE  New' = New /\ (Whole' <=> Whole)
  <1>1. /\ UNCHANGED <<job, opt, bad, worn>> /\ Blocks' = Blocks
        /\ ConfLen' = ConfLen /\ Eof' = Eof /\ ImageLen' = ImageLen /\ Seama' = Seama
    BY SameChip
  <1>2. New' = New
    BY <1>1 DEF New
  <1> QED
    BY <1>1, <1>2 DEF Whole, Holds, Rank, Before, Img, Conf, HeaderDone

\* Once something has failed unseen, or with options the code does not handle,
\* nothing is promised.
LEMMA Unclear ==
  ASSUME InstallInv, UNCHANGED chip, m'.sb = m.sb, ~Clear'
  PROVE  InstallInv'
  <1>1. UNCHANGED <<opt, bad>>
    BY SameChip
  <1>2. FrontInv' /\ SkipInv'
    BY <1>1 DEF InstallInv, FrontInv, SkipInv
  <1>3. BehindInv' /\ ReadInv' /\ DataInv' /\ HeaderInv' /\ EndInv'
    BY DEF BehindInv, ReadInv, DataInv, HeaderInv, EndInv
  <1>4. Installed' /\ RecoveryCovers'
    BY DEF Installed, RecoveryCovers, Clear
  <1> QED
    BY <1>2, <1>3, <1>4 DEF InstallInv

\* As long as nothing is read to the end or written, the same data are due.
LEMMA SameDue ==
  ASSUME InstallInv, UNCHANGED <<chip, jffs2_replaced>>, Clear' => Clear,
         Clear => Done' = Done /\ Confs' = Confs, m'.skip = m.skip,
         pc \notin {"fix_write", "close", "clear_erase", "clear_write", "done"},
         Clear => \A x \in Blocks \ bad :
           flash'[x] = flash[x] \/ {flash[x], flash'[x]} \subseteq {Old, Erased}
  PROVE  DataInv'
  <1>1. UNCHANGED bad /\ ConfLen' = ConfLen /\ Eof' = Eof
    BY SameChip
  <1> SUFFICES ASSUME Clear
               PROVE  \E k : Resumes(k)' /\ Holds(Due(k))'
    BY DEF DataInv
  <1>2. PICK k : Resumes(k) /\ Holds(Due(k))
    BY DEF InstallInv, DataInv
  <1>3. Resumes(k)'
    BY <1>1, <1>2 DEF Resumes
  <1>4. Due(k)' = Due(k)
    BY <1>1 DEF Due, Conf
  <1>5. Holds(Due(k))'
    BY <1>2, <1>4, DataKept
  <1> QED
    BY <1>3, <1>5

\* The recovery flag is erased or written.
LEMMA FlagInstalled ==
  ASSUME MtdInv, MtdInv', InstallInv, recoverflag_erase \/ recoverflag_write
  PROVE  InstallInv'
  <1>1. UNCHANGED <<chip, flash, m, img, jffs2file, jffs2_replaced, j, failed>>
    BY DEF recoverflag_erase, recoverflag_write
  <1>2. UNCHANGED <<job, opt, bad, worn>> /\ Eof' = Eof /\ Blocks' = Blocks
    BY <1>1, SameChip
  <1>3. (Clear' <=> Clear) /\ New' = New /\ (Whole' <=> Whole)
    BY <1>1, <1>2, WholeKept DEF Clear, Ordinary
  <1>4. CASE Exit(1) /\ UNCHANGED flag
    BY <1>1, <1>4, ExitsInstalled DEF recoverflag_erase, recoverflag_write
  <1>5. CASE pc = "clear_write" /\ Exit(0)
    <2>1. /\ pc' = "done" /\ status' = 0 /\ FrontInv' /\ BehindInv' /\ ReadInv'
      BY <1>1, <1>2, <1>3, <1>5
         DEF Exit, InstallInv, FrontInv, BehindInv, ReadInv, Padding, Holding, Done
    <2>2. SkipInv' /\ DataInv' /\ HeaderInv' /\ EndInv'
      BY <1>2, <2>1 DEF InstallInv, SkipInv, DataInv, HeaderInv, EndInv, Padding
    <2>3. Clear => Whole
      BY <1>5 DEF InstallInv, EndInv
    <2>4. RecoveryCovers'
      BY <1>3, <2>3 DEF RecoveryCovers, Clear
    <2>5. Clear => (jffs2_replaced <=> opt.jffs2 /\ Eof # 0)
      <3>1. Eof \in 0..ImageLen /\ ImageLen \in Nat
        BY Fields DEF MtdInv
      <3>2. Done = ImageLen
        BY <1>5 DEF MtdInv, BufferInv, Closing, Done
      <3>3. Clear => ~(jffs2file /\ Eof # 0)
        BY <3>1, <3>2 DEF InstallInv, ReadInv
      <3> QED
        BY <3>3 DEF InstallInv, ReadInv
    <2>6. Clear => \A x \in New : x[2] >= opt.part_offset
      BY DEF InstallInv, BehindInv
    <2>7. Installed'
      BY <1>1, <1>2, <1>3, <2>3, <2>5, <2>6 DEF Installed, Clear
    <2> QED
      BY <2>1, <2>2, <2>4, <2>7 DEF InstallInv
  <1>6. CASE \/ pc = "flag_erase" /\ pc' = "flag_write"
             \/ pc = "flag_write" /\ pc' = "read"
             \/ pc = "clear_erase" /\ pc' = "clear_write"
    <2>1. FrontInv' /\ BehindInv' /\ ReadInv'
      BY <1>1, <1>2, <1>3, <1>6
         DEF InstallInv, FrontInv, AtFront, BehindInv, At, ReadInv, Padding, Holding, Done
    <2>2. HeaderInv' /\ EndInv'
      BY <1>3, <1>6 DEF InstallInv, HeaderInv, EndInv
    <2>3. pc \notin Padding /\ pc' \notin Padding
      BY <1>6 DEF Padding
    <2> QED
      BY <1>1, <1>6, <2>1, <2>2, <2>3, Moves
  <1> QED
    BY <1>4, <1>5, <1>6 DEF recoverflag_erase, recoverflag_write

\* The end of the image.
LEMMA ReadEndInstalled ==
  ASSUME MtdInv, MtdInv', InstallInv, read_left \/ read_end
  PROVE  InstallInv'
  <1>1. /\ UNCHANGED <<chip, flash, m, img, jffs2file, jffs2_replaced, j, failed>>
        /\ pc = "read" /\ pc' \in {"got", "end"}
    BY DEF read_left, read_end
  <1>2. UNCHANGED <<job, opt, bad, worn>> /\ Eof' = Eof /\ Blocks' = Blocks
    BY <1>1, SameChip
  <1>3. (Clear' <=> Clear) /\ New' = New
    BY <1>1, <1>2, WholeKept DEF Clear, Ordinary
  <1>4. FrontInv' /\ BehindInv' /\ ReadInv'
    BY <1>1, <1>2, <1>3
       DEF InstallInv, FrontInv, AtFront, BehindInv, At, ReadInv, Padding, Holding, Done
  <1>5. HeaderInv' /\ EndInv' /\ pc \notin Padding /\ pc' \notin Padding
    BY <1>1 DEF HeaderInv, EndInv, Padding
  <1> QED
    BY <1>1, <1>4, <1>5, Moves

\* The block goes to the flash.
LEMMA GotInstalled ==
  ASSUME MtdInv, MtdInv', InstallInv, got_block
  PROVE  InstallInv'
  <1>1. /\ UNCHANGED <<chip, flash, m, img, jffs2file, jffs2_replaced, j, failed>>
        /\ pc = "got" /\ pc' = IF opt.no_erase THEN "write" ELSE "erase"
        /\ m.skip <= 0 /\ ~(jffs2file /\ m.buf = Eof)
    BY DEF got_block, IsMarker
  <1>2. UNCHANGED <<job, opt, bad, worn>> /\ Eof' = Eof /\ Blocks' = Blocks
    BY <1>1, SameChip
  <1>3. (Clear' <=> Clear) /\ New' = New
    BY <1>1, <1>2, WholeKept DEF Clear, Ordinary
  <1>4. FrontInv' /\ BehindInv'
    BY <1>1, <1>2, <1>3
       DEF InstallInv, FrontInv, AtFront, BehindInv, At, Padding, Holding
  <1>5. ReadInv'
    <2>1. m.skip \in Int
      BY Fields DEF MtdInv
    <2>2. Clear => m.skip = 0
      BY <1>1, <2>1 DEF InstallInv, ReadInv
    <2> QED
      BY <1>1, <1>2, <1>3, <2>2 DEF InstallInv, ReadInv, Padding, Done
  <1>6. HeaderInv' /\ EndInv' /\ pc \notin Padding /\ pc' \notin Padding
    BY <1>1 DEF HeaderInv, EndInv, Padding
  <1> QED
    BY <1>1, <1>4, <1>5, <1>6, Moves

\* The block that will be written is erased.
LEMMA EraseEndInstalled ==
  ASSUME MtdInv, MtdInv', InstallInv, erase_end
  PROVE  InstallInv'
  <1>1. /\ UNCHANGED <<chip, flash, m, img, jffs2file, jffs2_replaced, j, failed>>
        /\ pc = "erase" /\ pc' = "write" /\ ~MustErase
    BY DEF erase_end
  <1>2. /\ UNCHANGED <<job, opt, bad, worn>> /\ Eof' = Eof /\ Blocks' = Blocks
        /\ Sizes' = Sizes
    BY <1>1, SameChip
  <1>3. (Clear' <=> Clear) /\ New' = New
    BY <1>1, <1>2, WholeKept DEF Clear, Ordinary
  <1>4. Clear => Ready
    <2>1. m.w \in Nat /\ m.e \in Nat /\ m.sb \in Nat
      BY Fields DEF MtdInv
    <2>2. Clear => ~opt.no_erase /\ (AtFront \/ Ready)
      BY <1>1 DEF InstallInv, FrontInv
    <2>3. ~opt.no_erase => ~AtFront
      BY <1>1, <2>1 DEF AtFront, MustErase
    <2> QED
      BY <2>2, <2>3
  <1>5. FrontInv' /\ BehindInv'
    BY <1>1, <1>2, <1>3, <1>4
       DEF InstallInv, FrontInv, Ready, Good, Inside, BehindInv, At, Padding, Holding
  <1>6. ReadInv'
    BY <1>1, <1>2, <1>3 DEF InstallInv, ReadInv, Padding, Done
  <1>7. HeaderInv' /\ EndInv' /\ pc \notin Padding /\ pc' \notin Padding
    BY <1>1 DEF HeaderInv, EndInv, Padding
  <1> QED
    BY <1>1, <1>5, <1>6, <1>7, Moves

\* mtd_erase() of every partition.
LEMMA EraseFirstInstalled ==
  ASSUME MtdInv, MtdInv', InstallInv, mtd_erase
  PROVE  InstallInv'
  <1>1. /\ UNCHANGED <<chip, m, img, jffs2file, jffs2_replaced, j, failed>>
        /\ pc = "erase_first" /\ pc' = "resume"
        /\ flash' = [x \in Blocks |-> IF x \in bad \cup worn THEN flash[x] ELSE Erased]
    BY DEF mtd_erase
  <1>2. UNCHANGED <<job, opt, bad, worn>> /\ Eof' = Eof /\ Blocks' = Blocks /\ ConfLen' = ConfLen
    BY <1>1, SameChip
  <1>3. Clear' <=> Clear
    BY <1>1, <1>2 DEF Clear, Ordinary
  <1>4. Clear => New = {}
    BY <1>1 DEF InstallInv, BehindInv
  <1>5. Clear => \A x \in Blocks \ bad :
           flash'[x] = flash[x] \/ {flash[x], flash'[x]} \subseteq {Old, Erased}
    BY <1>1, <1>4 DEF New
  <1>6. Clear => New' = New
    BY <1>1, <1>5, DataKept
  <1>7. FrontInv'
    <2>1. Clear /\ opt.no_erase => \A x \in Blocks : flash'[x] # Old
      BY <1>1 DEF Clear, Ordinary, Old, Erased
    <2> QED
      BY <1>1, <1>2, <1>3, <2>1 DEF InstallInv, FrontInv, Padding
  <1>8. BehindInv' /\ ReadInv' /\ SkipInv' /\ HeaderInv' /\ EndInv'
    BY <1>1, <1>2, <1>3, <1>4, <1>6
       DEF InstallInv, BehindInv, ReadInv, SkipInv, HeaderInv, EndInv, Padding, Holding, Done
  <1>9. Done' = Done /\ Confs' = Confs
    BY <1>1, <1>2 DEF Done, Confs, Padding
  <1>10. DataInv'
    BY <1>1, <1>3, <1>5, <1>9, SameDue
  <1> QED
    BY <1>1, <1>7, <1>8, <1>10, NotExit

\* A partition is opened.
LEMMA ResumeInstalled ==
  ASSUME MtdInv, MtdInv', InstallInv, resume
  PROVE  InstallInv'
  <1>1. /\ UNCHANGED <<chip, flash, img, jffs2file, jffs2_replaced, j, failed>>
        /\ pc = "resume" /\ pc' \in {"flag_erase", "read"}
        /\ m' = [m EXCEPT !.pos = opt.part_offset, !.w = 0, !.e = 0]
    BY DEF resume
  <1>2. UNCHANGED <<job, opt, bad, worn>> /\ Eof' = Eof /\ Blocks' = Blocks /\ ConfLen' = ConfLen
    BY <1>1, SameChip
  <1>3. /\ m'.part = m.part /\ m'.pos = opt.part_offset /\ m'.w = 0 /\ m'.e = 0
        /\ m'.sb = m.sb /\ m'.buf = m.buf /\ m'.skip = m.skip /\ m'.offset = m.offset
    BY <1>1 DEF MtdInv, TypeOK, Counters
  <1>4. Clear' <=> Clear
    BY <1>1, <1>2, <1>3 DEF Clear, Ordinary
  <1>5. New' = New
    BY <1>1, WholeKept
  <1>6. FrontInv'
    <2>1. opt.part_offset \in Nat
      BY Fields DEF MtdInv
    <2>2. Clear => m'.sb = 0
      BY <1>1, <1>3 DEF InstallInv, FrontInv
    <2>3. Clear => AtFront'
      BY <1>2, <1>3, <2>1, <2>2 DEF AtFront
    <2> QED
      BY <1>1, <1>2, <1>3, <1>4, <2>3 DEF InstallInv, FrontInv, Padding
  <1>7. BehindInv'
    <2>1. Clear => \A x \in New : Before(x, At(m.pos))'
      BY <1>1, <1>3 DEF InstallInv, BehindInv, Before, At
    <2> QED
      BY <1>1, <1>2, <1>4, <1>5, <2>1 DEF InstallInv, BehindInv, Holding, Before
  <1>8. Done' = Done /\ Confs' = Confs
    BY <1>1, <1>2, <1>3 DEF Done, Confs, Padding
  <1>9. ReadInv' /\ SkipInv' /\ HeaderInv' /\ EndInv'
    BY <1>1, <1>2, <1>3, <1>4, <1>8
       DEF InstallInv, ReadInv, SkipInv, HeaderInv, EndInv, Padding
  <1>10. DataInv'
    BY <1>1, <1>3, <1>4, <1>8, SameDue
  <1> QED
    BY <1>1, <1>6, <1>7, <1>9, <1>10, NotExit

\* The next block of the image.
LEMMA ReadInstalled ==
  ASSUME MtdInv, MtdInv', InstallInv, read_image
  PROVE  InstallInv'
  <1>1. /\ UNCHANGED <<chip, flash, jffs2file, jffs2_replaced, j, failed>>
        /\ pc = "read" /\ pc' = "got" /\ m.buf = 0 /\ img' = img + 1
        /\ m' = [m EXCEPT !.buf = img + 1]
    BY DEF read_image
  <1>2. UNCHANGED <<job, opt, bad, worn>> /\ Eof' = Eof /\ Blocks' = Blocks /\ ConfLen' = ConfLen
    BY <1>1, SameChip
  <1>3. /\ m'.part = m.part /\ m'.pos = m.pos /\ m'.w = m.w /\ m'.e = m.e
        /\ m'.sb = m.sb /\ m'.buf = img + 1 /\ m'.skip = m.skip /\ m'.offset = m.offset
    BY <1>1 DEF MtdInv, TypeOK, Counters
  <1>4. Clear' <=> Clear
    BY <1>1, <1>2, <1>3 DEF Clear, Ordinary
  <1>5. New' = New
    BY <1>1, WholeKept
  <1>6. FrontInv' /\ BehindInv'
    BY <1>1, <1>2, <1>3, <1>4, <1>5
       DEF InstallInv, FrontInv, AtFront, BehindInv, Before, At, Padding, Holding
  <1>7. img \in Nat
    BY Fields DEF MtdInv, TypeOK
  <1>8. Done' = Done /\ Confs' = Confs
    BY <1>1, <1>2, <1>3, <1>7 DEF Done, Confs, Padding
  <1>9. ReadInv' /\ SkipInv' /\ HeaderInv' /\ EndInv'
    BY <1>1, <1>2, <1>3, <1>4, <1>7, <1>8
       DEF InstallInv, ReadInv, SkipInv, HeaderInv, EndInv, Padding
  <1>10. DataInv'
    BY <1>1, <1>3, <1>4, <1>8, SameDue
  <1> QED
    BY <1>1, <1>6, <1>9, <1>10, NotExit

\* Reading the image fails.
LEMMA ReadFailsInstalled ==
  ASSUME MtdInv, InstallInv, read_fails
  PROVE  InstallInv'
  <1>1. UNCHANGED chip /\ "read" \in failed' /\ m'.sb = m.sb
    BY DEF read_fails, MtdInv, TypeOK, Counters
  <1>2. ~Clear'
    BY <1>1 DEF Clear
  <1> QED
    BY <1>1, <1>2, Unclear

\* A block of the image whose place is taken is dropped.
LEMMA SkipInstalled ==
  ASSUME MtdInv, MtdInv', InstallInv, skip_block
  PROVE  InstallInv'
  <1>1. /\ UNCHANGED <<chip, flash, img, jffs2file, jffs2_replaced, j, failed>>
        /\ pc = "got" /\ pc' = "read" /\ m.skip > 0
        /\ m' = [m EXCEPT !.skip = m.skip - 1, !.buf = 0]
    BY DEF skip_block
  <1>2. UNCHANGED <<job, opt, bad, worn>> /\ Eof' = Eof /\ Blocks' = Blocks /\ ConfLen' = ConfLen
    BY <1>1, SameChip
  <1>3. /\ m'.part = m.part /\ m'.pos = m.pos /\ m'.w = m.w /\ m'.e = m.e
        /\ m'.sb = m.sb /\ m'.buf = 0 /\ m'.skip = m.skip - 1 /\ m'.offset = m.offset
    BY <1>1 DEF MtdInv, TypeOK, Counters
  <1>4. Clear' <=> Clear
    BY <1>1, <1>2, <1>3 DEF Clear, Ordinary
  <1>5. New' = New
    BY <1>1, WholeKept
  <1>6. FrontInv' /\ BehindInv'
    BY <1>1, <1>2, <1>3, <1>4, <1>5
       DEF InstallInv, FrontInv, AtFront, BehindInv, Before, At, Padding, Holding
  <1>7. /\ img \in Nat /\ m.skip \in Int /\ Eof \in Nat /\ ConfLen \in Nat \ {0}
        /\ m.buf # 0 /\ Cardinality(bad) \in Nat
    BY <1>1, Fields, BadCount DEF MtdInv, TypeOK, BufferInv, Holding, InstallInv, SkipInv
  <1>8. Done = img - 1 /\ Done' = Done + 1 /\ Confs' = Confs
    BY <1>1, <1>2, <1>3, <1>7 DEF Done, Confs, Padding
  <1>9. Clear => jffs2_replaced /\ Done >= Eof /\ ~jffs2file
    BY <1>1, <1>7 DEF InstallInv, ReadInv
  <1>10. ReadInv' /\ SkipInv' /\ HeaderInv' /\ EndInv'
    BY <1>1, <1>2, <1>3, <1>4, <1>7, <1>8, <1>9
       DEF InstallInv, ReadInv, SkipInv, HeaderInv, EndInv, Padding
  <1>11. DataInv'
    <2> SUFFICES ASSUME Clear
                 PROVE  \E k : Resumes(k)' /\ Holds(Due(k))'
      BY <1>4 DEF DataInv
    <2>1. PICK k : Resumes(k) /\ Holds(Due(k))
      BY <1>1 DEF InstallInv, DataInv
    <2>2. k \in Int /\ k = Done + 1 + m.skip
      BY <1>1, <1>7, <1>9, <2>1 DEF Resumes
    <2>3. Resumes(k)'
      BY <1>1, <1>2, <1>3, <1>7, <1>8, <2>1, <2>2 DEF Resumes
    <2>4. {n \in 1..Done + 1 : n < Eof \/ n >= k} = {n \in 1..Done : n < Eof \/ n >= k}
      BY <1>1, <1>7, <1>8, <1>9, <2>2
    <2>5. Due(k)' = Due(k)
      BY <1>1, <1>2, <1>8, <1>9, <2>4 DEF Due, Conf
    <2>6. Holds(Due(k))'
      BY <1>1, <2>1, <2>5, DataKept
    <2> QED
      BY <2>3, <2>6
  <1> QED
    BY <1>1, <1>6, <1>10, <1>11, NotExit

\* The marker is found: mtd_replace_jffs2() starts.
LEMMA MarkerInstalled ==
  ASSUME MtdInv, MtdInv', InstallInv, found_marker
  PROVE  InstallInv'
  <1>1. /\ UNCHANGED <<chip, flash, m, img, jffs2file, jffs2_replaced, failed>>
        /\ pc = "got" /\ pc' = "jffs2" /\ jffs2file /\ m.buf = Eof
        /\ j' = [mtdofs |-> m.e, n |-> 0]
    BY DEF found_marker, IsMarker
  <1>2. UNCHANGED <<job, opt, bad, worn>> /\ Eof' = Eof /\ Blocks' = Blocks /\ ConfLen' = ConfLen
    BY <1>1, SameChip
  <1>3. Clear' <=> Clear
    BY <1>1, <1>2 DEF Clear, Ordinary
  <1>4. New' = New
    BY <1>1, WholeKept
  <1>5. m.e \in Nat /\ m.w \in Nat /\ m.sb \in Nat /\ m.pos \in Nat
    BY Fields DEF MtdInv
  <1>6. Clear => opt.jffs2 /\ ~jffs2_replaced
    BY <1>1 DEF InstallInv, ReadInv
  <1>7. Clear => m.pos = m.e /\ m.e = m.w + m.sb
    <2>1. Clear => AtFront
      BY <1>1 DEF InstallInv, FrontInv
    <2>2. Clear => opt.part_offset = 0 /\ ~opt.no_erase
      BY <1>6 DEF Clear, Ordinary
    <2> QED
      BY <1>5, <2>1, <2>2 DEF AtFront
  <1>8. FrontInv' /\ BehindInv'
    BY <1>1, <1>2, <1>3, <1>4, <1>7
       DEF InstallInv, FrontInv, BehindInv, Before, At, Padding, Holding
  <1>9. ReadInv' /\ HeaderInv' /\ EndInv'
    BY <1>1, <1>2, <1>3 DEF InstallInv, ReadInv, HeaderInv, EndInv, Padding, Done
  <1>10. SkipInv'
    <2>0. \A x \in bad : x[2] \in Nat
      BY BlockShape DEF MtdInv, TypeOK
    <2>1. Passed' = {}
      <3>1. j'.mtdofs = m.e /\ m' = m
        BY <1>1
      <3>2. \A x \in bad : ~(m.e <= x[2] /\ x[2] < m.e)
        BY <1>5, <2>0
      <3> QED
        BY <1>2, <3>1, <3>2 DEF Passed
    <2>2. Cardinality(Passed') = 0
      BY <2>1, FS_EmptySet
    <2>3. j'.mtdofs = m'.e /\ j'.n = 0
      BY <1>1
    <2>4. (j.mtdofs = m.e + j.n + Cardinality(Passed))'
      BY <1>1, <1>5, <2>2, <2>3
    <2> QED
      BY <1>2, <2>4 DEF InstallInv, SkipInv
  <1>11. Clear => Done' = Done /\ Confs' = Confs
    BY <1>1, <1>2, <1>6 DEF Done, Confs, Padding
  <1>12. DataInv'
    BY <1>1, <1>3, <1>11, SameDue
  <1> QED
    BY <1>1, <1>8, <1>9, <1>10, <1>12, NotExit

\* A block that is erased behind all new data.
LEMMA EraseBehind ==
  ASSUME MtdInv, NEW b \in Nat, UNCHANGED chip, flash' = erased(b),
         \A x \in New : Before(x, At(b))
  PROVE  /\ \A x \in Blocks \ bad :
              flash'[x] = flash[x] \/ {flash[x], flash'[x]} \subseteq {Old, Erased}
         /\ New' = New
         /\ Erasable(b) => flash'[At(b)] = Erased
         /\ (\A x \in Blocks : flash[x] # Old) => \A x \in Blocks : flash'[x] # Old
  <1>1. \A x \in Blocks : flash'[x] = IF x = At(b) /\ Erasable(b) THEN Erased ELSE flash[x]
    BY AfterErase DEF MtdInv
  <1>2. Inside(b) => At(b) \in Blocks
    BY OpenBlocks DEF MtdInv
  <1>3. ~Before(At(b), At(b))
    <2>1. m.part \in 1..Len(Sizes) /\ Len(Sizes) \in Nat
      BY Fields DEF MtdInv
    <2>2. m.part \in Nat
      BY <2>1
    <2> QED
      BY <2>2 DEF Before, At
  <1>4. At(b) \notin New
    BY <1>3
  <1>5. \A x \in Blocks \ bad :
          flash'[x] = flash[x] \/ {flash[x], flash'[x]} \subseteq {Old, Erased}
    BY <1>1, <1>4 DEF New
  <1>6. New' = New
    BY <1>5, DataKept
  <1> QED
    BY <1>1, <1>2, <1>5, <1>6 DEF Erasable, Old, Erased

\* A bad block is skipped.
LEMMA EraseSkipInstalled ==
  ASSUME MtdInv, MtdInv', InstallInv, erase_skips_bad
  PROVE  InstallInv'
  <1>1. /\ UNCHANGED <<chip, flash, img, jffs2file, jffs2_replaced, j, failed>>
        /\ pc = "erase" /\ pc' = "erase" /\ MustErase /\ At(m.e) \in bad
        /\ m' = [m EXCEPT !.sb = m.sb + 1, !.e = m.e + 1, !.pos = m.pos + 1]
    BY DEF erase_skips_bad, mtd_block_is_bad
  <1>2. UNCHANGED <<job, opt, bad, worn>> /\ Eof' = Eof /\ Blocks' = Blocks /\ ConfLen' = ConfLen
    BY <1>1, SameChip
  <1>3. /\ m'.part = m.part /\ m'.pos = m.pos + 1 /\ m'.w = m.w /\ m'.e = m.e + 1
        /\ m'.sb = m.sb + 1 /\ m'.buf = m.buf /\ m'.skip = m.skip /\ m'.offset = m.offset
    BY <1>1 DEF MtdInv, TypeOK, Counters
  <1>4. Clear' <=> Clear
    BY <1>1, <1>2, <1>3 DEF Clear, Ordinary
  <1>5. New' = New
    BY <1>1, WholeKept
  <1>6. /\ m.e \in Nat /\ m.w \in Nat /\ m.sb \in Nat /\ m.pos \in Nat
        /\ opt.part_offset \in Nat
    BY Fields DEF MtdInv
  <1>7. Clear => ~opt.no_erase /\ AtFront
    <2>1. ~Ready
      BY <1>1, <1>6 DEF MustErase, Ready
    <2> QED
      BY <1>1, <2>1 DEF InstallInv, FrontInv
  <1>8. Clear => AtFront'
    BY <1>2, <1>3, <1>6, <1>7 DEF AtFront
  <1>9. FrontInv'
    BY <1>1, <1>2, <1>3, <1>4, <1>7, <1>8 DEF InstallInv, FrontInv, Padding
  <1>10. BehindInv'
    <2>1. TypeOK
      BY DEF MtdInv
    <2>2. \A x \in New : x[1] \in Nat /\ x[2] \in Nat
      BY <2>1, BlockShape DEF New
    <2>3. Clear => \A x \in New : Before(x, At(m.pos))
      BY <1>1 DEF InstallInv, BehindInv, Holding
    <2>4. Clear => \A x \in New : Before(x, At(m.pos))'
      BY <1>3, <1>6, <2>2, <2>3 DEF Before, At
    <2> QED
      BY <1>1, <1>2, <1>4, <1>5, <2>4 DEF InstallInv, BehindInv, Holding, Before
  <1>11. Done' = Done /\ Confs' = Confs
    BY <1>1, <1>2, <1>3 DEF Done, Confs, Padding
  <1>12. ReadInv' /\ SkipInv' /\ HeaderInv' /\ EndInv'
    BY <1>1, <1>2, <1>3, <1>4, <1>11
       DEF InstallInv, ReadInv, SkipInv, HeaderInv, EndInv, Padding
  <1>13. DataInv'
    BY <1>1, <1>3, <1>4, <1>11, SameDue
  <1> QED
    BY <1>1, <1>9, <1>10, <1>12, <1>13, NotExit

\* The block to be written is erased.
LEMMA EraseBlockInstalled ==
  ASSUME MtdInv, MtdInv', InstallInv, erase_block
  PROVE  InstallInv'
  <1>1. /\ UNCHANGED <<chip, img, jffs2file, jffs2_replaced, j, failed>>
        /\ pc = "erase" /\ pc' = "erase" /\ MustErase
        /\ Erasable(m.e + opt.part_offset) /\ flash' = erased(m.e + opt.part_offset)
        /\ m' = [m EXCEPT !.e = m.e + 1]
    BY DEF erase_block, Erasing
  <1>2. /\ UNCHANGED <<job, opt, bad, worn>> /\ Eof' = Eof /\ Blocks' = Blocks
        /\ ConfLen' = ConfLen /\ Sizes' = Sizes
    BY <1>1, SameChip
  <1>3. /\ m'.part = m.part /\ m'.pos = m.pos /\ m'.w = m.w /\ m'.e = m.e + 1
        /\ m'.sb = m.sb /\ m'.buf = m.buf /\ m'.skip = m.skip /\ m'.offset = m.offset
    BY <1>1 DEF MtdInv, TypeOK, Counters
  <1>4. Clear' <=> Clear
    BY <1>1, <1>2, <1>3 DEF Clear, Ordinary
  <1>5. /\ m.e \in Nat /\ m.w \in Nat /\ m.sb \in Nat /\ m.pos \in Nat
        /\ opt.part_offset \in Nat
    BY Fields DEF MtdInv
  <1>6. Clear => ~opt.no_erase /\ AtFront
    <2>1. ~Ready
      BY <1>1, <1>5 DEF MustErase, Ready
    <2> QED
      BY <1>1, <2>1 DEF InstallInv, FrontInv
  <1>7. Clear => m.pos = m.e + opt.part_offset /\ \A x \in New : Before(x, At(m.pos))
    BY <1>1, <1>5, <1>6 DEF AtFront, InstallInv, BehindInv, Holding
  <1>8. Clear => /\ \A x \in Blocks \ bad :
                      flash'[x] = flash[x] \/ {flash[x], flash'[x]} \subseteq {Old, Erased}
                 /\ New' = New /\ flash'[At(m.pos)] = Erased
    BY <1>1, <1>5, <1>7, EraseBehind
  <1>9. Clear => Ready'
    <2>1. Clear => Inside(m.pos)' /\ Good(m.pos)'
      BY <1>1, <1>2, <1>3, <1>7 DEF Erasable, Inside, Good, At
    <2>2. Clear => (flash[At(m.pos)] = Erased)'
      BY <1>3, <1>8 DEF At
    <2>3. Clear => (m.pos = m.w + m.sb + opt.part_offset)' /\ (m.e = m.w + m.sb + 1)'
      BY <1>2, <1>3, <1>5, <1>6 DEF AtFront
    <2> QED
      BY <2>1, <2>2, <2>3 DEF Ready
  <1>10. FrontInv'
    BY <1>1, <1>2, <1>3, <1>4, <1>6, <1>9 DEF InstallInv, FrontInv, Padding
  <1>11. BehindInv'
    BY <1>1, <1>2, <1>3, <1>4, <1>8 DEF InstallInv, BehindInv, Holding, Before, At
  <1>12. Done' = Done /\ Confs' = Confs
    BY <1>1, <1>2, <1>3 DEF Done, Confs, Padding
  <1>13. ReadInv' /\ SkipInv' /\ HeaderInv' /\ EndInv'
    BY <1>1, <1>2, <1>3, <1>4, <1>12
       DEF InstallInv, ReadInv, SkipInv, HeaderInv, EndInv, Padding
  <1>14. DataInv'
    BY <1>1, <1>3, <1>4, <1>8, <1>12, SameDue
  <1> QED
    BY <1>1, <1>10, <1>11, <1>13, <1>14, NotExit

\* The rest goes to the next partition: with bad blocks that is not promised
\* to work, without them there is nothing left to write here.
LEMMA EraseNextInstalled ==
  ASSUME MtdInv, MtdInv', InstallInv, erase_next
  PROVE  InstallInv'
  <1> DEFINE more == m.e - m.w
             here == {At(b) : b \in m.pos..m.pos + more - 1}
  <1>1. /\ UNCHANGED <<chip, img, jffs2file, jffs2_replaced, j, failed>>
        /\ pc = "erase" /\ pc' = "resume" /\ MustErase
        /\ flash' = [x \in Blocks |->
                       IF x \notin here THEN flash[x]
                       ELSE IF flash[x] # Erased THEN Mixed
                       ELSE IF x = At(m.pos) THEN Data ELSE Garbage]
        /\ m' = [m EXCEPT !.part = m.part + 1, !.w = 0, !.e = 0,
                          !.offset = IF more > 0 THEN more ELSE m.offset]
    BY DEF erase_next, Erasing
  <1>2. /\ UNCHANGED <<job, opt, bad, worn>> /\ Eof' = Eof /\ Blocks' = Blocks
        /\ ConfLen' = ConfLen
    BY <1>1, SameChip
  <1>3. /\ m'.part = m.part + 1 /\ m'.w = 0 /\ m'.e = 0 /\ m'.pos = m.pos
        /\ m'.sb = m.sb /\ m'.buf = m.buf /\ m'.skip = m.skip
        /\ m'.offset = IF more > 0 THEN more ELSE m.offset
    BY <1>1 DEF MtdInv, TypeOK, Counters
  <1> SUFFICES ASSUME Clear'
               PROVE  InstallInv'
    BY <1>1, <1>3, Unclear
  <1>4. m.part \in Nat /\ m.part >= 1
    <2>1. m.part \in 1..Len(Sizes) /\ Len(Sizes) \in Nat
      BY Fields DEF MtdInv
    <2> QED
      BY <2>1
  <1>5. Clear /\ bad = {}
    <2>1. bad = {}
      BY <1>2, <1>3, <1>4 DEF Clear, Ordinary
    <2>2. Clear
      BY <1>1, <1>3, <1>4, ClearBefore DEF MtdInv
    <2> QED
      BY <2>1, <2>2
  <1>6. /\ m.e \in Nat /\ m.w \in Nat /\ m.sb \in Nat /\ m.pos \in Nat
        /\ opt.part_offset \in Nat /\ m.sb = 0
    BY <1>5, Fields DEF MtdInv, InstallInv, FrontInv
  <1>7. ~opt.no_erase /\ AtFront
    <2>1. ~Ready
      BY <1>1, <1>6 DEF MustErase, Ready
    <2> QED
      BY <1>1, <1>5, <2>1 DEF InstallInv, FrontInv
  <1>8. more = 0 /\ m'.offset = m.offset
    BY <1>3, <1>6, <1>7 DEF AtFront
  <1>9. flash' = flash
    <2>1. here = {}
      BY <1>6, <1>8
    <2>2. flash \in [Blocks -> Contents]
      BY DEF MtdInv, TypeOK
    <2> QED
      BY <1>1, <2>1, <2>2
  <1>10. New' = New
    BY <1>1, <1>9, WholeKept
  <1>11. FrontInv'
    BY <1>1, <1>2, <1>3, <1>5, <1>6, <1>7, <1>8 DEF InstallInv, FrontInv, Padding
  <1>12. BehindInv'
    <2>1. TypeOK
      BY DEF MtdInv
    <2>2. \A x \in New : x[1] \in Nat
      BY <2>1, BlockShape DEF New
    <2>3. \A x \in New : Before(x, At(m.pos))
      BY <1>1, <1>5 DEF InstallInv, BehindInv, Holding
    <2>4. \A x \in New : x[1] < m'.part
      BY <1>3, <1>4, <2>2, <2>3 DEF Before, At
    <2> QED
      BY <1>1, <1>2, <1>5, <1>10, <2>4 DEF InstallInv, BehindInv, Holding
  <1>13. Done' = Done /\ Confs' = Confs
    BY <1>1, <1>2, <1>3 DEF Done, Confs, Padding
  <1>14. ReadInv' /\ SkipInv' /\ HeaderInv' /\ EndInv'
    BY <1>1, <1>2, <1>3, <1>5, <1>13
       DEF InstallInv, ReadInv, SkipInv, HeaderInv, EndInv, Padding
  <1>15. DataInv'
    BY <1>1, <1>3, <1>5, <1>9, <1>13, SameDue
  <1> QED
    BY <1>1, <1>11, <1>12, <1>14, <1>15, NotExit

-----------------------------------------------------------------------------
(***************************************************************************)
(* Steps that write new data.                                              *)
(***************************************************************************)

\* An erased block behind all new data takes a content that comes after them.
LEMMA WriteBehind ==
  ASSUME MtdInv, NEW b \in Nat, NEW c \in Contents, c \notin {Old, Erased}, UNCHANGED chip,
         Inside(b), Good(b), flash[At(b)] = Erased, flash' = written(flash, b, c),
         \A x \in New : Before(x, At(b)) /\ Rank(flash[x]) < Rank(c)
  PROVE  /\ New' = New \cup {At(b)} /\ At(b) \notin New
         /\ {flash'[x] : x \in New'} = {flash[x] : x \in New} \cup {c}
         /\ (\A x, y \in New : Before(x, y) => Rank(flash[x]) < Rank(flash[y]))
              => \A x, y \in New' : Before(x, y) => Rank(flash'[x]) < Rank(flash'[y])
         /\ (\A x \in Blocks : flash[x] # Old) => \A x \in Blocks : flash'[x] # Old
  <1>1. TypeOK /\ Blocks' = Blocks /\ bad' = bad
    BY SameChip DEF MtdInv
  <1>2. \A x \in Blocks : flash'[x] = IF x = At(b) THEN c ELSE flash[x]
    BY <1>1, AfterWrite
  <1>3. At(b) \in Blocks \ bad
    BY <1>1, OpenBlocks DEF Good
  <1>4. At(b) \notin New
    BY DEF New
  <1>5. New' = New \cup {At(b)}
    BY <1>1, <1>2, <1>3 DEF New
  <1>6. flash'[At(b)] = c /\ \A x \in New : flash'[x] = flash[x]
    BY <1>2, <1>3, <1>4 DEF New
  <1>7. {flash'[x] : x \in New'} = {flash[x] : x \in New} \cup {c}
    BY <1>5, <1>6
  <1>8. ASSUME \A x, y \in New : Before(x, y) => Rank(flash[x]) < Rank(flash[y]),
               NEW x \in New', NEW y \in New', Before(x, y)
        PROVE  Rank(flash'[x]) < Rank(flash'[y])
    <2>1. x \in Blocks /\ y \in Blocks
      BY <1>1 DEF New
    <2>2. ~(Before(x, y) /\ Before(y, x)) /\ ~Before(x, x)
      BY <1>1, <2>1, BlockOrder
    <2>3. x # At(b)
      BY <1>5, <1>8, <2>2
    <2>4. CASE y = At(b)
      BY <1>5, <1>6, <2>3, <2>4
    <2>5. CASE y # At(b)
      BY <1>5, <1>6, <1>8, <2>3, <2>5
    <2> QED
      BY <2>4, <2>5
  <1> QED
    BY <1>2, <1>4, <1>5, <1>7, <1>8

\* The ranks of what is due before a block of the image.
LEMMA ImageRank ==
  ASSUME MtdInv, NEW k, Holds(Due(k)), Done \in Nat, Confs \in 0..ConfLen,
         Confs # 0 => Done >= Eof
  PROVE  \A x \in New : Rank(flash[x]) < Rank(<<"img", Done + 1>>)
  <1>1. Eof \in Nat /\ ConfLen \in Nat
    <2>1. Eof \in 0..ImageLen /\ ImageLen \in Nat /\ ConfLen \in Nat
      BY Fields DEF MtdInv
    <2> QED
      BY <2>1
  <1> SUFFICES ASSUME NEW x \in New
               PROVE  Rank(flash[x]) < Rank(<<"img", Done + 1>>)
    OBVIOUS
  <1>2. flash[x] \in Due(k)
    BY DEF Holds
  <1>3. CASE \E i \in 1..Done : flash[x] = <<"img", i>>
    BY <1>1, <1>3 DEF Rank
  <1>4. CASE \E i \in 1..Confs : flash[x] = <<"conf", i>>
    BY <1>1, <1>4 DEF Rank
  <1> QED
    BY <1>2, <1>3, <1>4 DEF Due, Conf

\* A block of the image is written.
LEMMA WriteInstalled ==
  ASSUME MtdInv, MtdInv', InstallInv, write_block
  PROVE  InstallInv'
  <1>1. /\ UNCHANGED <<chip, img, jffs2file, jffs2_replaced, j, failed>>
        /\ pc = "write" /\ pc' = "read" /\ Inside(m.pos)
        /\ flash' = written(flash, m.pos, Data)
        /\ m' = [m EXCEPT !.pos = m.pos + 1, !.w = m.w + 1, !.buf = 0, !.offset = 0]
    BY DEF write_block
  <1>2. /\ UNCHANGED <<job, opt, bad, worn>> /\ Eof' = Eof /\ Blocks' = Blocks
        /\ ConfLen' = ConfLen /\ Sizes' = Sizes
    BY <1>1, SameChip
  <1>3. /\ m'.part = m.part /\ m'.pos = m.pos + 1 /\ m'.w = m.w + 1 /\ m'.e = m.e
        /\ m'.sb = m.sb /\ m'.buf = 0 /\ m'.skip = m.skip /\ m'.offset = 0
    BY <1>1 DEF MtdInv, TypeOK, Counters
  <1>4. Clear' <=> Clear
    BY <1>1, <1>2, <1>3 DEF Clear, Ordinary
  <1> SUFFICES ASSUME Clear
               PROVE  InstallInv'
    BY <1>1, <1>3, <1>4, Unclear
  <1>5. /\ m.e \in Nat /\ m.w \in Nat /\ m.sb \in Nat /\ m.pos \in Nat
        /\ opt.part_offset \in Nat /\ Eof \in Nat /\ ConfLen \in Nat /\ img \in Nat
        /\ m.skip \in Int
    BY Fields DEF MtdInv, TypeOK
  <1>6. /\ \A x \in New : Before(x, At(m.pos)) /\ x[2] >= opt.part_offset
        /\ m.pos >= opt.part_offset
    BY <1>1, <1>5 DEF InstallInv, BehindInv, FrontInv, Holding, Ready, AtFront
  <1>7. At(m.pos) \in Blocks
    BY <1>1, <1>5, OpenBlocks DEF MtdInv
  <1>8. Good(m.pos) /\ flash[At(m.pos)] = Erased
    <2>1. CASE Ready
      BY <2>1 DEF Ready
    <2>2. CASE opt.no_erase
      <3>1. bad = {} /\ \A x \in Blocks : flash[x] # Old
        BY <1>1, <2>2 DEF Clear, Ordinary, InstallInv, FrontInv
      <3>2. ~Before(At(m.pos), At(m.pos))
        BY <1>7, BlockOrder DEF MtdInv
      <3>3. At(m.pos) \notin New
        BY <1>6, <3>2
      <3> QED
        BY <1>7, <3>1, <3>3 DEF New, Good
    <2> QED
      BY <1>1, <2>1, <2>2 DEF InstallInv, FrontInv
  <1>9. /\ m.buf = img /\ m.buf # 0 /\ m.offset = 0 /\ m.skip = 0
        /\ jffs2_replaced => Eof # 0 /\ Done >= Eof
        /\ jffs2file /\ Eof # 0 => Done < Eof /\ m.buf # Eof
    BY <1>1 DEF MtdInv, BufferInv, Holding, InstallInv, FrontInv, ReadInv
  <1>10. Done = img - 1 /\ Done \in Nat /\ Done' = Done + 1 /\ m.buf = Done + 1
    BY <1>1, <1>3, <1>5, <1>9 DEF Done
  <1>11. /\ Confs' = Confs /\ Confs \in 0..ConfLen /\ (Confs # 0 => Done >= Eof)
    BY <1>1, <1>2, <1>5, <1>9 DEF Confs, Padding
  <1>12. Data = <<"img", Done + 1>> /\ Data \in Contents /\ Data \notin {Old, Erased}
    <2>1. Data \in Contents
      BY <1>9, DataTyped DEF MtdInv
    <2> QED
      BY <1>9, <1>10, <2>1 DEF Data, Old, Erased
  <1>13. PICK k : Resumes(k) /\ Holds(Due(k))
    BY <1>1 DEF InstallInv, DataInv
  <1>14. \A x \in New : Rank(flash[x]) < Rank(Data)
    BY <1>10, <1>11, <1>12, <1>13, ImageRank
  <1>15. /\ New' = New \cup {At(m.pos)}
         /\ {flash'[x] : x \in New'} = Due(k) \cup {Data}
         /\ \A x, y \in New' : Before(x, y) => Rank(flash'[x]) < Rank(flash'[y])
         /\ (\A x \in Blocks : flash[x] # Old) => \A x \in Blocks : flash'[x] # Old
    BY <1>1, <1>5, <1>6, <1>8, <1>12, <1>13, <1>14, WriteBehind DEF Holds
  <1>16. k \in Int /\ (jffs2_replaced => k <= Done + 1) /\ Resumes(k)'
    <2>1. Cardinality(bad) \in Nat
      BY BadCount DEF InstallInv, SkipInv
    <2>2. k \in Int
      BY <1>5, <1>13, <2>1 DEF Resumes
    <2> QED
      BY <1>1, <1>2, <1>3, <1>9, <1>10, <1>13, <2>2 DEF Resumes
  <1>17. Due(k)' = Due(k) \cup {Data}
    <2>1. {n \in 1..Done + 1 : jffs2_replaced => n < Eof \/ n >= k}
            = {n \in 1..Done : jffs2_replaced => n < Eof \/ n >= k} \cup {Done + 1}
      BY <1>5, <1>10, <1>16
    <2>2. {<<"img", i>> : i \in {n \in 1..Done + 1 : jffs2_replaced => n < Eof \/ n >= k}}
            = {<<"img", i>> : i \in {n \in 1..Done : jffs2_replaced => n < Eof \/ n >= k}}
              \cup {Data}
      BY <1>12, <2>1
    <2> QED
      BY <1>1, <1>2, <1>10, <1>11, <2>2 DEF Due, Conf
  <1>18. DataInv'
    <2>1. Holds(Due(k))'
      BY <1>2, <1>15, <1>17 DEF Holds, Rank, Before
    <2> QED
      BY <1>16, <2>1 DEF DataInv
  <1>19. FrontInv'
    <2>1. AtFront'
      BY <1>1, <1>2, <1>3, <1>5 DEF InstallInv, FrontInv, AtFront, Ready
    <2> QED
      BY <1>1, <1>2, <1>3, <1>15, <2>1 DEF InstallInv, FrontInv, Padding
  <1>20. BehindInv'
    <2>1. TypeOK
      BY DEF MtdInv
    <2>2. \A x \in New : x[1] \in Nat /\ x[2] \in Nat
      BY <2>1, BlockShape DEF New
    <2>3. \A x \in New' : Before(x, At(m.pos))'
      BY <1>3, <1>5, <1>6, <1>15, <2>2 DEF Before, At
    <2>4. \A x \in New' : x[2] >= opt.part_offset
      BY <1>6, <1>15 DEF At
    <2> QED
      BY <1>1, <1>2, <2>3, <2>4 DEF BehindInv
  <1>21. ReadInv' /\ SkipInv' /\ HeaderInv' /\ EndInv'
    <2>1. ReadInv'
      BY <1>1, <1>2, <1>3, <1>5, <1>9, <1>10 DEF InstallInv, ReadInv, Padding
    <2> QED
      BY <1>1, <1>2, <2>1 DEF InstallInv, SkipInv, HeaderInv, EndInv, Padding
  <1> QED
    BY <1>1, <1>18, <1>19, <1>20, <1>21, NotExit

\* pad() goes around a bad block.
LEMMA PadSkipInstalled ==
  ASSUME MtdInv, MtdInv', InstallInv, pad_skips_bad
  PROVE  InstallInv'
  <1>1. /\ UNCHANGED <<chip, flash, img, jffs2file, jffs2_replaced, failed>>
        /\ pc = "jffs2" /\ pc' = "jffs2" /\ At(j.mtdofs) \in bad
        /\ j' = [j EXCEPT !.mtdofs = j.mtdofs + 1] /\ m' = [m EXCEPT !.pos = m.pos + 1]
    BY DEF pad_skips_bad, mtd_block_is_bad
  <1>2. UNCHANGED <<job, opt, bad, worn>> /\ Eof' = Eof /\ Blocks' = Blocks /\ ConfLen' = ConfLen
    BY <1>1, SameChip
  <1>3. /\ m'.part = m.part /\ m'.pos = m.pos + 1 /\ m'.w = m.w /\ m'.e = m.e
        /\ m'.sb = m.sb /\ m'.buf = m.buf /\ m'.skip = m.skip /\ m'.offset = m.offset
        /\ j'.mtdofs = j.mtdofs + 1 /\ j'.n = j.n
    BY <1>1 DEF MtdInv, TypeOK, Counters
  <1>4. Clear' <=> Clear
    BY <1>1, <1>2, <1>3 DEF Clear, Ordinary
  <1>5. New' = New
    BY <1>1, WholeKept
  <1>6. /\ m.e \in Nat /\ m.w \in Nat /\ m.sb \in Nat /\ m.pos \in Nat /\ j.mtdofs \in Nat
        /\ opt.part_offset \in Nat /\ j.n \in Nat
    <2>1. j.n \in 0..ConfLen /\ ConfLen \in Nat
      BY Fields DEF MtdInv
    <2> QED
      BY SMTT(20), <2>1, Fields DEF MtdInv
  <1>7. FrontInv'
    BY <1>1, <1>2, <1>3, <1>4, <1>6 DEF InstallInv, FrontInv, Padding
  <1>8. BehindInv'
    <2>1. TypeOK
      BY DEF MtdInv
    <2>2. \A x \in New : x[1] \in Nat /\ x[2] \in Nat
      BY <2>1, BlockShape DEF New
    <2>3. Clear => \A x \in New : Before(x, At(m.pos))
      BY <1>1 DEF InstallInv, BehindInv, Holding
    <2>4. Clear => \A x \in New : Before(x, At(m.pos))'
      BY <1>3, <1>6, <2>2, <2>3 DEF Before, At
    <2> QED
      BY <1>1, <1>2, <1>4, <1>5, <2>4 DEF InstallInv, BehindInv, Holding, Before
  <1>9. SkipInv'
    <2>1. j.mtdofs >= m.e
      BY <1>1 DEF MtdInv, Jffs2Inv
    <2>2. \A x \in bad : x[2] \in Nat /\ (x[1] = m.part => x = At(x[2]))
      BY BlockShape DEF MtdInv, TypeOK
    <2>3. Passed' = Passed \cup {At(j.mtdofs)} /\ At(j.mtdofs) \notin Passed
      BY <1>1, <1>2, <1>3, <1>6, <2>1, <2>2 DEF Passed, At
    <2>4. IsFiniteSet(bad) /\ Passed \subseteq bad
      BY DEF InstallInv, SkipInv, Passed
    <2>5. IsFiniteSet(Passed)
      BY <2>4, FS_Subset
    <2>6. Cardinality(Passed) \in Nat /\ Cardinality(Passed') = Cardinality(Passed) + 1
      BY <2>3, <2>5, FS_AddElement, FS_CardinalityType
    <2>7. Clear => j.mtdofs = m.e + j.n + Cardinality(Passed)
      BY <1>1 DEF InstallInv, SkipInv, Padding
    <2>8. Clear => j'.mtdofs = m'.e + j'.n + Cardinality(Passed')
      BY <1>3, <1>6, <2>6, <2>7
    <2> QED
      BY <1>2, <1>4, <2>4, <2>8 DEF SkipInv
  <1>10. Done' = Done /\ Confs' = Confs
    BY <1>1, <1>2, <1>3 DEF Done, Confs, Padding
  <1>11. ReadInv' /\ HeaderInv' /\ EndInv'
    BY <1>1, <1>2, <1>3, <1>4, <1>10 DEF InstallInv, ReadInv, HeaderInv, EndInv, Padding
  <1>12. DataInv'
    BY <1>1, <1>3, <1>4, <1>10, SameDue
  <1> QED
    BY <1>1, <1>7, <1>8, <1>9, <1>11, <1>12, NotExit

\* pad() erases the next block.
LEMMA PadEraseInstalled ==
  ASSUME MtdInv, MtdInv', InstallInv, pad_erase
  PROVE  InstallInv'
  <1>1. /\ UNCHANGED <<chip, m, img, jffs2file, jffs2_replaced, j>>
        /\ pc = "jffs2" /\ pc' = "jffs2_write" /\ flash' = erased(j.mtdofs)
        /\ failed' = IF Erasable(j.mtdofs) THEN failed ELSE failed \cup {"jffs2"}
    BY DEF pad_erase
  <1>2. /\ UNCHANGED <<job, opt, bad, worn>> /\ Eof' = Eof /\ Blocks' = Blocks
        /\ ConfLen' = ConfLen /\ Sizes' = Sizes
    BY <1>1, SameChip
  <1> SUFFICES ASSUME Clear'
               PROVE  InstallInv'
    BY <1>1, Unclear
  <1>3. Erasable(j.mtdofs) /\ failed' = failed
    BY <1>1 DEF Clear
  <1>4. Clear
    BY <1>1, <1>2, <1>3 DEF Clear, Ordinary
  <1>5. j.mtdofs \in Nat /\ m.pos = j.mtdofs /\ \A x \in New : Before(x, At(m.pos))
    BY <1>1, <1>4, Fields DEF MtdInv, InstallInv, FrontInv, BehindInv, Padding, Holding
  <1>6. /\ \A x \in Blocks \ bad :
             flash'[x] = flash[x] \/ {flash[x], flash'[x]} \subseteq {Old, Erased}
        /\ New' = New /\ flash'[At(m.pos)] = Erased
        /\ (\A x \in Blocks : flash[x] # Old) => \A x \in Blocks : flash'[x] # Old
    BY <1>1, <1>3, <1>5, EraseBehind
  <1>7. FrontInv'
    <2>1. Inside(m.pos)' /\ Good(m.pos)' /\ (flash[At(m.pos)] = Erased)'
      BY <1>1, <1>2, <1>3, <1>5, <1>6 DEF Erasable, Inside, Good, At
    <2> QED
      BY <1>1, <1>2, <1>4, <1>6, <2>1 DEF InstallInv, FrontInv, Padding
  <1>8. BehindInv'
    BY <1>1, <1>2, <1>4, <1>6 DEF InstallInv, BehindInv, Holding, Before, At
  <1>9. Done' = Done /\ Confs' = Confs
    BY <1>1, <1>2 DEF Done, Confs, Padding
  <1>10. ReadInv' /\ SkipInv' /\ HeaderInv' /\ EndInv'
    BY <1>1, <1>2, <1>4, <1>9
       DEF InstallInv, ReadInv, SkipInv, Passed, HeaderInv, EndInv, Padding
  <1>11. DataInv'
    BY <1>1, <1>4, <1>6, <1>9, SameDue
  <1> QED
    BY <1>1, <1>7, <1>8, <1>10, <1>11, NotExit

\* The ranks of what is due before a block of the configuration.
LEMMA ConfRank ==
  ASSUME MtdInv, NEW k, Holds(Due(k)), Done = Eof - 1, Eof # 0, Confs \in Nat
  PROVE  \A x \in New : Rank(flash[x]) < Rank(<<"conf", Confs + 1>>)
  <1>1. Eof \in Nat
    BY Fields DEF MtdInv
  <1> SUFFICES ASSUME NEW x \in New
               PROVE  Rank(flash[x]) < Rank(<<"conf", Confs + 1>>)
    OBVIOUS
  <1>2. flash[x] \in Due(k)
    BY DEF Holds
  <1>3. CASE \E i \in 1..Done : flash[x] = <<"img", i>>
    BY <1>1, <1>3 DEF Rank
  <1>4. CASE \E i \in 1..Confs : flash[x] = <<"conf", i>>
    BY <1>1, <1>4 DEF Rank
  <1> QED
    BY <1>2, <1>3, <1>4 DEF Due, Conf

\* pad() writes a block of the configuration.
LEMMA PadWriteInstalled ==
  ASSUME MtdInv, MtdInv', InstallInv, pad_write
  PROVE  InstallInv'
  <1>1. /\ UNCHANGED <<chip, img, jffs2file, jffs2_replaced, failed>>
        /\ pc = "jffs2_write" /\ flash' = written(flash, m.pos, <<"conf", j.n + 1>>)
        /\ j' = [mtdofs |-> j.mtdofs + 1, n |-> j.n + 1]
        /\ m' = [m EXCEPT !.pos = IF Inside(m.pos) THEN m.pos + 1 ELSE m.pos]
        /\ pc' = IF j.n + 1 = ConfLen THEN "jffs2_end" ELSE "jffs2"
    BY DEF pad_write
  <1>2. /\ UNCHANGED <<job, opt, bad, worn>> /\ Eof' = Eof /\ Blocks' = Blocks
        /\ ConfLen' = ConfLen /\ Sizes' = Sizes
    BY <1>1, SameChip
  <1>3. /\ m'.part = m.part /\ m'.w = m.w /\ m'.e = m.e
        /\ m'.pos = IF Inside(m.pos) THEN m.pos + 1 ELSE m.pos
        /\ m'.sb = m.sb /\ m'.buf = m.buf /\ m'.skip = m.skip /\ m'.offset = m.offset
        /\ j'.mtdofs = j.mtdofs + 1 /\ j'.n = j.n + 1
    BY <1>1 DEF MtdInv, TypeOK, Counters
  <1>4. Clear' <=> Clear
    BY <1>1, <1>2, <1>3 DEF Clear, Ordinary
  <1> SUFFICES ASSUME Clear
               PROVE  InstallInv'
    BY <1>1, <1>3, <1>4, Unclear
  <1>5. /\ m.e \in Nat /\ m.w \in Nat /\ m.sb \in Nat /\ m.pos \in Nat /\ j.mtdofs \in Nat
        /\ opt.part_offset \in Nat /\ j.n \in Nat /\ Eof \in Nat /\ ConfLen \in Nat
        /\ img \in Nat
    <2>1. j.n \in 0..ConfLen /\ ConfLen \in Nat
      BY Fields DEF MtdInv
    <2> QED
      BY <2>1, Fields DEF MtdInv, TypeOK
  <1>6. /\ Inside(m.pos) /\ Good(m.pos) /\ flash[At(m.pos)] = Erased
        /\ m.pos = j.mtdofs /\ m.e = m.w + m.sb
    BY <1>1 DEF InstallInv, FrontInv, Padding
  <1>7. /\ jffs2file /\ ~jffs2_replaced /\ m.buf = Eof /\ m.buf # 0 /\ m.buf = img
        /\ opt.jffs2
    BY <1>1 DEF MtdInv, BufferInv, Holding, InstallInv, ReadInv, Padding
  <1>8. /\ Done = Eof - 1 /\ Done' = Done /\ Confs = j.n /\ Confs' = j.n + 1
    BY <1>1, <1>2, <1>3, <1>5, <1>7 DEF Done, Confs, Padding
  <1>9. PICK k : Resumes(k) /\ Holds(Due(k))
    BY <1>1 DEF InstallInv, DataInv
  <1>10. /\ opt.part_offset = 0
         /\ \A x \in New : Before(x, At(m.pos)) /\ x[2] >= opt.part_offset
    BY <1>1, <1>7 DEF InstallInv, BehindInv, Holding, Clear, Ordinary
  <1>11. <<"conf", j.n + 1>> \in Contents /\ <<"conf", j.n + 1>> \notin {Old, Erased}
    <2>1. j.n < ConfLen
      BY <1>1 DEF MtdInv, Jffs2Inv
    <2>2. j.n + 1 \in 1..ConfLen
      BY <1>5, <2>1
    <2> QED
      BY <2>2 DEF Contents, Old, Erased
  <1>12. \A x \in New : Rank(flash[x]) < Rank(<<"conf", j.n + 1>>)
    BY <1>5, <1>7, <1>8, <1>9, ConfRank
  <1>13. /\ New' = New \cup {At(m.pos)}
         /\ {flash'[x] : x \in New'} = Due(k) \cup {<<"conf", j.n + 1>>}
         /\ \A x, y \in New' : Before(x, y) => Rank(flash'[x]) < Rank(flash'[y])
         /\ (\A x \in Blocks : flash[x] # Old) => \A x \in Blocks : flash'[x] # Old
    BY <1>1, <1>5, <1>6, <1>9, <1>10, <1>11, <1>12, WriteBehind DEF Holds
  <1>14. DataInv'
    <2>1. Resumes(k)'
      BY <1>1, <1>2, <1>7, <1>9 DEF Resumes
    <2>2. 1..j.n + 1 = (1..j.n) \cup {j.n + 1}
      BY <1>5
    <2>3. Conf(j.n + 1) = Conf(j.n) \cup {<<"conf", j.n + 1>>}
      BY <2>2 DEF Conf
    <2>4. Due(k)' = Due(k) \cup {<<"conf", j.n + 1>>}
      BY <1>1, <1>2, <1>7, <1>8, <2>3 DEF Due, Conf
    <2>5. Holds(Due(k))'
      BY <1>2, <1>13, <2>4 DEF Holds, Rank, Before
    <2> QED
      BY <2>1, <2>5 DEF DataInv
  <1>15. FrontInv'
    BY <1>1, <1>2, <1>3, <1>5, <1>6, <1>13 DEF InstallInv, FrontInv, Padding
  <1>16. BehindInv'
    <2>1. TypeOK
      BY DEF MtdInv
    <2>2. \A x \in New : x[1] \in Nat /\ x[2] \in Nat
      BY <2>1, BlockShape DEF New
    <2>3. \A x \in New' : Before(x, At(m.pos))'
      BY <1>3, <1>5, <1>6, <1>10, <1>13, <2>2 DEF Before, At
    <2>4. \A x \in New' : x[2] >= opt.part_offset
      BY <1>5, <1>10, <1>13 DEF At
    <2> QED
      BY <1>1, <1>2, <2>3, <2>4 DEF BehindInv
  <1>17. SkipInv'
    <2>1. j.mtdofs = m.e + j.n + Cardinality(Passed) /\ IsFiniteSet(bad)
      BY <1>1 DEF InstallInv, SkipInv, Padding
    <2>2. \A x \in bad : x[2] \in Nat /\ (x[1] = m.part => x = At(x[2]))
      BY BlockShape DEF MtdInv, TypeOK
    <2>3. Passed' = Passed
      BY <1>2, <1>3, <1>5, <1>6, <2>2 DEF Passed, Good
    <2>4. Cardinality(Passed) \in Nat
      BY <2>1, FS_Subset, FS_CardinalityType DEF Passed
    <2>5. j'.mtdofs = m'.e + j'.n + Cardinality(Passed')
      BY <1>3, <1>5, <2>1, <2>3, <2>4
    <2> QED
      BY <1>2, <2>1, <2>5 DEF SkipInv
  <1>18. ReadInv' /\ HeaderInv' /\ EndInv'
    BY <1>1, <1>2, <1>3, <1>8 DEF InstallInv, ReadInv, HeaderInv, EndInv, Padding
  <1> QED
    BY <1>1, <1>14, <1>15, <1>16, <1>17, <1>18, NotExit

\* mtd_replace_jffs2() is done: as many blocks of the image are skipped as the
\* configuration and the bad blocks in it take.
LEMMA ReplacedInstalled ==
  ASSUME MtdInv, MtdInv', InstallInv, replace_jffs2_end
  PROVE  InstallInv'
  <1> DEFINE skip == j.mtdofs - m.e
  <1>1. /\ UNCHANGED <<chip, flash, img, j, failed>>
        /\ pc = "jffs2_end" /\ pc' = "read" /\ jffs2_replaced' = TRUE /\ jffs2file' = FALSE
        /\ m' = [m EXCEPT !.w = m.w + skip, !.e = m.e + skip, !.skip = skip - 1,
                          !.buf = 0, !.offset = 0]
    BY DEF replace_jffs2_end
  <1>2. /\ UNCHANGED <<job, opt, bad, worn>> /\ Eof' = Eof /\ Blocks' = Blocks
        /\ ConfLen' = ConfLen /\ Sizes' = Sizes
    BY <1>1, SameChip
  <1>3. /\ m'.part = m.part /\ m'.w = m.w + skip /\ m'.e = m.e + skip /\ m'.pos = m.pos
        /\ m'.sb = m.sb /\ m'.buf = 0 /\ m'.skip = skip - 1 /\ m'.offset = 0
    BY <1>1 DEF MtdInv, TypeOK, Counters
  <1>4. Clear' <=> Clear
    BY <1>1, <1>2, <1>3 DEF Clear, Ordinary
  <1> SUFFICES ASSUME Clear
               PROVE  InstallInv'
    BY <1>1, <1>3, <1>4, Unclear
  <1>5. /\ m.e \in Nat /\ m.w \in Nat /\ m.sb \in Nat /\ m.pos \in Nat /\ j.mtdofs \in Nat
        /\ opt.part_offset \in Nat /\ Eof \in Nat /\ ConfLen \in Nat \ {0} /\ img \in Nat
    BY Fields DEF MtdInv, TypeOK
  <1>6. m.pos = j.mtdofs /\ m.e = m.w + m.sb
    BY <1>1 DEF InstallInv, FrontInv, Padding
  <1>7. /\ jffs2file /\ ~jffs2_replaced /\ m.buf = Eof /\ m.buf # 0 /\ m.buf = img
        /\ opt.jffs2 /\ j.n = ConfLen
    BY <1>1 DEF MtdInv, BufferInv, Holding, InstallInv, ReadInv, Padding
  <1>8. /\ Done = Eof - 1 /\ Done' = Eof /\ Confs = ConfLen /\ Confs' = ConfLen
    BY <1>1, <1>2, <1>3, <1>5, <1>7 DEF Done, Confs, Padding
  <1>9. /\ skip = ConfLen + Cardinality(Passed) /\ IsFiniteSet(bad)
        /\ Cardinality(Passed) \in Nat /\ Cardinality(bad) \in Nat
        /\ Cardinality(Passed) <= Cardinality(bad)
    <2>1. j.mtdofs = m.e + j.n + Cardinality(Passed) /\ IsFiniteSet(bad)
      BY <1>1 DEF InstallInv, SkipInv, Padding
    <2>2. Passed \subseteq bad
      BY DEF Passed
    <2>3. IsFiniteSet(Passed) /\ Cardinality(Passed) <= Cardinality(bad)
      BY <2>1, <2>2, FS_Subset
    <2>4. Cardinality(Passed) \in Nat /\ Cardinality(bad) \in Nat
      BY <2>1, <2>3, FS_CardinalityType
    <2> QED
      BY <1>5, <1>7, <2>1, <2>3, <2>4
  <1> HIDE DEF skip
  <1>10. PICK k : k = Eof + skip
    OBVIOUS
  <1>11. k \in Int /\ k > Eof /\ Resumes(k)'
    <2>1. k \in Eof + ConfLen .. Eof + ConfLen + Cardinality(bad)
      BY <1>5, <1>9, <1>10
    <2>2. m'.skip > 0 => k = Done' + 1 + m'.skip
      BY <1>3, <1>5, <1>8, <1>9, <1>10
    <2>3. m'.skip = 0 => k <= Done' + 1
      BY <1>3, <1>5, <1>8, <1>9, <1>10
    <2>4. k \in Int /\ k > Eof
      BY <1>5, <1>9, <1>10
    <2> QED
      BY <1>1, <1>2, <2>1, <2>2, <2>3, <2>4 DEF Resumes
  <1>12. PICK q : Holds(Due(q))
    BY <1>1 DEF InstallInv, DataInv
  <1>13. Due(k)' = Due(q)
    <2>1. {n \in 1..Eof : n < Eof \/ n >= k} = {n \in 1..Eof - 1 : TRUE}
      BY <1>5, <1>11
    <2> QED
      BY <1>1, <1>2, <1>7, <1>8, <2>1 DEF Due, Conf
  <1>14. New' = New /\ \A x \in New : flash'[x] = flash[x]
    BY <1>1, <1>2 DEF New
  <1>15. DataInv'
    <2>1. Holds(Due(k))'
      BY <1>1, <1>2, <1>12, <1>13, <1>14 DEF Holds, Rank, Before
    <2> QED
      BY <1>11, <2>1 DEF DataInv
  <1>16. FrontInv'
    <2>1. AtFront'
      <3>1. opt.part_offset = 0
        BY <1>7 DEF Clear, Ordinary
      <3> QED
        BY <1>2, <1>3, <1>5, <1>6, <3>1 DEF AtFront, skip
    <2> QED
      BY <1>1, <1>2, <1>3, <2>1 DEF InstallInv, FrontInv, Padding
  <1>17. BehindInv'
    BY <1>1, <1>2, <1>3, <1>14 DEF InstallInv, BehindInv, Holding, Before, At
  <1>18. ReadInv'
    <2>1. m'.skip >= 0
      BY <1>3, <1>5, <1>9
    <2>2. Done' >= Eof' /\ Eof' # 0
      <3>1. Done' = Eof /\ Eof' = Eof /\ Eof \in Nat /\ Eof # 0
        BY <1>2, <1>5, <1>7, <1>8
      <3>2. Eof >= Eof
        BY <3>1
      <3> QED
        BY <3>1, <3>2
    <2>3. /\ pc' = "read" /\ jffs2_replaced' /\ ~jffs2file' /\ m'.buf = 0
          /\ opt'.jffs2
      BY <1>1, <1>2, <1>3, <1>7
    <2> QED
      BY <2>1, <2>2, <2>3 DEF ReadInv, Padding
  <1>19. SkipInv' /\ HeaderInv' /\ EndInv'
    BY <1>1, <1>2, <1>9 DEF SkipInv, HeaderInv, EndInv, Padding
  <1> QED
    BY <1>1, <1>15, <1>16, <1>17, <1>18, <1>19, NotExit

-----------------------------------------------------------------------------
(***************************************************************************)
(* The end of mtd_write.                                                   *)
(***************************************************************************)

\* Everything that was due is the whole image.
LEMMA AllDue ==
  ASSUME MtdInv, InstallInv, Clear, Done = ImageLen, pc \notin Padding,
         NEW k, Resumes(k)
  PROVE  /\ ~jffs2_replaced => Due(k) = {<<"img", i>> : i \in 1..ImageLen}
         /\ jffs2_replaced =>
              /\ Eof \in Nat \ {0} /\ k \in Nat /\ k > Eof
              /\ Due(k) = {<<"img", i>> : i \in 1..Eof - 1} \cup Conf(ConfLen)
                          \cup {<<"img", i>> : i \in k..ImageLen}
  <1>1. /\ Eof \in 0..ImageLen /\ ImageLen \in Nat /\ ConfLen \in Nat \ {0}
        /\ jffs2_replaced \in BOOLEAN
    BY Fields DEF MtdInv, TypeOK
  <1>2. Cardinality(bad) \in Nat
    BY BadCount DEF InstallInv, SkipInv
  <1>3. CASE ~jffs2_replaced
    <2>1. Confs = 0
      BY <1>3 DEF Confs
    <2>2. Conf(Confs) = {}
      BY <2>1 DEF Conf
    <2> QED
      BY <1>3, <2>2 DEF Due
  <1>4. CASE jffs2_replaced
    <2>1. Eof # 0
      BY <1>4 DEF InstallInv, ReadInv
    <2>2. k \in Nat /\ k > Eof
      BY <1>1, <1>2 DEF Resumes
    <2>3. {n \in 1..ImageLen : n < Eof \/ n >= k} = (1..Eof - 1) \cup (k..ImageLen)
      BY <1>1, <2>1, <2>2
    <2>4. Confs = ConfLen
      BY <1>4 DEF Confs
    <2>5. Due(k) = {<<"img", i>> : i \in (1..Eof - 1) \cup (k..ImageLen)} \cup Conf(ConfLen)
      BY <1>4, <2>3, <2>4 DEF Due
    <2> QED
      BY <1>1, <1>4, <2>1, <2>2, <2>5
  <1> QED
    BY <1>1, <1>3, <1>4

\* At the end of the loop the whole image is there, with its old header.
LEMMA ImageThere ==
  ASSUME MtdInv, InstallInv, Clear, pc \in {"end", "fix"}
  PROVE  /\ ~jffs2_replaced => Holds({<<"img", i>> : i \in 1..ImageLen})
         /\ jffs2_replaced =>
              \E k \in Eof + ConfLen .. Eof + ConfLen + Cardinality(bad) :
                Holds({<<"img", i>> : i \in 1..Eof - 1} \cup Conf(ConfLen)
                      \cup {<<"img", i>> : i \in k..ImageLen})
  <1>1. Done = ImageLen /\ pc \notin Padding
    BY DEF MtdInv, BufferInv, Closing, Done, Padding
  <1>2. PICK k : Resumes(k) /\ Holds(Due(k))
    BY DEF InstallInv, DataInv
  <1>3. k \in Eof + ConfLen .. Eof + ConfLen + Cardinality(bad)
    BY <1>2 DEF Resumes
  <1>4. /\ ~jffs2_replaced => Due(k) = {<<"img", i>> : i \in 1..ImageLen}
        /\ jffs2_replaced =>
             Due(k) = {<<"img", i>> : i \in 1..Eof - 1} \cup Conf(ConfLen)
                      \cup {<<"img", i>> : i \in k..ImageLen}
    BY <1>1, <1>2, AllDue
  <1> QED
    BY <1>2, <1>3, <1>4

\* The end of the loop.
LEMMA EndInstalled ==
  ASSUME MtdInv, MtdInv', InstallInv, end_loop
  PROVE  InstallInv'
  <1>1. /\ UNCHANGED <<chip, flash, m, img, jffs2file, jffs2_replaced, j, failed>>
        /\ pc = "end" /\ pc' = IF jffs2_replaced /\ Seama THEN "fix" ELSE "close"
    BY DEF end_loop
  <1>2. UNCHANGED <<job, opt, bad, worn>> /\ Eof' = Eof /\ Blocks' = Blocks
    BY <1>1, SameChip
  <1>3. (Clear' <=> Clear) /\ New' = New /\ (Whole' <=> Whole)
    BY <1>1, <1>2, WholeKept DEF Clear, Ordinary
  <1>4. FrontInv' /\ BehindInv' /\ ReadInv'
    BY <1>1, <1>2, <1>3
       DEF InstallInv, FrontInv, BehindInv, ReadInv, Padding, Holding, Done
  <1>5. ASSUME Clear, ~(jffs2_replaced /\ Seama)
        PROVE  Whole
    <2>1. \A a, b : Img(a, b) = {<<"img", i>> : i \in a..b}
      BY <1>5 DEF Img, HeaderDone
    <2> QED
      BY <1>1, <1>5, <2>1, ImageThere DEF Whole
  <1>6. HeaderInv' /\ EndInv' /\ pc \notin Padding /\ pc' \notin Padding
    BY <1>1, <1>3, <1>5 DEF HeaderInv, EndInv, Padding
  <1> QED
    BY <1>1, <1>4, <1>6, Moves

\* The checksum for the header cannot be computed: the image is there as it is.
LEMMA GivesUpInstalled ==
  ASSUME MtdInv, MtdInv', InstallInv, fixseama_gives_up
  PROVE  InstallInv'
  <1>1. /\ UNCHANGED <<chip, flash, flag, status, m, img, jffs2file, jffs2_replaced, j>>
        /\ pc = "fix" /\ pc' = "close" /\ failed' = failed \cup {"header"}
    BY DEF fixseama_gives_up
  <1>2. /\ UNCHANGED <<job, opt, bad, worn>> /\ Eof' = Eof /\ Blocks' = Blocks
        /\ ConfLen' = ConfLen /\ ImageLen' = ImageLen
    BY <1>1, SameChip
  <1>3. (Clear' <=> Clear) /\ New' = New
    BY <1>1, <1>2 DEF Clear, Ordinary, New
  <1>4. FrontInv' /\ BehindInv' /\ ReadInv'
    BY <1>1, <1>2, <1>3
       DEF InstallInv, FrontInv, BehindInv, ReadInv, Padding, Holding, Done
  <1>5. SkipInv' /\ DataInv' /\ HeaderInv'
    BY <1>1, <1>2 DEF InstallInv, SkipInv, DataInv, HeaderInv, Padding
  <1>6. ASSUME Clear
        PROVE  Whole'
    <2>1. jffs2_replaced
      BY <1>1 DEF MtdInv, FixInv
    <2>2. PICK k \in Eof + ConfLen .. Eof + ConfLen + Cardinality(bad) :
            Holds({<<"img", i>> : i \in 1..Eof - 1} \cup Conf(ConfLen)
                  \cup {<<"img", i>> : i \in k..ImageLen})
      BY <1>1, <1>6, <2>1, ImageThere
    <2>3. \A a, b : Img(a, b)' = {<<"img", i>> : i \in a..b}
      BY <1>1 DEF Img, HeaderDone
    <2>4. Conf(ConfLen)' = Conf(ConfLen)
      BY <1>2 DEF Conf
    <2>5. (Img(1, Eof - 1) \cup Conf(ConfLen) \cup Img(k, ImageLen))'
            = {<<"img", i>> : i \in 1..Eof - 1} \cup Conf(ConfLen)
              \cup {<<"img", i>> : i \in k..ImageLen}
      BY <1>2, <2>3, <2>4
    <2>6. Holds(Img(1, Eof - 1) \cup Conf(ConfLen) \cup Img(k, ImageLen))'
      BY <1>1, <1>2, <1>3, <2>2, <2>5 DEF Holds, Rank, Before
    <2>7. k \in Eof' + ConfLen' .. Eof' + ConfLen' + Cardinality(bad')
      BY <1>2
    <2> QED
      BY <1>1, <2>1, <2>6, <2>7 DEF Whole
  <1>7. EndInv'
    BY <1>3, <1>6 DEF EndInv
  <1> QED
    BY <1>1, <1>4, <1>5, <1>7, NotExit

\* The driver fails to write a block of the image, or the header.
LEMMA BrokenInstalled ==
  ASSUME MtdInv, MtdInv', InstallInv, write_fails \/ fixseama_write_fails
  PROVE  InstallInv'
  <1>1. /\ UNCHANGED <<chip, flag, m, img, jffs2file, jffs2_replaced, j, failed>>
        /\ pc' = "done" /\ status' = 1 /\ pc \in {"write", "fix_write"}
    BY DEF write_fails, fixseama_write_fails, Exit
  <1>2. /\ UNCHANGED <<job, opt, bad, worn>> /\ Blocks' = Blocks /\ Eof' = Eof
        /\ ConfLen' = ConfLen
    BY <1>1, SameChip
  <1>3. Clear' <=> Clear
    BY <1>1, <1>2 DEF Clear, Ordinary
  <1>4. PICK b \in Nat : /\ (pc = "write" /\ b = m.pos) \/ (pc = "fix_write" /\ b = 0)
                         /\ flash' \in {flash, written(flash, b, Garbage)}
    <2>1. m.pos \in Nat /\ 0 \in Nat
      BY Fields DEF MtdInv
    <2>2. CASE write_fails
      BY <2>1, <2>2 DEF write_fails
    <2>3. CASE fixseama_write_fails
      BY <2>1, <2>3 DEF fixseama_write_fails
    <2> QED
      BY <2>2, <2>3
  <1>5. \A x \in Blocks : flash'[x] = flash[x] \/ (x = At(b) /\ flash'[x] \in {Garbage, Mixed})
    <2>1. Garbage \in Contents
      BY DEF Contents
    <2> QED
      BY <1>4, <2>1, AfterWrite DEF MtdInv
  <1>6. FrontInv'
    <2>1. (\A x \in Blocks : flash[x] # Old) => \A x \in Blocks : flash'[x] # Old
      BY <1>5 DEF Old, Garbage, Mixed
    <2> QED
      BY <1>1, <1>2, <1>3, <2>1 DEF InstallInv, FrontInv, Padding
  <1>7. BehindInv'
    <2>1. ASSUME Clear
          PROVE  b >= opt.part_offset
      <3>1. /\ opt.part_offset \in Nat /\ m.w \in Nat /\ m.sb \in Nat
        BY Fields DEF MtdInv
      <3>2. CASE pc = "write"
        <4>1. m.pos = m.w + m.sb + opt.part_offset
          BY <2>1, <3>2 DEF InstallInv, FrontInv, AtFront, Ready
        <4> QED
          BY <1>4, <3>1, <3>2, <4>1
      <3>3. CASE pc = "fix_write"
        <4>1. opt.part_offset = 0
          BY <2>1, <3>3 DEF MtdInv, FixInv, Clear, Ordinary, InstallInv, ReadInv
        <4> QED
          BY <1>4, <3>3, <4>1
      <3> QED
        BY <1>1, <3>2, <3>3
    <2>2. \A x \in New' : x \in New \/ x = At(b)
      BY <1>2, <1>5 DEF New
    <2>3. Clear => \A x \in New' : x[2] >= opt.part_offset
      BY <2>1, <2>2 DEF InstallInv, BehindInv, At
    <2> QED
      BY <1>1, <1>2, <1>3, <2>3 DEF BehindInv, Holding
  <1>8. ReadInv'
    BY <1>1, <1>2, <1>3 DEF InstallInv, ReadInv, Padding, Done
  <1>9. SkipInv' /\ DataInv' /\ HeaderInv' /\ EndInv'
    BY <1>1, <1>2 DEF InstallInv, SkipInv, DataInv, HeaderInv, EndInv, Padding
  <1>10. Installed'
    BY <1>1 DEF Installed
  <1>11. RecoveryCovers'
    BY <1>1, <1>2 DEF RecoveryCovers, MtdInv, FlagInv, Holding
  <1> QED
    BY <1>6, <1>7, <1>8, <1>9, <1>10, <1>11 DEF InstallInv

\* The device is closed; the recovery flag is cleared next.
LEMMA CloseInstalled ==
  ASSUME MtdInv, MtdInv', InstallInv, close_fd
  PROVE  InstallInv'
  <1>1. /\ UNCHANGED <<chip, flash, flag, m, img, jffs2file, jffs2_replaced, j, failed>>
        /\ pc = "close"
    BY DEF close_fd
  <1>2. CASE Exit(0)
    BY <1>1, <1>2, ExitsInstalled
  <1>3. CASE pc' = "clear_erase"
    <2>1. UNCHANGED <<job, opt, bad, worn>> /\ Eof' = Eof /\ Blocks' = Blocks
      BY <1>1, SameChip
    <2>2. (Clear' <=> Clear) /\ New' = New /\ (Whole' <=> Whole)
      BY <1>1, <2>1, WholeKept DEF Clear, Ordinary
    <2>3. FrontInv' /\ BehindInv' /\ ReadInv'
      BY <1>1, <1>3, <2>1, <2>2
         DEF InstallInv, FrontInv, BehindInv, ReadInv, Padding, Holding, Done
    <2>4. HeaderInv' /\ EndInv' /\ pc \notin Padding /\ pc' \notin Padding
      BY <1>1, <1>3, <2>2 DEF InstallInv, HeaderInv, EndInv, Padding
    <2> QED
      BY <1>1, <1>3, <2>3, <2>4, Moves
  <1> QED
    BY <1>2, <1>3 DEF close_fd

\* mtd_fixseama() erases the first block, which holds the header.
LEMMA FixEraseInstalled ==
  ASSUME MtdInv, MtdInv', InstallInv, fixseama_erase
  PROVE  InstallInv'
  <1>1. /\ UNCHANGED <<chip, flag, m, img, jffs2file, jffs2_replaced, j, failed>>
        /\ pc = "fix"
    BY DEF fixseama_erase
  <1>2. CASE Exit(1) /\ UNCHANGED flash
    BY <1>1, <1>2, ExitsInstalled
  <1>3. CASE /\ flash[At(0)] = <<"img", 1>> /\ Erasable(0)
             /\ flash' = erased(0) /\ pc' = "fix_write"
    <2>1. /\ UNCHANGED <<job, opt, bad, worn>> /\ Eof' = Eof /\ Blocks' = Blocks
          /\ ConfLen' = ConfLen
      BY <1>1, SameChip
    <2>2. Clear' <=> Clear
      BY <1>1, <2>1 DEF Clear, Ordinary
    <2> SUFFICES ASSUME Clear
                 PROVE  InstallInv'
      BY <1>1, <2>2, Unclear
    <2>3. TypeOK /\ jffs2_replaced
      BY <1>1 DEF MtdInv, FixInv
    <2>4. At(0) \in Blocks /\ At(0) \notin bad
      BY <1>3, <2>3, OpenBlocks DEF Erasable
    <2>5. \A x \in Blocks : flash'[x] = IF x = At(0) THEN Erased ELSE flash[x]
      BY <1>3, <2>3, AfterErase
    <2>6. At(0) \in New
      BY <1>3, <2>4 DEF New, Old, Erased
    <2>7. New' = New \ {At(0)} /\ \A x \in New' : flash'[x] = flash[x]
      BY <2>1, <2>5 DEF New
    <2>8. PICK k : Resumes(k) /\ Holds(Due(k))
      BY <1>1 DEF InstallInv, DataInv
    <2>9. Eof \in Nat \ {0} /\ ConfLen \in Nat \ {0} /\ k \in Nat /\ k > Eof
      <3>1. Eof \in 0..ImageLen /\ ImageLen \in Nat /\ ConfLen \in Nat \ {0}
        BY <2>3, Fields
      <3>2. Cardinality(bad) \in Nat /\ Eof # 0
        BY <2>3, BadCount DEF InstallInv, SkipInv, ReadInv
      <3> QED
        BY <2>8, <3>1, <3>2 DEF Resumes
    <2>10. \A c \in Due(k) :
             \/ \E i \in Nat : c = <<"img", i>> /\ i >= 1 /\ (i < Eof \/ i >= k)
             \/ \E i \in Nat : c = <<"conf", i>> /\ i >= 1
      BY <2>3 DEF Due, Conf
    <2>11. Eof > 1 /\ Rank(<<"img", 1>>) = 1
      <3>1. <<"img", 1>> \in Due(k)
        BY <1>3, <2>6, <2>8 DEF Holds
      <3>2. 1 < Eof
        BY <2>9, <2>10, <3>1
      <3> QED
        BY <2>9, <3>2 DEF Rank
    <2>12. \A c \in Due(k) : Rank(c) \in Nat /\ Rank(c) >= 1
      BY <2>9, <2>10 DEF Rank
    <2>13. \A x \in New : x = At(0) \/ Before(At(0), x)
      <3> SUFFICES ASSUME NEW x \in New, Before(x, At(0))
                   PROVE  FALSE
        BY <2>3, <2>4, BlockOrder DEF New
      <3>1. Rank(flash[x]) < Rank(flash[At(0)])
        BY <2>6, <2>8 DEF Holds
      <3>2. flash[x] \in Due(k)
        BY <2>8 DEF Holds
      <3> QED
        BY <1>3, <2>11, <2>12, <3>1, <3>2
    <2>14. \A x \in New' : flash[x] # <<"img", 1>>
      <3> SUFFICES ASSUME NEW x \in New', flash[x] = flash[At(0)]
                   PROVE  FALSE
        BY <1>3
      <3>1. x \in New /\ Before(At(0), x)
        BY <2>7, <2>13
      <3>2. Rank(flash[At(0)]) < Rank(flash[x])
        BY <2>6, <2>8, <3>1 DEF Holds
      <3> QED
        BY <1>3, <2>11, <3>2
    <2>15. Done' = Done /\ Confs' = Confs
      BY <1>1, <1>3, <2>1, <2>3 DEF Done, Confs
    <2>16. Due(k)' = Due(k) /\ Resumes(k)'
      BY <1>1, <2>1, <2>8, <2>15 DEF Due, Conf, Resumes
    <2>17. Holds(Due(k) \ {<<"img", 1>>})'
      <3>1. {flash'[x] : x \in New'} = Due(k) \ {<<"img", 1>>}
        <4>1. {flash[x] : x \in New} = Due(k)
          BY <2>8 DEF Holds
        <4>2. \A x \in New' : flash'[x] \in Due(k) \ {<<"img", 1>>}
          BY <2>7, <2>14, <4>1
        <4>3. \A c \in Due(k) \ {<<"img", 1>>} : \E x \in New' : flash'[x] = c
          BY <1>3, <2>7, <4>1
        <4> QED
          BY <4>2, <4>3
      <3>2. \A x, y \in New' : Before(x, y) => Rank(flash'[x]) < Rank(flash'[y])
        BY <2>7, <2>8 DEF Holds
      <3> QED
        BY <2>1, <2>16, <3>1, <3>2 DEF Holds, Rank, Before
    <2>18. HeaderInv'
      <3>1. \A x \in New' : Before(At(0), x)'
        BY <1>1, <2>7, <2>13 DEF Before, At
      <3> QED
        BY <2>1, <2>11, <2>16, <2>17, <3>1 DEF HeaderInv
    <2>19. FrontInv'
      <3>1. (\A x \in Blocks : flash[x] # Old) => \A x \in Blocks : flash'[x] # Old
        BY <2>5 DEF Old, Erased
      <3> QED
        BY <1>1, <1>3, <2>1, <3>1 DEF InstallInv, FrontInv, Padding
    <2>20. BehindInv'
      BY <1>1, <1>3, <2>1, <2>7 DEF InstallInv, BehindInv, Holding
    <2>21. ReadInv' /\ SkipInv' /\ DataInv' /\ EndInv'
      BY <1>1, <1>3, <2>1, <2>15
         DEF InstallInv, ReadInv, SkipInv, DataInv, EndInv, Padding
    <2> QED
      BY <1>3, <2>18, <2>19, <2>20, <2>21, NotExit
  <1> QED
    BY <1>2, <1>3 DEF fixseama_erase

\* mtd_fixseama() writes the header with its new checksum.
LEMMA FixWriteInstalled ==
  ASSUME MtdInv, MtdInv', InstallInv, fixseama_write
  PROVE  InstallInv'
  <1>1. /\ UNCHANGED <<chip, flag, m, img, jffs2file, jffs2_replaced, j, failed>>
        /\ pc = "fix_write" /\ pc' = "close" /\ flash' = written(flash, 0, <<"fixed", 1>>)
    BY DEF fixseama_write
  <1>2. /\ UNCHANGED <<job, opt, bad, worn>> /\ Eof' = Eof /\ Blocks' = Blocks
        /\ ConfLen' = ConfLen /\ ImageLen' = ImageLen /\ Seama' = Seama
    BY <1>1, SameChip
  <1>3. Clear' <=> Clear
    BY <1>1, <1>2 DEF Clear, Ordinary
  <1> SUFFICES ASSUME Clear
               PROVE  InstallInv'
    BY <1>1, <1>3, Unclear
  <1>4. TypeOK /\ jffs2_replaced /\ HeaderDone /\ HeaderDone' /\ flash[At(0)] = Erased
    BY <1>1, <1>2 DEF MtdInv, FixInv, HeaderDone
  <1>5. At(0) \in Blocks \ bad
    <2>1. Sizes[m.part] \in Nat \ {0}
      BY <1>4, Fields
    <2>2. Inside(0)
      BY <2>1 DEF Inside
    <2>3. At(0) \notin bad
      BY <1>1 DEF MtdInv, PosInv, Clear, Good
    <2> QED
      BY <1>4, <2>2, <2>3, OpenBlocks
  <1>6. \A x \in Blocks : flash'[x] = IF x = At(0) THEN <<"fixed", 1>> ELSE flash[x]
    <2>1. <<"fixed", 1>> \in Contents
      BY DEF Contents
    <2> QED
      BY <1>1, <1>4, <2>1, AfterWrite
  <1>7. New' = New \cup {At(0)}
    BY <1>2, <1>5, <1>6 DEF New, Old, Erased
  <1>8. flash'[At(0)] = <<"fixed", 1>> /\ \A x \in New : flash'[x] = flash[x] /\ x # At(0)
    BY <1>4, <1>5, <1>6 DEF New
  <1>9. Eof > 1 /\ \A x \in New : Before(At(0), x)
    BY <1>1 DEF InstallInv, HeaderInv
  <1>10. PICK k : Resumes(k) /\ Holds(Due(k) \ {<<"img", 1>>})
    BY <1>1 DEF InstallInv, HeaderInv
  <1>11. /\ Eof \in Nat /\ k \in Nat /\ k > Eof
         /\ Due(k) = {<<"img", i>> : i \in 1..Eof - 1} \cup Conf(ConfLen)
                     \cup {<<"img", i>> : i \in k..ImageLen}
    <2>1. Done = ImageLen
      BY <1>1 DEF MtdInv, BufferInv, Closing, Done
    <2>2. pc \notin Padding
      BY <1>1 DEF Padding
    <2> QED
      BY <1>4, <1>10, <2>1, <2>2, AllDue
  <1>12. ConfLen \in Nat \ {0} /\ ImageLen \in Nat
    BY <1>4, Fields
  <1> DEFINE Rest == {<<"img", i>> : i \in 2..Eof - 1} \cup Conf(ConfLen)
                     \cup {<<"img", i>> : i \in k..ImageLen}
  <1>13. Due(k) \ {<<"img", 1>>} = Rest
    <2>1. 1..Eof - 1 = {1} \cup (2..Eof - 1) /\ 1 \notin 2..Eof - 1 /\ 1 \notin k..ImageLen
      BY <1>9, <1>11, <1>12
    <2>2. {<<"img", i>> : i \in 1..Eof - 1} = {<<"img", 1>>} \cup {<<"img", i>> : i \in 2..Eof - 1}
      BY <2>1
    <2>3. <<"img", 1>> \notin Rest
      BY <2>1 DEF Conf
    <2> QED
      BY <1>11, <2>2, <2>3
  <1>14. \A c \in Rest : Rank(<<"fixed", 1>>) < Rank(c)
    <2> SUFFICES ASSUME NEW c \in Rest
                 PROVE  Rank(<<"fixed", 1>>) < Rank(c)
      OBVIOUS
    <2>1. Rank(<<"fixed", 1>>) = 1
      BY <1>9 DEF Rank
    <2>2. CASE \E i \in 1..ConfLen : c = <<"conf", i>>
      BY <1>9, <1>11, <1>12, <2>1, <2>2 DEF Rank
    <2>3. CASE \E i \in Nat : c = <<"img", i>> /\ i > 1
      BY <1>9, <1>11, <1>12, <2>1, <2>3 DEF Rank
    <2> QED
      BY <1>9, <1>11, <1>12, <2>2, <2>3 DEF Conf
  <1>15. {flash'[x] : x \in New'} = {<<"fixed", 1>>} \cup Rest
    <2>1. {flash[x] : x \in New} = Rest
      BY <1>10, <1>13 DEF Holds
    <2> QED
      BY <1>7, <1>8, <2>1
  <1>16. ASSUME NEW x \in New', NEW y \in New', Before(x, y)
         PROVE  Rank(flash'[x]) < Rank(flash'[y])
    <2>1. x \in Blocks /\ y \in Blocks
      BY <1>2 DEF New
    <2>2. ~(Before(x, y) /\ Before(y, x)) /\ ~Before(x, x)
      BY <1>4, <2>1, BlockOrder
    <2>3. y # At(0)
      BY <1>7, <1>9, <1>16, <2>2
    <2>4. flash[y] \in Rest /\ flash'[y] = flash[y]
      BY <1>7, <1>8, <1>10, <1>13, <2>3 DEF Holds
    <2>5. CASE x = At(0)
      BY <1>8, <1>14, <2>4, <2>5
    <2>6. CASE x # At(0)
      BY <1>7, <1>8, <1>10, <1>16, <2>3, <2>6 DEF Holds
    <2> QED
      BY <2>5, <2>6
  <1>17. Whole'
    <2>1. Img(1, Eof - 1)' = {<<"fixed", 1>>} \cup {<<"img", i>> : i \in 2..Eof - 1}
      <3>1. 1..Eof - 1 = {1} \cup (2..Eof - 1) /\ 1 \notin 2..Eof - 1
        BY <1>9, <1>11
      <3> QED
        BY <1>1, <1>2, <1>4, <3>1 DEF Img
    <2>2. Img(k, ImageLen)' = {<<"img", i>> : i \in k..ImageLen}
      <3>1. 1 \notin k..ImageLen
        BY <1>9, <1>11, <1>12
      <3> QED
        BY <1>1, <1>2, <1>4, <3>1 DEF Img
    <2>3. Conf(ConfLen)' = Conf(ConfLen)
      BY <1>2 DEF Conf
    <2>4. Holds(Img(1, Eof - 1) \cup Conf(ConfLen) \cup Img(k, ImageLen))'
      <3>1. (Img(1, Eof - 1) \cup Conf(ConfLen) \cup Img(k, ImageLen))'
              = {<<"fixed", 1>>} \cup Rest
        BY <2>1, <2>2, <2>3
      <3> HIDE DEF Rest
      <3> QED
        BY <1>2, <1>15, <1>16, <3>1 DEF Holds, Rank, Before
    <2>5. k \in Eof' + ConfLen' .. Eof' + ConfLen' + Cardinality(bad')
      BY <1>2, <1>10 DEF Resumes
    <2> QED
      BY <1>1, <1>4, <2>4, <2>5 DEF Whole
  <1>18. FrontInv'
    <2>1. (\A x \in Blocks : flash[x] # Old) => \A x \in Blocks : flash'[x] # Old
      BY <1>6 DEF Old
    <2> QED
      BY <1>1, <1>2, <2>1 DEF InstallInv, FrontInv, Padding
  <1>19. BehindInv'
    <2>1. opt.part_offset = 0
      BY <1>4 DEF Clear, Ordinary, InstallInv, ReadInv
    <2>2. \A x \in New' : x[2] >= opt.part_offset
      BY <1>7, <2>1 DEF InstallInv, BehindInv, At
    <2> QED
      BY <1>1, <1>2, <2>2 DEF BehindInv, Holding
  <1>20. ReadInv'
    BY <1>1, <1>2 DEF InstallInv, ReadInv, Padding, Done
  <1>21. SkipInv' /\ DataInv' /\ HeaderInv' /\ EndInv'
    BY <1>1, <1>2, <1>17 DEF InstallInv, SkipInv, DataInv, HeaderInv, EndInv, Padding
  <1> QED
    BY <1>1, <1>18, <1>19, <1>20, <1>21, NotExit

-----------------------------------------------------------------------------
(***************************************************************************)
(* The image is installed.                                                 *)
(***************************************************************************)

\* Before the first step nothing new is on the flash.
LEMMA InstallInit ==
  ASSUME Init
  PROVE  InstallInv
  <1>1. /\ flash = [x \in Blocks |-> Old] /\ status = -1 /\ failed = {} /\ opt \in Options
        /\ pc = (IF opt.erase THEN "erase_first" ELSE "resume") /\ IsFiniteSet(bad)
        /\ m = [part |-> 1, pos |-> 0, w |-> 0, e |-> 0, skip |-> 0, offset |-> 0,
                sb |-> 0, buf |-> 0]
        /\ img = 0 /\ jffs2file = opt.jffs2 /\ jffs2_replaced = FALSE
    BY DEF Init
  <1>2. /\ m.sb = 0 /\ m.skip = 0 /\ m.offset = 0 /\ m.buf = 0 /\ opt.erase \in BOOLEAN
        /\ opt.jffs2 \in BOOLEAN /\ opt.no_erase \in BOOLEAN
    BY <1>1, MtdAssumption DEF MtdAssumption
  <1>3. New = {} /\ \A x \in Blocks : flash[x] = Old
    BY <1>1 DEF New
  <1>4. /\ job \in Jobs /\ Eof \in Nat /\ ConfLen \in Nat
    BY MtdAssumption DEF MtdAssumption, Init, Eof, ConfLen
  <1>5. FrontInv
    <2>1. Clear /\ opt.no_erase => pc = "erase_first"
      BY <1>1 DEF Clear, Ordinary
    <2> QED
      BY <1>1, <1>2, <2>1 DEF FrontInv, Padding
  <1>6. BehindInv /\ SkipInv
    BY <1>1, <1>3 DEF BehindInv, SkipInv, Padding, Holding
  <1>7. Done = 0 /\ Confs = 0
    BY <1>1, <1>2 DEF Done, Confs, Padding
  <1>8. ReadInv
    BY <1>1, <1>2, <1>4, <1>7 DEF ReadInv, Padding
  <1>9. DataInv
    <2>1. Cardinality(bad) \in Nat
      BY <1>1, BadCount
    <2>2. PICK k : k = Eof + ConfLen
      OBVIOUS
    <2>3. Resumes(k)
      BY <1>1, <1>4, <2>1, <2>2 DEF Resumes
    <2>4. Due(k) = {}
      BY <1>7 DEF Due, Conf
    <2>5. Holds(Due(k))
      BY <1>3, <2>4 DEF Holds
    <2> QED
      BY <2>3, <2>5 DEF DataInv
  <1>10. HeaderInv /\ EndInv /\ Installed /\ RecoveryCovers
    BY <1>1, <1>3 DEF HeaderInv, EndInv, Installed, RecoveryCovers
  <1> QED
    BY <1>5, <1>6, <1>8, <1>9, <1>10 DEF InstallInv

\* What is on the flash at every step of mtd_write(): exactly the blocks of the
\* image and of the configuration that are due, in order, behind the file
\* pointer.
THEOREM InstallInvariant == Spec => []InstallInv
<1>1. Init => InstallInv
  BY InstallInit
<1>2. MtdInv /\ MtdInv' /\ InstallInv /\ [Next]_vars => InstallInv'
  <2> SUFFICES ASSUME MtdInv, MtdInv', InstallInv, [Next]_vars
               PROVE  InstallInv'
    OBVIOUS
  <2>1. CASE mtd_erase \/ resume
    BY <2>1, EraseFirstInstalled, ResumeInstalled
  <2>2. CASE recoverflag_erase \/ recoverflag_write
    BY <2>2, FlagInstalled
  <2>3. CASE Read
    BY <2>3, ReadInstalled, ReadEndInstalled, ReadFailsInstalled DEF Read
  <2>4. CASE Got
    BY <2>4, SkipInstalled, MarkerInstalled, GotInstalled DEF Got
  <2>5. CASE Erase
    <3>1. CASE erase_status_unknown \/ erase_fails
      BY <3>1, ExitsInstalled DEF erase_status_unknown, erase_fails, Erasing
    <3> QED
      BY <2>5, <3>1, EraseEndInstalled, EraseSkipInstalled, EraseBlockInstalled,
         EraseNextInstalled DEF Erase
  <2>6. CASE Write
    <3>1. CASE write_no_space
      BY <3>1, ExitsInstalled DEF write_no_space
    <3> QED
      BY <2>6, <3>1, WriteInstalled, BrokenInstalled DEF Write
  <2>7. CASE Jffs2
    <3>1. CASE pad_status_unknown
      BY <3>1, ExitsInstalled DEF pad_status_unknown
    <3> QED
      BY <2>7, <3>1, PadSkipInstalled, PadEraseInstalled, PadWriteInstalled,
         ReplacedInstalled DEF Jffs2
  <2>8. CASE Ends
    BY <2>8, EndInstalled, GivesUpInstalled, FixEraseInstalled, FixWriteInstalled,
       BrokenInstalled, CloseInstalled DEF Ends
  <2>9. CASE UNCHANGED vars
    <3>1. UNCHANGED <<chip, flash, flag, pc, status, m, img, jffs2file, jffs2_replaced, j, failed>>
      BY <2>9 DEF vars, chip
    <3>2. /\ UNCHANGED <<job, opt, bad, worn>> /\ Blocks' = Blocks /\ Sizes' = Sizes
          /\ ConfLen' = ConfLen /\ Eof' = Eof
      BY <3>1, SameChip
    <3>3. New' = New /\ (Whole' <=> Whole) /\ (Clear' <=> Clear)
      BY <3>1, <3>2, WholeKept DEF Clear, Ordinary
    <3>4. FrontInv' /\ BehindInv'
      BY <3>1, <3>2, <3>3 DEF InstallInv, FrontInv, AtFront, Ready, Inside, Good, At,
                              BehindInv, Before
    <3>5. Done' = Done /\ Confs' = Confs
      BY <3>1, <3>2 DEF Done, Confs
    <3>6. ReadInv' /\ SkipInv' /\ EndInv'
      BY <3>1, <3>2, <3>3, <3>5 DEF InstallInv, ReadInv, SkipInv, Passed, EndInv
    <3>7. \A k : /\ Due(k)' = Due(k) /\ (Resumes(k)' <=> Resumes(k))
                 /\ Holds(Due(k)) => Holds(Due(k))'
                 /\ Holds(Due(k) \ {<<"img", 1>>}) => Holds(Due(k) \ {<<"img", 1>>})'
      BY <3>1, <3>2, <3>3, <3>5 DEF Due, Conf, Resumes, Holds, Rank, Before
    <3>8. DataInv' /\ HeaderInv'
      BY <3>1, <3>2, <3>3, <3>7 DEF InstallInv, DataInv, HeaderInv, Before, At
    <3>9. Installed' /\ RecoveryCovers'
      BY <3>1, <3>2, <3>3 DEF InstallInv, Installed, RecoveryCovers, Clear
    <3> QED
      BY <3>4, <3>6, <3>8, <3>9 DEF InstallInv
  <2> QED
    BY <2>1, <2>2, <2>3, <2>4, <2>5, <2>6, <2>7, <2>8, <2>9 DEF Next
<1> QED
  BY <1>1, <1>2, MtdInvariant, PTL DEF Spec

\* mtd_write() exits with 0 only when the whole image, with the configuration
\* at its marker, is on the good blocks in order, unless reading it or writing
\* the configuration failed unseen.  The header is fixed as well, unless
\* seama_fix_md5() could not compute its checksum: that is not told from a
\* header that fits, and everything else is then still as promised.
THEOREM ImageInstalled == Spec => []Installed
<1>1. InstallInv => Installed
  BY DEF InstallInv
<1> QED
  BY <1>1, InstallInvariant, PTL

\* With -t and without -e, a power cut at any moment finds the old flash, the
\* whole new image, or the recovery flag set.  After a seama_fix_md5() that could
\* not compute the checksum the whole new image has its old header: the flag
\* is cleared all the same.
THEOREM RecoveryIsCovered == Spec => []RecoveryCovers
<1>1. InstallInv => RecoveryCovers
  BY DEF InstallInv
<1> QED
  BY <1>1, InstallInvariant, PTL
=============================================================================
