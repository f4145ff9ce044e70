------------------------------ MODULE NvramImage ------------------------------
(***************************************************************************)
(* The NVRAM image of libnvram, nvram.c: a header followed by a list of    *)
(* name=value tuples, and the hash table of tuples a process parses it     *)
(* into.  A table is a sequence of buckets, a bucket a sequence of tuples; *)
(* an image is its len, its tuples and the header's copy of the SDRAM      *)
(* parameters.  Text is abstracted to names and values with lengths.       *)
(***************************************************************************)
EXTENDS Integers, Sequences, SequencesExt

CONSTANTS Names,     \* variable names
          Values,    \* values as text
          NoValue,   \* a variable that is not set
          NBuckets,  \* 257 in the code
          Bucket,    \* hash(name) % 257 as a function, in 1..NBuckets
          NameLen, ValLen,   \* strlen() of names and values
          Space,     \* bytes from the header to the end of the partition
          Sdram,     \* the four sdram_ names, in the order of the code
          Num,       \* strtoul() of a text, masked to the header's field
          Hex,       \* the text of a field, as sprintf() writes it
          Default    \* SDRAM_INIT, SDRAM_CONFIG, SDRAM_REFRESH and 0

HeaderSize == 20      \* sizeof(nvram_header_t)

Fields == {Num[v] : v \in Values}
SdramNames == ToSet(Sdram)

ASSUME ImageAssumption ==
  /\ NBuckets \in Nat \ {0} /\ Bucket \in [Names -> 1..NBuckets]
  /\ NameLen \in [Names -> Nat] /\ ValLen \in [Values -> Nat]
  /\ Space \in Nat /\ Space % 4 = 0 /\ Space > HeaderSize
  /\ Sdram \in Seq(Names)
  /\ NoValue \notin Values
  /\ Hex \in [Fields -> Values] /\ \A k \in Fields : Num[Hex[k]] = k /\ ValLen[Hex[k]] < Space
  /\ Default \in [SdramNames -> Fields]

Tuple(n, v) == [name |-> n, value |-> v]
EmptyTable  == [i \in 1..NBuckets |-> <<>>]

Find(t, n) == SelectInSeq(t[Bucket[n]], LAMBDA e : e.name = n)

nvram_get(t, n) == LET k == Find(t, n)
                   IN  IF k = 0 THEN NoValue ELSE t[Bucket[n]][k].value

\* A known name keeps its place, a new one goes to the head of its bucket.
nvram_set(t, n, v) ==
  LET k == Find(t, n)
  IN  IF ValLen[v] + 1 > Space THEN t
      ELSE IF k # 0 THEN [t EXCEPT ![Bucket[n]][k].value = v]
      ELSE [t EXCEPT ![Bucket[n]] = Cons(Tuple(n, v), @)]

nvram_unset(t, n) ==
  [t EXCEPT ![Bucket[n]] = RemoveFirstMatch(@, LAMBDA e : e.name = n)]

parse_tuples(img) ==
  FoldLeft(LAMBDA t, e : nvram_set(t, e.name, e.value), EmptyTable, img.tuples)

\* Parse the tuples, then take the SDRAM parameters that no tuple gives
\* from the header.
nvram_rehash(img) ==
  FoldLeft(LAMBDA t, n : IF nvram_get(t, n) # NoValue THEN t
                         ELSE nvram_set(t, n, Hex[img.sdram[n]]),
           parse_tuples(img), Sdram)

(***************************************************************************)
(* nvram_commit.  The inner loop stops at the first tuple of a bucket that *)
(* does not fit; the next bucket is tried again.                           *)
(***************************************************************************)
TupleLen(e) == NameLen[e.name] + 1 + ValLen[e.value] + 1

DataEnd == Space - 2  \* leave space for a double NUL at the end

write_tuple_unbounded(acc, e) ==   \* mutant: no test against the end
  [acc EXCEPT !.out = Append(@, e), !.ptr = @ + TupleLen(e)]

write_tuple(acc, e) ==
  IF acc.full \/ acc.ptr + TupleLen(e) > DataEnd
  THEN [acc EXCEPT !.full = TRUE]
  ELSE [acc EXCEPT !.out = Append(@, e), !.ptr = @ + TupleLen(e)]

write_bucket(acc, b) == FoldLeft(write_tuple, [acc EXCEPT !.full = FALSE], b)

write_tuples(t) ==
  FoldLeft(write_bucket, [ptr |-> HeaderSize, out |-> <<>>, full |-> FALSE], t)

\* One missing parameter makes the header take the defaults of all.
commit_sdram(t) ==
  IF \E n \in SdramNames : nvram_get(t, n) = NoValue
  THEN Default
  ELSE [n \in SdramNames |-> Num[nvram_get(t, n)]]

commit_len_short(ptr) == (((ptr + 1) + 3) \div 4) * 4   \* mutant: one byte less

\* The byte after the final NUL is counted, then len is rounded up to 4.
commit_len(ptr) == (((ptr + 2) + 3) \div 4) * 4

nvram_commit(t) ==
  LET w == write_tuples(t)
  IN  [tuples |-> w.out, len |-> commit_len(w.ptr), sdram |-> commit_sdram(t)]

\* nvram_open's last test: an image may be opened for reading at any len.
OpenAllowed(img, rdonly) == rdonly \/ img.len < Space

-----------------------------------------------------------------------------
\* What an image says of every variable.
Vars(img) ==
  [n \in Names |->
     LET K == {k \in DOMAIN img.tuples : img.tuples[k].name = n}
     IN  IF K # {} THEN img.tuples[Max(K)].value
         ELSE IF n \in SdramNames THEN Hex[img.sdram[n]] ELSE NoValue]

\* What the lookups of a process find in its table.
TableVars(t) == [n \in Names |-> nvram_get(t, n)]

\* Bytes of an image up to the end of its last tuple.
UsedBytes(img) == FoldLeft(LAMBDA n, e : n + TupleLen(e), HeaderSize, img.tuples)

\* No name is in two tuples of an image.
UniqueNames(img) ==
  \A i, j \in DOMAIN img.tuples :
     img.tuples[i].name = img.tuples[j].name => i = j
=============================================================================
