---------------------------- MODULE NvramImageProofs ----------------------------
(***************************************************************************)
(* Proofs about the NVRAM image and the hash table, for images and tables  *)
(* of any length: what nvram_set, nvram_unset and nvram_rehash make of a   *)
(* table, and what nvram_commit makes of it.                               *)
(*                                                                         *)
(* The code's loops over tuples and buckets are folds.  A fold is a        *)
(* function on the prefixes of its sequence, which FoldExists makes and    *)
(* FoldTrace turns into the list of the values the loop goes through; what *)
(* holds of all of them follows from the least one of which it would not.  *)
(***************************************************************************)
EXTENDS NvramImage, SequenceTheorems, WellFoundedInduction, TLAPS

\* A set of natural numbers has a least element.
LEMMA Least ==
  ASSUME NEW T \in SUBSET Nat, T # {}
  PROVE  \E n \in T : \A k \in T : n <= k
  <1> DEFINE R == OpToRel(<, Nat)
  <1>1. IsWellFoundedOn(R, Nat)
    BY NatLessThanWellFounded
  <1>2. \A k, n \in Nat : k < n => <<k, n>> \in R
    BY DEF OpToRel
  <1> HIDE DEF R
  <1>3. PICK x \in T : \A y \in T : ~ (<<y, x>> \in R)
    BY <1>1, WFMin
  <1>4. \A y \in T : ~(y < x)
    BY <1>2, <1>3
  <1>5. \A y \in T : x <= y
    BY <1>4
  <1> QED
    BY <1>5

\* Induction from 0 up to N, for what can be said with a set.
LEMMA UpTo ==
  ASSUME NEW N \in Nat, NEW T, 0 \in T, \A n \in 1..N : n - 1 \in T => n \in T
  PROVE  0..N \subseteq T
  <1> SUFFICES ASSUME (0..N) \ T # {}
               PROVE  FALSE
    OBVIOUS
  <1> DEFINE U == (0..N) \ T
  <1>0. U \in SUBSET Nat /\ U # {}
    OBVIOUS
  <1> HIDE DEF U
  <1>1. PICK n \in U : \A k \in U : n <= k
    BY <1>0, Least
  <1> USE DEF U
  <1>2. n \in 1..N
    BY <1>1
  <1>3. n - 1 \in T
    BY <1>1, <1>2
  <1> QED
    BY <1>1, <1>2, <1>3

\* The greatest element of a set, where there is one.
LEMMA Greatest ==
  ASSUME NEW n \in Int, NEW s \in SUBSET Int, n \in s, \A k \in s : k <= n
  PROVE  Max(s) = n
  <1>1. \A y \in s : n >= y
    OBVIOUS
  <1>2. \A x \in s : (\A y \in s : x >= y) => x = n
    OBVIOUS
  <1> QED
    BY <1>1, <1>2 DEF Max

LEMMA Smallest ==
  ASSUME NEW s \in SUBSET Nat, s # {}
  PROVE  Min(s) \in s /\ \A k \in s : Min(s) <= k
  BY Least DEF Min

LEMMA Largest ==
  ASSUME NEW N \in Nat, NEW s \in SUBSET (1..N), s # {}
  PROVE  Max(s) \in s
  <1> DEFINE D == {N - k : k \in s}
  <1>1. D \in SUBSET Nat /\ D # {}
    <2>1. \A k \in s : N - k \in Nat
      OBVIOUS
    <2> QED
      BY <2>1
  <1>2. PICK d \in D : \A e \in D : d <= e
    BY <1>1, Least
  <1>3. PICK n \in s : d = N - n
    BY <1>2
  <1>4. \A k \in s : k <= n
    BY <1>2, <1>3
  <1>5. n \in Int /\ s \in SUBSET Int
    OBVIOUS
  <1> QED
    BY <1>4, <1>5, Greatest

(***************************************************************************)
(* FoldLeft computes step by step.                                         *)
(***************************************************************************)

\* The last element of a part of a sequence.
LEMMA LastPart ==
  ASSUME NEW S, NEW seq \in Seq(S), NEW x \in SUBSET DOMAIN seq, x # {}
  PROVE  /\ Max(x) \in DOMAIN seq /\ seq[Max(x)] \in S
         /\ x \ {Max(x)} \in SUBSET DOMAIN seq
  <1>1. Len(seq) \in Nat /\ DOMAIN seq = 1..Len(seq)
    OBVIOUS
  <1>2. Max(x) \in x
    BY <1>1, Largest
  <1> QED
    BY <1>1, <1>2

\* One step of a fold over a sequence of members of S, with values in A.
IsStep(step, A, S) == step \in [A \X S -> A]

\* The values of a fold on the parts of the sequence, as long as they are in A.
Iterates(it, step, A, base, seq) ==
  /\ it[{}] = base
  /\ \A x \in SUBSET DOMAIN seq :
       x # {} /\ it[x \ {Max(x)}] \in A
         => it[x] = step[<<it[x \ {Max(x)}], seq[Max(x)]>>]

\* There is a function such as the definition of a fold asks for.
LEMMA FoldExists ==
  ASSUME NEW A, NEW S, NEW seq \in Seq(S), NEW base \in A,
         NEW step, IsStep(step, A, S)
  PROVE  \E it : /\ it = [x \in SUBSET DOMAIN seq |-> it[x]]
                  /\ \A x \in SUBSET DOMAIN seq : it[x] \in A
                  /\ Iterates(it, step, A, base, seq)
  <1> DEFINE Def(it, n) == it = [s \in SUBSET (1..n) |->
                   IF s = {} THEN base ELSE step[<<it[s \ {Max(s)}], seq[Max(s)]>>]]
             T == {n \in 0..Len(seq) : \E it \in [SUBSET (1..n) -> A] : Def(it, n)}
  <1>0. step \in [A \X S -> A]
    BY DEF IsStep
  <1>1. Len(seq) \in Nat /\ DOMAIN seq = 1..Len(seq) /\ \A n \in 1..Len(seq) : seq[n] \in S
    OBVIOUS
  <1>2. 0 \in T
    <2> DEFINE it == [s \in SUBSET (1..0) |-> base]
    <2>1. 1..0 = {}
      OBVIOUS
    <2>2. \A s \in SUBSET (1..0) : s = {}
      BY <2>1
    <2>3. it \in [SUBSET (1..0) -> A] /\ Def(it, 0)
      BY <2>2
    <2> QED
      BY <1>1, <2>3
  <1>3. ASSUME NEW n \in 1..Len(seq), n - 1 \in T
        PROVE  n \in T
    <2>1. PICK g \in [SUBSET (1..n - 1) -> A] : Def(g, n - 1)
      BY <1>3
    <2> DEFINE it == [s \in SUBSET (1..n) |->
                        IF n \in s THEN step[<<g[s \ {n}], seq[n]>>] ELSE g[s]]
    <2>2. \A s \in SUBSET (1..n) : s \ {n} \in SUBSET (1..n - 1)
      OBVIOUS
    <2>3. \A s \in SUBSET (1..n) : n \notin s => s \in SUBSET (1..n - 1)
      OBVIOUS
    <2>4. it \in [SUBSET (1..n) -> A]
      BY <1>0, <1>1, <2>2, <2>3
    <2>5. \A s \in SUBSET (1..n) : n \in s => Max(s) = n
      BY Greatest
    <2>6. ASSUME NEW s \in SUBSET (1..n)
          PROVE  it[s] = IF s = {} THEN base ELSE step[<<it[s \ {Max(s)}], seq[Max(s)]>>]
      <3>1. CASE n \in s
        <4>1. s \ {n} \in SUBSET (1..n) /\ n \notin s \ {n}
          OBVIOUS
        <4>2. it[s \ {n}] = g[s \ {n}]
          BY <4>1
        <4> QED
          BY <2>5, <3>1, <4>2
      <3>2. CASE n \notin s
        <4>1. s \in SUBSET (1..n - 1) /\ it[s] = g[s]
          BY <2>3, <3>2
        <4>2. s \ {Max(s)} \in SUBSET (1..n - 1) /\ s \ {Max(s)} \in SUBSET (1..n)
              /\ n \notin s \ {Max(s)}
          BY <3>2, <4>1
        <4>3. it[s \ {Max(s)}] = g[s \ {Max(s)}]
          BY <4>2
        <4>4. g[s] = IF s = {} THEN base ELSE step[<<g[s \ {Max(s)}], seq[Max(s)]>>]
          BY <2>1, <4>1
        <4> QED
          BY <4>1, <4>3, <4>4
      <3> QED
        BY <3>1, <3>2
    <2>7. Def(it, n)
      BY <2>6
    <2> HIDE DEF it, Def
    <2> QED
      BY <2>4, <2>7
  <1> HIDE DEF T
  <1>4. Len(seq) \in T
    <2>1. 0..Len(seq) \subseteq T
      BY <1>1, <1>2, <1>3, UpTo
    <2> QED
      BY <1>1, <2>1
  <1>5. PICK it \in [SUBSET (1..Len(seq)) -> A] : Def(it, Len(seq))
    BY <1>4 DEF T
  <1>6. \A x \in SUBSET (1..Len(seq)) :
          it[x] = IF x = {} THEN base ELSE step[<<it[x \ {Max(x)}], seq[Max(x)]>>]
    BY <1>5
  <1> HIDE DEF Def
  <1>7. it = [x \in SUBSET DOMAIN seq |-> it[x]] /\ \A x \in SUBSET DOMAIN seq : it[x] \in A
    BY <1>1, <1>5
  <1>8. it[{}] = base /\ \A x \in SUBSET DOMAIN seq : x # {} =>
          it[x] = step[<<it[x \ {Max(x)}], seq[Max(x)]>>]
    BY <1>1, <1>6
  <1> QED
    BY <1>7, <1>8 DEF Iterates

\* The values of a fold on the first elements of the sequence.
Trace(F, step, A, base, seq, result) ==
  /\ F \in [0..Len(seq) -> A]
  /\ F[0] = base /\ F[Len(seq)] = result
  /\ \A n \in 1..Len(seq) : F[n] = step[<<F[n - 1], seq[n]>>]

LEMMA FoldTrace ==
  ASSUME NEW A, NEW S, NEW seq \in Seq(S), NEW base \in A,
         NEW step, IsStep(step, A, S), NEW it, Iterates(it, step, A, base, seq)
  PROVE  \E F : Trace(F, step, A, base, seq, it[DOMAIN seq])
  <1> DEFINE F == [n \in 0..Len(seq) |-> it[1..n]]
             T == {n \in 0..Len(seq) : F[n] \in A}
  <1>0. /\ step \in [A \X S -> A] /\ it[{}] = base
        /\ \A x \in SUBSET DOMAIN seq :
             x # {} /\ it[x \ {Max(x)}] \in A
               => it[x] = step[<<it[x \ {Max(x)}], seq[Max(x)]>>]
    BY DEF IsStep, Iterates
  <1>1. Len(seq) \in Nat /\ DOMAIN seq = 1..Len(seq) /\ \A n \in 1..Len(seq) : seq[n] \in S
    OBVIOUS
  <1>2. 1..0 = {}
    OBVIOUS
  <1>3. F[0] = base /\ 0 \in T
    BY <1>0, <1>1, <1>2
  <1>4. \A n \in 1..Len(seq) : F[n - 1] \in A => F[n] = step[<<F[n - 1], seq[n]>>]
    <2> SUFFICES ASSUME NEW n \in 1..Len(seq), F[n - 1] \in A
                 PROVE  F[n] = step[<<F[n - 1], seq[n]>>]
      OBVIOUS
    <2>0. n \in Nat /\ n >= 1 /\ n <= Len(seq)
      BY <1>1
    <2>1. Max(1..n) = n
      <3>1. 1..n \in SUBSET Int /\ n \in 1..n /\ \A k \in 1..n : k <= n
        BY <2>0
      <3> QED
        BY <2>0, <3>1, Greatest
    <2>2. (1..n) \ {n} = 1..n - 1 /\ 1..n # {} /\ 1..n \in SUBSET DOMAIN seq
      <3>1. (1..n) \ {n} = 1..n - 1
        BY <2>0
      <3>2. n \in 1..n
        BY <2>0
      <3>3. 1..n \in SUBSET (1..Len(seq))
        BY <1>1, <2>0
      <3> QED
        BY <1>1, <3>1, <3>2, <3>3
    <2>3. F[n - 1] = it[1..n - 1] /\ F[n] = it[1..n]
      BY <1>1
    <2> QED
      BY <1>0, <2>1, <2>2, <2>3
  <1>5. \A n \in 1..Len(seq) : n - 1 \in T => n \in T
    <2> SUFFICES ASSUME NEW n \in 1..Len(seq), n - 1 \in T
                 PROVE  n \in T
      OBVIOUS
    <2>1. F[n - 1] \in A /\ seq[n] \in S
      BY <1>1
    <2>2. F[n] = step[<<F[n - 1], seq[n]>>]
      BY <1>4, <2>1
    <2>3. F[n] \in A /\ n \in 0..Len(seq)
      BY <1>0, <1>1, <2>1, <2>2
    <2> QED
      BY <2>3
  <1>6. 0..Len(seq) \subseteq T
    <2> HIDE DEF T
    <2> QED
      BY <1>1, <1>3, <1>5, UpTo
  <1>7. F \in [0..Len(seq) -> A] /\ F[Len(seq)] = it[DOMAIN seq]
    BY <1>1, <1>6
  <1>8. \A n \in 1..Len(seq) : F[n] = step[<<F[n - 1], seq[n]>>]
    <2>1. \A n \in 1..Len(seq) : n - 1 \in 0..Len(seq)
      BY <1>1
    <2>2. \A n \in 1..Len(seq) : F[n - 1] \in A
      BY <1>6, <2>1
    <2> QED
      BY <1>4, <2>2
  <1> HIDE DEF F, T
  <1>9. Trace(F, step, A, base, seq, it[DOMAIN seq])
    BY <1>3, <1>7, <1>8 DEF Trace
  <1> QED
    BY <1>9


(***************************************************************************)
(* The hash table.                                                         *)
(***************************************************************************)
Tuples == [name : Names, value : Values]

\* Every tuple is in the bucket of its name, and no name is in two of them.
BucketOK(s, b) ==
  /\ s \in Seq(Tuples)
  /\ \A i \in 1..Len(s) : Bucket[s[i].name] = b
  /\ \A i, k \in 1..Len(s) : s[i].name = s[k].name => i = k

TableOK(t) ==
  /\ t = [b \in 1..NBuckets |-> t[b]]
  /\ \A b \in 1..NBuckets : BucketOK(t[b], b)

\* What a lookup finds.
LEMMA Lookup ==
  ASSUME NEW t, TableOK(t), NEW n \in Names
  PROVE  /\ Bucket[n] \in 1..NBuckets /\ BucketOK(t[Bucket[n]], Bucket[n])
         /\ Find(t, n) \in 0..Len(t[Bucket[n]])
         /\ Find(t, n) # 0 => t[Bucket[n]][Find(t, n)].name = n
         /\ Find(t, n) = 0 => \A i \in 1..Len(t[Bucket[n]]) : t[Bucket[n]][i].name # n
         /\ \A i \in 1..Len(t[Bucket[n]]) :
              t[Bucket[n]][i].name = n => nvram_get(t, n) = t[Bucket[n]][i].value
         /\ \/ nvram_get(t, n) = NoValue
            \/ \E i \in 1..Len(t[Bucket[n]]) :
                 t[Bucket[n]][i].name = n /\ t[Bucket[n]][i].value = nvram_get(t, n)
         /\ nvram_get(t, n) \in Values \cup {NoValue}
         /\ nvram_get(t, n) = NoValue
              <=> \A i \in 1..Len(t[Bucket[n]]) : t[Bucket[n]][i].name # n
  <1> DEFINE s == t[Bucket[n]]
             I == {i \in 1..Len(s) : s[i].name = n}
  <1>1. Bucket[n] \in 1..NBuckets
    BY ImageAssumption DEF ImageAssumption
  <1>2. BucketOK(s, Bucket[n]) /\ s \in Seq(Tuples) /\ Len(s) \in Nat
    BY <1>1 DEF TableOK, BucketOK
  <1>3. Find(t, n) = IF I # {} THEN Min(I) ELSE 0
    BY DEF Find, SelectInSeq
  <1>4. I # {} => Min(I) \in I
    <2>1. I \in SUBSET Nat
      BY <1>2
    <2> QED
      BY <2>1, Smallest
  <1>5. /\ Find(t, n) \in 0..Len(s)
        /\ Find(t, n) # 0 => Find(t, n) \in I
        /\ Find(t, n) = 0 => I = {}
    BY <1>2, <1>3, <1>4
  <1>6. \A i, k \in I : i = k
    BY <1>2 DEF BucketOK
  <1>7. nvram_get(t, n) = IF Find(t, n) = 0 THEN NoValue ELSE s[Find(t, n)].value
    BY DEF nvram_get
  <1>8. \A i \in I : nvram_get(t, n) = s[i].value
    BY <1>5, <1>6, <1>7
  <1>9. I = {} => nvram_get(t, n) = NoValue
    BY <1>5, <1>7
  <1>10. \A i \in I : s[i].value \in Values /\ s[i].value # NoValue
    <2>1. \A i \in 1..Len(s) : s[i] \in Tuples
      BY <1>2
    <2> QED
      BY <2>1, ImageAssumption DEF ImageAssumption, Tuples
  <1> QED
    BY <1>1, <1>2, <1>5, <1>8, <1>9, <1>10

\* A lookup looks at one bucket.
LEMMA OneBucket ==
  ASSUME NEW t, NEW u, NEW n \in Names, u[Bucket[n]] = t[Bucket[n]]
  PROVE  nvram_get(u, n) = nvram_get(t, n)
  <1>1. Find(u, n) = Find(t, n)
    BY DEF Find, SelectInSeq
  <1> QED
    BY <1>1 DEF nvram_get

\* A change of one bucket.
LEMMA BucketChanged ==
  ASSUME NEW t, TableOK(t), NEW b \in 1..NBuckets, NEW s, BucketOK(s, b),
         NEW u, u = [t EXCEPT ![b] = s]
  PROVE  /\ TableOK(u) /\ u[b] = s
         /\ \A c \in 1..NBuckets \ {b} : u[c] = t[c]
  BY DEF TableOK

\* The empty table.
LEMMA EmptyOK ==
  /\ TableOK(EmptyTable)
  /\ \A n \in Names : nvram_get(EmptyTable, n) = NoValue
  <1>1. \A b \in 1..NBuckets : EmptyTable[b] = <<>>
    BY DEF EmptyTable
  <1>2. TableOK(EmptyTable)
    BY <1>1 DEF TableOK, EmptyTable, BucketOK
  <1>3. \A n \in Names : Bucket[n] \in 1..NBuckets
    BY ImageAssumption DEF ImageAssumption
  <1>4. \A n \in Names : nvram_get(EmptyTable, n) = NoValue
    <2> TAKE n \in Names
    <2>1. EmptyTable[Bucket[n]] = <<>> /\ Len(<<>>) = 0
      BY <1>1, <1>3
    <2>2. \A i \in 1..0 : FALSE
      OBVIOUS
    <2> QED
      BY <1>2, <2>1, <2>2, Lookup
  <1> QED
    BY <1>2, <1>4

\* nvram_set() changes one variable.
LEMMA SetChanges ==
  ASSUME NEW t, TableOK(t), NEW n \in Names, NEW v \in Values
  PROVE  /\ TableOK(nvram_set(t, n, v))
         /\ ValLen[v] + 1 <= Space =>
              \A x \in Names : nvram_get(nvram_set(t, n, v), x)
                                 = IF x = n THEN v ELSE nvram_get(t, x)
  <1>b. PICK b : b = Bucket[n]
    OBVIOUS
  <1>s. PICK s : s = t[b]
    OBVIOUS
  <1>k. PICK k : k = Find(t, n)
    OBVIOUS
  <1>u. PICK u : u = nvram_set(t, n, v)
    OBVIOUS
  <1>1. /\ b \in 1..NBuckets /\ BucketOK(s, b) /\ k \in 0..Len(s)
        /\ k # 0 => s[k].name = n
        /\ k = 0 => \A i \in 1..Len(s) : s[i].name # n
    BY <1>b, <1>s, <1>k, Lookup
  <1>2. s \in Seq(Tuples) /\ Len(s) \in Nat /\ \A i \in 1..Len(s) : s[i] \in Tuples
    BY <1>1 DEF BucketOK
  <1>3. ValLen[v] \in Nat /\ Space \in Nat
    BY ImageAssumption DEF ImageAssumption
  <1>4. CASE ValLen[v] + 1 > Space
    BY <1>3, <1>4, <1>u DEF nvram_set
  <1>5. CASE ~(ValLen[v] + 1 > Space) /\ k # 0
    <2> DEFINE w == [s EXCEPT ![k] = [s[k] EXCEPT !.value = v]]
    <2>1. u = [t EXCEPT ![b] = w]
      BY <1>b, <1>s, <1>k, <1>u, <1>5 DEF nvram_set
    <2>2. [s[k] EXCEPT !.value = v] = Tuple(n, v) /\ Tuple(n, v) \in Tuples
      BY <1>1, <1>2, <1>5 DEF Tuples, Tuple
    <2>3. /\ w \in Seq(Tuples) /\ Len(w) = Len(s)
          /\ \A i \in 1..Len(s) : w[i] = IF i = k THEN Tuple(n, v) ELSE s[i]
      BY <1>1, <1>2, <1>5, <2>2
    <2> HIDE DEF w
    <2>4. \A i \in 1..Len(s) : w[i].name = s[i].name
      BY <1>1, <1>5, <2>3 DEF Tuple
    <2>5. BucketOK(w, b)
      BY <1>1, <2>3, <2>4 DEF BucketOK
    <2>6. TableOK(u) /\ u[b] = w /\ \A c \in 1..NBuckets \ {b} : u[c] = t[c]
      BY <1>1, <2>1, <2>5, BucketChanged DEF TableOK
    <2>7. ASSUME NEW x \in Names
          PROVE  nvram_get(u, x) = IF x = n THEN v ELSE nvram_get(t, x)
      <3>1. CASE Bucket[x] # b
        <4>1. Bucket[x] \in 1..NBuckets \ {b}
          BY <3>1, Lookup
        <4>2. u[Bucket[x]] = t[Bucket[x]]
          BY <2>6, <4>1
        <4> QED
          BY <1>b, <3>1, <4>2, OneBucket
      <3>2. CASE x = n
        <4>1. k \in 1..Len(w) /\ w[k].name = n /\ w[k].value = v
          BY <1>1, <1>5, <2>3 DEF Tuple
        <4> QED
          BY <1>b, <2>6, <3>2, <4>1, Lookup
      <3>3. CASE Bucket[x] = b /\ x # n
        <4>1. \A i \in 1..Len(s) : w[i].name = x => w[i] = s[i]
          BY <1>1, <2>3, <3>3 DEF Tuple
        <4>2. CASE nvram_get(t, x) = NoValue
          <5>1. \A i \in 1..Len(s) : s[i].name # x
            BY <1>s, <3>3, <4>2, Lookup
          <5>2. \A i \in 1..Len(u[Bucket[x]]) : u[Bucket[x]][i].name # x
            BY <2>3, <2>4, <2>6, <3>3, <5>1
          <5> QED
            BY <2>6, <3>3, <4>2, <5>2, Lookup
        <4>3. CASE nvram_get(t, x) # NoValue
          <5>1. PICK i \in 1..Len(s) : s[i].name = x /\ s[i].value = nvram_get(t, x)
            BY <1>s, <3>3, <4>3, Lookup
          <5>2. i \in 1..Len(w) /\ w[i].name = x /\ w[i].value = nvram_get(t, x)
            BY <2>3, <2>4, <4>1, <5>1
          <5> QED
            BY <2>6, <3>3, <5>2, Lookup
        <4> QED
          BY <4>2, <4>3
      <3> QED
        BY <3>1, <3>2, <3>3
    <2> QED
      BY <1>u, <2>6, <2>7
  <1>6. CASE ~(ValLen[v] + 1 > Space) /\ k = 0
    <2> DEFINE w == <<Tuple(n, v)>> \o s
    <2>1. u = [t EXCEPT ![b] = w]
      BY <1>b, <1>s, <1>k, <1>u, <1>6 DEF nvram_set, Cons
    <2>2. Tuple(n, v) \in Tuples /\ <<Tuple(n, v)>> \in Seq(Tuples)
      BY DEF Tuples, Tuple
    <2>3. /\ w \in Seq(Tuples) /\ Len(w) = Len(s) + 1
          /\ w[1] = Tuple(n, v) /\ \A i \in 2..Len(s) + 1 : w[i] = s[i - 1]
      BY <1>2, <2>2
    <2> HIDE DEF w
    <2>4. /\ \A i \in 2..Len(s) + 1 : i - 1 \in 1..Len(s)
          /\ \A i \in 1..Len(w) : i = 1 \/ i \in 2..Len(s) + 1
          /\ \A i \in 1..Len(s) : i + 1 \in 2..Len(s) + 1 /\ i + 1 \in 1..Len(w)
                                  /\ w[i + 1] = s[i]
      BY <1>2, <2>3
    <2>5. BucketOK(w, b)
      <3>1. \A i \in 1..Len(w) : Bucket[w[i].name] = b
        <4> SUFFICES ASSUME NEW i \in 1..Len(w)
                     PROVE  Bucket[w[i].name] = b
          OBVIOUS
        <4>1. CASE i = 1
          BY <1>b, <2>3, <4>1 DEF Tuple
        <4>2. CASE i # 1
          <5>1. i - 1 \in 1..Len(s) /\ w[i] = s[i - 1]
            BY <2>3, <2>4, <4>2
          <5> QED
            BY <1>1, <5>1 DEF BucketOK
        <4> QED
          BY <4>1, <4>2
      <3>2. ASSUME NEW i \in 1..Len(w), NEW l \in 1..Len(w), w[i].name = w[l].name
            PROVE  i = l
        <4>1. CASE i = 1 /\ l # 1
          BY <1>1, <1>6, <2>3, <2>4, <3>2, <4>1 DEF Tuple
        <4>2. CASE i # 1 /\ l = 1
          BY <1>1, <1>6, <2>3, <2>4, <3>2, <4>2 DEF Tuple
        <4>3. CASE i # 1 /\ l # 1
          <5>1. i - 1 \in 1..Len(s) /\ l - 1 \in 1..Len(s) /\ s[i - 1].name = s[l - 1].name
            BY <2>3, <2>4, <3>2, <4>3
          <5>2. i - 1 = l - 1
            BY <1>1, <5>1 DEF BucketOK
          <5> QED
            BY <5>2
        <4> QED
          BY <4>1, <4>2, <4>3
      <3> QED
        BY <2>3, <3>1, <3>2 DEF BucketOK
    <2>6. TableOK(u) /\ u[b] = w /\ \A c \in 1..NBuckets \ {b} : u[c] = t[c]
      BY <1>1, <2>1, <2>5, BucketChanged DEF TableOK
    <2>7. ASSUME NEW x \in Names
          PROVE  nvram_get(u, x) = IF x = n THEN v ELSE nvram_get(t, x)
      <3>1. CASE Bucket[x] # b
        <4>1. Bucket[x] \in 1..NBuckets \ {b}
          BY <3>1, Lookup
        <4>2. u[Bucket[x]] = t[Bucket[x]]
          BY <2>6, <4>1
        <4> QED
          BY <1>b, <3>1, <4>2, OneBucket
      <3>2. CASE x = n
        <4>1. 1 \in 1..Len(w) /\ w[1].name = n /\ w[1].value = v
          BY <1>2, <2>3 DEF Tuple
        <4> QED
          BY <1>b, <2>6, <3>2, <4>1, Lookup
      <3>3. CASE Bucket[x] = b /\ x # n
        <4>2. CASE nvram_get(t, x) = NoValue
          <5>1. \A i \in 1..Len(s) : s[i].name # x
            BY <1>s, <3>3, <4>2, Lookup
          <5>2. \A i \in 1..Len(w) : w[i].name # x
            BY <2>3, <2>4, <3>3, <5>1 DEF Tuple
          <5> QED
            BY SMTT(20), <2>6, <3>3, <4>2, <5>2, Lookup
        <4>3. CASE nvram_get(t, x) # NoValue
          <5>1. PICK i \in 1..Len(s) : s[i].name = x /\ s[i].value = nvram_get(t, x)
            BY <1>s, <3>3, <4>3, Lookup
          <5>2. i + 1 \in 1..Len(w) /\ w[i + 1].name = x /\ w[i + 1].value = nvram_get(t, x)
            BY <2>4, <5>1
          <5> QED
            BY <2>6, <3>3, <5>2, Lookup
        <4> QED
          BY <4>2, <4>3
      <3> QED
        BY <3>1, <3>2, <3>3
    <2> QED
      BY <1>u, <2>6, <2>7
  <1> QED
    BY <1>1, <1>4, <1>5, <1>6

\* nvram_unset() removes one variable.
LEMMA UnsetRemoves ==
  ASSUME NEW t, TableOK(t), NEW n \in Names
  PROVE  /\ TableOK(nvram_unset(t, n))
         /\ \A x \in Names : nvram_get(nvram_unset(t, n), x)
                               = IF x = n THEN NoValue ELSE nvram_get(t, x)
  <1>b. PICK b : b = Bucket[n]
    OBVIOUS
  <1>s. PICK s : s = t[b]
    OBVIOUS
  <1>k. PICK k : k = Find(t, n)
    OBVIOUS
  <1>u. PICK u : u = nvram_unset(t, n)
    OBVIOUS
  <1>1. /\ b \in 1..NBuckets /\ BucketOK(s, b) /\ k \in 0..Len(s)
        /\ k # 0 => s[k].name = n
        /\ k = 0 => \A i \in 1..Len(s) : s[i].name # n
    BY <1>b, <1>s, <1>k, Lookup
  <1>2. s \in Seq(Tuples) /\ Len(s) \in Nat /\ \A i \in 1..Len(s) : s[i] \in Tuples
    BY <1>1 DEF BucketOK
  <1>w. PICK w : w = RemoveFirstMatch(s, LAMBDA e : e.name = n)
    OBVIOUS
  <1>3. u = [t EXCEPT ![b] = w]
    BY <1>b, <1>s, <1>u, <1>w DEF nvram_unset
  <1>4. k = SelectInSeq(s, LAMBDA e : e.name = n)
    BY <1>b, <1>s, <1>k DEF Find
  <1>5. w = IF k = 0 THEN s ELSE RemoveAt(s, k)
    BY <1>1, <1>4, <1>w DEF RemoveFirstMatch
  \* Each entry of the new bucket was in the old one.
  <1> DEFINE from(i) == IF k = 0 \/ i < k THEN i ELSE i + 1
  <1>6. /\ w \in Seq(Tuples)
        /\ \A i \in 1..Len(w) : from(i) \in 1..Len(s) /\ from(i) # k /\ w[i] = s[from(i)]
        /\ \A j \in 1..Len(s) : j # k => \E i \in 1..Len(w) : from(i) = j
    <2>1. CASE k = 0
      BY <1>2, <1>5, <2>1
    <2>2. CASE k # 0
      <3>0. k \in 1..Len(s) /\ k \in Nat
        BY <1>1, <1>2, <2>2
      <3>1. PICK a : a = SubSeq(s, 1, k - 1)
        OBVIOUS
      <3>2. PICK c : c = SubSeq(s, k + 1, Len(s))
        OBVIOUS
      <3>3. a \in Seq(Tuples) /\ Len(a) = k - 1 /\ \A i \in 1..k - 1 : a[i] = s[i]
        BY <1>2, <3>0, <3>1
      <3>4. c \in Seq(Tuples) /\ Len(c) = Len(s) - k /\ \A i \in 1..Len(s) - k : c[i] = s[k + i]
        BY <1>2, <3>0, <3>2
      <3>5. w = a \o c
        BY <1>5, <2>2, <3>1, <3>2 DEF RemoveAt
      <3>6. /\ w \in Seq(Tuples) /\ Len(w) = Len(s) - 1
            /\ \A i \in 1..Len(w) : w[i] = IF i <= k - 1 THEN a[i] ELSE c[i - (k - 1)]
        BY <1>2, <3>0, <3>3, <3>4, <3>5
      <3>7. ASSUME NEW i \in 1..Len(w)
            PROVE  from(i) \in 1..Len(s) /\ from(i) # k /\ w[i] = s[from(i)]
        <4>1. CASE i < k
          BY <1>2, <3>0, <3>3, <3>6, <4>1
        <4>2. CASE ~(i < k)
          <5>1. i - (k - 1) \in 1..Len(s) - k /\ k + (i - (k - 1)) = i + 1
            BY <1>2, <3>0, <3>6, <4>2
          <5>2. w[i] = s[i + 1]
            <6>1. w[i] = c[i - (k - 1)]
              BY <3>0, <3>6, <4>2
            <6>2. c[i - (k - 1)] = s[k + (i - (k - 1))]
              BY <3>4, <5>1
            <6> QED
              BY <5>1, <6>1, <6>2
          <5> QED
            BY <1>2, <2>2, <3>0, <3>6, <4>2, <5>2
        <4> QED
          BY <4>1, <4>2
      <3>8. ASSUME NEW j \in 1..Len(s), j # k
            PROVE  \E i \in 1..Len(w) : from(i) = j
        <4>1. CASE j < k
          <5>1. j \in 1..Len(w) /\ from(j) = j
            BY <1>2, <3>0, <3>6, <4>1
          <5> QED
            BY <5>1
        <4>2. CASE ~(j < k)
          <5>1. j - 1 \in 1..Len(w) /\ from(j - 1) = j
            BY <1>2, <2>2, <3>0, <3>6, <3>8, <4>2
          <5> QED
            BY <5>1
        <4> QED
          BY <4>1, <4>2
      <3> QED
        BY <3>6, <3>7, <3>8
    <2> QED
      BY <2>1, <2>2
  <1>7. Len(w) \in Nat /\ k \in Nat
    BY <1>1, <1>2, <1>6
  <1>8. \A i, j \in 1..Len(w) : from(i) = from(j) => i = j
    BY <1>7
  <1> HIDE DEF from
  <1>9. BucketOK(w, b)
    <2>1. \A i \in 1..Len(w) : Bucket[w[i].name] = b
      BY <1>1, <1>6 DEF BucketOK
    <2>2. ASSUME NEW i \in 1..Len(w), NEW j \in 1..Len(w), w[i].name = w[j].name
          PROVE  i = j
      <3>1. from(i) \in 1..Len(s) /\ from(j) \in 1..Len(s) /\ s[from(i)].name = s[from(j)].name
        BY <1>6, <2>2
      <3>2. from(i) = from(j)
        BY <1>1, <3>1 DEF BucketOK
      <3> QED
        BY <1>8, <3>2
    <2> QED
      BY <1>6, <2>1, <2>2 DEF BucketOK
  <1>10. TableOK(u) /\ u[b] = w /\ \A c \in 1..NBuckets \ {b} : u[c] = t[c]
    BY <1>1, <1>3, <1>9, BucketChanged DEF TableOK
  <1>11. ASSUME NEW x \in Names
         PROVE  nvram_get(u, x) = IF x = n THEN NoValue ELSE nvram_get(t, x)
    <2>1. CASE Bucket[x] # b
      <3>1. Bucket[x] \in 1..NBuckets \ {b}
        BY <2>1, Lookup
      <3>2. u[Bucket[x]] = t[Bucket[x]]
        BY <1>10, <3>1
      <3> QED
        BY <1>b, <2>1, <3>2, OneBucket
    <2>2. CASE x = n
      <3>1. \A i \in 1..Len(w) : w[i].name # n
        <4> SUFFICES ASSUME NEW i \in 1..Len(w), w[i].name = n
                     PROVE  FALSE
          OBVIOUS
        <4>1. from(i) \in 1..Len(s) /\ from(i) # k /\ s[from(i)].name = n
          BY <1>6
        <4>2. k # 0 /\ k \in 1..Len(s)
          BY <1>1, <1>2, <4>1
        <4> QED
          BY <1>1, <4>1, <4>2 DEF BucketOK
      <3> QED
        BY <1>b, <1>10, <2>2, <3>1, Lookup
    <2>3. CASE Bucket[x] = b /\ x # n
      <3>2. CASE nvram_get(t, x) = NoValue
        <4>1. \A i \in 1..Len(s) : s[i].name # x
          BY <1>s, <2>3, <3>2, Lookup
        <4>2. \A i \in 1..Len(w) : w[i].name # x
          BY <1>6, <4>1
        <4>3. nvram_get(u, x) = NoValue
          BY <1>10, <2>3, <4>2, Lookup
        <4> QED
          BY <2>3, <3>2, <4>3
      <3>3. CASE nvram_get(t, x) # NoValue
        <4>1. PICK j \in 1..Len(s) : s[j].name = x /\ s[j].value = nvram_get(t, x)
          BY <1>s, <2>3, <3>3, Lookup
        <4>2. j # k
          BY <1>1, <1>2, <2>3, <4>1
        <4>3. PICK i \in 1..Len(w) : from(i) = j
          BY <1>6, <4>2
        <4>4. w[i].name = x /\ w[i].value = nvram_get(t, x)
          BY <1>6, <4>1, <4>3
        <4> QED
          BY <1>10, <2>3, <4>4, Lookup
      <3> QED
        BY <3>2, <3>3
    <2> QED
      BY <2>1, <2>2, <2>3
  <1> QED
    BY <1>u, <1>10, <1>11

-----------------------------------------------------------------------------
(***************************************************************************)
(* The loops of nvram.c and cli.c, one step after the other.               *)
(***************************************************************************)

Tables == {t \in [1..NBuckets -> Seq(Tuples)] : TableOK(t)}
Accs   == [ptr : Nat, out : Seq(Tuples), full : BOOLEAN]

LEMMA TablesAre == \A t : t \in Tables <=> TableOK(t)
  <1> SUFFICES ASSUME NEW t, TableOK(t)
               PROVE  t \in [1..NBuckets -> Seq(Tuples)]
    BY DEF Tables
  <1> QED
    BY DEF TableOK, BucketOK

LEMMA LengthsAre ==
  /\ \A e \in Tuples : TupleLen(e) \in Nat /\ TupleLen(e) >= ValLen[e.value] + 2
  /\ HeaderSize \in Nat /\ Space \in Nat /\ DataEnd \in Nat /\ DataEnd = Space - 2
  BY ImageAssumption DEF ImageAssumption, TupleLen, Tuples, HeaderSize, DataEnd

\* The bytes used by the first tuples.
LEMMA UsedTrace ==
  ASSUME NEW img, img.tuples \in Seq(Tuples)
  PROVE  \E F \in [0..Len(img.tuples) -> Nat] :
           /\ F[0] = HeaderSize /\ F[Len(img.tuples)] = UsedBytes(img)
           /\ \A n \in 1..Len(img.tuples) : F[n] = F[n - 1] + TupleLen(img.tuples[n])
  <1>1. PICK s : s = img.tuples
    OBVIOUS
  <1>2. PICK base : base = HeaderSize
    OBVIOUS
  <1>3. s \in Seq(Tuples) /\ base \in Nat
    BY <1>1, <1>2, LengthsAre
  <1>4. PICK step : /\ IsStep(step, Nat, Tuples)
                    /\ \A a \in Nat, e \in Tuples : step[<<a, e>>] = a + TupleLen(e)
    <2>1. \A a \in Nat, e \in Tuples : a + TupleLen(e) \in Nat
      BY LengthsAre
    <2> DEFINE f == [x \in Nat \X Tuples |-> x[1] + TupleLen(x[2])]
    <2>2. f \in [Nat \X Tuples -> Nat]
      BY <2>1
    <2>3. \A a \in Nat, e \in Tuples : f[<<a, e>>] = a + TupleLen(e)
      OBVIOUS
    <2> HIDE DEF f
    <2> QED
      BY <2>2, <2>3 DEF IsStep
  <1> DEFINE Op(a, e) == a + TupleLen(e)
             Def(it) == it = [x \in SUBSET DOMAIN s |->
                                IF x = {} THEN base
                                ELSE Op(it[x \ {Max(x)}], s[Max(x)])]
  <1>5. UsedBytes(img) = (CHOOSE it : Def(it))[DOMAIN s]
    BY <1>1, <1>2 DEF UsedBytes, FoldLeft, MapThenFoldSet
  <1>6. PICK it : it = CHOOSE g : Def(g)
    OBVIOUS
  <1>7. \A x \in SUBSET DOMAIN s : x # {} =>
          s[Max(x)] \in Tuples /\ x \ {Max(x)} \in SUBSET DOMAIN s
    BY <1>3, LastPart
  <1>8. \A a \in Nat, e \in Tuples : step[<<a, e>>] = Op(a, e)
    BY <1>4
  <1> HIDE DEF Op
  <1>9. Def(it)
    <2>1. PICK g : /\ g = [x \in SUBSET DOMAIN s |-> g[x]]
                   /\ \A x \in SUBSET DOMAIN s : g[x] \in Nat
                   /\ Iterates(g, step, Nat, base, s)
      BY <1>3, <1>4, FoldExists
    <2>2. \A x \in SUBSET DOMAIN s : x # {} => g[x] = Op(g[x \ {Max(x)}], s[Max(x)])
      BY <1>7, <1>8, <2>1 DEF Iterates
    <2>3. Def(g)
      BY <2>1, <2>2 DEF Iterates
    <2> HIDE DEF Def
    <2> QED
      BY <1>6, <2>3
  <1>10. /\ it[{}] = base
         /\ \A x \in SUBSET DOMAIN s : x # {} => it[x] = Op(it[x \ {Max(x)}], s[Max(x)])
    BY <1>9
  <1>11. Iterates(it, step, Nat, base, s)
    BY <1>7, <1>8, <1>10 DEF Iterates
  <1> HIDE DEF Def
  <1>12. PICK F : Trace(F, step, Nat, base, s, it[DOMAIN s])
    BY <1>3, <1>4, <1>11, FoldTrace
  <1>13. \A n \in 1..Len(s) : n - 1 \in 0..Len(s) /\ s[n] \in Tuples
    BY <1>3
  <1>14. \A n \in 1..Len(s) : F[n] = Op(F[n - 1], s[n])
    BY <1>8, <1>12, <1>13 DEF Trace
  <1>15. /\ F \in [0..Len(s) -> Nat] /\ F[0] = base
         /\ F[Len(s)] = UsedBytes(img)
    BY <1>5, <1>6, <1>12 DEF Trace
  <1> QED
    BY <1>1, <1>2, <1>14, <1>15 DEF Op

\* The table after the first tuples.
LEMMA ParseTrace ==
  ASSUME NEW img, img.tuples \in Seq(Tuples)
  PROVE  \E F \in [0..Len(img.tuples) -> Tables] :
           /\ F[0] = EmptyTable /\ F[Len(img.tuples)] = parse_tuples(img)
           /\ \A n \in 1..Len(img.tuples) : F[n] = nvram_set(F[n - 1], img.tuples[n].name, img.tuples[n].value)
  <1>1. PICK s : s = img.tuples
    OBVIOUS
  <1>2. PICK base : base = EmptyTable
    OBVIOUS
  <1>3. s \in Seq(Tuples) /\ base \in Tables
    BY <1>1, <1>2, TablesAre, EmptyOK
  <1>4. PICK step : /\ IsStep(step, Tables, Tuples)
                    /\ \A a \in Tables, e \in Tuples : step[<<a, e>>] = nvram_set(a, e.name, e.value)
    <2>1. \A a \in Tables, e \in Tuples : nvram_set(a, e.name, e.value) \in Tables
      BY TablesAre, SetChanges DEF Tuples
    <2> DEFINE f == [x \in Tables \X Tuples |-> nvram_set(x[1], x[2].name, x[2].value)]
    <2>2. f \in [Tables \X Tuples -> Tables]
      BY <2>1
    <2>3. \A a \in Tables, e \in Tuples : f[<<a, e>>] = nvram_set(a, e.name, e.value)
      OBVIOUS
    <2> HIDE DEF f
    <2> QED
      BY <2>2, <2>3 DEF IsStep
  <1> DEFINE Op(a, e) == nvram_set(a, e.name, e.value)
             Def(it) == it = [x \in SUBSET DOMAIN s |->
                                IF x = {} THEN base
                                ELSE Op(it[x \ {Max(x)}], s[Max(x)])]
  <1>5. parse_tuples(img) = (CHOOSE it : Def(it))[DOMAIN s]
    BY <1>1, <1>2 DEF parse_tuples, FoldLeft, MapThenFoldSet
  <1>6. PICK it : it = CHOOSE g : Def(g)
    OBVIOUS
  <1>7. \A x \in SUBSET DOMAIN s : x # {} =>
          s[Max(x)] \in Tuples /\ x \ {Max(x)} \in SUBSET DOMAIN s
    BY <1>3, LastPart
  <1>8. \A a \in Tables, e \in Tuples : step[<<a, e>>] = Op(a, e)
    BY <1>4
  <1> HIDE DEF Op
  <1>9. Def(it)
    <2>1. PICK g : /\ g = [x \in SUBSET DOMAIN s |-> g[x]]
                   /\ \A x \in SUBSET DOMAIN s : g[x] \in Tables
                   /\ Iterates(g, step, Tables, base, s)
      BY <1>3, <1>4, FoldExists
    <2>2. \A x \in SUBSET DOMAIN s : x # {} => g[x] = Op(g[x \ {Max(x)}], s[Max(x)])
      BY <1>7, <1>8, <2>1 DEF Iterates
    <2>3. Def(g)
      BY <2>1, <2>2 DEF Iterates
    <2> HIDE DEF Def
    <2> QED
      BY <1>6, <2>3
  <1>10. /\ it[{}] = base
         /\ \A x \in SUBSET DOMAIN s : x # {} => it[x] = Op(it[x \ {Max(x)}], s[Max(x)])
    BY <1>9
  <1>11. Iterates(it, step, Tables, base, s)
    BY <1>7, <1>8, <1>10 DEF Iterates
  <1> HIDE DEF Def
  <1>12. PICK F : Trace(F, step, Tables, base, s, it[DOMAIN s])
    BY <1>3, <1>4, <1>11, FoldTrace
  <1>13. \A n \in 1..Len(s) : n - 1 \in 0..Len(s) /\ s[n] \in Tuples
    BY <1>3
  <1>14. \A n \in 1..Len(s) : F[n] = Op(F[n - 1], s[n])
    BY <1>8, <1>12, <1>13 DEF Trace
  <1>15. /\ F \in [0..Len(s) -> Tables] /\ F[0] = base
         /\ F[Len(s)] = parse_tuples(img)
    BY <1>5, <1>6, <1>12 DEF Trace
  <1> QED
    BY <1>1, <1>2, <1>14, <1>15 DEF Op

LEMMA SdramAre ==
  /\ Sdram \in Seq(SdramNames) /\ SdramNames \subseteq Names
  /\ \A n \in SdramNames : \E i \in 1..Len(Sdram) : Sdram[i] = n
  /\ \A k \in Fields : Hex[k] \in Values /\ ValLen[Hex[k]] + 1 <= Space
  <1>1. Sdram \in Seq(Names) /\ DOMAIN Sdram = 1..Len(Sdram)
    BY ImageAssumption DEF ImageAssumption
  <1>2. SdramNames = {Sdram[i] : i \in 1..Len(Sdram)}
    BY <1>1 DEF SdramNames, ToSet
  <1>3. \A k \in Fields : Hex[k] \in Values /\ ValLen[Hex[k]] + 1 <= Space
    <2> SUFFICES ASSUME NEW k \in Fields
                 PROVE  Hex[k] \in Values /\ ValLen[Hex[k]] + 1 <= Space
      OBVIOUS
    <2>1. Hex[k] \in Values /\ ValLen[Hex[k]] < Space
      BY ImageAssumption DEF ImageAssumption
    <2>2. ValLen[Hex[k]] \in Nat /\ Space \in Nat
      BY <2>1, ImageAssumption DEF ImageAssumption
    <2> QED
      BY <2>1, <2>2
  <1> QED
    BY <1>1, <1>2, <1>3

\* The table after the first SDRAM parameters.
LEMMA SdramTrace ==
  ASSUME NEW img, img.sdram \in [SdramNames -> Fields], parse_tuples(img) \in Tables
  PROVE  \E F \in [0..Len(Sdram) -> Tables] :
           /\ F[0] = parse_tuples(img) /\ F[Len(Sdram)] = nvram_rehash(img)
           /\ \A n \in 1..Len(Sdram) : F[n] = (IF nvram_get(F[n - 1], Sdram[n]) # NoValue THEN F[n - 1] ELSE nvram_set(F[n - 1], Sdram[n], Hex[img.sdram[Sdram[n]]]))
  <1>1. PICK s : s = Sdram
    OBVIOUS
  <1>2. PICK base : base = parse_tuples(img)
    OBVIOUS
  <1>3. s \in Seq(SdramNames) /\ base \in Tables
    BY <1>1, <1>2, SdramAre
  <1>4. PICK step : /\ IsStep(step, Tables, SdramNames)
                    /\ \A a \in Tables, e \in SdramNames : step[<<a, e>>] = (IF nvram_get(a, e) # NoValue THEN a ELSE nvram_set(a, e, Hex[img.sdram[e]]))
    <2>1. \A a \in Tables, e \in SdramNames : (IF nvram_get(a, e) # NoValue THEN a ELSE nvram_set(a, e, Hex[img.sdram[e]])) \in Tables
      BY TablesAre, SetChanges, SdramAre
    <2> DEFINE f == [x \in Tables \X SdramNames |-> (IF nvram_get(x[1], x[2]) # NoValue THEN x[1] ELSE nvram_set(x[1], x[2], Hex[img.sdram[x[2]]]))]
    <2>2. f \in [Tables \X SdramNames -> Tables]
      BY <2>1
    <2>3. \A a \in Tables, e \in SdramNames : f[<<a, e>>] = (IF nvram_get(a, e) # NoValue THEN a ELSE nvram_set(a, e, Hex[img.sdram[e]]))
      OBVIOUS
    <2> HIDE DEF f
    <2> QED
      BY <2>2, <2>3 DEF IsStep
  <1> DEFINE Op(a, e) == (IF nvram_get(a, e) # NoValue THEN a ELSE nvram_set(a, e, Hex[img.sdram[e]]))
             Def(it) == it = [x \in SUBSET DOMAIN s |->
                                IF x = {} THEN base
                                ELSE Op(it[x \ {Max(x)}], s[Max(x)])]
  <1>5. nvram_rehash(img) = (CHOOSE it : Def(it))[DOMAIN s]
    BY <1>1, <1>2 DEF nvram_rehash, FoldLeft, MapThenFoldSet
  <1>6. PICK it : it = CHOOSE g : Def(g)
    OBVIOUS
  <1>7. \A x \in SUBSET DOMAIN s : x # {} =>
          s[Max(x)] \in SdramNames /\ x \ {Max(x)} \in SUBSET DOMAIN s
    BY <1>3, LastPart
  <1>8. \A a \in Tables, e \in SdramNames : step[<<a, e>>] = Op(a, e)
    BY <1>4
  <1> HIDE DEF Op
  <1>9. Def(it)
    <2>1. PICK g : /\ g = [x \in SUBSET DOMAIN s |-> g[x]]
                   /\ \A x \in SUBSET DOMAIN s : g[x] \in Tables
                   /\ Iterates(g, step, Tables, base, s)
      BY <1>3, <1>4, FoldExists
    <2>2. \A x \in SUBSET DOMAIN s : x # {} => g[x] = Op(g[x \ {Max(x)}], s[Max(x)])
      BY <1>7, <1>8, <2>1 DEF Iterates
    <2>3. Def(g)
      BY <2>1, <2>2 DEF Iterates
    <2> HIDE DEF Def
    <2> QED
      BY <1>6, <2>3
  <1>10. /\ it[{}] = base
         /\ \A x \in SUBSET DOMAIN s : x # {} => it[x] = Op(it[x \ {Max(x)}], s[Max(x)])
    BY <1>9
  <1>11. Iterates(it, step, Tables, base, s)
    BY <1>7, <1>8, <1>10 DEF Iterates
  <1> HIDE DEF Def
  <1>12. PICK F : Trace(F, step, Tables, base, s, it[DOMAIN s])
    BY <1>3, <1>4, <1>11, FoldTrace
  <1>13. \A n \in 1..Len(s) : n - 1 \in 0..Len(s) /\ s[n] \in SdramNames
    BY <1>3
  <1>14. \A n \in 1..Len(s) : F[n] = Op(F[n - 1], s[n])
    BY <1>8, <1>12, <1>13 DEF Trace
  <1>15. /\ F \in [0..Len(s) -> Tables] /\ F[0] = base
         /\ F[Len(s)] = nvram_rehash(img)
    BY <1>5, <1>6, <1>12 DEF Trace
  <1> QED
    BY <1>1, <1>2, <1>14, <1>15 DEF Op

LEMMA WriteKeepsType ==
  ASSUME NEW a \in Accs, NEW e \in Tuples
  PROVE  write_tuple(a, e) \in Accs
  <1>1. a.out \in Seq(Tuples) /\ a.ptr \in Nat /\ a.full \in BOOLEAN
    BY DEF Accs
  <1>2. Append(a.out, e) \in Seq(Tuples) /\ a.ptr + TupleLen(e) \in Nat
    BY <1>1, LengthsAre
  <1>3. [a EXCEPT !.full = TRUE] \in Accs
    BY DEF Accs
  <1>4. [a EXCEPT !.out = Append(@, e), !.ptr = @ + TupleLen(e)] \in Accs
    BY <1>1, <1>2 DEF Accs
  <1> QED
    BY <1>3, <1>4 DEF write_tuple

\* What nvram_commit has written after the first tuples of a bucket.
LEMMA BucketTrace ==
  ASSUME NEW acc \in Accs, NEW b \in Seq(Tuples)
  PROVE  \E F \in [0..Len(b) -> Accs] :
           /\ F[0] = [acc EXCEPT !.full = FALSE] /\ F[Len(b)] = write_bucket(acc, b)
           /\ \A n \in 1..Len(b) : F[n] = write_tuple(F[n - 1], b[n])
  <1>1. PICK s : s = b
    OBVIOUS
  <1>2. PICK base : base = [acc EXCEPT !.full = FALSE]
    OBVIOUS
  <1>3. s \in Seq(Tuples) /\ base \in Accs
    BY <1>1, <1>2 DEF Accs
  <1>4. PICK step : /\ IsStep(step, Accs, Tuples)
                    /\ \A a \in Accs, e \in Tuples : step[<<a, e>>] = write_tuple(a, e)
    <2>1. \A a \in Accs, e \in Tuples : write_tuple(a, e) \in Accs
      BY WriteKeepsType
    <2> DEFINE f == [x \in Accs \X Tuples |-> write_tuple(x[1], x[2])]
    <2>2. f \in [Accs \X Tuples -> Accs]
      BY <2>1
    <2>3. \A a \in Accs, e \in Tuples : f[<<a, e>>] = write_tuple(a, e)
      OBVIOUS
    <2> HIDE DEF f
    <2> QED
      BY <2>2, <2>3 DEF IsStep
  <1> DEFINE Op(a, e) == write_tuple(a, e)
             Def(it) == it = [x \in SUBSET DOMAIN s |->
                                IF x = {} THEN base
                                ELSE Op(it[x \ {Max(x)}], s[Max(x)])]
  <1>5. write_bucket(acc, b) = (CHOOSE it : Def(it))[DOMAIN s]
    BY <1>1, <1>2 DEF write_bucket, FoldLeft, MapThenFoldSet
  <1>6. PICK it : it = CHOOSE g : Def(g)
    OBVIOUS
  <1>7. \A x \in SUBSET DOMAIN s : x # {} =>
          s[Max(x)] \in Tuples /\ x \ {Max(x)} \in SUBSET DOMAIN s
    BY <1>3, LastPart
  <1>8. \A a \in Accs, e \in Tuples : step[<<a, e>>] = Op(a, e)
    BY <1>4
  <1> HIDE DEF Op
  <1>9. Def(it)
    <2>1. PICK g : /\ g = [x \in SUBSET DOMAIN s |-> g[x]]
                   /\ \A x \in SUBSET DOMAIN s : g[x] \in Accs
                   /\ Iterates(g, step, Accs, base, s)
      BY <1>3, <1>4, FoldExists
    <2>2. \A x \in SUBSET DOMAIN s : x # {} => g[x] = Op(g[x \ {Max(x)}], s[Max(x)])
      BY <1>7, <1>8, <2>1 DEF Iterates
    <2>3. Def(g)
      BY <2>1, <2>2 DEF Iterates
    <2> HIDE DEF Def
    <2> QED
      BY <1>6, <2>3
  <1>10. /\ it[{}] = base
         /\ \A x \in SUBSET DOMAIN s : x # {} => it[x] = Op(it[x \ {Max(x)}], s[Max(x)])
    BY <1>9
  <1>11. Iterates(it, step, Accs, base, s)
    BY <1>7, <1>8, <1>10 DEF Iterates
  <1> HIDE DEF Def
  <1>12. PICK F : Trace(F, step, Accs, base, s, it[DOMAIN s])
    BY <1>3, <1>4, <1>11, FoldTrace
  <1>13. \A n \in 1..Len(s) : n - 1 \in 0..Len(s) /\ s[n] \in Tuples
    BY <1>3
  <1>14. \A n \in 1..Len(s) : F[n] = Op(F[n - 1], s[n])
    BY <1>8, <1>12, <1>13 DEF Trace
  <1>15. /\ F \in [0..Len(s) -> Accs] /\ F[0] = base
         /\ F[Len(s)] = write_bucket(acc, b)
    BY <1>5, <1>6, <1>12 DEF Trace
  <1> QED
    BY <1>1, <1>2, <1>14, <1>15 DEF Op

LEMMA BucketKeepsType ==
  ASSUME NEW a \in Accs, NEW b \in Seq(Tuples)
  PROVE  write_bucket(a, b) \in Accs
  <1>1. PICK F \in [0..Len(b) -> Accs] : F[Len(b)] = write_bucket(a, b)
    BY BucketTrace
  <1>2. Len(b) \in 0..Len(b)
    OBVIOUS
  <1> QED
    BY <1>1, <1>2

\* A table is a sequence of buckets.
LEMMA TableIsSeq ==
  ASSUME NEW t, TableOK(t)
  PROVE  t \in Seq(Seq(Tuples)) /\ Len(t) = NBuckets
  <1>1. NBuckets \in Nat
    BY ImageAssumption DEF ImageAssumption
  <1>2. t \in [1..NBuckets -> Seq(Tuples)]
    BY TablesAre DEF Tables
  <1> QED
    BY <1>1, <1>2

\* What nvram_commit has written after the first buckets.
LEMMA TableTrace ==
  ASSUME NEW t, TableOK(t)
  PROVE  \E F \in [0..Len(t) -> Accs] :
           /\ F[0] = [ptr |-> HeaderSize, out |-> <<>>, full |-> FALSE] /\ F[Len(t)] = write_tuples(t)
           /\ \A n \in 1..Len(t) : F[n] = write_bucket(F[n - 1], t[n])
  <1>1. PICK s : s = t
    OBVIOUS
  <1>2. PICK base : base = [ptr |-> HeaderSize, out |-> <<>>, full |-> FALSE]
    OBVIOUS
  <1>3. s \in Seq(Seq(Tuples)) /\ base \in Accs
    BY <1>1, <1>2, LengthsAre, TableIsSeq DEF Accs
  <1>4. PICK step : /\ IsStep(step, Accs, Seq(Tuples))
                    /\ \A a \in Accs, e \in Seq(Tuples) : step[<<a, e>>] = write_bucket(a, e)
    <2>1. \A a \in Accs, e \in Seq(Tuples) : write_bucket(a, e) \in Accs
      BY BucketKeepsType
    <2> DEFINE f == [x \in Accs \X Seq(Tuples) |-> write_bucket(x[1], x[2])]
    <2>2. f \in [Accs \X Seq(Tuples) -> Accs]
      BY <2>1
    <2>3. \A a \in Accs, e \in Seq(Tuples) : f[<<a, e>>] = write_bucket(a, e)
      OBVIOUS
    <2> HIDE DEF f
    <2> QED
      BY <2>2, <2>3 DEF IsStep
  <1> DEFINE Op(a, e) == write_bucket(a, e)
             Def(it) == it = [x \in SUBSET DOMAIN s |->
                                IF x = {} THEN base
                                ELSE Op(it[x \ {Max(x)}], s[Max(x)])]
  <1>5. write_tuples(t) = (CHOOSE it : Def(it))[DOMAIN s]
    BY <1>1, <1>2 DEF write_tuples, FoldLeft, MapThenFoldSet
  <1>6. PICK it : it = CHOOSE g : Def(g)
    OBVIOUS
  <1>7. \A x \in SUBSET DOMAIN s : x # {} =>
          s[Max(x)] \in Seq(Tuples) /\ x \ {Max(x)} \in SUBSET DOMAIN s
    BY <1>3, LastPart
  <1>8. \A a \in Accs, e \in Seq(Tuples) : step[<<a, e>>] = Op(a, e)
    BY <1>4
  <1> HIDE DEF Op
  <1>9. Def(it)
    <2>1. PICK g : /\ g = [x \in SUBSET DOMAIN s |-> g[x]]
                   /\ \A x \in SUBSET DOMAIN s : g[x] \in Accs
                   /\ Iterates(g, step, Accs, base, s)
      BY <1>3, <1>4, FoldExists
    <2>2. \A x \in SUBSET DOMAIN s : x # {} => g[x] = Op(g[x \ {Max(x)}], s[Max(x)])
      BY <1>7, <1>8, <2>1 DEF Iterates
    <2>3. Def(g)
      BY <2>1, <2>2 DEF Iterates
    <2> HIDE DEF Def
    <2> QED
      BY <1>6, <2>3
  <1>10. /\ it[{}] = base
         /\ \A x \in SUBSET DOMAIN s : x # {} => it[x] = Op(it[x \ {Max(x)}], s[Max(x)])
    BY <1>9
  <1>11. Iterates(it, step, Accs, base, s)
    BY <1>7, <1>8, <1>10 DEF Iterates
  <1> HIDE DEF Def
  <1>12. PICK F : Trace(F, step, Accs, base, s, it[DOMAIN s])
    BY <1>3, <1>4, <1>11, FoldTrace
  <1>13. \A n \in 1..Len(s) : n - 1 \in 0..Len(s) /\ s[n] \in Seq(Tuples)
    BY <1>3
  <1>14. \A n \in 1..Len(s) : F[n] = Op(F[n - 1], s[n])
    BY <1>8, <1>12, <1>13 DEF Trace
  <1>15. /\ F \in [0..Len(s) -> Accs] /\ F[0] = base
         /\ F[Len(s)] = write_tuples(t)
    BY <1>5, <1>6, <1>12 DEF Trace
  <1> QED
    BY <1>1, <1>2, <1>14, <1>15 DEF Op

-----------------------------------------------------------------------------
(***************************************************************************)
(* The length of an image.                                                 *)
(***************************************************************************)

\* The beginning of a list of tuples takes no more bytes than the list, and
\* one tuple more takes its length more.
LEMMA UsedPrefix ==
  ASSUME NEW img, NEW part, img.tuples \in Seq(Tuples), part.tuples \in Seq(Tuples),
         Len(part.tuples) <= Len(img.tuples),
         \A i \in 1..Len(part.tuples) : part.tuples[i] = img.tuples[i]
  PROVE  /\ UsedBytes(img) \in Nat /\ UsedBytes(part) \in Nat
         /\ UsedBytes(part) <= UsedBytes(img)
         /\ \A i \in 1..Len(img.tuples) :
              HeaderSize + TupleLen(img.tuples[i]) <= UsedBytes(img)
         /\ Len(img.tuples) = Len(part.tuples) + 1 =>
              UsedBytes(img) = UsedBytes(part) + TupleLen(img.tuples[Len(img.tuples)])
  <1>s. PICK s : s = img.tuples
    OBVIOUS
  <1>r. PICK r : r = part.tuples
    OBVIOUS
  <1>0. /\ s \in Seq(Tuples) /\ r \in Seq(Tuples) /\ Len(s) \in Nat /\ Len(r) \in Nat
        /\ Len(r) <= Len(s) /\ \A i \in 1..Len(r) : r[i] = s[i]
    BY <1>s, <1>r
  <1>1. PICK F \in [0..Len(s) -> Nat] :
          /\ F[0] = HeaderSize /\ F[Len(s)] = UsedBytes(img)
          /\ \A n \in 1..Len(s) : F[n] = F[n - 1] + TupleLen(s[n])
    BY <1>s, UsedTrace
  <1>2. PICK G \in [0..Len(r) -> Nat] :
          /\ G[0] = HeaderSize /\ G[Len(r)] = UsedBytes(part)
          /\ \A n \in 1..Len(r) : G[n] = G[n - 1] + TupleLen(r[n])
    BY <1>r, UsedTrace
  <1>3. \A n \in 1..Len(s) : s[n] \in Tuples /\ TupleLen(s[n]) \in Nat
    BY <1>0, LengthsAre
  <1>n. \A n \in 0..Len(s) : F[n] \in Nat
    BY <1>1
  <1>4. \A n \in 0..Len(r) : G[n] = F[n]
    <2> DEFINE T == {n \in 0..Len(r) : G[n] = F[n]}
    <2>1. 0 \in T
      BY <1>0, <1>1, <1>2
    <2>2. ASSUME NEW n \in 1..Len(r), n - 1 \in T
          PROVE  n \in T
      <3>1. n \in 1..Len(s) /\ r[n] = s[n] /\ n \in 0..Len(r)
        BY <1>0
      <3>2. F[n] = F[n - 1] + TupleLen(s[n]) /\ G[n] = G[n - 1] + TupleLen(r[n])
        BY <1>1, <1>2, <3>1
      <3> QED
        BY <2>2, <3>1, <3>2
    <2> HIDE DEF T
    <2>3. 0..Len(r) \subseteq T
      BY <1>0, <2>1, <2>2, UpTo
    <2> QED
      BY <2>3 DEF T
  <1>5. \A n \in 0..Len(s) : \A m \in 0..n : F[m] <= F[n]
    <2> DEFINE T == {n \in 0..Len(s) : \A m \in 0..n : F[m] <= F[n]}
    <2>1. 0 \in T
      BY <1>0, <1>1
    <2>2. ASSUME NEW n \in 1..Len(s), n - 1 \in T
          PROVE  n \in T
      <3>1. F[n] = F[n - 1] + TupleLen(s[n]) /\ TupleLen(s[n]) \in Nat
        BY <1>1, <1>3
      <3>2. n \in 0..Len(s) /\ n - 1 \in 0..Len(s) /\ F[n] \in Nat /\ F[n - 1] \in Nat
        <4>1. n \in 0..Len(s) /\ n - 1 \in 0..Len(s)
          BY <1>0
        <4> QED
          BY <1>n, <4>1
      <3>3. ASSUME NEW m \in 0..n
            PROVE  F[m] <= F[n]
        <4>1. CASE m = n
          BY <3>2, <4>1
        <4>2. CASE m # n
          <5>1. m \in 0..n - 1 /\ m \in 0..Len(s)
            BY <1>0, <4>2
          <5>2. F[m] <= F[n - 1] /\ F[m] \in Nat
            BY <1>1, <2>2, <5>1
          <5> QED
            BY <3>1, <3>2, <5>2
        <4> QED
          BY <4>1, <4>2
      <3> QED
        BY <3>2, <3>3
    <2> HIDE DEF T
    <2>3. 0..Len(s) \subseteq T
      BY <1>0, <2>1, <2>2, UpTo
    <2> QED
      BY <2>3 DEF T
  <1>6. Len(r) \in 0..Len(s) /\ Len(s) \in 0..Len(s) /\ Len(r) \in 0..Len(r)
    BY <1>0
  <1>7. UsedBytes(img) \in Nat /\ UsedBytes(part) \in Nat /\ UsedBytes(part) <= UsedBytes(img)
    BY <1>1, <1>2, <1>4, <1>5, <1>6
  <1>8. ASSUME NEW i \in 1..Len(s)
        PROVE  HeaderSize + TupleLen(s[i]) <= UsedBytes(img)
    <2>1. 0 \in 0..i - 1 /\ i - 1 \in 0..Len(s) /\ i \in 0..Len(s) /\ Len(s) \in 0..Len(s)
      BY <1>0
    <2>2. F[0] <= F[i - 1] /\ F[i] <= F[Len(s)]
      BY <1>5, <2>1
    <2>3. F[i - 1] \in Nat /\ F[i] \in Nat /\ F[0] \in Nat /\ F[Len(s)] \in Nat
      <3>1. 0 \in 0..Len(s)
        BY <1>0
      <3> QED
        BY <1>n, <2>1, <3>1
    <2> QED
      BY <1>1, <1>3, <2>2, <2>3
  <1>9. ASSUME Len(s) = Len(r) + 1
        PROVE  UsedBytes(img) = UsedBytes(part) + TupleLen(s[Len(s)])
    <2>1. Len(s) \in 1..Len(s) /\ Len(s) - 1 = Len(r)
      BY <1>0, <1>9
    <2>2. F[Len(s)] = F[Len(r)] + TupleLen(s[Len(s)])
      BY <1>1, <2>1
    <2> QED
      BY <1>1, <1>2, <1>4, <1>6, <2>2
  <1> QED
    BY <1>s, <1>r, <1>7, <1>8, <1>9

\* An image without tuples is a header.
LEMMA UsedEmpty ==
  ASSUME NEW img, img.tuples = <<>>
  PROVE  UsedBytes(img) = HeaderSize
  <1>1. img.tuples \in Seq(Tuples) /\ Len(img.tuples) = 0
    OBVIOUS
  <1> QED
    BY <1>1, UsedTrace

\* The length in the header stays within the partition, and is below its end
\* when at least 6 bytes are free.
LEMMA LenFits ==
  ASSUME NEW ptr \in Nat, ptr <= DataEnd
  PROVE  /\ commit_len(ptr) \in Nat /\ commit_len(ptr) <= Space
         /\ commit_len(ptr) < Space <=> ptr + 6 <= Space
  <1>1. Space \in Nat /\ Space % 4 = 0 /\ DataEnd = Space - 2
    BY ImageAssumption DEF ImageAssumption, DataEnd
  <1>2. PICK q \in Nat : Space = 4 * q
    <2>1. Space = 4 * (Space \div 4) /\ Space \div 4 \in Nat
      BY <1>1
    <2> QED
      BY <2>1
  <1>3. PICK d : d = (ptr + 5) \div 4
    OBVIOUS
  <1>4. d \in Nat /\ 4 * d <= ptr + 5 /\ ptr + 5 < 4 * d + 4
    BY <1>3
  <1>5. commit_len(ptr) = d * 4
    <2>1. (ptr + 2) + 3 = ptr + 5
      OBVIOUS
    <2> QED
      BY <1>3, <2>1 DEF commit_len
  <1> QED
    BY <1>1, <1>2, <1>4, <1>5

-----------------------------------------------------------------------------
(***************************************************************************)
(* Parsing an image.                                                       *)
(***************************************************************************)

\* The first m tuples say that the variable x has the value v.
Says(s, m, x, v) ==
  \/ /\ v = NoValue
     /\ \A i \in 1..m : s[i].name # x
  \/ \E i \in 1..m : /\ s[i].name = x /\ s[i].value = v
                     /\ \A k \in i + 1..m : s[k].name # x

\* The table has what the tuples say; of a name that is there twice the last.
LEMMA ParseSays ==
  ASSUME NEW img, img.tuples \in Seq(Tuples),
         \A i \in 1..Len(img.tuples) : ValLen[img.tuples[i].value] + 1 <= Space
  PROVE  /\ TableOK(parse_tuples(img))
         /\ \A x \in Names : Says(img.tuples, Len(img.tuples), x,
                                  nvram_get(parse_tuples(img), x))
  <1>s. PICK s : s = img.tuples
    OBVIOUS
  <1>0. /\ s \in Seq(Tuples) /\ Len(s) \in Nat
        /\ \A i \in 1..Len(s) : /\ s[i] \in Tuples /\ s[i].name \in Names
                                /\ s[i].value \in Values /\ ValLen[s[i].value] + 1 <= Space
    <2>1. s \in Seq(Tuples) /\ Len(s) \in Nat /\ \A i \in 1..Len(s) : s[i] \in Tuples
      BY <1>s
    <2>2. \A e \in Tuples : e.name \in Names /\ e.value \in Values
      BY DEF Tuples
    <2>3. \A i \in 1..Len(s) : ValLen[s[i].value] + 1 <= Space
      BY <1>s
    <2> QED
      BY <2>1, <2>2, <2>3
  <1>1. PICK F \in [0..Len(s) -> Tables] :
          /\ F[0] = EmptyTable /\ F[Len(s)] = parse_tuples(img)
          /\ \A n \in 1..Len(s) : F[n] = nvram_set(F[n - 1], s[n].name, s[n].value)
    BY <1>s, ParseTrace
  <1>2. \A n \in 0..Len(s) : TableOK(F[n])
    BY <1>1, TablesAre
  <1> DEFINE T == {n \in 0..Len(s) : \A x \in Names : Says(s, n, x, nvram_get(F[n], x))}
  <1>3. 0 \in T
    <2>1. \A i \in 1..0 : FALSE
      OBVIOUS
    <2> QED
      BY <1>0, <1>1, <2>1, EmptyOK DEF Says
  <1>4. ASSUME NEW n \in 1..Len(s), n - 1 \in T
        PROVE  n \in T
    <2>0. n \in Nat /\ n - 1 \in Nat /\ n \in 0..Len(s) /\ n - 1 \in 0..Len(s)
      BY <1>0
    <2>1. F[n] = nvram_set(F[n - 1], s[n].name, s[n].value) /\ TableOK(F[n - 1])
      BY <1>1, <1>2, <2>0
    <2>2. \A x \in Names : nvram_get(F[n], x) =
            IF x = s[n].name THEN s[n].value ELSE nvram_get(F[n - 1], x)
      BY SMTT(20), <1>0, <2>1, SetChanges
    <2>3. ASSUME NEW x \in Names
          PROVE  Says(s, n, x, nvram_get(F[n], x))
      <3>1. CASE x = s[n].name
        <4>1. \A k \in n + 1..n : FALSE
          BY <2>0
        <4> QED
          BY <2>0, <2>2, <3>1, <4>1 DEF Says
      <3>2. CASE x # s[n].name
        <4>1. PICK v : v = nvram_get(F[n - 1], x)
          OBVIOUS
        <4>2. Says(s, n - 1, x, v) /\ nvram_get(F[n], x) = v
          BY <1>4, <2>2, <3>2, <4>1
        <4>3. \A i \in 1..n : i = n \/ i \in 1..n - 1
          BY <2>0
        <4>4. CASE v = NoValue /\ \A i \in 1..n - 1 : s[i].name # x
          BY <3>2, <4>2, <4>3, <4>4 DEF Says
        <4>5. CASE \E i \in 1..n - 1 : /\ s[i].name = x /\ s[i].value = v
                                       /\ \A k \in i + 1..n - 1 : s[k].name # x
          <5>1. PICK i \in 1..n - 1 : /\ s[i].name = x /\ s[i].value = v
                                      /\ \A k \in i + 1..n - 1 : s[k].name # x
            BY <4>5
          <5>2. i \in 1..n /\ \A k \in i + 1..n : k = n \/ k \in i + 1..n - 1
            BY <2>0
          <5>3. \A k \in i + 1..n : s[k].name # x
            BY <3>2, <5>1, <5>2
          <5> QED
            BY <4>2, <5>1, <5>2, <5>3 DEF Says
        <4> QED
          BY <4>2, <4>4, <4>5 DEF Says
      <3> QED
        BY <3>1, <3>2
    <2> QED
      BY <2>0, <2>3
  <1> HIDE DEF T
  <1>5. 0..Len(s) \subseteq T
    BY <1>0, <1>3, <1>4, UpTo
  <1>6. Len(s) \in 0..Len(s)
    BY <1>0
  <1>7. \A x \in Names : Says(s, Len(s), x, nvram_get(F[Len(s)], x))
    BY <1>5, <1>6 DEF T
  <1> QED
    BY <1>s, <1>1, <1>2, <1>6, <1>7

\* The SDRAM parameters that are missing come from the header.
LEMMA SdramSays ==
  ASSUME NEW img, img.sdram \in [SdramNames -> Fields], TableOK(parse_tuples(img))
  PROVE  /\ TableOK(nvram_rehash(img))
         /\ \A x \in Names :
              nvram_get(nvram_rehash(img), x) =
                IF nvram_get(parse_tuples(img), x) # NoValue
                THEN nvram_get(parse_tuples(img), x)
                ELSE IF x \in SdramNames THEN Hex[img.sdram[x]] ELSE NoValue
  <1>t. PICK t : t = parse_tuples(img)
    OBVIOUS
  <1>0. /\ TableOK(t) /\ Len(Sdram) \in Nat
        /\ \A i \in 1..Len(Sdram) : Sdram[i] \in SdramNames /\ Sdram[i] \in Names
    BY <1>t, SdramAre
  <1>1. PICK F \in [0..Len(Sdram) -> Tables] :
          /\ F[0] = t /\ F[Len(Sdram)] = nvram_rehash(img)
          /\ \A n \in 1..Len(Sdram) :
               F[n] = (IF nvram_get(F[n - 1], Sdram[n]) # NoValue THEN F[n - 1]
                       ELSE nvram_set(F[n - 1], Sdram[n], Hex[img.sdram[Sdram[n]]]))
    BY <1>t, SdramTrace, TablesAre
  <1>2. \A n \in 0..Len(Sdram) : TableOK(F[n])
    BY <1>1, TablesAre
  <1>3. \A x \in SdramNames : /\ Hex[img.sdram[x]] \in Values
                              /\ Hex[img.sdram[x]] # NoValue
                              /\ ValLen[Hex[img.sdram[x]]] + 1 <= Space
    <2>1. NoValue \notin Values
      BY ImageAssumption DEF ImageAssumption
    <2>2. \A x \in SdramNames : img.sdram[x] \in Fields
      OBVIOUS
    <2> QED
      BY <2>1, <2>2, SdramAre
  <1> DEFINE Seen(n) == {Sdram[i] : i \in 1..n}
             Get(n, x) == IF nvram_get(t, x) # NoValue THEN nvram_get(t, x)
                          ELSE IF x \in Seen(n) THEN Hex[img.sdram[x]] ELSE NoValue
             T == {n \in 0..Len(Sdram) : \A x \in Names : nvram_get(F[n], x) = Get(n, x)}
  <1>4. 0 \in T
    <2>1. \A i \in 1..0 : FALSE
      OBVIOUS
    <2> QED
      BY <1>0, <1>1, <2>1
  <1>5. ASSUME NEW n \in 1..Len(Sdram), n - 1 \in T
        PROVE  n \in T
    <2>0. n \in Nat /\ n \in 0..Len(Sdram) /\ n - 1 \in 0..Len(Sdram)
      BY <1>0
    <2>1. PICK e : e = Sdram[n]
      OBVIOUS
    <2>2. e \in SdramNames /\ e \in Names /\ TableOK(F[n - 1])
      BY <1>0, <1>2, <2>0, <2>1
    <2>3. Seen(n) = Seen(n - 1) \cup {e}
      <3>1. \A i \in 1..n : i = n \/ i \in 1..n - 1
        BY <2>0
      <3>2. 1..n - 1 \subseteq 1..n /\ n \in 1..n
        BY <2>0
      <3> QED
        BY <2>1, <3>1, <3>2
    <2> HIDE DEF Seen
    <2>4. \A x \in Names : nvram_get(F[n - 1], x) = Get(n - 1, x)
      BY <1>5
    <2>5. CASE nvram_get(F[n - 1], e) # NoValue
      <3>1. F[n] = F[n - 1]
        BY <1>1, <2>1, <2>5
      <3>2. nvram_get(t, e) # NoValue \/ e \in Seen(n - 1)
        BY <2>2, <2>4, <2>5
      <3>3. \A x \in Names : Get(n, x) = Get(n - 1, x)
        BY <2>3, <3>2
      <3> QED
        BY <2>0, <2>4, <3>1, <3>3
    <2>6. CASE nvram_get(F[n - 1], e) = NoValue
      <3>1. F[n] = nvram_set(F[n - 1], e, Hex[img.sdram[e]])
        BY <1>1, <2>1, <2>6
      <3>2. \A x \in Names : nvram_get(F[n], x) =
              IF x = e THEN Hex[img.sdram[e]] ELSE nvram_get(F[n - 1], x)
        BY <1>3, <2>2, <3>1, SetChanges
      <3>3. nvram_get(t, e) = NoValue
        BY <2>2, <2>4, <2>6
      <3>4. \A x \in Names : Get(n, x) = IF x = e THEN Hex[img.sdram[e]] ELSE Get(n - 1, x)
        BY <2>3, <3>3
      <3> QED
        BY <2>0, <2>4, <3>2, <3>4
    <2> QED
      BY <2>5, <2>6
  <1> HIDE DEF T
  <1>6. 0..Len(Sdram) \subseteq T
    BY <1>0, <1>4, <1>5, UpTo
  <1>7. Len(Sdram) \in 0..Len(Sdram)
    BY <1>0
  <1>8. \A x \in Names : nvram_get(nvram_rehash(img), x) = Get(Len(Sdram), x)
    BY <1>1, <1>6, <1>7 DEF T
  <1>9. \A x \in Names : x \in Seen(Len(Sdram)) <=> x \in SdramNames
    BY SdramAre, <1>0
  <1> HIDE DEF Seen
  <1> QED
    BY <1>t, <1>1, <1>2, <1>7, <1>8, <1>9

\* _nvram_rehash() parses an image that fits the partition into a hash table
\* that gives every variable the value the image gives it.
THEOREM RehashSays ==
  ASSUME NEW img, img.tuples \in Seq(Tuples), img.sdram \in [SdramNames -> Fields],
         UsedBytes(img) <= DataEnd
  PROVE  TableOK(nvram_rehash(img)) /\ TableVars(nvram_rehash(img)) = Vars(img)
  <1>s. PICK s : s = img.tuples
    OBVIOUS
  <1>0. s \in Seq(Tuples) /\ Len(s) \in Nat /\ DOMAIN s = 1..Len(s)
        /\ \A i \in 1..Len(s) : s[i] \in Tuples
    BY <1>s
  <1>1. \A i \in 1..Len(s) : ValLen[s[i].value] + 1 <= Space
    <2> SUFFICES ASSUME NEW i \in 1..Len(s)
                 PROVE  ValLen[s[i].value] + 1 <= Space
      OBVIOUS
    <2>1. /\ HeaderSize + TupleLen(s[i]) <= UsedBytes(img) /\ UsedBytes(img) \in Nat
      BY <1>s, UsedPrefix
    <2>2. /\ TupleLen(s[i]) \in Nat /\ TupleLen(s[i]) >= ValLen[s[i].value] + 2
          /\ HeaderSize \in Nat /\ Space \in Nat /\ DataEnd = Space - 2
      BY <1>0, LengthsAre
    <2>3. ValLen[s[i].value] \in Nat
      BY <1>0, ImageAssumption DEF ImageAssumption, Tuples
    <2> QED
      BY SMTT(20), <2>1, <2>2, <2>3
  <1>2. /\ TableOK(parse_tuples(img))
        /\ \A x \in Names : Says(s, Len(s), x, nvram_get(parse_tuples(img), x))
    BY <1>s, <1>1, ParseSays
  <1>3. ASSUME NEW x \in Names
        PROVE  nvram_get(nvram_rehash(img), x) = Vars(img)[x]
    <2>1. PICK v : v = nvram_get(parse_tuples(img), x)
      OBVIOUS
    <2> DEFINE K == {k \in 1..Len(s) : s[k].name = x}
    <2>2. Vars(img)[x] = IF K # {} THEN s[Max(K)].value
                         ELSE IF x \in SdramNames THEN Hex[img.sdram[x]] ELSE NoValue
      BY <1>s, <1>0 DEF Vars
    <2>3. nvram_get(nvram_rehash(img), x) =
            IF v # NoValue THEN v
            ELSE IF x \in SdramNames THEN Hex[img.sdram[x]] ELSE NoValue
      BY <1>2, <2>1, SdramSays
    <2>4. CASE \A i \in 1..Len(s) : s[i].name # x
      <3>1. K = {} /\ v = NoValue
        BY <1>2, <2>1, <2>4 DEF Says
      <3> QED
        BY <2>2, <2>3, <3>1
    <2>5. CASE \E i \in 1..Len(s) : /\ s[i].name = x /\ s[i].value = v
                                    /\ \A k \in i + 1..Len(s) : s[k].name # x
      <3>1. PICK i \in 1..Len(s) : /\ s[i].name = x /\ s[i].value = v
                                   /\ \A k \in i + 1..Len(s) : s[k].name # x
        BY <2>5
      <3>2. i \in Int /\ K \in SUBSET Int /\ i \in K
        BY <1>0, <3>1
      <3>3. ASSUME NEW k \in K
            PROVE  k <= i
        <4>1. k \in 1..Len(s) /\ ~(k \in i + 1..Len(s))
          BY <3>1
        <4> QED
          BY <1>0, <4>1
      <3>4. Max(K) = i
        <4> HIDE DEF K
        <4> QED
          BY <3>2, <3>3, Greatest
      <3>5. v # NoValue
        <4>1. s[i].value \in Values
          BY <1>0 DEF Tuples
        <4> QED
          BY <3>1, <4>1, ImageAssumption DEF ImageAssumption
      <3> QED
        BY <2>2, <2>3, <3>1, <3>2, <3>4, <3>5
    <2> QED
      BY <1>2, <2>1, <2>4, <2>5 DEF Says
  <1>4. TableOK(nvram_rehash(img))
    BY <1>2, SdramSays
  <1> QED
    BY <1>3, <1>4 DEF TableVars, Vars

-----------------------------------------------------------------------------
(***************************************************************************)
(* Writing an image.                                                       *)
(***************************************************************************)

\* What nvram_commit has written fits, and names no variable twice.
Written(acc) ==
  /\ acc \in Accs
  /\ acc.ptr = UsedBytes([tuples |-> acc.out]) /\ acc.ptr <= DataEnd
  /\ \A i, k \in 1..Len(acc.out) : acc.out[i].name = acc.out[k].name => i = k

\* A tuple that is new and fits is appended, another one is left out.
LEMMA WriteTuple ==
  ASSUME NEW acc, Written(acc), NEW e \in Tuples,
         \A i \in 1..Len(acc.out) : acc.out[i].name # e.name
  PROVE  /\ Written(write_tuple(acc, e))
         /\ write_tuple(acc, e).out \in {acc.out, Append(acc.out, e)}
  <1>1. /\ acc \in Accs /\ acc.out \in Seq(Tuples) /\ acc.ptr \in Nat
        /\ acc.ptr = UsedBytes([tuples |-> acc.out]) /\ acc.ptr <= DataEnd
    BY DEF Written, Accs
  <1>2. CASE acc.full \/ acc.ptr + TupleLen(e) > DataEnd
    <2>1. PICK new : new = [acc EXCEPT !.full = TRUE]
      OBVIOUS
    <2>2. new \in Accs /\ new.out = acc.out /\ new.ptr = acc.ptr
      BY <1>1, <2>1 DEF Accs
    <2>3. write_tuple(acc, e) = new
      BY <1>2, <2>1 DEF write_tuple
    <2> QED
      BY <2>2, <2>3 DEF Written
  <1>3. CASE ~(acc.full \/ acc.ptr + TupleLen(e) > DataEnd)
    <2>1. PICK new : new = [acc EXCEPT !.out = Append(@, e), !.ptr = @ + TupleLen(e)]
      OBVIOUS
    <2>2. write_tuple(acc, e) = new
      BY <1>3, <2>1 DEF write_tuple
    <2>3. new.out = Append(acc.out, e) /\ new.ptr = acc.ptr + TupleLen(e)
      BY <1>1, <2>1 DEF Accs
    <2>4. new \in Accs
      BY <1>1, <2>2, WriteKeepsType
    <2>5. PICK s : s = acc.out
      OBVIOUS
    <2>6. PICK r : r = Append(s, e)
      OBVIOUS
    <2>7. /\ s \in Seq(Tuples) /\ r \in Seq(Tuples) /\ Len(s) \in Nat
          /\ Len(r) = Len(s) + 1 /\ r[Len(s) + 1] = e
          /\ \A i \in 1..Len(s) : r[i] = s[i]
      BY <1>1, <2>5, <2>6
    <2>8. PICK a : a = [tuples |-> s]
      OBVIOUS
    <2>9. PICK b : b = [tuples |-> r]
      OBVIOUS
    <2>10. a.tuples = s /\ b.tuples = r
      BY <2>8, <2>9
    <2>11. UsedBytes(b) = UsedBytes(a) + TupleLen(e)
      BY <2>7, <2>10, UsedPrefix
    <2>12. new.ptr = UsedBytes([tuples |-> new.out])
      BY <1>1, <2>3, <2>5, <2>6, <2>8, <2>9, <2>11
    <2>13. new.ptr <= DataEnd
      BY <1>1, <1>3, <2>3, LengthsAre
    <2>14. ASSUME NEW i \in 1..Len(r), NEW k \in 1..Len(r), r[i].name = r[k].name
           PROVE  i = k
      <3>0. \A n \in 1..Len(r) : n = Len(s) + 1 \/ n \in 1..Len(s)
        BY <2>7
      <3>1. \A n \in 1..Len(s) : r[n].name # e.name
        BY <2>5, <2>7
      <3>2. CASE i = Len(s) + 1 \/ k = Len(s) + 1
        BY <2>7, <2>14, <3>0, <3>1, <3>2
      <3>3. CASE i \in 1..Len(s) /\ k \in 1..Len(s)
        BY <2>5, <2>7, <2>14, <3>3 DEF Written
      <3> QED
        BY <3>0, <3>2, <3>3
    <2> QED
      BY <2>2, <2>3, <2>4, <2>5, <2>6, <2>12, <2>13, <2>14 DEF Written
  <1> QED
    BY <1>2, <1>3

\* The names that were written belong to the first b buckets.
From(acc, b) == \A i \in 1..Len(acc.out) : Bucket[acc.out[i].name] \in 1..b

\* A bucket after the buckets before it.
LEMMA WriteBucket ==
  ASSUME NEW acc, Written(acc), NEW b \in 1..NBuckets, From(acc, b - 1),
         NEW s, BucketOK(s, b)
  PROVE  Written(write_bucket(acc, s)) /\ From(write_bucket(acc, s), b)
  <1>0. /\ s \in Seq(Tuples) /\ Len(s) \in Nat /\ acc \in Accs
        /\ \A i \in 1..Len(s) : s[i] \in Tuples /\ Bucket[s[i].name] = b
        /\ \A i, k \in 1..Len(s) : s[i].name = s[k].name => i = k
    BY DEF BucketOK, Written
  <1>b. b \in Nat /\ b >= 1
    BY ImageAssumption DEF ImageAssumption
  <1>1. PICK F \in [0..Len(s) -> Accs] :
          /\ F[0] = [acc EXCEPT !.full = FALSE] /\ F[Len(s)] = write_bucket(acc, s)
          /\ \A n \in 1..Len(s) : F[n] = write_tuple(F[n - 1], s[n])
    BY <1>0, BucketTrace
  <1> DEFINE Old(a, n) == \A i \in 1..Len(a.out) :
               \/ Bucket[a.out[i].name] \in 1..b - 1
               \/ \E k \in 1..n : a.out[i].name = s[k].name
             T == {n \in 0..Len(s) : Written(F[n]) /\ Old(F[n], n)}
  <1>2. 0 \in T
    <2>1. PICK a : a = F[0]
      OBVIOUS
    <2>2. a \in Accs /\ a.out = acc.out /\ a.ptr = acc.ptr
      BY <1>0, <1>1, <2>1 DEF Accs
    <2>3. Written(a) /\ Old(a, 0)
      BY <2>2 DEF Written, From
    <2> QED
      BY <1>0, <2>1, <2>3
  <1>3. ASSUME NEW n \in 1..Len(s), n - 1 \in T
        PROVE  n \in T
    <2>0. n \in Nat /\ n \in 0..Len(s) /\ n - 1 \in 0..Len(s)
      BY <1>0
    <2>1. PICK a : a = F[n - 1]
      OBVIOUS
    <2>2. PICK e : e = s[n]
      OBVIOUS
    <2>3. Written(a) /\ Old(a, n - 1) /\ e \in Tuples /\ Bucket[e.name] = b
      BY <1>0, <1>3, <2>1, <2>2
    <2>4. \A i \in 1..Len(a.out) : a.out[i].name # e.name
      <3> SUFFICES ASSUME NEW i \in 1..Len(a.out), a.out[i].name = e.name
                   PROVE  FALSE
        OBVIOUS
      <3>1. Bucket[a.out[i].name] \in 1..b - 1 \/ \E k \in 1..n - 1 : a.out[i].name = s[k].name
        BY <2>3
      <3>2. ~(b \in 1..b - 1)
        BY <1>b
      <3>3. PICK k \in 1..n - 1 : e.name = s[k].name
        BY <2>3, <3>1, <3>2
      <3>4. k \in 1..Len(s) /\ k # n
        BY <1>0, <2>0
      <3> QED
        BY <1>0, <2>2, <3>3, <3>4
    <2>5. PICK c : c = write_tuple(a, e)
      OBVIOUS
    <2>6. Written(c) /\ c.out \in {a.out, Append(a.out, e)} /\ F[n] = c
      BY <1>1, <2>1, <2>2, <2>3, <2>4, <2>5, WriteTuple
    <2>7. ASSUME NEW i \in 1..Len(c.out)
          PROVE  \/ Bucket[c.out[i].name] \in 1..b - 1
                 \/ \E k \in 1..n : c.out[i].name = s[k].name
      <3>1. a.out \in Seq(Tuples) /\ Len(a.out) \in Nat
        BY <2>3 DEF Written, Accs
      <3>2. \/ i \in 1..Len(a.out) /\ c.out[i] = a.out[i]
            \/ c.out[i] = e
        <4>1. PICK o : o = a.out
          OBVIOUS
        <4>2. PICK w : w = c.out
          OBVIOUS
        <4>3. w = o \/ w = Append(o, e)
          BY <2>6, <4>1, <4>2
        <4>4. CASE w = Append(o, e)
          <5>1. /\ Len(w) = Len(o) + 1 /\ w[Len(o) + 1] = e
                /\ \A n2 \in 1..Len(o) : w[n2] = o[n2]
            BY <3>1, <4>1, <4>4
          <5>2. i \in 1..Len(o) \/ i = Len(o) + 1
            BY <3>1, <4>1, <4>2, <5>1
          <5> QED
            BY <4>1, <4>2, <5>1, <5>2
        <4> QED
          BY <4>1, <4>2, <4>3, <4>4
      <3>3. CASE c.out[i] = e
        <4>1. n \in 1..n
          BY <2>0
        <4> QED
          BY <2>2, <3>3, <4>1
      <3>4. CASE i \in 1..Len(a.out) /\ c.out[i] = a.out[i]
        <4>1. 1..n - 1 \subseteq 1..n
          BY <2>0
        <4> QED
          BY <2>3, <3>4, <4>1
      <3> QED
        BY <3>2, <3>3, <3>4
    <2> QED
      BY <2>0, <2>6, <2>7
  <1> HIDE DEF T
  <1>4. 0..Len(s) \subseteq T
    BY <1>0, <1>2, <1>3, UpTo
  <1>5. Len(s) \in 0..Len(s)
    BY <1>0
  <1>6. PICK a : a = write_bucket(acc, s)
    OBVIOUS
  <1>7. Written(a) /\ Old(a, Len(s))
    BY <1>1, <1>4, <1>5, <1>6 DEF T
  <1>8. From(a, b)
    <2> SUFFICES ASSUME NEW i \in 1..Len(a.out)
                 PROVE  Bucket[a.out[i].name] \in 1..b
      BY DEF From
    <2>1. CASE Bucket[a.out[i].name] \in 1..b - 1
      <3>1. 1..b - 1 \subseteq 1..b
        BY <1>b
      <3> QED
        BY <2>1, <3>1
    <2>2. CASE \E k \in 1..Len(s) : a.out[i].name = s[k].name
      <3>1. b \in 1..b
        BY <1>b
      <3> QED
        BY <1>0, <2>2, <3>1
    <2> QED
      BY <1>7, <2>1, <2>2
  <1> QED
    BY <1>6, <1>7, <1>8

\* The whole table.
LEMMA WriteTable ==
  ASSUME NEW t, TableOK(t)
  PROVE  Written(write_tuples(t))
  <1>0. NBuckets \in Nat /\ Len(t) = NBuckets
    BY TableIsSeq, ImageAssumption DEF ImageAssumption
  <1>1. PICK F \in [0..Len(t) -> Accs] :
          /\ F[0] = [ptr |-> HeaderSize, out |-> <<>>, full |-> FALSE]
          /\ F[Len(t)] = write_tuples(t)
          /\ \A n \in 1..Len(t) : F[n] = write_bucket(F[n - 1], t[n])
    BY TableTrace
  <1> DEFINE T == {n \in 0..NBuckets : Written(F[n]) /\ From(F[n], n)}
  <1>2. 0 \in T
    <2>1. PICK a : a = F[0]
      OBVIOUS
    <2>2. a \in Accs /\ a.out = <<>> /\ Len(a.out) = 0 /\ a.ptr = HeaderSize
      <3>1. 0 \in 0..Len(t)
        BY <1>0
      <3>2. a \in Accs
        BY <1>1, <2>1, <3>1
      <3> QED
        BY <1>1, <2>1, <3>2
    <2>3. UsedBytes([tuples |-> a.out]) = HeaderSize
      BY <2>2, UsedEmpty
    <2>4. HeaderSize <= DataEnd
      <3>1. Space \in Nat /\ Space % 4 = 0 /\ Space > 20
        BY ImageAssumption DEF ImageAssumption, HeaderSize
      <3>2. Space >= 22
        BY <3>1
      <3> QED
        BY <3>1, <3>2 DEF HeaderSize, DataEnd
    <2>5. Written(a) /\ From(a, 0)
      BY <2>2, <2>3, <2>4 DEF Written, From
    <2> QED
      BY <1>0, <2>1, <2>5
  <1>3. ASSUME NEW n \in 1..NBuckets, n - 1 \in T
        PROVE  n \in T
    <2>1. PICK a : a = F[n - 1]
      OBVIOUS
    <2>2. PICK s : s = t[n]
      OBVIOUS
    <2>3. Written(a) /\ From(a, n - 1) /\ BucketOK(s, n)
      BY <1>3, <2>1, <2>2 DEF TableOK
    <2>4. Written(write_bucket(a, s)) /\ From(write_bucket(a, s), n)
      BY <2>3, WriteBucket
    <2>5. F[n] = write_bucket(a, s) /\ n \in 0..NBuckets
      BY <1>0, <1>1, <2>1, <2>2
    <2> QED
      BY <2>4, <2>5
  <1> HIDE DEF T
  <1>4. 0..NBuckets \subseteq T
    BY <1>0, <1>2, <1>3, UpTo
  <1>5. NBuckets \in 0..NBuckets
    BY <1>0
  <1> QED
    BY <1>0, <1>1, <1>4, <1>5 DEF T

\* What an image keeps to.
ImageOK(img) ==
  /\ img \in [tuples : Seq(Tuples), len : Nat, sdram : [SdramNames -> Fields]]
  /\ UsedBytes(img) <= DataEnd /\ img.len <= Space
  /\ UniqueNames(img)

\* From every hash table nvram_commit() writes such an image, with the length
\* its tuples ask for.
THEOREM CommitWrites ==
  ASSUME NEW t, TableOK(t)
  PROVE  /\ ImageOK(nvram_commit(t))
         /\ nvram_commit(t).len = commit_len(UsedBytes(nvram_commit(t)))
  <1>1. PICK w : w = write_tuples(t)
    OBVIOUS
  <1>2. /\ w.out \in Seq(Tuples) /\ w.ptr \in Nat /\ w.ptr <= DataEnd
        /\ w.ptr = UsedBytes([tuples |-> w.out])
        /\ \A i, k \in 1..Len(w.out) : w.out[i].name = w.out[k].name => i = k
    BY <1>1, WriteTable DEF Written, Accs
  <1>3. commit_sdram(t) \in [SdramNames -> Fields]
    <2>1. Default \in [SdramNames -> Fields]
      BY ImageAssumption DEF ImageAssumption
    <2>2. CASE \E n \in SdramNames : nvram_get(t, n) = NoValue
      BY <2>1, <2>2 DEF commit_sdram
    <2>3. CASE ~\E n \in SdramNames : nvram_get(t, n) = NoValue
      <3>1. \A n \in SdramNames : nvram_get(t, n) \in Values
        BY <2>3, Lookup, SdramAre
      <3>2. \A n \in SdramNames : Num[nvram_get(t, n)] \in Fields
        BY <3>1 DEF Fields
      <3> QED
        BY <2>3, <3>2 DEF commit_sdram
    <2> QED
      BY <2>2, <2>3
  <1>4. PICK img : img = nvram_commit(t)
    OBVIOUS
  <1>5. img = [tuples |-> w.out, len |-> commit_len(w.ptr), sdram |-> commit_sdram(t)]
    BY <1>1, <1>4 DEF nvram_commit
  <1>6. commit_len(w.ptr) \in Nat /\ commit_len(w.ptr) <= Space
    BY <1>2, LenFits
  <1>7. img \in [tuples : Seq(Tuples), len : Nat, sdram : [SdramNames -> Fields]]
    BY <1>2, <1>3, <1>5, <1>6
  <1>8. UsedBytes(img) = w.ptr
    BY <1>2, <1>5 DEF UsedBytes
  <1>9. UniqueNames(img)
    BY <1>2, <1>5 DEF UniqueNames
  <1> QED
    BY <1>2, <1>4, <1>5, <1>6, <1>7, <1>8, <1>9 DEF ImageOK

\* The first tuples of such an image are one, whatever length it names.
LEMMA CutKeeps ==
  ASSUME NEW img, ImageOK(img), NEW k \in 0..Len(img.tuples)
  PROVE  ImageOK([img EXCEPT !.tuples = SubSeq(@, 1, k)])
  <1>1. PICK r : r = SubSeq(img.tuples, 1, k)
    OBVIOUS
  <1>2. /\ img.tuples \in Seq(Tuples) /\ Len(img.tuples) \in Nat
        /\ DOMAIN img.tuples = 1..Len(img.tuples)
    BY DEF ImageOK
  <1>3. /\ r \in Seq(Tuples) /\ Len(r) = k /\ DOMAIN r = 1..k
        /\ \A i \in 1..k : r[i] = img.tuples[i] /\ i \in 1..Len(img.tuples)
    BY <1>1, <1>2
  <1>4. PICK part : part = [img EXCEPT !.tuples = SubSeq(@, 1, k)]
    OBVIOUS
  <1>5. /\ part.tuples = r /\ part.len = img.len
        /\ part \in [tuples : Seq(Tuples), len : Nat, sdram : [SdramNames -> Fields]]
    BY <1>1, <1>3, <1>4 DEF ImageOK
  <1>6. UsedBytes(part) <= UsedBytes(img) /\ UsedBytes(part) \in Nat /\ UsedBytes(img) \in Nat
    <2>1. Len(part.tuples) <= Len(img.tuples)
      BY <1>2, <1>3, <1>5
    <2>2. \A i \in 1..Len(part.tuples) : part.tuples[i] = img.tuples[i]
      BY <1>3, <1>5
    <2> QED
      BY <1>2, <1>3, <1>5, <2>1, <2>2, UsedPrefix
  <1>7. UniqueNames(part)
    BY <1>2, <1>3, <1>5 DEF ImageOK, UniqueNames
  <1>8. UsedBytes(part) <= DataEnd
    BY <1>6, LengthsAre DEF ImageOK
  <1> QED
    BY <1>4, <1>5, <1>7, <1>8 DEF ImageOK
=============================================================================
