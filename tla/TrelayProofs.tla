----------------------------- MODULE TrelayProofs -----------------------------
(***************************************************************************)
(* Proofs about trelay, for any number of devices, relays, open files and  *)
(* requests: the relays stay intact, neither frames nor writes meet freed  *)
(* memory, and nothing is left when the module is gone.                    *)
(***************************************************************************)
EXTENDS Trelay, FiniteSetTheorems, SequenceTheorems, WellFoundedInduction, TLAPS

-----------------------------------------------------------------------------
(***************************************************************************)
(* The inductive invariant.                                                *)
(***************************************************************************)
Used      == {r \in Slots : mem[r] # None}
DevsOf(r) == {mem[r].dev1, mem[r].dev2}
Held(who) == rtnl # None /\ rtnl.who = who
NoneGoing == rtnl # None => rtnl.cur = None

\* The list is one, and the holder of the lock goes through a part of it.
ListInv ==
  /\ IsInjective(relays)
  /\ rtnl # None => IsInjective(rtnl.left) /\ Range(rtnl.left) \subseteq Range(relays)

\* What the holder of the lock is doing is what it took the lock for.
HolderInv ==
  rtnl # None =>
    /\ rtnl.cur # None <=> rtnl.pc \in {"debugfs", "sync1", "sync2"}
    /\ rtnl.cur # None => mem[rtnl.cur] # None
    /\ rtnl.who[1] = "add" <=> rtnl.pc \in {"dev2", "rollback", "stuck"}
    /\ \A q \in Requests : rtnl.who = <<"add", q>> =>
         q \in pending /\ dev[q.dev1] = "registered" /\ dev[q.dev2] = "registered"
    /\ \A f \in Fds : rtnl.who = <<"release", f>> => file[f].st = "release"

\* No device is in two relays, and none is its own peer.
DisjointInv ==
  /\ \A r, s \in Used : r # s => DevsOf(r) \cap DevsOf(s) = {}
  /\ \A r \in Used : mem[r].dev1 # mem[r].dev2

\* A relay has the handlers of its devices until its removal takes them away,
\* one after the other; trelay has no others but that of an add under way.
HandlerInv ==
  /\ \A r \in Used :
       /\ handler[mem[r].dev1] =
            IF (At("sync1") \/ At("sync2")) /\ rtnl.cur = r
            THEN None ELSE mem[r].dev2
       /\ handler[mem[r].dev2] =
            IF At("sync2") /\ rtnl.cur = r THEN None ELSE mem[r].dev1
  /\ \A d \in Devs : handler[d] \in Devs =>
       \/ \E r \in Used : d \in DevsOf(r)
       \/ \E q \in Requests : Held(<<"add", q>>) /\ At("dev2") /\ d = q.dev1
  /\ \A q \in Requests : Held(<<"add", q>>) /\ At("dev2") =>
       /\ handler[q.dev1] = q.dev2
       /\ \A r \in Used : q.dev1 \notin DevsOf(r)

\* A relay refers to its devices until its removal drops the references.
RefInv ==
  \A d \in Devs :
    ref[d] = IF \E r \in Used : /\ d \in DevsOf(r)
                                /\ ~((At("sync1") \/ At("sync2")) /\ rtnl.cur = r)
             THEN 1 ELSE 0

\* The devices of a relay are there; one of them is leaving only while the
\* holder of the lock has its relay still to remove.
DeviceInv ==
  /\ \A r \in Used : \A d \in DevsOf(r) : dev[d] \in {"registered", "leaving"}
  /\ \A d \in Devs : dev[d] = "leaving" => Held(<<"unregister", d>>)
  /\ \A d \in Devs : Held(<<"unregister", d>>) =>
       \A r \in Range(relays) : d \in DevsOf(r) => r \in Range(rtnl.left)

\* A frame on its way belongs to a relay whose removal has not waited for it
\* yet, or to an add under way.
FrameInv ==
  \A m \in frames :
    \/ \E r \in Used : /\ \/ m = <<mem[r].dev1, mem[r].dev2>>
                          \/ m = <<mem[r].dev2, mem[r].dev1>>
                       /\ At("sync2") /\ rtnl.cur = r => m[1] # mem[r].dev1
    \/ \E q \in Requests : Held(<<"add", q>>) /\ m = <<q.dev1, q.dev2>>

\* Files that can be written to belong to a relay in the list, writes under
\* way to one that is not freed yet, and a mark to a file that is open and
\* whose release, if it has begun, has the relay still to look at.
FileInv ==
  /\ \A f \in Fds : file[f].live => file[f].priv \in Range(relays)
  /\ \A f \in Fds : file[f].st = "writing" =>
       \/ file[f].priv \in Range(relays)
       \/ At("debugfs") /\ file[f].priv = rtnl.cur
  /\ \A r \in Range(relays) : mem[r].to_remove =>
       \E f \in Fds :
         /\ file[f].priv = r /\ file[f].st # "closed"
         /\ Held(<<"release", f>>) => r \in Range(rtnl.left)

\* A module that goes has no users; the notifier removes every relay.
ModuleInv ==
  /\ module # "live" => pending = {} /\ \A f \in Fds : file[f].st = "closed"
  /\ module = "out" => relays = <<>> /\ NoneGoing
  /\ module = "going" =>
       \/ relays = <<>> /\ NoneGoing
       \/ Held(<<"notifier">>) /\ Range(relays) \subseteq Range(rtnl.left)
  /\ Held(<<"notifier">>) \/ Held(<<"exit">>) => module = "going"

TrelayInv ==
  /\ TypeOK
  /\ ListInv
  /\ HolderInv
  /\ DisjointInv
  /\ HandlerInv
  /\ RefInv
  /\ DeviceInv
  /\ FrameInv
  /\ FileInv
  /\ ModuleInv

-----------------------------------------------------------------------------
(***************************************************************************)
(* Lists.                                                                  *)
(***************************************************************************)

\* What a sequence is made of.
LEMMA InRange ==
  ASSUME NEW S, NEW s \in Seq(S)
  PROVE  /\ DOMAIN s = 1..Len(s) /\ Len(s) \in Nat
         /\ Range(s) \subseteq S
         /\ \A i \in 1..Len(s) : s[i] \in Range(s)
         /\ \A r \in Range(s) : \E i \in 1..Len(s) : s[i] = r
         /\ s = <<>> <=> Range(s) = {}
         /\ s = <<>> <=> Len(s) = 0
  <1>1. DOMAIN s = 1..Len(s) /\ Len(s) \in Nat
    OBVIOUS
  <1>2. s = <<>> <=> Len(s) = 0
    OBVIOUS
  <1>3. Range(s) = {s[i] : i \in 1..Len(s)}
    BY <1>1 DEF Range
  <1>4. \A i \in 1..Len(s) : s[i] \in S
    OBVIOUS
  <1>5. Len(s) # 0 => 1 \in 1..Len(s)
    BY <1>1
  <1>6. s = <<>> <=> Range(s) = {}
    BY <1>1, <1>2, <1>3, <1>5
  <1> QED
    BY <1>1, <1>2, <1>3, <1>4, <1>6

\* The next of a list, and the rest of it.
LEMMA HeadTail ==
  ASSUME NEW S, NEW s \in Seq(S), IsInjective(s), s # <<>>
  PROVE  /\ Head(s) \in Range(s) /\ Head(s) \in S
         /\ Tail(s) \in Seq(S) /\ IsInjective(Tail(s))
         /\ Range(Tail(s)) = Range(s) \ {Head(s)}
  <1>1. /\ DOMAIN s = 1..Len(s) /\ Len(s) \in Nat /\ Len(s) # 0
        /\ Range(s) \subseteq S
    BY InRange
  <1>2. /\ Head(s) = s[1] /\ 1 \in 1..Len(s)
        /\ Tail(s) \in Seq(S) /\ Len(Tail(s)) = Len(s) - 1
        /\ DOMAIN Tail(s) = 1..Len(s) - 1
        /\ \A i \in 1..Len(s) - 1 : Tail(s)[i] = s[i + 1] /\ i + 1 \in 1..Len(s)
    BY <1>1
  <1>3. \A i, j \in 1..Len(s) : s[i] = s[j] => i = j
    BY <1>1 DEF IsInjective
  <1>4. IsInjective(Tail(s))
    <2> SUFFICES ASSUME NEW i \in 1..Len(s) - 1, NEW j \in 1..Len(s) - 1,
                        Tail(s)[i] = Tail(s)[j]
                 PROVE  i = j
      BY <1>2 DEF IsInjective
    <2>1. i + 1 = j + 1
      BY <1>2, <1>3
    <2> QED
      BY <2>1
  <1>5. ASSUME NEW r \in Range(Tail(s))
        PROVE  r \in Range(s) /\ r # Head(s)
    <2>1. PICK i \in 1..Len(s) - 1 : r = Tail(s)[i]
      BY <1>2 DEF Range
    <2>2. r = s[i + 1] /\ i + 1 \in 1..Len(s) /\ i + 1 # 1
      BY <1>2, <2>1
    <2> QED
      BY <1>1, <1>2, <1>3, <2>2 DEF Range
  <1>6. ASSUME NEW r \in Range(s), r # Head(s)
        PROVE  r \in Range(Tail(s))
    <2>1. PICK i \in 1..Len(s) : r = s[i]
      BY <1>1 DEF Range
    <2>2. i - 1 \in 1..Len(s) - 1 /\ (i - 1) + 1 = i
      BY <1>1, <1>2, <1>6, <2>1
    <2>3. Tail(s)[i - 1] = r
      BY <1>2, <2>1, <2>2
    <2> QED
      BY <1>2, <2>2, <2>3 DEF Range
  <1> QED
    BY <1>1, <1>2, <1>4, <1>5, <1>6 DEF Range

\* list_add_tail.
LEMMA AddTail ==
  ASSUME NEW S, NEW s \in Seq(S), IsInjective(s), NEW r \in S, r \notin Range(s)
  PROVE  /\ Append(s, r) \in Seq(S) /\ IsInjective(Append(s, r))
         /\ Range(Append(s, r)) = Range(s) \cup {r}
  <1> DEFINE t == Append(s, r)
  <1>1. /\ DOMAIN s = 1..Len(s) /\ Len(s) \in Nat
        /\ \A i \in 1..Len(s) : s[i] \in Range(s)
    BY InRange
  <1>2. /\ t \in Seq(S) /\ DOMAIN t = 1..Len(s) + 1
        /\ \A i \in 1..Len(s) : t[i] = s[i]
        /\ t[Len(s) + 1] = r
    BY <1>1
  <1> HIDE DEF t
  <1>3. \A i \in 1..Len(s) + 1 : i \in 1..Len(s) \/ i = Len(s) + 1
    BY <1>1
  <1>4. IsInjective(t)
    BY <1>1, <1>2, <1>3 DEF IsInjective
  <1>5. Range(t) = Range(s) \cup {r}
    <2>1. Range(t) \subseteq Range(s) \cup {r}
      BY <1>1, <1>2, <1>3 DEF Range
    <2>2. \A i \in 1..Len(s) : i \in 1..Len(s) + 1
      BY <1>1
    <2>3. Len(s) + 1 \in 1..Len(s) + 1
      BY <1>1
    <2> QED
      BY <1>1, <1>2, <2>1, <2>2, <2>3 DEF Range
  <1> QED
    BY <1>2, <1>4, <1>5 DEF t

\* A set of positions that is not empty has a first one.
LEMMA FirstPosition ==
  ASSUME NEW n \in Nat, NEW I \in SUBSET (1..n), I # {}
  PROVE  Min(I) \in I /\ \A j \in I : Min(I) <= j
  <1>1. \E i \in I : \A j \in I : i <= j
    <2>1. I \subseteq Nat
      OBVIOUS
    <2>2. PICK i \in I : \A j \in I : ~(<<j, i>> \in OpToRel(<, Nat))
      BY <2>1, NatLessThanWellFounded, WFMin
    <2>3. \A j \in Nat : <<j, i>> \in OpToRel(<, Nat) <=> j < i
      BY <2>1 DEF OpToRel
    <2>4. ASSUME NEW j \in I
          PROVE  i <= j
      <3>1. ~(j < i) /\ i \in Nat /\ j \in Nat
        BY <2>1, <2>2, <2>3
      <3> QED
        BY <3>1
    <2> QED
      BY <2>4
  <1> QED
    BY <1>1 DEF Min

\* list_del.
LEMMA ListDel ==
  ASSUME NEW S, NEW s \in Seq(S), IsInjective(s), NEW r \in Range(s)
  PROVE  /\ RemoveFirst(s, r) \in Seq(S) /\ IsInjective(RemoveFirst(s, r))
         /\ Range(RemoveFirst(s, r)) = Range(s) \ {r}
  <1>1. /\ DOMAIN s = 1..Len(s) /\ Len(s) \in Nat
        /\ \A i \in 1..Len(s) : s[i] \in Range(s)
        /\ \E i \in 1..Len(s) : s[i] = r
    BY InRange
  <1> DEFINE I == {i \in 1..Len(s) : s[i] = r}
             k == Min(I)
             t == SubSeq(s, 1, k - 1) \o SubSeq(s, k + 1, Len(s))
  <1>2. k \in 1..Len(s) /\ s[k] = r
    <2>1. I \in SUBSET (1..Len(s)) /\ I # {}
      BY <1>1
    <2>2. Min(I) \in I
      BY <1>1, <2>1, FirstPosition
    <2> QED
      BY <2>2
  <1>3. RemoveFirst(s, r) = t
    BY <1>1 DEF RemoveFirst, RemoveAt, SelectInSeq
  <1> HIDE DEF k
  <1>4. /\ t \in Seq(S) /\ DOMAIN t = 1..Len(s) - 1
        /\ \A i \in 1..Len(s) - 1 : t[i] = IF i < k THEN s[i] ELSE s[i + 1]
    <2> DEFINE a == SubSeq(s, 1, k - 1)
               b == SubSeq(s, k + 1, Len(s))
    <2>k. k \in Nat /\ 1 <= k /\ k <= Len(s)
      BY <1>1, <1>2
    <2>1. /\ a \in Seq(S) /\ Len(a) = k - 1
          /\ \A i \in 1..k - 1 : a[i] = s[i]
      <3>1. /\ \A i \in 1..k - 1 : s[i] \in S
            /\ (k - 1) - 1 + 1 = k - 1 /\ k - 1 \in Int
        BY <1>1, <2>k
      <3>2. /\ a \in Seq(S)
            /\ Len(a) = IF 1 <= k - 1 THEN (k - 1) - 1 + 1 ELSE 0
            /\ \A i \in 1..(k - 1) - 1 + 1 : a[i] = s[1 + i - 1]
        BY <3>1, SubSeqProperties
      <3> QED
        BY <2>k, <3>1, <3>2
    <2>2. /\ b \in Seq(S) /\ Len(b) = Len(s) - k
          /\ \A i \in 1..Len(s) - k : b[i] = s[k + i]
      <3>1. /\ \A i \in k + 1..Len(s) : s[i] \in S
            /\ Len(s) - (k + 1) + 1 = Len(s) - k /\ k + 1 \in Int
            /\ Len(s) \in Int
        BY <1>1, <2>k
      <3>2. /\ b \in Seq(S)
            /\ Len(b) = IF k + 1 <= Len(s) THEN Len(s) - (k + 1) + 1 ELSE 0
            /\ \A i \in 1..Len(s) - (k + 1) + 1 : b[i] = s[(k + 1) + i - 1]
        BY <3>1, SubSeqProperties
      <3> HIDE DEF b
      <3>3. ASSUME NEW i \in 1..Len(s) - k
            PROVE  b[i] = s[k + i]
        <4>1. (k + 1) + i - 1 = k + i
          BY <1>1, <2>k
        <4>2. b[i] = s[(k + 1) + i - 1]
          BY <3>1, <3>2
        <4> QED
          BY <4>1, <4>2
      <3>4. Len(b) = Len(s) - k
        <4>1. CASE k + 1 <= Len(s)
          BY <3>1, <3>2, <4>1
        <4>2. CASE k = Len(s)
          BY <1>1, <2>k, <3>2, <4>2
        <4>3. k + 1 <= Len(s) \/ k = Len(s)
          <5>1. Len(s) \in Nat
            BY <1>1
          <5> QED
            BY <2>k, <5>1
        <4> QED
          BY <4>1, <4>2, <4>3
      <3> QED
        BY <3>2, <3>3, <3>4
    <2> HIDE DEF a, b
    <2>3. /\ t \in Seq(S) /\ Len(t) = Len(a) + Len(b)
          /\ \A i \in 1..Len(a) + Len(b) :
               t[i] = IF i <= Len(a) THEN a[i] ELSE b[i - Len(a)]
      BY <2>1, <2>2, ConcatProperties DEF a, b
    <2> HIDE DEF t
    <2>4. ASSUME NEW i \in 1..Len(s) - 1
          PROVE  t[i] = IF i < k THEN s[i] ELSE s[i + 1]
      <3>1. CASE i < k
        <4>1. i \in 1..k - 1 /\ i <= Len(a) /\ i \in 1..Len(a) + Len(b)
          BY <1>1, <2>k, <2>1, <2>2, <3>1
        <4> QED
          BY <2>1, <2>3, <3>1, <4>1
      <3>2. CASE ~(i < k)
        <4>1. /\ i - Len(a) \in 1..Len(s) - k /\ k + (i - Len(a)) = i + 1
              /\ ~(i <= Len(a)) /\ i \in 1..Len(a) + Len(b)
          BY <1>1, <2>k, <2>1, <2>2, <3>2
        <4> QED
          BY <2>2, <2>3, <3>2, <4>1
      <3> QED
        BY <3>1, <3>2
    <2>5. Len(t) = Len(s) - 1
      BY <1>1, <2>k, <2>1, <2>2, <2>3
    <2> QED
      BY <2>3, <2>4, <2>5
  <1> HIDE DEF t
  <1>5. \A i, j \in 1..Len(s) : s[i] = s[j] => i = j
    BY <1>1 DEF IsInjective
  <1>6. IsInjective(t)
    <2> SUFFICES ASSUME NEW i \in 1..Len(s) - 1, NEW j \in 1..Len(s) - 1,
                        t[i] = t[j]
                 PROVE  i = j
      BY <1>4 DEF IsInjective
    <2>1. /\ i \in 1..Len(s) /\ i + 1 \in 1..Len(s)
          /\ j \in 1..Len(s) /\ j + 1 \in 1..Len(s)
      BY <1>1
    <2>2. (IF i < k THEN i ELSE i + 1) = (IF j < k THEN j ELSE j + 1)
      BY <1>4, <1>5, <2>1
    <2> QED
      BY <1>2, <2>1, <2>2
  <1>7. Range(t) = Range(s) \ {r}
    <2>1. ASSUME NEW e \in Range(t)
          PROVE  e \in Range(s) \ {r}
      <3>1. PICK i \in 1..Len(s) - 1 : e = t[i]
        BY <1>4 DEF Range
      <3>2. PICK j \in 1..Len(s) : j # k /\ e = s[j]
        <4>1. CASE i < k
          BY <1>1, <1>2, <1>4, <3>1, <4>1
        <4>2. CASE ~(i < k)
          <5>1. i + 1 \in 1..Len(s) /\ i + 1 # k
            BY <1>1, <1>2, <4>2
          <5> QED
            BY <1>4, <3>1, <4>2, <5>1
        <4> QED
          BY <4>1, <4>2
      <3> QED
        BY <1>1, <1>2, <1>5, <3>2
    <2>2. ASSUME NEW e \in Range(s), e # r
          PROVE  e \in Range(t)
      <3>1. PICK j \in 1..Len(s) : e = s[j]
        BY <1>1 DEF Range
      <3>2. j # k
        BY <1>2, <2>2, <3>1
      <3>3. CASE j < k
        <4>1. j \in 1..Len(s) - 1
          BY <1>1, <1>2, <3>3
        <4> QED
          BY <1>4, <3>1, <3>3, <4>1 DEF Range
      <3>4. CASE j > k
        <4>1. j - 1 \in 1..Len(s) - 1 /\ ~(j - 1 < k) /\ (j - 1) + 1 = j
          BY <1>1, <1>2, <3>4
        <4>2. t[j - 1] = e
          BY <1>4, <3>1, <4>1
        <4> QED
          BY <1>4, <4>1, <4>2 DEF Range
      <3> QED
        BY <1>2, <3>2, <3>3, <3>4
    <2> QED
      BY <2>1, <2>2
  <1> QED
    BY <1>3, <1>4, <1>6, <1>7

\* trelay_find returns a relay the device is in, if there is one.
LEMMA Finds ==
  ASSUME relays \in Seq(Slots), NEW d \in Devs
  PROVE  \/ /\ trelay_find(d) = <<>>
            /\ \A r \in Range(relays) : d \notin DevsOf(r)
         \/ \E r \in Range(relays) : trelay_find(d) = <<r>> /\ d \in DevsOf(r)
  <1>1. /\ Len(relays) \in Nat
        /\ \A i \in 1..Len(relays) : relays[i] \in Range(relays)
        /\ \A r \in Range(relays) : \E i \in 1..Len(relays) : relays[i] = r
    BY InRange
  <1> DEFINE I == {i \in 1..Len(relays) :
                     d \in {mem[relays[i]].dev1, mem[relays[i]].dev2}}
             k == IF I # {} THEN Min(I) ELSE 0
  <1>2. trelay_find(d) = IF k = 0 THEN <<>> ELSE <<relays[k]>>
    BY DEF trelay_find, SelectInSeq
  <1>3. CASE I = {}
    BY <1>1, <1>2, <1>3 DEF DevsOf
  <1>4. CASE I # {}
    <2>1. Min(I) \in I
      BY <1>1, <1>4, FirstPosition
    <2>2. k \in 1..Len(relays) /\ d \in DevsOf(relays[k]) /\ k # 0
      <3>1. k \in I
        BY <1>4, <2>1
      <3> HIDE DEF k
      <3>2. /\ k \in 1..Len(relays)
            /\ d \in {mem[relays[k]].dev1, mem[relays[k]].dev2}
        BY <3>1
      <3> QED
        BY <3>2 DEF DevsOf
    <2> HIDE DEF k
    <2> QED
      BY <1>1, <1>2, <2>2
  <1> QED
    BY <1>3, <1>4

-----------------------------------------------------------------------------
(***************************************************************************)
(* What the types say.                                                     *)
(***************************************************************************)

\* The structures in use, the list, and the holder of the lock.
LEMMA TypeFacts ==
  ASSUME TypeOK
  PROVE  /\ \A r \in Used : /\ r \in Slots /\ mem[r] \in Relay
                            /\ mem[r].dev1 \in Devs /\ mem[r].dev2 \in Devs
         /\ Range(relays) \subseteq Used
         /\ NoneGoing => Range(relays) = Used
         /\ rtnl # None => rtnl \in Section /\ Range(relays) = Used \ {rtnl.cur}
         /\ None \notin Devs /\ None \notin Slots /\ Bridge \notin Devs
         /\ None \notin Relay /\ None \notin Section
  <1>1. /\ None \notin Devs /\ None \notin Slots /\ Bridge \notin Devs
        /\ None \notin Relay /\ None \notin Section
    BY TrelayAssumption DEF TrelayAssumption
  <1>2. \A r \in Used : r \in Slots /\ mem[r] \in Relay
    BY DEF TypeOK, Used
  <1>3. \A t \in Relay : t.dev1 \in Devs /\ t.dev2 \in Devs
    BY DEF Relay
  <1>4. rtnl # None => rtnl \in Section /\ Range(relays) = Used \ {rtnl.cur}
    BY DEF TypeOK, Used
  <1>5. rtnl = None => Range(relays) = Used
    BY DEF TypeOK, Used
  <1>6. NoneGoing => Range(relays) = Used
    BY <1>1, <1>2, <1>4, <1>5 DEF NoneGoing
  <1> QED
    BY <1>1, <1>2, <1>3, <1>4, <1>5, <1>6

\* The lock with its four fields.
LEMMA SectionFields ==
  ASSUME NEW x \in Section
  PROVE  /\ x.who \in Holders /\ x.left \in Seq(Slots)
         /\ x.cur \in Slots \cup {None}
         /\ x.pc \in {"next", "debugfs", "sync1", "sync2", "dev2", "rollback",
                      "stuck"}
  BY DEF Section

\* Taking the lock makes somebody its holder.
LEMMA Locked ==
  ASSUME NEW who \in Holders, NEW left \in Seq(Slots),
         NEW pc \in {"next", "dev2"}, Lock(who, pc, left)
  PROVE  /\ rtnl = None /\ rtnl' # None /\ rtnl' \in Section
         /\ rtnl'.who = who /\ rtnl'.pc = pc /\ rtnl'.left = left
         /\ rtnl'.cur = None
  <1>1. rtnl' = [who |-> who, pc |-> pc, left |-> left, cur |-> None]
    BY DEF Lock
  <1>2. rtnl' \in Section
    BY <1>1 DEF Section
  <1> QED
    BY <1>1, <1>2, TrelayAssumption DEF Lock, TrelayAssumption

-----------------------------------------------------------------------------
(***************************************************************************)
(* Init, and the steps that need no lock.                                  *)
(***************************************************************************)

\* The initial state satisfies the invariant.
LEMMA TrelayInit == Init => TrelayInv
  <1> SUFFICES ASSUME Init
               PROVE  TrelayInv
    OBVIOUS
  <1>1. /\ \A d \in Devs : dev[d] = "registered" /\ ref[d] = 0 /\ handler[d] = None
        /\ \A r \in Slots : mem[r] = None
        /\ \A f \in Fds : file[f] = closed
        /\ frames = {} /\ relays = <<>> /\ pending = {} /\ rtnl = None
        /\ module = "live"
    BY DEF Init
  <1>2. Used = {} /\ Range(relays) = {} /\ IsInjective(relays)
    BY <1>1 DEF Used, Range, IsInjective
  <1>3. TypeOK
    <2>1. file \in [Fds -> [st : {"closed", "open", "writing", "release"},
                            priv : Slots \cup {None}, live : BOOLEAN]]
      BY DEF Init, closed
    <2>2. relays \in Seq(Slots) /\ mem \in [Slots -> Relay \cup {None}]
      BY DEF Init
    <2> QED
      BY <1>1, <1>2, <2>1, <2>2 DEF Init, TypeOK, Used
  <1>4. None \notin Devs
    BY TrelayAssumption DEF TrelayAssumption
  <1> QED
    BY <1>1, <1>2, <1>3, <1>4
    DEF TrelayInv, ListInv, HolderInv, DisjointInv, HandlerInv, RefInv, DeviceInv,
        FrameInv, FileInv, ModuleInv, Held, At, closed, NoneGoing

\* A frame comes in, for the peer that a relay or an add under way has given
\* its device.
LEMMA FrameIn ==
  ASSUME TrelayInv, NEW d \in Devs, handle_frame(d)
  PROVE  TrelayInv'
  <1>1. /\ UNCHANGED <<dev, ref, handler, relays, mem, file, pending, rtnl, module>>
        /\ handler[d] \in Devs
        /\ frames' = frames \cup {<<d, handler[d]>>}
    BY DEF handle_frame
  <1>2. TypeOK'
    BY <1>1 DEF TrelayInv, TypeOK
  <1>3. /\ ListInv' /\ HolderInv' /\ DisjointInv' /\ HandlerInv' /\ RefInv'
        /\ DeviceInv' /\ FileInv' /\ ModuleInv'
    BY <1>1 DEF TrelayInv, ListInv, HolderInv, DisjointInv, HandlerInv, RefInv,
      DeviceInv, FileInv, ModuleInv, Used, DevsOf, Held, At, NoneGoing
  <1>4. FrameInv'
    <2> DEFINE m == <<d, handler[d]>>
    <2>1. \/ \E r \in Used :
               /\ m = <<mem[r].dev1, mem[r].dev2>> \/ m = <<mem[r].dev2, mem[r].dev1>>
               /\ At("sync2") /\ rtnl.cur = r => d # mem[r].dev1
          \/ \E q \in Requests : Held(<<"add", q>>) /\ m = <<q.dev1, q.dev2>>
      <3>1. CASE \E r \in Used : d \in DevsOf(r)
        <4>1. PICK r \in Used : d \in DevsOf(r)
          BY <3>1
        <4>2. /\ handler[mem[r].dev1] # None => handler[mem[r].dev1] = mem[r].dev2
              /\ handler[mem[r].dev2] # None => handler[mem[r].dev2] = mem[r].dev1
              /\ At("sync2") /\ rtnl.cur = r => handler[mem[r].dev1] = None
          BY <4>1 DEF TrelayInv, HandlerInv
        <4>3. handler[d] # None
          BY <1>1, TypeFacts DEF TrelayInv
        <4> QED
          BY <4>1, <4>2, <4>3 DEF DevsOf
      <3>2. CASE \E q \in Requests : Held(<<"add", q>>) /\ At("dev2") /\ d = q.dev1
        BY <3>2 DEF TrelayInv, HandlerInv
      <3> QED
        BY <1>1, <3>1, <3>2 DEF TrelayInv, HandlerInv
    <2>2. m[1] = d
      OBVIOUS
    <2> HIDE DEF m
    <2> QED
      BY <1>1, <2>1, <2>2 DEF TrelayInv, FrameInv, Used, Held, At, m
  <1> QED
    BY <1>2, <1>3, <1>4 DEF TrelayInv

\* A frame goes out.
LEMMA FrameOut ==
  ASSUME TrelayInv, NEW m \in frames, dev_queue_xmit(m)
  PROVE  TrelayInv'
  <1>1. /\ UNCHANGED <<dev, ref, handler, relays, mem, file, pending, rtnl, module>>
        /\ frames' \subseteq frames
    BY DEF dev_queue_xmit
  <1>2. TypeOK'
    BY <1>1 DEF TrelayInv, TypeOK
  <1> QED
    BY <1>1, <1>2 DEF TrelayInv, ListInv, HolderInv, DisjointInv, HandlerInv,
      RefInv, DeviceInv, FrameInv, FileInv, ModuleInv, Used, DevsOf, Held, At,
      NoneGoing

\* A device is freed that waits for nothing, is registered anew, or becomes or
\* ceases to be a port of a bridge: no device of a relay.
LEMMA DeviceStep ==
  ASSUME TrelayInv, NEW d \in Devs,
         free_netdev(d) \/ register_netdevice(d) \/ bridge_port(d)
  PROVE  TrelayInv'
  <1>1. UNCHANGED <<ref, frames, relays, mem, file, pending, rtnl, module>>
    BY DEF free_netdev, register_netdevice, bridge_port
  <1>2. /\ dev' \in [Devs -> {"registered", "leaving", "todo", "gone"}]
        /\ handler' \in [Devs -> Devs \cup {None, Bridge}]
        /\ \A e \in Devs : /\ dev'[e] # dev[e] =>
                                dev[e] \in {"todo", "gone"} /\ dev'[e] # "leaving"
                           /\ handler'[e] # handler[e] =>
                                /\ handler[e] \notin Devs /\ handler'[e] \notin Devs
                                /\ rtnl = None
    BY TypeFacts DEF free_netdev, register_netdevice, bridge_port, TrelayInv, TypeOK
  <1>3. TypeOK'
    BY <1>1, <1>2 DEF TrelayInv, TypeOK
  <1>4. /\ ListInv' /\ DisjointInv' /\ RefInv' /\ FrameInv' /\ FileInv' /\ ModuleInv'
    BY <1>1 DEF TrelayInv, ListInv, DisjointInv, RefInv, FrameInv, FileInv, ModuleInv,
      Used, DevsOf, Held, At, NoneGoing
  <1>5. HolderInv'
    <2>1. \A q \in Requests : q.dev1 \in Devs /\ q.dev2 \in Devs
      BY TrelayAssumption DEF TrelayAssumption
    <2> QED
      BY <1>1, <1>2, <2>1 DEF TrelayInv, HolderInv
  <1>6. DeviceInv'
    <2>1. \A r \in Used : DevsOf(r) \subseteq Devs
      BY TypeFacts DEF TrelayInv, DevsOf
    <2> QED
      BY <1>1, <1>2, <2>1 DEF TrelayInv, DeviceInv, Used, DevsOf, Held
  <1>7. HandlerInv'
    <2>1. \A r \in Used : mem[r].dev1 \in Devs /\ mem[r].dev2 \in Devs
      BY TypeFacts DEF TrelayInv
    <2>2. CASE rtnl = None
      <3>1. \A r \in Used : /\ handler[mem[r].dev1] = mem[r].dev2
                            /\ handler[mem[r].dev2] = mem[r].dev1
        BY <2>2 DEF TrelayInv, HandlerInv, At
      <3>2. \A r \in Used : /\ handler'[mem[r].dev1] = mem[r].dev2
                            /\ handler'[mem[r].dev2] = mem[r].dev1
        BY <1>2, <2>1, <3>1
      <3> QED
        BY <1>1, <1>2, <2>2, <3>2 DEF TrelayInv, HandlerInv, At, Held, Used, DevsOf
    <2>3. CASE rtnl # None
      <3>1. handler' = handler
        BY <1>2, <2>3 DEF TrelayInv, TypeOK
      <3> QED
        BY <1>1, <3>1 DEF TrelayInv, HandlerInv, At, Held, Used, DevsOf
    <2> QED
      BY <2>2, <2>3
  <1> QED
    BY <1>3, <1>4, <1>5, <1>6, <1>7 DEF TrelayInv

\* The module is loaded again.
LEMMA Loaded ==
  ASSUME TrelayInv, trelay_init
  PROVE  TrelayInv'
  <1>1. /\ UNCHANGED <<dev, ref, handler, frames, relays, mem, file, pending, rtnl>>
        /\ module = "out" /\ module' = "live"
    BY DEF trelay_init
  <1>2. TypeOK'
    BY <1>1 DEF TrelayInv, TypeOK
  <1> QED
    BY <1>1, <1>2 DEF TrelayInv, ListInv, HolderInv, DisjointInv, HandlerInv,
      RefInv, DeviceInv, FrameInv, FileInv, ModuleInv, Used, DevsOf, Held, At,
      NoneGoing

\* Somebody writes to the file "add", or the request is refused at once.
LEMMA AddAsked ==
  ASSUME TrelayInv, NEW q \in Requests, trelay_add_write(q) \/ add_refused(q)
  PROVE  TrelayInv'
  <1>1. /\ UNCHANGED <<dev, ref, handler, frames, relays, mem, file, rtnl, module>>
        /\ \/ pending' = pending \cup {q} /\ module = "live"
           \/ pending' = pending \ {q} /\ rtnl = None
    BY DEF trelay_add_write, add_refused
  <1>2. TypeOK'
    BY <1>1 DEF TrelayInv, TypeOK
  <1> QED
    BY <1>1, <1>2 DEF TrelayInv, ListInv, HolderInv, DisjointInv, HandlerInv,
      RefInv, DeviceInv, FrameInv, FileInv, ModuleInv, Used, DevsOf, Held, At,
      NoneGoing

\* A "remove" file is opened, used, or closed: no file that is being released.
LEMMA FileStep ==
  ASSUME TrelayInv, NEW f \in Fds,
         \/ \E r \in Slots : trelay_open(f, r)
         \/ debugfs_file_get(f)
         \/ close(f)
  PROVE  TrelayInv'
  <1>1. UNCHANGED <<dev, ref, handler, frames, relays, mem, pending, rtnl, module>>
    BY DEF trelay_open, debugfs_file_get, close
  <1> DEFINE g == file'[f]
  <1>2. /\ file' = [file EXCEPT ![f] = g]
        /\ g \in [st : {"closed", "open", "writing", "release"},
                  priv : Slots \cup {None}, live : BOOLEAN]
        /\ g.live => g.priv \in Range(relays)
        /\ g.st = "writing" => g.priv \in Range(relays)
        /\ g.st # "closed" /\ file[f].st # "release"
        /\ file[f].st # "closed" => g.priv = file[f].priv
        /\ file[f].st = "closed" => module = "live"
    <2>1. /\ file \in [Fds -> [st : {"closed", "open", "writing", "release"},
                               priv : Slots \cup {None}, live : BOOLEAN]]
          /\ file[f].live => file[f].priv \in Range(relays)
      BY DEF TrelayInv, TypeOK, FileInv
    <2>2. CASE \E r \in Slots : trelay_open(f, r)
      BY <2>1, <2>2 DEF trelay_open
    <2>3. CASE debugfs_file_get(f)
      BY <2>1, <2>3 DEF debugfs_file_get
    <2>4. CASE close(f)
      BY <2>1, <2>4 DEF close
    <2> QED
      BY <2>2, <2>3, <2>4
  <1> HIDE DEF g
  <1>3. \A h \in Fds : file'[h] = IF h = f THEN g ELSE file[h]
    BY <1>2 DEF TrelayInv, TypeOK
  <1>4. TypeOK'
    BY <1>1, <1>2 DEF TrelayInv, TypeOK
  <1>5. /\ ListInv' /\ DisjointInv' /\ HandlerInv' /\ RefInv' /\ DeviceInv' /\ FrameInv'
    BY <1>1 DEF TrelayInv, ListInv, DisjointInv, HandlerInv, RefInv, DeviceInv,
      FrameInv, Used, DevsOf, Held, At
  <1>6. HolderInv'
    BY <1>1, <1>2, <1>3 DEF TrelayInv, HolderInv
  <1>7. FileInv'
    <2>1. \A h \in Fds : /\ file'[h].live => file'[h].priv \in Range(relays)
                         /\ file'[h].st = "writing" =>
                              \/ file'[h].priv \in Range(relays)
                              \/ At("debugfs") /\ file'[h].priv = rtnl.cur
      BY <1>2, <1>3 DEF TrelayInv, FileInv
    <2>2. \A h \in Fds : file[h].st # "closed" =>
            file'[h].st # "closed" /\ file'[h].priv = file[h].priv
      BY <1>2, <1>3
    <2>3. \A s \in Range(relays) : mem[s].to_remove =>
            \E h \in Fds :
              /\ file'[h].priv = s /\ file'[h].st # "closed"
              /\ Held(<<"release", h>>) => s \in Range(rtnl.left)
      BY <2>2 DEF TrelayInv, FileInv
    <2> QED
      BY <1>1, <2>1, <2>3 DEF FileInv, Held, At
  <1>8. ModuleInv'
    BY <1>1, <1>2, <1>3 DEF TrelayInv, ModuleInv, Held, NoneGoing
  <1> QED
    BY <1>4, <1>5, <1>6, <1>7, <1>8 DEF TrelayInv

\* A relay is marked, through a file that stays open for the moment.
LEMMA Marked ==
  ASSUME TrelayInv, NEW f \in Fds, trelay_remove_write(f)
  PROVE  TrelayInv'
  <1> DEFINE p == file[f].priv
  <1>1. /\ UNCHANGED <<dev, ref, handler, frames, relays, pending, rtnl, module>>
        /\ file[f].st = "writing"
        /\ file' = [file EXCEPT ![f].st = "open"]
        /\ mem' = [mem EXCEPT ![p] = IF @ = None THEN @
                                     ELSE [@ EXCEPT !.to_remove = TRUE]]
    BY DEF trelay_remove_write
  <1>2. p \in Used
    <2>1. CASE p \in Range(relays)
      BY <2>1, TypeFacts DEF TrelayInv
    <2>2. CASE At("debugfs") /\ p = rtnl.cur
      <3>1. rtnl.cur \in Slots \cup {None} /\ rtnl.cur # None /\ mem[rtnl.cur] # None
        BY <2>2, TypeFacts, SectionFields DEF TrelayInv, HolderInv, At
      <3> QED
        BY <2>2, <3>1 DEF Used
    <2> QED
      BY <1>1, <2>1, <2>2 DEF TrelayInv, FileInv
  <1>3. p \in Slots /\ mem[p] \in Relay /\ mem[p] # None /\ None \notin Relay
    BY <1>2, TypeFacts DEF TrelayInv, Used
  <1> HIDE DEF p
  <1>4. /\ mem' \in [Slots -> Relay \cup {None}]
        /\ \A s \in Slots :
             /\ mem'[s] = None <=> mem[s] = None
             /\ s # p => mem'[s] = mem[s]
        /\ mem'[p].dev1 = mem[p].dev1 /\ mem'[p].dev2 = mem[p].dev2
    <2>1. mem \in [Slots -> Relay \cup {None}]
      BY DEF TrelayInv, TypeOK
    <2>2. mem' = [mem EXCEPT ![p] = [mem[p] EXCEPT !.to_remove = TRUE]]
      BY <1>1, <1>3, <2>1
    <2> DEFINE t == [mem[p] EXCEPT !.to_remove = TRUE]
    <2>3. t \in Relay /\ t.dev1 = mem[p].dev1 /\ t.dev2 = mem[p].dev2
      BY <1>3 DEF Relay
    <2> HIDE DEF t
    <2>4. mem' = [mem EXCEPT ![p] = t]
      BY <2>2 DEF t
    <2> QED
      BY <1>3, <2>1, <2>3, <2>4
  <1>5. /\ Used' = Used
        /\ \A s \in Used : /\ mem'[s].dev1 = mem[s].dev1
                           /\ mem'[s].dev2 = mem[s].dev2
                           /\ DevsOf(s)' = DevsOf(s)
    BY <1>4 DEF Used, DevsOf
  <1>6. /\ \A h \in Fds : h # f => file'[h] = file[h]
        /\ file'[f].st = "open" /\ file'[f].priv = p /\ file'[f].live = file[f].live
        /\ file' \in [Fds -> [st : {"closed", "open", "writing", "release"},
                              priv : Slots \cup {None}, live : BOOLEAN]]
    BY <1>1 DEF TrelayInv, TypeOK, p
  <1>7. TypeOK'
    BY <1>1, <1>4, <1>5, <1>6 DEF TrelayInv, TypeOK, Used
  <1>8. ListInv'
    BY <1>1 DEF TrelayInv, ListInv
  <1>9. HolderInv'
    <2>1. rtnl # None /\ rtnl.cur # None => rtnl.cur \in Slots
      BY TypeFacts, SectionFields DEF TrelayInv
    <2> QED
      BY <1>1, <1>4, <1>6, <2>1 DEF TrelayInv, HolderInv
  <1>10. DisjointInv' /\ RefInv'
    BY <1>1, <1>5 DEF TrelayInv, DisjointInv, RefInv, At
  <1>11. HandlerInv'
    BY <1>1, <1>5 DEF TrelayInv, HandlerInv, At, Held
  <1>12. DeviceInv' /\ FrameInv'
    <2>1. Range(relays) \subseteq Used
      BY TypeFacts DEF TrelayInv
    <2> QED
      BY <1>1, <1>5, <2>1 DEF TrelayInv, DeviceInv, FrameInv, At, Held
  <1>13. FileInv'
    <2>1. \A h \in Fds : /\ file'[h].live => file'[h].priv \in Range(relays)
                         /\ file'[h].st = "writing" =>
                              \/ file'[h].priv \in Range(relays)
                              \/ At("debugfs") /\ file'[h].priv = rtnl.cur
      BY <1>6 DEF TrelayInv, FileInv, p
    <2>2. \A h \in Fds : file[h].st # "closed" =>
            file'[h].st # "closed" /\ file'[h].priv = file[h].priv
      BY <1>6 DEF p
    <2>3. ~Held(<<"release", f>>)
      BY <1>1 DEF TrelayInv, HolderInv, Held
    <2>4. \A s \in Range(relays) : mem'[s].to_remove =>
            \E h \in Fds :
              /\ file'[h].priv = s /\ file'[h].st # "closed"
              /\ Held(<<"release", h>>) => s \in Range(rtnl.left)
      <3> SUFFICES ASSUME NEW s \in Range(relays), mem'[s].to_remove
                   PROVE  \E h \in Fds :
                            /\ file'[h].priv = s /\ file'[h].st # "closed"
                            /\ Held(<<"release", h>>) => s \in Range(rtnl.left)
        OBVIOUS
      <3>1. CASE s = p
        BY <1>6, <2>3, <3>1
      <3>2. CASE s # p
        <4>1. mem'[s] = mem[s]
          BY <1>4, <3>2, TypeFacts DEF TrelayInv
        <4> QED
          BY <2>2, <4>1 DEF TrelayInv, FileInv
      <3> QED
        BY <3>1, <3>2
    <2> QED
      BY <1>1, <2>1, <2>4 DEF FileInv, Held, At
  <1>14. ModuleInv'
    BY <1>1, <1>6 DEF TrelayInv, ModuleInv, Held, NoneGoing
  <1> QED
    BY <1>7, <1>8, <1>9, <1>10, <1>11, <1>12, <1>13, <1>14 DEF TrelayInv

-----------------------------------------------------------------------------
(***************************************************************************)
(* Taking the lock, to remove relays or to add one.                        *)
(***************************************************************************)

\* What the four that take the lock to remove relays have in common.
LEMMA LockToRemove ==
  ASSUME TrelayInv, NEW who \in Holders, who[1] # "add", NEW left \in Seq(Slots),
         IsInjective(left), Range(left) \subseteq Range(relays),
         Lock(who, "next", left),
         UNCHANGED <<ref, frames, relays, mem, file, pending>>
  PROVE  /\ rtnl = None /\ rtnl' # None /\ rtnl' \in Section
         /\ rtnl'.who = who /\ rtnl'.left = left /\ rtnl'.cur = None
         /\ rtnl'.pc = "next"
         /\ ListInv' /\ DisjointInv' /\ RefInv' /\ FrameInv'
         /\ Range(relays) = {r \in Slots : mem[r] # None} \ {rtnl'.cur}
  <1>1. /\ rtnl = None /\ rtnl' # None /\ rtnl' \in Section
        /\ rtnl'.who = who /\ rtnl'.left = left /\ rtnl'.cur = None
        /\ rtnl'.pc = "next"
    BY Locked
  <1>2. ListInv' /\ DisjointInv' /\ RefInv'
    BY <1>1 DEF TrelayInv, ListInv, DisjointInv, RefInv, Used, DevsOf, At
  <1>3. FrameInv'
    BY <1>1 DEF TrelayInv, FrameInv, Used, Held, At
  <1>4. Range(relays) = {r \in Slots : mem[r] # None} \ {rtnl'.cur}
    BY <1>1, TypeFacts DEF TrelayInv, Used, NoneGoing
  <1> QED
    BY <1>1, <1>2, <1>3, <1>4

\* The handlers of the relays are complete when nobody holds the lock.
LEMMA HandlersComplete ==
  ASSUME TrelayInv, rtnl = None
  PROVE  /\ \A r \in Used : /\ handler[mem[r].dev1] = mem[r].dev2
                            /\ handler[mem[r].dev2] = mem[r].dev1
         /\ \A d \in Devs : handler[d] \in Devs => \E r \in Used : d \in DevsOf(r)
  BY DEF TrelayInv, HandlerInv, At, Held

\* A device is unregistered: it leaves, and its relay is found.
LEMMA UnregisterBegins ==
  ASSUME TrelayInv, NEW d \in Devs, tr_device_event(d)
  PROVE  TrelayInv'
  <1> DEFINE who == <<"unregister", d>>
             left == IF module = "live" THEN trelay_find(d) ELSE <<>>
  <1>1. /\ UNCHANGED <<ref, frames, relays, mem, file, pending, module>>
        /\ Lock(who, "next", left)
        /\ dev[d] = "registered" \/ (dev[d] = "todo" /\ ref[d] > 0)
        /\ dev' = [dev EXCEPT ![d] = "leaving"]
        /\ handler' = [handler EXCEPT ![d] = IF @ = Bridge THEN None ELSE @]
    BY DEF tr_device_event
  <1>2. who \in Holders /\ who[1] # "add"
    BY DEF Holders
  <1>3. /\ left \in Seq(Slots) /\ IsInjective(left)
        /\ Range(left) \subseteq Range(relays)
        /\ \A r \in Range(relays) : d \in DevsOf(r) => r \in Range(left)
    <2>1. relays \in Seq(Slots) /\ Range(relays) \subseteq Used
      BY TypeFacts DEF TrelayInv, TypeOK
    <2>2. CASE left = <<>> /\ \A r \in Range(relays) : d \notin DevsOf(r)
      <3> HIDE DEF left
      <3>1. <<>> \in Seq(Slots) /\ Range(<<>>) = {} /\ IsInjective(<<>>)
        BY DEF Range, IsInjective
      <3> QED
        BY <2>2, <3>1
    <2>3. CASE \E r \in Range(relays) : left = <<r>> /\ d \in DevsOf(r)
      <3>1. PICK r \in Range(relays) : left = <<r>> /\ d \in DevsOf(r)
        BY <2>3
      <3>2. r \in Slots /\ Range(<<r>>) = {r} /\ IsInjective(<<r>>)
        BY <2>1, <3>1 DEF Used, Range, IsInjective
      <3>3. \A s \in Range(relays) : d \in DevsOf(s) => s = r
        BY <2>1, <3>1 DEF TrelayInv, DisjointInv
      <3>4. <<r>> \in Seq(Slots)
        BY <3>2
      <3> HIDE DEF left
      <3> QED
        BY <3>1, <3>2, <3>3, <3>4
    <2>4. module # "live" => relays = <<>>
      BY <1>1 DEF TrelayInv, ModuleInv, TypeOK, Held, Lock
    <2>5. module # "live" => Range(relays) = {}
      BY <2>4 DEF Range
    <2> QED
      BY <2>1, <2>2, <2>3, <2>5, Finds
  <1> HIDE DEF who, left
  <1>4. /\ rtnl = None /\ rtnl' # None /\ rtnl' \in Section
        /\ rtnl'.who = who /\ rtnl'.left = left /\ rtnl'.cur = None
        /\ rtnl'.pc = "next"
        /\ ListInv' /\ DisjointInv' /\ RefInv' /\ FrameInv'
        /\ Range(relays) = {r \in Slots : mem[r] # None} \ {rtnl'.cur}
    BY <1>1, <1>2, <1>3, LockToRemove
  <1>5. /\ dev' \in [Devs -> {"registered", "leaving", "todo", "gone"}]
        /\ \A e \in Devs : dev'[e] = IF e = d THEN "leaving" ELSE dev[e]
        /\ handler' \in [Devs -> Devs \cup {None, Bridge}]
        /\ \A e \in Devs : \/ handler'[e] = handler[e]
                           \/ handler[e] \notin Devs /\ handler'[e] \notin Devs
    BY <1>1, TypeFacts DEF TrelayInv, TypeOK
  <1>6. TypeOK'
    BY <1>1, <1>4, <1>5 DEF TrelayInv, TypeOK
  <1>7. who = <<"unregister", d>> /\ who[1] = "unregister"
    BY DEF who
  <1>8. HolderInv'
    BY <1>4, <1>7 DEF HolderInv
  <1>9. HandlerInv'
    <2>1. \A r \in Used : mem[r].dev1 \in Devs /\ mem[r].dev2 \in Devs
      BY TypeFacts DEF TrelayInv
    <2>2. \A r \in Used : /\ handler'[mem[r].dev1] = mem[r].dev2
                          /\ handler'[mem[r].dev2] = mem[r].dev1
      BY <1>4, <1>5, <2>1, HandlersComplete
    <2>3. \A e \in Devs : handler'[e] \in Devs => \E r \in Used : e \in DevsOf(r)
      BY <1>4, <1>5, HandlersComplete
    <2> QED
      BY <1>1, <1>4, <2>2, <2>3 DEF HandlerInv, At, Used, DevsOf
  <1>10. DeviceInv'
    <2>1. \A e \in Devs : dev'[e] = "leaving" => e = d
      BY <1>4, <1>5 DEF TrelayInv, DeviceInv, Held
    <2>2. \A r \in Used : \A e \in DevsOf(r) : dev'[e] \in {"registered", "leaving"}
      BY <1>5, TypeFacts DEF TrelayInv, DeviceInv, DevsOf
    <2>3. \A e \in Devs : Held(<<"unregister", e>>)' => e = d
      BY <1>4, <1>7 DEF Held
    <2>4. Held(<<"unregister", d>>)'
      BY <1>4, <1>7 DEF Held
    <2> QED
      BY <1>1, <1>3, <1>4, <2>1, <2>2, <2>3, <2>4 DEF DeviceInv, Used, DevsOf
  <1>11. FileInv'
    BY <1>1, <1>4, <1>7 DEF TrelayInv, FileInv, Held, At
  <1>12. ModuleInv'
    BY <1>1, <1>4, <1>7 DEF TrelayInv, ModuleInv, Held, NoneGoing
  <1> QED
    BY <1>4, <1>6, <1>8, <1>9, <1>10, <1>11, <1>12 DEF TrelayInv

\* A file is released, the notifier is unregistered, or the module exits: the
\* holder of the lock goes through the whole list.
LEMMA RemovalBegins ==
  ASSUME TrelayInv,
         \/ \E f \in Fds : trelay_remove_release(f)
         \/ unregister_netdevice_notifier
         \/ trelay_exit
  PROVE  TrelayInv'
  <1>1. PICK who \in Holders :
          /\ UNCHANGED <<dev, ref, handler, frames, relays, mem, file, pending>>
          /\ Lock(who, "next", relays)
          /\ \/ \E f \in Fds : /\ who = <<"release", f>> /\ file[f].st = "release"
                               /\ module' = module
             \/ /\ who = <<"notifier">> /\ module = "live" /\ module' = "going"
                /\ pending = {} /\ \A f \in Fds : file[f].st = "closed"
             \/ who = <<"exit">> /\ module = "going" /\ module' = "going"
    <2>1. CASE \E f \in Fds : trelay_remove_release(f)
      BY <2>1 DEF trelay_remove_release, Holders
    <2>2. CASE unregister_netdevice_notifier
      <3>1. <<"notifier">> \in Holders
        BY DEF Holders
      <3> QED
        BY <2>2, <3>1 DEF unregister_netdevice_notifier, Unloadable
    <2>3. CASE trelay_exit
      <3>1. <<"exit">> \in Holders
        BY DEF Holders
      <3> QED
        BY <2>3, <3>1 DEF trelay_exit
    <2> QED
      BY <2>1, <2>2, <2>3
  <1>2. who[1] \in {"release", "notifier", "exit"}
    BY <1>1
  <1>3. /\ relays \in Seq(Slots) /\ IsInjective(relays)
    BY DEF TrelayInv, TypeOK, ListInv
  <1>4. /\ rtnl = None /\ rtnl' # None /\ rtnl' \in Section
        /\ rtnl'.who = who /\ rtnl'.left = relays /\ rtnl'.cur = None
        /\ rtnl'.pc = "next"
        /\ ListInv' /\ DisjointInv' /\ RefInv' /\ FrameInv'
        /\ Range(relays) = {r \in Slots : mem[r] # None} \ {rtnl'.cur}
    BY <1>1, <1>2, <1>3, LockToRemove
  <1>5. TypeOK'
    BY <1>1, <1>4 DEF TrelayInv, TypeOK
  <1>6. HolderInv'
    <2>1. \A f \in Fds : who = <<"release", f>> => file[f].st = "release"
      BY <1>1
    <2>2. \A q : who # <<"add", q>>
      BY <1>2
    <2> QED
      BY <1>1, <1>2, <1>4, <2>1, <2>2 DEF HolderInv
  <1>7. HandlerInv'
    BY <1>1, <1>4, HandlersComplete DEF HandlerInv, At, Used, DevsOf
  <1>8. DeviceInv'
    <2>1. \A d : who # <<"unregister", d>>
      BY <1>2
    <2> QED
      BY <1>1, <1>4, <2>1 DEF TrelayInv, DeviceInv, Held, Used, DevsOf
  <1>9. FileInv'
    BY <1>1, <1>4 DEF TrelayInv, FileInv, Held, At
  <1>10. ModuleInv'
    <2>1. CASE \E f \in Fds : /\ who = <<"release", f>> /\ file[f].st = "release"
                              /\ module' = module
      <3>1. module = "live"
        BY <2>1 DEF TrelayInv, ModuleInv
      <3> QED
        BY <1>4, <2>1, <3>1 DEF ModuleInv, Held
    <2>2. CASE /\ who = <<"notifier">> /\ module = "live" /\ module' = "going"
               /\ pending = {} /\ \A f \in Fds : file[f].st = "closed"
      BY <1>1, <1>4, <2>2 DEF ModuleInv, Held
    <2>3. CASE who = <<"exit">> /\ module = "going" /\ module' = "going"
      BY <1>1, <1>4, <2>3 DEF TrelayInv, ModuleInv, Held, NoneGoing
    <2> QED
      BY <1>1, <2>1, <2>2, <2>3
  <1> QED
    BY <1>4, <1>5, <1>6, <1>7, <1>8, <1>9, <1>10 DEF TrelayInv

\* An add gives its first device a handler: a device that is in no relay.
LEMMA AddBegins ==
  ASSUME TrelayInv, NEW q \in Requests, add_register_dev1(q)
  PROVE  TrelayInv'
  <1> DEFINE who == <<"add", q>>
  <1>1. /\ UNCHANGED <<dev, ref, frames, relays, mem, file, pending, module>>
        /\ q \in pending /\ ~Refused(q)
        /\ Lock(who, "dev2", <<>>)
        /\ handler' = [handler EXCEPT ![q.dev1] = q.dev2]
    BY DEF add_register_dev1
  <1>2. who \in Holders /\ who[1] = "add" /\ who = <<"add", q>>
    BY DEF Holders
  <1>3. <<>> \in Seq(Slots) /\ Range(<<>>) = {} /\ IsInjective(<<>>)
    BY DEF Range, IsInjective
  <1> HIDE DEF who
  <1>4. /\ rtnl = None /\ rtnl' # None /\ rtnl' \in Section
        /\ rtnl'.who = who /\ rtnl'.left = <<>> /\ rtnl'.cur = None
        /\ rtnl'.pc = "dev2"
    BY <1>1, <1>2, <1>3, Locked
  <1>5. /\ q.dev1 \in Devs /\ q.dev2 \in Devs
        /\ dev[q.dev1] = "registered" /\ dev[q.dev2] = "registered"
        /\ handler[q.dev1] = None
    BY <1>1, TrelayAssumption DEF Refused, TrelayAssumption
  <1>6. /\ handler' \in [Devs -> Devs \cup {None, Bridge}]
        /\ \A e \in Devs : handler'[e] = IF e = q.dev1 THEN q.dev2 ELSE handler[e]
    BY <1>1, <1>5 DEF TrelayInv, TypeOK
  <1>7. /\ \A r \in Used : mem[r].dev1 \in Devs /\ mem[r].dev2 \in Devs
        /\ None \notin Devs
        /\ Range(relays) = Used /\ None \notin Slots
    BY <1>4, TypeFacts DEF TrelayInv, NoneGoing
  <1>8. \A r \in Used : q.dev1 \notin DevsOf(r)
    BY <1>4, <1>5, <1>7, HandlersComplete DEF DevsOf
  <1>9. TypeOK'
    BY <1>1, <1>4, <1>6, <1>7 DEF TrelayInv, TypeOK, Used
  <1>10. ListInv' /\ DisjointInv' /\ RefInv'
    BY <1>1, <1>3, <1>4 DEF TrelayInv, ListInv, DisjointInv, RefInv, Used, DevsOf, At
  <1>11. HolderInv'
    BY <1>1, <1>2, <1>4, <1>5 DEF HolderInv
  <1>12. HandlerInv'
    <2>1. \A r \in Used : /\ handler'[mem[r].dev1] = mem[r].dev2
                          /\ handler'[mem[r].dev2] = mem[r].dev1
      BY <1>4, <1>6, <1>7, <1>8, HandlersComplete DEF DevsOf
    <2>2. \A e \in Devs : handler'[e] \in Devs =>
            e = q.dev1 \/ \E r \in Used : e \in DevsOf(r)
      BY <1>4, <1>6, HandlersComplete
    <2>3. At("dev2")' /\ ~At("sync1")' /\ ~At("sync2")' /\ Held(<<"add", q>>)'
          /\ \A x : Held(<<"add", x>>)' => x = q
      BY <1>2, <1>4 DEF At, Held
    <2>4. handler'[q.dev1] = q.dev2
      BY <1>5, <1>6
    <2> QED
      BY ZenonT(30), <1>1, <1>8, <2>1, <2>2, <2>3, <2>4 DEF HandlerInv, Used, DevsOf
  <1>13. DeviceInv'
    BY <1>1, <1>2, <1>4 DEF TrelayInv, DeviceInv, Held, Used, DevsOf
  <1>14. FrameInv'
    BY <1>1, <1>2, <1>4 DEF TrelayInv, FrameInv, Held, At, Used
  <1>15. FileInv'
    BY <1>1, <1>2, <1>4 DEF TrelayInv, FileInv, Held, At
  <1>16. ModuleInv'
    BY <1>1, <1>2, <1>4 DEF TrelayInv, ModuleInv, Held, NoneGoing
  <1> QED
    BY <1>9, <1>10, <1>11, <1>12, <1>13, <1>14, <1>15, <1>16 DEF TrelayInv

-----------------------------------------------------------------------------
(***************************************************************************)
(* trelay_do_remove.                                                       *)
(***************************************************************************)

\* The holder of the lock between two relays.
LEMMA BetweenRelays ==
  ASSUME TrelayInv, At("next")
  PROVE  /\ rtnl \in Section /\ rtnl # None /\ rtnl.pc = "next" /\ rtnl.cur = None
         /\ rtnl.who \in Holders /\ rtnl.who[1] # "add"
         /\ rtnl.left \in Seq(Slots) /\ IsInjective(rtnl.left)
         /\ Range(rtnl.left) \subseteq Range(relays)
         /\ Range(relays) = Used
  <1>1. rtnl \in Section /\ rtnl # None /\ rtnl.pc = "next"
    BY TypeFacts DEF TrelayInv, At
  <1>2. rtnl.cur = None /\ rtnl.who[1] # "add"
    BY <1>1 DEF TrelayInv, HolderInv
  <1>3. Range(relays) = Used
    BY <1>2, TypeFacts DEF TrelayInv, NoneGoing
  <1> QED
    BY <1>1, <1>2, <1>3, SectionFields DEF TrelayInv, ListInv

\* The relay that is being removed: still in use, not in the list any more.
LEMMA BeingRemoved ==
  ASSUME TrelayInv, At("debugfs") \/ At("sync1") \/ At("sync2")
  PROVE  /\ rtnl \in Section /\ rtnl # None
         /\ rtnl.who \in Holders /\ rtnl.who[1] # "add"
         /\ rtnl.left \in Seq(Slots)
         /\ rtnl.cur \in Used /\ rtnl.cur \notin Range(relays) /\ rtnl.cur # None
         /\ mem[rtnl.cur].dev1 \in Devs /\ mem[rtnl.cur].dev2 \in Devs
         /\ Range(relays) = Used \ {rtnl.cur}
  <1>1. rtnl \in Section /\ rtnl # None /\ rtnl.pc \in {"debugfs", "sync1", "sync2"}
    BY TypeFacts DEF TrelayInv, At
  <1>2. rtnl.cur # None /\ mem[rtnl.cur] # None /\ rtnl.who[1] # "add"
    BY <1>1 DEF TrelayInv, HolderInv
  <1>3. rtnl.cur \in Used
    BY <1>1, <1>2, SectionFields DEF Used
  <1> QED
    BY <1>1, <1>2, <1>3, TypeFacts, SectionFields DEF TrelayInv

\* Every relay in the list has a registered device while the notifier is being
\* unregistered, so its NETDEV_UNREGISTER finds them all.
LEMMA NotifierFinds ==
  ASSUME TrelayInv, Held(<<"notifier">>), NEW r \in Range(relays)
  PROVE  Found(r)
  <1> DEFINE d == mem[r].dev1
  <1>1. /\ r \in Used /\ d \in Devs /\ d \in DevsOf(r)
        /\ Range(relays) \subseteq Used
    BY TypeFacts DEF TrelayInv, DevsOf
  <1> HIDE DEF d
  <1>2. dev[d] = "registered"
    <2>1. dev[d] \in {"registered", "leaving"}
      BY <1>1 DEF TrelayInv, DeviceInv
    <2>2. ~Held(<<"unregister", d>>)
      BY DEF Held
    <2> QED
      BY <1>1, <2>1, <2>2 DEF TrelayInv, DeviceInv
  <1>3. PICK s \in Range(relays) : trelay_find(d) = <<s>> /\ d \in DevsOf(s)
    BY <1>1, Finds DEF TrelayInv, TypeOK
  <1>4. s = r
    BY <1>1, <1>3 DEF TrelayInv, DisjointInv
  <1> QED
    BY <1>1, <1>2, <1>3, <1>4 DEF Found

\* A release passes over a relay that is not marked; nobody else skips one.
LEMMA Skipped ==
  ASSUME TrelayInv, skip_relay
  PROVE  TrelayInv'
  <1> DEFINE h == Head(rtnl.left)
  <1>1. /\ UNCHANGED <<dev, ref, handler, frames, relays, mem, file, pending, module>>
        /\ At("next") /\ rtnl.left # <<>> /\ ~ToGo(h)
        /\ rtnl' = [rtnl EXCEPT !.left = Tail(@)]
    BY DEF skip_relay
  <1>2. /\ rtnl \in Section /\ rtnl # None /\ rtnl.pc = "next" /\ rtnl.cur = None
        /\ rtnl.who \in Holders /\ rtnl.left \in Seq(Slots)
        /\ IsInjective(rtnl.left) /\ Range(rtnl.left) \subseteq Range(relays)
    BY <1>1, BetweenRelays
  <1>3. /\ h \in Range(rtnl.left) /\ Tail(rtnl.left) \in Seq(Slots)
        /\ IsInjective(Tail(rtnl.left))
        /\ Range(Tail(rtnl.left)) = Range(rtnl.left) \ {h}
    BY <1>1, <1>2, HeadTail
  <1> HIDE DEF h
  <1>4. /\ rtnl' \in Section /\ rtnl'.who = rtnl.who /\ rtnl'.pc = "next"
        /\ rtnl'.cur = None /\ rtnl'.left = Tail(rtnl.left)
    BY <1>1, <1>2, <1>3 DEF Section
  <1>5. rtnl' # None
    BY <1>4, TypeFacts DEF TrelayInv
  <1>6. /\ \E f \in Fds : rtnl.who = <<"release", f>>
        /\ ~mem[h].to_remove
    <2>1. ~Held(<<"notifier">>)
      BY <1>1, <1>2, <1>3, NotifierFinds DEF ToGo, Held
    <2>2. rtnl.who # <<"notifier">>
      BY <1>2, <2>1 DEF Held
    <2>3. rtnl.who[1] = "notifier" => rtnl.who = <<"notifier">>
      BY <1>2 DEF Holders
    <2>4. rtnl.who[1] = "release" /\ ~mem[h].to_remove
      BY <1>1, <2>2, <2>3 DEF ToGo
    <2> QED
      BY <1>2, <2>4 DEF Holders
  <1>7. TypeOK'
    BY <1>1, <1>2, <1>4, <1>5 DEF TrelayInv, TypeOK
  <1>8. ListInv'
    BY <1>1, <1>2, <1>3, <1>4 DEF TrelayInv, ListInv
  <1>9. HolderInv'
    BY <1>1, <1>2, <1>4 DEF TrelayInv, HolderInv
  <1>10. DisjointInv' /\ RefInv'
    BY <1>1, <1>2, <1>4 DEF TrelayInv, DisjointInv, RefInv, Used, DevsOf, At
  <1>11. HandlerInv' /\ FrameInv'
    BY <1>1, <1>2, <1>4, <1>5
    DEF TrelayInv, HandlerInv, FrameInv, Used, DevsOf, At, Held
  <1>12. DeviceInv'
    BY <1>1, <1>2, <1>4, <1>5, <1>6 DEF TrelayInv, DeviceInv, Used, DevsOf, Held
  <1>13. FileInv'
    BY <1>1, <1>2, <1>3, <1>4, <1>5, <1>6 DEF TrelayInv, FileInv, At, Held
  <1>14. ModuleInv'
    BY <1>1, <1>2, <1>4, <1>5, <1>6 DEF TrelayInv, ModuleInv, Held, NoneGoing
  <1> QED
    BY <1>7, <1>8, <1>9, <1>10, <1>11, <1>12, <1>13, <1>14 DEF TrelayInv

\* A relay leaves the list, and its file cannot be used any more.
LEMMA Unlisted ==
  ASSUME TrelayInv, do_remove_list_del
  PROVE  TrelayInv'
  <1> DEFINE h == Head(rtnl.left)
  <1>1. /\ UNCHANGED <<dev, ref, handler, frames, mem, pending, module>>
        /\ At("next") /\ rtnl.left # <<>> /\ ToGo(h)
        /\ relays' = RemoveFirst(relays, h)
        /\ file' = [f \in Fds |-> IF file[f].priv = h
                                  THEN [file[f] EXCEPT !.live = FALSE] ELSE file[f]]
        /\ rtnl' = [rtnl EXCEPT !.pc = "debugfs", !.cur = h, !.left = Tail(@)]
    BY DEF do_remove_list_del
  <1>2. /\ rtnl \in Section /\ rtnl # None /\ rtnl.pc = "next" /\ rtnl.cur = None
        /\ rtnl.who \in Holders /\ rtnl.who[1] # "add" /\ rtnl.left \in Seq(Slots)
        /\ IsInjective(rtnl.left) /\ Range(rtnl.left) \subseteq Range(relays)
        /\ Range(relays) = Used
    BY <1>1, BetweenRelays
  <1>3. /\ h \in Range(rtnl.left) /\ h \in Slots /\ Tail(rtnl.left) \in Seq(Slots)
        /\ IsInjective(Tail(rtnl.left))
        /\ Range(Tail(rtnl.left)) = Range(rtnl.left) \ {h}
    BY <1>1, <1>2, HeadTail
  <1> HIDE DEF h
  <1>4. /\ relays' \in Seq(Slots) /\ IsInjective(relays')
        /\ Range(relays') = Range(relays) \ {h}
    BY <1>1, <1>2, <1>3, ListDel DEF TrelayInv, TypeOK, ListInv
  <1>5. /\ rtnl' \in Section /\ rtnl'.who = rtnl.who /\ rtnl'.pc = "debugfs"
        /\ rtnl'.cur = h /\ rtnl'.left = Tail(rtnl.left)
    BY <1>1, <1>2, <1>3 DEF Section
  <1>6. rtnl' # None /\ h # None
    BY <1>3, <1>5, TypeFacts DEF TrelayInv
  <1>7. /\ file' \in [Fds -> [st : {"closed", "open", "writing", "release"},
                              priv : Slots \cup {None}, live : BOOLEAN]]
        /\ \A f \in Fds : /\ file'[f].st = file[f].st
                          /\ file'[f].priv = file[f].priv
                          /\ file'[f].live => file[f].live /\ file[f].priv # h
    BY <1>1 DEF TrelayInv, TypeOK
  <1>8. TypeOK'
    BY <1>1, <1>2, <1>4, <1>5, <1>6, <1>7 DEF TrelayInv, TypeOK, Used
  <1>9. ListInv'
    BY <1>2, <1>3, <1>4, <1>5 DEF ListInv
  <1>10. HolderInv'
    <2>1. mem[h] # None
      BY <1>2, <1>3 DEF Used
    <2> QED
      BY <1>1, <1>2, <1>5, <1>6, <1>7, <2>1 DEF TrelayInv, HolderInv
  <1>11. DisjointInv' /\ RefInv'
    BY <1>1, <1>2, <1>5 DEF TrelayInv, DisjointInv, RefInv, Used, DevsOf, At
  <1>12. HandlerInv' /\ FrameInv'
    BY <1>1, <1>2, <1>5, <1>6
    DEF TrelayInv, HandlerInv, FrameInv, Used, DevsOf, At, Held
  <1>13. DeviceInv'
    BY <1>1, <1>2, <1>3, <1>4, <1>5, <1>6
    DEF TrelayInv, DeviceInv, Used, DevsOf, Held
  <1>14. FileInv'
    <2>1. \A f \in Fds : file'[f].live => file'[f].priv \in Range(relays')
      BY <1>4, <1>7 DEF TrelayInv, FileInv
    <2>2. \A f \in Fds : file'[f].st = "writing" =>
            file'[f].priv \in Range(relays') \/ file'[f].priv = h
      BY <1>2, <1>4, <1>7 DEF TrelayInv, FileInv, At
    <2>3. \A r \in Range(relays') : mem[r].to_remove =>
            \E f \in Fds :
              /\ file'[f].priv = r /\ file'[f].st # "closed"
              /\ Held(<<"release", f>>) => r \in Range(rtnl'.left)
      BY <1>3, <1>4, <1>5, <1>7 DEF TrelayInv, FileInv
    <2> QED
      BY <1>1, <1>2, <1>5, <1>6, <2>1, <2>2, <2>3 DEF FileInv, At, Held
  <1>15. ModuleInv'
    <2>1. relays # <<>>
      BY <1>2, <1>3, InRange DEF TrelayInv, TypeOK
    <2> QED
      BY <1>1, <1>2, <1>3, <1>4, <1>5, <1>6, <1>7, <2>1
      DEF TrelayInv, ModuleInv, Held
  <1> QED
    BY <1>8, <1>9, <1>10, <1>11, <1>12, <1>13, <1>14, <1>15 DEF TrelayInv

\* The references are dropped and the first handler goes, once no write is
\* under way.
LEMMA References ==
  ASSUME TrelayInv, do_remove_put
  PROVE  TrelayInv'
  <1> DEFINE c == rtnl.cur
             a == mem[c].dev1
             b == mem[c].dev2
  <1>1. /\ UNCHANGED <<dev, frames, relays, mem, file, pending, module>>
        /\ At("debugfs") /\ ~InUse(c)
        /\ ref' = [d \in Devs |-> IF d \in {a, b} THEN ref[d] - 1 ELSE ref[d]]
        /\ handler' = [handler EXCEPT ![a] = None]
        /\ rtnl' = [rtnl EXCEPT !.pc = "sync1"]
    BY DEF do_remove_put
  <1>2. /\ rtnl \in Section /\ rtnl # None /\ rtnl.who \in Holders
        /\ rtnl.who[1] # "add" /\ c \in Used /\ c \notin Range(relays) /\ c # None
        /\ a \in Devs /\ b \in Devs /\ Range(relays) = Used \ {c}
    BY <1>1, BeingRemoved
  <1>3. /\ a # b
        /\ \A r \in Used : a \in DevsOf(r) \/ b \in DevsOf(r) => r = c
        /\ DevsOf(c) = {a, b}
    BY <1>2 DEF TrelayInv, DisjointInv, DevsOf
  <1> HIDE DEF a, b, c
  <1>4. /\ rtnl' \in Section /\ rtnl'.who = rtnl.who /\ rtnl'.pc = "sync1"
        /\ rtnl'.cur = c /\ rtnl'.left = rtnl.left
    BY <1>1, <1>2 DEF Section, c
  <1>5. rtnl' # None /\ rtnl.pc = "debugfs" /\ None \notin Devs
    BY <1>1, <1>4, TypeFacts DEF TrelayInv, At
  <1>6. RefInv' /\ ref' \in [Devs -> 0..1]
    <2>1. \A d \in Devs :
            ref[d] = IF \E r \in Used : d \in DevsOf(r) THEN 1 ELSE 0
      BY <1>5 DEF TrelayInv, RefInv, At
    <2>2. \A d \in Devs :
            ref'[d] = IF \E r \in Used : d \in DevsOf(r) /\ r # c THEN 1 ELSE 0
      <3> SUFFICES ASSUME NEW d \in Devs
                   PROVE  ref'[d] = IF \E r \in Used : d \in DevsOf(r) /\ r # c
                                    THEN 1 ELSE 0
        OBVIOUS
      <3>1. CASE d \in {a, b}
        <4>1. ref[d] = 1 /\ ref'[d] = ref[d] - 1
          BY <1>1, <1>2, <1>3, <2>1, <3>1
        <4> QED
          BY <1>3, <3>1, <4>1
      <3>2. CASE d \notin {a, b}
        <4>1. ref'[d] = ref[d]
          BY <1>1, <3>2
        <4> QED
          BY <1>3, <2>1, <3>2, <4>1
      <3> QED
        BY <3>1, <3>2
    <2>3. ref' \in [Devs -> 0..1]
      <3>1. \A d \in Devs : ref'[d] \in 0..1
        BY <2>2
      <3>2. ref' = [d \in Devs |-> ref'[d]]
        BY <1>1
      <3> QED
        BY <3>1, <3>2
    <2>4. At("sync1")' /\ ~At("sync2")'
      BY <1>4, <1>5 DEF At
    <2> QED
      BY <1>1, <1>4, <2>2, <2>3, <2>4 DEF RefInv, Used, DevsOf
  <1>7. /\ handler' \in [Devs -> Devs \cup {None, Bridge}]
        /\ \A d \in Devs : handler'[d] = IF d = a THEN None ELSE handler[d]
    BY <1>1, <1>2 DEF TrelayInv, TypeOK
  <1>8. HandlerInv'
    <2>1. \A r \in Used : /\ mem[r].dev1 \in Devs /\ mem[r].dev2 \in Devs
                          /\ handler[mem[r].dev1] = mem[r].dev2
                          /\ handler[mem[r].dev2] = mem[r].dev1
      BY <1>5, TypeFacts DEF TrelayInv, HandlerInv, At
    <2>2. \A r \in Used :
            /\ handler'[mem[r].dev1] = IF r = c THEN None ELSE mem[r].dev2
            /\ handler'[mem[r].dev2] = mem[r].dev1
      BY <1>3, <1>7, <2>1 DEF DevsOf, a, b
    <2>3. \A d \in Devs : handler'[d] \in Devs => \E r \in Used : d \in DevsOf(r)
      BY <1>5, <1>7 DEF TrelayInv, HandlerInv, At
    <2>4. At("sync1")' /\ ~At("sync2")' /\ ~At("dev2")'
      BY <1>4, <1>5 DEF At
    <2> QED
      BY <1>1, <1>4, <2>2, <2>3, <2>4 DEF HandlerInv, Used, DevsOf
  <1>9. TypeOK'
    BY <1>1, <1>2, <1>4, <1>5, <1>6, <1>7 DEF TrelayInv, TypeOK, Used
  <1>10. ListInv' /\ DisjointInv'
    BY <1>1, <1>2, <1>4 DEF TrelayInv, ListInv, DisjointInv, Used, DevsOf
  <1>11. HolderInv'
    BY <1>1, <1>2, <1>4, <1>5 DEF TrelayInv, HolderInv, c
  <1>12. DeviceInv' /\ FrameInv'
    BY <1>1, <1>2, <1>4, <1>5
    DEF TrelayInv, DeviceInv, FrameInv, Used, DevsOf, At, Held
  <1>13. FileInv'
    <2>1. \A f \in Fds : file[f].st = "writing" => file[f].priv \in Range(relays)
      BY <1>1 DEF TrelayInv, FileInv, InUse, c
    <2> QED
      BY <1>1, <1>2, <1>4, <1>5, <2>1 DEF TrelayInv, FileInv, Held
  <1>14. ModuleInv'
    BY <1>1, <1>2, <1>4, <1>5 DEF TrelayInv, ModuleInv, Held, NoneGoing, c
  <1> QED
    BY <1>6, <1>8, <1>9, <1>10, <1>11, <1>12, <1>13, <1>14 DEF TrelayInv

\* The second handler goes, once no frame of the first device is on its way.
LEMMA SecondHandler ==
  ASSUME TrelayInv, do_remove_dev2
  PROVE  TrelayInv'
  <1> DEFINE c == rtnl.cur
             a == mem[c].dev1
             b == mem[c].dev2
  <1>1. /\ UNCHANGED <<dev, ref, frames, relays, mem, file, pending, module>>
        /\ At("sync1") /\ Synchronized(a)
        /\ handler' = [handler EXCEPT ![b] = None]
        /\ rtnl' = [rtnl EXCEPT !.pc = "sync2"]
    BY DEF do_remove_dev2
  <1>2. /\ rtnl \in Section /\ rtnl # None /\ rtnl.who \in Holders
        /\ rtnl.who[1] # "add" /\ c \in Used /\ c \notin Range(relays) /\ c # None
        /\ a \in Devs /\ b \in Devs /\ Range(relays) = Used \ {c}
    BY <1>1, BeingRemoved
  <1>3. /\ a # b
        /\ \A r \in Used : a \in DevsOf(r) \/ b \in DevsOf(r) => r = c
    BY <1>2 DEF TrelayInv, DisjointInv, DevsOf
  <1>a. a = mem[c].dev1 /\ b = mem[c].dev2
    OBVIOUS
  <1> HIDE DEF a, b, c
  <1>4. /\ rtnl' \in Section /\ rtnl'.who = rtnl.who /\ rtnl'.pc = "sync2"
        /\ rtnl'.cur = c /\ rtnl'.left = rtnl.left
    BY <1>1, <1>2 DEF Section, c
  <1>5. rtnl' # None /\ rtnl.pc = "sync1" /\ None \notin Devs
    BY <1>1, <1>4, TypeFacts DEF TrelayInv, At
  <1>6. RefInv'
    BY <1>1, <1>2, <1>4, <1>5 DEF TrelayInv, RefInv, At, Used, DevsOf, c
  <1>7. /\ handler' \in [Devs -> Devs \cup {None, Bridge}]
        /\ \A d \in Devs : handler'[d] = IF d = b THEN None ELSE handler[d]
    BY <1>1, <1>2 DEF TrelayInv, TypeOK
  <1>8. HandlerInv'
    <2>1. \A r \in Used :
            /\ mem[r].dev1 \in Devs /\ mem[r].dev2 \in Devs
            /\ handler[mem[r].dev1] = IF r = c THEN None ELSE mem[r].dev2
            /\ handler[mem[r].dev2] = mem[r].dev1
      BY <1>2, <1>5, TypeFacts DEF TrelayInv, HandlerInv, At, c
    <2>2. \A r \in Used :
            /\ handler'[mem[r].dev1] = IF r = c THEN None ELSE mem[r].dev2
            /\ handler'[mem[r].dev2] = IF r = c THEN None ELSE mem[r].dev1
      BY <1>3, <1>7, <1>a, <2>1 DEF DevsOf
    <2>3. \A d \in Devs : handler'[d] \in Devs => \E r \in Used : d \in DevsOf(r)
      BY <1>5, <1>7 DEF TrelayInv, HandlerInv, At
    <2>4. ~At("sync1")' /\ At("sync2")' /\ ~At("dev2")'
      BY <1>4, <1>5 DEF At
    <2> QED
      BY <1>1, <1>4, <2>2, <2>3, <2>4 DEF HandlerInv, Used, DevsOf
  <1>9. TypeOK'
    BY <1>1, <1>2, <1>4, <1>5, <1>7 DEF TrelayInv, TypeOK, Used
  <1>10. ListInv' /\ DisjointInv'
    BY <1>1, <1>2, <1>4 DEF TrelayInv, ListInv, DisjointInv, Used, DevsOf
  <1>11. HolderInv'
    BY <1>1, <1>2, <1>4, <1>5 DEF TrelayInv, HolderInv, c
  <1>12. DeviceInv'
    BY <1>1, <1>2, <1>4, <1>5 DEF TrelayInv, DeviceInv, Used, DevsOf, Held
  <1>13. FrameInv'
    <2>1. \A m \in frames : m[1] # a
      BY <1>1 DEF Synchronized
    <2> QED
      BY <1>1, <1>2, <1>4, <1>5, <1>a, <2>1 DEF TrelayInv, FrameInv, Used, At, Held
  <1>14. FileInv' /\ ModuleInv'
    BY <1>1, <1>2, <1>4, <1>5
    DEF TrelayInv, FileInv, ModuleInv, Held, At, NoneGoing, c
  <1> QED
    BY <1>6, <1>8, <1>9, <1>10, <1>11, <1>12, <1>13, <1>14 DEF TrelayInv

\* The structure is freed, once no frame of the second device is on its way.
LEMMA Freed ==
  ASSUME TrelayInv, do_remove_kfree
  PROVE  TrelayInv'
  <1> DEFINE c == rtnl.cur
             a == mem[c].dev1
             b == mem[c].dev2
  <1>1. /\ UNCHANGED <<dev, ref, handler, frames, relays, file, pending, module>>
        /\ At("sync2") /\ Synchronized(b)
        /\ mem' = [mem EXCEPT ![c] = None]
        /\ rtnl' = [rtnl EXCEPT !.pc = "next", !.cur = None]
    BY DEF do_remove_kfree
  <1>2. /\ rtnl \in Section /\ rtnl # None /\ rtnl.who \in Holders
        /\ rtnl.who[1] # "add" /\ c \in Used /\ c \notin Range(relays) /\ c # None
        /\ a \in Devs /\ b \in Devs /\ Range(relays) = Used \ {c}
    BY <1>1, BeingRemoved
  <1>a. a = mem[c].dev1 /\ b = mem[c].dev2 /\ DevsOf(c) = {a, b}
    BY DEF DevsOf
  <1> HIDE DEF a, b, c
  <1>4. /\ rtnl' \in Section /\ rtnl'.who = rtnl.who /\ rtnl'.pc = "next"
        /\ rtnl'.cur = None /\ rtnl'.left = rtnl.left
    BY <1>1, <1>2 DEF Section, c
  <1>5. rtnl' # None /\ rtnl.pc = "sync2" /\ None \notin Devs /\ None \notin Slots
    BY <1>1, <1>4, TypeFacts DEF TrelayInv, At
  <1>6. /\ mem' \in [Slots -> Relay \cup {None}]
        /\ Used' = Used \ {c}
        /\ \A r \in Used : r # c => mem'[r] = mem[r] /\ DevsOf(r)' = DevsOf(r)
    BY <1>1, <1>2 DEF TrelayInv, TypeOK, Used, DevsOf
  <1>7. TypeOK'
    BY <1>1, <1>2, <1>4, <1>5, <1>6 DEF TrelayInv, TypeOK, Used
  <1>8. ListInv'
    BY <1>1, <1>2, <1>4 DEF TrelayInv, ListInv
  <1>9. HolderInv'
    BY <1>1, <1>2, <1>4, <1>5 DEF TrelayInv, HolderInv
  <1>10. DisjointInv'
    BY <1>6 DEF TrelayInv, DisjointInv
  <1>11. RefInv'
    <2>1. \A d \in Devs :
            ref[d] = IF \E r \in Used : d \in DevsOf(r) /\ r # c THEN 1 ELSE 0
      BY <1>2, <1>5 DEF TrelayInv, RefInv, At, c
    <2>2. \A d \in Devs : (\E r \in Used : d \in DevsOf(r) /\ r # c)
                          <=> (\E r \in Used' : d \in DevsOf(r)')
      BY <1>6
    <2> QED
      BY <1>1, <1>4, <2>1, <2>2 DEF RefInv, At
  <1>12. HandlerInv'
    <2>1. \A r \in Used : r # c => /\ handler[mem[r].dev1] = mem[r].dev2
                                   /\ handler[mem[r].dev2] = mem[r].dev1
      BY DEF TrelayInv, HandlerInv, c
    <2>2. handler[a] = None /\ handler[b] = None
      BY <1>1, <1>2, <1>a DEF TrelayInv, HandlerInv, c
    <2>3. \A d \in Devs : handler[d] \in Devs =>
            \E r \in Used : r # c /\ d \in DevsOf(r)
      BY <1>5, <1>a, <2>2 DEF TrelayInv, HandlerInv, At
    <2>4. ~At("sync1")' /\ ~At("sync2")' /\ ~At("dev2")'
      BY <1>4, <1>5 DEF At
    <2> QED
      BY <1>1, <1>6, <2>1, <2>3, <2>4 DEF HandlerInv
  <1>13. DeviceInv'
    BY <1>1, <1>2, <1>4, <1>5, <1>6 DEF TrelayInv, DeviceInv, Held
  <1>14. FrameInv'
    <2> SUFFICES ASSUME NEW m \in frames
                 PROVE  \E r \in Used : /\ r # c
                                        /\ \/ m = <<mem[r].dev1, mem[r].dev2>>
                                           \/ m = <<mem[r].dev2, mem[r].dev1>>
      BY <1>1, <1>4, <1>6 DEF FrameInv, At
    <2>1. m[1] # b
      BY <1>1 DEF Synchronized
    <2>2. \A q : ~Held(<<"add", q>>)
      BY <1>2 DEF Held
    <2>3. PICK r \in Used :
            /\ m = <<mem[r].dev1, mem[r].dev2>> \/ m = <<mem[r].dev2, mem[r].dev1>>
            /\ At("sync2") /\ rtnl.cur = r => m[1] # mem[r].dev1
      BY <2>2 DEF TrelayInv, FrameInv
    <2>4. r # c
      BY <1>1, <1>a, <2>1, <2>3 DEF c
    <2> QED
      BY <2>3, <2>4
  <1>15. FileInv'
    BY <1>1, <1>2, <1>4, <1>5, <1>6 DEF TrelayInv, FileInv, At, Held
  <1>16. ModuleInv'
    BY <1>1, <1>2, <1>4, <1>5 DEF TrelayInv, ModuleInv, Held, NoneGoing
  <1> QED
    BY <1>7, <1>8, <1>9, <1>10, <1>11, <1>12, <1>13, <1>14, <1>15, <1>16
    DEF TrelayInv

-----------------------------------------------------------------------------
(***************************************************************************)
(* Giving the lock back.                                                   *)
(***************************************************************************)

\* A removal that has gone through its list gives the lock back: what the
\* holders have in common.
LEMMA Unlocked ==
  ASSUME TrelayInv, NEW kind, Finished(kind),
         UNCHANGED <<ref, handler, frames, relays, mem, pending>>
  PROVE  /\ rtnl # None /\ rtnl' = None /\ rtnl.who[1] = kind
         /\ rtnl.who \in Holders
         /\ rtnl.pc = "next" /\ rtnl.left = <<>> /\ Range(rtnl.left) = {}
         /\ Range(relays) = Used /\ Range(relays) = {r \in Slots : mem[r] # None}
         /\ ListInv' /\ HolderInv' /\ DisjointInv' /\ HandlerInv' /\ RefInv'
         /\ FrameInv'
  <1>1. /\ rtnl # None /\ rtnl' = None /\ rtnl.who[1] = kind /\ At("next")
        /\ rtnl.left = <<>>
    BY DEF Finished, Holds, At
  <1>2. /\ rtnl.who \in Holders /\ rtnl.who[1] # "add" /\ rtnl.pc = "next"
        /\ Range(relays) = Used
    BY <1>1, BetweenRelays
  <1>3. Range(rtnl.left) = {}
    BY <1>1 DEF Range
  <1>4. ListInv' /\ HolderInv' /\ DisjointInv' /\ RefInv'
    BY <1>1, <1>2
    DEF TrelayInv, ListInv, HolderInv, DisjointInv, RefInv, Used, DevsOf, At
  <1>5. HandlerInv' /\ FrameInv'
    BY <1>1, <1>2 DEF TrelayInv, HandlerInv, FrameInv, Used, DevsOf, At, Held
  <1> QED
    BY <1>1, <1>2, <1>3, <1>4, <1>5 DEF Used

\* The device that leaves is in no relay any more.
LEMMA UnregisterEnds ==
  ASSUME TrelayInv, NEW d \in Devs, unregistered(d)
  PROVE  TrelayInv'
  <1>1. /\ UNCHANGED <<ref, handler, frames, relays, mem, file, pending, module>>
        /\ Finished("unregister") /\ rtnl.who = <<"unregister", d>>
        /\ dev' = [dev EXCEPT ![d] = "todo"]
    BY DEF unregistered
  <1>2. /\ rtnl # None /\ rtnl' = None /\ rtnl.pc = "next"
        /\ Range(rtnl.left) = {}
        /\ Range(relays) = Used /\ Range(relays) = {r \in Slots : mem[r] # None}
        /\ ListInv' /\ HolderInv' /\ DisjointInv' /\ HandlerInv' /\ RefInv'
        /\ FrameInv'
    BY <1>1, Unlocked
  <1>3. /\ dev' \in [Devs -> {"registered", "leaving", "todo", "gone"}]
        /\ \A e \in Devs : dev'[e] = IF e = d THEN "todo" ELSE dev[e]
    BY <1>1 DEF TrelayInv, TypeOK
  <1>4. TypeOK'
    BY <1>1, <1>2, <1>3 DEF TrelayInv, TypeOK
  <1>5. DeviceInv'
    <2>1. \A r \in Used : d \notin DevsOf(r)
      BY <1>1, <1>2 DEF TrelayInv, DeviceInv, Held
    <2>2. \A r \in Used : DevsOf(r) \subseteq Devs
      BY TypeFacts DEF TrelayInv, DevsOf
    <2>3. \A e \in Devs : dev[e] = "leaving" => e = d
      BY <1>1 DEF TrelayInv, DeviceInv, Held
    <2> QED
      BY <1>1, <1>2, <1>3, <2>1, <2>2, <2>3
      DEF TrelayInv, DeviceInv, Held, Used, DevsOf
  <1>6. FileInv'
    BY <1>1, <1>2 DEF TrelayInv, FileInv, Held, At
  <1>7. ModuleInv'
    BY <1>1, <1>2 DEF TrelayInv, ModuleInv, Held, NoneGoing
  <1> QED
    BY <1>2, <1>4, <1>5, <1>6, <1>7 DEF TrelayInv

\* No mark of a relay needs the file that is released.
LEMMA ReleaseEnds ==
  ASSUME TrelayInv, NEW f \in Fds, release_end(f)
  PROVE  TrelayInv'
  <1>1. /\ UNCHANGED <<dev, ref, handler, frames, relays, mem, pending, module>>
        /\ Finished("release") /\ rtnl.who = <<"release", f>>
        /\ file' = [file EXCEPT ![f] = closed]
    BY DEF release_end
  <1>2. /\ rtnl # None /\ rtnl' = None /\ rtnl.pc = "next"
        /\ Range(rtnl.left) = {}
        /\ Range(relays) = Used /\ Range(relays) = {r \in Slots : mem[r] # None}
        /\ ListInv' /\ HolderInv' /\ DisjointInv' /\ HandlerInv' /\ RefInv'
        /\ FrameInv'
    BY <1>1, Unlocked
  <1>3. /\ file' \in [Fds -> [st : {"closed", "open", "writing", "release"},
                              priv : Slots \cup {None}, live : BOOLEAN]]
        /\ \A g \in Fds : g # f => file'[g] = file[g]
        /\ file'[f].st = "closed" /\ file'[f].live = FALSE
    BY <1>1 DEF TrelayInv, TypeOK, closed
  <1>4. TypeOK'
    BY <1>1, <1>2, <1>3 DEF TrelayInv, TypeOK
  <1>5. DeviceInv'
    BY <1>1, <1>2 DEF TrelayInv, DeviceInv, Held, Used, DevsOf
  <1>6. FileInv'
    <2>1. \A r \in Range(relays) : mem[r].to_remove =>
            \E g \in Fds : g # f /\ file[g].priv = r /\ file[g].st # "closed"
      BY <1>1, <1>2 DEF TrelayInv, FileInv, Held
    <2>2. \A g \in Fds : file[g].st = "writing" => file[g].priv \in Range(relays)
      BY <1>2 DEF TrelayInv, FileInv, At
    <2>3. \A g \in Fds : /\ file'[g].live => file'[g].priv \in Range(relays)
                         /\ file'[g].st = "writing" =>
                              file'[g].priv \in Range(relays)
      BY <1>3, <2>2 DEF TrelayInv, FileInv
    <2> QED
      BY <1>1, <1>2, <1>3, <2>1, <2>3 DEF FileInv, Held
  <1>7. ModuleInv'
    BY <1>1, <1>2, <1>3 DEF TrelayInv, ModuleInv, Held, NoneGoing
  <1> QED
    BY <1>2, <1>4, <1>5, <1>6, <1>7 DEF TrelayInv

\* The notifier has removed every relay, and the module can go.
LEMMA UnloadEnds ==
  ASSUME TrelayInv, notifier_unregistered \/ exit_end
  PROVE  TrelayInv'
  <1>1. PICK kind \in {"notifier", "exit"} :
          /\ UNCHANGED <<dev, ref, handler, frames, relays, mem, file, pending>>
          /\ Finished(kind)
          /\ kind = "notifier" => module' = module
          /\ kind = "exit" => module' = "out"
    BY DEF notifier_unregistered, exit_end
  <1>2. /\ rtnl # None /\ rtnl' = None /\ rtnl.pc = "next"
        /\ rtnl.who[1] = kind /\ rtnl.who \in Holders
        /\ Range(rtnl.left) = {}
        /\ Range(relays) = Used /\ Range(relays) = {r \in Slots : mem[r] # None}
        /\ ListInv' /\ HolderInv' /\ DisjointInv' /\ HandlerInv' /\ RefInv'
        /\ FrameInv'
    BY <1>1, Unlocked
  <1>3. rtnl.who = <<kind>>
    BY <1>2 DEF Holders
  <1>4. module = "going"
    BY <1>2, <1>3 DEF TrelayInv, ModuleInv, Held
  <1>5. relays = <<>>
    <2>1. \/ relays = <<>>
          \/ Range(relays) \subseteq Range(rtnl.left)
      BY <1>4 DEF TrelayInv, ModuleInv
    <2> QED
      BY <1>2, <2>1, InRange DEF TrelayInv, TypeOK
  <1>6. TypeOK'
    BY <1>1, <1>2, <1>4 DEF TrelayInv, TypeOK
  <1>7. DeviceInv'
    BY <1>1, <1>2, <1>3 DEF TrelayInv, DeviceInv, Held, Used, DevsOf
  <1>8. FileInv'
    BY <1>1, <1>2 DEF TrelayInv, FileInv, Held, At
  <1>9. ModuleInv'
    BY <1>1, <1>2, <1>4, <1>5 DEF TrelayInv, ModuleInv, Held, NoneGoing
  <1> QED
    BY <1>2, <1>6, <1>7, <1>8, <1>9 DEF TrelayInv

-----------------------------------------------------------------------------
(***************************************************************************)
(* trelay_do_add.                                                          *)
(***************************************************************************)

\* The state in which an add looks at its second device.
LEMMA Adding ==
  ASSUME TrelayInv, NEW q \in Requests, rtnl # None, rtnl.who = <<"add", q>>
  PROVE  /\ rtnl \in Section /\ rtnl.cur = None /\ rtnl.left \in Seq(Slots)
         /\ rtnl.pc \in {"dev2", "rollback", "stuck"}
         /\ Range(relays) = Used
         /\ q.dev1 \in Devs /\ q.dev2 \in Devs
         /\ q \in pending /\ module = "live"
         /\ dev[q.dev1] = "registered" /\ dev[q.dev2] = "registered"
         /\ \A r \in Used : /\ mem[r].dev1 \in Devs /\ mem[r].dev2 \in Devs
                            /\ handler[mem[r].dev1] = mem[r].dev2
                            /\ handler[mem[r].dev2] = mem[r].dev1
         /\ \A d \in Devs : ref[d] = IF \E r \in Used : d \in DevsOf(r)
                                     THEN 1 ELSE 0
  <1>1. rtnl \in Section /\ rtnl.who[1] = "add" /\ q.dev1 \in Devs /\ q.dev2 \in Devs
    BY TypeFacts, TrelayAssumption DEF TrelayInv, TrelayAssumption
  <1>2. /\ rtnl.cur = None /\ rtnl.pc \in {"dev2", "rollback", "stuck"}
        /\ q \in pending
        /\ dev[q.dev1] = "registered" /\ dev[q.dev2] = "registered"
    BY <1>1 DEF TrelayInv, HolderInv
  <1>3. module = "live"
    BY <1>2 DEF TrelayInv, ModuleInv
  <1>4. Range(relays) = Used
    BY <1>2, TypeFacts DEF TrelayInv, NoneGoing
  <1>5. \A r \in Used : /\ mem[r].dev1 \in Devs /\ mem[r].dev2 \in Devs
                        /\ handler[mem[r].dev1] = mem[r].dev2
                        /\ handler[mem[r].dev2] = mem[r].dev1
    BY <1>2, TypeFacts DEF TrelayInv, HandlerInv, At
  <1>6. \A d \in Devs : ref[d] = IF \E r \in Used : d \in DevsOf(r)
                                 THEN 1 ELSE 0
    BY <1>2 DEF TrelayInv, RefInv, At
  <1> QED
    BY <1>1, <1>2, <1>3, <1>4, <1>5, <1>6, SectionFields

\* The relay is complete: two devices that were in none.
LEMMA Added ==
  ASSUME TrelayInv, NEW q \in Requests, add_register_dev2(q)
  PROVE  TrelayInv'
  <1> DEFINE new == [name |-> q.name, dev1 |-> q.dev1, dev2 |-> q.dev2,
                     to_remove |-> FALSE]
             a == q.dev1
             b == q.dev2
  <1>1. /\ UNCHANGED <<dev, frames, file, module>>
        /\ At("dev2") /\ rtnl.who = <<"add", q>> /\ handler[b] = None
        /\ handler' = [handler EXCEPT ![b] = a]
        /\ ref' = [ref EXCEPT ![a] = @ + 1, ![b] = @ + 1]
        /\ rtnl' = None /\ pending' = pending \ {q}
    BY DEF add_register_dev2
  <1>2. PICK n \in Slots : /\ mem[n] = None
                           /\ mem' = [mem EXCEPT ![n] = new]
                           /\ relays' = Append(relays, n)
    BY DEF add_register_dev2
  <1>3. /\ rtnl # None /\ rtnl.pc = "dev2" /\ rtnl.cur = None
        /\ Range(relays) = Used /\ a \in Devs /\ b \in Devs
        /\ q \in pending /\ module = "live"
        /\ dev[a] = "registered" /\ dev[b] = "registered"
        /\ \A r \in Used : /\ mem[r].dev1 \in Devs /\ mem[r].dev2 \in Devs
                           /\ handler[mem[r].dev1] = mem[r].dev2
                           /\ handler[mem[r].dev2] = mem[r].dev1
        /\ \A d \in Devs : ref[d] = IF \E r \in Used : d \in DevsOf(r)
                                    THEN 1 ELSE 0
    BY <1>1, Adding DEF At
  <1>4. new \in Relay /\ new.dev1 = a /\ new.dev2 = b /\ new.to_remove = FALSE
    BY <1>3 DEF Relay
  <1>5. None \notin Devs /\ None \notin Relay
    BY TypeFacts DEF TrelayInv
  <1> HIDE DEF new, a, b
  <1>6. /\ handler[a] = b /\ a # b
        /\ \A r \in Used : a \notin DevsOf(r) /\ b \notin DevsOf(r)
    <2>1. handler[a] = b /\ \A r \in Used : a \notin DevsOf(r)
      BY <1>1, <1>3 DEF TrelayInv, HandlerInv, Held, At, a, b
    <2>2. \A r \in Used : b \notin DevsOf(r)
      BY <1>1, <1>3, <1>5 DEF DevsOf
    <2> QED
      BY <1>1, <1>3, <1>5, <2>1, <2>2
  <1>7. /\ mem' \in [Slots -> Relay \cup {None}]
        /\ n \notin Used /\ Used' = Used \cup {n}
        /\ \A r \in Used : mem'[r] = mem[r] /\ DevsOf(r)' = DevsOf(r)
        /\ mem'[n] = new /\ DevsOf(n)' = {a, b}
    BY <1>2, <1>4, <1>5 DEF TrelayInv, TypeOK, Used, DevsOf
  <1>8. /\ relays' \in Seq(Slots) /\ IsInjective(relays')
        /\ Range(relays') = Range(relays) \cup {n}
    BY <1>2, <1>3, <1>7, AddTail DEF TrelayInv, TypeOK, ListInv
  <1>9. /\ handler' \in [Devs -> Devs \cup {None, Bridge}]
        /\ \A d \in Devs : handler'[d] = IF d = b THEN a ELSE handler[d]
    BY <1>1, <1>3 DEF TrelayInv, TypeOK
  <1>10. /\ ref' \in [Devs -> 0..1]
         /\ \A d \in Devs : ref'[d] = IF d \in {a, b} THEN 1 ELSE ref[d]
    <2>1. ref[a] = 0 /\ ref[b] = 0 /\ ref \in [Devs -> 0..1]
      BY <1>3, <1>6 DEF TrelayInv, TypeOK
    <2> QED
      BY <1>1, <1>3, <1>6, <2>1
  <1>11. TypeOK'
    BY <1>1, <1>3, <1>7, <1>8, <1>9, <1>10 DEF TrelayInv, TypeOK, Used
  <1>12. ListInv' /\ HolderInv'
    BY <1>1, <1>8 DEF ListInv, HolderInv
  <1>13. DisjointInv'
    BY <1>4, <1>6, <1>7 DEF TrelayInv, DisjointInv
  <1>14. RefInv'
    BY <1>1, <1>3, <1>6, <1>7, <1>10 DEF RefInv, At
  <1>15. HandlerInv'
    <2>1. \A r \in Used' : /\ handler'[mem'[r].dev1] = mem'[r].dev2
                           /\ handler'[mem'[r].dev2] = mem'[r].dev1
      BY <1>3, <1>4, <1>6, <1>7, <1>9 DEF DevsOf
    <2>2. \A d \in Devs : handler[d] \in Devs =>
            d = a \/ \E r \in Used : d \in DevsOf(r)
      BY <1>1 DEF TrelayInv, HandlerInv, Held, a
    <2>3. \A d \in Devs : handler'[d] \in Devs => \E r \in Used' : d \in DevsOf(r)'
      BY <1>7, <1>9, <2>2
    <2> QED
      BY <1>1, <2>1, <2>3 DEF HandlerInv, At, Held
  <1>16. DeviceInv'
    <2>1. \A r \in Used' : \A d \in DevsOf(r)' : dev[d] \in {"registered", "leaving"}
      BY <1>3, <1>7 DEF TrelayInv, DeviceInv
    <2>2. \A d \in Devs : dev[d] # "leaving"
      BY <1>1 DEF TrelayInv, DeviceInv, Held
    <2> QED
      BY <1>1, <2>1, <2>2 DEF DeviceInv, Held
  <1>17. FrameInv'
    <2> SUFFICES ASSUME NEW m \in frames
                 PROVE  \E r \in Used' : \/ m = <<mem'[r].dev1, mem'[r].dev2>>
                                         \/ m = <<mem'[r].dev2, mem'[r].dev1>>
      BY <1>1 DEF FrameInv, At
    <2>1. \/ \E r \in Used : \/ m = <<mem[r].dev1, mem[r].dev2>>
                             \/ m = <<mem[r].dev2, mem[r].dev1>>
          \/ m = <<a, b>>
      BY <1>1 DEF TrelayInv, FrameInv, Held, a, b
    <2> QED
      BY <1>4, <1>7, <2>1
  <1>18. FileInv'
    <2>1. \A f \in Fds : /\ file[f].live => file[f].priv \in Range(relays')
                         /\ file[f].st = "writing" => file[f].priv \in Range(relays')
      BY <1>3, <1>8 DEF TrelayInv, FileInv, At
    <2>2. \A r \in Range(relays') : mem'[r].to_remove =>
            \E f \in Fds : file[f].priv = r /\ file[f].st # "closed"
      BY <1>3, <1>4, <1>7, <1>8 DEF TrelayInv, FileInv
    <2> QED
      BY <1>1, <2>1, <2>2 DEF FileInv, Held
  <1>19. ModuleInv'
    BY <1>1, <1>3 DEF ModuleInv, Held
  <1> QED
    BY <1>11, <1>12, <1>13, <1>14, <1>15, <1>16, <1>17, <1>18, <1>19 DEF TrelayInv

\* The second device is not free: the handler of the first goes again.
LEMMA AddBusy ==
  ASSUME TrelayInv, NEW q \in Requests, add_busy(q)
  PROVE  TrelayInv'
  <1>1. /\ UNCHANGED <<dev, ref, frames, relays, mem, file, pending, module>>
        /\ At("dev2") /\ rtnl.who = <<"add", q>>
        /\ handler' = [handler EXCEPT ![q.dev1] = None]
        /\ \E pc \in {"rollback", "stuck"} : rtnl' = [rtnl EXCEPT !.pc = pc]
    BY DEF add_busy
  <1>2. /\ rtnl # None /\ rtnl.pc = "dev2" /\ rtnl \in Section /\ rtnl.cur = None
        /\ Range(relays) = Used /\ q.dev1 \in Devs /\ q.dev2 \in Devs
        /\ module = "live"
        /\ \A r \in Used : /\ mem[r].dev1 \in Devs /\ mem[r].dev2 \in Devs
                           /\ handler[mem[r].dev1] = mem[r].dev2
                           /\ handler[mem[r].dev2] = mem[r].dev1
    BY <1>1, Adding DEF At
  <1>3. \A r \in Used : q.dev1 \notin DevsOf(r)
    BY <1>1, <1>2 DEF TrelayInv, HandlerInv, Held
  <1>4. /\ rtnl' \in Section /\ rtnl'.who = rtnl.who
        /\ rtnl'.pc \in {"rollback", "stuck"}
        /\ rtnl'.cur = None /\ rtnl'.left = rtnl.left
    BY <1>1, <1>2 DEF Section
  <1>5. rtnl' # None /\ None \notin Devs
    BY <1>4, TypeFacts DEF TrelayInv
  <1>6. /\ handler' \in [Devs -> Devs \cup {None, Bridge}]
        /\ \A d \in Devs : handler'[d] = IF d = q.dev1 THEN None ELSE handler[d]
    BY <1>1, <1>2 DEF TrelayInv, TypeOK
  <1>7. TypeOK'
    BY <1>1, <1>2, <1>4, <1>5, <1>6 DEF TrelayInv, TypeOK
  <1>8. ListInv' /\ DisjointInv' /\ RefInv'
    BY <1>1, <1>2, <1>4, <1>5
    DEF TrelayInv, ListInv, DisjointInv, RefInv, Used, DevsOf, At
  <1>9. HolderInv'
    BY <1>1, <1>2, <1>4, <1>5 DEF TrelayInv, HolderInv
  <1>10. HandlerInv'
    <2>1. \A r \in Used : /\ handler'[mem[r].dev1] = mem[r].dev2
                          /\ handler'[mem[r].dev2] = mem[r].dev1
      BY <1>2, <1>3, <1>6 DEF DevsOf
    <2>2. \A d \in Devs : handler'[d] \in Devs => \E r \in Used : d \in DevsOf(r)
      BY <1>1, <1>5, <1>6 DEF TrelayInv, HandlerInv, Held
    <2>3. ~At("sync1")' /\ ~At("sync2")' /\ ~At("dev2")'
      BY <1>4 DEF At
    <2> QED
      BY <1>1, <2>1, <2>2, <2>3 DEF HandlerInv, Used, DevsOf
  <1>11. DeviceInv' /\ FrameInv'
    BY <1>1, <1>2, <1>4, <1>5
    DEF TrelayInv, DeviceInv, FrameInv, Used, DevsOf, At, Held
  <1>12. FileInv' /\ ModuleInv'
    BY <1>1, <1>2, <1>4, <1>5 DEF TrelayInv, FileInv, ModuleInv, At, Held, NoneGoing
  <1> QED
    BY <1>7, <1>8, <1>9, <1>10, <1>11, <1>12 DEF TrelayInv

\* The rollback has waited for the frames of the first device.
LEMMA AddFails ==
  ASSUME TrelayInv, NEW q \in Requests, add_busy_end(q)
  PROVE  TrelayInv'
  <1>1. /\ UNCHANGED <<dev, ref, handler, frames, relays, mem, file, module>>
        /\ At("rollback") /\ rtnl.who = <<"add", q>> /\ Synchronized(q.dev1)
        /\ rtnl' = None /\ pending' = pending \ {q}
    BY DEF add_busy_end
  <1>2. /\ rtnl # None /\ rtnl.pc = "rollback" /\ rtnl.cur = None
        /\ Range(relays) = Used /\ module = "live"
    BY <1>1, Adding DEF At
  <1>3. TypeOK'
    BY <1>1, <1>2 DEF TrelayInv, TypeOK, Used
  <1>4. ListInv' /\ HolderInv' /\ DisjointInv' /\ RefInv'
    BY <1>1, <1>2
    DEF TrelayInv, ListInv, HolderInv, DisjointInv, RefInv, Used, DevsOf, At
  <1>5. HandlerInv' /\ DeviceInv'
    BY <1>1, <1>2 DEF TrelayInv, HandlerInv, DeviceInv, Used, DevsOf, At, Held
  <1>6. FrameInv'
    BY <1>1, <1>2 DEF TrelayInv, FrameInv, Used, At, Held, Synchronized
  <1>7. FileInv' /\ ModuleInv'
    BY <1>1, <1>2 DEF TrelayInv, FileInv, ModuleInv, At, Held, NoneGoing
  <1> QED
    BY <1>3, <1>4, <1>5, <1>6, <1>7 DEF TrelayInv

-----------------------------------------------------------------------------
(***************************************************************************)
(* The theorems.                                                           *)
(***************************************************************************)

\* TrelayInv is an invariant of trelay and of everything around it.
THEOREM TrelayInvariant == Spec => []TrelayInv
  <1>1. TrelayInv /\ [Next]_vars => TrelayInv'
    <2> SUFFICES ASSUME TrelayInv, [Next]_vars
                 PROVE  TrelayInv'
      OBVIOUS
    <2>1. ASSUME NEW d \in Devs, handle_frame(d)
          PROVE  TrelayInv'
      BY <2>1, FrameIn
    <2>2. ASSUME NEW d \in Devs, tr_device_event(d)
          PROVE  TrelayInv'
      BY <2>2, UnregisterBegins
    <2>3. ASSUME NEW d \in Devs, unregistered(d)
          PROVE  TrelayInv'
      BY <2>3, UnregisterEnds
    <2>4. ASSUME NEW d \in Devs,
                 free_netdev(d) \/ register_netdevice(d) \/ bridge_port(d)
          PROVE  TrelayInv'
      BY <2>4, DeviceStep
    <2>5. ASSUME NEW m \in frames, dev_queue_xmit(m)
          PROVE  TrelayInv'
      BY <2>5, FrameOut
    <2>6. CASE Removal
      BY <2>6, Skipped, Unlisted, References, SecondHandler, Freed DEF Removal
    <2>7. ASSUME NEW q \in Requests, trelay_add_write(q) \/ Add(q)
          PROVE  TrelayInv'
      BY <2>7, AddAsked, AddBegins, Added, AddBusy, AddFails DEF Add
    <2>8. ASSUME NEW f \in Fds,
                 \/ \E r \in Slots : trelay_open(f, r)
                 \/ debugfs_file_get(f)
                 \/ close(f)
          PROVE  TrelayInv'
      BY <2>8, FileStep
    <2>9. ASSUME NEW f \in Fds, trelay_remove_write(f)
          PROVE  TrelayInv'
      BY <2>9, Marked
    <2>10. ASSUME NEW f \in Fds, release_end(f)
           PROVE  TrelayInv'
      BY <2>10, ReleaseEnds
    <2>11. ASSUME \/ \E f \in Fds : trelay_remove_release(f)
                  \/ unregister_netdevice_notifier
                  \/ trelay_exit
           PROVE  TrelayInv'
      BY <2>11, RemovalBegins
    <2>12. CASE notifier_unregistered \/ exit_end
      BY <2>12, UnloadEnds
    <2>13. CASE trelay_init
      BY <2>13, Loaded
    <2>14. CASE UNCHANGED vars
      <3>1. UNCHANGED <<dev, ref, handler, frames, relays, mem, file, pending,
                        rtnl, module>>
        BY <2>14 DEF vars
      <3>2. TypeOK'
        BY <3>1 DEF TrelayInv, TypeOK
      <3> QED
        BY <3>1, <3>2 DEF TrelayInv, ListInv, HolderInv, DisjointInv, HandlerInv,
          RefInv, DeviceInv, FrameInv, FileInv, ModuleInv, Used, DevsOf, Held, At,
          NoneGoing
    <2> QED
      BY <2>1, <2>2, <2>3, <2>4, <2>5, <2>6, <2>7, <2>8, <2>9, <2>10, <2>11,
         <2>12, <2>13, <2>14 DEF Next, Unload
  <1> QED
    BY <1>1, TrelayInit, PTL DEF Spec

\* Whenever nobody holds the lock the relays, the handlers, the references and
\* the files agree, whichever path made or removed a relay.
THEOREM RelaysStayIntact == Spec => []RelaysIntact
  <1>1. TrelayInv => RelaysIntact
    <2> SUFFICES ASSUME TrelayInv
                 PROVE  RelaysIntact
      OBVIOUS
    <2>1. HandlersAreRelays
      <3> SUFFICES ASSUME rtnl = None
                   PROVE  /\ \A d, e \in Devs :
                               handler[d] = e <=>
                               \E r \in Range(relays) :
                                 <<d, e>> \in {<<mem[r].dev1, mem[r].dev2>>,
                                               <<mem[r].dev2, mem[r].dev1>>}
                          /\ \A d \in Devs : handler[d] # d
        BY DEF HandlersAreRelays
      <3>1. /\ Range(relays) = Used
            /\ \A r \in Used : mem[r].dev1 \in Devs /\ mem[r].dev2 \in Devs
        BY TypeFacts DEF TrelayInv, NoneGoing
      <3>2. \A d, e \in Devs : handler[d] = e =>
              \E r \in Used : \/ d = mem[r].dev1 /\ e = mem[r].dev2
                              \/ d = mem[r].dev2 /\ e = mem[r].dev1
        BY HandlersComplete DEF DevsOf
      <3>3. \A d, e \in Devs : \A r \in Used :
              (\/ d = mem[r].dev1 /\ e = mem[r].dev2
               \/ d = mem[r].dev2 /\ e = mem[r].dev1) => handler[d] = e
        BY HandlersComplete
      <3>4. \A d, e, x, y : <<d, e>> \in {<<x, y>>, <<y, x>>} <=>
                             \/ d = x /\ e = y
                             \/ d = y /\ e = x
        OBVIOUS
      <3>5. \A d \in Devs : handler[d] # d
        BY <3>2 DEF TrelayInv, DisjointInv
      <3>6. ASSUME NEW d \in Devs, NEW e \in Devs
            PROVE  handler[d] = e <=>
                   \E r \in Used : <<d, e>> \in {<<mem[r].dev1, mem[r].dev2>>,
                                                <<mem[r].dev2, mem[r].dev1>>}
        BY <3>2, <3>3, <3>4
      <3> QED
        BY <3>1, <3>5, <3>6
    <2>2. ReferencesAreRelays
      <3> SUFFICES ASSUME rtnl = None, NEW d \in Devs
                   PROVE  LET In == {r \in Range(relays) : d \in {mem[r].dev1, mem[r].dev2}}
                          IN  /\ ref[d] = Cardinality(In)
                              /\ dev[d] \in {"todo", "gone"} => In = {}
        BY DEF ReferencesAreRelays
      <3> DEFINE In == {r \in Range(relays) : d \in {mem[r].dev1, mem[r].dev2}}
      <3>1. In = {r \in Used : d \in DevsOf(r)}
        BY TypeFacts DEF TrelayInv, NoneGoing, DevsOf
      <3>2. ref[d] = IF \E r \in Used : d \in DevsOf(r) THEN 1 ELSE 0
        BY DEF TrelayInv, RefInv, At
      <3>3. dev[d] \in {"todo", "gone"} => In = {}
        BY <3>1 DEF TrelayInv, DeviceInv
      <3>4. CASE In = {}
        BY <3>1, <3>2, <3>4, FS_EmptySet
      <3>5. CASE In # {}
        <4>1. PICK r \in In : TRUE
          BY <3>5
        <4>2. In = {r}
          BY <3>1, <4>1 DEF TrelayInv, DisjointInv
        <4>3. Cardinality(In) = 1
          BY <4>2, FS_Singleton
        <4> QED
          BY <3>1, <3>2, <3>3, <4>1, <4>3
      <3> QED
        BY <3>3, <3>4, <3>5
    <2>3. MarkedIsOpen
      BY DEF TrelayInv, FileInv, MarkedIsOpen
    <2> QED
      BY <2>1, <2>2, <2>3 DEF TrelayInv, RelaysIntact
  <1> QED
    BY <1>1, TrelayInvariant, PTL

\* No frame is sent to a device that was freed and no write reaches a relay that
\* was freed, although a removal drops the references before it takes the
\* handlers away and a file outlives its relay.
THEOREM NoUseAfterFree == Spec => []NothingFreedInUse
  <1>1. TrelayInv => NothingFreedInUse
    <2> SUFFICES ASSUME TrelayInv
                 PROVE  TargetAlive /\ NoDanglingWrite
      BY DEF NothingFreedInUse
    <2>1. \A r \in Used : dev[mem[r].dev1] # "gone" /\ dev[mem[r].dev2] # "gone"
      BY DEF TrelayInv, DeviceInv, DevsOf
    <2>2. ASSUME NEW m \in frames
          PROVE  dev[m[2]] # "gone"
      <3>1. CASE \E r \in Used : \/ m = <<mem[r].dev1, mem[r].dev2>>
                                 \/ m = <<mem[r].dev2, mem[r].dev1>>
        BY <2>1, <3>1
      <3>2. CASE \E q \in Requests : Held(<<"add", q>>) /\ m = <<q.dev1, q.dev2>>
        BY <3>2 DEF TrelayInv, HolderInv, Held
      <3> QED
        BY <3>1, <3>2 DEF TrelayInv, FrameInv
    <2>3. At("sync1") \/ At("sync2") => rtnl.cur \in Used
      BY BeingRemoved
    <2>4. TargetAlive
      BY <2>1, <2>2, <2>3 DEF TargetAlive
    <2>5. ASSUME NEW f \in Fds, file[f].st = "writing"
          PROVE  file[f].priv \in Used
      BY <2>5, BeingRemoved, TypeFacts DEF TrelayInv, FileInv
    <2> QED
      BY <2>4, <2>5 DEF NoDanglingWrite, Used
  <1> QED
    BY <1>1, TrelayInvariant, PTL

\* Nothing of the module is left when it is gone.
THEOREM UnloadLeavesNothing == Spec => []NothingLeft
  <1>1. TrelayInv => NothingLeft
    <2> SUFFICES ASSUME TrelayInv, module = "out"
                 PROVE  /\ relays = <<>> /\ frames = {} /\ pending = {}
                        /\ \A d \in Devs : handler[d] \notin Devs /\ ref[d] = 0
                        /\ \A f \in Fds : file[f].st = "closed"
      BY DEF NothingLeft
    <2>1. /\ relays = <<>> /\ pending = {} /\ NoneGoing
          /\ \A f \in Fds : file[f].st = "closed"
      BY DEF TrelayInv, ModuleInv
    <2>2. Used = {}
      <3>1. Range(relays) = {}
        BY <2>1 DEF Range
      <3> QED
        BY <2>1, <3>1, TypeFacts DEF TrelayInv
    <2>3. \A q \in Requests : ~Held(<<"add", q>>)
      BY <2>1 DEF TrelayInv, HolderInv, Held
    <2>4. frames = {}
      BY <2>2, <2>3 DEF TrelayInv, FrameInv
    <2>5. \A d \in Devs : handler[d] \notin Devs /\ ref[d] = 0
      BY <2>2, <2>3 DEF TrelayInv, HandlerInv, RefInv
    <2> QED
      BY <2>1, <2>4, <2>5
  <1> QED
    BY <1>1, TrelayInvariant, PTL
=============================================================================
