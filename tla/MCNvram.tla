------------------------------- MODULE MCNvram -------------------------------
(***************************************************************************)
(* Small instances of the nvram command for TLC: two variables and two of  *)
(* the four SDRAM parameters, in two buckets of the hash table.            *)
(***************************************************************************)
EXTENDS Nvram

CONSTANTS p1, p2

MCNames   == {"a", "b", "init", "ncdl"}
MCValues  == {"1", "long", "0x0", "0x7"}
MCSdram   == <<"init", "ncdl">>
MCBucket  == [n \in MCNames |-> IF n \in {"a", "init"} THEN 1 ELSE 2]
MCNameLen == [n \in MCNames |-> IF n \in {"a", "b"} THEN 1 ELSE 4]
MCValLen  == [v \in MCValues |-> CASE v = "1" -> 1 [] v = "long" -> 7 [] OTHER -> 3]
MCNum     == [v \in MCValues |-> CASE v = "0x7" -> 7 [] v = "1" -> 1 [] OTHER -> 0]
MCHex     == [k \in {0, 1, 7} |-> CASE k = 0 -> "0x0" [] k = 7 -> "0x7" [] OTHER -> "1"]
MCDefault == [n \in {"init", "ncdl"} |-> IF n = "init" THEN 7 ELSE 0]

Arg(op)     == [op |-> op, name |-> "a", value |-> "1"]
Set(n, v)   == [op |-> "set", name |-> n, value |-> v]
Unset(n)    == [op |-> "unset", name |-> n, value |-> "1"]
Get(n)      == [op |-> "get", name |-> n, value |-> "1"]

\* An image the bootloader wrote: SDRAM parameters in the header only.
BootImage == [tuples |-> <<Tuple("b", "1")>>, len |-> 28,
              sdram |-> [n \in {"init", "ncdl"} |-> 1]]

MCImages == {BootImage}

SerialCommands ==
  {<<Set("a", "long")>>, <<Set("a", "1"), Unset("b")>>, <<Unset("init")>>,
   <<Set("b", "long"), Arg("commit")>>, <<Arg("commit"), Arg("bad")>>,
   <<Get("a"), Arg("commit")>>, <<Get("a"), Arg("bad")>>, <<Unset("a"), Arg("bad")>>}

RaceCommands ==
  {<<Set("a", "1")>>, <<Set("b", "long"), Arg("commit")>>, <<Arg("commit")>>,
   <<Get("b")>>}

RaceNames   == {"a", "b"}
RaceSdram   == <<>>
RaceNameLen == [n \in RaceNames |-> 1]
RaceBucket  == [n \in RaceNames |-> 1]
RaceDefault == [n \in {} |-> 0]
RaceImages  == {[tuples |-> <<Tuple("b", "1")>>, len |-> 28, sdram |-> RaceDefault]}

Symmetry == Permutations(Procs)
=============================================================================
