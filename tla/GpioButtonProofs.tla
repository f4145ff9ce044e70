--------------------------- MODULE GpioButtonProofs ---------------------------
(***************************************************************************)
(* Proofs about gpio-button-hotplug, for every board: what a report to     *)
(* user space says of the button, the order and the content of the         *)
(* uevents on one CPU, and that a removed driver is quiet.                 *)
(***************************************************************************)
EXTENDS GpioButton, FiniteSetTheorems, SequenceTheorems, TLAPS

-----------------------------------------------------------------------------
(***************************************************************************)
(* The inductive invariant.                                                *)
(***************************************************************************)

\* A work item has written as many variables as it says.
FillInv ==
  \A k \in DOMAIN events :
    /\ events[k].pc = "queued" => Len(events[k].out) = 0
    /\ events[k].pc \in {"fill", "copy"} => Len(events[k].out) \in {0, 1}

\* Whoever could look at a button again was stopped: what is behind a close
\* that goes through the buttons stays quiet.
QuietInv ==
  /\ Polled => work = {} /\ \A b \in Buttons : irq[b] = "none"
  /\ ~Polled => ~poll
  /\ step = "close" => \A b \in Buttons : b < i => irq[b] # "on" /\ b \notin work
  /\ step = "removed" => /\ ~poll
                         /\ \A b \in Buttons : irq[b] # "on" /\ b \notin work

\* The driver's memory of the last change is the last change it handled.
ToldInv ==
  /\ told \in [Buttons -> [state : {-1, 0, 1}, at : 0..Jiffies-1, seen : 0..Jiffies-1]]
  /\ \A b \in Buttons :
       IF told[b].state # -1
       THEN bdata[b].last_state = told[b].state /\ bdata[b].seen = told[b].at
       ELSE bdata[b].last_state = -1 \/ (bdata[b].last_state = 0 /\ Type[b] = "EV_KEY")

\* The counter counts readings in a row that differ from the last state.
CountInv ==
  /\ readings \in [Buttons -> [state : {-1, 0, 1}, n : Nat]]
  /\ \A b \in Buttons :
       bdata[b].count > 0 /\ ~(bdata[b].last_state = -1 /\ Type[b] = "EV_SW") =>
         /\ readings[b].state \in {0, 1} \ {bdata[b].last_state}
         /\ bdata[b].last_state = -1 => readings[b].state = 1
         /\ readings[b].n >= bdata[b].count

\* On one CPU the buffer belongs to the one work item that has filled and not
\* yet copied it; what is in a message is the item's own.
CreatedInv ==
  Cpus = 1 =>
    /\ \A k \in DOMAIN events :
         LET e == events[k]
             n == Len(e.out)
         IN  /\ n > 0 => e.out[1] = Variables(e)[1]
             /\ e.pc = "copy" => buf = Variables(e)[n + 1]
             /\ e.pc = "send" => e.out = Variables(e)
    /\ \A j, k \in DOMAIN events :
         events[j].pc = "copy" /\ events[k].pc = "copy" => j = k
    /\ \A k \in DOMAIN sent : sent[k].out = Variables(sent[k])

\* The uevents that were sent and the work items behind them, as one queue.
Total    == Len(sent) + Len(events)
Entry(n) == IF n <= Len(sent) THEN sent[n] ELSE events[n - Len(sent)]

\* The entries of a button in the queue alternate, and the last one is the
\* last change that was handled.
Alternates ==
  \A j, k \in 1..Total :
    /\ j < k /\ Entry(j).btn = Entry(k).btn
    /\ \A m \in j+1..k-1 : Entry(m).btn # Entry(k).btn
    => Entry(j).state # Entry(k).state
Latest ==
  \A j \in 1..Total :
    (\A m \in j+1..Total : Entry(m).btn # Entry(j).btn) =>
      told[Entry(j).btn].state = Entry(j).state
OrderInv == Cpus = 1 /\ ~Sleeps /\ fails = 0 => Alternates /\ Latest

GpioInv ==
  /\ TypeOK
  /\ FillInv
  /\ QuietInv
  /\ ToldInv
  /\ CountInv
  /\ CreatedInv
  /\ OrderInv

-----------------------------------------------------------------------------
(***************************************************************************)
(* The board, and lists.                                                   *)
(***************************************************************************)

\* What the device tree and the kernel give.
LEMMA Board ==
  ASSUME TypeOK
  PROVE  /\ setup.nbuttons \in Nat /\ Buttons = 1..setup.nbuttons
         /\ Threshold \in [Buttons -> Nat]
         /\ Type \in [Buttons -> {"EV_KEY", "EV_SW"}]
         /\ Polled \in BOOLEAN /\ Sleeps \in BOOLEAN
         /\ Jiffies \in Nat \ {0} /\ Cpus \in Nat \ {0}
         /\ MaxFlips \in Nat /\ MaxFails \in Nat
  <1>1. setup \in Setups
    BY DEF TypeOK
  <1>2. /\ setup.nbuttons \in 0..MaxButtons /\ MaxButtons \in Nat
        /\ setup.type \in [1..setup.nbuttons -> {"EV_KEY", "EV_SW"}]
        /\ setup.threshold \in [1..setup.nbuttons -> Nat]
        /\ {setup.polled, setup.sleeps} \subseteq BOOLEAN
        /\ {setup.jiffies, setup.cpus} \subseteq Nat \ {0}
        /\ {setup.flips, setup.fails} \subseteq Nat
    BY <1>1, ButtonAssumption DEF ButtonAssumption
  <1> QED
    BY <1>2 DEF Buttons, Threshold, Type, Polled, Sleeps, Jiffies, Cpus,
      MaxFlips, MaxFails

\* It stays what it is.
LEMMA SameBoard ==
  ASSUME setup' = setup
  PROVE  /\ Buttons' = Buttons /\ Threshold' = Threshold /\ Type' = Type
         /\ Polled' = Polled /\ Sleeps' = Sleeps /\ Jiffies' = Jiffies
         /\ Cpus' = Cpus /\ MaxFlips' = MaxFlips /\ MaxFails' = MaxFails
         /\ Variable' = Variable /\ WorkItem' = WorkItem
  BY DEF Buttons, Threshold, Type, Polled, Sleeps, Jiffies, Cpus, MaxFlips,
    MaxFails, Variable, WorkItem

\* The types of what is not a list.
LEMMA Types ==
  ASSUME TypeOK
  PROVE  /\ level \in [Buttons -> {0, 1}] /\ edge \in [Buttons -> BOOLEAN]
         /\ irq \in [Buttons -> {"none", "requested", "on", "failed", "off"}]
         /\ work \subseteq Buttons /\ poll \in BOOLEAN
         /\ now \in 0..Jiffies-1 /\ i \in 1..setup.nbuttons+1
         /\ flips \in 0..MaxFlips /\ fails \in 0..MaxFails
  BY DEF TypeOK

\* The clock stays in its range.
LEMMA Modulo ==
  ASSUME NEW a \in Int, NEW m \in Nat \ {0}
  PROVE  a % m \in 0..m-1
  OBVIOUS

\* The position k leaves a list.
LEMMA Removed ==
  ASSUME NEW S, NEW s \in Seq(S), NEW k \in 1..Len(s)
  PROVE  /\ RemoveAt(s, k) \in Seq(S) /\ Len(RemoveAt(s, k)) = Len(s) - 1
         /\ \A j \in 1..Len(s) - 1 :
              RemoveAt(s, k)[j] = IF j < k THEN s[j] ELSE s[j + 1]
  <1> DEFINE a == SubSeq(s, 1, k - 1)
             b == SubSeq(s, k + 1, Len(s))
             t == a \o b
  <1>1. Len(s) \in Nat /\ k \in Nat /\ 1 <= k /\ k <= Len(s)
    OBVIOUS
  <1>2. /\ a \in Seq(S) /\ Len(a) = k - 1
        /\ \A j \in 1..k - 1 : a[j] = s[j]
    <2>1. /\ \A j \in 1..k - 1 : s[j] \in S
          /\ (k - 1) - 1 + 1 = k - 1 /\ k - 1 \in Int
      BY <1>1
    <2>2. /\ a \in Seq(S)
          /\ Len(a) = IF 1 <= k - 1 THEN (k - 1) - 1 + 1 ELSE 0
          /\ \A j \in 1..(k - 1) - 1 + 1 : a[j] = s[1 + j - 1]
      BY <2>1, SubSeqProperties
    <2> QED
      BY <1>1, <2>1, <2>2
  <1>3. /\ b \in Seq(S) /\ Len(b) = Len(s) - k
        /\ \A j \in 1..Len(s) - k : b[j] = s[k + j]
    <2>1. /\ \A j \in k + 1..Len(s) : s[j] \in S
          /\ Len(s) - (k + 1) + 1 = Len(s) - k /\ k + 1 \in Int /\ Len(s) \in Int
      BY <1>1
    <2>2. /\ b \in Seq(S)
          /\ Len(b) = IF k + 1 <= Len(s) THEN Len(s) - (k + 1) + 1 ELSE 0
          /\ \A j \in 1..Len(s) - (k + 1) + 1 : b[j] = s[(k + 1) + j - 1]
      BY <2>1, SubSeqProperties
    <2> HIDE DEF b
    <2>3. ASSUME NEW j \in 1..Len(s) - k
          PROVE  b[j] = s[k + j]
      <3>1. (k + 1) + j - 1 = k + j
        BY <1>1
      <3>2. b[j] = s[(k + 1) + j - 1]
        BY <2>1, <2>2
      <3> QED
        BY <3>1, <3>2
    <2>4. Len(b) = Len(s) - k
      <3>1. k + 1 <= Len(s) \/ k = Len(s)
        BY <1>1
      <3>2. CASE k + 1 <= Len(s)
        BY <2>1, <2>2, <3>2
      <3>3. CASE k = Len(s)
        BY <1>1, <2>2, <3>3
      <3> QED
        BY <3>1, <3>2, <3>3
    <2> QED
      BY <2>2, <2>3, <2>4
  <1> HIDE DEF a, b
  <1>4. /\ t \in Seq(S) /\ Len(t) = Len(a) + Len(b)
        /\ \A j \in 1..Len(a) + Len(b) :
             t[j] = IF j <= Len(a) THEN a[j] ELSE b[j - Len(a)]
    BY <1>2, <1>3, ConcatProperties
  <1> HIDE DEF t
  <1>5. ASSUME NEW j \in 1..Len(s) - 1
        PROVE  t[j] = IF j < k THEN s[j] ELSE s[j + 1]
    <2>1. CASE j < k
      <3>1. j <= Len(a) /\ j \in 1..k - 1 /\ j \in 1..Len(a) + Len(b)
        BY <1>1, <1>2, <1>3, <2>1
      <3> QED
        BY <1>2, <1>4, <2>1, <3>1
    <2>2. CASE ~(j < k)
      <3>1. /\ j - Len(a) \in 1..Len(s) - k /\ k + (j - Len(a)) = j + 1
            /\ ~(j <= Len(a)) /\ j \in 1..Len(a) + Len(b)
        BY <1>1, <1>2, <1>3, <2>2
      <3> QED
        BY <1>3, <1>4, <2>2, <3>1
    <2> QED
      BY <2>1, <2>2
  <1>6. Len(t) = Len(s) - 1
    BY <1>1, <1>2, <1>3, <1>4
  <1>7. RemoveAt(s, k) = t
    BY DEF RemoveAt, t, a, b
  <1> QED
    BY <1>4, <1>5, <1>6, <1>7

-----------------------------------------------------------------------------
(***************************************************************************)
(* The steps that handle no button and no work item of an event.           *)
(***************************************************************************)

\* They leave alone what was told and what is to be told; a failure is counted.
LEMMA Undisturbed ==
  ASSUME GpioInv, fails <= fails', fails' \in Nat,
         UNCHANGED <<setup, bdata, events, outVars, readings, told>>
  PROVE  FillInv' /\ ToldInv' /\ CountInv' /\ CreatedInv' /\ OrderInv'
  <1>1. /\ setup' = setup /\ bdata' = bdata /\ events' = events /\ buf' = buf
        /\ sent' = sent /\ readings' = readings /\ told' = told
    BY DEF outVars
  <1>2. FillInv'
    BY <1>1 DEF GpioInv, FillInv
  <1>3. ToldInv' /\ CountInv'
    BY <1>1, SameBoard DEF GpioInv, ToldInv, CountInv
  <1>4. CreatedInv'
    BY <1>1, SameBoard DEF GpioInv, CreatedInv, Variables
  <1>5. fails' = 0 => fails = 0
    BY DEF GpioInv, TypeOK
  <1>6. Alternates' = Alternates /\ Latest' = Latest
    BY <1>1 DEF Alternates, Latest, Total, Entry
  <1>7. OrderInv'
    BY <1>1, <1>5, <1>6, SameBoard DEF GpioInv, OrderInv
  <1> QED
    BY <1>2, <1>3, <1>4, <1>7

\* The probe queues the first readings and requests the interrupts.
LEMMA ProbeStep ==
  ASSUME GpioInv, Probe
  PROVE  GpioInv'
  <1>1. /\ UNCHANGED <<setup, bdata, events, outVars, readings, told>>
        /\ UNCHANGED <<level, edge, now, flips>>
        /\ step = "probe"
    BY DEF Probe, polled_probe, probe_no_irq, probe_schedule, probe_request_irq,
      probe_end, histVars
  <1> USE DEF Probe, polled_probe, probe_no_irq, probe_schedule, probe_request_irq,
    probe_end
  <1>t. /\ i \in 1..setup.nbuttons+1 /\ Buttons = 1..setup.nbuttons
        /\ setup.nbuttons \in Nat /\ MaxFails \in Nat /\ fails \in 0..MaxFails
        /\ irq \in [Buttons -> {"none", "requested", "on", "failed", "off"}]
        /\ work \subseteq Buttons /\ poll \in BOOLEAN
    BY Board, Types DEF GpioInv
  <1>2. fails' \in 0..MaxFails /\ fails <= fails'
    <2>1. fails' = fails \/ (fails < MaxFails /\ fails' = fails + 1)
      OBVIOUS
    <2> QED
      BY <1>t, <2>1
  <1>3. /\ step' \in {"probe", "on"}
        /\ irq' \in [Buttons -> {"none", "requested", "on", "failed", "off"}]
        /\ work' \subseteq Buttons /\ poll' \in BOOLEAN
        /\ i' \in 1..setup.nbuttons+1
    <2>1. i' = i \/ (i \in Buttons /\ i' = i + 1)
      OBVIOUS
    <2>2. i' \in 1..setup.nbuttons+1
      BY <1>t, <2>1
    <2>3. /\ step' \in {"probe", "on"}
          /\ poll' \in BOOLEAN
          /\ work' = work \/ (i \in Buttons /\ work' = work \cup {i})
      BY <1>t, <1>1
    <2>4. irq' = irq \/ \E x \in {"requested", "on", "failed"} :
                          i \in Buttons /\ irq' = [irq EXCEPT ![i] = x]
      OBVIOUS
    <2>5. irq' \in [Buttons -> {"none", "requested", "on", "failed", "off"}]
      BY <1>t, <2>4
    <2> QED
      BY <1>t, <2>2, <2>3, <2>5
  <1>4. TypeOK'
    <2>1. /\ setup' = setup /\ bdata' = bdata /\ events' = events /\ buf' = buf
          /\ sent' = sent
      BY <1>1 DEF outVars
    <2> QED
      BY <1>1, <1>2, <1>3, <2>1, SameBoard DEF GpioInv, TypeOK
  <1>5. QuietInv'
    <2>1. /\ Polled => work' = work /\ irq' = irq
          /\ ~Polled => poll' = poll
      OBVIOUS
    <2>2. setup' = setup
      BY <1>1
    <2> QED
      BY <1>3, <2>1, <2>2, SameBoard DEF GpioInv, QuietInv
  <1> QED
    BY <1>1, <1>2, <1>4, <1>5, Board, Undisturbed DEF GpioInv

\* A button changes, its interrupt queues a reading, or time passes.
LEMMA OutsideStep ==
  ASSUME GpioInv,
         \/ tick
         \/ \E b \in Buttons : flip(b) \/ button_handle_irq(b)
  PROVE  GpioInv'
  <1>1. /\ UNCHANGED <<setup, bdata, events, outVars, readings, told>>
        /\ irq' = irq /\ poll' = poll /\ step' = step /\ i' = i /\ fails' = fails
    BY DEF tick, flip, button_handle_irq, devVars, histVars
  <1>2. /\ level' \in [Buttons -> {0, 1}] /\ edge' \in [Buttons -> BOOLEAN]
        /\ now' \in 0..Jiffies-1 /\ flips' \in 0..MaxFlips
        /\ work' \subseteq Buttons
        /\ \A b \in work' : b \in work \/ irq[b] = "on"
    <2>t. /\ level \in [Buttons -> {0, 1}] /\ edge \in [Buttons -> BOOLEAN]
          /\ now \in 0..Jiffies-1 /\ flips \in 0..MaxFlips /\ work \subseteq Buttons
          /\ Jiffies \in Nat \ {0} /\ MaxFlips \in Nat
      BY Board, Types DEF GpioInv
    <2>1. CASE tick
      <3>1. /\ now' = (now + 1) % Jiffies /\ now + 1 \in Int
            /\ level' = level /\ edge' = edge /\ flips' = flips /\ work' = work
        BY <2>1, <2>t DEF tick, devVars
      <3>2. now' \in 0..Jiffies-1
        BY <3>1, <2>t, Modulo
      <3> QED
        BY <2>t, <3>1, <3>2
    <2>2. ASSUME NEW b \in Buttons, flip(b)
          PROVE  /\ level' \in [Buttons -> {0, 1}] /\ edge' \in [Buttons -> BOOLEAN]
                 /\ now' \in 0..Jiffies-1 /\ flips' \in 0..MaxFlips
                 /\ work' = work
      <3>1. /\ flips < MaxFlips /\ flips' = flips + 1 /\ now' = now /\ work' = work
            /\ level' = [level EXCEPT ![b] = 1 - @]
            /\ edge' = [edge EXCEPT ![b] = irq[b] = "on"]
        BY <2>2 DEF flip, devVars
      <3>2. 1 - level[b] \in {0, 1}
        BY <2>t
      <3> QED
        BY <2>t, <3>1, <3>2
    <2>3. ASSUME NEW b \in Buttons, button_handle_irq(b)
          PROVE  /\ level' = level /\ edge' \in [Buttons -> BOOLEAN]
                 /\ now' = now /\ flips' = flips /\ irq[b] = "on"
                 /\ work' = work \cup {b}
      BY <2>3, <2>t DEF button_handle_irq
    <2>4. CASE \E b \in Buttons : flip(b)
      BY <2>t, <2>2, <2>4
    <2>5. CASE \E b \in Buttons : button_handle_irq(b)
      <3>1. PICK b \in Buttons : button_handle_irq(b)
        BY <2>5
      <3> QED
        BY <2>t, <2>3, <3>1
    <2> QED
      BY <2>1, <2>4, <2>5
  <1>3. TypeOK'
    <2>1. /\ setup' = setup /\ bdata' = bdata /\ events' = events /\ buf' = buf
          /\ sent' = sent
      BY <1>1 DEF outVars
    <2> QED
      BY <1>1, <1>2, <2>1, SameBoard DEF GpioInv, TypeOK
  <1>4. QuietInv'
    <2>1. setup' = setup
      BY <1>1
    <2> QED
      BY <1>1, <1>2, <2>1, SameBoard DEF GpioInv, QuietInv
  <1>5. fails <= fails' /\ fails' \in Nat
    BY <1>1, Board DEF GpioInv, TypeOK
  <1> QED
    BY <1>1, <1>3, <1>4, <1>5, Undisturbed DEF GpioInv

\* The driver is removed: the poll, or every interrupt and then its reading.
LEMMA CloseStep ==
  ASSUME GpioInv, Close
  PROVE  GpioInv'
  <1>1. /\ UNCHANGED <<setup, bdata, events, outVars, readings, told>>
        /\ UNCHANGED <<level, edge, now, flips, fails>>
    BY DEF Close, remove, polled_close, irq_close, irq_close_end, histVars
  <1>2. setup' = setup /\ Buttons = 1..setup.nbuttons /\ setup.nbuttons \in Nat
    BY <1>1, Board DEF GpioInv
  <1>3. /\ step' \in {"close", "removed"}
        /\ irq' \in [Buttons -> {"none", "requested", "on", "failed", "off"}]
        /\ work' \subseteq Buttons /\ poll' \in BOOLEAN
        /\ i' \in 1..setup.nbuttons+1
    <2>1. /\ irq \in [Buttons -> {"none", "requested", "on", "failed", "off"}]
          /\ work \subseteq Buttons /\ poll \in BOOLEAN
          /\ i \in 1..setup.nbuttons+1
      BY Types DEF GpioInv
    <2>2. /\ step' \in {"close", "removed"}
          /\ poll' \in BOOLEAN /\ work' \subseteq work
          /\ i' = i \/ i' = 1 \/ (i \in Buttons /\ i' = i + 1)
          /\ irq' = irq \/ irq' = [irq EXCEPT ![i] = "off"]
      BY <2>1 DEF Close, remove, polled_close, irq_close, irq_close_end
    <2> QED
      BY <1>2, <2>1, <2>2
  <1>4. TypeOK'
    <2>1. /\ setup' = setup /\ bdata' = bdata /\ events' = events /\ buf' = buf
          /\ sent' = sent
      BY <1>1 DEF outVars
    <2> QED
      BY <1>1, <1>3, <2>1, SameBoard DEF GpioInv, TypeOK
  <1>5. QuietInv'
    <2>1. CASE remove
      <3>1. \A b \in Buttons : ~(b < 1)
        BY <1>2
      <3> QED
        BY <1>2, <2>1, <3>1, SameBoard DEF GpioInv, QuietInv, remove
    <2>2. CASE polled_close
      <3>1. work = {} /\ \A b \in Buttons : irq[b] = "none"
        BY <2>2 DEF GpioInv, QuietInv, polled_close
      <3> QED
        BY <1>2, <2>2, <3>1, SameBoard DEF QuietInv, polled_close
    <2>3. CASE irq_close
      <3>1. /\ ~Polled /\ step = "close" /\ step' = "close" /\ poll' = poll
            /\ i \in Buttons
            /\ \/ irq' = [irq EXCEPT ![i] = "off"] /\ work' = work /\ i' = i
               \/ irq[i] # "on" /\ work' = work \ {i} /\ i' = i + 1 /\ irq' = irq
        BY <2>3 DEF irq_close
      <3>2. \A b \in Buttons : b < i' => irq'[b] # "on" /\ b \notin work'
        <4> SUFFICES ASSUME NEW b \in Buttons, b < i'
                     PROVE  irq'[b] # "on" /\ b \notin work'
          OBVIOUS
        <4>1. b < i \/ (b = i /\ i' = i + 1)
          BY <1>2, <3>1
        <4> QED
          BY <3>1, <4>1 DEF GpioInv, TypeOK, QuietInv
      <3> QED
        BY <1>2, <3>1, <3>2, SameBoard DEF GpioInv, QuietInv
    <2>4. CASE irq_close_end
      <3>1. \A b \in Buttons : b < i
        BY <1>2, <2>4 DEF GpioInv, TypeOK, irq_close_end
      <3> QED
        BY <1>2, <2>4, <3>1, SameBoard DEF GpioInv, QuietInv, irq_close_end
    <2> QED
      BY <2>1, <2>2, <2>3, <2>4 DEF Close
  <1>6. fails <= fails' /\ fails' \in Nat
    BY <1>1, Board DEF GpioInv, TypeOK
  <1> QED
    BY <1>1, <1>4, <1>5, <1>6, Undisturbed DEF GpioInv

-----------------------------------------------------------------------------
(***************************************************************************)
(* The work items of the events.                                           *)
(***************************************************************************)

\* The fields of a work item.
LEMMA Item ==
  ASSUME NEW e \in WorkItem
  PROVE  /\ e.btn \in Buttons /\ e.state \in {0, 1}
         /\ e.pc \in {"queued", "fill", "copy", "send"}
         /\ e.out \in Seq(Variable \cup {<<>>}) /\ Len(e.out) \in Nat
         /\ \A c \in {"queued", "fill", "copy", "send"} :
              [e EXCEPT !.pc = c] \in WorkItem
  BY DEF WorkItem

\* The work items and what was sent are lists of work items.
LEMMA Lists ==
  ASSUME TypeOK
  PROVE  /\ events \in Seq(WorkItem) /\ sent \in Seq(WorkItem)
         /\ Len(events) \in Nat /\ Len(sent) \in Nat
         /\ DOMAIN events = 1..Len(events) /\ DOMAIN sent = 1..Len(sent)
         /\ \A k \in 1..Len(events) : events[k] \in WorkItem
         /\ \A k \in 1..Len(sent) : sent[k] \in WorkItem
         /\ buf \in Variable \cup {<<>>}
         /\ Total \in Nat
  <1>1. /\ events \in Seq(WorkItem) /\ sent \in Seq(WorkItem)
        /\ buf \in Variable \cup {<<>>}
    BY DEF TypeOK
  <1> QED
    BY <1>1 DEF Total

\* An event is made of the variables that name it.
LEMMA OwnVariables ==
  ASSUME NEW e \in WorkItem
  PROVE  /\ Variables(e)[1] = <<"ACTION", e.state>>
         /\ Variables(e)[2] = <<"BUTTON", e.btn>>
         /\ Variables(e)[1] \in Variable /\ Variables(e)[2] \in Variable
  BY Item DEF Variables, Variable

\* The buttons are not concerned.
LEMMA OnlyTold ==
  ASSUME GpioInv,
         UNCHANGED <<setup, level, edge, devVars, bdata, now, flips, histVars>>,
         events' \in Seq(WorkItem), sent' \in Seq(WorkItem),
         buf' \in Variable \cup {<<>>}, fails' \in 0..MaxFails
  PROVE  TypeOK' /\ QuietInv' /\ ToldInv' /\ CountInv'
  <1>1. /\ setup' = setup /\ level' = level /\ edge' = edge /\ irq' = irq
        /\ work' = work /\ poll' = poll /\ step' = step /\ i' = i
        /\ bdata' = bdata /\ now' = now /\ flips' = flips
        /\ readings' = readings /\ told' = told
    BY DEF devVars, histVars
  <1>2. TypeOK'
    BY <1>1, SameBoard DEF GpioInv, TypeOK
  <1>3. QuietInv'
    BY <1>1, SameBoard DEF GpioInv, QuietInv
  <1>4. ToldInv' /\ CountInv'
    BY <1>1, SameBoard DEF GpioInv, ToldInv, CountInv
  <1> QED
    BY <1>2, <1>3, <1>4

\* A step that keeps the queue of sent and waiting events keeps its order.
LEMMA SameQueue ==
  ASSUME Total \in Nat, Total' = Total, told' = told,
         \A n \in 1..Total : /\ Entry(n)'.btn = Entry(n).btn
                             /\ Entry(n)'.state = Entry(n).state
  PROVE  (Alternates => Alternates') /\ (Latest => Latest')
  <1>1. ASSUME Alternates, NEW j \in 1..Total, NEW k \in 1..Total, j < k,
               Entry(j)'.btn = Entry(k)'.btn,
               \A m \in j+1..k-1 : Entry(m)'.btn # Entry(k)'.btn
        PROVE  Entry(j)'.state # Entry(k)'.state
    <2>1. \A m \in j+1..k-1 : m \in 1..Total
      OBVIOUS
    <2>2. \A m \in j+1..k-1 : Entry(m).btn # Entry(k).btn
      BY <1>1, <2>1
    <2>3. Entry(j).btn = Entry(k).btn
      BY <1>1
    <2>4. Entry(j).state # Entry(k).state
      BY <1>1, <2>2, <2>3 DEF Alternates
    <2> QED
      BY <2>4
  <1>2. ASSUME Latest, NEW j \in 1..Total,
               \A m \in j+1..Total : Entry(m)'.btn # Entry(j)'.btn
        PROVE  told[Entry(j)'.btn].state = Entry(j)'.state
    <2>1. \A m \in j+1..Total : m \in 1..Total
      OBVIOUS
    <2>2. \A m \in j+1..Total : Entry(m).btn # Entry(j).btn
      BY <1>2, <2>1
    <2>3. told[Entry(j).btn].state = Entry(j).state
      BY <1>2, <2>2 DEF Latest
    <2> QED
      BY <2>3
  <1>3. ASSUME Alternates
        PROVE  Alternates'
    BY <1>1, <1>3 DEF Alternates
  <1>4. ASSUME Latest
        PROVE  Latest'
    BY <1>2, <1>4 DEF Latest
  <1> QED
    BY <1>3, <1>4

\* A work item goes on, and stays the one of its event.
LEMMA Replaced ==
  ASSUME TypeOK, OrderInv, NEW k \in DOMAIN events, NEW f \in WorkItem,
         events' = [events EXCEPT ![k] = f],
         f.btn = events[k].btn, f.state = events[k].state,
         setup' = setup, sent' = sent, told' = told, fails' = fails
  PROVE  /\ events' \in Seq(WorkItem) /\ DOMAIN events' = DOMAIN events
         /\ \A j \in DOMAIN events : events'[j] = IF j = k THEN f ELSE events[j]
         /\ OrderInv'
  <1>1. /\ events \in Seq(WorkItem) /\ Len(events) \in Nat /\ Len(sent) \in Nat
        /\ DOMAIN events = 1..Len(events) /\ Total \in Nat
    BY Lists
  <1>2. /\ events' \in Seq(WorkItem) /\ Len(events') = Len(events)
        /\ DOMAIN events' = DOMAIN events
        /\ \A j \in DOMAIN events : events'[j] = IF j = k THEN f ELSE events[j]
    BY <1>1
  <1>3. Total' = Total
    BY <1>2 DEF Total
  <1>4. ASSUME NEW n \in 1..Total
        PROVE  Entry(n)'.btn = Entry(n).btn /\ Entry(n)'.state = Entry(n).state
    <2>1. CASE n <= Len(sent)
      BY <2>1 DEF Entry
    <2>2. CASE ~(n <= Len(sent))
      <3>1. n - Len(sent) \in 1..Len(events)
        BY <1>1, <2>2 DEF Total
      <3>2. Entry(n)' = events'[n - Len(sent)] /\ Entry(n) = events[n - Len(sent)]
        BY <2>2 DEF Entry
      <3> QED
        BY <1>1, <1>2, <3>1, <3>2
    <2> QED
      BY <2>1, <2>2
  <1>5. OrderInv'
    BY <1>1, <1>3, <1>4, SameQueue, SameBoard DEF OrderInv
  <1> QED
    BY <1>2, <1>5

\* A work item leaves the list, and the others stay as they are.
LEMMA Left ==
  ASSUME GpioInv, NEW k \in DOMAIN events, events' = RemoveAt(events, k),
         setup' = setup, buf' = buf
  PROVE  /\ events' \in Seq(WorkItem) /\ FillInv'
         /\ sent' = sent => CreatedInv'
         /\ Cpus = 1 =>
              /\ \A j \in DOMAIN events' :
                   LET e == events'[j]
                       n == Len(e.out)
                   IN  /\ n > 0 => e.out[1] = Variables(e)[1]
                       /\ e.pc = "copy" => buf' = Variables(e)[n + 1]
                       /\ e.pc = "send" => e.out = Variables(e)
              /\ \A j, l \in DOMAIN events' :
                   events'[j].pc = "copy" /\ events'[l].pc = "copy" => j = l
  <1>1. /\ events \in Seq(WorkItem) /\ Len(events) \in Nat
        /\ DOMAIN events = 1..Len(events)
    BY Lists DEF GpioInv
  <1>2. k \in 1..Len(events)
    BY <1>1
  <1> DEFINE at(j) == IF j < k THEN j ELSE j + 1
  <1>3. /\ events' \in Seq(WorkItem) /\ Len(events') = Len(events) - 1
        /\ \A j \in 1..Len(events) - 1 :
             events'[j] = IF j < k THEN events[j] ELSE events[j + 1]
    BY <1>1, <1>2, Removed
  <1>4. DOMAIN events' = 1..Len(events) - 1
    BY <1>3
  <1>5. \A j \in DOMAIN events' : at(j) \in DOMAIN events /\ events'[j] = events[at(j)]
    BY <1>1, <1>2, <1>3, <1>4
  <1>6. \A j, l \in DOMAIN events' : at(j) = at(l) => j = l
    BY <1>2, <1>4
  <1> HIDE DEF at
  <1>7. FillInv'
    BY <1>5 DEF GpioInv, FillInv
  <1>8. ASSUME Cpus = 1, NEW j \in DOMAIN events'
        PROVE  LET e == events'[j]
                   n == Len(e.out)
               IN  /\ n > 0 => e.out[1] = Variables(e)[1]
                   /\ e.pc = "copy" => buf' = Variables(e)[n + 1]
                   /\ e.pc = "send" => e.out = Variables(e)
    BY <1>5, <1>8 DEF GpioInv, CreatedInv
  <1>9. ASSUME Cpus = 1, NEW j \in DOMAIN events', NEW l \in DOMAIN events',
               events'[j].pc = "copy", events'[l].pc = "copy"
        PROVE  j = l
    BY <1>5, <1>6, <1>9 DEF GpioInv, CreatedInv
  <1>10. ASSUME sent' = sent
         PROVE  CreatedInv'
    <2>1. Cpus' = Cpus
      BY SameBoard
    <2>2. Cpus = 1 => \A j \in DOMAIN sent : sent[j].out = Variables(sent[j])
      BY DEF GpioInv, CreatedInv
    <2>3. \A e : Variables(e)' = Variables(e)
      BY DEF Variables
    <2> QED
      BY <1>8, <1>9, <1>10, <2>1, <2>2 DEF CreatedInv, Variables
  <1> QED
    BY <1>3, <1>7, <1>8, <1>9, <1>10

\* The allocation of the message: the item goes on, or the event is lost.
LEMMA AllocStep ==
  ASSUME GpioInv, NEW k \in DOMAIN events, alloc_skb(k)
  PROVE  GpioInv'
  <1>1. /\ UNCHANGED <<setup, level, edge, devVars, bdata, now, flips, histVars>>
        /\ buf' = buf /\ sent' = sent
        /\ events[k].pc = "queued"
    BY DEF alloc_skb, outVars
  <1>2. setup' = setup /\ told' = told
    BY <1>1 DEF histVars
  <1>3. /\ events \in Seq(WorkItem) /\ sent \in Seq(WorkItem)
        /\ buf \in Variable \cup {<<>>}
        /\ events[k] \in WorkItem /\ fails \in 0..MaxFails /\ MaxFails \in Nat
    BY Lists, Types, Board DEF GpioInv
  <1>4. CASE events' = [events EXCEPT ![k].pc = "fill"] /\ fails' = fails
    <2> DEFINE f == [events[k] EXCEPT !.pc = "fill"]
    <2>1. /\ f \in WorkItem /\ f.btn = events[k].btn /\ f.state = events[k].state
          /\ f.out = events[k].out /\ f.pc = "fill"
      BY <1>3, Item DEF WorkItem
    <2>2. events' = [events EXCEPT ![k] = f]
      BY <1>4
    <2> HIDE DEF f
    <2>3. /\ events' \in Seq(WorkItem) /\ DOMAIN events' = DOMAIN events
          /\ \A j \in DOMAIN events : events'[j] = IF j = k THEN f ELSE events[j]
          /\ OrderInv'
      BY <1>1, <1>2, <1>4, <2>1, <2>2, Replaced DEF GpioInv
    <2>4. FillInv'
      BY <1>1, <2>1, <2>3 DEF GpioInv, FillInv
    <2>5. CreatedInv'
      <3>1. Variables(f) = Variables(events[k])
        BY <2>1 DEF Variables
      <3>2. Len(f.out) = 0
        BY <1>1, <2>1 DEF GpioInv, FillInv
      <3>3. Cpus' = Cpus
        BY <1>2, SameBoard
      <3> QED
        BY <1>1, <2>1, <2>3, <3>2, <3>3 DEF GpioInv, CreatedInv, Variables
    <2> QED
      BY <1>1, <1>3, <1>4, <2>3, <2>4, <2>5, OnlyTold DEF GpioInv
  <1>5. CASE events' = RemoveAt(events, k) /\ fails < MaxFails /\ fails' = fails + 1
    <2>1. events' \in Seq(WorkItem) /\ FillInv' /\ CreatedInv'
      BY <1>1, <1>2, <1>5, Left
    <2>2. fails' \in 0..MaxFails /\ fails' # 0
      BY <1>3, <1>5
    <2> QED
      BY <1>1, <1>3, <2>1, <2>2, OnlyTold DEF GpioInv, OrderInv
  <1> QED
    BY <1>4, <1>5 DEF alloc_skb

\* There are two variables, so at most one more to write.
LEMMA Count ==
  ASSUME NEW n \in {0, 1}
  PROVE  n + 1 \in {1, 2}
  <1>1. CASE n = 0
    BY <1>1
  <1>2. CASE n = 1
    BY <1>2
  <1> QED
    BY <1>1, <1>2

\* On one CPU no other work item runs between filling and copying the buffer.
LEMMA Alone ==
  ASSUME GpioInv, NEW k \in DOMAIN events, MayRun(k), Cpus = 1
  PROVE  \A j \in DOMAIN events : j # k => events[j].pc # "copy"
  BY DEF MayRun

\* The buffer is filled.
LEMMA FormatStep ==
  ASSUME GpioInv, NEW k \in DOMAIN events, add_var_format(k)
  PROVE  GpioInv'
  <1>1. /\ UNCHANGED <<setup, level, edge, devVars, bdata, now, flips, histVars>>
        /\ sent' = sent /\ fails' = fails
        /\ events[k].pc = "fill" /\ MayRun(k)
        /\ buf' = Variables(events[k])[Len(events[k].out) + 1]
        /\ events' = [events EXCEPT ![k].pc = "copy"]
    BY DEF add_var_format
  <1>2. setup' = setup /\ told' = told
    BY <1>1 DEF histVars
  <1>3. /\ events \in Seq(WorkItem) /\ sent \in Seq(WorkItem)
        /\ events[k] \in WorkItem /\ fails \in 0..MaxFails
    BY Lists, Types DEF GpioInv
  <1> DEFINE f == [events[k] EXCEPT !.pc = "copy"]
  <1>4. /\ f \in WorkItem /\ f.btn = events[k].btn /\ f.state = events[k].state
        /\ f.out = events[k].out /\ f.pc = "copy"
    BY <1>3, Item DEF WorkItem
  <1>5. events' = [events EXCEPT ![k] = f]
    BY <1>1
  <1> HIDE DEF f
  <1>6. /\ events' \in Seq(WorkItem) /\ DOMAIN events' = DOMAIN events
        /\ \A j \in DOMAIN events : events'[j] = IF j = k THEN f ELSE events[j]
        /\ OrderInv'
    BY <1>1, <1>2, <1>4, <1>5, Replaced DEF GpioInv
  <1>7. Len(events[k].out) \in {0, 1}
    BY <1>1 DEF GpioInv, FillInv
  <1>8. buf' \in Variable \cup {<<>>}
    <2>1. Len(events[k].out) + 1 \in {1, 2}
      BY <1>7, Count
    <2>2. \A n \in {1, 2} : Variables(events[k])[n] \in Variable
      BY <1>3, OwnVariables
    <2> QED
      BY <1>1, <2>1, <2>2
  <1>9. FillInv'
    BY <1>4, <1>6, <1>7 DEF GpioInv, FillInv
  <1>10. CreatedInv'
    <2>1. Variables(f) = Variables(events[k])
      BY <1>4 DEF Variables
    <2>2. Cpus' = Cpus
      BY <1>2, SameBoard
    <2> SUFFICES ASSUME Cpus = 1
                 PROVE  CreatedInv'
      BY <2>2 DEF CreatedInv
    <2>3. \A j \in DOMAIN events : j # k => events[j].pc # "copy"
      BY <1>1, Alone
    <2>4. ASSUME NEW j \in DOMAIN events'
          PROVE  LET e == events'[j]
                     n == Len(e.out)
                 IN  /\ n > 0 => e.out[1] = Variables(e)[1]
                     /\ e.pc = "copy" => buf' = Variables(e)[n + 1]
                     /\ e.pc = "send" => e.out = Variables(e)
      <3>1. CASE j = k
        BY <1>1, <1>4, <1>6, <2>1, <3>1 DEF GpioInv, CreatedInv
      <3>2. CASE j # k
        BY <1>6, <2>3, <3>2 DEF GpioInv, CreatedInv
      <3> QED
        BY <3>1, <3>2
    <2>5. \A j, l \in DOMAIN events' :
            events'[j].pc = "copy" /\ events'[l].pc = "copy" => j = l
      BY <1>6, <2>3
    <2>6. \A j \in DOMAIN sent : sent[j].out = Variables(sent[j])
      BY DEF GpioInv, CreatedInv
    <2> QED
      BY <1>1, <2>4, <2>5, <2>6 DEF CreatedInv, Variables
  <1> QED
    BY <1>1, <1>3, <1>6, <1>8, <1>9, <1>10, OnlyTold DEF GpioInv

\* Two variables make the message.
LEMMA TwoVariables ==
  ASSUME NEW S, NEW s \in Seq(S), Len(s) = 2, NEW a, NEW b, s[1] = a, s[2] = b
  PROVE  s = <<a, b>>
  OBVIOUS

\* The buffer is copied to the message.
LEMMA CopyStep ==
  ASSUME GpioInv, NEW k \in DOMAIN events, add_var_copy(k)
  PROVE  GpioInv'
  <1> DEFINE e == events[k]
             out == Append(e.out, buf)
             f == [e EXCEPT !.out = out, !.pc = IF Len(out) = 2 THEN "send" ELSE "fill"]
  <1>1. /\ UNCHANGED <<setup, level, edge, devVars, bdata, now, flips, histVars>>
        /\ sent' = sent /\ fails' = fails /\ buf' = buf
        /\ e.pc = "copy" /\ MayRun(k)
        /\ events' = [events EXCEPT ![k].out = out,
                                    ![k].pc = IF Len(out) = 2 THEN "send" ELSE "fill"]
    BY DEF add_var_copy, outVars
  <1>2. setup' = setup /\ told' = told
    BY <1>1 DEF histVars
  <1>3. /\ events \in Seq(WorkItem) /\ sent \in Seq(WorkItem)
        /\ buf \in Variable \cup {<<>>}
        /\ e \in WorkItem /\ fails \in 0..MaxFails
    BY Lists, Types DEF GpioInv
  <1>4. e.out \in Seq(Variable \cup {<<>>}) /\ Len(e.out) \in {0, 1}
    BY <1>1, <1>3, Item DEF GpioInv, FillInv
  <1>5. /\ out \in Seq(Variable \cup {<<>>}) /\ Len(out) = Len(e.out) + 1
        /\ out[Len(e.out) + 1] = buf
        /\ Len(e.out) = 1 => out[1] = e.out[1]
    BY <1>3, <1>4
  <1> HIDE DEF out
  <1>6. /\ f \in WorkItem /\ f.btn = e.btn /\ f.state = e.state /\ f.out = out
        /\ f.pc = IF Len(out) = 2 THEN "send" ELSE "fill"
    BY <1>3, <1>5 DEF WorkItem
  <1>7. events' = [events EXCEPT ![k] = f]
    BY <1>1, <1>3
  <1> HIDE DEF f
  <1>8. /\ events' \in Seq(WorkItem) /\ DOMAIN events' = DOMAIN events
        /\ \A j \in DOMAIN events : events'[j] = IF j = k THEN f ELSE events[j]
        /\ OrderInv'
    BY <1>1, <1>2, <1>6, <1>7, Replaced DEF GpioInv
  <1>9. FillInv'
    <2>1. /\ f.pc # "queued"
          /\ f.pc \in {"fill", "copy"} => Len(f.out) \in {0, 1}
      <3>1. Len(out) = 1 \/ Len(out) = 2
        BY <1>4, <1>5, Count
      <3> QED
        BY <1>6, <3>1
    <2> QED
      BY <1>8, <2>1 DEF GpioInv, FillInv
  <1>10. CreatedInv'
    <2>1. Variables(f) = Variables(e)
      BY <1>6 DEF Variables
    <2>2. Cpus' = Cpus
      BY <1>2, SameBoard
    <2> SUFFICES ASSUME Cpus = 1
                 PROVE  CreatedInv'
      BY <2>2 DEF CreatedInv
    <2>3. \A j \in DOMAIN events : j # k => events[j].pc # "copy"
      BY <1>1, Alone
    <2>4. /\ buf = Variables(e)[Len(e.out) + 1]
          /\ Len(e.out) > 0 => e.out[1] = Variables(e)[1]
      BY <1>1 DEF GpioInv, CreatedInv
    <2>5. /\ out[1] = Variables(e)[1]
          /\ Len(out) = 2 => out = Variables(e)
      <3>1. CASE Len(e.out) = 0
        BY <1>5, <2>4, <3>1
      <3>2. CASE Len(e.out) = 1
        <4>1. out[1] = Variables(e)[1] /\ out[2] = Variables(e)[2] /\ Len(out) = 2
          BY <1>5, <2>4, <3>2
        <4>2. out = <<Variables(e)[1], Variables(e)[2]>>
          BY <1>5, <4>1, TwoVariables
        <4> QED
          BY <4>1, <4>2 DEF Variables
      <3> QED
        BY <1>4, <3>1, <3>2
    <2>6. ASSUME NEW j \in DOMAIN events'
          PROVE  LET g == events'[j]
                     n == Len(g.out)
                 IN  /\ n > 0 => g.out[1] = Variables(g)[1]
                     /\ g.pc = "copy" => buf' = Variables(g)[n + 1]
                     /\ g.pc = "send" => g.out = Variables(g)
      <3>1. CASE j = k
        BY <1>6, <1>8, <2>1, <2>5, <3>1
      <3>2. CASE j # k
        BY <1>8, <2>3, <3>2 DEF GpioInv, CreatedInv
      <3> QED
        BY <3>1, <3>2
    <2>7. \A j, l \in DOMAIN events' :
            events'[j].pc = "copy" /\ events'[l].pc = "copy" => j = l
      BY <1>6, <1>8, <2>3
    <2>8. \A j \in DOMAIN sent : sent[j].out = Variables(sent[j])
      BY DEF GpioInv, CreatedInv
    <2> QED
      BY <1>1, <2>6, <2>7, <2>8 DEF CreatedInv, Variables
  <1> QED
    BY <1>1, <1>3, <1>8, <1>9, <1>10, OnlyTold DEF GpioInv

\* The message is sent: the oldest entry of the queue if the items run in
\* their order.
LEMMA BroadcastStep ==
  ASSUME GpioInv, NEW k \in DOMAIN events, broadcast_uevent(k)
  PROVE  GpioInv'
  <1>1. /\ UNCHANGED <<setup, level, edge, devVars, bdata, now, flips, histVars>>
        /\ buf' = buf /\ fails' = fails
        /\ events[k].pc = "send" /\ MayRun(k)
        /\ sent' = Append(sent, events[k])
        /\ events' = RemoveAt(events, k)
    BY DEF broadcast_uevent
  <1>2. setup' = setup /\ told' = told
    BY <1>1 DEF histVars
  <1>3. /\ events \in Seq(WorkItem) /\ sent \in Seq(WorkItem)
        /\ buf \in Variable \cup {<<>>}
        /\ DOMAIN events = 1..Len(events) /\ Len(events) \in Nat /\ Len(sent) \in Nat
        /\ events[k] \in WorkItem /\ fails \in 0..MaxFails /\ Total \in Nat
        /\ DOMAIN sent = 1..Len(sent)
    BY Lists, Types DEF GpioInv
  <1>4. /\ sent' \in Seq(WorkItem) /\ Len(sent') = Len(sent) + 1
        /\ DOMAIN sent' = 1..Len(sent) + 1
        /\ \A j \in 1..Len(sent) : sent'[j] = sent[j]
        /\ sent'[Len(sent) + 1] = events[k]
    BY <1>1, <1>3
  <1>5. events' \in Seq(WorkItem) /\ FillInv'
    BY <1>1, <1>2, Left
  <1>6. CreatedInv'
    <2>1. Cpus' = Cpus
      BY <1>2, SameBoard
    <2> SUFFICES ASSUME Cpus = 1
                 PROVE  CreatedInv'
      BY <2>1 DEF CreatedInv
    <2>2. /\ \A j \in DOMAIN events' :
               LET e == events'[j]
                   n == Len(e.out)
               IN  /\ n > 0 => e.out[1] = Variables(e)[1]
                   /\ e.pc = "copy" => buf' = Variables(e)[n + 1]
                   /\ e.pc = "send" => e.out = Variables(e)
          /\ \A j, l \in DOMAIN events' :
               events'[j].pc = "copy" /\ events'[l].pc = "copy" => j = l
      BY <1>1, <1>2, Left
    <2>3. /\ events[k].out = Variables(events[k])
          /\ \A j \in DOMAIN sent : sent[j].out = Variables(sent[j])
      BY <1>1 DEF GpioInv, CreatedInv
    <2>4. ASSUME NEW j \in DOMAIN sent'
          PROVE  sent'[j].out = Variables(sent'[j])
      <3>1. j \in DOMAIN sent \/ j = Len(sent) + 1
        BY <1>3, <1>4
      <3> QED
        BY <1>3, <1>4, <2>3, <3>1
    <2> QED
      BY <2>2, <2>4 DEF CreatedInv, Variables
  <1>7. OrderInv'
    <2> SUFFICES ASSUME Cpus = 1, ~Sleeps, fails = 0
                 PROVE  Alternates' /\ Latest'
      BY <1>1, <1>2, SameBoard DEF OrderInv
    <2>1. k = 1
      BY <1>1 DEF MayRun
    <2>2. /\ Len(events') = Len(events) - 1
          /\ \A j \in 1..Len(events) - 1 : events'[j] = events[j + 1]
      <3>1. 1 \in 1..Len(events)
        BY <1>3, <2>1
      <3>2. \A j \in 1..Len(events) - 1 : ~(j < 1)
        BY <1>3
      <3> QED
        BY <1>1, <1>3, <2>1, <3>1, <3>2, Removed
    <2>3. Total' = Total
      BY <1>3, <1>4, <2>2 DEF Total
    <2>4. ASSUME NEW n \in 1..Total
          PROVE  Entry(n)' = Entry(n)
      <3>1. CASE n \in 1..Len(sent)
        BY <1>3, <1>4, <3>1 DEF Entry
      <3>2. CASE n = Len(sent) + 1
        BY <1>3, <1>4, <2>1, <3>2 DEF Entry
      <3>3. CASE n > Len(sent) + 1
        <4>1. /\ Entry(n)' = events'[n - (Len(sent) + 1)]
              /\ Entry(n) = events[n - Len(sent)]
          BY <1>3, <1>4, <3>3 DEF Entry
        <4>2. /\ n - (Len(sent) + 1) \in 1..Len(events) - 1
              /\ (n - (Len(sent) + 1)) + 1 = n - Len(sent)
          BY <1>3, <3>3 DEF Total
        <4> QED
          BY <2>2, <4>1, <4>2
      <3> QED
        BY <1>3, <3>1, <3>2, <3>3 DEF Total
    <2> QED
      BY <1>2, <1>3, <2>3, <2>4, SameQueue DEF GpioInv, OrderInv
  <1> QED
    BY <1>1, <1>3, <1>4, <1>5, <1>6, <1>7, OnlyTold DEF GpioInv

-----------------------------------------------------------------------------
(***************************************************************************)
(* gpio_keys_handle_button.                                                *)
(***************************************************************************)

\* What the driver knows of a button.
LEMMA OneButton ==
  ASSUME GpioInv, NEW b \in Buttons
  PROVE  /\ bdata[b].last_state \in {-1, 0, 1} /\ bdata[b].count \in Nat
         /\ bdata[b].seen \in 0..Jiffies-1 /\ bdata[b].count <= Threshold[b]
         /\ bdata[b] \in [last_state : {-1, 0, 1}, count : Nat, seen : 0..Jiffies-1]
         /\ Threshold[b] \in Nat /\ Type[b] \in {"EV_KEY", "EV_SW"}
         /\ level[b] \in {0, 1} /\ now \in 0..Jiffies-1
         /\ told[b].state \in {-1, 0, 1} /\ told[b].at \in 0..Jiffies-1
         /\ readings[b].state \in {-1, 0, 1} /\ readings[b].n \in Nat
         /\ readings[b] \in [state : {-1, 0, 1}, n : Nat]
  <1>1. /\ bdata \in [Buttons -> [last_state : {-1, 0, 1}, count : Nat,
                                  seen : 0..Jiffies-1]]
        /\ bdata[b].count <= Threshold[b]
    BY DEF GpioInv, TypeOK
  <1>2. level \in [Buttons -> {0, 1}] /\ now \in 0..Jiffies-1
    BY Types DEF GpioInv
  <1>3. /\ Threshold \in [Buttons -> Nat]
        /\ Type \in [Buttons -> {"EV_KEY", "EV_SW"}]
    BY Board DEF GpioInv
  <1>4. told \in [Buttons -> [state : {-1, 0, 1}, at : 0..Jiffies-1, seen : 0..Jiffies-1]]
    BY DEF GpioInv, ToldInv
  <1>5. readings \in [Buttons -> [state : {-1, 0, 1}, n : Nat]]
    BY DEF GpioInv, CountInv
  <1> QED
    BY <1>1, <1>2, <1>3, <1>4, <1>5

\* What a reading does to it.
LEMMA Updated ==
  ASSUME GpioInv, NEW b \in Buttons
  PROVE  /\ updated(b) \in [last_state : {-1, 0, 1}, count : Nat, seen : 0..Jiffies-1]
         /\ updated(b).count <= Threshold[b]
         /\ reaction(b) # "event" =>
              /\ updated(b).seen = bdata[b].seen
              /\ \/ updated(b).last_state = bdata[b].last_state
                 \/ /\ bdata[b].last_state = -1 /\ Type[b] = "EV_KEY"
                    /\ updated(b).last_state = 0 /\ updated(b).count = 0
         /\ reaction(b) = "event" =>
              /\ updated(b).last_state = level[b] /\ updated(b).seen = now
              /\ updated(b).count = 0 /\ bdata[b].count = Threshold[b]
         /\ reaction(b) \in {"count", "event"} =>
              /\ bdata[b].last_state # level[b]
              /\ bdata[b].last_state = -1 /\ Type[b] = "EV_KEY" => level[b] = 1
         /\ updated(b).count # 0 =>
              /\ reaction(b) = "count" /\ updated(b).count = bdata[b].count + 1
              /\ updated(b).last_state = bdata[b].last_state
  <1> DEFINE d == bdata[b]
             u == updated(b)
             D == [last_state : {-1, 0, 1}, count : Nat, seen : 0..Jiffies-1]
  <1>1. /\ d \in D /\ d.last_state \in {-1, 0, 1} /\ d.count \in Nat
        /\ d.seen \in 0..Jiffies-1 /\ d.count <= Threshold[b]
        /\ Threshold[b] \in Nat /\ Type[b] \in {"EV_KEY", "EV_SW"}
        /\ level[b] \in {0, 1} /\ now \in 0..Jiffies-1
    BY OneButton
  <1>2. CASE d.last_state = -1 /\ Type[b] = "EV_KEY" /\ level[b] = 0
    <2>1. reaction(b) = "set_state"
      BY <1>2 DEF reaction
    <2>2. u = [d EXCEPT !.count = 0, !.last_state = level[b]]
      BY <2>1 DEF updated
    <2>3. u \in D /\ u.count = 0 /\ u.last_state = 0 /\ u.seen = d.seen
      <3>1. u = [last_state |-> 0, count |-> 0, seen |-> d.seen]
        BY <1>1, <1>2, <2>2
      <3> QED
        BY <1>1, <3>1
    <2> QED
      BY <1>1, <1>2, <2>1, <2>3
  <1>3. CASE /\ ~(d.last_state = -1 /\ Type[b] = "EV_KEY" /\ level[b] = 0)
             /\ d.last_state = level[b]
    <2>1. reaction(b) = "reset"
      BY <1>3 DEF reaction
    <2>2. u = [d EXCEPT !.count = 0]
      BY <2>1 DEF updated
    <2>3. u \in D /\ u.count = 0 /\ u.last_state = d.last_state /\ u.seen = d.seen
      BY <1>1, <2>2
    <2> QED
      BY <1>1, <2>1, <2>3
  <1>4. CASE /\ ~(d.last_state = -1 /\ Type[b] = "EV_KEY" /\ level[b] = 0)
             /\ d.last_state # level[b] /\ d.count < Threshold[b]
    <2>1. reaction(b) = "count"
      BY <1>4 DEF reaction
    <2>2. u = [d EXCEPT !.count = @ + 1]
      BY <2>1 DEF updated
    <2>3. u \in D /\ u.count = d.count + 1 /\ u.last_state = d.last_state /\ u.seen = d.seen
      BY <1>1, <2>2
    <2> QED
      BY <1>1, <1>4, <2>1, <2>3
  <1>5. CASE /\ ~(d.last_state = -1 /\ Type[b] = "EV_KEY" /\ level[b] = 0)
             /\ d.last_state # level[b] /\ ~(d.count < Threshold[b])
    <2>1. reaction(b) = "event"
      BY <1>5 DEF reaction
    <2>2. u = [last_state |-> level[b], count |-> 0, seen |-> now]
      BY <2>1 DEF updated
    <2>3. u \in D /\ u.count = 0 /\ u.last_state = level[b] /\ u.seen = now
      BY <1>1, <2>2
    <2> QED
      BY <1>1, <1>5, <2>1, <2>3
  <1> QED
    BY <1>2, <1>3, <1>4, <1>5

\* A reading that differs from the last state is one more in a row.
LEMMA OneMore ==
  ASSUME GpioInv, NEW S \in SUBSET Buttons, handle_buttons(S), NEW b \in S
  PROVE  /\ readings'[b].state = level[b] /\ readings'[b].n \in Nat
         /\ readings'[b] \in [state : {-1, 0, 1}, n : Nat]
         /\ /\ reaction(b) \in {"count", "event"}
            /\ ~(bdata[b].last_state = -1 /\ Type[b] = "EV_SW")
            => readings'[b].n > bdata[b].count
  <1> DEFINE d == bdata[b]
             r == readings[b]
  <1>1. /\ d.last_state \in {-1, 0, 1} /\ d.count \in Nat /\ d.count <= Threshold[b]
        /\ Threshold[b] \in Nat /\ Type[b] \in {"EV_KEY", "EV_SW"}
        /\ level[b] \in {0, 1} /\ r.state \in {-1, 0, 1} /\ r.n \in Nat
        /\ r \in [state : {-1, 0, 1}, n : Nat]
    BY OneButton
  <1>2. readings'[b] = IF r.state # level[b] THEN [state |-> level[b], n |-> 1]
                       ELSE [r EXCEPT !.n = IF @ > Threshold[b] THEN @ ELSE @ + 1]
    BY DEF handle_buttons
  <1>3. CASE r.state # level[b]
    <2>1. readings'[b] = [state |-> level[b], n |-> 1]
      BY <1>2, <1>3
    <2>2. ASSUME reaction(b) \in {"count", "event"},
                 ~(d.last_state = -1 /\ Type[b] = "EV_SW")
          PROVE  d.count = 0
      <3>1. /\ d.last_state # level[b]
            /\ d.last_state = -1 => level[b] = 1
        BY <1>1, <2>2, Updated
      <3>2. d.count > 0 => /\ r.state \in {0, 1} \ {d.last_state}
                           /\ d.last_state = -1 => r.state = 1
        BY <2>2 DEF GpioInv, CountInv
      <3> QED
        BY <1>1, <1>3, <3>1, <3>2
    <2> QED
      BY <1>1, <2>1, <2>2
  <1>4. CASE r.state = level[b]
    <2>1. readings'[b] = [r EXCEPT !.n = IF @ > Threshold[b] THEN @ ELSE @ + 1]
      BY <1>2, <1>4
    <2>2. /\ readings'[b].state = level[b]
          /\ readings'[b].n = IF r.n > Threshold[b] THEN r.n ELSE r.n + 1
          /\ readings'[b] \in [state : {-1, 0, 1}, n : Nat]
      BY <1>1, <1>4, <2>1
    <2>3. ASSUME ~(d.last_state = -1 /\ Type[b] = "EV_SW")
          PROVE  r.n >= d.count
      BY <1>1, <2>3 DEF GpioInv, CountInv
    <2> QED
      BY <1>1, <2>2, <2>3
  <1> QED
    BY <1>3, <1>4

\* The events that were made are put behind the others, one for each button
\* that changed but those whose event was lost.
LEMMA Queued ==
  ASSUME GpioInv, NEW S \in SUBSET Buttons, handle_buttons(S)
  PROVE  \E lost \in SUBSET {b \in S : reaction(b) = "event"} :
           /\ fails' \in 0..MaxFails
           /\ fails' = 0 => fails = 0 /\ lost = {}
           /\ \E s \in Seq(Buttons) :
                /\ Range(s) = {b \in S : reaction(b) = "event"} \ lost
                /\ \A j, k \in 1..Len(s) : s[j] = s[k] => j = k
                /\ events' \in Seq(WorkItem) /\ Len(events') = Len(events) + Len(s)
                /\ \A j \in 1..Len(events) : events'[j] = events[j]
                /\ \A j \in 1..Len(s) : events'[Len(events) + j] = Event(s[j])
  <1> DEFINE changed == {b \in S : reaction(b) = "event"}
  <1>1. PICK lost \in SUBSET changed :
          /\ fails + Cardinality(lost) <= MaxFails
          /\ fails' = fails + Cardinality(lost)
          /\ \E s \in InOrder(changed \ lost) :
               events' = events \o [k \in DOMAIN s |-> Event(s[k])]
    BY DEF handle_buttons
  <1>2. PICK s \in InOrder(changed \ lost) :
          events' = events \o [k \in DOMAIN s |-> Event(s[k])]
    BY <1>1
  <1> DEFINE T == changed \ lost
             n == Cardinality(T)
             new == [k \in 1..n |-> Event(s[k])]
  <1>3. /\ setup.nbuttons \in Nat /\ Buttons = 1..setup.nbuttons
        /\ fails \in 0..MaxFails /\ MaxFails \in Nat
        /\ level \in [Buttons -> {0, 1}]
        /\ events \in Seq(WorkItem) /\ Len(events) \in Nat
    BY Board, Types, Lists DEF GpioInv
  <1>4. IsFiniteSet(Buttons)
    BY SMTT(20), <1>3, FS_Interval
  <1>5. IsFiniteSet(T) /\ IsFiniteSet(lost)
    BY <1>4, FS_Subset
  <1>6. n \in Nat /\ Cardinality(lost) \in Nat /\ (Cardinality(lost) = 0 => lost = {})
    BY <1>5, FS_CardinalityType, FS_EmptySet
  <1>7. fails' \in 0..MaxFails /\ (fails' = 0 => fails = 0 /\ lost = {})
    BY <1>1, <1>3, <1>6
  <1>8. /\ s \in [1..n -> T] /\ Range(s) = T
        /\ \A j, k \in 1..n : j < k => s[j] < s[k]
    BY <1>2 DEF InOrder
  <1>9. \A j, k \in 1..n : s[j] = s[k] => j = k
    <2> SUFFICES ASSUME NEW j \in 1..n, NEW k \in 1..n, s[j] = s[k], j # k
                 PROVE  FALSE
      OBVIOUS
    <2>1. s[j] \in Nat /\ s[k] \in Nat
      <3>1. \A b \in T : b \in Nat
        BY <1>3
      <3>2. s[j] \in T /\ s[k] \in T
        BY <1>8
      <3> QED
        BY <3>1, <3>2
    <2>2. j < k \/ k < j
      BY <1>6
    <2> QED
      BY <1>8, <2>1, <2>2
  <1>10. \A j \in 1..n : Event(s[j]) \in WorkItem
    <2>1. \A b \in Buttons : Event(b) \in WorkItem
      <3>1. <<>> \in Seq(Variable \cup {<<>>})
        OBVIOUS
      <3> QED
        BY <1>3, <3>1 DEF Event, WorkItem
    <2> QED
      BY <1>8, <2>1
  <1>11. events' = events \o new
    BY <1>2, <1>8
  <1>12. new \in Seq(WorkItem) /\ Len(new) = n /\ \A j \in 1..n : new[j] = Event(s[j])
    BY <1>6, <1>10
  <1> HIDE DEF new, n, T
  <1>13. /\ events' \in Seq(WorkItem) /\ Len(events') = Len(events) + n
         /\ \A j \in 1..Len(events) + n :
              events'[j] = IF j <= Len(events) THEN events[j] ELSE new[j - Len(events)]
    BY <1>3, <1>11, <1>12, ConcatProperties
  <1>14. \A j \in 1..Len(events) : events'[j] = events[j]
    BY <1>3, <1>6, <1>13
  <1>15. ASSUME NEW j \in 1..n
         PROVE  events'[Len(events) + j] = Event(s[j])
    <2>1. /\ Len(events) + j \in 1..Len(events) + n /\ ~(Len(events) + j <= Len(events))
          /\ (Len(events) + j) - Len(events) = j
      BY <1>3, <1>6
    <2> QED
      BY <1>12, <1>13, <2>1
  <1>16. s \in Seq(Buttons) /\ Len(s) = n
    BY <1>6, <1>8 DEF T
  <1> QED
    BY <1>7, <1>8, <1>9, <1>13, <1>14, <1>15, <1>16 DEF T

\* The new events keep the queue in order: each differs from what was told of
\* its button last.
LEMMA QueueGrows ==
  ASSUME GpioInv, NEW S \in SUBSET Buttons, handle_buttons(S), setup' = setup,
         sent' = sent, level' = level
  PROVE  OrderInv'
  <1> DEFINE changed == {b \in S : reaction(b) = "event"}
  <1>l. PICK lost \in SUBSET changed :
          /\ fails' \in 0..MaxFails
          /\ fails' = 0 => fails = 0 /\ lost = {}
          /\ \E s \in Seq(Buttons) :
               /\ Range(s) = changed \ lost
               /\ \A j, k \in 1..Len(s) : s[j] = s[k] => j = k
               /\ events' \in Seq(WorkItem) /\ Len(events') = Len(events) + Len(s)
               /\ \A j \in 1..Len(events) : events'[j] = events[j]
               /\ \A j \in 1..Len(s) : events'[Len(events) + j] = Event(s[j])
    BY Queued
  <1>p. PICK s \in Seq(Buttons) :
          /\ Range(s) = changed \ lost
          /\ \A j, k \in 1..Len(s) : s[j] = s[k] => j = k
          /\ events' \in Seq(WorkItem) /\ Len(events') = Len(events) + Len(s)
          /\ \A j \in 1..Len(events) : events'[j] = events[j]
          /\ \A j \in 1..Len(s) : events'[Len(events) + j] = Event(s[j])
    BY <1>l
  <1> DEFINE n == Len(s)
  <1>1. /\ fails' = 0 => fails = 0 /\ lost = {}
        /\ Range(s) = changed \ lost
        /\ \A j, k \in 1..n : s[j] = s[k] => j = k
        /\ events' \in Seq(WorkItem) /\ Len(events') = Len(events) + n
        /\ \A j \in 1..Len(events) : events'[j] = events[j]
        /\ \A j \in 1..n : events'[Len(events) + j] = Event(s[j])
        /\ n \in Nat /\ DOMAIN s = 1..n
    <2>1. n \in Nat /\ DOMAIN s = 1..n
      OBVIOUS
    <2> QED
      BY <1>l, <1>p, <2>1
  <1> HIDE DEF n
  <1> SUFFICES ASSUME Cpus = 1, ~Sleeps, fails = 0, lost = {}, Alternates, Latest
               PROVE  Alternates' /\ Latest'
    BY <1>1, SameBoard DEF GpioInv, OrderInv
  <1>2. /\ Len(events) \in Nat /\ Len(sent) \in Nat /\ Total \in Nat
        /\ Total = Len(sent) + Len(events)
        /\ DOMAIN s = 1..n /\ Range(s) = changed
        /\ \A j \in 1..n : s[j] \in changed
        /\ n \in Nat
    <2>1. DOMAIN s = 1..n /\ Range(s) = changed
      BY <1>1
    <2>2. \A j \in 1..n : s[j] \in changed
      BY <2>1 DEF Range
    <2> QED
      BY <1>1, <2>1, <2>2, Lists DEF GpioInv, Total
  <1>3. Total' = Total + n
    BY <1>1, <1>2 DEF Total
  <1>4. \A j \in 1..Total : Entry(j)' = Entry(j)
    <2> SUFFICES ASSUME NEW j \in 1..Total
                 PROVE  Entry(j)' = Entry(j)
      OBVIOUS
    <2>1. CASE j <= Len(sent)
      BY <2>1 DEF Entry
    <2>2. CASE ~(j <= Len(sent))
      <3>1. j - Len(sent) \in 1..Len(events)
        BY <1>2, <2>2
      <3> QED
        BY <1>1, <2>2, <3>1 DEF Entry
    <2> QED
      BY <2>1, <2>2
  <1>5. \A j \in Total+1..Total+n :
          /\ j - Total \in 1..n
          /\ Entry(j)'.btn = s[j - Total]
          /\ Entry(j)'.state = level[s[j - Total]]
    <2> SUFFICES ASSUME NEW j \in Total+1..Total+n
                 PROVE  /\ j - Total \in 1..n
                        /\ Entry(j)'.btn = s[j - Total]
                        /\ Entry(j)'.state = level[s[j - Total]]
      OBVIOUS
    <2>1. /\ ~(j <= Len(sent)) /\ j - Total \in 1..n
          /\ j - Len(sent) = Len(events) + (j - Total)
      BY <1>2
    <2>2. Entry(j)' = Event(s[j - Total])
      BY <1>1, <2>1 DEF Entry
    <2> QED
      BY <2>1, <2>2 DEF Event
  <1>6. \A j \in 1..Total+n : j \in 1..Total \/ j \in Total+1..Total+n
    BY <1>2
  <1>7. \A j \in 1..Total : Entry(j).btn \in Buttons /\ Entry(j).state \in {0, 1}
    <2> SUFFICES ASSUME NEW j \in 1..Total
                 PROVE  Entry(j) \in WorkItem
      BY Item
    <2>1. CASE j <= Len(sent)
      BY <1>2, <2>1, Lists DEF GpioInv, Entry
    <2>2. CASE ~(j <= Len(sent))
      <3>1. j - Len(sent) \in 1..Len(events)
        BY <1>2, <2>2
      <3> QED
        BY <2>2, <3>1, Lists DEF GpioInv, Entry
    <2> QED
      BY <2>1, <2>2
  <1>8. \A b \in Buttons : told'[b] = IF b \notin changed THEN told[b]
                            ELSE [state |-> level[b], at |-> now, seen |-> seen_since(b)]
    BY DEF handle_buttons
  <1>9. \A b \in changed : level[b] # told[b].state
    <2> SUFFICES ASSUME NEW b \in changed
                 PROVE  level[b] # told[b].state
      OBVIOUS
    <2>1. bdata[b].last_state # level[b] /\ level[b] \in {0, 1}
      BY Updated, OneButton
    <2>2. told[b].state # -1 => bdata[b].last_state = told[b].state
      BY DEF GpioInv, ToldInv
    <2> QED
      BY <2>1, <2>2
  <1> HIDE DEF changed
  <1>10. Latest'
    <2> SUFFICES ASSUME NEW j \in 1..Total+n,
                        \A m \in j+1..Total+n : Entry(m)'.btn # Entry(j)'.btn
                 PROVE  told'[Entry(j)'.btn].state = Entry(j)'.state
      BY <1>3 DEF Latest
    <2>1. CASE j \in 1..Total
      <3>1. ASSUME NEW m \in j+1..Total
            PROVE  Entry(m).btn # Entry(j).btn
        <4>1. m \in 1..Total /\ m \in j+1..Total+n
          BY <1>2, <2>1
        <4> QED
          BY <1>4, <2>1, <4>1
      <3>2. told[Entry(j).btn].state = Entry(j).state
        BY <2>1, <3>1 DEF Latest
      <3>3. Entry(j).btn \notin changed
        <4> SUFFICES ASSUME Entry(j).btn \in changed
                     PROVE  FALSE
          OBVIOUS
        <4>1. PICK k \in 1..n : s[k] = Entry(j).btn
          BY <1>2 DEF Range
        <4>2. PICK m \in Total+1..Total+n : m - Total = k
          <5>1. Total + k \in Total+1..Total+n /\ (Total + k) - Total = k
            BY <1>2
          <5> QED
            BY <5>1
        <4>3. Entry(m)'.btn = s[k]
          BY <1>5, <4>2
        <4>4. Entry(m)'.btn # Entry(j)'.btn
          <5>1. m \in j+1..Total+n
            BY <1>2, <2>1
          <5> QED
            BY <5>1
        <4> QED
          BY <1>4, <2>1, <4>1, <4>3, <4>4
      <3>4. Entry(j)' = Entry(j) /\ told'[Entry(j).btn] = told[Entry(j).btn]
        BY <1>4, <1>7, <1>8, <2>1, <3>3
      <3> QED
        BY <3>2, <3>4
    <2>2. CASE j \in Total+1..Total+n
      <3>1. s[j - Total] \in changed /\ s[j - Total] \in Buttons
        BY <1>2, <1>5, <2>2 DEF changed
      <3>2. /\ Entry(j)'.btn = s[j - Total] /\ Entry(j)'.state = level[s[j - Total]]
            /\ told'[s[j - Total]] = [state |-> level[s[j - Total]], at |-> now,
                                      seen |-> seen_since(s[j - Total])]
        BY <1>5, <1>8, <2>2, <3>1
      <3> QED
        BY <3>2
    <2> QED
      BY <1>6, <2>1, <2>2
  <1>11. Alternates'
    <2> SUFFICES ASSUME NEW j \in 1..Total+n, NEW k \in 1..Total+n, j < k,
                        Entry(j)'.btn = Entry(k)'.btn,
                        \A m \in j+1..k-1 : Entry(m)'.btn # Entry(k)'.btn
                 PROVE  Entry(j)'.state # Entry(k)'.state
      BY <1>3 DEF Alternates
    <2>1. CASE k \in 1..Total
      <3>1. j \in 1..Total
        BY <1>2, <2>1
      <3>2. ASSUME NEW m \in j+1..k-1
            PROVE  Entry(m).btn # Entry(k).btn
        <4>1. m \in 1..Total
          BY <1>2, <2>1
        <4> QED
          BY <1>4, <2>1, <4>1
      <3> QED
        BY <1>4, <2>1, <3>1, <3>2 DEF Alternates
    <2>2. CASE k \in Total+1..Total+n
      <3>1. CASE j \in Total+1..Total+n
        <4>1. /\ s[j - Total] = s[k - Total]
              /\ j - Total \in 1..n /\ k - Total \in 1..n
          BY <1>5, <2>2, <3>1
        <4>2. j - Total = k - Total
          BY <1>1, <4>1
        <4>3. j = k
          BY <1>2, <4>2
        <4> QED
          BY <4>3
      <3>2. CASE j \in 1..Total
        <4>1. ASSUME NEW m \in j+1..Total
              PROVE  Entry(m).btn # Entry(j).btn
          <5>1. m \in 1..Total /\ m \in j+1..k-1
            BY <1>2, <2>2, <3>2
          <5> QED
            BY <1>4, <3>2, <5>1
        <4>2. told[Entry(j).btn].state = Entry(j).state
          BY <3>2, <4>1 DEF Latest
        <4>3. s[k - Total] \in changed /\ Entry(j).btn = s[k - Total]
          BY <1>2, <1>4, <1>5, <2>2, <3>2
        <4>4. level[s[k - Total]] # told[s[k - Total]].state
          BY <1>9, <4>3
        <4> QED
          BY <1>4, <1>5, <2>2, <3>2, <4>2, <4>3, <4>4
      <3> QED
        BY <1>6, <3>1, <3>2
    <2> QED
      BY <1>6, <2>1, <2>2
  <1> QED
    BY <1>10, <1>11

\* The buttons of S are handled.
LEMMA HandleStep ==
  ASSUME GpioInv, NEW S \in SUBSET Buttons, handle_buttons(S),
         UNCHANGED <<setup, level, edge, irq, poll, step, i, now, outVars, flips>>,
         work' \subseteq work
  PROVE  GpioInv'
  <1>1. /\ setup' = setup /\ level' = level /\ edge' = edge /\ irq' = irq
        /\ poll' = poll /\ step' = step /\ i' = i /\ now' = now /\ flips' = flips
        /\ buf' = buf /\ sent' = sent
    BY DEF outVars
  <1>2. /\ events \in Seq(WorkItem) /\ Len(events) \in Nat
        /\ DOMAIN events = 1..Len(events)
    BY Lists DEF GpioInv
  <1>3. /\ events' \in Seq(WorkItem) /\ fails' \in 0..MaxFails
        /\ \A j \in DOMAIN events' :
             \/ j \in DOMAIN events /\ events'[j] = events[j]
             \/ events'[j].pc = "queued" /\ Len(events'[j].out) = 0
    <2>p. PICK s \in Seq(Buttons) :
            /\ fails' \in 0..MaxFails
            /\ events' \in Seq(WorkItem) /\ Len(events') = Len(events) + Len(s)
            /\ \A j \in 1..Len(events) : events'[j] = events[j]
            /\ \A j \in 1..Len(s) : events'[Len(events) + j] = Event(s[j])
      BY Queued
    <2> DEFINE n == Len(s)
    <2>1. /\ fails' \in 0..MaxFails /\ n \in Nat
          /\ events' \in Seq(WorkItem) /\ Len(events') = Len(events) + n
          /\ \A j \in 1..Len(events) : events'[j] = events[j]
          /\ \A j \in 1..n : events'[Len(events) + j] = Event(s[j])
      BY SMTT(20), <2>p
    <2> HIDE DEF n
    <2>2. ASSUME NEW j \in DOMAIN events'
          PROVE  \/ j \in DOMAIN events /\ events'[j] = events[j]
                 \/ events'[j].pc = "queued" /\ Len(events'[j].out) = 0
      <3>1. j \in 1..Len(events) + n
        BY <2>1
      <3>2. CASE j \in 1..Len(events)
        BY <1>2, <2>1, <3>2
      <3>3. CASE ~(j \in 1..Len(events))
        <4>1. j - Len(events) \in 1..n /\ Len(events) + (j - Len(events)) = j
          BY <1>2, <2>1, <3>1, <3>3
        <4>2. events'[j] = Event(s[j - Len(events)])
          BY <2>1, <4>1
        <4> QED
          BY <4>2 DEF Event
      <3> QED
        BY <3>2, <3>3
    <2> QED
      BY <2>1, <2>2
  <1>4. FillInv'
    BY <1>3 DEF GpioInv, FillInv
  <1>5. QuietInv'
    BY <1>1, SameBoard DEF GpioInv, QuietInv
  <1>6. CreatedInv'
    <2> SUFFICES ASSUME Cpus = 1
                 PROVE  CreatedInv'
      BY <1>1, SameBoard DEF CreatedInv
    <2>1. ASSUME NEW j \in DOMAIN events'
          PROVE  LET e == events'[j]
                     n == Len(e.out)
                 IN  /\ n > 0 => e.out[1] = Variables(e)[1]
                     /\ e.pc = "copy" => buf' = Variables(e)[n + 1]
                     /\ e.pc = "send" => e.out = Variables(e)
      BY <1>1, <1>3 DEF GpioInv, CreatedInv
    <2>2. \A j, l \in DOMAIN events' :
            events'[j].pc = "copy" /\ events'[l].pc = "copy" => j = l
      BY <1>3 DEF GpioInv, CreatedInv
    <2>3. \A j \in DOMAIN sent : sent[j].out = Variables(sent[j])
      BY DEF GpioInv, CreatedInv
    <2> QED
      BY <1>1, <2>1, <2>2, <2>3 DEF CreatedInv, Variables
  <1>7. OrderInv'
    BY <1>1, QueueGrows
  <1>8. bdata' = [b \in Buttons |-> IF b \in S THEN updated(b) ELSE bdata[b]]
    BY DEF handle_buttons
  <1>9. TypeOK'
    <2>1. /\ bdata' \in [Buttons -> [last_state : {-1, 0, 1}, count : Nat,
                                     seen : 0..Jiffies-1]]
          /\ \A b \in Buttons : bdata'[b].count <= Threshold[b]
      BY <1>8, OneButton, Updated
    <2> QED
      BY <1>1, <1>3, <2>1, SameBoard DEF GpioInv, TypeOK
  <1>10. ToldInv'
    <2>1. \A b \in Buttons : told'[b] = IF b \notin S \/ reaction(b) # "event" THEN told[b]
                              ELSE [state |-> level[b], at |-> now, seen |-> seen_since(b)]
      BY DEF handle_buttons
    <2>2. told' \in [Buttons -> [state : {-1, 0, 1}, at : 0..Jiffies-1, seen : 0..Jiffies-1]]
      <3>1. \A b \in Buttons : seen_since(b) \in 0..Jiffies-1
        <4> SUFFICES ASSUME NEW b \in Buttons
                     PROVE  seen_since(b) \in 0..Jiffies-1
          OBVIOUS
        <4>1. Jiffies \in Nat \ {0} /\ now \in Nat /\ bdata[b].seen \in Nat
          BY Board, OneButton DEF GpioInv
        <4>2. now - (IF bdata[b].seen = 0 THEN now ELSE bdata[b].seen) \in Int
          BY <4>1
        <4> QED
          BY <4>1, <4>2, Modulo DEF seen_since
      <3>2. \A b \in Buttons : level[b] \in {-1, 0, 1} /\ now \in 0..Jiffies-1
        BY OneButton
      <3>3. told \in [Buttons -> [state : {-1, 0, 1}, at : 0..Jiffies-1,
                                  seen : 0..Jiffies-1]]
        BY DEF GpioInv, ToldInv
      <3>4. told' = [b \in Buttons |->
              IF b \notin {c \in S : reaction(c) = "event"} THEN told[b]
              ELSE [state |-> level[b], at |-> now, seen |-> seen_since(b)]]
        BY DEF handle_buttons
      <3> QED
        BY <3>1, <3>2, <3>3, <3>4
    <2>3. ASSUME NEW b \in Buttons
          PROVE  IF told'[b].state # -1
                 THEN /\ bdata'[b].last_state = told'[b].state
                      /\ bdata'[b].seen = told'[b].at
                 ELSE \/ bdata'[b].last_state = -1
                      \/ bdata'[b].last_state = 0 /\ Type[b] = "EV_KEY"
      <3>1. CASE b \notin S
        BY <1>8, <2>1, <3>1 DEF GpioInv, ToldInv
      <3>2. CASE b \in S /\ reaction(b) = "event"
        <4>1. bdata'[b].last_state = level[b] /\ bdata'[b].seen = now
          BY <1>8, <3>2, Updated
        <4>2. told'[b].state = level[b] /\ told'[b].at = now /\ level[b] \in {0, 1}
          <5>1. told'[b] = [state |-> level[b], at |-> now, seen |-> seen_since(b)]
            BY <2>1, <3>2
          <5> QED
            BY <5>1, OneButton
        <4> QED
          BY <4>1, <4>2
      <3>3. CASE b \in S /\ reaction(b) # "event"
        <4>1. told'[b] = told[b] /\ bdata'[b] = updated(b)
          BY <1>8, <2>1, <3>3
        <4>2. /\ updated(b).seen = bdata[b].seen
              /\ \/ updated(b).last_state = bdata[b].last_state
                 \/ /\ bdata[b].last_state = -1 /\ Type[b] = "EV_KEY"
                    /\ updated(b).last_state = 0
          BY <3>3, Updated
        <4> QED
          BY <4>1, <4>2 DEF GpioInv, ToldInv
      <3> QED
        BY <3>1, <3>2, <3>3
    <2> QED
      BY <1>1, <2>2, <2>3, SameBoard DEF ToldInv
  <1>11. CountInv'
    <2>1. readings' \in [Buttons -> [state : {-1, 0, 1}, n : Nat]]
      <3>1. \A b \in Buttons : readings'[b] \in [state : {-1, 0, 1}, n : Nat]
        <4>1. \A b \in S : readings'[b] \in [state : {-1, 0, 1}, n : Nat]
          BY OneMore
        <4>2. \A b \in Buttons \ S : readings'[b] = readings[b]
          BY DEF handle_buttons
        <4> QED
          BY <4>1, <4>2, OneButton
      <3>2. readings' = [b \in Buttons |-> readings'[b]]
        BY DEF handle_buttons
      <3> QED
        BY <3>1, <3>2
    <2>2. ASSUME NEW b \in Buttons, bdata'[b].count > 0,
                 ~(bdata'[b].last_state = -1 /\ Type[b] = "EV_SW")
          PROVE  /\ readings'[b].state \in {0, 1} \ {bdata'[b].last_state}
                 /\ bdata'[b].last_state = -1 => readings'[b].state = 1
                 /\ readings'[b].n >= bdata'[b].count
      <3>1. CASE b \notin S
        <4>1. readings'[b] = readings[b] /\ bdata'[b] = bdata[b]
          BY <1>8, <3>1 DEF handle_buttons
        <4> QED
          BY <2>2, <4>1 DEF GpioInv, CountInv
      <3>2. CASE b \in S
        <4>1. /\ reaction(b) = "count" /\ bdata'[b].count = bdata[b].count + 1
              /\ bdata'[b].last_state = bdata[b].last_state
          BY <1>8, <2>2, <3>2, Updated
        <4>2. /\ bdata[b].last_state # level[b] /\ level[b] \in {0, 1}
              /\ bdata[b].last_state = -1 /\ Type[b] = "EV_KEY" => level[b] = 1
              /\ Type[b] \in {"EV_KEY", "EV_SW"} /\ bdata[b].count \in Nat
          BY <4>1, Updated, OneButton
        <4>3. /\ readings'[b].state = level[b] /\ readings'[b].n \in Nat
              /\ readings'[b].n > bdata[b].count
          BY <2>2, <3>2, <4>1, OneMore
        <4> QED
          BY <2>2, <4>1, <4>2, <4>3
      <3> QED
        BY <3>1, <3>2
    <2> QED
      BY <1>1, <2>1, <2>2, SameBoard DEF CountInv
  <1> QED
    BY <1>4, <1>5, <1>6, <1>7, <1>9, <1>10, <1>11 DEF GpioInv

-----------------------------------------------------------------------------
(***************************************************************************)
(* The theorems.                                                           *)
(***************************************************************************)

\* Before the probe nothing is known of any button.
LEMMA GpioInit ==
  ASSUME Init
  PROVE  GpioInv
  <1>1. setup \in Setups
    BY DEF Init
  <1>2. /\ setup.nbuttons \in Nat /\ setup.jiffies \in Nat \ {0}
        /\ setup.threshold \in [1..setup.nbuttons -> Nat]
        /\ setup.flips \in Nat /\ setup.fails \in Nat
    BY <1>1, ButtonAssumption DEF ButtonAssumption
  <1>3. /\ Buttons = 1..setup.nbuttons /\ Threshold \in [Buttons -> Nat]
        /\ Jiffies \in Nat \ {0} /\ MaxFlips \in Nat /\ MaxFails \in Nat
    BY <1>2 DEF Buttons, Threshold, Jiffies, MaxFlips, MaxFails
  <1>4. now \in 0..Jiffies-1
    BY <1>3, Modulo DEF Init
  <1>5. events = <<>> /\ sent = <<>> /\ buf = <<>>
    BY DEF Init
  <1>6. TypeOK
    <2>1. /\ level \in [Buttons -> {0, 1}] /\ edge \in [Buttons -> BOOLEAN]
          /\ irq \in [Buttons -> {"none", "requested", "on", "failed", "off"}]
          /\ work \subseteq Buttons /\ poll \in BOOLEAN
          /\ step \in {"probe", "on", "close", "removed"}
          /\ i \in 1..setup.nbuttons+1
          /\ flips \in 0..MaxFlips /\ fails \in 0..MaxFails
      <3>1. /\ level \in [Buttons -> {0, 1}]
            /\ edge = [b \in Buttons |-> FALSE] /\ irq = [b \in Buttons |-> "none"]
            /\ work = {} /\ poll = FALSE /\ step = "probe"
        BY DEF Init
      <3>2. edge \in [Buttons -> BOOLEAN]
        BY <3>1
      <3>3. irq \in [Buttons -> {"none", "requested", "on", "failed", "off"}]
        BY <3>1
      <3>4. i = 1 /\ flips = 0 /\ fails = 0
        BY DEF Init
      <3>5. /\ i \in 1..setup.nbuttons+1
            /\ flips \in 0..MaxFlips /\ fails \in 0..MaxFails
        BY <1>2, <1>3, <3>4
      <3>6. poll \in BOOLEAN
        BY <3>1
      <3> QED
        BY <3>1, <3>2, <3>3, <3>5, <3>6
    <2>2. /\ bdata \in [Buttons -> [last_state : {-1, 0, 1}, count : Nat,
                                    seen : 0..Jiffies-1]]
          /\ \A b \in Buttons : bdata[b].count <= Threshold[b]
      BY <1>3 DEF Init
    <2>3. /\ events \in Seq(WorkItem) /\ sent \in Seq(WorkItem)
          /\ buf \in Variable \cup {<<>>}
      BY <1>5
    <2> QED
      BY <1>1, <1>4, <2>1, <2>2, <2>3 DEF TypeOK
  <1>7. FillInv /\ CreatedInv
    BY <1>5 DEF FillInv, CreatedInv
  <1>8. OrderInv
    <2>1. Total = 0
      BY <1>5 DEF Total
    <2> QED
      BY <2>1 DEF OrderInv, Alternates, Latest
  <1>9. QuietInv
    BY DEF Init, QuietInv
  <1>10. ToldInv /\ CountInv
    BY <1>3 DEF Init, ToldInv, CountInv
  <1> QED
    BY <1>6, <1>7, <1>8, <1>9, <1>10 DEF GpioInv

\* A step of the work item that reads the buttons handles some of them.
LEMMA ReadingStep ==
  ASSUME GpioInv,
         gpio_keys_polled_poll \/ \E b \in Buttons : gpio_keys_irq_work_func(b)
  PROVE  \E S \in SUBSET Buttons :
           /\ handle_buttons(S)
           /\ UNCHANGED <<setup, level, edge, irq, poll, step, i, now, outVars, flips>>
           /\ work' \subseteq work
  <1>1. CASE gpio_keys_polled_poll
    <2>1. /\ handle_buttons(Buttons)
          /\ UNCHANGED <<setup, level, edge, irq, poll, step, i, now, outVars, flips>>
          /\ work' \subseteq work
      BY <1>1 DEF gpio_keys_polled_poll, devVars
    <2> QED
      BY <2>1
  <1>2. ASSUME NEW b \in Buttons, gpio_keys_irq_work_func(b)
        PROVE  \E S \in SUBSET Buttons :
                 /\ handle_buttons(S)
                 /\ UNCHANGED <<setup, level, edge, irq, poll, step, i, now, outVars,
                                flips>>
                 /\ work' \subseteq work
    <2>1. /\ handle_buttons({b})
          /\ UNCHANGED <<setup, level, edge, irq, poll, step, i, now, outVars, flips>>
          /\ work' \subseteq work
      BY <1>2 DEF gpio_keys_irq_work_func
    <2>2. {b} \in SUBSET Buttons
      OBVIOUS
    <2> QED
      BY <2>1, <2>2
  <1> QED
    BY <1>1, <1>2

\* The invariant holds in every reachable state, on every board.
THEOREM GpioInvariant == Spec => []GpioInv
  <1>1. GpioInv /\ [Next]_vars => GpioInv'
    <2> SUFFICES ASSUME GpioInv, [Next]_vars
                 PROVE  GpioInv'
      OBVIOUS
    <2>1. CASE Probe
      BY <2>1, ProbeStep
    <2>2. CASE tick \/ \E b \in Buttons : flip(b) \/ button_handle_irq(b)
      BY <2>2, OutsideStep
    <2>3. CASE gpio_keys_polled_poll \/ \E b \in Buttons : gpio_keys_irq_work_func(b)
      <3>1. PICK S \in SUBSET Buttons :
              /\ handle_buttons(S)
              /\ UNCHANGED <<setup, level, edge, irq, poll, step, i, now, outVars, flips>>
              /\ work' \subseteq work
        BY <2>3, ReadingStep
      <3> QED
        BY <3>1, HandleStep
    <2>4. CASE Tell
      BY <2>4, AllocStep, FormatStep, CopyStep, BroadcastStep DEF Tell
    <2>5. CASE Close
      BY <2>5, CloseStep
    <2>6. CASE UNCHANGED vars
      <3>1. /\ UNCHANGED <<setup, bdata, events, outVars, readings, told>>
            /\ setup' = setup /\ level' = level /\ edge' = edge /\ irq' = irq
            /\ work' = work /\ poll' = poll /\ step' = step /\ i' = i
            /\ bdata' = bdata /\ now' = now /\ flips' = flips /\ fails' = fails
            /\ events' = events /\ sent' = sent /\ buf' = buf
        BY <2>6 DEF vars, outVars
      <3>2. TypeOK'
        BY <3>1, SameBoard DEF GpioInv, TypeOK
      <3>3. QuietInv'
        BY <3>1, SameBoard DEF GpioInv, QuietInv
      <3>4. fails <= fails' /\ fails' \in Nat
        BY <3>1, Types, Board DEF GpioInv
      <3> QED
        BY <3>1, <3>2, <3>3, <3>4, Undisturbed DEF GpioInv
    <2> QED
      BY <2>1, <2>2, <2>3, <2>4, <2>5, <2>6 DEF Next, Watch
  <1> QED
    BY <1>1, GpioInit, PTL DEF Spec

\* Once the driver is removed it looks at no button again.
THEOREM RemovedIsQuiet == Spec => []QuietAfterRemove
  <1>1. GpioInv => QuietAfterRemove
    BY Types DEF GpioInv, QuietInv, QuietAfterRemove
  <1> QED
    BY <1>1, GpioInvariant, PTL

\* On one CPU every uevent carries what is its own although all are built in
\* one static buffer, and without sleeping allocations the uevents of a button
\* alternate: user space hears the changes in their order.
THEOREM UeventsAreFaithful == Spec => []UeventsFaithful
  <1>1. GpioInv => UeventsFaithful
    <2> SUFFICES ASSUME GpioInv
                 PROVE  SentAsCreated /\ SentAlternate
      BY DEF GpioInv, UeventsFaithful
    <2>1. SentAsCreated
      BY DEF GpioInv, CreatedInv, SentAsCreated
    <2>2. ASSUME Cpus = 1, ~Sleeps, fails = 0, NEW j \in DOMAIN sent,
                 NEW k \in DOMAIN sent, j < k, sent[j].btn = sent[k].btn,
                 \A m \in j+1..k-1 : sent[m].btn # sent[k].btn
          PROVE  sent[j].state # sent[k].state
      <3>1. /\ DOMAIN sent = 1..Len(sent) /\ Len(sent) \in Nat /\ Len(events) \in Nat
            /\ Total = Len(sent) + Len(events)
        BY Lists DEF GpioInv, Total
      <3>2. \A n \in 1..Len(sent) : n \in 1..Total /\ Entry(n) = sent[n]
        BY <3>1 DEF Entry
      <3>3. \A m \in j+1..k-1 : m \in 1..Len(sent)
        BY <3>1
      <3>4. Alternates
        BY <2>2 DEF GpioInv, OrderInv
      <3>5. \A m \in j+1..k-1 : Entry(m).btn # Entry(k).btn
        BY <2>2, <3>1, <3>2, <3>3
      <3>6. Entry(j).state # Entry(k).state
        BY <2>2, <3>1, <3>2, <3>4, <3>5 DEF Alternates
      <3> QED
        BY <3>1, <3>2, <3>6
    <2> QED
      BY <2>1, <2>2 DEF SentAlternate
  <1> QED
    BY <1>1, GpioInvariant, PTL

\* What is told of a button changes only when a reading of it is an event.
LEMMA ToldChange ==
  ASSUME GpioInv, [Next]_vars, NEW b \in Buttons, told'[b] # told[b]
  PROVE  /\ reaction(b) = "event"
         /\ told'[b].state = level[b] /\ told'[b].seen = seen_since(b)
         /\ readings'[b].state = level[b]
         /\ ~(bdata[b].last_state = -1 /\ Type[b] = "EV_SW") =>
              readings'[b].n > Threshold[b]
  <1>1. CASE gpio_keys_polled_poll \/ \E c \in Buttons : gpio_keys_irq_work_func(c)
    <2>1. PICK S \in SUBSET Buttons : handle_buttons(S)
      BY <1>1, ReadingStep
    <2>2. told'[b] = IF b \notin {c \in S : reaction(c) = "event"} THEN told[b]
                     ELSE [state |-> level[b], at |-> now, seen |-> seen_since(b)]
      BY <2>1 DEF handle_buttons
    <2>3. b \in S /\ reaction(b) = "event"
      BY <2>2
    <2>4. bdata[b].count = Threshold[b]
      BY <2>3, Updated
    <2>5. told'[b].state = level[b] /\ told'[b].seen = seen_since(b)
      BY <2>2, <2>3
    <2> QED
      BY <2>1, <2>3, <2>4, <2>5, OneMore
  <1>2. CASE ~(gpio_keys_polled_poll \/ \E c \in Buttons : gpio_keys_irq_work_func(c))
    <2>1. CASE Probe
      BY <2>1 DEF Probe, polled_probe, probe_no_irq, probe_schedule,
        probe_request_irq, probe_end, histVars
    <2>2. CASE tick \/ \E c \in Buttons : flip(c) \/ button_handle_irq(c)
      BY <2>2 DEF tick, flip, button_handle_irq, histVars
    <2>3. CASE Tell
      BY <2>3 DEF Tell, alloc_skb, add_var_format, add_var_copy, broadcast_uevent,
        histVars
    <2>4. CASE Close
      BY <2>4 DEF Close, remove, polled_close, irq_close, irq_close_end, histVars
    <2>5. CASE UNCHANGED vars
      BY <2>5 DEF vars
    <2> QED
      BY <1>2, <2>1, <2>2, <2>3, <2>4, <2>5 DEF Next, Watch
  <1> QED
    BY <1>1, <1>2

\* No bounce shorter than the threshold is reported, and the first report of
\* a key is a press.
THEOREM OnlyPressesReported == Spec => ReportsArePresses
  <1>1. GpioInv /\ [Next]_vars =>
          [\A b \in Buttons :
             told'[b] # told[b] /\ ~(told[b].state = -1 /\ Type[b] = "EV_SW")
             => readings'[b].state = told'[b].state /\ readings'[b].n > Threshold[b]]_vars
    <2> SUFFICES ASSUME GpioInv, [Next]_vars, NEW b \in Buttons, told'[b] # told[b],
                        ~(told[b].state = -1 /\ Type[b] = "EV_SW")
                 PROVE  readings'[b].state = told'[b].state /\ readings'[b].n > Threshold[b]
      OBVIOUS
    <2>1. ~(bdata[b].last_state = -1 /\ Type[b] = "EV_SW")
      BY DEF GpioInv, ToldInv
    <2> QED
      BY <2>1, ToldChange
  <1>2. GpioInv /\ [Next]_vars =>
          [\A b \in Buttons :
             told'[b] # told[b] /\ Type[b] = "EV_KEY" /\ told[b].state # 1
             => told'[b].state = 1]_vars
    <2> SUFFICES ASSUME GpioInv, [Next]_vars, NEW b \in Buttons, told'[b] # told[b],
                        Type[b] = "EV_KEY", told[b].state # 1
                 PROVE  told'[b].state = 1
      OBVIOUS
    <2>1. reaction(b) = "event" /\ told'[b].state = level[b]
      BY ToldChange
    <2>2. /\ bdata[b].last_state # level[b] /\ level[b] \in {0, 1}
          /\ bdata[b].last_state = -1 => level[b] = 1
          /\ told[b].state \in {-1, 0, 1}
      BY <2>1, Updated, OneButton
    <2>3. bdata[b].last_state \in {-1, 0}
      BY <2>2 DEF GpioInv, ToldInv
    <2> QED
      BY <2>1, <2>2, <2>3
  <1> QED
    BY <1>1, <1>2, GpioInvariant, PTL
    DEF Spec, ReportsArePresses, Debounced, PressComesFirst

\* The SEEN of an event is the time since the event before, unless that one
\* was handled at jiffies 0.
THEOREM SeenMeasuresHold == Spec => SeenIsHoldTime
  <1>1. GpioInv /\ [Next]_vars =>
          [\A b \in Buttons :
             told'[b] # told[b] /\ told[b].state # -1 /\ told[b].at # 0
             => told'[b].seen = (now - told[b].at) % Jiffies]_vars
    <2> SUFFICES ASSUME GpioInv, [Next]_vars, NEW b \in Buttons, told'[b] # told[b],
                        told[b].state # -1, told[b].at # 0
                 PROVE  told'[b].seen = (now - told[b].at) % Jiffies
      OBVIOUS
    <2>1. told'[b].seen = seen_since(b)
      BY ToldChange
    <2>2. bdata[b].seen = told[b].at
      BY DEF GpioInv, ToldInv
    <2> QED
      BY <2>1, <2>2 DEF seen_since
  <1> QED
    BY <1>1, GpioInvariant, PTL DEF Spec, SeenIsHoldTime
=============================================================================
