------------------------------ MODULE GpioButton ------------------------------
(***************************************************************************)
(* The gpio-button-hotplug driver: it watches the buttons and switches of  *)
(* a board, by polling or by interrupts, removes their bouncing, and tells *)
(* user space of every change with a uevent whose SEEN is the time since   *)
(* the change before (rc.button/reset decides by it between a reboot and a *)
(* factory reset).  Every uevent is a work item of its own; they all build *)
(* their text in one static buffer.                                        *)
(***************************************************************************)
EXTENDS Integers, Sequences, FiniteSets, SequencesExt

CONSTANTS MaxButtons, \* the most buttons a board has
          Setups      \* boards: what the device tree and the kernel give

ASSUME ButtonAssumption ==
  /\ MaxButtons \in Nat
  /\ \A s \in Setups :
       /\ s.nbuttons \in 0..MaxButtons
       /\ s.type \in [1..s.nbuttons -> {"EV_KEY", "EV_SW"}]
       /\ s.threshold \in [1..s.nbuttons -> Nat]
       /\ {s.polled, s.sleeps} \subseteq BOOLEAN
       /\ ~s.polled => \A b \in 1..s.nbuttons : s.threshold[b] = 0
       /\ {s.jiffies, s.cpus} \subseteq Nat \ {0}
       /\ {s.flips, s.fails} \subseteq Nat

VARIABLES setup,     \* the board
          level,     \* what the gpio line says, 1 for pressed
          edge,      \* an interrupt of the button is pending
          irq,       \* the interrupt of each: "none" yet, "requested", "on",
                     \* "failed" or "off"
          work,      \* bdata->work of each button is queued
          poll,      \* bdev->work is queued
          bdata,     \* last_state, count and seen of each button
          now,       \* jiffies
          step,      \* "probe", "on", "close" or "removed"
          i,         \* the button that probe or close is at
          events,    \* the work items of the events, oldest first
          buf,       \* static char buf[128] of bh_event_add_var
          sent,      \* what was broadcast
          flips, fails,   \* counted for the bounds
          readings,  \* history: the last reading of each button, how often
          told,      \* history: the last change handled of each button
          missed     \* history: buttons that changed after their first reading
                     \* and before their interrupt was on, and not since

vars == <<setup, level, edge, irq, work, poll, bdata, now, step, i, events, buf, sent,
          flips, fails, readings, told, missed>>
devVars  == <<irq, work, poll, step, i>>
outVars  == <<buf, sent>>
histVars == <<readings, told, missed>>

Buttons   == 1..setup.nbuttons  \* positions in the list of buttons
Type      == setup.type         \* "EV_KEY" or "EV_SW" of each
Polled    == setup.polled       \* gpio-keys-polled or gpio-keys
Threshold == setup.threshold    \* readings a change must last if polled
Jiffies   == setup.jiffies      \* modulus of the clock
Cpus      == setup.cpus         \* more than 1: work items run at the same time
Sleeps    == setup.sleeps       \* alloc_skb(GFP_KERNEL) may sleep
MaxFlips  == setup.flips        \* bound: changes of the buttons
MaxFails  == setup.fails        \* bound: failed allocations and requests

Init ==
  /\ setup \in Setups
  /\ level \in [Buttons -> {0, 1}]
  /\ edge = [b \in Buttons |-> FALSE] /\ irq = [b \in Buttons |-> "none"]
  /\ work = {} /\ poll = FALSE
  /\ bdata = [b \in Buttons |-> [last_state |-> -1, count |-> 0, seen |-> 0]]
  /\ now = 1 % Jiffies
  /\ step = "probe" /\ i = 1
  /\ events = <<>> /\ buf = <<>> /\ sent = <<>>
  /\ flips = 0 /\ fails = 0
  /\ readings = [b \in Buttons |-> [state |-> -1, n |-> 0]]
  /\ told = [b \in Buttons |-> [state |-> -1, at |-> 0, seen |-> 0]]
  /\ missed = {}

(***************************************************************************)
(* gpio_keys_handle_button: what it makes of the reading of button b.      *)
(***************************************************************************)
reaction_forgets_count(b) ==    \* mutant: the counter is not reset
  LET d == bdata[b]
  IN  IF d.last_state = -1 /\ Type[b] = "EV_KEY" /\ level[b] = 0 THEN "set_state"
      ELSE IF d.last_state = level[b] THEN "none"
      ELSE IF d.count < Threshold[b] THEN "count" ELSE "event"

reaction(b) ==
  LET d == bdata[b]
  IN  IF d.last_state = -1 /\ Type[b] = "EV_KEY" /\ level[b] = 0 THEN "set_state"
      ELSE IF d.last_state = level[b] THEN "reset"
      ELSE IF d.count < Threshold[b] THEN "count" ELSE "event"

updated_keeps_seen(b) ==        \* mutant: only a press sets bdata->seen
  LET d == bdata[b]
  IN  CASE reaction(b) = "reset"     -> [d EXCEPT !.count = 0]
        [] reaction(b) = "count"     -> [d EXCEPT !.count = @ + 1]
        [] reaction(b) = "set_state" -> [d EXCEPT !.count = 0, !.last_state = level[b]]
        [] reaction(b) = "event"     -> [last_state |-> level[b], count |-> 0,
                                         seen |-> IF d.seen = 0 THEN now ELSE d.seen]
        [] OTHER                     -> d

updated(b) ==
  LET d == bdata[b]
  IN  CASE reaction(b) = "reset"     -> [d EXCEPT !.count = 0]
        [] reaction(b) = "count"     -> [d EXCEPT !.count = @ + 1]
        [] reaction(b) = "set_state" -> [d EXCEPT !.count = 0, !.last_state = level[b]]
        [] reaction(b) = "event"     -> [last_state |-> level[b], count |-> 0, seen |-> now]
        [] OTHER                     -> d

\* SEEN of the event: a seen of 0 stands for "no event before".
seen_since(b) == (now - (IF bdata[b].seen = 0 THEN now ELSE bdata[b].seen)) % Jiffies

Event(b) == [btn |-> b, state |-> level[b], pc |-> "queued", out |-> <<>>]

\* The buttons of T in the order in which the poll goes through them.
InOrder(T) ==
  {s \in [1..Cardinality(T) -> T] :
     Range(s) = T /\ \A j, k \in DOMAIN s : j < k => s[j] < s[k]}

\* The buttons of S are handled in order; button_hotplug_create_event fails
\* for those of lost, which the caller ignores.
handle_buttons(S) ==
  LET changed == {b \in S : reaction(b) = "event"}
  IN  /\ bdata' = [b \in Buttons |-> IF b \in S THEN updated(b) ELSE bdata[b]]
      /\ \E lost \in SUBSET changed :
           /\ fails + Cardinality(lost) <= MaxFails
           /\ fails' = fails + Cardinality(lost)
           /\ \E s \in InOrder(changed \ lost) :
                events' = events \o [k \in DOMAIN s |-> Event(s[k])]
      /\ readings' = [b \in Buttons |->
            IF b \notin S THEN readings[b]
            ELSE IF readings[b].state # level[b] THEN [state |-> level[b], n |-> 1]
            ELSE [readings[b] EXCEPT !.n = IF @ > Threshold[b] THEN @ ELSE @ + 1]]
      /\ told' = [b \in Buttons |->
            IF b \notin changed THEN told[b]
            ELSE [state |-> level[b], at |-> now, seen |-> seen_since(b)]]
      /\ UNCHANGED missed

(***************************************************************************)
(* gpio_keys_probe and gpio_keys_polled_probe.                             *)
(***************************************************************************)
polled_probe ==
  /\ Polled /\ step = "probe"
  /\ poll' = TRUE /\ step' = "on"
  /\ UNCHANGED <<setup, level, edge, irq, work, bdata, now, i, events, outVars, flips,
                 fails, histVars>>

\* gpiod_to_irq finds no interrupt: the button is never looked at.
probe_no_irq ==
  /\ ~Polled /\ step = "probe" /\ i \in Buttons /\ irq[i] = "none"
  /\ fails < MaxFails /\ fails' = fails + 1
  /\ i' = i + 1
  /\ UNCHANGED <<setup, level, edge, irq, work, poll, step, bdata, now, events, outVars,
                 flips, histVars>>

\* The state at start is read by a work item that is queued before the
\* interrupt is requested.
probe_schedule ==
  /\ ~Polled /\ step = "probe" /\ i \in Buttons /\ irq[i] = "none"
  /\ work' = work \cup {i}
  /\ irq' = [irq EXCEPT ![i] = "requested"]
  /\ UNCHANGED <<setup, level, edge, poll, step, i, bdata, now, events, outVars, flips,
                 fails, histVars>>

probe_request_irq ==
  /\ ~Polled /\ step = "probe" /\ i \in Buttons /\ irq[i] = "requested"
  /\ \/ irq' = [irq EXCEPT ![i] = "on"] /\ UNCHANGED fails
     \/ irq' = [irq EXCEPT ![i] = "failed"] /\ fails < MaxFails /\ fails' = fails + 1
  /\ i' = i + 1
  /\ UNCHANGED <<setup, level, edge, work, poll, step, bdata, now, events, outVars,
                 flips, histVars>>

probe_end ==
  /\ ~Polled /\ step = "probe" /\ i \notin Buttons
  /\ step' = "on"
  /\ UNCHANGED <<setup, level, edge, irq, work, poll, i, bdata, now, events, outVars,
                 flips, fails, histVars>>

(***************************************************************************)
(* A button changes; its interrupt; the work items that read the buttons.  *)
(***************************************************************************)
flip(b) ==
  /\ flips < MaxFlips /\ flips' = flips + 1
  /\ level' = [level EXCEPT ![b] = 1 - @]
  /\ edge' = [edge EXCEPT ![b] = irq[b] = "on"]
  /\ missed' = IF irq[b] = "requested" /\ b \notin work
               THEN missed \cup {b} ELSE missed \ {b}
  /\ UNCHANGED <<setup, devVars, bdata, now, events, outVars, fails, readings, told>>

irq_rising_only(b) ==           \* mutant: IRQF_TRIGGER_FALLING is missing
  /\ edge[b] /\ irq[b] = "on"
  /\ edge' = [edge EXCEPT ![b] = FALSE]
  /\ work' = IF level[b] = 1 THEN work \cup {b} ELSE work
  /\ UNCHANGED <<setup, level, irq, poll, step, i, bdata, now, events, outVars, flips,
                 fails, histVars>>

button_handle_irq(b) ==
  /\ edge[b] /\ irq[b] = "on"
  /\ edge' = [edge EXCEPT ![b] = FALSE]
  /\ work' = work \cup {b}
  /\ UNCHANGED <<setup, level, irq, poll, step, i, bdata, now, events, outVars, flips,
                 fails, histVars>>

gpio_keys_irq_work_func(b) ==
  /\ b \in work
  /\ work' = work \ {b}
  /\ handle_buttons({b})
  /\ UNCHANGED <<setup, level, edge, irq, poll, step, i, now, outVars, flips>>

gpio_keys_polled_poll ==
  /\ poll
  /\ handle_buttons(Buttons)
  /\ UNCHANGED <<setup, level, edge, devVars, now, outVars, flips>>

tick ==
  /\ now' = (now + 1) % Jiffies
  /\ UNCHANGED <<setup, level, edge, devVars, bdata, events, outVars, flips, fails, histVars>>

(***************************************************************************)
(* The work items of the events, button_hotplug_work.  On one CPU they     *)
(* start in order, and another one runs only while one sleeps.             *)
(***************************************************************************)
MayRun_unbound(k) == TRUE       \* mutant: an unbound workqueue

MayRun(k) ==
  \/ Cpus > 1
  \/ /\ \A j \in 1..k-1 : events[j].pc # "queued"
     /\ Sleeps \/ k = 1
     /\ \A j \in DOMAIN events \ {k} : events[j].pc # "copy"

alloc_skb(k) ==
  /\ events[k].pc = "queued" /\ MayRun(k)
  /\ \/ events' = [events EXCEPT ![k].pc = "fill"] /\ UNCHANGED fails
     \/ events' = RemoveAt(events, k) /\ fails < MaxFails /\ fails' = fails + 1
  /\ UNCHANGED <<setup, level, edge, devVars, bdata, now, outVars, flips, histVars>>

\* The variables of an event that tell one from another.
Variables(e) == <<<<"ACTION", e.state>>, <<"BUTTON", e.btn>>>>

\* bh_event_add_var writes the next variable to the static buffer,
add_var_format(k) ==
  /\ events[k].pc = "fill" /\ MayRun(k)
  /\ buf' = Variables(events[k])[Len(events[k].out) + 1]
  /\ events' = [events EXCEPT ![k].pc = "copy"]
  /\ UNCHANGED <<setup, level, edge, devVars, bdata, now, sent, flips, fails, histVars>>

\* and copies the buffer to the message.
add_var_copy(k) ==
  /\ events[k].pc = "copy" /\ MayRun(k)
  /\ LET out == Append(events[k].out, buf)
     IN  events' = [events EXCEPT ![k].out = out,
                       ![k].pc = IF Len(out) = 2 THEN "send" ELSE "fill"]
  /\ UNCHANGED <<setup, level, edge, devVars, bdata, now, outVars, flips, fails, histVars>>

broadcast_uevent(k) ==
  /\ events[k].pc = "send" /\ MayRun(k)
  /\ sent' = Append(sent, events[k])
  /\ events' = RemoveAt(events, k)
  /\ UNCHANGED <<setup, level, edge, devVars, bdata, now, buf, flips, fails, histVars>>

(***************************************************************************)
(* gpio_keys_remove.                                                       *)
(***************************************************************************)
remove ==
  /\ step = "on"
  /\ step' = "close" /\ i' = 1
  /\ UNCHANGED <<setup, level, edge, irq, work, poll, bdata, now, events, outVars, flips,
                 fails, histVars>>

polled_close ==
  /\ Polled /\ step = "close"
  /\ poll' = FALSE /\ step' = "removed"
  /\ UNCHANGED <<setup, level, edge, irq, work, i, bdata, now, events, outVars, flips,
                 fails, histVars>>

close_cancel_first ==           \* mutant: cancel, then disable_irq
  /\ ~Polled /\ step = "close" /\ i \in Buttons
  /\ IF irq[i] = "on" /\ i \in work
     THEN work' = work \ {i} /\ UNCHANGED <<irq, i>>
     ELSE irq' = [irq EXCEPT ![i] = IF @ = "on" THEN "off" ELSE @]
          /\ i' = i + 1 /\ UNCHANGED work
  /\ UNCHANGED <<setup, level, edge, poll, step, bdata, now, events, outVars, flips,
                 fails, histVars>>

\* disable_irq waits for the handler, cancel_delayed_work_sync for the work.
irq_close ==
  /\ ~Polled /\ step = "close" /\ i \in Buttons
  /\ IF irq[i] = "on"
     THEN irq' = [irq EXCEPT ![i] = "off"] /\ UNCHANGED <<work, i>>
     ELSE work' = work \ {i} /\ i' = i + 1 /\ UNCHANGED irq
  /\ UNCHANGED <<setup, level, edge, poll, step, bdata, now, events, outVars, flips,
                 fails, histVars>>

irq_close_end ==
  /\ ~Polled /\ step = "close" /\ i \notin Buttons
  /\ step' = "removed"
  /\ UNCHANGED <<setup, level, edge, irq, work, poll, i, bdata, now, events, outVars,
                 flips, fails, histVars>>

Probe == \/ polled_probe \/ probe_no_irq \/ probe_schedule
         \/ probe_request_irq \/ probe_end
Watch == \/ \E b \in Buttons : button_handle_irq(b) \/ gpio_keys_irq_work_func(b)
         \/ gpio_keys_polled_poll
Tell  == \E k \in DOMAIN events :
           alloc_skb(k) \/ add_var_format(k) \/ add_var_copy(k) \/ broadcast_uevent(k)
Close == remove \/ polled_close \/ irq_close \/ irq_close_end

Next == Probe \/ Watch \/ Tell \/ Close \/ tick \/ \E b \in Buttons : flip(b)

Spec == Init /\ [][Next]_vars

\* The kernel runs the probe to its end, every interrupt, and every work
\* item that is queued.  Nobody has to press or to remove anything.
Fairness ==
  /\ WF_vars(Probe)
  /\ \A b \in 1..MaxButtons :
       /\ WF_vars(b \in Buttons /\ button_handle_irq(b))
       /\ WF_vars(b \in Buttons /\ gpio_keys_irq_work_func(b))
  /\ WF_vars(gpio_keys_polled_poll)
  /\ WF_vars(Tell)

LiveSpec == Spec /\ Fairness

-----------------------------------------------------------------------------
Variable == ({"ACTION"} \X {0, 1}) \cup ({"BUTTON"} \X Buttons)
WorkItem == [btn : Buttons, state : {0, 1}, pc : {"queued", "fill", "copy", "send"},
             out : Seq(Variable \cup {<<>>})]

\* Type invariant.
TypeOK ==
  /\ setup \in Setups
  /\ level \in [Buttons -> {0, 1}] /\ edge \in [Buttons -> BOOLEAN]
  /\ irq \in [Buttons -> {"none", "requested", "on", "failed", "off"}]
  /\ work \subseteq Buttons /\ poll \in BOOLEAN
  /\ bdata \in [Buttons -> [last_state : {-1, 0, 1}, count : Nat, seen : 0..Jiffies-1]]
  /\ \A b \in Buttons : bdata[b].count <= Threshold[b]
  /\ now \in 0..Jiffies-1 /\ step \in {"probe", "on", "close", "removed"}
  /\ i \in 1..setup.nbuttons+1
  /\ events \in Seq(WorkItem) /\ sent \in Seq(WorkItem)
  /\ buf \in Variable \cup {<<>>}
  /\ flips \in 0..MaxFlips /\ fails \in 0..MaxFails

\* A change is reported only if the button was read in the new state
\* Threshold + 1 times in a row: no shorter bounce gets through.  The first
\* report of a switch is the exception, its readings may differ.
Debounced ==
  [][\A b \in Buttons :
       told'[b] # told[b] /\ ~(told[b].state = -1 /\ Type[b] = "EV_SW")
       => readings'[b].state = told'[b].state /\ readings'[b].n > Threshold[b]]_vars

\* "Don't advertise unpressed buttons on initialization" (line 264): the
\* first event of a key is its press, and its events alternate from there.
PressComesFirst ==
  [][\A b \in Buttons :
       told'[b] # told[b] /\ Type[b] = "EV_KEY" /\ told[b].state # 1
       => told'[b].state = 1]_vars

\* gpio_keys_handle_button lets no bounce through, nor a button that was
\* never pressed.
ReportsArePresses == Debounced /\ PressComesFirst

\* The SEEN of a release is the time since the press was seen, by which
\* rc.button/reset chooses what to do.  The one exception is a press handled
\* when jiffies is 0, which is taken for "no event before".
SeenIsHoldTime ==
  [][\A b \in Buttons :
       told'[b] # told[b] /\ told[b].state # -1 /\ told[b].at # 0
       => told'[b].seen = (now - told[b].at) % Jiffies]_vars

\* Every uevent carries the action and the name of its own button, although
\* all are built in one static buffer: on one CPU.
SentAsCreated ==
  Cpus = 1 => \A k \in DOMAIN sent : sent[k].out = Variables(sent[k])

\* On one CPU and without sleeping allocations the events of a button reach
\* user space in the order of the changes: no two in a row are equal unless
\* one was lost.
SentAlternate ==
  Cpus = 1 /\ ~Sleeps /\ fails = 0 =>
    \A j, k \in DOMAIN sent :
      /\ j < k /\ sent[j].btn = sent[k].btn
      /\ \A m \in j+1..k-1 : sent[m].btn # sent[k].btn
      => sent[j].state # sent[k].state

\* The works of button_hotplug_create_event tell user space what happened, as
\* it happened and in its order.
UeventsFaithful == TypeOK /\ SentAsCreated /\ SentAlternate

\* Once the driver is removed it looks at no button again.
QuietAfterRemove == step = "removed" => work = {} /\ ~poll

\* Whatever the interleaving of bounces, interrupts and work items, the
\* state the driver believes in becomes the state of the button while the
\* device is in use, unless the button changed unseen in the probe.
Settled(b) == b \in Buttons /\ bdata[b].last_state = level[b]

Watched(b) == b \in Buttons /\ step = "on" /\ (Polled \/ irq[b] = "on")

StateFollowsButton ==
  \A b \in 1..MaxButtons : <>[](Watched(b) /\ b \notin missed) => <>[]Settled(b)

\* The last thing user space hears of a button is the state it is in: the
\* last uevent is the last change, unless there was none to report, one was
\* lost, or one was overtaken in a sleeping allocation.
LastSent(b) ==
  LET k == SelectLastInSeq(sent, LAMBDA e : e.btn = b)
  IN  IF k = 0 THEN 0 ELSE sent[k].state

UserSpaceHears ==
  \A b \in 1..MaxButtons :
    <>[](Watched(b) /\ b \notin missed /\ fails = 0 /\ ~Sleeps)
    => <>[](b \in Buttons /\ LastSent(b) = level[b])

\* What a button does in the end reaches the driver and user space.
ButtonIsHeard == StateFollowsButton /\ UserSpaceHears
=============================================================================
