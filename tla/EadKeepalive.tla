---------------------------- MODULE EadKeepalive ----------------------------
(***************************************************************************)
(* The timing of a streamed command: the loop of handle_send_cmd, ead.c,   *)
(* against the wait of send_packet, ead-client.c.  Nothing is lost here;   *)
(* packets arrive in order within Latency.  Time is in ticks.              *)
(*                                                                         *)
(* Both ends set a struct timeval once and hand it to select() in a loop.  *)
(* Linux writes the time that is left back to it; a C library may hide     *)
(* that from the program by passing a copy.  For the client a constant     *)
(* says which happens; the daemon is checked with both.                    *)
(***************************************************************************)
EXTENDS Naturals, Sequences

CONSTANTS PCAP_TIMEOUT,      \* the daemon's select timeout, 200 ms
          EAD_TIMEOUT_LONG,  \* the client's select timeout, 2000 ms
          Second,            \* ticks in a second
          CmdTimeout,        \* seconds the command may take
          Latency,           \* bound: ticks a packet may travel
          ClientUpdatesTv    \* does select() change the client's timeval?

ASSUME KeepaliveAssumption ==
  /\ {PCAP_TIMEOUT, EAD_TIMEOUT_LONG, Second, CmdTimeout} \subseteq Nat \ {0}
  /\ Latency \in Nat
  /\ PCAP_TIMEOUT + 2 * Latency < EAD_TIMEOUT_LONG
  /\ ClientUpdatesTv \in BOOLEAN

VARIABLES s_updates,\* does select() change the daemon's timeval?
          now,      \* the daemon's clock
          to,       \* its value when the loop was entered
          loop,     \* "stream" in the loop, then "over", "done" or "killed"
          left,     \* history: the clock when the loop was left
          s_wait,   \* ticks until the daemon's select() times out
          child,    \* is the command's process running?
          ready,    \* the pipe has output
          wrote,    \* the command has written in this tick
          flight,   \* packets on their way: age, and the done flag
          client,   \* "waiting", "done" or "timeout"
          c_wait    \* ticks until the client's select() times out

vars == <<s_updates, now, to, loop, left, s_wait, child, ready, wrote,
          flight, client, c_wait>>

\* The loop is entered at any fraction of a second; the client has been
\* waiting since it sent the request, which took up to Latency.
Init ==
  /\ s_updates \in BOOLEAN
  /\ to \in 0..Second - 1
  /\ now = to
  /\ loop = "stream" /\ left = to
  /\ s_wait = PCAP_TIMEOUT
  /\ child = TRUE
  /\ ready = FALSE /\ wrote = FALSE
  /\ flight = <<>>
  /\ client = "waiting"
  /\ c_wait \in EAD_TIMEOUT_LONG - Latency..EAD_TIMEOUT_LONG

\* What the next select() waits when the last one had w ticks left.  An
\* iteration that does not wait at all still takes a tick.
ServerWait(w) == IF ~s_updates THEN PCAP_TIMEOUT
                 ELSE IF w = 0 THEN 1 ELSE w
ClientWait(w) == IF ClientUpdatesTv THEN w ELSE EAD_TIMEOUT_LONG

Packet(done) == [age |-> 0, done |-> done]

\* tv_sec of a time
tv_sec(n) == n \div Second

still_in_time_strict ==         \* mutant: the time is over a second early
  tv_sec(now) + 1 < tv_sec(to) + CmdTimeout

\* "while (tn.tv_sec < to.tv_sec + timeout)"
still_in_time == tv_sec(now) < tv_sec(to) + CmdTimeout

silent_loop ==                  \* mutant: nothing is sent without output
  /\ loop = "stream"
  /\ s_wait = 0 \/ ready
  /\ ready \/ child
  /\ flight' = IF ready THEN Append(flight, Packet(FALSE)) ELSE flight
  /\ ready' = FALSE
  /\ s_wait' = ServerWait(s_wait)
  /\ loop' = IF still_in_time THEN "stream"
             ELSE IF child THEN "killed" ELSE "over"
  /\ left' = now
  /\ UNCHANGED <<s_updates, now, to, child, wrote, client, c_wait>>

\* One iteration: select() timed out or the pipe has output, and a packet goes
\* out either way, as data or as keepalive.  When the time is over a running
\* child is killed and nothing more is sent.
stream_loop ==
  /\ loop = "stream"
  /\ s_wait = 0 \/ ready
  /\ ready \/ child
  /\ flight' = Append(flight, Packet(FALSE))
  /\ ready' = FALSE
  /\ s_wait' = ServerWait(s_wait)
  /\ loop' = IF still_in_time THEN "stream"
             ELSE IF child THEN "killed" ELSE "over"
  /\ left' = now
  /\ UNCHANGED <<s_updates, now, to, child, wrote, client, c_wait>>

\* No output and no child: the end is reported (SIGCHLD ends select()), also
\* when the loop's time was over.
stream_done ==
  /\ \/ loop = "stream" /\ ~ready /\ ~child
     \/ loop = "over"
  /\ flight' = Append(flight, Packet(TRUE))
  /\ loop' = "done"
  /\ UNCHANGED <<s_updates, now, to, left, s_wait, child, ready, wrote, client, c_wait>>

\* The command writes or ends.
ChildWrites ==
  /\ loop = "stream" /\ child /\ ~ready /\ ~wrote
  /\ ready' = TRUE /\ wrote' = TRUE
  /\ UNCHANGED <<s_updates, now, to, loop, left, s_wait, child, flight, client, c_wait>>

ChildEnds ==
  /\ loop = "stream" /\ child
  /\ child' = FALSE
  /\ UNCHANGED <<s_updates, now, to, loop, left, s_wait, ready, wrote, flight, client,
                 c_wait>>

\* send_packet: the next packet arrives and is handled.
client_receives ==
  /\ client = "waiting"
  /\ flight # <<>>
  /\ flight' = Tail(flight)
  /\ client' = IF Head(flight).done THEN "done" ELSE "waiting"
  /\ c_wait' = ClientWait(c_wait)
  /\ UNCHANGED <<s_updates, now, to, loop, left, s_wait, child, ready, wrote>>

client_never_times_out ==       \* mutant: the result of select() is ignored
  /\ client = "waiting"
  /\ c_wait = 0
  /\ c_wait' = 0
  /\ UNCHANGED <<s_updates, now, to, loop, left, s_wait, child, ready, wrote, flight,
                 client>>

\* select() returns 0 and send_packet gives up.
client_times_out ==
  /\ client = "waiting"
  /\ c_wait = 0
  /\ client' = "timeout"
  /\ flight' = <<>>
  /\ UNCHANGED <<s_updates, now, to, loop, left, s_wait, child, ready, wrote, c_wait>>

\* Time passes when neither end has anything to do at once.
Tick ==
  /\ client = "waiting"
  /\ c_wait > 0
  /\ \A i \in DOMAIN flight : flight[i].age < Latency
  /\ loop \in {"stream", "killed", "done"}
  /\ loop = "stream" => s_wait > 0 /\ ~ready /\ child
  /\ now' = now + 1
  /\ s_wait' = IF loop = "stream" THEN s_wait - 1 ELSE s_wait
  /\ c_wait' = c_wait - 1
  /\ wrote' = FALSE
  /\ flight' = [i \in DOMAIN flight |-> [flight[i] EXCEPT !.age = @ + 1]]
  /\ UNCHANGED <<s_updates, to, loop, left, child, ready, client>>

Next == \/ stream_loop \/ stream_done \/ ChildWrites \/ ChildEnds
        \/ client_receives \/ client_times_out \/ Tick

Spec == Init /\ [][Next]_vars

FairSpec == Spec /\ WF_vars(Next)

-----------------------------------------------------------------------------
\* Times have their types.
TypeOK ==
  /\ s_updates \in BOOLEAN
  /\ now \in Nat /\ to \in 0..Second - 1
  /\ loop \in {"stream", "over", "done", "killed"}
  /\ s_wait \in 0..PCAP_TIMEOUT /\ c_wait \in 0..EAD_TIMEOUT_LONG
  /\ {child, ready, wrote} \subseteq BOOLEAN
  /\ flight \in Seq([age : 0..Latency, done : BOOLEAN])
  /\ client \in {"waiting", "done", "timeout"}

\* "send keepalive packets every 200 ms so that the client doesn't timeout"
\* (ead.c:549): a client gives up only on a command that was killed.
ClientDoesNotTimeout == client = "timeout" => loop = "killed"

\* The loop compares whole seconds: a command that is killed had more than its
\* time less a second, and at most its time and one wait of select().
KilledInTime ==
  loop = "killed" => /\ left > to + (CmdTimeout - 1) * Second
                     /\ left < to + CmdTimeout * Second + PCAP_TIMEOUT

\* The times stay in range, and the time limit is kept: the loop's clocks are
\* right although select() may or may not count its timeval down.
LoopKeepsTime == TypeOK /\ KilledInTime

\* The client's process comes to an end, whatever the command does.
ClientEnds == <>(client # "waiting")
=============================================================================
