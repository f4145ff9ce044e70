-------------------------- MODULE EadKeepaliveProofs --------------------------
(***************************************************************************)
(* Proofs about the timing of a streamed command, for every length of the  *)
(* timeouts and of the way between the two ends.                           *)
(***************************************************************************)
EXTENDS EadKeepalive, TLAPS

-----------------------------------------------------------------------------
(***************************************************************************)
(* The inductive invariants.                                               *)
(***************************************************************************)

\* The daemon's next look at the clock comes less than one select() timeout
\* after the time is over.
ClockInv ==
  /\ left \in Nat
  /\ loop = "stream" => now + s_wait < CmdTimeout * Second + PCAP_TIMEOUT

LoopInv == TypeOK /\ KilledInTime /\ ClockInv

\* A client that waits for a daemon that has not killed its command has more
\* time left than the next packet needs: the oldest one under way, or the one
\* the daemon will send when its select() returns.
WaitInv ==
  client = "waiting" /\ loop # "killed" =>
    /\ flight # <<>> => c_wait + flight[1].age > Latency
    /\ flight = <<>> /\ loop = "stream" => c_wait > s_wait + Latency
    /\ flight = <<>> /\ loop = "over" => c_wait > Latency

\* The packet that reports the end of the command is the last one under way.
DoneInv ==
  client = "waiting" /\ loop = "done" =>
    flight # <<>> /\ flight[Len(flight)].done

ClientInv == ClientDoesNotTimeout /\ WaitInv /\ DoneInv

-----------------------------------------------------------------------------
(***************************************************************************)
(* Arithmetic.                                                             *)
(***************************************************************************)

\* The constants are numbers.
LEMMA ConstantsAreNat ==
  /\ PCAP_TIMEOUT \in Nat /\ PCAP_TIMEOUT > 0
  /\ EAD_TIMEOUT_LONG \in Nat /\ EAD_TIMEOUT_LONG > 0
  /\ Second \in Nat /\ Second > 0
  /\ CmdTimeout \in Nat /\ CmdTimeout > 0
  /\ Latency \in Nat
  /\ PCAP_TIMEOUT + 2 * Latency < EAD_TIMEOUT_LONG
  BY KeepaliveAssumption DEF KeepaliveAssumption

\* Multiplication by seconds is monotonic.
LEMMA MoreSeconds ==
  ASSUME NEW a \in Nat, NEW b \in Nat, NEW s \in Nat, a <= b
  PROVE  a * s <= b * s
  <1>1. PICK c \in Nat : b = a + c
    <2>1. b - a \in Nat /\ b = a + (b - a)
      OBVIOUS
    <2> QED
      BY <2>1
  <1>2. b * s = a * s + c * s
    BY <1>1
  <1>3. a * s \in Nat /\ c * s \in Nat
    BY <1>1
  <1> QED
    BY <1>2, <1>3

\* What comparing whole seconds means for the time in ticks.
LEMMA WholeSeconds ==
  ASSUME NEW n \in Nat
  PROVE  tv_sec(n) < CmdTimeout <=> n < CmdTimeout * Second
  <1> DEFINE q == n \div Second
             r == n % Second
  <1>1. q \in Nat /\ r \in Nat /\ r < Second /\ n = Second * q + r
    BY ConstantsAreNat
  <1> HIDE DEF q, r
  <1>2. ASSUME q < CmdTimeout
        PROVE  n < CmdTimeout * Second
    <2>1. (q + 1) * Second <= CmdTimeout * Second
      BY <1>1, <1>2, ConstantsAreNat, MoreSeconds
    <2>2. (q + 1) * Second = Second * q + Second
      BY <1>1, ConstantsAreNat
    <2>3. Second * q \in Nat /\ CmdTimeout * Second \in Nat
      BY <1>1, ConstantsAreNat
    <2> QED
      BY <1>1, <2>1, <2>2, <2>3, ConstantsAreNat
  <1>3. ASSUME ~(q < CmdTimeout)
        PROVE  ~(n < CmdTimeout * Second)
    <2>1. CmdTimeout * Second <= q * Second
      BY <1>1, <1>3, ConstantsAreNat, MoreSeconds
    <2>2. q * Second = Second * q /\ Second * q \in Nat
          /\ CmdTimeout * Second \in Nat
      BY <1>1, ConstantsAreNat
    <2> QED
      BY <1>1, <2>1, <2>2
  <1>4. tv_sec(n) = q
    BY DEF tv_sec, q
  <1> QED
    BY <1>2, <1>3, <1>4

\* The loop is entered in second 0, so it goes on while CmdTimeout seconds are
\* not over.
LEMMA StillInTime ==
  ASSUME TypeOK
  PROVE  still_in_time <=> now < CmdTimeout * Second
  <1>1. to \in Nat /\ to < Second /\ now \in Nat
    BY ConstantsAreNat DEF TypeOK
  <1>2. tv_sec(to) = 0
    BY <1>1, ConstantsAreNat DEF tv_sec
  <1> QED
    BY <1>1, <1>2, WholeSeconds, ConstantsAreNat DEF still_in_time, tv_sec

\* A command's time is at least a second.
LEMMA AtLeastASecond ==
  /\ CmdTimeout * Second \in Nat /\ (CmdTimeout - 1) * Second \in Nat
  /\ CmdTimeout * Second = (CmdTimeout - 1) * Second + Second
  BY ConstantsAreNat

-----------------------------------------------------------------------------
(***************************************************************************)
(* The packets under way.                                                  *)
(***************************************************************************)

Packets == [age : 0..Latency, done : BOOLEAN]

\* What a sequence of things of a set is.
LEMMA SequenceOf ==
  ASSUME NEW S, NEW s \in Seq(S)
  PROVE  /\ Len(s) \in Nat
         /\ s = <<>> <=> Len(s) = 0
         /\ \A i \in 1..Len(s) : s[i] \in S
         /\ s # <<>> => s[1] \in S
         /\ \A e \in S : Append(s, e) \in Seq(S)
  OBVIOUS

\* What remains of a sequence when its first element is taken.
LEMMA TailOf ==
  ASSUME NEW S, NEW s \in Seq(S), s # <<>>
  PROVE  /\ Tail(s) \in Seq(S) /\ Len(Tail(s)) = Len(s) - 1
         /\ \A i \in 1..Len(s) - 1 : Tail(s)[i] = s[i + 1]
         /\ Head(s) = s[1] /\ Len(s) \in Nat \ {0}
  OBVIOUS

\* A tick makes every packet older; it stays a sequence of packets.
LEMMA PacketsAge ==
  ASSUME TypeOK, Tick
  PROVE  /\ flight' \in Seq(Packets)
         /\ Len(flight') = Len(flight)
         /\ \A i \in 1..Len(flight) : /\ flight'[i].age = flight[i].age + 1
                                      /\ flight'[i].done = flight[i].done
  <1>1. /\ flight \in Seq(Packets) /\ DOMAIN flight = 1..Len(flight)
        /\ Len(flight) \in Nat
    BY DEF TypeOK, Packets
  <1>2. /\ \A i \in 1..Len(flight) : flight[i].age < Latency
        /\ flight' = [i \in 1..Len(flight) |->
                        [flight[i] EXCEPT !.age = @ + 1]]
    BY <1>1 DEF Tick
  <1>3. ASSUME NEW i \in 1..Len(flight)
        PROVE  /\ flight'[i] \in Packets
               /\ flight'[i].age = flight[i].age + 1
               /\ flight'[i].done = flight[i].done
    <2>1. flight[i] \in Packets /\ flight[i].age < Latency
      BY <1>1, <1>2
    <2>2. flight'[i] = [flight[i] EXCEPT !.age = @ + 1]
      BY <1>2
    <2> QED
      BY SMTT(20), <2>1, <2>2, ConstantsAreNat DEF Packets
  <1> HIDE DEF Packets
  <1>4. flight' \in [1..Len(flight) -> Packets]
    BY <1>2, <1>3
  <1>5. flight' \in Seq(Packets) /\ Len(flight') = Len(flight)
    BY <1>1, <1>4
  <1> QED
    BY <1>3, <1>5

-----------------------------------------------------------------------------
(***************************************************************************)
(* The daemon's clock.                                                     *)
(***************************************************************************)

\* Both invariants hold when the loop is entered.
LEMMA KeepaliveInit == Init => LoopInv /\ ClientInv
  <1> SUFFICES ASSUME Init
               PROVE  LoopInv /\ ClientInv
    OBVIOUS
  <1>1. TypeOK
    <2>1. to \in 0..Second - 1 /\ now \in Nat
      BY ConstantsAreNat DEF Init
    <2>2. s_wait \in 0..PCAP_TIMEOUT /\ c_wait \in 0..EAD_TIMEOUT_LONG
      BY ConstantsAreNat DEF Init
    <2>3. flight \in Seq([age : 0..Latency, done : BOOLEAN])
      BY DEF Init
    <2> QED
      BY <2>1, <2>2, <2>3 DEF Init, TypeOK
  <1>2. KilledInTime
    BY DEF Init, KilledInTime
  <1>3. ClockInv
    <2>1. to \in Nat /\ to < Second /\ now = to /\ left = to
      BY ConstantsAreNat DEF Init
    <2> QED
      BY <2>1, ConstantsAreNat, AtLeastASecond DEF Init, ClockInv
  <1>4. ClientInv
    BY ConstantsAreNat DEF Init, ClientInv, ClientDoesNotTimeout, WaitInv,
                           DoneInv
  <1> QED
    BY <1>1, <1>2, <1>3, <1>4 DEF LoopInv

\* The wait of the next select() is within the timeout.
LEMMA NextWait ==
  ASSUME TypeOK
  PROVE  ServerWait(s_wait) \in 0..PCAP_TIMEOUT
  BY ConstantsAreNat DEF TypeOK, ServerWait

\* An iteration of the loop: it goes on before the time is over, and then the
\* next one is not further away than the timeout.
LEMMA LoopIterates ==
  ASSUME LoopInv, stream_loop
  PROVE  LoopInv'
  <1>1. /\ loop = "stream" /\ left' = now /\ s_wait' = ServerWait(s_wait)
        /\ flight' = Append(flight, Packet(FALSE)) /\ ready' = FALSE
        /\ loop' = IF still_in_time THEN "stream"
                   ELSE IF child THEN "killed" ELSE "over"
        /\ UNCHANGED <<s_updates, now, to, child, wrote, client, c_wait>>
    BY DEF stream_loop
  <1>2. TypeOK'
    <2>1. Packet(FALSE) \in [age : 0..Latency, done : BOOLEAN]
      BY ConstantsAreNat DEF Packet
    <2>2. flight' \in Seq([age : 0..Latency, done : BOOLEAN])
      BY <1>1, <2>1, SequenceOf DEF LoopInv, TypeOK
    <2>3. s_wait' \in 0..PCAP_TIMEOUT
      BY <1>1, NextWait DEF LoopInv
    <2>4. {child, ready, wrote}' \subseteq BOOLEAN
      BY <1>1 DEF LoopInv, TypeOK
    <2>5. loop' \in {"stream", "over", "done", "killed"}
      BY <1>1
    <2> QED
      BY <1>1, <2>2, <2>3, <2>4, <2>5 DEF LoopInv, TypeOK
  <1>3. /\ now \in Nat /\ to \in Nat /\ to < Second /\ s_wait \in Nat
        /\ s_wait' \in Nat /\ s_wait' <= PCAP_TIMEOUT
    BY <1>1, NextWait, ConstantsAreNat DEF LoopInv, TypeOK
  <1>4. ClockInv'
    <2>1. ASSUME loop' = "stream"
          PROVE  now < CmdTimeout * Second
      BY <1>1, <2>1, StillInTime DEF LoopInv
    <2> QED
      BY <1>1, <1>3, <2>1, AtLeastASecond, ConstantsAreNat DEF ClockInv
  <1>5. KilledInTime'
    <2> SUFFICES ASSUME loop' = "killed"
                 PROVE  /\ now > to + (CmdTimeout - 1) * Second
                        /\ now < to + CmdTimeout * Second + PCAP_TIMEOUT
      BY <1>1 DEF KilledInTime
    <2>1. ~(now < CmdTimeout * Second)
      BY <1>1, StillInTime DEF LoopInv
    <2>2. now + s_wait < CmdTimeout * Second + PCAP_TIMEOUT
      BY <1>1 DEF LoopInv, ClockInv
    <2> QED
      BY <1>3, <2>1, <2>2, AtLeastASecond, ConstantsAreNat
  <1> QED
    BY <1>2, <1>4, <1>5 DEF LoopInv

\* Time passes: the loop waits a tick less.
LEMMA LoopTicks ==
  ASSUME LoopInv, Tick
  PROVE  LoopInv'
  <1>1. /\ now' = now + 1 /\ c_wait' = c_wait - 1 /\ c_wait > 0
        /\ s_wait' = IF loop = "stream" THEN s_wait - 1 ELSE s_wait
        /\ loop = "stream" => s_wait > 0
        /\ wrote' = FALSE
        /\ UNCHANGED <<s_updates, to, loop, left, child, ready, client>>
    BY DEF Tick
  <1>2. /\ now \in Nat /\ s_wait \in 0..PCAP_TIMEOUT
        /\ c_wait \in 0..EAD_TIMEOUT_LONG
    BY DEF LoopInv, TypeOK
  <1>3. TypeOK'
    <2>1. flight' \in Seq([age : 0..Latency, done : BOOLEAN])
      BY PacketsAge DEF LoopInv, Packets
    <2>2. now' \in Nat /\ s_wait' \in 0..PCAP_TIMEOUT
      BY <1>1, <1>2, ConstantsAreNat
    <2>3. c_wait' \in 0..EAD_TIMEOUT_LONG
      BY <1>1, <1>2, ConstantsAreNat
    <2>4. {child, ready, wrote}' \subseteq BOOLEAN
      BY <1>1 DEF LoopInv, TypeOK
    <2> QED
      BY <1>1, <2>1, <2>2, <2>3, <2>4 DEF LoopInv, TypeOK
  <1>4. ClockInv'
    BY <1>1, <1>2, ConstantsAreNat, AtLeastASecond DEF LoopInv, ClockInv
  <1>5. KilledInTime'
    BY <1>1 DEF LoopInv, KilledInTime
  <1> QED
    BY <1>3, <1>4, <1>5 DEF LoopInv

\* The other steps neither look at the clock nor move it.
LEMMA LoopElsewhere ==
  ASSUME LoopInv,
         \/ stream_done \/ ChildWrites \/ ChildEnds
         \/ client_receives \/ client_times_out
  PROVE  LoopInv'
  <1>1. /\ UNCHANGED <<s_updates, now, to, left, s_wait>>
        /\ loop' = loop \/ loop' = "done"
    BY DEF stream_done, ChildWrites, ChildEnds, client_receives,
           client_times_out
  <1>2. TypeOK'
    <2>1. flight' \in Seq([age : 0..Latency, done : BOOLEAN])
      <3>1. flight \in Seq([age : 0..Latency, done : BOOLEAN])
        BY DEF LoopInv, TypeOK
      <3>2. CASE stream_done
        <4>1. Packet(TRUE) \in [age : 0..Latency, done : BOOLEAN]
          BY ConstantsAreNat DEF Packet
        <4> QED
          BY <3>1, <3>2, <4>1, SequenceOf DEF stream_done
      <3>3. CASE client_receives
        BY <3>1, <3>3 DEF client_receives
      <3>4. CASE client_times_out
        BY <3>4 DEF client_times_out
      <3>5. CASE ChildWrites \/ ChildEnds
        BY <3>1, <3>5 DEF ChildWrites, ChildEnds
      <3> QED
        BY <3>2, <3>3, <3>4, <3>5
    <2>2. {child, ready, wrote}' \subseteq BOOLEAN
      BY DEF LoopInv, TypeOK, stream_done, ChildWrites, ChildEnds,
             client_receives, client_times_out
    <2>3. c_wait' \in 0..EAD_TIMEOUT_LONG
      <3>1. c_wait \in 0..EAD_TIMEOUT_LONG
        BY DEF LoopInv, TypeOK
      <3>2. c_wait' \in {c_wait, EAD_TIMEOUT_LONG}
        BY DEF stream_done, ChildWrites, ChildEnds, client_receives,
               client_times_out, ClientWait
      <3> QED
        BY <3>1, <3>2, ConstantsAreNat
    <2>4. client' \in {"waiting", "done", "timeout"}
      BY DEF LoopInv, TypeOK, stream_done, ChildWrites, ChildEnds,
             client_receives, client_times_out
    <2>5. loop' \in {"stream", "over", "done", "killed"}
      BY <1>1 DEF LoopInv, TypeOK
    <2> QED
      BY <1>1, <2>1, <2>2, <2>3, <2>4, <2>5 DEF LoopInv, TypeOK
  <1>3. ClockInv' /\ KilledInTime'
    BY <1>1 DEF LoopInv, ClockInv, KilledInTime
  <1> QED
    BY <1>2, <1>3 DEF LoopInv

\* Every step keeps the daemon's clock right.
LEMMA LoopStep == LoopInv /\ [Next]_vars => LoopInv'
  <1> SUFFICES ASSUME LoopInv, [Next]_vars
               PROVE  LoopInv'
    OBVIOUS
  <1>1. CASE stream_loop
    BY <1>1, LoopIterates
  <1>2. CASE Tick
    BY <1>2, LoopTicks
  <1>3. CASE \/ stream_done \/ ChildWrites \/ ChildEnds
             \/ client_receives \/ client_times_out
    BY <1>3, LoopElsewhere
  <1>4. CASE UNCHANGED vars
    BY <1>4 DEF vars, LoopInv, TypeOK, ClockInv, KilledInTime
  <1> QED
    BY <1>1, <1>2, <1>3, <1>4 DEF Next

\* The times stay in range, and a command that is killed had its time, less a
\* second and at most one select() timeout more, whether or not select() counts
\* its timeval down: for every limit, timeout and length of a second.
THEOREM LoopIsOnTime == Spec => []LoopKeepsTime
  <1>1. Init => LoopInv
    BY KeepaliveInit
  <1>2. LoopInv => LoopKeepsTime
    BY DEF LoopInv, LoopKeepsTime
  <1> QED
    BY <1>1, <1>2, LoopStep, PTL DEF Spec

-----------------------------------------------------------------------------
(***************************************************************************)
(* The client's clock.                                                     *)
(***************************************************************************)

\* A packet is sent: it is the last under way, and the only one if there was
\* none.
LEMMA OneMore ==
  ASSUME TypeOK, NEW b \in BOOLEAN, flight' = Append(flight, Packet(b))
  PROVE  /\ flight' # <<>>
         /\ flight'[Len(flight')].done = b
         /\ flight'[1].age = IF flight = <<>> THEN 0 ELSE flight[1].age
  <1>1. flight \in Seq(Packets) /\ Len(flight) \in Nat
    BY DEF TypeOK, Packets
  <1> HIDE DEF Packets
  <1>2. /\ Len(flight') = Len(flight) + 1
        /\ flight'[Len(flight) + 1] = Packet(b)
        /\ \A i \in 1..Len(flight) : flight'[i] = flight[i]
    BY <1>1
  <1>3. flight = <<>> <=> Len(flight) = 0
    BY <1>1
  <1> QED
    BY <1>1, <1>2, <1>3 DEF Packet

\* The daemon sends before the client's time is up.
LEMMA ClientSent ==
  ASSUME LoopInv, ClientInv, stream_loop \/ stream_done
  PROVE  ClientInv'
  <1>1. /\ UNCHANGED <<client, c_wait>>
        /\ loop \in {"stream", "over"}
        /\ \E b \in BOOLEAN : /\ flight' = Append(flight, Packet(b))
                              /\ loop' = "done" => b
    BY DEF stream_loop, stream_done
  <1>2. /\ c_wait \in Nat /\ s_wait \in Nat
        /\ flight # <<>> => flight[1].age \in Nat
    <2>1. flight \in Seq([age : 0..Latency, done : BOOLEAN])
      BY DEF LoopInv, TypeOK
    <2>2. flight # <<>> => flight[1] \in [age : 0..Latency, done : BOOLEAN]
      BY <2>1, SequenceOf
    <2> QED
      BY <2>2, ConstantsAreNat DEF LoopInv, TypeOK
  <1>3. /\ flight' # <<>>
        /\ loop' = "done" => flight'[Len(flight')].done
        /\ flight'[1].age = IF flight = <<>> THEN 0 ELSE flight[1].age
    BY <1>1, OneMore DEF LoopInv
  <1>4. client # "timeout"
    BY <1>1 DEF ClientInv, ClientDoesNotTimeout
  <1>5. WaitInv'
    BY <1>1, <1>2, <1>3, ConstantsAreNat DEF ClientInv, WaitInv
  <1> QED
    BY <1>1, <1>3, <1>4, <1>5 DEF ClientInv, ClientDoesNotTimeout, DoneInv

\* The client handles a packet and waits anew, the full time.
LEMMA ClientReceived ==
  ASSUME LoopInv, ClientInv, client_receives, ~ClientUpdatesTv
  PROVE  ClientInv'
  <1>1. /\ client = "waiting" /\ flight # <<>> /\ flight' = Tail(flight)
        /\ client' = IF Head(flight).done THEN "done" ELSE "waiting"
        /\ c_wait' = EAD_TIMEOUT_LONG
        /\ UNCHANGED <<loop, s_wait>>
    BY DEF client_receives, ClientWait
  <1>2. flight \in Seq(Packets) /\ s_wait \in 0..PCAP_TIMEOUT
    BY DEF LoopInv, TypeOK, Packets
  <1>3. /\ Len(flight') = Len(flight) - 1 /\ Len(flight) \in Nat \ {0}
        /\ flight' \in Seq(Packets)
        /\ \A i \in 1..Len(flight) - 1 : flight'[i] = flight[i + 1]
        /\ Head(flight) = flight[1]
        /\ flight' = <<>> <=> Len(flight') = 0
    <2> HIDE DEF Packets
    <2>1. /\ Tail(flight) \in Seq(Packets)
          /\ Len(Tail(flight)) = Len(flight) - 1
          /\ \A i \in 1..Len(flight) - 1 : Tail(flight)[i] = flight[i + 1]
          /\ Head(flight) = flight[1] /\ Len(flight) \in Nat \ {0}
      BY <1>1, <1>2, TailOf
    <2>2. Tail(flight) = <<>> <=> Len(Tail(flight)) = 0
      BY <2>1, SequenceOf
    <2> QED
      BY <1>1, <2>1, <2>2
  <1>4. flight' # <<>> => flight'[1].age \in Nat
    <2>1. flight' # <<>> => flight'[1] \in Packets
      BY <1>3
    <2> QED
      BY <2>1, ConstantsAreNat DEF Packets
  <1>5. WaitInv'
    BY <1>1, <1>2, <1>4, ConstantsAreNat DEF WaitInv
  <1>6. DoneInv'
    <2> SUFFICES ASSUME client' = "waiting", loop = "done"
                 PROVE  flight' # <<>> /\ flight'[Len(flight')].done
      BY <1>1 DEF DoneInv
    <2>1. flight[Len(flight)].done /\ ~flight[1].done
      BY <1>1, <1>3 DEF ClientInv, DoneInv
    <2>2. Len(flight) # 1
      BY <2>1
    <2>3. flight'[Len(flight')] = flight[Len(flight)] /\ Len(flight') > 0
      BY <1>3, <2>2
    <2> QED
      BY <1>3, <2>1, <2>3
  <1>7. ClientDoesNotTimeout'
    BY <1>1 DEF ClientDoesNotTimeout
  <1> QED
    BY <1>5, <1>6, <1>7 DEF ClientInv

\* The client's time is up only when the command was killed.
LEMMA ClientGivesUp ==
  ASSUME LoopInv, ClientInv, client_times_out
  PROVE  ClientInv'
  <1>1. /\ client = "waiting" /\ c_wait = 0 /\ client' = "timeout"
        /\ loop' = loop
    BY DEF client_times_out
  <1>2. loop = "killed"
    <2> SUFFICES ASSUME loop # "killed"
                 PROVE  FALSE
      OBVIOUS
    <2>1. CASE flight # <<>>
      <3>1. flight \in Seq([age : 0..Latency, done : BOOLEAN])
        BY DEF LoopInv, TypeOK
      <3>2. flight[1] \in [age : 0..Latency, done : BOOLEAN]
        BY <2>1, <3>1, SequenceOf
      <3>3. c_wait + flight[1].age > Latency
        BY <1>1, <2>1 DEF ClientInv, WaitInv
      <3> QED
        BY <1>1, <3>2, <3>3, ConstantsAreNat
    <2>2. CASE flight = <<>>
      <3>1. loop # "done"
        BY <1>1, <2>2 DEF ClientInv, DoneInv
      <3>2. s_wait \in Nat /\ loop \in {"stream", "over"}
        BY <3>1, ConstantsAreNat DEF LoopInv, TypeOK
      <3> QED
        BY <1>1, <2>2, <3>2, ConstantsAreNat DEF ClientInv, WaitInv
    <2> QED
      BY <2>1, <2>2
  <1> QED
    BY <1>1, <1>2 DEF ClientInv, ClientDoesNotTimeout, WaitInv, DoneInv

\* Time passes: the client's wait, the daemon's and the packets' age agree.
LEMMA ClientTicks ==
  ASSUME LoopInv, ClientInv, Tick
  PROVE  ClientInv'
  <1>1. /\ c_wait' = c_wait - 1 /\ c_wait > 0
        /\ s_wait' = IF loop = "stream" THEN s_wait - 1 ELSE s_wait
        /\ loop = "stream" => s_wait > 0
        /\ loop # "over"
        /\ UNCHANGED <<loop, client>>
    BY DEF Tick
  <1>2. /\ flight' \in Seq(Packets) /\ flight \in Seq(Packets)
        /\ Len(flight') = Len(flight) /\ Len(flight) \in Nat
        /\ \A i \in 1..Len(flight) : /\ flight'[i].age = flight[i].age + 1
                                     /\ flight'[i].done = flight[i].done
    BY PacketsAge DEF LoopInv, TypeOK, Packets
  <1>3. /\ flight = <<>> <=> Len(flight) = 0
        /\ flight' = <<>> <=> Len(flight) = 0
    <2> HIDE DEF Packets
    <2> QED
      BY <1>2
  <1>4. /\ c_wait \in Nat /\ s_wait \in Nat
        /\ flight # <<>> => flight[1].age \in Nat
    <2>1. flight # <<>> => flight[1] \in Packets
      BY <1>2, <1>3
    <2> QED
      BY <2>1, ConstantsAreNat DEF LoopInv, TypeOK, Packets
  <1>5. flight # <<>> => flight'[1].age = flight[1].age + 1
    BY <1>2, <1>3
  <1>6. WaitInv'
    BY <1>1, <1>3, <1>4, <1>5, ConstantsAreNat DEF ClientInv, WaitInv
  <1>7. DoneInv'
    BY <1>1, <1>2, <1>3 DEF ClientInv, DoneInv
  <1>8. ClientDoesNotTimeout'
    BY <1>1 DEF ClientInv, ClientDoesNotTimeout
  <1> QED
    BY <1>6, <1>7, <1>8 DEF ClientInv

\* "send keepalive packets every 200 ms so that the client doesn't timeout"
\* (ead.c:549): where select() leaves the client's timeval alone the keepalives
\* do what the comment says, for all timeouts and latencies with room for the
\* request, a select() timeout and an answer.
THEOREM KeepalivesSuffice ==
  ASSUME ~ClientUpdatesTv
  PROVE  Spec => []ClientDoesNotTimeout
  <1>1. Init => LoopInv /\ ClientInv
    BY KeepaliveInit
  <1>2. LoopInv /\ ClientInv /\ [Next]_vars => ClientInv'
    <2> SUFFICES ASSUME LoopInv, ClientInv, [Next]_vars
                 PROVE  ClientInv'
      OBVIOUS
    <2>1. CASE stream_loop \/ stream_done
      BY <2>1, ClientSent
    <2>2. CASE client_receives
      BY <2>2, ClientReceived
    <2>3. CASE client_times_out
      BY <2>3, ClientGivesUp
    <2>4. CASE Tick
      BY <2>4, ClientTicks
    <2>5. CASE ChildWrites \/ ChildEnds \/ UNCHANGED vars
      <3>1. UNCHANGED <<loop, s_wait, flight, client, c_wait>>
        BY <2>5 DEF ChildWrites, ChildEnds, vars
      <3> QED
        BY <3>1 DEF ClientInv, ClientDoesNotTimeout, WaitInv, DoneInv
    <2> QED
      BY <2>1, <2>2, <2>3, <2>4, <2>5 DEF Next
  <1>3. ClientInv => ClientDoesNotTimeout
    BY DEF ClientInv
  <1> QED
    BY <1>1, <1>2, <1>3, LoopStep, PTL DEF Spec
=============================================================================
