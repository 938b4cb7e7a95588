-------------------------- MODULE AdbWebusb_proofs --------------------------
(***************************************************************************)
(* Proofs about AdbWebusb, for any number of streams, chunks and replies:  *)
(* one write is in flight at a time, and what is written to a stream       *)
(* arrives in order.                                                       *)
(***************************************************************************)
EXTENDS AdbWebusb, FiniteSetTheorems, SequenceTheorems, TLAPS

-----------------------------------------------------------------------------
(***************************************************************************)
(* The inductive invariant.                                                *)
(***************************************************************************)
Handshake == {"CNXN", "AUTH", "SIGNATURE", "PUBKEY"}
Commands == Handshake \cup {"OPEN", "OKAY", "WRTE", "CLSE"}
Messages == [cmd: Commands, s: Nat, n: Nat]
Entries == [s: Streams, n: Nat, promise: BOOLEAN]
Sides == [open: BOOLEAN, unacked: BOOLEAN, sent: Nat, got: Seq(Nat)]

Types ==
    /\ connected \in BOOLEAN /\ plugged \in BOOLEAN /\ txPending \in BOOLEAN
    /\ lastStreamId \in 0 .. MaxStreams
    /\ stream \in [Streams -> {"none", "pending", "refused", "open", "closed"}]
    /\ txQueue \in Seq(Entries)
    /\ written \in [Streams -> Nat] /\ resolved \in [Streams -> Nat]
    /\ toDevice \in Seq(Messages) /\ toHost \in Seq(Messages)
    /\ device \in [Streams -> Sides]

\* Nothing happens on a stream before connect() has returned, and nothing moves
\* once the cable was pulled.  In front of the answers to the handshake there
\* may be one message of an earlier connection.
Quiet ==
    /\ \A s \in Streams : s > lastStreamId => stream[s] = "none"
    /\ rx # None => connected
    /\ phase # "connected" =>
          /\ ~connected /\ ~txPending
          /\ \A s \in Streams : stream[s] = "none"
          /\ \A i \in DOMAIN toHost : i = 1 \/ (toHost[i].cmd \in Handshake /\ toHost[i].s = 0)
          /\ \A i \in Acked : FALSE
    /\ ~plugged => toDevice = <<>> /\ toHost = <<>>

\* A stream that was not opened has neither sent nor queued anything.
Unopened(s) ==
    stream[s] \in {"none", "pending", "refused"} =>
        /\ written[s] = 0 /\ device[s].got = <<>>
        /\ QueuedFor(s) = {}

\* The OPEN of a stream is the first message about it, and so is the OKAY to it.
ToDeviceFits ==
    \A i \in DOMAIN toDevice :
        \/ toDevice[i].cmd \in Handshake /\ toDevice[i].s = 0
        \/ LET s == toDevice[i].s
           IN  /\ s \in Streams /\ stream[s] # "none"
               /\ toDevice[i].cmd = "OPEN" =>
                     /\ stream[s] = "pending" /\ ~device[s].open
                     /\ \A j \in DOMAIN toDevice : toDevice[j].s = s => j = i
                     /\ \A j \in DOMAIN toHost : toHost[j].s # s
               /\ toDevice[i].cmd = "WRTE" =>
                     /\ stream[s] \in {"open", "closed"}
                     /\ toDevice[i].n = Len(device[s].got) + 1

ToHostFits ==
    phase = "connected" =>
        \A i \in DOMAIN toHost :
            \/ toHost[i].cmd \in Handshake /\ toHost[i].s = 0
            \/ LET s == toHost[i].s
               IN  /\ s \in Streams /\ stream[s] # "none"
                   /\ toHost[i].cmd = "OKAY" /\ toHost[i].n = 0 =>
                         /\ stream[s] = "pending"
                         /\ \A j \in DOMAIN toHost : j < i => toHost[j].s # s
                   /\ toHost[i].cmd = "OKAY" /\ toHost[i].n > 0 =>
                         /\ stream[s] \in {"open", "closed"}
                         /\ toHost[i].n = Len(device[s].got)

DeviceFits ==
    \A s \in Streams :
        /\ device[s].open => stream[s] # "none"
        /\ Unopened(s)
        /\ device[s].got = [i \in 1 .. Len(device[s].got) |-> i]
        /\ resolved[s] <= Len(device[s].got)

\* The write in flight is the first of the queue, unless its stream was closed
\* and its entries dropped.
IsFirst(m) ==
    \/ txQueue # <<>> /\ Head(txQueue).s = m.s /\ Head(txQueue).n = m.n
    \/ stream[m.s] = "closed" /\ QueuedFor(m.s) = {}

FlightFits ==
    /\ OneWriteInFlight
    /\ \A i \in Written : IsFirst(toDevice[i])
    /\ \A i \in Acked : IsFirst(toHost[i])

\* Of the chunks of a stream, those that the host knows to have arrived are gone
\* from the queue and the others are there, in order.
Base(s) ==
    IF \E i \in Acked : toHost[i].s = s THEN Len(device[s].got) - 1 ELSE Len(device[s].got)

InOrder ==
    \A i, j \in DOMAIN txQueue : txQueue[i].s = txQueue[j].s /\ i < j => txQueue[i].n < txQueue[j].n

QueueFits ==
    plugged =>
        /\ InOrder
        /\ \A s \in Streams :
              stream[s] = "open" \/ QueuedFor(s) # {} =>
                 /\ Base(s) <= written[s]
                 /\ \A i \in QueuedFor(s) : txQueue[i].n > Base(s) /\ txQueue[i].n <= written[s]
                 /\ \A n \in Nat : n > Base(s) /\ n <= written[s] => \E i \in QueuedFor(s) : txQueue[i].n = n

AdbInv ==
    /\ Types /\ Quiet /\ DeviceFits /\ ToDeviceFits /\ ToHostFits /\ FlightFits /\ QueueFits

-----------------------------------------------------------------------------
(***************************************************************************)
(* What a step does to a pipe: it may take the first message out and put   *)
(* one more at the end.                                                    *)
(***************************************************************************)
Moves(q, p, d, new) ==
    /\ p \in Seq(Messages) /\ d \in {0, 1}
    /\ \A i \in DOMAIN q : i \in Nat /\ i >= 1
    /\ \A i \in DOMAIN p : i \in Nat /\ i >= 1
    /\ \A i \in DOMAIN p : \/ i + d \in DOMAIN q /\ p[i] = q[i + d]
                           \/ p[i] \in new /\ \A j \in DOMAIN p : j <= i
    /\ \A i, j \in DOMAIN p : j < i => j + d \in DOMAIN q /\ p[j] = q[j + d]
    /\ \A i \in DOMAIN q : i > d => i - d \in DOMAIN p /\ p[i - d] = q[i]

\* A pipe that nothing happens to.
LEMMA PipeStays ==
  ASSUME NEW q \in Seq(Messages)
  PROVE  Moves(q, q, 0, {})
  <1>1. DOMAIN q = 1 .. Len(q) /\ Len(q) \in Nat
    BY LenProperties
  <1> QED BY <1>1 DEF Moves

\* A message is put at the end.
LEMMA PipeGrows ==
  ASSUME NEW q \in Seq(Messages), NEW m \in Messages
  PROVE  Moves(q, q \o <<m>>, 0, {m})
  <1>1. DOMAIN q = 1 .. Len(q) /\ Len(q) \in Nat
    BY LenProperties
  <1>2. PICK p : p = q \o <<m>>
    OBVIOUS
  <1>3. <<m>> \in Seq(Messages) /\ Len(<<m>>) = 1 /\ <<m>>[1] = m
    OBVIOUS
  <1>4. /\ p \in Seq(Messages) /\ Len(p) = Len(q) + 1
        /\ \A i \in 1 .. Len(q) + 1 : p[i] = IF i <= Len(q) THEN q[i] ELSE <<m>>[i - Len(q)]
    BY <1>2, <1>3, ConcatProperties
  <1>5. DOMAIN p = 1 .. Len(q) + 1
    BY <1>4, LenProperties
  <1>6. /\ \A i \in 1 .. Len(q) : p[i] = q[i]
        /\ p[Len(q) + 1] = m
    BY <1>1, <1>3, <1>4
  <1>7. Moves(q, p, 0, {m})
    <2>1. ASSUME NEW i \in DOMAIN p
          PROVE  \/ i + 0 \in DOMAIN q /\ p[i] = q[i + 0]
                 \/ p[i] \in {m} /\ \A j \in DOMAIN p : j <= i
      <3>1. CASE i \in 1 .. Len(q)
        <4>1. i + 0 = i
          BY <3>1
        <4> QED BY <1>1, <1>6, <3>1, <4>1
      <3>2. CASE i = Len(q) + 1
        BY <1>1, <1>5, <1>6, <3>2
      <3> QED BY <1>1, <1>5, <3>1, <3>2
    <2>2. \A i, j \in DOMAIN p : j < i => j + 0 \in DOMAIN q /\ p[j] = q[j + 0]
      BY <1>1, <1>5, <1>6
    <2>3. \A i \in DOMAIN q : i > 0 => i - 0 \in DOMAIN p /\ p[i - 0] = q[i]
      BY <1>1, <1>5, <1>6
    <2> QED BY <1>1, <1>4, <1>5, <2>1, <2>2, <2>3 DEF Moves
  <1> QED BY <1>2, <1>7

\* The first message is taken out.
LEMMA PipeShrinks ==
  ASSUME NEW q \in Seq(Messages), q # <<>>
  PROVE  /\ Moves(q, Tail(q), 1, {})
         /\ 1 \in DOMAIN q /\ Head(q) = q[1] /\ q[1] \in Messages
  <1>1. DOMAIN q = 1 .. Len(q) /\ Len(q) \in Nat /\ Len(q) # 0
    BY LenProperties, EmptySeq
  <1>2. PICK p : p = Tail(q)
    OBVIOUS
  <1>3. /\ p \in Seq(Messages) /\ Len(p) = Len(q) - 1
        /\ \A i \in 1 .. Len(q) - 1 : p[i] = q[i + 1]
    BY <1>2, HeadTailProperties
  <1>4. DOMAIN p = 1 .. Len(q) - 1
    BY <1>3, LenProperties
  <1>5. Moves(q, p, 1, {})
    BY <1>1, <1>3, <1>4 DEF Moves
  <1>6. 1 \in DOMAIN q /\ Head(q) = q[1] /\ q[1] \in Messages
    BY <1>1, ElementOfSeq
  <1> QED BY <1>2, <1>5, <1>6

\* A stream whose OPEN is under way.
Untouched(s) ==
    /\ stream[s] = "pending" /\ ~device[s].open
    /\ \A j \in DOMAIN toHost : toHost[j].s # s

\* What a step may do to the state of a stream.
StreamsMove ==
    \A t \in Streams :
        /\ stream[t] # "none" => stream'[t] # "none"
        /\ stream[t] \in {"open", "closed"} => stream'[t] \in {"open", "closed"}

\* A message that may join those to the device, when d of them leave.
MayFollow(m, d) ==
    \/ m.cmd \in Handshake /\ m.s = 0
    \/ /\ m.s \in Streams /\ stream'[m.s] # "none"
       /\ m.cmd = "OPEN" => /\ (Untouched(m.s))'
                            /\ \A i \in DOMAIN toDevice : i > d => toDevice[i].s # m.s
       /\ m.cmd = "WRTE" => /\ stream'[m.s] \in {"open", "closed"}
                            /\ m.n = Len(device'[m.s].got) + 1

\* The messages to the device fit after a step that keeps what they say.
LEMMA DeviceSideFits ==
  ASSUME Types, ToDeviceFits, NEW d, NEW new, Moves(toDevice, toDevice', d, new), StreamsMove,
         \A t \in Streams : Untouched(t) /\ (d = 1 => toDevice[1].s # t)
                              => (Untouched(t))' /\ \A m \in new : m.s # t,
         \A i \in DOMAIN toDevice : i > d /\ toDevice[i].cmd = "WRTE" =>
             Len(device'[toDevice[i].s].got) = Len(device[toDevice[i].s].got),
         \A m \in new : MayFollow(m, d)
  PROVE  ToDeviceFits'
  <1> SUFFICES ASSUME NEW i \in DOMAIN toDevice',
                      ~(toDevice'[i].cmd \in Handshake /\ toDevice'[i].s = 0),
                      NEW s, s = toDevice'[i].s
               PROVE  /\ s \in Streams /\ stream'[s] # "none"
                      /\ toDevice'[i].cmd = "OPEN" =>
                            /\ (Untouched(s))'
                            /\ \A j \in DOMAIN toDevice' : toDevice'[j].s = s => j = i
                      /\ toDevice'[i].cmd = "WRTE" =>
                            /\ stream'[s] \in {"open", "closed"}
                            /\ toDevice'[i].n = Len(device'[s].got) + 1
    BY DEF ToDeviceFits, Untouched
  <1>0. /\ d \in {0, 1} /\ i \in Nat /\ i >= 1
        /\ \A j \in DOMAIN toDevice' : j \in Nat
    BY DEF Moves
  <1>1. ASSUME toDevice'[i] \in new, ~(i + d \in DOMAIN toDevice /\ toDevice'[i] = toDevice[i + d])
        PROVE  /\ s \in Streams /\ stream'[s] # "none"
               /\ toDevice'[i].cmd = "OPEN" =>
                     /\ (Untouched(s))'
                     /\ \A j \in DOMAIN toDevice' : toDevice'[j].s = s => j = i
               /\ toDevice'[i].cmd = "WRTE" =>
                     /\ stream'[s] \in {"open", "closed"}
                     /\ toDevice'[i].n = Len(device'[s].got) + 1
    <2>0. PICK m \in new : m = toDevice'[i]
      BY <1>1
    <2>1. MayFollow(m, d) /\ m.s = s
      BY <2>0
    <2>2. ASSUME toDevice'[i].cmd = "OPEN", NEW j \in DOMAIN toDevice', toDevice'[j].s = s, j # i
          PROVE  FALSE
      <3>1. \A k \in DOMAIN toDevice : k > d => toDevice[k].s # s
        BY <2>0, <2>1, <2>2 DEF MayFollow, Handshake
      <3>2. j < i
        BY <1>0, <1>1, <2>2 DEF Moves
      <3>3. j + d \in DOMAIN toDevice /\ toDevice'[j] = toDevice[j + d] /\ j + d > d
        BY <1>0, <3>2 DEF Moves
      <3> QED BY <2>2, <3>1, <3>3
    <2> QED BY <2>0, <2>1, <2>2 DEF MayFollow, Untouched
  <1>2. ASSUME i + d \in DOMAIN toDevice, toDevice'[i] = toDevice[i + d]
        PROVE  /\ s \in Streams /\ stream'[s] # "none"
               /\ toDevice'[i].cmd = "OPEN" =>
                     /\ (Untouched(s))'
                     /\ \A j \in DOMAIN toDevice' : toDevice'[j].s = s => j = i
               /\ toDevice'[i].cmd = "WRTE" =>
                     /\ stream'[s] \in {"open", "closed"}
                     /\ toDevice'[i].n = Len(device'[s].got) + 1
    <2>1. PICK k \in DOMAIN toDevice : k = i + d /\ k > d
      BY <1>0, <1>2
    <2>2. /\ s \in Streams /\ stream[s] # "none"
          /\ toDevice[k].cmd = "OPEN" =>
                /\ Untouched(s)
                /\ \A j \in DOMAIN toDevice : toDevice[j].s = s => j = k
          /\ toDevice[k].cmd = "WRTE" =>
                stream[s] \in {"open", "closed"} /\ toDevice[k].n = Len(device[s].got) + 1
      BY <1>2, <2>1 DEF ToDeviceFits, Untouched
    <2>3. ASSUME toDevice[k].cmd = "OPEN"
          PROVE  /\ (Untouched(s))'
                 /\ \A j \in DOMAIN toDevice' : toDevice'[j].s = s => j = i
      <3>1. Untouched(s) /\ \A j \in DOMAIN toDevice : toDevice[j].s = s => j = k
        BY <2>2, <2>3
      <3>2. d = 1 => toDevice[1].s # s
        <4>1. SUFFICES ASSUME d = 1, toDevice[1].s = s
                       PROVE  FALSE
          OBVIOUS
        <4>2. 1 \in DOMAIN toDevice
          <5>1. DOMAIN toDevice = 1 .. Len(toDevice) /\ Len(toDevice) \in Nat
            BY LenProperties DEF Types
          <5> QED BY <2>1, <5>1
        <4>3. k = 1
          BY <3>1, <4>1, <4>2
        <4> QED BY <2>1, <4>1, <4>3
      <3>3. (Untouched(s))' /\ \A m \in new : m.s # s
        BY <2>2, <3>1, <3>2
      <3>4. ASSUME NEW j \in DOMAIN toDevice', toDevice'[j].s = s
            PROVE  j = i
        <4>1. j + d \in DOMAIN toDevice /\ toDevice'[j] = toDevice[j + d]
          BY <3>3, <3>4 DEF Moves
        <4>2. j + d = i + d
          BY <2>1, <3>1, <3>4, <4>1
        <4> QED BY <1>0, <4>2
      <3> QED BY <3>3, <3>4
    <2>4. ASSUME toDevice[k].cmd = "WRTE"
          PROVE  stream'[s] \in {"open", "closed"} /\ toDevice[k].n = Len(device'[s].got) + 1
      <3>1. toDevice[k].s = s
        BY <1>2, <2>1
      <3> QED BY <2>1, <2>2, <2>4, <3>1 DEF StreamsMove
    <2> QED BY <1>2, <2>1, <2>2, <2>3, <2>4 DEF StreamsMove
  <1> QED BY <1>1, <1>2 DEF Moves

\* A message that may join those to the host, when d of them leave.
MayAnswer(m, d) ==
    \/ m.cmd \in Handshake /\ m.s = 0
    \/ /\ m.s \in Streams /\ stream'[m.s] # "none"
       /\ m.cmd = "OKAY" /\ m.n = 0 => /\ stream'[m.s] = "pending"
                                       /\ \A i \in DOMAIN toHost : i > d => toHost[i].s # m.s
       /\ m.cmd = "OKAY" /\ m.n > 0 => /\ stream'[m.s] \in {"open", "closed"}
                                       /\ m.n = Len(device'[m.s].got)

\* The messages to the host fit after a step that keeps what they say.
LEMMA HostSideFits ==
  ASSUME Types, ToHostFits, phase = "connected", NEW d, NEW new, Moves(toHost, toHost', d, new), StreamsMove,
         \A t \in Streams : stream[t] = "pending" /\ (d = 1 => toHost[1].s # t) => stream'[t] = "pending",
         \A i \in DOMAIN toHost : i > d /\ toHost[i].cmd = "OKAY" /\ toHost[i].n > 0 =>
             Len(device'[toHost[i].s].got) = Len(device[toHost[i].s].got),
         \A m \in new : MayAnswer(m, d)
  PROVE  ToHostFits'
  <1> SUFFICES ASSUME NEW i \in DOMAIN toHost',
                      ~(toHost'[i].cmd \in Handshake /\ toHost'[i].s = 0),
                      NEW s, s = toHost'[i].s
               PROVE  /\ s \in Streams /\ stream'[s] # "none"
                      /\ toHost'[i].cmd = "OKAY" /\ toHost'[i].n = 0 =>
                            /\ stream'[s] = "pending"
                            /\ \A j \in DOMAIN toHost' : j < i => toHost'[j].s # s
                      /\ toHost'[i].cmd = "OKAY" /\ toHost'[i].n > 0 =>
                            /\ stream'[s] \in {"open", "closed"}
                            /\ toHost'[i].n = Len(device'[s].got)
    BY DEF ToHostFits
  <1>0. /\ d \in {0, 1} /\ i \in Nat /\ i >= 1
        /\ \A j \in DOMAIN toHost' : j \in Nat /\ j >= 1
        /\ \A j \in DOMAIN toHost' : j < i => j + d \in DOMAIN toHost /\ toHost'[j] = toHost[j + d]
    BY DEF Moves
  <1>1. ASSUME toHost'[i] \in new
        PROVE  /\ s \in Streams /\ stream'[s] # "none"
               /\ toHost'[i].cmd = "OKAY" /\ toHost'[i].n = 0 =>
                     /\ stream'[s] = "pending"
                     /\ \A j \in DOMAIN toHost' : j < i => toHost'[j].s # s
               /\ toHost'[i].cmd = "OKAY" /\ toHost'[i].n > 0 =>
                     /\ stream'[s] \in {"open", "closed"}
                     /\ toHost'[i].n = Len(device'[s].got)
    <2>1. MayAnswer(toHost'[i], d)
      BY <1>1
    <2>2. ASSUME toHost'[i].cmd = "OKAY", toHost'[i].n = 0, NEW j \in DOMAIN toHost', j < i
          PROVE  toHost'[j].s # s
      <3>1. \A k \in DOMAIN toHost : k > d => toHost[k].s # s
        BY <2>1, <2>2 DEF MayAnswer
      <3>2. j + d \in DOMAIN toHost /\ toHost'[j] = toHost[j + d] /\ j + d > d
        BY <1>0, <2>2
      <3> QED BY <3>1, <3>2
    <2> QED BY <2>1, <2>2 DEF MayAnswer
  <1>2. ASSUME i + d \in DOMAIN toHost, toHost'[i] = toHost[i + d]
        PROVE  /\ s \in Streams /\ stream'[s] # "none"
               /\ toHost'[i].cmd = "OKAY" /\ toHost'[i].n = 0 =>
                     /\ stream'[s] = "pending"
                     /\ \A j \in DOMAIN toHost' : j < i => toHost'[j].s # s
               /\ toHost'[i].cmd = "OKAY" /\ toHost'[i].n > 0 =>
                     /\ stream'[s] \in {"open", "closed"}
                     /\ toHost'[i].n = Len(device'[s].got)
    <2>1. PICK k \in DOMAIN toHost : k = i + d /\ k > d
      BY <1>0, <1>2
    <2>2. /\ s \in Streams /\ stream[s] # "none"
          /\ toHost[k].cmd = "OKAY" /\ toHost[k].n = 0 =>
                stream[s] = "pending" /\ \A j \in DOMAIN toHost : j < k => toHost[j].s # s
          /\ toHost[k].cmd = "OKAY" /\ toHost[k].n > 0 =>
                stream[s] \in {"open", "closed"} /\ toHost[k].n = Len(device[s].got)
      BY <1>2, <2>1 DEF ToHostFits
    <2>3. ASSUME toHost[k].cmd = "OKAY", toHost[k].n = 0
          PROVE  /\ stream'[s] = "pending"
                 /\ \A j \in DOMAIN toHost' : j < i => toHost'[j].s # s
      <3>1. stream[s] = "pending" /\ \A j \in DOMAIN toHost : j < k => toHost[j].s # s
        BY <2>2, <2>3
      <3>2. d = 1 => toHost[1].s # s
        <4>1. DOMAIN toHost = 1 .. Len(toHost) /\ Len(toHost) \in Nat
          BY LenProperties DEF Types
        <4>2. d = 1 => 1 \in DOMAIN toHost /\ 1 < k
          BY <1>0, <2>1, <4>1
        <4> QED BY <3>1, <4>2
      <3>3. stream'[s] = "pending"
        BY <2>2, <3>1, <3>2
      <3>4. ASSUME NEW j \in DOMAIN toHost', j < i
            PROVE  toHost'[j].s # s
        <4>1. j + d \in DOMAIN toHost /\ toHost'[j] = toHost[j + d] /\ j + d < k
          BY <1>0, <2>1, <3>4
        <4> QED BY <3>1, <4>1
      <3> QED BY <3>3, <3>4
    <2>4. ASSUME toHost[k].cmd = "OKAY", toHost[k].n > 0
          PROVE  stream'[s] \in {"open", "closed"} /\ toHost[k].n = Len(device'[s].got)
      <3>1. toHost[k].s = s
        BY <1>2, <2>1
      <3> QED BY <2>1, <2>2, <2>4, <3>1 DEF StreamsMove
    <2> QED BY <1>2, <2>1, <2>2, <2>3, <2>4 DEF StreamsMove
  <1> QED BY <1>1, <1>2 DEF Moves

\* A write that is in flight stays the only one and the first of the queue, when
\* a step sends and acknowledges none.
LEMMA FlightKept ==
  ASSUME Types, Quiet, ToDeviceFits, ToHostFits, FlightFits,
         NEW d, NEW new, Moves(toDevice, toDevice', d, new),
         NEW e, NEW add, Moves(toHost, toHost', e, add),
         \A m \in new : m.cmd # "WRTE",
         \A m \in add : ~(m.cmd = "OKAY" /\ m.n > 0),
         \A m \in Messages : m.s \in Streams /\ IsFirst(m) => (IsFirst(m))',
         ~txPending' => ~txPending /\ txQueue' = <<>>
  PROVE  FlightFits'
  <1>0. d \in {0, 1} /\ e \in {0, 1}
    BY DEF Moves
  <1>1. ASSUME NEW i \in Written'
        PROVE  /\ i \in Nat /\ i + d \in Written /\ toDevice'[i] = toDevice[i + d]
               /\ (IsFirst(toDevice[i]))'
    <2>1. i \in DOMAIN toDevice' /\ toDevice'[i].cmd = "WRTE"
      BY DEF Written
    <2>2. i \in Nat /\ i + d \in DOMAIN toDevice /\ toDevice'[i] = toDevice[i + d]
      BY <2>1 DEF Moves
    <2>3. i + d \in Written
      BY <2>1, <2>2 DEF Written
    <2>4. PICK m \in Messages : m = toDevice[i + d]
      BY <2>2, ElementOfSeq, LenProperties DEF Types
    <2>5. IsFirst(m)
      BY <2>3, <2>4 DEF FlightFits
    <2>6. m.s \in Streams
      BY <2>1, <2>2, <2>4 DEF ToDeviceFits, Handshake
    <2>7. (IsFirst(m))'
      BY <2>5, <2>6
    <2> QED BY <2>2, <2>3, <2>4, <2>7 DEF IsFirst
  <1>2. ASSUME NEW i \in Acked'
        PROVE  /\ i \in Nat /\ i + e \in Acked /\ toHost'[i] = toHost[i + e]
               /\ (IsFirst(toHost[i]))'
    <2>1. i \in DOMAIN toHost' /\ toHost'[i].cmd = "OKAY" /\ toHost'[i].n > 0
      BY DEF Acked
    <2>2. i \in Nat /\ i + e \in DOMAIN toHost /\ toHost'[i] = toHost[i + e]
      BY <2>1 DEF Moves
    <2>3. i + e \in Acked
      BY <2>1, <2>2 DEF Acked
    <2>4. PICK m \in Messages : m = toHost[i + e]
      BY <2>2, ElementOfSeq, LenProperties DEF Types
    <2>5. IsFirst(m)
      BY <2>3, <2>4 DEF FlightFits
    <2>6. m.s \in Streams
      <3>1. phase = "connected"
        BY <2>3 DEF Quiet
      <3> QED BY <2>1, <2>2, <2>4, <3>1 DEF ToHostFits, Handshake
    <2>7. (IsFirst(m))'
      BY <2>5, <2>6
    <2> QED BY <2>2, <2>3, <2>4, <2>7 DEF IsFirst
  <1>3. OneWriteInFlight
    BY DEF FlightFits
  <1>4. \A i, j \in Written' : i = j
    BY <1>0, <1>1, <1>3 DEF OneWriteInFlight
  <1>5. \A i, j \in Acked' : i = j
    BY <1>0, <1>2, <1>3 DEF OneWriteInFlight
  <1>6. Written' = {} \/ Acked' = {}
    BY <1>1, <1>2, <1>3 DEF OneWriteInFlight
  <1>7. ~txPending' => Written' = {} /\ Acked' = {} /\ txQueue' = <<>>
    BY <1>1, <1>2, <1>3 DEF OneWriteInFlight
  <1> QED BY <1>1, <1>2, <1>4, <1>5, <1>6, <1>7 DEF FlightFits, OneWriteInFlight

\* What the host knows of a stream stays the same when no write of it is
\* acknowledged and none arrives.
LEMMA BaseKept ==
  ASSUME Types, NEW s \in Streams, NEW d, NEW new, Moves(toHost, toHost', d, new),
         \A m \in new : ~(m.cmd = "OKAY" /\ m.n > 0 /\ m.s = s),
         d = 1 => ~(toHost[1].cmd = "OKAY" /\ toHost[1].n > 0 /\ toHost[1].s = s),
         device'[s].got = device[s].got
  PROVE  (Base(s))' = Base(s)
  <1>0. d \in {0, 1} /\ (\A i \in DOMAIN toHost : i \in Nat /\ i >= 1)
    BY DEF Moves
  <1>1. ASSUME NEW i \in Acked, toHost[i].s = s
        PROVE  \E k \in Acked' : toHost'[k].s = s
    <2>1. i \in DOMAIN toHost /\ toHost[i].cmd = "OKAY" /\ toHost[i].n > 0
      BY DEF Acked
    <2>2. i > d
      BY <1>0, <1>1, <2>1
    <2>3. i - d \in DOMAIN toHost' /\ toHost'[i - d] = toHost[i]
      BY <2>1, <2>2 DEF Moves
    <2> QED BY <1>1, <2>1, <2>3 DEF Acked
  <1>2. ASSUME NEW i \in Acked', toHost'[i].s = s
        PROVE  \E k \in Acked : toHost[k].s = s
    <2>1. i \in DOMAIN toHost' /\ toHost'[i].cmd = "OKAY" /\ toHost'[i].n > 0
      BY DEF Acked
    <2>2. i + d \in DOMAIN toHost /\ toHost'[i] = toHost[i + d]
      BY <1>2, <2>1 DEF Moves
    <2> QED BY <1>2, <2>1, <2>2 DEF Acked
  <1>3. (\E i \in Acked : toHost[i].s = s) <=> (\E i \in Acked' : toHost'[i].s = s)
    BY <1>1, <1>2
  <1> QED BY <1>3 DEF Base

\* The queue fits when a step leaves it alone, and what the host knows too.
LEMMA QueueKept ==
  ASSUME Types, QueueFits, UNCHANGED <<txQueue, written>>, plugged' => plugged,
         plugged' => \A s \in Streams :
             stream'[s] = "open" \/ QueuedFor(s) # {} =>
                 /\ stream[s] = "open" \/ QueuedFor(s) # {}
                 /\ (Base(s))' = Base(s)
  PROVE  QueueFits'
  <1>1. \A s : (QueuedFor(s))' = QueuedFor(s)
    BY DEF QueuedFor
  <1>2. plugged' => InOrder'
    BY DEF QueueFits, InOrder
  <1>3. ASSUME plugged', NEW s \in Streams, stream'[s] = "open" \/ (QueuedFor(s))' # {}
        PROVE  /\ (Base(s))' <= written'[s]
               /\ \A i \in (QueuedFor(s))' : txQueue'[i].n > (Base(s))' /\ txQueue'[i].n <= written'[s]
               /\ \A n \in Nat : n > (Base(s))' /\ n <= written'[s] =>
                     \E i \in (QueuedFor(s))' : txQueue'[i].n = n
    <2>1. (stream[s] = "open" \/ QueuedFor(s) # {}) /\ (Base(s))' = Base(s)
      BY <1>1, <1>3
    <2>2. /\ Base(s) <= written[s]
          /\ \A i \in QueuedFor(s) : txQueue[i].n > Base(s) /\ txQueue[i].n <= written[s]
          /\ \A n \in Nat : n > Base(s) /\ n <= written[s] => \E i \in QueuedFor(s) : txQueue[i].n = n
      BY <1>3, <2>1 DEF QueueFits
    <2> QED BY <1>1, <2>1, <2>2
  <1> QED BY <1>2, <1>3 DEF QueueFits

\* The same for the device's side.
LEMMA DeviceKept ==
  ASSUME DeviceFits, UNCHANGED <<stream, device, written, resolved, txQueue>>
  PROVE  DeviceFits'
  BY DEF DeviceFits, Unopened, QueuedFor

\* And for the first of the queue.
LEMMA FirstKept ==
  ASSUME UNCHANGED <<stream, txQueue>>
  PROVE  \A m \in Messages : m.s \in Streams /\ IsFirst(m) => (IsFirst(m))'
  BY DEF IsFirst, QueuedFor

\* Filtering the queue.
LEMMA KeptEntries ==
  ASSUME Types, QueueFits, NEW K \in SUBSET DOMAIN txQueue, KeepOnly(K)
  PROVE  /\ txQueue' \in Seq(Entries)
         /\ \A i \in DOMAIN txQueue' : \E k \in K : txQueue'[i] = txQueue[k]
         /\ \A k \in K : \E i \in DOMAIN txQueue' : txQueue'[i] = txQueue[k]
         /\ plugged => InOrder'
         /\ 1 \in K => txQueue' # <<>> /\ Head(txQueue') = txQueue[1]
  <1>1. /\ DOMAIN txQueue = 1 .. Len(txQueue) /\ Len(txQueue) \in Nat
        /\ \A i \in DOMAIN txQueue : txQueue[i] \in Entries
    BY LenProperties, ElementOfSeq DEF Types
  <1>2. IsFiniteSet(K)
    <2>1. IsFiniteSet(1 .. Len(txQueue))
      BY <1>1, FS_Interval
    <2> QED BY <1>1, <2>1, FS_Subset
  <1>3. PICK c \in Nat : c = Cardinality(K)
    BY <1>2, FS_CardinalityType
  <1>4. PICK place \in [1 .. c -> K] :
          /\ \A k \in K : \E i \in 1 .. c : place[i] = k
          /\ \A i, j \in 1 .. c : i < j => place[i] < place[j]
          /\ txQueue' = [i \in 1 .. c |-> txQueue[place[i]]]
    BY <1>3 DEF KeepOnly
  <1>5. \A i \in 1 .. c : place[i] \in K /\ place[i] \in DOMAIN txQueue /\ txQueue'[i] = txQueue[place[i]]
    BY <1>4
  <1>6. txQueue' \in Seq(Entries) /\ DOMAIN txQueue' = 1 .. c
    <2>1. txQueue' \in [1 .. c -> Entries]
      BY <1>1, <1>4, <1>5
    <2> QED BY <1>4, <2>1, IsASeq
  <1>7. plugged => InOrder'
    BY <1>4, <1>5, <1>6 DEF QueueFits, InOrder
  <1>8. ASSUME 1 \in K
        PROVE  txQueue' # <<>> /\ Head(txQueue') = txQueue[1]
    <2>1. PICK i \in 1 .. c : place[i] = 1
      BY <1>4, <1>8
    <2>2. i = 1
      <3>1. SUFFICES ASSUME 1 < i
                     PROVE  FALSE
        OBVIOUS
      <3>2. place[1] < place[i] /\ place[1] \in DOMAIN txQueue
        BY <1>4, <1>5, <3>1
      <3> QED BY <1>1, <2>1, <3>2
    <2>3. txQueue'[1] = txQueue[1] /\ Len(txQueue') = c
      BY <1>5, <1>6, <2>1, <2>2, LenProperties
    <2>4. txQueue' # <<>>
      BY <1>6, <2>1, <2>3, EmptySeq
    <2>5. PICK q \in Seq(Entries) : q = txQueue'
      BY <1>6
    <2>6. Head(q) = q[1]
      BY <2>4, <2>5, HeadTailProperties
    <2> QED BY <2>3, <2>4, <2>5, <2>6
  <1> QED BY <1>4, <1>5, <1>6, <1>7, <1>8

\* The entries of the streams in C are dropped and the streams closed.
LEMMA StreamsClose ==
  ASSUME AdbInv, NEW C \in SUBSET Streams, \A s \in C : stream[s] = "open",
         stream' = [s \in Streams |-> IF s \in C THEN "closed" ELSE stream[s]],
         KeepOnly({i \in DOMAIN txQueue : txQueue[i].s \notin C}),
         NEW new, Moves(toDevice, toDevice', 0, new), \A m \in new : m.cmd = "CLSE" /\ m.s \in C,
         UNCHANGED <<phase, txPending, written, resolved, plugged, toHost, device>>, phase = "connected"
  PROVE  DeviceFits' /\ ToDeviceFits' /\ ToHostFits' /\ FlightFits' /\ QueueFits' /\ txQueue' \in Seq(Entries)
  <1>0. Types /\ Quiet /\ DeviceFits /\ ToDeviceFits /\ ToHostFits /\ FlightFits /\ QueueFits
    BY DEF AdbInv
  <1>1. PICK K \in SUBSET DOMAIN txQueue : K = {i \in DOMAIN txQueue : txQueue[i].s \notin C}
    OBVIOUS
  <1>2. /\ txQueue' \in Seq(Entries)
        /\ \A i \in DOMAIN txQueue' : \E k \in K : txQueue'[i] = txQueue[k]
        /\ \A k \in K : \E i \in DOMAIN txQueue' : txQueue'[i] = txQueue[k]
        /\ plugged => InOrder'
        /\ 1 \in K => txQueue' # <<>> /\ Head(txQueue') = txQueue[1]
    BY <1>0, <1>1, KeptEntries
  <1>3. /\ \A s \in C : stream'[s] = "closed" /\ (QueuedFor(s))' = {}
        /\ \A s \in Streams \ C : stream'[s] = stream[s]
    BY <1>1, <1>2 DEF QueuedFor
  <1>4. \A s \in Streams \ C : QueuedFor(s) = {} <=> (QueuedFor(s))' = {}
    BY <1>1, <1>2 DEF QueuedFor
  <1>5. StreamsMove
    BY <1>3 DEF StreamsMove
  <1>6. DeviceFits'
    <2> SUFFICES ASSUME NEW s \in Streams
                 PROVE  /\ device'[s].open => stream'[s] # "none"
                        /\ (Unopened(s))'
                        /\ device'[s].got = [i \in 1 .. Len(device'[s].got) |-> i]
                        /\ resolved'[s] <= Len(device'[s].got)
      BY DEF DeviceFits
    <2>1. /\ device[s].open => stream[s] # "none"
          /\ Unopened(s) /\ device[s].got = [i \in 1 .. Len(device[s].got) |-> i]
          /\ resolved[s] <= Len(device[s].got)
      BY <1>0 DEF DeviceFits
    <2>2. CASE s \in C
      BY <1>3, <2>1, <2>2 DEF Unopened
    <2>3. CASE s \notin C
      BY <1>3, <1>4, <2>1, <2>3 DEF Unopened
    <2> QED BY <2>2, <2>3
  <1>7. ToDeviceFits'
    <2>1. \A t \in Streams : Untouched(t) => (Untouched(t))' /\ \A m \in new : m.s # t
      BY <1>3 DEF Untouched
    <2>2. \A m \in new : MayFollow(m, 0)
      BY <1>3 DEF MayFollow
    <2> QED BY <1>0, <1>5, <2>1, <2>2, DeviceSideFits
  <1>8. Moves(toHost, toHost', 0, {})
    BY <1>0, PipeStays DEF Types
  <1>9. ToHostFits'
    <2>1. \A t \in Streams : stream[t] = "pending" => stream'[t] = "pending"
      BY <1>3
    <2> QED BY <1>0, <1>5, <1>8, <2>1, HostSideFits
  <1>10. FlightFits'
    <2>1. ASSUME NEW m \in Messages, m.s \in Streams, IsFirst(m)
          PROVE  (IsFirst(m))'
      <3>1. CASE txQueue # <<>> /\ Head(txQueue).s = m.s /\ Head(txQueue).n = m.n
        <4>1. 1 \in DOMAIN txQueue /\ Head(txQueue) = txQueue[1] /\ txQueue[1].s \in Streams
          <5>1. DOMAIN txQueue = 1 .. Len(txQueue) /\ Len(txQueue) \in Nat /\ Len(txQueue) # 0
            BY <1>0, <3>1, LenProperties, EmptySeq DEF Types
          <5>2. txQueue[1] \in Entries
            BY <1>0, <5>1, ElementOfSeq DEF Types
          <5> QED BY <5>1, <5>2 DEF Entries
        <4>2. CASE txQueue[1].s \in C
          BY <1>3, <3>1, <4>1, <4>2 DEF IsFirst
        <4>3. CASE txQueue[1].s \notin C
          BY <1>1, <1>2, <3>1, <4>1, <4>3 DEF IsFirst
        <4> QED BY <4>2, <4>3
      <3>2. CASE stream[m.s] = "closed" /\ QueuedFor(m.s) = {}
        <4>1. m.s \notin C
          BY <3>2
        <4>2. (QueuedFor(m.s))' = {}
          BY <1>1, <1>2, <3>2 DEF QueuedFor
        <4>3. stream'[m.s] = "closed"
          BY <1>3, <2>1, <3>2, <4>1
        <4> QED BY <4>2, <4>3 DEF IsFirst
      <3> QED BY <2>1, <3>1, <3>2 DEF IsFirst
    <2>2. ~txPending' => ~txPending /\ txQueue' = <<>>
      <3>1. ASSUME ~txPending
            PROVE  txQueue' = <<>>
        <4>1. txQueue = <<>>
          BY <1>0, <3>1 DEF FlightFits, OneWriteInFlight
        <4>2. DOMAIN txQueue' = {}
          BY <1>2, <4>1
        <4> QED BY <1>2, <4>2, EmptySeq, LenProperties
      <3> QED BY <3>1
    <2>3. \A m \in new : m.cmd # "WRTE"
      OBVIOUS
    <2> QED BY <1>0, <1>8, <2>1, <2>2, <2>3, FlightKept
  <1>11. QueueFits'
    <2>1. ASSUME plugged', NEW s \in Streams, stream'[s] = "open" \/ (QueuedFor(s))' # {}
          PROVE  /\ (Base(s))' <= written'[s]
                 /\ \A i \in (QueuedFor(s))' : txQueue'[i].n > (Base(s))' /\ txQueue'[i].n <= written'[s]
                 /\ \A n \in Nat : n > (Base(s))' /\ n <= written'[s] =>
                       \E i \in (QueuedFor(s))' : txQueue'[i].n = n
      <3>1. s \notin C /\ (stream[s] = "open" \/ QueuedFor(s) # {})
        BY <1>3, <1>4, <2>1
      <3>2. (Base(s))' = Base(s)
        BY DEF Base, Acked
      <3>3. /\ Base(s) <= written[s]
            /\ \A i \in QueuedFor(s) : txQueue[i].n > Base(s) /\ txQueue[i].n <= written[s]
            /\ \A n \in Nat : n > Base(s) /\ n <= written[s] => \E i \in QueuedFor(s) : txQueue[i].n = n
        BY <1>0, <2>1, <3>1 DEF QueueFits
      <3>4. \A i \in (QueuedFor(s))' : \E k \in QueuedFor(s) : txQueue'[i] = txQueue[k]
        BY <1>1, <1>2 DEF QueuedFor
      <3>5. \A k \in QueuedFor(s) : \E i \in (QueuedFor(s))' : txQueue'[i] = txQueue[k]
        BY <1>1, <1>2, <3>1 DEF QueuedFor
      <3> QED BY <3>2, <3>3, <3>4, <3>5
    <2> QED BY <1>2, <2>1 DEF QueueFits
  <1> QED BY <1>2, <1>6, <1>7, <1>9, <1>10, <1>11

-----------------------------------------------------------------------------
(***************************************************************************)
(* The actions of the host.                                                *)
(***************************************************************************)
\* The initial states: at most a message of an earlier connection is under way.
LEMMA AdbInit == Init => AdbInv
  <1> SUFFICES ASSUME Init
               PROVE  AdbInv
    OBVIOUS
  <1>1. /\ phase = "connecting" /\ connected = FALSE /\ rx = None /\ lastStreamId = 0
        /\ stream = [s \in Streams |-> "none"] /\ txQueue = <<>> /\ txPending = FALSE
        /\ written = [s \in Streams |-> 0] /\ resolved = [s \in Streams |-> 0] /\ plugged = TRUE
        /\ toDevice = <<Msg("CNXN", 0, 0)>>
        /\ device = [s \in Streams |-> [open |-> FALSE, unacked |-> FALSE, sent |-> 0, got |-> <<>>]]
    BY DEF Init
  <1>2. toHost = <<>> \/ \E m \in Leftovers : toHost = <<m>>
    BY DEF Init
  <1>3. \A m \in Leftovers : m \in Messages /\ m.n = 0
    BY AdbAssumption DEF Messages, Commands, Handshake
  <1>4. toHost \in Seq(Messages) /\ \A i \in DOMAIN toHost : i = 1 /\ toHost[i].n = 0
    <2>1. CASE toHost = <<>>
      BY <2>1
    <2>2. ASSUME NEW m \in Leftovers, toHost = <<m>>
          PROVE  toHost \in Seq(Messages) /\ \A i \in DOMAIN toHost : i = 1 /\ toHost[i].n = 0
      BY <1>3, <2>2
    <2> QED BY <1>2, <2>1, <2>2
  <1>5. /\ toDevice \in Seq(Messages)
        /\ \A i \in DOMAIN toDevice : toDevice[i].cmd = "CNXN" /\ toDevice[i].s = 0
    BY <1>1 DEF Msg, Messages, Commands, Handshake
  <1>6. /\ MaxStreams \in Nat /\ lastStreamId \in 0 .. MaxStreams
    BY <1>1, AdbAssumption
  <1>7. Types
    <2>1. <<>> \in Seq(Nat) /\ txQueue \in Seq(Entries)
      BY <1>1
    <2>2. device \in [Streams -> Sides]
      BY <1>1, <2>1 DEF Sides
    <2> QED BY <1>1, <1>4, <1>5, <1>6, <2>1, <2>2 DEF Types
  <1>8. Acked = {} /\ Written = {}
    BY <1>4, <1>5 DEF Acked, Written
  <1>9. Quiet
    BY <1>1, <1>4, <1>8 DEF Quiet
  <1>10. DeviceFits
    <2>1. \A s \in Streams : QueuedFor(s) = {}
      BY <1>1 DEF QueuedFor
    <2>2. <<>> = [i \in 1 .. Len(<<>>) |-> i] /\ Len(<<>>) = 0
      OBVIOUS
    <2> QED BY <1>1, <2>1, <2>2 DEF DeviceFits, Unopened
  <1>11. ToDeviceFits /\ ToHostFits
    BY <1>1, <1>5 DEF ToDeviceFits, ToHostFits, Handshake
  <1>12. FlightFits
    BY <1>1, <1>8 DEF FlightFits, OneWriteInFlight
  <1>13. QueueFits
    <2>1. \A s \in Streams : QueuedFor(s) = {}
      BY <1>1 DEF QueuedFor
    <2> QED BY <1>1, <2>1 DEF QueueFits, InOrder
  <1> QED BY <1>7, <1>9, <1>10, <1>11, <1>12, <1>13 DEF AdbInv

\* connect() takes a message, and may answer it.
LEMMA ConnectStep ==
  ASSUME AdbInv, ConnectRecv
  PROVE  AdbInv'
  <1>0. Types /\ Quiet /\ DeviceFits /\ ToDeviceFits /\ ToHostFits /\ FlightFits /\ QueueFits
    BY DEF AdbInv
  <1>1. /\ phase = "connecting" /\ toHost # <<>> /\ toHost' = Tail(toHost)
        /\ UNCHANGED <<lastStreamId, stream, tx, plugged, device>>
        /\ connected' = (phase' = "connected")
        /\ rx' = IF phase' = "connected" THEN Recv ELSE None
    BY DEF ConnectRecv, ConnectAnswers
  <1>2. UNCHANGED <<txQueue, txPending, written, resolved>>
    BY <1>1 DEF tx
  <1>3. /\ \A s \in Streams : stream[s] = "none"
        /\ \A i \in DOMAIN toHost : i = 1 \/ (toHost[i].cmd \in Handshake /\ toHost[i].s = 0)
        /\ Acked = {} /\ plugged /\ ~txPending
    BY <1>0, <1>1 DEF Quiet
  <1>4. \E new : Moves(toDevice, toDevice', 0, new) /\ \A m \in new : m.cmd \in Handshake /\ m.s = 0
    <2>1. \E reply \in {<<>>, <<Msg("SIGNATURE", 0, 0)>>, <<Msg("PUBKEY", 0, 0)>>} : toDevice' = toDevice \o reply
      BY <1>3 DEF ConnectRecv, ConnectAnswers
    <2>2. toDevice \in Seq(Messages)
      BY <1>0 DEF Types
    <2>3. CASE toDevice' = toDevice \o <<>>
      <3>1. toDevice' = toDevice
        BY <2>2, <2>3, ConcatEmptySeq
      <3> QED BY <2>2, <3>1, PipeStays
    <2>4. ASSUME NEW c \in {"SIGNATURE", "PUBKEY"}, toDevice' = toDevice \o <<Msg(c, 0, 0)>>
          PROVE  \E new : Moves(toDevice, toDevice', 0, new) /\ \A m \in new : m.cmd \in Handshake /\ m.s = 0
      <3>1. PICK m : m = Msg(c, 0, 0)
        OBVIOUS
      <3>2. m \in Messages /\ m.cmd \in Handshake /\ m.s = 0
        BY <3>1 DEF Msg, Messages, Commands, Handshake
      <3>3. Moves(toDevice, toDevice', 0, {m})
        BY <2>2, <2>4, <3>1, <3>2, PipeGrows
      <3> QED BY <3>2, <3>3
    <2> QED BY <2>1, <2>3, <2>4
  <1>5. PICK new : Moves(toDevice, toDevice', 0, new) /\ \A m \in new : m.cmd \in Handshake /\ m.s = 0
    BY <1>4
  <1>6. Moves(toHost, toHost', 1, {}) /\ 1 \in DOMAIN toHost
    BY <1>0, <1>1, PipeShrinks DEF Types
  <1>7. Types'
    <2>1. connected' \in BOOLEAN
      BY <1>1, Zenon
    <2>2. toHost' \in Seq(Messages) /\ toDevice' \in Seq(Messages)
      BY <1>5, <1>6 DEF Moves
    <2> QED BY <1>0, <1>1, <1>2, <2>1, <2>2 DEF Types
  <1>8. DeviceFits'
    BY <1>0, <1>1, <1>2, DeviceKept
  <1>9. StreamsMove
    BY <1>1 DEF StreamsMove
  <1>10. ToDeviceFits'
    <2>1. \A t \in Streams : ~Untouched(t)
      BY <1>3 DEF Untouched
    <2>2. \A m \in new : MayFollow(m, 0)
      BY <1>5 DEF MayFollow
    <2> QED BY <1>0, <1>1, <1>5, <1>9, <2>1, <2>2, DeviceSideFits
  <1>11. FlightFits'
    <2>1. \A m \in Messages : m.s \in Streams /\ IsFirst(m) => (IsFirst(m))'
      BY <1>1, <1>2, FirstKept
    <2>2. \A m \in new : m.cmd # "WRTE"
      BY <1>5 DEF Handshake
    <2>3. ~txPending' => ~txPending /\ txQueue' = <<>>
      BY <1>0, <1>2, <1>3 DEF FlightFits, OneWriteInFlight
    <2> QED BY <1>0, <1>5, <1>6, <2>1, <2>2, <2>3, FlightKept
  <1>12. QueueFits'
    <2>1. \A s \in Streams : (Base(s))' = Base(s)
      <3>1. ~(toHost[1].cmd = "OKAY" /\ toHost[1].n > 0)
        BY <1>3, <1>6 DEF Acked
      <3> QED BY <1>0, <1>1, <1>6, <3>1, BaseKept
    <2> QED BY <1>0, <1>1, <1>2, <2>1, QueueKept
  <1>13. \A i \in DOMAIN toHost' : toHost'[i].cmd \in Handshake /\ toHost'[i].s = 0
    <2> SUFFICES ASSUME NEW i \in DOMAIN toHost'
                 PROVE  toHost'[i].cmd \in Handshake /\ toHost'[i].s = 0
      OBVIOUS
    <2>1. i + 1 \in DOMAIN toHost /\ toHost'[i] = toHost[i + 1] /\ i \in Nat /\ i >= 1
      BY <1>6 DEF Moves
    <2> QED BY <1>3, <2>1
  <1>14. ToHostFits'
    BY <1>13 DEF ToHostFits
  <1>15. Quiet'
    <2>1. Acked' = {}
      BY <1>13 DEF Acked, Handshake
    <2>2. rx' # None => connected'
      BY <1>1
    <2>3. phase' # "connected" => ~connected'
      BY <1>1
    <2>4. \A s \in Streams : stream'[s] = "none"
      BY <1>1, <1>3
    <2> QED BY <1>1, <1>2, <1>3, <1>13, <2>1, <2>2, <2>3, <2>4 DEF Quiet
  <1> QED BY <1>7, <1>8, <1>10, <1>11, <1>12, <1>14, <1>15 DEF AdbInv

\* A message of the protocol.
LEMMA MessageType ==
  ASSUME NEW c \in Commands, NEW s \in Nat, NEW n \in Nat
  PROVE  Msg(c, s, n) \in Messages /\ Msg(c, s, n).cmd = c /\ Msg(c, s, n).s = s /\ Msg(c, s, n).n = n
  BY DEF Msg, Messages

\* What send() does to the pipe.
LEMMA SentMoves ==
  ASSUME Types, Quiet, NEW m \in Messages, Sent(<<m>>)
  PROVE  /\ \E new : Moves(toDevice, toDevice', 0, new) /\ new \subseteq {m} /\ (new # {} => plugged)
         /\ ~plugged => toDevice' = <<>>
  <1>1. toDevice \in Seq(Messages)
    BY DEF Types
  <1>2. CASE connected /\ plugged
    <2>1. toDevice' = toDevice \o <<m>>
      BY <1>2 DEF Sent
    <2>2. Moves(toDevice, toDevice', 0, {m})
      BY <1>1, <2>1, PipeGrows
    <2> QED BY <1>2, <2>2
  <1>3. CASE ~(connected /\ plugged)
    <2>1. toDevice' = toDevice
      BY <1>3 DEF Sent
    <2>2. Moves(toDevice, toDevice', 0, {})
      BY <1>1, <2>1, PipeStays
    <2> QED BY <2>1, <2>2 DEF Quiet
  <1> QED BY <1>2, <1>3

\* And sending nothing.
LEMMA NothingSent ==
  ASSUME Types, Sent(<<>>)
  PROVE  toDevice' = toDevice
  <1>1. toDevice \o <<>> = toDevice
    BY ConcatEmptySeq DEF Types
  <1> QED BY <1>1 DEF Sent

\* createStream(): the OPEN of a new stream.
LEMMA CreateStep ==
  ASSUME AdbInv, CreateStream
  PROVE  AdbInv'
  <1>0. Types /\ Quiet /\ DeviceFits /\ ToDeviceFits /\ ToHostFits /\ FlightFits /\ QueueFits
    BY DEF AdbInv
  <1>1. PICK s \in Streams :
          /\ phase = "connected" /\ s = lastStreamId + 1 /\ lastStreamId' = s
          /\ stream' = [stream EXCEPT ![s] = "pending"]
          /\ Sent(<<Msg("OPEN", s, 0)>>)
          /\ UNCHANGED <<conn, connected, rx, tx, plugged, toHost, device>>
    <2>1. lastStreamId + 1 \in Streams
      BY <1>0, AdbAssumption DEF CreateStream, Types, Streams
    <2> QED BY <2>1 DEF CreateStream
  <1>2. UNCHANGED <<phase, txQueue, txPending, written, resolved>>
    BY <1>1 DEF tx, conn
  <1>3. stream[s] = "none" /\ s \in Nat /\ s > lastStreamId /\ lastStreamId \in Nat
    <2>1. s \in Nat /\ lastStreamId \in Nat
      BY <1>0, <1>1, AdbAssumption DEF Types, Streams
    <2>2. s > lastStreamId
      BY <1>1, <2>1
    <2> QED BY <1>0, <1>1, <2>1, <2>2 DEF Quiet
  <1>4. PICK m \in Messages : m = Msg("OPEN", s, 0) /\ m.cmd = "OPEN" /\ m.s = s
    <2>1. "OPEN" \in Commands /\ 0 \in Nat
      BY DEF Commands
    <2>2. Msg("OPEN", s, 0) \in Messages /\ Msg("OPEN", s, 0).cmd = "OPEN" /\ Msg("OPEN", s, 0).s = s
      BY <1>3, <2>1, MessageType
    <2> QED BY <2>2, Zenon
  <1>5. PICK new : /\ Moves(toDevice, toDevice', 0, new) /\ new \subseteq {m} /\ (new # {} => plugged)
                   /\ ~plugged => toDevice' = <<>>
    <2>1. Sent(<<m>>)
      BY <1>1, <1>4
    <2>2. /\ \E new : Moves(toDevice, toDevice', 0, new) /\ new \subseteq {m} /\ (new # {} => plugged)
          /\ ~plugged => toDevice' = <<>>
      BY <1>0, <2>1, SentMoves
    <2> QED BY <2>2, Zenon
  <1>6. stream'[s] = "pending" /\ \A t \in Streams \ {s} : stream'[t] = stream[t]
    BY <1>0, <1>1 DEF Types
  <1>7. /\ \A i \in DOMAIN toDevice : toDevice[i].s # s
        /\ \A i \in DOMAIN toHost : toHost[i].s # s
        /\ ~device[s].open
    <2>1. s # 0
      BY <1>1 DEF Streams
    <2> QED BY <1>0, <1>1, <1>3, <2>1 DEF ToDeviceFits, ToHostFits, DeviceFits
  <1>8. Moves(toHost, toHost', 0, {})
    BY <1>0, <1>1, PipeStays DEF Types
  <1>9. Types'
    <2>1. toDevice' \in Seq(Messages)
      BY <1>5 DEF Moves
    <2>2. lastStreamId' \in 0 .. MaxStreams
      BY <1>1, AdbAssumption DEF Streams
    <2> QED BY <1>0, <1>1, <1>2, <2>1, <2>2 DEF Types
  <1>10. StreamsMove
    BY <1>3, <1>6 DEF StreamsMove
  <1>11. DeviceFits'
    <2> SUFFICES ASSUME NEW t \in Streams
                 PROVE  /\ device'[t].open => stream'[t] # "none"
                        /\ (Unopened(t))'
                        /\ device'[t].got = [i \in 1 .. Len(device'[t].got) |-> i]
                        /\ resolved'[t] <= Len(device'[t].got)
      BY DEF DeviceFits
    <2>1. /\ device[t].open => stream[t] # "none"
          /\ Unopened(t) /\ device[t].got = [i \in 1 .. Len(device[t].got) |-> i]
          /\ resolved[t] <= Len(device[t].got)
      BY <1>0 DEF DeviceFits
    <2>2. (QueuedFor(t))' = QueuedFor(t)
      BY <1>2 DEF QueuedFor
    <2>3. stream'[t] # "none" \/ stream'[t] = stream[t]
      BY <1>6
    <2>4. stream'[t] \in {"none", "pending", "refused"} => stream[t] \in {"none", "pending", "refused"}
      BY <1>3, <1>6
    <2> QED BY <1>1, <1>2, <2>1, <2>2, <2>3, <2>4 DEF Unopened
  <1>12. ToDeviceFits'
    <2>1. \A t \in Streams : Untouched(t) => (Untouched(t))' /\ \A x \in new : x.s # t
      <3> SUFFICES ASSUME NEW t \in Streams, Untouched(t)
                   PROVE  (Untouched(t))' /\ t # s
        BY <1>4, <1>5
      <3> QED BY <1>1, <1>3, <1>6 DEF Untouched
    <2>2. \A x \in new : MayFollow(x, 0)
      <3>1. (Untouched(s))'
        BY <1>1, <1>6, <1>7 DEF Untouched
      <3>2. MayFollow(m, 0)
        BY <1>4, <1>6, <1>7, <3>1 DEF MayFollow, Untouched
      <3> QED BY <1>5, <3>2
    <2> QED BY <1>0, <1>1, <1>5, <1>10, <2>1, <2>2, DeviceSideFits
  <1>13. ToHostFits'
    <2>1. \A t \in Streams : stream[t] = "pending" => stream'[t] = "pending"
      BY <1>6
    <2> QED BY <1>0, <1>1, <1>8, <1>10, <2>1, HostSideFits
  <1>14. FlightFits'
    <2>1. ASSUME NEW x \in Messages, x.s \in Streams, IsFirst(x)
          PROVE  (IsFirst(x))'
      BY <1>2, <1>3, <1>6, <2>1 DEF IsFirst, QueuedFor
    <2>2. \A x \in new : x.cmd # "WRTE"
      BY <1>4, <1>5
    <2>3. ~txPending' => ~txPending /\ txQueue' = <<>>
      BY <1>0, <1>2 DEF FlightFits, OneWriteInFlight
    <2> QED BY <1>0, <1>5, <1>8, <2>1, <2>2, <2>3, FlightKept
  <1>15. QueueFits'
    <2>1. \A t \in Streams : (Base(t))' = Base(t)
      BY <1>1 DEF Base, Acked
    <2>2. \A t \in Streams : stream'[t] = "open" => stream[t] = "open"
      BY <1>6
    <2> QED BY <1>0, <1>1, <1>2, <2>1, <2>2, QueueKept
  <1>16. Quiet'
    <2>1. \A t \in Streams : t > lastStreamId' => stream'[t] = "none"
      BY <1>0, <1>1, <1>3, <1>6, AdbAssumption DEF Quiet, Streams
    <2>2. ~plugged' => toDevice' = <<>> /\ toHost' = <<>>
      BY <1>0, <1>1, <1>5 DEF Quiet
    <2> QED BY <1>0, <1>1, <1>2, <2>1, <2>2 DEF Quiet
  <1> QED BY <1>9, <1>11, <1>12, <1>13, <1>14, <1>15, <1>16 DEF AdbInv

\* Once connect() has returned, little is left of Quiet.
LEMMA QuietKept ==
  ASSUME Quiet, phase = "connected", UNCHANGED <<phase, lastStreamId>>,
         rx' # None => connected',
         \A t \in Streams : stream[t] = "none" => stream'[t] = "none",
         ~plugged' => toDevice' = <<>> /\ toHost' = <<>>
  PROVE  Quiet'
  BY DEF Quiet

\* streamClose(): the CLSE of the stream.
LEMMA StreamCloseStep ==
  ASSUME AdbInv, NEW s \in Streams, StreamClose(s)
  PROVE  AdbInv'
  <1>0. Types /\ Quiet
    BY DEF AdbInv
  <1>1. /\ stream[s] = "open" /\ KeepOnly({i \in DOMAIN txQueue : txQueue[i].s # s})
        /\ Sent(<<Msg("CLSE", s, 0)>>) /\ stream' = [stream EXCEPT ![s] = "closed"]
        /\ UNCHANGED <<phase, connected, rx, lastStreamId, txPending, written, resolved,
                       plugged, toHost, device>>
    BY DEF StreamClose, conn
  <1>2. phase = "connected"
    BY <1>0, <1>1 DEF Quiet
  <1>3. PICK m \in Messages : m = Msg("CLSE", s, 0) /\ m.cmd = "CLSE" /\ m.s = s
    <2>1. "CLSE" \in Commands /\ 0 \in Nat /\ s \in Nat
      BY AdbAssumption DEF Commands, Streams
    <2>2. Msg("CLSE", s, 0) \in Messages /\ Msg("CLSE", s, 0).cmd = "CLSE" /\ Msg("CLSE", s, 0).s = s
      BY <2>1, MessageType
    <2> QED BY <2>2, Zenon
  <1>4. PICK new : /\ Moves(toDevice, toDevice', 0, new) /\ new \subseteq {m} /\ (new # {} => plugged)
                   /\ ~plugged => toDevice' = <<>>
    <2>1. Sent(<<m>>)
      BY <1>1, <1>3
    <2>2. /\ \E new : Moves(toDevice, toDevice', 0, new) /\ new \subseteq {m} /\ (new # {} => plugged)
          /\ ~plugged => toDevice' = <<>>
      BY <1>0, <2>1, SentMoves
    <2> QED BY <2>2, Zenon
  <1>5. PICK C \in SUBSET Streams : C = {s}
    OBVIOUS
  <1>6. KeepOnly({i \in DOMAIN txQueue : txQueue[i].s \notin C})
    <2>1. {i \in DOMAIN txQueue : txQueue[i].s \notin C} = {i \in DOMAIN txQueue : txQueue[i].s # s}
      BY <1>5
    <2> QED BY <1>1, <2>1
  <1>7. stream' = [t \in Streams |-> IF t \in C THEN "closed" ELSE stream[t]]
    BY <1>0, <1>1, <1>5 DEF Types
  <1>8. DeviceFits' /\ ToDeviceFits' /\ ToHostFits' /\ FlightFits' /\ QueueFits' /\ txQueue' \in Seq(Entries)
    <2>1. (\A t \in C : stream[t] = "open") /\ (\A x \in new : x.cmd = "CLSE" /\ x.s \in C)
      BY <1>1, <1>3, <1>4, <1>5
    <2> QED BY <1>1, <1>2, <1>4, <1>6, <1>7, <2>1, StreamsClose
  <1>9. Types'
    <2>1. toDevice' \in Seq(Messages)
      BY <1>4 DEF Moves
    <2> QED BY <1>0, <1>1, <1>8, <2>1 DEF Types
  <1>10. Quiet'
    <2>1. \A t \in Streams : stream[t] = "none" => stream'[t] = "none"
      BY <1>1, <1>5, <1>7
    <2>2. rx' # None => connected'
      BY <1>0, <1>1 DEF Quiet
    <2>3. ~plugged' => toDevice' = <<>> /\ toHost' = <<>>
      BY <1>0, <1>1, <1>4 DEF Quiet
    <2> QED BY <1>0, <1>1, <1>2, <2>1, <2>2, <2>3, QuietKept
  <1> QED BY <1>8, <1>9, <1>10 DEF AdbInv

\* close(): every open stream is closed.
LEMMA CloseStep ==
  ASSUME AdbInv, Close
  PROVE  AdbInv'
  <1>0. Types /\ Quiet
    BY DEF AdbInv
  <1>1. /\ phase = "connected" /\ connected' = FALSE /\ rx' = None
        /\ KeepOnly({i \in DOMAIN txQueue : stream[txQueue[i].s] # "open"})
        /\ stream' = [t \in Streams |-> IF stream[t] = "open" THEN "closed" ELSE stream[t]]
        /\ UNCHANGED <<phase, lastStreamId, txPending, written, resolved, plugged,
                       toDevice, toHost, device>>
    BY DEF Close, conn
  <1>2. PICK C \in SUBSET Streams : C = {t \in Streams : stream[t] = "open"}
    OBVIOUS
  <1>3. KeepOnly({i \in DOMAIN txQueue : txQueue[i].s \notin C})
    <2>1. \A i \in DOMAIN txQueue : txQueue[i].s \in Streams
      <3>1. \A i \in DOMAIN txQueue : txQueue[i] \in Entries
        BY <1>0, LenProperties, ElementOfSeq DEF Types
      <3> QED BY <3>1 DEF Entries
    <2>2. {i \in DOMAIN txQueue : txQueue[i].s \notin C} = {i \in DOMAIN txQueue : stream[txQueue[i].s] # "open"}
      BY <1>2, <2>1
    <2> QED BY <1>1, <2>2
  <1>4. stream' = [t \in Streams |-> IF t \in C THEN "closed" ELSE stream[t]]
    BY <1>1, <1>2
  <1>5. PICK new : new = {} /\ Moves(toDevice, toDevice', 0, new)
    BY <1>0, <1>1, PipeStays DEF Types
  <1>6. DeviceFits' /\ ToDeviceFits' /\ ToHostFits' /\ FlightFits' /\ QueueFits' /\ txQueue' \in Seq(Entries)
    <2>1. (\A t \in C : stream[t] = "open") /\ (\A x \in new : x.cmd = "CLSE" /\ x.s \in C)
      BY <1>2, <1>5
    <2>2. Moves(toDevice, toDevice', 0, new)
      BY <1>5
    <2>3. UNCHANGED <<phase, txPending, written, resolved, plugged, toHost, device>> /\ phase = "connected"
      BY <1>1
    <2> QED BY <1>3, <1>4, <2>1, <2>2, <2>3, StreamsClose
  <1>7. Types'
    <2>1. stream' \in [Streams -> {"none", "pending", "refused", "open", "closed"}]
      BY <1>0, <1>1 DEF Types
    <2> QED BY <1>0, <1>1, <1>6, <2>1 DEF Types
  <1>8. Quiet'
    BY <1>0, <1>1, QuietKept DEF Quiet
  <1> QED BY <1>6, <1>7, <1>8 DEF AdbInv

\* The queue when k entries of stream s have joined the L that were there.
QueueGrown(s, k, add, L) ==
    /\ txQueue' \in Seq(Entries)
    /\ DOMAIN txQueue = 1 .. L /\ DOMAIN txQueue' = 1 .. L + k
    /\ \A i \in 1 .. L : txQueue'[i] = txQueue[i]
    /\ \A i \in 1 .. k : txQueue'[L + i] = add[i]
    /\ (QueuedFor(s))' = QueuedFor(s) \cup (L + 1 .. L + k)
    /\ \A t \in Streams \ {s} : (QueuedFor(t))' = QueuedFor(t)
    /\ txQueue' # <<>> /\ Head(txQueue') = IF txQueue = <<>> THEN add[1] ELSE Head(txQueue)

\* Entries of a stream join the queue.
LEMMA QueueGrows ==
  ASSUME Types, NEW s \in Streams, NEW k \in Nat, k >= 1, NEW add \in [1 .. k -> Entries],
         \A i \in 1 .. k : add[i].s = s, txQueue' = txQueue \o add,
         NEW L \in Nat, L = Len(txQueue)
  PROVE  QueueGrown(s, k, add, L)
  <1>1. PICK q \in Seq(Entries) : q = txQueue
    BY DEF Types
  <1>2. add \in Seq(Entries) /\ Len(add) = k
    BY IsASeq
  <1>3. PICK p : p = txQueue'
    OBVIOUS
  <1>4. /\ p \in Seq(Entries) /\ Len(p) = Len(q) + k
        /\ \A i \in 1 .. Len(q) + k : p[i] = IF i <= Len(q) THEN q[i] ELSE add[i - Len(q)]
    BY <1>1, <1>2, <1>3, ConcatProperties
  <1>5. DOMAIN p = 1 .. Len(q) + k /\ DOMAIN q = 1 .. Len(q) /\ Len(q) \in Nat
    BY <1>4, LenProperties
  <1>6. \A i \in 1 .. Len(q) : p[i] = q[i]
    BY <1>4, <1>5
  <1>7. \A i \in 1 .. k : p[Len(q) + i] = add[i]
    <2> SUFFICES ASSUME NEW i \in 1 .. k
                 PROVE  p[Len(q) + i] = add[i]
      OBVIOUS
    <2>1. Len(q) + i \in 1 .. Len(q) + k /\ ~(Len(q) + i <= Len(q)) /\ Len(q) + i - Len(q) = i
      BY <1>5
    <2> QED BY <1>4, <2>1
  <1>8. \A i \in DOMAIN p : i \in DOMAIN q \/ \E j \in 1 .. k : i = Len(q) + j
    <2> SUFFICES ASSUME NEW i \in DOMAIN p, i \notin DOMAIN q
                 PROVE  \E j \in 1 .. k : i = Len(q) + j
      OBVIOUS
    <2>1. i - Len(q) \in 1 .. k /\ i = Len(q) + (i - Len(q))
      BY <1>5
    <2> QED BY <2>1
  <1>9. {i \in DOMAIN p : p[i].s = s} = {i \in DOMAIN q : q[i].s = s} \cup (Len(q) + 1 .. Len(q) + k)
    <2>1. \A i \in Len(q) + 1 .. Len(q) + k : i \in DOMAIN p /\ p[i].s = s /\ i \notin DOMAIN q
      <3> SUFFICES ASSUME NEW i \in Len(q) + 1 .. Len(q) + k
                   PROVE  i \in DOMAIN p /\ p[i].s = s /\ i \notin DOMAIN q
        OBVIOUS
      <3>1. i \in DOMAIN p /\ i \notin DOMAIN q
        BY <1>5
      <3> QED BY <1>7, <1>8, <3>1
    <2>2. \A i \in DOMAIN p : i \in DOMAIN q \/ i \in Len(q) + 1 .. Len(q) + k
      BY <1>5
    <2>3. \A i \in DOMAIN q : i \in DOMAIN p /\ p[i] = q[i]
      BY <1>5, <1>6
    <2> QED BY <2>1, <2>2, <2>3
  <1>10. \A t \in Streams \ {s} : {i \in DOMAIN p : p[i].s = t} = {i \in DOMAIN q : q[i].s = t}
    <2>1. \A i \in DOMAIN p : i \in DOMAIN q \/ p[i].s = s
      BY <1>7, <1>8
    <2>2. \A i \in DOMAIN q : i \in DOMAIN p /\ p[i] = q[i]
      BY <1>5, <1>6
    <2> QED BY <2>1, <2>2
  <1>11. p # <<>> /\ Head(p) = p[1]
    <2>1. Len(p) # 0
      BY <1>4, <1>5
    <2>2. p # <<>>
      BY <1>4, <2>1, EmptySeq
    <2> QED BY <1>4, <2>2
  <1>12. p[1] = IF q = <<>> THEN add[1] ELSE Head(q)
    <2>1. CASE q = <<>>
      <3>1. Len(q) = 0 /\ 1 \in 1 .. k /\ Len(q) + 1 = 1
        BY <2>1, EmptySeq
      <3> QED BY <1>7, <2>1, <3>1
    <2>2. CASE q # <<>>
      <3>1. Len(q) # 0
        BY <2>2, EmptySeq
      <3> QED BY <1>5, <1>6, <2>2, <3>1
    <2> QED BY <2>1, <2>2
  <1> QED BY <1>1, <1>3, <1>4, <1>5, <1>6, <1>7, <1>9, <1>10, <1>11, <1>12 DEF QueuedFor, QueueGrown

\* streamWrite(): entries join the queue, and the first of them is sent when no
\* write is in flight.
LEMMA StreamWriteStep ==
  ASSUME AdbInv, NEW s \in Streams, StreamWrite(s)
  PROVE  AdbInv'
  <1>0. Types /\ Quiet /\ DeviceFits /\ ToDeviceFits /\ ToHostFits /\ FlightFits /\ QueueFits
    BY DEF AdbInv
  <1>a. PICK k \in 1 .. MaxChunks[s] - written[s] :
          /\ txQueue' = txQueue \o [i \in 1 .. k |-> [s |-> s, n |-> written[s] + i, promise |-> i = k]]
          /\ written' = [written EXCEPT ![s] = @ + k]
          /\ Sent(IF txPending THEN <<>> ELSE <<Wrte([s |-> s, n |-> written[s] + 1, promise |-> 1 = k])>>)
    BY DEF StreamWrite
  <1>1. PICK add :
          /\ add = [i \in 1 .. k |-> [s |-> s, n |-> written[s] + i, promise |-> i = k]]
          /\ txQueue' = txQueue \o add
          /\ written' = [written EXCEPT ![s] = @ + k]
          /\ Sent(IF txPending THEN <<>> ELSE <<Wrte([s |-> s, n |-> written[s] + 1, promise |-> 1 = k])>>)
    BY <1>a
  <1>2. /\ stream[s] = "open" /\ txPending' = TRUE
        /\ UNCHANGED <<phase, connected, rx, lastStreamId, stream, resolved, plugged, toHost, device>>
    BY DEF StreamWrite, conn
  <1>3. phase = "connected"
    BY <1>0, <1>2 DEF Quiet
  <1>4. s \in Nat /\ k \in Nat /\ k >= 1 /\ 1 \in 1 .. k /\ written[s] \in Nat
    BY <1>0, AdbAssumption DEF Types, Streams
  <1>5. /\ add \in [1 .. k -> Entries]
        /\ \A i \in 1 .. k : add[i].s = s /\ add[i].n = written[s] + i
    BY <1>1, <1>4 DEF Entries
  <1>6. PICK L \in Nat : L = Len(txQueue)
    BY <1>0, LenProperties DEF Types
  <1>7. /\ txQueue' \in Seq(Entries)
        /\ DOMAIN txQueue = 1 .. L /\ DOMAIN txQueue' = 1 .. L + k
        /\ \A i \in 1 .. L : txQueue'[i] = txQueue[i]
        /\ \A i \in 1 .. k : txQueue'[L + i] = add[i]
        /\ (QueuedFor(s))' = QueuedFor(s) \cup (L + 1 .. L + k)
        /\ \A t \in Streams \ {s} : (QueuedFor(t))' = QueuedFor(t)
        /\ txQueue' # <<>> /\ Head(txQueue') = IF txQueue = <<>> THEN add[1] ELSE Head(txQueue)
    <2>1. txQueue' = txQueue \o add /\ (\A i \in 1 .. k : add[i].s = s) /\ add \in [1 .. k -> Entries]
      BY <1>1, <1>5
    <2>2. Types /\ k \in Nat /\ k >= 1
      BY <1>0, <1>4
    <2>3. QueueGrown(s, k, add, L)
      BY <1>6, <2>1, <2>2, QueueGrows
    <2> QED BY <2>3 DEF QueueGrown
  <1>8. PICK m \in Messages : m = Msg("WRTE", s, written[s] + 1) /\ m.cmd = "WRTE" /\ m.s = s /\ m.n = written[s] + 1
    <2>1. "WRTE" \in Commands /\ written[s] + 1 \in Nat
      BY <1>4 DEF Commands
    <2>2. /\ Msg("WRTE", s, written[s] + 1) \in Messages /\ Msg("WRTE", s, written[s] + 1).cmd = "WRTE"
          /\ Msg("WRTE", s, written[s] + 1).s = s /\ Msg("WRTE", s, written[s] + 1).n = written[s] + 1
      BY <1>4, <2>1, MessageType
    <2> QED BY <2>2, Zenon
  <1>9. Sent(IF txPending THEN <<>> ELSE <<m>>)
    BY <1>1, <1>8 DEF Wrte, Msg
  <1>10. PICK new : /\ Moves(toDevice, toDevice', 0, new) /\ new \subseteq {m} /\ (new # {} => plugged)
                    /\ ~plugged => toDevice' = <<>>
                    /\ txPending => new = {}
    <2>1. CASE txPending
      <3>1. toDevice' = toDevice
        BY <1>0, <1>9, <2>1, NothingSent
      <3>2. PICK new : new = {}
        OBVIOUS
      <3>3. Moves(toDevice, toDevice', 0, new)
        BY <1>0, <3>1, <3>2, PipeStays DEF Types
      <3> QED BY <1>0, <3>1, <3>2, <3>3 DEF Quiet
    <2>2. CASE ~txPending
      <3>1. Sent(<<m>>)
        BY <1>9, <2>2
      <3>2. /\ \E new : Moves(toDevice, toDevice', 0, new) /\ new \subseteq {m} /\ (new # {} => plugged)
            /\ ~plugged => toDevice' = <<>>
        BY <1>0, <3>1, SentMoves
      <3> QED BY <2>2, <3>2, Zenon
    <2> QED BY <2>1, <2>2
  <1>11. PICK none : none = {} /\ Moves(toHost, toHost', 0, none)
    BY <1>0, <1>2, PipeStays DEF Types
  <1>12. /\ written' \in [Streams -> Nat] /\ written'[s] = written[s] + k
         /\ \A t \in Streams \ {s} : written'[t] = written[t]
    BY <1>0, <1>1, <1>4 DEF Types
  <1>13. Types'
    <2>1. toDevice' \in Seq(Messages)
      BY <1>10 DEF Moves
    <2> QED BY <1>0, <1>2, <1>7, <1>12, <2>1 DEF Types
  <1>14. Quiet'
    <2>1. \A t \in Streams : stream[t] = "none" => stream'[t] = "none"
      BY <1>2
    <2>2. (rx' # None => connected') /\ (~plugged' => toDevice' = <<>> /\ toHost' = <<>>)
      BY <1>0, <1>2, <1>10 DEF Quiet
    <2> QED BY <1>0, <1>2, <1>3, <2>1, <2>2, QuietKept
  <1>15. DeviceFits'
    BY <1>0, <1>2, <1>7, <1>12 DEF DeviceFits, Unopened
  <1>16. StreamsMove
    BY <1>2 DEF StreamsMove
  <1>17. plugged => Base(s) <= written[s]
    BY <1>0, <1>2 DEF QueueFits
  <1>18. ASSUME new # {}
         PROVE  /\ m.n = Len(device[s].got) + 1
                /\ Written = {} /\ Acked = {} /\ txQueue = <<>>
    <2>1. ~txPending /\ plugged
      BY <1>10, <1>18
    <2>2. Written = {} /\ Acked = {} /\ txQueue = <<>>
      BY <1>0, <2>1 DEF FlightFits, OneWriteInFlight
    <2>3. Base(s) = Len(device[s].got) /\ Len(device[s].got) \in Nat
      <3>1. device[s].got \in Seq(Nat)
        BY <1>0 DEF Types, Sides
      <3> QED BY <2>2, <3>1, LenProperties DEF Base
    <2>4. QueuedFor(s) = {}
      BY <2>2 DEF QueuedFor
    <2>5. \A n \in Nat : ~(n > Base(s) /\ n <= written[s])
      BY <1>0, <1>2, <2>1, <2>4 DEF QueueFits
    <2>6. Base(s) = written[s]
      BY <1>4, <1>17, <2>1, <2>3, <2>5
    <2> QED BY <1>8, <2>2, <2>3, <2>6
  <1>19. ToDeviceFits'
    <2>1. \A t \in Streams : Untouched(t) => (Untouched(t))' /\ \A x \in new : x.s # t
      BY <1>2, <1>8, <1>10 DEF Untouched
    <2>2. \A x \in new : MayFollow(x, 0)
      BY <1>2, <1>8, <1>10, <1>18 DEF MayFollow
    <2> QED BY <1>0, <1>2, <1>10, <1>16, <2>1, <2>2, DeviceSideFits
  <1>20. ToHostFits'
    <2>1. \A x \in none : MayAnswer(x, 0)
      BY <1>11
    <2>2. \A t \in Streams : stream[t] = "pending" => stream'[t] = "pending"
      BY <1>2
    <2> QED BY <1>0, <1>2, <1>3, <1>11, <1>16, <2>1, <2>2, HostSideFits
  <1>21. FlightFits'
    <2>1. CASE new = {}
      <3>1. ASSUME NEW x \in Messages, x.s \in Streams, IsFirst(x)
            PROVE  (IsFirst(x))'
        <4>1. CASE txQueue # <<>> /\ Head(txQueue).s = x.s /\ Head(txQueue).n = x.n
          BY <1>7, <4>1 DEF IsFirst
        <4>2. CASE stream[x.s] = "closed" /\ QueuedFor(x.s) = {}
          BY <1>2, <1>7, <3>1, <4>2 DEF IsFirst
        <4> QED BY <3>1, <4>1, <4>2 DEF IsFirst
      <3>2. (\A x \in new : x.cmd # "WRTE") /\ (\A x \in none : ~(x.cmd = "OKAY" /\ x.n > 0))
        BY <1>11, <2>1
      <3>3. ~txPending' => ~txPending /\ txQueue' = <<>>
        BY <1>2
      <3> QED BY <1>0, <1>10, <1>11, <3>1, <3>2, <3>3, FlightKept
    <2>2. CASE new # {}
      <3>1. Written = {} /\ Acked = {} /\ txQueue = <<>>
        BY <1>18, <2>2
      <3>2. Acked' = {}
        BY <1>2, <3>1 DEF Acked
      <3>3. ASSUME NEW i \in Written'
            PROVE  toDevice'[i] = m /\ i \in Nat /\ \A j \in Written' : j <= i
        <4>1. i \in DOMAIN toDevice' /\ toDevice'[i].cmd = "WRTE"
          BY DEF Written
        <4>2. ~(i + 0 \in DOMAIN toDevice /\ toDevice'[i] = toDevice[i + 0])
          BY <3>1, <4>1 DEF Written
        <4> QED BY <1>10, <4>1, <4>2 DEF Moves, Written
      <3>4. \A i, j \in Written' : i = j
        BY <3>3
      <3>5. (IsFirst(m))'
        <4>1. Head(txQueue') = add[1]
          BY <1>7, <3>1
        <4> QED BY <1>4, <1>5, <1>7, <1>8, <4>1 DEF IsFirst
      <3>6. \A i \in Written' : (IsFirst(toDevice[i]))'
        BY <3>3, <3>5 DEF IsFirst
      <3> QED BY <1>2, <3>2, <3>4, <3>6 DEF FlightFits, OneWriteInFlight
    <2> QED BY <2>1, <2>2
  <1>22. QueueFits'
    <2> SUFFICES ASSUME plugged
                 PROVE  QueueFits'
      BY <1>2 DEF QueueFits
    <2>1. \A t \in Streams : (Base(t))' = Base(t)
      BY <1>2 DEF Base, Acked
    <2>2. Base(s) \in Int
      <3>1. Len(device[s].got) \in Nat
        BY <1>0, LenProperties DEF Types, Sides
      <3> QED BY <3>1 DEF Base
    <2>3. /\ Base(s) <= written[s]
          /\ \A i \in QueuedFor(s) : txQueue[i].n > Base(s) /\ txQueue[i].n <= written[s]
          /\ \A n \in Nat : n > Base(s) /\ n <= written[s] => \E i \in QueuedFor(s) : txQueue[i].n = n
      BY <1>0, <1>2 DEF QueueFits
    <2>4. \A i \in QueuedFor(s) : i \in 1 .. L /\ txQueue'[i] = txQueue[i] /\ txQueue[i].n \in Nat
      <3>1. \A i \in QueuedFor(s) : i \in 1 .. L /\ txQueue[i] \in Entries
        BY <1>0, <1>7, LenProperties, ElementOfSeq DEF QueuedFor, Types
      <3> QED BY <1>7, <3>1 DEF Entries
    <2>5. \A i \in L + 1 .. L + k : \E j \in 1 .. k : i = L + j /\ txQueue'[i] = add[j]
      <3> SUFFICES ASSUME NEW i \in L + 1 .. L + k
                   PROVE  \E j \in 1 .. k : i = L + j /\ txQueue'[i] = add[j]
        OBVIOUS
      <3>1. i - L \in 1 .. k /\ i = L + (i - L)
        BY <1>4, <1>6
      <3> QED BY <1>7, <3>1
    <2>6. /\ (Base(s))' <= written'[s]
          /\ \A i \in (QueuedFor(s))' : txQueue'[i].n > (Base(s))' /\ txQueue'[i].n <= written'[s]
          /\ \A n \in Nat : n > (Base(s))' /\ n <= written'[s] => \E i \in (QueuedFor(s))' : txQueue'[i].n = n
      <3>1. (Base(s))' <= written'[s]
        BY <1>4, <1>12, <2>1, <2>2, <2>3
      <3>2. ASSUME NEW i \in (QueuedFor(s))'
            PROVE  txQueue'[i].n > (Base(s))' /\ txQueue'[i].n <= written'[s]
        <4>1. CASE i \in QueuedFor(s)
          BY <1>4, <1>12, <2>1, <2>2, <2>3, <2>4, <4>1
        <4>2. CASE i \in L + 1 .. L + k
          <5>1. PICK j \in 1 .. k : txQueue'[i] = add[j]
            BY <2>5, <4>2
          <5>2. txQueue'[i].n = written[s] + j
            BY <1>5, <5>1
          <5> QED BY <1>4, <1>12, <2>1, <2>2, <2>3, <5>2
        <4> QED BY <1>7, <3>2, <4>1, <4>2
      <3>3. ASSUME NEW n \in Nat, n > (Base(s))', n <= written'[s]
            PROVE  \E i \in (QueuedFor(s))' : txQueue'[i].n = n
        <4>1. CASE n <= written[s]
          <5>1. PICK i \in QueuedFor(s) : txQueue[i].n = n
            BY <2>1, <2>3, <3>3, <4>1
          <5> QED BY <1>7, <2>4, <5>1
        <4>2. CASE n > written[s]
          <5>1. n - written[s] \in 1 .. k /\ written[s] + (n - written[s]) = n
            BY <1>4, <1>12, <3>3, <4>2
          <5>2. PICK j \in 1 .. k : written[s] + j = n
            BY <5>1
          <5>3. L + j \in L + 1 .. L + k
            BY <1>4, <1>6
          <5>4. txQueue'[L + j].n = n
            BY <1>5, <1>7, <5>2
          <5> QED BY <1>7, <5>3, <5>4
        <4> QED BY <1>4, <4>1, <4>2
      <3> QED BY <3>1, <3>2, <3>3
    <2>7. InOrder'
      <3> SUFFICES ASSUME NEW i \in DOMAIN txQueue', NEW j \in DOMAIN txQueue',
                          txQueue'[i].s = txQueue'[j].s, i < j
                   PROVE  txQueue'[i].n < txQueue'[j].n
        BY DEF InOrder
      <3>1. CASE j \in 1 .. L
        <4>1. i \in 1 .. L
          BY <1>6, <1>7, <3>1
        <4> QED BY <1>0, <1>7, <3>1, <4>1 DEF QueueFits, InOrder
      <3>2. CASE j \in L + 1 .. L + k
        <4>1. PICK b \in 1 .. k : j = L + b /\ txQueue'[j] = add[b]
          BY <2>5, <3>2
        <4>2. txQueue'[j].s = s /\ txQueue'[j].n = written[s] + b
          BY <1>5, <4>1
        <4>3. CASE i \in 1 .. L
          <5>1. i \in QueuedFor(s)
            BY <1>7, <4>2, <4>3 DEF QueuedFor
          <5> QED BY <1>4, <2>3, <2>4, <4>2, <5>1
        <4>4. CASE i \in L + 1 .. L + k
          <5>1. PICK a \in 1 .. k : i = L + a /\ txQueue'[i] = add[a]
            BY <2>5, <4>4
          <5>2. txQueue'[i].n = written[s] + a
            BY <1>5, <5>1
          <5> QED BY <1>4, <1>6, <4>1, <4>2, <5>1, <5>2
        <4> QED BY <1>4, <1>6, <1>7, <4>3, <4>4
      <3> QED BY <1>4, <1>6, <1>7, <3>1, <3>2
    <2>8. ASSUME NEW t \in Streams, t # s, stream'[t] = "open" \/ (QueuedFor(t))' # {}
          PROVE  /\ (Base(t))' <= written'[t]
                 /\ \A i \in (QueuedFor(t))' : txQueue'[i].n > (Base(t))' /\ txQueue'[i].n <= written'[t]
                 /\ \A n \in Nat : n > (Base(t))' /\ n <= written'[t] => \E i \in (QueuedFor(t))' : txQueue'[i].n = n
      <3>1. (QueuedFor(t))' = QueuedFor(t) /\ \A i \in QueuedFor(t) : txQueue'[i] = txQueue[i]
        BY <1>7, <2>8 DEF QueuedFor
      <3>2. /\ Base(t) <= written[t]
            /\ \A i \in QueuedFor(t) : txQueue[i].n > Base(t) /\ txQueue[i].n <= written[t]
            /\ \A n \in Nat : n > Base(t) /\ n <= written[t] => \E i \in QueuedFor(t) : txQueue[i].n = n
        BY <1>0, <1>2, <2>8, <3>1 DEF QueueFits
      <3> QED BY <1>12, <2>1, <2>8, <3>1, <3>2
    <2> QED BY <2>6, <2>7, <2>8 DEF QueueFits
  <1> QED BY <1>13, <1>14, <1>15, <1>19, <1>20, <1>21, <1>22 DEF AdbInv

-----------------------------------------------------------------------------
(***************************************************************************)
(* The rx loop.                                                            *)
(***************************************************************************)
\* Only the state of the rx loop changes.
LEMMA IdleStep ==
  ASSUME AdbInv, connected' \in BOOLEAN, rx' # None => connected', connected' => connected,
         UNCHANGED <<phase, lastStreamId, stream, txQueue, txPending, written, resolved,
                     plugged, toDevice, toHost, device>>
  PROVE  AdbInv'
  <1>1. Types'
    BY DEF AdbInv, Types
  <1>2. Quiet'
    BY DEF AdbInv, Quiet, Acked
  <1>3. DeviceFits' /\ ToDeviceFits' /\ ToHostFits'
    BY DEF AdbInv, DeviceFits, Unopened, QueuedFor, ToDeviceFits, ToHostFits
  <1>4. FlightFits'
    BY DEF AdbInv, FlightFits, OneWriteInFlight, IsFirst, QueuedFor, Written, Acked
  <1>5. QueueFits'
    BY DEF AdbInv, QueueFits, InOrder, Base, QueuedFor, Acked
  <1> QED BY <1>1, <1>2, <1>3, <1>4, <1>5 DEF AdbInv

\* What the message that the rx loop takes may do to its stream.
RxMoves ==
    \A t \in Streams : stream'[t] # stream[t] =>
        /\ toHost[1].s = t
        /\ \/ stream[t] = "pending" /\ stream'[t] \in {"open", "refused"}
           \/ stream[t] = "open" /\ stream'[t] = "closed"

\* The rx loop takes a message that acknowledges no write of the queue.
LEMMA RxStep ==
  ASSUME AdbInv, phase = "connected", toHost # <<>>, toHost' = Tail(toHost),
         NEW new, Moves(toDevice, toDevice', 0, new), ~plugged => toDevice' = <<>>,
         \A m \in new : m.cmd = "OKAY" /\ m.s \in Streams /\ stream[m.s] = "open" /\ stream'[m.s] = "open",
         connected' \in BOOLEAN, rx' # None => connected',
         stream' \in [Streams -> {"none", "pending", "refused", "open", "closed"}], RxMoves,
         toHost[1].cmd = "OKAY" /\ toHost[1].n > 0 =>
             stream'[toHost[1].s] # "open" /\ QueuedFor(toHost[1].s) = {},
         UNCHANGED <<phase, lastStreamId, txQueue, txPending, written, resolved, plugged, device>>
  PROVE  AdbInv'
  <1>0. Types /\ Quiet /\ DeviceFits /\ ToDeviceFits /\ ToHostFits /\ FlightFits /\ QueueFits
    BY DEF AdbInv
  <1>1. PICK none : none = {} /\ Moves(toHost, toHost', 1, none)
    BY <1>0, PipeShrinks DEF Types
  <1>2. \A t : (QueuedFor(t))' = QueuedFor(t)
    BY DEF QueuedFor
  <1>3. 1 \in DOMAIN toHost
    BY <1>0, PipeShrinks DEF Types
  <1>4. StreamsMove
    BY DEF RxMoves, StreamsMove
  <1>5. Types'
    <2>1. toHost' \in Seq(Messages) /\ toDevice' \in Seq(Messages)
      BY <1>1 DEF Moves
    <2> QED BY <1>0, <2>1 DEF Types
  <1>6. Quiet'
    <2>1. \A t \in Streams : stream[t] = "none" => stream'[t] = "none"
      BY DEF RxMoves
    <2>2. ~plugged' => toDevice' = <<>> /\ toHost' = <<>>
      BY <1>0 DEF Quiet
    <2> QED BY <1>0, <2>1, <2>2, QuietKept
  <1>7. DeviceFits'
    <2> SUFFICES ASSUME NEW t \in Streams
                 PROVE  /\ device'[t].open => stream'[t] # "none"
                        /\ (Unopened(t))'
                        /\ device'[t].got = [i \in 1 .. Len(device'[t].got) |-> i]
                        /\ resolved'[t] <= Len(device'[t].got)
      BY DEF DeviceFits
    <2>1. /\ device[t].open => stream[t] # "none"
          /\ Unopened(t) /\ device[t].got = [i \in 1 .. Len(device[t].got) |-> i]
          /\ resolved[t] <= Len(device[t].got)
      BY <1>0 DEF DeviceFits
    <2>2. /\ stream[t] # "none" => stream'[t] # "none"
          /\ stream'[t] \in {"none", "pending", "refused"} => stream[t] \in {"none", "pending", "refused"}
      BY DEF RxMoves
    <2> QED BY <1>2, <2>1, <2>2 DEF Unopened
  <1>8. ToDeviceFits'
    <2>1. ASSUME NEW t \in Streams, Untouched(t)
          PROVE  (Untouched(t))' /\ \A m \in new : m.s # t
      <3>1. stream[t] = "pending" /\ ~device[t].open /\ \A j \in DOMAIN toHost : toHost[j].s # t
        BY <2>1 DEF Untouched
      <3>2. stream'[t] = stream[t]
        BY <1>3, <3>1 DEF RxMoves
      <3>3. \A j \in DOMAIN toHost' : toHost'[j].s # t
        BY <1>1, <3>1 DEF Moves
      <3> QED BY <3>1, <3>2, <3>3 DEF Untouched
    <2>2. \A m \in new : MayFollow(m, 0)
      BY DEF MayFollow
    <2> QED BY <1>0, <1>4, <2>1, <2>2, DeviceSideFits
  <1>9. ToHostFits'
    <2>1. \A t \in Streams : stream[t] = "pending" /\ toHost[1].s # t => stream'[t] = "pending"
      BY DEF RxMoves
    <2>2. \A m \in none : MayAnswer(m, 1)
      BY <1>1
    <2> QED BY <1>0, <1>1, <1>4, <2>1, <2>2, HostSideFits
  <1>10. FlightFits'
    <2>1. ASSUME NEW x \in Messages, x.s \in Streams, IsFirst(x)
          PROVE  (IsFirst(x))'
      <3>1. stream[x.s] = "closed" => stream'[x.s] = "closed"
        BY <2>1 DEF RxMoves
      <3> QED BY <1>2, <2>1, <3>1 DEF IsFirst
    <2>2. \A m \in new : m.cmd # "WRTE"
      OBVIOUS
    <2>3. \A m \in none : ~(m.cmd = "OKAY" /\ m.n > 0)
      BY <1>1
    <2>4. ~txPending' => ~txPending /\ txQueue' = <<>>
      BY <1>0 DEF FlightFits, OneWriteInFlight
    <2> QED BY <1>0, <1>1, <2>1, <2>2, <2>3, <2>4, FlightKept
  <1>11. QueueFits'
    <2> SUFFICES ASSUME plugged
                 PROVE  QueueFits'
      BY DEF QueueFits
    <2>1. InOrder'
      BY <1>0 DEF QueueFits, InOrder
    <2>2. ASSUME NEW t \in Streams, stream'[t] = "open" \/ QueuedFor(t) # {}
          PROVE  (Base(t))' = Base(t)
      <3>1. ~(toHost[1].cmd = "OKAY" /\ toHost[1].n > 0 /\ toHost[1].s = t)
        BY <2>2
      <3>2. \A m \in none : ~(m.cmd = "OKAY" /\ m.n > 0 /\ m.s = t)
        BY <1>1
      <3> QED BY <1>0, <1>1, <3>1, <3>2, BaseKept
    <2>3. ASSUME NEW t \in Streams, stream'[t] = "open" \/ QueuedFor(t) # {}
          PROVE  /\ Base(t) <= written[t]
                 /\ \A i \in QueuedFor(t) : txQueue[i].n > Base(t) /\ txQueue[i].n <= written[t]
                 /\ \A n \in Nat : n > Base(t) /\ n <= written[t] => \E i \in QueuedFor(t) : txQueue[i].n = n
      <3>1. CASE stream[t] = "open" \/ QueuedFor(t) # {}
        BY <1>0, <3>1 DEF QueueFits
      <3>2. CASE stream[t] # "open" /\ QueuedFor(t) = {}
        <4>1. stream[t] = "pending"
          BY <2>3, <3>2 DEF RxMoves
        <4>2. written[t] = 0 /\ device[t].got = <<>>
          BY <1>0, <4>1 DEF DeviceFits, Unopened
        <4>3. \A i \in Acked : toHost[i].s # t
          BY <1>0, <4>1 DEF ToHostFits, Acked, Handshake
        <4>4. Base(t) = 0
          BY <4>2, <4>3 DEF Base
        <4> QED BY <3>2, <4>2, <4>4
      <3> QED BY <3>1, <3>2
    <2> QED BY <1>2, <2>1, <2>2, <2>3 DEF QueueFits
  <1> QED BY <1>5, <1>6, <1>7, <1>8, <1>9, <1>10, <1>11 DEF AdbInv

\* Taking out the first entry of the queue.
LEMMA QueueShrinks ==
  ASSUME NEW q \in Seq(Entries), q # <<>>, NEW L \in Nat, L = Len(q), NEW p, p = RemoveAt(q, 1)
  PROVE  /\ p \in Seq(Entries) /\ L >= 1
         /\ DOMAIN q = 1 .. L /\ DOMAIN p = 1 .. L - 1 /\ Len(p) = L - 1
         /\ \A i \in 1 .. L - 1 : p[i] = q[i + 1]
         /\ Head(q) = q[1] /\ \A i \in 1 .. L : q[i] \in Entries
  <1>1. DOMAIN q = 1 .. L /\ L >= 1 /\ \A i \in 1 .. L : q[i] \in Entries
    <2>1. L # 0
      BY EmptySeq
    <2> QED BY <2>1, LenProperties, ElementOfSeq
  <1>2. PICK b : b = SubSeq(q, 2, L)
    OBVIOUS
  <1>3. /\ b \in Seq(Entries) /\ Len(b) = IF 2 <= L THEN L - 2 + 1 ELSE 0
        /\ \A i \in 1 .. L - 2 + 1 : b[i] = q[2 + i - 1]
    <2>1. \A i \in 2 .. L : q[i] \in Entries
      BY <1>1
    <2> QED BY <1>2, <2>1, SubSeqProperties
  <1>4. Len(b) = L - 1
    <2>1. CASE 2 <= L
      BY <1>3, <2>1
    <2>2. CASE ~(2 <= L)
      <3>1. L = 1
        BY <1>1, <2>2
      <3> QED BY <1>3, <3>1
    <2> QED BY <2>1, <2>2
  <1>5. ASSUME NEW i \in 1 .. L - 1
        PROVE  b[i] = q[i + 1]
    <2>1. i \in 1 .. L - 2 + 1 /\ 2 + i - 1 = i + 1
      OBVIOUS
    <2> QED BY <1>3, <2>1
  <1>6. p = b
    <2>1. SubSeq(q, 1, 1 - 1) = <<>>
      BY SubSeqEmpty
    <2>2. p = SubSeq(q, 1, 1 - 1) \o SubSeq(q, 1 + 1, Len(q))
      BY DEF RemoveAt
    <2>3. p = <<>> \o b
      BY <1>2, <2>1, <2>2
    <2> QED BY <1>3, <2>3, ConcatEmptySeq
  <1>7. DOMAIN p = 1 .. L - 1
    BY <1>3, <1>4, <1>6, LenProperties
  <1>8. Head(q) = q[1]
    OBVIOUS
  <1> QED BY <1>1, <1>3, <1>4, <1>5, <1>6, <1>7, <1>8

\* The OKAY to the write in flight: its entry is the first of the queue, and the
\* next one is sent.
LEMMA PopStep ==
  ASSUME AdbInv, phase = "connected", plugged, connected, toHost # <<>>, toHost' = Tail(toHost),
         NEW s, s = toHost[1].s, toHost[1].cmd = "OKAY", stream[s] # "pending", QueuedFor(s) # {}, OnOkay(s),
         UNCHANGED <<phase, lastStreamId, plugged, device>>
  PROVE  AdbInv'
  <1>0. Types /\ Quiet /\ DeviceFits /\ ToDeviceFits /\ ToHostFits /\ FlightFits /\ QueueFits
    BY DEF AdbInv
  <1>1. PICK none : none = {} /\ Moves(toHost, toHost', 1, none)
    BY <1>0, PipeShrinks DEF Types
  <1>2. 1 \in DOMAIN toHost /\ toHost[1] \in Messages
    BY <1>0, PipeShrinks DEF Types
  <1>3. /\ s \in Streams /\ stream[s] \in {"open", "closed"} /\ toHost[1].n > 0
        /\ toHost[1].n = Len(device[s].got)
    <2>1. toHost[1].cmd \notin Handshake
      BY DEF Handshake
    <2>2. toHost[1].n \in Nat
      BY <1>2 DEF Messages
    <2> QED BY <1>0, <1>2, <2>1, <2>2 DEF ToHostFits
  <1>4. 1 \in Acked
    BY <1>2, <1>3 DEF Acked
  <1>5. txPending /\ Written = {} /\ \A i \in Acked : i = 1
    BY <1>0, <1>4 DEF FlightFits, OneWriteInFlight
  <1>6. txQueue # <<>> /\ Head(txQueue).s = s /\ Head(txQueue).n = toHost[1].n
    BY <1>0, <1>4 DEF FlightFits, IsFirst
  <1>a. PICK q \in Seq(Entries) : q = txQueue
    BY <1>0 DEF Types
  <1>b. PICK L \in Nat : L = Len(q)
    BY <1>a, LenProperties
  <1>7. PICK rest : q = txQueue /\ L = Len(q) /\ rest = RemoveAt(q, 1)
    BY <1>a, <1>b
  <1>8. /\ rest \in Seq(Entries) /\ L >= 1
        /\ DOMAIN q = 1 .. L /\ DOMAIN rest = 1 .. L - 1 /\ Len(rest) = L - 1
        /\ \A i \in 1 .. L - 1 : rest[i] = q[i + 1]
        /\ Head(q) = q[1] /\ \A i \in 1 .. L : q[i] \in Entries
    BY <1>6, <1>7, QueueShrinks
  <1>9. q[1].s = s /\ q[1].n = Len(device[s].got) /\ q[1].n \in Nat /\ 1 \in QueuedFor(s)
    BY <1>3, <1>6, <1>7, <1>8 DEF QueuedFor, Entries
  <1>10. 1 = CHOOSE j \in QueuedFor(s) : \A k \in QueuedFor(s) : j <= k
    <2>1. \A k \in QueuedFor(s) : k \in Nat /\ 1 <= k
      BY <1>7, <1>8 DEF QueuedFor
    <2>2. \A j \in QueuedFor(s) : (\A k \in QueuedFor(s) : j <= k) => j = 1
      BY <1>9, <2>1
    <2>3. \E j \in QueuedFor(s) : \A k \in QueuedFor(s) : j <= k
      BY <1>9, <2>1
    <2> QED BY <2>2, <2>3
  <1>11. /\ txQueue' = rest /\ txPending' = (rest # <<>>)
         /\ Sent(IF rest = <<>> THEN <<>> ELSE <<Wrte(Head(rest))>>)
         /\ resolved' = IF q[1].promise THEN [resolved EXCEPT ![s] = q[1].n] ELSE resolved
         /\ UNCHANGED <<connected, rx, stream, written>>
    BY <1>7, <1>10 DEF OnOkay, RxKeeps
  <1>12. /\ \A t \in Streams : \A i \in (QueuedFor(t))' : i \in Nat /\ i + 1 \in QueuedFor(t) /\ txQueue'[i] = txQueue[i + 1]
         /\ \A t \in Streams : \A i \in QueuedFor(t) : i # 1 =>
                i \in Nat /\ i - 1 \in (QueuedFor(t))' /\ txQueue'[i - 1] = txQueue[i]
    <2>1. ASSUME NEW t \in Streams, NEW i \in (QueuedFor(t))'
          PROVE  i \in Nat /\ i + 1 \in QueuedFor(t) /\ txQueue'[i] = txQueue[i + 1]
      <3>1. i \in 1 .. L - 1 /\ rest[i].s = t
        BY <1>8, <1>11, <2>1 DEF QueuedFor
      <3>2. i + 1 \in 1 .. L /\ rest[i] = q[i + 1]
        BY <1>8, <3>1
      <3> QED BY <1>7, <1>8, <1>11, <3>1, <3>2 DEF QueuedFor
    <2>2. ASSUME NEW t \in Streams, NEW i \in QueuedFor(t), i # 1
          PROVE  i \in Nat /\ i - 1 \in (QueuedFor(t))' /\ txQueue'[i - 1] = txQueue[i]
      <3>1. i \in 1 .. L /\ q[i].s = t
        BY <1>7, <1>8, <2>2 DEF QueuedFor
      <3>2. i - 1 \in 1 .. L - 1 /\ (i - 1) + 1 = i
        BY <2>2, <3>1
      <3>3. rest[i - 1] = q[i]
        BY <1>8, <3>2
      <3> QED BY <1>7, <1>8, <1>11, <3>1, <3>2, <3>3 DEF QueuedFor
    <2> QED BY <2>1, <2>2
  <1>13. \A t \in Streams : device[t].got \in Seq(Nat) /\ Len(device[t].got) \in Nat
    <2>1. \A t \in Streams : device[t].got \in Seq(Nat)
      BY <1>0 DEF Types, Sides
    <2> QED BY <2>1, LenProperties
  <1>14. Acked' = {}
    <2> SUFFICES ASSUME NEW i \in Acked'
                 PROVE  FALSE
      OBVIOUS
    <2>1. i \in DOMAIN toHost' /\ toHost'[i].cmd = "OKAY" /\ toHost'[i].n > 0
      BY DEF Acked
    <2>2. i + 1 \in DOMAIN toHost /\ toHost'[i] = toHost[i + 1] /\ i \in Nat /\ i >= 1
      BY <1>1, <2>1 DEF Moves
    <2>3. i + 1 \in Acked
      BY <2>1, <2>2 DEF Acked
    <2> QED BY <1>5, <2>2, <2>3
  <1>15. \A t \in Streams : (Base(t))' = Len(device[t].got)
    BY <1>14 DEF Base
  <1>16. /\ Base(s) = Len(device[s].got) - 1
         /\ \A t \in Streams \ {s} : Base(t) = Len(device[t].got)
    BY <1>4, <1>5 DEF Base
  <1>17. QueueFits'
    <2>1. InOrder'
      <3> SUFFICES ASSUME NEW i \in DOMAIN txQueue', NEW j \in DOMAIN txQueue',
                          txQueue'[i].s = txQueue'[j].s, i < j
                   PROVE  txQueue'[i].n < txQueue'[j].n
        BY DEF InOrder
      <3>1. /\ i + 1 \in DOMAIN q /\ j + 1 \in DOMAIN q /\ i + 1 < j + 1
            /\ rest[i] = q[i + 1] /\ rest[j] = q[j + 1]
        BY <1>8, <1>11
      <3> QED BY <1>0, <1>7, <1>11, <3>1 DEF QueueFits, InOrder
    <2>2. ASSUME NEW t \in Streams, stream'[t] = "open" \/ (QueuedFor(t))' # {}
          PROVE  /\ (Base(t))' <= written'[t]
                 /\ \A i \in (QueuedFor(t))' : txQueue'[i].n > (Base(t))' /\ txQueue'[i].n <= written'[t]
                 /\ \A n \in Nat : n > (Base(t))' /\ n <= written'[t] => \E i \in (QueuedFor(t))' : txQueue'[i].n = n
      <3>1. stream[t] = "open" \/ QueuedFor(t) # {}
        BY <1>11, <1>12, <2>2
      <3>2. /\ Base(t) <= written[t]
            /\ \A i \in QueuedFor(t) : txQueue[i].n > Base(t) /\ txQueue[i].n <= written[t]
            /\ \A n \in Nat : n > Base(t) /\ n <= written[t] => \E i \in QueuedFor(t) : txQueue[i].n = n
        BY <1>0, <3>1 DEF QueueFits
      <3>3. CASE t = s
        <4>1. (Base(s))' <= written'[s]
          BY <1>7, <1>9, <1>11, <1>15, <3>2, <3>3
        <4>2. ASSUME NEW i \in (QueuedFor(s))'
              PROVE  txQueue'[i].n > (Base(s))' /\ txQueue'[i].n <= written'[s]
          <5>1. i \in Nat /\ i + 1 \in QueuedFor(s) /\ txQueue'[i] = txQueue[i + 1] /\ i >= 1
            BY <1>3, <1>8, <1>11, <1>12, <4>2 DEF QueuedFor
          <5>2. txQueue[1].n < txQueue[i + 1].n
            <6>1. 1 \in DOMAIN txQueue /\ i + 1 \in DOMAIN txQueue /\ txQueue[1].s = txQueue[i + 1].s /\ 1 < i + 1
              BY <1>9, <5>1 DEF QueuedFor
            <6> QED BY <1>0, <6>1 DEF QueueFits, InOrder
          <5> QED BY <1>3, <1>7, <1>9, <1>11, <1>15, <3>2, <3>3, <5>1, <5>2
        <4>3. ASSUME NEW n \in Nat, n > (Base(s))', n <= written'[s]
              PROVE  \E i \in (QueuedFor(s))' : txQueue'[i].n = n
          <5>1. n > Base(s) /\ n # q[1].n
            BY <1>3, <1>9, <1>13, <1>15, <1>16, <4>3
          <5>2. PICK i \in QueuedFor(s) : txQueue[i].n = n
            BY <1>11, <3>2, <3>3, <4>3, <5>1
          <5>3. i # 1
            BY <1>7, <5>1, <5>2
          <5> QED BY <1>3, <1>12, <5>2, <5>3
        <4> QED BY <3>3, <4>1, <4>2, <4>3
      <3>4. CASE t # s
        <4>1. (Base(t))' = Base(t)
          BY <1>15, <1>16, <3>4
        <4>2. \A i \in QueuedFor(t) : i # 1
          BY <1>7, <1>9, <3>4 DEF QueuedFor
        <4>3. ASSUME NEW i \in (QueuedFor(t))'
              PROVE  txQueue'[i].n > (Base(t))' /\ txQueue'[i].n <= written'[t]
          <5>1. i + 1 \in QueuedFor(t) /\ txQueue'[i] = txQueue[i + 1]
            BY <1>12, <4>3
          <5>2. txQueue[i + 1].n > Base(t) /\ txQueue[i + 1].n <= written[t]
            BY <3>2, <5>1
          <5> QED BY <1>11, <4>1, <5>1, <5>2
        <4>4. \A n \in Nat : n > (Base(t))' /\ n <= written'[t] => \E i \in (QueuedFor(t))' : txQueue'[i].n = n
          BY <1>11, <1>12, <3>2, <4>1, <4>2
        <4> QED BY <1>11, <3>2, <4>1, <4>3, <4>4
      <3> QED BY <3>3, <3>4
    <2> QED BY <2>1, <2>2 DEF QueueFits
  <1>18. ASSUME rest # <<>>
         PROVE  /\ Head(rest) = rest[1] /\ 1 \in 1 .. L - 1 /\ rest[1] \in Entries
                /\ stream[rest[1].s] \in {"open", "closed"}
                /\ rest[1].n = Len(device[rest[1].s].got) + 1
    <2>1. 1 \in 1 .. L - 1 /\ Head(rest) = rest[1]
      BY <1>8, <1>18, EmptySeq
    <2>2. 2 \in 1 .. L /\ rest[1] = q[2]
      BY <1>8, <2>1
    <2>3. rest[1] \in Entries
      BY <1>8, <2>2
    <2>4. PICK t \in Streams, n \in Nat : rest[1].s = t /\ rest[1].n = n
      BY <2>3 DEF Entries
    <2>5. 2 \in QueuedFor(t) /\ 1 \in (QueuedFor(t))'
      BY <1>7, <1>8, <1>11, <2>1, <2>2, <2>4 DEF QueuedFor
    <2>6. stream[t] \in {"open", "closed"}
      BY <1>0, <2>5 DEF DeviceFits, Unopened, Types
    <2>7. /\ txQueue'[1].n > (Base(t))' /\ txQueue'[1].n <= written'[t]
          /\ \A k \in Nat : k > (Base(t))' /\ k <= written'[t] => \E i \in (QueuedFor(t))' : txQueue'[i].n = k
      BY <1>17, <2>5 DEF QueueFits
    <2>8. \A i \in (QueuedFor(t))' : i = 1 \/ txQueue'[1].n < txQueue'[i].n
      <3> SUFFICES ASSUME NEW i \in (QueuedFor(t))', i # 1
                   PROVE  txQueue'[1].n < txQueue'[i].n
        OBVIOUS
      <3>1. i \in DOMAIN txQueue' /\ 1 \in DOMAIN txQueue' /\ txQueue'[i].s = txQueue'[1].s
        BY <2>5 DEF QueuedFor
      <3>2. 1 < i
        BY <1>8, <1>11, <3>1
      <3> QED BY <1>17, <3>1, <3>2 DEF QueueFits, InOrder
    <2>9. PICK b \in Nat : b = Len(device[t].got) /\ (Base(t))' = b
      BY <1>13, <1>15
    <2>10. n > b /\ n <= written'[t] /\ written'[t] \in Nat
      BY <1>0, <1>11, <2>4, <2>7, <2>9 DEF Types
    <2>11. n = b + 1
      <3> SUFFICES ASSUME n # b + 1
                   PROVE  FALSE
        OBVIOUS
      <3>1. b + 1 \in Nat /\ b + 1 > b /\ b + 1 <= written'[t] /\ b + 1 < n
        BY <2>10
      <3>2. PICK i \in (QueuedFor(t))' : txQueue'[i].n = b + 1
        BY <2>7, <2>9, <3>1
      <3> QED BY <1>11, <2>4, <2>8, <3>1, <3>2
    <2> QED BY <2>1, <2>3, <2>4, <2>6, <2>9, <2>11
  <1>19. PICK new : /\ Moves(toDevice, toDevice', 0, new)
                    /\ rest = <<>> => new = {}
                    /\ \A m \in new : m.cmd = "WRTE" /\ m.s = rest[1].s /\ m.n = rest[1].n
    <2>1. CASE rest = <<>>
      <3>1. toDevice' = toDevice
        BY <1>0, <1>11, <2>1, NothingSent
      <3>2. PICK new : new = {}
        OBVIOUS
      <3>3. Moves(toDevice, toDevice', 0, new)
        BY <1>0, <3>1, <3>2, PipeStays DEF Types
      <3> QED BY <3>2, <3>3
    <2>2. CASE rest # <<>>
      <3>1. rest[1] \in Entries /\ Head(rest) = rest[1]
        BY <1>18, <2>2
      <3>2. "WRTE" \in Commands /\ rest[1].s \in Nat /\ rest[1].n \in Nat
        BY <3>1, AdbAssumption DEF Commands, Entries, Streams
      <3>3. PICK m \in Messages : m = Msg("WRTE", rest[1].s, rest[1].n) /\ m.cmd = "WRTE" /\ m.s = rest[1].s /\ m.n = rest[1].n
        <4>1. /\ Msg("WRTE", rest[1].s, rest[1].n) \in Messages /\ Msg("WRTE", rest[1].s, rest[1].n).cmd = "WRTE"
              /\ Msg("WRTE", rest[1].s, rest[1].n).s = rest[1].s /\ Msg("WRTE", rest[1].s, rest[1].n).n = rest[1].n
          BY <3>2, MessageType
        <4> QED BY <4>1, Zenon
      <3>4. Sent(<<m>>)
        BY <1>11, <2>2, <3>1, <3>3 DEF Wrte
      <3>5. \E new : Moves(toDevice, toDevice', 0, new) /\ new \subseteq {m}
        BY <1>0, <3>4, SentMoves
      <3> QED BY <2>2, <3>3, <3>5
    <2> QED BY <2>1, <2>2
  <1>20. StreamsMove
    BY <1>11 DEF StreamsMove
  <1>21. ToDeviceFits'
    <2>1. ASSUME NEW t \in Streams, Untouched(t)
          PROVE  (Untouched(t))' /\ \A m \in new : m.s # t
      <3>1. \A j \in DOMAIN toHost' : toHost'[j].s # t
        BY <1>1, <2>1 DEF Moves, Untouched
      <3>2. ASSUME NEW m \in new
            PROVE  m.s # t
        <4>1. stream[m.s] \in {"open", "closed"}
          BY <1>18, <1>19, <3>2
        <4> QED BY <2>1, <4>1 DEF Untouched
      <3> QED BY <1>11, <2>1, <3>1, <3>2 DEF Untouched
    <2>2. ASSUME NEW m \in new
          PROVE  MayFollow(m, 0)
      <3>1. rest # <<>> /\ m.cmd = "WRTE" /\ m.s = rest[1].s /\ m.n = rest[1].n
        BY <1>19, <2>2
      <3>2. m.s \in Streams
        BY <1>18, <3>1 DEF Entries
      <3> QED BY <1>11, <1>18, <3>1, <3>2 DEF MayFollow
    <2> QED BY <1>0, <1>19, <1>20, <2>1, <2>2, DeviceSideFits
  <1>22. ToHostFits'
    <2>1. \A t \in Streams : stream[t] = "pending" => stream'[t] = "pending"
      BY <1>11
    <2>2. \A m \in none : MayAnswer(m, 1)
      BY <1>1
    <2> QED BY <1>0, <1>1, <1>20, <2>1, <2>2, HostSideFits
  <1>23. FlightFits'
    <2>1. ASSUME NEW i \in Written'
          PROVE  /\ rest # <<>> /\ toDevice'[i] \in new /\ i \in Nat /\ \A j \in Written' : j <= i
      <3>1. i \in DOMAIN toDevice' /\ toDevice'[i].cmd = "WRTE"
        BY DEF Written
      <3>2. ~(i + 0 \in DOMAIN toDevice /\ toDevice'[i] = toDevice[i + 0])
        BY <1>5, <3>1 DEF Written
      <3> QED BY <1>19, <3>1, <3>2 DEF Moves, Written
    <2>2. \A i, j \in Written' : i = j
      BY <2>1
    <2>3. ASSUME NEW i \in Written'
          PROVE  (IsFirst(toDevice[i]))'
      <3>1. PICK m \in new : m = toDevice'[i]
        BY <2>1
      <3>2. rest # <<>> /\ Head(rest).s = m.s /\ Head(rest).n = m.n
        BY <1>18, <1>19, <2>1
      <3> QED BY <1>11, <3>1, <3>2 DEF IsFirst
    <2>4. ~txPending' => Written' = {} /\ txQueue' = <<>>
      BY <1>11, <2>1
    <2> QED BY <1>14, <2>2, <2>3, <2>4 DEF FlightFits, OneWriteInFlight
  <1>24. /\ resolved' \in [Streams -> Nat]
         /\ \A t \in Streams : resolved'[t] <= Len(device[t].got)
    <2>1. CASE q[1].promise
      <3>1. resolved' = [resolved EXCEPT ![s] = q[1].n] /\ resolved \in [Streams -> Nat]
        BY <1>0, <1>11, <2>1 DEF Types
      <3>2. resolved' \in [Streams -> Nat] /\ resolved'[s] = q[1].n
        BY <1>3, <1>9, <3>1
      <3>3. \A t \in Streams : t # s => resolved'[t] = resolved[t]
        BY <3>1
      <3>4. q[1].n <= Len(device[s].got)
        BY <1>9
      <3> QED BY <1>0, <3>2, <3>3, <3>4 DEF DeviceFits
    <2>2. CASE ~q[1].promise
      BY <1>0, <1>11, <2>2 DEF DeviceFits, Types
    <2> QED BY <2>1, <2>2
  <1>25. DeviceFits'
    <2> SUFFICES ASSUME NEW t \in Streams
                 PROVE  /\ device'[t].open => stream'[t] # "none"
                        /\ (Unopened(t))'
                        /\ device'[t].got = [i \in 1 .. Len(device'[t].got) |-> i]
                        /\ resolved'[t] <= Len(device'[t].got)
      BY DEF DeviceFits
    <2>1. /\ device[t].open => stream[t] # "none"
          /\ Unopened(t) /\ device[t].got = [i \in 1 .. Len(device[t].got) |-> i]
      BY <1>0 DEF DeviceFits
    <2>2. QueuedFor(t) = {} => (QueuedFor(t))' = {}
      BY <1>12
    <2> QED BY <1>11, <1>24, <2>1, <2>2 DEF Unopened
  <1>26. Types'
    <2>1. toHost' \in Seq(Messages) /\ toDevice' \in Seq(Messages)
      BY <1>1, <1>19 DEF Moves
    <2>2. txPending' \in BOOLEAN
      BY <1>11
    <2> QED BY <1>0, <1>8, <1>11, <1>24, <2>1, <2>2 DEF Types
  <1>27. Quiet'
    <2>1. \A t \in Streams : stream[t] = "none" => stream'[t] = "none"
      BY <1>11
    <2> QED BY <1>0, <1>11, <2>1, QuietKept
  <1> QED BY <1>17, <1>21, <1>22, <1>23, <1>25, <1>26, <1>27 DEF AdbInv

\* One round of usbRxLoopInner().
LEMMA RxLoopStep ==
  ASSUME AdbInv, RxLoop
  PROVE  AdbInv'
  <1>0. Types /\ Quiet /\ DeviceFits /\ ToDeviceFits /\ ToHostFits /\ FlightFits /\ QueueFits
    BY DEF AdbInv
  <1>1. /\ rx = Recv /\ toHost # <<>> /\ toHost' = Tail(toHost)
        /\ UNCHANGED <<phase, lastStreamId, plugged, device>>
    BY DEF RxLoop, conn
  <1>2. rx # None /\ connected /\ phase = "connected" /\ plugged
    <2>1. rx # None
      BY <1>1, AdbAssumption DEF Recv
    <2> QED BY <1>0, <1>1, <2>1 DEF Quiet
  <1>3. 1 \in DOMAIN toHost /\ Head(toHost) = toHost[1] /\ toHost[1] \in Messages
    BY <1>0, <1>1, PipeShrinks DEF Types
  <1>4. PICK s, c : s = toHost[1].s /\ c = toHost[1].cmd
    OBVIOUS
  <1>5. c \in {"OKAY", "WRTE", "CLSE"} => s \in Streams /\ stream[s] # "none"
    BY <1>0, <1>2, <1>3, <1>4 DEF ToHostFits, Handshake
  <1>6. \/ c = "OKAY" /\ OnOkay(s)
        \/ c = "WRTE" /\ OnWrte(s)
        \/ c = "CLSE" /\ OnClse(s)
        \/ c \notin {"OKAY", "WRTE", "CLSE"} /\ RxKeeps /\ UNCHANGED <<stream, tx, toDevice>>
    BY <1>3, <1>4 DEF RxLoop, Received
  <1>7. PICK none : none = {} /\ (UNCHANGED toDevice => Moves(toDevice, toDevice', 0, none))
    BY <1>0, PipeStays DEF Types
  <1>8. stream \in [Streams -> {"none", "pending", "refused", "open", "closed"}]
    BY <1>0 DEF Types
  <1>9. ASSUME UNCHANGED toDevice, connected' \in BOOLEAN, rx' # None => connected',
               stream' \in [Streams -> {"none", "pending", "refused", "open", "closed"}], RxMoves,
               c = "OKAY" /\ toHost[1].n > 0 => stream'[s] # "open" /\ QueuedFor(s) = {},
               UNCHANGED <<txQueue, txPending, written, resolved>>
        PROVE  AdbInv'
    <2>1. \A m \in none : m.cmd = "OKAY" /\ m.s \in Streams /\ stream[m.s] = "open" /\ stream'[m.s] = "open"
      BY <1>7
    <2>2. Moves(toDevice, toDevice', 0, none)
      BY <1>7, <1>9
    <2>3. ~plugged => toDevice' = <<>>
      BY <1>2
    <2>4. toHost[1].cmd = "OKAY" /\ toHost[1].n > 0 =>
             stream'[toHost[1].s] # "open" /\ QueuedFor(toHost[1].s) = {}
      BY <1>4, <1>9
    <2> QED BY <1>1, <1>2, <1>9, <2>1, <2>2, <2>3, <2>4, RxStep
  <1>10. CASE c = "OKAY" /\ OnOkay(s)
    <2>1. s \in Streams /\ stream[s] # "none"
      BY <1>5, <1>10
    <2>2. toHost[1].n > 0 => stream[s] \in {"open", "closed"}
      BY <1>0, <1>2, <1>3, <1>4, <1>10 DEF ToHostFits, Handshake
    <2>3. CASE stream[s] = "pending"
      <3>1. /\ stream' = [stream EXCEPT ![s] = "open"] /\ UNCHANGED <<connected, rx, toDevice>>
            /\ UNCHANGED <<txQueue, txPending, written, resolved>>
        BY <1>10, <2>3 DEF OnOkay, RxKeeps, tx
      <3>2. stream' \in [Streams -> {"none", "pending", "refused", "open", "closed"}] /\ RxMoves
        BY <1>4, <1>8, <2>1, <2>3, <3>1 DEF RxMoves
      <3>3. ~(toHost[1].n > 0)
        BY <2>2, <2>3
      <3>4. connected' \in BOOLEAN /\ (rx' # None => connected')
        BY <1>0, <1>2, <3>1 DEF Types
      <3> QED BY <1>9, <3>1, <3>2, <3>3, <3>4
    <2>4. CASE stream[s] # "pending" /\ QueuedFor(s) = {}
      <3>1. /\ rx' = None /\ connected' = FALSE /\ UNCHANGED <<stream, toDevice>>
            /\ UNCHANGED <<txQueue, txPending, written, resolved>>
        BY <1>10, <2>4 DEF OnOkay, RxLoopEnds, tx
      <3>2. ASSUME toHost[1].n > 0
            PROVE  stream[s] # "open"
        <4>1. 1 \in Acked
          BY <1>3, <1>4, <1>10, <3>2 DEF Acked
        <4>2. IsFirst(toHost[1])
          BY <1>0, <4>1 DEF FlightFits
        <4>3. ~(txQueue # <<>> /\ Head(txQueue).s = toHost[1].s)
          <5> SUFFICES ASSUME txQueue # <<>>, Head(txQueue).s = toHost[1].s
                       PROVE  FALSE
            OBVIOUS
          <5>1. PICK q \in Seq(Entries) : q = txQueue
            BY <1>0 DEF Types
          <5>2. Len(q) \in Nat /\ Len(q) # 0 /\ DOMAIN q = 1 .. Len(q)
            BY <5>1, LenProperties, EmptySeq
          <5>3. 1 \in DOMAIN q /\ Head(q) = q[1]
            BY <5>1, <5>2
          <5> QED BY <1>4, <2>4, <5>1, <5>3 DEF QueuedFor
        <4> QED BY <1>4, <4>2, <4>3 DEF IsFirst
      <3>3. RxMoves
        BY <3>1 DEF RxMoves
      <3> QED BY <1>8, <1>9, <2>4, <3>1, <3>2, <3>3
    <2>5. CASE stream[s] # "pending" /\ QueuedFor(s) # {}
      <3>1. toHost[1].cmd = "OKAY"
        BY <1>4, <1>10
      <3> QED BY <1>1, <1>2, <1>4, <1>10, <2>5, <3>1, PopStep
    <2> QED BY <2>3, <2>4, <2>5
  <1>11. CASE c = "WRTE" /\ OnWrte(s)
    <2>1. /\ UNCHANGED <<connected, stream, txQueue, txPending, written, resolved>> /\ RxMoves
          /\ stream' \in [Streams -> {"none", "pending", "refused", "open", "closed"}]
      BY <1>8, <1>11 DEF OnWrte, tx, RxMoves
    <2>2. connected' \in BOOLEAN /\ connected'
      BY <1>0, <1>2, <2>1 DEF Types
    <2>3. CASE stream[s] # "open"
      <3>1. UNCHANGED toDevice
        BY <1>11, <2>3 DEF OnWrte
      <3> QED BY <1>9, <1>11, <2>1, <2>2, <3>1
    <2>4. CASE stream[s] = "open"
      <3>1. Sent(<<Msg("OKAY", s, 0)>>)
        BY <1>11, <2>4 DEF OnWrte
      <3>2. PICK m \in Messages : m = Msg("OKAY", s, 0) /\ m.cmd = "OKAY" /\ m.s = s
        <4>1. "OKAY" \in Commands /\ 0 \in Nat /\ s \in Nat
          BY <1>5, <1>11, AdbAssumption DEF Commands, Streams
        <4>2. Msg("OKAY", s, 0) \in Messages /\ Msg("OKAY", s, 0).cmd = "OKAY" /\ Msg("OKAY", s, 0).s = s
          BY <4>1, MessageType
        <4> QED BY <4>2, Zenon
      <3>3. PICK new : Moves(toDevice, toDevice', 0, new) /\ new \subseteq {m}
        <4>1. Sent(<<m>>)
          BY <3>1, <3>2
        <4>2. \E new : Moves(toDevice, toDevice', 0, new) /\ new \subseteq {m}
          BY <1>0, <4>1, SentMoves
        <4> QED BY <4>2, Zenon
      <3>4. \A x \in new : x.cmd = "OKAY" /\ x.s \in Streams /\ stream[x.s] = "open" /\ stream'[x.s] = "open"
        BY <1>5, <1>11, <2>1, <2>4, <3>2, <3>3
      <3>5. toHost[1].cmd # "OKAY"
        BY <1>4, <1>11
      <3>6. UNCHANGED <<phase, lastStreamId, txQueue, txPending, written, resolved, plugged, device>>
        BY <1>1, <2>1
      <3> QED BY <1>1, <1>2, <2>1, <2>2, <3>3, <3>4, <3>5, <3>6, RxStep
    <2> QED BY <2>3, <2>4
  <1>12. CASE c = "CLSE" /\ OnClse(s)
    <2>1. /\ stream' = [stream EXCEPT ![s] =
                          IF @ = "pending" THEN "refused" ELSE IF @ = "open" THEN "closed" ELSE @]
          /\ UNCHANGED <<connected, rx, toDevice, txQueue, txPending, written, resolved>>
      BY <1>12 DEF OnClse, RxKeeps, tx
    <2>2. stream' \in [Streams -> {"none", "pending", "refused", "open", "closed"}] /\ RxMoves
      BY <1>4, <1>5, <1>8, <1>12, <2>1 DEF RxMoves
    <2>3. connected' \in BOOLEAN /\ (rx' # None => connected')
      BY <1>0, <1>2, <2>1 DEF Types
    <2> QED BY <1>9, <1>12, <2>1, <2>2, <2>3
  <1>13. CASE c \notin {"OKAY", "WRTE", "CLSE"} /\ RxKeeps /\ UNCHANGED <<stream, tx, toDevice>>
    <2>1. UNCHANGED <<connected, rx, stream, toDevice, txQueue, txPending, written, resolved>>
      BY <1>13 DEF RxKeeps, tx
    <2>2. RxMoves
      BY <2>1 DEF RxMoves
    <2>3. connected' \in BOOLEAN /\ (rx' # None => connected')
      BY <1>0, <1>2, <2>1 DEF Types
    <2> QED BY <1>8, <1>9, <1>13, <2>1, <2>2, <2>3
  <1> QED BY <1>6, <1>10, <1>11, <1>12, <1>13

-----------------------------------------------------------------------------
(***************************************************************************)
(* The device.                                                             *)
(***************************************************************************)
\* What the device may send on a stream without having taken a write.
MaySend(m, s) ==
    /\ m.s = s /\ ~(m.cmd = "OKAY" /\ m.n > 0)
    /\ m.cmd = "OKAY" => stream[s] = "pending" /\ \A i \in DOMAIN toHost : toHost[i].s # s

\* The device takes a message that is no write, or speaks on a stream that it
\* has open.
LEMMA DeviceStep ==
  ASSUME AdbInv, phase = "connected", plugged, NEW s \in Streams, stream[s] # "none",
         NEW d, NEW none, none = {}, Moves(toDevice, toDevice', d, none),
         IF d = 1 THEN toDevice[1].s = s ELSE ~Untouched(s),
         NEW r \in Sides, r.got = device[s].got, device' = [device EXCEPT ![s] = r],
         NEW new, Moves(toHost, toHost', 0, new), \A m \in new : MaySend(m, s) /\ m.n \in Nat,
         UNCHANGED <<phase, connected, rx, lastStreamId, stream, txQueue, txPending, written, resolved, plugged>>
  PROVE  AdbInv'
  <1>0. Types /\ Quiet /\ DeviceFits /\ ToDeviceFits /\ ToHostFits /\ FlightFits /\ QueueFits
    BY DEF AdbInv
  <1>1. /\ device' \in [Streams -> Sides] /\ device'[s] = r
        /\ \A t \in Streams : t # s => device'[t] = device[t]
    BY <1>0 DEF Types
  <1>2. \A t \in Streams : device'[t].got = device[t].got
    BY <1>1
  <1>3. \A t : (QueuedFor(t))' = QueuedFor(t)
    BY DEF QueuedFor
  <1>4. StreamsMove
    BY DEF StreamsMove
  <1>5. Types'
    <2>1. toHost' \in Seq(Messages) /\ toDevice' \in Seq(Messages)
      BY DEF Moves
    <2> QED BY <1>0, <1>1, <2>1 DEF Types
  <1>6. Quiet'
    BY <1>0, QuietKept DEF Quiet
  <1>7. DeviceFits'
    <2> SUFFICES ASSUME NEW t \in Streams
                 PROVE  /\ device'[t].open => stream'[t] # "none"
                        /\ (Unopened(t))'
                        /\ device'[t].got = [i \in 1 .. Len(device'[t].got) |-> i]
                        /\ resolved'[t] <= Len(device'[t].got)
      BY DEF DeviceFits
    <2>1. /\ device[t].open => stream[t] # "none"
          /\ Unopened(t) /\ device[t].got = [i \in 1 .. Len(device[t].got) |-> i]
          /\ resolved[t] <= Len(device[t].got)
      BY <1>0 DEF DeviceFits
    <2>2. device'[t].open => stream[t] # "none"
      BY <1>1, <2>1
    <2> QED BY <1>2, <1>3, <2>1, <2>2 DEF Unopened
  <1>8. ToDeviceFits'
    <2>1. ASSUME NEW t \in Streams, Untouched(t), d = 1 => toDevice[1].s # t
          PROVE  (Untouched(t))' /\ \A m \in none : m.s # t
      <3>1. t # s
        BY <2>1
      <3>2. \A j \in DOMAIN toHost' : toHost'[j].s # t
        BY <2>1, <3>1 DEF Moves, MaySend, Untouched
      <3> QED BY <1>1, <2>1, <3>1, <3>2 DEF Untouched
    <2>2. \A m \in none : MayFollow(m, d)
      OBVIOUS
    <2>3. \A i \in DOMAIN toDevice : i > d /\ toDevice[i].cmd = "WRTE" =>
             Len(device'[toDevice[i].s].got) = Len(device[toDevice[i].s].got)
      <3>1. \A i \in DOMAIN toDevice : toDevice[i].cmd = "WRTE" => toDevice[i].s \in Streams
        BY <1>0 DEF ToDeviceFits, Handshake
      <3> QED BY <1>2, <3>1
    <2> QED BY <1>0, <1>4, <2>1, <2>2, <2>3, DeviceSideFits
  <1>9. ToHostFits'
    <2>1. \A t \in Streams : stream[t] = "pending" => stream'[t] = "pending"
      OBVIOUS
    <2>2. \A m \in new : MayAnswer(m, 0)
      BY DEF MayAnswer, MaySend
    <2>3. \A i \in DOMAIN toHost : i > 0 /\ toHost[i].cmd = "OKAY" /\ toHost[i].n > 0 =>
             Len(device'[toHost[i].s].got) = Len(device[toHost[i].s].got)
      <3>1. \A i \in DOMAIN toHost : toHost[i].cmd = "OKAY" => toHost[i].s \in Streams
        BY <1>0 DEF ToHostFits, Handshake
      <3> QED BY <1>2, <3>1
    <2> QED BY <1>0, <1>4, <2>1, <2>2, <2>3, HostSideFits
  <1>10. FlightFits'
    <2>1. \A m \in Messages : m.s \in Streams /\ IsFirst(m) => (IsFirst(m))'
      BY FirstKept
    <2>2. (\A m \in none : m.cmd # "WRTE") /\ (\A m \in new : ~(m.cmd = "OKAY" /\ m.n > 0))
      BY DEF MaySend
    <2>3. ~txPending' => ~txPending /\ txQueue' = <<>>
      BY <1>0 DEF FlightFits, OneWriteInFlight
    <2> QED BY <1>0, <2>1, <2>2, <2>3, FlightKept
  <1>11. QueueFits'
    <2>1. ASSUME NEW t \in Streams
          PROVE  (Base(t))' = Base(t)
      <3>1. \A m \in new : ~(m.cmd = "OKAY" /\ m.n > 0 /\ m.s = t)
        BY DEF MaySend
      <3> QED BY <1>0, <1>2, <3>1, BaseKept
    <2> QED BY <1>0, <2>1, QueueKept
  <1> QED BY <1>5, <1>6, <1>7, <1>8, <1>9, <1>10, <1>11 DEF AdbInv

\* The chunks 1 to n, in order.
CountsTo(q, n) ==
    /\ q \in Seq(Nat) /\ Len(q) = n
    /\ q = [i \in 1 .. n |-> i]

\* They stay in order when the next one comes.
LEMMA CountsOn ==
  ASSUME NEW q \in Seq(Nat), NEW n \in Nat, n = Len(q), q = [i \in 1 .. n |-> i]
  PROVE  CountsTo(Append(q, n + 1), n + 1)
  <1>1. n + 1 \in Nat
    OBVIOUS
  <1>2. PICK p : p = Append(q, n + 1)
    OBVIOUS
  <1>3. /\ p \in Seq(Nat) /\ Len(p) = n + 1
        /\ \A i \in 1 .. n : p[i] = q[i]
        /\ p[n + 1] = n + 1
    BY <1>1, <1>2, AppendProperties
  <1>4. \A i \in 1 .. n : p[i] = i
    BY <1>3
  <1>5. \A i \in 1 .. n + 1 : p[i] = i
    BY <1>3, <1>4
  <1>6. DOMAIN p = 1 .. n + 1 /\ p = [i \in DOMAIN p |-> p[i]]
    BY <1>3, LenProperties
  <1>7. p = [i \in 1 .. n + 1 |-> i]
    BY <1>5, <1>6
  <1> QED BY <1>2, <1>3, <1>7 DEF CountsTo

\* The device takes a write on a stream that it has open.
LEMMA TakeStep ==
  ASSUME AdbInv, phase = "connected", plugged, toDevice # <<>>, toDevice' = Tail(toDevice),
         toDevice[1].cmd = "WRTE", NEW s, s = toDevice[1].s, NEW n, n = toDevice[1].n, device[s].open,
         device' = [device EXCEPT ![s] = [device[s] EXCEPT !.got = Append(@, n)]],
         toHost' = toHost \o <<Msg("OKAY", s, n)>>,
         UNCHANGED <<phase, connected, rx, lastStreamId, stream, txQueue, txPending, written, resolved, plugged>>
  PROVE  AdbInv'
  <1>0. Types /\ Quiet /\ DeviceFits /\ ToDeviceFits /\ ToHostFits /\ FlightFits /\ QueueFits
    BY DEF AdbInv
  <1>1. PICK none : none = {} /\ Moves(toDevice, toDevice', 1, none)
    BY <1>0, PipeShrinks DEF Types
  <1>2. 1 \in DOMAIN toDevice /\ toDevice[1] \in Messages
    BY <1>0, PipeShrinks DEF Types
  <1>3. s \in Streams /\ stream[s] \in {"open", "closed"} /\ n = Len(device[s].got) + 1
    BY <1>0, <1>2 DEF ToDeviceFits, Handshake
  <1>4. 1 \in Written
    BY <1>2 DEF Written
  <1>5. txPending /\ Acked = {} /\ \A i \in Written : i = 1
    BY <1>0, <1>4 DEF FlightFits, OneWriteInFlight
  <1>6. PICK got \in Seq(Nat), L \in Nat : got = device[s].got /\ L = Len(got)
    <2>1. device[s].got \in Seq(Nat)
      BY <1>0, <1>3 DEF Types, Sides
    <2>2. Len(device[s].got) \in Nat
      BY <2>1, LenProperties
    <2> QED BY <2>1, <2>2
  <1>7. PICK more \in Seq(Nat) : /\ more = Append(got, n) /\ Len(more) = L + 1
                                /\ more = [i \in 1 .. L + 1 |-> i]
    <2>1. n = L + 1
      BY <1>3, <1>6
    <2>2. got = [i \in 1 .. L |-> i]
      BY <1>0, <1>3, <1>6 DEF DeviceFits
    <2>3. CountsTo(Append(got, L + 1), L + 1)
      BY <1>6, <2>2, CountsOn
    <2> QED BY <2>1, <2>3 DEF CountsTo
  <1>8. PICK r : r = [device[s] EXCEPT !.got = Append(@, n)]
    OBVIOUS
  <1>9. r \in Sides /\ r.got = more /\ r.open
    <2>1. device[s] \in Sides
      BY <1>0, <1>3 DEF Types
    <2> QED BY <1>6, <1>7, <1>8, <2>1 DEF Sides
  <1>10. /\ device' \in [Streams -> Sides] /\ device'[s] = r
         /\ \A t \in Streams : t # s => device'[t] = device[t]
    BY <1>0, <1>3, <1>8, <1>9 DEF Types
  <1>a. n = L + 1 /\ n \in Nat /\ n > 0
    BY <1>3, <1>6
  <1>b. device'[s].got = more /\ Len(more) = L + 1 /\ Len(device'[s].got) = n
    <2>1. device'[s].got = more
      BY <1>9, <1>10
    <2>2. Len(more) = L + 1
      BY <1>7
    <2> QED BY <1>a, <2>1, <2>2
  <1>11. PICK m \in Messages : m = Msg("OKAY", s, n) /\ m.cmd = "OKAY" /\ m.s = s /\ m.n = n
    <2>1. "OKAY" \in Commands /\ n \in Nat /\ s \in Nat
      BY <1>3, <1>a, AdbAssumption DEF Commands, Streams
    <2>2. Msg("OKAY", s, n) \in Messages /\ Msg("OKAY", s, n).cmd = "OKAY" /\ Msg("OKAY", s, n).s = s /\ Msg("OKAY", s, n).n = n
      BY <2>1, MessageType
    <2> QED BY <2>2, Zenon
  <1>12. PICK new : new = {m} /\ Moves(toHost, toHost', 0, new)
    BY <1>0, <1>11, PipeGrows DEF Types
  <1>13. \A t : (QueuedFor(t))' = QueuedFor(t)
    BY DEF QueuedFor
  <1>14. StreamsMove
    BY DEF StreamsMove
  <1>15. Types'
    <2>1. toHost' \in Seq(Messages) /\ toDevice' \in Seq(Messages)
      BY <1>1, <1>12 DEF Moves
    <2> QED BY <1>0, <1>10, <2>1 DEF Types
  <1>16. Quiet'
    BY <1>0, QuietKept DEF Quiet
  <1>17. DeviceFits'
    <2> SUFFICES ASSUME NEW t \in Streams
                 PROVE  /\ device'[t].open => stream'[t] # "none"
                        /\ (Unopened(t))'
                        /\ device'[t].got = [i \in 1 .. Len(device'[t].got) |-> i]
                        /\ resolved'[t] <= Len(device'[t].got)
      BY DEF DeviceFits
    <2>1. /\ device[t].open => stream[t] # "none"
          /\ Unopened(t) /\ device[t].got = [i \in 1 .. Len(device[t].got) |-> i]
          /\ resolved[t] <= Len(device[t].got) /\ resolved[t] \in Nat
      BY <1>0 DEF DeviceFits, Types
    <2>2. CASE t # s
      BY <1>10, <1>13, <2>1, <2>2 DEF Unopened
    <2>3. CASE t = s
      <3>1. resolved'[s] <= Len(device'[s].got)
        <4>1. resolved[s] <= L
          BY <1>6, <2>1, <2>3
        <4>2. resolved'[s] = resolved[s]
          OBVIOUS
        <4> QED BY <1>a, <1>b, <2>1, <2>3, <4>1, <4>2
      <3>2. device'[s].got = [i \in 1 .. Len(device'[s].got) |-> i]
        <4>1. more = [i \in 1 .. Len(more) |-> i]
          BY <1>7
        <4> QED BY <1>b, <4>1
      <3>3. (Unopened(s))' /\ stream'[s] # "none"
        BY <1>3 DEF Unopened
      <3> QED BY <2>3, <3>1, <3>2, <3>3, Zenon
    <2> QED BY <2>2, <2>3
  <1>18. ToDeviceFits'
    <2>1. ASSUME NEW t \in Streams, Untouched(t), toDevice[1].s # t
          PROVE  (Untouched(t))' /\ \A x \in none : x.s # t
      <3>1. \A j \in DOMAIN toHost' : toHost'[j].s # t
        BY <1>11, <1>12, <2>1 DEF Moves, Untouched
      <3> QED BY <1>1, <1>10, <2>1, <3>1 DEF Untouched
    <2>2. \A x \in none : MayFollow(x, 1)
      BY <1>1
    <2>3. \A i \in DOMAIN toDevice : i > 1 => toDevice[i].cmd # "WRTE"
      <3>1. \A i \in DOMAIN toDevice : i \in Nat
        BY <1>1 DEF Moves
      <3> QED BY <1>5, <3>1 DEF Written
    <2> QED BY <1>0, <1>1, <1>14, <2>1, <2>2, <2>3, DeviceSideFits
  <1>19. ToHostFits'
    <2>1. \A t \in Streams : stream[t] = "pending" => stream'[t] = "pending"
      OBVIOUS
    <2>2. n > 0 /\ n = Len(device'[s].got)
      BY <1>a, <1>b
    <2>3. \A x \in new : MayAnswer(x, 0)
      <3>1. stream'[s] \in {"open", "closed"} /\ n # 0
        BY <1>3, <1>a
      <3>2. MayAnswer(m, 0)
        BY <1>3, <1>11, <2>2, <3>1 DEF MayAnswer
      <3> QED BY <1>12, <3>2
    <2>4. \A i \in DOMAIN toHost : ~(toHost[i].cmd = "OKAY" /\ toHost[i].n > 0)
      BY <1>5 DEF Acked
    <2> QED BY <1>0, <1>12, <1>14, <2>1, <2>3, <2>4, HostSideFits
  <1>20. Written' = {}
    <2> SUFFICES ASSUME NEW i \in Written'
                 PROVE  FALSE
      OBVIOUS
    <2>1. i \in DOMAIN toDevice' /\ toDevice'[i].cmd = "WRTE"
      BY DEF Written
    <2>2. i + 1 \in DOMAIN toDevice /\ toDevice'[i] = toDevice[i + 1] /\ i \in Nat /\ i >= 1
      BY <1>1, <2>1 DEF Moves
    <2>3. i + 1 \in Written
      BY <2>1, <2>2 DEF Written
    <2> QED BY <1>5, <2>2, <2>3
  <1>21. ASSUME NEW i \in Acked'
         PROVE  toHost'[i] = m /\ i \in Nat /\ \A j \in Acked' : j <= i
    <2>1. i \in DOMAIN toHost' /\ toHost'[i].cmd = "OKAY" /\ toHost'[i].n > 0
      BY DEF Acked
    <2>2. ~(i + 0 \in DOMAIN toHost /\ toHost'[i] = toHost[i + 0])
      BY <1>5, <2>1 DEF Acked
    <2> QED BY <1>12, <2>1, <2>2 DEF Moves, Acked
  <1>22. FlightFits'
    <2>1. \A i, j \in Acked' : i = j
      BY <1>21
    <2>2. (IsFirst(m))'
      <3>1. IsFirst(toDevice[1])
        BY <1>0, <1>4 DEF FlightFits
      <3> QED BY <1>11, <1>13, <3>1 DEF IsFirst
    <2>3. \A i \in Acked' : (IsFirst(toHost[i]))'
      BY <1>21, <2>2 DEF IsFirst
    <2> QED BY <1>5, <1>20, <2>1, <2>3 DEF FlightFits, OneWriteInFlight
  <1>23. QueueFits'
    <2>1. ASSUME NEW t \in Streams
          PROVE  (Base(t))' = Base(t)
      <3>1. CASE t # s
        <4>1. \A x \in new : ~(x.cmd = "OKAY" /\ x.n > 0 /\ x.s = t)
          BY <1>11, <1>12, <3>1
        <4>2. device'[t].got = device[t].got
          BY <1>10, <3>1
        <4>3. Types /\ Moves(toHost, toHost', 0, new)
          BY <1>0, <1>12
        <4>4. 0 = 1 => ~(toHost[1].cmd = "OKAY" /\ toHost[1].n > 0 /\ toHost[1].s = t)
          OBVIOUS
        <4> QED BY <4>1, <4>2, <4>3, <4>4, BaseKept, Zenon
      <3>2. CASE t = s
        <4>1. Base(s) = L
          BY <1>5, <1>6 DEF Base
        <4>2. PICK k \in DOMAIN toHost' : toHost'[k] = m
          <5>1. PICK q \in Seq(Messages) : q = toHost
            BY <1>0 DEF Types
          <5>2. q \o <<m>> = Append(q, m) /\ toHost' = Append(q, m)
            BY <1>11, <5>1, AppendIsConcat
          <5>3. Len(q) \in Nat
            BY <5>1, LenProperties
          <5>4. Len(q) + 1 \in DOMAIN toHost' /\ toHost'[Len(q) + 1] = m
            BY <5>1, <5>2, <5>3, AppendProperties, LenProperties
          <5> QED BY <5>4
        <4>3. k \in Acked' /\ toHost'[k].s = s
          BY <1>a, <1>11, <4>2 DEF Acked
        <4>4. (Base(s))' = Len(device'[s].got) - 1
          BY <4>3 DEF Base
        <4> QED BY <1>a, <1>b, <3>2, <4>1, <4>4
      <3> QED BY <3>1, <3>2
    <2> QED BY <1>0, <2>1, QueueKept
  <1> QED BY <1>15, <1>16, <1>17, <1>18, <1>19, <1>22, <1>23 DEF AdbInv

\* The device answers a message of the handshake.
LEMMA HandshakeStep ==
  ASSUME AdbInv, plugged, toDevice # <<>>, toDevice' = Tail(toDevice),
         NEW reply \in {"CNXN", "AUTH"}, toHost' = toHost \o <<Msg(reply, 0, 0)>>,
         UNCHANGED <<phase, connected, rx, lastStreamId, stream, txQueue, txPending, written, resolved,
                     plugged, device>>
  PROVE  AdbInv'
  <1>0. Types /\ Quiet /\ DeviceFits /\ ToDeviceFits /\ ToHostFits /\ FlightFits /\ QueueFits
    BY DEF AdbInv
  <1>1. PICK none : none = {} /\ Moves(toDevice, toDevice', 1, none)
    BY <1>0, PipeShrinks DEF Types
  <1>2. PICK m \in Messages : m = Msg(reply, 0, 0) /\ m.cmd = reply /\ m.s = 0
    <2>1. reply \in Commands /\ 0 \in Nat
      BY DEF Commands, Handshake
    <2>2. Msg(reply, 0, 0) \in Messages /\ Msg(reply, 0, 0).cmd = reply /\ Msg(reply, 0, 0).s = 0
      BY <2>1, MessageType
    <2> QED BY <2>2, Zenon
  <1>3. PICK new : new = {m} /\ Moves(toHost, toHost', 0, new)
    BY <1>0, <1>2, PipeGrows DEF Types
  <1>4. \A x \in new : x.cmd \in {"CNXN", "AUTH"} /\ x.s = 0 /\ x.s \notin Streams
    BY <1>2, <1>3, AdbAssumption DEF Streams
  <1>5. \A i \in DOMAIN toHost' : \/ i \in DOMAIN toHost /\ toHost'[i] = toHost[i]
                                  \/ toHost'[i] \in new
    <2>1. \A i \in DOMAIN toHost' : i \in Nat
      BY <1>3 DEF Moves
    <2> QED BY <1>3, <2>1 DEF Moves
  <1>6. \A t : (QueuedFor(t))' = QueuedFor(t)
    BY DEF QueuedFor
  <1>7. StreamsMove
    BY DEF StreamsMove
  <1>8. Types'
    <2>1. toHost' \in Seq(Messages) /\ toDevice' \in Seq(Messages)
      BY <1>1, <1>3 DEF Moves
    <2> QED BY <1>0, <2>1 DEF Types
  <1>9. Quiet'
    <2>1. ASSUME phase # "connected"
          PROVE  /\ \A i \in DOMAIN toHost' : i = 1 \/ (toHost'[i].cmd \in Handshake /\ toHost'[i].s = 0)
                 /\ \A i \in Acked' : FALSE
      <3>1. \A i \in DOMAIN toHost : i = 1 \/ (toHost[i].cmd \in Handshake /\ toHost[i].s = 0)
        BY <1>0, <2>1 DEF Quiet
      <3>2. \A i \in DOMAIN toHost : ~(toHost[i].cmd = "OKAY" /\ toHost[i].n > 0)
        BY <1>0, <2>1 DEF Quiet, Acked
      <3> QED BY <1>4, <1>5, <3>1, <3>2 DEF Handshake, Acked
    <2>2. ~plugged' => toDevice' = <<>> /\ toHost' = <<>>
      OBVIOUS
    <2> QED BY <1>0, <2>1, <2>2 DEF Quiet
  <1>10. DeviceFits'
    BY <1>0, DeviceKept
  <1>11. ToDeviceFits'
    <2>1. ASSUME NEW t \in Streams, Untouched(t)
          PROVE  (Untouched(t))' /\ \A x \in none : x.s # t
      <3>1. \A j \in DOMAIN toHost' : toHost'[j].s # t
        BY <1>4, <1>5, <2>1 DEF Untouched
      <3> QED BY <1>1, <2>1, <3>1 DEF Untouched
    <2>2. \A x \in none : MayFollow(x, 1)
      BY <1>1
    <2> QED BY <1>0, <1>1, <1>7, <2>1, <2>2, DeviceSideFits
  <1>12. ToHostFits'
    <2>1. CASE phase = "connected"
      <3>1. \A t \in Streams : stream[t] = "pending" => stream'[t] = "pending"
        OBVIOUS
      <3>2. \A x \in new : MayAnswer(x, 0)
        BY <1>4 DEF MayAnswer, Handshake
      <3> QED BY <1>0, <1>3, <1>7, <2>1, <3>1, <3>2, HostSideFits
    <2>2. CASE phase # "connected"
      BY <2>2 DEF ToHostFits
    <2> QED BY <2>1, <2>2
  <1>13. FlightFits'
    <2>1. \A x \in Messages : x.s \in Streams /\ IsFirst(x) => (IsFirst(x))'
      BY FirstKept
    <2>2. (\A x \in none : x.cmd # "WRTE") /\ (\A x \in new : ~(x.cmd = "OKAY" /\ x.n > 0))
      BY <1>1, <1>4
    <2>3. ~txPending' => ~txPending /\ txQueue' = <<>>
      BY <1>0 DEF FlightFits, OneWriteInFlight
    <2> QED BY <1>0, <1>1, <1>3, <2>1, <2>2, <2>3, FlightKept
  <1>14. QueueFits'
    <2>1. ASSUME NEW t \in Streams
          PROVE  (Base(t))' = Base(t)
      <3>1. \A x \in new : ~(x.cmd = "OKAY" /\ x.n > 0 /\ x.s = t)
        BY <1>4
      <3> QED BY <1>0, <1>3, <3>1, BaseKept
    <2> QED BY <1>0, <2>1, QueueKept
  <1> QED BY <1>8, <1>9, <1>10, <1>11, <1>12, <1>13, <1>14 DEF AdbInv

\* adbd takes the first message.
LEMMA DeviceHandlesStep ==
  ASSUME AdbInv, DeviceHandles
  PROVE  AdbInv'
  <1>0. Types /\ Quiet /\ DeviceFits /\ ToDeviceFits /\ ToHostFits
    BY DEF AdbInv
  <1>1. /\ toDevice # <<>> /\ toDevice' = Tail(toDevice)
        /\ UNCHANGED <<phase, connected, rx, lastStreamId, stream, txQueue, txPending, written, resolved, plugged>>
    BY DEF DeviceHandles, conn, tx
  <1>2. PICK none : none = {} /\ Moves(toDevice, toDevice', 1, none)
    BY <1>0, <1>1, PipeShrinks DEF Types
  <1>3. 1 \in DOMAIN toDevice /\ Head(toDevice) = toDevice[1] /\ toDevice[1] \in Messages
    BY <1>0, <1>1, PipeShrinks DEF Types
  <1>4. plugged
    BY <1>0, <1>1 DEF Quiet
  <1>5. PICK m \in Messages : m = toDevice[1]
    BY <1>3
  <1>6. CASE m.cmd \in Handshake
    <2>1. PICK reply \in {"CNXN", "AUTH"} : toHost' = toHost \o <<Msg(reply, 0, 0)>> /\ UNCHANGED device
      BY <1>3, <1>5, <1>6 DEF DeviceHandles, DeviceSends, Handshake
    <2> QED BY <1>1, <1>4, <2>1, HandshakeStep
  <1>7. CASE m.cmd \notin Handshake
    <2>1. PICK s : s = m.s
      OBVIOUS
    <2>2. /\ s \in Streams /\ stream[s] # "none" /\ toDevice[1].s = s
          /\ m.cmd = "OPEN" => stream[s] = "pending" /\ \A j \in DOMAIN toHost : toHost[j].s # s
      BY <1>0, <1>3, <1>5, <1>7, <2>1 DEF ToDeviceFits
    <2>3. phase = "connected"
      BY <1>0, <2>2 DEF Quiet
    <2>4. PICK me \in Sides : me = device[s]
      BY <1>0, <2>2 DEF Types
    <2>5. device = [device EXCEPT ![s] = me] /\ toHost \in Seq(Messages)
      BY <1>0, <2>2, <2>4 DEF Types
    <2>6. \/ /\ m.cmd = "OPEN"
             /\ \/ device' = [device EXCEPT ![s] = [me EXCEPT !.open = TRUE]] /\ toHost' = toHost \o <<Msg("OKAY", s, 0)>>
                \/ device' = device /\ toHost' = toHost \o <<Msg("CLSE", s, 0)>>
          \/ /\ m.cmd = "WRTE" /\ me.open
             /\ device' = [device EXCEPT ![s] = [me EXCEPT !.got = Append(@, m.n)]]
             /\ toHost' = toHost \o <<Msg("OKAY", s, m.n)>>
          \/ m.cmd = "WRTE" /\ ~me.open /\ device' = device /\ toHost' = toHost
          \/ m.cmd = "OKAY" /\ device' = [device EXCEPT ![s] = [me EXCEPT !.unacked = FALSE]] /\ toHost' = toHost
          \/ /\ m.cmd = "CLSE"
             /\ device' = [device EXCEPT ![s] = [me EXCEPT !.open = FALSE]]
             /\ toHost' = toHost \o (IF me.open THEN <<Msg("CLSE", s, 0)>> ELSE <<>>)
      BY <1>3, <1>5, <1>7, <2>1, <2>4 DEF DeviceHandles, DeviceSends, OnDevice, Handshake
    <2>7. ASSUME NEW r \in Sides, r.got = me.got, device' = [device EXCEPT ![s] = r],
                 NEW new, Moves(toHost, toHost', 0, new), \A x \in new : MaySend(x, s) /\ x.n \in Nat
          PROVE  AdbInv'
      <3>1. IF 1 = 1 THEN toDevice[1].s = s ELSE ~Untouched(s)
        BY <2>2
      <3>2. r.got = device[s].got
        BY <2>4, <2>7
      <3> QED BY <1>1, <1>2, <1>4, <2>2, <2>3, <2>7, <3>1, <3>2, DeviceStep
    <2>8. ASSUME NEW r \in Sides, r.got = me.got, device' = [device EXCEPT ![s] = r], toHost' = toHost
          PROVE  AdbInv'
      <3>1. PICK new : new = {} /\ Moves(toHost, toHost', 0, new)
        BY <2>5, <2>8, PipeStays
      <3>2. \A x \in new : MaySend(x, s) /\ x.n \in Nat
        BY <3>1
      <3> QED BY <2>7, <2>8, <3>1, <3>2
    <2>9. ASSUME NEW r \in Sides, r.got = me.got, device' = [device EXCEPT ![s] = r],
                 NEW c \in {"OKAY", "CLSE"}, c = "OKAY" => m.cmd = "OPEN", toHost' = toHost \o <<Msg(c, s, 0)>>
          PROVE  AdbInv'
      <3>1. c \in Commands /\ 0 \in Nat /\ s \in Nat
        BY <2>2, AdbAssumption DEF Commands, Streams
      <3>2. PICK x \in Messages : x = Msg(c, s, 0) /\ x.cmd = c /\ x.s = s /\ x.n = 0
        <4>1. Msg(c, s, 0) \in Messages /\ Msg(c, s, 0).cmd = c /\ Msg(c, s, 0).s = s /\ Msg(c, s, 0).n = 0
          BY <3>1, MessageType
        <4> QED BY <4>1, Zenon
      <3>3. PICK new : new = {x} /\ Moves(toHost, toHost', 0, new)
        BY <2>5, <2>9, <3>2, PipeGrows
      <3>4. \A y \in new : MaySend(y, s) /\ y.n \in Nat
        BY <2>2, <2>9, <3>2, <3>3 DEF MaySend
      <3> QED BY <2>7, <2>9, <3>3, <3>4
    <2>10. CASE m.cmd = "OPEN"
      <3>1. PICK r \in Sides : r = [me EXCEPT !.open = TRUE] /\ r.got = me.got
        <4>1. PICK r : r = [me EXCEPT !.open = TRUE]
          OBVIOUS
        <4>2. r \in Sides /\ r.got = me.got
          BY <4>1 DEF Sides
        <4> QED BY <4>1, <4>2
      <3> QED BY <2>5, <2>6, <2>9, <2>10, <3>1
    <2>11. CASE m.cmd = "WRTE" /\ me.open
      <3>1. /\ device' = [device EXCEPT ![s] = [device[s] EXCEPT !.got = Append(@, m.n)]] /\ device[s].open
            /\ toHost' = toHost \o <<Msg("OKAY", s, m.n)>>
        BY <2>4, <2>6, <2>11
      <3>2. toDevice[1].cmd = "WRTE" /\ m.n = toDevice[1].n /\ s = toDevice[1].s
        BY <1>5, <2>1, <2>11
      <3> QED BY <1>1, <1>4, <2>3, <3>1, <3>2, TakeStep
    <2>12. CASE m.cmd = "WRTE" /\ ~me.open
      BY <2>5, <2>6, <2>8, <2>12
    <2>13. CASE m.cmd = "OKAY"
      <3>1. PICK r \in Sides : r = [me EXCEPT !.unacked = FALSE] /\ r.got = me.got
        <4>1. PICK r : r = [me EXCEPT !.unacked = FALSE]
          OBVIOUS
        <4>2. r \in Sides /\ r.got = me.got
          BY <4>1 DEF Sides
        <4> QED BY <4>1, <4>2
      <3> QED BY <2>6, <2>8, <2>13, <3>1
    <2>14. CASE m.cmd = "CLSE"
      <3>1. PICK r \in Sides : r = [me EXCEPT !.open = FALSE] /\ r.got = me.got
        <4>1. PICK r : r = [me EXCEPT !.open = FALSE]
          OBVIOUS
        <4>2. r \in Sides /\ r.got = me.got
          BY <4>1 DEF Sides
        <4> QED BY <4>1, <4>2
      <3>2. CASE me.open
        BY <2>6, <2>9, <2>14, <3>1, <3>2
      <3>3. CASE ~me.open
        <4>1. toHost' = toHost
          BY <2>5, <2>6, <2>14, <3>3, ConcatEmptySeq
        <4> QED BY <2>6, <2>8, <2>14, <3>1, <4>1
      <3> QED BY <3>2, <3>3
    <2> QED BY <2>6, <2>10, <2>11, <2>12, <2>13, <2>14
  <1> QED BY <1>6, <1>7

\* adbd sends data, or a process exits, on a stream that is open on its side.
LEMMA DeviceSpeaksStep ==
  ASSUME AdbInv, NEW s \in Streams, DeviceWrites(s) \/ DeviceCloses(s)
  PROVE  AdbInv'
  <1>0. Types /\ Quiet /\ DeviceFits
    BY DEF AdbInv
  <1>1. PICK me \in Sides : me = device[s]
    BY <1>0 DEF Types
  <1>2. /\ plugged /\ me.open
        /\ UNCHANGED <<phase, connected, rx, lastStreamId, stream, txQueue, txPending, written, resolved, plugged, toDevice>>
    BY <1>1 DEF DeviceWrites, DeviceCloses, conn, tx
  <1>3. stream[s] # "none" /\ ~Untouched(s)
    BY <1>0, <1>1, <1>2 DEF DeviceFits, Untouched
  <1>4. phase = "connected"
    BY <1>0, <1>3 DEF Quiet
  <1>5. \E r \in Sides, c \in {"WRTE", "CLSE"}, n \in Nat :
           r.got = me.got /\ device' = [device EXCEPT ![s] = r] /\ toHost' = toHost \o <<Msg(c, s, n)>>
    <2>1. CASE DeviceWrites(s)
      <3>1. PICK r : r = [me EXCEPT !.unacked = TRUE, !.sent = @ + 1]
        OBVIOUS
      <3>2. r \in Sides /\ r.got = me.got /\ me.sent + 1 \in Nat
        <4>1. PICK a \in BOOLEAN, i \in Nat, g \in Seq(Nat) : a = me.open /\ i = me.sent /\ g = me.got
          BY DEF Sides
        <4>2. r = [open |-> a, unacked |-> TRUE, sent |-> i + 1, got |-> g]
          BY <3>1, <4>1 DEF Sides
        <4>3. i + 1 \in Nat
          OBVIOUS
        <4> QED BY <4>1, <4>2, <4>3 DEF Sides
      <3>3. device' = [device EXCEPT ![s] = r] /\ toHost' = toHost \o <<Msg("WRTE", s, me.sent + 1)>>
        BY <1>1, <2>1, <3>1 DEF DeviceWrites, OnDevice, DeviceSends
      <3> QED BY <3>2, <3>3
    <2>2. CASE DeviceCloses(s)
      <3>1. PICK r : r = [me EXCEPT !.open = FALSE]
        OBVIOUS
      <3>2. r \in Sides /\ r.got = me.got /\ 0 \in Nat
        BY <3>1 DEF Sides
      <3>3. device' = [device EXCEPT ![s] = r] /\ toHost' = toHost \o <<Msg("CLSE", s, 0)>>
        BY <1>1, <2>2, <3>1 DEF DeviceCloses, OnDevice, DeviceSends
      <3> QED BY <3>2, <3>3
    <2> QED BY <2>1, <2>2
  <1>6. PICK r \in Sides, c \in {"WRTE", "CLSE"}, n \in Nat :
           r.got = me.got /\ device' = [device EXCEPT ![s] = r] /\ toHost' = toHost \o <<Msg(c, s, n)>>
    BY <1>5
  <1>7. PICK x \in Messages : x = Msg(c, s, n) /\ x.cmd = c /\ x.s = s /\ x.n = n
    <2>1. c \in Commands /\ s \in Nat
      BY AdbAssumption DEF Commands, Streams
    <2>2. Msg(c, s, n) \in Messages /\ Msg(c, s, n).cmd = c /\ Msg(c, s, n).s = s /\ Msg(c, s, n).n = n
      BY <2>1, MessageType
    <2> QED BY <2>2, Zenon
  <1>8. PICK new : new = {x} /\ Moves(toHost, toHost', 0, new)
    BY <1>0, <1>6, <1>7, PipeGrows DEF Types
  <1>9. \A y \in new : MaySend(y, s) /\ y.n \in Nat
    BY <1>7, <1>8 DEF MaySend
  <1>10. PICK none : none = {} /\ Moves(toDevice, toDevice', 0, none)
    BY <1>0, <1>2, PipeStays DEF Types
  <1>11. (IF 0 = 1 THEN toDevice[1].s = s ELSE ~Untouched(s)) /\ r.got = device[s].got
    BY <1>1, <1>3, <1>6
  <1> QED BY <1>2, <1>3, <1>4, <1>6, <1>8, <1>9, <1>10, <1>11, DeviceStep

\* The cable is pulled, and what was on it is gone.
LEMMA UnplugStep ==
  ASSUME AdbInv, Unplug
  PROVE  AdbInv'
  <1>0. Types /\ Quiet /\ DeviceFits /\ FlightFits
    BY DEF AdbInv
  <1>1. /\ phase = "connected" /\ plugged' = FALSE /\ toDevice' = <<>> /\ toHost' = <<>>
        /\ UNCHANGED <<phase, connected, rx, lastStreamId, stream, txQueue, txPending, written, resolved, device>>
    BY DEF Unplug, conn, tx
  <1>2. Types'
    <2>1. <<>> \in Seq(Messages)
      OBVIOUS
    <2> QED BY <1>0, <1>1, <2>1 DEF Types
  <1>3. Written' = {} /\ Acked' = {}
    BY <1>1 DEF Written, Acked
  <1>4. Quiet'
    BY <1>0, <1>1, QuietKept DEF Quiet
  <1>5. DeviceFits'
    BY <1>0, <1>1, DeviceKept
  <1>6. ToDeviceFits' /\ ToHostFits'
    BY <1>1 DEF ToDeviceFits, ToHostFits
  <1>7. FlightFits'
    BY <1>0, <1>1, <1>3 DEF FlightFits, OneWriteInFlight
  <1>8. QueueFits'
    BY <1>1 DEF QueueFits
  <1> QED BY <1>2, <1>4, <1>5, <1>6, <1>7, <1>8 DEF AdbInv

-----------------------------------------------------------------------------
(***************************************************************************)
(* The theorems.                                                           *)
(***************************************************************************)
\* Every step of the host, of the device and of the cable keeps the invariant.
LEMMA AdbNext ==
  ASSUME AdbInv, [Next]_vars
  PROVE  AdbInv'
  <1>0. Types /\ Quiet
    BY DEF AdbInv
  <1>1. CASE ConnectRecv
    BY <1>1, ConnectStep
  <1>2. CASE CreateStream
    BY <1>2, CreateStep
  <1>3. CASE Close
    BY <1>3, CloseStep
  <1>4. ASSUME NEW s \in Streams, StreamWrite(s) \/ StreamClose(s)
        PROVE  AdbInv'
    BY <1>4, StreamWriteStep, StreamCloseStep
  <1>5. CASE RxLoop
    BY <1>5, RxLoopStep
  <1>6. CASE RxDeliver
    <2>1. rx # None
      BY <1>6, AdbAssumption DEF RxDeliver, Streams
    <2>2. connected' = connected /\ connected /\ connected \in BOOLEAN
      BY <1>0, <1>6, <2>1 DEF RxDeliver, Quiet, Types
    <2>3. UNCHANGED <<phase, lastStreamId, stream, txQueue, txPending, written, resolved,
                      plugged, toDevice, toHost, device>>
      BY <1>6 DEF RxDeliver, conn, tx
    <2> QED BY <2>2, <2>3, IdleStep
  <1>7. CASE RxFails
    <2>1. rx' = None /\ connected' = FALSE
      BY <1>7 DEF RxFails, RxLoopEnds
    <2>2. UNCHANGED <<phase, lastStreamId, stream, txQueue, txPending, written, resolved,
                      plugged, toDevice, toHost, device>>
      BY <1>7 DEF RxFails, conn, tx
    <2> QED BY <2>1, <2>2, IdleStep
  <1>8. CASE DeviceHandles
    BY <1>8, DeviceHandlesStep
  <1>9. ASSUME NEW s \in Streams, DeviceWrites(s) \/ DeviceCloses(s)
        PROVE  AdbInv'
    BY <1>9, DeviceSpeaksStep
  <1>10. CASE Unplug
    BY <1>10, UnplugStep
  <1>11. CASE UNCHANGED vars
    <2>1. UNCHANGED <<phase, connected, rx, lastStreamId, stream, txQueue, txPending, written, resolved,
                      plugged, toDevice, toHost, device>>
      BY <1>11 DEF vars, conn, tx
    <2>2. connected' \in BOOLEAN /\ (rx' # None => connected')
      BY <1>0, <2>1 DEF Types, Quiet
    <2> QED BY <2>1, <2>2, IdleStep
  <1> QED BY <1>1, <1>2, <1>3, <1>4, <1>5, <1>6, <1>7, <1>8, <1>9, <1>10, <1>11 DEF Next

\* The inductive invariant holds in every reachable state: what the pipes, the
\* queue and the two sides of a stream say of each other agrees.
THEOREM AdbInvariant == Spec => []AdbInv
  <1> QED BY AdbInit, AdbNext, PTL DEF Spec

\* One write is in flight at a time, on all streams together, and the queue is
\* empty when none is: the assertions of streamWrite() and
\* streamWriteFromQueue() hold.
THEOREM OneWriteIsInFlight == Spec => []OneWriteInFlight
  <1>1. AdbInv => OneWriteInFlight
    BY DEF AdbInv, FlightFits
  <1> QED BY <1>1, AdbInvariant, PTL

\* The device gets the chunks that streamWrite() cut in the order in which they
\* were written, none twice and none left out, and a write whose promise is
\* resolved has arrived to its last chunk.
THEOREM ArrivalInOrder == Spec => []WritesArriveInOrder
  <1>1. AdbInv => WritesArriveInOrder
    BY DEF AdbInv, DeviceFits, WritesArriveInOrder
  <1> QED BY <1>1, AdbInvariant, PTL
=============================================================================
