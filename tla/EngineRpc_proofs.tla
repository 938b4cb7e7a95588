-------------------------- MODULE EngineRpc_proofs --------------------------
(***************************************************************************)
(* Proofs about EngineRpc, for any number of calls, batches and breaks of  *)
(* the connection: the engine implements RpcCalls, and counts its pending  *)
(* requests, provided the connection does not break before both sides have *)
(* seen a sequence number above 0 (EarlyDrops = FALSE).                    *)
(***************************************************************************)
EXTENDS EngineRpc, FiniteSetTheorems, SequenceTheorems, TLAPS

-----------------------------------------------------------------------------
(***************************************************************************)
(* The inductive invariant.  Calls 1 .. n have been made, the server has   *)
(* answered 1 .. h of them and the engine has been given the complete      *)
(* answers to 1 .. a.                                                      *)
(***************************************************************************)
\* What is on its way to the server, oldest first.
Requests == IF ws = "connected" THEN up
            ELSE IF ws = "disposed" THEN <<>> ELSE requestQueue

\* What is on its way to the callers, oldest first.
Responses == blobs \o down

\* The callers: the answered calls come first, and the promises of a kind are
\* pending in the order of the calls.
CallersFit(n, a) ==
    /\ made \in [Calls -> Kinds \cup {None}]
    /\ \A c \in Calls : made[c] # None <=> c <= n
    /\ answer = [c \in Calls |-> IF c <= a THEN c ELSE None]
    /\ numRequestsPending = n - a

PendingFits(n, a) ==
    /\ pending \in [Kinds -> Seq(Calls)]
    /\ "metatrace" \in Kinds => pending["metatrace"] = <<>>
    /\ \A k \in Kinds \ {"metatrace"} :
          /\ \A i, j \in DOMAIN pending[k] : i < j => pending[k][i] < pending[k][j]
          /\ \A i \in DOMAIN pending[k] : pending[k][i] \in a + 1 .. n /\ made[pending[k][i]] = k
          /\ \A c \in a + 1 .. n : made[c] = k => \E i \in DOMAIN pending[k] : pending[k][i] = c

\* Only the next call to be answered has been given a part of its answer, and
\* it is the beginning of its own.
BatchesFit(a) ==
    /\ batches \in [Calls -> Seq([call : Calls, batch : Nat \ {0}])]
    /\ \A c \in Calls : c # a + 1 => batches[c] = <<>>
    /\ \A c \in Calls : \A i \in DOMAIN batches[c] : batches[c][i] = [call |-> c, batch |-> i]

NoBatches == \A c \in Calls : batches[c] = <<>>

\* The requests under way are the latest ones, without a gap between them.
RequestsFit(n, h) ==
    /\ Requests \in Seq(Calls)
    /\ Len(Requests) <= n - h
    /\ \A i \in DOMAIN Requests : Requests[i] = n - Len(Requests) + i

Replies ==
    [seq : Nat, fatal : {FALSE}, kind : Kinds, call : Calls, batch : Nat \ {0}, last : BOOLEAN]

Messages == Replies \cup {FatalError}

SocketFits ==
    /\ ws \in {"none", "connecting", "connected", "closed", "disposed"}
    /\ ws = "connected" => requestQueue = <<>>
    /\ ws # "connected" => up = <<>> /\ down = <<>>
    /\ up \in Seq(Calls) /\ requestQueue \in Seq(Calls)
    /\ blobs \in Seq(Messages) /\ down \in Seq(Messages)

ServerFits(h) ==
    /\ server \in [rx : Nat, tx : Nat, closing : BOOLEAN]
    /\ server.rx = IF h = 0 THEN 0 ELSE h - 1
    /\ rxSeqId \in Nat
    /\ rxSeqId # 0 => rxSeqId < server.tx

\* m2 is the response that the server sends after m1.
Follows(m1, m2) ==
    IF m1.last THEN m2.call = m1.call + 1 /\ m2.batch = 1
    ELSE m2.call = m1.call /\ m2.batch = m1.batch + 1

\* The response that continues what the engine has been given.
IsNext(m, a) == m.call = a + 1 /\ m.batch = Len(batches[a + 1]) + 1

ResponseFits(m, a, h) ==
    /\ m \in Replies /\ m.call <= h
    /\ m.kind = made[m.call]
    /\ m.batch <= NumResponses(m.kind)
    /\ m.last <=> m.batch = NumResponses(m.kind)
    /\ m.seq < server.tx
    /\ rxSeqId # 0 => m.seq > rxSeqId
    /\ rxSeqId # 0 /\ m.seq = rxSeqId + 1 => IsNext(m, a)
    /\ m.seq = server.tx - 1 => m.call = h /\ m.last

\* Two responses with successive numbers are successive responses.
ResponsesFit(a, h) ==
    /\ \A i \in DOMAIN Responses : Responses[i] = FatalError \/ ResponseFits(Responses[i], a, h)
    /\ \A i, j \in DOMAIN Responses :
          i < j /\ Responses[i] # FatalError /\ Responses[j] # FatalError =>
              /\ Responses[i].seq < Responses[j].seq
              /\ Responses[j].seq = Responses[i].seq + 1 => Follows(Responses[i], Responses[j])
    /\ rxSeqId # 0 /\ rxSeqId = server.tx - 1 => a = h /\ NoBatches

\* While one of the sides takes any number for the next one, nothing is lost.
Early == rxSeqId = 0 \/ server.rx = 0

NothingLost(n, a, h) ==
    /\ ~server.closing
    /\ ws # "disposed" => Len(Requests) = n - h
    /\ \A i \in DOMAIN Responses : Responses[i] # FatalError
    /\ \A i \in 1 .. Len(Responses) - 1 :
          Responses[i + 1].seq = Responses[i].seq + 1
    /\ Responses # <<>> =>
          /\ IsNext(Responses[1], a)
          /\ rxSeqId # 0 => Responses[1].seq = rxSeqId + 1
          /\ ws # "disposed" => Responses[Len(Responses)].seq = server.tx - 1
    /\ Responses = <<>> /\ ws # "disposed" =>
          /\ a = h /\ NoBatches
          /\ rxSeqId # 0 => rxSeqId = server.tx - 1

EngineFits(n, a, h) ==
    /\ CallersFit(n, a)
    /\ PendingFits(n, a)
    /\ BatchesFit(a)
    /\ SocketFits
    /\ RequestsFit(n, h)
    /\ ServerFits(h)
    /\ ResponsesFit(a, h)
    /\ Early => NothingLost(n, a, h)

EngineInv ==
    \E n \in 0 .. MaxCalls : \E h \in 0 .. n : \E a \in 0 .. h : EngineFits(n, a, h)

-----------------------------------------------------------------------------
(***************************************************************************)
(* Facts about sequences and about the constants.                          *)
(***************************************************************************)
\* A message that moves from the head of one queue to the end of the other.
LEMMA MoveHead ==
  ASSUME NEW S, NEW s \in Seq(S), NEW t \in Seq(S), t # <<>>
  PROVE  Append(s, Head(t)) \o Tail(t) = s \o t
  <1>1. /\ Head(t) \in S /\ Head(t) = t[1]
        /\ Tail(t) \in Seq(S) /\ Len(Tail(t)) = Len(t) - 1
        /\ \A i \in 1 .. Len(t) - 1 : Tail(t)[i] = t[i + 1]
    BY HeadTailProperties
  <1>2. /\ Append(s, Head(t)) \in Seq(S) /\ Len(Append(s, Head(t))) = Len(s) + 1
        /\ \A i \in 1 .. Len(s) : Append(s, Head(t))[i] = s[i]
        /\ Append(s, Head(t))[Len(s) + 1] = t[1]
    BY <1>1, AppendProperties
  <1>3. Len(s) \in Nat /\ Len(t) \in Nat \ {0}
    BY LenProperties, EmptySeq
  <1> DEFINE u == Append(s, Head(t)) \o Tail(t)
             v == s \o t
  <1>4. u \in Seq(S) /\ v \in Seq(S) /\ Len(u) = Len(v) /\ Len(v) = Len(s) + Len(t)
    BY <1>1, <1>2, <1>3, ConcatProperties
  <1>5. ASSUME NEW i \in 1 .. Len(v) PROVE u[i] = v[i]
    <2>1. v[i] = IF i <= Len(s) THEN s[i] ELSE t[i - Len(s)]
      BY <1>4, ConcatProperties
    <2>2. u[i] = IF i <= Len(s) + 1 THEN Append(s, Head(t))[i] ELSE Tail(t)[i - (Len(s) + 1)]
      BY <1>1, <1>2, <1>3, <1>4, ConcatProperties
    <2> QED BY <1>1, <1>2, <1>3, <1>4, <2>1, <2>2
  <1> QED BY <1>4, <1>5, SeqEqual

\* Taking the first element of the first of two queues.
LEMMA TakeHead ==
  ASSUME NEW S, NEW s \in Seq(S), NEW t \in Seq(S), s # <<>>
  PROVE  /\ s \o t \in Seq(S) /\ Len(s \o t) \in Nat \ {0}
         /\ Head(s) = (s \o t)[1]
         /\ Tail(s) \o t \in Seq(S)
         /\ Len(Tail(s) \o t) = Len(s \o t) - 1
         /\ \A i \in 1 .. Len(s \o t) - 1 : (Tail(s) \o t)[i] = (s \o t)[i + 1]
  <1>1. /\ Head(s) = s[1]
        /\ Tail(s) \in Seq(S) /\ Len(Tail(s)) = Len(s) - 1
        /\ \A i \in 1 .. Len(s) - 1 : Tail(s)[i] = s[i + 1]
    BY HeadTailProperties
  <1>2. Len(s) \in Nat \ {0} /\ Len(t) \in Nat
    BY LenProperties, EmptySeq
  <1>3. /\ s \o t \in Seq(S) /\ Len(s \o t) = Len(s) + Len(t)
        /\ \A i \in 1 .. Len(s) + Len(t) :
              (s \o t)[i] = IF i <= Len(s) THEN s[i] ELSE t[i - Len(s)]
    BY ConcatProperties
  <1>4. /\ Tail(s) \o t \in Seq(S) /\ Len(Tail(s) \o t) = Len(s) - 1 + Len(t)
        /\ \A i \in 1 .. Len(s) - 1 + Len(t) :
              (Tail(s) \o t)[i] = IF i <= Len(s) - 1 THEN Tail(s)[i] ELSE t[i - (Len(s) - 1)]
    BY <1>1, ConcatProperties
  <1>5. ASSUME NEW i \in 1 .. Len(s \o t) - 1 PROVE (Tail(s) \o t)[i] = (s \o t)[i + 1]
    BY <1>1, <1>2, <1>3, <1>4
  <1>6. Head(s) = (s \o t)[1]
    BY <1>1, <1>2, <1>3
  <1> QED BY <1>2, <1>3, <1>4, <1>5, <1>6

\* Keeping only the first n elements of the second of two queues.
LEMMA KeepPrefix ==
  ASSUME NEW S, NEW s \in Seq(S), NEW t \in Seq(S), NEW n \in 0 .. Len(t)
  PROVE  /\ SubSeq(t, 1, n) \in Seq(S)
         /\ s \o t \in Seq(S)
         /\ s \o SubSeq(t, 1, n) \in Seq(S)
         /\ Len(s \o SubSeq(t, 1, n)) <= Len(s \o t)
         /\ \A i \in 1 .. Len(s \o SubSeq(t, 1, n)) : (s \o SubSeq(t, 1, n))[i] = (s \o t)[i]
  <1>1. Len(s) \in Nat /\ Len(t) \in Nat /\ n \in Int
    BY LenProperties
  <1>2. \A i \in 1 .. n : t[i] \in S
    BY <1>1, ElementOfSeq
  <1>3. /\ SubSeq(t, 1, n) \in Seq(S) /\ Len(SubSeq(t, 1, n)) = n
        /\ \A i \in 1 .. n : SubSeq(t, 1, n)[i] = t[i]
    BY <1>1, <1>2, SubSeqProperties
  <1>4. /\ s \o t \in Seq(S) /\ Len(s \o t) = Len(s) + Len(t)
        /\ \A i \in 1 .. Len(s) + Len(t) :
              (s \o t)[i] = IF i <= Len(s) THEN s[i] ELSE t[i - Len(s)]
    BY ConcatProperties
  <1>5. /\ s \o SubSeq(t, 1, n) \in Seq(S) /\ Len(s \o SubSeq(t, 1, n)) = Len(s) + n
        /\ \A i \in 1 .. Len(s) + n :
              (s \o SubSeq(t, 1, n))[i] = IF i <= Len(s) THEN s[i] ELSE SubSeq(t, 1, n)[i - Len(s)]
    BY <1>3, ConcatProperties
  <1> QED BY <1>1, <1>3, <1>4, <1>5

\* A fatal error is no reply.
LEMMA FatalIsNoReply ==
  /\ FatalError.fatal = TRUE
  /\ \A m \in Replies : m # FatalError /\ m.fatal = FALSE
  <1>1. FatalError.fatal = TRUE
    BY DEF FatalError
  <1>2. \A m \in Replies : m.fatal \in {FALSE}
    BY DEF Replies
  <1> QED BY <1>1, <1>2

\* The number of calls that satisfy CallersFit.
LEMMA CountMade ==
  ASSUME NEW n \in 0 .. MaxCalls, NEW a \in 0 .. n, CallersFit(n, a)
  PROVE  /\ Cardinality({d \in Calls : made[d] # None}) = n
         /\ Cardinality({c \in Calls : made[c] # None /\ answer[c] = None}) = n - a
  <1>1. {d \in Calls : made[d] # None} = 1 .. n
    BY EngineAssumption DEF CallersFit, Calls
  <1>2. {c \in Calls : made[c] # None /\ answer[c] = None} = a + 1 .. n
    BY EngineAssumption DEF CallersFit, Calls
  <1>3. /\ Cardinality(1 .. n) = IF 1 > n THEN 0 ELSE n - 1 + 1
        /\ Cardinality(a + 1 .. n) = IF a + 1 > n THEN 0 ELSE n - (a + 1) + 1
    BY FS_Interval, EngineAssumption
  <1>4. n \in Nat /\ a \in Nat /\ a <= n
    BY EngineAssumption
  <1>5. Cardinality(1 .. n) = n /\ Cardinality(a + 1 .. n) = n - a
    BY <1>3, <1>4
  <1> QED BY <1>1, <1>2, <1>5, Zenon

-----------------------------------------------------------------------------
(***************************************************************************)
(* The invariant holds at first, and every step preserves it.              *)
(***************************************************************************)
\* Nothing has been called.
LEMMA InvInit == Init => EngineInv
  <1> SUFFICES ASSUME Init PROVE EngineFits(0, 0, 0)
    BY EngineAssumption DEF EngineInv
  <1>0. <<>> \in Seq(Messages) /\ <<>> \in Seq(Calls) /\ Len(<<>>) = 0
    BY EmptySeq
  <1>1. Responses = <<>> /\ Requests = <<>> /\ Len(Responses) = 0 /\ Len(Requests) = 0
        /\ DOMAIN Responses = {} /\ DOMAIN Requests = {}
    BY <1>0, ConcatEmptySeq DEF Init, Responses, Requests
  <1>2. CallersFit(0, 0)
    BY EngineAssumption DEF Init, CallersFit, Calls
  <1>3. PendingFits(0, 0) /\ BatchesFit(0) /\ NoBatches
    BY EngineAssumption DEF Init, PendingFits, BatchesFit, NoBatches
  <1>4. SocketFits /\ RequestsFit(0, 0) /\ ServerFits(0)
    BY <1>0, <1>1, EngineAssumption DEF Init, SocketFits, RequestsFit, ServerFits
  <1>5. ResponsesFit(0, 0) /\ NothingLost(0, 0, 0)
    BY <1>1, <1>3 DEF Init, ResponsesFit, NothingLost
  <1> QED BY <1>2, <1>3, <1>4, <1>5 DEF EngineFits

\* Steps that take no response to its caller, and send none, leave the rest of
\* the responses fitting, also when the last ones are lost.
LEMMA ResponsesKept ==
  ASSUME NEW a \in Nat, NEW h \in Nat, ResponsesFit(a, h),
         Responses \in Seq(Messages), Responses' \in Seq(Messages),
         Len(Responses') <= Len(Responses),
         \A i \in 1 .. Len(Responses') : Responses'[i] = Responses[i],
         UNCHANGED <<rxSeqId, batches>>, server'.tx = server.tx,
         \A c \in Calls : c <= h => made'[c] = made[c]
  PROVE  ResponsesFit(a, h)'
  <1>0. /\ Len(Responses) \in Nat /\ Len(Responses') \in Nat
        /\ DOMAIN Responses = 1 .. Len(Responses)
        /\ DOMAIN Responses' = 1 .. Len(Responses')
    BY LenProperties
  <1>1. \A m : ResponseFits(m, a, h) => ResponseFits(m, a, h)'
    <2> SUFFICES ASSUME NEW m, ResponseFits(m, a, h) PROVE ResponseFits(m, a, h)'
      OBVIOUS
    <2>1. m.call \in Calls
      BY DEF ResponseFits, Replies
    <2> QED BY <2>1 DEF ResponseFits, IsNext, Replies
  <1>2. ASSUME NEW i \in DOMAIN Responses'
        PROVE  (Responses[i] = FatalError \/ ResponseFits(Responses[i], a, h))'
    <2>1. PICK m : m = Responses[i]
      OBVIOUS
    <2>2. Responses'[i] = m /\ i \in DOMAIN Responses
      BY <1>0, <2>1
    <2>3. m = FatalError \/ ResponseFits(m, a, h)
      BY <2>1, <2>2 DEF ResponsesFit
    <2>4. m = FatalError \/ ResponseFits(m, a, h)'
      BY <1>1, <2>3
    <2> QED BY <2>2, <2>4 DEF FatalError
  <1>3. ASSUME NEW i \in DOMAIN Responses', NEW j \in DOMAIN Responses', i < j,
               Responses'[i] # FatalError, Responses'[j] # FatalError
        PROVE  /\ Responses'[i].seq < Responses'[j].seq
               /\ Responses'[j].seq = Responses'[i].seq + 1 => Follows(Responses'[i], Responses'[j])
    BY <1>0, <1>3 DEF ResponsesFit
  <1>4. (rxSeqId # 0 /\ rxSeqId = server.tx - 1 => a = h /\ NoBatches)'
    BY DEF ResponsesFit, NoBatches
  <1> QED BY <1>2, <1>3, <1>4 DEF ResponsesFit, Follows, FatalError

\* The bounds on the three positions, as facts about numbers.
LEMMA Positions ==
  ASSUME NEW n \in 0 .. MaxCalls, NEW h \in 0 .. n, NEW a \in 0 .. h
  PROVE  /\ n \in Nat /\ h \in Nat /\ a \in Nat /\ MaxCalls \in Nat
         /\ a <= h /\ h <= n /\ n <= MaxCalls
  BY EngineAssumption

\* A call is the next one in order, and its request the last one.
LEMMA CallStep ==
  ASSUME NEW n \in 0 .. MaxCalls, NEW h \in 0 .. n, NEW a \in 0 .. h,
         EngineFits(n, a, h), NEW k \in Kinds, Call(k)
  PROVE  EngineInv' /\ Abstract!Next
  <1> USE DEF EngineFits
  <1>0. /\ n \in Nat /\ h \in Nat /\ a \in Nat /\ MaxCalls \in Nat
        /\ a <= h /\ h <= n /\ n <= MaxCalls
    BY Positions
  <1>1. /\ n + 1 \in Calls
        /\ made' = [made EXCEPT ![n + 1] = k]
        /\ pending' = [pending EXCEPT ![k] = IF k = "metatrace" THEN pending[k]
                                             ELSE Append(pending[k], n + 1)]
        /\ numRequestsPending' = numRequestsPending + 1
        /\ SendRequestBytes(n + 1)
        /\ UNCHANGED <<rxSeqId, batches, answer, blobs, down, server>>
    <2>1. a \in 0 .. n
      BY <1>0
    <2>2. Cardinality({d \in Calls : made[d] # None}) = n
      BY <2>1, CountMade
    <2> QED BY <2>2 DEF Call
  <1>2. n + 1 <= MaxCalls /\ k # None /\ \A c \in Calls : c \in Nat /\ c >= 1
    BY <1>0, <1>1, EngineAssumption DEF Calls
  <1>3. CallersFit(n + 1, a)'
    <2>1. \A c \in Calls : made'[c] = IF c = n + 1 THEN k ELSE made[c]
      BY <1>1 DEF CallersFit
    <2>2. \A c \in Calls : made'[c] # None <=> c <= n + 1
      BY <1>0, <1>2, <2>1 DEF CallersFit
    <2>3. made' \in [Calls -> Kinds \cup {None}]
      BY <1>1 DEF CallersFit
    <2>4. numRequestsPending' = n + 1 - a
      BY <1>0, <1>1 DEF CallersFit
    <2> QED BY <1>1, <2>2, <2>3, <2>4 DEF CallersFit
  <1>4. PendingFits(n + 1, a)'
    <2>1. \A c \in Calls : made'[c] = IF c = n + 1 THEN k ELSE made[c]
      BY <1>1 DEF CallersFit
    <2>2. a + 1 .. n + 1 = (a + 1 .. n) \cup {n + 1} /\ a + 1 .. n \subseteq Calls /\ n + 1 \notin a + 1 .. n
      BY <1>0 DEF Calls
    <2>3. CASE k = "metatrace"
      <3>1. pending' = pending
        BY <1>1, <2>3 DEF PendingFits
      <3>2. \A j \in Kinds \ {"metatrace"} : j # k
        BY <2>3
      <3>3. ASSUME NEW j \in Kinds \ {"metatrace"}
            PROVE  /\ \A i \in DOMAIN pending[j] :
                        pending[j][i] \in a + 1 .. n + 1 /\ made'[pending[j][i]] = j
                   /\ \A c \in a + 1 .. n + 1 : made'[c] = j =>
                        \E i \in DOMAIN pending[j] : pending[j][i] = c
        BY <1>1, <2>1, <2>2, <3>2 DEF PendingFits
      <3> QED BY <3>1, <3>3 DEF PendingFits
    <2>4. CASE k # "metatrace"
      <3>1. /\ pending[k] \in Seq(Calls)
            /\ pending' = [pending EXCEPT ![k] = Append(pending[k], n + 1)]
        BY <1>1, <2>4 DEF PendingFits
      <3>2. /\ Append(pending[k], n + 1) \in Seq(Calls)
            /\ Len(pending[k]) \in Nat
            /\ DOMAIN pending[k] = 1 .. Len(pending[k])
            /\ DOMAIN Append(pending[k], n + 1) = 1 .. Len(pending[k]) + 1
            /\ \A i \in 1 .. Len(pending[k]) : Append(pending[k], n + 1)[i] = pending[k][i]
            /\ Append(pending[k], n + 1)[Len(pending[k]) + 1] = n + 1
        BY <1>1, <3>1, AppendProperties, LenProperties
      <3>3. /\ pending' \in [Kinds -> Seq(Calls)]
            /\ \A j \in Kinds : pending'[j] = IF j = k THEN Append(pending[k], n + 1) ELSE pending[j]
        BY <3>1, <3>2 DEF PendingFits
      <3>4. ASSUME NEW j \in Kinds \ {"metatrace"}, j # k
            PROVE  /\ \A i \in DOMAIN pending[j] :
                        pending[j][i] \in a + 1 .. n + 1 /\ made'[pending[j][i]] = j
                   /\ \A c \in a + 1 .. n + 1 : made'[c] = j =>
                        \E i \in DOMAIN pending[j] : pending[j][i] = c
                   /\ \A i1, i2 \in DOMAIN pending[j] : i1 < i2 => pending[j][i1] < pending[j][i2]
        BY <1>1, <2>1, <2>2, <3>4 DEF PendingFits
      <3> DEFINE q == Append(pending[k], n + 1)
      <3>5. /\ \A i \in 1 .. Len(pending[k]) : pending[k][i] \in a + 1 .. n /\ made[pending[k][i]] = k
            /\ \A i1, i2 \in 1 .. Len(pending[k]) : i1 < i2 => pending[k][i1] < pending[k][i2]
            /\ \A c \in a + 1 .. n : made[c] = k =>
                   \E i \in 1 .. Len(pending[k]) : pending[k][i] = c
        <4>1. k \in Kinds \ {"metatrace"} /\ DOMAIN pending[k] = 1 .. Len(pending[k])
          BY <2>4, <3>2
        <4>2. /\ \A i, j \in DOMAIN pending[k] : i < j => pending[k][i] < pending[k][j]
              /\ \A i \in DOMAIN pending[k] : pending[k][i] \in a + 1 .. n /\ made[pending[k][i]] = k
              /\ \A c \in a + 1 .. n : made[c] = k => \E i \in DOMAIN pending[k] : pending[k][i] = c
          BY <4>1 DEF PendingFits
        <4> HIDE DEF EngineFits
        <4> QED BY <4>1, <4>2
      <3> HIDE DEF q
      <3>6. /\ DOMAIN q = 1 .. Len(pending[k]) + 1
            /\ \A i \in 1 .. Len(pending[k]) : q[i] = pending[k][i]
            /\ q[Len(pending[k]) + 1] = n + 1
        BY <3>2 DEF q
      <3>7. \A i \in DOMAIN q : q[i] \in a + 1 .. n + 1 /\ made'[q[i]] = k
        <4> SUFFICES ASSUME NEW i \in DOMAIN q PROVE q[i] \in a + 1 .. n + 1 /\ made'[q[i]] = k
          OBVIOUS
        <4>1. CASE i = Len(pending[k]) + 1
          BY <1>1, <2>1, <2>2, <3>6, <4>1
        <4>2. CASE i \in 1 .. Len(pending[k])
          BY <1>1, <2>1, <2>2, <3>5, <3>6, <4>2
        <4> QED BY <3>2, <3>6, <4>1, <4>2
      <3>8. \A c \in a + 1 .. n + 1 : made'[c] = k => \E i \in DOMAIN q : q[i] = c
        <4> SUFFICES ASSUME NEW c \in a + 1 .. n + 1, made'[c] = k
                     PROVE  \E i \in DOMAIN q : q[i] = c
          OBVIOUS
        <4>1. CASE c = n + 1
          BY <3>2, <3>6, <4>1
        <4>2. CASE c \in a + 1 .. n
          <5>1. made[c] = k
            BY <2>1, <2>2, <4>2
          <5>2. PICK i \in 1 .. Len(pending[k]) : pending[k][i] = c
            BY <3>5, <4>2, <5>1
          <5>3. i \in DOMAIN q /\ q[i] = c
            BY <3>2, <3>6, <5>2
          <5> QED BY <5>3
        <4> QED BY <2>2, <4>1, <4>2
      <3>9. \A i1, i2 \in DOMAIN q : i1 < i2 => q[i1] < q[i2]
        <4> SUFFICES ASSUME NEW i1 \in DOMAIN q, NEW i2 \in DOMAIN q, i1 < i2 PROVE q[i1] < q[i2]
          OBVIOUS
        <4>1. i1 \in 1 .. Len(pending[k])
          BY <3>2, <3>6
        <4>2. CASE i2 = Len(pending[k]) + 1
          BY <1>0, <3>5, <3>6, <4>1, <4>2
        <4>3. CASE i2 \in 1 .. Len(pending[k])
          BY <3>5, <3>6, <4>1, <4>3
        <4> QED BY <3>2, <3>6, <4>2, <4>3
      <3>10. "metatrace" \in Kinds => pending'["metatrace"] = <<>>
        BY <2>4, <3>3 DEF PendingFits
      <3>11. pending'[k] = q
        BY <3>3 DEF q
      <3>12. ASSUME NEW j \in Kinds \ {"metatrace"}
             PROVE  /\ \A i1, i2 \in DOMAIN pending'[j] : i1 < i2 => pending'[j][i1] < pending'[j][i2]
                    /\ \A i \in DOMAIN pending'[j] :
                          pending'[j][i] \in a + 1 .. n + 1 /\ made'[pending'[j][i]] = j
                    /\ \A c \in a + 1 .. n + 1 : made'[c] = j =>
                          \E i \in DOMAIN pending'[j] : pending'[j][i] = c
        <4>1. CASE j = k
          BY <3>7, <3>8, <3>9, <3>11, <4>1
        <4>2. CASE j # k
          BY <3>3, <3>4, <4>2
        <4> QED BY <4>1, <4>2
      <3> QED BY <3>3, <3>10, <3>12 DEF PendingFits
    <2> QED BY <2>3, <2>4
  <1>5. BatchesFit(a)'
    BY <1>1 DEF BatchesFit
  <1>6. Requests \in Seq(Calls) /\ Append(Requests, n + 1) \in Seq(Calls)
        /\ Len(Requests) \in Nat
        /\ DOMAIN Requests = 1 .. Len(Requests)
        /\ Len(Append(Requests, n + 1)) = Len(Requests) + 1
        /\ DOMAIN Append(Requests, n + 1) = 1 .. Len(Requests) + 1
        /\ \A i \in 1 .. Len(Requests) : Append(Requests, n + 1)[i] = Requests[i]
        /\ Append(Requests, n + 1)[Len(Requests) + 1] = n + 1
    BY <1>1, AppendProperties, LenProperties DEF RequestsFit
  <1>7. /\ SocketFits'
        /\ ws' = "disposed" <=> ws = "disposed"
        /\ Requests' = IF ws = "disposed" THEN <<>> ELSE Append(Requests, n + 1)
    <2>1. Append(up, n + 1) \in Seq(Calls) /\ Append(requestQueue, n + 1) \in Seq(Calls)
      BY <1>1, AppendProperties DEF SocketFits
    <2> QED BY <1>1, <2>1 DEF SocketFits, SendRequestBytes, Requests
  <1>8. RequestsFit(n + 1, h)'
    <2>1. CASE ws = "disposed"
      BY <1>0, <1>7, <2>1, EmptySeq DEF RequestsFit
    <2>2. CASE ws # "disposed"
      <3>1. Requests' = Append(Requests, n + 1)
        BY <1>7, <2>2
      <3>2. Len(Requests) + 1 <= n + 1 - h
        BY <1>0, <1>6 DEF RequestsFit
      <3>3. ASSUME NEW i \in 1 .. Len(Requests) + 1
            PROVE  Append(Requests, n + 1)[i] = n + 1 - (Len(Requests) + 1) + i
        <4>1. CASE i = Len(Requests) + 1
          BY <1>0, <1>6, <4>1
        <4>2. CASE i \in 1 .. Len(Requests)
          BY <1>0, <1>6, <4>2 DEF RequestsFit
        <4> QED BY <1>6, <4>1, <4>2
      <3> QED BY <1>6, <3>1, <3>2, <3>3 DEF RequestsFit
    <2> QED BY <2>1, <2>2
  <1>9. ServerFits(h)'
    BY <1>1 DEF ServerFits
  <1>10. Responses' = Responses /\ Responses \in Seq(Messages) /\ Len(Responses) \in Nat
    BY <1>1, ConcatProperties, LenProperties DEF Responses, SocketFits
  <1>11. ResponsesFit(a, h)'
    <2>1. \A c \in Calls : c <= h => made'[c] = made[c]
      BY <1>0, <1>1 DEF CallersFit
    <2> QED BY <1>0, <1>1, <1>10, <2>1, ResponsesKept
  <1>12. Early' => NothingLost(n + 1, a, h)'
    <2>1. Early' => Early /\ NothingLost(n, a, h)
      BY <1>1 DEF Early
    <2>2. ws # "disposed" /\ Len(Requests) = n - h => Len(Requests') = n + 1 - h
      BY <1>0, <1>6, <1>7
    <2> QED BY <1>1, <1>7, <1>10, <2>1, <2>2 DEF NothingLost, IsNext, NoBatches, FatalError
  <1>13. EngineFits(n + 1, a, h)'
    BY <1>3, <1>4, <1>5, <1>7, <1>8, <1>9, <1>11, <1>12
  <1>14. EngineInv'
    <2>1. n + 1 \in 0 .. MaxCalls /\ h \in 0 .. n + 1
      BY <1>0, <1>2
    <2> QED BY <1>13, <2>1 DEF EngineInv
  <1>15. Abstract!Next
    <2>1. PICK c \in Calls : c = n + 1
      BY <1>1
    <2>2. made[c] = None /\ \A d \in 1 .. c - 1 : made[d] # None
      BY <1>0, <2>1 DEF CallersFit, Calls
    <2>3. made' = [made EXCEPT ![c] = k] /\ UNCHANGED answer
      BY <1>1, <2>1
    <2> HIDE DEF EngineFits
    <2>4. Abstract!Make(c)
      BY <2>2, <2>3, Zenon DEF Abstract!Make
    <2> QED BY <2>4 DEF Abstract!Next, Abstract!Calls, Calls
  <1> QED BY <1>14, <1>15

\* The types of the messages under way.
LEMMA ResponsesType ==
  ASSUME SocketFits
  PROVE  /\ Responses \in Seq(Messages) /\ Len(Responses) \in Nat
         /\ DOMAIN Responses = 1 .. Len(Responses)
  BY ConcatProperties, LenProperties DEF SocketFits, Responses

\* A step of the socket alone moves or loses messages; what it loses, it loses
\* from the end, and not while one of the sides takes any number.
LEMMA SocketStep ==
  ASSUME NEW n \in 0 .. MaxCalls, NEW h \in 0 .. n, NEW a \in 0 .. h, EngineFits(n, a, h),
         UNCHANGED <<made, pending, numRequestsPending, rxSeqId, batches, answer>>,
         server' \in [rx : Nat, tx : Nat, closing : BOOLEAN],
         server'.rx = server.rx, server'.tx = server.tx,
         SocketFits', RequestsFit(n, h)',
         Len(Responses') <= Len(Responses),
         \A i \in 1 .. Len(Responses') : Responses'[i] = Responses[i],
         Early => NothingLost(n, a, h)'
  PROVE  EngineInv'
  <1>0. n \in Nat /\ h \in Nat /\ a \in Nat
    BY Positions
  <1>1. SocketFits /\ ResponsesFit(a, h)
    BY DEF EngineFits
  <1>2. Responses \in Seq(Messages) /\ Responses' \in Seq(Messages)
    <2>1. Responses' \in Seq(Messages)
      BY ConcatProperties DEF SocketFits, Responses, Messages, Replies, FatalError
    <2> QED BY <1>1, <2>1, ResponsesType
  <1>3. ResponsesFit(a, h)'
    BY <1>0, <1>1, <1>2, ResponsesKept
  <1>4. CallersFit(n, a)'
    BY DEF EngineFits, CallersFit
  <1>5. PendingFits(n, a)' /\ BatchesFit(a)'
    <2>1. PendingFits(n, a) /\ BatchesFit(a)
      BY DEF EngineFits
    <2>2. PendingFits(n, a)'
      BY <2>1 DEF PendingFits
    <2>3. BatchesFit(a)'
      BY <2>1 DEF BatchesFit
    <2> QED BY <2>2, <2>3
  <1>6. ServerFits(h)'
    BY DEF EngineFits, ServerFits
  <1>7. Early' => NothingLost(n, a, h)'
    BY DEF Early
  <1>8. EngineFits(n, a, h)'
    BY <1>3, <1>4, <1>5, <1>6, <1>7 DEF EngineFits
  <1> QED BY <1>8 DEF EngineInv

\* What is under way stays under way.
LEMMA NothingLostKept ==
  ASSUME NEW n, NEW h, NEW a, NothingLost(n, a, h),
         UNCHANGED <<rxSeqId, batches, server>>,
         Responses' = Responses,
         ws' = "disposed" \/ (ws # "disposed" /\ Requests' = Requests)
  PROVE  NothingLost(n, a, h)'
  BY DEF NothingLost, IsNext, NoBatches, FatalError

\* onWebsocketConnected() sends what waited in the blob queue.
LEMMA ConnectedStep ==
  ASSUME NEW n \in 0 .. MaxCalls, NEW h \in 0 .. n, NEW a \in 0 .. h,
         EngineFits(n, a, h), OnWebsocketConnected
  PROVE  EngineInv'
  <1>1. /\ Requests' = Requests /\ Responses' = Responses
        /\ SocketFits /\ RequestsFit(n, h) /\ ws # "disposed"
        /\ UNCHANGED <<made, pending, numRequestsPending, rxSeqId, batches, answer, server>>
    BY DEF OnWebsocketConnected, Requests, Responses, EngineFits, engine
  <1>2. SocketFits'
    <2>1. SocketFits
      BY DEF EngineFits
    <2> QED BY <2>1, EmptySeq DEF OnWebsocketConnected, SocketFits, Messages, Replies, FatalError
  <1>3. RequestsFit(n, h)'
    BY <1>1 DEF RequestsFit
  <1>4. Early => NothingLost(n, a, h)'
    <2>1. Early => NothingLost(n, a, h)
      BY DEF EngineFits
    <2> QED BY <1>1, <2>1, NothingLostKept
  <1>5. server \in [rx : Nat, tx : Nat, closing : BOOLEAN]
    BY DEF EngineFits, ServerFits
  <1>6. Len(Responses) \in Nat
    BY <1>1, ResponsesType
  <1> QED BY <1>1, <1>2, <1>3, <1>4, <1>5, <1>6, SocketStep

\* onWebsocketError() fails the engine.
LEMMA ErrorStep ==
  ASSUME NEW n \in 0 .. MaxCalls, NEW h \in 0 .. n, NEW a \in 0 .. h,
         EngineFits(n, a, h), OnWebsocketError
  PROVE  EngineInv'
  <1>1. /\ Requests' = Requests /\ Responses' = Responses
        /\ SocketFits /\ RequestsFit(n, h) /\ ws # "disposed"
        /\ UNCHANGED <<made, pending, numRequestsPending, rxSeqId, batches, answer, server>>
    BY DEF OnWebsocketError, Requests, Responses, EngineFits
  <1>2. SocketFits'
    BY <1>1 DEF OnWebsocketError, SocketFits, Messages, Replies, FatalError
  <1>3. RequestsFit(n, h)'
    BY <1>1 DEF RequestsFit
  <1>4. Early => NothingLost(n, a, h)'
    <2>1. Early => NothingLost(n, a, h)
      BY DEF EngineFits
    <2> QED BY <1>1, <2>1, NothingLostKept
  <1>5. server \in [rx : Nat, tx : Nat, closing : BOOLEAN]
    BY DEF EngineFits, ServerFits
  <1>6. Len(Responses) \in Nat
    BY <1>1, ResponsesType
  <1> QED BY <1>1, <1>2, <1>3, <1>4, <1>5, <1>6, SocketStep

\* The message at the head of the socket's queue becomes the last blob.
LEMMA MessageStep ==
  ASSUME NEW n \in 0 .. MaxCalls, NEW h \in 0 .. n, NEW a \in 0 .. h,
         EngineFits(n, a, h), OnWebsocketMessage
  PROVE  EngineInv'
  <1>1. /\ SocketFits /\ RequestsFit(n, h) /\ ws # "disposed"
        /\ UNCHANGED <<made, pending, numRequestsPending, rxSeqId, batches, answer, server>>
        /\ UNCHANGED <<ws, requestQueue, up>>
    BY DEF OnWebsocketMessage, EngineFits, engine
  <1>2. /\ Responses' = Responses
    BY <1>1, MoveHead DEF OnWebsocketMessage, SocketFits, Responses
  <1>3. SocketFits'
    <2>1. blobs' \in Seq(Messages) /\ down' \in Seq(Messages)
      BY <1>1, HeadTailProperties, AppendProperties DEF OnWebsocketMessage, SocketFits
    <2>2. ws = "connected" /\ Messages' = Messages
      BY DEF OnWebsocketMessage, Messages, Replies, FatalError
    <2> QED BY <1>1, <2>1, <2>2 DEF SocketFits
  <1>4. Requests' = Requests /\ RequestsFit(n, h)'
    BY <1>1 DEF RequestsFit, Requests
  <1>5. Early => NothingLost(n, a, h)'
    <2>1. Early => NothingLost(n, a, h)
      BY DEF EngineFits
    <2> QED BY <1>1, <1>2, <1>4, <2>1, NothingLostKept
  <1>6. server \in [rx : Nat, tx : Nat, closing : BOOLEAN]
    BY DEF EngineFits, ServerFits
  <1>7. Len(Responses) \in Nat
    BY <1>1, ResponsesType
  <1> QED BY <1>1, <1>2, <1>3, <1>4, <1>5, <1>6, <1>7, SocketStep

\* A disposed socket takes no further requests.
LEMMA DisposeStep ==
  ASSUME NEW n \in 0 .. MaxCalls, NEW h \in 0 .. n, NEW a \in 0 .. h,
         EngineFits(n, a, h), Dispose
  PROVE  EngineInv'
  <1>0. n \in Nat /\ h \in Nat /\ a \in Nat /\ h <= n
    BY Positions
  <1>1. /\ SocketFits /\ ws' = "disposed"
        /\ UNCHANGED <<made, pending, numRequestsPending, rxSeqId, batches, answer, server>>
        /\ UNCHANGED <<blobs, requestQueue>> /\ up' = <<>> /\ down' = <<>>
    BY DEF Dispose, EngineFits, engine
  <1>2. SocketFits'
    <2>1. Messages' = Messages
      BY DEF Messages, Replies, FatalError
    <2> QED BY <1>1, <2>1, EmptySeq DEF SocketFits
  <1>3. Requests' = <<>> /\ RequestsFit(n, h)'
    <2>1. Requests' = <<>>
      BY <1>1 DEF Requests
    <2>2. <<>> \in Seq(Calls) /\ Len(<<>>) = 0 /\ DOMAIN <<>> = {}
      BY EmptySeq
    <2> QED BY <1>0, <2>1, <2>2 DEF RequestsFit
  <1>4. /\ Responses' = blobs
        /\ Len(Responses) = Len(blobs) + Len(down)
        /\ Len(blobs) \in Nat /\ Len(down) \in Nat
        /\ \A i \in 1 .. Len(blobs) : blobs[i] = Responses[i]
    BY <1>1, ConcatProperties, ConcatEmptySeq, LenProperties DEF Responses, SocketFits
  <1>5. Len(Responses') <= Len(Responses)
        /\ \A i \in 1 .. Len(Responses') : Responses'[i] = Responses[i]
    BY <1>4
  <1>6. Early => NothingLost(n, a, h)'
    <2> SUFFICES ASSUME NothingLost(n, a, h) PROVE NothingLost(n, a, h)'
      BY DEF EngineFits
    <2>1. DOMAIN Responses' = 1 .. Len(blobs) /\ DOMAIN Responses = 1 .. Len(Responses)
      BY <1>1, <1>4, ResponsesType, LenProperties DEF SocketFits
    <2>2. \A i \in DOMAIN Responses' : Responses'[i] # FatalError
      BY <1>4, <2>1 DEF NothingLost
    <2>3. \A i \in 1 .. Len(Responses') - 1 : Responses'[i + 1].seq = Responses'[i].seq + 1
      BY <1>4 DEF NothingLost
    <2>4. ASSUME Responses' # <<>>
          PROVE  IsNext(Responses'[1], a) /\ (rxSeqId # 0 => Responses'[1].seq = rxSeqId + 1)
      <3>1. Len(blobs) > 0
        BY <1>1, <1>4, <2>4, EmptySeq DEF SocketFits
      <3>2. Responses # <<>> /\ Responses'[1] = Responses[1]
        BY <1>1, <1>4, <3>1, EmptySeq, ResponsesType
      <3> QED BY <3>2 DEF NothingLost
    <2>5. ASSUME Responses' # <<>>
          PROVE  (IsNext(Responses[1], a) /\ (rxSeqId # 0 => Responses[1].seq = rxSeqId + 1))'
      BY <1>1, <2>4, <2>5 DEF IsNext
    <2>6. (\A i \in DOMAIN Responses : Responses[i] # FatalError)'
      BY <2>2 DEF FatalError
    <2> QED BY <1>1, <2>3, <2>5, <2>6 DEF NothingLost
  <1>7. server \in [rx : Nat, tx : Nat, closing : BOOLEAN]
    BY DEF EngineFits, ServerFits
  <1> QED BY <1>1, <1>2, <1>3, <1>5, <1>6, <1>7, SocketStep

\* What a break of the connection loses, once both sides have seen a number
\* above 0, leaves a gap that they notice.
LEMMA ReconnectStep ==
  ASSUME NEW n \in 0 .. MaxCalls, NEW h \in 0 .. n, NEW a \in 0 .. h,
         EngineFits(n, a, h), ws = "connected", ~Early, Reconnect
  PROVE  EngineInv'
  <1>0. n \in Nat /\ h \in Nat /\ a \in Nat /\ h <= n
    BY Positions
  <1>1. /\ SocketFits /\ ws' = "connecting" /\ ServerFits(h)
        /\ UNCHANGED <<made, pending, numRequestsPending, rxSeqId, batches, answer>>
        /\ server' = [server EXCEPT !.closing = FALSE]
        /\ up' = <<>> /\ down' = <<>> /\ requestQueue' = <<>>
    BY DEF Reconnect, EngineFits, engine, SocketFits
  <1>2. PICK i \in 0 .. Len(down) : blobs' = blobs \o SubSeq(down, 1, i)
    BY DEF Reconnect
  <1>3. Messages' = Messages /\ <<>> \in Seq(Messages) /\ <<>> \in Seq(Calls) /\ Len(<<>>) = 0
        /\ DOMAIN <<>> = {}
    BY EmptySeq DEF Messages, Replies, FatalError
  <1>4. /\ blobs' \in Seq(Messages)
        /\ Len(blobs') <= Len(Responses)
        /\ \A j \in 1 .. Len(blobs') : blobs'[j] = Responses[j]
    <2>1. blobs \in Seq(Messages) /\ down \in Seq(Messages)
      BY <1>1 DEF SocketFits
    <2>2. /\ blobs \o SubSeq(down, 1, i) \in Seq(Messages)
          /\ Len(blobs \o SubSeq(down, 1, i)) <= Len(blobs \o down)
          /\ \A j \in 1 .. Len(blobs \o SubSeq(down, 1, i)) :
                (blobs \o SubSeq(down, 1, i))[j] = (blobs \o down)[j]
      BY <2>1, KeepPrefix
    <2> QED BY <1>2, <2>2 DEF Responses
  <1>5. SocketFits'
    BY <1>1, <1>3, <1>4 DEF SocketFits
  <1>6. Requests' = <<>> /\ RequestsFit(n, h)'
    <2>1. Requests' = <<>>
      BY <1>1 DEF Requests
    <2> QED BY <1>0, <1>3, <2>1 DEF RequestsFit
  <1>7. Responses' = blobs'
    BY <1>1, <1>4, ConcatEmptySeq DEF Responses
  <1>8. server' \in [rx : Nat, tx : Nat, closing : BOOLEAN]
        /\ server'.rx = server.rx /\ server'.tx = server.tx
    BY <1>1 DEF ServerFits
  <1> QED BY <1>1, <1>4, <1>5, <1>6, <1>7, <1>8, SocketStep

\* The connection breaks once both sides have seen a sequence number.
LEMMA DropsStep ==
  ASSUME NEW n \in 0 .. MaxCalls, NEW h \in 0 .. n, NEW a \in 0 .. h,
         EngineFits(n, a, h), ~EarlyDrops, ConnectionDrops
  PROVE  EngineInv'
  <1>1. ws = "connected" /\ Reconnect /\ rxSeqId > 0 /\ server.rx > 0
    BY DEF ConnectionDrops
  <1>2. ~Early
    BY <1>1 DEF Early
  <1> QED BY <1>1, <1>2, ReconnectStep

\* The server closes the connection after a failure.
LEMMA ClosesStep ==
  ASSUME NEW n \in 0 .. MaxCalls, NEW h \in 0 .. n, NEW a \in 0 .. h,
         EngineFits(n, a, h), ServerCloses
  PROVE  EngineInv'
  <1>1. ws = "connected" /\ Reconnect /\ server.closing
    BY DEF ServerCloses
  <1>2. ~Early
    BY <1>1 DEF EngineFits, NothingLost
  <1> QED BY <1>1, <1>2, ReconnectStep

-----------------------------------------------------------------------------
(***************************************************************************)
(* The server handles the first of the requests under way.                 *)
(***************************************************************************)
\* Adding a sequence to what is on its way to the callers.
LEMMA SendDown ==
  ASSUME SocketFits, NEW new \in Seq(Messages), down' = down \o new, UNCHANGED blobs
  PROVE  /\ down' \in Seq(Messages)
         /\ Responses' \in Seq(Messages)
         /\ Len(Responses) \in Nat /\ Len(new) \in Nat
         /\ DOMAIN Responses = 1 .. Len(Responses)
         /\ Len(Responses') = Len(Responses) + Len(new)
         /\ DOMAIN Responses' = 1 .. Len(Responses) + Len(new)
         /\ \A i \in 1 .. Len(Responses) : Responses'[i] = Responses[i]
         /\ \A i \in 1 .. Len(new) : Responses'[Len(Responses) + i] = new[i]
  <1>1. blobs \in Seq(Messages) /\ down \in Seq(Messages)
    BY DEF SocketFits
  <1>2. Responses' = blobs \o (down \o new)
    BY DEF Responses
  <1>3. Responses' = Responses \o new
    <2>1. \A s, t, u \in Seq(Messages) : (s \o t) \o u = s \o (t \o u)
      BY ConcatAssociative
    <2>2. (blobs \o down) \o new = blobs \o (down \o new)
      BY <1>1, <2>1, Zenon
    <2> QED BY <1>2, <2>2, Zenon DEF Responses
  <1>4. Responses \in Seq(Messages) /\ Len(Responses) \in Nat /\ Len(new) \in Nat
        /\ DOMAIN Responses = 1 .. Len(Responses)
    BY ResponsesType, LenProperties
  <1>5. /\ Responses \o new \in Seq(Messages)
        /\ Len(Responses \o new) = Len(Responses) + Len(new)
        /\ \A i \in 1 .. Len(Responses) + Len(new) : (Responses \o new)[i] =
              IF i <= Len(Responses) THEN Responses[i] ELSE new[i - Len(Responses)]
    BY <1>4, ConcatProperties
  <1>6. /\ Responses' \in Seq(Messages)
        /\ Len(Responses') = Len(Responses) + Len(new)
        /\ DOMAIN Responses' = 1 .. Len(Responses) + Len(new)
    BY <1>3, <1>5, LenProperties
  <1>7. \A i \in 1 .. Len(Responses) + Len(new) : Responses'[i] =
              IF i <= Len(Responses) THEN Responses[i] ELSE new[i - Len(Responses)]
    BY <1>3, <1>5
  <1>8. \A i \in 1 .. Len(Responses) : Responses'[i] = Responses[i]
    BY <1>4, <1>7
  <1>9. \A i \in 1 .. Len(new) : Responses'[Len(Responses) + i] = new[i]
    BY <1>4, <1>7
  <1>10. down' \in Seq(Messages)
    BY <1>1, ConcatProperties
  <1> QED BY <1>4, <1>6, <1>8, <1>9, <1>10

\* The first request is the oldest one that has not been handled or lost, and
\* the server accepts it only if none was lost before it.
LEMMA FirstRequest ==
  ASSUME NEW n \in 0 .. MaxCalls, NEW h \in 0 .. n, NEW a \in 0 .. h,
         EngineFits(n, a, h), up # <<>>, UNCHANGED ws, up' = Tail(up)
  PROVE  /\ ws = "connected" /\ Head(up) \in Calls /\ Head(up) \in h + 1 .. n
         /\ Head(up) = n - Len(up) + 1
         /\ Requests = up /\ Requests' = Tail(up)
         /\ Tail(up) \in Seq(Calls) /\ Len(Tail(up)) = Len(up) - 1 /\ Len(up) \in Nat \ {0}
         /\ \A i \in 1 .. Len(up) - 1 : Tail(up)[i] = n - (Len(up) - 1) + i
         /\ (Head(up) - 1 # 0 /\ server.rx # 0 /\ Head(up) - 1 # server.rx + 1)
                => ~Early /\ Head(up) # h + 1
         /\ ~(Head(up) - 1 # 0 /\ server.rx # 0 /\ Head(up) - 1 # server.rx + 1)
                => Head(up) = h + 1
  <1>0. /\ n \in Nat /\ h \in Nat /\ a \in Nat /\ MaxCalls \in Nat
        /\ a <= h /\ h <= n /\ n <= MaxCalls
    BY Positions
  <1>1. ws = "connected" /\ up \in Seq(Calls)
    BY DEF EngineFits, SocketFits
  <1>2. Requests = up /\ Requests' = Tail(up)
    BY <1>1 DEF Requests
  <1>3. /\ Tail(up) \in Seq(Calls) /\ Len(Tail(up)) = Len(up) - 1 /\ Len(up) \in Nat \ {0}
        /\ Head(up) = up[1] /\ Head(up) \in Calls
        /\ \A i \in 1 .. Len(up) - 1 : Tail(up)[i] = up[i + 1]
        /\ DOMAIN up = 1 .. Len(up)
    BY <1>1, HeadTailProperties, LenProperties, EmptySeq
  <1>4. /\ Len(up) <= n - h
        /\ \A i \in 1 .. Len(up) : up[i] = n - Len(up) + i
    <2>1. RequestsFit(n, h)
      BY DEF EngineFits
    <2> QED BY <1>2, <1>3, <2>1 DEF RequestsFit
  <1>5. Head(up) = n - Len(up) + 1 /\ Head(up) \in h + 1 .. n
    BY <1>0, <1>3, <1>4
  <1>6. \A i \in 1 .. Len(up) - 1 : Tail(up)[i] = n - (Len(up) - 1) + i
    BY <1>0, <1>3, <1>4
  <1>7. server.rx = IF h = 0 THEN 0 ELSE h - 1
    BY DEF EngineFits, ServerFits
  <1>8. Early => Len(up) = n - h
    BY <1>1, <1>2 DEF EngineFits, NothingLost
  <1>9. server.rx = 0 => Early
    BY DEF Early
  <1>10. (Head(up) - 1 # 0 /\ server.rx # 0 /\ Head(up) - 1 # server.rx + 1)
                => ~Early /\ Head(up) # h + 1
    BY <1>0, <1>5, <1>7, <1>8
  <1>11. ~(Head(up) - 1 # 0 /\ server.rx # 0 /\ Head(up) - 1 # server.rx + 1)
                => Head(up) = h + 1
    BY <1>0, <1>3, <1>5, <1>7, <1>8, <1>9
  <1> QED BY <1>1, <1>2, <1>3, <1>5, <1>6, <1>10, <1>11

\* A request after a gap: the server answers with an error, and will close.
LEMMA RejectStep ==
  ASSUME NEW n \in 0 .. MaxCalls, NEW h \in 0 .. n, NEW a \in 0 .. h,
         EngineFits(n, a, h), up # <<>>, ~Early,
         up' = Tail(up), down' = Append(down, FatalError),
         server' = [server EXCEPT !.closing = TRUE],
         UNCHANGED <<engine, ws, requestQueue, blobs, drops>>
  PROVE  EngineInv'
  <1>0. /\ n \in Nat /\ h \in Nat /\ a \in Nat /\ MaxCalls \in Nat
        /\ a <= h /\ h <= n /\ n <= MaxCalls
    BY Positions
  <1>1. /\ ws = "connected" /\ Requests = up /\ Requests' = Tail(up)
        /\ Tail(up) \in Seq(Calls) /\ Len(Tail(up)) = Len(up) - 1 /\ Len(up) \in Nat \ {0}
        /\ \A i \in 1 .. Len(up) - 1 : Tail(up)[i] = n - (Len(up) - 1) + i
    BY FirstRequest
  <1>2. SocketFits /\ RequestsFit(n, h) /\ ServerFits(h) /\ ResponsesFit(a, h)
        /\ CallersFit(n, a) /\ PendingFits(n, a) /\ BatchesFit(a)
    BY DEF EngineFits
  <1>3. UNCHANGED <<made, pending, numRequestsPending, rxSeqId, batches, answer>>
    BY DEF engine
  <1>4. PICK new : new = <<FatalError>>
    OBVIOUS
  <1>5. /\ new \in Seq(Messages) /\ Len(new) = 1 /\ new[1] = FatalError
        /\ down' = down \o new /\ UNCHANGED blobs
    <2>1. FatalError \in Messages /\ down \in Seq(Messages)
      BY <1>2 DEF SocketFits, Messages
    <2>2. down' = down \o new
      BY <1>4, <2>1, AppendIsConcat
    <2> QED BY <1>4, <2>1, <2>2
  <1>6. /\ down' \in Seq(Messages)
        /\ Len(Responses) \in Nat
        /\ DOMAIN Responses = 1 .. Len(Responses)
        /\ DOMAIN Responses' = 1 .. Len(Responses) + 1
        /\ \A i \in 1 .. Len(Responses) : Responses'[i] = Responses[i]
        /\ Responses'[Len(Responses) + 1] = FatalError
    <2>1. SocketFits /\ new \in Seq(Messages) /\ down' = down \o new /\ UNCHANGED blobs
      BY <1>2, <1>5
    <2>2. /\ down' \in Seq(Messages)
          /\ Len(Responses) \in Nat
          /\ DOMAIN Responses = 1 .. Len(Responses)
          /\ DOMAIN Responses' = 1 .. Len(Responses) + Len(new)
          /\ \A i \in 1 .. Len(Responses) : Responses'[i] = Responses[i]
          /\ \A i \in 1 .. Len(new) : Responses'[Len(Responses) + i] = new[i]
      BY <2>1, SendDown
    <2>3. Responses'[Len(Responses) + 1] = FatalError
      BY <1>5, <2>2
    <2> QED BY <1>5, <2>2, <2>3
  <1>7. Messages' = Messages /\ FatalError' = FatalError
    BY DEF Messages, Replies, FatalError
  <1>8. SocketFits'
    BY <1>1, <1>2, <1>6, <1>7 DEF SocketFits
  <1>9. RequestsFit(n, h)'
    <2>1. Len(Requests') <= n - h
      BY <1>0, <1>1, <1>2 DEF RequestsFit
    <2>2. DOMAIN Requests' = 1 .. Len(up) - 1
      BY <1>1, LenProperties
    <2> QED BY <1>1, <2>1, <2>2 DEF RequestsFit
  <1>10. /\ server' \in [rx : Nat, tx : Nat, closing : BOOLEAN]
         /\ server'.rx = server.rx /\ server'.tx = server.tx
    BY <1>2 DEF ServerFits
  <1>11. ServerFits(h)' /\ ~Early'
    BY <1>2, <1>3, <1>10 DEF ServerFits, Early
  <1>12. CallersFit(n, a)' /\ PendingFits(n, a)' /\ BatchesFit(a)'
    <2>1. CallersFit(n, a)'
      BY <1>2, <1>3 DEF CallersFit
    <2>2. PendingFits(n, a)'
      BY <1>2, <1>3 DEF PendingFits
    <2>3. BatchesFit(a)'
      BY <1>2, <1>3 DEF BatchesFit
    <2> QED BY <2>1, <2>2, <2>3
  <1>13. \A m : ResponseFits(m, a, h)' <=> ResponseFits(m, a, h)
    BY <1>3, <1>10 DEF ResponseFits, IsNext, Replies
  <1>14. ASSUME NEW i \in DOMAIN Responses'
         PROVE  Responses'[i] = FatalError \/ (ResponseFits(Responses[i], a, h))'
    <2>1. PICK m : m = Responses'[i]
      OBVIOUS
    <2>2. CASE i \in 1 .. Len(Responses)
      <3>1. m = FatalError \/ ResponseFits(m, a, h)
        BY <1>2, <1>6, <2>1, <2>2 DEF ResponsesFit
      <3>2. m = FatalError \/ ResponseFits(m, a, h)'
        BY <1>13, <3>1
      <3> QED BY <2>1, <3>2
    <2>3. CASE i = Len(Responses) + 1
      BY <1>6, <2>3
    <2> QED BY <1>6, <2>2, <2>3
  <1>15. ASSUME NEW i \in DOMAIN Responses', NEW j \in DOMAIN Responses', i < j,
               Responses'[i] # FatalError, Responses'[j] # FatalError
         PROVE  /\ Responses'[i].seq < Responses'[j].seq
                /\ Responses'[j].seq = Responses'[i].seq + 1 => Follows(Responses'[i], Responses'[j])
    <2>1. i \in DOMAIN Responses /\ j \in DOMAIN Responses
      BY <1>6, <1>15
    <2> QED BY <1>2, <1>6, <1>15, <2>1 DEF ResponsesFit
  <1>16. (rxSeqId # 0 /\ rxSeqId = server.tx - 1 => a = h /\ NoBatches)'
    BY <1>2, <1>3, <1>10 DEF ResponsesFit, NoBatches
  <1>17. ResponsesFit(a, h)'
    BY <1>7, <1>14, <1>15, <1>16 DEF ResponsesFit, Follows
  <1>18. EngineFits(n, a, h)'
    BY <1>8, <1>9, <1>11, <1>12, <1>17 DEF EngineFits
  <1> QED BY <1>18 DEF EngineInv

\* new are the N responses to call c.
AreResponses(c, N, new) ==
    N = NumResponses(made[c]) /\ new = [i \in 1 .. N |-> Response(c, i)]

\* The responses to a call.
LEMMA NewResponses ==
  ASSUME NEW c \in Calls, made[c] \in Kinds, server.tx \in Nat,
         NEW N, NEW new, AreResponses(c, N, new)
  PROVE  /\ N \in Nat \ {0}
         /\ new \in Seq(Messages) /\ Len(new) = N
         /\ \A i \in 1 .. N :
               /\ new[i] \in Replies /\ new[i].seq = server.tx + i - 1
               /\ new[i].kind = made[c] /\ new[i].call = c /\ new[i].batch = i
               /\ new[i].last <=> i = N
  <1>1. N \in Nat \ {0}
    BY EngineAssumption DEF NumResponses, AreResponses
  <1>2. ASSUME NEW i \in 1 .. N
        PROVE  /\ Response(c, i) \in Replies /\ Response(c, i).seq = server.tx + i - 1
               /\ Response(c, i).kind = made[c] /\ Response(c, i).call = c
               /\ Response(c, i).batch = i
               /\ Response(c, i).last <=> i = N
    <2>1. server.tx + i - 1 \in Nat /\ i \in Nat \ {0}
      BY <1>1
    <2> QED BY <2>1 DEF Response, Replies, AreResponses
  <1>3. \A i \in 1 .. N : new[i] = Response(c, i)
    BY DEF AreResponses
  <1>4. new \in [1 .. N -> Messages]
    BY <1>2 DEF Messages, AreResponses
  <1>5. new \in Seq(Messages)
    BY <1>1, <1>4, SeqDef
  <1>6. Len(new) = N
    <2>1. DOMAIN new = 1 .. N /\ DOMAIN new = 1 .. Len(new) /\ Len(new) \in Nat
      BY <1>4, <1>5, LenProperties
    <2> QED BY <1>1, <2>1
  <1> QED BY <1>1, <1>2, <1>3, <1>5, <1>6

\* ServerHandles for a request that it accepts.
ServerAnswers(c, N) ==
    /\ up # <<>> /\ ~server.closing
    /\ c = Head(up) /\ N = NumResponses(made[c])
    /\ up' = Tail(up)
    /\ down' = down \o [i \in 1 .. N |-> Response(c, i)]
    /\ server' = [server EXCEPT !.rx = c - 1, !.tx = @ + N]
    /\ UNCHANGED <<engine, ws, requestQueue, blobs, drops>>

\* A request without a gap: its responses follow those under way.
LEMMA HandleStep ==
  ASSUME NEW n \in 0 .. MaxCalls, NEW h \in 0 .. n, NEW a \in 0 .. h,
         EngineFits(n, a, h), NEW c, c = h + 1, NEW N, ServerAnswers(c, N)
  PROVE  EngineInv'
  <1>0. /\ n \in Nat /\ h \in Nat /\ a \in Nat /\ MaxCalls \in Nat
        /\ a <= h /\ h <= n /\ n <= MaxCalls
    BY Positions
  <1>1. /\ ws = "connected" /\ Requests = up /\ Requests' = Tail(up)
        /\ c \in Calls /\ c \in h + 1 .. n /\ c = n - Len(up) + 1
        /\ Tail(up) \in Seq(Calls) /\ Len(Tail(up)) = Len(up) - 1 /\ Len(up) \in Nat \ {0}
        /\ \A i \in 1 .. Len(up) - 1 : Tail(up)[i] = n - (Len(up) - 1) + i
    BY FirstRequest DEF ServerAnswers
  <1>2. SocketFits /\ RequestsFit(n, h) /\ ServerFits(h) /\ ResponsesFit(a, h)
        /\ CallersFit(n, a) /\ PendingFits(n, a) /\ BatchesFit(a)
    BY DEF EngineFits
  <1>3. UNCHANGED <<made, pending, numRequestsPending, rxSeqId, batches, answer>>
    BY DEF ServerAnswers, engine
  <1>4. c <= n /\ made[c] \in Kinds /\ server.tx \in Nat /\ server.rx \in Nat
    BY <1>0, <1>1, <1>2 DEF CallersFit, ServerFits
  <1>5. PICK new : new = [i \in 1 .. N |-> Response(c, i)]
    OBVIOUS
  <1>6. /\ N \in Nat \ {0}
        /\ new \in Seq(Messages) /\ Len(new) = N
        /\ \A i \in 1 .. N :
              /\ new[i] \in Replies /\ new[i].seq = server.tx + i - 1
              /\ new[i].kind = made[c] /\ new[i].call = c /\ new[i].batch = i
              /\ new[i].last <=> i = N
    <2>1. AreResponses(c, N, new)
      BY <1>5 DEF ServerAnswers, AreResponses
    <2> QED BY <1>1, <1>4, <2>1, NewResponses
  <1>7. down' = down \o new /\ UNCHANGED <<blobs, ws, requestQueue>> /\ up' = Tail(up)
    BY <1>5 DEF ServerAnswers
  <1> DEFINE L == Len(Responses)
  <1>8. /\ down' \in Seq(Messages) /\ L \in Nat /\ DOMAIN Responses = 1 .. L
        /\ Len(Responses') = L + N /\ DOMAIN Responses' = 1 .. L + N
        /\ \A i \in 1 .. L : Responses'[i] = Responses[i]
        /\ \A i \in 1 .. N : Responses'[L + i] = new[i]
    <2>1. /\ down' \in Seq(Messages) /\ L \in Nat /\ DOMAIN Responses = 1 .. L
          /\ Len(Responses') = L + Len(new) /\ DOMAIN Responses' = 1 .. L + Len(new)
          /\ \A i \in 1 .. L : Responses'[i] = Responses[i]
          /\ \A i \in 1 .. Len(new) : Responses'[L + i] = new[i]
      BY <1>2, <1>6, <1>7, SendDown
    <2> QED BY <1>6, <2>1
  <1> HIDE DEF L
  <1>9. Messages' = Messages /\ FatalError' = FatalError /\ Replies' = Replies
    BY DEF Messages, Replies, FatalError
  <1>10. SocketFits'
    BY <1>1, <1>2, <1>7, <1>8, <1>9 DEF SocketFits
  <1>11. RequestsFit(n, h + 1)'
    <2>1. Len(Requests') <= n - (h + 1)
      BY <1>0, <1>1, <1>2 DEF RequestsFit
    <2>2. DOMAIN Requests' = 1 .. Len(up) - 1
      BY <1>1, LenProperties
    <2> QED BY <1>1, <2>1, <2>2 DEF RequestsFit
  <1>12. /\ server'.rx = h /\ server'.tx = server.tx + N /\ ~server'.closing
         /\ server' \in [rx : Nat, tx : Nat, closing : BOOLEAN]
    <2>1. server \in [rx : Nat, tx : Nat, closing : BOOLEAN] /\ c - 1 = h /\ server.tx + N \in Nat
      BY <1>0, <1>2, <1>4, <1>6 DEF ServerFits
    <2>2. server' = [server EXCEPT !.rx = h, !.tx = server.tx + N] /\ ~server.closing
      BY <2>1 DEF ServerAnswers
    <2> QED BY <1>0, <2>1, <2>2
  <1>13. ServerFits(h + 1)'
    BY <1>0, <1>2, <1>3, <1>6, <1>12 DEF ServerFits
  <1>14. CallersFit(n, a)' /\ PendingFits(n, a)' /\ BatchesFit(a)'
    <2>1. CallersFit(n, a)'
      BY <1>2, <1>3 DEF CallersFit
    <2>2. PendingFits(n, a)'
      BY <1>2, <1>3 DEF PendingFits
    <2>3. BatchesFit(a)'
      BY <1>2, <1>3 DEF BatchesFit
    <2> QED BY <2>1, <2>2, <2>3
  <1>15. NoBatches => Len(batches[h + 1]) = 0
    BY <1>1, EmptySeq DEF NoBatches
  <1>16. \A m : ResponseFits(m, a, h) => ResponseFits(m, a, h + 1)'
    <2> SUFFICES ASSUME NEW m, ResponseFits(m, a, h) PROVE ResponseFits(m, a, h + 1)'
      OBVIOUS
    <2>1. m.seq \in Nat /\ m.call \in Nat /\ m.seq < server.tx /\ m.call <= h
      BY <1>0 DEF ResponseFits, Replies, Calls
    <2>2. m.seq < server.tx + N /\ m.call <= h + 1 /\ m.seq # server.tx + N - 1
      BY <1>0, <1>4, <1>6, <2>1
    <2>3. /\ m \in Replies' /\ m.kind = made'[m.call] /\ m.batch <= NumResponses(m.kind)
          /\ m.last <=> m.batch = NumResponses(m.kind)
      BY <1>3, <1>9 DEF ResponseFits
    <2>4. /\ rxSeqId' # 0 => m.seq > rxSeqId'
          /\ rxSeqId' # 0 /\ m.seq = rxSeqId' + 1 => IsNext(m, a)'
      BY <1>3 DEF ResponseFits, IsNext
    <2>5. m.seq < server'.tx /\ ~(m.seq = server'.tx - 1)
      <3>1. server'.tx = server.tx + N
        BY <1>12
      <3> QED BY <1>4, <1>6, <2>1, <2>2, <3>1
    <2> QED BY <2>2, <2>3, <2>4, <2>5 DEF ResponseFits, NumResponses
  <1>17. ASSUME NEW i \in 1 .. N, NEW m, m = new[i] PROVE ResponseFits(m, a, h + 1)'
    <2>1. /\ m \in Replies /\ m.seq = server.tx + i - 1
          /\ m.kind = made[c] /\ m.call = c /\ m.batch = i
          /\ m.last <=> i = N
      BY <1>6, <1>17
    <2>2. i \in Nat /\ i >= 1 /\ i <= N
      BY <1>6
    <2>3. m.seq < server.tx + N /\ (rxSeqId # 0 => m.seq > rxSeqId)
      BY <1>2, <1>4, <1>6, <2>1, <2>2 DEF ServerFits
    <2>4. rxSeqId # 0 /\ m.seq = rxSeqId + 1 => IsNext(m, a)
      <3>1. rxSeqId # 0 /\ m.seq = rxSeqId + 1 => i = 1 /\ rxSeqId = server.tx - 1
        BY <1>2, <1>4, <2>1, <2>2 DEF ServerFits
      <3>2. rxSeqId # 0 /\ rxSeqId = server.tx - 1 => a = h /\ NoBatches
        BY <1>2 DEF ResponsesFit
      <3> QED BY <1>0, <1>15, <2>1, <3>1, <3>2 DEF IsNext
    <2>5. m.seq = server.tx + N - 1 => i = N
      BY <1>4, <1>6, <2>1, <2>2
    <2>6. N = NumResponses(m.kind)
      BY <2>1 DEF ServerAnswers
    <2>7. /\ m \in Replies' /\ m.call <= h + 1 /\ m.kind = made'[m.call]
          /\ m.batch <= NumResponses(m.kind)
          /\ m.last <=> m.batch = NumResponses(m.kind)
      BY <1>0, <1>3, <1>9, <2>1, <2>2, <2>6
    <2>8. /\ rxSeqId' # 0 => m.seq > rxSeqId'
          /\ rxSeqId' # 0 /\ m.seq = rxSeqId' + 1 => IsNext(m, a)'
      BY <1>3, <2>3, <2>4 DEF IsNext
    <2>9. m.seq < server'.tx /\ (m.seq = server'.tx - 1 => m.call = h + 1 /\ m.last)
      <3>1. server'.tx = server.tx + N
        BY <1>12
      <3>2. m.seq = server.tx + N - 1 => m.last
        BY <2>1, <2>5, Zenon
      <3> QED BY <1>4, <1>6, <2>1, <2>2, <2>3, <3>1, <3>2
    <2> QED BY <2>7, <2>8, <2>9 DEF ResponseFits, NumResponses
  <1>18. \A i \in 1 .. L + N : i \in 1 .. L \/ \E j \in 1 .. N : i = L + j
    <2> SUFFICES ASSUME NEW i \in 1 .. L + N, i > L PROVE \E j \in 1 .. N : i = L + j
      <3>1. L \in Nat /\ N \in Nat
        BY <1>6, <1>8
      <3> QED BY <3>1
    <2>1. i - L \in 1 .. N /\ i = L + (i - L)
      BY <1>6, <1>8
    <2> QED BY <2>1
  <1>19. ASSUME NEW i \in 1 .. L + N
         PROVE  Responses'[i] = FatalError \/ (ResponseFits(Responses[i], a, h + 1))'
    <2>1. PICK m : m = Responses'[i]
      OBVIOUS
    <2>2. CASE i \in 1 .. L
      <3>1. m = FatalError \/ ResponseFits(m, a, h)
        BY <1>2, <1>8, <2>1, <2>2 DEF ResponsesFit
      <3>2. m = FatalError \/ ResponseFits(m, a, h + 1)'
        BY <1>16, <3>1
      <3> QED BY <2>1, <3>2
    <2>3. ASSUME NEW j \in 1 .. N, i = L + j PROVE ResponseFits(m, a, h + 1)'
      BY <1>8, <1>17, <2>1, <2>3
    <2>4. CASE \E j \in 1 .. N : i = L + j
      <3>1. ResponseFits(m, a, h + 1)'
        BY <2>3, <2>4
      <3> QED BY <2>1, <3>1
    <2> QED BY <1>18, <2>2, <2>4
  <1>20. ASSUME NEW i \in 1 .. L + N, NEW j \in 1 .. L + N, i < j,
                Responses'[i] # FatalError, Responses'[j] # FatalError
         PROVE  /\ Responses'[i].seq < Responses'[j].seq
                /\ Responses'[j].seq = Responses'[i].seq + 1 => Follows(Responses'[i], Responses'[j])
    <2>1. CASE j \in 1 .. L
      <3>1. i \in DOMAIN Responses /\ j \in DOMAIN Responses
            /\ Responses'[i] = Responses[i] /\ Responses'[j] = Responses[j]
        BY <1>8, <1>20, <2>1
      <3> QED BY <1>2, <1>20, <3>1 DEF ResponsesFit
    <2>2. ASSUME NEW k \in 1 .. N, j = L + k, i \in 1 .. L
          PROVE  /\ Responses'[i].seq < Responses'[j].seq
                 /\ Responses'[j].seq = Responses'[i].seq + 1 => Follows(Responses'[i], Responses'[j])
      <3>1. PICK m1, m2 : m1 = Responses[i] /\ m2 = new[k]
        OBVIOUS
      <3>2. Responses'[i] = m1 /\ Responses'[j] = m2
        BY <1>8, <2>2, <3>1
      <3>3. ResponseFits(m1, a, h)
        BY <1>2, <1>8, <1>20, <2>2, <3>1, <3>2 DEF ResponsesFit
      <3>4. m1.seq \in Nat /\ m1.seq < server.tx /\ (m1.seq = server.tx - 1 => m1.call = h /\ m1.last)
        BY <3>3 DEF ResponseFits, Replies
      <3>5. m2.seq = server.tx + k - 1 /\ m2.call = h + 1 /\ m2.batch = k /\ k \in Nat /\ k >= 1
        BY <1>6, <3>1
      <3>6. m1.seq < m2.seq /\ (m2.seq = m1.seq + 1 => k = 1 /\ m1.seq = server.tx - 1)
        BY <1>4, <3>4, <3>5
      <3>7. m2.seq = m1.seq + 1 => Follows(m1, m2)
        BY <3>4, <3>5, <3>6 DEF Follows
      <3> QED BY <3>2, <3>6, <3>7
    <2>3. ASSUME NEW k \in 1 .. N, NEW l \in 1 .. N, j = L + k, i = L + l
          PROVE  /\ Responses'[i].seq < Responses'[j].seq
                 /\ Responses'[j].seq = Responses'[i].seq + 1 => Follows(Responses'[i], Responses'[j])
      <3>1. PICK m1, m2 : m1 = new[l] /\ m2 = new[k]
        OBVIOUS
      <3>2. Responses'[i] = m1 /\ Responses'[j] = m2
        BY <1>8, <2>3, <3>1
      <3>3. l < k /\ k \in Nat /\ l \in Nat /\ k <= N
        BY <1>6, <1>8, <1>20, <2>3
      <3>4. m1.seq = server.tx + l - 1 /\ m1.call = c /\ m1.batch = l /\ ~m1.last
        <4>1. m1.seq = server.tx + l - 1 /\ m1.call = c /\ m1.batch = l /\ (m1.last <=> l = N)
          BY <1>6, <3>1, Zenon
        <4> QED BY <3>3, <4>1
      <3>5. m2.seq = server.tx + k - 1 /\ m2.call = c /\ m2.batch = k
        BY <1>6, <3>1
      <3>6. m1.seq < m2.seq /\ (m2.seq = m1.seq + 1 => k = l + 1)
        BY <1>4, <3>3, <3>4, <3>5
      <3>7. m2.seq = m1.seq + 1 => Follows(m1, m2)
        BY <3>4, <3>5, <3>6 DEF Follows
      <3> QED BY <3>2, <3>6, <3>7
    <2>4. CASE j \notin 1 .. L
      <3>1. PICK k \in 1 .. N : j = L + k
        BY <1>18, <2>4
      <3>2. CASE i \in 1 .. L
        BY <2>2, <3>1, <3>2
      <3>3. ASSUME NEW l \in 1 .. N, i = L + l
            PROVE  /\ Responses'[i].seq < Responses'[j].seq
                   /\ Responses'[j].seq = Responses'[i].seq + 1 => Follows(Responses'[i], Responses'[j])
        BY <2>3, <3>1, <3>3
      <3> QED BY <1>18, <3>2, <3>3
    <2> QED BY <2>1, <2>4
  <1>21. ~(rxSeqId' # 0 /\ rxSeqId' = server'.tx - 1)
    BY <1>2, <1>3, <1>4, <1>6, <1>12 DEF ServerFits
  <1>22. ResponsesFit(a, h + 1)'
    BY <1>8, <1>9, <1>19, <1>20, <1>21 DEF ResponsesFit, Follows
  <1>23. Early' => NothingLost(n, a, h + 1)'
    <2> SUFFICES ASSUME Early' PROVE NothingLost(n, a, h + 1)'
      OBVIOUS
    <2>1. Early /\ NothingLost(n, a, h)
      <3>1. Early
        BY <1>0, <1>2, <1>3, <1>12 DEF Early, ServerFits
      <3> QED BY <3>1 DEF EngineFits
    <2>2. Len(Requests') = n - (h + 1)
      BY <1>0, <1>1, <2>1 DEF NothingLost
    <2>3. ASSUME NEW i \in 1 .. L + N PROVE Responses'[i] # FatalError
      <3>1. \A j \in 1 .. L : Responses'[j] # FatalError
        BY <1>8, <2>1 DEF NothingLost
      <3>2. \A j \in 1 .. N : Responses'[L + j] # FatalError
        BY <1>6, <1>8, FatalIsNoReply
      <3> QED BY <1>18, <3>1, <3>2
    <2>4. Responses # <<>> <=> L > 0
      BY <1>2, <1>8, EmptySeq, ResponsesType DEF L
    <2>5. L > 0 => Responses[L].seq = server.tx - 1
      BY <1>1, <2>1, <2>4 DEF NothingLost, L
    <2>6. \A j \in 1 .. N : Responses'[L + j].seq = server.tx + j - 1
      BY <1>6, <1>8
    <2>7. ASSUME NEW i \in 1 .. L + N - 1 PROVE Responses'[i + 1].seq = Responses'[i].seq + 1
      <3>1. CASE i + 1 <= L
        <4>1. i \in 1 .. L /\ i + 1 \in 1 .. L /\ i \in 1 .. L - 1
          BY <1>6, <1>8, <3>1
        <4>2. Responses[i + 1].seq = Responses[i].seq + 1
          BY <2>1, <4>1 DEF NothingLost, L
        <4> QED BY <1>8, <4>1, <4>2
      <3>2. CASE i = L
        <4>1. L > 0 /\ L \in 1 .. L /\ 1 \in 1 .. N
          BY <1>6, <1>8, <3>2
        <4>2. Responses'[L].seq = server.tx - 1
          BY <1>8, <2>5, <4>1
        <4>3. Responses'[L + 1].seq = server.tx
          BY <1>4, <2>6, <4>1
        <4> QED BY <1>4, <3>2, <4>2, <4>3
      <3>3. CASE i > L
        <4>1. i - L \in 1 .. N /\ i - L + 1 \in 1 .. N /\ i = L + (i - L) /\ i + 1 = L + (i - L + 1)
          BY <1>6, <1>8, <3>3
        <4>2. Responses'[i].seq = server.tx + (i - L) - 1
          BY <2>6, <4>1
        <4>3. Responses'[i + 1].seq = server.tx + (i - L + 1) - 1
          BY <2>6, <4>1
        <4>4. i \in Nat
          BY <1>6, <1>8
        <4> QED BY <1>4, <1>8, <4>2, <4>3, <4>4
      <3> QED BY <1>6, <1>8, <3>1, <3>2, <3>3
    <2>8. IsNext(Responses'[1], a) /\ (rxSeqId # 0 => Responses'[1].seq = rxSeqId + 1)
      <3>1. CASE L > 0
        <4>1. Responses'[1] = Responses[1]
          BY <1>8, <3>1
        <4> QED BY <2>1, <2>4, <3>1, <4>1 DEF NothingLost
      <3>2. CASE L = 0
        <4>1. Responses'[1] = new[1] /\ 1 \in 1 .. N
          <5>1. 1 \in 1 .. N /\ L + 1 = 1
            BY <1>6, <3>2
          <5>2. Responses'[L + 1] = new[1]
            BY <1>8, <5>1
          <5> QED BY <5>1, <5>2
        <4>2. a = h /\ NoBatches /\ (rxSeqId # 0 => rxSeqId = server.tx - 1)
          BY <1>1, <2>1, <2>4, <3>2 DEF NothingLost
        <4>3. Responses'[1].seq = server.tx /\ Responses'[1].call = h + 1 /\ Responses'[1].batch = 1
          BY <1>4, <1>6, <4>1
        <4>4. IsNext(Responses'[1], a)
          BY <1>15, <4>2, <4>3 DEF IsNext
        <4> QED BY <1>4, <4>2, <4>3, <4>4
      <3> QED BY <1>8, <3>1, <3>2
    <2>9. Responses' # <<>>
      BY <1>6, <1>8
    <2>10. Responses'[L + N].seq = server'.tx - 1
      <3>1. N \in 1 .. N
        BY <1>6
      <3>2. Responses'[L + N].seq = server.tx + N - 1
        BY <2>6, <3>1, Zenon
      <3>3. server'.tx = server.tx + N
        BY <1>12
      <3> QED BY <1>4, <1>6, <3>2, <3>3
    <2>11. (IsNext(Responses[1], a) /\ (rxSeqId # 0 => Responses[1].seq = rxSeqId + 1))'
      BY <1>3, <2>8 DEF IsNext
    <2>12. ~server'.closing /\ ws' # "disposed"
      BY <1>1, <1>7, <1>12
    <2>13. \A i \in DOMAIN Responses' : Responses'[i] # FatalError'
      BY <1>8, <1>9, <2>3
    <2>14. \A i \in 1 .. Len(Responses') - 1 : Responses'[i + 1].seq = Responses'[i].seq + 1
      <3>1. Len(Responses') - 1 = L + N - 1
        BY <1>6, <1>8
      <3> QED BY <2>7, <3>1
    <2>15. Responses'[Len(Responses')].seq = server'.tx - 1
      BY <1>8, <2>10
    <2> QED BY <2>2, <2>9, <2>11, <2>12, <2>13, <2>14, <2>15 DEF NothingLost
  <1>24. EngineFits(n, a, h + 1)'
    BY <1>10, <1>11, <1>13, <1>14, <1>22, <1>23 DEF EngineFits
  <1>25. h + 1 \in 0 .. n /\ a \in 0 .. h + 1
    BY <1>0, <1>1
  <1> QED BY <1>24, <1>25 DEF EngineInv

\* The server takes the next request, answers it, or drops one out of sequence.
LEMMA ServerStep ==
  ASSUME NEW n \in 0 .. MaxCalls, NEW h \in 0 .. n, NEW a \in 0 .. h,
         EngineFits(n, a, h), ServerHandles
  PROVE  EngineInv'
  <1>1. PICK c, N : c = Head(up) /\ N = NumResponses(made[c])
    OBVIOUS
  <1>2. /\ up # <<>> /\ ~server.closing /\ up' = Tail(up)
        /\ UNCHANGED <<engine, ws, requestQueue, blobs, drops>>
    BY DEF ServerHandles
  <1>3. /\ (c - 1 # 0 /\ server.rx # 0 /\ c - 1 # server.rx + 1) => ~Early
        /\ ~(c - 1 # 0 /\ server.rx # 0 /\ c - 1 # server.rx + 1) => c = h + 1
    BY <1>1, <1>2, FirstRequest
  <1>4. CASE c - 1 # 0 /\ server.rx # 0 /\ c - 1 # server.rx + 1
    <2>1. down' = Append(down, FatalError) /\ server' = [server EXCEPT !.closing = TRUE]
      BY <1>1, <1>4 DEF ServerHandles
    <2> QED BY <1>2, <1>3, <1>4, <2>1, RejectStep
  <1>5. CASE ~(c - 1 # 0 /\ server.rx # 0 /\ c - 1 # server.rx + 1)
    <2>1. /\ down' = down \o [i \in 1 .. N |-> Response(c, i)]
          /\ server' = [server EXCEPT !.rx = c - 1, !.tx = @ + N]
      BY <1>1, <1>5 DEF ServerHandles
    <2> QED BY <1>1, <1>2, <1>3, <1>5, <2>1, HandleStep DEF ServerAnswers
  <1> QED BY <1>4, <1>5

-----------------------------------------------------------------------------
(***************************************************************************)
(* The engine handles the first of the messages that arrived.              *)
(***************************************************************************)
\* What OnRpcResponse does whatever the message r says.
TakesMessage(r) ==
    /\ blobs # <<>> /\ r = Head(blobs) /\ blobs' = Tail(blobs)
    /\ UNCHANGED <<made, ws, requestQueue, up, down, server>>

\* The message was the first one, and the others remain.
LEMMA TakeMessage ==
  ASSUME SocketFits, NEW r, TakesMessage(r)
  PROVE  /\ r = Responses[1] /\ Len(Responses) \in Nat \ {0}
         /\ DOMAIN Responses = 1 .. Len(Responses)
         /\ Len(Responses') = Len(Responses) - 1
         /\ DOMAIN Responses' = 1 .. Len(Responses) - 1
         /\ \A i \in 1 .. Len(Responses) - 1 : Responses'[i] = Responses[i + 1]
         /\ SocketFits'
  <1>1. blobs \in Seq(Messages) /\ down \in Seq(Messages) /\ blobs # <<>>
        /\ r = Head(blobs) /\ Responses' = Tail(blobs) \o down
    BY DEF SocketFits, TakesMessage, Responses
  <1>2. /\ Len(blobs \o down) \in Nat \ {0}
        /\ Head(blobs) = (blobs \o down)[1]
        /\ Tail(blobs) \o down \in Seq(Messages)
        /\ Len(Tail(blobs) \o down) = Len(blobs \o down) - 1
        /\ \A i \in 1 .. Len(blobs \o down) - 1 : (Tail(blobs) \o down)[i] = (blobs \o down)[i + 1]
    BY <1>1, TakeHead
  <1>3. DOMAIN (Tail(blobs) \o down) = 1 .. Len(blobs \o down) - 1
    BY <1>2, LenProperties
  <1>4. DOMAIN Responses = 1 .. Len(Responses)
    BY ResponsesType
  <1>5. Messages' = Messages
    BY DEF Messages, Replies, FatalError
  <1>6. blobs' \in Seq(Messages)
    BY <1>1, HeadTailProperties DEF TakesMessage
  <1>7. SocketFits'
    BY <1>5, <1>6 DEF SocketFits, TakesMessage
  <1> QED BY <1>1, <1>2, <1>3, <1>4, <1>7, Zenon DEF Responses

\* A message that makes the engine fail: either it is the server's error, or
\* there is a gap before it.
LEMMA FailStep ==
  ASSUME NEW n \in 0 .. MaxCalls, NEW h \in 0 .. n, NEW a \in 0 .. h,
         EngineFits(n, a, h), NEW r, TakesMessage(r), Fails(r),
         UNCHANGED <<pending, numRequestsPending, rxSeqId, batches, answer>>
  PROVE  EngineInv'
  <1>1. SocketFits /\ RequestsFit(n, h) /\ ServerFits(h) /\ ResponsesFit(a, h)
        /\ CallersFit(n, a) /\ PendingFits(n, a) /\ BatchesFit(a)
    BY DEF EngineFits
  <1>2. UNCHANGED <<made, ws, requestQueue, up, down, server>>
    BY DEF TakesMessage
  <1> DEFINE L == Len(Responses)
  <1>3. /\ r = Responses[1] /\ L \in Nat \ {0} /\ DOMAIN Responses = 1 .. L
        /\ DOMAIN Responses' = 1 .. L - 1
        /\ \A i \in 1 .. L - 1 : Responses'[i] = Responses[i + 1]
        /\ SocketFits'
    BY <1>1, TakeMessage
  <1> HIDE DEF L
  <1>4. ~Early
    <2> SUFFICES ASSUME Early PROVE FALSE
      OBVIOUS
    <2>1. NothingLost(n, a, h) /\ 1 \in DOMAIN Responses /\ Responses # <<>>
      BY <1>3 DEF EngineFits
    <2>2. r # FatalError /\ (rxSeqId # 0 => r.seq = rxSeqId + 1)
      BY <1>3, <2>1 DEF NothingLost
    <2>3. r \in Replies
      BY <1>1, <1>3, <2>1, <2>2 DEF ResponsesFit, ResponseFits
    <2>4. r.fatal = FALSE
      BY <2>3, FatalIsNoReply
    <2> QED BY <2>2, <2>4 DEF Fails
  <1>5. \A m : ResponseFits(m, a, h)' <=> ResponseFits(m, a, h)
    BY <1>2 DEF ResponseFits, IsNext, Replies
  <1>6. ASSUME NEW i \in 1 .. L - 1
        PROVE  Responses'[i] = FatalError \/ (ResponseFits(Responses[i], a, h))'
    <2>1. PICK m : m = Responses'[i]
      OBVIOUS
    <2>2. i + 1 \in DOMAIN Responses /\ m = Responses[i + 1]
      BY <1>3, <2>1
    <2>3. m = FatalError \/ ResponseFits(m, a, h)
      BY <1>1, <2>2 DEF ResponsesFit
    <2>4. m = FatalError \/ ResponseFits(m, a, h)'
      BY <1>5, <2>3
    <2> QED BY <2>1, <2>4
  <1>7. ASSUME NEW i \in 1 .. L - 1, NEW j \in 1 .. L - 1, i < j,
               Responses'[i] # FatalError, Responses'[j] # FatalError
        PROVE  /\ Responses'[i].seq < Responses'[j].seq
               /\ Responses'[j].seq = Responses'[i].seq + 1 => Follows(Responses'[i], Responses'[j])
    <2>1. /\ i + 1 \in DOMAIN Responses /\ j + 1 \in DOMAIN Responses /\ i + 1 < j + 1
          /\ Responses'[i] = Responses[i + 1] /\ Responses'[j] = Responses[j + 1]
      BY <1>3, <1>7
    <2> QED BY <1>1, <1>7, <2>1 DEF ResponsesFit
  <1>8. (rxSeqId # 0 /\ rxSeqId = server.tx - 1 => a = h /\ NoBatches)'
    BY <1>1, <1>2 DEF ResponsesFit, NoBatches
  <1>9. ResponsesFit(a, h)'
    BY <1>3, <1>6, <1>7, <1>8 DEF ResponsesFit, Follows, FatalError
  <1>10. CallersFit(n, a)' /\ PendingFits(n, a)' /\ BatchesFit(a)'
    <2>1. CallersFit(n, a)'
      BY <1>1, <1>2 DEF CallersFit
    <2>2. PendingFits(n, a)'
      BY <1>1, <1>2 DEF PendingFits
    <2>3. BatchesFit(a)'
      BY <1>1 DEF BatchesFit
    <2> QED BY <2>1, <2>2, <2>3
  <1>11. RequestsFit(n, h)' /\ ServerFits(h)' /\ ~Early'
    BY <1>1, <1>2, <1>4 DEF RequestsFit, Requests, ServerFits, Early
  <1>12. EngineFits(n, a, h)'
    BY <1>3, <1>9, <1>10, <1>11 DEF EngineFits
  <1> QED BY <1>12 DEF EngineInv

\* A message that is accepted is the response that the callers wait for.
LEMMA AcceptedIsNext ==
  ASSUME NEW n \in 0 .. MaxCalls, NEW h \in 0 .. n, NEW a \in 0 .. h,
         EngineFits(n, a, h), NEW r, TakesMessage(r), ~Fails(r)
  PROVE  r # FatalError /\ ResponseFits(r, a, h) /\ IsNext(r, a)
  <1>1. SocketFits /\ ResponsesFit(a, h) /\ ServerFits(h)
    BY DEF EngineFits
  <1>2. r = Responses[1] /\ 1 \in DOMAIN Responses /\ Responses # <<>>
    BY <1>1, TakeMessage
  <1>3. r # FatalError
    BY FatalIsNoReply DEF Fails
  <1>4. ResponseFits(r, a, h)
    BY <1>1, <1>2, <1>3 DEF ResponsesFit
  <1>5. CASE rxSeqId = 0
    <2>1. NothingLost(n, a, h)
      BY <1>5 DEF EngineFits, Early
    <2> QED BY <1>2, <1>3, <1>4, <2>1 DEF NothingLost
  <1>6. CASE rxSeqId # 0
    <2>1. r.seq \in Nat /\ r.seq > rxSeqId /\ rxSeqId \in Nat
      BY <1>1, <1>4, <1>6 DEF ResponseFits, Replies, ServerFits
    <2>2. r.seq = rxSeqId + 1
      BY <1>6, <2>1 DEF Fails
    <2> QED BY <1>3, <1>4, <1>6, <2>2 DEF ResponseFits
  <1> QED BY <1>5, <1>6

\* Once the accepted message r is with its caller, and the answers to 1 .. b
\* are complete, the message after r is again the one that the callers wait for.
LEMMA AdvanceStep ==
  ASSUME NEW n \in 0 .. MaxCalls, NEW h \in 0 .. n, NEW a \in 0 .. h,
         EngineFits(n, a, h), NEW r, TakesMessage(r), ~Fails(r), rxSeqId' = r.seq,
         NEW b \in 0 .. h,
         \A m \in Replies : Follows(r, m) => IsNext(m, b)',
         r.call = h /\ r.last => b = h /\ NoBatches',
         CallersFit(n, b)', PendingFits(n, b)', BatchesFit(b)'
  PROVE  EngineInv'
  <1>1. SocketFits /\ RequestsFit(n, h) /\ ServerFits(h) /\ ResponsesFit(a, h)
    BY DEF EngineFits
  <1>2. UNCHANGED <<made, ws, requestQueue, up, down, server>>
    BY DEF TakesMessage
  <1> DEFINE L == Len(Responses)
  <1>3. /\ r = Responses[1] /\ L \in Nat \ {0} /\ DOMAIN Responses = 1 .. L
        /\ Len(Responses') = L - 1 /\ DOMAIN Responses' = 1 .. L - 1
        /\ \A i \in 1 .. L - 1 : Responses'[i] = Responses[i + 1]
        /\ SocketFits'
    BY <1>1, TakeMessage
  <1>4. r # FatalError /\ ResponseFits(r, a, h)
    BY AcceptedIsNext
  <1>5. /\ r.seq \in Nat /\ r.seq < server.tx /\ (rxSeqId # 0 => r.seq > rxSeqId)
        /\ r.seq = server.tx - 1 => r.call = h /\ r.last
    BY <1>4 DEF ResponseFits, Replies
  <1>6. ASSUME NEW i \in 1 .. L - 1, NEW m, m = Responses[i + 1], m # FatalError
        PROVE  m \in Replies /\ r.seq < m.seq /\ (m.seq = r.seq + 1 => IsNext(m, b)')
    <2>1. 1 \in DOMAIN Responses /\ i + 1 \in DOMAIN Responses /\ 1 < i + 1
      BY <1>3
    <2>2. r.seq < m.seq /\ (m.seq = r.seq + 1 => Follows(r, m)) /\ ResponseFits(m, a, h)
      BY <1>1, <1>3, <1>4, <1>6, <2>1 DEF ResponsesFit
    <2>3. m \in Replies
      BY <2>2 DEF ResponseFits
    <2> QED BY <2>2, <2>3
  <1>7. ASSUME NEW i \in 1 .. L - 1
        PROVE  Responses'[i] = FatalError \/ (ResponseFits(Responses[i], b, h))'
    <2>1. PICK m : m = Responses'[i]
      OBVIOUS
    <2>2. i + 1 \in DOMAIN Responses /\ m = Responses[i + 1]
      BY <1>3, <2>1
    <2>3. CASE m # FatalError
      <3>1. ResponseFits(m, a, h)
        BY <1>1, <2>2, <2>3 DEF ResponsesFit
      <3>2. m \in Replies /\ r.seq < m.seq /\ (m.seq = r.seq + 1 => IsNext(m, b)')
        BY <1>6, <2>2, <2>3
      <3>3. m.seq > r.seq
        BY <1>5, <3>2 DEF Replies
      <3>4. ResponseFits(m, b, h)'
        BY <1>2, <3>1, <3>2, <3>3 DEF ResponseFits, Replies, NumResponses
      <3> QED BY <2>1, <3>4
    <2> QED BY <2>1, <2>3
  <1>8. ASSUME NEW i \in 1 .. L - 1, NEW j \in 1 .. L - 1, i < j,
               Responses'[i] # FatalError, Responses'[j] # FatalError
        PROVE  /\ Responses'[i].seq < Responses'[j].seq
               /\ Responses'[j].seq = Responses'[i].seq + 1 => Follows(Responses'[i], Responses'[j])
    <2>1. /\ i + 1 \in DOMAIN Responses /\ j + 1 \in DOMAIN Responses /\ i + 1 < j + 1
          /\ Responses'[i] = Responses[i + 1] /\ Responses'[j] = Responses[j + 1]
      BY <1>3, <1>8
    <2> QED BY <1>1, <1>8, <2>1 DEF ResponsesFit
  <1>9. rxSeqId' # 0 /\ rxSeqId' = server'.tx - 1 => b = h /\ NoBatches'
    BY <1>2, <1>5
  <1>10. ResponsesFit(b, h)'
    BY <1>3, <1>7, <1>8, <1>9 DEF ResponsesFit, Follows, FatalError
  <1>11. RequestsFit(n, h)' /\ ServerFits(h)' /\ Requests' = Requests
    BY <1>1, <1>2, <1>5 DEF RequestsFit, Requests, ServerFits
  <1>12. Early' => NothingLost(n, b, h)'
    <2> SUFFICES ASSUME Early' PROVE NothingLost(n, b, h)'
      OBVIOUS
    <2>1. Early
      BY <1>1, <1>2, <1>5 DEF Early, ServerFits
    <2>2. NothingLost(n, a, h)
      BY <2>1 DEF EngineFits
    <2>3. /\ ~server'.closing
          /\ ws' # "disposed" => Len(Requests') = n - h
      BY <1>2, <1>11, <2>2 DEF NothingLost
    <2>4. \A i \in 1 .. L - 1 : Responses'[i] # FatalError'
      <3>1. \A i \in 1 .. L - 1 : i + 1 \in 1 .. L
        BY <1>3
      <3> QED BY <1>3, <2>2, <3>1 DEF NothingLost, FatalError
    <2>5. ASSUME NEW i \in 1 .. Len(Responses') - 1
          PROVE  Responses'[i + 1].seq = Responses'[i].seq + 1
      <3>1. /\ i \in 1 .. L - 1 /\ i + 1 \in 1 .. L - 1
        BY <1>3
      <3>2. Responses[i + 1 + 1].seq = Responses[i + 1].seq + 1
        BY <2>2, <3>1 DEF NothingLost
      <3>3. Responses'[i + 1] = Responses[i + 1 + 1] /\ Responses'[i] = Responses[i + 1]
        BY <1>3, <3>1
      <3> QED BY <1>4, <1>6, <3>2, <3>3
    <2>6. ASSUME L # 1
          PROVE  /\ (IsNext(Responses[1], b))' /\ Responses'[1].seq = r.seq + 1
                 /\ Responses'[L - 1] = Responses[L]
      <3>1. 1 \in 1 .. L - 1 /\ L - 1 \in 1 .. L - 1 /\ 2 \in 1 .. L
        BY <1>3, <2>6
      <3>2. Responses[1 + 1].seq = Responses[1].seq + 1
        BY <2>2, <3>1 DEF NothingLost
      <3>3. PICK m : m = Responses[1 + 1]
        OBVIOUS
      <3>4. m # FatalError
        BY <1>3, <2>2, <3>1, <3>3 DEF NothingLost
      <3>5. IsNext(m, b)'
        BY <1>3, <1>6, <3>1, <3>2, <3>3, <3>4
      <3>6. Responses'[1] = Responses[1 + 1] /\ Responses'[L - 1] = Responses[L - 1 + 1]
        BY <1>3, <3>1
      <3>7. L - 1 + 1 = L
        BY <1>3
      <3>8. Responses'[1] = m
        BY <3>3, <3>6
      <3>9. (IsNext(Responses[1], b))'
        BY <3>5, <3>8
      <3> QED BY <1>3, <3>2, <3>6, <3>7, <3>9
    <2>7. Responses' # <<>> => L # 1
      <3>1. Responses' \in Seq(Messages)
        BY <1>3, ConcatProperties DEF SocketFits, Responses, Messages, Replies, FatalError
      <3> QED BY <1>3, <3>1, EmptySeq
    <2>8. Responses' = <<>> => L = 1
      <3>1. Responses' = <<>> => Len(Responses') = 0
        BY EmptySeq
      <3> HIDE DEF L
      <3>2. Len(Responses') = 0 => L = 1
        BY <1>3
      <3> QED BY <3>1, <3>2
    <2>9. ws # "disposed" => Responses[L].seq = server.tx - 1
      <3>1. Responses # <<>>
        BY <1>3, EmptySeq
      <3> QED BY <2>2, <3>1 DEF NothingLost
    <2>10. Responses' # <<>> =>
              /\ (IsNext(Responses[1], b))'
              /\ rxSeqId' # 0 => Responses'[1].seq = rxSeqId' + 1
              /\ ws' # "disposed" => Responses'[Len(Responses')].seq = server'.tx - 1
      <3>1. Len(Responses') = L - 1 /\ UNCHANGED <<ws, server>>
        BY <1>2, <1>3
      <3> QED BY <2>6, <2>7, <2>9, <3>1, Zenon
    <2>11. Responses' = <<>> /\ ws' # "disposed" =>
              /\ b = h /\ NoBatches'
              /\ rxSeqId' # 0 => rxSeqId' = server'.tx - 1
      <3>1. Responses' = <<>> /\ ws # "disposed" => r.seq = server.tx - 1
        BY <1>3, <2>8, <2>9
      <3> QED BY <1>2, <1>5, <3>1
    <2>12. \A i \in DOMAIN Responses' : Responses'[i] # FatalError'
      BY <1>3, <2>4
    <2> QED BY <2>3, <2>5, <2>10, <2>11, <2>12 DEF NothingLost
  <1>13. EngineFits(n, b, h)'
    BY <1>3, <1>10, <1>11, <1>12 DEF EngineFits
  <1> QED BY <1>13 DEF EngineInv

\* The first pending promise of the kind of the next call is that of the call.
LEMMA HeadIsNext ==
  ASSUME NEW n \in 0 .. MaxCalls, NEW a \in 0 .. n, a + 1 <= n, PendingFits(n, a),
         NEW k \in Kinds \ {"metatrace"}, made[a + 1] = k
  PROVE  /\ pending[k] \in Seq(Calls) /\ pending[k] # <<>> /\ Head(pending[k]) = a + 1
         /\ Tail(pending[k]) \in Seq(Calls) /\ Len(pending[k]) \in Nat \ {0}
         /\ DOMAIN pending[k] = 1 .. Len(pending[k])
         /\ DOMAIN Tail(pending[k]) = 1 .. Len(pending[k]) - 1
         /\ \A i \in 1 .. Len(pending[k]) - 1 : Tail(pending[k])[i] = pending[k][i + 1]
  <1>0. n \in Nat /\ a \in Nat
    BY EngineAssumption
  <1>1. pending[k] \in Seq(Calls)
    BY DEF PendingFits
  <1>2. a + 1 \in a + 1 .. n
    BY <1>0
  <1>3. PICK i \in DOMAIN pending[k] : pending[k][i] = a + 1
    BY <1>2 DEF PendingFits
  <1>4. Len(pending[k]) \in Nat /\ DOMAIN pending[k] = 1 .. Len(pending[k])
    BY <1>1, LenProperties
  <1>5. pending[k] # <<>> /\ Len(pending[k]) \in Nat \ {0} /\ 1 \in DOMAIN pending[k]
    BY <1>1, <1>3, <1>4, EmptySeq
  <1>6. Head(pending[k]) = pending[k][1]
    BY <1>1, <1>5, HeadTailProperties
  <1>7. pending[k][1] = a + 1
    <2>1. pending[k][1] \in a + 1 .. n
      BY <1>5 DEF PendingFits
    <2>2. 1 < i => pending[k][1] < pending[k][i]
      BY <1>3, <1>5 DEF PendingFits
    <2>3. 1 < i \/ i = 1
      BY <1>3, <1>4
    <2> QED BY <1>0, <1>3, <2>1, <2>2, <2>3
  <1>8. /\ Tail(pending[k]) \in Seq(Calls) /\ Len(Tail(pending[k])) = Len(pending[k]) - 1
        /\ \A j \in 1 .. Len(pending[k]) - 1 : Tail(pending[k])[j] = pending[k][j + 1]
    BY <1>1, <1>5, HeadTailProperties
  <1>9. DOMAIN Tail(pending[k]) = 1 .. Len(pending[k]) - 1
    BY <1>8, LenProperties
  <1> QED BY <1>1, <1>4, <1>5, <1>6, <1>7, <1>8, <1>9

\* What remains pending when the next call is answered.
LEMMA PendingTaken ==
  ASSUME NEW n \in 0 .. MaxCalls, NEW a \in 0 .. n, a + 1 <= n, PendingFits(n, a),
         NEW k \in Kinds, made[a + 1] = k, UNCHANGED made,
         pending' = IF k = "metatrace" THEN pending
                    ELSE [pending EXCEPT ![k] = Tail(pending[k])]
  PROVE  PendingFits(n, a + 1)'
  <1>0. n \in Nat /\ a \in Nat
    BY EngineAssumption
  <1>1. a + 1 .. n = {a + 1} \cup (a + 1 + 1 .. n) /\ a + 1 \notin a + 1 + 1 .. n
    BY <1>0
  <1>2. ASSUME NEW j \in Kinds \ {"metatrace"}, j # k
        PROVE  /\ \A i1, i2 \in DOMAIN pending[j] : i1 < i2 => pending[j][i1] < pending[j][i2]
               /\ \A i \in DOMAIN pending[j] :
                     pending[j][i] \in a + 1 + 1 .. n /\ made[pending[j][i]] = j
               /\ \A c \in a + 1 + 1 .. n : made[c] = j => \E i \in DOMAIN pending[j] : pending[j][i] = c
    BY <1>1, <1>2 DEF PendingFits
  <1>3. CASE k = "metatrace"
    <2>1. \A j \in Kinds \ {"metatrace"} : j # k
      BY <1>3
    <2>2. pending' = pending
      BY <1>3
    <2> QED BY <1>2, <2>1, <2>2 DEF PendingFits
  <1>4. CASE k # "metatrace"
    <2> DEFINE q == pending[k]
               t == Tail(pending[k])
               l == Len(pending[k])
    <2>1. /\ q[1] = a + 1 /\ t \in Seq(Calls) /\ l \in Nat \ {0}
          /\ DOMAIN q = 1 .. l /\ DOMAIN t = 1 .. l - 1
          /\ \A i \in 1 .. l - 1 : t[i] = q[i + 1]
      <3>1. k \in Kinds \ {"metatrace"}
        BY <1>4
      <3>2. q \in Seq(Calls) /\ q # <<>> /\ Head(q) = a + 1
        BY <3>1, HeadIsNext
      <3>3. Head(q) = q[1]
        BY <3>2, HeadTailProperties
      <3> QED BY <3>1, <3>2, <3>3, HeadIsNext
    <2>2. /\ \A i, j \in 1 .. l : i < j => q[i] < q[j]
          /\ \A i \in 1 .. l : q[i] \in a + 1 .. n /\ made[q[i]] = k
          /\ \A c \in a + 1 .. n : made[c] = k => \E i \in 1 .. l : q[i] = c
      <3>1. k \in Kinds \ {"metatrace"} /\ DOMAIN q = 1 .. l
        BY <1>4, <2>1
      <3>2. /\ \A i, j \in DOMAIN q : i < j => q[i] < q[j]
            /\ \A i \in DOMAIN q : q[i] \in a + 1 .. n /\ made[q[i]] = k
            /\ \A c \in a + 1 .. n : made[c] = k => \E i \in DOMAIN q : q[i] = c
        BY <3>1 DEF PendingFits
      <3> HIDE DEF q, l
      <3> QED BY <3>1, <3>2
    <2>3. /\ pending' \in [Kinds -> Seq(Calls)]
          /\ \A j \in Kinds : pending'[j] = IF j = k THEN t ELSE pending[j]
      <3>1. t \in Seq(Calls) /\ pending \in [Kinds -> Seq(Calls)]
            /\ pending' = [pending EXCEPT ![k] = t]
        BY <1>4, <2>1 DEF PendingFits
      <3> HIDE DEF t
      <3> QED BY <3>1
    <2> HIDE DEF q, t, l
    <2>4. \A i1, i2 \in DOMAIN t : i1 < i2 => t[i1] < t[i2]
      <3> SUFFICES ASSUME NEW i1 \in 1 .. l - 1, NEW i2 \in 1 .. l - 1, i1 < i2 PROVE t[i1] < t[i2]
        BY <2>1
      <3>1. i1 + 1 \in 1 .. l /\ i2 + 1 \in 1 .. l /\ i1 + 1 < i2 + 1
        BY <2>1
      <3> QED BY <2>1, <2>2, <3>1
    <2>5. \A i \in DOMAIN t : t[i] \in a + 1 + 1 .. n /\ made[t[i]] = k
      <3> SUFFICES ASSUME NEW i \in 1 .. l - 1
                   PROVE  t[i] \in a + 1 + 1 .. n /\ made[t[i]] = k
        BY <2>1
      <3>1. 1 \in 1 .. l /\ i + 1 \in 1 .. l /\ 1 < i + 1 /\ t[i] = q[i + 1]
        BY <2>1
      <3>2. a + 1 < t[i] /\ t[i] \in a + 1 .. n /\ made[t[i]] = k
        BY <2>1, <2>2, <3>1
      <3> QED BY <1>0, <3>2
    <2>6. ASSUME NEW c \in a + 1 + 1 .. n, made[c] = k PROVE \E i \in DOMAIN t : t[i] = c
      <3>1. PICK i \in 1 .. l : q[i] = c
        BY <1>1, <2>2, <2>6
      <3>2. i # 1
        BY <1>1, <2>1, <3>1
      <3>3. i - 1 \in 1 .. l - 1 /\ i - 1 + 1 = i
        BY <2>1, <3>2
      <3>4. t[i - 1] = c
        BY <2>1, <3>1, <3>3
      <3> QED BY <2>1, <3>3, <3>4
    <2>7. ASSUME NEW j \in Kinds \ {"metatrace"}
          PROVE  /\ \A i1, i2 \in DOMAIN pending'[j] : i1 < i2 => pending'[j][i1] < pending'[j][i2]
                 /\ \A i \in DOMAIN pending'[j] :
                       pending'[j][i] \in a + 1 + 1 .. n /\ made'[pending'[j][i]] = j
                 /\ \A c \in a + 1 + 1 .. n : made'[c] = j =>
                       \E i \in DOMAIN pending'[j] : pending'[j][i] = c
      <3>1. CASE j = k
        <4>1. pending'[j] = t /\ made' = made
          BY <2>3, <3>1
        <4> QED BY <2>4, <2>5, <2>6, <3>1, <4>1
      <3>2. CASE j # k
        <4>1. pending'[j] = pending[j] /\ made' = made
          BY <2>3, <3>2
        <4> QED BY <1>2, <3>2, <4>1
      <3> QED BY <3>1, <3>2
    <2>8. "metatrace" \in Kinds => pending'["metatrace"] = <<>>
      BY <1>4, <2>3 DEF PendingFits
    <2> QED BY <2>3, <2>7, <2>8 DEF PendingFits
  <1> QED BY <1>3, <1>4

Parts == [call : Calls, batch : Nat \ {0}]

\* s is the beginning of the answer to call c, and g continues it.
IsOwn(c, s) == \A i \in DOMAIN s : s[i] = [call |-> c, batch |-> i]
Continues(c, s, g) == g = Append(s, [call |-> c, batch |-> Len(s) + 1])

\* The parts that the next call has been given and the accepted response make
\* up the beginning of its answer.
LEMMA GivenIsOwn ==
  ASSUME NEW c \in Calls, NEW s \in Seq(Parts), NEW g, IsOwn(c, s), Continues(c, s, g)
  PROVE  /\ g \in Seq(Parts) /\ Len(g) = Len(s) + 1
         /\ IsOwn(c, g)
         /\ AnswerFrom(c, g) = c
  <1> DEFINE p == [call |-> c, batch |-> Len(s) + 1]
  <1>1. Len(s) \in Nat /\ DOMAIN s = 1 .. Len(s)
    BY LenProperties
  <1>2. p \in Parts
    BY <1>1 DEF Parts
  <1>3. g = Append(s, p)
    BY DEF Continues
  <1> HIDE DEF p
  <1>4. /\ g \in Seq(Parts) /\ Len(g) = Len(s) + 1
        /\ \A i \in 1 .. Len(s) : g[i] = s[i]
        /\ g[Len(s) + 1] = p
    BY <1>2, <1>3, AppendProperties
  <1>5. DOMAIN g = 1 .. Len(s) + 1
    BY <1>4, LenProperties
  <1>6. ASSUME NEW i \in 1 .. Len(s) + 1 PROVE g[i] = [call |-> c, batch |-> i]
    <2>1. CASE i = Len(s) + 1
      BY <1>4, <2>1 DEF p
    <2>2. CASE i \in 1 .. Len(s)
      BY <1>1, <1>4, <2>2 DEF IsOwn
    <2> QED BY <1>1, <2>1, <2>2
  <1>7. g = [i \in 1 .. Len(g) |-> [call |-> c, batch |-> i]]
    <2>1. g = [i \in DOMAIN g |-> g[i]]
      BY <1>4
    <2> QED BY <1>4, <1>5, <1>6, <2>1
  <1>8. AnswerFrom(c, g) = c
    BY <1>7, Zenon DEF AnswerFrom
  <1> QED BY <1>4, <1>5, <1>6, <1>8 DEF IsOwn

\* What an accepted response does: it is given to the call it is meant for,
\* which it answers if it is the last one.
LEMMA AcceptEffect ==
  ASSUME NEW n \in 0 .. MaxCalls, NEW a \in 0 .. n, a + 1 <= n, CallersFit(n, a),
         PendingFits(n, a), BatchesFit(a), NEW r \in Replies,
         IsNext(r, a), r.kind = made[a + 1], r.batch <= NumResponses(r.kind),
         r.last <=> r.batch = NumResponses(r.kind), Accept(r)
  PROVE  /\ a + 1 \in Calls /\ r.call = a + 1 /\ r.batch = Len(batches[a + 1]) + 1
         /\ Len(batches[a + 1]) \in Nat
         /\ \A i \in DOMAIN batches' : i # a + 1 => batches'[i] = <<>>
         /\ batches' \in [Calls -> Seq(Parts)]
         /\ IF r.last
            THEN /\ answer' = [answer EXCEPT ![a + 1] = a + 1]
                 /\ numRequestsPending' = numRequestsPending - 1
                 /\ batches'[a + 1] = <<>>
                 /\ pending' = IF r.kind = "metatrace" THEN pending
                               ELSE [pending EXCEPT ![r.kind] = Tail(pending[r.kind])]
            ELSE /\ UNCHANGED <<pending, answer, numRequestsPending>>
                 /\ Len(batches'[a + 1]) = Len(batches[a + 1]) + 1
                 /\ \A i \in DOMAIN batches'[a + 1] :
                       batches'[a + 1][i] = [call |-> a + 1, batch |-> i]
  <1>0. n \in Nat /\ a \in Nat /\ MaxCalls \in Nat /\ n <= MaxCalls
    BY EngineAssumption
  <1>1. a + 1 \in Calls
    BY <1>0 DEF Calls
  <1> DEFINE s == batches[a + 1]
             k == r.kind
  <1>2. r.call = a + 1 /\ r.batch = Len(s) + 1 /\ k \in Kinds /\ k = made[a + 1] /\ r.last \in BOOLEAN
    BY DEF IsNext, Replies
  <1>3. /\ s \in Seq(Parts)
        /\ \A i \in DOMAIN s : s[i] = [call |-> a + 1, batch |-> i]
        /\ batches \in [Calls -> Seq(Parts)]
        /\ \A c \in Calls : c # a + 1 => batches[c] = <<>>
    BY <1>1 DEF BatchesFit, Parts
  <1>4. Len(s) \in Nat
    BY <1>3, LenProperties
  <1>5. PICK g : g = Append(s, [call |-> a + 1, batch |-> Len(s) + 1])
    OBVIOUS
  <1>6. /\ g \in Seq(Parts) /\ Len(g) = Len(s) + 1
        /\ \A i \in DOMAIN g : g[i] = [call |-> a + 1, batch |-> i]
        /\ AnswerFrom(a + 1, g) = a + 1
    <2>1. PICK c \in Calls : c = a + 1
      BY <1>1
    <2>2. IsOwn(c, s)
      BY <1>3, <2>1, Zenon DEF IsOwn
    <2>3. Continues(c, s, g)
      BY <1>5, <2>1 DEF Continues
    <2> HIDE DEF s
    <2>4. /\ g \in Seq(Parts) /\ Len(g) = Len(s) + 1
          /\ IsOwn(c, g) /\ AnswerFrom(c, g) = c
      BY <1>3, <2>2, <2>3, GivenIsOwn
    <2>5. \A i \in DOMAIN g : g[i] = [call |-> a + 1, batch |-> i]
      BY <2>1, <2>4, Zenon DEF IsOwn
    <2> QED BY <2>1, <2>4, <2>5, Zenon
  <1>7. CASE k = "metatrace"
    <2>1. NumResponses(k) = 1
      BY <1>7 DEF NumResponses
    <2>2. Len(s) = 0 /\ r.last
      BY <1>2, <1>4, <2>1
    <2>3. s = <<>>
      BY <1>3, <2>2, EmptySeq
    <2>4. /\ numRequestsPending' = numRequestsPending - 1
          /\ answer' = [answer EXCEPT ![a + 1] = a + 1]
          /\ UNCHANGED <<pending, batches>>
      BY <1>2, <1>7 DEF Accept
    <2> QED BY <1>1, <1>2, <1>3, <1>4, <1>7, <2>2, <2>3, <2>4
  <1>8. CASE k # "metatrace"
    <2>1. pending[k] # <<>> /\ Head(pending[k]) = a + 1
      <3>1. k \in Kinds \ {"metatrace"} /\ made[a + 1] = k
        BY <1>2, <1>8
      <3> QED BY <3>1, HeadIsNext
    <2>2. ~(r.batch = 1 /\ s # <<>>)
      <3>1. r.batch = 1 => Len(s) = 0
        BY <1>2, <1>4
      <3> QED BY <1>3, <3>1, EmptySeq
    <2>3. IF r.last THEN Resolve(k, a + 1, g)
          ELSE /\ batches' = [batches EXCEPT ![a + 1] = g]
               /\ UNCHANGED <<pending, answer, numRequestsPending>>
      BY <1>2, <1>5, <1>8, <2>1, <2>2, Zenon DEF Accept
    <2>4. CASE r.last
      <3>1. /\ pending' = [pending EXCEPT ![k] = Tail(pending[k])]
            /\ answer' = [answer EXCEPT ![a + 1] = a + 1]
            /\ batches' = [batches EXCEPT ![a + 1] = <<>>]
            /\ numRequestsPending' = numRequestsPending - 1
        BY <1>6, <2>3, <2>4 DEF Resolve
      <3>2. /\ batches' \in [Calls -> Seq(Parts)] /\ batches'[a + 1] = <<>>
            /\ \A c \in DOMAIN batches' : c # a + 1 => batches'[c] = <<>>
        BY <1>1, <1>3, <3>1, EmptySeq
      <3> QED BY <1>1, <1>2, <1>4, <1>8, <2>4, <3>1, <3>2
    <2>5. CASE ~r.last
      <3>1. batches' = [batches EXCEPT ![a + 1] = g] /\ UNCHANGED <<pending, answer, numRequestsPending>>
        BY <2>3, <2>5
      <3>2. /\ batches' \in [Calls -> Seq(Parts)] /\ batches'[a + 1] = g
            /\ \A c \in DOMAIN batches' : c # a + 1 => batches'[c] = <<>>
        BY <1>1, <1>3, <1>6, <3>1
      <3> QED BY <1>1, <1>2, <1>4, <1>6, <2>5, <3>1, <3>2
    <2> QED BY <2>4, <2>5
  <1> QED BY <1>7, <1>8

\* An accepted message answers the next call, or is a part of its answer.
LEMMA AcceptStep ==
  ASSUME NEW n \in 0 .. MaxCalls, NEW h \in 0 .. n, NEW a \in 0 .. h,
         EngineFits(n, a, h), NEW r, TakesMessage(r), ~Fails(r), rxSeqId' = r.seq, Accept(r)
  PROVE  EngineInv' /\ (Abstract!Next \/ UNCHANGED <<made, answer>>)
  <1>0. /\ n \in Nat /\ h \in Nat /\ a \in Nat /\ MaxCalls \in Nat
        /\ a <= h /\ h <= n /\ n <= MaxCalls
    BY Positions
  <1>1. CallersFit(n, a) /\ PendingFits(n, a) /\ BatchesFit(a)
    BY DEF EngineFits
  <1>2. ResponseFits(r, a, h) /\ IsNext(r, a)
    BY AcceptedIsNext
  <1>3. r \in Replies /\ r.call = a + 1 /\ r.call <= h /\ r.kind = made[a + 1]
        /\ r.batch <= NumResponses(r.kind) /\ (r.last <=> r.batch = NumResponses(r.kind))
    BY <1>2 DEF ResponseFits, IsNext
  <1>4. a + 1 <= h /\ a + 1 <= n /\ a \in 0 .. n /\ r.kind \in Kinds /\ UNCHANGED made
    BY <1>0, <1>3 DEF Replies, TakesMessage
  <1> DEFINE B == Len(batches[a + 1])
  <1>5. /\ a + 1 \in Calls /\ r.batch = B + 1 /\ B \in Nat
        /\ \A i \in DOMAIN batches' : i # a + 1 => batches'[i] = <<>>
        /\ batches' \in [Calls -> Seq(Parts)]
        /\ IF r.last
            THEN /\ answer' = [answer EXCEPT ![a + 1] = a + 1]
                 /\ numRequestsPending' = numRequestsPending - 1
                 /\ batches'[a + 1] = <<>>
                 /\ pending' = IF r.kind = "metatrace" THEN pending
                               ELSE [pending EXCEPT ![r.kind] = Tail(pending[r.kind])]
            ELSE /\ UNCHANGED <<pending, answer, numRequestsPending>>
                 /\ Len(batches'[a + 1]) = B + 1
                 /\ \A i \in DOMAIN batches'[a + 1] :
                       batches'[a + 1][i] = [call |-> a + 1, batch |-> i]
    BY <1>1, <1>2, <1>3, <1>4, AcceptEffect
  <1> HIDE DEF B
  <1>6. Len(<<>>) = 0 /\ DOMAIN <<>> = {}
    BY EmptySeq
  <1>7. CASE r.last
    <2>1. \A c \in Calls : batches'[c] = <<>>
      BY <1>5, <1>7
    <2>2. BatchesFit(a + 1)' /\ NoBatches'
      BY <1>5, <1>6, <2>1 DEF BatchesFit, NoBatches, Parts
    <2>3. CallersFit(n, a + 1)'
      <3>1. answer' = [c \in Calls |-> IF c <= a + 1 THEN c ELSE None]
        <4>1. answer = [c \in Calls |-> IF c <= a THEN c ELSE None]
              /\ answer' = [answer EXCEPT ![a + 1] = a + 1]
          BY <1>1, <1>5, <1>7 DEF CallersFit
        <4>2. \A c \in Calls : c \in Nat
          BY DEF Calls
        <4> QED BY <1>0, <4>1, <4>2
      <3>2. numRequestsPending' = n - (a + 1)
        BY <1>0, <1>1, <1>5, <1>7 DEF CallersFit
      <3> QED BY <1>1, <1>4, <3>1, <3>2 DEF CallersFit
    <2>4. PendingFits(n, a + 1)'
      <3>1. pending' = IF r.kind = "metatrace" THEN pending
                       ELSE [pending EXCEPT ![r.kind] = Tail(pending[r.kind])]
        BY <1>5, <1>7
      <3> QED BY <1>1, <1>3, <1>4, <3>1, PendingTaken
    <2>5. \A m \in Replies : Follows(r, m) => IsNext(m, a + 1)'
      <3> SUFFICES ASSUME NEW m \in Replies, Follows(r, m) PROVE IsNext(m, a + 1)'
        OBVIOUS
      <3>1. m.call = a + 1 + 1 /\ m.batch = 1 /\ m.call \in Calls
        BY <1>3, <1>7 DEF Follows, Replies
      <3>2. Len(batches'[a + 1 + 1]) = 0
        BY <1>6, <2>1, <3>1
      <3> QED BY <3>1, <3>2 DEF IsNext
    <2>6. EngineInv'
      <3>1. a + 1 \in 0 .. h
        BY <1>0, <1>4
      <3>2. r.call = h /\ r.last => a + 1 = h /\ NoBatches'
        BY <1>3, <2>2
      <3> QED BY <2>2, <2>3, <2>4, <2>5, <3>1, <3>2, AdvanceStep
    <2>7. Abstract!Next
      <3>1. PICK c \in Calls : c = a + 1
        BY <1>5
      <3>2. /\ made[c] # None /\ answer[c] = None
            /\ \A d \in 1 .. c - 1 : answer[d] # None
        <4>1. \A d \in Calls : answer[d] = IF d <= a THEN d ELSE None
          BY <1>1 DEF CallersFit
        <4>2. \A d \in 1 .. c - 1 : d \in Calls /\ d <= a
          BY <1>0, <1>4, <3>1 DEF Calls
        <4>3. ~(c <= a) /\ c <= n
          BY <1>0, <1>4, <3>1
        <4>4. \A d \in Calls : d # None
          BY EngineAssumption
        <4> QED BY <1>1, <4>1, <4>2, <4>3, <4>4 DEF CallersFit
      <3>3. answer' = [answer EXCEPT ![c] = c] /\ UNCHANGED made
        BY <1>4, <1>5, <1>7, <3>1
      <3>4. Abstract!Answer(c)
        BY <3>2, <3>3, Zenon DEF Abstract!Answer
      <3> QED BY <3>4 DEF Abstract!Next, Abstract!Calls, Calls
    <2> QED BY <2>6, <2>7
  <1>8. CASE ~r.last
    <2>1. /\ UNCHANGED <<pending, answer, numRequestsPending, made>>
          /\ Len(batches'[a + 1]) = B + 1
          /\ \A i \in DOMAIN batches'[a + 1] : batches'[a + 1][i] = [call |-> a + 1, batch |-> i]
      BY <1>4, <1>5, <1>8
    <2>2. BatchesFit(a)'
      <3>1. \A c \in Calls : c # a + 1 => batches'[c] = <<>>
        BY <1>5
      <3>2. \A c \in Calls : \A i \in DOMAIN batches'[c] : batches'[c][i] = [call |-> c, batch |-> i]
        BY <1>6, <2>1, <3>1
      <3> QED BY <1>5, <3>1, <3>2 DEF BatchesFit, Parts
    <2>3. CallersFit(n, a)' /\ PendingFits(n, a)'
      <3>1. CallersFit(n, a)'
        BY <1>1, <2>1 DEF CallersFit
      <3>2. PendingFits(n, a)'
        BY <1>1, <2>1 DEF PendingFits
      <3> QED BY <3>1, <3>2
    <2>4. \A m \in Replies : Follows(r, m) => IsNext(m, a)'
      <3> SUFFICES ASSUME NEW m \in Replies, Follows(r, m) PROVE IsNext(m, a)'
        OBVIOUS
      <3>1. m.call = a + 1 /\ m.batch = B + 1 + 1
        BY <1>3, <1>5, <1>8 DEF Follows
      <3> QED BY <2>1, <3>1 DEF IsNext
    <2>5. EngineInv'
      BY <1>8, <2>2, <2>3, <2>4, AdvanceStep
    <2> QED BY <2>1, <2>5
  <1> QED BY <1>7, <1>8

\* A response arrives: an answer to the oldest call that waits, or a failure.
LEMMA ResponseStep ==
  ASSUME NEW n \in 0 .. MaxCalls, NEW h \in 0 .. n, NEW a \in 0 .. h,
         EngineFits(n, a, h), OnRpcResponse
  PROVE  EngineInv' /\ (Abstract!Next \/ UNCHANGED <<made, answer>>)
  <1>1. PICK r : r = Head(blobs)
    OBVIOUS
  <1>2. TakesMessage(r)
    BY <1>1 DEF OnRpcResponse, TakesMessage
  <1>3. CASE Fails(r)
    <2>1. UNCHANGED <<pending, numRequestsPending, rxSeqId, batches, answer, made>>
      BY <1>1, <1>3 DEF OnRpcResponse
    <2> QED BY <1>2, <1>3, <2>1, FailStep
  <1>4. CASE ~Fails(r)
    <2>1. rxSeqId' = r.seq /\ Accept(r)
      BY <1>1, <1>4 DEF OnRpcResponse
    <2> QED BY <1>2, <1>4, <2>1, AcceptStep
  <1> QED BY <1>3, <1>4

-----------------------------------------------------------------------------
(***************************************************************************)
(* The theorems                                                            *)
(***************************************************************************)
\* Every step preserves the invariant, and is a step of RpcCalls or leaves its
\* variables alone.
LEMMA EngineStep ==
  ASSUME ~EarlyDrops, EngineInv, [Next]_vars
  PROVE  EngineInv' /\ [Abstract!Next]_<<made, answer>>
  <1>1. PICK n \in 0 .. MaxCalls : \E h \in 0 .. n : \E a \in 0 .. h : EngineFits(n, a, h)
    BY DEF EngineInv
  <1>2. PICK h \in 0 .. n : \E a \in 0 .. h : EngineFits(n, a, h)
    BY <1>1
  <1>3. PICK a \in 0 .. h : EngineFits(n, a, h)
    BY <1>2
  <1>4. ASSUME NEW k \in Kinds, Call(k) PROVE EngineInv' /\ Abstract!Next
    BY <1>3, <1>4, CallStep
  <1>5. CASE OnWebsocketConnected
    BY <1>3, <1>5, ConnectedStep DEF OnWebsocketConnected, engine
  <1>6. CASE OnWebsocketError
    BY <1>3, <1>6, ErrorStep DEF OnWebsocketError
  <1>7. CASE ConnectionDrops
    BY <1>3, <1>7, DropsStep DEF ConnectionDrops, Reconnect, engine
  <1>8. CASE ServerCloses
    BY <1>3, <1>8, ClosesStep DEF ServerCloses, Reconnect, engine
  <1>9. CASE Dispose
    BY <1>3, <1>9, DisposeStep DEF Dispose, engine
  <1>10. CASE OnWebsocketMessage
    BY <1>3, <1>10, MessageStep DEF OnWebsocketMessage, engine
  <1>11. CASE OnRpcResponse
    BY <1>3, <1>11, ResponseStep
  <1>12. CASE ServerHandles
    BY <1>3, <1>12, ServerStep DEF ServerHandles, engine
  <1>13. CASE UNCHANGED vars
    <2>1. UNCHANGED <<made, pending, numRequestsPending, rxSeqId, batches, answer>>
          /\ UNCHANGED <<ws, requestQueue, blobs, up, down, server>>
      BY <1>13 DEF vars, engine
    <2>2. SocketFits /\ RequestsFit(n, h) /\ (Early => NothingLost(n, a, h))
          /\ server \in [rx : Nat, tx : Nat, closing : BOOLEAN]
      BY <1>3 DEF EngineFits, ServerFits
    <2>3. Requests' = Requests /\ Responses' = Responses /\ Len(Responses) \in Nat
      BY <2>1, <2>2, ResponsesType DEF Requests, Responses
    <2>4. SocketFits' /\ RequestsFit(n, h)'
      BY <2>1, <2>2, <2>3 DEF SocketFits, RequestsFit, Messages, Replies, FatalError
    <2>5. NothingLost(n, a, h) => NothingLost(n, a, h)'
      BY <2>1, <2>3 DEF NothingLost, IsNext, NoBatches, FatalError
    <2> QED BY <1>3, <2>1, <2>2, <2>3, <2>4, <2>5, SocketStep
  <1> QED BY <1>4, <1>5, <1>6, <1>7, <1>8, <1>9, <1>10, <1>11, <1>12, <1>13 DEF Next

\* EngineBase and HttpRpcEngine implement RpcCalls: for every number of calls,
\* batches and breaks of the connection, every call is given its own answer and
\* no call is answered before those made earlier.
THEOREM EngineImplementsRpcCalls == ~EarlyDrops /\ Spec => AnswersAreOwn
  <1> SUFFICES ASSUME ~EarlyDrops PROVE Spec => AnswersAreOwn
    OBVIOUS
  <1>1. Init => EngineInv
    BY InvInit
  <1>2. EngineInv /\ [Next]_vars => EngineInv' /\ [Abstract!Next]_<<made, answer>>
    BY EngineStep
  <1>3. Init => Abstract!Init
    BY DEF Init, Abstract!Init, Calls, Abstract!Calls
  <1> QED BY <1>1, <1>2, <1>3, PTL DEF Spec, AnswersAreOwn, Abstract!Spec

\* numRequestsPending is the number of calls that have not been answered, also
\* after a failure.
THEOREM PendingCounted == ~EarlyDrops /\ Spec => []PendingIsCounted
  <1> SUFFICES ASSUME ~EarlyDrops PROVE Spec => []PendingIsCounted
    OBVIOUS
  <1>1. Init => EngineInv
    BY InvInit
  <1>2. EngineInv /\ [Next]_vars => EngineInv'
    BY EngineStep
  <1>3. EngineInv => PendingIsCounted
    <2> SUFFICES ASSUME EngineInv PROVE PendingIsCounted
      OBVIOUS
    <2>1. PICK n \in 0 .. MaxCalls : \E h \in 0 .. n : \E a \in 0 .. h : EngineFits(n, a, h)
      BY DEF EngineInv
    <2>2. PICK h \in 0 .. n : \E a \in 0 .. h : EngineFits(n, a, h)
      BY <2>1
    <2>3. PICK a \in 0 .. h : EngineFits(n, a, h)
      BY <2>2
    <2>4. a \in 0 .. n /\ CallersFit(n, a)
      BY <2>3, Positions DEF EngineFits
    <2>5. numRequestsPending = n - a
      BY <2>4 DEF CallersFit
    <2>6. Cardinality({c \in Calls : made[c] # None /\ answer[c] = None}) = n - a
      BY <2>4, CountMade
    <2> QED BY <2>5, <2>6, Zenon DEF PendingIsCounted
  <1> QED BY <1>1, <1>2, <1>3, PTL DEF Spec
=============================================================================
