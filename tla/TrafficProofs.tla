---------------------------- MODULE TrafficProofs ---------------------------
(* Proofs about what comes in and goes out beside the turns: the event      *)
(* streams, the inbox, the coding agents, the Discord gateway and the       *)
(* ledger of the turns.                                                     *)
EXTENDS TrafficUnion, SequenceTheorems, FiniteSetTheorems, Basics, TLAPS

-----------------------------------------------------------------------------
(* Event streams *)

LEMMA BusMoves == [Next]_vars => [Bus!Next]_busVars
  BY DEF Next, vars

LEMMA BusNumbers == MaxQueue \in Nat \ {0} /\ MaxEvents \in Nat /\ MaxStreams \in Nat
  BY BusAssumption DEF BusAssumption, Bus!BusAssumption

\* A stream that received g and has q in its queue: the queue ends with the newest of the
\* p events published, and what was received is older and in order.
Streamed(g, q, s, d, p) ==
  /\ Len(g) + Len(q) + d = p - s
  /\ \A i \in DOMAIN q : q[i] = p - Len(q) + i
  /\ \A i, j \in DOMAIN g : i < j => g[i] < g[j]
  /\ \A i \in DOMAIN g : g[i] <= p - Len(q)

BusType ==
  /\ published \in Nat
  /\ subscribers \subseteq Consoles
  /\ queue \in [Consoles -> Seq(Nat)]
  /\ stream \in [Consoles -> Bus!Pc]
  /\ got \in [Consoles -> Seq(Nat)]
  /\ since \in [Consoles -> Nat]
  /\ dropped \in [Consoles -> Nat]

BusInv ==
  /\ BusType
  /\ \A k \in Consoles : Len(queue[k]) <= MaxQueue
  /\ \A k \in Consoles \ subscribers : queue[k] = <<>>
  /\ \A k \in Consoles : stream[k] = "open" => got[k] = <<>>
  /\ Bus!NoLeak
  /\ \A k \in subscribers : Streamed(got[k], queue[k], since[k], dropped[k], published)

LEMMA PutType ==
  ASSUME NEW q \in Seq(Nat), NEW e \in Nat, Len(q) <= MaxQueue
  PROVE  /\ Bus!Put(q, e) \in Seq(Nat) /\ Len(Bus!Put(q, e)) <= MaxQueue
         /\ Len(q) = MaxQueue => Len(Bus!Put(q, e)) = Len(q) /\ q # <<>>
         /\ Len(q) # MaxQueue => Len(Bus!Put(q, e)) = Len(q) + 1
  BY BusNumbers DEF Bus!Put

LEMMA StreamedPut ==
  ASSUME NEW g \in Seq(Nat), NEW q \in Seq(Nat), NEW s \in Nat, NEW d \in Nat, NEW p \in Nat,
         Len(q) <= MaxQueue, Streamed(g, q, s, d, p)
  PROVE  Streamed(g, Bus!Put(q, p + 1), s, IF Len(q) = MaxQueue THEN d + 1 ELSE d, p + 1)
<1> DEFINE n == Len(q)
           r == Bus!Put(q, p + 1)
<1>1. n \in Nat /\ Len(g) \in Nat /\ DOMAIN q = 1..n /\ DOMAIN g = 1..Len(g)
  OBVIOUS
<1>2. \A i \in 1..n : q[i] = p - n + i
  BY DEF Streamed
<1>3. \A i \in DOMAIN g : g[i] \in Nat /\ g[i] <= p - n
  BY DEF Streamed
<1>4. Len(g) + n + d = p - s
  BY DEF Streamed
<1>5. \A i, j \in DOMAIN g : i < j => g[i] < g[j]
  BY DEF Streamed
<1>6. CASE n = MaxQueue
  <2>1. q # <<>> /\ n > 0 /\ r = Append(Tail(q), p + 1)
    BY <1>6, BusNumbers DEF Bus!Put
  <2>2. Tail(q) \in Seq(Nat) /\ Len(Tail(q)) = n - 1
    BY <2>1
  <2>3. \A i \in 1..(n - 1) : Tail(q)[i] = q[i + 1]
    BY <2>1
  <2>4. Len(r) = n /\ DOMAIN r = 1..n /\ r[n] = p + 1
    BY <2>1, <2>2
  <2>5. \A i \in 1..(n - 1) : r[i] = Tail(q)[i]
    <3>1. p + 1 \in Nat
      OBVIOUS
    <3> HIDE DEF r
    <3> QED
      BY <2>1, <2>2, <3>1, AppendAt
  <2> HIDE DEF r, n
  <2>6. ASSUME NEW i \in 1..n PROVE r[i] = p + 1 - n + i
    <3>1. CASE i = n
      BY <3>1, <2>4, <1>1
    <3>2. CASE i \in 1..(n - 1)
      <4>1. i + 1 \in 1..n
        BY <3>2, <1>1
      <4>2. r[i] = p - n + (i + 1)
        BY <3>2, <2>3, <2>5, <4>1, <1>2
      <4> QED
        BY <4>2, <1>1
    <3> QED
      BY <3>1, <3>2, <1>1
  <2>7. Len(g) + n + (d + 1) = p + 1 - s
    BY <1>1, <1>4, SMTT(30)
  <2>8. \A i \in DOMAIN g : g[i] <= p + 1 - n
    BY <1>1, <1>3
  <2>9. Streamed(g, r, s, d + 1, p + 1)
    <3>1. \A i \in DOMAIN r : r[i] = p + 1 - Len(r) + i
      BY <2>4, <2>6
    <3>2. \A i \in DOMAIN g : g[i] <= p + 1 - Len(r)
      BY <2>4, <2>8
    <3>3. Len(g) + Len(r) + (d + 1) = p + 1 - s
      BY <2>4, <2>7
    <3> QED
      BY <1>5, <3>1, <3>2, <3>3 DEF Streamed
  <2> QED
    BY <1>6, <2>9 DEF r, n
<1>7. CASE n # MaxQueue
  <2>1. r = Append(q, p + 1)
    BY <1>7 DEF Bus!Put
  <2>2. Len(r) = n + 1 /\ DOMAIN r = 1..(n + 1) /\ r[n + 1] = p + 1
    BY <2>1
  <2>3. \A i \in 1..n : r[i] = q[i]
    <3>1. p + 1 \in Nat
      OBVIOUS
    <3> HIDE DEF r
    <3> QED
      BY <2>1, <3>1, AppendAt
  <2> HIDE DEF r, n
  <2>4. ASSUME NEW i \in 1..(n + 1) PROVE r[i] = p + 1 - (n + 1) + i
    <3>1. CASE i = n + 1
      BY <3>1, <2>2, <1>1
    <3>2. CASE i \in 1..n
      <4>1. r[i] = p - n + i
        BY <3>2, <2>3, <1>2
      <4> QED
        BY <4>1, <1>1
    <3> QED
      BY <3>1, <3>2, <1>1
  <2>5. Len(g) + (n + 1) + d = p + 1 - s
    BY <1>1, <1>4, SMTT(30)
  <2>6. \A i \in DOMAIN g : g[i] <= p + 1 - (n + 1)
    BY <1>1, <1>3
  <2>7. Streamed(g, r, s, d, p + 1)
    <3>1. \A i \in DOMAIN r : r[i] = p + 1 - Len(r) + i
      BY <2>2, <2>4
    <3>2. \A i \in DOMAIN g : g[i] <= p + 1 - Len(r)
      BY <2>2, <2>6
    <3>3. Len(g) + Len(r) + d = p + 1 - s
      BY <2>2, <2>5
    <3> QED
      BY <1>5, <3>1, <3>2, <3>3 DEF Streamed
  <2> QED
    BY <1>7, <2>7 DEF r, n
<1> QED
  BY <1>6, <1>7

LEMMA StreamedFrame ==
  ASSUME NEW g \in Seq(Nat), NEW q \in Seq(Nat), NEW s \in Nat, NEW d \in Nat, NEW p \in Nat,
         q # <<>>, Streamed(g, q, s, d, p)
  PROVE  Streamed(Append(g, Head(q)), Tail(q), s, d, p)
<1> DEFINE n == Len(q)
           h == Append(g, Head(q))
           r == Tail(q)
<1>1. n \in Nat /\ n > 0 /\ Len(g) \in Nat /\ DOMAIN g = 1..Len(g)
  OBVIOUS
<1>2. \A i \in 1..n : q[i] = p - n + i
  BY DEF Streamed
<1>3. \A i \in DOMAIN g : g[i] \in Nat /\ g[i] <= p - n
  BY DEF Streamed
<1>4. Len(g) + n + d = p - s
  BY DEF Streamed
<1>5. \A i, j \in DOMAIN g : i < j => g[i] < g[j]
  BY DEF Streamed
<1>6. Len(r) = n - 1 /\ DOMAIN r = 1..(n - 1)
  OBVIOUS
<1>7. \A i \in 1..(n - 1) : r[i] = q[i + 1]
  OBVIOUS
<1>8. Head(q) = q[1] /\ Head(q) \in Nat
  OBVIOUS
<1>9. Len(h) = Len(g) + 1 /\ DOMAIN h = 1..(Len(g) + 1) /\ h[Len(g) + 1] = Head(q)
  BY <1>8
<1>10. \A i \in DOMAIN g : h[i] = g[i]
  BY <1>8
<1> HIDE DEF n, h, r
<1>11. h[Len(g) + 1] = p - n + 1
  BY <1>1, <1>2, <1>8, <1>9
<1>12. ASSUME NEW i \in DOMAIN h PROVE h[i] <= p - (n - 1)
  <2>1. CASE i = Len(g) + 1
    BY <2>1, <1>1, <1>11
  <2>2. CASE i \in DOMAIN g
    BY <2>2, <1>1, <1>3, <1>10
  <2> QED
    BY <2>1, <2>2, <1>1, <1>9, SMTT(30)
<1>13. ASSUME NEW i \in DOMAIN h, NEW j \in DOMAIN h, i < j PROVE h[i] < h[j]
  <2>1. i \in DOMAIN g /\ h[i] = g[i]
    BY <1>1, <1>9, <1>10, <1>13
  <2>2. CASE j \in DOMAIN g
    BY <1>5, <1>10, <1>13, <2>1, <2>2
  <2>3. CASE j = Len(g) + 1
    <3>1. g[i] \in Nat /\ g[i] <= p - n
      BY <1>3, <2>1
    <3> QED
      BY <1>1, <1>11, <2>1, <2>3, <3>1
  <2> QED
    BY <1>1, <1>9, <2>2, <2>3
<1>14. ASSUME NEW i \in 1..(n - 1) PROVE r[i] = p - (n - 1) + i
  <2>1. i + 1 \in 1..n
    BY <1>1
  <2>2. r[i] = p - n + (i + 1)
    BY <1>2, <1>7, <2>1
  <2> QED
    BY <1>1, <2>2
<1>15. (Len(g) + 1) + (n - 1) + d = p - s
  BY <1>1, <1>4, SMTT(30)
<1>16. Streamed(h, r, s, d, p)
  BY <1>6, <1>9, <1>12, <1>13, <1>14, <1>15 DEF Streamed
<1> QED
  BY <1>16 DEF h, r

LEMMA BusInit == Bus!Init => BusInv
<1> SUFFICES ASSUME Bus!Init PROVE BusInv
  OBVIOUS
<1>1. <<>> \in Seq(Nat) /\ Len(<<>>) = 0
  OBVIOUS
<1>2. BusType
  BY <1>1 DEF Bus!Init, BusType, Bus!Pc
<1> QED
  BY <1>1, <1>2, BusNumbers DEF Bus!Init, BusInv, Bus!NoLeak

\* What a step of one client's stream may do, put by its parts.
LEMMA BusPublish ==
  ASSUME BusInv, Bus!Publish
  PROVE  BusInv'
<1>1. /\ published' = published + 1 /\ published \in Nat
      /\ UNCHANGED <<subscribers, stream, got, since>>
  BY DEF Bus!Publish, BusInv, BusType
<1>2. queue' = [k \in Consoles |-> IF k \in subscribers THEN Bus!Put(queue[k], published + 1) ELSE queue[k]]
  BY DEF Bus!Publish
<1>3. dropped' = [k \in Consoles |-> IF k \in subscribers /\ Len(queue[k]) = MaxQueue THEN dropped[k] + 1
                                    ELSE dropped[k]]
  BY DEF Bus!Publish
<1>4. published + 1 \in Nat /\ queue \in [Consoles -> Seq(Nat)] /\ dropped \in [Consoles -> Nat]
  BY <1>1 DEF BusInv, BusType
<1>5. \A k \in Consoles : queue'[k] \in Seq(Nat) /\ Len(queue'[k]) <= MaxQueue
  <2> TAKE k \in Consoles
  <2>1. queue[k] \in Seq(Nat) /\ Len(queue[k]) <= MaxQueue
    BY <1>4 DEF BusInv
  <2>2. CASE k \in subscribers
    BY <1>2, <1>4, <2>1, <2>2, PutType
  <2>3. CASE k \notin subscribers
    BY <1>2, <2>1, <2>3
  <2> QED
    BY <2>2, <2>3
<1>6. queue' \in [Consoles -> Seq(Nat)] /\ dropped' \in [Consoles -> Nat]
  BY <1>2, <1>3, <1>4, <1>5
<1>7. BusType'
  BY <1>1, <1>4, <1>6 DEF BusInv, BusType
<1>8. ASSUME NEW k \in subscribers
      PROVE  Streamed(got[k], queue'[k], since[k], dropped'[k], published + 1)
  <2>1. /\ k \in Consoles /\ got[k] \in Seq(Nat) /\ queue[k] \in Seq(Nat) /\ since[k] \in Nat
        /\ dropped[k] \in Nat /\ Len(queue[k]) <= MaxQueue
        /\ Streamed(got[k], queue[k], since[k], dropped[k], published)
    BY DEF BusInv, BusType
  <2>2. queue'[k] = Bus!Put(queue[k], published + 1)
    BY <1>2, <2>1
  <2>3. dropped'[k] = IF Len(queue[k]) = MaxQueue THEN dropped[k] + 1 ELSE dropped[k]
    BY <1>3, <2>1
  <2> QED
    BY <1>1, <2>1, <2>2, <2>3, StreamedPut
<1>9. \A k \in Consoles \ subscribers : queue'[k] = <<>>
  BY <1>2 DEF BusInv
<1> QED
  BY <1>1, <1>5, <1>7, <1>8, <1>9 DEF BusInv, Bus!NoLeak

LEMMA BusConnect ==
  ASSUME BusInv, NEW k \in Consoles, Bus!Connect(k)
  PROVE  BusInv'
<1>1. /\ stream[k] = "none" /\ stream' = [stream EXCEPT ![k] = "open"]
      /\ got' = [got EXCEPT ![k] = <<>>]
      /\ UNCHANGED <<published, subscribers, queue, since, dropped>>
  BY DEF Bus!Connect
<1>2. k \notin subscribers
  BY <1>1 DEF BusInv, Bus!NoLeak
<1>3. <<>> \in Seq(Nat)
  OBVIOUS
<1>4. BusType'
  BY <1>1, <1>3 DEF BusInv, BusType, Bus!Pc
<1>5. got'[k] = <<>> /\ stream'[k] = "open"
  BY <1>1 DEF BusInv, BusType
<1>6. \A j \in Consoles \ {k} : got'[j] = got[j] /\ stream'[j] = stream[j]
  BY <1>1 DEF BusInv, BusType
<1>7. subscribers \subseteq Consoles \ {k}
  BY <1>2 DEF BusInv, BusType
<1> QED
  BY <1>1, <1>4, <1>5, <1>6, <1>7 DEF BusInv, Bus!NoLeak

LEMMA BusSubscribe ==
  ASSUME BusInv, NEW k \in Consoles, Bus!Subscribe(k)
  PROVE  BusInv'
<1>1. /\ stream[k] = "open" /\ stream' = [stream EXCEPT ![k] = "wait"]
      /\ subscribers' = subscribers \union {k}
      /\ since' = [since EXCEPT ![k] = published] /\ dropped' = [dropped EXCEPT ![k] = 0]
      /\ UNCHANGED <<published, queue, got>>
  BY DEF Bus!Subscribe
<1>2. k \notin subscribers /\ queue[k] = <<>> /\ got[k] = <<>>
  BY <1>1 DEF BusInv, Bus!NoLeak
<1>3. BusType'
  BY <1>1 DEF BusInv, BusType, Bus!Pc
<1>4. since'[k] = published /\ dropped'[k] = 0 /\ stream'[k] = "wait" /\ published \in Nat
  BY <1>1 DEF BusInv, BusType
<1>5. \A j \in Consoles \ {k} : since'[j] = since[j] /\ dropped'[j] = dropped[j] /\ stream'[j] = stream[j]
  BY <1>1 DEF BusInv, BusType
<1>6. Streamed(got'[k], queue'[k], since'[k], dropped'[k], published')
  BY <1>1, <1>2, <1>4 DEF Streamed
<1>7. \A j \in subscribers : Streamed(got'[j], queue'[j], since'[j], dropped'[j], published')
  BY <1>1, <1>2, <1>5 DEF BusInv, BusType
<1>8. \A j \in Consoles \ subscribers' : queue'[j] = <<>>
  BY <1>1 DEF BusInv
<1>9. \A j \in Consoles : stream'[j] = "open" => got'[j] = <<>>
  BY <1>1, <1>4, <1>5 DEF BusInv
<1>10. \A j \in subscribers' : stream'[j] \in {"wait", "send"}
  BY <1>1, <1>4, <1>5 DEF BusInv, BusType, Bus!NoLeak
<1>11. \A j \in Consoles : Len(queue'[j]) <= MaxQueue
  BY <1>1 DEF BusInv
<1>12. \A j \in subscribers' : Streamed(got'[j], queue'[j], since'[j], dropped'[j], published')
  BY <1>1, <1>6, <1>7
<1> QED
  BY <1>3, <1>8, <1>9, <1>10, <1>11, <1>12 DEF BusInv, Bus!NoLeak

LEMMA BusFrame ==
  ASSUME BusInv, NEW k \in Consoles, Bus!Frame(k)
  PROVE  BusInv'
<1>1. /\ stream[k] = "wait" /\ queue[k] # <<>>
      /\ got' = [got EXCEPT ![k] = Append(@, Head(queue[k]))]
      /\ queue' = [queue EXCEPT ![k] = Tail(@)]
      /\ stream' = [stream EXCEPT ![k] = "send"]
      /\ UNCHANGED <<published, subscribers, since, dropped>>
  BY DEF Bus!Frame
<1>2. queue[k] \in Seq(Nat) /\ got[k] \in Seq(Nat) /\ since[k] \in Nat /\ dropped[k] \in Nat
  BY DEF BusInv, BusType
<1>3. /\ Head(queue[k]) \in Nat /\ Tail(queue[k]) \in Seq(Nat) /\ Len(Tail(queue[k])) <= Len(queue[k])
  BY <1>1, <1>2
<1>4. Append(got[k], Head(queue[k])) \in Seq(Nat)
  BY <1>2, <1>3
<1>5. BusType'
  BY <1>1, <1>3, <1>4 DEF BusInv, BusType, Bus!Pc
<1>6. /\ got'[k] = Append(got[k], Head(queue[k])) /\ queue'[k] = Tail(queue[k]) /\ stream'[k] = "send"
      /\ \A j \in Consoles \ {k} : got'[j] = got[j] /\ queue'[j] = queue[j] /\ stream'[j] = stream[j]
  BY <1>1 DEF BusInv, BusType
<1>7. k \in subscribers
  BY <1>1 DEF BusInv
<1>8. published \in Nat /\ Streamed(got[k], queue[k], since[k], dropped[k], published)
  BY <1>7 DEF BusInv, BusType
<1>9. Streamed(got'[k], queue'[k], since[k], dropped[k], published)
  BY <1>1, <1>2, <1>6, <1>8, StreamedFrame
<1>10. \A j \in subscribers' : Streamed(got'[j], queue'[j], since'[j], dropped'[j], published')
  BY <1>1, <1>6, <1>9 DEF BusInv, BusType
<1>11. \A j \in Consoles : Len(queue'[j]) <= MaxQueue
  <2> TAKE j \in Consoles
  <2>1. CASE j = k
    <3>1. Len(queue[k]) \in Nat /\ Len(Tail(queue[k])) \in Nat /\ Len(queue[k]) <= MaxQueue
      BY <1>2, <1>3 DEF BusInv
    <3>2. Len(Tail(queue[k])) <= MaxQueue
      BY <1>3, <3>1, BusNumbers
    <3> QED
      BY <1>6, <2>1, <3>2
  <2>2. CASE j # k
    BY <1>6, <2>2 DEF BusInv
  <2> QED
    BY <2>1, <2>2
<1>12. \A j \in Consoles \ subscribers' : queue'[j] = <<>>
  BY <1>1, <1>6, <1>7 DEF BusInv
<1>13. \A j \in Consoles : stream'[j] = "open" => got'[j] = <<>>
  BY <1>6 DEF BusInv
<1>14. \A j \in subscribers' : stream'[j] \in {"wait", "send"}
  BY <1>1, <1>6 DEF BusInv, BusType, Bus!NoLeak
<1> QED
  BY <1>5, <1>10, <1>11, <1>12, <1>13, <1>14 DEF BusInv, Bus!NoLeak

\* The stream moves on; its queue, if it still has one, is as before.
LEMMA BusStays ==
  ASSUME BusInv, NEW k \in Consoles, NEW at \in Bus!Pc \ {"open"}, stream' = [stream EXCEPT ![k] = at],
         \/ at = "wait" /\ stream[k] = "send" /\ UNCHANGED <<subscribers, queue>>
         \/ Bus!Unsubscribe(k)
         \/ k \notin subscribers /\ UNCHANGED <<subscribers, queue>>,
         UNCHANGED <<published, got, since, dropped>>
  PROVE  BusInv'
<1>1. stream'[k] = at /\ \A j \in Consoles \ {k} : stream'[j] = stream[j] /\ queue'[j] = queue[j]
  BY DEF BusInv, BusType, Bus!Unsubscribe
<1>2. queue'[k] \in {queue[k], <<>>} /\ queue' \in [Consoles -> Seq(Nat)]
  <2>1. <<>> \in Seq(Nat)
    OBVIOUS
  <2> QED
    BY <2>1 DEF BusInv, BusType, Bus!Unsubscribe
<1>3. subscribers' \subseteq subscribers
  BY DEF Bus!Unsubscribe
<1>4. BusType'
  BY <1>2, <1>3 DEF BusInv, BusType
<1>5. \A j \in subscribers' : queue'[j] = queue[j]
  BY <1>1, <1>3 DEF Bus!Unsubscribe, BusInv, BusType
<1>6. \A j \in Consoles \ subscribers' : queue'[j] = <<>>
  BY <1>1 DEF Bus!Unsubscribe, BusInv, BusType
<1>7. \A j \in Consoles : Len(queue'[j]) <= MaxQueue
  BY <1>1, <1>2, BusNumbers DEF BusInv
<1>8. \A j \in subscribers' : stream'[j] \in {"wait", "send"}
  BY <1>1, <1>3 DEF Bus!Unsubscribe, BusInv, BusType, Bus!NoLeak
<1>9. \A j \in Consoles : stream'[j] = "open" => got'[j] = <<>>
  BY <1>1 DEF BusInv
<1>10. \A j \in subscribers' : Streamed(got'[j], queue'[j], since'[j], dropped'[j], published')
  BY <1>3, <1>5 DEF BusInv
<1> QED
  BY <1>4, <1>6, <1>7, <1>8, <1>9, <1>10 DEF BusInv, Bus!NoLeak

LEMMA BusStep ==
  ASSUME BusInv, [Bus!Next]_busVars
  PROVE  BusInv'
<1>1. ASSUME NEW k \in Consoles, Bus!Sent(k) PROVE BusInv'
  BY <1>1, BusStays DEF Bus!Sent, Bus!history, Bus!Pc
<1>2. ASSUME NEW k \in Consoles, Bus!Keepalive(k) PROVE BusInv'
  BY <1>2, BusStays DEF Bus!Keepalive, Bus!history, Bus!Pc
<1>3. ASSUME NEW k \in Consoles, Bus!Disconnect(k) PROVE BusInv'
  BY <1>3, BusStays DEF Bus!Disconnect, Bus!history, Bus!Pc
<1>4. ASSUME NEW k \in Consoles, Bus!EndOfStream(k) PROVE BusInv'
  <2>1. k \notin subscribers
    BY <1>4 DEF Bus!EndOfStream, BusInv, Bus!NoLeak
  <2> QED
    BY <1>4, <2>1, BusStays DEF Bus!EndOfStream, Bus!Pc
<1>5. CASE UNCHANGED busVars
  BY <1>5 DEF busVars, BusInv, BusType, Bus!NoLeak
<1> QED
  BY <1>1, <1>2, <1>3, <1>4, <1>5, BusPublish, BusConnect, BusSubscribe, BusFrame DEF Bus!Next

LEMMA BusInvSound == BusInv => Bus!StreamSound
<1> SUFFICES ASSUME BusInv, NEW k \in subscribers
             PROVE  LET has == got[k] \o queue[k]
                    IN /\ Len(has) + dropped[k] = published - since[k]
                       /\ \A i, j \in DOMAIN has : i < j => has[i] < has[j]
                       /\ \A i \in DOMAIN queue[k] : queue[k][i] = published - Len(queue[k]) + i
  BY DEF Bus!StreamSound, Bus!NothingElseLost, BusInv
<1> DEFINE g == got[k]
           q == queue[k]
           has == g \o q
<1>1. /\ g \in Seq(Nat) /\ q \in Seq(Nat) /\ published \in Nat /\ dropped[k] \in Nat /\ since[k] \in Nat
      /\ Streamed(g, q, since[k], dropped[k], published)
  BY DEF BusInv, BusType
<1> HIDE DEF g, q
<1>2. /\ Len(has) = Len(g) + Len(q) /\ DOMAIN has = 1..(Len(g) + Len(q)) /\ Len(g) \in Nat /\ Len(q) \in Nat
      /\ DOMAIN g = 1..Len(g) /\ DOMAIN q = 1..Len(q)
  BY <1>1
<1>3. /\ \A i \in 1..Len(g) : has[i] = g[i]
      /\ \A i \in (Len(g) + 1)..(Len(g) + Len(q)) : has[i] = q[i - Len(g)]
  BY <1>1
<1> HIDE DEF has
<1>4. \A i \in 1..Len(g) : has[i] \in Nat /\ has[i] <= published - Len(q)
  <2>1. \A i \in DOMAIN g : g[i] \in Nat
    BY <1>1
  <2>2. \A i \in DOMAIN g : g[i] <= published - Len(q)
    BY <1>1 DEF Streamed
  <2> QED
    BY <1>2, <1>3, <2>1, <2>2
<1>5. \A i \in (Len(g) + 1)..(Len(g) + Len(q)) : has[i] = published - Len(q) + (i - Len(g))
  <2> TAKE i \in (Len(g) + 1)..(Len(g) + Len(q))
  <2>1. i - Len(g) \in 1..Len(q)
    BY <1>2
  <2> QED
    BY <1>1, <1>2, <1>3, <2>1 DEF Streamed
<1>6. ASSUME NEW i \in DOMAIN has, NEW j \in DOMAIN has, i < j PROVE has[i] < has[j]
  <2>1. CASE j \in 1..Len(g)
    <3>1. i \in 1..Len(g)
      BY <1>2, <1>6, <2>1
    <3> QED
      BY <1>1, <1>2, <1>3, <1>6, <2>1, <3>1 DEF Streamed
  <2>2. CASE i \in 1..Len(g) /\ j > Len(g)
    <3>1. has[i] \in Nat /\ has[i] <= published - Len(q)
      BY <1>4, <2>2
    <3>2. has[j] = published - Len(q) + (j - Len(g)) /\ j \in Nat
      BY <1>2, <1>5, <2>2
    <3> QED
      BY <1>1, <1>2, <2>2, <3>1, <3>2
  <2>3. CASE i > Len(g)
    BY <1>1, <1>2, <1>5, <1>6, <2>3, SMTT(30)
  <2> QED
    BY <1>2, <1>6, <2>1, <2>2, <2>3
<1> QED
  BY <1>1, <1>2, <1>6 DEF Streamed, has, g, q

\* For any clients and any size of the queues (events/bus.py, _sse_event_stream): what a
\* console has received and what waits for it is everything published since it
\* subscribed, in order, but for the oldest that had to make room; and no queue is
\* filled for a stream that will not read it.
THEOREM StreamsAreSound == Spec => []StreamSound
<1>1. Init => BusInv
  BY BusInit DEF Init
<1>2. BusInv /\ [Next]_vars => BusInv'
  BY BusMoves, BusStep
<1>3. BusInv => StreamSound
  BY BusInvSound DEF StreamSound
<1> QED
  BY <1>1, <1>2, <1>3, PTL DEF Spec

-----------------------------------------------------------------------------
(* The inbox *)

LEMMA InboxMoves == [Next]_vars => [Inbox!Next]_inboxVars
  BY DEF Next, vars

LEMMA InboxNumbers ==
  /\ DedupWindow \in Nat /\ StormWindow \in Nat /\ MaxFires \in Nat \ {0} /\ NoKey \notin Keys
  BY InboxAssumption DEF InboxAssumption, Inbox!InboxAssumption

InboxRow == [tier : Inbox!Tier, key : Keys \union {NoKey}, at : Nat, delivered : BOOLEAN]

InboxType ==
  /\ now \in Nat
  /\ rows \in Seq(InboxRow)
  /\ fires \in Seq(Nat) /\ allowed \in Seq(Nat)

\* The deque f is the end of the fires the guard allowed; those before it are older than
\* the window.
Guarded(f, a, t) ==
  /\ Len(f) <= Len(a)
  /\ \A i \in DOMAIN f : f[i] = a[Len(a) - Len(f) + i]
  /\ \A i \in 1..(Len(a) - Len(f)) : a[i] + StormWindow < t

InboxInv ==
  /\ InboxType
  /\ Guarded(fires, allowed, now)
  /\ Inbox!InboxSound

\* What allow() leaves is the end of the deque: it pops nothing that is still young.
LEMMA RecentKeeps ==
  ASSUME InboxType, Guarded(fires, allowed, now)
  PROVE  Inbox!Recent \in Seq(Nat) /\ Guarded(Inbox!Recent, allowed, now)
<1> DEFINE n == Len(fires)
           m == Len(allowed)
           Young == {i \in DOMAIN fires : fires[i] + StormWindow >= now}
           r == Inbox!Recent
<1>1. /\ fires \in Seq(Nat) /\ n \in Nat /\ m \in Nat /\ n <= m /\ DOMAIN fires = 1..n /\ now \in Nat
  BY DEF InboxType, Guarded
<1>2. \A i \in 1..n : fires[i] = allowed[m - n + i]
  BY <1>1 DEF Guarded
<1>3. \A i \in 1..(m - n) : allowed[i] + StormWindow < now
  BY DEF Guarded
<1>4. CASE Young = {}
  <2>1. r = <<>> /\ r \in Seq(Nat) /\ Len(r) = 0 /\ DOMAIN r = {}
    BY <1>4 DEF Inbox!Recent
  <2> HIDE DEF r
  <2>2. ASSUME NEW i \in 1..m PROVE allowed[i] + StormWindow < now
    <3>1. CASE i \in 1..(m - n)
      BY <1>3, <3>1
    <3>2. CASE i > m - n
      <4> DEFINE j == i - (m - n)
      <4>1. j \in 1..n /\ m - n + j = i
        BY <1>1, <3>2
      <4>2. ~(fires[j] + StormWindow >= now) /\ fires[j] \in Nat
        BY <1>1, <1>4, <4>1
      <4>3. fires[j] = allowed[i]
        BY <1>2, <4>1
      <4> QED
        BY <1>1, <4>2, <4>3, InboxNumbers
    <3> QED
      BY <1>1, <3>1, <3>2
  <2>3. m - 0 = m
    BY <1>1
  <2> QED
    BY <1>1, <2>1, <2>2, <2>3 DEF Guarded, r
<1>5. CASE Young # {}
  <2> DEFINE k == Inbox!Min(Young)
  <2>1. k \in Young /\ \A i \in Young : k <= i
    <3>1. Young \in SUBSET Nat /\ \E i : i \in Young
      BY <1>1, <1>5
    <3> HIDE DEF Young
    <3>2. \E i \in Young : \A j \in Young : i <= j
      BY <3>1, LeastMember
    <3> QED
      BY <3>2 DEF Inbox!Min
  <2>2. r = SubSeq(fires, k, n)
    BY <1>5 DEF Inbox!Recent
  <2> HIDE DEF r
  <2>3. k \in 1..n
    BY <1>1, <2>1
  <2>9. \A i \in 1..(k - 1) : i \notin Young
    <3> HIDE DEF k, Young
    <3> QED
      BY <1>1, <2>1, <2>3
  <2>4. \A i \in 1..(k - 1) : fires[i] + StormWindow < now
    <3> TAKE i \in 1..(k - 1)
    <3>1. i \in DOMAIN fires /\ fires[i] \in Nat
      BY <1>1, <2>3
    <3>2. ~(fires[i] + StormWindow >= now)
      BY <2>9, <3>1
    <3> QED
      BY <1>1, <3>1, <3>2, InboxNumbers
  <2> HIDE DEF k, Young
  <2>5. r \in Seq(Nat) /\ Len(r) = n - k + 1 /\ DOMAIN r = 1..(n - k + 1)
    BY <1>1, <2>2, <2>3
  <2>6. \A i \in 1..(n - k + 1) : r[i] = fires[k + i - 1]
    <3> TAKE i \in 1..(n - k + 1)
    <3>1. fires \in Seq(Nat) /\ n = Len(fires)
      BY <1>1 DEF InboxType
    <3> HIDE DEF n
    <3>2. SubSeq(fires, k, n)[i] = fires[k + i - 1]
      BY <2>3, <3>1, SubSeqAt
    <3> QED
      BY <2>2, <3>2
  <2>7. ASSUME NEW i \in 1..(n - k + 1) PROVE r[i] = allowed[m - (n - k + 1) + i]
    <3>1. k + i - 1 \in 1..n /\ m - n + (k + i - 1) = m - (n - k + 1) + i
      BY <1>1, <2>3
    <3> QED
      BY <1>2, <2>6, <3>1
  <2>8. ASSUME NEW i \in 1..(m - (n - k + 1)) PROVE allowed[i] + StormWindow < now
    <3>1. CASE i \in 1..(m - n)
      BY <1>3, <3>1
    <3>2. CASE i > m - n
      <4> DEFINE j == i - (m - n)
      <4>1. j \in 1..(k - 1) /\ m - n + j = i /\ j \in 1..n
        BY <1>1, <2>3, <3>2
      <4> HIDE DEF j
      <4> QED
        BY <1>2, <2>4, <4>1
    <3> QED
      BY <1>1, <2>3, <3>1, <3>2
  <2>10. n - k + 1 <= m
    BY <1>1, <2>3
  <2> QED
    BY <2>5, <2>7, <2>8, <2>10 DEF Guarded, r
<1> QED
  BY <1>4, <1>5

\* A fire is allowed when the one MaxFires before it has left the window.
LEMMA FireKeeps ==
  ASSUME NEW f \in Seq(Nat), NEW a \in Seq(Nat), NEW t \in Nat,
         Guarded(f, a, t), Len(f) < MaxFires,
         \A i \in DOMAIN a : i + MaxFires \in DOMAIN a => a[i + MaxFires] - a[i] > StormWindow
  PROVE  LET b == Append(a, t)
         IN /\ Guarded(Append(f, t), b, t)
            /\ \A i \in DOMAIN b : i + MaxFires \in DOMAIN b => b[i + MaxFires] - b[i] > StormWindow
<1> DEFINE b == Append(a, t)
           g == Append(f, t)
           n == Len(f)
           m == Len(a)
<1>1. n \in Nat /\ m \in Nat /\ n <= m /\ DOMAIN f = 1..n /\ DOMAIN a = 1..m
  BY DEF Guarded
<1>2. Len(b) = m + 1 /\ DOMAIN b = 1..(m + 1) /\ b[m + 1] = t
  OBVIOUS
<1>3. \A i \in 1..m : b[i] = a[i] /\ a[i] \in Nat
  BY AppendAt
<1>4. Len(g) = n + 1 /\ DOMAIN g = 1..(n + 1) /\ g[n + 1] = t
  OBVIOUS
<1>5. \A i \in 1..n : g[i] = f[i]
  BY AppendAt
<1>6. \A i \in 1..n : f[i] = a[m - n + i]
  BY <1>1 DEF Guarded
<1>7. \A i \in 1..(m - n) : a[i] + StormWindow < t
  BY DEF Guarded
<1> HIDE DEF b, g, n, m
<1>8. ASSUME NEW i \in 1..(n + 1) PROVE g[i] = b[(m + 1) - (n + 1) + i]
  <2>1. CASE i = n + 1
    BY <1>1, <1>2, <1>4, <2>1
  <2>2. CASE i \in 1..n
    <3>1. m - n + i \in 1..m /\ (m + 1) - (n + 1) + i = m - n + i
      BY <1>1, <2>2
    <3> QED
      BY <1>3, <1>5, <1>6, <2>2, <3>1
  <2> QED
    BY <1>1, <2>1, <2>2
<1>9. ASSUME NEW i \in 1..((m + 1) - (n + 1)) PROVE b[i] + StormWindow < t
  <2>1. i \in 1..(m - n) /\ i \in 1..m
    BY <1>1
  <2> QED
    BY <1>3, <1>7, <2>1
<1>10. Guarded(g, b, t)
  BY <1>1, <1>2, <1>4, <1>8, <1>9 DEF Guarded
<1>11. ASSUME NEW i \in DOMAIN b, i + MaxFires \in DOMAIN b PROVE b[i + MaxFires] - b[i] > StormWindow
  <2>1. i \in 1..m /\ i + MaxFires \in 1..(m + 1) /\ i \in Nat
    BY <1>1, <1>2, <1>11, InboxNumbers
  <2>2. CASE i + MaxFires \in 1..m
    BY <1>1, <1>3, <2>1, <2>2
  <2>3. CASE i + MaxFires = m + 1
    <3>1. i \in 1..(m - n)
      BY <1>1, <2>1, <2>3, InboxNumbers DEF n
    <3>2. b[i] \in Nat /\ b[i] + StormWindow < t
      BY <1>3, <1>7, <2>1, <3>1
    <3> QED
      BY <1>2, <2>3, <3>2, InboxNumbers
  <2> QED
    BY <1>1, <2>1, <2>2, <2>3, InboxNumbers
<1> QED
  BY <1>10, <1>11 DEF b, g

LEMMA InboxInit == Inbox!Init => InboxInv
<1> SUFFICES ASSUME Inbox!Init PROVE InboxInv
  OBVIOUS
<1>1. rows = <<>> /\ fires = <<>> /\ allowed = <<>> /\ now = 0
  BY DEF Inbox!Init
<1>2. \A S : <<>> \in Seq(S)
  OBVIOUS
<1>3. InboxType
  BY <1>1, <1>2 DEF InboxType
<1>4. Guarded(<<>>, <<>>, 0)
  BY DEF Guarded
<1> QED
  BY <1>1, <1>3, <1>4
  DEF InboxInv, Inbox!InboxSound, Inbox!NothingVanishes, Inbox!NoStorm, Inbox!DedupHolds, Inbox!Ids

LEMMA InboxTick ==
  ASSUME InboxInv, Inbox!Tick
  PROVE  InboxInv'
<1>1. now' = now + 1 /\ UNCHANGED <<rows, fires, carried, read, gone, allowed>>
  BY DEF Inbox!Tick, Inbox!history
<1>2. InboxType'
  BY <1>1 DEF InboxInv, InboxType
<1>3. Guarded(fires, allowed, now + 1)
  <2>1. \A i \in 1..(Len(allowed) - Len(fires)) : allowed[i] \in Nat
    BY DEF InboxInv, InboxType, Guarded
  <2> QED
    BY <2>1, InboxNumbers DEF InboxInv, InboxType, Guarded
<1> QED
  BY <1>1, <1>2, <1>3
  DEF InboxInv, Inbox!InboxSound, Inbox!NothingVanishes, Inbox!NoStorm, Inbox!DedupHolds, Inbox!Ids

\* A row is added when no pending one with its key is as young as the window.
LEMMA InboxAdd ==
  ASSUME InboxInv, NEW tier \in Inbox!Tier, NEW key \in Keys \union {NoKey}, Inbox!Add(tier, key)
  PROVE  InboxInv'
<1> DEFINE n == Len(rows)
           item == [tier |-> tier, key |-> key, at |-> now, delivered |-> FALSE]
<1>1. rows' = Append(rows, item) /\ ~Inbox!Duplicate(key) /\ UNCHANGED <<now, carried, read, gone>>
  BY DEF Inbox!Add
<1>2. /\ rows \in Seq(InboxRow) /\ now \in Nat /\ n \in Nat /\ DOMAIN rows = 1..n
      /\ fires \in Seq(Nat) /\ allowed \in Seq(Nat)
  BY DEF InboxInv, InboxType
<1>3. item \in InboxRow
  BY <1>2 DEF InboxRow
<1>4. /\ rows' \in Seq(InboxRow) /\ DOMAIN rows' = 1..(n + 1) /\ rows'[n + 1] = item
      /\ \A i \in 1..n : rows'[i] = rows[i]
  BY <1>1, <1>2, <1>3, AppendAt
<1>5. \/ UNCHANGED <<fires, allowed>>
      \/ fires' = Inbox!Recent /\ UNCHANGED allowed
      \/ Len(Inbox!Recent) < MaxFires /\ fires' = Append(Inbox!Recent, now) /\ allowed' = Append(allowed, now)
  BY DEF Inbox!Add, Inbox!Suppress, Inbox!Fire
<1>6. /\ Inbox!Recent \in Seq(Nat) /\ Guarded(Inbox!Recent, allowed, now)
      /\ Guarded(fires, allowed, now) /\ Inbox!NoStorm
  BY RecentKeeps DEF InboxInv, Inbox!InboxSound
<1>7. fires' \in Seq(Nat) /\ allowed' \in Seq(Nat) /\ Guarded(fires', allowed', now) /\ Inbox!NoStorm'
  <2>1. CASE UNCHANGED <<fires, allowed>>
    BY <1>2, <1>6, <2>1 DEF Inbox!NoStorm
  <2>2. CASE fires' = Inbox!Recent /\ UNCHANGED allowed
    BY <1>2, <1>6, <2>2 DEF Inbox!NoStorm
  <2>3. CASE Len(Inbox!Recent) < MaxFires /\ fires' = Append(Inbox!Recent, now) /\ allowed' = Append(allowed, now)
    <3>1. fires' \in Seq(Nat) /\ allowed' \in Seq(Nat)
      BY <1>2, <1>6, <2>3, AppendAt
    <3>2. /\ Guarded(fires', allowed', now)
          /\ \A i \in DOMAIN allowed' :
               i + MaxFires \in DOMAIN allowed' => allowed'[i + MaxFires] - allowed'[i] > StormWindow
      BY <1>2, <1>6, <2>3, FireKeeps DEF Inbox!NoStorm
    <3> QED
      BY <3>1, <3>2 DEF Inbox!NoStorm
  <2> QED
    BY <1>5, <2>1, <2>2, <2>3
<1>8. Inbox!NothingVanishes'
  <2>1. \A i \in 1..n : rows[i].delivered => i \in carried \union read \union gone
    BY <1>2 DEF InboxInv, Inbox!InboxSound, Inbox!NothingVanishes, Inbox!Ids
  <2> QED
    BY <1>1, <1>2, <1>4, <2>1 DEF Inbox!NothingVanishes, Inbox!Ids
<1>9. Inbox!DedupHolds'
  <2>1. \A i, j \in 1..n :
          (i < j /\ rows[i].key = rows[j].key /\ rows[i].key # NoKey
             /\ ~rows[i].delivered /\ ~rows[j].delivered) => rows[j].at - rows[i].at > DedupWindow
    BY <1>2 DEF InboxInv, Inbox!InboxSound, Inbox!DedupHolds, Inbox!Ids
  <2>2. \A i \in 1..n : key # NoKey /\ rows[i].key = key /\ ~rows[i].delivered => now - rows[i].at > DedupWindow
    <3> TAKE i \in 1..n
    <3>1. rows[i].at \in Nat
      <4>1. rows[i] \in InboxRow
        BY <1>2
      <4> QED
        BY <4>1 DEF InboxRow
    <3>2. key # NoKey /\ rows[i].key = key /\ ~rows[i].delivered => ~(rows[i].at + DedupWindow >= now)
      BY <1>1, <1>2 DEF Inbox!Duplicate, Inbox!Ids
    <3> QED
      BY <1>2, <3>1, <3>2, InboxNumbers
  <2> SUFFICES ASSUME NEW i \in 1..(n + 1), NEW j \in 1..(n + 1), i < j,
                      rows'[i].key = rows'[j].key, rows'[i].key # NoKey,
                      ~rows'[i].delivered, ~rows'[j].delivered
               PROVE  rows'[j].at - rows'[i].at > DedupWindow
    BY <1>4 DEF Inbox!DedupHolds, Inbox!Ids
  <2>3. i \in 1..n /\ rows'[i] = rows[i]
    BY <1>2, <1>4
  <2>4. CASE j \in 1..n
    BY <1>4, <2>1, <2>3, <2>4
  <2>5. CASE j = n + 1
    BY <1>4, <2>2, <2>3, <2>5
  <2> QED
    BY <1>2, <2>4, <2>5
<1>10. InboxType'
  BY <1>1, <1>2, <1>4, <1>7 DEF InboxType
<1> QED
  BY <1>1, <1>7, <1>8, <1>9, <1>10 DEF InboxInv, Inbox!InboxSound

\* What is marked as delivered is written down as somebody's; the rest of the rows stays.
LEMMA InboxMark ==
  ASSUME InboxInv, NEW ids \in SUBSET Inbox!Ids, rows' = Inbox!Marked(ids),
         carried \union read \union gone \union ids \subseteq carried' \union read' \union gone',
         UNCHANGED <<now, fires, allowed>>
  PROVE  InboxInv'
<1>1. rows \in Seq(InboxRow) /\ DOMAIN rows = 1..Len(rows) /\ Len(rows) \in Nat
  BY DEF InboxInv, InboxType
<1>2. DOMAIN rows' = DOMAIN rows
  BY DEF Inbox!Marked, Inbox!Ids
<1>3. \A i \in DOMAIN rows :
        /\ rows'[i] = IF i \in ids THEN [rows[i] EXCEPT !.delivered = TRUE] ELSE rows[i]
        /\ rows[i] \in InboxRow
  BY <1>1 DEF Inbox!Marked, Inbox!Ids
<1>4. \A i \in DOMAIN rows :
        /\ rows'[i] \in InboxRow /\ rows'[i].key = rows[i].key /\ rows'[i].at = rows[i].at
        /\ rows'[i].delivered => rows[i].delivered \/ i \in ids
        /\ rows[i].delivered => rows'[i].delivered
  BY <1>3 DEF InboxRow
<1>5. rows' \in Seq(InboxRow)
  <2>1. rows' = [i \in 1..Len(rows) |-> rows'[i]]
    BY <1>1 DEF Inbox!Marked, Inbox!Ids
  <2> QED
    BY <1>1, <1>2, <1>4, <2>1
<1>6. InboxType'
  BY <1>5 DEF InboxInv, InboxType
<1>7. Inbox!NothingVanishes'
  BY <1>2, <1>4 DEF InboxInv, Inbox!InboxSound, Inbox!NothingVanishes, Inbox!Ids
<1>8. Inbox!DedupHolds'
  BY <1>2, <1>4 DEF InboxInv, Inbox!InboxSound, Inbox!DedupHolds, Inbox!Ids
<1>9. Inbox!NoStorm'
  BY DEF InboxInv, Inbox!InboxSound, Inbox!NoStorm
<1> QED
  BY <1>6, <1>7, <1>8, <1>9 DEF InboxInv, Inbox!InboxSound

\* Nothing that somebody has is forgotten.
LEMMA InboxStays ==
  ASSUME InboxInv, UNCHANGED <<now, rows, fires, allowed>>,
         carried \union read \union gone \subseteq carried' \union read' \union gone'
  PROVE  InboxInv'
  BY DEF InboxInv, InboxType, Inbox!InboxSound, Inbox!NothingVanishes, Inbox!NoStorm, Inbox!DedupHolds, Inbox!Ids

LEMMA InboxRestart ==
  ASSUME InboxInv, Inbox!Restart
  PROVE  InboxInv'
<1>1. /\ fires' = <<>> /\ allowed' = <<>> /\ gone' = gone \union carried /\ carried' = {}
      /\ UNCHANGED <<now, rows, read>>
  BY DEF Inbox!Restart
<1>2. <<>> \in Seq(Nat) /\ Guarded(<<>>, <<>>, now)
  BY DEF Guarded
<1>3. InboxType'
  BY <1>1, <1>2 DEF InboxInv, InboxType
<1> QED
  BY <1>1, <1>2, <1>3
  DEF InboxInv, Inbox!InboxSound, Inbox!NothingVanishes, Inbox!NoStorm, Inbox!DedupHolds, Inbox!Ids

LEMMA InboxStep ==
  ASSUME InboxInv, [Inbox!Next]_inboxVars
  PROVE  InboxInv'
<1>1. CASE \E floor \in Inbox!Tier, limit \in Limits : Inbox!CheckInbox(floor, limit)
  <2>1. PICK floor \in Inbox!Tier, limit \in Limits : Inbox!CheckInbox(floor, limit)
    BY <1>1
  <2>2. Inbox!Batch(floor, limit) \in SUBSET Inbox!Ids
    BY DEF Inbox!Batch, Inbox!Pending
  <2> QED
    BY <2>1, <2>2, InboxMark DEF Inbox!CheckInbox, Inbox!history
<1>2. ASSUME NEW i \in Inbox!Ids, Inbox!Dismiss(i) PROVE InboxInv'
  BY <1>2, InboxMark DEF Inbox!Dismiss
<1>3. ASSUME NEW i \in Inbox!Ids, Inbox!FireEnds(i) PROVE InboxInv'
  BY <1>3, InboxStays DEF Inbox!FireEnds
<1>4. CASE Inbox!Surface
  BY <1>4, InboxStays DEF Inbox!Surface
<1>5. CASE UNCHANGED inboxVars
  BY <1>5, InboxStays DEF inboxVars
<1> QED
  BY <1>1, <1>2, <1>3, <1>4, <1>5, InboxTick, InboxAdd, InboxRestart DEF Inbox!Next

\* For any windows, limits and number of posts (inbox/store.py, check_inbox): an item is
\* marked as delivered only when somebody has it, no more than MaxFires turns start in any
\* window, and pending items of one key are more than the window apart.
THEOREM InboxIsSound == Spec => []InboxSound
<1>1. Init => InboxInv
  BY InboxInit DEF Init
<1>2. InboxInv /\ [Next]_vars => InboxInv'
  BY InboxMoves, InboxStep
<1>3. InboxInv => InboxSound
  BY DEF InboxInv, InboxSound
<1> QED
  BY <1>1, <1>2, <1>3, PTL DEF Spec

-----------------------------------------------------------------------------
(* Coding agents: what an answer holds, and what becomes of processes, locks and clients. *)

LEMMA AcpMoves == [Next]_vars => [Acp!Next]_acpVars
  BY DEF Next, vars

Busy == {"entering", "launch", "hello", "prompt"}
Fates == {"answer", "error", "exited", "timeout", "broken", "cancelled"}

\* Only a delegate, or a call that was cancelled, leaves an unsound client in the cache.
Tainted(k) == \E d \in Calls : client[d] = k /\ (d \in Delegated \/ ending[d] = "cancelled")

\* A call that cannot end in an answer from the session it now has.
Doomed(d) ==
  \/ pc[d] = "hello"
  \/ pc[d] = "prompt" /\ (fut[d] \in {"bad", "lost"} \/ (fut[d] = "wait" /\ turn[d] = 0))

Called == {d \in Calls : pc[d] # "idle"}

\* Every call has a client, and no more clients are built than calls made.
OwnClient ==
  /\ created <= Cardinality(Called)
  /\ \A d \in Calls : IF pc[d] = "idle" THEN client[d] = 0 ELSE client[d] \in 1..created
  /\ \A d \in Calls : ending[d] # "none" <=> pc[d] = "done"

\* Who is past the agent's lock holds it, unless it is a delegate's call; who starts the
\* client holds its start lock; who awaits an answer has a future.
Locked ==
  /\ lock # None => pc[lock] \in Busy
  /\ \A d \in Calls \ Delegated : pc[d] \in Busy => lock = d
  /\ \A d \in Delegated : pc[d] # "locking"
  /\ \A d \in Calls : pc[d] \in {"launch", "hello"} => starter[client[d]] = d
  /\ \A d \in Calls : pc[d] \in {"hello", "prompt"} <=> fut[d] # "none"

\* The process a client knows is the only one of its that may not have been reaped; it has
\* none that runs while it launches one.
Launches ==
  /\ \A q \in Acp!Procs : (q <= spawned <=> own[q] # 0) /\ (q <= spawned <=> life[q] # "none")
  /\ \A q \in Acp!Procs : life[q] \in {"live", "exited"} => proc[own[q]] = q
  /\ \A k \in Acp!Clients : proc[k] # 0 => own[proc[k]] = k
  /\ \A d \in Calls : pc[d] = "launch" => ~Acp!Running(client[d])
  /\ \A d \in Calls : pc[d] = "hello" => proc[client[d]] # 0

\* An agent at work for a call that has ended was given up; its client is cached no more.
AtWork ==
  \A d \in Calls : turn[d] # 0 =>
    /\ own[turn[d]] = client[d] /\ pc[d] \in {"prompt", "done"} /\ fut[d] \notin {"ok", "bad"}
    /\ pc[d] = "done" => Acp!GaveUp(d) /\ (cache # client[d] \/ Tainted(client[d]))

\* Since the one turn a client serves has begun its buffer holds the text of that turn and
\* of calls that were given up.
Buffered ==
  /\ \A d \in said : pc[d] \in {"prompt", "done"}
  /\ \A k \in Acp!Clients : \A d \in answer[k] : client[d] = k
  /\ \A d \in Calls : pc[d] = "prompt" /\ ~Acp!Shares(d) =>
       /\ d \in answer[client[d]] <=> d \in said
       /\ \A e \in answer[client[d]] \ {d} : Acp!GaveUp(e)

\* The cached client can serve the next call, or will be dropped by the one it fails.
Cached ==
  cache # None =>
    \/ proc[cache] = 0
    \/ life[proc[cache]] # "live"
    \/ proc[cache] \in ready \intersect reader
    \/ Tainted(cache)
    \/ \E d \in Calls : client[d] = cache /\ Doomed(d)

AcpInv ==
  /\ Acp!TypeOK /\ OwnClient /\ Locked /\ Launches /\ AtWork /\ Buffered /\ Cached
  /\ Acp!AnswerMine /\ Acp!AnswerWhole

LEMMA AcpNumbers ==
  /\ IsFiniteSet(Calls) /\ Cardinality(Calls) \in Nat /\ Acp!Cardinality(Calls) = Cardinality(Calls)
  /\ Delegated \subseteq Calls /\ MaxProcs \in Nat /\ None \notin Calls /\ None \notin Nat
<1>1. IsFiniteSet(Calls)
  BY AcpAssumption DEF AcpAssumption, Acp!AcpAssumption, IsFiniteSet, Acp!IsFiniteSet
<1>2. Acp!Cardinality(Calls) = Cardinality(Calls)
  BY DEF Cardinality, Acp!Cardinality
<1> QED
  BY <1>1, <1>2, FS_CardinalityType, AcpAssumption DEF AcpAssumption, Acp!AcpAssumption

\* A call that is under way has one of the numbered clients, and that one its process.
LEMMA ClientOf ==
  ASSUME AcpInv, NEW c \in Calls, pc[c] # "idle"
  PROVE  client[c] \in Acp!Clients /\ client[c] \in 1..created
<1>1. created \in 0..Acp!Cardinality(Calls) /\ client[c] \in 1..created
  BY DEF AcpInv, Acp!TypeOK, OwnClient
<1> QED
  BY <1>1, AcpNumbers DEF Acp!Clients

LEMMA AcpInit == Acp!Init => AcpInv
<1> SUFFICES ASSUME Acp!Init PROVE AcpInv
  OBVIOUS
<1> USE AcpNumbers
<1>1. Acp!TypeOK
  BY DEF Acp!Init, Acp!TypeOK, Acp!Where, Acp!Procs, Acp!Clients
<1>2. OwnClient
  <2>1. Called = {} /\ created = 0
    BY DEF Acp!Init, Called
  <2>2. Cardinality(Called) = 0
    BY <2>1, FS_EmptySet
  <2> QED
    BY <2>1, <2>2 DEF Acp!Init, OwnClient
<1>3. Locked
  BY DEF Acp!Init, Locked, Busy
<1>4. Launches
  BY DEF Acp!Init, Launches, Acp!Procs
<1>5. AtWork
  BY DEF Acp!Init, AtWork
<1>6. Buffered
  BY DEF Acp!Init, Buffered
<1>7. Cached
  BY DEF Acp!Init, Cached
<1>8. Acp!AnswerMine /\ Acp!AnswerWhole
  BY DEF Acp!Init, Acp!AnswerMine, Acp!AnswerWhole
<1> QED
  BY <1>1, <1>2, <1>3, <1>4, <1>5, <1>6, <1>7, <1>8 DEF AcpInv

\* However a call ends, its locks are given back, and what it leaves behind is accounted
\* for: a client that failed it is dropped, an agent still at work for it was given up.
LEMMA AcpLeave ==
  ASSUME AcpInv, NEW c \in Calls, NEW how \in Fates, pc[c] \in Busy \union {"locking"},
         Acp!Leave(c, how),
         IF how = "answer"
         THEN pc[c] = "prompt" /\ fut[c] = "ok" /\ texts' = [texts EXCEPT ![c] = answer[client[c]]]
         ELSE texts' = texts,
         how = "error" => pc[c] = "launch" \/ fut[c] = "bad",
         how = "broken" => pc[c] \in {"entering", "hello"} /\ life[proc[client[c]]] = "exited",
         answer' = answer \/ (how = "broken" /\ answer' = Acp!Emptied(client[c])),
         ready \subseteq ready', ready' \subseteq 1..spawned,
         UNCHANGED <<proc, spawned, own, life, reader, turn, said>>
  PROVE  AcpInv'
<1> USE AcpNumbers
<1>1. /\ pc' = [pc EXCEPT ![c] = "done"] /\ ending' = [ending EXCEPT ![c] = how]
      /\ fut' = [fut EXCEPT ![c] = "none"]
      /\ cache' = Acp!CacheAfter(c, how) /\ lock' = IF lock = c THEN None ELSE lock
      /\ starter' = [k \in Acp!Clients |-> IF starter[k] = c THEN None ELSE starter[k]]
      /\ created' = created /\ client' = client
  BY DEF Acp!Leave, Acp!Freed
<1>2. /\ pc \in [Calls -> Acp!Where] /\ fut \in [Calls -> {"none", "wait", "ok", "bad", "lost"}]
      /\ ending \in [Calls -> {"none"} \union Fates] /\ client \in [Calls -> 0..created]
      /\ texts \in [Calls -> SUBSET Calls] /\ answer \in [Acp!Clients -> SUBSET Calls]
      /\ starter \in [Acp!Clients -> Calls \union {None}]
      /\ cache \in {None} \union 1..created /\ lock \in {None} \union (Calls \ Delegated)
  BY DEF AcpInv, Acp!TypeOK, Fates
<1>3. /\ pc'[c] = "done" /\ ending'[c] = how /\ fut'[c] = "none"
      /\ \A d \in Calls \ {c} : pc'[d] = pc[d] /\ ending'[d] = ending[d] /\ fut'[d] = fut[d]
  BY <1>1, <1>2
<1>4. client[c] \in Acp!Clients /\ client[c] \in 1..created /\ ending[c] = "none"
  BY <1>1, <1>2, ClientOf DEF Busy, AcpInv, OwnClient
<1>5. cache' \in {None, cache}
  BY <1>1 DEF Acp!CacheAfter
<1>6. answer' \in [Acp!Clients -> SUBSET Calls] /\ \A k \in Acp!Clients : answer'[k] = answer[k] \/ (k = client[c] /\ answer'[k] = {} /\ how = "broken")
  BY <1>2, <1>4 DEF Acp!Emptied
<1>7. texts' \in [Calls -> SUBSET Calls] /\ \A d \in Calls \ {c} : texts'[d] = texts[d]
  BY <1>2, <1>4
<1>8. how = "answer" => texts'[c] = answer[client[c]]
  BY <1>2, <1>4
<1>9. Acp!TypeOK'
  <2>1. pc' \in [Calls -> Acp!Where] /\ fut' \in [Calls -> {"none", "wait", "ok", "bad", "lost"}] /\ ending' \in [Calls -> {"none"} \union Fates]
    BY <1>1, <1>2 DEF Acp!Where
  <2>2. starter' \in [Acp!Clients -> Calls \union {None}]
    BY <1>1, <1>2
  <2>3. \A k \in Acp!Clients : starter'[k] # None => pc'[starter'[k]] \in {"launch", "hello"} /\ client[starter'[k]] = k
    BY <1>1, <1>2, <1>3 DEF AcpInv, Acp!TypeOK
  <2>4. lock' \in {None} \union (Calls \ Delegated) /\ cache' \in {None} \union 1..created
    BY <1>1, <1>2, <1>5
  <2> QED
    BY <1>1, <1>6, <1>7, <2>1, <2>2, <2>3, <2>4 DEF AcpInv, Acp!TypeOK, Fates
<1>10. OwnClient'
  <2>1. Called' = Called
    BY <1>3 DEF Called, Busy
  <2> QED
    BY <1>1, <1>3, <1>4, <2>1 DEF AcpInv, OwnClient, Busy, Fates
<1>11. Locked'
  <2>1. lock' # None => pc'[lock'] \in Busy
    BY <1>1, <1>2, <1>3 DEF AcpInv, Locked
  <2>2. \A d \in Calls \ Delegated : pc'[d] \in Busy => lock' = d
    BY <1>1, <1>3 DEF AcpInv, Locked, Busy
  <2>3. \A d \in Delegated : pc'[d] # "locking"
    BY <1>3 DEF AcpInv, Locked
  <2>4. ASSUME NEW d \in Calls, pc'[d] \in {"launch", "hello"} PROVE starter'[client[d]] = d
    <3>1. d # c /\ pc[d] \in {"launch", "hello"} /\ client[d] \in Acp!Clients
      BY <1>3, <2>4, ClientOf
    <3>2. starter[client[d]] = d
      BY <3>1 DEF AcpInv, Locked
    <3> QED
      BY <1>1, <3>1, <3>2
  <2>5. \A d \in Calls : pc'[d] \in {"hello", "prompt"} <=> fut'[d] # "none"
    BY <1>3 DEF AcpInv, Locked
  <2> QED
    BY <1>1, <2>1, <2>2, <2>3, <2>4, <2>5 DEF Locked
<1>12. Launches'
  BY <1>1, <1>3 DEF AcpInv, Launches, Acp!Running
<1> DEFINE Spoilt(k) == \E d \in Calls : client[d] = k /\ (d \in Delegated \/ ending'[d] = "cancelled")
<1>13. \A k : Tainted(k) => Spoilt(k)
  BY <1>3, <1>4 DEF Tainted
<1>14. turn[c] # 0 => how \in {"exited", "timeout", "cancelled"} /\ (cache' # client[c] \/ Spoilt(client[c]))
  <2> SUFFICES ASSUME turn[c] # 0
               PROVE  how \in {"exited", "timeout", "cancelled"} /\ (cache' # client[c] \/ Spoilt(client[c]))
    OBVIOUS
  <2>1. how \in {"exited", "timeout", "cancelled"}
    BY DEF AcpInv, AtWork, Fates, Busy
  <2>2. CASE how = "cancelled"
    BY <1>3, <2>1, <2>2
  <2>3. CASE c \in Delegated
    BY <2>1, <2>3
  <2>4. CASE how # "cancelled" /\ c \notin Delegated
    BY <1>1, <1>4, <2>1, <2>4 DEF Acp!CacheAfter
  <2> QED
    BY <2>1, <2>2, <2>3, <2>4
<1>15. AtWork'
  <2> SUFFICES ASSUME NEW d \in Calls, turn[d] # 0
               PROVE  /\ own[turn[d]] = client[d] /\ pc'[d] \in {"prompt", "done"} /\ fut'[d] \notin {"ok", "bad"}
                      /\ pc'[d] = "done" => Acp!GaveUp(d)' /\ (cache' # client[d] \/ Spoilt(client[d]))
    BY <1>1 DEF AtWork, Tainted
  <2>1. CASE d = c
    BY <1>3, <1>14, <2>1 DEF AcpInv, AtWork, Acp!GaveUp
  <2>2. CASE d # c
    <3>1. pc[d] = "done" => cache' # client[d] \/ Spoilt(client[d])
      BY <1>2, <1>5, <1>13 DEF AcpInv, AtWork
    <3> QED
      BY <1>3, <2>2, <3>1 DEF AcpInv, AtWork, Acp!GaveUp
  <2> QED
    BY <2>1, <2>2
<1>16. \A d \in Calls : Acp!GaveUp(d) => Acp!GaveUp(d)'
  BY <1>3, <1>4 DEF Acp!GaveUp
<1>17. \A d \in Calls : Acp!Shares(d)' <=> Acp!Shares(d)
  BY <1>1 DEF Acp!Shares
<1>18. Buffered'
  <2>1. \A d \in said' : pc'[d] \in {"prompt", "done"}
    BY <1>3 DEF AcpInv, Buffered, Acp!TypeOK
  <2>2. \A k \in Acp!Clients : \A d \in answer'[k] : client'[d] = k
    BY <1>1, <1>6 DEF AcpInv, Buffered
  <2>3. ASSUME NEW d \in Calls, pc'[d] = "prompt", ~Acp!Shares(d)
        PROVE  answer'[client[d]] = answer[client[d]] /\ pc[d] = "prompt"
    <3>1. d # c /\ pc[d] = "prompt" /\ client[d] \in Acp!Clients /\ d \notin Delegated
      BY <1>3, <2>3, ClientOf DEF Acp!Shares
    <3>2. how = "broken" /\ client[c] = client[d] => FALSE
      <4> SUFFICES ASSUME how = "broken", client[c] = client[d] PROVE FALSE
        OBVIOUS
      <4>1. c \notin Delegated
        BY <2>3 DEF Acp!Shares
      <4>2. lock = c /\ lock = d
        BY <3>1, <4>1 DEF AcpInv, Locked, Busy
      <4> QED
        BY <3>1, <4>2
    <3> QED
      BY <1>6, <3>1, <3>2
  <2>4. ASSUME NEW d \in Calls, pc'[d] = "prompt", ~Acp!Shares(d)
        PROVE  /\ d \in answer'[client[d]] <=> d \in said
               /\ \A e \in answer'[client[d]] \ {d} : Acp!GaveUp(e)'
    <3>1. answer'[client[d]] \subseteq Calls
      <4>1. client[d] \in Acp!Clients
        BY <2>3, <2>4, ClientOf
      <4> QED
        BY <1>6, <4>1
    <3> QED
      BY <1>16, <2>3, <2>4, <3>1 DEF AcpInv, Buffered
  <2> QED
    BY <1>1, <1>17, <2>1, <2>2, <2>4 DEF Buffered
<1>19. Cached'
  <2> SUFFICES ASSUME cache' # None
               PROVE  \/ proc[cache] = 0 \/ life[proc[cache]] # "live" \/ proc[cache] \in ready' \intersect reader
                      \/ Spoilt(cache) \/ \E d \in Calls : client[d] = cache /\ Doomed(d)'
    BY <1>1, <1>5 DEF Cached, Tainted
  <2>1. cache' = cache /\ cache # None /\ (how \in {"error", "exited", "timeout"} => c \in Delegated)
    BY <1>1, <1>5 DEF Acp!CacheAfter
  <2>2. CASE Tainted(cache)
    BY <1>13, <2>2
  <2>3. CASE \E d \in Calls : client[d] = cache /\ Doomed(d)
    <3>1. PICK d \in Calls : client[d] = cache /\ Doomed(d)
      BY <2>3
    <3>2. CASE d # c
      BY <1>3, <3>1, <3>2 DEF Doomed
    <3>3. CASE d = c
      <4>1. how # "answer"
        BY <3>1, <3>3 DEF Doomed
      <4>2. CASE how = "broken"
        BY <3>1, <3>3, <4>2
      <4>3. CASE how = "cancelled"
        BY <1>3, <3>1, <3>3, <4>3
      <4>4. CASE how \in {"error", "exited", "timeout"}
        BY <2>1, <3>1, <3>3, <4>4
      <4> QED
        BY <4>1, <4>2, <4>3, <4>4 DEF Fates
    <3> QED
      BY <3>2, <3>3
  <2> QED
    BY <2>1, <2>2, <2>3 DEF AcpInv, Cached
<1>20. Acp!AnswerMine'
  <2> SUFFICES ASSUME NEW a \in Calls, NEW d \in Calls, ending'[a] = "answer", d \in texts'[a], d # a
               PROVE  client[d] = client[a] /\ (Acp!GaveUp(d)' \/ Acp!Shares(a))
    BY <1>1, <1>17 DEF Acp!AnswerMine
  <2>1. CASE a # c
    BY <1>3, <1>7, <1>16, <2>1 DEF AcpInv, Acp!AnswerMine
  <2>2. CASE a = c
    BY <1>3, <1>4, <1>8, <1>16, <2>2 DEF AcpInv, Buffered
  <2> QED
    BY <2>1, <2>2
<1>21. Acp!AnswerWhole'
  <2> SUFFICES ASSUME NEW a \in Calls, ending'[a] = "answer", ~Acp!Shares(a)
               PROVE  a \in texts'[a] <=> a \in said
    BY <1>17 DEF Acp!AnswerWhole
  <2>1. CASE a # c
    BY <1>3, <1>7, <2>1 DEF AcpInv, Acp!AnswerWhole
  <2>2. CASE a = c
    BY <1>3, <1>8, <2>2 DEF AcpInv, Buffered
  <2> QED
    BY <2>1, <2>2
<1> QED
  BY <1>9, <1>10, <1>11, <1>12, <1>15, <1>18, <1>19, <1>20, <1>21 DEF AcpInv

\* A new call takes the cached client, or one built for it that has no process yet.
LEMMA AcpCall ==
  ASSUME AcpInv, NEW c \in Calls, Acp!Call(c)
  PROVE  AcpInv'
<1> USE AcpNumbers
<1>1. /\ pc[c] = "idle"
      /\ pc' = [pc EXCEPT ![c] = IF c \in Delegated THEN "entering" ELSE "locking"]
      /\ created' = IF cache = None THEN created + 1 ELSE created
      /\ cache' = IF cache = None THEN created + 1 ELSE cache
      /\ client' = [client EXCEPT ![c] = cache']
      /\ UNCHANGED <<lock, fut, ending, texts, starter, proc, answer, spawned, own, life, ready, reader, turn, said>>
  BY DEF Acp!Call, Acp!clientVars, Acp!agents
<1>2. /\ pc \in [Calls -> Acp!Where] /\ client \in [Calls -> 0..created]
      /\ cache \in {None} \union 1..created /\ created \in 0..Cardinality(Calls)
      /\ own \in [Acp!Procs -> 0..created] /\ proc \in [Acp!Clients -> 0..spawned] /\ spawned \in 0..MaxProcs
      /\ turn \in [Calls -> 0..spawned] /\ texts \in [Calls -> SUBSET Calls] /\ answer \in [Acp!Clients -> SUBSET Calls]
  BY DEF AcpInv, Acp!TypeOK
<1>3. /\ pc'[c] \in {"entering", "locking"} /\ (pc'[c] = "locking" <=> c \notin Delegated)
      /\ \A d \in Calls \ {c} : pc'[d] = pc[d] /\ client'[d] = client[d]
      /\ client'[c] = cache' /\ client[c] = 0
  BY <1>1, <1>2 DEF AcpInv, OwnClient
<1>4. Cardinality(Called') = Cardinality(Called) + 1 /\ Cardinality(Called') <= Cardinality(Calls) /\ Cardinality(Called) \in Nat
  <2>1. Called' = Called \union {c} /\ c \notin Called /\ Called \subseteq Calls /\ Called' \subseteq Calls
    BY <1>1, <1>3 DEF Called
  <2>2. IsFiniteSet(Called) /\ Cardinality(Called) \in Nat /\ Cardinality(Called') <= Cardinality(Calls)
    BY <2>1, FS_Subset, FS_CardinalityType
  <2> QED
    BY <2>1, <2>2, FS_AddElement
<1>5. created \in Nat /\ created' \in 0..Cardinality(Calls) /\ created <= created' /\ cache' \in 1..created' /\ created' <= Cardinality(Called')
  BY <1>1, <1>2, <1>4 DEF AcpInv, OwnClient
<1>6. pc' \in [Calls -> Acp!Where] /\ client' \in [Calls -> 0..created'] /\ own' \in [Acp!Procs -> 0..created']
  <2>1. 0..created \subseteq 0..created' /\ cache' \in 0..created'
    BY <1>5
  <2> QED
    BY <1>1, <1>2, <2>1 DEF Acp!Where
<1>7. \A d \in Calls \ {c} : pc[d] # "idle" => client[d] \in 1..created
  BY DEF AcpInv, OwnClient
<1>8. Acp!TypeOK'
  <2>1. \A k \in Acp!Clients : starter[k] # None => pc'[starter[k]] \in {"launch", "hello"} /\ client'[starter[k]] = k
    BY <1>1, <1>3 DEF AcpInv, Acp!TypeOK
  <2> QED
    BY <1>1, <1>5, <1>6, <2>1 DEF AcpInv, Acp!TypeOK
<1>9. OwnClient'
  <2>1. \A d \in Calls \ {c} : IF pc'[d] = "idle" THEN client'[d] = 0 ELSE client'[d] \in 1..created'
    BY <1>3, <1>5, <1>7 DEF AcpInv, OwnClient
  <2>2. \A d \in Calls : ending'[d] # "none" <=> pc'[d] = "done"
    BY <1>1, <1>3 DEF AcpInv, OwnClient
  <2> QED
    BY <1>3, <1>5, <2>1, <2>2 DEF OwnClient
<1>10. Locked'
  <2>1. lock' # None => pc'[lock'] \in Busy
    BY <1>1, <1>3 DEF AcpInv, Locked, Acp!TypeOK, Busy
  <2>2. \A d \in Calls \ Delegated : pc'[d] \in Busy => lock' = d
    BY <1>1, <1>3 DEF AcpInv, Locked, Busy
  <2>3. \A d \in Delegated : pc'[d] # "locking"
    BY <1>3 DEF AcpInv, Locked
  <2>4. \A d \in Calls : pc'[d] \in {"launch", "hello"} => starter'[client'[d]] = d
    BY <1>1, <1>3 DEF AcpInv, Locked
  <2>5. \A d \in Calls : pc'[d] \in {"hello", "prompt"} <=> fut'[d] # "none"
    BY <1>1, <1>3 DEF AcpInv, Locked
  <2> QED
    BY <2>1, <2>2, <2>3, <2>4, <2>5 DEF Locked
<1>11. Launches'
  <2>1. \A d \in Calls : pc'[d] = "launch" => (proc[client'[d]] = 0 \/ life[proc[client'[d]]] = "reaped")
    BY <1>1, <1>3 DEF AcpInv, Launches, Acp!Running
  <2>2. \A d \in Calls : pc'[d] = "hello" => proc'[client'[d]] # 0
    BY <1>1, <1>3 DEF AcpInv, Launches
  <2> QED
    BY <1>1, <2>1, <2>2 DEF AcpInv, Launches, Acp!Running
<1> DEFINE Spoilt(k) == \E d \in Calls : client'[d] = k /\ (d \in Delegated \/ ending[d] = "cancelled")
<1>12. \A k \in 1..created : Tainted(k) => Spoilt(k)
  BY <1>3 DEF Tainted
<1>13. AtWork'
  <2> SUFFICES ASSUME NEW d \in Calls, turn[d] # 0
               PROVE  /\ own[turn[d]] = client'[d] /\ pc'[d] \in {"prompt", "done"} /\ fut[d] \notin {"ok", "bad"}
                      /\ pc'[d] = "done" => Acp!GaveUp(d) /\ (cache' # client'[d] \/ Spoilt(client'[d]))
    BY <1>1 DEF AtWork, Tainted, Acp!GaveUp
  <2>1. d # c /\ client[d] \in 1..created
    BY <1>1, <1>7 DEF AcpInv, AtWork
  <2>2. cache # client[d] => cache' # client[d]
    BY <1>1, <1>2, <2>1
  <2> QED
    BY <1>3, <1>12, <2>1, <2>2 DEF AcpInv, AtWork
<1>14. \A d \in Calls : pc[d] # "idle" /\ Acp!Shares(d) => Acp!Shares(d)'
  BY <1>1, <1>3, <1>7 DEF Acp!Shares
<1>15. Buffered'
  <2>1. \A d \in said' : pc'[d] \in {"prompt", "done"}
    BY <1>1, <1>3 DEF AcpInv, Buffered, Acp!TypeOK
  <2>2. \A k \in Acp!Clients : \A d \in answer[k] : client'[d] = k
    <3> SUFFICES ASSUME NEW k \in Acp!Clients, NEW d \in answer[k] PROVE client'[d] = k
      OBVIOUS
    <3>1. d \in Calls /\ client[d] = k /\ k # 0
      BY <1>2 DEF AcpInv, Buffered, Acp!Clients
    <3> QED
      BY <1>3, <3>1
  <2>3. ASSUME NEW d \in Calls, pc'[d] = "prompt", ~Acp!Shares(d)'
        PROVE  /\ d \in answer[client'[d]] <=> d \in said
               /\ \A e \in answer[client'[d]] \ {d} : Acp!GaveUp(e)'
    <3>1. pc[d] = "prompt" /\ client'[d] = client[d] /\ ~Acp!Shares(d)
      BY <1>3, <1>14, <2>3
    <3> QED
      BY <1>1, <3>1 DEF AcpInv, Buffered, Acp!GaveUp
  <2> QED
    BY <1>1, <2>1, <2>2, <2>3 DEF Buffered
<1>16. Cached'
  <2>1. CASE cache = None
    <3>1. cache' = created + 1 /\ cache' \in Acp!Clients
      BY <1>1, <1>2, <1>5, <2>1 DEF Acp!Clients
    <3>2. proc[cache'] = 0
      <4> SUFFICES ASSUME proc[cache'] # 0 PROVE FALSE
        OBVIOUS
      <4>1. proc[cache'] \in Acp!Procs
        BY <1>2, <3>1 DEF Acp!Procs
      <4>2. own[proc[cache']] = cache'
        BY <3>1 DEF AcpInv, Launches
      <4> QED
        BY <1>2, <3>1, <4>1, <4>2
    <3> QED
      BY <1>1, <3>2 DEF Cached
  <2>2. CASE cache # None
    <3>1. cache' = cache /\ cache \in 1..created
      BY <1>1, <1>2, <2>2
    <3>2. (\E d \in Calls : client[d] = cache /\ Doomed(d)) => \E d \in Calls : client'[d] = cache /\ Doomed(d)'
      BY <1>1, <1>3 DEF Doomed
    <3>3. Spoilt(cache) => Tainted(cache)'
      BY <1>1, <3>1 DEF Tainted
    <3> QED
      BY <1>1, <1>12, <2>2, <3>1, <3>2, <3>3 DEF AcpInv, Cached
  <2> QED
    BY <2>1, <2>2
<1>17. Acp!AnswerMine'
  <2> SUFFICES ASSUME NEW a \in Calls, NEW d \in Calls, ending[a] = "answer", d \in texts[a], d # a
               PROVE  client'[d] = client'[a] /\ (Acp!GaveUp(d)' \/ Acp!Shares(a)')
    BY <1>1 DEF Acp!AnswerMine
  <2>1. client[d] = client[a] /\ (Acp!GaveUp(d) \/ Acp!Shares(a)) /\ pc[a] = "done" /\ a # c
    BY <1>1 DEF AcpInv, Acp!AnswerMine, OwnClient
  <2>2. d # c
    BY <1>3, <1>7, <2>1
  <2> QED
    BY <1>1, <1>3, <1>14, <2>1, <2>2 DEF Acp!GaveUp
<1>18. Acp!AnswerWhole'
  <2>1. \A a \in Calls : ending[a] = "answer" => pc[a] # "idle"
    BY DEF AcpInv, OwnClient
  <2> QED
    BY <1>1, <1>14, <2>1 DEF AcpInv, Acp!AnswerWhole
<1> QED
  BY <1>8, <1>9, <1>10, <1>11, <1>13, <1>15, <1>16, <1>17, <1>18 DEF AcpInv

\* Before its prompt is out a call can move on without a change to what is said of answers.
LEMMA AcpAdvance ==
  ASSUME AcpInv, NEW c \in Calls, NEW to \in {"entering", "launch"}, pc[c] \in {"locking", "entering"},
         pc' = [pc EXCEPT ![c] = to],
         UNCHANGED <<cache, created, client, fut, ending, texts, proc, answer, spawned, own, life,
                     ready, reader, turn, said>>
  PROVE  OwnClient' /\ AtWork' /\ Buffered' /\ Cached' /\ Acp!AnswerMine' /\ Acp!AnswerWhole'
<1>1. pc \in [Calls -> Acp!Where] /\ said \subseteq Calls
  BY DEF AcpInv, Acp!TypeOK
<1>2. pc'[c] = to /\ \A d \in Calls \ {c} : pc'[d] = pc[d]
  BY <1>1
<1>3. OwnClient'
  <2>1. Called' = Called
    BY <1>2 DEF Called
  <2>2. \A d \in Calls : (pc'[d] = "idle" <=> pc[d] = "idle") /\ (pc'[d] = "done" <=> pc[d] = "done")
    BY <1>2
  <2> QED
    BY <2>1, <2>2 DEF AcpInv, OwnClient
<1>4. AtWork'
  BY <1>2 DEF AcpInv, AtWork, Acp!GaveUp, Tainted
<1>5. Buffered'
  <2>1. \A d \in said : pc'[d] \in {"prompt", "done"}
    BY <1>1, <1>2 DEF AcpInv, Buffered
  <2>2. \A d \in Calls : pc'[d] = "prompt" => pc[d] = "prompt"
    BY <1>2
  <2> QED
    BY <2>1, <2>2 DEF AcpInv, Buffered, Acp!GaveUp, Acp!Shares
<1>6. Cached'
  <2>1. \A d \in Calls : Doomed(d) => Doomed(d)'
    BY <1>2 DEF Doomed
  <2> QED
    BY <2>1 DEF AcpInv, Cached, Tainted
<1>7. Acp!AnswerMine' /\ Acp!AnswerWhole'
  BY DEF AcpInv, Acp!AnswerMine, Acp!AnswerWhole, Acp!GaveUp, Acp!Shares
<1> QED
  BY <1>3, <1>4, <1>5, <1>6, <1>7

LEMMA AcpTakeLock ==
  ASSUME AcpInv, NEW c \in Calls, Acp!TakeLock(c)
  PROVE  AcpInv'
<1>1. /\ pc[c] = "locking" /\ lock = None /\ lock' = c /\ pc' = [pc EXCEPT ![c] = "entering"]
      /\ UNCHANGED <<cache, created, client, fut, ending, texts, starter, proc, answer,
                     spawned, own, life, ready, reader, turn, said>>
  BY DEF Acp!TakeLock, Acp!LockFree, Acp!clientVars, Acp!agents
<1>2. pc \in [Calls -> Acp!Where] /\ c \notin Delegated
  BY <1>1 DEF AcpInv, Acp!TypeOK, Locked
<1>3. pc'[c] = "entering" /\ \A d \in Calls \ {c} : pc'[d] = pc[d]
  BY <1>1, <1>2
<1>4. OwnClient' /\ AtWork' /\ Buffered' /\ Cached' /\ Acp!AnswerMine' /\ Acp!AnswerWhole'
  BY <1>1, AcpAdvance
<1>5. Acp!TypeOK'
  <2>1. pc' \in [Calls -> Acp!Where] /\ lock' \in {None} \union (Calls \ Delegated)
    BY <1>1, <1>2 DEF Acp!Where
  <2>2. \A k \in Acp!Clients : starter[k] # None => pc'[starter[k]] \in {"launch", "hello"} /\ client[starter[k]] = k
    BY <1>1, <1>3 DEF AcpInv, Acp!TypeOK
  <2> QED
    BY <1>1, <2>1, <2>2 DEF AcpInv, Acp!TypeOK
<1>6. Locked'
  <2>1. \A d \in Calls \ Delegated : pc'[d] \in Busy => lock' = d
    BY <1>1, <1>3, AcpNumbers DEF AcpInv, Locked, Busy
  <2>2. \A d \in Calls : pc'[d] \in {"launch", "hello"} => starter[client[d]] = d
    BY <1>1, <1>3 DEF AcpInv, Locked
  <2>3. \A d \in Calls : pc'[d] \in {"hello", "prompt"} <=> fut[d] # "none"
    BY <1>1, <1>3 DEF AcpInv, Locked
  <2>4. \A d \in Delegated : pc'[d] # "locking"
    BY <1>3, AcpNumbers DEF AcpInv, Locked
  <2> QED
    BY <1>1, <1>3, <2>1, <2>2, <2>3, <2>4 DEF Locked, Busy
<1>7. Launches'
  BY <1>1, <1>3 DEF AcpInv, Launches, Acp!Running
<1> QED
  BY <1>4, <1>5, <1>6, <1>7 DEF AcpInv

LEMMA AcpLaunch ==
  ASSUME AcpInv, NEW c \in Calls, Acp!Launch(c)
  PROVE  AcpInv'
<1>1. /\ pc[c] = "entering" /\ starter[client[c]] = None /\ ~Acp!Running(client[c])
      /\ starter' = [starter EXCEPT ![client[c]] = c] /\ pc' = [pc EXCEPT ![c] = "launch"]
      /\ UNCHANGED <<cache, created, lock, client, fut, ending, texts, proc, answer,
                     spawned, own, life, ready, reader, turn, said>>
  BY DEF Acp!Launch, Acp!MayEnter, Acp!tools, Acp!agents
<1>2. pc \in [Calls -> Acp!Where] /\ starter \in [Acp!Clients -> Calls \union {None}] /\ client[c] \in Acp!Clients
  BY <1>1, ClientOf DEF AcpInv, Acp!TypeOK
<1>3. pc'[c] = "launch" /\ \A d \in Calls \ {c} : pc'[d] = pc[d]
  BY <1>1, <1>2
<1>4. OwnClient' /\ AtWork' /\ Buffered' /\ Cached' /\ Acp!AnswerMine' /\ Acp!AnswerWhole'
  BY <1>1, AcpAdvance
<1>5. starter'[client[c]] = c /\ \A k \in Acp!Clients \ {client[c]} : starter'[k] = starter[k]
  BY <1>1, <1>2
<1>6. Acp!TypeOK'
  <2>1. pc' \in [Calls -> Acp!Where] /\ starter' \in [Acp!Clients -> Calls \union {None}]
    BY <1>1, <1>2 DEF Acp!Where
  <2>2. \A k \in Acp!Clients : starter'[k] # None => pc'[starter'[k]] \in {"launch", "hello"} /\ client[starter'[k]] = k
    BY <1>1, <1>2, <1>3, <1>5 DEF AcpInv, Acp!TypeOK
  <2> QED
    BY <1>1, <2>1, <2>2 DEF AcpInv, Acp!TypeOK
<1>7. Locked'
  <2>1. \A d \in Calls : pc'[d] \in {"launch", "hello"} => starter'[client[d]] = d
    <3> SUFFICES ASSUME NEW d \in Calls, d # c, pc[d] \in {"launch", "hello"} PROVE starter'[client[d]] = d
      BY <1>3, <1>5
    <3>1. starter[client[d]] = d /\ client[d] \in Acp!Clients
      BY ClientOf DEF AcpInv, Locked
    <3> QED
      BY <1>1, <1>5, <3>1, AcpNumbers
  <2>2. lock # None => pc'[lock] \in Busy
    BY <1>3 DEF AcpInv, Locked, Acp!TypeOK, Busy
  <2>3. \A d \in Calls \ Delegated : pc'[d] \in Busy => lock = d
    BY <1>1, <1>3 DEF AcpInv, Locked, Busy
  <2>4. \A d \in Calls : pc'[d] \in {"hello", "prompt"} <=> fut[d] # "none"
    BY <1>1, <1>3 DEF AcpInv, Locked
  <2>5. \A d \in Delegated : pc'[d] # "locking"
    BY <1>3, AcpNumbers DEF AcpInv, Locked
  <2> QED
    BY <1>1, <2>1, <2>2, <2>3, <2>4, <2>5 DEF Locked
<1>8. Launches'
  <2>1. \A d \in Calls : pc'[d] = "launch" => ~Acp!Running(client[d])
    BY <1>1, <1>3 DEF AcpInv, Launches
  <2>2. \A d \in Calls : pc'[d] = "hello" => proc[client[d]] # 0
    BY <1>3 DEF AcpInv, Launches
  <2> QED
    BY <1>1, <2>1, <2>2 DEF AcpInv, Launches, Acp!Running
<1> QED
  BY <1>4, <1>6, <1>7, <1>8 DEF AcpInv

\* Whatever process the prompt goes to is the client's; if it is not at work, the call fails.
LEMMA AcpSend ==
  ASSUME AcpInv, NEW c \in Calls, pc[c] \in {"entering", "hello"}, proc[client[c]] # 0,
         Acp!Send(c, proc[client[c]]),
         starter' = [k \in Acp!Clients |-> IF starter[k] = c THEN None ELSE starter[k]],
         ready \subseteq ready', ready' \subseteq 1..spawned,
         pc[c] = "hello" => proc[client[c]] \in ready',
         UNCHANGED <<spawned, own, life, reader, said>>
  PROVE  AcpInv'
<1> USE AcpNumbers
<1> DEFINE p == proc[client[c]]
<1>1. /\ pc' = [pc EXCEPT ![c] = "prompt"] /\ answer' = [answer EXCEPT ![client[c]] = {}]
      /\ fut' = [fut EXCEPT ![c] = "wait"]
      /\ turn' = [turn EXCEPT ![c] = IF life[p] = "live" /\ p \in reader THEN p ELSE 0]
      /\ UNCHANGED <<cache, created, lock, client, ending, texts, proc>>
  BY DEF Acp!Send, Acp!Emptied, Acp!tools
<1>2. /\ pc \in [Calls -> Acp!Where] /\ fut \in [Calls -> {"none", "wait", "ok", "bad", "lost"}]
      /\ turn \in [Calls -> 0..spawned] /\ answer \in [Acp!Clients -> SUBSET Calls]
      /\ starter \in [Acp!Clients -> Calls \union {None}] /\ proc \in [Acp!Clients -> 0..spawned]
      /\ spawned \in Nat /\ client[c] \in Acp!Clients /\ said \subseteq Calls
  BY ClientOf DEF AcpInv, Acp!TypeOK
<1>3. p \in 1..spawned /\ own[p] = client[c]
  BY <1>2 DEF AcpInv, Launches
<1> HIDE DEF p
<1>4. /\ pc'[c] = "prompt" /\ fut'[c] = "wait" /\ answer'[client[c]] = {} /\ turn'[c] \in {0, p}
      /\ turn'[c] = 0 \/ p \in reader
      /\ \A d \in Calls \ {c} : pc'[d] = pc[d] /\ fut'[d] = fut[d] /\ turn'[d] = turn[d]
      /\ \A k \in Acp!Clients \ {client[c]} : answer'[k] = answer[k]
  BY <1>1, <1>2
<1>5. \A d \in Calls : client[d] = client[c] /\ d # c /\ pc[d] = "prompt" => Acp!Shares(d)
  <2> SUFFICES ASSUME NEW d \in Calls, client[d] = client[c], d # c, pc[d] = "prompt", ~Acp!Shares(d)
               PROVE  FALSE
    OBVIOUS
  <2>1. c \notin Delegated /\ d \notin Delegated
    BY DEF Acp!Shares
  <2> QED
    BY <2>1 DEF AcpInv, Locked, Busy
<1>6. Acp!TypeOK'
  <2>1. pc' \in [Calls -> Acp!Where] /\ fut' \in [Calls -> {"none", "wait", "ok", "bad", "lost"}]
    BY <1>1, <1>2 DEF Acp!Where
  <2>2. turn' \in [Calls -> 0..spawned]
    <3>1. turn'[c] \in 0..spawned
      BY <1>2, <1>3, <1>4
    <3> QED
      BY <1>1, <1>2, <3>1
  <2>3. answer' \in [Acp!Clients -> SUBSET Calls] /\ starter' \in [Acp!Clients -> Calls \union {None}]
    BY <1>1, <1>2
  <2>4. \A k \in Acp!Clients : starter'[k] # None => pc'[starter'[k]] \in {"launch", "hello"} /\ client[starter'[k]] = k
    BY <1>2, <1>4 DEF AcpInv, Acp!TypeOK
  <2> QED
    BY <1>1, <2>1, <2>2, <2>3, <2>4 DEF AcpInv, Acp!TypeOK
<1>7. OwnClient'
  <2>1. Called' = Called
    BY <1>4 DEF Called
  <2>2. \A d \in Calls : (pc'[d] = "idle" <=> pc[d] = "idle") /\ (pc'[d] = "done" <=> pc[d] = "done")
    BY <1>4
  <2> QED
    BY <1>1, <2>1, <2>2 DEF AcpInv, OwnClient
<1>8. Locked'
  <2>1. \A d \in Calls : pc'[d] \in {"launch", "hello"} => starter'[client[d]] = d
    <3> SUFFICES ASSUME NEW d \in Calls, d # c, pc[d] \in {"launch", "hello"} PROVE starter'[client[d]] = d
      BY <1>4
    <3>1. starter[client[d]] = d /\ client[d] \in Acp!Clients
      BY ClientOf DEF AcpInv, Locked
    <3> QED
      BY <3>1
  <2>2. lock # None => pc'[lock] \in Busy
    BY <1>4 DEF AcpInv, Locked, Acp!TypeOK, Busy
  <2>3. \A d \in Calls \ Delegated : pc'[d] \in Busy => lock = d
    BY <1>4 DEF AcpInv, Locked, Busy
  <2>4. \A d \in Calls : pc'[d] \in {"hello", "prompt"} <=> fut'[d] # "none"
    BY <1>4 DEF AcpInv, Locked
  <2>5. \A d \in Delegated : pc'[d] # "locking"
    BY <1>4 DEF AcpInv, Locked
  <2> QED
    BY <1>1, <2>1, <2>2, <2>3, <2>4, <2>5 DEF Locked
<1>9. Launches'
  <2>1. \A d \in Calls : pc'[d] \in {"launch", "hello"} => pc'[d] = pc[d]
    BY <1>4
  <2> QED
    BY <1>1, <2>1 DEF AcpInv, Launches, Acp!Running
<1>10. AtWork'
  <2> SUFFICES ASSUME NEW d \in Calls, turn'[d] # 0
               PROVE  /\ own[turn'[d]] = client[d] /\ pc'[d] \in {"prompt", "done"} /\ fut'[d] \notin {"ok", "bad"}
                      /\ pc'[d] = "done" => Acp!GaveUp(d) /\ (cache # client[d] \/ Tainted(client[d]))
    BY <1>1 DEF AtWork, Acp!GaveUp, Tainted
  <2> QED
    BY <1>3, <1>4 DEF AcpInv, AtWork
<1>11. Buffered'
  <2>1. \A d \in said : pc'[d] \in {"prompt", "done"}
    BY <1>2, <1>4 DEF AcpInv, Buffered
  <2>2. \A k \in Acp!Clients : \A d \in answer'[k] : client[d] = k
    BY <1>4 DEF AcpInv, Buffered
  <2>3. ASSUME NEW d \in Calls, pc'[d] = "prompt", ~Acp!Shares(d)
        PROVE  /\ d \in answer'[client[d]] <=> d \in said
               /\ \A e \in answer'[client[d]] \ {d} : Acp!GaveUp(e)
    <3>1. CASE d = c
      <4>1. c \notin said
        BY DEF AcpInv, Buffered
      <4> QED
        BY <1>4, <3>1, <4>1
    <3>2. CASE d # c
      <4>1. pc[d] = "prompt" /\ client[d] \in Acp!Clients /\ client[d] # client[c]
        BY <1>4, <1>5, <2>3, <3>2, ClientOf
      <4> QED
        BY <1>4, <2>3, <4>1 DEF AcpInv, Buffered
    <3> QED
      BY <3>1, <3>2
  <2> QED
    BY <1>1, <2>1, <2>2, <2>3 DEF Buffered, Acp!GaveUp, Acp!Shares
<1>12. Cached'
  <2> SUFFICES ASSUME cache # None
               PROVE  \/ proc[cache] = 0 \/ life[proc[cache]] # "live" \/ proc[cache] \in ready' \intersect reader
                      \/ Tainted(cache) \/ \E d \in Calls : client[d] = cache /\ Doomed(d)'
    BY <1>1 DEF Cached, Tainted
  <2>1. CASE \E d \in Calls : client[d] = cache /\ Doomed(d)
    <3>1. PICK d \in Calls : client[d] = cache /\ Doomed(d)
      BY <2>1
    <3>2. CASE d # c
      BY <1>4, <3>1, <3>2 DEF Doomed
    <3>3. CASE d = c /\ turn'[c] = 0
      BY <1>4, <3>1, <3>3 DEF Doomed
    <3>4. CASE d = c /\ turn'[c] # 0
      BY <1>4, <3>1, <3>4 DEF Doomed, p
    <3> QED
      BY <3>2, <3>3, <3>4
  <2> QED
    BY <2>1 DEF AcpInv, Cached
<1>13. Acp!AnswerMine' /\ Acp!AnswerWhole'
  BY <1>1 DEF AcpInv, Acp!AnswerMine, Acp!AnswerWhole, Acp!GaveUp, Acp!Shares
<1> QED
  BY <1>6, <1>7, <1>8, <1>9, <1>10, <1>11, <1>12, <1>13 DEF AcpInv

\* A process is launched for a client that has none running; it is the client's from then.
LEMMA AcpLaunched ==
  ASSUME AcpInv, NEW c \in Calls, Acp!Launched(c)
  PROVE  AcpInv'
<1> USE AcpNumbers
<1> DEFINE p == spawned + 1
<1>1. /\ pc[c] = "launch" /\ p \in Acp!Procs /\ spawned' = p
      /\ own' = [own EXCEPT ![p] = client[c]] /\ life' = [life EXCEPT ![p] = "live"]
      /\ reader' = reader \union {p} /\ proc' = [proc EXCEPT ![client[c]] = p]
      /\ pc' = [pc EXCEPT ![c] = "hello"] /\ fut' = [fut EXCEPT ![c] = "wait"]
      /\ UNCHANGED <<cache, created, lock, client, ending, texts, starter, answer, ready, turn, said>>
  BY DEF Acp!Launched, Acp!tools
<1>2. /\ pc \in [Calls -> Acp!Where] /\ fut \in [Calls -> {"none", "wait", "ok", "bad", "lost"}]
      /\ turn \in [Calls -> 0..spawned] /\ proc \in [Acp!Clients -> 0..spawned]
      /\ own \in [Acp!Procs -> 0..created] /\ life \in [Acp!Procs -> {"none", "live", "exited", "reaped"}]
      /\ spawned \in 0..MaxProcs /\ client[c] \in Acp!Clients /\ client[c] \in 1..created /\ said \subseteq Calls
      /\ ready \subseteq 1..spawned /\ reader \subseteq 1..spawned /\ cache \in {None} \union 1..created
  BY <1>1, ClientOf DEF AcpInv, Acp!TypeOK
<1>3. spawned \in Nat /\ p \in Nat /\ p # 0 /\ 0..spawned \subseteq 0..p /\ 1..spawned \subseteq 1..p /\ p \notin 0..spawned
      /\ \A q \in Acp!Procs : (q <= p <=> q <= spawned \/ q = p)
  BY <1>2 DEF Acp!Procs
<1>4. p \in 1..p /\ spawned' \in 0..MaxProcs
  BY <1>1, <1>2, <1>3 DEF Acp!Procs
<1> HIDE DEF p
<1>5. /\ pc'[c] = "hello" /\ fut'[c] = "wait" /\ proc'[client[c]] = p /\ own'[p] = client[c] /\ life'[p] = "live"
      /\ \A d \in Calls \ {c} : pc'[d] = pc[d] /\ fut'[d] = fut[d]
      /\ \A k \in Acp!Clients \ {client[c]} : proc'[k] = proc[k]
      /\ \A q \in Acp!Procs \ {p} : own'[q] = own[q] /\ life'[q] = life[q]
  BY <1>1, <1>2
<1>6. Acp!TypeOK'
  <2>1. pc' \in [Calls -> Acp!Where] /\ fut' \in [Calls -> {"none", "wait", "ok", "bad", "lost"}]
    BY <1>1, <1>2 DEF Acp!Where
  <2>2. turn' \in [Calls -> 0..p] /\ proc' \in [Acp!Clients -> 0..p] /\ ready' \subseteq 1..p /\ reader' \subseteq 1..p
    <3>1. p \in 0..p
      BY <1>3
    <3> QED
      BY <1>1, <1>2, <1>3, <1>4, <3>1
  <2>3. own' \in [Acp!Procs -> 0..created] /\ life' \in [Acp!Procs -> {"none", "live", "exited", "reaped"}]
    <3>1. client[c] \in 0..created
      BY <1>2
    <3> QED
      BY <1>1, <1>2, <3>1
  <2>4. \A k \in Acp!Clients : starter[k] # None => pc'[starter[k]] \in {"launch", "hello"} /\ client[starter[k]] = k
    BY <1>5 DEF AcpInv, Acp!TypeOK
  <2> QED
    BY <1>1, <1>4, <2>1, <2>2, <2>3, <2>4 DEF AcpInv, Acp!TypeOK
<1>7. OwnClient'
  <2>1. Called' = Called
    BY <1>1, <1>5 DEF Called
  <2>2. \A d \in Calls : (pc'[d] = "idle" <=> pc[d] = "idle") /\ (pc'[d] = "done" <=> pc[d] = "done")
    BY <1>1, <1>5
  <2> QED
    BY <1>1, <2>1, <2>2 DEF AcpInv, OwnClient
<1>8. Locked'
  <2>1. \A d \in Calls : pc'[d] \in {"launch", "hello"} => starter[client[d]] = d
    BY <1>1, <1>5 DEF AcpInv, Locked
  <2>2. lock # None => pc'[lock] \in Busy
    BY <1>5 DEF AcpInv, Locked, Acp!TypeOK, Busy
  <2>3. \A d \in Calls \ Delegated : pc'[d] \in Busy => lock = d
    BY <1>1, <1>5 DEF AcpInv, Locked, Busy
  <2>4. \A d \in Calls : pc'[d] \in {"hello", "prompt"} <=> fut'[d] # "none"
    BY <1>1, <1>5 DEF AcpInv, Locked
  <2>5. \A d \in Delegated : pc'[d] # "locking"
    BY <1>5 DEF AcpInv, Locked
  <2> QED
    BY <1>1, <2>1, <2>2, <2>3, <2>4, <2>5 DEF Locked
<1>9. \A k \in Acp!Clients : proc[k] # p
  BY <1>2, <1>3
<1>10. Launches'
  <2>1. \A q \in Acp!Procs : (q <= p <=> own'[q] # 0) /\ (q <= p <=> life'[q] # "none")
    <3>1. client[c] # 0
      BY <1>2
    <3> QED
      BY <1>3, <1>5, <3>1 DEF AcpInv, Launches
  <2>2. ASSUME NEW q \in Acp!Procs, life'[q] \in {"live", "exited"} PROVE proc'[own'[q]] = q
    <3>1. CASE q = p
      BY <1>5, <3>1
    <3>2. CASE q # p
      <4>1. proc[own[q]] = q /\ life[q] = life'[q] /\ own'[q] = own[q] /\ q # 0
        BY <1>5, <2>2, <3>2 DEF AcpInv, Launches, Acp!Procs
      <4>2. own[q] # client[c]
        BY <1>1, <2>2, <4>1 DEF AcpInv, Launches, Acp!Running
      <4> QED
        BY <1>1, <4>1, <4>2
    <3> QED
      BY <3>1, <3>2
  <2>3. \A k \in Acp!Clients : proc'[k] # 0 => own'[proc'[k]] = k
    <3> SUFFICES ASSUME NEW k \in Acp!Clients, k # client[c], proc[k] # 0 PROVE own'[proc[k]] = k
      BY <1>5
    <3>1. proc[k] \in Acp!Procs /\ own[proc[k]] = k
      BY <1>2 DEF AcpInv, Launches, Acp!Procs
    <3> QED
      BY <1>5, <1>9, <3>1
  <2>4. ASSUME NEW d \in Calls, pc'[d] = "launch" PROVE proc'[client[d]] = 0 \/ life'[proc'[client[d]]] = "reaped"
    <3>1. d # c /\ pc[d] = "launch" /\ client[d] \in Acp!Clients /\ client[d] # client[c]
      BY <1>1, <1>5, <2>4, ClientOf DEF AcpInv, Locked
    <3>2. proc'[client[d]] = proc[client[d]] /\ proc[client[d]] \in {0} \union Acp!Procs
      BY <1>2, <1>5, <3>1 DEF Acp!Procs
    <3> QED
      BY <1>5, <1>9, <3>1, <3>2 DEF AcpInv, Launches, Acp!Running
  <2>5. ASSUME NEW d \in Calls, pc'[d] = "hello" PROVE proc'[client[d]] # 0
    <3>1. client[d] \in Acp!Clients /\ (d = c \/ pc[d] = "hello")
      BY <1>5, <1>1, <2>5, ClientOf
    <3> QED
      BY <1>3, <1>5, <3>1 DEF AcpInv, Launches
  <2> QED
    BY <1>1, <2>1, <2>2, <2>3, <2>4, <2>5 DEF Launches, Acp!Running
<1>11. AtWork'
  <2> SUFFICES ASSUME NEW d \in Calls, turn[d] # 0
               PROVE  /\ own'[turn[d]] = client[d] /\ pc'[d] \in {"prompt", "done"} /\ fut'[d] \notin {"ok", "bad"}
                      /\ pc'[d] = "done" => Acp!GaveUp(d) /\ (cache # client[d] \/ Tainted(client[d]))
    BY <1>1 DEF AtWork, Acp!GaveUp, Tainted
  <2>1. turn[d] \in Acp!Procs /\ turn[d] # p
    BY <1>2, <1>3 DEF Acp!Procs
  <2> QED
    BY <1>1, <1>5, <2>1 DEF AcpInv, AtWork
<1>12. Buffered'
  <2>1. \A d \in said : pc'[d] \in {"prompt", "done"}
    BY <1>1, <1>2, <1>5 DEF AcpInv, Buffered
  <2>2. \A d \in Calls : pc'[d] = "prompt" => pc[d] = "prompt"
    BY <1>5
  <2> QED
    BY <1>1, <2>1, <2>2 DEF AcpInv, Buffered, Acp!GaveUp, Acp!Shares
<1>13. Cached'
  <2> SUFFICES ASSUME cache # None
               PROVE  \/ proc'[cache] = 0 \/ life'[proc'[cache]] # "live" \/ proc'[cache] \in ready \intersect reader'
                      \/ Tainted(cache) \/ \E d \in Calls : client[d] = cache /\ Doomed(d)'
    BY <1>1 DEF Cached, Tainted
  <2>1. cache \in Acp!Clients
    <3>1. created \in 0..Cardinality(Calls)
      BY DEF AcpInv, Acp!TypeOK
    <3> QED
      BY <1>2, <3>1 DEF Acp!Clients
  <2>2. CASE cache = client[c]
    BY <1>5, <2>2 DEF Doomed
  <2>3. CASE cache # client[c]
    <3>1. proc'[cache] = proc[cache] /\ proc[cache] \in {0} \union Acp!Procs /\ proc[cache] # p
      BY <1>2, <1>5, <1>9, <2>1, <2>3 DEF Acp!Procs
    <3>2. (\E d \in Calls : client[d] = cache /\ Doomed(d)) => \E d \in Calls : client[d] = cache /\ Doomed(d)'
      BY <1>1, <1>5 DEF Doomed
    <3> QED
      BY <1>1, <1>5, <3>1, <3>2 DEF AcpInv, Cached
  <2> QED
    BY <2>2, <2>3
<1>14. Acp!AnswerMine' /\ Acp!AnswerWhole'
  BY <1>1 DEF AcpInv, Acp!AnswerMine, Acp!AnswerWhole, Acp!GaveUp, Acp!Shares
<1> QED
  BY <1>6, <1>7, <1>8, <1>10, <1>11, <1>12, <1>13, <1>14 DEF AcpInv

LEMMA AcpGreet ==
  ASSUME AcpInv, NEW c \in Calls, Acp!Greet(c)
  PROVE  AcpInv'
<1>1. PICK reply \in {"ok", "bad"} : fut' = [fut EXCEPT ![c] = reply]
  BY DEF Acp!Greet
<1>2. /\ pc[c] = "hello" /\ fut[c] = "wait"
      /\ UNCHANGED <<cache, created, lock, pc, client, ending, texts, starter, proc, answer,
                     spawned, own, life, ready, reader, turn, said>>
  BY DEF Acp!Greet, Acp!tools, Acp!clientVars, Acp!agents
<1>3. fut \in [Calls -> {"none", "wait", "ok", "bad", "lost"}]
  BY DEF AcpInv, Acp!TypeOK
<1>4. fut'[c] = reply /\ \A d \in Calls \ {c} : fut'[d] = fut[d]
  BY <1>1, <1>3
<1>5. Acp!TypeOK'
  BY <1>1, <1>2, <1>3 DEF AcpInv, Acp!TypeOK
<1>6. Locked'
  <2>1. \A d \in Calls : fut'[d] = "none" <=> fut[d] = "none"
    BY <1>2, <1>4
  <2> QED
    BY <1>2, <2>1 DEF AcpInv, Locked
<1>7. AtWork'
  <2>1. turn[c] = 0
    BY <1>2 DEF AcpInv, AtWork
  <2> QED
    BY <1>2, <1>4, <2>1 DEF AcpInv, AtWork, Acp!GaveUp, Tainted
<1>8. Cached'
  <2>1. \A d \in Calls : Doomed(d) => Doomed(d)'
    BY <1>2, <1>4 DEF Doomed
  <2> QED
    BY <1>2, <2>1 DEF AcpInv, Cached, Tainted
<1>9. OwnClient' /\ Launches' /\ Buffered' /\ Acp!AnswerMine' /\ Acp!AnswerWhole'
  BY <1>2 DEF AcpInv, OwnClient, Called, Launches, Buffered, Acp!Running, Acp!AnswerMine,
              Acp!AnswerWhole, Acp!GaveUp, Acp!Shares
<1> QED
  BY <1>5, <1>6, <1>7, <1>8, <1>9 DEF AcpInv

\* Text that comes late, after its call was given up, is the only foreign text in a buffer.
LEMMA AcpChunk ==
  ASSUME AcpInv, NEW c \in Calls, Acp!Chunk(c)
  PROVE  AcpInv'
<1>1. /\ turn[c] \in ready /\ c \notin said /\ said' = said \union {c}
      /\ answer' = [answer EXCEPT ![own[turn[c]]] = @ \union {c}]
      /\ UNCHANGED <<cache, created, lock, pc, client, fut, ending, texts, starter, proc,
                     spawned, own, life, ready, reader, turn>>
  BY DEF Acp!Chunk, Acp!tools, Acp!callVars
<1>2. /\ turn \in [Calls -> 0..spawned] /\ answer \in [Acp!Clients -> SUBSET Calls]
      /\ ready \subseteq 1..spawned /\ spawned \in 0..MaxProcs /\ said \subseteq Calls
  BY DEF AcpInv, Acp!TypeOK
<1>3. turn[c] # 0
  BY <1>1, <1>2, AcpNumbers
<1>4. own[turn[c]] = client[c] /\ pc[c] \in {"prompt", "done"} /\ (pc[c] = "done" => Acp!GaveUp(c))
  BY <1>3 DEF AcpInv, AtWork
<1>5. client[c] \in Acp!Clients
  BY <1>4, ClientOf
<1>6. /\ answer' \in [Acp!Clients -> SUBSET Calls] /\ answer'[client[c]] = answer[client[c]] \union {c}
      /\ \A k \in Acp!Clients \ {client[c]} : answer'[k] = answer[k]
  BY <1>1, <1>2, <1>4, <1>5
<1>7. Acp!TypeOK'
  BY <1>1, <1>2, <1>6 DEF AcpInv, Acp!TypeOK
<1>8. Buffered'
  <2>1. \A d \in said' : pc[d] \in {"prompt", "done"}
    BY <1>1, <1>4 DEF AcpInv, Buffered
  <2>2. \A k \in Acp!Clients : \A d \in answer'[k] : client[d] = k
    BY <1>6 DEF AcpInv, Buffered
  <2>3. ASSUME NEW d \in Calls, pc[d] = "prompt", ~Acp!Shares(d)
        PROVE  /\ d \in answer'[client[d]] <=> d \in said'
               /\ \A e \in answer'[client[d]] \ {d} : Acp!GaveUp(e)
    <3>1. client[d] \in Acp!Clients
      BY <2>3, ClientOf
    <3>2. CASE client[d] # client[c]
      BY <1>1, <1>6, <2>3, <3>1, <3>2 DEF AcpInv, Buffered
    <3>3. CASE client[d] = client[c] /\ d # c
      <4>1. c \notin Delegated /\ d \notin Delegated
        BY <2>3, <3>3 DEF Acp!Shares
      <4>2. pc[c] # "prompt"
        BY <2>3, <3>3, <4>1 DEF AcpInv, Locked, Busy
      <4> QED
        BY <1>1, <1>4, <1>6, <2>3, <3>3, <4>2 DEF AcpInv, Buffered
    <3>4. CASE d = c
      BY <1>1, <1>6, <2>3, <3>4 DEF AcpInv, Buffered
    <3> QED
      BY <3>2, <3>3, <3>4
  <2> QED
    BY <1>1, <2>1, <2>2, <2>3 DEF Buffered, Acp!GaveUp, Acp!Shares
<1>9. Acp!AnswerWhole'
  <2>1. ending[c] # "answer"
    BY <1>4 DEF AcpInv, OwnClient, Acp!GaveUp
  <2> QED
    BY <1>1, <2>1 DEF AcpInv, Acp!AnswerWhole, Acp!Shares
<1>10. OwnClient' /\ Locked' /\ Launches' /\ AtWork' /\ Cached' /\ Acp!AnswerMine'
  BY <1>1 DEF AcpInv, OwnClient, Called, Locked, Launches, AtWork, Cached, Doomed, Tainted,
              Acp!Running, Acp!AnswerMine, Acp!GaveUp, Acp!Shares
<1> QED
  BY <1>7, <1>8, <1>9, <1>10 DEF AcpInv

LEMMA AcpRespond ==
  ASSUME AcpInv, NEW c \in Calls, Acp!Respond(c)
  PROVE  AcpInv'
<1>1. /\ turn[c] # 0 /\ turn' = [turn EXCEPT ![c] = 0]
      /\ UNCHANGED <<cache, created, lock, pc, client, ending, texts, starter, proc, answer,
                     spawned, own, life, ready, reader, said>>
  BY DEF Acp!Respond, Acp!tools, Acp!clientVars
<1>2. PICK reply \in {"ok", "bad"} :
        fut' = [fut EXCEPT ![c] = IF pc[c] = "prompt" /\ fut[c] = "wait" THEN reply ELSE fut[c]]
  BY DEF Acp!Respond
<1>3. /\ fut \in [Calls -> {"none", "wait", "ok", "bad", "lost"}] /\ turn \in [Calls -> 0..spawned]
      /\ spawned \in 0..MaxProcs
  BY DEF AcpInv, Acp!TypeOK
<1>4. /\ turn'[c] = 0 /\ fut'[c] = IF pc[c] = "prompt" /\ fut[c] = "wait" THEN reply ELSE fut[c]
      /\ \A d \in Calls \ {c} : fut'[d] = fut[d] /\ turn'[d] = turn[d]
  BY <1>1, <1>2, <1>3
<1>5. Acp!TypeOK'
  <2>1. fut' \in [Calls -> {"none", "wait", "ok", "bad", "lost"}] /\ turn' \in [Calls -> 0..spawned]
    BY <1>1, <1>2, <1>3, AcpNumbers
  <2> QED
    BY <1>1, <2>1 DEF AcpInv, Acp!TypeOK
<1>6. Locked'
  <2>1. \A d \in Calls : fut'[d] = "none" <=> fut[d] = "none"
    BY <1>4
  <2> QED
    BY <1>1, <2>1 DEF AcpInv, Locked
<1>7. AtWork'
  BY <1>1, <1>4 DEF AcpInv, AtWork, Acp!GaveUp, Tainted
<1>8. Cached'
  <2>1. pc[c] # "hello"
    BY <1>1 DEF AcpInv, AtWork
  <2>2. \A d \in Calls : Doomed(d) => Doomed(d)'
    BY <1>1, <1>4, <2>1 DEF Doomed
  <2> QED
    BY <1>1, <2>2 DEF AcpInv, Cached, Tainted
<1>9. OwnClient' /\ Launches' /\ Buffered' /\ Acp!AnswerMine' /\ Acp!AnswerWhole'
  BY <1>1 DEF AcpInv, OwnClient, Called, Launches, Buffered, Acp!Running, Acp!AnswerMine,
              Acp!AnswerWhole, Acp!GaveUp, Acp!Shares
<1> QED
  BY <1>5, <1>6, <1>7, <1>8, <1>9 DEF AcpInv

LEMMA AcpDies ==
  ASSUME AcpInv, NEW q \in Acp!Procs, Acp!Exit(q) \/ Acp!Reap(q)
  PROVE  AcpInv'
<1>1. UNCHANGED <<cache, created, lock, pc, client, fut, ending, texts, starter, proc, answer,
                  spawned, own, ready, reader, turn, said>>
  BY DEF Acp!Exit, Acp!Reap, Acp!tools, Acp!callVars, Acp!clientVars
<1>2. life \in [Acp!Procs -> {"none", "live", "exited", "reaped"}]
  BY DEF AcpInv, Acp!TypeOK
<1>3. /\ life' \in [Acp!Procs -> {"none", "live", "exited", "reaped"}]
      /\ life[q] \in {"live", "exited"} /\ life'[q] \in {"exited", "reaped"}
      /\ \A r : r # q => life'[r] = life[r]
  <2>1. CASE Acp!Exit(q)
    BY <1>2, <2>1 DEF Acp!Exit
  <2>2. CASE Acp!Reap(q)
    BY <1>2, <2>2 DEF Acp!Reap
  <2> QED
    BY <2>1, <2>2
<1>4. Acp!TypeOK'
  BY <1>1, <1>3 DEF AcpInv, Acp!TypeOK
<1>5. Launches'
  <2>1. \A r \in Acp!Procs : (r <= spawned <=> life'[r] # "none")
    BY <1>3 DEF AcpInv, Launches
  <2>2. \A r \in Acp!Procs : life'[r] \in {"live", "exited"} => proc[own[r]] = r
    BY <1>3 DEF AcpInv, Launches
  <2>3. \A d \in Calls : pc[d] = "launch" => ~(proc[client[d]] # 0 /\ life'[proc[client[d]]] # "reaped")
    BY <1>3 DEF AcpInv, Launches, Acp!Running
  <2> QED
    BY <1>1, <2>1, <2>2, <2>3 DEF AcpInv, Launches, Acp!Running
<1>6. Cached'
  BY <1>1, <1>3 DEF AcpInv, Cached, Doomed, Tainted
<1>7. OwnClient' /\ Locked' /\ AtWork' /\ Buffered' /\ Acp!AnswerMine' /\ Acp!AnswerWhole'
  BY <1>1 DEF AcpInv, OwnClient, Called, Locked, AtWork, Buffered, Tainted, Acp!AnswerMine,
              Acp!AnswerWhole, Acp!GaveUp, Acp!Shares
<1> QED
  BY <1>4, <1>5, <1>6, <1>7 DEF AcpInv

\* The reader of a process that runs gives up only on a reply it cannot take: the call that
\* waited for it fails, and with it the client goes, or was gone.
LEMMA AcpReaderEnds ==
  ASSUME AcpInv, NEW q \in Acp!Procs, Acp!ReaderEnds(q)
  PROVE  AcpInv'
<1>1. /\ q \in reader /\ reader' = reader \ {q}
      /\ \/ life[q] # "live"
         \/ \E d \in Calls : turn[d] = q \/ (pc[d] = "hello" /\ proc[client[d]] = q)
      /\ fut' = [d \in Calls |-> IF client[d] = own[q] /\ fut[d] = "wait" THEN "lost" ELSE fut[d]]
      /\ turn' = [d \in Calls |-> IF turn[d] = q THEN 0 ELSE turn[d]]
      /\ UNCHANGED <<cache, created, lock, pc, client, ending, texts, starter, proc, answer,
                     spawned, own, life, ready, said>>
  BY DEF Acp!ReaderEnds, Acp!tools, Acp!clientVars
<1>2. /\ fut \in [Calls -> {"none", "wait", "ok", "bad", "lost"}] /\ turn \in [Calls -> 0..spawned]
      /\ spawned \in 0..MaxProcs /\ reader \subseteq 1..spawned
      /\ cache \in {None} \union 1..created /\ created \in 0..Cardinality(Calls)
  BY AcpNumbers DEF AcpInv, Acp!TypeOK
<1>3. \A d \in Calls : /\ fut'[d] \in {fut[d], "lost"} /\ (fut'[d] # fut[d] => fut[d] = "wait")
                       /\ turn'[d] \in {turn[d], 0} /\ (fut[d] = "wait" /\ turn[d] = 0 => turn'[d] = 0)
  BY <1>1
<1>4. Acp!TypeOK'
  <2>1. fut' \in [Calls -> {"none", "wait", "ok", "bad", "lost"}] /\ turn' \in [Calls -> 0..spawned]
    BY <1>1, <1>2, AcpNumbers
  <2> QED
    BY <1>1, <1>2, <2>1 DEF AcpInv, Acp!TypeOK
<1>5. Locked'
  <2>1. \A d \in Calls : fut'[d] = "none" <=> fut[d] = "none"
    BY <1>3
  <2> QED
    BY <1>1, <2>1 DEF AcpInv, Locked
<1>6. AtWork'
  <2> SUFFICES ASSUME NEW d \in Calls, turn'[d] # 0
               PROVE  /\ own[turn'[d]] = client[d] /\ pc[d] \in {"prompt", "done"} /\ fut'[d] \notin {"ok", "bad"}
                      /\ pc[d] = "done" => Acp!GaveUp(d) /\ (cache # client[d] \/ Tainted(client[d]))
    BY <1>1 DEF AtWork, Acp!GaveUp, Tainted
  <2>1. turn'[d] = turn[d]
    BY <1>3
  <2> QED
    BY <1>3, <2>1 DEF AcpInv, AtWork
<1>7. Cached'
  <2> SUFFICES ASSUME cache # None
               PROVE  \/ proc[cache] = 0 \/ life[proc[cache]] # "live" \/ proc[cache] \in ready \intersect reader'
                      \/ Tainted(cache) \/ \E d \in Calls : client[d] = cache /\ Doomed(d)'
    BY <1>1 DEF Cached, Tainted
  <2>1. \A d \in Calls : Doomed(d) => Doomed(d)'
    BY <1>1, <1>3 DEF Doomed
  <2>2. CASE proc[cache] # q
    BY <1>1, <2>1, <2>2 DEF AcpInv, Cached
  <2>3. CASE proc[cache] = q /\ life[q] = "live"
    <3>1. q # 0 /\ cache \in Acp!Clients /\ own[q] = cache
      <4>1. q # 0 /\ cache \in Acp!Clients
        BY <1>1, <1>2, AcpNumbers DEF Acp!Clients
      <4> QED
        BY <2>3, <4>1 DEF AcpInv, Launches
    <3>2. PICK d \in Calls : turn[d] = q \/ (pc[d] = "hello" /\ proc[client[d]] = q)
      BY <1>1, <2>3
    <3>3. CASE turn[d] = q
      <4>1. client[d] = cache /\ pc[d] \in {"prompt", "done"} /\ fut[d] \notin {"ok", "bad"}
        BY <3>1, <3>3 DEF AcpInv, AtWork
      <4>2. CASE pc[d] = "done"
        BY <3>1, <3>3, <4>1, <4>2 DEF AcpInv, AtWork
      <4>3. CASE pc[d] = "prompt"
        <5>1. fut[d] \in {"wait", "lost"}
          BY <1>2, <4>1, <4>3 DEF AcpInv, Locked
        <5>2. fut'[d] = "lost"
          BY <1>1, <3>1, <4>1, <5>1
        <5> QED
          BY <1>1, <4>1, <4>3, <5>2 DEF Doomed
      <4> QED
        BY <4>1, <4>2, <4>3
    <3>4. CASE pc[d] = "hello" /\ proc[client[d]] = q
      <4>1. client[d] \in Acp!Clients
        BY <3>4, ClientOf
      <4>2. client[d] = cache
        BY <3>1, <3>4, <4>1 DEF AcpInv, Launches
      <4> QED
        BY <1>1, <3>4, <4>2 DEF Doomed
    <3> QED
      BY <3>2, <3>3, <3>4
  <2>4. CASE life[q] # "live" /\ proc[cache] = q
    BY <2>4
  <2> QED
    BY <2>2, <2>3, <2>4
<1>8. OwnClient' /\ Launches' /\ Buffered' /\ Acp!AnswerMine' /\ Acp!AnswerWhole'
  BY <1>1 DEF AcpInv, OwnClient, Called, Launches, Buffered, Acp!Running, Acp!AnswerMine,
              Acp!AnswerWhole, Acp!GaveUp, Acp!Shares
<1> QED
  BY <1>4, <1>5, <1>6, <1>7, <1>8 DEF AcpInv

\* A call finds its client running, or is greeted: the prompt is sent, or the pipe is broken.
LEMMA AcpPrompts ==
  ASSUME AcpInv, NEW c \in Calls, Acp!Enter(c) \/ Acp!Greeted(c)
  PROVE  AcpInv'
<1> DEFINE p == proc[client[c]]
<1>1. /\ pc[c] \in {"entering", "hello"}
      /\ Acp!Send(c, p) \/ Acp!WriteFails(c, p)
      /\ ready' = ready \/ ready' = ready \union {p}
      /\ pc[c] = "hello" => p \in ready'
      /\ UNCHANGED <<spawned, own, life, reader, said>>
  BY DEF Acp!Enter, Acp!Greeted, Acp!MayEnter
<1>2. client[c] \in Acp!Clients
  BY <1>1, ClientOf
<1>3. p # 0
  <2>1. pc[c] = "hello" => p # 0
    BY DEF AcpInv, Launches
  <2>2. pc[c] = "entering" => p # 0
    BY DEF Acp!Enter, Acp!Greeted, Acp!Running
  <2> QED
    BY <1>1, <2>1, <2>2
<1>4. ready \subseteq ready' /\ ready' \subseteq 1..spawned
  <2>1. ready \subseteq 1..spawned /\ p \in 0..spawned /\ spawned \in 0..MaxProcs
    BY <1>2 DEF AcpInv, Acp!TypeOK
  <2> HIDE DEF p
  <2>2. p \in 1..spawned
    BY <1>3, <2>1, AcpNumbers
  <2> QED
    BY <1>1, <2>1, <2>2
<1>5. starter' = [k \in Acp!Clients |-> IF starter[k] = c THEN None ELSE starter[k]]
  <2>1. CASE Acp!Enter(c)
    BY <2>1 DEF Acp!Enter
  <2>2. CASE Acp!Greeted(c)
    <3>1. starter' = [starter EXCEPT ![client[c]] = None] /\ pc[c] = "hello"
      BY <2>2 DEF Acp!Greeted
    <3>2. starter[client[c]] = c /\ starter \in [Acp!Clients -> Calls \union {None}]
      BY <3>1 DEF AcpInv, Locked, Acp!TypeOK
    <3>3. \A k \in Acp!Clients : starter[k] = c => k = client[c]
      BY AcpNumbers DEF AcpInv, Acp!TypeOK
    <3> QED
      BY <1>2, <3>1, <3>2, <3>3
  <2> QED
    BY <2>1, <2>2
<1>6. CASE Acp!Send(c, p)
  BY <1>1, <1>3, <1>4, <1>5, <1>6, AcpSend
<1>7. CASE Acp!WriteFails(c, p)
  <2>1. /\ Acp!Leave(c, "broken") /\ answer' = Acp!Emptied(client[c]) /\ life[p] = "exited"
        /\ UNCHANGED <<texts, proc, turn>>
    BY <1>7 DEF Acp!WriteFails
  <2>2. "broken" \in Fates /\ pc[c] \in Busy \union {"locking"}
    BY <1>1 DEF Fates, Busy
  <2> QED
    BY <1>1, <1>4, <2>1, <2>2, AcpLeave
<1> QED
  BY <1>1, <1>6, <1>7

\* The other ways a call ends touch neither the agents nor the buffers.
LEMMA AcpEnds ==
  ASSUME AcpInv, NEW c \in Calls,
         \/ Acp!LaunchFails(c) \/ Acp!HelloBreaks(c) \/ Acp!Answered(c)
         \/ Acp!Failed(c) \/ Acp!Timeout(c) \/ Acp!Cancel(c)
  PROVE  AcpInv'
<1>1. UNCHANGED <<proc, answer, spawned, own, life, ready, reader, turn, said>>
  BY DEF Acp!LaunchFails, Acp!HelloBreaks, Acp!Answered, Acp!Failed, Acp!Timeout, Acp!Cancel, Acp!agents
<1>2. ready \subseteq 1..spawned /\ ready' \subseteq 1..spawned' /\ spawned' = spawned
  BY <1>1 DEF AcpInv, Acp!TypeOK
<1>3. fut[c] # "none" => pc[c] \in {"hello", "prompt"}
  BY DEF AcpInv, Locked
<1>4. CASE Acp!Answered(c)
  <2>1. /\ pc[c] = "prompt" /\ fut[c] = "ok" /\ texts' = [texts EXCEPT ![c] = answer[client[c]]]
        /\ Acp!Leave(c, "answer")
    BY <1>4 DEF Acp!Answered
  <2>2. "answer" \in Fates /\ pc[c] \in Busy \union {"locking"}
    BY <2>1 DEF Fates, Busy
  <2> QED
    BY <1>1, <1>2, <2>1, <2>2, AcpLeave
<1>5. ASSUME NEW how \in Fates \ {"answer"}, Acp!Leave(c, how), texts' = texts,
             pc[c] \in Busy \union {"locking"},
             how = "error" => pc[c] = "launch" \/ fut[c] = "bad",
             how = "broken" => pc[c] \in {"entering", "hello"} /\ life[proc[client[c]]] = "exited"
      PROVE  AcpInv'
  BY <1>1, <1>2, <1>5, AcpLeave
<1>6. CASE Acp!LaunchFails(c)
  <2>1. pc[c] = "launch" /\ Acp!Leave(c, "error") /\ texts' = texts
    BY <1>6 DEF Acp!LaunchFails
  <2>2. "error" \in Fates \ {"answer"} /\ pc[c] \in Busy \union {"locking"}
    BY <2>1 DEF Fates, Busy
  <2> QED
    BY <1>5, <2>1, <2>2
<1>7. CASE Acp!HelloBreaks(c)
  <2>1. pc[c] = "hello" /\ life[proc[client[c]]] = "exited" /\ Acp!Leave(c, "broken") /\ texts' = texts
    BY <1>7 DEF Acp!HelloBreaks
  <2>2. "broken" \in Fates \ {"answer"} /\ pc[c] \in Busy \union {"locking"}
    BY <2>1 DEF Fates, Busy
  <2> QED
    BY <1>5, <2>1, <2>2
<1>8. CASE Acp!Failed(c)
  <2>1. (fut[c] = "bad" /\ Acp!Leave(c, "error")) \/ (fut[c] = "lost" /\ Acp!Leave(c, "exited"))
    BY <1>8 DEF Acp!Failed
  <2>2. texts' = texts
    BY <1>8 DEF Acp!Failed
  <2>3. pc[c] \in Busy \union {"locking"} /\ {"error", "exited"} \subseteq Fates \ {"answer"}
    BY <1>3, <2>1 DEF Fates, Busy
  <2> QED
    BY <1>5, <2>1, <2>2, <2>3
<1>9. CASE Acp!Timeout(c)
  <2>1. fut[c] = "wait" /\ Acp!Leave(c, "timeout") /\ texts' = texts
    BY <1>9 DEF Acp!Timeout
  <2>2. "timeout" \in Fates \ {"answer"} /\ pc[c] \in Busy \union {"locking"}
    BY <1>3, <2>1 DEF Fates, Busy
  <2> QED
    BY <1>5, <2>1, <2>2
<1>10. CASE Acp!Cancel(c)
  <2>1. pc[c] \notin {"idle", "done"} /\ Acp!Leave(c, "cancelled") /\ texts' = texts
    BY <1>10 DEF Acp!Cancel
  <2>2. pc[c] \in Acp!Where
    BY DEF AcpInv, Acp!TypeOK
  <2>3. "cancelled" \in Fates \ {"answer"} /\ pc[c] \in Busy \union {"locking"}
    BY <2>1, <2>2 DEF Fates, Busy, Acp!Where
  <2> QED
    BY <1>5, <2>1, <2>3
<1> QED
  BY <1>4, <1>6, <1>7, <1>8, <1>9, <1>10

LEMMA AcpStep == AcpInv /\ [Acp!Next]_acpVars => AcpInv'
<1> SUFFICES ASSUME AcpInv, [Acp!Next]_acpVars PROVE AcpInv'
  OBVIOUS
<1>1. CASE UNCHANGED acpVars
  BY <1>1 DEF acpVars, AcpInv, Acp!TypeOK, Acp!Where, Acp!Procs, Acp!Clients, OwnClient, Called, Locked,
              Busy, Launches, Acp!Running, AtWork, Acp!GaveUp, Tainted, Buffered, Acp!Shares, Cached, Doomed,
              Acp!AnswerMine, Acp!AnswerWhole
<1>2. CASE Acp!Next
  <2>1. CASE \E c \in Calls :
               \/ Acp!Call(c) \/ Acp!TakeLock(c) \/ Acp!Enter(c) \/ Acp!Launch(c) \/ Acp!Launched(c)
               \/ Acp!LaunchFails(c) \/ Acp!Greeted(c) \/ Acp!HelloBreaks(c) \/ Acp!Answered(c)
               \/ Acp!Failed(c) \/ Acp!Timeout(c) \/ Acp!Cancel(c) \/ Acp!Greet(c) \/ Acp!Chunk(c)
               \/ Acp!Respond(c)
    BY <2>1, AcpCall, AcpTakeLock, AcpPrompts, AcpLaunch, AcpLaunched, AcpEnds, AcpGreet, AcpChunk,
       AcpRespond
  <2>2. CASE \E q \in Acp!Procs : Acp!Exit(q) \/ Acp!Reap(q) \/ Acp!ReaderEnds(q)
    BY <2>2, AcpDies, AcpReaderEnds
  <2> QED
    BY <1>2, <2>1, <2>2 DEF Acp!Next
<1> QED
  BY <1>1, <1>2

LEMMA AcpInvSound == AcpInv => Acp!AnswerIntact /\ Acp!AgentsSound
<1> SUFFICES ASSUME AcpInv PROVE Acp!AnswerIntact /\ Acp!AgentsSound
  OBVIOUS
<1>1. Acp!AnswerIntact
  BY DEF AcpInv, Acp!AnswerIntact
<1>2. Acp!OneProcess
  <2> SUFFICES ASSUME NEW q \in Acp!Procs, NEW r \in Acp!Procs, life[q] = "live", life[r] = "live", own[q] = own[r]
               PROVE  q = r
    BY DEF Acp!OneProcess
  <2>1. proc[own[q]] = q /\ proc[own[r]] = r
    BY DEF AcpInv, Launches
  <2> QED
    BY <2>1
<1>3. Acp!CacheIsSound
  <2> SUFFICES ASSUME cache # None, \A c \in Calls : pc[c] \in {"idle", "done"}
               PROVE  \/ proc[cache] = 0
                      \/ life[proc[cache]] # "live"
                      \/ proc[cache] \in ready \intersect reader
                      \/ \E c \in Calls : client[c] = cache /\ (c \in Delegated \/ ending[c] = "cancelled")
    BY DEF Acp!CacheIsSound
  <2>1. \A d \in Calls : ~Doomed(d)
    BY DEF Doomed
  <2> QED
    BY <2>1 DEF AcpInv, Cached, Tainted
<1>4. Acp!NeverWaits
  <2> SUFFICES ASSUME NEW c \in Calls
               PROVE  /\ pc[c] = "locking" /\ ~Acp!LockFree => pc[lock] \in {"entering", "launch", "hello", "prompt"}
                      /\ pc[c] = "entering" /\ starter[client[c]] # None => pc[starter[client[c]]] \in {"launch", "hello"}
                      /\ pc[c] \in {"hello", "prompt"} => fut[c] # "none"
    BY DEF Acp!NeverWaits
  <2>1. ~Acp!LockFree => pc[lock] \in {"entering", "launch", "hello", "prompt"}
    BY DEF AcpInv, Locked, Busy, Acp!LockFree
  <2>2. pc[c] = "entering" => client[c] \in Acp!Clients
    BY ClientOf
  <2>3. pc[c] = "entering" /\ starter[client[c]] # None => pc[starter[client[c]]] \in {"launch", "hello"}
    BY <2>2 DEF AcpInv, Acp!TypeOK
  <2>4. pc[c] \in {"hello", "prompt"} => fut[c] # "none"
    BY DEF AcpInv, Locked
  <2> QED
    BY <2>1, <2>3, <2>4
<1> QED
  BY <1>1, <1>2, <1>3, <1>4 DEF Acp!AgentsSound

-----------------------------------------------------------------------------
\* Every reachable state satisfies the invariant.
LEMMA AcpAlways == Spec => []AcpInv
<1>1. Init => AcpInv
  BY AcpInit DEF Init
<1>2. AcpInv /\ [Next]_vars => AcpInv'
  BY AcpMoves, AcpStep
<1> QED
  BY <1>1, <1>2, PTL DEF Spec

\* What a coding agent's call returns is that agent's answer to it, whole; another call's
\* text is in it only when that call was given up, or a delegate shares the client.
THEOREM AnswersAreIntact == Spec => []AnswerIntact
<1>1. AcpInv => AnswerIntact
  BY AcpInvSound DEF AnswerIntact
<1> QED
  BY <1>1, AcpAlways, PTL

\* However calls, time limits, cancellations and deaths of the agent interleave, a client has
\* one process, no call waits behind one that is gone, and a failed client is not kept.
THEOREM AgentsAreSound == Spec => []AgentsSound
<1>1. AcpInv => AgentsSound
  BY AcpInvSound DEF AgentsSound
<1> QED
  BY <1>1, AcpAlways, PTL

-----------------------------------------------------------------------------
(* Discord *)

LEMMA DiscordMoves == [Next]_vars => [Discord!Next]_discordVars
  BY DEF Next, vars

LEMMA DiscordLimit == Limit \in Nat
  BY DiscordAssumption DEF DiscordAssumption, Discord!DiscordAssumption

\* Where x stands in s, and how often.
Where(x, s) == {i \in DOMAIN s : s[i] = x}
Often(x, s) == Discord!Count(x, s)

LEMMA CountIs ==
  ASSUME NEW S, NEW s \in Seq(S), NEW x
  PROVE  /\ Often(x, s) = Cardinality(Where(x, s)) /\ IsFiniteSet(Where(x, s))
         /\ Often(x, s) \in Nat /\ (Often(x, s) = 0 <=> \A i \in DOMAIN s : s[i] # x)
<1>1. Often(x, s) = Cardinality(Where(x, s))
  BY DEF Often, Where, Discord!Count, Discord!Cardinality, Cardinality
<1>2. IsFiniteSet(1..Len(s)) /\ DOMAIN s = 1..Len(s)
  BY FS_Interval
<1>3. Where(x, s) \in SUBSET (1..Len(s))
  BY <1>2 DEF Where
<1>4. IsFiniteSet(Where(x, s))
  BY <1>2, <1>3, FS_Subset
<1>5. Cardinality(Where(x, s)) \in Nat /\ (Cardinality(Where(x, s)) = 0 <=> Where(x, s) = {})
  BY <1>4, FS_EmptySet, FS_CardinalityType
<1>6. Where(x, s) = {} <=> \A i \in DOMAIN s : s[i] # x
  BY DEF Where
<1> QED
  BY <1>1, <1>4, <1>5, <1>6

\* What is put after s does not change how often x is in it, if it is not x.
LEMMA CountStays ==
  ASSUME NEW S, NEW s \in Seq(S), NEW t \in Seq(S), NEW x, \A i \in DOMAIN t : t[i] # x
  PROVE  Often(x, s \o t) = Often(x, s)
<1> DEFINE r == s \o t
<1>1. /\ r \in Seq(S) /\ Len(r) = Len(s) + Len(t) /\ Len(s) \in Nat /\ Len(t) \in Nat
      /\ DOMAIN r = 1..(Len(s) + Len(t)) /\ DOMAIN s = 1..Len(s) /\ DOMAIN t = 1..Len(t)
      /\ \A i \in 1..Len(s) : r[i] = s[i]
      /\ \A i \in (Len(s) + 1)..(Len(s) + Len(t)) : r[i] = t[i - Len(s)]
  OBVIOUS
<1> HIDE DEF r
<1>2. \A i \in (Len(s) + 1)..(Len(s) + Len(t)) : i - Len(s) \in DOMAIN t
  BY <1>1
<1>3. \A i \in (Len(s) + 1)..(Len(s) + Len(t)) : r[i] # x
  BY <1>1, <1>2
<1>4. \A i : i \in DOMAIN r <=> i \in DOMAIN s \/ i \in (Len(s) + 1)..(Len(s) + Len(t))
  BY <1>1
<1>5. Where(x, r) = Where(x, s)
  BY <1>1, <1>3, <1>4 DEF Where
<1>6. Often(x, r) = Cardinality(Where(x, r)) /\ Often(x, s) = Cardinality(Where(x, s))
  BY <1>1, CountIs
<1> QED
  BY <1>5, <1>6 DEF r

\* If x is not in s, it is in s \o t as often as in t.
LEMMA CountMoves ==
  ASSUME NEW S, NEW s \in Seq(S), NEW t \in Seq(S), NEW x, \A i \in DOMAIN s : s[i] # x
  PROVE  Often(x, s \o t) = Often(x, t)
<1> DEFINE r == s \o t
           k == Len(s)
           f == [i \in Where(x, t) |-> i + k]
<1>1. /\ r \in Seq(S) /\ Len(r) = k + Len(t) /\ k \in Nat /\ Len(t) \in Nat
      /\ DOMAIN r = 1..(k + Len(t)) /\ DOMAIN s = 1..k /\ DOMAIN t = 1..Len(t)
      /\ \A i \in 1..k : r[i] = s[i]
      /\ \A i \in (k + 1)..(k + Len(t)) : r[i] = t[i - k]
  OBVIOUS
<1>2. \A i \in Where(x, t) : i \in 1..Len(t) /\ t[i] = x
  BY <1>1 DEF Where
<1> HIDE DEF r, k
<1>3. \A i \in 1..Len(t) : i + k \in (k + 1)..(k + Len(t)) /\ (i + k) - k = i /\ i + k \in DOMAIN r
  BY <1>1
<1>4. \A i \in 1..Len(t) : r[i + k] = t[i]
  BY <1>1, <1>3
<1>5. \A i \in Where(x, t) : i + k \in Where(x, r)
  BY <1>2, <1>3, <1>4 DEF Where
<1>6. \A j \in Where(x, r) : j - k \in Where(x, t) /\ (j - k) + k = j
  <2> SUFFICES ASSUME NEW j \in Where(x, r) PROVE j - k \in Where(x, t) /\ (j - k) + k = j
    OBVIOUS
  <2>1. j \in 1..(k + Len(t)) /\ r[j] = x
    BY <1>1 DEF Where
  <2>2. j \notin 1..k
    BY <1>1, <2>1
  <2>3. j \in (k + 1)..(k + Len(t)) /\ j - k \in 1..Len(t) /\ (j - k) + k = j
    BY <1>1, <2>1, <2>2
  <2>4. t[j - k] = x
    BY <1>1, <2>1, <2>3
  <2> QED
    BY <1>1, <2>3, <2>4 DEF Where
<1>7. f \in Surjection(Where(x, t), Where(x, r))
  <2>1. f \in [Where(x, t) -> Where(x, r)]
    BY <1>5
  <2>2. \A j \in Where(x, r) : \E i \in Where(x, t) : f[i] = j
    BY <1>6
  <2> QED
    BY <2>1, <2>2 DEF Surjection
<1>8. f \in Injection(Where(x, t), Where(x, r))
  <2>1. f \in [Where(x, t) -> Where(x, r)]
    BY <1>5
  <2>2. \A i, j \in Where(x, t) : f[i] = f[j] => i = j
    BY <1>1, <1>2
  <2> QED
    BY <2>1, <2>2 DEF Injection, IsInjective
<1>9. Cardinality(Where(x, r)) = Cardinality(Where(x, t))
  BY <1>7, <1>8, CountIs, FS_Surjection
<1>10. Often(x, r) = Cardinality(Where(x, r)) /\ Often(x, t) = Cardinality(Where(x, t))
  BY <1>1, CountIs
<1> QED
  BY <1>9, <1>10 DEF r

\* The messages that chat c has sent.
Sent(c) == {m \in DOMAIN sent : sent[m] = c}

DiscordType ==
  /\ sent \in Seq(Chats)
  /\ buffer \in [Chats -> Seq(Nat)] /\ tlog \in [Chats -> Seq(Nat)]
  /\ \A c \in Chats : \A i \in DOMAIN buffer[c] : buffer[c][i] \in Sent(c)
  /\ \A c \in Chats : \A i \in DOMAIN tlog[c] : tlog[c][i] \in 0..Len(sent)
  /\ \A f \in flushes : /\ f.chat \in Chats /\ f.msgs \in Seq(Nat) /\ f.msgs # <<>>
                        /\ f.warm \in Seq(Nat)
                        /\ \A i \in DOMAIN f.msgs : f.msgs[i] \in Sent(f.chat)
  /\ gateways \in Seq({"start", "up", "down", "gone"})
  /\ seen \in Seq(Nat) /\ \A i \in DOMAIN seen : seen[i] \in DOMAIN sent
  /\ replied \in Seq(Nat) /\ \A i \in DOMAIN replied : replied[i] \in DOMAIN sent

\* All copies of message m are in one place: in its chat's burst, in an answered burst, or
\* in a burst an agent turn runs for.
OnePlace(m) ==
  LET k == Often(m, seen)
      waits == Often(m, buffer[sent[m]])
      told == Often(m, replied)
  IN \/ waits = k /\ told = 0 /\ \A f \in flushes : Often(m, f.msgs) = 0
     \/ waits = 0 /\ told = k /\ \A f \in flushes : Often(m, f.msgs) = 0
     \/ /\ waits = 0 /\ told = 0 /\ k > 0
        /\ \E f \in flushes : Often(m, f.msgs) = k /\ \A g \in flushes \ {f} : Often(m, g.msgs) = 0

\* A burst holds its first message longest, and is newer than what the log holds; and a
\* message that was taken is in one of the two.
InOrder(c) ==
  /\ \A i \in DOMAIN buffer[c] : buffer[c][1] <= buffer[c][i]
  /\ \A i \in DOMAIN tlog[c], j \in DOMAIN buffer[c] : tlog[c][i] < buffer[c][j]
  /\ \A i \in DOMAIN seen : sent[seen[i]] = c =>
       \/ \E j \in DOMAIN tlog[c] : tlog[c][j] = seen[i]
       \/ \E j \in DOMAIN buffer[c] : buffer[c][j] = seen[i]

\* What WarmedRight says of one burst.
WarmOf(f) ==
  /\ \A i \in DOMAIN f.warm : f.warm[i] < f.msgs[1]
  /\ \A i \in DOMAIN seen : seen[i] < f.msgs[1] /\ sent[seen[i]] = f.chat =>
       (\E j \in DOMAIN f.warm : f.warm[j] = seen[i]) \/ Len(f.warm) = Limit

TalkInv ==
  /\ DiscordType
  /\ \A m \in DOMAIN sent : OnePlace(m)
  /\ \A c \in Chats : InOrder(c)
  /\ \A f \in flushes : WarmOf(f)

\* With one reload at most one delivery loop runs, and none while the reload is under way.
LoopInv ==
  /\ loops \subseteq {delivery}
  /\ \A r \in Reloads : reload[r] \in {"stop", "sweep", "launch"} => loops = {}
  /\ posts \in Seq({1}) /\ reload \in [Reloads -> {"due", "stop", "sweep", "launch", "done"}]

LEMMA OnePlaceFrame ==
  ASSUME NEW m, Often(m, seen)' = Often(m, seen), sent'[m] = sent[m],
         Often(m, buffer[sent[m]])' = Often(m, buffer[sent[m]]),
         Often(m, replied)' = Often(m, replied), flushes' = flushes, OnePlace(m)
  PROVE  OnePlace(m)'
  BY DEF OnePlace

LEMMA TalkSound == TalkInv => Discord!EachOnce /\ Discord!WarmedRight
<1> SUFFICES ASSUME TalkInv PROVE Discord!EachOnce /\ Discord!WarmedRight
  OBVIOUS
<1>1. Discord!EachOnce
  <2> SUFFICES ASSUME NEW m \in DOMAIN sent
               PROVE  LET asked == {f \in flushes : Discord!Count(m, f.msgs) > 0}
                          rest == Discord!Count(m, replied) + Discord!Count(m, buffer[sent[m]])
                      IN \/ asked = {} /\ Discord!Count(m, seen) = rest
                         \/ \E f \in flushes : asked = {f} /\ Discord!Count(m, seen) = rest + Discord!Count(m, f.msgs)
    BY DEF Discord!EachOnce
  <2> DEFINE asked == {f \in flushes : Often(m, f.msgs) > 0}
             rest == Often(m, replied) + Often(m, buffer[sent[m]])
  <2>1. sent[m] \in Chats
    BY DEF TalkInv, DiscordType
  <2>2. Often(m, seen) \in Nat /\ Often(m, replied) \in Nat /\ Often(m, buffer[sent[m]]) \in Nat
    BY <2>1, CountIs DEF TalkInv, DiscordType
  <2>3. \A f \in flushes : Often(m, f.msgs) \in Nat
    BY CountIs DEF TalkInv, DiscordType
  <2>4. OnePlace(m)
    BY DEF TalkInv
  <2>5. CASE \A f \in flushes : Often(m, f.msgs) = 0
    <3>1. asked = {} /\ Often(m, seen) = rest
      BY <2>2, <2>4, <2>5 DEF OnePlace
    <3> QED
      BY <3>1 DEF Often
  <2>6. CASE ~ \A f \in flushes : Often(m, f.msgs) = 0
    <3>1. PICK f \in flushes : /\ Often(m, f.msgs) = Often(m, seen) /\ Often(m, seen) > 0
                               /\ \A g \in flushes \ {f} : Often(m, g.msgs) = 0
                               /\ Often(m, replied) = 0 /\ Often(m, buffer[sent[m]]) = 0
      BY <2>4, <2>6 DEF OnePlace
    <3>2. asked = {f}
      BY <2>3, <3>1
    <3>3. Often(m, seen) = rest + Often(m, f.msgs)
      BY <2>2, <3>1
    <3> QED
      BY <3>2, <3>3 DEF Often
  <2> QED
    BY <2>5, <2>6
<1>2. Discord!WarmedRight
  <2> SUFFICES ASSUME NEW f \in flushes
               PROVE  /\ \A i \in DOMAIN f.warm : f.warm[i] < Head(f.msgs)
                      /\ \A m \in 1..(Head(f.msgs) - 1) :
                           sent[m] = f.chat /\ Discord!Contains(seen, m) =>
                             Discord!Contains(f.warm, m) \/ Len(f.warm) = Limit
    BY DEF Discord!WarmedRight
  <2>1. /\ f.msgs \in Seq(Nat) /\ f.msgs # <<>> /\ f.warm \in Seq(Nat) /\ WarmOf(f) /\ seen \in Seq(Nat)
    BY DEF TalkInv, DiscordType
  <2>2. Head(f.msgs) = f.msgs[1] /\ f.msgs[1] \in Nat
    BY <2>1
  <2>3. ASSUME NEW m \in 1..(Head(f.msgs) - 1), sent[m] = f.chat, Discord!Contains(seen, m)
        PROVE  Discord!Contains(f.warm, m) \/ Len(f.warm) = Limit
    <3>1. PICK i \in DOMAIN seen : seen[i] = m
      BY <2>1, <2>3 DEF Discord!Contains
    <3>2. m < f.msgs[1]
      BY <2>2
    <3>3. (\E j \in DOMAIN f.warm : f.warm[j] = m) \/ Len(f.warm) = Limit
      BY <2>1, <2>3, <3>1, <3>2 DEF WarmOf
    <3> QED
      BY <2>1, <3>3 DEF Discord!Contains
  <2>4. \A i \in DOMAIN f.warm : f.warm[i] < Head(f.msgs)
    BY <2>1, <2>2 DEF WarmOf
  <2> QED
    BY <2>3, <2>4
<1> QED
  BY <1>1, <1>2

LEMMA ConcatAt ==
  ASSUME NEW S, NEW s \in Seq(S), NEW t \in Seq(S)
  PROVE  /\ s \o t \in Seq(S) /\ Len(s \o t) = Len(s) + Len(t) /\ Len(s) \in Nat /\ Len(t) \in Nat
         /\ DOMAIN (s \o t) = 1..(Len(s) + Len(t)) /\ DOMAIN s = 1..Len(s) /\ DOMAIN t = 1..Len(t)
         /\ \A i \in DOMAIN s : i \in DOMAIN (s \o t) /\ (s \o t)[i] = s[i]
         /\ \A i \in DOMAIN t : Len(s) + i \in DOMAIN (s \o t) /\ (s \o t)[Len(s) + i] = t[i]
         /\ \A i \in DOMAIN (s \o t) : i \in DOMAIN s \/ \E j \in DOMAIN t : i = Len(s) + j /\ (s \o t)[i] = t[j]
<1> DEFINE r == s \o t
<1>1. /\ r \in Seq(S) /\ Len(r) = Len(s) + Len(t) /\ Len(s) \in Nat /\ Len(t) \in Nat
      /\ DOMAIN r = 1..(Len(s) + Len(t)) /\ DOMAIN s = 1..Len(s) /\ DOMAIN t = 1..Len(t)
      /\ \A i \in 1..Len(s) : r[i] = s[i]
      /\ \A i \in (Len(s) + 1)..(Len(s) + Len(t)) : r[i] = t[i - Len(s)]
  OBVIOUS
<1> HIDE DEF r
<1>2. \A i \in 1..Len(t) : /\ Len(s) + i \in (Len(s) + 1)..(Len(s) + Len(t)) /\ (Len(s) + i) - Len(s) = i
                           /\ Len(s) + i \in 1..(Len(s) + Len(t))
  BY <1>1
<1>3. \A i \in 1..(Len(s) + Len(t)) : i \in 1..Len(s) \/ i \in (Len(s) + 1)..(Len(s) + Len(t))
  BY <1>1
<1>4. \A i \in (Len(s) + 1)..(Len(s) + Len(t)) : i - Len(s) \in 1..Len(t) /\ i = Len(s) + (i - Len(s))
  BY <1>1
<1>5. \A i \in 1..Len(s) : i \in DOMAIN r
  BY <1>1
<1>6. \A i \in DOMAIN t : Len(s) + i \in DOMAIN r /\ r[Len(s) + i] = t[i]
  BY <1>1, <1>2
<1>7. \A i \in DOMAIN r : i \in DOMAIN s \/ \E j \in DOMAIN t : i = Len(s) + j /\ r[i] = t[j]
  <2> SUFFICES ASSUME NEW i \in DOMAIN r, i \notin DOMAIN s PROVE \E j \in DOMAIN t : i = Len(s) + j /\ r[i] = t[j]
    OBVIOUS
  <2>1. i \in (Len(s) + 1)..(Len(s) + Len(t))
    BY <1>1, <1>3
  <2> QED
    BY <1>1, <1>4, <2>1
<1> QED
  BY <1>1, <1>5, <1>6, <1>7 DEF r

\* A message was sent, and n copies of it joined the burst of its chat.
Joined(c, m, t) ==
  /\ m = Len(sent) + 1 /\ sent' = Append(sent, c)
  /\ t \in Seq(Nat) /\ \A i \in DOMAIN t : t[i] = m
  /\ buffer' = [buffer EXCEPT ![c] = @ \o t] /\ seen' = seen \o t
  /\ UNCHANGED <<flushes, tlog, replied, gateways>>

LEMMA JoinedType ==
  ASSUME DiscordType, NEW c \in Chats, NEW m, NEW t, Joined(c, m, t)
  PROVE  /\ DiscordType' /\ DOMAIN sent' = DOMAIN sent \union {m} /\ m \notin DOMAIN sent /\ m \in Nat
         /\ \A i \in DOMAIN sent : sent'[i] = sent[i] /\ i < m
         /\ sent'[m] = c /\ buffer'[c] = buffer[c] \o t /\ \A d \in Chats : d # c => buffer'[d] = buffer[d]
<1>1. /\ sent \in Seq(Chats) /\ m = Len(sent) + 1 /\ sent' = Append(sent, c)
      /\ t \in Seq(Nat) /\ \A i \in DOMAIN t : t[i] = m
  BY DEF DiscordType, Joined
<1>2. /\ sent' \in Seq(Chats) /\ Len(sent') = m /\ DOMAIN sent' = 1..m /\ sent'[m] = c /\ Len(sent) \in Nat
      /\ m \in Nat /\ \A i \in 1..Len(sent) : sent'[i] = sent[i]
  BY <1>1, AppendAt
<1>3. /\ DOMAIN sent' = DOMAIN sent \union {m} /\ m \notin DOMAIN sent
      /\ \A i \in DOMAIN sent : sent'[i] = sent[i] /\ i < m
  BY <1>1, <1>2
<1>4. \A d \in Chats : Sent(d) \subseteq Sent(d)'
  BY <1>3 DEF Sent
<1>5. m \in Sent(c)'
  BY <1>2, <1>3 DEF Sent
<1>6. /\ buffer \in [Chats -> Seq(Nat)]
      /\ buffer'[c] = buffer[c] \o t /\ \A d \in Chats : d # c => buffer'[d] = buffer[d]
      /\ buffer' = [buffer EXCEPT ![c] = buffer[c] \o t]
  BY DEF DiscordType, Joined
<1>7. buffer[c] \in Seq(Nat) /\ buffer[c] \o t \in Seq(Nat)
  BY <1>1, <1>6, ConcatAt
<1>8. buffer' \in [Chats -> Seq(Nat)]
  BY <1>6, <1>7
<1>9. ASSUME NEW d \in Chats, NEW i \in DOMAIN buffer'[d] PROVE buffer'[d][i] \in Sent(d)'
  <2>1. CASE d # c
    BY <1>4, <1>6, <1>9, <2>1 DEF DiscordType
  <2>2. CASE d = c
    <3>1. i \in DOMAIN buffer[c] \/ \E j \in DOMAIN t : (buffer[c] \o t)[i] = t[j]
      BY <1>1, <1>6, <1>7, <1>9, <2>2, ConcatAt
    <3>2. CASE i \in DOMAIN buffer[c]
      <4>1. (buffer[c] \o t)[i] = buffer[c][i]
        BY <1>1, <1>7, <3>2, ConcatAt
      <4>2. buffer[c][i] \in Sent(c)
        BY <3>2 DEF DiscordType
      <4> QED
        BY <1>4, <1>6, <2>2, <4>1, <4>2
    <3> QED
      BY <1>1, <1>5, <1>6, <2>2, <3>1, <3>2
  <2> QED
    BY <2>1, <2>2
<1>10. seen' \in Seq(Nat) /\ \A i \in DOMAIN seen' : seen'[i] \in DOMAIN sent'
  <2>1. seen \in Seq(Nat) /\ seen' = seen \o t /\ \A i \in DOMAIN seen : seen[i] \in DOMAIN sent
    BY DEF DiscordType, Joined
  <2>2. seen \o t \in Seq(Nat)
    BY <1>1, <2>1, ConcatAt
  <2>3. ASSUME NEW i \in DOMAIN (seen \o t) PROVE (seen \o t)[i] \in DOMAIN sent'
    <3>1. i \in DOMAIN seen \/ \E j \in DOMAIN t : (seen \o t)[i] = t[j]
      BY <1>1, <2>1, ConcatAt
    <3>2. i \in DOMAIN seen => (seen \o t)[i] = seen[i]
      BY <1>1, <2>1, ConcatAt
    <3> QED
      BY <1>1, <1>3, <2>1, <3>1, <3>2
  <2> QED
    BY <2>1, <2>2, <2>3
<1>11. /\ tlog' \in [Chats -> Seq(Nat)] /\ replied' \in Seq(Nat)
       /\ gateways' \in Seq({"start", "up", "down", "gone"})
       /\ \A d \in Chats : \A i \in DOMAIN tlog'[d] : tlog'[d][i] \in 0..Len(sent')
       /\ \A i \in DOMAIN replied' : replied'[i] \in DOMAIN sent'
  <2>1. UNCHANGED <<tlog, replied, gateways>>
    BY DEF Joined
  <2>2. 0..Len(sent) \subseteq 0..Len(sent')
    BY <1>1, <1>2
  <2> QED
    BY <1>3, <2>1, <2>2 DEF DiscordType
<1>12. \A f \in flushes' : /\ f.chat \in Chats /\ f.msgs \in Seq(Nat) /\ f.msgs # <<>> /\ f.warm \in Seq(Nat)
                           /\ \A i \in DOMAIN f.msgs : f.msgs[i] \in Sent(f.chat)'
  <2>1. flushes' = flushes
    BY DEF Joined
  <2> QED
    BY <1>4, <2>1 DEF DiscordType
<1>13. DiscordType'
  BY <1>2, <1>8, <1>9, <1>10, <1>11, <1>12 DEF DiscordType
<1> QED
  BY <1>2, <1>3, <1>6, <1>13

LEMMA JoinedKeeps ==
  ASSUME TalkInv, NEW c \in Chats, NEW m, NEW t, Joined(c, m, t)
  PROVE  TalkInv'
<1>1. DiscordType
  BY DEF TalkInv
<1>2. /\ DiscordType' /\ DOMAIN sent' = DOMAIN sent \union {m} /\ m \notin DOMAIN sent /\ m \in Nat
      /\ \A i \in DOMAIN sent : sent'[i] = sent[i] /\ i < m
      /\ sent'[m] = c /\ buffer'[c] = buffer[c] \o t /\ \A d \in Chats : d # c => buffer'[d] = buffer[d]
  BY <1>1, JoinedType
<1>3. /\ t \in Seq(Nat) /\ seen \in Seq(Nat) /\ replied \in Seq(Nat) /\ \A d \in Chats : buffer[d] \in Seq(Nat)
      /\ \A i \in DOMAIN t : t[i] = m
      /\ seen' = seen \o t /\ UNCHANGED <<flushes, tlog, replied, gateways>>
  BY <1>1 DEF Joined, DiscordType
<1>4. /\ \A i \in DOMAIN seen : seen[i] \in DOMAIN sent
      /\ \A i \in DOMAIN replied : replied[i] \in DOMAIN sent
      /\ \A d \in Chats : \A i \in DOMAIN buffer[d] : buffer[d][i] \in DOMAIN sent
      /\ \A f \in flushes : f.msgs \in Seq(Nat) /\ \A i \in DOMAIN f.msgs : f.msgs[i] \in DOMAIN sent
  BY <1>1 DEF DiscordType, Sent
<1>5. ASSUME NEW x \in DOMAIN sent PROVE OnePlace(x)'
  <2>1. x # m /\ sent'[x] = sent[x] /\ sent[x] \in Chats
    BY <1>1, <1>2 DEF DiscordType
  <2>2. \A i \in DOMAIN t : t[i] # x
    BY <1>3, <2>1
  <2>3. Often(x, seen') = Often(x, seen)
    BY <1>3, <2>2, CountStays
  <2>4. Often(x, buffer'[sent[x]]) = Often(x, buffer[sent[x]])
    <3>1. Often(x, buffer[c] \o t) = Often(x, buffer[c])
      BY <1>3, <2>2, CountStays
    <3> QED
      BY <1>2, <2>1, <3>1
  <2>5. OnePlace(x)
    BY DEF TalkInv
  <2> QED
    BY <1>3, <2>1, <2>3, <2>4, <2>5 DEF OnePlace, Often
<1>6. OnePlace(m)'
  <2>1. /\ \A i \in DOMAIN seen : seen[i] # m
        /\ \A i \in DOMAIN replied : replied[i] # m
        /\ \A i \in DOMAIN buffer[c] : buffer[c][i] # m
        /\ \A f \in flushes : \A i \in DOMAIN f.msgs : f.msgs[i] # m
    BY <1>2, <1>4
  <2>2. Often(m, seen') = Often(m, t)
    BY <1>3, <2>1, CountMoves
  <2>3. Often(m, buffer'[c]) = Often(m, t)
    BY <1>2, <1>3, <2>1, CountMoves
  <2>4. Often(m, replied) = 0
    BY <1>3, <2>1, CountIs
  <2>5. \A f \in flushes : Often(m, f.msgs) = 0
    BY <1>4, <2>1, CountIs
  <2> QED
    BY <1>2, <1>3, <2>2, <2>3, <2>4, <2>5 DEF OnePlace, Often
<1>7. ASSUME NEW d \in Chats PROVE InOrder(d)'
  <2>1. /\ InOrder(d) /\ tlog \in [Chats -> Seq(Nat)]
        /\ \A i \in DOMAIN tlog[d] : tlog[d][i] \in Nat /\ tlog[d][i] < m
    <3>1. m = Len(sent) + 1 /\ Len(sent) \in Nat
      BY <1>1 DEF Joined, DiscordType
    <3>2. \A i \in DOMAIN tlog[d] : tlog[d][i] \in 0..Len(sent)
      BY <1>1 DEF DiscordType
    <3> QED
      BY <1>1, <3>1, <3>2 DEF TalkInv, DiscordType
  <2>2. \A i \in DOMAIN seen' : \/ i \in DOMAIN seen /\ seen'[i] = seen[i]
                                \/ seen'[i] = m /\ \E j \in DOMAIN t : t[j] = m
    <3>1. \A i \in DOMAIN (seen \o t) : i \in DOMAIN seen \/ \E j \in DOMAIN t : (seen \o t)[i] = t[j]
      BY <1>3, ConcatAt
    <3>2. \A i \in DOMAIN seen : (seen \o t)[i] = seen[i]
      BY <1>3, ConcatAt
    <3> QED
      BY <1>3, <3>1, <3>2
  <2>3. \A i \in DOMAIN seen : seen[i] # m /\ sent'[seen[i]] = sent[seen[i]]
    BY <1>2, <1>4
  <2>4. CASE d # c
    <3>1. buffer'[d] = buffer[d] /\ tlog' = tlog
      BY <1>2, <1>3, <2>4
    <3>2. \A i \in DOMAIN seen' : sent'[seen'[i]] = d => i \in DOMAIN seen /\ seen'[i] = seen[i]
      BY <1>2, <2>2, <2>4
    <3>3. \A i \in DOMAIN seen : sent[seen[i]] = d =>
            \/ \E j \in DOMAIN tlog[d] : tlog[d][j] = seen[i]
            \/ \E j \in DOMAIN buffer[d] : buffer[d][j] = seen[i]
      BY <2>1 DEF InOrder
    <3>4. \A i \in DOMAIN seen' : sent'[seen'[i]] = d =>
            \/ \E j \in DOMAIN tlog[d] : tlog[d][j] = seen'[i]
            \/ \E j \in DOMAIN buffer[d] : buffer[d][j] = seen'[i]
      BY <2>3, <3>2, <3>3
    <3> QED
      BY <2>1, <3>1, <3>4 DEF InOrder
  <2>5. CASE d = c
    <3> DEFINE b == buffer[c]
               r == b \o t
    <3>1. /\ \A i \in DOMAIN r : (i \in DOMAIN b /\ r[i] = b[i]) \/ (i \notin DOMAIN b /\ r[i] = m)
          /\ \A i \in DOMAIN b : i \in DOMAIN r
          /\ \A j \in DOMAIN t : \E i \in DOMAIN r : r[i] = m
          /\ DOMAIN b = 1..Len(b) /\ Len(b) \in Nat /\ r \in Seq(Nat)
      <4>1. /\ DOMAIN b = 1..Len(b) /\ Len(b) \in Nat /\ r \in Seq(Nat) /\ \A i \in DOMAIN b : i \in DOMAIN r /\ r[i] = b[i]
            /\ \A j \in DOMAIN t : Len(b) + j \in DOMAIN r /\ r[Len(b) + j] = t[j]
            /\ \A i \in DOMAIN r : i \in DOMAIN b \/ \E j \in DOMAIN t : i = Len(b) + j /\ r[i] = t[j]
            /\ DOMAIN t = 1..Len(t) /\ Len(t) \in Nat
        <5>1. b \in Seq(Nat)
          BY <1>3
        <5> HIDE DEF b
        <5> QED
          BY <1>3, <5>1, ConcatAt
      <4> HIDE DEF b, r
      <4>2. \A j \in DOMAIN t : Len(b) + j \notin DOMAIN b
        BY <4>1
      <4> QED
        BY <1>3, <4>1, <4>2
    <3>2. \A i \in DOMAIN b : b[i] \in Nat /\ b[i] < m
      BY <1>2, <1>3, <1>4
    <3>3. /\ \A i \in DOMAIN b : b[1] <= b[i]
          /\ \A i \in DOMAIN tlog[d], j \in DOMAIN b : tlog[d][i] < b[j]
      BY <2>1, <2>5 DEF InOrder
    <3>4. buffer'[d] = r
      BY <1>2, <2>5
    <3> HIDE DEF b, r
    <3>5. \A i \in DOMAIN r : r[1] <= r[i]
      <4> SUFFICES ASSUME NEW i \in DOMAIN r PROVE r[1] <= r[i]
        OBVIOUS
      <4>1. CASE b = <<>>
        <5>1. DOMAIN b = {}
          BY <4>1
        <5>2. 1 \in DOMAIN r
          BY <3>1
        <5> QED
          BY <1>2, <3>1, <5>1, <5>2
      <4>2. CASE b # <<>>
        <5>1. 1 \in DOMAIN b
          <6>1. b \in Seq(Nat)
            BY <1>3 DEF b
          <6> QED
            BY <4>2, <6>1
        <5> QED
          BY <1>2, <3>1, <3>2, <3>3, <5>1
      <4> QED
        BY <4>1, <4>2
    <3>6. \A i \in DOMAIN tlog[d], j \in DOMAIN r : tlog[d][i] < r[j]
      BY <1>2, <2>1, <3>1, <3>3
    <3>7. \A i \in DOMAIN seen' : sent'[seen'[i]] = d =>
            \/ \E j \in DOMAIN tlog[d] : tlog[d][j] = seen'[i]
            \/ \E j \in DOMAIN r : r[j] = seen'[i]
      <4>1. \A i \in DOMAIN seen : sent[seen[i]] = d =>
              \/ \E j \in DOMAIN tlog[d] : tlog[d][j] = seen[i]
              \/ \E j \in DOMAIN b : b[j] = seen[i]
        BY <2>1, <2>5 DEF InOrder, b
      <4> QED
        BY <2>2, <2>3, <3>1, <4>1
    <3> QED
      BY <1>3, <3>4, <3>5, <3>6, <3>7 DEF InOrder
  <2> QED
    BY <2>4, <2>5
<1>8. ASSUME NEW f \in flushes PROVE WarmOf(f)'
  <2>1. WarmOf(f) /\ f.msgs \in Seq(Nat) /\ f.msgs # <<>>
    BY <1>1 DEF TalkInv, DiscordType
  <2>2. f.msgs[1] \in DOMAIN sent
    BY <1>4, <2>1
  <2>3. f.msgs[1] < m /\ f.msgs[1] \in Nat
    BY <1>2, <2>1, <2>2
  <2>4. \A i \in DOMAIN seen' : seen'[i] < f.msgs[1] => i \in DOMAIN seen /\ seen'[i] = seen[i]
    <3>1. \A i \in DOMAIN (seen \o t) : i \in DOMAIN seen \/ \E j \in DOMAIN t : (seen \o t)[i] = t[j]
      BY <1>3, ConcatAt
    <3>2. \A i \in DOMAIN seen : (seen \o t)[i] = seen[i]
      BY <1>3, ConcatAt
    <3> QED
      BY <1>2, <1>3, <2>3, <3>1, <3>2
  <2>5. \A i \in DOMAIN seen : sent'[seen[i]] = sent[seen[i]]
    BY <1>2, <1>4
  <2> QED
    BY <2>1, <2>4, <2>5 DEF WarmOf
<1> QED
  BY <1>2, <1>3, <1>5, <1>6, <1>7, <1>8 DEF TalkInv

LEMMA ReceiveKeeps ==
  ASSUME TalkInv, NEW c \in Chats, NEW x \in BOOLEAN, Discord!Receive(c, x)
  PROVE  TalkInv'
<1> DEFINE n == Discord!Cardinality({g \in Discord!Live : gateways[g] = "up"})
           m == Len(sent) + 1
           t == [i \in 1..n |-> m]
<1>1. DiscordType
  BY DEF TalkInv
<1>2. /\ sent' = Append(sent, c) /\ UNCHANGED <<flushes, tlog, replied, gateways>>
      /\ \/ n > 0 /\ buffer' = [buffer EXCEPT ![c] = @ \o t] /\ seen' = seen \o t
         \/ UNCHANGED <<buffer, seen>>
  BY DEF Discord!Receive, Discord!Buffered, Discord!surface
<1>3. n \in Nat
  <2> DEFINE G == {g \in Discord!Live : gateways[g] = "up"}
  <2>1. G \in SUBSET (1..Len(gateways)) /\ Len(gateways) \in Nat
    BY <1>1 DEF DiscordType, Discord!Live
  <2>2. IsFiniteSet(1..Len(gateways))
    BY <2>1, FS_Interval
  <2>3. IsFiniteSet(G)
    BY <2>1, <2>2, FS_Subset
  <2>4. Cardinality(G) \in Nat
    BY <2>3, FS_CardinalityType
  <2>5. n = Cardinality(G)
    BY DEF Discord!Cardinality, Cardinality
  <2> QED
    BY <2>4, <2>5
<1>4. m \in Nat
  BY <1>1 DEF DiscordType
<1> HIDE DEF n
<1>5. t \in Seq(Nat) /\ \A i \in DOMAIN t : t[i] = m
  BY <1>3, <1>4
<1>6. CASE buffer' = [buffer EXCEPT ![c] = @ \o t] /\ seen' = seen \o t
  <2>1. Joined(c, m, t)
    BY <1>2, <1>5, <1>6 DEF Joined
  <2> QED
    BY <2>1, JoinedKeeps
<1>7. CASE UNCHANGED <<buffer, seen>>
  <2>1. seen \o <<>> = seen /\ buffer[c] \o <<>> = buffer[c]
    <3>1. seen \in Seq(Nat) /\ buffer[c] \in Seq(Nat)
      BY <1>1 DEF DiscordType
    <3> QED
      BY <3>1
  <2>2. buffer' = [buffer EXCEPT ![c] = @ \o <<>>]
    BY <1>1, <1>7, <2>1 DEF DiscordType
  <2>3. <<>> \in Seq(Nat) /\ \A i \in DOMAIN <<>> : <<>>[i] = m
    OBVIOUS
  <2>4. Joined(c, m, <<>>)
    BY <1>2, <1>7, <2>1, <2>2, <2>3 DEF Joined
  <2> QED
    BY <2>4, JoinedKeeps
<1> QED
  BY <1>2, <1>6, <1>7

\* The newest of a log, as far as the limit reaches.
LEMMA WarmedIs ==
  ASSUME DiscordType, NEW c \in Chats
  PROVE  /\ Discord!Warmed(c) \in Seq(Nat)
         /\ \A i \in DOMAIN Discord!Warmed(c) : \E j \in DOMAIN tlog[c] : Discord!Warmed(c)[i] = tlog[c][j]
         /\ \/ Len(Discord!Warmed(c)) = Limit
            \/ \A j \in DOMAIN tlog[c] : \E i \in DOMAIN Discord!Warmed(c) : Discord!Warmed(c)[i] = tlog[c][j]
<1> DEFINE s == tlog[c]
           k == IF Len(s) > Limit THEN Len(s) - Limit + 1 ELSE 1
           w == SubSeq(s, k, Len(s))
<1>1. s \in Seq(Nat) /\ Len(s) \in Nat /\ DOMAIN s = 1..Len(s)
  BY DEF DiscordType
<1>2. Discord!Warmed(c) = w
  BY DEF Discord!Warmed
<1>3. k \in Nat \ {0} /\ k <= Len(s) + 1
  BY <1>1, DiscordLimit
<1> HIDE DEF s
<1>4. /\ Len(s) > Limit => k = Len(s) - Limit + 1
      /\ ~(Len(s) > Limit) => k = 1
  OBVIOUS
<1> HIDE DEF k
<1>5. /\ w \in Seq(Nat) /\ Len(w) = Len(s) + 1 - k /\ DOMAIN w = 1..(Len(s) + 1 - k)
      /\ \A i \in 1..(Len(s) + 1 - k) : w[i] = s[k + i - 1]
  <2> HIDE DEF w
  <2> QED
    <3>0. k \in Int /\ Len(s) \in Int
      BY <1>1, <1>3
    <3>1. \A i \in k..Len(s) : s[i] \in Nat
      BY <1>1, <1>3
    <3>2. /\ SubSeq(s, k, Len(s)) \in Seq(Nat)
          /\ Len(SubSeq(s, k, Len(s))) = IF k <= Len(s) THEN Len(s) - k + 1 ELSE 0
          /\ \A i \in 1..(Len(s) - k + 1) : SubSeq(s, k, Len(s))[i] = s[k + i - 1]
      BY <3>0, <3>1, SubSeqProperties
    <3>3. Len(s) - k + 1 = Len(s) + 1 - k /\ (~(k <= Len(s)) => Len(s) + 1 - k = 0)
      BY <1>1, <1>3
    <3>4. w \in Seq(Nat) /\ Len(w) = Len(s) + 1 - k /\ \A i \in 1..(Len(s) + 1 - k) : w[i] = s[k + i - 1]
      BY <3>2, <3>3 DEF w
    <3> QED
      BY <3>4
<1>6. \A i \in DOMAIN w : \E j \in DOMAIN s : w[i] = s[j]
  <2> SUFFICES ASSUME NEW i \in DOMAIN w PROVE \E j \in DOMAIN s : w[i] = s[j]
    OBVIOUS
  <2>1. k + i - 1 \in 1..Len(s)
    <3>1. i \in 1..(Len(s) + 1 - k)
      BY <1>5
    <3> QED
      BY <1>1, <1>3, <3>1
  <2> QED
    BY <1>1, <1>5, <2>1
<1>7. Len(s) > Limit => Len(w) = Limit
  BY <1>1, <1>4, <1>5, DiscordLimit
<1>8. ~(Len(s) > Limit) => \A j \in DOMAIN s : j \in DOMAIN w /\ w[j] = s[j]
  BY <1>1, <1>4, <1>5
<1> QED
  BY <1>2, <1>5, <1>6, <1>7, <1>8 DEF s

LEMMA FlushKeeps ==
  ASSUME TalkInv, NEW c \in Chats, Discord!Flush(c)
  PROVE  TalkInv'
<1> DEFINE b == buffer[c]
           new == [chat |-> c, msgs |-> b, warm |-> Discord!Warmed(c)]
<1>1. DiscordType
  BY DEF TalkInv
<1>2. /\ b # <<>> /\ flushes' = flushes \union {new}
      /\ buffer' = [buffer EXCEPT ![c] = <<>>] /\ tlog' = [tlog EXCEPT ![c] = tlog[c] \o b]
      /\ UNCHANGED <<sent, seen, replied, gateways>>
  BY DEF Discord!Flush, Discord!NoBurst, Discord!surface, Discord!history
<1>3. /\ b \in Seq(Nat) /\ tlog[c] \in Seq(Nat) /\ \A i \in DOMAIN b : b[i] \in Sent(c)
      /\ \A i \in DOMAIN tlog[c] : tlog[c][i] \in 0..Len(sent)
  BY <1>1 DEF DiscordType
<1>4. new.chat = c /\ new.msgs = b /\ new.warm = Discord!Warmed(c)
  OBVIOUS
<1> HIDE DEF new, b
<1>5. /\ buffer'[c] = <<>> /\ tlog'[c] = tlog[c] \o b
      /\ \A d \in Chats : d # c => buffer'[d] = buffer[d] /\ tlog'[d] = tlog[d]
  BY <1>1, <1>2 DEF DiscordType
<1>6. tlog[c] \o b \in Seq(Nat) /\ \A i \in DOMAIN (tlog[c] \o b) : (tlog[c] \o b)[i] \in 0..Len(sent)
  <2>1. tlog[c] \o b \in Seq(Nat)
    BY <1>3, ConcatAt
  <2>2. \A i \in DOMAIN b : b[i] \in 0..Len(sent)
    BY <1>1, <1>3 DEF DiscordType, Sent
  <2>3. ASSUME NEW i \in DOMAIN (tlog[c] \o b) PROVE (tlog[c] \o b)[i] \in 0..Len(sent)
    <3>1. i \in DOMAIN tlog[c] \/ \E j \in DOMAIN b : (tlog[c] \o b)[i] = b[j]
      BY <1>3, ConcatAt
    <3>2. i \in DOMAIN tlog[c] => (tlog[c] \o b)[i] = tlog[c][i]
      BY <1>3, ConcatAt
    <3> QED
      BY <1>3, <2>2, <3>1, <3>2
  <2> QED
    BY <2>1, <2>3
<1>7. Discord!Warmed(c) \in Seq(Nat)
  BY <1>1, WarmedIs
<1>8. DiscordType'
  <2>1. buffer' \in [Chats -> Seq(Nat)]
    BY <1>1, <1>2 DEF DiscordType
  <2>2. tlog' \in [Chats -> Seq(Nat)]
    BY <1>1, <1>2, <1>6 DEF DiscordType
  <2>3. \A d \in Chats : Sent(d)' = Sent(d)
    BY <1>2 DEF Sent
  <2>4. \A d \in Chats : \A i \in DOMAIN buffer'[d] : buffer'[d][i] \in Sent(d)'
    <3> SUFFICES ASSUME NEW d \in Chats, NEW i \in DOMAIN buffer'[d] PROVE buffer'[d][i] \in Sent(d)'
      OBVIOUS
    <3>1. d # c
      <4>1. DOMAIN <<>> = {}
        OBVIOUS
      <4> QED
        BY <1>5, <4>1
    <3> QED
      BY <1>1, <1>5, <2>3, <3>1 DEF DiscordType
  <2>5. \A d \in Chats : \A i \in DOMAIN tlog'[d] : tlog'[d][i] \in 0..Len(sent')
    BY <1>1, <1>2, <1>5, <1>6 DEF DiscordType
  <2>6. \A f \in flushes' : /\ f.chat \in Chats /\ f.msgs \in Seq(Nat) /\ f.msgs # <<>> /\ f.warm \in Seq(Nat)
                            /\ \A i \in DOMAIN f.msgs : f.msgs[i] \in Sent(f.chat)'
    BY <1>1, <1>2, <1>3, <1>4, <1>7, <2>3 DEF DiscordType
  <2> QED
    BY <1>1, <1>2, <2>1, <2>2, <2>4, <2>5, <2>6 DEF DiscordType
<1>9. ASSUME NEW m \in DOMAIN sent PROVE OnePlace(m)'
  <2>1. OnePlace(m) /\ sent[m] \in Chats
    BY <1>1 DEF TalkInv, DiscordType
  <2>2. /\ Often(m, b) \in Nat /\ Often(m, seen) \in Nat /\ Often(m, replied) \in Nat
        /\ \A f \in flushes : Often(m, f.msgs) \in Nat
    BY <1>1, <1>3, CountIs DEF DiscordType
  <2>3. Often(m, new.msgs) = Often(m, b)
    BY <1>4
  <2>4. CASE sent[m] # c
    <3>1. Often(m, b) = 0
      BY <1>3, <2>4, CountIs DEF Sent
    <3>2. buffer'[sent[m]] = buffer[sent[m]]
      BY <1>5, <2>1, <2>4
    <3>3. Often(m, new.msgs) = 0
      BY <2>3, <3>1
    <3> QED
      BY <1>2, <2>1, <3>2, <3>3 DEF OnePlace, Often
  <2>5. CASE sent[m] = c
    <3>1. buffer[sent[m]] = b /\ Often(m, buffer'[sent[m]]) = 0
      <4>1. Often(m, <<>>) = 0
        <5>1. <<>> \in Seq(Nat) /\ \A i \in DOMAIN <<>> : <<>>[i] # m
          OBVIOUS
        <5> QED
          BY <5>1, CountIs
      <4> QED
        BY <1>5, <2>5, <4>1 DEF b
    <3>2. CASE Often(m, b) = 0
      BY <1>2, <2>1, <2>3, <3>1, <3>2 DEF OnePlace, Often
    <3>3. CASE Often(m, b) # 0
      <4>1. /\ Often(m, b) = Often(m, seen) /\ Often(m, replied) = 0 /\ \A f \in flushes : Often(m, f.msgs) = 0
        BY <2>1, <3>1, <3>3 DEF OnePlace
      <4>2. \A g \in flushes' \ {new} : Often(m, g.msgs) = 0
        BY <1>2, <4>1
      <4>3. new \in flushes' /\ Often(m, new.msgs) = Often(m, seen) /\ Often(m, seen) > 0
        BY <1>2, <2>2, <2>3, <3>3, <4>1
      <4> QED
        BY <1>2, <3>1, <4>1, <4>2, <4>3 DEF OnePlace, Often
    <3> QED
      BY <3>2, <3>3
  <2> QED
    BY <2>4, <2>5
<1>10. ASSUME NEW d \in Chats PROVE InOrder(d)'
  <2>1. InOrder(d)
    BY DEF TalkInv
  <2>2. CASE d # c
    BY <1>2, <1>5, <2>1, <2>2 DEF InOrder
  <2>3. CASE d = c
    <3>1. buffer'[d] = <<>> /\ DOMAIN buffer'[d] = {}
      BY <1>5, <2>3
    <3>2. \A i \in DOMAIN seen : sent[seen[i]] = d =>
            \/ \E j \in DOMAIN tlog[c] : tlog[c][j] = seen[i]
            \/ \E j \in DOMAIN b : b[j] = seen[i]
      BY <2>1, <2>3 DEF InOrder, b
    <3>3. \A j \in DOMAIN tlog[c] : j \in DOMAIN (tlog[c] \o b) /\ (tlog[c] \o b)[j] = tlog[c][j]
      BY <1>3, ConcatAt
    <3>4. \A j \in DOMAIN b : /\ Len(tlog[c]) + j \in DOMAIN (tlog[c] \o b)
                              /\ (tlog[c] \o b)[Len(tlog[c]) + j] = b[j]
      BY <1>3, ConcatAt
    <3>5. \A i \in DOMAIN seen : sent[seen[i]] = d => \E j \in DOMAIN tlog'[d] : tlog'[d][j] = seen[i]
      <4>1. tlog'[d] = tlog[c] \o b
        BY <1>5, <2>3
      <4> SUFFICES ASSUME NEW i \in DOMAIN seen, sent[seen[i]] = d
                   PROVE  \E j \in DOMAIN (tlog[c] \o b) : (tlog[c] \o b)[j] = seen[i]
        BY <4>1
      <4>2. CASE \E j \in DOMAIN tlog[c] : tlog[c][j] = seen[i]
        BY <3>3, <4>2
      <4>3. CASE \E j \in DOMAIN b : b[j] = seen[i]
        BY <3>4, <4>3
      <4> QED
        BY <3>2, <4>2, <4>3
    <3> QED
      BY <1>2, <3>1, <3>5 DEF InOrder
  <2> QED
    BY <2>2, <2>3
<1>11. ASSUME NEW f \in flushes' PROVE WarmOf(f)'
  <2>1. CASE f \in flushes
    <3>1. WarmOf(f)
      BY <2>1 DEF TalkInv
    <3> QED
      BY <1>2, <3>1 DEF WarmOf
  <2>2. CASE f = new
    <3>1. /\ InOrder(c) /\ seen \in Seq(Nat) /\ DOMAIN b = 1..Len(b) /\ 1 \in DOMAIN b
      BY <1>1, <1>2, <1>3 DEF TalkInv, DiscordType
    <3>2. \A i \in DOMAIN f.warm : f.warm[i] < f.msgs[1]
      <4>1. \A j \in DOMAIN tlog[c] : tlog[c][j] < b[1]
        BY <3>1 DEF InOrder, b
      <4>2. \A i \in DOMAIN Discord!Warmed(c) : \E j \in DOMAIN tlog[c] : Discord!Warmed(c)[i] = tlog[c][j]
        BY <1>1, WarmedIs
      <4> QED
        BY <1>4, <2>2, <4>1, <4>2
    <3>3. ASSUME NEW i \in DOMAIN seen, seen[i] < b[1], sent[seen[i]] = c
          PROVE  \E j \in DOMAIN tlog[c] : tlog[c][j] = seen[i]
      <4>1. \/ \E j \in DOMAIN tlog[c] : tlog[c][j] = seen[i]
            \/ \E j \in DOMAIN b : b[j] = seen[i]
        BY <3>1, <3>3 DEF InOrder, b
      <4>2. \A j \in DOMAIN b : b[1] <= b[j] /\ b[j] \in Nat /\ b[1] \in Nat
        BY <1>3, <3>1 DEF InOrder, b
      <4>3. seen[i] \in Nat
        BY <3>1
      <4>4. \A j \in DOMAIN b : b[j] # seen[i]
        BY <3>3, <4>2, <4>3
      <4> QED
        BY <4>1, <4>4
    <3>4. \/ Len(f.warm) = Limit
          \/ \A j \in DOMAIN tlog[c] : \E i \in DOMAIN f.warm : f.warm[i] = tlog[c][j]
      <4>1. \/ Len(Discord!Warmed(c)) = Limit
            \/ \A j \in DOMAIN tlog[c] : \E i \in DOMAIN Discord!Warmed(c) : Discord!Warmed(c)[i] = tlog[c][j]
        BY <1>1, WarmedIs
      <4> QED
        BY <1>4, <2>2, <4>1
    <3>5. \A i \in DOMAIN seen : seen[i] < f.msgs[1] /\ sent[seen[i]] = f.chat =>
            (\E j \in DOMAIN f.warm : f.warm[j] = seen[i]) \/ Len(f.warm) = Limit
      BY <1>4, <2>2, <3>3, <3>4
    <3> QED
      BY <1>2, <3>2, <3>5 DEF WarmOf
  <2> QED
    BY <1>2, <2>1, <2>2
<1> QED
  BY <1>2, <1>8, <1>9, <1>10, <1>11 DEF TalkInv

LEMMA ReplyKeeps ==
  ASSUME TalkInv, NEW f \in flushes, Discord!Reply(f)
  PROVE  TalkInv'
<1>1. DiscordType
  BY DEF TalkInv
<1>2. /\ flushes' = flushes \ {f} /\ tlog' = [tlog EXCEPT ![f.chat] = Append(tlog[f.chat], 0)]
      /\ replied' = replied \o f.msgs /\ UNCHANGED <<sent, buffer, seen, gateways>>
  BY DEF Discord!Reply, Discord!surface
<1>3. /\ f.chat \in Chats /\ f.msgs \in Seq(Nat) /\ replied \in Seq(Nat) /\ tlog[f.chat] \in Seq(Nat)
      /\ \A i \in DOMAIN f.msgs : f.msgs[i] \in Sent(f.chat)
      /\ \A i \in DOMAIN replied : replied[i] \in DOMAIN sent
  BY <1>1 DEF DiscordType
<1> DEFINE l == Append(tlog[f.chat], 0)
<1>4. /\ l \in Seq(Nat) /\ DOMAIN l = DOMAIN tlog[f.chat] \union {Len(tlog[f.chat]) + 1}
      /\ l[Len(tlog[f.chat]) + 1] = 0 /\ \A i \in DOMAIN tlog[f.chat] : l[i] = tlog[f.chat][i]
  BY <1>3, AppendAt
<1> HIDE DEF l
<1>5. tlog'[f.chat] = l /\ \A d \in Chats : d # f.chat => tlog'[d] = tlog[d]
  BY <1>1, <1>2, <1>3 DEF DiscordType, l
<1>6. DiscordType'
  <2>1. tlog' \in [Chats -> Seq(Nat)]
    BY <1>1, <1>2, <1>4 DEF DiscordType, l
  <2>2. \A d \in Chats : \A i \in DOMAIN tlog'[d] : tlog'[d][i] \in 0..Len(sent)
    <3>1. 0 \in 0..Len(sent)
      BY <1>1 DEF DiscordType
    <3> QED
      BY <1>1, <1>3, <1>4, <1>5, <3>1 DEF DiscordType
  <2>3. replied' \in Seq(Nat) /\ \A i \in DOMAIN replied' : replied'[i] \in DOMAIN sent
    <3>1. replied \o f.msgs \in Seq(Nat)
      BY <1>3, ConcatAt
    <3>2. ASSUME NEW i \in DOMAIN (replied \o f.msgs) PROVE (replied \o f.msgs)[i] \in DOMAIN sent
      <4>1. i \in DOMAIN replied \/ \E j \in DOMAIN f.msgs : (replied \o f.msgs)[i] = f.msgs[j]
        BY <1>3, ConcatAt
      <4>2. i \in DOMAIN replied => (replied \o f.msgs)[i] = replied[i]
        BY <1>3, ConcatAt
      <4>3. \A j \in DOMAIN f.msgs : f.msgs[j] \in DOMAIN sent
        BY <1>3 DEF Sent
      <4> QED
        BY <1>3, <4>1, <4>2, <4>3
    <3> QED
      BY <1>2, <3>1, <3>2
  <2>4. \A d \in Chats : Sent(d)' = Sent(d)
    BY <1>2 DEF Sent
  <2> QED
    <3>1. \A d \in Chats : \A i \in DOMAIN buffer'[d] : buffer'[d][i] \in Sent(d)'
      BY <1>1, <1>2, <2>4 DEF DiscordType
    <3>2. \A g \in flushes' : /\ g.chat \in Chats /\ g.msgs \in Seq(Nat) /\ g.msgs # <<>> /\ g.warm \in Seq(Nat)
                              /\ \A i \in DOMAIN g.msgs : g.msgs[i] \in Sent(g.chat)'
      BY <1>1, <1>2, <2>4 DEF DiscordType
    <3> QED
      BY <1>1, <1>2, <2>1, <2>2, <2>3, <3>1, <3>2 DEF DiscordType
<1>7. ASSUME NEW m \in DOMAIN sent PROVE OnePlace(m)'
  <2>1. OnePlace(m)
    BY DEF TalkInv
  <2>2. /\ Often(m, f.msgs) \in Nat /\ Often(m, replied) \in Nat
        /\ Often(m, f.msgs) = 0 => \A i \in DOMAIN f.msgs : f.msgs[i] # m
        /\ Often(m, replied) = 0 => \A i \in DOMAIN replied : replied[i] # m
    BY <1>3, CountIs
  <2>3. CASE Often(m, f.msgs) = 0
    <3>1. Often(m, replied') = Often(m, replied)
      BY <1>2, <1>3, <2>2, <2>3, CountStays
    <3>2. \A g \in flushes : Often(m, g.msgs) > 0 => g \in flushes'
      BY <1>2, <2>3
    <3> QED
      BY <1>2, <2>1, <3>1, <3>2 DEF OnePlace, Often
  <2>4. CASE Often(m, f.msgs) # 0
    <3>1. /\ Often(m, replied) = 0 /\ Often(m, buffer[sent[m]]) = 0 /\ Often(m, f.msgs) = Often(m, seen)
          /\ \A g \in flushes \ {f} : Often(m, g.msgs) = 0
      BY <2>1, <2>4 DEF OnePlace
    <3>2. Often(m, replied') = Often(m, f.msgs)
      BY <1>2, <1>3, <2>2, <3>1, CountMoves
    <3> QED
      BY <1>2, <3>1, <3>2 DEF OnePlace, Often
  <2> QED
    BY <2>3, <2>4
<1>8. ASSUME NEW d \in Chats PROVE InOrder(d)'
  <2>1. InOrder(d)
    BY DEF TalkInv
  <2>2. CASE d # f.chat
    BY <1>2, <1>5, <2>1, <2>2 DEF InOrder
  <2>3. CASE d = f.chat
    <3>1. \A j \in DOMAIN buffer[d] : buffer[d][j] \in Nat /\ 0 < buffer[d][j]
      BY <1>1 DEF DiscordType, Sent
    <3>2. \A i \in DOMAIN l, j \in DOMAIN buffer[d] : l[i] < buffer[d][j]
      BY <1>4, <2>1, <2>3, <3>1 DEF InOrder
    <3>3. \A j \in DOMAIN tlog[d] : j \in DOMAIN l /\ l[j] = tlog[d][j]
      BY <1>4, <2>3
    <3>4. \A i \in DOMAIN seen : sent[seen[i]] = d =>
            \/ \E j \in DOMAIN l : l[j] = seen[i]
            \/ \E j \in DOMAIN buffer[d] : buffer[d][j] = seen[i]
      BY <2>1, <3>3 DEF InOrder
    <3> QED
      <4>1. tlog'[d] = l /\ buffer' = buffer /\ seen' = seen /\ sent' = sent
        BY <1>2, <1>5, <2>3
      <4>2. \A i \in DOMAIN buffer[d] : buffer[d][1] <= buffer[d][i]
        BY <2>1 DEF InOrder
      <4> QED
        BY <3>2, <3>4, <4>1, <4>2 DEF InOrder
  <2> QED
    BY <2>2, <2>3
<1>9. ASSUME NEW g \in flushes' PROVE WarmOf(g)'
  <2>1. WarmOf(g)
    BY <1>2 DEF TalkInv
  <2> QED
    BY <1>2, <2>1 DEF WarmOf
<1> QED
  BY <1>2, <1>6, <1>7, <1>8, <1>9 DEF TalkInv

\* The gateway tasks come and go without touching what was said.
LEMMA TaskKeeps ==
  ASSUME TalkInv, UNCHANGED <<sent, buffer, flushes, tlog, seen, replied>>,
         gateways' \in Seq({"start", "up", "down", "gone"})
  PROVE  TalkInv'
<1>1. DiscordType'
  BY DEF TalkInv, DiscordType, Sent
<1>2. \A m \in DOMAIN sent' : OnePlace(m)'
  BY DEF TalkInv, OnePlace, Often
<1>3. \A c \in Chats : InOrder(c)'
  BY DEF TalkInv, InOrder
<1>4. \A f \in flushes' : WarmOf(f)'
  BY DEF TalkInv, WarmOf
<1> QED
  BY <1>1, <1>2, <1>3, <1>4 DEF TalkInv

LEMMA TalkStep ==
  ASSUME TalkInv, [Discord!Next]_discordVars
  PROVE  TalkInv'
<1> DEFINE G == {"start", "up", "down", "gone"}
<1>0. gateways \in Seq(G) /\ DOMAIN gateways = 1..Len(gateways)
  BY DEF TalkInv, DiscordType
<1>1. ASSUME NEW c \in Chats, NEW x \in BOOLEAN, Discord!Receive(c, x) PROVE TalkInv'
  BY <1>1, ReceiveKeeps
<1>2. ASSUME NEW c \in Chats, Discord!Timeout(c) \/ Discord!Flush(c) PROVE TalkInv'
  <2>1. CASE Discord!Timeout(c)
    BY <1>0, <2>1, TaskKeeps DEF Discord!Timeout, Discord!surface, Discord!history
  <2> QED
    BY <1>2, <2>1, FlushKeeps
<1>3. ASSUME NEW f \in flushes, Discord!Reply(f) PROVE TalkInv'
  BY <1>3, ReplyKeeps
<1>4. CASE Discord!Activity
  BY <1>0, <1>4, TaskKeeps DEF Discord!Activity, Discord!surface, Discord!bursts
<1>5. ASSUME NEW g \in DOMAIN gateways, Discord!Connect(g) \/ Discord!NoBotUser(g) PROVE TalkInv'
  <2>1. UNCHANGED <<sent, buffer, flushes, tlog, seen, replied>>
    BY <1>5 DEF Discord!Connect, Discord!NoBotUser, Discord!bursts, Discord!history
  <2>2. gateways' \in Seq(G)
    BY <1>0, <1>5 DEF Discord!Connect, Discord!NoBotUser
  <2> QED
    BY <2>1, <2>2, TaskKeeps
<1>6. ASSUME NEW r \in Reloads, \/ Discord!Teardown(r) \/ Discord!DeliveryStopped(r) \/ Discord!SweeperStopped(r)
                                \/ \E enabled \in BOOLEAN : Discord!Launch(r, enabled)
      PROVE  TalkInv'
  <2>1. UNCHANGED <<sent, buffer, flushes, tlog, seen, replied>>
    BY <1>6 DEF Discord!Teardown, Discord!DeliveryStopped, Discord!SweeperStopped, Discord!Launch,
                Discord!bursts, Discord!history
  <2>2. CASE Discord!Teardown(r)
    <3>1. gateways' = [g \in 1..Len(gateways) |-> IF g = task THEN "gone" ELSE gateways[g]]
      BY <1>0, <2>2 DEF Discord!Teardown
    <3>2. Len(gateways) \in Nat /\ \A g \in 1..Len(gateways) : gateways[g] \in G
      BY <1>0
    <3>3. gateways' \in Seq(G)
      <4> DEFINE n == Len(gateways)
      <4>1. n \in Nat /\ gateways' = [g \in 1..n |-> IF g = task THEN "gone" ELSE gateways[g]]
        BY <3>1, <3>2
      <4>2. \A g \in 1..n : gateways[g] \in G
        BY <3>2
      <4> HIDE DEF n
      <4>3. gateways' \in [1..n -> G]
        BY <4>1, <4>2
      <4> QED
        BY <4>1, <4>3
    <3> QED
      BY <2>1, <3>3, TaskKeeps
  <2>3. CASE Discord!DeliveryStopped(r) \/ Discord!SweeperStopped(r)
    BY <1>0, <2>1, <2>3, TaskKeeps DEF Discord!DeliveryStopped, Discord!SweeperStopped
  <2>4. ASSUME NEW e \in BOOLEAN, Discord!Launch(r, e) PROVE TalkInv'
    <3>1. gateways' \in Seq(G)
      BY <1>0, <2>4 DEF Discord!Launch
    <3> QED
      BY <2>1, <3>1, TaskKeeps
  <2> QED
    BY <1>6, <2>2, <2>3, <2>4
<1>7. CASE UNCHANGED discordVars
  BY <1>0, <1>7, TaskKeeps DEF discordVars
<1> QED
  BY <1>1, <1>2, <1>3, <1>4, <1>5, <1>6, <1>7 DEF Discord!Next

LEMMA LoopStep ==
  ASSUME LoopInv, \A r, s \in Reloads : r = s, [Discord!Next]_discordVars
  PROVE  LoopInv'
<1>1. ASSUME NEW c \in Chats, NEW x \in BOOLEAN, Discord!Receive(c, x)
      PROVE  LoopInv'
  BY <1>1 DEF LoopInv, Discord!Receive, Discord!surface
<1>2. ASSUME NEW c \in Chats, Discord!Timeout(c) \/ Discord!Flush(c)
      PROVE  LoopInv'
  BY <1>2 DEF LoopInv, Discord!Timeout, Discord!Flush, Discord!surface, Discord!history
<1>3. ASSUME NEW f \in flushes, Discord!Reply(f)
      PROVE  LoopInv'
  BY <1>3 DEF LoopInv, Discord!Reply, Discord!surface
<1>4. CASE Discord!Activity
  <2>1. loops = {delivery} /\ posts' = Append(posts, Discord!Cardinality(loops)) /\ UNCHANGED <<loops, delivery, reload>>
    BY <1>4 DEF LoopInv, Discord!Activity, Discord!surface
  <2>2. Discord!Cardinality(loops) = 1
    <3>1. Cardinality(loops) = 1
      BY <2>1, FS_Singleton
    <3> QED
      BY <3>1 DEF Discord!Cardinality, Cardinality
  <2>3. posts \in Seq({1})
    BY DEF LoopInv
  <2>4. posts' \in Seq({1})
    BY <2>1, <2>2, <2>3, AppendAt
  <2> QED
    BY <2>1, <2>4 DEF LoopInv
<1>5. ASSUME NEW g \in DOMAIN gateways, Discord!Connect(g) \/ Discord!NoBotUser(g)
      PROVE  LoopInv'
  BY <1>5 DEF LoopInv, Discord!Connect, Discord!NoBotUser, Discord!history
<1>6. ASSUME NEW r \in Reloads, \/ Discord!Teardown(r) \/ Discord!DeliveryStopped(r) \/ Discord!SweeperStopped(r)
                                \/ \E enabled \in BOOLEAN : Discord!Launch(r, enabled)
      PROVE  LoopInv'
  <2>1. UNCHANGED posts
    BY <1>6 DEF Discord!Teardown, Discord!DeliveryStopped, Discord!SweeperStopped, Discord!Launch,
                Discord!bursts, Discord!history
  <2>2. \A s \in Reloads : s = r
    OBVIOUS
  <2>3. CASE Discord!Teardown(r)
    BY <2>1, <2>2, <2>3 DEF LoopInv, Discord!Teardown, Discord!Advance
  <2>4. CASE Discord!DeliveryStopped(r) \/ Discord!SweeperStopped(r)
    BY <2>1, <2>2, <2>4 DEF LoopInv, Discord!DeliveryStopped, Discord!SweeperStopped, Discord!Advance
  <2>5. ASSUME NEW e \in BOOLEAN, Discord!Launch(r, e) PROVE LoopInv'
    BY <2>1, <2>2, <2>5 DEF LoopInv, Discord!Launch, Discord!Advance
  <2> QED
    BY <1>6, <2>3, <2>4, <2>5
<1>7. CASE UNCHANGED discordVars
  BY <1>7 DEF discordVars, LoopInv
<1> QED
  BY <1>1, <1>2, <1>3, <1>4, <1>5, <1>6, <1>7 DEF Discord!Next

\* For any chats, messages and limit, and reloads that do not overlap: every message a gateway
\* took is in its chat's burst, in the one burst a turn runs for, or answered, as often as it was
\* taken; a burst is warmed with what its chat said before, and an event is posted once.
THEOREM EveryoneIsHeard ==
  ASSUME \A r, s \in Reloads : r = s
  PROVE  Spec => []Heard
<1>1. Init => TalkInv /\ LoopInv
  <2> SUFFICES ASSUME Init PROVE TalkInv /\ LoopInv
    OBVIOUS
  <2>1. Discord!Init
    BY DEF Init
  <2>2. /\ sent = <<>> /\ buffer = [c \in Chats |-> <<>>] /\ tlog = [c \in Chats |-> <<>>] /\ flushes = {}
        /\ gateways = <<"start">> /\ loops = {1} /\ delivery = 1 /\ reload = [r \in Reloads |-> "due"]
        /\ seen = <<>> /\ replied = <<>> /\ posts = <<>>
    BY <2>1 DEF Discord!Init, Discord!NoBurst
  <2>3. TalkInv
    <3>1. DiscordType
      BY <2>2 DEF DiscordType
    <3> QED
      BY <2>2, <3>1 DEF TalkInv, InOrder
  <2>4. LoopInv
    BY <2>2 DEF LoopInv
  <2> QED
    BY <2>3, <2>4
<1>2. TalkInv /\ LoopInv /\ [Next]_vars => (TalkInv /\ LoopInv)'
  BY DiscordMoves, TalkStep, LoopStep
<1>3. TalkInv /\ LoopInv => Heard
  <2>1. LoopInv => Discord!PostedOnce
    BY DEF LoopInv, Discord!PostedOnce
  <2> QED
    BY <2>1, TalkSound DEF Heard, Discord!Heard
<1> QED
  BY <1>1, <1>2, <1>3, PTL DEF Spec

-----------------------------------------------------------------------------
(* The ledger *)

LEMMA LedgerMoves == [Next]_vars => [Ledger!Next]_ledgerVars
  BY DEF Next, vars

LEMMA LedgerNumbers ==
  /\ IsFiniteSet(Tasks) /\ OnFeed \subseteq Tasks /\ MaxCalls \in Nat
  /\ DefaultRate \in Nat /\ \A k \in DOMAIN Rates : Rates[k] \in Nat
  /\ \A name \in Names \union DOMAIN Rates : name \in Seq(Ledger!ToSet(name))
  BY LedgerAssumption DEF LedgerAssumption, Ledger!LedgerAssumption, Ledger!IsFiniteSet, IsFiniteSet

\* The longest priced name within a name is one that has a price.
LEMMA RatesAreNumbers == ASSUME NEW name \in Names PROVE Ledger!RateFor(name) \in Nat
<1> DEFINE within == {k \in DOMAIN Rates :
                        \E i \in 1..(Len(name) - Len(k) + 1) : SubSeq(name, i, i + Len(k) - 1) = k}
           short == {Len(name) - Len(k) : k \in within}
           best == CHOOSE k \in within : \A j \in within : Len(j) <= Len(k)
<1>1. Ledger!RateFor(name) = IF within = {} THEN DefaultRate ELSE Rates[best]
  BY DEF Ledger!RateFor
<1>2. CASE within = {}
  BY <1>1, <1>2, LedgerNumbers
<1>3. CASE within # {}
  <2>1. Len(name) \in Nat
    BY LedgerNumbers, LenProperties
  <2>2. \A k \in within : k \in DOMAIN Rates /\ Len(k) \in Nat /\ Len(k) <= Len(name)
    <3> SUFFICES ASSUME NEW k \in within PROVE k \in DOMAIN Rates /\ Len(k) \in Nat /\ Len(k) <= Len(name)
      OBVIOUS
    <3>1. k \in DOMAIN Rates /\ \E i \in 1..(Len(name) - Len(k) + 1) : TRUE
      OBVIOUS
    <3>2. Len(k) \in Nat
      BY <3>1, LedgerNumbers, LenProperties
    <3> QED
      BY <3>1, <3>2, <2>1
  <2> HIDE DEF within
  <2>3. short \in SUBSET Nat /\ \E n : n \in short
    BY <1>3, <2>1, <2>2
  <2>4. PICK n \in short : \A m \in short : n <= m
    BY <2>3, LeastMember
  <2>5. PICK k \in within : n = Len(name) - Len(k)
    BY <2>4
  <2>6. \A j \in within : Len(j) <= Len(k)
    <3> SUFFICES ASSUME NEW j \in within PROVE Len(j) <= Len(k)
      OBVIOUS
    <3>1. Len(name) - Len(k) <= Len(name) - Len(j)
      BY <2>4, <2>5
    <3> QED
      BY <3>1, <2>1, <2>2
  <2>7. best \in within
    BY <2>6, Zenon
  <2> HIDE DEF best
  <2> QED
    BY <2>2, <2>7, <1>1, <1>3, LedgerNumbers
<1> QED
  BY <1>2, <1>3

\* The total of a function is the sum over its domain.
LEMMA TotalIs == ASSUME NEW f PROVE Ledger!Total(f) = SumOver(f, DOMAIN f)
  BY DEF Ledger!Total, Ledger!FoldFunction, Ledger!FoldFunctionOnSet, Ledger!MapThenFoldSet,
         SumOver, Sums, AreSums, AddUp, FirstOf

LedgerPhase == {"new", "running", "paused", "canceled", "lost", "completed", "failed"}
LedgerHint == (UNION {{s.id : s \in S} : S \in SkillSets}) \union {"chat", Unset}
LedgerMime == (UNION {{s.mime : s \in S} : S \in SkillSets}) \union {Unset}
LedgerRun == [pc : {"stream", "finalize"}, origin : Origins \union {Unset}, hint : LedgerHint,
              calls : Nat, tools : Nat, cost : Nat, models : Seq(Names), said : BOOLEAN,
              mime : LedgerMime]
LedgerEntry == [task : OnFeed, state : {"completed", "failed"},
                origin : Origins \union {Unset, "operator"}]

IsRow(r, t) == /\ r.task = t /\ r.state \in {"completed", "failed"}
               /\ r.calls \in Nat /\ r.cost \in Nat /\ r.models \in Seq(Names)

LedgerType ==
  /\ live \in BOOLEAN /\ stale \in BOOLEAN /\ specs \in SkillSets
  /\ phase \in [Tasks -> LedgerPhase]
  /\ run \in [Tasks -> LedgerRun \union {Ledger!NoRun}]
  /\ DOMAIN ledger \subseteq Tasks /\ \A t \in DOMAIN ledger : IsRow(ledger[t], t)
  /\ feed \in Seq(LedgerEntry) /\ news \in Seq(LedgerEntry)
  /\ made \in [Tasks -> 0..MaxCalls] /\ parked \in [Tasks -> 0..MaxCalls]
  /\ bill \in [Tasks -> Nat]
  /\ missed \subseteq Tasks /\ spoken \subseteq Tasks

\* A task has a run while it runs, and that is while the process does.
Going(t) == /\ run[t] # Ledger!NoRun <=> phase[t] = "running"
            /\ ~live => run[t] = Ledger!NoRun

\* A run counts what was made since the last pause, and costs nothing before the first call.
Counting(t) ==
  /\ parked[t] <= made[t]
  /\ phase[t] \in {"new", "paused"} => parked[t] = made[t]
  /\ run[t] # Ledger!NoRun => /\ run[t].calls = made[t] - parked[t]
                              /\ Len(run[t].models) <= run[t].calls
                              /\ run[t].calls = 0 => run[t].cost = 0

\* An ended task whose row was written has one that tells of it.
Rowed(t) ==
  /\ t \in DOMAIN ledger <=> phase[t] \in {"completed", "failed"} /\ t \notin missed
  /\ t \in DOMAIN ledger => /\ ledger[t].state = phase[t]
                            /\ ledger[t].calls = made[t] - parked[t]
                            /\ Len(ledger[t].models) <= ledger[t].calls
                            /\ phase[t] = "completed" => ledger[t].cost = bill[t]
  /\ t \in missed \union spoken => phase[t] \in {"completed", "failed"}

\* What was told of a task is how it ended.
Told ==
  /\ \A i, j \in DOMAIN news : i # j => news[i].task # news[j].task
  /\ {news[i].task : i \in DOMAIN news} = spoken \intersect OnFeed
  /\ \A i \in DOMAIN news : news[i].state = phase[news[i].task]

\* What the feed has was told, in the same order.
Fed ==
  /\ \A k \in DOMAIN feed : \E i \in DOMAIN news : feed[k] = news[i]
  /\ \A i, j \in DOMAIN news, k, l \in DOMAIN feed :
       news[i] = feed[k] /\ news[j] = feed[l] /\ k < l => i < j

\* A structured result is of a type on the card, unless the configuration has changed.
OnCard ==
  ~stale => /\ results \subseteq card
            /\ live => card = Ledger!Advertised
            /\ \A t \in Tasks : run[t] # Ledger!NoRun => run[t].mime \in card \union {Unset}

LedgerCore == /\ LedgerType
              /\ \A t \in Tasks : Going(t) /\ Counting(t) /\ Rowed(t)
              /\ Told /\ Fed /\ OnCard

LedgerInv == pick = "ledger" => LedgerCore

LEMMA NoRunIs == Ledger!NoRun.pc = "none" /\ Ledger!NoRun \notin LedgerRun
  BY DEF Ledger!NoRun, LedgerRun

\* What is summed up is what the rows and the tasks have.
LEMMA TotalsAgree ==
  ASSUME LedgerType, \A t \in Tasks : Counting(t) /\ Rowed(t)
  PROVE  /\ Ledger!Summary.calls
             + Ledger!Total([t \in Tasks |-> IF t \in DOMAIN ledger THEN parked[t] ELSE made[t]])
            = Ledger!Total(made)
         /\ Ledger!Total(Ledger!Summary.byModel) = Ledger!Summary.cost
<1> DEFINE D == DOMAIN ledger
           calls == [t \in D |-> ledger[t].calls]
           cost == [t \in D |-> ledger[t].cost]
           kind == [t \in D |-> ledger[t].model]
           models == {ledger[t].model : t \in D}
           byModel == [m \in models |-> Ledger!Total([t \in {u \in D : ledger[u].model = m} |-> ledger[t].cost])]
           rest == [t \in Tasks |-> IF t \in D THEN parked[t] ELSE made[t]]
           padded == [t \in Tasks |-> IF t \in D THEN ledger[t].calls ELSE 0]
<1>1. /\ Ledger!Summary.calls = Ledger!Total(calls) /\ Ledger!Summary.cost = Ledger!Total(cost)
      /\ Ledger!Summary.byModel = byModel
  BY DEF Ledger!Summary
<1>2. /\ IsFiniteSet(Tasks) /\ IsFiniteSet(D) /\ D \subseteq Tasks /\ D \union (Tasks \ D) = Tasks
      /\ IsFiniteSet(Tasks \ D)
  BY LedgerNumbers, FS_Subset DEF LedgerType
<1>3. \A t \in D : ledger[t].calls \in Int /\ ledger[t].cost \in Int
  BY DEF LedgerType, IsRow
<1>4. \A t \in Tasks : parked[t] \in Int /\ made[t] \in Int
  BY LedgerNumbers DEF LedgerType
<1>5. Ledger!Total(calls) = SumOver(calls, D) /\ Ledger!Total(cost) = SumOver(cost, D)
      /\ Ledger!Total(rest) = SumOver(rest, Tasks) /\ Ledger!Total(made) = SumOver(made, Tasks)
  <2>1. Ledger!Total(calls) = SumOver(calls, DOMAIN calls)
    BY TotalIs
  <2>2. Ledger!Total(cost) = SumOver(cost, DOMAIN cost)
    BY TotalIs
  <2>3. Ledger!Total(rest) = SumOver(rest, DOMAIN rest)
    BY TotalIs
  <2>4. Ledger!Total(made) = SumOver(made, DOMAIN made)
    BY TotalIs
  <2>5. DOMAIN calls = D /\ DOMAIN cost = D /\ DOMAIN rest = Tasks /\ DOMAIN made = Tasks
    BY DEF LedgerType
  <2> HIDE DEF calls, cost, rest, D
  <2> QED
    BY <2>1, <2>2, <2>3, <2>4, <2>5, Zenon
<1>6. SumOver(made, Tasks) = SumOver(padded, Tasks) + SumOver(rest, Tasks)
  <2>1. \A t \in Tasks : padded[t] \in Int /\ rest[t] \in Int /\ made[t] = padded[t] + rest[t]
    BY <1>3, <1>4 DEF Rowed, Counting
  <2> HIDE DEF padded, rest
  <2> QED
    BY <2>1, <1>2, SumPlus
<1>7. SumOver(padded, Tasks) = SumOver(calls, D)
  <2>1. /\ \A t \in D : calls[t] \in Int /\ padded[t] = calls[t]
        /\ \A t \in Tasks \ D : padded[t] = 0
        /\ \A t \in D \union (Tasks \ D) : padded[t] \in Int
    BY <1>2, <1>3
  <2>2. D \intersect (Tasks \ D) = {}
    OBVIOUS
  <2> HIDE DEF padded, calls, D
  <2>3. SumOver(padded, D \union (Tasks \ D)) = SumOver(padded, D) + SumOver(padded, Tasks \ D)
    BY <1>2, <2>1, <2>2, SumUnion
  <2>4. SumOver(padded, D) = SumOver(calls, D)
    BY <1>2, <2>1, SumEqual
  <2>5. SumOver(padded, Tasks \ D) = 0
    BY <1>2, <2>1, SumZero
  <2>6. SumOver(calls, D) \in Int
    BY <1>2, <2>1, SumStep
  <2>7. SumOver(padded, Tasks) = SumOver(padded, D \union (Tasks \ D))
    BY <1>2, Zenon
  <2> QED
    BY <2>3, <2>4, <2>5, <2>6, <2>7
<1>8. SumOver(calls, D) \in Int /\ SumOver(rest, Tasks) \in Int
  <2>1. \A t \in D : calls[t] \in Int
    BY <1>3
  <2>2. \A t \in Tasks : rest[t] \in Int
    BY <1>4
  <2> HIDE DEF calls, rest, D
  <2> QED
    BY <1>2, <2>1, <2>2, SumStep
<1>9. SumOver(byModel, models) = SumOver(cost, D)
  <2>1. IsFiniteSet(models)
    <3> DEFINE g == [t \in D |-> ledger[t].model]
    <3>1. g \in Surjection(D, models)
      BY DEF Surjection
    <3> HIDE DEF g, D, models
    <3> QED
      BY <3>1, <1>2, FS_Surjection
  <2>2. \A t \in D : kind[t] \in models /\ cost[t] \in Int
    BY <1>3
  <2>3. ASSUME NEW m \in models PROVE byModel[m] = SumOver(cost, {t \in D : kind[t] = m})
    <3> DEFINE E == {u \in D : ledger[u].model = m}
               mine == [t \in E |-> ledger[t].cost]
    <3>1. byModel[m] = Ledger!Total(mine)
      OBVIOUS
    <3>2. Ledger!Total(mine) = SumOver(mine, DOMAIN mine) /\ DOMAIN mine = E
      <4>1. DOMAIN mine = E
        OBVIOUS
      <4> HIDE DEF mine, E
      <4> QED
        BY <4>1, TotalIs
    <3>3. IsFiniteSet(E) /\ \A t \in E : cost[t] \in Int /\ mine[t] = cost[t]
      BY <1>2, <1>3, FS_Subset
    <3>4. {t \in D : kind[t] = m} = E
      OBVIOUS
    <3> HIDE DEF mine, E, cost, byModel, kind, D
    <3>5. SumOver(mine, E) = SumOver(cost, E)
      BY <3>3, SumEqual
    <3> QED
      BY <3>1, <3>2, <3>4, <3>5, Zenon
  <2> HIDE DEF byModel, models, cost, kind, D
  <2>4. SumsOfKinds(byModel, models, cost, D, kind)
    BY <2>3, Zenon DEF SumsOfKinds
  <2>5. \A t \in D : kind[t] \in models
    BY <2>2
  <2>6. \A t \in D : cost[t] \in Int
    BY <2>2
  <2>7. IsFiniteSet(D)
    BY <1>2
  <2> QED
    BY <2>1, <2>4, <2>5, <2>6, <2>7, SumByKind
<1>10. Ledger!Total(byModel) = SumOver(byModel, models)
  <2>1. DOMAIN byModel = models
    OBVIOUS
  <2> HIDE DEF byModel, models
  <2> QED
    BY <2>1, TotalIs
<1> HIDE DEF byModel, models, cost, calls, rest, padded, kind
<1>11. Ledger!Summary.calls + Ledger!Total(rest) = Ledger!Total(made)
  BY <1>1, <1>5, <1>6, <1>7, <1>8
<1>12. Ledger!Total(Ledger!Summary.byModel) = Ledger!Summary.cost
  BY <1>1, <1>5, <1>9, <1>10
<1> QED
  BY <1>11, <1>12 DEF rest

LEMMA LedgerInit == Init => LedgerInv
<1> SUFFICES ASSUME Init, pick = "ledger" PROVE LedgerCore
  BY DEF LedgerInv
<1>1. Ledger!Init
  BY DEF Init
<1>2. LedgerType
  <2>1. /\ live \in BOOLEAN /\ stale \in BOOLEAN /\ specs \in SkillSets
        /\ phase \in [Tasks -> LedgerPhase] /\ run \in [Tasks -> LedgerRun \union {Ledger!NoRun}]
        /\ bill \in [Tasks -> Nat] /\ missed \subseteq Tasks /\ spoken \subseteq Tasks
    BY <1>1 DEF Ledger!Init, LedgerPhase
  <2>2. DOMAIN ledger = {} /\ feed \in Seq(LedgerEntry) /\ news \in Seq(LedgerEntry)
    BY <1>1 DEF Ledger!Init
  <2>3. made \in [Tasks -> 0..MaxCalls] /\ parked \in [Tasks -> 0..MaxCalls]
    BY <1>1, LedgerNumbers DEF Ledger!Init
  <2> QED
    BY <2>1, <2>2, <2>3 DEF LedgerType
<1>3. ASSUME NEW t \in Tasks PROVE Going(t) /\ Counting(t) /\ Rowed(t)
  BY <1>1, <1>3 DEF Ledger!Init, Going, Counting, Rowed
<1>4. Told /\ Fed /\ OnCard
  BY <1>1 DEF Ledger!Init, Told, Fed, OnCard
<1> QED
  BY <1>2, <1>3, <1>4 DEF LedgerCore

\* What the stream of a task reports changes its run, and at most counts one more call.
LEMMA StreamKeeps ==
  ASSUME LedgerCore, NEW t \in Tasks, run[t] # Ledger!NoRun, NEW r \in LedgerRun,
         run' = [run EXCEPT ![t] = r], UNCHANGED Ledger!Stays,
         NEW n \in 0..MaxCalls, made' = [made EXCEPT ![t] = n], made[t] <= n,
         r.calls = n - parked[t], Len(r.models) <= r.calls, r.calls = 0 => r.cost = 0,
         ~stale => r.mime \in card \union {Unset}
  PROVE  LedgerCore'
<1>1. /\ live' = live /\ specs' = specs /\ card' = card /\ phase' = phase /\ bill' = bill
      /\ results' = results /\ parked' = parked /\ stale' = stale /\ ledger' = ledger
      /\ feed' = feed /\ news' = news /\ missed' = missed /\ spoken' = spoken
  BY DEF Ledger!Stays, Ledger!books
<1>2. /\ LedgerType /\ (\A u \in Tasks : Going(u) /\ Counting(u) /\ Rowed(u)) /\ Told /\ Fed /\ OnCard
  BY DEF LedgerCore
<1>3. /\ run[t] # Ledger!NoRun /\ phase[t] = "running" /\ live /\ r # Ledger!NoRun
      /\ run'[t] = r /\ made'[t] = n
      /\ \A u \in Tasks \ {t} : run'[u] = run[u] /\ made'[u] = made[u]
  BY <1>2, NoRunIs DEF LedgerType, Going
<1>4. LedgerType'
  <2>1. run' \in [Tasks -> LedgerRun \union {Ledger!NoRun}] /\ made' \in [Tasks -> 0..MaxCalls]
    BY <1>2 DEF LedgerType
  <2> QED
    BY <2>1, <1>1, <1>2 DEF LedgerType, IsRow
<1>5. ASSUME NEW u \in Tasks PROVE (Going(u) /\ Counting(u) /\ Rowed(u))'
  <2>1. CASE u = t
    <3>1. Going(t)' /\ Rowed(t)'
      BY <1>1, <1>2, <1>3 DEF Going, Rowed
    <3>2. Counting(t)'
      <4>1. parked[t] \in Nat /\ made[t] \in Nat /\ n \in Nat /\ parked[t] <= made[t]
        BY <1>2, LedgerNumbers DEF LedgerType, Counting
      <4> QED
        BY <4>1, <1>1, <1>3 DEF Counting
    <3> QED
      BY <3>1, <3>2, <2>1
  <2>2. CASE u # t
    BY <1>1, <1>2, <1>3, <2>2 DEF Going, Counting, Rowed
  <2> QED
    BY <2>1, <2>2
<1>6. Told' /\ Fed'
  BY <1>1, <1>2 DEF Told, Fed
<1>7. OnCard'
  <2>1. Ledger!Advertised' = Ledger!Advertised
    BY <1>1 DEF Ledger!Advertised, Ledger!Resolved
  <2> QED
    BY <2>1, <1>1, <1>2, <1>3 DEF OnCard
<1> QED
  BY <1>4, <1>5, <1>6, <1>7 DEF LedgerCore

\* A mime type that a skill has is one that the card of the configuration advertises.
LEMMA SchemaAdvertised ==
  ASSUME NEW id
  PROVE  /\ Ledger!SchemaOf(id) \in Ledger!Advertised \union {Unset}
         /\ specs \in SkillSets => Ledger!SchemaOf(id) \in LedgerMime
<1> DEFINE typed == {s \in Ledger!Resolved : s.id = id /\ s.mime # Unset}
           one == CHOOSE s \in typed : TRUE
<1>1. Ledger!SchemaOf(id) = IF typed = {} THEN Unset ELSE one.mime
  BY DEF Ledger!SchemaOf
<1>2. CASE typed = {}
  <2>1. Ledger!SchemaOf(id) = Unset
    BY <1>1, <1>2, Zenon
  <2> QED
    BY <2>1 DEF LedgerMime
<1>3. CASE typed # {}
  <2>1. one \in typed
    BY <1>3
  <2> HIDE DEF one
  <2>2. one \in Ledger!Resolved /\ one.mime # Unset
    BY <2>1
  <2>3. one.mime \in Ledger!Advertised
    BY <2>2 DEF Ledger!Advertised
  <2>4. one.mime # Unset => one \in specs
    BY <2>2 DEF Ledger!Resolved, Ledger!Template
  <2>5. specs \in SkillSets => one.mime \in LedgerMime
    BY <2>2, <2>4 DEF LedgerMime
  <2> QED
    BY <1>1, <1>3, <2>3, <2>5
<1> QED
  BY <1>2, <1>3

LEMMA RunFields ==
  ASSUME NEW r \in LedgerRun
  PROVE  /\ r.calls \in Nat /\ r.tools \in Nat /\ r.cost \in Nat /\ r.models \in Seq(Names)
         /\ r.said \in BOOLEAN /\ r.pc \in {"stream", "finalize"} /\ r.mime \in LedgerMime
         /\ r.hint \in LedgerHint /\ r.origin \in Origins \union {Unset}
  BY DEF LedgerRun

LEMMA ModelCallKeeps ==
  ASSUME LedgerCore, NEW t \in Tasks, NEW name \in Names, Ledger!ModelCall(t, name)
  PROVE  LedgerCore'
<1> DEFINE r == run[t]
           models == IF Ledger!Contains(r.models, name) THEN r.models ELSE Append(r.models, name)
           calls == r.calls + 1
           cost == r.cost + Ledger!RateFor(name)
           next == [r EXCEPT !.calls = calls, !.cost = cost, !.models = models]
           n == made[t] + 1
<1>1. /\ LedgerType /\ Going(t) /\ Counting(t) /\ OnCard
  BY DEF LedgerCore
<1>2. /\ run[t].pc = "stream" /\ made[t] < MaxCalls /\ made' = [made EXCEPT ![t] = n]
      /\ run' = [run EXCEPT ![t] = next] /\ UNCHANGED Ledger!Stays
  BY DEF Ledger!ModelCall
<1>3. r # Ledger!NoRun /\ r \in LedgerRun /\ live
  BY <1>1, <1>2, NoRunIs DEF LedgerType, Going
<1>4. /\ r.calls \in Nat /\ r.cost \in Nat /\ r.models \in Seq(Names) /\ Ledger!RateFor(name) \in Nat
  BY <1>3, RunFields, RatesAreNumbers
<1>5. models \in Seq(Names) /\ Len(models) <= Len(r.models) + 1
  BY <1>4, AppendAt
<1> HIDE DEF models
<1>6. /\ next \in LedgerRun /\ next.calls = r.calls + 1 /\ next.models = models
      /\ next.cost \in Nat /\ next.mime = r.mime
  <2>1. calls \in Nat /\ cost \in Nat
    BY <1>4
  <2> HIDE DEF calls, cost, r
  <2>2. /\ next \in LedgerRun /\ next.calls = calls /\ next.models = models
        /\ next.cost = cost /\ next.mime = r.mime
    BY <2>1, <1>3, <1>5 DEF LedgerRun
  <2> QED
    BY <2>1, <2>2 DEF calls
<1>7. /\ made[t] \in Nat /\ parked[t] \in Nat /\ n \in 0..MaxCalls /\ made[t] <= n
      /\ r.calls = made[t] - parked[t] /\ Len(r.models) <= r.calls
  BY <1>1, <1>2, <1>3, LedgerNumbers DEF LedgerType, Counting
<1>8. /\ next.calls = n - parked[t] /\ Len(next.models) <= next.calls /\ next.calls # 0
  <2>1. Len(r.models) \in Nat /\ Len(models) \in Nat
    BY <1>4, <1>5
  <2>2. next.calls = r.calls + 1 /\ next.models = models
    BY <1>6
  <2> DEFINE long == Len(r.models)
             more == Len(models)
             had == r.calls
  <2>3. /\ long \in Nat /\ more \in Nat /\ had \in Nat /\ more <= long + 1 /\ long <= had
        /\ made[t] \in Nat /\ parked[t] \in Nat /\ had = made[t] - parked[t]
    BY <2>1, <1>4, <1>5, <1>7
  <2>4. next.calls = had + 1 /\ Len(next.models) = more
    BY <2>2
  <2> HIDE DEF next, long, more, had
  <2> QED
    BY <2>3, <2>4
<1>9. ~stale => next.mime \in card \union {Unset}
  BY <1>1, <1>3, <1>6 DEF OnCard
<1> HIDE DEF next, n
<1> QED
  BY <1>2, <1>3, <1>6, <1>7, <1>8, <1>9, StreamKeeps

\* A change of a run that leaves its numbers alone.
LEMMA TouchKeeps ==
  ASSUME LedgerCore, NEW t \in Tasks, run[t] # Ledger!NoRun, NEW r \in LedgerRun,
         run' = [run EXCEPT ![t] = r], UNCHANGED <<Ledger!Stays, made>>,
         r.calls = run[t].calls, r.models = run[t].models, r.cost = run[t].cost,
         ~stale => r.mime \in card \union {Unset}
  PROVE  LedgerCore'
<1>1. LedgerType /\ Counting(t)
  BY DEF LedgerCore
<1>2. made' = [made EXCEPT ![t] = made[t]] /\ UNCHANGED Ledger!Stays
  BY <1>1 DEF LedgerType
<1>3. made[t] \in 0..MaxCalls /\ made[t] <= made[t]
  BY <1>1, LedgerNumbers DEF LedgerType
<1>4. r.calls = made[t] - parked[t] /\ Len(r.models) <= r.calls /\ (r.calls = 0 => r.cost = 0)
  BY <1>1 DEF Counting
<1> QED
  BY <1>2, <1>3, <1>4, StreamKeeps

LEMMA ToolSayKeep ==
  ASSUME LedgerCore, NEW t \in Tasks, Ledger!ToolStart(t) \/ Ledger!Say(t)
  PROVE  LedgerCore'
<1>1. LedgerType /\ OnCard /\ Going(t)
  BY DEF LedgerCore
<1>2. run[t].pc = "stream"
  BY DEF Ledger!ToolStart, Ledger!Say
<1>3. run[t] # Ledger!NoRun /\ run[t] \in LedgerRun /\ live
  BY <1>1, <1>2, NoRunIs DEF LedgerType, Going
<1>4. ~stale => run[t].mime \in card \union {Unset}
  BY <1>1, <1>3 DEF OnCard
<1>5. CASE Ledger!ToolStart(t)
  <2> DEFINE r == [run[t] EXCEPT !.tools = @ + 1]
  <2>1. run' = [run EXCEPT ![t] = r] /\ UNCHANGED <<Ledger!Stays, made>>
    BY <1>5 DEF Ledger!ToolStart
  <2>2. /\ r \in LedgerRun /\ r.calls = run[t].calls /\ r.models = run[t].models
        /\ r.cost = run[t].cost /\ r.mime = run[t].mime
    BY <1>3 DEF LedgerRun
  <2> HIDE DEF r
  <2> QED
    BY <2>1, <2>2, <1>3, <1>4, TouchKeeps
<1>6. CASE Ledger!Say(t)
  <2> DEFINE r == [run[t] EXCEPT !.said = TRUE]
  <2>1. run' = [run EXCEPT ![t] = r] /\ UNCHANGED <<Ledger!Stays, made>>
    BY <1>6 DEF Ledger!Say
  <2>2. /\ r \in LedgerRun /\ r.calls = run[t].calls /\ r.models = run[t].models
        /\ r.cost = run[t].cost /\ r.mime = run[t].mime
    BY <1>3 DEF LedgerRun
  <2> HIDE DEF r
  <2> QED
    BY <2>1, <2>2, <1>3, <1>4, TouchKeeps
<1> QED
  BY <1>5, <1>6

LEMMA DoneKeeps ==
  ASSUME LedgerCore, NEW t \in Tasks, Ledger!Done(t)
  PROVE  LedgerCore'
<1>1. LedgerType /\ OnCard /\ Going(t)
  BY DEF LedgerCore
<1>2. run[t].pc = "stream" /\ UNCHANGED <<Ledger!Stays, made>>
  BY DEF Ledger!Done
<1>3. run[t] # Ledger!NoRun /\ run[t] \in LedgerRun /\ live
  BY <1>1, <1>2, NoRunIs DEF LedgerType, Going
<1>4. PICK text \in {run[t].said, TRUE} :
        run' = [run EXCEPT ![t].pc = "finalize", ![t].said = text,
                           ![t].mime = IF text /\ run[t].hint # Unset THEN Ledger!SchemaOf(run[t].hint)
                                       ELSE Unset]
  BY DEF Ledger!Done
<1> DEFINE mime == IF text /\ run[t].hint # Unset THEN Ledger!SchemaOf(run[t].hint) ELSE Unset
           r == [run[t] EXCEPT !.pc = "finalize", !.said = text, !.mime = mime]
<1>5. mime \in LedgerMime /\ mime \in Ledger!Advertised \union {Unset}
  BY <1>1, SchemaAdvertised DEF LedgerType, LedgerMime
<1>6. ~stale => mime \in card \union {Unset}
  BY <1>1, <1>3, <1>5 DEF OnCard
<1>7. run' = [run EXCEPT ![t] = r]
  BY <1>1, <1>4 DEF LedgerType
<1>8. text \in BOOLEAN
  BY <1>3, <1>4, RunFields
<1> HIDE DEF mime
<1>9. /\ r \in LedgerRun /\ r.calls = run[t].calls /\ r.models = run[t].models
      /\ r.cost = run[t].cost /\ r.mime = mime
  BY <1>3, <1>5, <1>8 DEF LedgerRun
<1> HIDE DEF r
<1> QED
  BY <1>2, <1>3, <1>6, <1>7, <1>9, TouchKeeps

LedgerEnded == {"completed", "failed"}

\* While nothing is written and no task ends, what was written stays true.
LEMMA BooksStay ==
  ASSUME LedgerCore, UNCHANGED <<Ledger!books, bill, made>>,
         live' \in BOOLEAN, stale' \in BOOLEAN, specs' \in SkillSets,
         phase' \in [Tasks -> LedgerPhase], run' \in [Tasks -> LedgerRun \union {Ledger!NoRun}],
         parked' \in [Tasks -> 0..MaxCalls],
         \A u \in Tasks : phase[u] \in LedgerEnded \/ phase'[u] \in LedgerEnded
                          => phase'[u] = phase[u] /\ parked'[u] = parked[u]
  PROVE  LedgerType' /\ (\A u \in Tasks : Rowed(u)') /\ Told' /\ Fed'
<1>1. /\ bill' = bill /\ made' = made /\ ledger' = ledger /\ feed' = feed /\ news' = news
      /\ missed' = missed /\ spoken' = spoken
  BY DEF Ledger!books
<1>2. /\ LedgerType /\ (\A u \in Tasks : Rowed(u)) /\ Told /\ Fed
  BY DEF LedgerCore
<1>3. LedgerType'
  BY <1>1, <1>2 DEF LedgerType, IsRow
<1>4. ASSUME NEW u \in Tasks PROVE Rowed(u)'
  BY <1>1, <1>2 DEF Rowed, LedgerEnded
<1>5. Told'
  <2>1. ASSUME NEW i \in DOMAIN news PROVE news[i].state = phase'[news[i].task]
    <3>1. news[i] \in LedgerEntry
      BY <1>2 DEF LedgerType
    <3>2. news[i].task \in Tasks /\ news[i].state \in LedgerEnded
      BY <3>1, LedgerNumbers DEF LedgerEntry, LedgerEnded
    <3>3. news[i].state = phase[news[i].task]
      BY <1>2 DEF Told
    <3> QED
      BY <3>2, <3>3
  <2> QED
    BY <2>1, <1>1, <1>2 DEF Told
<1>6. Fed'
  BY <1>1, <1>2 DEF Fed
<1> QED
  BY <1>3, <1>4, <1>5, <1>6

LEMMA BeginKeeps ==
  ASSUME LedgerCore, NEW t \in Tasks, Ledger!Begin(t)
  PROVE  LedgerCore'
<1>1. /\ LedgerType /\ (\A u \in Tasks : Going(u) /\ Counting(u) /\ Rowed(u)) /\ OnCard
  BY DEF LedgerCore
<1>2. /\ live /\ phase[t] \in {"new", "paused"} /\ phase' = [phase EXCEPT ![t] = "running"]
      /\ live' = live /\ specs' = specs /\ card' = card /\ UNCHANGED <<Ledger!books, bill, made>>
      /\ bill' = bill /\ results' = results /\ made' = made /\ parked' = parked /\ stale' = stale
  BY DEF Ledger!Begin
<1>3. PICK origin \in Origins \union {Unset},
           hint \in {s.id : s \in Ledger!Resolved} \union {Unset}, routed \in BOOLEAN :
        LET silent == [origin |-> Unset, skillHint |-> Unset]
            keys == [origin |-> origin, skillHint |-> hint]
        IN run' = [run EXCEPT ![t] = Ledger!NewRun(IF routed THEN Ledger!Metadata(silent, keys)
                                                   ELSE Ledger!Metadata(keys, silent))]
  BY DEF Ledger!Begin
<1>4. hint \in LedgerHint
  BY <1>1 DEF LedgerType, LedgerHint, Ledger!Resolved, Ledger!Template
<1> DEFINE silent == [origin |-> Unset, skillHint |-> Unset]
           keys == [origin |-> origin, skillHint |-> hint]
           md == IF routed THEN Ledger!Metadata(silent, keys) ELSE Ledger!Metadata(keys, silent)
           r == Ledger!NewRun(md)
<1>5. md.origin \in Origins \union {Unset} /\ md.skillHint \in LedgerHint
  BY <1>4 DEF Ledger!Metadata
<1>6. run' = [run EXCEPT ![t] = r]
  BY <1>3
<1> HIDE DEF md
<1>7. /\ r \in LedgerRun /\ r.calls = 0 /\ r.models = <<>> /\ r.cost = 0 /\ r.mime = Unset
  <2>1. Unset \in LedgerMime /\ <<>> \in Seq(Names)
    BY DEF LedgerMime
  <2> QED
    BY <2>1, <1>5 DEF Ledger!NewRun, LedgerRun
<1> HIDE DEF r
<1>8. /\ run'[t] = r /\ r # Ledger!NoRun /\ phase'[t] = "running"
      /\ \A u \in Tasks \ {t} : run'[u] = run[u] /\ phase'[u] = phase[u]
  BY <1>1, <1>2, <1>6, <1>7, NoRunIs DEF LedgerType
<1>9. LedgerType' /\ (\A u \in Tasks : Rowed(u)') /\ Told' /\ Fed'
  <2>1. /\ live' \in BOOLEAN /\ stale' \in BOOLEAN /\ specs' \in SkillSets
        /\ parked' \in [Tasks -> 0..MaxCalls]
    BY <1>1, <1>2 DEF LedgerType
  <2>2. run' \in [Tasks -> LedgerRun \union {Ledger!NoRun}]
    BY <1>1, <1>6, <1>7 DEF LedgerType
  <2>3. phase' \in [Tasks -> LedgerPhase]
    BY <1>1, <1>2 DEF LedgerType, LedgerPhase
  <2>4. \A u \in Tasks : phase[u] \in LedgerEnded \/ phase'[u] \in LedgerEnded
                         => phase'[u] = phase[u] /\ parked'[u] = parked[u]
    BY <1>2, <1>8 DEF LedgerEnded
  <2> QED
    BY <2>1, <2>2, <2>3, <2>4, <1>2, BooksStay
<1>10. ASSUME NEW u \in Tasks PROVE Going(u)' /\ Counting(u)'
  <2>1. CASE u = t
    <3>1. parked[t] = made[t] /\ made[t] \in Nat
      BY <1>1, <1>2, LedgerNumbers DEF LedgerType, Counting
    <3>2. Len(r.models) = 0
      BY <1>7
    <3> QED
      BY <2>1, <3>1, <3>2, <1>2, <1>7, <1>8 DEF Going, Counting
  <2>2. CASE u # t
    BY <2>2, <1>1, <1>2, <1>8 DEF Going, Counting
  <2> QED
    BY <2>1, <2>2
<1>11. OnCard'
  <2>1. Ledger!Advertised' = Ledger!Advertised
    BY <1>2 DEF Ledger!Advertised, Ledger!Resolved
  <2> QED
    BY <2>1, <1>1, <1>2, <1>7, <1>8 DEF OnCard
<1> QED
  BY <1>9, <1>10, <1>11 DEF LedgerCore

LEMMA StopKeeps ==
  ASSUME LedgerCore, NEW t \in Tasks, Ledger!Pause(t) \/ Ledger!Cancel(t)
  PROVE  LedgerCore'
<1>1. /\ LedgerType /\ (\A u \in Tasks : Going(u) /\ Counting(u) /\ Rowed(u)) /\ OnCard
  BY DEF LedgerCore
<1>2. /\ live' = live /\ specs' = specs /\ card' = card /\ UNCHANGED <<Ledger!books, bill, made>>
      /\ results' = results /\ made' = made /\ stale' = stale
      /\ run' = [run EXCEPT ![t] = Ledger!NoRun]
  BY DEF Ledger!Pause, Ledger!Cancel
<1>3. phase[t] \in {"running", "paused"}
  BY <1>1, NoRunIs DEF Ledger!Pause, Ledger!Cancel, Going
<1>4. /\ \/ phase' = [phase EXCEPT ![t] = "paused"] /\ parked' = [parked EXCEPT ![t] = made[t]]
         \/ phase' = [phase EXCEPT ![t] = "canceled"] /\ parked' = parked
  BY DEF Ledger!Pause, Ledger!Cancel
<1>5. /\ \/ phase'[t] = "paused" /\ parked'[t] = made[t]
         \/ phase'[t] = "canceled" /\ parked'[t] = parked[t]
      /\ run'[t] = Ledger!NoRun
      /\ \A u \in Tasks \ {t} : /\ run'[u] = run[u] /\ phase'[u] = phase[u]
                                /\ parked'[u] = parked[u]
  <2>1. run'[t] = Ledger!NoRun /\ \A u \in Tasks \ {t} : run'[u] = run[u]
    BY <1>1, <1>2 DEF LedgerType
  <2>2. CASE phase' = [phase EXCEPT ![t] = "paused"] /\ parked' = [parked EXCEPT ![t] = made[t]]
    BY <2>1, <2>2, <1>1 DEF LedgerType
  <2>3. CASE phase' = [phase EXCEPT ![t] = "canceled"] /\ parked' = parked
    BY <2>1, <2>3, <1>1 DEF LedgerType
  <2> QED
    BY <2>2, <2>3, <1>4
<1>6. LedgerType' /\ (\A u \in Tasks : Rowed(u)') /\ Told' /\ Fed'
  <2>1. /\ live' \in BOOLEAN /\ stale' \in BOOLEAN /\ specs' \in SkillSets
        /\ run' \in [Tasks -> LedgerRun \union {Ledger!NoRun}]
    BY <1>1, <1>2 DEF LedgerType
  <2>2. phase' \in [Tasks -> LedgerPhase] /\ parked' \in [Tasks -> 0..MaxCalls]
    BY <1>1, <1>4 DEF LedgerType, LedgerPhase
  <2>3. \A u \in Tasks : phase[u] \in LedgerEnded \/ phase'[u] \in LedgerEnded
                         => phase'[u] = phase[u] /\ parked'[u] = parked[u]
    BY <1>3, <1>5 DEF LedgerEnded
  <2> QED
    BY <2>1, <2>2, <2>3, <1>2, BooksStay
<1>7. ASSUME NEW u \in Tasks PROVE Going(u)' /\ Counting(u)'
  <2>1. CASE u = t
    <3>1. parked[t] <= made[t] /\ made[t] \in Nat /\ made[t] <= made[t]
      BY <1>1, LedgerNumbers DEF LedgerType, Counting
    <3> QED
      BY <2>1, <3>1, <1>2, <1>5 DEF Going, Counting
  <2>2. CASE u # t
    BY <2>2, <1>1, <1>2, <1>5 DEF Going, Counting
  <2> QED
    BY <2>1, <2>2
<1>8. OnCard'
  <2>1. Ledger!Advertised' = Ledger!Advertised
    BY <1>2 DEF Ledger!Advertised, Ledger!Resolved
  <2> QED
    BY <2>1, <1>1, <1>2, <1>5 DEF OnCard
<1> QED
  BY <1>6, <1>7, <1>8 DEF LedgerCore

LEMMA ProcessKeeps ==
  ASSUME LedgerCore, Ledger!Boot \/ Ledger!Reload \/ Ledger!Crash
  PROVE  LedgerCore'
<1>1. /\ LedgerType /\ (\A u \in Tasks : Going(u) /\ Counting(u) /\ Rowed(u)) /\ OnCard
  BY DEF LedgerCore
<1>2. /\ UNCHANGED <<Ledger!books, bill, made>> /\ made' = made /\ parked' = parked
      /\ live' \in BOOLEAN /\ specs' \in SkillSets /\ stale' \in BOOLEAN
  BY <1>1 DEF Ledger!Boot, Ledger!Reload, Ledger!Crash, LedgerType
<1>3. CASE Ledger!Boot \/ Ledger!Reload
  <2>1. /\ phase' = phase /\ run' = run /\ live' /\ (live \/ ~live) /\ (Ledger!Reload => stale')
    BY <1>3 DEF Ledger!Boot, Ledger!Reload
  <2>2. LedgerType' /\ (\A u \in Tasks : Rowed(u)') /\ Told' /\ Fed'
    <3>1. /\ run' \in [Tasks -> LedgerRun \union {Ledger!NoRun}] /\ phase' \in [Tasks -> LedgerPhase]
          /\ parked' \in [Tasks -> 0..MaxCalls]
      BY <1>1, <1>2, <2>1 DEF LedgerType
    <3>2. \A u \in Tasks : phase[u] \in LedgerEnded \/ phase'[u] \in LedgerEnded
                           => phase'[u] = phase[u] /\ parked'[u] = parked[u]
      BY <1>2, <2>1
    <3> QED
      BY <3>1, <3>2, <1>2, BooksStay
  <2>3. ASSUME NEW u \in Tasks PROVE Going(u)' /\ Counting(u)'
    BY <1>1, <1>2, <2>1 DEF Going, Counting
  <2>4. OnCard'
    <3>1. CASE Ledger!Boot
      <4>1. /\ ~live /\ card' = Ledger!Advertised /\ specs' = specs /\ results' = {} /\ run' = run
        BY <3>1 DEF Ledger!Boot
      <4>2. Ledger!Advertised' = Ledger!Advertised
        BY <4>1 DEF Ledger!Advertised, Ledger!Resolved
      <4>3. \A u \in Tasks : run'[u] = Ledger!NoRun
        BY <4>1, <1>1 DEF Going
      <4> QED
        BY <4>1, <4>2, <4>3 DEF OnCard
    <3>2. CASE Ledger!Reload
      BY <3>2, <2>1 DEF OnCard
    <3> QED
      BY <3>1, <3>2, <1>3
  <2> QED
    BY <2>2, <2>3, <2>4 DEF LedgerCore
<1>4. CASE Ledger!Crash
  <2>1. /\ ~live' /\ specs' = specs /\ card' = card /\ results' = results /\ stale' = stale
        /\ phase' = [u \in Tasks |-> IF phase[u] = "running" THEN "lost" ELSE phase[u]]
        /\ run' = [u \in Tasks |-> Ledger!NoRun]
    BY <1>4 DEF Ledger!Crash
  <2>2. LedgerType' /\ (\A u \in Tasks : Rowed(u)') /\ Told' /\ Fed'
    <3>1. /\ run' \in [Tasks -> LedgerRun \union {Ledger!NoRun}]
          /\ parked' \in [Tasks -> 0..MaxCalls]
      BY <1>1, <1>2, <2>1 DEF LedgerType
    <3>2. phase' \in [Tasks -> LedgerPhase]
      BY <1>1, <2>1 DEF LedgerType, LedgerPhase
    <3>3. \A u \in Tasks : phase[u] \in LedgerEnded \/ phase'[u] \in LedgerEnded
                           => phase'[u] = phase[u] /\ parked'[u] = parked[u]
      BY <1>2, <2>1 DEF LedgerEnded
    <3> QED
      BY <3>1, <3>2, <3>3, <1>2, BooksStay
  <2>3. ASSUME NEW u \in Tasks PROVE Going(u)' /\ Counting(u)'
    <3>1. run'[u] = Ledger!NoRun /\ phase'[u] # "running"
          /\ (phase'[u] \in {"new", "paused"} => phase[u] \in {"new", "paused"})
      BY <2>1
    <3> QED
      BY <3>1, <1>1, <1>2, <2>1 DEF Going, Counting
  <2>4. OnCard'
    BY <1>1, <2>1 DEF OnCard
  <2> QED
    BY <2>2, <2>3, <2>4 DEF LedgerCore
<1> QED
  BY <1>3, <1>4

\* The row of an ended turn is written, or the turn is one whose row is missing.
Written(t, outcome) ==
  \/ /\ DOMAIN ledger' = DOMAIN ledger \union {t} /\ ledger'[t] = Ledger!Row(t, outcome)
     /\ \A u \in DOMAIN ledger \ {t} : ledger'[u] = ledger[u]
     /\ missed' = missed
  \/ ledger' = ledger /\ missed' = missed \union {t}

LEMMA WrittenIs ==
  ASSUME NEW t, NEW outcome, Ledger!Telemetry(t, outcome) PROVE Written(t, outcome)
<1> DEFINE row == Ledger!Row(t, outcome)
<1>1. row.task = t
  BY DEF Ledger!Row
<1> HIDE DEF row
<1>2. CASE Ledger!Record(row) /\ UNCHANGED missed
  <2>1. ledger' = [u \in DOMAIN ledger \union {t} |-> IF u = t THEN row ELSE ledger[u]]
    BY <1>1, <1>2 DEF Ledger!Record, Ledger!Upserted
  <2> QED
    BY <2>1, <1>2 DEF Written, row
<1>3. CASE missed' = missed \union {t} /\ UNCHANGED ledger
  BY <1>3 DEF Written
<1> QED
  BY <1>2, <1>3 DEF Ledger!Telemetry, row

\* What is told of the end of a turn.
EndTold(t, e) ==
  IF t \in OnFeed /\ run[t].said
  THEN /\ news' = Append(news, e) /\ (feed' = feed \/ feed' = Append(feed, e))
       /\ spoken' = spoken \union {t}
  ELSE news' = news /\ feed' = feed /\ spoken' \intersect OnFeed = spoken \intersect OnFeed

LEMMA EndToldIs ==
  ASSUME NEW t \in Tasks, NEW outcome, run[t].said \in BOOLEAN, Ledger!Notify(t, outcome)
  PROVE  EndTold(t, Ledger!Entry(t, outcome)) /\ spoken' \in {spoken, spoken \union {t}}
<1>1. CASE t \in OnFeed /\ run[t].said
  BY <1>1 DEF EndTold, Ledger!Notify, Ledger!Surface
<1>2. CASE ~ (t \in OnFeed /\ run[t].said)
  <2>1. UNCHANGED <<feed, news>>
    BY <1>2 DEF Ledger!Notify, Ledger!Surface
  <2>2. spoken' = IF run[t].said THEN spoken \union {t} ELSE spoken
    BY DEF Ledger!Notify
  <2>3. spoken' \intersect OnFeed = spoken \intersect OnFeed
    BY <2>2, <1>2
  <2> QED
    BY <2>1, <2>2, <2>3, <1>2 DEF EndTold
<1> QED
  BY <1>1, <1>2

\* An event told once more, and perhaps kept, is the newest.
LEMMA TellingKeeps ==
  ASSUME LedgerCore, NEW t \in Tasks, NEW outcome \in LedgerEnded, run[t] # Ledger!NoRun,
         phase' = [phase EXCEPT ![t] = outcome], NEW e \in LedgerEntry, e.task = t, e.state = outcome,
         EndTold(t, e)
  PROVE  /\ feed' \in Seq(LedgerEntry) /\ news' \in Seq(LedgerEntry) /\ Told' /\ Fed'
<1>1. /\ LedgerType /\ Going(t) /\ Rowed(t) /\ Told /\ Fed
  BY DEF LedgerCore
<1>2. /\ t \notin spoken /\ phase'[t] = outcome /\ \A u \in Tasks \ {t} : phase'[u] = phase[u]
  BY <1>1 DEF LedgerType, Going, Rowed
<1>3. \A i \in DOMAIN news : /\ news[i] \in LedgerEntry /\ news[i].task \in Tasks \ {t}
                             /\ news[i].state = phase'[news[i].task]
  <2> SUFFICES ASSUME NEW i \in DOMAIN news
               PROVE  /\ news[i] \in LedgerEntry /\ news[i].task \in Tasks \ {t}
                      /\ news[i].state = phase'[news[i].task]
    OBVIOUS
  <2>1. news[i] \in LedgerEntry
    BY <1>1 DEF LedgerType
  <2>2. news[i].task \in Tasks
    BY <2>1, LedgerNumbers DEF LedgerEntry
  <2>3. news[i].task \in spoken /\ news[i].state = phase[news[i].task]
    BY <1>1 DEF Told
  <2> QED
    BY <2>1, <2>2, <2>3, <1>2
<1>4. CASE t \in OnFeed /\ run[t].said
  <2> DEFINE n == Len(news)
             m == Len(feed)
  <2>1. /\ news' = Append(news, e) /\ (feed' = feed \/ feed' = Append(feed, e))
        /\ spoken' = spoken \union {t}
    BY <1>4 DEF EndTold
  <2>2. /\ news \in Seq(LedgerEntry) /\ feed \in Seq(LedgerEntry) /\ n \in Nat /\ m \in Nat
        /\ DOMAIN news = 1..n /\ DOMAIN feed = 1..m
    BY <1>1 DEF LedgerType
  <2>3. /\ news' \in Seq(LedgerEntry) /\ DOMAIN news' = 1..(n + 1) /\ news'[n + 1] = e
        /\ \A i \in 1..n : news'[i] = news[i]
    BY <2>1, <2>2, AppendAt
  <2>4. /\ feed' \in Seq(LedgerEntry)
        /\ \/ DOMAIN feed' = 1..m /\ \A k \in 1..m : feed'[k] = feed[k]
           \/ DOMAIN feed' = 1..(m + 1) /\ feed'[m + 1] = e /\ \A k \in 1..m : feed'[k] = feed[k]
    <3>1. CASE feed' = feed
      BY <3>1, <2>2
    <3>2. CASE feed' = Append(feed, e)
      <4>1. /\ Append(feed, e) \in Seq(LedgerEntry) /\ DOMAIN Append(feed, e) = 1..(m + 1)
            /\ Append(feed, e)[m + 1] = e /\ \A k \in 1..m : Append(feed, e)[k] = feed[k]
        BY <2>2, AppendAt
      <4> HIDE DEF m
      <4> QED
        BY <3>2, <4>1
    <3> QED
      BY <3>1, <3>2, <2>1
  <2> HIDE DEF n, m
  <2>5. DOMAIN news' = DOMAIN news \union {n + 1} /\ n + 1 \notin DOMAIN news
    BY <2>2, <2>3
  <2>6. Told'
    <3>1. \A i, j \in DOMAIN news' : i # j => news'[i].task # news'[j].task
      BY <2>2, <2>3, <2>5, <1>1, <1>3 DEF Told
    <3>2. \A i \in DOMAIN news' : news'[i].state = phase'[news'[i].task]
      BY <2>2, <2>3, <2>5, <1>2, <1>3
    <3>3. {news'[i].task : i \in DOMAIN news'} = spoken' \intersect OnFeed
      <4>1. {news[i].task : i \in DOMAIN news} = spoken \intersect OnFeed
        BY <1>1 DEF Told
      <4>2. spoken' \intersect OnFeed = (spoken \intersect OnFeed) \union {t}
        BY <2>1, <1>4
      <4>3. {news'[i].task : i \in DOMAIN news'} = {news[i].task : i \in DOMAIN news} \union {t}
        <5>1. \A i \in DOMAIN news : i \in DOMAIN news' /\ news'[i].task = news[i].task
          BY <2>2, <2>3, <2>5
        <5>2. n + 1 \in DOMAIN news' /\ news'[n + 1].task = t
          BY <2>3, <2>5
        <5>3. \A i \in DOMAIN news' : i \in DOMAIN news \/ i = n + 1
          BY <2>5
        <5> QED
          BY <5>1, <5>2, <5>3
      <4> QED
        BY <4>1, <4>2, <4>3
    <3> QED
      BY <3>1, <3>2, <3>3 DEF Told
  <2>7. ASSUME NEW k \in DOMAIN feed'
        PROVE  \/ k \in 1..m /\ feed'[k] = feed[k] /\ feed[k].task # t
                  /\ \E i \in DOMAIN news : feed[k] = news[i]
               \/ k = m + 1 /\ feed'[k] = e
    <3>1. (k \in 1..m /\ feed'[k] = feed[k]) \/ (k = m + 1 /\ feed'[k] = e)
      BY <2>2, <2>4
    <3>2. CASE k \in 1..m /\ feed'[k] = feed[k]
      <4>1. PICK i \in DOMAIN news : feed[k] = news[i]
        BY <3>2, <2>2, <1>1 DEF Fed
      <4> QED
        BY <4>1, <3>2, <1>3
    <3> QED
      BY <3>1, <3>2
  <2>8. Fed'
    <3>1. \A k \in DOMAIN feed' : \E i \in DOMAIN news' : feed'[k] = news'[i]
      <4> SUFFICES ASSUME NEW k \in DOMAIN feed' PROVE \E i \in DOMAIN news' : feed'[k] = news'[i]
        OBVIOUS
      <4> QED
        BY <2>2, <2>3, <2>5, <2>7
    <3>2. ASSUME NEW i \in DOMAIN news', NEW j \in DOMAIN news', NEW k \in DOMAIN feed',
                 NEW l \in DOMAIN feed', news'[i] = feed'[k], news'[j] = feed'[l], k < l
          PROVE  i < j
      <4>1. k \in 1..m /\ feed'[k] = feed[k] /\ feed[k].task # t
        <5>1. k # m + 1
          BY <3>2, <2>2, <2>7
        <5> QED
          BY <5>1, <2>7
      <4>2. i \in DOMAIN news /\ news[i] = feed[k]
        BY <4>1, <3>2, <2>2, <2>3, <2>5
      <4>3. CASE l = m + 1 /\ feed'[l] = e
        <5>1. j = n + 1
          BY <4>3, <3>2, <2>2, <2>3, <2>5, <1>3
        <5> QED
          BY <5>1, <4>2, <2>2
      <4>4. CASE l \in 1..m /\ feed'[l] = feed[l] /\ feed[l].task # t
        <5>1. j \in DOMAIN news /\ news[j] = feed[l]
          BY <4>4, <3>2, <2>2, <2>3, <2>5
        <5> QED
          BY <5>1, <4>1, <4>2, <4>4, <3>2, <2>2, <1>1 DEF Fed
      <4> QED
        BY <4>3, <4>4, <2>7
    <3> QED
      BY <3>1, <3>2 DEF Fed
  <2> QED
    BY <2>3, <2>4, <2>6, <2>8
<1>5. CASE ~ (t \in OnFeed /\ run[t].said)
  <2>1. news' = news /\ feed' = feed /\ spoken' \intersect OnFeed = spoken \intersect OnFeed
    BY <1>5 DEF EndTold
  <2>2. Told'
    BY <2>1, <1>1, <1>3 DEF Told
  <2> QED
    BY <2>1, <2>2, <1>1 DEF Fed, LedgerType
<1> QED
  BY <1>4, <1>5

\* The end of a turn: its row, what is told of it, and its bill.
LEMMA EndKeeps ==
  ASSUME LedgerCore, NEW t \in Tasks, NEW outcome \in LedgerEnded, run[t] # Ledger!NoRun,
         Ledger!Notify(t, outcome),
         phase' = [phase EXCEPT ![t] = outcome], run' = [run EXCEPT ![t] = Ledger!NoRun],
         UNCHANGED <<live, specs, card, made, parked, stale>>,
         NEW due \in Nat, bill' = [bill EXCEPT ![t] = due], outcome = "completed" => due = run[t].cost,
         ~stale => results' \subseteq card
  PROVE  LedgerCore'
<1>1. /\ LedgerType /\ (\A u \in Tasks : Going(u) /\ Counting(u) /\ Rowed(u)) /\ OnCard
  BY DEF LedgerCore
<1>2. /\ live' = live /\ specs' = specs /\ card' = card /\ made' = made /\ parked' = parked
      /\ stale' = stale
  OBVIOUS
<1>3. run[t] \in LedgerRun
  BY <1>1 DEF LedgerType
<1> DEFINE e == Ledger!Entry(t, outcome)
<1>4. Written(t, outcome) /\ EndTold(t, e) /\ spoken' \in {spoken, spoken \union {t}}
  <2>1. Ledger!Telemetry(t, outcome)
    BY DEF Ledger!Notify
  <2>2. run[t].said \in BOOLEAN
    BY <1>3, RunFields
  <2> QED
    BY <2>1, <2>2, WrittenIs, EndToldIs
<1>5. t \in OnFeed => e \in LedgerEntry
  <2>1. run[t].origin \in Origins \union {Unset}
    BY <1>3, RunFields
  <2> QED
    BY <2>1 DEF Ledger!Entry, LedgerEntry, LedgerEnded
<1>6. e.task = t /\ e.state = outcome
  BY DEF Ledger!Entry
<1> HIDE DEF e
<1>7. /\ phase'[t] = outcome /\ run'[t] = Ledger!NoRun /\ bill'[t] = due
      /\ \A u \in Tasks \ {t} : /\ phase'[u] = phase[u] /\ run'[u] = run[u]
                                /\ bill'[u] = bill[u]
  BY <1>1 DEF LedgerType
<1>8. phase[t] = "running" /\ t \notin DOMAIN ledger /\ t \notin missed
  BY <1>1 DEF Going, Rowed
<1>9. feed' \in Seq(LedgerEntry) /\ news' \in Seq(LedgerEntry) /\ Told' /\ Fed'
  <2>1. CASE t \in OnFeed
    BY <2>1, <1>4, <1>5, <1>6, TellingKeeps
  <2>2. CASE t \notin OnFeed
    <3>1. news' = news /\ feed' = feed /\ spoken' \intersect OnFeed = spoken \intersect OnFeed
      BY <2>2, <1>4 DEF EndTold
    <3>2. Told /\ Fed
      BY DEF LedgerCore
    <3>3. \A i \in DOMAIN news : news[i].state = phase'[news[i].task]
      <4> SUFFICES ASSUME NEW i \in DOMAIN news PROVE news[i].state = phase'[news[i].task]
        OBVIOUS
      <4>1. news[i] \in LedgerEntry
        BY <1>1 DEF LedgerType
      <4>2. news[i].task \in OnFeed /\ news[i].task \in Tasks
        BY <4>1, LedgerNumbers DEF LedgerEntry
      <4> QED
        BY <4>2, <2>2, <3>2, <1>7 DEF Told
    <3> QED
      BY <3>1, <3>2, <3>3, <1>1 DEF Told, Fed, LedgerType
  <2> QED
    BY <2>1, <2>2
<1> DEFINE row == Ledger!Row(t, outcome)
<1>10. /\ IsRow(row, t) /\ row.state = outcome /\ row.calls = made[t] - parked[t]
       /\ Len(row.models) <= row.calls /\ row.cost = run[t].cost
  <2>1. /\ row.task = t /\ row.state = outcome /\ row.calls = run[t].calls
        /\ row.models = run[t].models /\ row.cost = run[t].cost
    BY DEF Ledger!Row
  <2>2. /\ run[t].calls \in Nat /\ run[t].cost \in Nat /\ run[t].models \in Seq(Names)
    BY <1>3, RunFields
  <2>3. run[t].calls = made[t] - parked[t] /\ Len(run[t].models) <= run[t].calls
    BY <1>1 DEF Counting
  <2> HIDE DEF row
  <2> QED
    BY <2>1, <2>2, <2>3 DEF IsRow, LedgerEnded
<1> HIDE DEF row
<1>11. /\ DOMAIN ledger' \subseteq DOMAIN ledger \union {t}
       /\ DOMAIN ledger \subseteq DOMAIN ledger'
       /\ t \in DOMAIN ledger' => ledger'[t] = row
       /\ t \in DOMAIN ledger' <=> t \notin missed'
       /\ \A u \in DOMAIN ledger : ledger'[u] = ledger[u]
       /\ missed' \subseteq missed \union {t} /\ missed \subseteq missed'
  <2>1. CASE /\ DOMAIN ledger' = DOMAIN ledger \union {t} /\ ledger'[t] = row
             /\ \A u \in DOMAIN ledger \ {t} : ledger'[u] = ledger[u]
             /\ missed' = missed
    BY <2>1, <1>8
  <2>2. CASE ledger' = ledger /\ missed' = missed \union {t}
    BY <2>2, <1>8
  <2> QED
    BY <2>1, <2>2, <1>4 DEF Written, row
<1>12. LedgerType'
  <2>1. /\ live' \in BOOLEAN /\ stale' \in BOOLEAN /\ specs' \in SkillSets
        /\ made' \in [Tasks -> 0..MaxCalls] /\ parked' \in [Tasks -> 0..MaxCalls]
    BY <1>1, <1>2 DEF LedgerType
  <2>2. phase' \in [Tasks -> LedgerPhase]
    BY <1>1 DEF LedgerType, LedgerPhase, LedgerEnded
  <2>3. run' \in [Tasks -> LedgerRun \union {Ledger!NoRun}] /\ bill' \in [Tasks -> Nat]
    BY <1>1 DEF LedgerType
  <2>4. DOMAIN ledger' \subseteq Tasks /\ \A u \in DOMAIN ledger' : IsRow(ledger'[u], u)
    BY <1>1, <1>10, <1>11 DEF LedgerType
  <2>5. missed' \subseteq Tasks /\ spoken' \subseteq Tasks
    BY <1>1, <1>4, <1>11 DEF LedgerType
  <2>6. \A u \in DOMAIN ledger' : IsRow(ledger[u], u)'
    BY <2>4 DEF IsRow
  <2> QED
    BY <2>1, <2>2, <2>3, <2>4, <2>5, <2>6, <1>9 DEF LedgerType, IsRow
<1>13. ASSUME NEW u \in Tasks PROVE (Going(u) /\ Counting(u) /\ Rowed(u))'
  <2>1. CASE u = t
    <3>1. Going(t)' /\ Counting(t)'
      BY <1>1, <1>2, <1>7 DEF Going, Counting, LedgerEnded
    <3>2. Rowed(t)'
      BY <1>2, <1>7, <1>10, <1>11 DEF Rowed, LedgerEnded
    <3> QED
      BY <2>1, <3>1, <3>2
  <2>2. CASE u # t
    <3>1. Going(u)' /\ Counting(u)'
      BY <2>2, <1>1, <1>2, <1>7 DEF Going, Counting
    <3>2. /\ (u \in DOMAIN ledger' <=> u \in DOMAIN ledger) /\ (u \in missed' <=> u \in missed)
          /\ (u \in spoken' <=> u \in spoken)
          /\ (u \in DOMAIN ledger => ledger'[u] = ledger[u])
      BY <2>2, <1>4, <1>11
    <3>3. Rowed(u)'
      BY <2>2, <3>2, <1>1, <1>2, <1>7 DEF Rowed
    <3> QED
      BY <3>1, <3>3
  <2> QED
    BY <2>1, <2>2
<1>14. OnCard'
  <2>1. Ledger!Advertised' = Ledger!Advertised
    BY <1>2 DEF Ledger!Advertised, Ledger!Resolved
  <2> QED
    BY <2>1, <1>1, <1>2, <1>7 DEF OnCard
<1> QED
  BY <1>9, <1>12, <1>13, <1>14 DEF LedgerCore

LEMMA CompleteFailKeep ==
  ASSUME LedgerCore, NEW t \in Tasks, Ledger!Complete(t) \/ Ledger!Fail(t)
  PROVE  LedgerCore'
<1>1. LedgerType /\ Going(t) /\ Counting(t) /\ OnCard
  BY DEF LedgerCore
<1>2. run[t] # Ledger!NoRun /\ run[t] \in LedgerRun /\ live
  BY <1>1, NoRunIs DEF Ledger!Complete, Ledger!Fail, LedgerType, Going
<1>3. /\ run[t].calls \in Nat /\ run[t].cost \in Nat
      /\ (run[t].calls = 0 => run[t].cost = 0)
  BY <1>1, <1>2, RunFields DEF Counting
<1>4. CASE Ledger!Complete(t)
  <2> DEFINE due == IF run[t].calls = 0 THEN 0 ELSE run[t].cost
             outcome == "completed"
  <2>1. /\ Ledger!Notify(t, outcome) /\ phase' = [phase EXCEPT ![t] = outcome]
        /\ run' = [run EXCEPT ![t] = Ledger!NoRun] /\ bill' = [bill EXCEPT ![t] = due]
        /\ UNCHANGED <<live, specs, card, made, parked, stale>>
    BY <1>4 DEF Ledger!Complete, Ledger!Billed
  <2>2. due \in Nat /\ due = run[t].cost
    BY <1>3
  <2>3. ~stale => results' \subseteq card
    <3>1. results' = results \/ (run[t].mime # Unset /\ results' = results \union {run[t].mime})
      BY <1>4 DEF Ledger!Complete, Ledger!Structured
    <3> QED
      BY <3>1, <1>1, <1>2 DEF OnCard
  <2>4. outcome \in LedgerEnded
    BY DEF LedgerEnded
  <2> HIDE DEF due, outcome
  <2> QED
    BY <2>1, <2>2, <2>3, <2>4, <1>2, EndKeeps
<1>5. CASE Ledger!Fail(t)
  <2> DEFINE outcome == "failed"
  <2>1. /\ Ledger!Notify(t, outcome) /\ phase' = [phase EXCEPT ![t] = outcome]
        /\ run' = [run EXCEPT ![t] = Ledger!NoRun] /\ bill' = bill /\ results' = results
        /\ UNCHANGED <<live, specs, card, made, parked, stale>>
    BY <1>5 DEF Ledger!Fail
  <2>2. bill' = [bill EXCEPT ![t] = bill[t]] /\ bill[t] \in Nat
    BY <2>1, <1>1 DEF LedgerType
  <2>3. ~stale => results' \subseteq card
    BY <2>1, <1>1 DEF OnCard
  <2>4. outcome \in LedgerEnded /\ outcome # "completed"
    BY DEF LedgerEnded
  <2> HIDE DEF outcome
  <2> QED
    BY <2>1, <2>2, <2>3, <2>4, <1>2, EndKeeps
<1> QED
  BY <1>4, <1>5

LEMMA LedgerStep == LedgerInv /\ [Next]_vars => LedgerInv'
<1> SUFFICES ASSUME LedgerInv, [Next]_vars PROVE LedgerInv'
  OBVIOUS
<1>1. pick' = pick
  BY DEF Next, vars
<1> SUFFICES ASSUME pick = "ledger" PROVE LedgerCore'
  BY <1>1 DEF LedgerInv
<1>2. LedgerCore
  BY DEF LedgerInv
<1>3. CASE UNCHANGED ledgerVars
  <2>1. /\ live' = live /\ specs' = specs /\ card' = card /\ phase' = phase /\ run' = run
        /\ ledger' = ledger /\ feed' = feed /\ news' = news /\ bill' = bill /\ results' = results
        /\ made' = made /\ parked' = parked /\ missed' = missed /\ spoken' = spoken /\ stale' = stale
    BY <1>3 DEF ledgerVars
  <2>2. Ledger!Advertised' = Ledger!Advertised
    BY <2>1 DEF Ledger!Advertised, Ledger!Resolved
  <2>3. LedgerType' /\ Told' /\ Fed' /\ OnCard'
    BY <1>2, <2>1, <2>2 DEF LedgerCore, LedgerType, IsRow, Told, Fed, OnCard
  <2>4. ASSUME NEW u \in Tasks PROVE (Going(u) /\ Counting(u) /\ Rowed(u))'
    BY <1>2, <2>1 DEF LedgerCore, Going, Counting, Rowed
  <2> QED
    BY <2>3, <2>4 DEF LedgerCore
<1>4. CASE Ledger!Next
  <2>1. CASE Ledger!Boot \/ Ledger!Reload \/ Ledger!Crash
    BY <2>1, <1>2, ProcessKeeps
  <2>2. ASSUME NEW t \in Tasks, Ledger!Begin(t) PROVE LedgerCore'
    BY <2>2, <1>2, BeginKeeps
  <2>3. ASSUME NEW t \in Tasks, Ledger!ToolStart(t) \/ Ledger!Say(t) PROVE LedgerCore'
    BY <2>3, <1>2, ToolSayKeep
  <2>4. ASSUME NEW t \in Tasks, Ledger!Pause(t) \/ Ledger!Cancel(t) PROVE LedgerCore'
    BY <2>4, <1>2, StopKeeps
  <2>5. ASSUME NEW t \in Tasks, Ledger!Done(t) PROVE LedgerCore'
    BY <2>5, <1>2, DoneKeeps
  <2>6. ASSUME NEW t \in Tasks, Ledger!Complete(t) \/ Ledger!Fail(t) PROVE LedgerCore'
    BY <2>6, <1>2, CompleteFailKeep
  <2>7. ASSUME NEW t \in Tasks, NEW name \in Names, Ledger!ModelCall(t, name) PROVE LedgerCore'
    BY <2>7, <1>2, ModelCallKeeps
  <2> QED
    BY <1>4, <2>1, <2>2, <2>3, <2>4, <2>5, <2>6, <2>7 DEF Ledger!Next
<1> QED
  BY <1>3, <1>4, LedgerMoves

LEMMA LedgerIsSound == LedgerInv => LedgerSound
<1> SUFFICES ASSUME LedgerCore PROVE Ledger!LedgerSound
  BY DEF LedgerInv, LedgerSound
<1>1. LedgerType /\ (\A u \in Tasks : Going(u) /\ Counting(u) /\ Rowed(u)) /\ Told /\ Fed /\ OnCard
  BY DEF LedgerCore
<1>2. Ledger!BooksBalance
  <2>1. DOMAIN ledger = {t \in Tasks : phase[t] \in Ledger!Ended /\ t \notin missed}
    BY <1>1 DEF LedgerType, Rowed, Ledger!Ended
  <2>2. \A t \in DOMAIN ledger :
          /\ ledger[t].state = phase[t] /\ ledger[t].calls = made[t] - parked[t]
          /\ Len(ledger[t].models) <= ledger[t].calls
          /\ phase[t] = "completed" => ledger[t].cost = bill[t]
    BY <1>1 DEF LedgerType, Rowed
  <2>3. /\ Ledger!Summary.calls
             + Ledger!Total([t \in Tasks |-> IF t \in DOMAIN ledger THEN parked[t] ELSE made[t]])
            = Ledger!Total(made)
        /\ Ledger!Total(Ledger!Summary.byModel) = Ledger!Summary.cost
    BY <1>1, TotalsAgree
  <2> QED
    BY <2>1, <2>2, <2>3 DEF Ledger!BooksBalance
<1>3. Ledger!FeedTrue
  <2>1. Ledger!ToSet(feed) \subseteq Ledger!ToSet(news)
    BY <1>1 DEF Fed, Ledger!ToSet
  <2>2. ASSUME NEW i \in DOMAIN news, news[i].task \in DOMAIN ledger
        PROVE  ledger[news[i].task].state = news[i].state
    <3>1. news[i].task \in Tasks
      BY <2>2, <1>1 DEF LedgerType
    <3> QED
      BY <2>2, <3>1, <1>1 DEF Told, Rowed
  <2> QED
    BY <2>1, <2>2, <1>1 DEF Ledger!FeedTrue, Told, Fed
<1>4. Ledger!ResultsAdvertised
  BY <1>1 DEF OnCard, Ledger!ResultsAdvertised
<1> QED
  BY <1>2, <1>3, <1>4 DEF Ledger!LedgerSound

\* The ledger, the feed, the bill and the card agree with what the turns did: every ended turn
\* has its row, and the totals and their split by model add up to the calls that were made.
THEOREM TheBooksBalance == Spec => []LedgerSound
<1>1. Init => LedgerInv
  BY LedgerInit
<1>2. LedgerInv /\ [Next]_vars => LedgerInv'
  BY LedgerStep
<1>3. LedgerInv => LedgerSound
  BY LedgerIsSound
<1> QED
  BY <1>1, <1>2, <1>3, PTL DEF Spec

-----------------------------------------------------------------------------
(* The rollups of the ledger *)

\* round() goes to the nearest hundredth, halves to the even one.
LEMMA RoundIs ==
  ASSUME NEW num \in Nat
  PROVE  /\ Ledger!Round(num, 100) \in Nat
         /\ 100 * Ledger!Round(num, 100) >= num - 50
         /\ 100 * Ledger!Round(num, 100) <= num + 50
<1> DEFINE whole == num \div 100
<1>1. whole \in Nat /\ num = 100 * whole + (num % 100) /\ num % 100 \in 0..99
  OBVIOUS
<1>2. Ledger!Round(num, 100) =
        IF \/ 2 * (num % 100) > 100
           \/ 2 * (num % 100) = 100 /\ whole % 2 = 1
        THEN whole + 1 ELSE whole
  BY DEF Ledger!Round
<1> HIDE DEF whole
<1> QED
  BY <1>1, <1>2

LEMMA RoundGrows ==
  ASSUME NEW a \in Nat, NEW b \in Nat, a <= b
  PROVE  Ledger!Round(a, 100) <= Ledger!Round(b, 100)
<1>1. PICK x \in Nat : x = Ledger!Round(a, 100) /\ 100 * x <= a + 50
  BY RoundIs
<1>2. PICK y \in Nat : y = Ledger!Round(b, 100) /\ 100 * y >= b - 50
  BY RoundIs
<1>3. CASE a = b
  BY <1>1, <1>3
<1>4. CASE a < b
  <2>1. x <= y
    BY <1>1, <1>2, <1>4
  <2> QED
    BY <1>1, <1>2, <2>1
<1> QED
  BY <1>3, <1>4

\* The greatest and the least of two numbers.
LEMMA OfTwo ==
  ASSUME NEW a \in Int, NEW b \in Int
  PROVE  /\ Ledger!Max({a, b}) = IF a >= b THEN a ELSE b
         /\ Ledger!Min({a, b}) = IF a <= b THEN a ELSE b
<1>1. PICK m : m = Ledger!Max({a, b})
  OBVIOUS
<1>2. (\E x \in {a, b} : \A y \in {a, b} : x >= y) => m \in {a, b} /\ \A y \in {a, b} : m >= y
  BY <1>1 DEF Ledger!Max
<1>3. PICK l : l = Ledger!Min({a, b})
  OBVIOUS
<1>4. (\E x \in {a, b} : \A y \in {a, b} : x <= y) => l \in {a, b} /\ \A y \in {a, b} : l <= y
  BY <1>3 DEF Ledger!Min
<1>5. /\ \E x \in {a, b} : \A y \in {a, b} : x >= y
      /\ \E x \in {a, b} : \A y \in {a, b} : x <= y
  OBVIOUS
<1>6. m = IF a >= b THEN a ELSE b
  BY <1>2, <1>5
<1>7. l = IF a <= b THEN a ELSE b
  BY <1>4, <1>5
<1> QED
  BY <1>1, <1>3, <1>6, <1>7

\* Where the percentile of a list of n is found.
Rank(n, p) ==
  LET k == Ledger!Round(p * n + 50, 100) IN IF k < 1 THEN 1 ELSE IF k > n THEN n ELSE k

LEMMA PercentileIs ==
  ASSUME NEW s \in Seq(Nat), s # <<>>, NEW p \in 0..100
  PROVE  Ledger!Percentile(s, p) = s[Rank(Len(s), p)]
<1> DEFINE n == Len(s)
<1>1. n \in Nat \ {0}
  OBVIOUS
<1>2. PICK k \in Nat : k = Ledger!Round(p * n + 50, 100)
  <2>1. p * n + 50 \in Nat
    BY <1>1
  <2> QED
    BY <2>1, RoundIs
<1>3. Ledger!Percentile(s, p) = s[1 + Ledger!Max({0, Ledger!Min({n - 1, k - 1})})]
  BY <1>2 DEF Ledger!Percentile
<1>4. Rank(n, p) = IF k < 1 THEN 1 ELSE IF k > n THEN n ELSE k
  BY <1>2 DEF Rank
<1> HIDE DEF n
<1>5. PICK a \in Int, b \in Int : a = n - 1 /\ b = k - 1
  BY <1>1
<1>6. PICK l \in Int : l = Ledger!Min({a, b}) /\ l = IF a <= b THEN a ELSE b
  BY OfTwo
<1>7. PICK z \in Int : z = 0
  OBVIOUS
<1>8. Ledger!Max({z, l}) = IF z >= l THEN z ELSE l
  BY OfTwo
<1>9. 1 + Ledger!Max({z, l}) = Rank(n, p)
  BY <1>1, <1>4, <1>6, <1>7, <1>8, <1>5
<1>10. Ledger!Percentile(s, p) = s[1 + Ledger!Max({z, l})]
  BY <1>3, <1>6, <1>7, <1>5
<1> QED
  BY <1>9, <1>10 DEF n

LEMMA RankIs ==
  ASSUME NEW n \in Nat \ {0}, NEW p \in 0..100
  PROVE  Rank(n, p) \in 1..n /\ 100 * Rank(n, p) >= p * n
<1>1. PICK P \in Nat : P = p * n
  OBVIOUS
<1>2. P <= 100 * n
  BY <1>1
<1>3. PICK k \in Nat : k = Ledger!Round(P + 50, 100) /\ 100 * k >= P
  BY RoundIs
<1>4. Rank(n, p) = IF k < 1 THEN 1 ELSE IF k > n THEN n ELSE k
  BY <1>1, <1>3 DEF Rank
<1>5. Rank(n, p) \in 1..n /\ 100 * Rank(n, p) >= P
  BY <1>2, <1>3, <1>4
<1> QED
  BY <1>1, <1>5

LEMMA RankGrows ==
  ASSUME NEW n \in Nat \ {0}, NEW p \in 0..100, NEW q \in p..100
  PROVE  Rank(n, p) <= Rank(n, q)
<1>1. PICK P \in Nat, Q \in Nat : P = p * n /\ Q = q * n
  OBVIOUS
<1>2. P <= Q
  BY <1>1
<1>3. PICK k \in Nat, l \in Nat :
        k = Ledger!Round(P + 50, 100) /\ l = Ledger!Round(Q + 50, 100)
  BY RoundIs
<1>4. k <= l
  BY <1>2, <1>3, RoundGrows
<1>5. /\ Rank(n, p) = IF k < 1 THEN 1 ELSE IF k > n THEN n ELSE k
      /\ Rank(n, q) = IF l < 1 THEN 1 ELSE IF l > n THEN n ELSE l
  BY <1>1, <1>3 DEF Rank
<1> QED
  BY <1>4, <1>5

\* For any durations in ascending order, as the ledger's query gives them (telemetry_store.py,
\* _percentile): at least p percent of the turns took no longer than what is shown as their p-th
\* percentile, half-even rounding and short lists included, and a higher percentile is no shorter.
THEOREM PercentilesCover ==
  ASSUME NEW s \in Seq(Nat), \A i, j \in DOMAIN s : i <= j => s[i] <= s[j],
         NEW p \in 0..100, NEW q \in p..100
  PROVE  /\ 100 * Cardinality({i \in DOMAIN s : s[i] <= Ledger!Percentile(s, p)}) >= p * Len(s)
         /\ Ledger!Percentile(s, p) <= Ledger!Percentile(s, q)
<1>1. CASE s = <<>>
  <2>1. {i \in DOMAIN s : s[i] <= Ledger!Percentile(s, p)} = {} /\ Len(s) = 0
    BY <1>1
  <2>2. Ledger!Percentile(s, p) = 0 /\ Ledger!Percentile(s, q) = 0
    BY <1>1 DEF Ledger!Percentile
  <2> QED
    BY <2>1, <2>2, FS_EmptySet
<1>2. CASE s # <<>>
  <2>1. PICK n \in Nat \ {0} : n = Len(s) /\ DOMAIN s = 1..n
    BY <1>2
  <2>2. PICK r \in 1..n : r = Rank(n, p) /\ 100 * r >= p * n /\ Ledger!Percentile(s, p) = s[r]
    BY <1>2, <2>1, RankIs, PercentileIs
  <2>3. PICK t \in 1..n : t = Rank(n, q) /\ Ledger!Percentile(s, q) = s[t]
    <3>1. q \in 0..100
      OBVIOUS
    <3> QED
      BY <1>2, <2>1, <3>1, RankIs, PercentileIs
  <2>4. r <= t
    BY <2>2, <2>3, RankGrows
  <2>5. s[r] <= s[t]
    BY <2>1, <2>4
  <2>6. 1..r \subseteq {i \in DOMAIN s : s[i] <= s[r]}
    BY <2>1
  <2>7. Cardinality({i \in DOMAIN s : s[i] <= s[r]}) >= r
    <3> DEFINE up == {i \in DOMAIN s : s[i] <= s[r]}
    <3>1. IsFiniteSet(1..n) /\ IsFiniteSet(1..r) /\ Cardinality(1..r) = r
      BY FS_Interval
    <3>2. up \subseteq 1..n
      BY <2>1
    <3>3. IsFiniteSet(up)
      BY <3>1, <3>2, FS_Subset
    <3>4. Cardinality(1..r) <= Cardinality(up)
      BY <2>6, <3>3, FS_Subset
    <3> QED
      BY <3>1, <3>3, <3>4, FS_CardinalityType
  <2>8. PICK c \in Nat : c = Cardinality({i \in DOMAIN s : s[i] <= s[r]})
    <3>1. {i \in DOMAIN s : s[i] <= s[r]} \subseteq 1..n /\ IsFiniteSet(1..n)
      BY <2>1, FS_Interval
    <3> QED
      BY <3>1, FS_Subset, FS_CardinalityType
  <2>9. PICK P \in Nat : P = p * n
    OBVIOUS
  <2>10. 100 * c >= P
    <3>1. c >= r /\ 100 * r >= P
      BY <2>2, <2>7, <2>8, <2>9
    <3> QED
      BY <3>1
  <2> QED
    BY <2>1, <2>2, <2>3, <2>5, <2>8, <2>9, <2>10
<1> QED
  BY <1>1, <1>2

-----------------------------------------------------------------------------
(* The types of all five: the streams first *)

\* The lists of the streams hold what was put in, no more than there is room for.
LEMMA PutKeepsIn ==
  ASSUME NEW S, NEW q \in Seq(S), NEW e \in S, Len(q) <= MaxQueue
  PROVE  Bus!Put(q, e) \in Seq(S) /\ Len(Bus!Put(q, e)) <= MaxQueue
<1>1. CASE Len(q) = MaxQueue
  <2>1. q # <<>>
    BY <1>1, BusNumbers
  <2>2. Tail(q) \in Seq(S) /\ Len(Tail(q)) = MaxQueue - 1
    BY <1>1, <2>1
  <2> QED
    BY <1>1, <2>2, BusNumbers DEF Bus!Put
<1>2. CASE Len(q) # MaxQueue
  BY <1>2, BusNumbers DEF Bus!Put
<1> QED
  BY <1>1, <1>2

\* What is taken from the front of a list.
LEMMA HeadAndTail ==
  ASSUME NEW S, NEW q \in Seq(S), q # <<>>
  PROVE  /\ Head(q) \in S /\ Tail(q) \in Seq(S) /\ Len(Tail(q)) <= Len(q)
         /\ Len(Tail(q)) \in Nat /\ Len(q) \in Nat
  OBVIOUS

\* A part of a difference is no more than what it was taken from.
LEMMA LeftOver ==
  ASSUME NEW a \in Nat, NEW b \in Nat, NEW d \in Nat, NEW s \in Nat, NEW p \in Nat,
         a + b + d = p - s
  PROVE  d <= p
  OBVIOUS

LEMMA BusTypeInit == Bus!Init => Bus!TypeOK
<1> SUFFICES ASSUME Bus!Init PROVE Bus!TypeOK
  OBVIOUS
<1>1. \A S : <<>> \in Seq(S)
  OBVIOUS
<1> QED
  BY <1>1, BusNumbers DEF Bus!Init, Bus!TypeOK, Bus!Pc

LEMMA BusTypeStep ==
  ASSUME Bus!TypeOK, BusInv, BusInv', [Bus!Next]_busVars
  PROVE  Bus!TypeOK'
<1> USE BusNumbers
<1>1. CASE UNCHANGED busVars
  BY <1>1 DEF busVars, Bus!TypeOK
<1>2. CASE Bus!Publish
  <2>1. /\ published < MaxEvents /\ published' = published + 1
        /\ UNCHANGED <<subscribers, stream, got, since, streams, ended>>
    BY <1>2 DEF Bus!Publish
  <2>2. published + 1 \in 1..MaxEvents
    BY <2>1 DEF Bus!TypeOK
  <2>3. \A k \in Consoles : queue[k] \in Seq(1..MaxEvents) /\ Len(queue[k]) <= MaxQueue
    BY DEF Bus!TypeOK
  <2>4. \A k \in Consoles : /\ Bus!Put(queue[k], published + 1) \in Seq(1..MaxEvents)
                            /\ Len(Bus!Put(queue[k], published + 1)) <= MaxQueue
    BY <2>2, <2>3, PutKeepsIn
  <2>5. queue' = [k \in Consoles |->
           IF k \in subscribers THEN Bus!Put(queue[k], published + 1) ELSE queue[k]]
    BY <1>2 DEF Bus!Publish
  <2>6. queue' \in [Consoles -> Seq(1..MaxEvents)] /\ \A k \in Consoles : Len(queue'[k]) <= MaxQueue
    BY <2>3, <2>4, <2>5
  <2>7. dropped' = [k \in Consoles |->
          IF k \in subscribers /\ Len(queue[k]) = MaxQueue THEN dropped[k] + 1 ELSE dropped[k]]
    BY <1>2 DEF Bus!Publish
  <2>8. ASSUME NEW k \in Consoles PROVE dropped'[k] \in 0..MaxEvents
    <3>1. CASE k \notin subscribers
      BY <2>7, <3>1 DEF Bus!TypeOK
    <3>2. CASE k \in subscribers
      <4>1. k \in subscribers' /\ Streamed(got[k], queue'[k], since[k], dropped'[k], published')
        BY <2>1, <3>2 DEF BusInv
      <4>2. Len(got[k]) + Len(queue'[k]) + dropped'[k] = published' - since[k]
        BY <4>1 DEF Streamed
      <4>3. Len(got[k]) \in Nat /\ Len(queue'[k]) \in Nat /\ since[k] \in Nat /\ dropped'[k] \in Nat
        BY <2>1 DEF BusInv, BusType
      <4>4. published \in Nat
        BY DEF Bus!TypeOK
      <4>5. dropped'[k] <= published + 1
        <5>1. published' = published + 1 /\ published' \in Nat
          BY <2>1, <4>4
        <5>2. dropped'[k] <= published'
          BY <4>2, <4>3, <5>1, LeftOver
        <5> QED
          BY <5>1, <5>2
      <4> QED
        BY <2>2, <4>3, <4>4, <4>5
    <3> QED
      BY <3>1, <3>2
  <2>9. dropped' \in [Consoles -> 0..MaxEvents]
    BY <2>7, <2>8
  <2> QED
    BY <2>1, <2>2, <2>6, <2>9 DEF Bus!TypeOK
<1>3. ASSUME NEW k \in Consoles, Bus!Connect(k) PROVE Bus!TypeOK'
  <2>1. \A S : <<>> \in Seq(S)
    OBVIOUS
  <2>2. got' \in [Consoles -> Seq(1..MaxEvents)]
    BY <1>3, <2>1 DEF Bus!Connect, Bus!TypeOK
  <2>3. streams' \in [Consoles -> 0..MaxStreams]
    BY <1>3 DEF Bus!Connect, Bus!TypeOK
  <2>4. stream' \in [Consoles -> Bus!Pc]
    BY <1>3 DEF Bus!Connect, Bus!TypeOK, Bus!Pc
  <2> QED
    BY <1>3, <2>2, <2>3, <2>4 DEF Bus!Connect, Bus!TypeOK
<1>4. ASSUME NEW k \in Consoles, Bus!Subscribe(k) PROVE Bus!TypeOK'
  <2>1. stream' \in [Consoles -> Bus!Pc]
    BY <1>4 DEF Bus!Subscribe, Bus!TypeOK, Bus!Pc
  <2>2. since' \in [Consoles -> 0..MaxEvents] /\ dropped' \in [Consoles -> 0..MaxEvents]
    BY <1>4 DEF Bus!Subscribe, Bus!TypeOK
  <2> QED
    BY <1>4, <2>1, <2>2 DEF Bus!Subscribe, Bus!TypeOK
<1>5. ASSUME NEW k \in Consoles, Bus!Frame(k) PROVE Bus!TypeOK'
  <2>1. queue[k] \in Seq(1..MaxEvents) /\ queue[k] # <<>> /\ got[k] \in Seq(1..MaxEvents)
        /\ Len(queue[k]) <= MaxQueue
    BY <1>5 DEF Bus!Frame, Bus!TypeOK
  <2>2. Head(queue[k]) \in 1..MaxEvents /\ Tail(queue[k]) \in Seq(1..MaxEvents)
        /\ Len(Tail(queue[k])) <= MaxQueue
    <3>1. /\ Head(queue[k]) \in 1..MaxEvents /\ Tail(queue[k]) \in Seq(1..MaxEvents)
          /\ Len(Tail(queue[k])) <= Len(queue[k])
          /\ Len(Tail(queue[k])) \in Nat /\ Len(queue[k]) \in Nat
      BY <2>1, HeadAndTail
    <3> QED
      BY <2>1, <3>1
  <2>3. Append(got[k], Head(queue[k])) \in Seq(1..MaxEvents)
    BY <2>1, <2>2
  <2>4. got' = [got EXCEPT ![k] = Append(got[k], Head(queue[k]))]
        /\ queue' = [queue EXCEPT ![k] = Tail(queue[k])]
    BY <1>5 DEF Bus!Frame
  <2>5. got' \in [Consoles -> Seq(1..MaxEvents)] /\ queue' \in [Consoles -> Seq(1..MaxEvents)]
        /\ \A j \in Consoles : Len(queue'[j]) <= MaxQueue
    BY <2>2, <2>3, <2>4 DEF Bus!TypeOK
  <2>6. stream' \in [Consoles -> Bus!Pc]
    BY <1>5 DEF Bus!Frame, Bus!TypeOK, Bus!Pc
  <2> QED
    BY <1>5, <2>5, <2>6 DEF Bus!Frame, Bus!TypeOK
<1>6. ASSUME NEW k \in Consoles, Bus!Sent(k) PROVE Bus!TypeOK'
  BY <1>6 DEF Bus!Sent, Bus!history, Bus!TypeOK, Bus!Pc
<1>7. ASSUME NEW k \in Consoles, Bus!Unsubscribe(k)
      PROVE  /\ subscribers' \subseteq Consoles /\ queue' \in [Consoles -> Seq(1..MaxEvents)]
             /\ \A j \in Consoles : Len(queue'[j]) <= MaxQueue
  <2>1. \A S : <<>> \in Seq(S)
    OBVIOUS
  <2> QED
    BY <1>7, <2>1 DEF Bus!Unsubscribe, Bus!TypeOK
<1>8. ASSUME NEW k \in Consoles, Bus!Keepalive(k) PROVE Bus!TypeOK'
  <2>1. stream' \in [Consoles -> Bus!Pc]
    BY <1>8 DEF Bus!Keepalive, Bus!TypeOK, Bus!Pc
  <2> QED
    BY <1>7, <1>8, <2>1 DEF Bus!Keepalive, Bus!history, Bus!TypeOK
<1>9. ASSUME NEW k \in Consoles, Bus!EndOfStream(k) PROVE Bus!TypeOK'
  BY <1>9 DEF Bus!EndOfStream, Bus!TypeOK, Bus!Pc
<1>10. ASSUME NEW k \in Consoles, Bus!Disconnect(k) PROVE Bus!TypeOK'
  <2>1. stream' \in [Consoles -> Bus!Pc]
    BY <1>10 DEF Bus!Disconnect, Bus!TypeOK, Bus!Pc
  <2> QED
    BY <1>7, <1>10, <2>1 DEF Bus!Disconnect, Bus!history, Bus!TypeOK
<1> QED
  BY <1>1, <1>2, <1>3, <1>4, <1>5, <1>6, <1>8, <1>9, <1>10 DEF Bus!Next

-----------------------------------------------------------------------------
(* The inbox *)

\* What allow() leaves is part of the deque.
LEMMA RecentIsPart ==
  ASSUME NEW S \in SUBSET Nat, fires \in Seq(S)
  PROVE  Inbox!Recent \in Seq(S) /\ Len(Inbox!Recent) <= Len(fires)
<1> DEFINE n == Len(fires)
           Young == {i \in DOMAIN fires : fires[i] + StormWindow >= now}
           r == Inbox!Recent
<1>1. n \in Nat /\ DOMAIN fires = 1..n
  OBVIOUS
<1>2. CASE Young = {}
  <2>1. r = <<>>
    BY <1>2 DEF Inbox!Recent
  <2> HIDE DEF r
  <2> QED
    BY <1>1, <2>1 DEF r
<1>3. CASE Young # {}
  <2> DEFINE k == Inbox!Min(Young)
  <2>1. k \in Young
    <3>1. Young \in SUBSET Nat /\ \E i : i \in Young
      BY <1>1, <1>3
    <3> HIDE DEF Young
    <3>2. \E i \in Young : \A j \in Young : i <= j
      BY <3>1, LeastMember
    <3> QED
      BY <3>2 DEF Inbox!Min
  <2>2. r = SubSeq(fires, k, n)
    BY <1>3 DEF Inbox!Recent
  <2> HIDE DEF r
  <2>3. k \in 1..n
    BY <1>1, <2>1
  <2> HIDE DEF k
  <2>4. r \in Seq(S) /\ Len(r) = n - k + 1
    BY <1>1, <2>2, <2>3
  <2> QED
    BY <1>1, <2>3, <2>4 DEF r
<1> QED
  BY <1>2, <1>3

LEMMA InboxTypeInit == Inbox!Init => Inbox!TypeOK
<1> SUFFICES ASSUME Inbox!Init PROVE Inbox!TypeOK
  OBVIOUS
<1>1. \A S : <<>> \in Seq(S)
  OBVIOUS
<1>2. MaxTime \in Nat /\ MaxItems \in Nat /\ MaxFires \in Nat
  BY InboxAssumption DEF InboxAssumption, Inbox!InboxAssumption
<1> QED
  BY <1>1, <1>2 DEF Inbox!Init, Inbox!TypeOK, Inbox!Ids

LEMMA InboxTypeStep ==
  ASSUME Inbox!TypeOK, [Inbox!Next]_inboxVars
  PROVE  Inbox!TypeOK'
<1> DEFINE Times == 0..MaxTime
<1>1. MaxTime \in Nat /\ MaxItems \in Nat /\ MaxFires \in Nat /\ Times \in SUBSET Nat
  BY InboxAssumption DEF InboxAssumption, Inbox!InboxAssumption
<1>2. /\ now \in Times /\ rows \in Seq(Inbox!Item) /\ Len(rows) <= MaxItems
      /\ fires \in Seq(Times) /\ Len(fires) <= MaxFires /\ allowed \in Seq(Times)
  BY DEF Inbox!TypeOK
<1> DEFINE n == Len(rows)
<1>3. n \in Nat /\ DOMAIN rows = 1..n /\ Inbox!Ids = 1..n
  BY <1>2 DEF Inbox!Ids
<1>4. Inbox!Recent \in Seq(Times) /\ Len(Inbox!Recent) <= MaxFires /\ Len(Inbox!Recent) \in Nat
  <2>1. Inbox!Recent \in Seq(Times) /\ Len(Inbox!Recent) <= Len(fires)
    BY <1>1, <1>2, RecentIsPart
  <2> QED
    BY <1>1, <1>2, <2>1
<1>5. ASSUME NEW ids PROVE /\ Inbox!Marked(ids) \in Seq(Inbox!Item) /\ Len(Inbox!Marked(ids)) = n
                           /\ DOMAIN Inbox!Marked(ids) = 1..n
  <2>1. \A i \in 1..n : rows[i] \in Inbox!Item
    BY <1>2, <1>3
  <2>2. \A i \in 1..n : [rows[i] EXCEPT !.delivered = TRUE] \in Inbox!Item
    BY <2>1 DEF Inbox!Item
  <2>3. Inbox!Marked(ids) = [i \in 1..n |-> IF i \in ids THEN [rows[i] EXCEPT !.delivered = TRUE] ELSE rows[i]]
    BY <1>3 DEF Inbox!Marked
  <2> DEFINE m == Inbox!Marked(ids)
  <2>4. m \in [1..n -> Inbox!Item]
    BY <2>1, <2>2, <2>3
  <2> HIDE DEF m
  <2>5. m \in Seq(Inbox!Item) /\ Len(m) = n /\ DOMAIN m = 1..n
    BY <1>3, <2>4
  <2> QED
    BY <2>5 DEF m
<1>6. CASE UNCHANGED inboxVars
  BY <1>6 DEF inboxVars, Inbox!TypeOK, Inbox!Ids
<1>7. CASE Inbox!Tick
  <2>1. now' = now + 1 /\ now < MaxTime /\ UNCHANGED <<rows, fires, posting, carried, fired, read, gone, allowed>>
    BY <1>7 DEF Inbox!Tick, Inbox!history
  <2>2. now' \in Times
    BY <1>1, <1>2, <2>1
  <2> QED
    BY <2>1, <2>2 DEF Inbox!TypeOK, Inbox!Ids
<1>8. ASSUME NEW tier \in Inbox!Tier, NEW key \in Keys \union {NoKey}, Inbox!Add(tier, key)
      PROVE  Inbox!TypeOK'
  <2> DEFINE item == [tier |-> tier, key |-> key, at |-> now, delivered |-> FALSE]
  <2>1. /\ n < MaxItems /\ rows' = Append(rows, item)
        /\ UNCHANGED <<now, carried, fired, read, gone>>
    BY <1>8 DEF Inbox!Add
  <2>2. item \in Inbox!Item
    BY <1>2 DEF Inbox!Item
  <2> HIDE DEF item
  <2>3. rows' \in Seq(Inbox!Item) /\ Len(rows') = n + 1 /\ DOMAIN rows' = 1..(n + 1)
    BY <1>2, <2>1, <2>2
  <2>4. /\ fires' \in Seq(Times) /\ Len(fires') <= MaxFires /\ allowed' \in Seq(Times)
        /\ posting' \subseteq posting \union {n + 1}
    <3>1. CASE UNCHANGED <<fires, posting, allowed>>
      BY <1>2, <3>1
    <3>2. CASE Inbox!Suppress(n + 1)
      BY <1>2, <1>4, <3>2 DEF Inbox!Suppress
    <3>3. CASE Inbox!Fire(n + 1)
      <4>1. /\ fires' = Append(Inbox!Recent, now) /\ allowed' = Append(allowed, now)
            /\ posting' = posting \union {n + 1} /\ Len(Inbox!Recent) < MaxFires
        BY <3>3 DEF Inbox!Fire
      <4>2. fires' \in Seq(Times) /\ Len(fires') = Len(Inbox!Recent) + 1
        BY <1>2, <1>4, <4>1
      <4> QED
        BY <1>1, <1>2, <1>4, <4>1, <4>2
    <3> QED
      BY <1>8, <3>1, <3>2, <3>3 DEF Inbox!Add
  <2>5. 1..n \subseteq 1..(n + 1) /\ n + 1 \in 1..(n + 1)
    BY <1>3
  <2>6. /\ posting \subseteq 1..n /\ carried \subseteq 1..n /\ fired \subseteq 1..n
        /\ read \subseteq 1..n /\ gone \subseteq 1..n
    BY <1>3 DEF Inbox!TypeOK
  <2>7. Inbox!Ids' = 1..(n + 1)
    BY <2>3 DEF Inbox!Ids
  <2>8. Len(rows') <= MaxItems
    BY <1>1, <1>3, <2>1, <2>3
  <2> HIDE DEF n
  <2> QED
    BY <1>2, <2>1, <2>3, <2>4, <2>5, <2>6, <2>7, <2>8 DEF Inbox!TypeOK
<1>9. ASSUME NEW i \in Inbox!Ids, Inbox!FireEnds(i) PROVE Inbox!TypeOK'
  BY <1>9 DEF Inbox!FireEnds, Inbox!TypeOK, Inbox!Ids
<1>10. ASSUME NEW i \in Inbox!Ids, Inbox!Dismiss(i) PROVE Inbox!TypeOK'
  <2>1. /\ rows' = Inbox!Marked({i}) /\ gone' = gone \union {i}
        /\ UNCHANGED <<now, fires, posting, carried, fired, read, allowed>>
    BY <1>10 DEF Inbox!Dismiss
  <2>2. rows' \in Seq(Inbox!Item) /\ Len(rows') = n /\ Inbox!Ids' = Inbox!Ids
    BY <1>3, <1>5, <2>1 DEF Inbox!Ids
  <2> QED
    BY <1>2, <2>1, <2>2 DEF Inbox!TypeOK
<1>11. ASSUME NEW floor \in Inbox!Tier, NEW limit \in Limits, Inbox!CheckInbox(floor, limit)
       PROVE  Inbox!TypeOK'
  <2> DEFINE b == Inbox!Batch(floor, limit)
  <2>1. /\ rows' = Inbox!Marked(b) /\ carried' = carried \union b
        /\ UNCHANGED <<now, fires, posting, fired, read, gone, allowed>>
    BY <1>11 DEF Inbox!CheckInbox, Inbox!history
  <2>2. b \subseteq Inbox!Ids
    BY DEF Inbox!Batch, Inbox!Pending
  <2> HIDE DEF b
  <2>3. rows' \in Seq(Inbox!Item) /\ Len(rows') = n /\ Inbox!Ids' = Inbox!Ids
    BY <1>3, <1>5, <2>1 DEF Inbox!Ids
  <2> QED
    BY <1>2, <2>1, <2>2, <2>3 DEF Inbox!TypeOK
<1>12. CASE Inbox!Surface
  BY <1>12 DEF Inbox!Surface, Inbox!TypeOK, Inbox!Ids
<1>13. CASE Inbox!Restart
  <2>1. <<>> \in Seq(Times) /\ Len(<<>>) <= MaxFires
    BY <1>1
  <2> HIDE DEF Times
  <2>2. PICK started \in SUBSET posting : fired' = fired \union started
    BY <1>13 DEF Inbox!Restart
  <2>3. /\ fires' = <<>> /\ allowed' = <<>> /\ gone' = gone \union carried /\ carried' = {}
        /\ posting' = {} /\ UNCHANGED <<now, rows, read>>
    BY <1>13 DEF Inbox!Restart
  <2>4. /\ fires' \in Seq(Times) /\ Len(fires') <= MaxFires /\ allowed' \in Seq(Times)
    BY <2>1, <2>3
  <2> QED
    BY <2>2, <2>3, <2>4 DEF Inbox!TypeOK, Inbox!Ids, Times
<1> QED
  BY <1>6, <1>7, <1>8, <1>9, <1>10, <1>11, <1>12, <1>13 DEF Inbox!Next, Inbox!vars, inboxVars

-----------------------------------------------------------------------------
(* The gateway *)

\* The gateway's task, its delivery and the loops that run belong to gateways there were.
DiscordWhere ==
  /\ open \subseteq Chats /\ address \in DMs \union {Discord!NoChat}
  /\ task \in 0..Len(gateways) /\ delivery \in 0..Len(gateways)
  /\ loops \subseteq 1..Len(gateways)
  /\ reload \in [Reloads -> {"due", "stop", "sweep", "launch", "done"}]

LEMMA DiscordWhereStep ==
  ASSUME TalkInv, DiscordWhere, [Discord!Next]_discordVars
  PROVE  DiscordWhere'
<1> DEFINE G == {"start", "up", "down", "gone"}
           n == Len(gateways)
<1>0. gateways \in Seq(G) /\ DOMAIN gateways = 1..n /\ n \in Nat
  BY DEF TalkInv, DiscordType
<1>1. CASE UNCHANGED <<open, address, gateways, task, delivery, loops, reload>>
  BY <1>1 DEF DiscordWhere
<1>2. ASSUME NEW c \in Chats, NEW x \in BOOLEAN, Discord!Receive(c, x) PROVE DiscordWhere'
  <2>1. /\ UNCHANGED <<gateways, task, delivery, loops, reload>>
        /\ open' \in {open, open \union {c}} /\ address' \in {address, Discord!Recorded(c)}
    BY <1>2 DEF Discord!Receive, Discord!surface
  <2>2. Discord!Recorded(c) \in DMs \union {Discord!NoChat}
    BY DEF Discord!Recorded, DiscordWhere
  <2> QED
    BY <2>1, <2>2 DEF DiscordWhere
<1>3. ASSUME NEW c \in Chats, Discord!Timeout(c) PROVE DiscordWhere'
  BY <1>3 DEF Discord!Timeout, Discord!surface, DiscordWhere
<1>4. ASSUME NEW c \in Chats, Discord!Flush(c) PROVE DiscordWhere'
  BY <1>1, <1>4 DEF Discord!Flush, Discord!surface
<1>5. ASSUME NEW f \in flushes, Discord!Reply(f) PROVE DiscordWhere'
  BY <1>1, <1>5 DEF Discord!Reply, Discord!surface
<1>6. CASE Discord!Activity
  BY <1>1, <1>6 DEF Discord!Activity, Discord!surface, Discord!bursts
<1>7. ASSUME NEW g \in DOMAIN gateways, Discord!Connect(g) \/ Discord!NoBotUser(g) PROVE DiscordWhere'
  <2>1. UNCHANGED <<open, address, task, delivery, loops, reload>>
    BY <1>7 DEF Discord!Connect, Discord!NoBotUser, Discord!bursts
  <2>2. PICK s : gateways' = [gateways EXCEPT ![g] = s]
    BY <1>7 DEF Discord!Connect, Discord!NoBotUser
  <2>3. Len(gateways') = Len(gateways)
    BY <1>0, <2>2
  <2> QED
    BY <2>1, <2>3 DEF DiscordWhere
<1>8. ASSUME NEW r \in Reloads, Discord!Teardown(r) PROVE DiscordWhere'
  <2>1. /\ UNCHANGED <<open, address, delivery>> /\ task' = 0 /\ loops' = loops \ {delivery}
        /\ Discord!Advance(r, IF delivery = 0 THEN "sweep" ELSE "stop")
        /\ gateways' = [g \in 1..n |-> IF g = task THEN "gone" ELSE gateways[g]]
    BY <1>0, <1>8 DEF Discord!Teardown, Discord!bursts
  <2>2. Len(gateways') = n
    <3> HIDE DEF n
    <3> QED
      BY <1>0, <2>1
  <2>3. reload' \in [Reloads -> {"due", "stop", "sweep", "launch", "done"}]
    BY <2>1 DEF Discord!Advance, DiscordWhere
  <2> QED
    BY <1>0, <2>1, <2>2, <2>3 DEF DiscordWhere
<1>9. ASSUME NEW r \in Reloads, Discord!DeliveryStopped(r) \/ Discord!SweeperStopped(r)
      PROVE  DiscordWhere'
  <2>1. UNCHANGED <<open, address, gateways, task, loops>> /\ delivery' \in {0, delivery}
    BY <1>9 DEF Discord!DeliveryStopped, Discord!SweeperStopped, Discord!bursts
  <2>2. PICK s \in {"sweep", "launch"} : reload' = [reload EXCEPT ![r] = s]
    BY <1>9 DEF Discord!DeliveryStopped, Discord!SweeperStopped, Discord!Advance
  <2>3. reload' \in [Reloads -> {"due", "stop", "sweep", "launch", "done"}]
    BY <2>2 DEF DiscordWhere
  <2>4. 0 \in 0..Len(gateways)
    BY <1>0
  <2> QED
    BY <2>1, <2>3, <2>4 DEF DiscordWhere
<1>10. ASSUME NEW r \in Reloads, NEW e \in BOOLEAN, Discord!Launch(r, e) PROVE DiscordWhere'
  <2>1. UNCHANGED <<open, address>> /\ Discord!Advance(r, "done")
    BY <1>10 DEF Discord!Launch, Discord!bursts
  <2>2. reload' \in [Reloads -> {"due", "stop", "sweep", "launch", "done"}]
    BY <2>1 DEF Discord!Advance, DiscordWhere
  <2>3. CASE UNCHANGED <<gateways, task, loops, delivery>>
    BY <2>1, <2>2, <2>3 DEF DiscordWhere
  <2>4. CASE /\ gateways' = Append(gateways, "start") /\ task' = n + 1 /\ delivery' = n + 1
             /\ loops' = loops \union {n + 1}
    <3>1. Len(gateways') = n + 1
      BY <1>0, <2>4
    <3>2. loops \subseteq 1..n
      BY DEF DiscordWhere
    <3> HIDE DEF n
    <3>3. n + 1 \in 0..(n + 1) /\ n + 1 \in 1..(n + 1) /\ 1..n \subseteq 1..(n + 1)
      BY <1>0
    <3> QED
      BY <2>1, <2>2, <2>4, <3>1, <3>2, <3>3 DEF DiscordWhere
  <2> QED
    BY <1>10, <2>3, <2>4 DEF Discord!Launch
<1>11. CASE UNCHANGED discordVars
  BY <1>1, <1>11 DEF discordVars
<1> QED
  BY <1>2, <1>3, <1>4, <1>5, <1>6, <1>7, <1>8, <1>9, <1>10, <1>11 DEF Discord!Next

LEMMA DiscordTypeHolds == TalkInv /\ DiscordWhere => Discord!TypeOK
<1> SUFFICES ASSUME TalkInv, DiscordWhere PROVE Discord!TypeOK
  OBVIOUS
<1> DEFINE D == DOMAIN sent
<1>1. DiscordType
  BY DEF TalkInv
<1>2. D = 1..Len(sent) /\ Len(sent) \in Nat /\ \A c : Sent(c) \subseteq D
  BY <1>1 DEF DiscordType, Sent
<1>3. \A i \in 0..Len(sent) : i \in {0} \union D
  BY <1>2
<1>4. ASSUME NEW S, NEW s \in Seq(Nat), \A i \in DOMAIN s : s[i] \in S PROVE s \in Seq(S)
  <2>1. Len(s) \in Nat /\ DOMAIN s = 1..Len(s) /\ s = [i \in 1..Len(s) |-> s[i]]
    OBVIOUS
  <2>2. s \in [1..Len(s) -> S]
    BY <1>4, <2>1
  <2> QED
    BY <2>1, <2>2
<1> HIDE DEF D
<1>5. ASSUME NEW c \in Chats PROVE buffer[c] \in Seq(D) /\ tlog[c] \in Seq({0} \union D)
  <2>1. buffer[c] \in Seq(Nat) /\ tlog[c] \in Seq(Nat)
    BY <1>1 DEF DiscordType
  <2>2. \A i \in DOMAIN buffer[c] : buffer[c][i] \in D
    BY <1>1, <1>2 DEF DiscordType
  <2>3. \A i \in DOMAIN tlog[c] : tlog[c][i] \in {0} \union D
    BY <1>1, <1>3 DEF DiscordType
  <2> QED
    BY <1>4, <2>1, <2>2, <2>3
<1>6. buffer \in [Chats -> Seq(D)] /\ tlog \in [Chats -> Seq({0} \union D)]
  BY <1>1, <1>5 DEF DiscordType
<1>7. ASSUME NEW f \in flushes PROVE f.chat \in Chats /\ f.msgs \in Seq(D) \ {<<>>}
  <2>1. f.chat \in Chats /\ f.msgs \in Seq(Nat) /\ f.msgs # <<>> /\ \A i \in DOMAIN f.msgs : f.msgs[i] \in D
    BY <1>1, <1>2 DEF DiscordType
  <2> QED
    BY <1>4, <2>1
<1> QED
  BY <1>1, <1>6, <1>7 DEF Discord!TypeOK, DiscordWhere, DiscordType, D

-----------------------------------------------------------------------------
(* The ledger *)

LEMMA LedgerTypeHolds == LedgerCore => Ledger!TypeOK
<1> SUFFICES ASSUME LedgerCore PROVE Ledger!TypeOK
  OBVIOUS
<1>1. LedgerType /\ Told /\ Fed /\ \A t \in Tasks : Rowed(t)
  BY DEF LedgerCore
<1>2. \A t \in Tasks : run[t].pc \in {"none", "stream", "finalize"}
  BY <1>1 DEF LedgerType, LedgerRun, Ledger!NoRun
<1>3. \A t \in DOMAIN ledger : ledger[t].task = t /\ ledger[t].state \in Ledger!Ended
  BY <1>1 DEF LedgerType, IsRow, Ledger!Ended
<1>4. \A i \in DOMAIN news : news[i].task \in OnFeed
  BY <1>1 DEF Told
<1>5. \A i \in DOMAIN feed : feed[i].task \in OnFeed
  BY <1>1, <1>4 DEF Fed
<1> QED
  BY <1>1, <1>2, <1>3, <1>4, <1>5 DEF LedgerType, LedgerPhase, Ledger!TypeOK, Ledger!Ended

-----------------------------------------------------------------------------
(* All of them *)

\* The picked component is one of the five, and each keeps its types.
OnePicked == pick \in {"inbox", "bus", "discord", "acp", "ledger"}

TypesHold ==
  /\ OnePicked /\ Inbox!TypeOK /\ Bus!TypeOK /\ BusInv /\ TalkInv /\ DiscordWhere
  /\ AcpInv /\ LedgerInv

\* For any clients, senders, chats, turns and limits: what a queue, the inbox, an agent's client, a
\* gateway's burst or the ledger holds is of its kind, and no queue or counter passes its bound.
THEOREM TrafficTyped == Spec => []TypeOK
<1>1. Init => TypesHold
  <2> SUFFICES ASSUME Init PROVE TypesHold
    OBVIOUS
  <2>1. OnePicked /\ Inbox!Init /\ Bus!Init /\ Discord!Init /\ Acp!Init
    BY DEF Init, OnePicked
  <2>2. TalkInv
    <3>1. /\ sent = <<>> /\ buffer = [c \in Chats |-> <<>>] /\ tlog = [c \in Chats |-> <<>>] /\ flushes = {}
          /\ gateways = <<"start">> /\ seen = <<>> /\ replied = <<>>
      BY <2>1 DEF Discord!Init, Discord!NoBurst
    <3>2. DiscordType
      BY <3>1 DEF DiscordType
    <3> QED
      BY <3>1, <3>2 DEF TalkInv, InOrder
  <2>3. DiscordWhere
    BY <2>1 DEF Discord!Init, DiscordWhere
  <2> QED
    BY <2>1, <2>2, <2>3, InboxTypeInit, BusTypeInit, BusInit, AcpInit, LedgerInit DEF TypesHold
<1>2. TypesHold /\ [Next]_vars => TypesHold'
  <2> SUFFICES ASSUME TypesHold, [Next]_vars PROVE TypesHold'
    OBVIOUS
  <2>1. OnePicked'
    BY DEF TypesHold, OnePicked, Next, vars
  <2>2. Inbox!TypeOK'
    BY InboxMoves, InboxTypeStep DEF TypesHold
  <2>3. BusInv'
    BY BusMoves, BusStep DEF TypesHold
  <2>4. Bus!TypeOK'
    BY <2>3, BusMoves, BusTypeStep DEF TypesHold
  <2>5. TalkInv' /\ DiscordWhere'
    BY DiscordMoves, TalkStep, DiscordWhereStep DEF TypesHold
  <2>6. AcpInv' /\ LedgerInv'
    BY AcpMoves, AcpStep, LedgerStep DEF TypesHold
  <2> QED
    BY <2>1, <2>2, <2>3, <2>4, <2>5, <2>6 DEF TypesHold
<1>3. TypesHold => TypeOK
  <2> SUFFICES ASSUME TypesHold PROVE TypeOK
    OBVIOUS
  <2>1. Inbox!TypeOK /\ Bus!TypeOK /\ Acp!TypeOK /\ OnePicked
    BY DEF TypesHold, AcpInv
  <2>2. Discord!TypeOK
    BY DiscordTypeHolds DEF TypesHold
  <2>3. pick = "ledger" => Ledger!TypeOK
    BY LedgerTypeHolds DEF TypesHold, LedgerInv
  <2> QED
    BY <2>1, <2>2, <2>3 DEF TypeOK, OnePicked
<1> QED
  BY <1>1, <1>2, <1>3, PTL DEF Spec
=============================================================================
