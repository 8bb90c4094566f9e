---------------------------- MODULE SdrTcpProofs ----------------------------
(***************************************************************************)
(* TInv, PInv and DInv are inductive invariants of SdrTcp, and what they   *)
(* promise follows.  First the calls of the pool, whoever makes them; then *)
(* a lemma for each thread, with one step for each of its actions.         *)
(***************************************************************************)
EXTENDS SdrTcpInv, TLAPS

-----------------------------------------------------------------------------
(* The pool and what its threads do with it.                               *)

\* The places of a thread in the pool.
WaitPlaces == {"out", "miss", "create", "wait", "has", "none"}

\* What a thread's calls of the pool keep true by themselves.
PCore == PoolTypes /\ PoolWork /\ PoolHeld /\ OnePlace /\ PoolOrder

\* The stages of the two threads that use the pool.
LEMMA PoolConstants ==
  /\ Threads = {"feed", "server"} /\ Ids = {0, 1}
  /\ StageOf["feed"] = 0 /\ StageOf["server"] = 1
  /\ NextId(0) = 1 /\ NextId(1) = 0
  /\ MaxElements \in Nat \ {0}
BY TcpAssumption, PoolAssumption DEF Ids, NextId

\* What queue_pop leaves.
LEMMA TailFacts ==
  ASSUME NEW S, NEW q \in Seq(S), q # <<>>
  PROVE  /\ Head(q) \in S /\ Head(q) = q[1] /\ Len(q) \in Nat /\ Len(q) > 0
         /\ Tail(q) \in Seq(S) /\ Len(Tail(q)) = Len(q) - 1
         /\ \A n \in 1 .. Len(Tail(q)) : Tail(q)[n] = q[n + 1]
OBVIOUS

\* What queue_add makes.
LEMMA AppendFacts ==
  ASSUME NEW S, NEW q \in Seq(S), NEW x \in S
  PROVE  /\ Append(q, x) \in Seq(S) /\ Len(Append(q, x)) = Len(q) + 1 /\ Len(q) \in Nat
         /\ \A n \in 1 .. Len(q) : Append(q, x)[n] = q[n]
         /\ Append(q, x)[Len(q) + 1] = x
OBVIOUS

\* The contents, when one buffer has been filled or emptied.
LEMMA ExceptFacts ==
  ASSUME NEW S, NEW q \in Seq(S), NEW i \in 1 .. Len(q), NEW x \in S
  PROVE  /\ [q EXCEPT ![i] = x] \in Seq(S) /\ Len([q EXCEPT ![i] = x]) = Len(q)
         /\ \A n \in 1 .. Len(q) : n # i => [q EXCEPT ![i] = x][n] = q[n]
OBVIOUS

\* A buffer is taken from the head of a queue.
LEMMA TakesBuffer ==
  ASSUME PCore, NEW t \in Threads, wpc[t] # "has", queues[StageOf[t]] # <<>>,
         queues' = [queues EXCEPT ![StageOf[t]] = Tail(@)],
         hold' = [hold EXCEPT ![t] = Head(queues[StageOf[t]])],
         wpc \in [Threads -> WaitPlaces],
         wpc' = [wpc EXCEPT ![t] = "has"],
         UNCHANGED <<elements, valid, content, fed, out>>
  PROVE  PCore'
<1> DEFINE id == StageOf[t]
           q == queues[id]
<1>1. id \in Ids /\ q \in Seq(Nat \ {0}) /\ q # <<>> /\ hold[t] = 0 /\ valid
  BY PoolConstants DEF PCore, PoolTypes, PoolWork, PoolHeld
<1>2. /\ Head(q) \in Nat \ {0} /\ Head(q) = q[1] /\ Len(q) \in Nat /\ Len(q) > 0
      /\ Tail(q) \in Seq(Nat \ {0}) /\ Len(Tail(q)) = Len(q) - 1
      /\ \A n \in 1 .. Len(Tail(q)) : Tail(q)[n] = q[n + 1]
  BY <1>1, TailFacts
<1> HIDE DEF q
<1>3. /\ queues'[id] = Tail(q)
      /\ \A i \in Ids \ {id} : queues'[i] = queues[i]
      /\ hold'[t] = q[1] /\ \A u \in Threads \ {t} : hold'[u] = hold[u]
      /\ wpc'[t] = "has" /\ \A u \in Threads \ {t} : wpc'[u] = wpc[u]
  BY <1>1, <1>2 DEF PCore, PoolTypes, q
<1>4. PoolTypes'
  BY <1>1, <1>2 DEF PCore, PoolTypes, q
<1>5. PoolWork'
  BY <1>1, <1>2, <1>3, PoolConstants DEF PCore, PoolWork
<1>6. PoolHeld'
  <2>1. q[1] <= elements
    BY <1>1, <1>2 DEF PCore, PoolHeld, q
  <2>2. ASSUME NEW i \in Ids, NEW n \in 1 .. Len(queues'[i]) PROVE queues'[i][n] <= elements
    BY <1>1, <1>2, <1>3, <2>2 DEF PCore, PoolHeld, q
  <2> QED
    BY <1>1, <1>3, <2>1, <2>2 DEF PCore, PoolHeld
<1>7. OnePlace'
  <2>1. ASSUME NEW i \in Ids, NEW n \in 1 .. Len(queues'[i])
        PROVE  \E m \in 1 .. Len(queues[i]) :
                 /\ queues'[i][n] = queues[i][m] /\ m = (IF i = id THEN n + 1 ELSE n)
    <3>1. CASE i = id
      <4>1. n \in 1 .. Len(Tail(q)) /\ queues'[i] = Tail(q) /\ queues[i] = q
        BY <1>3, <2>1, <3>1 DEF q
      <4>2. n + 1 \in 1 .. Len(q) /\ Tail(q)[n] = q[n + 1]
        BY <1>2, <4>1
      <4> QED
        BY <3>1, <4>1, <4>2
    <3>2. CASE i # id
      BY <1>3, <2>1, <3>2
    <3> QED
      BY <3>1, <3>2
  <2>2. ASSUME NEW b \in 1 .. elements
        PROVE  \/ \E i \in Ids : \E n \in 1 .. Len(queues'[i]) : queues'[i][n] = b
               \/ \E u \in Threads : hold'[u] = b
    <3>1. CASE \E i \in Ids : \E n \in 1 .. Len(queues[i]) : queues[i][n] = b
      <4>1. PICK i \in Ids : \E n \in 1 .. Len(queues[i]) : queues[i][n] = b
        BY <3>1
      <4>2. PICK n \in 1 .. Len(queues[i]) : queues[i][n] = b
        BY <4>1
      <4>3. CASE i # id
        BY <1>3, <4>2, <4>3
      <4>4. CASE i = id /\ n = 1
        BY <1>3, <4>2, <4>4 DEF q
      <4>5. CASE i = id /\ n # 1
        <5>1. n - 1 \in 1 .. Len(queues'[id]) /\ queues'[id][n - 1] = b
          <6>1. n \in 1 .. Len(q) /\ n # 1 /\ q[n] = b /\ queues'[id] = Tail(q)
            BY <1>3, <4>2, <4>5 DEF q
          <6>2. n - 1 \in 1 .. Len(Tail(q)) /\ (n - 1) + 1 = n
            BY <1>2, <6>1
          <6> QED
            BY <1>2, <6>1, <6>2
        <5> QED
          BY <1>1, <5>1
      <4> QED
        BY <4>3, <4>4, <4>5
    <3>2. CASE \E u \in Threads : hold[u] = b
      BY <1>1, <1>3, <3>2
    <3> QED
      BY <3>1, <3>2 DEF PCore, OnePlace, Buffers
  <2>3. ASSUME NEW i \in Ids, NEW j \in Ids, NEW n \in 1 .. Len(queues'[i]),
               NEW m \in 1 .. Len(queues'[j]), queues'[i][n] = queues'[j][m]
        PROVE  i = j /\ n = m
    <3>1. PICK nn \in 1 .. Len(queues[i]) :
            queues'[i][n] = queues[i][nn] /\ nn = (IF i = id THEN n + 1 ELSE n)
      BY <2>1
    <3>2. PICK mm \in 1 .. Len(queues[j]) :
            queues'[j][m] = queues[j][mm] /\ mm = (IF j = id THEN m + 1 ELSE m)
      BY <2>1
    <3>3. i = j /\ nn = mm
      BY <2>3, <3>1, <3>2 DEF PCore, OnePlace
    <3> QED
      BY <3>1, <3>2, <3>3
  <2>4. ASSUME NEW u \in Threads, NEW i \in Ids, NEW n \in 1 .. Len(queues'[i])
        PROVE  queues'[i][n] # hold'[u]
    <3>1. PICK m \in 1 .. Len(queues[i]) :
            queues'[i][n] = queues[i][m] /\ m = (IF i = id THEN n + 1 ELSE n)
      BY <2>1
    <3>2. CASE u = t
      <4>1. 1 \in 1 .. Len(queues[id]) /\ (m # 1 \/ i # id)
        BY <1>2, <3>1 DEF q
      <4> QED
        BY <1>1, <1>2, <1>3, <3>1, <3>2, <4>1 DEF PCore, OnePlace, q
    <3>3. CASE u # t
      BY <1>3, <3>1, <3>3 DEF PCore, OnePlace
    <3> QED
      BY <3>2, <3>3
  <2>5. ASSUME NEW u \in Threads, NEW v \in Threads, hold'[u] = hold'[v], u # v
        PROVE  hold'[u] = 0
    <3>1. 1 \in 1 .. Len(queues[id])
      BY <1>2 DEF q
    <3>2. \A w \in Threads : q[1] # hold[w]
      BY <1>1, <3>1 DEF PCore, OnePlace, q
    <3> QED
      BY <1>3, <2>5, <3>2 DEF PCore, OnePlace
  <2> QED
    BY <2>2, <2>3, <2>4, <2>5 DEF PCore, OnePlace, Buffers
<1>8. PoolOrder'
  <2>1. CASE t = "server"
    <3>1. id = 1 /\ Serves = 0 /\ Serves' = 1
      BY <1>3, <2>1, PoolConstants DEF Serves
    <3>2. fed = out + Len(q) /\ \A n \in 1 .. Len(q) : content[q[n]] = out + n
      BY <1>1, <1>2, <3>1 DEF PCore, PoolOrder, PoolTypes, q
    <3>3. fed' = out' + Serves' + Len(queues'[1])
      <4>1. Len(queues'[1]) = Len(q) - 1
        BY <1>2, <1>3, <3>1
      <4> QED
        <5>1. fed' = fed /\ out' = out /\ out \in Nat
          BY DEF PCore, PoolTypes
        <5>2. Len(q) \in Nat /\ fed = out + Len(q)
          BY <1>2, <3>2
        <5>3. fed = out + 1 + (Len(q) - 1)
          BY <5>1, <5>2
        <5> QED
          BY <3>1, <4>1, <5>1, <5>3
    <3>4. content'[hold'["server"]] = out' + 1
      BY <1>2, <1>3, <2>1, <3>2
    <3>5. ASSUME NEW n \in 1 .. Len(queues'[1])
          PROVE  content'[queues'[1][n]] = out' + Serves' + n
      <4>1. n + 1 \in 1 .. Len(q) /\ queues'[1][n] = q[n + 1]
        <5>1. n \in 1 .. Len(Tail(q)) /\ queues'[1] = Tail(q)
          BY <1>3, <3>1, <3>5
        <5>2. n + 1 \in 1 .. Len(q) /\ Tail(q)[n] = q[n + 1]
          BY SMTT(30), <1>2, <5>1
        <5> QED
          BY <5>1, <5>2
      <4>2. content[q[n + 1]] = out + (n + 1) /\ n \in Nat /\ out \in Nat
        BY <3>2, <3>5, <4>1 DEF PCore, PoolTypes
      <4> QED
        BY <3>1, <4>1, <4>2
    <3> QED
      BY <3>3, <3>4, <3>5 DEF PoolOrder
  <2>2. CASE t = "feed"
    <3>1. id = 0 /\ queues'[1] = queues[1] /\ Serves' = Serves /\ hold'["server"] = hold["server"]
          /\ wpc'["server"] = wpc["server"]
      BY <1>3, <2>2, PoolConstants DEF Serves
    <3> QED
      BY <3>1 DEF PCore, PoolOrder
  <2> QED
    BY <2>1, <2>2, PoolConstants
<1> QED
  BY <1>4, <1>5, <1>6, <1>7, <1>8 DEF PCore

\* The calls that only move a thread inside pool_get_wait_lock.
LEMMA MovesOnly ==
  ASSUME PCore, NEW t \in Threads, NEW to \in WaitPlaces, wpc[t] # "has", to # "has",
         wpc \in [Threads -> WaitPlaces], PoolGoto(t, to),
         to = "create" => t = "feed" /\ elements < MaxElements,
         to \notin {"out", "none"} => valid,
         UNCHANGED <<queues, elements, valid, hold, content, fed, out>>
  PROVE  PCore'
<1>1. wpc'[t] = to /\ \A u \in Threads \ {t} : wpc'[u] = wpc[u]
  BY DEF PoolGoto
<1>2. PoolTypes' /\ PoolHeld' /\ OnePlace'
  BY DEF PCore, PoolTypes, PoolHeld, OnePlace, Buffers
<1>3. PoolWork'
  BY <1>1, PoolConstants DEF PCore, PoolWork
<1>4. Serves' = Serves /\ (wpc'["server"] = "has" <=> wpc["server"] = "has")
  BY <1>1, PoolConstants DEF Serves
<1>5. PoolOrder'
  BY <1>4 DEF PCore, PoolOrder
<1> QED
  BY <1>2, <1>3, <1>5 DEF PCore

\* pool_get_wait_lock makes a new buffer.
LEMMA CreatesBuffer ==
  ASSUME PCore, NEW t \in Threads, Create(t), wpc \in [Threads -> WaitPlaces]
  PROVE  PCore'
<1> DEFINE b == elements + 1
<1>1. t = "feed" /\ hold[t] = 0 /\ valid /\ elements < MaxElements /\ elements \in Nat
  BY PoolConstants DEF PCore, PoolWork, PoolTypes, Create
<1>2. /\ elements' = b /\ b \in Nat \ {0} /\ b > elements
      /\ hold'["feed"] = b /\ hold'["server"] = hold["server"]
      /\ wpc'["feed"] = "has" /\ wpc'["server"] = wpc["server"]
      /\ UNCHANGED <<queues, valid, fed, out>>
  BY <1>1, PoolConstants DEF PCore, PoolTypes, Create, PoolGoto
<1>3. /\ content' \in Seq(Nat) /\ Len(content') = b
      /\ \A n \in 1 .. elements : content'[n] = content[n]
  BY <1>1, AppendFacts DEF PCore, PoolTypes, Create
<1>4. PoolTypes'
  BY <1>1, <1>2, <1>3 DEF PCore, PoolTypes, Create
<1>5. PoolWork'
  BY <1>1, <1>2, PoolConstants DEF PCore, PoolWork
<1>6. \A i \in Ids : \A n \in 1 .. Len(queues[i]) :
        queues[i][n] <= elements /\ queues[i][n] \in Nat \ {0}
  BY DEF PCore, PoolHeld, PoolTypes
<1>7. hold["server"] <= elements /\ hold["server"] \in Nat
  BY <1>1, PoolConstants DEF PCore, PoolHeld, PoolTypes
<1> HIDE DEF b
<1>8. PoolHeld'
  <2>1. \A i \in Ids : \A n \in 1 .. Len(queues'[i]) : queues'[i][n] <= elements'
    BY <1>1, <1>2, <1>6
  <2>2. \A u \in Threads : hold'[u] <= elements'
    BY <1>1, <1>2, <1>7, PoolConstants
  <2> QED
    BY <1>1, <1>2, <2>1, <2>2 DEF PoolHeld
<1>9. OnePlace'
  <2>1. elements' <= MaxElements
    BY <1>1, <1>2, PoolConstants DEF b
  <2>2. ASSUME NEW c \in 1 .. elements'
        PROVE  \/ \E i \in Ids : \E n \in 1 .. Len(queues'[i]) : queues'[i][n] = c
               \/ \E u \in Threads : hold'[u] = c
    <3>1. CASE c = b
      BY <1>2, <3>1, PoolConstants
    <3>2. CASE c # b
      <4>1. c \in 1 .. elements
        BY <1>1, <1>2, <2>2, <3>2 DEF b
      <4>2. CASE \E i \in Ids : \E n \in 1 .. Len(queues[i]) : queues[i][n] = c
        BY <1>2, <4>2
      <4>3. CASE \E u \in Threads : hold[u] = c
        BY <1>1, <1>2, <4>1, <4>3, PoolConstants
      <4> QED
        BY <4>1, <4>2, <4>3 DEF PCore, OnePlace, Buffers
    <3> QED
      BY <3>1, <3>2
  <2>3. \A i, j \in Ids : \A n \in 1 .. Len(queues'[i]), m \in 1 .. Len(queues'[j]) :
          queues'[i][n] = queues'[j][m] => i = j /\ n = m
    BY <1>2 DEF PCore, OnePlace
  <2>4. \A u \in Threads : \A i \in Ids : \A n \in 1 .. Len(queues'[i]) :
          queues'[i][n] # hold'[u]
    <3>1. \A i \in Ids : \A n \in 1 .. Len(queues[i]) : queues[i][n] # b
      BY <1>1, <1>2, <1>6
    <3> QED
      BY <1>2, <3>1, PoolConstants DEF PCore, OnePlace
  <2>5. hold'["feed"] # hold'["server"]
    BY <1>1, <1>2, <1>7
  <2> QED
    BY <2>1, <2>2, <2>3, <2>4, <2>5, PoolConstants DEF OnePlace, Buffers
<1>10. PoolOrder'
  <2>1. Serves' = Serves
    BY <1>2 DEF Serves
  <2>2. \A n \in 1 .. Len(queues'[1]) : content'[queues'[1][n]] = content[queues[1][n]]
    BY SMTT(30), <1>1, <1>2, <1>3, <1>6, PoolConstants
  <2>3. wpc'["server"] = "has" => content'[hold'["server"]] = content[hold["server"]]
    <3>1. wpc["server"] = "has" => hold["server"] # 0
      BY PoolConstants DEF PCore, PoolWork
    <3>2. wpc["server"] = "has" => hold["server"] \in 1 .. elements
      BY <1>1, <1>7, <3>1
    <3> QED
      BY <1>2, <1>3, <3>2
  <2> QED
    BY <1>1, <1>2, <2>1, <2>2, <2>3 DEF PCore, PoolOrder
<1> QED
  BY <1>4, <1>5, <1>8, <1>9, <1>10 DEF PCore

\* A thread hands its buffer on, or forgets it because the pool has been freed.
LEMMA PutsBuffer ==
  ASSUME PCore, NEW t \in Threads, Put(t), wpc \in [Threads -> WaitPlaces]
  PROVE  PCore'
<1> DEFINE b == hold[t]
           nx == NextId(StageOf[t])
<1>1. /\ b \in Nat /\ b # 0 /\ nx \in Ids /\ elements \in Nat /\ wpc[t] = "has"
      /\ t \in {"feed", "server"}
  BY PoolConstants DEF PCore, PoolTypes, PoolWork, Put
<1>2. /\ hold'[t] = 0 /\ wpc'[t] = "out"
      /\ \A u \in Threads \ {t} : hold'[u] = hold[u] /\ wpc'[u] = wpc[u] /\ hold[u] # b
      /\ elements' = elements /\ valid' = valid
      /\ hold' \in [Threads -> Nat]
  BY <1>1 DEF PCore, PoolTypes, OnePlace, Put, PoolGoto
<1>3. PoolWork'
  <2>1. ASSUME NEW u \in Threads PROVE hold'[u] # 0 <=> wpc'[u] = "has"
    BY <1>1, <1>2 DEF PCore, PoolWork
  <2> QED
    BY <1>2, <2>1, PoolConstants DEF PCore, PoolWork
<1> HIDE DEF b, nx
<1>4. CASE ~valid
  <2>1. UNCHANGED <<queues, content, fed, out>>
    BY <1>4 DEF Put
  <2>2. PoolTypes' /\ PoolHeld' /\ PoolOrder'
    BY <1>2, <1>4, <2>1 DEF PCore, PoolTypes, PoolHeld, PoolOrder
  <2>3. elements = 0 /\ \A i \in Ids : queues[i] = <<>>
    BY <1>4 DEF PCore, PoolHeld
  <2>4. OnePlace'
    <3>1. \A c \in 1 .. elements' : FALSE
      BY <1>2, <2>3
    <3>2. \A u, v \in Threads : hold'[u] = hold'[v] /\ u # v => hold'[u] = 0
      BY <1>1, <1>2, PoolConstants
    <3>3. \A i \in Ids : \A n \in 1 .. Len(queues'[i]) : FALSE
      BY <2>1, <2>3
    <3> QED
      BY <1>2, <3>1, <3>2, <3>3 DEF PCore, OnePlace, Buffers
  <2> QED
    BY <1>3, <2>2, <2>4 DEF PCore
<1>5. CASE valid
  <2> DEFINE q == queues[nx]
             l == Len(q) + 1
  <2>1. q \in Seq(Nat \ {0}) /\ b <= elements
    BY <1>1, <1>5 DEF PCore, PoolTypes, PoolHeld, b
  <2>2. /\ Append(q, b) \in Seq(Nat \ {0}) /\ Len(Append(q, b)) = l /\ Len(q) \in Nat
        /\ \A n \in 1 .. Len(q) : Append(q, b)[n] = q[n]
        /\ Append(q, b)[l] = b
    BY <1>1, <2>1, AppendFacts
  <2> HIDE DEF q
  <2>3. /\ queues' = [queues EXCEPT ![nx] = Append(q, b)] /\ queues'[nx] = Append(q, b)
        /\ \A i \in Ids \ {nx} : queues'[i] = queues[i]
    BY <1>1, <1>5 DEF PCore, PoolTypes, Put, Added, q, b, nx
  <2>4. /\ content' \in Seq(Nat) /\ Len(content') = elements /\ fed' \in Nat /\ out' \in Nat
        /\ \A c \in 1 .. elements : c # b => content'[c] = content[c]
    <3>1. b \in 1 .. Len(content)
      BY <1>1, <2>1 DEF PCore, PoolTypes
    <3>2. content \in Seq(Nat) /\ Len(content) = elements /\ fed \in Nat /\ out \in Nat
      BY DEF PCore, PoolTypes
    <3>3. content[b] \in Nat /\ fed + 1 \in Nat
      BY <3>1, <3>2
    <3>4. PICK x \in Nat : content' = [content EXCEPT ![b] = x]
      BY <1>1, <1>5, <3>3, PoolConstants, TcpAssumption DEF Put, Work, b
    <3>5. fed' \in Nat /\ out' \in Nat
      BY <1>1, <1>5, <3>2, <3>3, PoolConstants, TcpAssumption DEF Put, Work, b
    <3> QED
      BY <3>1, <3>2, <3>4, <3>5, ExceptFacts
  <2>5. PoolTypes'
    BY <1>1, <1>2, <2>2, <2>3, <2>4 DEF PCore, PoolTypes
  \* An index of the new queues is one of the old, or the end of queue nx.
  <2>6. ASSUME NEW i \in Ids, NEW n \in 1 .. Len(queues'[i])
        PROVE  \/ n \in 1 .. Len(queues[i]) /\ queues'[i][n] = queues[i][n]
               \/ i = nx /\ n = l /\ queues'[i][n] = b
    <3>1. CASE i = nx
      <4>1. n \in 1 .. l /\ queues'[i] = Append(q, b) /\ queues[i] = q
        BY <2>2, <2>3, <2>6, <3>1 DEF q
      <4>2. n \in 1 .. Len(q) \/ n = l
        BY <2>2, <4>1
      <4> QED
        BY <2>2, <3>1, <4>1, <4>2
    <3>2. CASE i # nx
      BY <2>3, <2>6, <3>2
    <3> QED
      BY <3>1, <3>2
  <2>7. \A i \in Ids : \A n \in 1 .. Len(queues[i]) :
          queues[i][n] # b /\ queues[i][n] \in 1 .. elements
    BY SMTT(30), <1>1 DEF PCore, PoolTypes, PoolHeld, OnePlace, b
  <2>8. PoolHeld'
    <3>1. \A i \in Ids : \A n \in 1 .. Len(queues'[i]) : queues'[i][n] <= elements'
      <4>1. ASSUME NEW i \in Ids, NEW n \in 1 .. Len(queues'[i])
            PROVE  queues'[i][n] <= elements
        <5>1. \/ n \in 1 .. Len(queues[i]) /\ queues'[i][n] = queues[i][n]
              \/ queues'[i][n] = b
          BY <2>6
        <5> QED
          BY <1>1, <2>1, <2>7, <5>1
      <4> QED
        BY <1>2, <4>1
    <3>2. \A u \in Threads : hold'[u] <= elements'
      <4>1. ASSUME NEW u \in Threads PROVE hold'[u] <= elements'
        <5>1. CASE u = t
          BY <1>1, <1>2, <5>1
        <5>2. CASE u # t
          BY <1>2, <1>5, <5>2 DEF PCore, PoolHeld
        <5> QED
          BY <5>1, <5>2
      <4> QED
        BY <4>1
    <3> QED
      BY <1>2, <1>5, <3>1, <3>2 DEF PoolHeld
  <2>9. OnePlace'
    <3>1. ASSUME NEW c \in 1 .. elements'
          PROVE  \/ \E i \in Ids : \E n \in 1 .. Len(queues'[i]) : queues'[i][n] = c
                 \/ \E u \in Threads : hold'[u] = c
      <4>1. CASE \E i \in Ids : \E n \in 1 .. Len(queues[i]) : queues[i][n] = c
        <5>1. PICK i \in Ids : \E n \in 1 .. Len(queues[i]) : queues[i][n] = c
          BY <4>1
        <5>2. PICK n \in 1 .. Len(queues[i]) : queues[i][n] = c
          BY <5>1
        <5>3. n \in 1 .. Len(queues'[i]) /\ queues'[i][n] = c
          <6>1. CASE i = nx
            <7>1. n \in 1 .. Len(q) /\ q[n] = c
              BY <5>2, <6>1 DEF q
            <7>2. n \in 1 .. Len(Append(q, b)) /\ Append(q, b)[n] = c
              BY <2>2, <7>1
            <7> QED
              BY <2>3, <6>1, <7>2
          <6>2. CASE i # nx
            BY <2>3, <5>2, <6>2
          <6> QED
            BY <6>1, <6>2
        <5> QED
          BY <5>3
      <4>2. CASE \E u \in Threads \ {t} : hold[u] = c
        BY <1>2, <4>2
      <4>3. CASE c = b
        <5>1. l \in 1 .. Len(queues'[nx]) /\ queues'[nx][l] = b
          <6>1. l \in 1 .. Len(Append(q, b))
            BY <2>2
          <6> QED
            BY <2>2, <2>3, <6>1
        <5> QED
          BY <1>1, <4>3, <5>1
      <4> QED
        BY SMTT(30), <1>2, <4>1, <4>2, <4>3 DEF PCore, OnePlace, Buffers, b
    <3>2. ASSUME NEW i \in Ids, NEW j \in Ids, NEW n \in 1 .. Len(queues'[i]),
                 NEW m \in 1 .. Len(queues'[j]), queues'[i][n] = queues'[j][m]
          PROVE  i = j /\ n = m
      <4>1. \/ n \in 1 .. Len(queues[i]) /\ queues'[i][n] = queues[i][n]
            \/ i = nx /\ n = l /\ queues'[i][n] = b
        BY <2>6
      <4>2. \/ m \in 1 .. Len(queues[j]) /\ queues'[j][m] = queues[j][m]
            \/ j = nx /\ m = l /\ queues'[j][m] = b
        BY <2>6
      <4> QED
        BY SMTT(30), <2>7, <3>2, <4>1, <4>2 DEF PCore, OnePlace
    <3>3. ASSUME NEW u \in Threads, NEW i \in Ids, NEW n \in 1 .. Len(queues'[i])
          PROVE  queues'[i][n] # hold'[u]
      <4>1. \/ n \in 1 .. Len(queues[i]) /\ queues'[i][n] = queues[i][n]
            \/ i = nx /\ n = l /\ queues'[i][n] = b
        BY <2>6
      <4>2. CASE u = t
        BY <1>1, <1>2, <2>7, <4>1, <4>2
      <4>3. CASE u # t
        BY <1>2, <4>1, <4>3 DEF PCore, OnePlace
      <4> QED
        BY <4>2, <4>3
    <3>4. \A u, v \in Threads : hold'[u] = hold'[v] /\ u # v => hold'[u] = 0
      BY <1>1, <1>2, PoolConstants
    <3> QED
      BY <1>2, <3>1, <3>2, <3>3, <3>4 DEF PCore, OnePlace, Buffers
  <2>10. PoolOrder'
    <3>0. \A n \in 1 .. Len(queues[1]) : content[queues[1][n]] = out + Serves + n
      BY <1>5 DEF PCore, PoolOrder
    <3>1. /\ fed = out + Serves + Len(queues[1]) /\ Len(queues[1]) \in Nat
          /\ fed \in Nat /\ out \in Nat /\ Serves \in Nat
      BY <1>5, PoolConstants DEF PCore, PoolTypes, PoolOrder, Serves
    <3>7. fed \in Nat /\ out \in Nat /\ Serves \in Nat
      BY <3>1
    <3>8. fed + 1 = out + Serves + (Len(queues[1]) + 1)
      <4>1. PICK n1 \in Nat : n1 = Len(queues[1]) /\ fed = out + Serves + n1
        BY <3>1
      <4>2. n1 \in Nat /\ fed = out + Serves + n1
        BY <4>1
      <4>3. fed + 1 = out + Serves + (n1 + 1)
        BY <3>7, <4>2
      <4> QED
        BY <4>1, <4>3
    <3>2. CASE t = "feed"
      <4>1. nx = 1 /\ q = queues[1] /\ hold'["server"] = hold["server"] /\ hold["server"] # b
            /\ wpc'["server"] = wpc["server"] /\ Serves' = Serves
        BY <1>2, <3>2, PoolConstants DEF Serves, q, nx
      <4>2. fed' = fed + 1 /\ out' = out /\ content'[b] = fed + 1
        BY SMTT(30), <1>1, <1>5, <2>1, <3>2, PoolConstants DEF PCore, PoolTypes, Put, Work, b
      <4>3. Len(queues'[1]) = Len(queues[1]) + 1
        BY <2>2, <2>3, <4>1
      <4>4. fed' = out' + Serves' + Len(queues'[1])
        BY <3>8, <4>1, <4>2, <4>3
      <4>5. wpc'["server"] = "has" => content'[hold'["server"]] = out' + 1
        <5>1. wpc["server"] = "has" => hold["server"] \in 1 .. elements
          BY <1>1, <1>5, PoolConstants DEF PCore, PoolTypes, PoolWork, PoolHeld
        <5> QED
          BY <1>5, <2>4, <4>1, <4>2, <5>1 DEF PCore, PoolOrder
      <4>6. ASSUME NEW n \in 1 .. Len(queues'[1])
            PROVE  content'[queues'[1][n]] = out' + Serves' + n
        <5>1. \/ n \in 1 .. Len(queues[1]) /\ queues'[1][n] = queues[1][n]
              \/ n = l /\ queues'[1][n] = b
          BY <2>6, <4>1, <4>6, PoolConstants
        <5>2. CASE n \in 1 .. Len(queues[1]) /\ queues'[1][n] = queues[1][n]
          <6>1. content'[queues[1][n]] = content[queues[1][n]]
            BY <2>4, <2>7, <5>2, PoolConstants
          <6> QED
            BY <3>0, <4>1, <4>2, <5>2, <6>1
        <5>3. CASE n = l /\ queues'[1][n] = b
          <6>1. n = Len(queues[1]) + 1
            BY <4>1, <5>3
          <6> QED
            BY <3>8, <4>1, <4>2, <5>3, <6>1
        <5> QED
          BY <5>1, <5>2, <5>3
      <4> QED
        BY <4>4, <4>5, <4>6 DEF PoolOrder
    <3>3. CASE t = "server"
      <4>1. nx = 0 /\ queues'[1] = queues[1] /\ wpc'["server"] = "out"
            /\ Serves = 1 /\ Serves' = 0
        BY <1>1, <1>2, <2>3, <3>3, PoolConstants DEF Serves, nx
      <4>2. fed' = fed /\ out' = content[b]
        BY <1>5, <3>3, PoolConstants, TcpAssumption DEF Put, Work, b
      <4>3. content[b] = out + 1
        BY <1>1, <1>5, <3>3 DEF PCore, PoolOrder, b
      <4>4. fed' = out' + Serves' + Len(queues'[1])
        BY <3>1, <4>1, <4>2, <4>3
      <4>5. ASSUME NEW n \in 1 .. Len(queues'[1])
            PROVE  content'[queues'[1][n]] = out' + Serves' + n
        <5>1. n \in 1 .. Len(queues[1]) /\ queues'[1][n] = queues[1][n]
          BY <4>1, <4>5
        <5> QED
          <6>1. content'[queues[1][n]] = content[queues[1][n]]
            BY <2>4, <2>7, <5>1, PoolConstants
          <6>2. content[queues[1][n]] = out + 1 + n
            BY <3>0, <4>1, <5>1
          <6> QED
            BY <3>1, <4>1, <4>2, <4>3, <5>1, <6>1, <6>2
      <4> QED
        BY <4>1, <4>4, <4>5 DEF PoolOrder
    <3> QED
      BY <1>1, <3>2, <3>3
  <2> QED
    BY <1>3, <2>5, <2>8, <2>9, <2>10 DEF PCore
<1> QED
  BY <1>4, <1>5

\* Whatever a thread does with the pool.
LEMMA StepKeepsPool ==
  ASSUME PCore, NEW t \in Threads, Step(t),
         wpc \in [Threads -> WaitPlaces]
  PROVE  PCore'
<1>1. wpc \in [Threads -> WaitPlaces] /\ t \in {"feed", "server"}
  BY PoolConstants
<1>2. ASSUME NEW to \in {"miss", "wait", "none"}, Take(t, to), valid \/ to = "none", wpc[t] # "has",
             UNCHANGED <<elements, valid, content, fed, out>>
      PROVE  PCore'
  <2>1. CASE queues[StageOf[t]] # <<>>
    BY <1>1, <1>2, <2>1, TakesBuffer DEF Take, PoolGoto
  <2>2. CASE queues[StageOf[t]] = <<>>
    <3>1. PoolGoto(t, to) /\ UNCHANGED <<queues, hold>> /\ to \in WaitPlaces \ {"has", "create"}
      BY <1>2, <2>2 DEF Take, WaitPlaces
    <3> QED
      BY <1>1, <1>2, <3>1, MovesOnly
  <2> QED
    BY <2>1, <2>2
<1>3. ASSUME Refuse(t), wpc[t] # "has", UNCHANGED <<elements, valid, content, fed, out>>
      PROVE  PCore'
  <2>1. PoolGoto(t, "none") /\ UNCHANGED <<queues, hold>>
    BY <1>3 DEF Refuse
  <2> QED
    BY <1>1, <1>3, <2>1, MovesOnly DEF WaitPlaces
<1>4. CASE Get(t)
  BY <1>2, <1>3, <1>4 DEF Get
<1>5. CASE SeesRoom(t)
  <2>1. /\ PoolGoto(t, "create") /\ wpc[t] # "has" /\ t = "feed" /\ elements < MaxElements
        /\ valid /\ UNCHANGED <<queues, elements, valid, hold, content, fed, out>>
    BY <1>1, <1>5, PoolConstants DEF SeesRoom, MayCreate, PCore, PoolWork
  <2> QED
    BY <1>1, <2>1, MovesOnly DEF WaitPlaces
<1>6. CASE Create(t)
  BY <1>1, <1>6, CreatesBuffer
<1>7. CASE Block(t)
  BY <1>2, <1>3, <1>7 DEF Block
<1>8. CASE WakeUp(t)
  BY <1>2, <1>8 DEF WakeUp
<1>9. CASE GiveUp(t)
  <2>1. /\ PoolGoto(t, "out") /\ wpc[t] # "has"
        /\ UNCHANGED <<queues, elements, valid, hold, content, fed, out>>
    BY <1>9 DEF GiveUp
  <2> QED
    BY <1>1, <2>1, MovesOnly DEF WaitPlaces
<1>10. CASE Put(t)
  BY <1>1, <1>10, PutsBuffer
<1> QED
  BY <1>4, <1>5, <1>6, <1>7, <1>8, <1>9, <1>10 DEF Step

-----------------------------------------------------------------------------
(* The pool among the threads of the server.                               *)

\* pool_free, when nobody feeds.
LEMMA FreesPool ==
  ASSUME PCore, PoolFreed, wpc["feed"] = "out" PROVE PCore'
<1>1. queues' \in [Ids -> Seq(Nat \ {0})] /\ \A i \in Ids : queues'[i] = <<>>
  BY DEF PoolFreed
<1>2. elements' = 0 /\ content' \in Seq(Nat) /\ Len(content') = 0 /\ valid' = FALSE
      /\ UNCHANGED <<wpc, hold, fed, out>>
  BY DEF PoolFreed
<1>3. PoolTypes' /\ PoolHeld' /\ PoolOrder'
  <2>1. PoolTypes'
    BY <1>1, <1>2 DEF PCore, PoolTypes
  <2>2. PoolHeld' /\ PoolOrder'
    BY <1>1, <1>2 DEF PoolHeld, PoolOrder
  <2> QED
    BY <2>1, <2>2
<1>4. PoolWork'
  BY <1>2 DEF PCore, PoolWork
<1>5. OnePlace'
  <2>1. \A b \in 1 .. elements' : FALSE
    BY <1>2
  <2>2. \A i \in Ids : \A n \in 1 .. Len(queues'[i]) : FALSE
    BY <1>1
  <2>3. elements' <= MaxElements
    BY <1>2, PoolConstants
  <2> QED
    BY <1>2, <2>1, <2>2, <2>3 DEF PCore, OnePlace, Buffers
<1> QED
  BY <1>3, <1>4, <1>5 DEF PCore

\* Nothing happens to the pool.
LEMMA LeavesPool ==
  ASSUME PCore, UNCHANGED poolVars PROVE PCore'
<1>1. UNCHANGED <<queues, elements, valid, wpc, hold, content, fed, out>>
  BY DEF poolVars
<1>2. PoolTypes' /\ PoolWork' /\ PoolHeld'
  BY <1>1 DEF PCore, PoolTypes, PoolWork, PoolHeld
<1>3. OnePlace'
  BY <1>1 DEF PCore, OnePlace, Buffers
<1>4. PoolOrder'
  <2>1. Serves' = Serves
    BY <1>1 DEF Serves
  <2> QED
    BY <1>1, <2>1 DEF PCore, PoolOrder
<1> QED
  BY <1>2, <1>3, <1>4 DEF PCore

\* The calls of sdrtcp_cleanup.
Cleans == (\E t \in Stoppers : StopCleans(t)) \/ Unopen \/ Unserve \/ FinalCleans

\* Which they are: who calls it, from where, and where he goes on.
LEMMA CleanCalls ==
  ASSUME Cleans
  PROVE  \E t \in {"driver", "server", "command", "java"} :
         \E from \in {"stopclean", "unopen", "unserve", "cleanup"} :
         \E to \in {"done", "read", "idle", "listen", "closedcb"} :
           /\ Cleanup(t, from, to)
           /\ \/ t \in Stoppers /\ from = "stopclean" /\ to = After[t]
              \/ t = "driver" /\ from = "unopen" /\ to = "done"
              \/ t = "driver" /\ from = "unserve" /\ to = "read"
              \/ t = "server" /\ from = "cleanup" /\ to = "closedcb"
<1>1. CASE \E t \in Stoppers : StopCleans(t)
  <2>1. PICK t \in Stoppers : Cleanup(t, "stopclean", After[t])
    BY <1>1 DEF StopCleans
  <2>2. After[t] \in {"done", "idle", "listen"} /\ t \in {"driver", "command", "java"}
    BY DEF After, Stoppers
  <2> QED
    BY <2>1, <2>2
<1>2. CASE Unopen \/ Unserve \/ FinalCleans
  BY <1>2 DEF Unopen, Unserve, FinalCleans
<1> QED
  BY <1>1, <1>2 DEF Cleans

\* sdrtcp_cleanup frees the pool under the lock, and so not while somebody feeds.
LEMMA FreesUnderLock ==
  ASSUME TInv, Cleans
  PROVE  (PoolFreed /\ wpc["feed"] = "out") \/ UNCHANGED poolVars
<1>1. PICK t \in {"driver", "server", "command", "java"},
           from \in {"stopclean", "unopen", "unserve", "cleanup"},
           to \in {"done", "read", "idle", "listen", "closedcb"} : Cleanup(t, from, to)
  BY CleanCalls
<1>2. CASE CleanupFrees(t)
  <2>1. locker # "feed"
    BY <1>2 DEF CleanupFrees
  <2> QED
    BY <1>2, <2>1, TcpAssumption DEF CleanupFrees, TInv, PlacesOK, FeederLocks
<1>3. CASE CleanupStarts(t) \/ CleanupCloses(t) \/ CleanupEnds(t, to)
  BY <1>3 DEF CleanupStarts, CleanupCloses, CleanupEnds
<1> QED
  BY <1>1, <1>2, <1>3 DEF Cleanup

\* sdrtcp_cleanup
LEMMA CleanupKeepsPool ==
  ASSUME TInv, PCore, Cleans PROVE PCore'
BY FreesUnderLock, FreesPool, LeavesPool

\* What a call of it leaves alone.
LEMMA CleanupLeaves ==
  ASSUME NEW t, NEW from, NEW to, Cleanup(t, from, to)
  PROVE  /\ pc[t] = from /\ pc' \in {pc, [pc EXCEPT ![t] = to]}
         /\ UNCHANGED <<wpc, hold, fed, out, stream, dev, closed, peer, inbox, closes, failures>>
BY DEF Cleanup, CleanupStarts, CleanupCloses, CleanupFrees, CleanupEnds, PoolFreed, poolVars, At, Go

\* The driver makes the pool, and the dongle info in it, for the server to come.
LEMMA MakesPool ==
  ASSUME TInv, PInv, PoolUp PROVE PCore'
<1>1. wpc["feed"] = "out" /\ wpc["server"] = "out" /\ ~valid /\ fed = 0 /\ out = 0
  BY TcpAssumption DEF PoolUp, At, TInv, PlacesOK, FeederLocks, ThreadOrder, BeforeStart, PInv, PoolUsers
<1>2. /\ queues' = [i \in Ids |-> IF i = 1 THEN <<1>> ELSE <<>>]
      /\ elements' = 1 /\ content' = <<1>> /\ fed' = 1 /\ valid' = TRUE
      /\ UNCHANGED <<wpc, hold, out>>
  BY DEF PoolUp
<1>3. hold' \in [Threads -> Nat] /\ \A t \in Threads : hold'[t] = 0 /\ wpc'[t] = "out"
  BY <1>1, <1>2, PoolConstants DEF PInv, PoolTypes, PoolWork
<1>4. queues'[0] = <<>> /\ queues'[1] = <<1>> /\ Len(queues'[0]) = 0 /\ Len(queues'[1]) = 1
      /\ queues'[1][1] = 1
  BY <1>2, PoolConstants
<1>5. PoolTypes'
  BY <1>1, <1>2, <1>3, PoolConstants DEF PInv, PoolTypes
<1>6. PoolWork'
  BY <1>2, <1>3, PoolConstants DEF PoolWork
<1>7. PoolHeld'
  BY <1>2, <1>3, <1>4, PoolConstants DEF PoolHeld
<1>8. OnePlace'
  <2>1. elements' <= MaxElements /\ \A b \in 1 .. elements' : b = 1
    BY <1>2, PoolConstants
  <2>2. 1 \in Ids /\ 1 \in 1 .. Len(queues'[1]) /\ queues'[1][1] = 1
    BY <1>4, PoolConstants
  <2>3. \A i \in Ids : \A n \in 1 .. Len(queues'[i]) : i = 1 /\ n = 1 /\ queues'[i][n] # 0
    <3>1. \A n \in 1 .. Len(queues'[0]) : FALSE
      BY <1>4
    <3>2. \A n \in 1 .. Len(queues'[1]) : n = 1 /\ queues'[1][n] # 0
      BY <1>4
    <3> QED
      BY <3>1, <3>2, PoolConstants
  <2> QED
    BY <1>3, <2>1, <2>2, <2>3 DEF OnePlace, Buffers
<1>9. PoolOrder'
  <2>1. Serves' = 0
    BY <1>3, PoolConstants DEF Serves
  <2>2. \A n \in 1 .. Len(queues'[1]) : n = 1
    BY <1>4
  <2> QED
    BY <1>1, <1>2, <1>3, <1>4, <2>1, <2>2, PoolConstants DEF PoolOrder
<1> QED
  BY <1>5, <1>6, <1>7, <1>8, <1>9 DEF PCore

\* All that a step of the server does to its pool.
LEMMA PoolSteps ==
  ASSUME Next
  PROVE  UNCHANGED poolVars \/ Cleans \/ PoolUp \/ \E t \in Threads : Step(t)
<1>1. CASE Driver
  BY <1>1 DEF OnlyPc, OnlyState, poolVars, Driver, Open, Socket, AssignSocket, SetOpen, Bind,
     Verify, SetDev, Serve, Start, Read, ReadEnds, CloseDevice, Stop, StopReads, StopWrites,
     Stoppers, Cleans
<1>2. CASE Feed
  BY <1>2, PoolConstants DEF Feed, FeedLocks, FeedPool, FeedUnlocks, poolVars
<1>3. CASE Server
  BY <1>3, PoolConstants DEF OnlyPc, OnlyState, poolVars, Server, Accept, Accepted, WaitEnds,
     CheckClient, SetServing, ServeGets, SendBegins, SendFails, SendFailed, ServeDrops, ServeEnds,
     Join, Final, CallsClosed, Step, Cleans
<1>4. CASE Command
  BY <1>4 DEF OnlyPc, OnlyState, poolVars, Command, ListenEnds, Receives, ReceiveFailed, Executed,
     Stop, StopReads, StopWrites, Stoppers, Cleans
<1>5. CASE Java
  BY <1>5 DEF OnlyState, poolVars, Java, Stop, StopReads, StopWrites, Stoppers, Cleans
<1>6. CASE Sent
  BY <1>6, PoolConstants DEF Sent, Step
<1>7. CASE StreamFails \/ Feeds \/ AcceptFails \/ ReceiveFails \/ JavaCloses \/ Peer
  BY <1>7 DEF OnlyPc, poolVars, StreamFails, Feeds, AcceptFails, ReceiveFails, JavaCloses, Peer
<1> QED
  BY <1>1, <1>2, <1>3, <1>4, <1>5, <1>6, <1>7 DEF Next

\* Every step keeps the pool in order.
LEMMA NextKeepsCore ==
  ASSUME TInv, PInv, Next PROVE PCore'
<1>1. PCore /\ wpc \in [Threads -> WaitPlaces]
  BY DEF PInv, PCore, TInv, PlacesOK, WaitPlaces
<1>2. CASE UNCHANGED poolVars
  BY <1>1, <1>2, LeavesPool
<1>3. CASE Cleans
  BY <1>1, <1>3, CleanupKeepsPool
<1>4. CASE PoolUp
  BY <1>4, MakesPool
<1>5. ASSUME NEW t \in Threads, Step(t) PROVE PCore'
  BY <1>1, <1>5, StepKeepsPool
<1> QED
  BY <1>2, <1>3, <1>4, <1>5, PoolSteps

\* A thread is in the pool only where the code calls it.
LEMMA NextKeepsUsers ==
  ASSUME TInv, PInv, Next PROVE PoolUsers'
<1> USE DEF Places, BeforeStart, AfterStart, WithoutCommand, At, Go, OnlyPc, OnlyState, Unlocked,
            poolVars, Actors, PoolUsers
<1>1. /\ PoolUsers /\ pc \in [Actors -> Places] /\ wpc \in [Threads -> WaitPlaces]
      /\ pc["driver"] \in BeforeStart \union AfterStart
      /\ pc["driver"] \in BeforeStart => pc["server"] = "none"
      /\ wpc["feed"] # "out" => pc["feed"] = "feed"
      /\ Threads = {"feed", "server"}
  BY TcpAssumption DEF PInv, TInv, PlacesOK, FeederLocks, ThreadOrder, WaitPlaces
<1>9. CASE Cleans
  <2>1. PICK t \in {"driver", "server", "command", "java"},
             from \in {"stopclean", "unopen", "unserve", "cleanup"},
             to \in {"done", "read", "idle", "listen", "closedcb"} : Cleanup(t, from, to)
    BY <1>9, CleanCalls
  <2>2. /\ pc[t] = from /\ pc' \in {pc, [pc EXCEPT ![t] = to]} /\ UNCHANGED <<wpc, fed, out>>
    BY <2>1, CleanupLeaves
  <2>3. valid' => valid
    BY <1>9, FreesUnderLock DEF PoolFreed
  <2> QED
    BY <1>1, <2>2, <2>3
<1>2. CASE Driver
  <2>1. CASE StopReads("driver") \/ StopWrites("driver")
    BY <1>1, <2>1 DEF StopReads, StopWrites, After
  <2>2. CASE PoolUp
    BY <1>1, <2>2 DEF PoolUp
  <2>3. CASE Cleans
    BY <1>9, <2>3
  <2>4. CASE Open
    BY <1>1, <2>4 DEF Open
  <2>7. CASE Socket \/ AssignSocket
    BY <1>1, <2>7 DEF Socket, AssignSocket
  <2>6. CASE SetOpen \/ Bind \/ Verify
    BY <1>1, <2>6 DEF SetOpen, Bind, Verify
  <2>5. CASE SetDev \/ Serve \/ Start \/ Read \/ ReadEnds \/ CloseDevice
    BY <1>1, <2>5 DEF SetDev, Serve, Start, Read, ReadEnds, CloseDevice
  <2> QED
    BY <1>2, <2>1, <2>2, <2>3, <2>4, <2>5, <2>6, <2>7 DEF Driver, Stop, Cleans, Stoppers
<1>3. CASE Feed
  <2>1. CASE FeedLocks \/ FeedUnlocks
    BY <1>1, <2>1 DEF FeedLocks, FeedUnlocks
  <2>2. CASE FeedPool
    BY <1>1, <2>2, PoolConstants DEF FeedPool, Step, Get, SeesRoom, Create, Block, WakeUp, GiveUp, Put, Take,
       Refuse, PoolGoto
  <2> QED
    BY <1>3, <2>1, <2>2 DEF Feed
<1>4. CASE Server
  <2>1. CASE Accept \/ Accepted \/ WaitEnds \/ CheckClient \/ SetServing
    BY <1>1, <2>1 DEF Accept, Accepted, WaitEnds, CheckClient, SetServing
  <2>2. CASE ServeGets
    BY <1>1, <2>2 DEF ServeGets, Get, Block, WakeUp, GiveUp, Take, Refuse, PoolGoto, tcpVars
  <2>3. CASE SendBegins \/ SendFails \/ SendFailed
    BY <1>1, <2>3 DEF SendBegins, SendFails, SendFailed
  <2>4. CASE ServeDrops
    BY <1>1, <2>4, PoolConstants DEF ServeDrops, Put, Work, PoolGoto, tcpVars
  <2>5. CASE ServeEnds \/ Join \/ Final \/ CallsClosed
    BY <1>1, <2>5 DEF ServeEnds, Join, Final, CallsClosed
  <2> QED
    BY <1>4, <1>9, <2>1, <2>2, <2>3, <2>4, <2>5 DEF Server, Cleans
<1>5. CASE Command
  <2>1. CASE StopReads("command") \/ StopWrites("command")
    BY <1>1, <2>1 DEF StopReads, StopWrites, After
  <2>2. CASE ListenEnds \/ Receives \/ ReceiveFailed \/ Executed
    BY <1>1, <2>2 DEF ListenEnds, Receives, ReceiveFailed, Executed
  <2> QED
    BY <1>5, <1>9, <2>1, <2>2 DEF Command, Stop, Cleans, Stoppers
<1>6. CASE Java
  <2>1. CASE StopReads("java") \/ StopWrites("java")
    BY <1>1, <2>1 DEF StopReads, StopWrites, After
  <2> QED
    BY <1>6, <1>9, <2>1 DEF Java, Stop, Cleans, Stoppers
<1>7. CASE Sent
  BY <1>1, <1>7, PoolConstants DEF Sent, Put, Work, PoolGoto
<1>8. CASE StreamFails \/ Feeds \/ AcceptFails \/ ReceiveFails \/ JavaCloses \/ Peer
  BY <1>1, <1>8 DEF StreamFails, Feeds, AcceptFails, ReceiveFails, JavaCloses, Peer
<1> QED
  BY <1>2, <1>3, <1>4, <1>5, <1>6, <1>7, <1>8 DEF Next

\* The device: ended only by closedcb or by a failure, freed only after that.
LEMMA NextKeepsDevice ==
  ASSUME TInv, DInv, Next PROVE DInv'
<1> USE DEF Places, BeforeStart, AfterStart, WithoutCommand, At, Go, OnlyPc, OnlyState, Actors, DInv
<1>1. /\ pc \in [Actors -> Places] /\ closed \in Nat
      /\ pc["driver"] \in BeforeStart \union AfterStart
      /\ pc["java"] \in {"idle"} \union Stopping
      /\ pc["server"] \in WithoutCommand => pc["command"] \in {"none", "done"}
      /\ pc["driver"] \in BeforeStart => pc["server"] = "none"
      /\ closed > 0 => pc["server"] \in {"none", "done"} /\ pc["driver"] \in AfterStart
  BY DEF TInv, PlacesOK, ThreadOrder, ClosedInv
<1>9. CASE Cleans
  <2>1. PICK t \in {"driver", "server", "command", "java"},
             from \in {"stopclean", "unopen", "unserve", "cleanup"},
             to \in {"done", "read", "idle", "listen", "closedcb"} : Cleanup(t, from, to)
    BY <1>9, CleanCalls
  <2>2. /\ pc[t] = from /\ pc' \in {pc, [pc EXCEPT ![t] = to]}
        /\ UNCHANGED <<stream, dev, closed, failures>>
    BY <2>1, CleanupLeaves
  <2> QED
    BY <1>1, <2>2
<1>2. CASE Driver
  <2>1. CASE StopReads("driver") \/ StopWrites("driver")
    BY <1>1, <2>1 DEF StopReads, StopWrites, After
  <2>2. CASE PoolUp
    BY <1>1, <2>2 DEF PoolUp
  <2>3. CASE Serve
    BY <1>1, <2>3 DEF Serve, ClosedCallback
  <2>4. CASE Open \/ Socket \/ AssignSocket \/ SetOpen \/ Bind \/ Verify
    <3>1. CASE Open
      BY <1>1, <3>1 DEF Open
    <3>2. CASE Socket \/ AssignSocket
      BY <1>1, <3>2 DEF Socket, AssignSocket
    <3>3. CASE SetOpen
      BY <1>1, <3>3 DEF SetOpen
    <3>4. CASE Bind
      BY <1>1, <3>4 DEF Bind
    <3>5. CASE Verify
      BY <1>1, <3>5 DEF Verify
    <3> QED
      BY <2>4, <3>1, <3>2, <3>3, <3>4, <3>5
  <2>5. CASE SetDev \/ Start \/ Read \/ ReadEnds \/ CloseDevice
    BY <1>1, <2>5 DEF SetDev, Start, Read, ReadEnds, CloseDevice
  <2> QED
    BY <1>2, <1>9, <2>1, <2>2, <2>3, <2>4, <2>5 DEF Driver, Stop, Cleans, Stoppers
<1>3. CASE Feed
  BY <1>1, <1>3 DEF Feed, FeedLocks, FeedPool, FeedUnlocks
<1>4. CASE Server
  <2>1. CASE Accept \/ Accepted \/ WaitEnds \/ CheckClient \/ SetServing \/ ServeGets \/ SendBegins
    BY <1>1, <2>1 DEF Accept, Accepted, WaitEnds, CheckClient, SetServing, ServeGets, SendBegins, tcpVars
  <2>2. CASE SendFails \/ SendFailed \/ ServeDrops \/ ServeEnds \/ Join \/ Final
    BY <1>1, <2>2 DEF SendFails, SendFailed, ServeDrops, ServeEnds, Join, Final, tcpVars
  <2>3. CASE CallsClosed
    BY <1>1, <2>3 DEF CallsClosed, ClosedCallback
  <2> QED
    BY <1>4, <1>9, <2>1, <2>2, <2>3 DEF Server, Cleans
<1>5. CASE Command
  <2>1. CASE StopReads("command") \/ StopWrites("command")
    BY <1>1, <2>1 DEF StopReads, StopWrites, After
  <2>2. CASE ListenEnds \/ Receives \/ ReceiveFailed \/ Executed
    BY <1>1, <2>2 DEF ListenEnds, Receives, ReceiveFailed, Executed
  <2> QED
    BY <1>5, <1>9, <2>1, <2>2 DEF Command, Stop, Cleans, Stoppers
<1>6. CASE Java
  <2>1. CASE StopReads("java") \/ StopWrites("java")
    BY <1>1, <2>1 DEF StopReads, StopWrites, After
  <2> QED
    BY <1>6, <1>9, <2>1 DEF Java, Stop, Cleans, Stoppers
<1>7. CASE StreamFails
  BY <1>1, <1>7, TcpAssumption DEF StreamFails
<1>8. CASE Feeds \/ Sent \/ AcceptFails \/ ReceiveFails \/ JavaCloses \/ Peer
  BY <1>1, <1>8 DEF Feeds, Sent, AcceptFails, ReceiveFails, JavaCloses, Peer
<1> QED
  BY <1>2, <1>3, <1>4, <1>5, <1>6, <1>7, <1>8 DEF Next

-----------------------------------------------------------------------------
(* The threads.                                                            *)

\* The names of the states and of the places, and the parts of the invariant,
\* are needed in every step.
USE DEF UNINITIALIZED, INITIALIZED, SOCKET_OPEN, CLIENT_OPEN, STARTED_ASYNC, SERVING,
        NEEDS_STOPPING, NotReady, Actors, Places, BeforeStart, AfterStart, WithoutCommand,
        Stopping, At, Go, OnlyPc, OnlyState, Unlocked, poolVars,
        TInv, PlacesOK, CleaningAt, CleanerLocks, FeederLocks, ThreadOrder, EarlyState, CleanedUp, ClosedInv

-----------------------------------------------------------------------------

\* sdrtcp_cleanup, whoever calls it.
LEMMA CleanupKeeps ==
  ASSUME TInv, Cleans PROVE TInv'
<1>1. PICK t \in {"driver", "server", "command", "java"},
           from \in {"stopclean", "unopen", "unserve", "cleanup"},
           to \in {"done", "read", "idle", "listen", "closedcb"} :
        /\ Cleanup(t, from, to)
        /\ \/ t \in Stoppers /\ from = "stopclean" /\ to = After[t]
           \/ t = "driver" /\ from = "unopen" /\ to = "done"
           \/ t = "driver" /\ from = "unserve" /\ to = "read"
           \/ t = "server" /\ from = "cleanup" /\ to = "closedcb"
  BY CleanCalls
<1>2. CleaningAt(t) /\ pc[t] = from /\ t \in Actors /\ closed' = closed
  BY <1>1, CleanupLeaves DEF Stoppers
<1>3. CASE CleanupStarts(t)
  BY <1>2, <1>3, TcpAssumption DEF CleanupStarts
<1>4. CASE CleanupCloses(t)
  BY <1>2, <1>4, TcpAssumption DEF CleanupCloses
<1>5. CASE CleanupFrees(t)
  BY <1>2, <1>5, TcpAssumption DEF CleanupFrees, PoolFreed
<1>6. CASE CleanupEnds(t, to)
  BY <1>1, <1>2, <1>6, TcpAssumption DEF CleanupEnds, After, Stoppers
<1> QED
  BY <1>1, <1>3, <1>4, <1>5, <1>6 DEF Cleanup

\* sdrtcp_stop_serving_client, whoever calls it.
LEMMA StopKeeps ==
  ASSUME TInv, NEW t \in Stoppers, Stop(t) PROVE TInv'
<1>1. CASE StopReads(t)
  BY <1>1, TcpAssumption DEF StopReads, After, Stoppers
<1>2. CASE StopCleans(t)
  BY <1>2, CleanupKeeps DEF Cleans
<1>3. CASE StopWrites(t)
  BY SMTT(30), <1>3, TcpAssumption DEF StopWrites, After, Stoppers
<1> QED
  BY <1>1, <1>2, <1>3 DEF Stop

\* The driver thread.
LEMMA DriverKeeps ==
  ASSUME TInv, Driver PROVE TInv'
<1>1. CASE Open
  BY <1>1, TcpAssumption DEF Open
<1>2. CASE PoolUp
  BY <1>2, TcpAssumption DEF PoolUp
<1>3. CASE Socket
  BY <1>3, TcpAssumption DEF Socket
<1>4. CASE AssignSocket
  BY <1>4, TcpAssumption DEF AssignSocket
<1>5. CASE SetOpen
  BY <1>5, TcpAssumption DEF SetOpen
<1>6. CASE Bind
  BY <1>6, TcpAssumption DEF Bind
<1>7. CASE Verify
  BY <1>7, TcpAssumption DEF Verify
<1>8. CASE Unopen
  BY <1>8, CleanupKeeps DEF Cleans
<1>9. CASE SetDev
  BY <1>9, TcpAssumption DEF SetDev
<1>10. CASE Serve
  BY <1>10, TcpAssumption DEF Serve, ClosedCallback
<1>11. CASE Unserve
  BY <1>11, CleanupKeeps DEF Cleans
<1>12. CASE Start
  BY <1>12, TcpAssumption DEF Start
<1>13. CASE Read
  BY <1>13, TcpAssumption DEF Read
<1>14. CASE ReadEnds
  BY <1>14, TcpAssumption DEF ReadEnds
<1>15. CASE CloseDevice
  BY <1>15, TcpAssumption DEF CloseDevice
<1>16. CASE Stop("driver")
  BY <1>16, StopKeeps DEF Stoppers
<1> QED
    BY <1>1, <1>2, <1>3, <1>4, <1>5, <1>6, <1>7, <1>8, <1>9, <1>10, <1>11,
     <1>12, <1>13, <1>14, <1>15, <1>16 DEF Driver

\* sdrtcp_feed.
LEMMA FeedKeeps ==
  ASSUME TInv, Feed PROVE TInv'
<1>1. CASE FeedLocks
  BY <1>1, TcpAssumption DEF FeedLocks
<1>2. CASE FeedPool
  BY <1>2, TcpAssumption DEF FeedPool, Step, Get, SeesRoom, Create, Block,
     WakeUp, GiveUp, Put, Take, Refuse, PoolGoto
<1>3. CASE FeedUnlocks
  BY SMTT(30), <1>3, TcpAssumption DEF FeedUnlocks
<1> QED
    BY <1>1, <1>2, <1>3 DEF Feed

\* The server thread.
LEMMA ServerKeeps ==
  ASSUME TInv, Server PROVE TInv'
<1>1. CASE Accept
  BY <1>1, TcpAssumption DEF Accept
<1>2. CASE Accepted
  BY <1>2, TcpAssumption DEF Accepted
<1>3. CASE WaitEnds
  BY <1>3, TcpAssumption DEF WaitEnds
<1>4. CASE CheckClient
  BY <1>4, TcpAssumption DEF CheckClient
<1>5. CASE SetServing
  BY <1>5, TcpAssumption DEF SetServing
<1>6. CASE ServeGets
  BY <1>6, TcpAssumption DEF ServeGets, Get, Block, WakeUp, GiveUp, Take,
     Refuse, PoolGoto, tcpVars
<1>7. CASE SendBegins
  BY <1>7, TcpAssumption DEF SendBegins
<1>8. CASE SendFails
  BY <1>8, TcpAssumption DEF SendFails
<1>9. CASE SendFailed
  BY <1>9, TcpAssumption DEF SendFailed
<1>10. CASE ServeDrops
  BY <1>10, TcpAssumption DEF ServeDrops, Put, PoolGoto, tcpVars
<1>11. CASE ServeEnds
  BY <1>11, TcpAssumption DEF ServeEnds
<1>12. CASE Join
  BY <1>12, TcpAssumption DEF Join
<1>13. CASE Final
  BY <1>13, TcpAssumption DEF Final
<1>14. CASE FinalCleans
  BY <1>14, CleanupKeeps DEF Cleans
<1>15. CASE CallsClosed
  BY <1>15, TcpAssumption DEF CallsClosed, ClosedCallback
<1> QED
    BY <1>1, <1>2, <1>3, <1>4, <1>5, <1>6, <1>7, <1>8, <1>9, <1>10, <1>11,
     <1>12, <1>13, <1>14, <1>15 DEF Server

\* The command thread.
LEMMA CommandKeeps ==
  ASSUME TInv, Command PROVE TInv'
<1>1. CASE ListenEnds
  BY <1>1, TcpAssumption DEF ListenEnds
<1>2. CASE Receives
  BY <1>2, TcpAssumption DEF Receives
<1>3. CASE ReceiveFailed
  BY <1>3, TcpAssumption DEF ReceiveFailed
<1>4. CASE Executed
  BY <1>4, TcpAssumption DEF Executed
<1>5. CASE Stop("command")
  BY <1>5, StopKeeps DEF Stoppers
<1> QED
    BY <1>1, <1>2, <1>3, <1>4, <1>5 DEF Command

\* The device, the application and the client.
LEMMA WorldKeeps ==
  ASSUME TInv,
         StreamFails \/ Feeds \/ Sent \/ AcceptFails \/ ReceiveFails \/ JavaCloses \/ Peer
  PROVE  TInv'
<1>1. CASE StreamFails
  BY <1>1, TcpAssumption DEF StreamFails
<1>2. CASE Feeds
  BY <1>2, TcpAssumption DEF Feeds
<1>3. CASE Sent
  BY <1>3, TcpAssumption DEF Sent, Put, PoolGoto
<1>4. CASE AcceptFails
  BY <1>4, TcpAssumption DEF AcceptFails
<1>5. CASE ReceiveFails
  BY <1>5, TcpAssumption DEF ReceiveFails
<1>6. CASE JavaCloses
  BY <1>6, TcpAssumption DEF JavaCloses
<1>7. CASE Peer
  BY SMTT(30), <1>7, TcpAssumption DEF Peer, Connects, Sends, Leaves
<1> QED
  BY <1>1, <1>2, <1>3, <1>4, <1>5, <1>6, <1>7

\* Every step keeps the invariant.
LEMMA NextKeeps == TInv /\ [Next]_vars => TInv'
<1> SUFFICES ASSUME TInv, [Next]_vars PROVE TInv'
  OBVIOUS
<1>1. CASE Java
  BY <1>1, StopKeeps DEF Java, Stoppers
<1>2. CASE UNCHANGED vars
  BY <1>2 DEF vars, tcpVars
<1> QED
  BY <1>1, <1>2, DriverKeeps, FeedKeeps, ServerKeeps, CommandKeeps, WorldKeeps DEF Next

LEMMA InitKeeps == Init => TInv
BY TcpAssumption DEF Init, PoolInit

-----------------------------------------------------------------------------

HIDE DEF TInv, poolVars

\* The inductive invariant of the server: the threads come and go in their
\* order, the feeder is in the pool only under the lock, and what has been cleaned
\* up stays so, however the unlocked writes of the state interleave.
THEOREM TcpInvariant == Spec => []TInv
BY InitKeeps, NextKeeps, PTL DEF Spec

\* closedcb is called once, with no command being executed nor to come; the port and the
\* pool have been given back by then, but for the call that sdrtcp_serve_client_async
\* makes while the application's close is still at it.
THEOREM ClosedComesLast == Spec => []ClosedIsLast
<1>1. TInv => ClosedIsLast
  BY DEF TInv, ClosedIsLast
<1> QED
  BY <1>1, TcpInvariant, PTL

\* pool_free is never called while a thread is inside pool_get_wait_lock on
\* behalf of sdrtcp_feed, for every number of buffers, stops and failures.
THEOREM FeederIsSafe == Spec => FeederKeepsPool
<1>1. TInv /\ [Next]_vars => [valid /\ ~valid' => wpc["feed"] = "out"]_vars
  <2> SUFFICES ASSUME TInv, Next, valid, ~valid'
               PROVE  wpc["feed"] = "out"
    BY DEF vars, poolVars
  <2>1. CASE Cleans
    BY <2>1, FreesUnderLock DEF poolVars
  <2>2. ~PoolUp
    BY DEF PoolUp
  <2>3. \A t \in Threads : ~Step(t)
    BY DEF Step, Get, SeesRoom, Create, Block, WakeUp, GiveUp, Put, Take, Refuse, PoolGoto
  <2> QED
    BY <2>1, <2>2, <2>3, PoolSteps DEF poolVars
<1> QED
  BY <1>1, TcpInvariant, PTL DEF Spec, FeederKeepsPool

\* The pool the threads share, for every number of buffers: it stays in order
\* however pool_get_wait_lock, pool_get_unlock and pool_free interleave.
THEOREM TcpPoolInvariant == Spec => []PInv
<1>1. Init => PInv
  <2> SUFFICES ASSUME Init PROVE PInv
    OBVIOUS
  <2>1. /\ queues = [i \in Ids |-> <<>>] /\ elements = 0 /\ valid = FALSE /\ content = <<>>
        /\ wpc = [t \in Threads |-> "out"] /\ hold = [t \in Threads |-> 0]
        /\ fed = 0 /\ out = 0
    BY DEF Init, PoolInit
  <2>2. PoolTypes
    <3>1. queues \in [Ids -> Seq(Nat \ {0})] /\ hold \in [Threads -> Nat]
      BY <2>1
    <3>2. content \in Seq(Nat) /\ Len(content) = elements
      BY <2>1
    <3>3. valid \in BOOLEAN
      BY <2>1
    <3>4. elements \in Nat /\ fed \in Nat /\ out \in Nat
      BY <2>1
    <3> QED
      BY <3>1, <3>2, <3>3, <3>4 DEF PoolTypes
  <2>3. PoolUsers
    BY <2>1, PoolConstants DEF Init, PoolUsers
  <2>4. PoolWork
    BY <2>1, PoolConstants DEF PoolWork
  <2>5. PoolHeld /\ PoolOrder
    BY <2>1 DEF PoolHeld, PoolOrder
  <2>6. OnePlace
    <3>1. \A b \in 1 .. elements : FALSE
      BY <2>1
    <3>2. \A i \in Ids : \A n \in 1 .. Len(queues[i]) : FALSE
      BY <2>1
    <3>3. elements <= MaxElements /\ \A t \in Threads : hold[t] = 0
      BY <2>1, PoolConstants
    <3> QED
      BY <3>1, <3>2, <3>3 DEF OnePlace, Buffers
  <2> QED
    BY <2>2, <2>3, <2>4, <2>5, <2>6 DEF PInv
<1>2. TInv /\ PInv /\ [Next]_vars => PInv'
  <2> SUFFICES ASSUME TInv, PInv, [Next]_vars PROVE PInv'
    OBVIOUS
  <2>1. CASE Next
    BY <2>1, NextKeepsCore, NextKeepsUsers DEF PInv, PCore
  <2>2. CASE UNCHANGED vars
    <3>1. UNCHANGED poolVars /\ UNCHANGED pc
      BY <2>2 DEF vars, tcpVars
    <3>2. PCore'
      BY <3>1, LeavesPool DEF PInv, PCore
    <3>3. PoolUsers'
      BY <3>1 DEF PInv, PoolUsers, poolVars
    <3> QED
      BY <3>2, <3>3 DEF PInv, PCore
  <2> QED
    BY <2>1, <2>2
<1> QED
  BY <1>1, <1>2, TcpInvariant, PTL DEF Spec

\* Every buffer is in one queue, once, or in the hands of one thread, and there are
\* never more than pool_init was asked for, though get_new_elements counts them
\* under no mutex.
THEOREM BuffersInOnePlace == Spec => []OnePlace
<1>1. PInv => OnePlace
  BY DEF PInv
<1> QED
  BY <1>1, TcpPoolInvariant, PTL

\* The client receives the dongle info and then what was fed, each buffer once, in
\* the order of the calls of sdrtcp_feed, whenever the server is stopped.
THEOREM SentOrdered == Spec => SentInOrder
<1>1. PInv /\ [Next]_vars => [out' # out => out' = out + 1]_vars
  <2> SUFFICES ASSUME PInv, Next, out' # out PROVE out' = out + 1
    OBVIOUS
  <2>1. PICK t \in Threads : Step(t)
    <3>1. ~Cleans
      <4>1. CASE Cleans
        <5>1. PICK t \in {"driver", "server", "command", "java"},
                   from \in {"stopclean", "unopen", "unserve", "cleanup"},
                   to \in {"done", "read", "idle", "listen", "closedcb"} : Cleanup(t, from, to)
          BY <4>1, CleanCalls
        <5> QED
          BY <5>1, CleanupLeaves
      <4> QED
        BY <4>1
    <3> QED
      BY <3>1, PoolSteps DEF PoolUp, poolVars
  <2>2. Put(t) /\ valid /\ Work(t)
    BY <2>1 DEF Step, Get, SeesRoom, Create, Block, WakeUp, GiveUp, Put
  <2>3. t = "server" /\ out' = content[hold[t]] /\ wpc[t] = "has"
    BY <2>2, PoolConstants, TcpAssumption DEF Put, Work
  <2> QED
    BY <2>2, <2>3 DEF PInv, PoolOrder
<1> QED
  BY <1>1, TcpPoolInvariant, PTL DEF Spec, SentInOrder

\* As long as the stream does not fail, no command is executed on a device that
\* openAsync has freed: only closedcb can have ended the stream, and the command
\* thread has been joined before.
THEOREM CommandsFindDevice == Spec => []CommandsOnOpenDevice
<1>1. Init => DInv
  BY DEF Init, DInv
<1>2. TInv /\ DInv /\ [Next]_vars => DInv'
  <2>1. DInv /\ UNCHANGED vars => DInv'
    BY DEF DInv, vars, tcpVars
  <2> QED
    BY <2>1, NextKeepsDevice
<1>3. TInv /\ DInv => CommandsOnOpenDevice
  BY DEF TInv, DInv, PlacesOK, ThreadOrder, ClosedInv, WithoutCommand, CommandsOnOpenDevice
<1> QED
  BY <1>1, <1>2, <1>3, TcpInvariant, PTL DEF Spec

=============================================================================
