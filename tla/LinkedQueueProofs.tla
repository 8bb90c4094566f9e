------------------------- MODULE LinkedQueueProofs -------------------------
(***************************************************************************)
(* queue.c implements a first-in first-out queue, for every set of         *)
(* payloads and every memory: the shape of the list is inductive, and under *)
(* it each call changes the payloads along the chain as Fifo says.         *)
(***************************************************************************)
EXTENDS LinkedQueue, SequenceTheorems, TLAPS

IInv == TypeOK /\ WellFormed /\ Loaded

LEMMA InitIInv == Init => IInv
  BY DEF Init, IInv, TypeOK, WellFormed, ChainIsLive, Linked, Loaded, Pointer, Element

\* queue_add keeps the list well formed.
LEMMA AddIInv ==
  ASSUME IInv, NEW p \in Payload, Add(p)
  PROVE  IInv'
<1>1. PICK c \in Cells \ live :
        /\ AddFirst(p, c) \/ AddLast(p, c)
        /\ live' = live \union {c}
        /\ chain' = Append(chain, c)
        /\ UNCHANGED popped
  BY DEF Add
<1>2. /\ chain \in Seq(Cells) /\ Len(chain) \in Nat
      /\ Len(chain') = Len(chain) + 1
      /\ chain'[Len(chain) + 1] = c
      /\ \A i \in 1 .. Len(chain) : chain'[i] = chain[i]
  BY <1>1 DEF IInv, TypeOK
<1>3. ChainIsLive'
  BY SMTT(30), <1>1, <1>2 DEF IInv, WellFormed, ChainIsLive, TypeOK
<1>4. CASE AddFirst(p, c)
  <2>1. chain = <<>>
    BY <1>4, <1>2, NullAssumption DEF AddFirst, IInv, WellFormed, Linked
  <2>2. TypeOK'
    BY <1>1, <1>4 DEF AddFirst, IInv, TypeOK, Pointer, Element
  <2>3. Linked' /\ Loaded'
    BY <1>1, <1>2, <1>4, <2>1 DEF AddFirst, IInv, TypeOK, Linked, Loaded
  <2> QED BY <1>3, <2>2, <2>3 DEF IInv, WellFormed
<1>5. CASE AddLast(p, c)
  <2> DEFINE tail == cell[head].last
  <2>1. /\ chain # <<>> /\ head = chain[1] /\ tail = chain[Len(chain)]
        /\ Len(chain) >= 1 /\ tail \in Cells /\ head \in Cells
        /\ c \in Cells /\ c # tail /\ c # head
        /\ cell \in [Cells -> Element]
    BY SMTT(30), <1>1, <1>2, <1>5, NullAssumption
    DEF AddLast, IInv, TypeOK, WellFormed, Linked, ChainIsLive
  <2>2. /\ cell'[c] = [last |-> NULL, next |-> NULL, prev |-> tail, payload |-> p]
        /\ cell' \in [Cells -> Element]
        /\ cell'[tail].next = c
        /\ \A d \in Cells \ {c} : /\ cell'[d].payload = cell[d].payload
                                  /\ cell'[d].prev = cell[d].prev
                                  /\ d # tail => cell'[d].next = cell[d].next
        /\ head' = head /\ cell'[head].last = c
    <3>0. head' = head
      BY <1>5 DEF AddLast
    <3>1. cell' = [cell EXCEPT
            ![c] = [last |-> NULL, next |-> NULL, prev |-> tail, payload |-> p],
            ![tail].next = c, ![head].last = c]
      BY <1>5 DEF AddLast
    <3>2. \A d \in Cells : cell[d] \in Element
      BY <2>1
    <3> HIDE DEF tail
    <3>3. /\ cell'[c] = [last |-> NULL, next |-> NULL, prev |-> tail, payload |-> p]
          /\ cell'[tail].next = c
          /\ cell'[head].last = c
      BY <2>1, <3>1, <3>2 DEF Element
    <3>4. \A d \in Cells \ {c} :
            /\ cell'[d].payload = cell[d].payload
            /\ cell'[d].prev = cell[d].prev
            /\ d # tail => cell'[d].next = cell[d].next
      BY <2>1, <3>1, <3>2 DEF Element
    <3>5. cell' \in [Cells -> Element]
      BY SMTT(30), <2>1, <3>1 DEF Element, Pointer
    <3> QED
      BY Zenon, <3>0, <3>3, <3>4, <3>5
  <2>3. TypeOK'
    BY <1>1, <2>1, <2>2 DEF IInv, TypeOK, Pointer
  <2>4. \A i \in 1 .. Len(chain) :
          /\ chain[i] \in Cells \ {c}
          /\ chain[i] = tail => i = Len(chain)
    BY <1>1, <1>2, <2>1 DEF IInv, WellFormed, ChainIsLive
  <2>5. Linked'
    <3>1. ASSUME NEW i \in 1 .. Len(chain), i < Len(chain)
          PROVE  /\ cell'[chain[i]].next = chain[i + 1]
                 /\ cell'[chain[i + 1]].prev = chain[i]
      <4>1. i + 1 \in 1 .. Len(chain) BY <3>1, <1>2
      <4>2. chain[i] # tail BY <2>4, <3>1
      <4> QED BY <2>2, <2>4, <3>1, <4>1, <4>2 DEF IInv, WellFormed, Linked
    <3>2. cell'[chain[Len(chain)]].next = c /\ cell'[c].prev = chain[Len(chain)]
      BY <2>1, <2>2
    <3>3. cell'[head].prev = NULL
      BY <2>1, <2>2 DEF IInv, WellFormed, Linked
    <3>4. cell'[c].next = NULL BY <2>2
    <3>5. ASSUME NEW i \in 1 .. Len(chain'), i < Len(chain')
          PROVE  /\ cell'[chain'[i]].next = chain'[i + 1]
                 /\ cell'[chain'[i + 1]].prev = chain'[i]
      <4>1. CASE i < Len(chain)
        BY <1>2, <3>1, <4>1
      <4>2. CASE i = Len(chain)
        BY <1>2, <2>1, <3>2, <4>2
      <4> QED BY <1>2, <3>5, <4>1, <4>2
    <3>6. chain'[1] = head /\ chain' # <<>> /\ chain'[Len(chain')] = c
      BY <1>2, <2>1
    <3> QED BY <2>2, <3>3, <3>4, <3>5, <3>6 DEF Linked
  <2>6. Loaded'
    BY <1>2, <2>2, <2>4 DEF IInv, Loaded
  <2> QED BY <1>3, <2>3, <2>5, <2>6 DEF IInv, WellFormed
<1> QED BY <1>1, <1>4, <1>5

\* What an addition does to the payloads along the chain.
LEMMA AddContents ==
  ASSUME IInv, NEW p \in Payload, Add(p)
  PROVE  Contents' = Append(Contents, p)
<1>1. PICK c \in Cells \ live :
        (AddFirst(p, c) \/ AddLast(p, c)) /\ chain' = Append(chain, c)
  BY DEF Add
<1>2. /\ chain \in Seq(Cells) /\ Len(chain) \in Nat /\ cell \in [Cells -> Element]
      /\ Len(chain') = Len(chain) + 1
      /\ chain'[Len(chain) + 1] = c
      /\ \A i \in 1 .. Len(chain) : chain'[i] = chain[i] /\ chain[i] \in Cells \ {c}
  BY <1>1 DEF IInv, TypeOK, WellFormed, ChainIsLive
<1>3. cell'[c].payload = p
  BY SMTT(30), <1>1, <1>2 DEF AddFirst, AddLast, IInv, WellFormed, Linked
<1>4. \A d \in Cells \ {c} : cell'[d].payload = cell[d].payload
  <2>1. CASE AddFirst(p, c)
    BY <1>2, <2>1 DEF AddFirst
  <2>2. CASE AddLast(p, c)
    <3>1. cell[head].last \in Cells /\ head \in Cells
      BY SMTT(30), <1>2, <2>2, NullAssumption DEF AddLast, IInv, TypeOK, WellFormed, Linked
    <3> QED BY <1>2, <2>2, <3>1 DEF AddLast, Element
  <2> QED BY <1>1, <2>1, <2>2
<1>5. Len(Contents) = Len(chain) /\ Contents \in Seq(Payload)
  BY <1>2 DEF Contents, IInv, Loaded
<1>6. Append(Contents, p) =
        [i \in 1 .. Len(chain) + 1 |-> IF i = Len(chain) + 1 THEN p ELSE cell[chain[i]].payload]
  BY <1>2, <1>5 DEF Contents
<1> QED BY <1>2, <1>3, <1>4, <1>6 DEF Contents

\* queue_pop keeps the list well formed.
LEMMA PopIInv ==
  ASSUME IInv, Pop
  PROVE  IInv'
<1> DEFINE second == cell[head].next
<1>1. /\ chain \in Seq(Cells) /\ Len(chain) \in Nat /\ chain # <<>> /\ Len(chain) >= 1
      /\ head = chain[1] /\ head \in Cells /\ cell \in [Cells -> Element]
      /\ cell[head].last = chain[Len(chain)]
  BY NullAssumption DEF Pop, IInv, TypeOK, WellFormed, Linked, Pointer
<1>2. /\ chain' \in Seq(Cells) /\ Len(chain') = Len(chain) - 1
      /\ \A i \in 1 .. Len(chain) - 1 : chain'[i] = chain[i + 1]
  BY <1>1 DEF Pop
<1>3. /\ Len(chain) = 1 => second = NULL
      /\ Len(chain) > 1 => second = chain[2] /\ second # NULL
  BY <1>1, NullAssumption DEF IInv, WellFormed, Linked
<1>4. /\ head' = second /\ live' = live \ {head}
      /\ popped' = cell[head].payload
      /\ cell' = IF second = NULL THEN cell ELSE Promote(second)
  BY DEF Pop
<1>5. popped' \in Payload /\ second \in Pointer
  BY <1>1, <1>4 DEF IInv, Loaded, Element
<1>6. CASE Len(chain) = 1
  <2>1. chain' = <<>> /\ head' = NULL /\ cell' = cell
    BY <1>2, <1>3, <1>4, <1>6
  <2>2. live' = {}
    BY <1>1, <1>4, <1>6 DEF IInv, WellFormed, ChainIsLive
  <2> QED BY <2>1, <2>2, <1>5 DEF IInv, TypeOK, WellFormed, ChainIsLive, Linked, Loaded, Pointer
<1>7. CASE Len(chain) > 1
  <2>1. second = chain[2] /\ second \in Cells /\ second # NULL
    BY <1>1, <1>3, <1>7
  <2>2. cell' = [cell EXCEPT ![second].prev = NULL, ![second].last = cell[head].last]
    BY <1>4, <2>1 DEF Promote
  <2>3. /\ cell' \in [Cells -> Element]
        /\ cell'[second].prev = NULL /\ cell'[second].last = chain[Len(chain)]
        /\ \A d \in Cells : /\ cell'[d].next = cell[d].next
                            /\ cell'[d].payload = cell[d].payload
                            /\ d # second => cell'[d].prev = cell[d].prev
    BY <1>1, <2>1, <2>2 DEF Element, Pointer
  <2>4. TypeOK'
    BY <1>2, <1>4, <1>5, <2>3 DEF IInv, TypeOK
  <2>5. ChainIsLive'
    <3>1. \A i, j \in 1 .. Len(chain') : chain'[i] = chain'[j] => i = j
      BY SMTT(30), <1>1, <1>2 DEF IInv, WellFormed, ChainIsLive
    <3>2. \A i \in 1 .. Len(chain') : chain'[i] \in live'
      BY <1>1, <1>2, <1>4 DEF IInv, WellFormed, ChainIsLive
    <3>3. \A d \in live' : \E i \in 1 .. Len(chain') : chain'[i] = d
      <4> TAKE d \in live'
      <4>1. PICK j \in 1 .. Len(chain) : chain[j] = d
        BY <1>4 DEF IInv, WellFormed, ChainIsLive
      <4>2. j # 1 BY <1>1, <1>4, <4>1
      <4>3. j - 1 \in 1 .. Len(chain') /\ chain'[j - 1] = d
        BY <1>1, <1>2, <4>1, <4>2
      <4> QED BY <4>3
    <3> QED BY <3>1, <3>2, <3>3 DEF ChainIsLive
  <2>6. Linked'
    <3>1. ASSUME NEW i \in 1 .. Len(chain'), i < Len(chain')
          PROVE  /\ cell'[chain'[i]].next = chain'[i + 1]
                 /\ cell'[chain'[i + 1]].prev = chain'[i]
      <4>1. /\ i + 1 \in 1 .. Len(chain) /\ i + 2 \in 1 .. Len(chain)
            /\ chain'[i] = chain[i + 1] /\ chain'[i + 1] = chain[i + 2]
            /\ chain[i + 1] \in Cells /\ chain[i + 2] \in Cells
        BY <1>1, <1>2, <3>1
      <4>2. chain[i + 2] # second
        BY <1>1, <1>7, <2>1, <4>1 DEF IInv, WellFormed, ChainIsLive
      <4>3. cell[chain[i + 1]].next = chain[i + 2] /\ cell[chain[i + 2]].prev = chain[i + 1]
        <5>1. i + 1 < Len(chain) /\ (i + 1) + 1 = i + 2
          BY <1>1, <1>2, <3>1
        <5> QED BY <4>1, <5>1 DEF IInv, WellFormed, Linked
      <4> QED BY <2>3, <4>1, <4>2, <4>3
    <3>2. chain'[1] = second /\ chain' # <<>> /\ chain'[Len(chain')] = chain[Len(chain)]
      BY <1>1, <1>2, <1>7, <2>1
    <3>3. cell'[chain[Len(chain)]].next = NULL
      BY <1>1, <2>3 DEF IInv, WellFormed, Linked
    <3> QED BY <1>4, <2>3, <3>1, <3>2, <3>3 DEF Linked
  <2>7. Loaded'
    BY SMTT(30), <1>1, <1>2, <2>3 DEF IInv, Loaded
  <2> QED BY <2>4, <2>5, <2>6, <2>7 DEF IInv, WellFormed
<1>8. Len(chain) = 1 \/ Len(chain) > 1
  <2>1. \A n \in Nat : n >= 1 => n = 1 \/ n > 1 OBVIOUS
  <2> QED BY <1>1, <2>1, Zenon
<1> QED BY <1>6, <1>7, <1>8

\* What queue_pop does to the payloads along the chain, and what it returns.
LEMMA PopContents ==
  ASSUME IInv, Pop
  PROVE  /\ Contents # <<>>
         /\ popped' = Head(Contents)
         /\ Contents' = Tail(Contents)
<1>1. /\ chain \in Seq(Cells) /\ Len(chain) \in Nat /\ Len(chain) >= 1
      /\ head = chain[1] /\ cell \in [Cells -> Element] /\ chain' = Tail(chain)
      /\ popped' = cell[head].payload
  BY DEF Pop, IInv, TypeOK, WellFormed, Linked
<1>2. /\ Contents \in Seq(Payload) /\ Len(Contents) = Len(chain)
      /\ \A i \in 1 .. Len(chain) : Contents[i] = cell[chain[i]].payload
  BY <1>1 DEF Contents, IInv, Loaded
<1>3. \A d \in Cells : cell'[d].payload = cell[d].payload
  <2>1. cell' = cell \/ \E e : cell' = Promote(e)
    BY DEF Pop
  <2>2. \A d \in Cells : cell[d] \in Element
    BY <1>1
  <2>3. ASSUME NEW e, cell' = Promote(e)
        PROVE  \A d \in Cells : cell'[d].payload = cell[d].payload
    BY <1>1, <2>2, <2>3 DEF Promote, Element
  <2> QED
    BY Zenon, <2>1, <2>3
<1>4. Contents' = [i \in 1 .. Len(chain) - 1 |-> cell'[chain[i + 1]].payload]
  <2>1. Len(chain') = Len(chain) - 1 /\ \A i \in 1 .. Len(chain) - 1 : chain'[i] = chain[i + 1]
    BY <1>1
  <2> QED BY <2>1 DEF Contents
<1>5. /\ Contents' \in Seq(Payload) /\ Len(Contents') = Len(chain) - 1
      /\ \A i \in 1 .. Len(chain) - 1 : Contents'[i] = Contents[i + 1]
  <2>1. ASSUME NEW i \in 1 .. Len(chain) - 1
        PROVE  i + 1 \in 1 .. Len(chain) /\ cell'[chain[i + 1]].payload = Contents[i + 1]
    <3>1. i + 1 \in 1 .. Len(chain) BY <1>1
    <3>2. chain[i + 1] \in Cells BY <1>1, <3>1
    <3> QED BY <1>2, <1>3, <3>1, <3>2
  <2>2. \A i \in 1 .. Len(chain) - 1 : Contents[i + 1] \in Payload
    BY <1>2, <2>1
  <2> DEFINE C == Contents
             D == Contents'
  <2>3. \A i \in 1 .. Len(chain) - 1 : C[i + 1] = cell'[chain[i + 1]].payload
    BY <2>1
  <2>4. D = [i \in 1 .. Len(chain) - 1 |-> C[i + 1]]
    <3>1. [i \in 1 .. Len(chain) - 1 |-> cell'[chain[i + 1]].payload]
            = [i \in 1 .. Len(chain) - 1 |-> C[i + 1]]
      BY <2>3, Zenon
    <3> QED BY <1>4, <3>1, Zenon
  <2>5. \A i \in 1 .. Len(chain) - 1 : C[i + 1] \in Payload
    BY <2>2
  <2> HIDE DEF C, D
  <2>6. D \in Seq(Payload) /\ Len(D) = Len(chain) - 1
    BY <1>1, <2>4, <2>5
  <2> QED BY <2>4, <2>6 DEF C, D
<1>6. Contents # <<>>
  BY <1>1, <1>2
<1>7. /\ Tail(Contents) \in Seq(Payload) /\ Len(Tail(Contents)) = Len(chain) - 1
      /\ \A i \in 1 .. Len(chain) - 1 : Tail(Contents)[i] = Contents[i + 1]
  BY <1>2, <1>6, HeadTailProperties
<1>8. Contents' = Tail(Contents)
  BY <1>1, <1>5, <1>7, SeqEqual
<1>9. popped' = Head(Contents)
  BY <1>1, <1>2, <1>6
<1> QED BY <1>6, <1>8, <1>9

\* The inductive step.
LEMMA NextIInv == IInv /\ [Next]_vars => IInv'
<1> SUFFICES ASSUME IInv, [Next]_vars PROVE IInv'
  OBVIOUS
<1>1. ASSUME NEW p \in Payload, Add(p) PROVE IInv'
  BY <1>1, AddIInv
<1>2. CASE Pop
  BY <1>2, PopIInv
<1>3. CASE PopNothing
  BY <1>3 DEF PopNothing, IInv, TypeOK, WellFormed, ChainIsLive, Linked, Loaded
<1>4. CASE UNCHANGED vars
  BY <1>4 DEF vars, IInv, TypeOK, WellFormed, ChainIsLive, Linked, Loaded
<1> QED BY <1>1, <1>2, <1>3, <1>4 DEF Next

\* The elements of the queue stay linked both ways, the head knows the last
\* one, and exactly the linked elements are allocated (queue_add, queue_pop).
THEOREM ListIsWellFormed == Spec => [](TypeOK /\ WellFormed /\ Loaded)
<1>1. Init => IInv BY InitIInv
<1>2. IInv /\ [Next]_vars => IInv' BY NextIInv
<1> QED BY <1>1, <1>2, PTL DEF Spec, IInv

\* queue.c implements the first-in first-out queue of Fifo.
THEOREM QueueIsFifo == Spec => ImplementsFifo
<1>1. Init => Abstract!Init
  BY DEF Init, Abstract!Init, Contents
<1>2. IInv /\ [Next]_vars => [Abstract!Next]_<<Contents, popped>>
  <2> SUFFICES ASSUME IInv, [Next]_vars PROVE [Abstract!Next]_<<Contents, popped>>
    OBVIOUS
  <2>1. ASSUME NEW p \in Payload, Add(p) PROVE Abstract!Next
    BY <2>1, AddContents DEF Abstract!Next, Abstract!Add, Add
  <2>2. CASE Pop
    BY <2>2, PopContents DEF Abstract!Next, Abstract!Pop
  <2>3. CASE PopNothing
    <3>1. Len(chain) = 0
      BY <2>3, NullAssumption DEF PopNothing, IInv, TypeOK, WellFormed, Linked
    <3>2. Contents = <<>> /\ Contents' = Contents
      BY <2>3, <3>1 DEF PopNothing, Contents
    <3> QED BY <2>3, <3>2 DEF PopNothing, Abstract!Next, Abstract!PopNothing
  <2>4. CASE UNCHANGED vars
    BY <2>4 DEF vars, Contents
  <2> QED BY <2>1, <2>2, <2>3, <2>4 DEF Next
<1>3. Spec => []IInv
  BY InitIInv, NextIInv, PTL DEF Spec
<1> QED BY <1>1, <1>2, <1>3, PTL DEF Spec, ImplementsFifo, Abstract!Spec

=============================================================================
