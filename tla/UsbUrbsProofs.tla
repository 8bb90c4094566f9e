--------------------------- MODULE UsbUrbsProofs ---------------------------
(***************************************************************************)
(* However a transfer is split and whatever the kernel does with it, short *)
(* of the races, its URBs are freed only when all of them are back, its    *)
(* data ends in the user's buffer in the order in which it came, and       *)
(* COMPLETED is reported only for a transfer that is.                      *)
(*                                                                         *)
(* First the invariant of who has which URB, UInv, step by step; then, on  *)
(* top of it, the invariant of what is in the URBs, DataInv, in the same   *)
(* order of the steps.                                                     *)
(***************************************************************************)
EXTENDS UsbUrbsInv, SequenceTheorems, FiniteSetTheorems, WellFoundedInduction, TLAPS

USE UrbAssumption

-----------------------------------------------------------------------------
(* Queues of URBs.                                                           *)

\* A queue that is added to another one.
LEMMA Joined ==
  ASSUME NEW k \in Nat, NEW s \in Seq(1 .. k), NEW r \in Seq(1 .. k), Once(s), Once(r),
         \A i \in 1 .. k : ~(Holds(s, i) /\ Holds(r, i))
  PROVE  /\ s \o r \in Seq(1 .. k) /\ Once(s \o r)
         /\ \A i \in Int : Holds(s \o r, i) <=> Holds(s, i) \/ Holds(r, i)
         /\ Rising(s) /\ Rising(r)
              /\ (\A i, j \in 1 .. k : Holds(s, i) /\ Holds(r, j) => i < j) => Rising(s \o r)
<1> DEFINE c == s \o r
<1>1. /\ Len(s) \in Nat /\ Len(r) \in Nat /\ DOMAIN s = 1 .. Len(s) /\ DOMAIN r = 1 .. Len(r)
      /\ c \in Seq(1 .. k) /\ DOMAIN c = 1 .. Len(s) + Len(r)
      /\ \A n \in 1 .. Len(s) : c[n] = s[n]
      /\ \A n \in 1 .. Len(r) : c[Len(s) + n] = r[n]
  OBVIOUS
<1>2. /\ \A n \in DOMAIN s : s[n] \in 1 .. k
      /\ \A n \in DOMAIN r : r[n] \in 1 .. k
  OBVIOUS
<1> HIDE DEF c
<1>3. ASSUME NEW n \in DOMAIN c
      PROVE  \/ n \in DOMAIN s /\ c[n] = s[n]
             \/ n - Len(s) \in DOMAIN r /\ c[n] = r[n - Len(s)] /\ n \in Int
  <2>1. CASE n \in 1 .. Len(s)
    BY <1>1, <2>1
  <2>2. CASE n \notin 1 .. Len(s)
    <3>1. n - Len(s) \in 1 .. Len(r) /\ Len(s) + (n - Len(s)) = n
      BY SMTT(30), <1>1, <2>2
    <3> QED
      BY <1>1, <3>1
  <2> QED
    BY <2>1, <2>2
<1>4. \A i \in Int : Holds(c, i) <=> Holds(s, i) \/ Holds(r, i)
  <2>1. \A n \in DOMAIN s : n \in DOMAIN c /\ c[n] = s[n]
    BY <1>1
  <2>2. \A n \in DOMAIN r : Len(s) + n \in DOMAIN c /\ c[Len(s) + n] = r[n]
    BY SMTT(30), <1>1
  <2> QED
    BY <1>3, <2>1, <2>2 DEF Holds
<1>5. Once(c)
  <2> SUFFICES ASSUME NEW m \in DOMAIN c, NEW n \in DOMAIN c, c[m] = c[n] PROVE m = n
    BY DEF Once
  <2>1. CASE m \in DOMAIN s /\ c[m] = s[m]
    <3>1. n \in DOMAIN s /\ c[n] = s[n]
      BY <1>2, <1>3, <2>1 DEF Holds
    <3> QED
      BY <2>1, <3>1 DEF Once
  <2>2. CASE m - Len(s) \in DOMAIN r /\ c[m] = r[m - Len(s)] /\ m \in Int
    <3>1. n - Len(s) \in DOMAIN r /\ c[n] = r[n - Len(s)] /\ n \in Int
      BY <1>2, <1>3, <2>2 DEF Holds
    <3>2. n - Len(s) = m - Len(s)
      BY <2>2, <3>1 DEF Once
    <3> QED
      BY <1>1, <2>2, <3>1, <3>2
  <2> QED
    BY <1>3, <2>1, <2>2
<1>6. ASSUME Rising(s), Rising(r), \A i, j \in 1 .. k : Holds(s, i) /\ Holds(r, j) => i < j
      PROVE  Rising(c)
  <2> SUFFICES ASSUME NEW m \in DOMAIN c, NEW n \in DOMAIN c, m < n PROVE c[m] < c[n]
    BY DEF Rising
  <2>1. CASE m \in DOMAIN s /\ n \in DOMAIN s
    BY <1>1, <1>6, <2>1 DEF Rising
  <2>2. CASE m \in DOMAIN s /\ n \notin DOMAIN s
    <3>1. c[m] = s[m] /\ n - Len(s) \in DOMAIN r /\ c[n] = r[n - Len(s)]
      BY <1>1, <1>3, <2>2
    <3> QED
      BY <1>2, <1>6, <2>2, <3>1 DEF Holds
  <2>3. CASE m \notin DOMAIN s
    <3>1. n \notin DOMAIN s
      BY <1>1, <2>3
    <3>2. /\ m - Len(s) \in DOMAIN r /\ c[m] = r[m - Len(s)]
          /\ n - Len(s) \in DOMAIN r /\ c[n] = r[n - Len(s)]
      BY <1>3, <2>3, <3>1
    <3>3. m - Len(s) < n - Len(s)
      BY <1>1
    <3> QED
      BY <1>6, <3>2, <3>3 DEF Rising
  <2> QED
    BY <2>1, <2>2, <2>3
<1> QED
  BY <1>1, <1>4, <1>5, <1>6 DEF c

\* The first one is taken.
LEMMA Taken ==
  ASSUME NEW k \in Nat, NEW s \in Seq(1 .. k), Once(s), s # <<>>
  PROVE  /\ Head(s) \in 1 .. k /\ Tail(s) \in Seq(1 .. k) /\ Once(Tail(s))
         /\ Holds(s, Head(s)) /\ ~Holds(Tail(s), Head(s))
         /\ \A i \in Int : Holds(s, i) <=> i = Head(s) \/ Holds(Tail(s), i)
         /\ Rising(s) => /\ Rising(Tail(s))
                         /\ \A i \in 1 .. k : Holds(Tail(s), i) => Head(s) < i
<1> DEFINE c == Tail(s)  h == Head(s)
<1>1. /\ Len(s) \in Nat /\ Len(s) >= 1 /\ DOMAIN s = 1 .. Len(s) /\ c \in Seq(1 .. k)
      /\ DOMAIN c = 1 .. Len(s) - 1 /\ h = s[1]
      /\ \A n \in 1 .. Len(s) : s[n] \in 1 .. k
      /\ \A n \in DOMAIN c : n + 1 \in DOMAIN s /\ c[n] = s[n + 1]
  BY HeadTailProperties, EmptySeq
<1> HIDE DEF c, h
<1>2. ASSUME NEW n \in DOMAIN s
      PROVE  n = 1 \/ (n - 1 \in DOMAIN c /\ s[n] = c[n - 1])
  <2>1. n # 1 => n - 1 \in DOMAIN c /\ (n - 1) + 1 = n
    BY SMTT(30), <1>1
  <2> QED
    BY <1>1, <2>1
<1>3. \A i \in Int : Holds(s, i) <=> i = h \/ Holds(c, i)
  <2>1. \A i \in Int : Holds(s, i) => i = h \/ Holds(c, i)
    BY <1>1, <1>2 DEF Holds
  <2>2. 1 \in DOMAIN s
    BY <1>1
  <2>3. \A i \in Int : i = h \/ Holds(c, i) => Holds(s, i)
    BY <1>1, <2>2 DEF Holds
  <2> QED
    BY <2>1, <2>3
<1>4. Once(c)
  <2> SUFFICES ASSUME NEW m \in DOMAIN c, NEW n \in DOMAIN c, c[m] = c[n] PROVE m = n
    BY DEF Once
  <2>1. m + 1 = n + 1
    BY <1>1 DEF Once
  <2> QED
    BY <1>1, <2>1
<1>5. ~Holds(c, h)
  <2> SUFFICES ASSUME NEW n \in DOMAIN c, c[n] = h PROVE FALSE
    BY DEF Holds
  <2>1. n + 1 \in DOMAIN s /\ 1 \in DOMAIN s /\ s[n + 1] = s[1] /\ n + 1 # 1
    BY <1>1
  <2> QED
    BY <2>1 DEF Once
<1>6. ASSUME Rising(s)
      PROVE  Rising(c) /\ \A i \in 1 .. k : Holds(c, i) => h < i
  <2>1. ASSUME NEW m \in DOMAIN c, NEW n \in DOMAIN c, m < n PROVE c[m] < c[n]
    <3>1. m + 1 \in DOMAIN s /\ n + 1 \in DOMAIN s /\ m + 1 < n + 1
          /\ c[m] = s[m + 1] /\ c[n] = s[n + 1]
      BY <1>1, <2>1
    <3> QED
      BY <1>6, <3>1 DEF Rising
  <2>2. ASSUME NEW n \in DOMAIN c PROVE h < c[n]
    <3>1. 1 \in DOMAIN s /\ n + 1 \in DOMAIN s /\ 1 < n + 1 /\ h = s[1] /\ c[n] = s[n + 1]
      BY <1>1
    <3> QED
      BY <1>6, <3>1 DEF Rising
  <2> QED
    BY <2>1, <2>2 DEF Rising, Holds
<1> QED
  BY <1>1, <1>3, <1>4, <1>5, <1>6 DEF c, h, Holds

\* A set of URBs in order.
LEMMA Ordered ==
  ASSUME NEW k \in Nat, NEW S \in SUBSET (1 .. k), NEW s \in InOrder(S)
  PROVE  /\ s \in Seq(1 .. k) /\ Once(s) /\ Rising(s)
         /\ \A i \in Int : Holds(s, i) <=> i \in S
<1>1. Cardinality(S) \in Nat
  <2>1. IsFiniteSet(1 .. k)
    BY FS_Interval
  <2>2. IsFiniteSet(S)
    BY <2>1, FS_Subset
  <2> QED
    BY <2>2, FS_CardinalityType
<1>2. /\ s \in [1 .. Cardinality(S) -> S]
      /\ \A i \in S : \E n \in DOMAIN s : s[n] = i
      /\ \A m, n \in DOMAIN s : m < n => s[m] < s[n]
  BY DEF InOrder
<1>3. s \in Seq(1 .. k)
  <2>1. s \in [1 .. Cardinality(S) -> 1 .. k]
    BY <1>2
  <2> QED
    BY <1>1, <2>1, SeqDef
<1>4. Once(s)
  <2> SUFFICES ASSUME NEW m \in DOMAIN s, NEW n \in DOMAIN s, s[m] = s[n] PROVE m = n
    BY DEF Once
  <2>1. m \in Int /\ n \in Int /\ s[m] \in Int /\ s[n] \in Int
    <3>1. m \in 1 .. Cardinality(S) /\ n \in 1 .. Cardinality(S)
      BY <1>2
    <3>2. s[m] \in S /\ s[n] \in S
      BY <1>2, <3>1
    <3>3. m \in Int /\ n \in Int
      BY <1>1, <3>1
    <3>4. s[m] \in 1 .. k /\ s[n] \in 1 .. k
      BY <3>2
    <3> QED
      BY <3>3, <3>4
  <2>2. m < n => s[m] < s[n]
    BY <1>2
  <2>3. n < m => s[n] < s[m]
    BY <1>2
  <2> QED
    BY <2>1, <2>2, <2>3
<1> QED
  BY <1>2, <1>3, <1>4 DEF Rising, Holds

-----------------------------------------------------------------------------
(* The URBs of a submission.                                                 *)

\* A set of numbers has a smallest one.
LEMMA Smallest ==
  ASSUME NEW S \in SUBSET Nat, S # {} PROVE \E i \in S : \A j \in S : i <= j
<1>1. PICK i \in S : \A j \in S : ~(<<j, i>> \in OpToRel(<, Nat))
  BY WFMin, NatLessThanWellFounded
<1>2. ASSUME NEW j \in S PROVE i <= j
  <2>1. ~(<<j, i>> \in {ss \in Nat \X Nat : ss[1] < ss[2]})
    BY <1>1 DEF OpToRel
  <2>2. <<j, i>> \in Nat \X Nat /\ j \in Nat /\ i \in Nat
    OBVIOUS
  <2>3. ~(j < i)
    BY <2>1, <2>2
  <2> QED
    BY <2>2, <2>3
<1> QED
  BY <1>2

PackStep(f, k) ==
  IF k = 1 THEN [urb |-> 1, used |-> req.lens[1]]
  ELSE IF req.lens[k] > Cap - f[k - 1].used
       THEN [urb |-> f[k - 1].urb + 1, used |-> req.lens[k]]
       ELSE [urb |-> f[k - 1].urb, used |-> f[k - 1].used + req.lens[k]]

\* Where a packet goes depends on the one before it alone.
LEMMA PackStepLocal ==
  ASSUME NEW f, NEW g, NEW k \in Nat, k = 1 \/ f[k - 1] = g[k - 1]
  PROVE  PackStep(f, k) = PackStep(g, k)
BY DEF PackStep

\* The recursion defines a function.
LEMMA PackExists ==
  ASSUME NEW n \in Nat PROVE \E f : f = [k \in 1 .. n |-> PackStep(f, k)]
<1> DEFINE Defined(m) == \E f : f = [k \in 1 .. m |-> PackStep(f, k)]
           S == {m \in Nat : ~Defined(m)}
<1> SUFFICES ASSUME S # {} PROVE FALSE
  OBVIOUS
<1>1. PICK m \in S : \A j \in S : m <= j
  <2> HIDE DEF S
  <2> QED
    BY Smallest DEF S
<1>2. CASE m = 0
  <2>1. [k \in 1 .. 0 |-> PackStep(<<>>, k)] = [k \in 1 .. 0 |-> PackStep([j \in 1 .. 0 |-> PackStep(<<>>, j)], k)]
    OBVIOUS
  <2> QED
    BY <1>1, <1>2, <2>1
<1>3. CASE m # 0
  <2>1. m - 1 \in Nat /\ m - 1 \notin S
    BY SMTT(30), <1>1, <1>3
  <2>2. PICK f : f = [k \in 1 .. m - 1 |-> PackStep(f, k)]
    BY <2>1
  <2> DEFINE g == [k \in 1 .. m |-> PackStep(f, k)]
  <2>3. ASSUME NEW k \in 1 .. m PROVE PackStep(f, k) = PackStep(g, k)
    <3>1. CASE k = 1
      BY <3>1, PackStepLocal
    <3>2. CASE k # 1
      <4>1. k - 1 \in 1 .. m - 1 /\ k - 1 \in 1 .. m /\ k \in Nat
        BY <2>1, <3>2
      <4>2. f[k - 1] = PackStep(f, k - 1) /\ g[k - 1] = PackStep(f, k - 1)
        <5>1. g[k - 1] = PackStep(f, k - 1)
          BY <4>1
        <5>2. f[k - 1] = PackStep(f, k - 1)
          BY <2>2, <4>1
        <5> QED
          BY <5>1, <5>2
      <4> HIDE DEF g
      <4> QED
        BY <4>1, <4>2, PackStepLocal
    <3> QED
      BY <3>1, <3>2
  <2>4. g = [k \in 1 .. m |-> PackStep(g, k)]
    BY <2>3
  <2>5. Defined(m)
    BY <2>4
  <2> QED
    BY <1>1, <2>5
<1> QED
  BY <1>2, <1>3

\* submit_iso_transfer packs packet after packet.
LEMMA PackIs ==
  ASSUME Len(req.lens) \in Nat PROVE Pack = [k \in 1 .. Len(req.lens) |-> PackStep(Pack, k)]
<1>1. PICK f : f = [k \in 1 .. Len(req.lens) |-> PackStep(f, k)]
  BY PackExists
<1> QED
  BY <1>1 DEF Pack, PackStep

\* Every packet has an URB, and these have numbers.
LEMMA PackCounts ==
  ASSUME Len(req.lens) \in Nat, NEW n \in 1 .. Len(req.lens) PROVE Pack[n].urb \in Nat \ {0}
<1> DEFINE S == {k \in 1 .. Len(req.lens) : Pack[k].urb \notin Nat \ {0}}
<1> SUFFICES ASSUME S # {} PROVE FALSE
  OBVIOUS
<1>1. PICK k \in S : \A j \in S : k <= j
  <2>1. S \in SUBSET Nat
    OBVIOUS
  <2> HIDE DEF S
  <2> QED
    BY <2>1, Smallest
<1>2. k \in 1 .. Len(req.lens) /\ Pack[k].urb \notin Nat \ {0}
  BY <1>1
<1>3. Pack[k] = PackStep(Pack, k)
  BY <1>2, PackIs
<1>4. k # 1
  BY <1>2, <1>3 DEF PackStep
<1>5. k - 1 \in 1 .. Len(req.lens) /\ ~(k <= k - 1)
  BY <1>2, <1>4
<1>6. Pack[k - 1].urb \in Nat \ {0}
  BY <1>1, <1>5
<1> QED
  BY SMTT(30), <1>2, <1>3, <1>4, <1>6 DEF PackStep

\* The URBs of a submission: new ones, with nothing in them.
AreNew(u) ==
  /\ Len(u) \in Nat \ {0}
  /\ u = [i \in 1 .. Len(u) |-> u[i]]
  /\ \A i \in 1 .. Len(u) : IsUrb(u[i]) /\ u[i].st = "new" /\ u[i].status = "OK"

\* What UrbAssumption says of the transfer that is submitted.
LEMMA RequestFacts ==
  ASSUME req \in Requests
  PROVE  /\ req.lens \in Seq(Nat) /\ Len(req.lens) \in Nat \ {0} /\ req.lens[1] \in Nat
         /\ req.type \in {"control", "bulk", "iso"}
<1>1. req.lens \in Seq(Nat) /\ req.lens # <<>> /\ req.type \in {"control", "bulk", "iso"}
  BY DEF RequestOK
<1>2. Len(req.lens) \in Nat \ {0}
  BY <1>1, EmptySeq
<1>3. 1 \in 1 .. Len(req.lens)
  BY <1>2
<1> QED
  BY <1>1, <1>2, <1>3

\* A length that is not zero needs at least one URB.
LEMMA AtLeastOne ==
  ASSUME NEW a \in Nat \ {0}, NEW b \in Nat \ {0} PROVE (a + b - 1) \div b \in Nat \ {0}
<1> DEFINE x == a + b - 1
<1>1. x \in Nat /\ x >= b
  OBVIOUS
<1> HIDE DEF x
<1>2. x \div b > 0 /\ x \div b \in Int
  BY <1>1, Z3
<1> QED
  BY <1>2 DEF x

\* submit_bulk_transfer makes at least one URB; all are new.
LEMMA BulkNew == ASSUME req \in Requests PROVE AreNew(BulkUrbs)
<1> DEFINE length == req.lens[1]
           n == IF length = 0 THEN 1 ELSE (length + BulkPiece - 1) \div BulkPiece
<1>1. length \in Nat /\ BulkPiece \in Nat \ {0}
  BY RequestFacts DEF BulkPiece
<1>2. n \in Nat \ {0}
  <2>1. CASE length = 0
    BY <2>1
  <2>2. CASE length # 0
    <3>1. length \in Nat \ {0}
      BY <1>1, <2>2
    <3>2. (length + BulkPiece - 1) \div BulkPiece \in Nat \ {0}
      BY <1>1, <3>1, AtLeastOne
    <3> QED
      BY <2>2, <3>2
  <2> QED
    BY <2>1, <2>2
<1> DEFINE u == [i \in 1 .. n |->
        Fresh((i - 1) * BulkPiece, Min2(BulkPiece, length - (i - 1) * BulkPiece),
              req.caps = "continuation" /\ i > 1, req.caps # "continuation" \/ i = n)]
<1>3. BulkUrbs = u
  BY DEF BulkUrbs
<1> HIDE DEF n, length
<1>4. Len(u) = n /\ u = [i \in 1 .. n |-> u[i]]
  BY <1>2
<1>5. ASSUME NEW i \in 1 .. n PROVE IsUrb(u[i]) /\ u[i].st = "new" /\ u[i].status = "OK"
  <2>1. \E a, b, c, d : u[i] = Fresh(a, b, c, d)
    OBVIOUS
  <2> QED
    BY <2>1 DEF IsUrb, Fresh
<1> HIDE DEF u
<1> QED
  BY <1>2, <1>3, <1>4, <1>5 DEF AreNew

\* So does submit_iso_transfer,
LEMMA IsoNew == ASSUME req \in Requests PROVE AreNew(IsoUrbs)
<1> DEFINE n == Pack[Len(req.lens)].urb
           Of(i) == {k \in 1 .. Len(req.lens) : Pack[k].urb = i}
           First(i) == CHOOSE k \in Of(i) : \A j \in Of(i) : k <= j
           u == [i \in 1 .. n |-> Fresh(First(i) - 1, Cardinality(Of(i)), FALSE, TRUE)]
<1>1. n \in Nat \ {0}
  <2>1. Len(req.lens) \in Nat /\ Len(req.lens) \in 1 .. Len(req.lens)
    BY RequestFacts
  <2> QED
    BY <2>1, PackCounts
<1>2. IsoUrbs = u
  BY DEF IsoUrbs
<1> HIDE DEF n
<1>3. Len(u) = n /\ u = [i \in 1 .. n |-> u[i]]
  BY <1>1
<1>4. ASSUME NEW i \in 1 .. n PROVE IsUrb(u[i]) /\ u[i].st = "new" /\ u[i].status = "OK"
  <2>1. \E a, b, c, d : u[i] = Fresh(a, b, c, d)
    OBVIOUS
  <2> QED
    BY <2>1 DEF IsUrb, Fresh
<1> HIDE DEF u
<1> QED
  BY <1>1, <1>2, <1>3, <1>4 DEF AreNew

\* and submit_control_transfer makes one.
LEMMA ControlNew == AreNew(ControlUrbs) /\ Len(ControlUrbs) = 1
<1>1. /\ Len(ControlUrbs) = 1 /\ ControlUrbs[1] = Fresh(0, req.lens[1], FALSE, TRUE)
      /\ ControlUrbs = [i \in 1 .. 1 |-> ControlUrbs[i]]
  BY DEF ControlUrbs
<1>2. \A i \in 1 .. 1 : i = 1
  OBVIOUS
<1> QED
  BY <1>1, <1>2 DEF AreNew, IsUrb, Fresh

-----------------------------------------------------------------------------
(* Counting, and URBs that move.                                            *)

\* A set of URBs can be counted.
LEMMA Subsets ==
  ASSUME NEW k \in Nat, NEW S \in SUBSET (1 .. k)
  PROVE  IsFiniteSet(S) /\ Cardinality(S) \in Nat
<1>1. IsFiniteSet(1 .. k)
  BY FS_Interval
<1>2. IsFiniteSet(S)
  BY <1>1, FS_Subset
<1> QED
  BY <1>2, FS_CardinalityType

\* One more; and all of them.
LEMMA OneMore ==
  ASSUME NEW k \in Nat, NEW S \in SUBSET (1 .. k), NEW u \in 1 .. k, u \notin S
  PROVE  /\ Cardinality(S \union {u}) = Cardinality(S) + 1
         /\ Cardinality(S) + 1 = k <=> \A i \in 1 .. k : i # u => i \in S
<1>1. IsFiniteSet(S) /\ Cardinality(S) \in Nat
  BY Subsets
<1>2. Cardinality(S \union {u}) = Cardinality(S) + 1
  BY <1>1, FS_AddElement
<1>3. IsFiniteSet(1 .. k) /\ Cardinality(1 .. k) = k
  <2>1. 1 \in Int /\ k \in Int
    OBVIOUS
  <2>2. Cardinality(1 .. k) = IF 1 > k THEN 0 ELSE k - 1 + 1
    BY <2>1, FS_Interval
  <2>3. IsFiniteSet(1 .. k)
    BY <2>1, FS_Interval
  <2> QED
    BY <2>2, <2>3
<1>4. S \union {u} \in SUBSET (1 .. k)
  OBVIOUS
<1>5. Cardinality(S \union {u}) = k => S \union {u} = 1 .. k
  BY <1>3, <1>4, FS_Subset
<1>6. (\A i \in 1 .. k : i # u => i \in S) => S \union {u} = 1 .. k
  OBVIOUS
<1> QED
  BY <1>2, <1>3, <1>5, <1>6

\* The rest from m on.
LEMMA AllFrom ==
  ASSUME NEW k \in Nat, NEW m \in 1 .. k, NEW S \in SUBSET (1 .. k), \A i \in S : i < m
  PROVE  Cardinality(S \union (m .. k)) = Cardinality(S) + (k - m + 1)
<1>1. IsFiniteSet(S) /\ Cardinality(S) \in Nat
  BY Subsets
<1>2. IsFiniteSet(m .. k) /\ Cardinality(m .. k) = k - m + 1
  <2>1. m \in Int /\ k \in Int /\ ~(m > k)
    OBVIOUS
  <2>2. Cardinality(m .. k) = IF m > k THEN 0 ELSE k - m + 1
    BY <2>1, FS_Interval
  <2>3. IsFiniteSet(m .. k)
    BY <2>1, FS_Interval
  <2> QED
    BY <2>1, <2>2, <2>3
<1>3. S \cap (m .. k) = {}
  OBVIOUS
<1>4. Cardinality(S \union (m .. k)) = Cardinality(S) + Cardinality(m .. k) - Cardinality(S \cap (m .. k))
  BY <1>1, <1>2, FS_Union
<1>5. Cardinality(S \cap (m .. k)) = 0
  BY <1>3, FS_EmptySet
<1> QED
  BY <1>1, <1>2, <1>4, <1>5

\* The facts about the types that the steps need.
LEMMA Types ==
  ASSUME UrbsOK
  PROVE  /\ Num \in Nat
         /\ Back \in SUBSET (1 .. Num) /\ Pending \in SUBSET (1 .. Num)
         /\ req.type \in {"control", "bulk", "iso"}
         /\ \A i \in 1 .. Num : St(i) \in {"new", "pending", "done", "retired"}
BY RequestFacts DEF UrbsOK, Back, Pending

\* The URBs in D become done, in order, those of them the kernel has had longest.
LEMMA Moved ==
  ASSUME UInv, NEW D \in SUBSET Pending, NEW s \in Seq(1 .. Num), Once(s), Rising(s),
         \A i \in Int : Holds(s, i) <=> i \in D,
         doneq' = doneq \o s, Num' = Num, urb' = [i \in 1 .. Num |-> urb'[i]],
         \A i \in 1 .. Num : /\ IsUrb(urb'[i])
                             /\ i \notin D => urb'[i] = urb[i]
                             /\ i \in D => urb'[i].st = "done",
         UNCHANGED <<req, flags, reaping, report, priv>>,
         Submitting' <=> Submitting, Submitting => job' = job, job' = NoJob <=> job = NoJob,
         Discarding("submit")' <=> Discarding("submit"),
         plugged' \in BOOLEAN, JobOK', CancelInv',
         \/ plugged' = plugged
         \/ plugged' = FALSE /\ D = Pending,
         \A i \in D : /\ urb'[i].status \in Statuses
                      /\ urb'[i].status = "SHUTDOWN" => plugged' = FALSE
                      /\ urb'[i].status = "OVERFLOW" => i = Num
                      /\ urb'[i].status = "PIPE" /\ Num > 2 => ~Submitting /\ D = Pending,
         priv.action = "NORMAL" /\ ~Disordered' =>
           ~Disordered /\ \A i \in D, j \in Pending \ D : i < j
  PROVE  UInv'
<1>1. UrbsOK'
  <2>1. \A i \in 1 .. Num : St(i)' \in {"new", "pending", "done", "retired"}
    BY DEF UInv, UrbsOK, St
  <2>2. priv.urbs => Num >= 1
    BY DEF UInv, UrbsOK
  <2>3. Num \in Nat /\ (req.type = "control" => Num <= 1)
    BY DEF UInv, UrbsOK
  <2> QED
    BY <2>1, <2>2, <2>3 DEF UInv, UrbsOK
<1> USE Types
<1>2. \A i \in 1 .. Num : /\ i \in D => St(i) = "pending" /\ St(i)' = "done"
                          /\ i \notin D => St(i)' = St(i)
  BY DEF UInv, Pending, St
<1>3. \A i \in Int : Holds(doneq', i) <=> Holds(doneq, i) \/ i \in D
  BY SMTT(30), Joined, <1>2 DEF UInv, QueueInv
<1>4. \A i \in 1 .. Num : Holds(doneq, i) => St(i) = "done"
  BY DEF UInv, QueueInv
<1>5. /\ doneq' \in Seq(1 .. Num) /\ Once(doneq')
      /\ Rising(doneq) /\ (\A i, j \in 1 .. Num : Holds(doneq, i) /\ j \in D => i < j) => Rising(doneq')
  <2>1. \A i \in 1 .. Num : ~(Holds(doneq, i) /\ Holds(s, i))
    BY <1>2, <1>4
  <2>2. Num \in Nat /\ doneq \in Seq(1 .. Num) /\ Once(doneq)
    BY DEF UInv, QueueInv
  <2> QED
    BY <2>1, <2>2, Joined
<1>6. QueueInv'
  <2>1. \A i \in 1 .. Num : St(i)' = "done" <=> reaping = i \/ Holds(doneq', i)
    BY <1>2, <1>3 DEF UInv, QueueInv
  <2>2. ~Holds(doneq', reaping)
    <3>1. reaping \in Int /\ ~Holds(doneq, reaping)
      BY DEF UInv, QueueInv
    <3>2. reaping \notin D
      BY <1>2 DEF UInv, QueueInv
    <3> QED
      BY <1>3, <3>1, <3>2
  <2> QED
    BY <1>5, <2>1, <2>2 DEF UInv, QueueInv
<1>7. LifeInv'
  BY DEF UInv, LifeInv
<1>8. SubmitInv'
  <2>1. Submitting' => \A i \in 1 .. Num : St(i)' = "new" <=> i >= job'.i
    BY <1>2 DEF UInv, SubmitInv
  <2>2. priv.urbs /\ priv.action = "NORMAL" /\ ~(Submitting') => \A i \in 1 .. Num : St(i)' # "new"
    BY <1>2 DEF UInv, SubmitInv
  <2> QED
    BY <2>1, <2>2 DEF UInv, SubmitInv
<1>9. CountInv'
  <2>1. Back' = Back
    BY <1>2 DEF Back
  <2> QED
    BY <2>1 DEF UInv, CountInv
<1>10. KernelInv'
  <2>1. plugged' = FALSE => \A i \in 1 .. Num : St(i)' # "pending"
    BY <1>2 DEF UInv, KernelInv, Pending, UrbsOK, St
  <2>2. ASSUME NEW i \in 1 .. Num
        PROVE  /\ urb'[i].status \in Statuses
               /\ urb'[i].status = "SHUTDOWN" => plugged' = FALSE
               /\ urb'[i].status = "OVERFLOW" => i = Num
               /\ urb'[i].status # "OK" => St(i)' \in {"done", "retired"}
               /\ urb'[i].status = "PIPE" /\ Num > 2
                    => ~Submitting /\ \A j \in i .. Num : St(j)' # "pending"
    <3>1. CASE i \in D
      <4>1. D = Pending => \A j \in i .. Num : St(j)' # "pending"
        <5>1. \A j \in i .. Num : j \in 1 .. Num
          OBVIOUS
        <5> QED
          BY <1>2, <5>1 DEF Pending, St
      <4> QED
        BY <1>2, <3>1, <4>1
    <3>2. CASE i \notin D
      <4>1. \A j \in i .. Num : j \in 1 .. Num
        OBVIOUS
      <4>2. \A j \in 1 .. Num : St(j) # "pending" => St(j)' # "pending"
        BY <1>2
      <4>3. /\ urb[i].status \in Statuses
            /\ urb[i].status = "SHUTDOWN" => ~plugged
            /\ urb[i].status = "OVERFLOW" => i = Num
            /\ urb[i].status # "OK" => St(i) \in {"done", "retired"}
            /\ urb[i].status = "PIPE" /\ Num > 2
                 => ~Submitting /\ \A j \in i .. Num : St(j) # "pending"
        BY DEF UInv, KernelInv
      <4> QED
        BY <1>2, <3>2, <4>1, <4>2, <4>3
    <3> QED
      BY <3>1, <3>2
  <2> QED
    BY <2>1, <2>2 DEF KernelInv
<1>11. OrderInv'
  <2> SUFFICES ASSUME priv.urbs, priv.action = "NORMAL", ~Disordered' PROVE InTurn'
    BY DEF OrderInv
  <2>1. InTurn /\ \A i \in D, j \in Pending \ D : i < j
    BY DEF UInv, OrderInv
  <2>2. \A i, j \in 1 .. Num : St(j) = "pending" /\ i < j => St(i) # "new"
    <3>1. CASE Submitting
      BY <3>1 DEF UInv, SubmitInv, JobOK, Submitting, NoJob
    <3>2. CASE ~Submitting
      BY <3>2 DEF UInv, SubmitInv
    <3> QED
      BY <3>1, <3>2
  <2>3. \A i, j \in 1 .. Num : i < j =>
          /\ St(j)' = "retired" => St(i)' = "retired"
          /\ St(j)' = "done" => St(i)' \in {"done", "retired"}
    <3> SUFFICES ASSUME NEW i \in 1 .. Num, NEW j \in 1 .. Num, i < j
                 PROVE  /\ St(j)' = "retired" => St(i)' = "retired"
                        /\ St(j)' = "done" => St(i)' \in {"done", "retired"}
      OBVIOUS
    <3>1. St(j) = "retired" => St(i) = "retired"
      BY <2>1 DEF InTurn
    <3>2. St(j) = "done" => St(i) \in {"done", "retired"}
      BY <2>1 DEF InTurn
    <3>3. j \in D => St(i) # "new" /\ (St(i) = "pending" => i \in D)
      BY <1>2, <2>1, <2>2 DEF Pending, St
    <3>4. St(i) \in {"new", "pending", "done", "retired"}
      BY DEF UInv
    <3> QED
      BY <1>2, <3>1, <3>2, <3>3, <3>4
  <2>4. \A i, j \in 1 .. Num : St(i) = "done" /\ j \in D => i < j
    <3>1. \A i, j \in 1 .. Num : St(i) = "done" /\ j \in D => i # j
      BY <1>2
    <3>2. \A i, j \in 1 .. Num : St(i) = "done" /\ j < i => St(j) # "pending"
      BY <2>1 DEF InTurn
    <3> QED
      BY <1>2, <3>1, <3>2
  <2>5. Rising(doneq')
    BY <1>4, <1>5, <2>1, <2>4 DEF InTurn
  <2>6. reaping # 0 => \A i \in 1 .. Num : Holds(doneq', i) => reaping < i
    <3> SUFFICES ASSUME reaping # 0, NEW i \in 1 .. Num, Holds(doneq', i) PROVE reaping < i
      OBVIOUS
    <3>1. reaping \in 1 .. Num /\ St(reaping) = "done"
      BY DEF UInv, QueueInv
    <3>2. Holds(doneq, i) \/ i \in D
      BY <1>3
    <3>3. CASE Holds(doneq, i)
      BY <2>1, <3>3 DEF InTurn
    <3>4. CASE i \in D
      BY <2>4, <3>1, <3>4
    <3> QED
      BY <3>2, <3>3, <3>4
  <2> QED
    BY <2>3, <2>5, <2>6 DEF InTurn
<1>12. NoUrbLeft'
  <2>1. NoUrbLeft' <=> (~priv.urbs => \A i \in 1 .. Num : St(i)' \in {"new", "retired"})
    BY DEF NoUrbLeft, St
  <2>2. ~priv.urbs => \A i \in 1 .. Num : St(i) \in {"new", "retired"}
    BY DEF UInv, NoUrbLeft, St
  <2> QED
    BY <1>2, <2>1, <2>2
<1> QED
  BY <1>1, <1>6, <1>7, <1>8, <1>9, <1>10, <1>11, <1>12 DEF UInv

-----------------------------------------------------------------------------
(* The kernel.                                                               *)

\* A queue of one URB.
LEMMA OneUrb ==
  ASSUME NEW k \in Nat, NEW i \in 1 .. k, NEW q \in Seq(1 .. k)
  PROVE  /\ <<i>> \in Seq(1 .. k) /\ Once(<<i>>) /\ Rising(<<i>>)
         /\ \A j \in Int : Holds(<<i>>, j) <=> j \in {i}
         /\ Append(q, i) = q \o <<i>>
<1>1. <<i>> \in Seq(1 .. k) /\ DOMAIN <<i>> = {1} /\ <<i>>[1] = i
  OBVIOUS
<1>2. Append(q, i) = q \o <<i>>
  OBVIOUS
<1> QED
  BY <1>1, <1>2 DEF Once, Rising, Holds

\* An URB of which some fields are set.
SetSt(u, st) == [u EXCEPT !.st = st]
SetStatus(u, st, status) == [u EXCEPT !.st = st, !.status = status]
SetData(u, st, status, d) == [u EXCEPT !.st = st, !.status = status, !.data = d]

\* Assigning fields of an URB leaves it one.
LEMMA UrbSet ==
  ASSUME NEW u, IsUrb(u), NEW st, NEW status, NEW d
  PROVE  /\ IsUrb(SetSt(u, st)) /\ SetSt(u, st).st = st /\ SetSt(u, st).status = u.status
         /\ IsUrb(SetStatus(u, st, status)) /\ SetStatus(u, st, status).st = st
         /\ SetStatus(u, st, status).status = status
         /\ IsUrb(SetData(u, st, status, d)) /\ SetData(u, st, status, d).st = st
         /\ SetData(u, st, status, d).status = status
<1> DEFINE w == [first |-> u.first, len |-> u.len, cont |-> u.cont,
                 shortNotOk |-> u.shortNotOk, st |-> u.st, status |-> u.status,
                 data |-> u.data]
<1>1. u = w
  BY DEF IsUrb
<1>2. IsUrb(SetSt(w, st)) /\ SetSt(w, st).st = st /\ SetSt(w, st).status = w.status
  BY DEF IsUrb, SetSt
<1>3. /\ IsUrb(SetStatus(w, st, status)) /\ SetStatus(w, st, status).st = st
      /\ SetStatus(w, st, status).status = status
  <2>1. ASSUME NEW v, v = [w EXCEPT !.st = st, !.status = status]
        PROVE  IsUrb(v) /\ v.st = st /\ v.status = status
    BY <2>1 DEF IsUrb
  <2> QED
    BY <2>1 DEF SetStatus
<1>4. /\ IsUrb(SetData(w, st, status, d)) /\ SetData(w, st, status, d).st = st
      /\ SetData(w, st, status, d).status = status
  <2>1. ASSUME NEW v, v = [w EXCEPT !.st = st, !.status = status, !.data = d]
        PROVE  IsUrb(v) /\ v.st = st /\ v.status = status
    BY <2>1 DEF IsUrb
  <2> QED
    BY <2>1 DEF SetData
<1> HIDE DEF w
<1> QED
  BY <1>1, <1>2, <1>3, <1>4

\* An array that is rewritten element by element.
LEMMA Rows ==
  ASSUME NEW k \in Nat, NEW v, NEW w, v = [j \in 1 .. k |-> w[j]]
  PROVE  Len(v) = k /\ v = [j \in 1 .. k |-> v[j]] /\ \A j \in 1 .. k : v[j] = w[j]
OBVIOUS

\* What URB i becomes when it ends.
LEMMA Ended ==
  ASSUME UrbsOK, NEW i \in 1 .. Num, NEW d, NEW status, 
         urb' = [urb EXCEPT ![i].st = "done", ![i].status = status, ![i].data = d]
  PROVE  /\ Num' = Num /\ urb' = [j \in 1 .. Num |-> urb'[j]]
         /\ urb'[i].st = "done" /\ urb'[i].status = status
         /\ \A j \in 1 .. Num : IsUrb(urb'[j]) /\ (j # i => urb'[j] = urb[j])
<1>1. urb = [j \in 1 .. Num |-> urb[j]] /\ Num \in Nat /\ IsUrb(urb[i])
  BY DEF UrbsOK
<1>2. urb' = [j \in 1 .. Num |->
                IF j = i THEN [urb[i] EXCEPT !.st = "done", !.status = status, !.data = d]
                ELSE urb[j]]
  BY <1>1
<1>3. Len(urb') = Num /\ urb' = [j \in 1 .. Num |-> urb'[j]]
  <2>1. urb' = [j \in 1 .. Num |-> urb'[j]]
    BY <1>2
  <2> QED
    BY <1>1, <2>1, Rows
<1>4. urb'[i] = [urb[i] EXCEPT !.st = "done", !.status = status, !.data = d]
  BY <1>2
<1>5. urb'[i].st = "done" /\ urb'[i].status = status /\ IsUrb(urb'[i])
  <2>1. urb'[i] = SetData(urb[i], "done", status, d)
    BY <1>4 DEF SetData
  <2> QED
    BY <1>1, <2>1, UrbSet
<1>6. \A j \in 1 .. Num : j # i => urb'[j] = urb[j]
  BY <1>2
<1>7. \A j \in 1 .. Num : IsUrb(urb'[j])
  BY <1>5, <1>6 DEF UrbsOK
<1> QED
  BY <1>3, <1>5, <1>6, <1>7 DEF Num

\* A step of the kernel leaves the library alone.
LEMMA CalmJob ==
  ASSUME UInv, NEW D \in SUBSET Pending,
         \A i \in 1 .. Num : /\ i \notin D => urb'[i] = urb[i]
                             /\ i \in D => urb'[i].st = "done",
         Num' = Num, job' = job, priv' = priv,
         plugged' = plugged \/ (Discarding("cancel") => Num = 1)
  PROVE  /\ JobOK' /\ CancelInv' /\ (Disordered' <=> Disordered)
         /\ (Submitting' <=> Submitting) /\ (Discarding("submit")' <=> Discarding("submit"))
<1>1. JobOK'
  BY DEF UInv, JobOK
<1>2. /\ Disordered' <=> Disordered
      /\ Submitting' <=> Submitting
      /\ Discarding("submit")' <=> Discarding("submit")
      /\ Discarding("cancel")' <=> Discarding("cancel")
      /\ Discarding("reap")' <=> Discarding("reap")
  BY DEF Disordered, Submitting, Discarding
<1>3. \A i \in 1 .. Num : /\ St(i) # "pending" => St(i)' = St(i)
                          /\ St(i)' # "pending" \/ St(i) = "pending"
  BY DEF St, Pending
<1>4. Discarding("reap") => job.first - 1 \in 1 .. Num
  BY DEF UInv, JobOK, CancelInv, Discarding, NoJob
<1>5. CancelInv'
  <2>1. Discarding("cancel")' /\ job'.i < job'.last =>
          /\ job'.ret = "OK" => plugged' \/ Num = 1
          /\ job'.ret # "OK" /\ priv'.action = "NORMAL"
               => \A i \in 1 .. Num : St(i)' # "pending"
    BY <1>2, <1>3 DEF UInv, CancelInv
  <2>2. Discarding("reap")' =>
          /\ job'.last = Num' /\ job'.first > 1 /\ urb'[job'.first - 1].st = "retired"
          /\ priv'.action = "NORMAL"
               => job'.first = Num' \/ \A i \in 1 .. Num' : St(i)' # "pending"
    <3> SUFFICES ASSUME Discarding("reap")
                 PROVE  /\ job.last = Num /\ job.first > 1 /\ urb'[job.first - 1].st = "retired"
                        /\ priv.action = "NORMAL"
                             => job.first = Num \/ \A i \in 1 .. Num : St(i)' # "pending"
      BY <1>2
    <3>1. /\ job.last = Num /\ job.first > 1 /\ St(job.first - 1) = "retired"
          /\ priv.action = "NORMAL"
               => job.first = Num \/ \A i \in 1 .. Num : St(i) # "pending"
      BY DEF UInv, CancelInv
    <3>2. urb'[job.first - 1].st = St(job.first - 1)
      BY <1>3, <1>4, <3>1 DEF St
    <3> QED
      BY <1>3, <3>1, <3>2
  <2>3. /\ Discarding("cancel")' => job'.first = 1 /\ job'.last = Num
        /\ Discarding("cancel")' /\ job'.i = job'.last => job'.ret = "OK"
    BY <1>2 DEF UInv, CancelInv
  <2>4. Discarding("submit")' => priv'.action # "NORMAL"
    BY <1>2 DEF UInv, CancelInv
  <2> QED
    BY <2>1, <2>2, <2>3, <2>4 DEF CancelInv, St
<1> QED
  BY <1>1, <1>2, <1>5

\* The kernel has the data of the first URB it has.
LEMMA CompletesKeeps ==
  ASSUME UInv, NEW i \in 1 .. Num, KernelCompletes(i) PROVE UInv'
<1>1. PICK d \in 0 .. urb[i].len : Finished(i, d, "OK")
  BY DEF KernelCompletes
<1>2. /\ Num \in Nat /\ doneq \in Seq(1 .. Num) /\ UrbsOK
      /\ i \in Pending /\ \A j \in Pending : i <= j
  BY DEF UInv, UrbsOK, QueueInv, KernelCompletes, Served
<1>3. /\ Num' = Num /\ urb' = [j \in 1 .. Num |-> urb'[j]]
      /\ urb'[i].st = "done" /\ urb'[i].status = "OK"
      /\ \A j \in 1 .. Num : IsUrb(urb'[j]) /\ (j # i => urb'[j] = urb[j])
  BY <1>1, <1>2, Ended DEF Finished
<1>4. doneq' = doneq \o <<i>>
  BY <1>1, <1>2, OneUrb DEF Finished
<1>5. /\ UNCHANGED <<req, flags, reaping, report, priv>> /\ job' = job
      /\ plugged' = plugged /\ plugged \in BOOLEAN
  BY <1>2 DEF KernelCompletes, KernelOnly, UrbsOK
<1> DEFINE D == {i}
<1>6. /\ D \in SUBSET Pending
      /\ \A j \in 1 .. Num : /\ IsUrb(urb'[j])
                             /\ j \notin D => urb'[j] = urb[j]
                             /\ j \in D => urb'[j].st = "done"
      /\ \A j \in D : urb'[j].status = "OK" /\ urb'[j].status \in Statuses
      /\ \A j \in D, m \in Pending \ D : j < m
  BY <1>2, <1>3, Types DEF Statuses
<1>7. /\ JobOK' /\ CancelInv' /\ (Disordered' <=> Disordered)
      /\ (Submitting' <=> Submitting) /\ (Discarding("submit")' <=> Discarding("submit"))
  BY <1>3, <1>5, <1>6, CalmJob
<1>8. /\ <<i>> \in Seq(1 .. Num) /\ Once(<<i>>) /\ Rising(<<i>>)
      /\ \A j \in Int : Holds(<<i>>, j) <=> j \in D
  BY <1>2, OneUrb
<1> HIDE DEF D
<1> QED
  BY <1>3, <1>4, <1>5, <1>6, <1>7, <1>8, Moved

\* The first URB fails, and with BULK_CONTINUATION those behind it end too.
LEMMA FailsKeeps ==
  ASSUME UInv, Races = {}, NEW i \in 1 .. Num,
         NEW status \in {"REMOTEIO", "PIPE", "OVERFLOW", "PROTO"}, KernelFails(i, status)
  PROVE  UInv'
<1> DEFINE cancels == req.caps = "continuation"
           lost == {j \in Pending : cancels /\ j > i}
           D == {i} \union lost
<1>1. PICK k : LET after == [urb EXCEPT ![i].st = "done", ![i].status = status, ![i].data = k]
               IN urb' = [j \in 1 .. Num |->
                       IF j \in lost THEN [after[j] EXCEPT !.st = "done", !.status = "ENOENT"]
                       ELSE after[j]]
  BY ZenonT(40) DEF KernelFails
<1>2. PICK behind \in InOrder(lost) : doneq' = Append(doneq, i) \o behind
  BY ZenonT(40) DEF KernelFails
<1>3. /\ Num \in Nat /\ doneq \in Seq(1 .. Num) /\ UrbsOK /\ Pending \in SUBSET (1 .. Num)
      /\ i \in Pending /\ \A j \in Pending : i <= j
      /\ urb = [j \in 1 .. Num |-> urb[j]] /\ \A j \in 1 .. Num : IsUrb(urb[j])
  BY Types DEF UInv, UrbsOK, QueueInv, KernelFails, Served
<1>4. /\ status = "OVERFLOW" => i = Num
      /\ status = "PIPE" => Num <= 2 \/ cancels
      /\ status \in {"PIPE", "PROTO"} /\ cancels => ~Submitting
      /\ status \in {"REMOTEIO", "PIPE", "OVERFLOW", "PROTO"}
  BY DEF KernelFails, Submitting
<1>5. /\ UNCHANGED <<req, flags, reaping, report, priv>> /\ job' = job
      /\ plugged' = plugged /\ plugged \in BOOLEAN
  BY <1>3 DEF KernelFails, KernelOnly, UrbsOK
<1> HIDE DEF cancels
<1> DEFINE after == [urb EXCEPT ![i].st = "done", ![i].status = status, ![i].data = k]
           e(j) == IF j \in lost THEN [after[j] EXCEPT !.st = "done", !.status = "ENOENT"]
                   ELSE after[j]
<1>6. urb' = [j \in 1 .. Num |-> e(j)]
  BY <1>1
<1>7. /\ after[i] = [urb[i] EXCEPT !.st = "done", !.status = status, !.data = k]
      /\ \A j \in 1 .. Num : j # i => after[j] = urb[j]
  BY <1>3
<1>8. i \notin lost /\ lost \in SUBSET (1 .. Num)
  BY <1>3
<1> HIDE DEF after, lost
<1>9. /\ e(i) = [urb[i] EXCEPT !.st = "done", !.status = status, !.data = k]
      /\ \A j \in lost : e(j) = [urb[j] EXCEPT !.st = "done", !.status = "ENOENT"]
      /\ \A j \in 1 .. Num : j # i /\ j \notin lost => e(j) = urb[j]
  BY <1>7, <1>8
<1> HIDE DEF e
<1>10. /\ Num' = Num /\ urb' = [j \in 1 .. Num |-> urb'[j]]
      /\ \A j \in 1 .. Num : urb'[j] = e(j)
  BY <1>3, <1>6 DEF Num
<1>11. urb'[i] = [urb[i] EXCEPT !.st = "done", !.status = status, !.data = k]
  BY <1>10, <1>9
<1>12. \A j \in lost : urb'[j] = [urb[j] EXCEPT !.st = "done", !.status = "ENOENT"]
  BY <1>10, <1>8, <1>9
<1>13. \A j \in 1 .. Num : j \notin D => urb'[j] = urb[j]
  BY <1>10, <1>9
<1>14. \A j \in D : /\ IsUrb(urb'[j]) /\ urb'[j].st = "done"
                    /\ urb'[j].status = IF j = i THEN status ELSE "ENOENT"
  <2>1. IsUrb(urb'[i]) /\ urb'[i].st = "done" /\ urb'[i].status = status
    <3>1. urb'[i] = SetData(urb[i], "done", status, k)
      BY <1>11 DEF SetData
    <3> QED
      BY <1>3, <3>1, UrbSet
  <2>2. ASSUME NEW j \in lost
        PROVE  IsUrb(urb'[j]) /\ urb'[j].st = "done" /\ urb'[j].status = "ENOENT"
    <3>1. urb'[j] = SetStatus(urb[j], "done", "ENOENT")
      BY <1>12 DEF SetStatus
    <3>2. IsUrb(urb[j])
      BY <1>3, <1>8
    <3> QED
      BY <3>1, <3>2, UrbSet
  <2> QED
    BY <1>8, <2>1, <2>2
<1> USE DEF lost
<1>15. /\ D \in SUBSET Pending
       /\ \A j \in 1 .. Num : /\ IsUrb(urb'[j])
                              /\ j \notin D => urb'[j] = urb[j]
                              /\ j \in D => urb'[j].st = "done"
       /\ \A j \in D, m \in Pending \ D : j < m
       /\ cancels => D = Pending
  BY <1>3, <1>13, <1>14
<1>16. /\ JobOK' /\ CancelInv' /\ (Disordered' <=> Disordered)
       /\ (Submitting' <=> Submitting) /\ (Discarding("submit")' <=> Discarding("submit"))
  BY <1>5, <1>10, <1>15, CalmJob
<1>17. \A j \in D : /\ urb'[j].status \in Statuses
                    /\ urb'[j].status = "SHUTDOWN" => plugged' = FALSE
                    /\ urb'[j].status = "OVERFLOW" => j = Num
                    /\ urb'[j].status = "PIPE" /\ Num > 2 => ~Submitting /\ D = Pending
  BY <1>3, <1>4, <1>14, <1>15 DEF Statuses
<1> DEFINE s == <<i>> \o behind
<1>18. /\ s \in Seq(1 .. Num) /\ Once(s) /\ Rising(s)
       /\ \A j \in Int : Holds(s, j) <=> j \in D
       /\ doneq' = doneq \o s
  <2>1. /\ <<i>> \in Seq(1 .. Num) /\ Once(<<i>>) /\ Rising(<<i>>)
        /\ \A j \in Int : Holds(<<i>>, j) <=> j \in {i}
        /\ Append(doneq, i) = doneq \o <<i>>
    BY <1>3, OneUrb
  <2>2. /\ behind \in Seq(1 .. Num) /\ Once(behind) /\ Rising(behind)
        /\ \A j \in Int : Holds(behind, j) <=> j \in lost
    BY <1>3, Ordered
  <2>3. \A j \in 1 .. Num : ~(Holds(<<i>>, j) /\ Holds(behind, j))
    BY <2>1, <2>2
  <2>4. \A j, m \in 1 .. Num : Holds(<<i>>, j) /\ Holds(behind, m) => j < m
    BY <2>1, <2>2
  <2>5. (doneq \o <<i>>) \o behind = doneq \o (<<i>> \o behind)
    BY <1>3, <2>1, <2>2, ConcatAssociative, SMTT(30)
  <2>6. /\ s \in Seq(1 .. Num) /\ Once(s) /\ Rising(s)
        /\ \A j \in Int : Holds(s, j) <=> Holds(<<i>>, j) \/ Holds(behind, j)
    BY <1>3, <2>1, <2>2, <2>3, <2>4, Joined
  <2> HIDE DEF lost
  <2>7. \A j \in Int : Holds(s, j) <=> j \in D
    BY <2>1, <2>2, <2>6
  <2> QED
    BY <1>2, <2>1, <2>5, <2>6, <2>7
<1> HIDE DEF D, s
<1> QED
  BY <1>5, <1>10, <1>15, <1>16, <1>17, <1>18, Moved

\* The device is gone, and the kernel returns all it has.
LEMMA UnplugKeeps == ASSUME UInv, Races = {}, Unplug PROVE UInv'
<1>1. PICK s \in InOrder(Pending) : doneq' = doneq \o s
  BY DEF Unplug
<1>2. /\ Num \in Nat /\ Pending \in SUBSET (1 .. Num)
      /\ urb = [j \in 1 .. Num |-> urb[j]] /\ \A j \in 1 .. Num : IsUrb(urb[j])
  BY Types DEF UInv, UrbsOK
<1>3. /\ urb' = [i \in 1 .. Num |->
               IF i \in Pending THEN [urb[i] EXCEPT !.st = "done", !.status = "SHUTDOWN"]
               ELSE urb[i]]
      /\ UNCHANGED <<req, flags, reaping, report, priv>> /\ job' = job /\ plugged' = FALSE
      /\ Discarding("cancel") => Num = 1
  BY DEF Unplug, Discarding
<1> DEFINE e(i) == IF i \in Pending THEN [urb[i] EXCEPT !.st = "done", !.status = "SHUTDOWN"]
                   ELSE urb[i]
<1>4. urb' = [i \in 1 .. Num |-> e(i)]
  BY <1>3
<1> HIDE DEF e
<1>5. /\ Num' = Num /\ urb' = [j \in 1 .. Num |-> urb'[j]]
      /\ \A j \in 1 .. Num : urb'[j] = e(j)
  BY <1>2, <1>4 DEF Num
<1>6. \A j \in 1 .. Num : /\ IsUrb(urb'[j])
                          /\ j \notin Pending => urb'[j] = urb[j]
                          /\ j \in Pending => urb'[j].st = "done" /\ urb'[j].status = "SHUTDOWN"
  <2> SUFFICES ASSUME NEW j \in 1 .. Num
               PROVE  /\ IsUrb(urb'[j])
                      /\ j \notin Pending => urb'[j] = urb[j]
                      /\ j \in Pending => urb'[j].st = "done" /\ urb'[j].status = "SHUTDOWN"
    OBVIOUS
  <2>1. CASE j \in Pending
    <3>1. urb'[j] = SetStatus(urb[j], "done", "SHUTDOWN")
      BY <1>5, <2>1 DEF e, SetStatus
    <3> QED
      BY <1>2, <2>1, <3>1, UrbSet
  <2>2. CASE j \notin Pending
    BY <1>2, <1>5, <2>2 DEF e
  <2> QED
    BY <2>1, <2>2
<1>7. /\ s \in Seq(1 .. Num) /\ Once(s) /\ Rising(s)
      /\ \A j \in Int : Holds(s, j) <=> j \in Pending
  BY SMTT(30), <1>1, <1>2, Ordered
<1>8. /\ JobOK' /\ CancelInv' /\ (Disordered' <=> Disordered)
      /\ (Submitting' <=> Submitting) /\ (Discarding("submit")' <=> Discarding("submit"))
  BY <1>3, <1>5, <1>6, CalmJob
<1>9. /\ Pending \in SUBSET Pending
      /\ \A j \in Pending, m \in Pending \ Pending : j < m
      /\ \A j \in Pending : urb'[j].status = "SHUTDOWN" /\ urb'[j].status \in Statuses
  BY <1>2, <1>6 DEF Statuses
<1> HIDE DEF Pending
<1> QED
  BY <1>1, <1>3, <1>5, <1>6, <1>7, <1>8, <1>9, Moved

-----------------------------------------------------------------------------
(* Discards.                                                                 *)

\* The next URB of a job of discards.
NextJob(r) ==
  [do |-> "discard", first |-> job.first, last |-> job.last, i |-> job.i - 1, ret |-> r,
   who |-> job.who]

\* A job of discards.
LEMMA DiscardJob ==
  ASSUME UInv, job.do = "discard"
  PROVE  /\ job = [do |-> "discard", first |-> job.first, last |-> job.last, i |-> job.i,
                   ret |-> job.ret, who |-> job.who]
         /\ job.first \in 1 .. Num /\ job.last \in 1 .. Num /\ job.i \in job.first - 1 .. job.last
         /\ job.ret \in Returns /\ job.who \in {"submit", "cancel", "reap"}
         /\ job # NoJob /\ ~Submitting
BY DEF UInv, JobOK, Submitting, NoJob

\* Assigning fields of a job.
LEMMA JobSet ==
  ASSUME NEW w, NEW j, NEW r, NEW v, v = [w EXCEPT !.i = j, !.ret = r],
         w = [do |-> "discard", first |-> w.first, last |-> w.last, i |-> w.i, ret |-> w.ret,
              who |-> w.who]
  PROVE  v = [do |-> "discard", first |-> w.first, last |-> w.last, i |-> j, ret |-> r,
              who |-> w.who]
<1> DEFINE x == [do |-> "discard", first |-> w.first, last |-> w.last, i |-> w.i, ret |-> w.ret,
                 who |-> w.who]
           y == [do |-> "discard", first |-> w.first, last |-> w.last, i |-> j, ret |-> w.ret,
                 who |-> w.who]
<1>1. [x EXCEPT !.i = j] = y
  OBVIOUS
<1>2. [y EXCEPT !.ret = r] = [do |-> "discard", first |-> w.first, last |-> w.last, i |-> j,
                              ret |-> r, who |-> w.who]
  OBVIOUS
<1>3. v = [[w EXCEPT !.i = j] EXCEPT !.ret = r]
  OBVIOUS
<1> HIDE DEF x
<1>4. w = x
  BY DEF x
<1>5. v = [[x EXCEPT !.i = j] EXCEPT !.ret = r]
  BY <1>3, <1>4
<1> HIDE DEF y
<1>6. v = [y EXCEPT !.ret = r]
  BY <1>1, <1>5
<1> QED
  BY <1>2, <1>6

\* The job goes on to the URB before.
LEMMA JobStep ==
  ASSUME UInv, job.do = "discard", job.i >= job.first, NEW r \in Returns, job' = NextJob(r),
         Num' = Num
  PROVE  /\ JobOK' /\ job' # NoJob /\ job # NoJob /\ ~Submitting /\ ~(Submitting')
         /\ \A who : Discarding(who)' <=> Discarding(who)
         /\ job'.first = job.first /\ job'.last = job.last /\ job'.i = job.i - 1 /\ job'.ret = r
         /\ job'.i < job'.last
<1>1. /\ job.first \in 1 .. Num /\ job.last \in 1 .. Num /\ job.i \in job.first - 1 .. job.last
      /\ job.who \in {"submit", "cancel", "reap"} /\ job # NoJob /\ ~Submitting /\ Num \in Nat
  BY DiscardJob, Types DEF UInv
<1>2. job.i - 1 \in job.first - 1 .. job.last
  BY <1>1
<1>3. /\ job'.first = job.first /\ job'.last = job.last /\ job'.i = job.i - 1 /\ job'.ret = r
      /\ job'.do = "discard" /\ job'.who = job.who
  BY DEF NextJob
<1>4. JobOK'
  <2>1. job' = [do |-> "discard", first |-> job.first, last |-> job.last, i |-> job.i - 1,
                ret |-> r, who |-> job.who]
    BY DEF NextJob
  <2> QED
    BY <1>1, <1>2, <2>1 DEF JobOK
<1>5. job' # NoJob
  BY <1>3 DEF NoJob
<1> QED
  BY <1>1, <1>3, <1>4, <1>5 DEF Submitting, Discarding

\* DISCARDURB leaves the job so.
LEMMA JobNext ==
  ASSUME UInv, job.do = "discard", NEW r, job' = [job EXCEPT !.i = job.i - 1, !.ret = r]
  PROVE  job' = NextJob(r)
<1>1. job = [do |-> "discard", first |-> job.first, last |-> job.last, i |-> job.i,
             ret |-> job.ret, who |-> job.who]
  BY DiscardJob
<1> DEFINE j == job.i - 1  v == job'
<1>2. v = [job EXCEPT !.i = j, !.ret = r]
  OBVIOUS
<1> HIDE DEF j, v
<1>3. v = [do |-> "discard", first |-> job.first, last |-> job.last, i |-> j, ret |-> r,
           who |-> job.who]
  BY <1>1, <1>2, JobSet
<1> QED
  BY <1>3 DEF NextJob, j, v

\* One DISCARDURB: the URB comes back, was back already, or the device is gone.
LEMMA DiscardUrbKeeps == ASSUME UInv, DiscardUrb PROVE UInv'
<1> DEFINE i == job.i
<1>1. /\ job.do = "discard" /\ i >= job.first
      /\ UNCHANGED <<req, flags, reaping, report, priv, plugged>>
  BY DEF DiscardUrb
<1>2. /\ job = [do |-> "discard", first |-> job.first, last |-> job.last, i |-> job.i,
                ret |-> job.ret, who |-> job.who]
      /\ job.first \in 1 .. Num /\ job.last \in 1 .. Num /\ i \in job.first - 1 .. job.last
      /\ job.ret \in Returns /\ job.who \in {"submit", "cancel", "reap"} /\ ~Submitting
      /\ priv.urbs
  BY <1>1, DiscardJob DEF UInv, LifeInv
<1>3. /\ Num \in Nat /\ i \in 1 .. Num /\ UrbsOK /\ Pending \in SUBSET (1 .. Num)
      /\ plugged \in BOOLEAN /\ doneq \in Seq(1 .. Num)
  BY <1>1, <1>2, Types DEF UInv, UrbsOK, QueueInv
<1>4. CASE plugged /\ i \in Pending
  <2>1. PICK d : Finished(i, d, "ENOENT")
    BY <1>4 DEF DiscardUrb
  <2>2. job' = NextJob(job.ret)
    <3>1. job' = [job EXCEPT !.i = @ - 1]
      BY SMTT(30), <1>4 DEF DiscardUrb
    <3> QED
      BY <1>2, <3>1 DEF NextJob
  <2>3. /\ Num' = Num /\ urb' = [j \in 1 .. Num |-> urb'[j]]
        /\ urb'[i].st = "done" /\ urb'[i].status = "ENOENT"
        /\ \A j \in 1 .. Num : IsUrb(urb'[j]) /\ (j # i => urb'[j] = urb[j])
    BY <1>3, <2>1, Ended DEF Finished
  <2>4. /\ JobOK' /\ job' # NoJob /\ job # NoJob /\ ~Submitting /\ ~(Submitting')
        /\ \A who : Discarding(who)' <=> Discarding(who)
        /\ job'.first = job.first /\ job'.last = job.last /\ job'.i = i - 1 /\ job'.ret = job.ret
        /\ job'.i < job'.last
    BY <1>1, <1>2, <2>2, <2>3, JobStep
  <2>5. \A j \in 1 .. Num : (St(j) # "pending" => St(j)' # "pending") /\ (j # i => St(j)' = St(j))
    BY <2>3 DEF St, Pending
  <2>6. CancelInv'
    <3>1. Discarding("cancel") => /\ job.first = 1 /\ job.last = Num
                                  /\ job.ret # "OK" => i < job.last
      BY <1>2 DEF UInv, CancelInv
    <3>2. Discarding("cancel") /\ job.ret # "OK" => priv.action # "NORMAL"
      BY <1>3, <1>4, <3>1 DEF UInv, CancelInv, Pending, St
    <3>3. Discarding("reap") =>
            /\ job.last = Num /\ job.first > 1 /\ urb'[job.first - 1].st = "retired"
            /\ priv.action = "NORMAL"
                 => job.first = Num \/ \A j \in 1 .. Num : St(j)' # "pending"
      <4> SUFFICES ASSUME Discarding("reap")
                   PROVE  /\ job.last = Num /\ job.first > 1 /\ urb'[job.first - 1].st = "retired"
                          /\ priv.action = "NORMAL"
                               => job.first = Num \/ \A j \in 1 .. Num : St(j)' # "pending"
        OBVIOUS
      <4>1. /\ job.last = Num /\ job.first > 1 /\ St(job.first - 1) = "retired"
            /\ priv.action = "NORMAL"
                 => job.first = Num \/ \A j \in 1 .. Num : St(j) # "pending"
        BY DEF UInv, CancelInv
      <4>2. job.first - 1 \in 1 .. Num /\ job.first - 1 # i
        BY <1>1, <1>2, <4>1
      <4>3. urb'[job.first - 1].st = "retired"
        BY <2>3, <4>1, <4>2 DEF St
      <4> QED
        BY <2>5, <4>1, <4>3
    <3>4. Discarding("submit") => priv.action # "NORMAL"
      BY DEF UInv, CancelInv
    <3>5. /\ Discarding("cancel")' => job'.first = 1 /\ job'.last = Num'
          /\ Discarding("cancel")' /\ job'.i = job'.last => job'.ret = "OK"
      BY <1>2, <2>3, <2>4, <3>1
    <3>6. Discarding("cancel")' /\ job'.i < job'.last =>
            /\ job'.ret = "OK" => plugged' \/ Num' = 1
            /\ job'.ret # "OK" /\ priv'.action = "NORMAL"
                 => \A j \in 1 .. Num' : urb'[j].st # "pending"
      BY <1>1, <1>4, <2>4, <3>2
    <3>7. Discarding("reap")' =>
            /\ job'.last = Num' /\ job'.first > 1 /\ urb'[job'.first - 1].st = "retired"
            /\ priv'.action = "NORMAL"
                 => job'.first = Num' \/ \A j \in 1 .. Num' : urb'[j].st # "pending"
      BY <1>1, <2>3, <2>4, <3>3 DEF St
    <3>8. Discarding("submit")' => priv'.action # "NORMAL"
      BY <1>1, <2>4, <3>4
    <3> QED
      BY <3>5, <3>6, <3>7, <3>8 DEF CancelInv, St
  <2>7. priv.action = "NORMAL" /\ ~Disordered' => ~Disordered /\ \A j \in {i}, m \in Pending \ {i} : j < m
    <3> SUFFICES ASSUME priv.action = "NORMAL", ~Disordered'
                 PROVE  ~Disordered /\ \A m \in Pending \ {i} : i < m
      OBVIOUS
    <3>1. ~Discarding("submit")
      BY DEF UInv, CancelInv
    <3>2. ~Discarding("cancel")
      <4> SUFFICES ASSUME Discarding("cancel") PROVE FALSE
        OBVIOUS
      <4>1. job.ret # "OK"
        BY <2>4 DEF Disordered
      <4>2. i < job.last
        BY <1>2, <4>1 DEF UInv, CancelInv
      <4>3. \A j \in 1 .. Num : St(j) # "pending"
        BY <4>1, <4>2 DEF UInv, CancelInv
      <4> QED
        BY <1>3, <1>4, <4>3 DEF Pending, St
    <3>3. Discarding("reap")
      BY <1>1, <1>2, <3>1, <3>2 DEF Discarding
    <3>4. job.last = Num /\ job.first > 1 /\ St(job.first - 1) = "retired" /\ job.first = Num
      BY <1>3, <1>4, <3>3 DEF UInv, CancelInv, Pending, St
    <3>5. i = Num
      BY <1>1, <1>2, <3>4
    <3>6. ~Disordered
      BY <3>2 DEF Disordered
    <3>7. InTurn
      BY <1>2, <3>6 DEF UInv, OrderInv
    <3>8. \A j \in 1 .. Num : j < Num => St(j) = "retired"
      <4> SUFFICES ASSUME NEW j \in 1 .. Num, j < Num PROVE St(j) = "retired"
        OBVIOUS
      <4>1. Num - 1 \in 1 .. Num /\ St(Num - 1) = "retired" /\ (j < Num - 1 \/ j = Num - 1)
        BY <1>3, <3>4
      <4> QED
        BY <3>7, <4>1 DEF InTurn
    <3>9. Pending \ {i} = {}
      BY <1>3, <3>5, <3>8 DEF Pending, St
    <3> QED
      BY <3>6, <3>9
  <2> DEFINE D == {i}
  <2>8. /\ <<i>> \in Seq(1 .. Num) /\ Once(<<i>>) /\ Rising(<<i>>)
        /\ \A j \in Int : Holds(<<i>>, j) <=> j \in D
        /\ doneq' = doneq \o <<i>>
    <3>1. doneq' = Append(doneq, i) /\ doneq \in Seq(1 .. Num) /\ i \in 1 .. Num /\ Num \in Nat
      BY <1>3, <2>1 DEF Finished
    <3>2. <<i>> \in Seq(1 .. Num) /\ Once(<<i>>) /\ Rising(<<i>>)
      BY <3>1, OneUrb
    <3>3. \A j \in Int : Holds(<<i>>, j) <=> j \in D
      BY <3>1, OneUrb
    <3>4. Append(doneq, i) = doneq \o <<i>>
      BY <3>1, OneUrb
    <3> QED
      BY <3>1, <3>2, <3>3, <3>4
  <2>9. /\ D \in SUBSET Pending
        /\ \A j \in 1 .. Num : /\ IsUrb(urb'[j])
                               /\ j \notin D => urb'[j] = urb[j]
                               /\ j \in D => urb'[j].st = "done"
        /\ \A j \in D : urb'[j].status = "ENOENT" /\ urb'[j].status \in Statuses
        /\ priv.action = "NORMAL" /\ ~Disordered' => ~Disordered /\ \A j \in D, m \in Pending \ D : j < m
    BY <1>4, <2>3, <2>7 DEF Statuses
  <2> HIDE DEF D, i
  <2> QED
    BY <1>1, <1>3, <2>3, <2>4, <2>6, <2>8, <2>9, Moved
<1>5. CASE ~(plugged /\ i \in Pending)
  <2>1. UNCHANGED <<urb, doneq>>
    BY <1>5 DEF DiscardUrb
  <2> DEFINE r == IF ~plugged THEN "NO_DEVICE"
                  ELSE IF i = job.last THEN "NOT_FOUND" ELSE job.ret
  <2>2. job' = NextJob(r) /\ r \in Returns
    <3> HIDE DEF r
    <3>1. CASE plugged
      <4>1. job' = [job EXCEPT !.i = @ - 1, !.ret = IF i = job.last THEN "NOT_FOUND" ELSE @]
        BY <1>5, <3>1 DEF DiscardUrb
      <4>2. job' = [job EXCEPT !.i = job.i - 1, !.ret = r]
        BY <1>2, <3>1, <4>1 DEF r
      <4>3. job' = NextJob(r)
        BY <1>1, <4>2, JobNext
      <4> QED
        BY <1>2, <3>1, <4>3 DEF Returns, r
    <3>2. CASE ~plugged
      <4>1. job' = [job EXCEPT !.i = @ - 1, !.ret = "NO_DEVICE"]
        BY <3>2 DEF DiscardUrb
      <4>2. job' = [job EXCEPT !.i = job.i - 1, !.ret = r]
        BY <1>2, <3>2, <4>1 DEF r
      <4>3. job' = NextJob(r)
        BY <1>1, <4>2, JobNext
      <4> QED
        BY <3>2, <4>3 DEF Returns, r
    <3> QED
      BY <3>1, <3>2
  <2> HIDE DEF r
  <2>3. Num' = Num
    BY <2>1 DEF Num
  <2>4. /\ JobOK' /\ job' # NoJob /\ job # NoJob /\ ~Submitting /\ ~(Submitting')
        /\ \A who : Discarding(who)' <=> Discarding(who)
        /\ job'.first = job.first /\ job'.last = job.last /\ job'.i = i - 1 /\ job'.ret = r
        /\ job'.i < job'.last
    BY <1>1, <1>2, <2>2, <2>3, JobStep
  <2>5. Discarding("cancel") => job.first = 1 /\ job.last = Num
    BY DEF UInv, CancelInv
  <2>6. Discarding("cancel") /\ r = "OK" => plugged /\ i < job.last /\ job.ret = "OK"
    BY <1>2 DEF r
  <2>7. ~plugged => \A j \in 1 .. Num : St(j) # "pending"
    BY DEF UInv, KernelInv
  <2>8. Discarding("cancel") /\ r # "OK" /\ priv.action = "NORMAL"
          => \A j \in 1 .. Num : St(j) # "pending"
    <3> SUFFICES ASSUME Discarding("cancel"), plugged, r # "OK", priv.action = "NORMAL"
                 PROVE  \A j \in 1 .. Num : St(j) # "pending"
      BY <2>7
    <3>1. CASE i = job.last
      <4>1. ~Disordered
        BY <1>2, <3>1 DEF Disordered
      <4>2. InTurn
        BY <1>2, <4>1 DEF UInv, OrderInv
      <4>3. St(Num) \in {"done", "retired"} /\ Num \in 1 .. Num
        <5>1. Num \in 1 .. Num
          BY <1>3
        <5>2. St(Num) # "new"
          BY <1>2, <5>1 DEF UInv, SubmitInv
        <5>3. St(Num) # "pending"
          BY <1>5, <2>5, <3>1, <5>1 DEF Pending, St
        <5> QED
          BY <5>1, <5>2, <5>3 DEF UInv, UrbsOK
      <4>4. \A j \in 1 .. Num : j # Num => j < Num
        BY <1>3
      <4> QED
        BY <4>2, <4>3, <4>4 DEF InTurn
    <3>2. CASE i # job.last
      <4>1. i < job.last /\ job.ret # "OK"
        BY <1>2, <3>2 DEF r
      <4> QED
        BY <4>1 DEF UInv, CancelInv
    <3> QED
      BY <3>1, <3>2
  <2>9. CancelInv'
    <3>1. Discarding("reap") =>
            /\ job.last = Num /\ job.first > 1 /\ St(job.first - 1) = "retired"
            /\ priv.action = "NORMAL"
                 => job.first = Num \/ \A j \in 1 .. Num : St(j) # "pending"
      BY DEF UInv, CancelInv
    <3>2. Discarding("submit") => priv.action # "NORMAL"
      BY DEF UInv, CancelInv
    <3>3. /\ Discarding("cancel")' => job'.first = 1 /\ job'.last = Num'
          /\ Discarding("cancel")' /\ job'.i = job'.last => job'.ret = "OK"
      BY <1>2, <2>3, <2>4, <2>5
    <3>4. Discarding("cancel")' /\ job'.i < job'.last =>
            /\ job'.ret = "OK" => plugged' \/ Num' = 1
            /\ job'.ret # "OK" /\ priv'.action = "NORMAL"
                 => \A j \in 1 .. Num' : urb'[j].st # "pending"
      BY <1>1, <2>1, <2>3, <2>4, <2>6, <2>8 DEF St
    <3>5. Discarding("reap")' =>
            /\ job'.last = Num' /\ job'.first > 1 /\ urb'[job'.first - 1].st = "retired"
            /\ priv'.action = "NORMAL"
                 => job'.first = Num' \/ \A j \in 1 .. Num' : urb'[j].st # "pending"
      BY <1>1, <2>1, <2>3, <2>4, <3>1 DEF St
    <3>6. Discarding("submit")' => priv'.action # "NORMAL"
      BY <1>1, <2>4, <3>2
    <3> QED
      BY <3>3, <3>4, <3>5, <3>6 DEF CancelInv, St
  <2>10. Disordered' <=> Discarding("cancel") /\ r = "OK"
    BY <2>4 DEF Disordered
  <2>11. Disordered => Disordered'
    <3> SUFFICES ASSUME Disordered PROVE r = "OK"
      BY <2>10 DEF Disordered
    <3>1. Discarding("cancel") /\ i < job.last /\ job.ret = "OK"
      BY DEF Disordered
    <3>2. plugged \/ Num = 1
      BY <3>1 DEF UInv, CancelInv
    <3>3. plugged
      BY <1>1, <1>2, <2>5, <3>1, <3>2
    <3> QED
      BY <1>2, <3>1, <3>3 DEF r
  <2> DEFINE D == {}
             s == <<>>
  <2>12. /\ s \in Seq(1 .. Num) /\ Once(s) /\ Rising(s)
         /\ \A j \in Int : Holds(s, j) <=> j \in D
         /\ doneq' = doneq \o s
    BY <1>3, <2>1 DEF Once, Rising, Holds
  <2>13. /\ D \in SUBSET Pending /\ urb' = [j \in 1 .. Num |-> urb'[j]]
         /\ \A j \in 1 .. Num : /\ IsUrb(urb'[j])
                                /\ j \notin D => urb'[j] = urb[j]
                                /\ j \in D => urb'[j].st = "done"
         /\ priv.action = "NORMAL" /\ ~Disordered' => ~Disordered /\ \A j \in D, m \in Pending \ D : j < m
    BY <2>1, <2>11 DEF UInv, UrbsOK
  <2>14. \A j \in D : FALSE
    OBVIOUS
  <2> HIDE DEF D, s, i
  <2> QED
    BY <1>1, <1>3, <2>3, <2>4, <2>9, <2>12, <2>13, <2>14, Moved
<1> QED
  BY <1>4, <1>5

-----------------------------------------------------------------------------
(* The other steps of the library.                                           *)

\* The fields of priv.
IsPriv(w) ==
  w = [urbs |-> w.urbs, action |-> w.action, retired |-> w.retired, status |-> w.status,
       packet |-> w.packet]

\* Assigning fields of linux_transfer_priv.
LEMMA PrivFields ==
  ASSUME NEW w, IsPriv(w), NEW a
  PROVE  /\ [w EXCEPT !.urbs = a] = [urbs |-> a, action |-> w.action, retired |-> w.retired,
                                     status |-> w.status, packet |-> w.packet]
         /\ [w EXCEPT !.action = a] = [urbs |-> w.urbs, action |-> a, retired |-> w.retired,
                                       status |-> w.status, packet |-> w.packet]
<1> DEFINE x == [urbs |-> w.urbs, action |-> w.action, retired |-> w.retired,
                 status |-> w.status, packet |-> w.packet]
<1>1. w = x
  BY DEF IsPriv
<1>2. [x EXCEPT !.urbs = a] = [urbs |-> a, action |-> w.action, retired |-> w.retired,
                               status |-> w.status, packet |-> w.packet]
  OBVIOUS
<1>3. [x EXCEPT !.action = a] = [urbs |-> w.urbs, action |-> a, retired |-> w.retired,
                                 status |-> w.status, packet |-> w.packet]
  OBVIOUS
<1> HIDE DEF x
<1> QED
  BY <1>1, <1>2, <1>3

\* The assignments to linux_transfer_priv that count nothing.
LEMMA PrivSet ==
  ASSUME UrbsOK, NEW a
  PROVE  /\ \A v : v = [priv EXCEPT !.urbs = FALSE] =>
              v = [urbs |-> FALSE, action |-> priv.action, retired |-> priv.retired,
                   status |-> priv.status, packet |-> priv.packet]
         /\ \A v : v = [priv EXCEPT !.action = a] =>
              v = [urbs |-> priv.urbs, action |-> a, retired |-> priv.retired,
                   status |-> priv.status, packet |-> priv.packet]
<1>1. IsPriv(priv)
  BY DEF UrbsOK, IsPriv
<1>2. [priv EXCEPT !.urbs = FALSE] =
              [urbs |-> FALSE, action |-> priv.action, retired |-> priv.retired,
               status |-> priv.status, packet |-> priv.packet]
  BY <1>1, PrivFields
<1>3. [priv EXCEPT !.action = a] =
              [urbs |-> priv.urbs, action |-> a, retired |-> priv.retired,
               status |-> priv.status, packet |-> priv.packet]
  BY <1>1, PrivFields
<1> QED
  BY <1>2, <1>3

\* The library's steps that leave the URBs alone and change no count.
LEMMA SameUrbs ==
  ASSUME UInv, UNCHANGED <<req, urb, plugged>>, Submitting' <=> Submitting
  PROVE  /\ Num' = Num /\ Back' = Back
         /\ \A i \in 1 .. Num : St(i)' = St(i)
         /\ KernelInv'
<1>1. Num' = Num /\ \A i : St(i)' = St(i)
  BY DEF Num, St
<1>2. Back' = Back
  BY <1>1 DEF Back
<1>3. KernelInv'
  BY <1>1 DEF UInv, KernelInv, St, Num
<1> QED
  BY <1>1, <1>2, <1>3

\* discard_urbs returns, to the cancellation or to the failed submission.
LEMMA DiscardEndsKeeps == ASSUME UInv, DiscardEnds PROVE UInv'
<1>1. /\ job.do = "discard" /\ job.i < job.first /\ job' = NoJob
      /\ UNCHANGED <<req, urb, doneq, reaping, report, plugged>>
      /\ flags' = IF job.who = "submit" THEN "flying" ELSE flags
  BY DEF DiscardEnds
<1>2. /\ job.first \in 1 .. Num /\ job.last \in 1 .. Num /\ job.i \in job.first - 1 .. job.last
      /\ job.who \in {"submit", "cancel", "reap"} /\ job # NoJob /\ ~Submitting
  BY <1>1, DiscardJob
<1>3. /\ ~(Submitting') /\ \A who : ~(Discarding(who)')
  BY <1>1 DEF Submitting, Discarding, NoJob
<1>4. /\ Num' = Num /\ Back' = Back /\ KernelInv'
      /\ \A i \in 1 .. Num : St(i)' = St(i)
  BY <1>1, <1>2, <1>3, SameUrbs
<1>5. \/ priv' = priv /\ ~(Discarding("cancel") /\ job.ret = "OK")
      \/ priv' = priv /\ priv.action = "ERROR"
      \/ priv' = [priv EXCEPT !.action = "CANCELLED"]
  BY <1>1 DEF DiscardEnds, Discarding
<1>6. /\ priv' = [urbs |-> priv'.urbs, action |-> priv'.action, retired |-> priv'.retired,
                  status |-> priv'.status, packet |-> priv'.packet]
      /\ priv'.urbs = priv.urbs /\ priv'.retired = priv.retired
      /\ priv'.action \in Actions
      /\ priv'.action = "NORMAL"
           => priv.action = "NORMAL" /\ ~(Discarding("cancel") /\ job.ret = "OK")
  <2>1. /\ priv = [urbs |-> priv.urbs, action |-> priv.action, retired |-> priv.retired,
                   status |-> priv.status, packet |-> priv.packet]
        /\ priv.action \in Actions
    BY DEF UInv, UrbsOK
  <2>2. CASE priv' = priv
    BY <1>5, <2>1, <2>2 DEF Actions
  <2>3. CASE priv' = [priv EXCEPT !.action = "CANCELLED"]
    <3>1. priv' = [urbs |-> priv.urbs, action |-> "CANCELLED", retired |-> priv.retired,
                   status |-> priv.status, packet |-> priv.packet]
      BY <2>3, PrivSet DEF UInv
    <3> QED
      BY <3>1 DEF Actions
  <2> QED
    BY <1>5, <2>2, <2>3
<1>7. UrbsOK'
  BY <1>1, <1>4, <1>6 DEF UInv, UrbsOK, St
<1>8. JobOK' /\ CancelInv'
  BY <1>1, <1>3 DEF JobOK, CancelInv
<1>9. QueueInv'
  BY <1>1, <1>4 DEF UInv, QueueInv
<1>10. LifeInv'
  BY <1>1, <1>2, <1>3, <1>6 DEF UInv, LifeInv, Discarding
<1>11. SubmitInv'
  BY <1>2, <1>3, <1>4, <1>6 DEF UInv, SubmitInv
<1>12. CountInv'
  BY <1>1, <1>4, <1>6 DEF UInv, CountInv
<1>13. OrderInv'
  <2> SUFFICES ASSUME priv'.urbs, priv'.action = "NORMAL" PROVE InTurn'
    BY DEF OrderInv
  <2>1. InTurn
    BY <1>6 DEF UInv, OrderInv, Disordered
  <2> QED
    BY <1>1, <1>4, <2>1 DEF InTurn
<1>14. NoUrbLeft'
  BY <1>1, <1>4, <1>6 DEF UInv, NoUrbLeft, St
<1> QED
  BY <1>4, <1>7, <1>8, <1>9, <1>10, <1>11, <1>12, <1>13, <1>14 DEF UInv

\* op_cancel_transfer begins to discard.
LEMMA CancelKeeps == ASSUME UInv, Cancel PROVE UInv'
<1>1. /\ job = NoJob /\ flags' = "cancelling"
      /\ job' = IF priv.urbs THEN Discard(1, Num, "cancel") ELSE NoJob
      /\ UNCHANGED <<req, urb, doneq, reaping, report, priv, plugged>>
  BY DEF Cancel
<1>2. /\ job' = NoJob \/ (priv.urbs /\ job' = Discard(1, Num, "cancel"))
      /\ ~Submitting /\ ~(Submitting') /\ \A who : ~Discarding(who)
  BY <1>1 DEF Submitting, Discarding, Discard, NoJob
<1>3. /\ Num' = Num /\ Back' = Back /\ KernelInv'
      /\ \A i \in 1 .. Num : St(i)' = St(i)
  BY <1>1, <1>2, SameUrbs
<1>4. JobOK'
  <2>1. CASE priv.urbs /\ job' = Discard(1, Num, "cancel")
    <3>1. /\ 1 \in 1 .. Num /\ Num \in 1 .. Num /\ Num \in 1 - 1 .. Num
      BY <2>1 DEF UInv, UrbsOK
    <3>2. job' = [do |-> "discard", first |-> 1, last |-> Num, i |-> Num, ret |-> "OK",
                  who |-> "cancel"]
      BY <2>1 DEF Discard
    <3> QED
      BY <1>3, <3>1, <3>2 DEF JobOK, Returns
  <2>2. CASE job' = NoJob
    BY <2>2 DEF JobOK
  <2> QED
    BY <1>2, <2>1, <2>2
<1>5. CancelInv' /\ ~(Disordered')
  <2>1. CASE job' = NoJob
    BY <2>1 DEF CancelInv, Disordered, Discarding, NoJob
  <2>2. CASE job' = Discard(1, Num, "cancel")
    <3>1. Num \in Nat
      BY DEF UInv, UrbsOK
    <3> QED
      BY <1>3, <2>2, <3>1 DEF CancelInv, Disordered, Discarding, Discard
  <2> QED
    BY <1>2, <2>1, <2>2
<1>6. UrbsOK'
  BY <1>1, <1>3 DEF UInv, UrbsOK, St
<1>7. QueueInv'
  BY <1>1, <1>3 DEF UInv, QueueInv
<1>8. LifeInv'
  BY <1>1, <1>2 DEF UInv, LifeInv
<1>9. SubmitInv'
  BY <1>1, <1>2, <1>3 DEF UInv, SubmitInv
<1>10. CountInv'
  BY <1>1, <1>3 DEF UInv, CountInv
<1>11. OrderInv'
  <2>1. priv.urbs /\ priv.action = "NORMAL" => InTurn
    BY <1>2 DEF UInv, OrderInv, Disordered
  <2> QED
    BY <1>1, <1>3, <2>1 DEF OrderInv, InTurn
<1>12. NoUrbLeft'
  BY <1>1, <1>3 DEF UInv, NoUrbLeft, St
<1> QED
  BY <1>3, <1>4, <1>5, <1>6, <1>7, <1>8, <1>9, <1>10, <1>11, <1>12 DEF UInv

\* The transfer is reported when its URBs are freed.
LEMMA ReportKeeps == ASSUME UInv, Report PROVE UInv'
<1>1. /\ job = NoJob /\ job' = job /\ report # "none" /\ report' = "none" /\ ~priv.urbs
      /\ UNCHANGED <<req, urb, doneq, reaping, priv, plugged>>
  BY DEF Report, UInv, LifeInv
<1>2. /\ ~Submitting /\ ~(Submitting') /\ \A who : ~Discarding(who) /\ ~(Discarding(who)')
  BY <1>1 DEF Submitting, Discarding, NoJob
<1>3. /\ Num' = Num /\ Back' = Back /\ KernelInv'
      /\ \A i \in 1 .. Num : St(i)' = St(i)
  BY <1>1, <1>2, SameUrbs
<1>4. UrbsOK'
  BY <1>1, <1>3 DEF UInv, UrbsOK, St
<1>5. JobOK' /\ CancelInv'
  BY <1>1, <1>2 DEF JobOK, CancelInv
<1>6. QueueInv'
  BY <1>1, <1>3 DEF UInv, QueueInv
<1>7. LifeInv' /\ SubmitInv' /\ CountInv' /\ OrderInv'
  BY <1>1, <1>2 DEF LifeInv, SubmitInv, CountInv, OrderInv
<1>8. NoUrbLeft'
  BY <1>1, <1>3 DEF UInv, NoUrbLeft, St
<1> QED
  BY <1>3, <1>4, <1>5, <1>6, <1>7, <1>8 DEF UInv

\* The first SUBMITURB fails: the URBs are freed, none was submitted.
LEMMA FirstFailsKeeps == ASSUME UInv, FirstFails PROVE UInv'
<1>1. /\ Submitting /\ job.i = 1 /\ priv' = [priv EXCEPT !.urbs = FALSE] /\ job' = NoJob
      /\ UNCHANGED <<req, urb, doneq, reaping, report, plugged>>
  BY DEF FirstFails, Submitting
<1>2. /\ ~(Submitting') /\ \A who : ~(Discarding(who)')
      /\ Num' = Num /\ \A i \in 1 .. Num : St(i)' = St(i)
  BY <1>1 DEF Submitting, Discarding, NoJob, Num, St
<1>3. priv' = [urbs |-> FALSE, action |-> priv.action, retired |-> priv.retired,
               status |-> priv.status, packet |-> priv.packet]
  BY <1>1, PrivSet DEF UInv
<1>4. UrbsOK'
  <2>1. priv' = [urbs |-> priv'.urbs, action |-> priv'.action, retired |-> priv'.retired,
                 status |-> priv'.status, packet |-> priv'.packet]
        /\ priv'.urbs = FALSE /\ priv'.action = priv.action /\ priv'.retired = priv.retired
    BY <1>3
  <2> QED
    BY <1>1, <1>2, <2>1 DEF UInv, UrbsOK, St
<1>5. ~priv'.urbs
  BY <1>3
<1>6. KernelInv'
  BY <1>1, <1>2 DEF UInv, KernelInv, St
<1>7. JobOK' /\ CancelInv'
  BY <1>1, <1>2 DEF JobOK, CancelInv
<1>8. QueueInv'
  BY <1>1, <1>2 DEF UInv, QueueInv
<1>9. LifeInv' /\ SubmitInv' /\ CountInv' /\ OrderInv'
  BY <1>1, <1>2, <1>5 DEF LifeInv, SubmitInv, CountInv, OrderInv
<1>10. NoUrbLeft'
  <2>1. \A i \in 1 .. Num : St(i) = "new"
    BY <1>1 DEF UInv, SubmitInv
  <2> QED
    BY <1>1, <1>2, <2>1 DEF NoUrbLeft, St
<1> QED
  BY <1>4, <1>6, <1>7, <1>8, <1>9, <1>10 DEF UInv

\* REAPURB takes the first URB that has come back.
LEMMA ReapKeeps == ASSUME UInv, Reap PROVE UInv'
<1>1. /\ reaping = 0 /\ doneq # <<>> /\ reaping' = Head(doneq) /\ doneq' = Tail(doneq)
      /\ UNCHANGED <<req, flags, job, urb, report, priv, plugged>>
  BY DEF Reap
<1>2. /\ Num' = Num /\ Back' = Back /\ KernelInv' /\ (Submitting' <=> Submitting)
      /\ \A i \in 1 .. Num : St(i)' = St(i)
  BY <1>1, SameUrbs DEF Submitting
<1>3. /\ Num \in Nat /\ doneq \in Seq(1 .. Num) /\ Once(doneq)
  BY Types DEF UInv, QueueInv
<1>4. /\ reaping' \in 1 .. Num /\ doneq' \in Seq(1 .. Num) /\ Once(doneq')
      /\ ~Holds(doneq', reaping')
      /\ \A i \in Int : Holds(doneq, i) <=> i = reaping' \/ Holds(doneq', i)
      /\ Rising(doneq) => /\ Rising(doneq')
                          /\ \A i \in 1 .. Num : Holds(doneq', i) => reaping' < i
  BY <1>1, <1>3, Taken
<1>5. QueueInv'
  <2>1. \A i \in 1 .. Num : St(i) = "done" <=> Holds(doneq, i)
    BY <1>1 DEF UInv, QueueInv
  <2> QED
    BY <1>2, <1>3, <1>4, <2>1 DEF QueueInv
<1>6. UrbsOK'
  BY <1>1, <1>2 DEF UInv, UrbsOK, St
<1>7. JobOK' /\ CancelInv'
  BY <1>1, <1>2 DEF UInv, JobOK, CancelInv, Discarding, St
<1>8. LifeInv' /\ SubmitInv'
  BY <1>1, <1>2 DEF UInv, LifeInv, SubmitInv, Discarding
<1>9. CountInv'
  BY <1>1, <1>2 DEF UInv, CountInv
<1>10. OrderInv'
  <2> SUFFICES ASSUME priv.urbs, priv.action = "NORMAL", ~Disordered PROVE InTurn'
    BY <1>1 DEF OrderInv, Disordered, Discarding
  <2>1. InTurn
    BY DEF UInv, OrderInv
  <2> QED
    BY <1>2, <1>4, <2>1 DEF InTurn
<1>11. NoUrbLeft'
  BY <1>1, <1>2 DEF UInv, NoUrbLeft, St
<1> QED
  BY <1>2, <1>5, <1>6, <1>7, <1>8, <1>9, <1>10, <1>11 DEF UInv

\* While nothing is the kernel's or done, the queue is empty.
LEMMA NothingQueued ==
  ASSUME UInv, \A i \in 1 .. Num : St(i) # "done" PROVE doneq = <<>> /\ reaping = 0
<1>1. doneq \in Seq(1 .. Num) /\ \A i \in 1 .. Num : reaping # i /\ ~Holds(doneq, i)
  BY DEF UInv, QueueInv
<1>2. reaping = 0
  BY <1>1 DEF UInv, QueueInv
<1>3. ASSUME doneq # <<>> PROVE FALSE
  <2>1. Len(doneq) \in Nat /\ Len(doneq) # 0
    BY <1>1, <1>3, EmptySeq
  <2>2. 1 \in 1 .. Len(doneq) /\ DOMAIN doneq = 1 .. Len(doneq)
    BY <1>1, <2>1
  <2>3. doneq[1] \in 1 .. Num
    BY <1>1, <2>2, ElementOfSeq
  <2> QED
    BY <1>1, <2>2, <2>3 DEF Holds
<1> QED
  BY <1>2, <1>3

\* A submission begins, of any type.
LEMMA BeginKeeps ==
  ASSUME UInv, NEW urbs, AreNew(urbs), NEW p, IsPriv(p), p.retired \in Nat, Begin(urbs, p),
         req.type = "control" => Len(urbs) = 1,
         req.type # "control" => p.retired = 0
  PROVE  UInv'
<1>1. /\ job = NoJob /\ flags = "idle" /\ report = "none"
      /\ urb' = urbs /\ job' = [do |-> "submit", i |-> 1]
      /\ priv' = [p EXCEPT !.urbs = TRUE, !.action = "NORMAL"]
      /\ UNCHANGED <<req, flags, doneq, reaping, report, plugged>>
  BY DEF Begin
<1>2. Num' = Len(urbs) /\ Num' \in Nat /\ Num' >= 1 /\ 1 \in 1 .. Num'
  BY <1>1 DEF Num, AreNew
<1>3. /\ urb' = [i \in 1 .. Num' |-> urb'[i]]
      /\ \A i \in 1 .. Num' : IsUrb(urb'[i]) /\ St(i)' = "new" /\ urb'[i].status = "OK"
  BY <1>1, <1>2 DEF AreNew, St
<1>4. priv' = [urbs |-> TRUE, action |-> "NORMAL", retired |-> p.retired, status |-> p.status,
               packet |-> p.packet]
  <2>1. [p EXCEPT !.urbs = TRUE] = [urbs |-> TRUE, action |-> p.action, retired |-> p.retired,
                                    status |-> p.status, packet |-> p.packet]
    BY PrivFields
  <2> DEFINE q == [p EXCEPT !.urbs = TRUE]
  <2>2. priv' = [q EXCEPT !.action = "NORMAL"]
    BY <1>1
  <2>3. IsPriv(q) /\ q.urbs = TRUE /\ q.retired = p.retired /\ q.status = p.status
        /\ q.packet = p.packet
    BY <2>1 DEF IsPriv
  <2> HIDE DEF q
  <2>4. [q EXCEPT !.action = "NORMAL"] = [urbs |-> q.urbs, action |-> "NORMAL", retired |-> q.retired,
                                          status |-> q.status, packet |-> q.packet]
    BY <2>3, PrivFields
  <2> QED
    BY <2>2, <2>3, <2>4
<1>5. ~priv.urbs /\ doneq = <<>> /\ reaping = 0
  <2>1. ~priv.urbs
    BY <1>1 DEF UInv, LifeInv, Submitting, Discarding, NoJob, UrbsOK
  <2>2. \A i \in 1 .. Num : St(i) # "done"
    BY <2>1 DEF UInv, NoUrbLeft, St
  <2> QED
    BY <2>1, <2>2, NothingQueued
<1>6. UrbsOK'
  <2>1. /\ priv' = [urbs |-> priv'.urbs, action |-> priv'.action, retired |-> priv'.retired,
                    status |-> priv'.status, packet |-> priv'.packet]
        /\ priv'.urbs \in BOOLEAN /\ priv'.action \in Actions /\ priv'.retired \in Nat
    BY <1>4 DEF Actions
  <2>2. req' \in Requests /\ plugged' \in BOOLEAN /\ (req'.type = "control" => Num' <= 1)
    BY <1>1, <1>2 DEF UInv, UrbsOK
  <2> QED
    BY <1>2, <1>3, <2>1, <2>2 DEF UrbsOK
<1>7. Submitting' /\ \A who : ~(Discarding(who)')
  BY <1>1 DEF Submitting, Discarding
<1>8. JobOK' /\ CancelInv' /\ ~(Disordered')
  BY <1>1, <1>2, <1>7 DEF JobOK, CancelInv, Disordered
<1>9. QueueInv'
  <2>1. <<>> \in Seq(1 .. Num') /\ DOMAIN <<>> = {}
    BY <1>2
  <2> QED
    BY <1>1, <1>2, <1>3, <1>5, <2>1 DEF QueueInv, Once, Holds
<1>10. LifeInv'
  BY <1>1, <1>4, <1>7 DEF LifeInv
<1>11. SubmitInv'
  BY <1>1, <1>2, <1>3, <1>4, <1>7 DEF SubmitInv
<1>12. CountInv'
  <2>1. Back' = {}
    BY <1>3, <1>7 DEF Back
  <2>2. Cardinality({}) = 0
    BY FS_EmptySet
  <2>3. priv'.retired = p.retired /\ req' = req
    BY <1>1, <1>4
  <2> QED
    BY <2>1, <2>2, <2>3 DEF CountInv
<1>13. KernelInv'
  BY <1>2, <1>3, <1>7 DEF KernelInv, Statuses
<1>14. OrderInv'
  BY <1>1, <1>2, <1>3, <1>5 DEF OrderInv, InTurn, Rising
<1>15. NoUrbLeft'
  BY <1>4 DEF NoUrbLeft
<1> QED
  BY <1>6, <1>8, <1>9, <1>10, <1>11, <1>12, <1>13, <1>14, <1>15 DEF UInv

\* SUBMITURB succeeds.
LEMMA SubmitUrbKeeps == ASSUME UInv, SubmitUrb PROVE UInv'
<1>0. PICK k \in 1 .. Num : k = job.i
  BY DEF SubmitUrb, UInv, JobOK, NoJob
<1>1. /\ Submitting /\ plugged
      /\ urb' = [urb EXCEPT ![k].st = "pending"]
      /\ IF k = Num THEN job' = NoJob /\ flags' = "flying"
         ELSE job' = [job EXCEPT !.i = @ + 1] /\ UNCHANGED flags
      /\ UNCHANGED <<req, doneq, reaping, report, priv, plugged>>
  BY <1>0 DEF SubmitUrb, Submitting
<1>2. /\ Num \in Nat /\ k \in 1 .. Num /\ job = [do |-> "submit", i |-> k]
      /\ job # NoJob /\ priv.urbs /\ priv.action = "NORMAL"
      /\ \A i \in 1 .. Num : St(i) = "new" <=> i >= k
      /\ \A who : ~Discarding(who)
      /\ \A i \in 1 .. Num : St(i) \in {"new", "pending", "done", "retired"}
  <2>1. Num \in Nat /\ \A i \in 1 .. Num : St(i) \in {"new", "pending", "done", "retired"}
    BY Types DEF UInv
  <2>2. k \in 1 .. Num /\ job = [do |-> "submit", i |-> k] /\ job # NoJob
        /\ \A who : ~Discarding(who)
    BY <1>0, <1>1 DEF UInv, JobOK, Submitting, Discarding, NoJob
  <2>3. priv.urbs /\ priv.action = "NORMAL" /\ \A i \in 1 .. Num : St(i) = "new" <=> i >= k
    BY <1>0, <1>1, <2>2 DEF UInv, LifeInv, SubmitInv
  <2> QED
    BY <2>1, <2>2, <2>3
<1>3. /\ urb = [i \in 1 .. Num |-> urb[i]] /\ \A i \in 1 .. Num : IsUrb(urb[i])
  BY DEF UInv, UrbsOK
<1>4. urb' = [i \in 1 .. Num |-> IF i = k THEN [urb[k] EXCEPT !.st = "pending"] ELSE urb[i]]
  BY <1>1, <1>2, <1>3
<1>5. /\ urb'[k] = SetSt(urb[k], "pending")
      /\ \A i \in 1 .. Num : i # k => urb'[i] = urb[i]
  BY <1>2, <1>4 DEF SetSt
<1>6. Num' = Num /\ urb' = [i \in 1 .. Num |-> urb'[i]]
  <2>1. urb' = [i \in 1 .. Num |-> urb'[i]]
    BY <1>4
  <2>2. Len(urb') = Num
    BY <1>2, <2>1, Rows
  <2>3. Num' = Len(urb')
    BY DEF Num
  <2> QED
    BY <2>1, <2>2, <2>3
<1>7. IsUrb(urb'[k]) /\ urb'[k].st = "pending" /\ urb'[k].status = urb[k].status
  BY <1>2, <1>3, <1>5, UrbSet
<1>8. /\ \A i \in 1 .. Num : IsUrb(urb'[i]) /\ urb'[i].status = urb[i].status
      /\ St(k)' = "pending" /\ St(k) = "new"
      /\ \A i \in 1 .. Num : i # k => St(i)' = St(i)
  BY <1>2, <1>3, <1>5, <1>7 DEF St
<1>9. \/ k = Num /\ job' = NoJob /\ flags' = "flying"
      \/ k < Num /\ job' = [do |-> "submit", i |-> k + 1] /\ flags' = flags
  BY <1>1, <1>2
<1>10. /\ Submitting' <=> k < Num
       /\ \A who : ~(Discarding(who)')
  BY <1>2, <1>9 DEF Submitting, Discarding, NoJob
<1>11. UrbsOK'
  <2>1. \A i \in 1 .. Num : St(i)' \in {"new", "pending", "done", "retired"}
    BY <1>2, <1>8
  <2> QED
    BY <1>1, <1>6, <1>8, <2>1 DEF UInv, UrbsOK
<1>12. JobOK' /\ CancelInv' /\ ~(Disordered')
  <2>1. JobOK'
    BY <1>2, <1>6, <1>9 DEF JobOK
  <2> QED
    BY <1>10, <2>1 DEF CancelInv, Disordered
<1>13. QueueInv'
  BY <1>1, <1>6, <1>8 DEF UInv, QueueInv
<1>14. LifeInv'
  BY <1>1, <1>2, <1>9, <1>10 DEF UInv, LifeInv
<1>15. SubmitInv'
  <2>1. Submitting' => \A i \in 1 .. Num : St(i)' = "new" <=> i >= k + 1
    BY <1>2, <1>8
  <2>2. k < Num => job'.i = k + 1
    BY <1>2, <1>9
  <2>3. ~(Submitting') => \A i \in 1 .. Num : St(i)' # "new"
    BY <1>2, <1>8, <1>10
  <2> QED
    BY <1>1, <1>2, <1>6, <1>10, <2>1, <2>2, <2>3 DEF SubmitInv
<1>16. CountInv'
  <2>1. Back' = Back
    <3>1. \A i \in 1 .. Num : St(i)' = "new" => Submitting'
      BY <1>2, <1>8, <1>10
    <3>2. \A i \in 1 .. Num : St(i)' = "retired" <=> St(i) = "retired"
      BY <1>8
    <3> QED
      BY <1>1, <1>6, <3>1, <3>2 DEF Back
  <2> QED
    BY <1>1, <2>1 DEF UInv, CountInv
<1>17. KernelInv'
  <2>1. \A i \in 1 .. Num :
          /\ urb[i].status \in Statuses
          /\ urb[i].status = "SHUTDOWN" => ~plugged
          /\ urb[i].status = "OVERFLOW" => i = Num
          /\ urb[i].status # "OK" => St(i) \in {"done", "retired"}
          /\ ~(urb[i].status = "PIPE" /\ Num > 2)
    BY <1>1 DEF UInv, KernelInv
  <2> QED
    BY <1>1, <1>6, <1>8, <2>1 DEF KernelInv
<1>18. OrderInv'
  <2>1. InTurn
    BY <1>2 DEF UInv, OrderInv, Disordered
  <2>2. \A i, j \in 1 .. Num : i < j =>
          /\ St(j)' = "retired" => St(i)' = "retired"
          /\ St(j)' = "done" => St(i)' \in {"done", "retired"}
    <3> SUFFICES ASSUME NEW i \in 1 .. Num, NEW j \in 1 .. Num, i < j
                 PROVE  /\ St(j)' = "retired" => St(i)' = "retired"
                        /\ St(j)' = "done" => St(i)' \in {"done", "retired"}
      OBVIOUS
    <3>1. CASE j >= k
      BY <1>2, <1>8, <3>1
    <3>2. CASE j < k
      <4>1. St(j)' = St(j) /\ St(i)' = St(i)
        BY <1>2, <1>8, <3>2
      <4> QED
        BY <2>1, <4>1 DEF InTurn
    <3> QED
      BY <1>2, <3>1, <3>2
  <2> QED
    BY <1>1, <1>6, <2>1, <2>2 DEF OrderInv, InTurn
<1>19. NoUrbLeft'
  BY <1>1, <1>2 DEF NoUrbLeft
<1> QED
  BY <1>11, <1>12, <1>13, <1>14, <1>15, <1>16, <1>17, <1>18, <1>19 DEF UInv

\* It fails when others are with the kernel: these are discarded and waited for.
LEMMA LaterFailsKeeps == ASSUME UInv, LaterFails PROVE UInv'
<1>0. PICK k \in 1 .. Num : k = job.i
  BY DEF LaterFails, UInv, JobOK, NoJob
<1> DEFINE early == halted /\ urb[k].cont
           a == IF early THEN "COMPLETED_EARLY" ELSE "SUBMIT_FAILED"
           n == priv.retired + (Num - k + 1)
<1>1. /\ Submitting /\ k > 1
      /\ priv' = [priv EXCEPT !.action = a, !.retired = @ + NotSubmitted]
      /\ job' = IF early THEN NoJob ELSE Discard(1, k - 1, "submit")
      /\ flags' = IF early THEN "flying" ELSE flags
      /\ UNCHANGED <<req, urb, doneq, reaping, report, plugged>>
  BY <1>0 DEF LaterFails, Submitting
<1> HIDE DEF early
<1>2. /\ Num \in Nat /\ k \in 1 .. Num /\ job # NoJob /\ priv.urbs /\ priv.retired \in Nat
      /\ \A i \in 1 .. Num : St(i) = "new" <=> i >= k
  <2>1. Num \in Nat /\ priv.retired \in Nat
    BY DEF UInv, UrbsOK
  <2>2. k \in 1 .. Num /\ job # NoJob
    BY <1>1 DEF UInv, JobOK, Submitting, NoJob
  <2> QED
    BY <1>0, <1>1, <2>1, <2>2 DEF UInv, LifeInv, SubmitInv
<1>3. priv' = [urbs |-> TRUE, action |-> a, retired |-> n, status |-> priv.status,
               packet |-> priv.packet]
  <2> DEFINE w == [urbs |-> priv.urbs, action |-> priv.action, retired |-> priv.retired,
                   status |-> priv.status, packet |-> priv.packet]
             x == [urbs |-> priv.urbs, action |-> a, retired |-> priv.retired,
                   status |-> priv.status, packet |-> priv.packet]
  <2>1. priv = w
    BY DEF UInv, UrbsOK
  <2>2. [priv EXCEPT !.action = a] = x
    BY PrivSet DEF UInv
  <2>3. priv' = [[priv EXCEPT !.action = a] EXCEPT !.retired = n]
    BY <1>0, <1>1 DEF NotSubmitted
  <2> HIDE DEF a, n
  <2>4. [x EXCEPT !.retired = n] = [urbs |-> priv.urbs, action |-> a, retired |-> n,
                                    status |-> priv.status, packet |-> priv.packet]
    OBVIOUS
  <2>5. priv.urbs = TRUE
    BY <1>2 DEF UInv, UrbsOK
  <2> HIDE DEF x
  <2>6. priv' = [x EXCEPT !.retired = n]
    BY <2>2, <2>3
  <2> QED
    BY <2>4, <2>5, <2>6
<1>4. /\ ~(Submitting') /\ ((job' = NoJob /\ flags' = "flying") \/ job' = Discard(1, k - 1, "submit"))
      /\ ~(Discarding("cancel")') /\ ~(Discarding("reap")')
  BY <1>1 DEF Submitting, Discarding, Discard, NoJob
<1>5. /\ Num' = Num /\ \A i \in 1 .. Num : St(i)' = St(i)
  BY <1>1 DEF Num, St
<1>6. /\ priv'.urbs = TRUE /\ priv'.action = a /\ priv'.retired = n /\ a # "NORMAL"
      /\ a \in Actions /\ n \in Nat
  BY <1>2, <1>3 DEF Actions
<1>7. UrbsOK'
  <2>1. priv' = [urbs |-> priv'.urbs, action |-> priv'.action, retired |-> priv'.retired,
                 status |-> priv'.status, packet |-> priv'.packet]
    BY <1>3
  <2> QED
    BY <1>1, <1>2, <1>5, <1>6, <2>1 DEF UInv, UrbsOK, St
<1>8. JobOK'
  <2>1. CASE job' = Discard(1, k - 1, "submit")
    <3>1. 1 \in 1 .. Num /\ k - 1 \in 1 .. Num /\ k - 1 \in 1 - 1 .. k - 1
      BY <1>1, <1>2
    <3>2. job' = [do |-> "discard", first |-> 1, last |-> k - 1, i |-> k - 1, ret |-> "OK",
                  who |-> "submit"]
      BY <2>1 DEF Discard
    <3> QED
      BY <1>5, <3>1, <3>2 DEF JobOK, Returns
  <2>2. CASE job' = NoJob
    BY <2>2 DEF JobOK
  <2> QED
    BY <1>4, <2>1, <2>2
<1>9. CancelInv'
  BY <1>4, <1>6 DEF CancelInv
<1>10. QueueInv'
  BY <1>1, <1>5 DEF UInv, QueueInv
<1>11. LifeInv'
  BY <1>1, <1>2, <1>4, <1>6 DEF UInv, LifeInv, Discarding, Discard
<1>12. SubmitInv'
  BY <1>4, <1>6 DEF SubmitInv
<1>13. CountInv'
  <2>1. Back' = Back \union (k .. Num)
    <3>1. \A i \in 1 .. Num : i \in Back <=> St(i) = "retired"
      BY <1>1 DEF Back
    <3>2. \A i \in 1 .. Num : i \in Back' <=> i \in Back \/ i \in k .. Num
      BY <1>2, <1>4, <1>5, <3>1 DEF Back
    <3>3. Back \in SUBSET (1 .. Num) /\ Back' \in SUBSET (1 .. Num) /\ (k .. Num) \in SUBSET (1 .. Num)
      BY <1>2, <1>5 DEF Back
    <3> QED
      BY <3>2, <3>3
  <2>2. \A i \in Back : i < k
    BY <1>1, <1>2 DEF Back
  <2>3. Cardinality(Back') = Cardinality(Back) + (Num - k + 1)
    <3>1. Back \in SUBSET (1 .. Num)
      BY DEF Back
    <3> QED
      BY <1>2, <2>1, <2>2, <3>1, AllFrom
  <2>4. req.type # "control" => priv.retired = Cardinality(Back)
    BY <1>2 DEF UInv, CountInv
  <2> QED
    BY <1>1, <1>6, <2>3, <2>4 DEF CountInv
<1>14. KernelInv'
  BY <1>1, <1>4, <1>5 DEF UInv, KernelInv, St
<1>15. OrderInv'
  BY <1>6 DEF OrderInv
<1>16. NoUrbLeft'
  BY <1>6 DEF NoUrbLeft
<1> QED
  BY <1>7, <1>8, <1>9, <1>10, <1>11, <1>12, <1>13, <1>14, <1>15, <1>16 DEF UInv

\* op_clear_transfer_priv of a device that is gone.
LEMMA DisconnectKeeps == ASSUME UInv, Disconnect PROVE UInv'
<1>1. /\ job = NoJob /\ job' = job /\ reaping = 0 /\ reaping' = reaping
      /\ priv' = [priv EXCEPT !.urbs = FALSE]
      /\ urb' = [i \in 1 .. Num |-> [urb[i] EXCEPT !.st = "retired"]]
      /\ doneq' = <<>> /\ UNCHANGED <<req, flags, plugged>>
  BY DEF Disconnect
<1>2. Num \in Nat /\ \A i \in 1 .. Num : IsUrb(urb[i])
  BY DEF UInv, UrbsOK
<1>3. \A i \in 1 .. Num : urb'[i] = SetSt(urb[i], "retired")
  BY <1>1 DEF SetSt
<1>4. Num' = Num /\ urb' = [i \in 1 .. Num |-> urb'[i]]
  <2>1. urb' = [i \in 1 .. Num |-> urb'[i]]
    BY <1>1
  <2>2. Len(urb') = Num
    BY <1>2, <2>1, Rows
  <2>3. Num' = Len(urb')
    BY DEF Num
  <2> QED
    BY <2>1, <2>2, <2>3
<1>5. \A i \in 1 .. Num : IsUrb(urb'[i]) /\ St(i)' = "retired" /\ urb'[i].status = urb[i].status
  BY <1>2, <1>3, UrbSet DEF St
<1>6. priv' = [urbs |-> FALSE, action |-> priv.action, retired |-> priv.retired,
               status |-> priv.status, packet |-> priv.packet]
  BY <1>1, PrivSet DEF UInv
<1>7. UrbsOK'
  <2>1. /\ priv' = [urbs |-> priv'.urbs, action |-> priv'.action, retired |-> priv'.retired,
                    status |-> priv'.status, packet |-> priv'.packet]
        /\ priv'.urbs = FALSE /\ priv'.action = priv.action /\ priv'.retired = priv.retired
    BY <1>6
  <2> QED
    BY <1>1, <1>4, <1>5, <2>1 DEF UInv, UrbsOK
<1>8. ~priv'.urbs /\ ~(Submitting') /\ \A who : ~(Discarding(who)')
  BY <1>1, <1>6 DEF Submitting, Discarding, NoJob
<1>9. JobOK' /\ CancelInv'
  BY <1>1, <1>8 DEF JobOK, CancelInv
<1>10. QueueInv'
  <2>1. <<>> \in Seq(1 .. Num') /\ DOMAIN <<>> = {}
    BY <1>2, <1>4
  <2> QED
    BY <1>1, <1>2, <1>4, <1>5, <2>1 DEF QueueInv, Once, Holds
<1>11. LifeInv' /\ SubmitInv' /\ CountInv' /\ OrderInv'
  BY <1>1, <1>8 DEF LifeInv, SubmitInv, CountInv, OrderInv
<1>12. KernelInv'
  <2>1. \A i \in 1 .. Num : /\ urb[i].status \in Statuses
                            /\ urb[i].status = "SHUTDOWN" => ~plugged
                            /\ urb[i].status = "OVERFLOW" => i = Num
    BY DEF UInv, KernelInv
  <2>2. \A i \in 1 .. Num : \A j \in i .. Num : St(j)' # "pending"
    BY <1>2, <1>5
  <2> QED
    BY <1>1, <1>4, <1>5, <1>8, <2>1, <2>2 DEF KernelInv
<1>13. NoUrbLeft'
  BY <1>4, <1>5 DEF NoUrbLeft, St
<1> QED
  BY <1>7, <1>9, <1>10, <1>11, <1>12, <1>13 DEF UInv

-----------------------------------------------------------------------------
(* The handlers of the URBs that come back.                                  *)

\* What the handlers make of priv.
SetRetired(w, r) == [w EXCEPT !.retired = r]
SetField(w, r, s) == [w EXCEPT !.retired = r, !.status = s]
SetPacket(w, r, n) == [w EXCEPT !.retired = r, !.packet = n]
SetAction(w, r, s, a) == [w EXCEPT !.retired = r, !.status = s, !.action = a]

\* What a handler may assume of num_retired.
LEMMA PrivCounts ==
  ASSUME NEW w, IsPriv(w), NEW r, NEW s, NEW a
  PROVE  /\ IsPriv(SetField(w, r, s)) /\ SetField(w, r, s).retired = r
         /\ SetField(w, r, s).action = w.action
         /\ IsPriv(SetPacket(w, r, s)) /\ SetPacket(w, r, s).retired = r
         /\ SetPacket(w, r, s).action = w.action
         /\ IsPriv(SetAction(w, r, s, a)) /\ SetAction(w, r, s, a).retired = r
         /\ SetAction(w, r, s, a).action = a
<1> DEFINE q == [w EXCEPT !.retired = r]
<1>1. IsPriv(q) /\ q.retired = r /\ q.action = w.action
  <2> DEFINE x == [urbs |-> w.urbs, action |-> w.action, retired |-> w.retired,
                   status |-> w.status, packet |-> w.packet]
  <2>1. w = x
    BY DEF IsPriv
  <2>2. [x EXCEPT !.retired = r] = [urbs |-> w.urbs, action |-> w.action, retired |-> r,
                                    status |-> w.status, packet |-> w.packet]
    OBVIOUS
  <2> HIDE DEF x
  <2>3. q = [urbs |-> w.urbs, action |-> w.action, retired |-> r, status |-> w.status,
             packet |-> w.packet]
    BY <2>1, <2>2
  <2> HIDE DEF q
  <2> QED
    BY <2>3 DEF IsPriv
<1>2. /\ SetField(w, r, s) = [q EXCEPT !.status = s]
      /\ SetPacket(w, r, s) = [q EXCEPT !.packet = s]
      /\ SetAction(w, r, s, a) = [[q EXCEPT !.status = s] EXCEPT !.action = a]
  BY DEF SetField, SetPacket, SetAction
<1> HIDE DEF q
<1> DEFINE y == [urbs |-> q.urbs, action |-> q.action, retired |-> q.retired,
                 status |-> q.status, packet |-> q.packet]
           m == [urbs |-> q.urbs, action |-> q.action, retired |-> q.retired,
                 status |-> s, packet |-> q.packet]
<1>3. q = y
  BY <1>1 DEF IsPriv
<1>4. [y EXCEPT !.status = s] = m
  OBVIOUS
<1>5. [y EXCEPT !.packet = s] = [urbs |-> q.urbs, action |-> q.action, retired |-> q.retired,
                                 status |-> q.status, packet |-> s]
  OBVIOUS
<1>6. [m EXCEPT !.action = a] = [urbs |-> q.urbs, action |-> a, retired |-> q.retired,
                                 status |-> s, packet |-> q.packet]
  OBVIOUS
<1> HIDE DEF y
<1>7. /\ [q EXCEPT !.status = s] = m
      /\ [q EXCEPT !.packet = s] = [urbs |-> q.urbs, action |-> q.action,
                                    retired |-> q.retired, status |-> q.status, packet |-> s]
  BY <1>3, <1>4, <1>5
<1>8. SetField(w, r, s) = m
  BY <1>2, <1>7
<1> HIDE DEF m
<1>9. SetAction(w, r, s, a) = [m EXCEPT !.action = a]
  BY <1>2, <1>7
<1>10. /\ IsPriv(SetField(w, r, s)) /\ SetField(w, r, s).retired = r
       /\ SetField(w, r, s).action = w.action
  BY <1>1, <1>8 DEF IsPriv, m
<1>11. /\ IsPriv(SetPacket(w, r, s)) /\ SetPacket(w, r, s).retired = r
       /\ SetPacket(w, r, s).action = w.action
  <2>1. SetPacket(w, r, s) = [urbs |-> q.urbs, action |-> q.action, retired |-> q.retired,
                              status |-> q.status, packet |-> s]
    BY <1>2, <1>7
  <2> QED
    BY <1>1, <2>1 DEF IsPriv
<1>12. /\ IsPriv(SetAction(w, r, s, a)) /\ SetAction(w, r, s, a).retired = r
       /\ SetAction(w, r, s, a).action = a
  <2>1. SetAction(w, r, s, a) = [urbs |-> q.urbs, action |-> a, retired |-> q.retired,
                                 status |-> s, packet |-> q.packet]
    BY <1>6, <1>9
  <2> QED
    BY <1>1, <2>1 DEF IsPriv
<1> QED
  BY <1>10, <1>11, <1>12

\* The handlers.
LEMMA LeaveKeeps ==
  ASSUME UInv, NEW u \in 1 .. Num, reaping = u, job = NoJob, priv.urbs,
         NEW p, IsPriv(p), p.action \in Actions, p.retired \in Nat,
         NEW over \in BOOLEAN, NEW status, Leave(u, p, over, status),
         req.type # "control" => p.retired = priv.retired + 1,
         p.action = "NORMAL" => priv.action = "NORMAL",
         over => \A i \in 1 .. Num : i # u => St(i) \in {"new", "retired"},
         \/ job' = NoJob
         \/ /\ ~over /\ u < Num /\ job' = Discard(u + 1, Num, "reap")
            /\ p.action = "NORMAL" => u + 1 = Num \/ \A i \in 1 .. Num : St(i) # "pending"
  PROVE  UInv'
<1>1. /\ reaping' = 0 /\ urb' = [urb EXCEPT ![u].st = "retired"]
      /\ priv' = [p EXCEPT !.urbs = ~over] /\ (~over => report' = "none")
      /\ UNCHANGED <<req, flags, doneq, plugged>>
  BY DEF Leave
<1>2. /\ Num \in Nat /\ urb = [i \in 1 .. Num |-> urb[i]] /\ \A i \in 1 .. Num : IsUrb(urb[i])
      /\ \A i \in 1 .. Num : St(i) \in {"new", "pending", "done", "retired"}
      /\ ~Submitting /\ \A who : ~Discarding(who)
  BY Types DEF UInv, UrbsOK, Submitting, Discarding, NoJob
<1>3. urb' = [i \in 1 .. Num |-> IF i = u THEN [urb[u] EXCEPT !.st = "retired"] ELSE urb[i]]
  BY <1>1, <1>2
<1>4. urb'[u] = SetSt(urb[u], "retired") /\ \A i \in 1 .. Num : i # u => urb'[i] = urb[i]
  BY <1>3 DEF SetSt
<1>5. Num' = Num /\ urb' = [i \in 1 .. Num |-> urb'[i]]
  <2>1. urb' = [i \in 1 .. Num |-> urb'[i]]
    BY <1>3
  <2>2. Len(urb') = Num
    BY <1>2, <2>1, Rows
  <2>3. Num' = Len(urb')
    BY DEF Num
  <2> QED
    BY <2>1, <2>2, <2>3
<1>6. IsUrb(urb'[u]) /\ urb'[u].st = "retired" /\ urb'[u].status = urb[u].status
  BY <1>2, <1>4, UrbSet
<1>7. /\ \A i \in 1 .. Num : IsUrb(urb'[i]) /\ urb'[i].status = urb[i].status
      /\ urb'[u].st = "retired" /\ St(u) = "done"
      /\ \A i \in 1 .. Num : i # u => urb'[i].st = St(i)
  <2>1. St(u) = "done"
    BY DEF UInv, QueueInv
  <2> QED
    BY <1>2, <1>4, <1>6, <2>1 DEF St
<1>8. priv' = [urbs |-> ~over, action |-> p.action, retired |-> p.retired, status |-> p.status,
               packet |-> p.packet]
  <2> DEFINE b == ~over
  <2>1. priv' = [p EXCEPT !.urbs = b]
    BY <1>1
  <2> HIDE DEF b
  <2>2. priv' = [urbs |-> b, action |-> p.action, retired |-> p.retired, status |-> p.status,
                 packet |-> p.packet]
    BY <2>1, PrivFields
  <2> QED
    BY <2>2 DEF b
<1>9. /\ priv' = [urbs |-> priv'.urbs, action |-> priv'.action, retired |-> priv'.retired,
                  status |-> priv'.status, packet |-> priv'.packet]
      /\ priv'.urbs = ~over /\ priv'.action = p.action /\ priv'.retired = p.retired
  BY <1>8
<1>10. UrbsOK'
  <2>1. \A i \in 1 .. Num : urb'[i].st \in {"new", "pending", "done", "retired"}
    BY <1>2, <1>7
  <2> QED
    BY SMTT(30), <1>1, <1>5, <1>7, <1>9, <2>1 DEF UInv, UrbsOK, St
<1>11. \/ job' = NoJob /\ ~(Submitting') /\ \A who : ~(Discarding(who)')
       \/ /\ job' = Discard(u + 1, Num, "reap") /\ ~(Submitting')
          /\ \A who : Discarding(who)' <=> who = "reap"
  BY DEF Submitting, Discarding, Discard, NoJob
<1>12. JobOK'
  <2>1. CASE job' = NoJob
    BY <2>1 DEF JobOK
  <2>2. CASE u < Num /\ job' = Discard(u + 1, Num, "reap")
    <3>1. u + 1 \in 1 .. Num /\ Num \in 1 .. Num /\ Num \in (u + 1) - 1 .. Num
      BY <1>2, <2>2
    <3>2. job' = [do |-> "discard", first |-> u + 1, last |-> Num, i |-> Num, ret |-> "OK",
                  who |-> "reap"]
      BY <2>2 DEF Discard
    <3> QED
      BY <1>5, <3>1, <3>2 DEF JobOK, Returns
  <2> QED
    BY <2>1, <2>2
<1>13. CancelInv' /\ ~(Disordered')
  <2>1. CASE job' = NoJob
    BY <1>11, <2>1 DEF CancelInv, Disordered, Discard, NoJob
  <2>2. CASE /\ ~over /\ u < Num /\ job' = Discard(u + 1, Num, "reap")
             /\ p.action = "NORMAL" => u + 1 = Num \/ \A i \in 1 .. Num : St(i) # "pending"
    <3>1. \A who : Discarding(who)' <=> who = "reap"
      BY <2>2 DEF Discarding, Discard
    <3>2. /\ job'.last = Num' /\ job'.first = u + 1 /\ job'.first > 1 /\ job'.first - 1 = u
          /\ urb'[job'.first - 1].st = "retired"
      BY <1>2, <1>5, <1>7, <2>2 DEF Discard
    <3>3. (\A i \in 1 .. Num : St(i) # "pending") => \A i \in 1 .. Num : urb'[i].st # "pending"
      BY <1>7
    <3>4. priv'.action = "NORMAL"
            => job'.first = Num' \/ \A i \in 1 .. Num' : urb'[i].st # "pending"
      BY <1>5, <1>9, <2>2, <3>2, <3>3
    <3> QED
      BY <3>1, <3>2, <3>4 DEF CancelInv, Disordered, St
  <2> QED
    BY <2>1, <2>2
<1>14. QueueInv'
  <2>1. doneq \in Seq(1 .. Num) /\ Once(doneq) /\ ~Holds(doneq, u)
    BY DEF UInv, QueueInv
  <2>2. \A i \in 1 .. Num : urb'[i].st = "done" <=> Holds(doneq, i)
    BY <1>7, <2>1 DEF UInv, QueueInv
  <2>3. ~Holds(doneq, 0)
    <3>1. \A n \in DOMAIN doneq : doneq[n] \in 1 .. Num
      <4>1. DOMAIN doneq = 1 .. Len(doneq)
        BY <2>1
      <4> QED
        BY <2>1, <4>1, ElementOfSeq
    <3> QED
      BY <1>2, <3>1 DEF Holds
  <2>4. \A i \in 1 .. Num : i # 0
    BY <1>2
  <2> QED
    BY <1>1, <1>2, <1>5, <2>1, <2>2, <2>3, <2>4 DEF QueueInv, St
<1>15. LifeInv'
  <2>1. flags # "idle"
    BY <1>2 DEF UInv, LifeInv
  <2>2. job' # NoJob => priv'.urbs
    BY <1>9
  <2>3. report' # "none" => ~priv'.urbs
    BY <1>1, <1>9
  <2> QED
    BY <1>1, <2>1, <2>2, <2>3 DEF LifeInv
<1>16. SubmitInv'
  <2>1. priv'.action = "NORMAL" => \A i \in 1 .. Num : urb'[i].st # "new"
    <3> SUFFICES ASSUME priv.action = "NORMAL" PROVE \A i \in 1 .. Num : urb'[i].st # "new"
      BY <1>9
    <3>1. \A i \in 1 .. Num : St(i) # "new"
      BY <1>2 DEF UInv, SubmitInv
    <3> QED
      BY <1>7, <3>1
  <2> QED
    BY <1>5, <1>11, <2>1 DEF SubmitInv, St
<1>17. CountInv'
  <2>1. u \notin Back /\ Back \in SUBSET (1 .. Num)
    BY <1>7 DEF Back
  <2>2. Back' = Back \union {u}
    <3>1. \A i \in 1 .. Num : i \in Back' <=> i \in Back \/ i = u
      BY <1>2, <1>5, <1>7, <1>11 DEF Back, St
    <3>2. Back' \in SUBSET (1 .. Num)
      BY <1>5 DEF Back
    <3> QED
      BY <2>1, <3>1, <3>2
  <2>3. Cardinality(Back') = Cardinality(Back) + 1
    BY <1>2, <2>1, <2>2, OneMore
  <2>4. req.type # "control" => priv.retired = Cardinality(Back)
    BY DEF UInv, CountInv
  <2> QED
    BY <1>1, <1>9, <2>3, <2>4 DEF CountInv
<1>18. KernelInv'
  <2>1. ~plugged => \A i \in 1 .. Num : urb'[i].st # "pending"
    BY <1>7 DEF UInv, KernelInv
  <2>2. ASSUME NEW i \in 1 .. Num
        PROVE  /\ urb'[i].status \in Statuses
               /\ urb'[i].status = "SHUTDOWN" => ~plugged
               /\ urb'[i].status = "OVERFLOW" => i = Num
               /\ urb'[i].status # "OK" => urb'[i].st \in {"done", "retired"}
               /\ urb'[i].status = "PIPE" /\ Num > 2 => \A j \in i .. Num : urb'[j].st # "pending"
    <3>1. /\ urb[i].status \in Statuses
          /\ urb[i].status = "SHUTDOWN" => ~plugged
          /\ urb[i].status = "OVERFLOW" => i = Num
          /\ urb[i].status # "OK" => St(i) \in {"done", "retired"}
          /\ urb[i].status = "PIPE" /\ Num > 2 => \A j \in i .. Num : St(j) # "pending"
      BY DEF UInv, KernelInv
    <3>2. \A j \in i .. Num : j \in 1 .. Num
      BY <1>2
    <3>3. \A j \in 1 .. Num : St(j) # "pending" => urb'[j].st # "pending"
      BY <1>7
    <3> QED
      BY <1>7, <3>1, <3>2, <3>3
  <2> QED
    BY <1>1, <1>5, <1>11, <2>1, <2>2 DEF KernelInv, St
<1>19. OrderInv'
  <2> SUFFICES ASSUME priv.action = "NORMAL" PROVE InTurn'
    BY <1>9 DEF OrderInv
  <2>1. InTurn
    BY <1>2 DEF UInv, OrderInv, Disordered
  <2>2. \A i \in 1 .. Num : i < u => St(i) = "retired"
    <3> SUFFICES ASSUME NEW i \in 1 .. Num, i < u PROVE St(i) = "retired"
      OBVIOUS
    <3>1. St(i) \in {"done", "retired"}
      BY <1>7, <2>1 DEF InTurn
    <3>2. ASSUME St(i) = "done" PROVE FALSE
      <4>1. Holds(doneq, i)
        BY <3>2 DEF UInv, QueueInv
      <4>2. u < i
        BY <2>1, <4>1 DEF InTurn
      <4> QED
        BY <1>2, <4>2
    <3> QED
      BY <3>1, <3>2
  <2>3. \A i, j \in 1 .. Num : i < j =>
          /\ urb'[j].st = "retired" => urb'[i].st = "retired"
          /\ urb'[j].st = "done" => urb'[i].st \in {"done", "retired"}
    <3> SUFFICES ASSUME NEW i \in 1 .. Num, NEW j \in 1 .. Num, i < j
                 PROVE  /\ urb'[j].st = "retired" => urb'[i].st = "retired"
                        /\ urb'[j].st = "done" => urb'[i].st \in {"done", "retired"}
      OBVIOUS
    <3>1. CASE i = u
      BY <1>7, <3>1
    <3>2. CASE j = u
      BY <1>7, <2>2, <3>2
    <3>3. CASE i # u /\ j # u
      <4>1. urb'[i].st = St(i) /\ urb'[j].st = St(j)
        BY <1>7, <3>3
      <4> QED
        BY <2>1, <4>1 DEF InTurn
    <3> QED
      BY <3>1, <3>2, <3>3
  <2> QED
    BY <1>1, <1>5, <2>1, <2>3 DEF InTurn, St
<1>20. NoUrbLeft'
  <2> SUFFICES ASSUME over PROVE \A i \in 1 .. Num : urb'[i].st \in {"new", "retired"}
    BY <1>5, <1>9 DEF NoUrbLeft
  <2> QED
    BY <1>7
<1> QED
  BY <1>10, <1>12, <1>13, <1>14, <1>15, <1>16, <1>17, <1>18, <1>19, <1>20 DEF UInv

InHand(u) == reaping = u /\ job = NoJob /\ priv.urbs

\* When every other URB is back.
LEMMA AllBack ==
  ASSUME UInv, NEW u \in 1 .. Num, InHand(u), req.type # "control"
  PROVE  priv.retired + 1 = Num <=> \A i \in 1 .. Num : i # u => St(i) \in {"new", "retired"}
<1>1. /\ Num \in Nat /\ Back \in SUBSET (1 .. Num) /\ ~Submitting /\ St(u) = "done"
      /\ priv.retired = Cardinality(Back)
  BY Types DEF UInv, InHand, Submitting, NoJob, QueueInv, CountInv
<1>2. /\ u \notin Back
      /\ \A i \in 1 .. Num : i \in Back <=> St(i) \in {"new", "retired"}
  BY <1>1 DEF Back
<1>3. Cardinality(Back) + 1 = Num <=> \A i \in 1 .. Num : i # u => i \in Back
  BY <1>1, <1>2, OneMore
<1> QED
  BY <1>1, <1>2, <1>3

\* In a normal transfer the last URB is the last to come.
LEMMA LastIsLast ==
  ASSUME UInv, InHand(Num), Num \in 1 .. Num, priv.action = "NORMAL"
  PROVE  \A i \in 1 .. Num : i # Num => St(i) = "retired"
<1>1. /\ InTurn /\ St(Num) = "done" /\ Num \in Nat /\ reaping = Num
  BY Types DEF UInv, InHand, OrderInv, Disordered, Discarding, NoJob, QueueInv
<1> SUFFICES ASSUME NEW i \in 1 .. Num, i # Num PROVE St(i) = "retired"
  OBVIOUS
<1>2. i < Num
  BY <1>1
<1>3. St(i) \in {"done", "retired"}
  BY <1>1, <1>2 DEF InTurn
<1>4. ASSUME St(i) = "done" PROVE FALSE
  <2>1. Holds(doneq, i)
    BY <1>1, <1>4 DEF UInv, QueueInv
  <2>2. Num < i
    BY <1>1, <2>1 DEF InTurn
  <2> QED
    BY <1>1, <1>2, <2>2
<1> QED
  BY <1>3, <1>4

\* What a handler knows of the transfer.
LEMMA HandFacts ==
  ASSUME UInv
  PROVE  /\ Num \in Nat /\ IsPriv(priv) /\ priv.action \in Actions /\ priv.retired \in Nat
         /\ \A i \in 1 .. Num : St(i) \in {"new", "pending", "done", "retired"}
BY Types DEF UInv, UrbsOK, IsPriv

\* handle_bulk_completion of an URB that comes back after the transfer ended.
LEMMA BulkSurplusKeeps == ASSUME UInv, BulkSurplus PROVE UInv'
<1>1. PICK u \in 1 .. Num :
        /\ Handling("bulk", u) /\ priv.action # "NORMAL" /\ job' = job
        /\ Leave(u, [priv EXCEPT !.retired = @ + 1,
                                 !.status = IF priv.retired + 1 = Num THEN AbnormalStatus ELSE @],
                 priv.retired + 1 = Num, AbnormalStatus)
  BY DEF BulkSurplus
<1> DEFINE over == priv.retired + 1 = Num
           s == IF over THEN AbnormalStatus ELSE priv.status
           p == SetField(priv, priv.retired + 1, s)
<1>2. Leave(u, p, over, AbnormalStatus)
  BY <1>1 DEF SetField
<1>3. /\ InHand(u) /\ job' = NoJob /\ req.type # "control" /\ reaping = u /\ job = NoJob
      /\ priv.urbs
  BY <1>1 DEF Handling, InHand
<1>4. over => \A i \in 1 .. Num : i # u => St(i) \in {"new", "retired"}
  BY <1>3, AllBack
<1>5. over \in BOOLEAN
  OBVIOUS
<1> HIDE DEF s, over
<1>6. IsPriv(p) /\ p.retired = priv.retired + 1 /\ p.action = priv.action
  BY HandFacts, PrivCounts
<1>7. p.action \in Actions /\ p.retired \in Nat
  BY <1>6, HandFacts
<1> HIDE DEF p
<1> QED
  BY <1>1, <1>2, <1>3, <1>4, <1>5, <1>6, <1>7, LeaveKeeps

\* handle_iso_completion.
LEMMA IsoKeeps == ASSUME UInv, IsoCompletion PROVE UInv'
<1>1. PICK u \in 1 .. Num : \E status :
        /\ Handling("iso", u) /\ job' = job
        /\ Leave(u, [priv EXCEPT !.retired = priv.retired + 1, !.packet = @ + urb[u].len],
                 IF priv.action = "NORMAL" THEN u = Num ELSE priv.retired + 1 = Num, status)
  BY DEF IsoCompletion
<1>2. PICK status :
        Leave(u, [priv EXCEPT !.retired = priv.retired + 1, !.packet = @ + urb[u].len],
              IF priv.action = "NORMAL" THEN u = Num ELSE priv.retired + 1 = Num, status)
  BY <1>1
<1> DEFINE over == IF priv.action = "NORMAL" THEN u = Num ELSE priv.retired + 1 = Num
           n == priv.packet + urb[u].len
           p == SetPacket(priv, priv.retired + 1, n)
<1>3. Leave(u, p, over, status)
  BY <1>2 DEF SetPacket
<1>4. /\ InHand(u) /\ job' = NoJob /\ req.type # "control" /\ reaping = u /\ job = NoJob
      /\ priv.urbs
  BY <1>1 DEF Handling, InHand
<1>5. over => \A i \in 1 .. Num : i # u => St(i) \in {"new", "retired"}
  <2>1. CASE priv.action = "NORMAL"
    BY <1>4, <2>1, LastIsLast
  <2>2. CASE priv.action # "NORMAL"
    BY <1>4, <2>2, AllBack
  <2> QED
    BY <2>1, <2>2
<1>6. over \in BOOLEAN
  OBVIOUS
<1> HIDE DEF n, over
<1>7. IsPriv(p) /\ p.retired = priv.retired + 1 /\ p.action = priv.action
  BY HandFacts, PrivCounts
<1>8. p.action \in Actions /\ p.retired \in Nat
  BY <1>7, HandFacts
<1> HIDE DEF p
<1> QED
  BY <1>3, <1>4, <1>5, <1>6, <1>7, <1>8, LeaveKeeps

\* handle_control_completion.
LEMMA ControlKeeps == ASSUME UInv, ControlCompletion PROVE UInv'
<1>1. PICK status : /\ Handling("control", 1) /\ job' = job
                    /\ Leave(1, priv, TRUE, status)
  BY DEF ControlCompletion
<1>2. /\ InHand(1) /\ job' = NoJob /\ req.type = "control" /\ reaping = 1 /\ job = NoJob
      /\ priv.urbs
  BY <1>1 DEF Handling, InHand
<1>3. 1 \in 1 .. Num /\ \A i \in 1 .. Num : i = 1
  <2>1. Num >= 1 /\ Num <= 1 /\ Num \in Nat
    BY <1>2 DEF UInv, UrbsOK
  <2> QED
    BY <2>1
<1>4. IsPriv(priv) /\ priv.action \in Actions /\ priv.retired \in Nat
  BY HandFacts
<1>5. TRUE \in BOOLEAN /\ \A i \in 1 .. Num : i # 1 => St(i) \in {"new", "retired"}
  BY <1>3
<1> QED
  BY <1>1, <1>2, <1>3, <1>4, <1>5, LeaveKeeps

\* handle_bulk_completion of a normal transfer.
LEMMA BulkNormalKeeps == ASSUME UInv, BulkNormal PROVE UInv'
<1> DEFINE Good(u) == urb[u].status \in {"OK", "REMOTEIO", "ENOENT"}
           Short(u) == Good(u) /\ u # Num /\ urb[u].data < urb[u].len
           Over(u) == \/ urb[u].status = "OVERFLOW"
                      \/ Good(u) /\ u = Num
                      \/ (Short(u) \/ ~Good(u)) /\ priv.retired + 1 = Num
           Act(u) == IF Short(u) THEN "COMPLETED_EARLY"
                     ELSE IF urb[u].status = "PROTO" THEN "ERROR" ELSE priv.action
<1>1. PICK u \in 1 .. Num : \E status :
        /\ Handling("bulk", u) /\ priv.action = "NORMAL"
        /\ Leave(u, [priv EXCEPT !.retired = priv.retired + 1, !.status = status,
                                 !.action = IF Short(u) THEN "COMPLETED_EARLY"
                                            ELSE IF urb[u].status = "PROTO" THEN "ERROR" ELSE @],
                 Over(u), status)
        /\ job' = IF (Short(u) \/ ~Good(u)) /\ ~Over(u) THEN Discard(u + 1, Num, "reap")
                  ELSE NoJob
  BY ZenonT(30) DEF BulkNormal
<1>2. PICK status :
        Leave(u, [priv EXCEPT !.retired = priv.retired + 1, !.status = status,
                              !.action = IF Short(u) THEN "COMPLETED_EARLY"
                                         ELSE IF urb[u].status = "PROTO" THEN "ERROR" ELSE @],
              Over(u), status)
  BY <1>1
<1> DEFINE over == Over(u)
           p == SetAction(priv, priv.retired + 1, status, Act(u))
<1>3. Leave(u, p, over, status)
  BY <1>2 DEF SetAction
<1>4. /\ InHand(u) /\ req.type # "control" /\ reaping = u /\ job = NoJob /\ priv.urbs
      /\ priv.action = "NORMAL" /\ Num \in Nat
  BY <1>1, HandFacts DEF Handling, InHand
<1>5. /\ urb[u].status \in Statuses
      /\ urb[u].status = "SHUTDOWN" => ~plugged
      /\ urb[u].status = "OVERFLOW" => u = Num
      /\ urb[u].status = "PIPE" /\ Num > 2 => \A j \in u .. Num : St(j) # "pending"
      /\ ~plugged => \A j \in 1 .. Num : St(j) # "pending"
  BY DEF UInv, KernelInv
<1>6. u = Num => \A i \in 1 .. Num : i # u => St(i) \in {"new", "retired"}
  BY <1>4, LastIsLast
<1>7. priv.retired + 1 = Num <=> \A i \in 1 .. Num : i # u => St(i) \in {"new", "retired"}
  BY <1>4, AllBack
<1>8. over => \A i \in 1 .. Num : i # u => St(i) \in {"new", "retired"}
  BY <1>5, <1>6, <1>7
<1>9. over \in BOOLEAN
  OBVIOUS
<1>10. Act(u) \in Actions /\ (Act(u) = "NORMAL" => ~Short(u) /\ urb[u].status # "PROTO")
  BY <1>4 DEF Actions
<1>11. \/ job' = NoJob
       \/ /\ ~over /\ u < Num /\ job' = Discard(u + 1, Num, "reap")
          /\ Act(u) = "NORMAL" => u + 1 = Num \/ \A i \in 1 .. Num : St(i) # "pending"
  <2>1. CASE (Short(u) \/ ~Good(u)) /\ ~over
    <3>1. job' = Discard(u + 1, Num, "reap")
      BY <1>1, <2>1
    <3>2. u # Num
      BY <1>6, <1>7, <2>1
    <3>3. u < Num
      BY <1>4, <3>2
    <3>4. ASSUME Act(u) = "NORMAL" PROVE u + 1 = Num \/ \A i \in 1 .. Num : St(i) # "pending"
      <4>1. urb[u].status \in {"SHUTDOWN", "PIPE"}
        BY <1>5, <1>10, <2>1, <3>4 DEF Statuses
      <4>2. CASE urb[u].status = "SHUTDOWN"
        BY <1>5, <4>2
      <4>3. CASE urb[u].status = "PIPE" /\ Num > 2
        <5>1. \A j \in u .. Num : St(j) # "pending"
          BY <1>5, <4>3
        <5>2. InTurn /\ St(u) = "done"
          BY <1>4 DEF UInv, OrderInv, Disordered, Discarding, NoJob, QueueInv
        <5>3. \A j \in 1 .. Num : j < u => St(j) # "pending"
          BY <5>2 DEF InTurn
        <5>4. \A j \in 1 .. Num : j < u \/ j \in u .. Num
          BY <1>4
        <5> QED
          BY <5>1, <5>3, <5>4
      <4>4. CASE Num <= 2
        BY <1>4, <3>3, <4>4
      <4> QED
        BY <1>4, <4>1, <4>2, <4>3, <4>4
    <3> QED
      BY <2>1, <3>1, <3>3, <3>4
  <2>2. CASE ~((Short(u) \/ ~Good(u)) /\ ~over)
    BY <1>1, <2>2
  <2> QED
    BY <2>1, <2>2
<1> HIDE DEF over, Act
<1>12. IsPriv(p) /\ p.retired = priv.retired + 1 /\ p.action = Act(u)
  BY HandFacts, PrivCounts
<1>13. p.action \in Actions /\ p.retired \in Nat
  BY <1>10, <1>12, HandFacts
<1> HIDE DEF p
<1> QED
  BY <1>3, <1>4, <1>8, <1>9, <1>11, <1>12, <1>13, LeaveKeeps

-----------------------------------------------------------------------------

\* There is no transfer at first.
LEMMA InitUrbs == Init => UInv
<1> SUFFICES ASSUME Init PROVE UInv
  OBVIOUS
<1>1. Num = 0 /\ job = NoJob /\ ~priv.urbs /\ urb = <<>>
  BY DEF Init, Num
<1>2. \A i \in 1 .. Num : FALSE
  BY <1>1
<1>3. UrbsOK
  <2>1. priv = [urbs |-> FALSE, action |-> "NORMAL", retired |-> 0, status |-> "COMPLETED",
                packet |-> 0]
    BY DEF Init
  <2>2. urb = [i \in 1 .. Num |-> urb[i]]
    BY <1>1
  <2>3. /\ priv = [urbs |-> priv.urbs, action |-> priv.action, retired |-> priv.retired,
                   status |-> priv.status, packet |-> priv.packet]
        /\ priv.urbs = FALSE /\ priv.action = "NORMAL" /\ priv.retired = 0
    BY <2>1
  <2> QED
    BY <1>1, <1>2, <2>2, <2>3 DEF UrbsOK, Init, Actions
<1>4. ~Submitting /\ \A who : ~Discarding(who)
  BY <1>1 DEF Submitting, Discarding, NoJob
<1>5. QueueInv
  BY <1>1, <1>2 DEF Init, QueueInv, Once, Holds
<1>6. JobOK /\ LifeInv /\ SubmitInv /\ CountInv /\ CancelInv /\ OrderInv /\ NoUrbLeft
  BY <1>1, <1>2, <1>4
     DEF Init, JobOK, LifeInv, SubmitInv, CountInv, CancelInv, OrderInv, NoUrbLeft
<1>7. KernelInv
  BY <1>1, <1>2 DEF Init, KernelInv
<1> QED
  BY <1>3, <1>5, <1>6, <1>7 DEF UInv

\* op_submit_transfer allocates the URBs of the transfer, new.
LEMMA SubmitKeeps == ASSUME UInv, Submit PROVE UInv'
<1>1. req \in Requests /\ IsPriv(priv) /\ priv.retired \in Nat
  BY HandFacts DEF UInv, UrbsOK
<1>2. CASE SubmitBulk
  <2> DEFINE p == SetField(priv, 0, "COMPLETED")
  <2>1. Begin(BulkUrbs, p) /\ req.type = "bulk"
    BY <1>2 DEF SubmitBulk, SetField
  <2>2. IsPriv(p) /\ p.retired = 0
    BY <1>1, PrivCounts
  <2>3. AreNew(BulkUrbs) /\ p.retired \in Nat
    BY <1>1, <2>2, BulkNew
  <2> HIDE DEF p
  <2> QED
    BY <2>1, <2>2, <2>3, BeginKeeps
<1>3. CASE SubmitIso
  <2> DEFINE p == SetPacket(priv, 0, 0)
  <2>1. Begin(IsoUrbs, p) /\ req.type = "iso"
    BY <1>3 DEF SubmitIso, SetPacket
  <2>2. IsPriv(p) /\ p.retired = 0
    BY <1>1, PrivCounts
  <2>3. AreNew(IsoUrbs) /\ p.retired \in Nat
    BY <1>1, <2>2, IsoNew
  <2> HIDE DEF p
  <2> QED
    BY <2>1, <2>2, <2>3, BeginKeeps
<1>4. CASE SubmitControl
  <2>1. Begin(ControlUrbs, priv) /\ req.type = "control"
    BY <1>4 DEF SubmitControl
  <2>2. AreNew(ControlUrbs) /\ Len(ControlUrbs) = 1
    BY ControlNew
  <2> QED
    BY <1>1, <2>1, <2>2, BeginKeeps
<1> QED
  BY <1>2, <1>3, <1>4 DEF Submit

\* Nothing happens.
LEMMA StutterKeeps == ASSUME UInv, UNCHANGED vars PROVE UInv'
<1>1. UNCHANGED <<req, flags, job, urb, doneq, reaping, report, priv, plugged>>
  BY DEF vars
<1> QED
  BY <1>1 DEF UInv, UrbsOK, JobOK, QueueInv, LifeInv, SubmitInv, CountInv, KernelInv,
    CancelInv, OrderInv, NoUrbLeft, Num, St, Submitting, Discarding, Disordered, InTurn, Back

\* Every step keeps the invariant, short of the races.
LEMMA StepUrbs == ASSUME Races = {}, UInv, [Next]_vars PROVE UInv'
<1>1. CASE Kernel
  <2>1. ASSUME NEW i \in 1 .. Num, KernelCompletes(i) PROVE UInv'
    BY <2>1, CompletesKeeps
  <2>2. ASSUME NEW i \in 1 .. Num, NEW status \in {"REMOTEIO", "PIPE", "OVERFLOW", "PROTO"},
               KernelFails(i, status)
        PROVE  UInv'
    BY <2>2, FailsKeeps
  <2>3. CASE Unplug
    BY <2>3, UnplugKeeps
  <2> QED
    BY <1>1, <2>1, <2>2, <2>3 DEF Kernel
<1>2. CASE InCall
  BY <1>2, SubmitUrbKeeps, FirstFailsKeeps, LaterFailsKeeps, DiscardUrbKeeps, DiscardEndsKeeps
     DEF InCall
<1>3. CASE Events
  BY <1>3, ReapKeeps, BulkSurplusKeeps, BulkNormalKeeps, IsoKeeps, ControlKeeps, ReportKeeps,
     DisconnectKeeps DEF Events
<1> QED
  BY <1>1, <1>2, <1>3, SubmitKeeps, CancelKeeps, StutterKeeps DEF Next

-----------------------------------------------------------------------------
(* The URBs of a transfer lie one behind the other.                          *)

\* Rounding up: just enough URBs.
LEMMA RoundUp ==
  ASSUME NEW a \in Nat \ {0}, NEW b \in Nat \ {0}, NEW n, n = (a + b - 1) \div b
  PROVE  n \in Nat \ {0} /\ n * b >= a /\ (n - 1) * b < a
<1> DEFINE x == a + b - 1
<1>1. x \in Nat /\ x >= b
  OBVIOUS
<1> HIDE DEF x
<1>2. x \div b > 0 /\ x \div b \in Int
  BY <1>1, Z3
<1>3. (x \div b) * b <= x /\ x < (x \div b) * b + b
  BY <1>1, Z3
<1>4. n = x \div b
  BY DEF x
<1> HIDE DEF x
<1>5. n \in Nat \ {0} /\ n * b <= x /\ x < n * b + b
  BY <1>2, <1>3, <1>4
<1>6. (n - 1) * b = n * b - b
  BY <1>5
<1>7. n * b \in Int
  BY <1>5
<1> QED
  BY <1>5, <1>6, <1>7 DEF x

\* Multiples in order.
LEMMA Multiples ==
  ASSUME NEW b \in Nat, NEW i \in Nat, NEW j \in Nat, i <= j
  PROVE  i * b <= j * b
<1>1. PICK k \in Nat : j = i + k
  <2>1. j - i \in Nat /\ j = i + (j - i)
    OBVIOUS
  <2> QED
    BY <2>1
<1>2. j * b = i * b + k * b
  BY <1>1
<1>3. k * b >= 0 /\ k * b \in Int /\ i * b \in Int
  BY <1>1
<1> QED
  BY <1>2, <1>3

\* submit_bulk_transfer cuts the buffer into pieces.
LEMMA BulkLaid == ASSUME req \in Requests, req.type = "bulk" PROVE Laid(BulkUrbs)
<1> DEFINE L == req.lens[1]
           P == BulkPiece
           n == IF L = 0 THEN 1 ELSE (L + P - 1) \div P
           F(i) == (i - 1) * P
           last(i) == req.caps # "continuation" \/ i = n
           u == [i \in 1 .. n |->
                   Fresh(F(i), Min2(P, L - F(i)), req.caps = "continuation" /\ i > 1, last(i))]
<1>1. L \in Nat /\ P \in Nat \ {0}
  BY RequestFacts DEF BulkPiece
<1>2. /\ n \in Nat \ {0}
      /\ L # 0 => n * P >= L /\ (n - 1) * P < L
      /\ L = 0 => n = 1
  <2>1. CASE L = 0
    BY <2>1
  <2>2. CASE L # 0
    <3>1. n = (L + P - 1) \div P /\ L \in Nat \ {0}
      BY <1>1, <2>2
    <3> HIDE DEF n, L, P
    <3> QED
      BY <1>1, <2>2, <3>1, RoundUp
  <2> QED
    BY <2>1, <2>2
<1>3. BulkUrbs = u
  BY DEF BulkUrbs
<1> HIDE DEF n, L, P
<1>4. ASSUME NEW i \in 1 .. n
      PROVE  /\ F(i) \in Nat /\ F(i) <= L /\ F(i + 1) = F(i) + P /\ F(i + 1) \in Nat
             /\ i < n => F(i) + P <= L /\ F(i) + P \in Nat /\ L - F(i) >= P
             /\ i = n => L - F(i) <= P
             /\ n > 1 => F(i) < L
             /\ i = 1 => F(i) = 0
             /\ \A j \in 1 .. n : i < j => F(i) + P <= F(j)
  <2>1. i - 1 \in Nat /\ i \in Nat /\ n - 1 \in Nat
    BY <1>2
  <2>2. F(i) \in Nat
    BY <1>1, <2>1
  <2>3. (i - 1) * P <= (n - 1) * P
    BY <1>1, <1>2, <2>1, Multiples
  <2>4. (n - 1) * P \in Nat
    BY <1>1, <2>1
  <2>5. (n - 1) * P <= L /\ (n > 1 => (n - 1) * P < L)
    BY <1>1, <1>2
  <2>6. F(i + 1) = F(i) + P
    BY <1>1, <2>1
  <2>7. ASSUME NEW j \in 1 .. n, i < j PROVE F(i) + P <= F(j)
    <3>1. i <= j - 1 /\ j - 1 \in Nat
      BY <2>1, <2>7
    <3>2. i * P <= (j - 1) * P
      BY <1>1, <2>1, <3>1, Multiples
    <3>3. i * P = (i - 1) * P + P
      BY <1>1, <2>1
    <3> QED
      BY <3>2, <3>3
  <2>8. ASSUME i < n PROVE F(i) + P <= L
    <3>1. n \in 1 .. n
      BY <1>2
    <3>2. F(i) + P <= F(n)
      BY <2>7, <2>8, <3>1
    <3> HIDE DEF F
    <3>3. F(n) <= L /\ F(n) \in Nat
      BY <2>4, <2>5 DEF F
    <3> QED
      BY <1>1, <2>2, <3>2, <3>3
  <2>9. i = n => L - F(i) <= P
    <3>1. n * P = (n - 1) * P + P
      BY <1>1, <1>2
    <3>2. L <= n * P
      <4>1. n * P \in Nat
        BY <1>1, <1>2
      <4> QED
        BY <1>1, <1>2, <4>1
    <3>3. CASE i = n
      <4>1. F(i) = (n - 1) * P
        BY <3>3
      <4> HIDE DEF F
      <4> QED
        BY <1>1, <2>4, <3>1, <3>2, <4>1
    <3> QED
      BY <3>3
  <2>10. i = 1 => F(i) = 0
    BY <1>1
  <2>11. F(i) <= L /\ (n > 1 => F(i) < L)
    <3>1. F(i) <= (n - 1) * P
      BY <2>3
    <3> HIDE DEF F
    <3> QED
      BY <1>1, <2>2, <2>4, <2>5, <3>1
  <2> HIDE DEF F
  <2> QED
    BY <1>1, <2>2, <2>6, <2>7, <2>8, <2>9, <2>10, <2>11
<1>5. Len(u) = n /\ \A i \in 1 .. n : u[i] = Fresh(F(i), Min2(P, L - F(i)), req.caps = "continuation" /\ i > 1, last(i))
  BY <1>2
<1> HIDE DEF u, F
<1>6. ASSUME NEW i \in 1 .. n
      PROVE  /\ u[i].first = F(i) /\ u[i].len = Min2(P, L - F(i)) /\ u[i].data = 0
             /\ u[i].cont => req.caps = "continuation"
             /\ req.caps = "continuation" /\ i # n => u[i].shortNotOk
  <2> DEFINE c == req.caps = "continuation" /\ i > 1
  <2>1. u[i] = Fresh(F(i), Min2(P, L - F(i)), c, last(i))
    BY <1>5
  <2>2. c => req.caps = "continuation"
    OBVIOUS
  <2>3. req.caps = "continuation" /\ i # n => ~last(i)
    OBVIOUS
  <2> HIDE DEF c, last
  <2>4. /\ u[i].first = F(i) /\ u[i].len = Min2(P, L - F(i)) /\ u[i].data = 0
        /\ u[i].cont = c /\ u[i].shortNotOk = ~last(i)
    BY <2>1 DEF Fresh
  <2> QED
    BY <2>2, <2>3, <2>4
<1>7. Size = L
  BY DEF Size, L
<1>8. ASSUME NEW i \in 1 .. n
      PROVE  /\ u[i].first \in Nat /\ u[i].len \in Nat /\ u[i].data \in 0 .. u[i].len
             /\ u[i].first + u[i].len <= L
             /\ i = 1 => u[i].first = 0
             /\ i < n => u[i + 1].first = u[i].first + u[i].len
             /\ i = n => u[i].first + u[i].len = L
             /\ n > 1 => u[i].len > 0
             /\ \A j \in 1 .. n : i < j => u[i].first + u[i].len <= u[j].first
  <2>1. Min2(P, L - F(i)) \in Nat /\ Min2(P, L - F(i)) <= P /\ F(i) + Min2(P, L - F(i)) <= L
        /\ (n > 1 => Min2(P, L - F(i)) > 0)
    BY <1>1, <1>4 DEF Min2
  <2>2. i < n => Min2(P, L - F(i)) = P
    BY <1>1, <1>4 DEF Min2
  <2>3. i = n => F(i) + Min2(P, L - F(i)) = L
    BY <1>1, <1>4 DEF Min2
  <2>4. i < n => i + 1 \in 1 .. n
    BY <1>2
  <2>5. i < n => u[i + 1].first = F(i + 1)
    BY <1>6, <2>4
  <2>6. u[i].first \in Nat /\ u[i].len \in Nat /\ u[i].data \in 0 .. u[i].len
    BY <1>4, <1>6, <2>1
  <2>7. ASSUME NEW j \in 1 .. n, i < j PROVE u[i].first + u[i].len <= u[j].first
    <3>1. F(i) + P <= F(j) /\ F(j) \in Nat /\ F(i) \in Nat
      BY <1>4, <2>7
    <3>2. F(i) + Min2(P, L - F(i)) <= F(j)
      BY <1>1, <2>1, <3>1
    <3> QED
      BY <1>6, <3>2
  <2>8. i < n => u[i + 1].first = u[i].first + u[i].len
    BY <1>4, <1>6, <2>2, <2>5
  <2> QED
    BY <1>4, <1>6, <2>1, <2>3, <2>6, <2>7, <2>8
<1> QED
  BY <1>3, <1>5, <1>6, <1>7, <1>8 DEF Laid

\* The packets fill the URBs one after the other.
LEMMA PackRises ==
  ASSUME req \in Requests
  PROVE  /\ Pack[1].urb = 1
         /\ \A k, l \in 1 .. Len(req.lens) : k <= l => Pack[k].urb <= Pack[l].urb
         /\ \A k \in 1 .. Len(req.lens) : k > 1 => Pack[k].urb <= Pack[k - 1].urb + 1
<1> DEFINE K == Len(req.lens)
           B(k) == Pack[k].urb
<1>1. K \in Nat \ {0} /\ \A k \in 1 .. K : B(k) \in Nat \ {0}
  BY RequestFacts, PackCounts
<1>2. \A k \in 1 .. K : Pack[k] = PackStep(Pack, k)
  BY <1>1, PackIs
<1>3. B(1) = 1
  <2>1. 1 \in 1 .. K
    BY <1>1
  <2>2. PackStep(Pack, 1).urb = 1
    BY DEF PackStep
  <2> QED
    BY <1>2, <2>1, <2>2
<1>4. ASSUME NEW k \in 1 .. K, k > 1 PROVE B(k) = B(k - 1) \/ B(k) = B(k - 1) + 1
  <2>1. k # 1
    BY <1>1, <1>4
  <2>2. PackStep(Pack, k).urb \in {Pack[k - 1].urb + 1, Pack[k - 1].urb}
    BY <2>1 DEF PackStep
  <2>3. Pack[k].urb = PackStep(Pack, k).urb
    BY <1>2
  <2> QED
    BY <2>2, <2>3
<1> HIDE DEF B, K
<1>5. ASSUME NEW k \in 1 .. K, NEW l \in 1 .. K, k <= l PROVE B(k) <= B(l)
  <2> DEFINE S == {j \in 1 .. K : k <= j /\ ~(B(k) <= B(j))}
  <2> SUFFICES ASSUME S # {} PROVE FALSE
    BY <1>5
  <2>1. PICK j \in S : \A m \in S : j <= m
    <3>1. S \in SUBSET Nat
      OBVIOUS
    <3> HIDE DEF S
    <3> QED
      BY <3>1, Smallest
  <2>2. j \in 1 .. K /\ k <= j /\ ~(B(k) <= B(j)) /\ k \in 1 .. K
    BY <2>1
  <2>3. j # k
    BY <1>1, <2>2
  <2>4. j - 1 \in 1 .. K /\ k <= j - 1 /\ j > 1 /\ ~(j <= j - 1)
    BY <1>1, <2>2, <2>3
  <2>5. B(k) <= B(j - 1)
    BY <2>1, <2>4
  <2> QED
    BY <1>1, <1>4, <2>2, <2>4, <2>5
<1>6. \A k, l \in 1 .. K : k <= l => B(k) <= B(l)
  BY <1>5
<1>7. \A k \in 1 .. K : k > 1 => B(k) <= B(k - 1) + 1
  <2> SUFFICES ASSUME NEW k \in 1 .. K, k > 1 PROVE B(k) <= B(k - 1) + 1
    OBVIOUS
  <2>1. k - 1 \in 1 .. K
    BY <1>1
  <2>2. B(k) \in Nat /\ B(k - 1) \in Nat
    BY <1>1, <2>1
  <2> QED
    BY <1>4, <2>2
<1> QED
  BY <1>3, <1>6, <1>7 DEF B, K

\* Those of URB i and of the URBs behind it begin somewhere.
LEMMA Cut ==
  ASSUME req \in Requests, NEW i \in 1 .. Pack[Len(req.lens)].urb
  PROVE  \E m \in 1 .. Len(req.lens) :
           Pack[m].urb = i /\ \A k \in 1 .. Len(req.lens) : Pack[k].urb >= i <=> k >= m
<1> DEFINE K == Len(req.lens)
           B(k) == Pack[k].urb
<1>1. K \in Nat \ {0} /\ K \in 1 .. K /\ \A k \in 1 .. K : B(k) \in Nat \ {0}
  BY RequestFacts, PackCounts
<1>2. /\ B(1) = 1
      /\ \A k, l \in 1 .. K : k <= l => B(k) <= B(l)
      /\ \A k \in 1 .. K : k > 1 => B(k) <= B(k - 1) + 1
  BY PackRises
<1>3. i \in 1 .. B(K)
  OBVIOUS
<1> HIDE DEF B, K
<1> DEFINE S == {k \in 1 .. K : B(k) >= i}
<1>4. PICK m \in S : \A k \in S : m <= k
  <2>1. K \in S /\ S \in SUBSET Nat
    BY <1>1, <1>3
  <2> HIDE DEF S
  <2> QED
    BY <2>1, Smallest
<1>5. m \in 1 .. K /\ B(m) >= i
  BY <1>4
<1>6. \A k \in 1 .. K : B(k) >= i <=> k >= m
  <2>1. \A k \in 1 .. K : B(k) >= i => k >= m
    BY <1>4
  <2>2. ASSUME NEW k \in 1 .. K, k >= m PROVE B(k) >= i
    <3>1. B(m) <= B(k)
      BY <1>2, <1>5, <2>2
    <3> QED
      BY <1>1, <1>3, <1>5, <3>1
  <2> QED
    BY <2>1, <2>2
<1>7. B(m) = i
  <2>1. CASE m = 1
    BY <1>2, <1>3, <1>5, <2>1
  <2>2. CASE m # 1
    <3>1. m - 1 \in 1 .. K /\ ~(m - 1 >= m) /\ m > 1
      BY <1>1, <1>5, <2>2
    <3>2. ~(B(m - 1) >= i) /\ B(m) <= B(m - 1) + 1
      BY <1>2, <1>5, <1>6, <3>1
    <3> QED
      BY <1>1, <1>3, <1>5, <3>1, <3>2
  <2> QED
    BY <2>1, <2>2
<1> QED
  BY <1>5, <1>6, <1>7 DEF B, K

\* submit_iso_transfer gives each URB the packets that follow those of the URB before.
LEMMA IsoLaid == ASSUME req \in Requests, req.type = "iso" PROVE Laid(IsoUrbs)
<1> DEFINE K == Len(req.lens)
           B(k) == Pack[k].urb
           n == B(K)
           Of(i) == {k \in 1 .. K : B(k) = i}
           F(i) == CHOOSE k \in Of(i) : \A j \in Of(i) : k <= j
           u == [i \in 1 .. n |-> Fresh(F(i) - 1, Cardinality(Of(i)), FALSE, TRUE)]
           IsCut(i, m) == m \in 1 .. K /\ B(m) = i /\ \A k \in 1 .. K : B(k) >= i <=> k >= m
           cut == [i \in 1 .. n + 1 |-> IF i = n + 1 THEN K + 1 ELSE CHOOSE m : IsCut(i, m)]
<1>1. K \in Nat \ {0} /\ K \in 1 .. K /\ (\A k \in 1 .. K : B(k) \in Nat \ {0}) /\ n \in Nat \ {0}
  BY RequestFacts, PackCounts
<1>2. /\ B(1) = 1
      /\ \A k, l \in 1 .. K : k <= l => B(k) <= B(l)
  BY PackRises
<1>3. \A i \in 1 .. n : \E m : IsCut(i, m)
  BY Cut
<1>4. IsoUrbs = u
  BY DEF IsoUrbs
<1>5. Size = K
  BY DEF Size
<1> HIDE DEF B, K, IsCut
<1>6. /\ cut[n + 1] = K + 1
      /\ \A i \in 1 .. n : IsCut(i, cut[i])
  <2>1. n + 1 \in 1 .. n + 1 /\ \A i \in 1 .. n : i # n + 1 /\ i \in 1 .. n + 1
    BY <1>1
  <2> QED
    BY <1>3, <2>1
<1> HIDE DEF cut
<1>7. ASSUME NEW i \in 1 .. n
      PROVE  /\ cut[i] \in 1 .. K /\ cut[i + 1] \in 1 .. K + 1 /\ cut[i] < cut[i + 1]
             /\ Of(i) = cut[i] .. cut[i + 1] - 1
             /\ i = 1 => cut[i] = 1
             /\ \A j \in 1 .. n : i < j => cut[i + 1] <= cut[j]
  <2>1. IsCut(i, cut[i]) /\ i \in Nat
    BY <1>1, <1>6
  <2>2. cut[i] \in 1 .. K /\ B(cut[i]) = i /\ \A k \in 1 .. K : B(k) >= i <=> k >= cut[i]
    BY <2>1 DEF IsCut
  <2>3. /\ cut[i + 1] \in 1 .. K + 1
        /\ \A k \in 1 .. K : B(k) >= i + 1 <=> k >= cut[i + 1]
    <3>1. CASE i = n
      <4>1. \A k \in 1 .. K : B(k) <= n
        BY <1>1, <1>2 DEF n
      <4>2. cut[i + 1] = K + 1
        BY <1>6, <3>1
      <4> QED
        BY <1>1, <3>1, <4>1, <4>2
    <3>2. CASE i # n
      <4>1. i + 1 \in 1 .. n
        BY <1>1, <3>2
      <4>2. IsCut(i + 1, cut[i + 1])
        BY <1>6, <4>1
      <4> QED
        BY <1>1, <4>2 DEF IsCut
    <3> QED
      BY <3>1, <3>2
  <2>4. cut[i] < cut[i + 1]
    <3>1. ~(B(cut[i]) >= i + 1)
      BY <2>1, <2>2
    <3> QED
      BY <1>1, <2>2, <2>3, <3>1
  <2>5. Of(i) = cut[i] .. cut[i + 1] - 1
    <3>1. ASSUME NEW k \in Of(i) PROVE k \in cut[i] .. cut[i + 1] - 1
      <4>1. k \in 1 .. K /\ B(k) >= i /\ ~(B(k) >= i + 1)
        BY <2>1
      <4> QED
        BY <1>1, <2>2, <2>3, <4>1
    <3>2. ASSUME NEW k \in cut[i] .. cut[i + 1] - 1 PROVE k \in Of(i)
      <4>1. k \in 1 .. K /\ k >= cut[i] /\ ~(k >= cut[i + 1])
        BY <1>1, <2>2, <2>3
      <4>2. B(k) >= i /\ ~(B(k) >= i + 1) /\ B(k) \in Nat
        BY <1>1, <2>2, <2>3, <4>1
      <4> QED
        BY <2>1, <4>1, <4>2
    <3> QED
      BY <3>1, <3>2
  <2>6. ASSUME i = 1 PROVE cut[i] = 1
    <3>1. 1 \in 1 .. K /\ B(1) >= 1
      BY <1>1, <1>2
    <3>2. 1 >= cut[i]
      BY <2>2, <2>6, <3>1
    <3> QED
      BY <2>2, <3>2
  <2>7. ASSUME NEW j \in 1 .. n, i < j PROVE cut[i + 1] <= cut[j]
    <3>1. cut[j] \in 1 .. K /\ B(cut[j]) = j
      BY <1>6 DEF IsCut
    <3>2. B(cut[j]) >= i + 1
      BY <1>1, <2>1, <2>7, <3>1
    <3> QED
      BY <2>3, <3>1, <3>2
  <2> HIDE DEF Of
  <2> QED
    BY <2>2, <2>3, <2>4, <2>5, <2>6, <2>7
<1> HIDE DEF Of
<1>8. ASSUME NEW i \in 1 .. n
      PROVE  F(i) = cut[i] /\ Cardinality(Of(i)) = cut[i + 1] - cut[i]
  <2>1. cut[i] \in Int /\ cut[i + 1] - 1 \in Int /\ ~(cut[i] > cut[i + 1] - 1)
        /\ Of(i) = cut[i] .. cut[i + 1] - 1
    BY <1>7
  <2>2. cut[i] \in Of(i) /\ \A j \in Of(i) : cut[i] <= j /\ j \in Int
    BY <2>1
  <2>3. F(i) = cut[i]
    BY <2>1, <2>2
  <2>4. Cardinality(cut[i] .. cut[i + 1] - 1)
          = IF cut[i] > cut[i + 1] - 1 THEN 0 ELSE (cut[i + 1] - 1) - cut[i] + 1
    BY <2>1, FS_Interval
  <2>5. cut[i + 1] \in Int
    BY <1>7
  <2> HIDE DEF F
  <2> QED
    BY <2>1, <2>3, <2>4, <2>5
<1> HIDE DEF F, n
<1>9. Len(u) = n /\ \A i \in 1 .. n : u[i] = Fresh(F(i) - 1, Cardinality(Of(i)), FALSE, TRUE)
  BY <1>1
<1> HIDE DEF u
<1>10. ASSUME NEW i \in 1 .. n
       PROVE  /\ u[i].first = cut[i] - 1 /\ u[i].len = cut[i + 1] - cut[i] /\ u[i].data = 0
              /\ u[i].cont = FALSE
  BY <1>8, <1>9 DEF Fresh
<1>11. ASSUME NEW i \in 1 .. n
       PROVE  /\ u[i].first \in Nat /\ u[i].len \in Nat /\ u[i].data \in 0 .. u[i].len
              /\ u[i].first + u[i].len <= K
              /\ i = 1 => u[i].first = 0
              /\ i < n => u[i + 1].first = u[i].first + u[i].len
              /\ i = n => u[i].first + u[i].len = K
              /\ \A j \in 1 .. n : i < j => u[i].first + u[i].len <= u[j].first
  <2>1. /\ u[i].first = cut[i] - 1 /\ u[i].len = cut[i + 1] - cut[i] /\ u[i].data = 0
        /\ cut[i] \in 1 .. K /\ cut[i + 1] \in 1 .. K + 1 /\ cut[i] < cut[i + 1]
    BY <1>7, <1>10
  <2>2. u[i].first \in Nat /\ u[i].len \in Nat /\ u[i].data \in 0 .. u[i].len
    BY <1>1, <2>1
  <2>3. u[i].first + u[i].len = cut[i + 1] - 1
    BY <1>1, <2>1
  <2>4. i < n => i + 1 \in 1 .. n
    BY <1>1
  <2>5. i < n => u[i + 1].first = u[i].first + u[i].len
    BY <1>10, <2>3, <2>4
  <2>6. i = n => u[i].first + u[i].len = K
    BY <1>1, <1>6, <2>3
  <2>7. ASSUME NEW j \in 1 .. n, i < j PROVE u[i].first + u[i].len <= u[j].first
    <3>1. cut[i + 1] <= cut[j] /\ u[j].first = cut[j] - 1 /\ cut[j] \in 1 .. K
      BY <1>7, <1>10, <2>7
    <3> QED
      BY <1>1, <2>1, <2>3, <3>1
  <2>8. u[i].first + u[i].len <= K
    BY <1>1, <2>1, <2>3
  <2>9. i = 1 => u[i].first = 0
    BY <1>7, <2>1
  <2> QED
    BY <2>2, <2>5, <2>6, <2>7, <2>8, <2>9
<1> QED
  BY <1>4, <1>5, <1>9, <1>10, <1>11 DEF Laid

\* And the one URB of a control transfer is the whole of it.
LEMMA ControlLaid == ASSUME req \in Requests, req.type = "control" PROVE Laid(ControlUrbs)
<1> DEFINE u == ControlUrbs
<1>1. Len(u) = 1 /\ u[1] = Fresh(0, req.lens[1], FALSE, TRUE)
  BY DEF ControlUrbs
<1>2. req.lens[1] \in Nat /\ Size = req.lens[1]
  BY RequestFacts DEF Size
<1>3. /\ u[1].first = 0 /\ u[1].len = req.lens[1] /\ u[1].data = 0 /\ u[1].cont = FALSE
  BY <1>1 DEF Fresh
<1>4. \A i \in 1 .. 1 : i = 1
  OBVIOUS
<1> HIDE DEF u
<1>5. \A i \in 1 .. 1 : /\ u[i].first \in Nat /\ u[i].len \in Nat /\ u[i].data \in 0 .. u[i].len
                         /\ u[i].first + u[i].len = Size /\ u[i].first = 0 /\ u[i].cont = FALSE
  BY <1>2, <1>3, <1>4
<1>6. Size <= Size /\ req.type # "bulk"
  BY <1>2
<1>7. Laid(u)
  BY <1>1, <1>4, <1>5, <1>6 DEF Laid
<1> QED
  BY <1>7 DEF u

-----------------------------------------------------------------------------
(* Behind DataKept and CompletedIsTrue: steps that leave the data alone.      *)

\* What of URB i is set once and for all; what the kernel has put into it.
SameShape(i) ==
  /\ urb'[i].first = urb[i].first /\ urb'[i].len = urb[i].len
  /\ urb'[i].cont = urb[i].cont /\ urb'[i].shortNotOk = urb[i].shortNotOk

SameFill(i) == urb'[i].data = urb[i].data /\ urb'[i].status = urb[i].status

\* Nothing moves an URB.
LEMMA LayoutStays ==
  ASSUME LayoutInv, Num \in Nat, Num' = Num, req' = req,
         \A i \in 1 .. Num : SameShape(i) /\ urb'[i].data \in 0 .. urb[i].len
  PROVE  LayoutInv'
<1>1. Size' = Size
  BY DEF Size
<1>2. \A i \in 1 .. Num : i < Num => i + 1 \in 1 .. Num
  OBVIOUS
<1> SUFFICES /\ \A i \in 1 .. Num :
                  /\ urb'[i].first \in Nat /\ urb'[i].len \in Nat /\ urb'[i].data \in 0 .. urb'[i].len
                  /\ urb'[i].first + urb'[i].len <= Size
                  /\ i = 1 => urb'[i].first = 0
                  /\ i < Num => urb'[i + 1].first = urb'[i].first + urb'[i].len
                  /\ i = Num => urb'[i].first + urb'[i].len = Size
                  /\ req.type = "bulk" /\ Num > 1 => urb'[i].len > 0
                  /\ req.type = "bulk" /\ req.caps = "continuation" /\ i # Num => urb'[i].shortNotOk
                  /\ urb'[i].cont => req.type = "bulk" /\ req.caps = "continuation"
             /\ \A i, j \in 1 .. Num : i < j => urb'[i].first + urb'[i].len <= urb'[j].first
  BY <1>1 DEF LayoutInv, Laid, Num
<1>3. \A i \in 1 .. Num :
        /\ urb[i].first \in Nat /\ urb[i].len \in Nat
        /\ urb[i].first + urb[i].len <= Size
        /\ i = 1 => urb[i].first = 0
        /\ i < Num => urb[i + 1].first = urb[i].first + urb[i].len
        /\ i = Num => urb[i].first + urb[i].len = Size
        /\ req.type = "bulk" /\ Num > 1 => urb[i].len > 0
        /\ req.type = "bulk" /\ req.caps = "continuation" /\ i # Num => urb[i].shortNotOk
        /\ urb[i].cont => req.type = "bulk" /\ req.caps = "continuation"
  BY DEF LayoutInv, Laid, Num
<1>4. \A i, j \in 1 .. Num : i < j => urb[i].first + urb[i].len <= urb[j].first
  BY DEF LayoutInv, Laid, Num
<1> QED
  BY <1>2, <1>3, <1>4 DEF SameShape

\* What is in them stays, whoever has them.
LEMMA FillStays ==
  ASSUME FillInv, Num \in Nat, Num' = Num, req' = req, halted => halted',
         \A i \in 1 .. Num : /\ SameShape(i) /\ SameFill(i)
                             /\ Returned(i) => urb'[i].st \in {"done", "retired"}
                             /\ urb'[i].st = "new" => \A j \in i .. Num : urb'[j].st = "new"
                             /\ priv'.urbs => (urb'[i].st \in {"done", "retired"} => Returned(i)),
         priv'.urbs => priv.urbs
  PROVE  FillInv'
<1>1. \A i \in 1 .. Num :
       /\ ~Returned(i)' => Data(i)' = 0
       /\ St(i)' = "new" => \A j \in i .. Num : St(j)' = "new"
       /\ Data(i)' > 0 => \A j \in 1 .. i : Returned(j)'
       /\ Status(i)' = "REMOTEIO" => Data(i)' < Length(i)'
  <2> SUFFICES ASSUME NEW i \in 1 .. Num
               PROVE  /\ urb'[i].st \notin {"done", "retired"} => urb'[i].data = 0
                      /\ urb'[i].st = "new" => \A j \in i .. Num : urb'[j].st = "new"
                      /\ urb'[i].data > 0 => \A j \in 1 .. i : urb'[j].st \in {"done", "retired"}
                      /\ urb'[i].status = "REMOTEIO" => urb'[i].data < urb'[i].len
    BY DEF Returned, St, Data, Status, Length
  <2>1. \A j \in 1 .. i : j \in 1 .. Num
    OBVIOUS
  <2> QED
    BY <2>1 DEF FillInv, Returned, St, Data, Status, Length, SameShape, SameFill
<1>2. ASSUME req.type = "bulk", NEW i \in 1 .. Num
      PROVE  /\ Status(i)' \in Failures => halted'
             /\ Status(i)' \notin {"OK", "ENOENT"} => \A j \in i + 1 .. Num : Data(j)' = 0
             /\ priv'.urbs /\ Returned(i)' /\ Status(i)' = "OK" /\ i # Num
                  /\ req.caps = "continuation" => Full(i)'
  <2> SUFFICES /\ urb'[i].status \in Failures => halted'
               /\ urb'[i].status \notin {"OK", "ENOENT"} => \A j \in i + 1 .. Num : urb'[j].data = 0
               /\ priv'.urbs /\ urb'[i].st \in {"done", "retired"} /\ urb'[i].status = "OK" /\ i # Num
                    /\ req.caps = "continuation" => urb'[i].data = urb'[i].len
    BY DEF Returned, St, Data, Status, Length, Full
  <2>1. \A j \in i + 1 .. Num : j \in 1 .. Num
    OBVIOUS
  <2> QED
    BY <1>2, <2>1 DEF FillInv, Returned, St, Data, Status, Length, Full, SameShape, SameFill
<1> QED
  BY <1>1, <1>2 DEF FillInv

\* Data that is not touched stays where it is.
LEMMA PlaceStays ==
  ASSUME PlaceInv, Num \in Nat, Num' = Num, req' = req, UNCHANGED <<out, arrived, transferred>>,
         \A i \in 1 .. Num : /\ SameShape(i) /\ urb'[i].data = urb[i].data
                             /\ Data(i) > 0 => (urb'[i].st = "retired" <=> St(i) = "retired"),
         priv'.urbs => priv.urbs
  PROVE  PlaceInv'
<1> SUFFICES ASSUME req.type = "bulk", priv.urbs PROVE Located'
  BY DEF PlaceInv
<1>1. PICK base \in [1 .. Num + 1 -> 0 .. arrived], bound \in 1 .. Num + 1 : Placed(base, bound)
  BY DEF PlaceInv, Located
<1>2. \A i \in 1 .. Num : Data(i)' = Data(i) /\ Full(i)' = Full(i)
  BY DEF Data, Full, Length, SameShape
<1>3. Placed(base, bound)'
  <2>1. base[Num + 1]' = arrived' /\ base[bound]' = transferred'
    BY <1>1 DEF Placed
  <2>2. \A i, j \in 1 .. Num + 1 : i < j =>
          /\ base[i] <= base[j]
          /\ (\A k \in i + 1 .. j - 1 : Data(k)' = 0) => base[j] = base[i] + Data(i)'
    <3> SUFFICES ASSUME NEW i \in 1 .. Num + 1, NEW j \in 1 .. Num + 1, i < j
                 PROVE  /\ base[i] <= base[j]
                        /\ (\A k \in i + 1 .. j - 1 : Data(k)' = 0) => base[j] = base[i] + Data(i)'
      OBVIOUS
    <3>1. i \in 1 .. Num /\ \A k \in i + 1 .. j - 1 : k \in 1 .. Num
      OBVIOUS
    <3>2. /\ base[i] <= base[j]
          /\ (\A k \in i + 1 .. j - 1 : Data(k) = 0) => base[j] = base[i] + Data(i)
      BY <1>1 DEF Placed
    <3>3. Data(i)' = Data(i) /\ \A k \in i + 1 .. j - 1 : Data(k)' = Data(k)
      BY <1>2, <3>1
    <3> QED
      BY <3>2, <3>3
  <2>3. \A i \in 1 .. Num :
       /\ base[i] <= urb'[i].first
       /\ (\A j \in 1 .. i - 1 : Full(j)') => base[i] = urb'[i].first
    <3> SUFFICES ASSUME NEW i \in 1 .. Num
                 PROVE  /\ base[i] <= urb'[i].first
                        /\ (\A j \in 1 .. i - 1 : Full(j)') => base[i] = urb'[i].first
      OBVIOUS
    <3>1. \A j \in 1 .. i - 1 : j \in 1 .. Num
      OBVIOUS
    <3>2. urb'[i].first = urb[i].first
      BY DEF SameShape
    <3> QED
      BY <1>1, <1>2, <3>1, <3>2 DEF Placed
  <2>4. \A i \in 1 .. Num :
       /\ Data(i)' > 0 => (St(i)' = "retired" <=> i < bound)
       /\ Data(i)' > 0 /\ i >= bound =>
            \A n \in 1 .. Data(i)' : out'[urb'[i].first + n] = base[i] + n
    <3> SUFFICES ASSUME NEW i \in 1 .. Num
                 PROVE  /\ Data(i) > 0 => (urb'[i].st = "retired" <=> i < bound)
                        /\ Data(i) > 0 /\ i >= bound =>
                              \A n \in 1 .. Data(i) : out[urb[i].first + n] = base[i] + n
      BY <1>2 DEF St, SameShape
    <3> QED
      BY <1>1 DEF Placed
  <2>5. \A p \in 1 .. transferred' : out'[p] = p
    BY <1>1 DEF Placed
  <2> QED
    BY <2>1, <2>2, <2>3, <2>4, <2>5 DEF Placed
<1> QED
  BY <1>1, <1>3 DEF Located

\* Nothing was reaped.
LEMMA OrderStays ==
  ASSUME ReapInv, Num \in Nat, Num' = Num, req' = req, UNCHANGED <<doneq, reaping>>,
         doneq \in Seq(1 .. Num), reaping \in 0 .. Num,
         \A i \in 1 .. Num : urb'[i].data = urb[i].data,
         priv'.urbs => priv.urbs
  PROVE  ReapInv'
<1> SUFFICES ASSUME req.type = "bulk", priv.urbs
             PROVE  /\ \A m, n \in DOMAIN doneq :
                         m < n /\ urb'[doneq[m]].data > 0 /\ urb'[doneq[n]].data > 0
                           => doneq[m] < doneq[n]
                    /\ reaping # 0 /\ urb'[reaping].data > 0 =>
                         \A i \in 1 .. Num : Holds(doneq, i) /\ urb'[i].data > 0 => reaping < i
  BY DEF ReapInv, Data, Holds
<1>1. \A n \in DOMAIN doneq : doneq[n] \in 1 .. Num
  OBVIOUS
<1>2. reaping # 0 => reaping \in 1 .. Num
  OBVIOUS
<1> QED
  BY <1>1, <1>2 DEF ReapInv, Data

\* The status means what it meant.
LEMMA StatusStays ==
  ASSUME StatusInv, Num \in Nat, Num' = Num, req' = req, halted' = halted,
         priv'.urbs => priv.urbs /\ priv'.action = priv.action /\ priv'.status = priv.status,
         \A i \in 1 .. Num : /\ SameShape(i) /\ SameFill(i)
                             /\ Returned(i) => urb'[i].st \in {"done", "retired"}
                             /\ urb'[i].st = "retired" /\ priv'.urbs => St(i) = "retired",
         priv'.urbs => /\ priv.action = "NORMAL" /\ Disordered => Disordered'
                       /\ Discarding("reap")' => Discarding("reap")
                       /\ Submitting' => Submitting
  PROVE  StatusInv'
<1> SUFFICES ASSUME req.type = "bulk", priv'.urbs, priv.urbs,
                    priv'.action = priv.action, priv'.status = priv.status
             PROVE  StatusInv'
  BY DEF StatusInv
<1>1. \A i \in 1 .. Num : /\ Data(i)' = Data(i) /\ Status(i)' = Status(i) /\ Full(i)' = Full(i)
                          /\ Length(i)' = Length(i)
                          /\ St(i)' = "retired" => St(i) = "retired"
                          /\ Returned(i) => Returned(i)'
  BY DEF Data, Full, Length, Status, SameShape, SameFill, St, Returned
<1>2. priv.action = "NORMAL" =>
         \A i \in 1 .. Num : St(i)' = "retired" =>
           /\ i # Num => Full(i)' \/ Status(i)' \in {"SHUTDOWN", "PIPE"}
           /\ priv.status = "COMPLETED" => Status(i)' = "OK" /\ Full(i)'
  BY <1>1 DEF StatusInv
<1>3. priv.action = "NORMAL" /\ priv.status = "COMPLETED" /\ ~(Disordered') =>
         /\ ~(Discarding("reap")')
         /\ \A i \in 1 .. Num : Status(i)' = "ENOENT" =>
              \E j \in 1 .. i - 1 : Status(j)' \notin {"OK", "ENOENT"}
  <2> SUFFICES ASSUME priv.action = "NORMAL", priv.status = "COMPLETED", ~(Disordered')
               PROVE  /\ ~(Discarding("reap")')
                      /\ \A i \in 1 .. Num : Status(i)' = "ENOENT" =>
                            \E j \in 1 .. i - 1 : Status(j)' \notin {"OK", "ENOENT"}
    OBVIOUS
  <2>1. ~Discarding("reap") /\ \A i \in 1 .. Num : Status(i) = "ENOENT" =>
              \E j \in 1 .. i - 1 : Status(j) \notin {"OK", "ENOENT"}
    BY DEF StatusInv
  <2>2. ASSUME NEW i \in 1 .. Num, Status(i)' = "ENOENT"
        PROVE  \E j \in 1 .. i - 1 : Status(j)' \notin {"OK", "ENOENT"}
    <3>1. PICK j \in 1 .. i - 1 : Status(j) \notin {"OK", "ENOENT"}
      BY <1>1, <2>1, <2>2
    <3>2. j \in 1 .. Num
      OBVIOUS
    <3> QED
      BY <1>1, <3>1, <3>2
  <2> QED
    BY <2>1, <2>2
<1>4. EndsShort => EndsShort'
  <2> SUFFICES ASSUME NEW n \in 1 .. Num, ShortAt(n) PROVE ShortAt(n)'
    BY DEF EndsShort
  <2>1. \A i \in 1 .. n : i \in 1 .. Num
    OBVIOUS
  <2>2. \A i \in 1 .. n - 1 : i \in 1 .. Num
    OBVIOUS
  <2> QED
    BY <1>1, <2>1, <2>2 DEF ShortAt
<1>5. /\ priv.action = "COMPLETED_EARLY" /\ priv.status = "COMPLETED" => EndsShort'
      /\ priv.action = "ERROR" => priv.status # "COMPLETED"
      /\ Submitting' /\ halted /\ req.caps = "continuation" => EndsShort'
  BY <1>4 DEF StatusInv
<1>6. Submitting' /\ ~halted => \A i \in 1 .. Num : Status(i)' # "ENOENT"
  BY <1>1 DEF StatusInv
<1> QED
  BY <1>2, <1>3, <1>5, <1>6 DEF StatusInv

\* So do the results of the packets.
LEMMA PacketStays ==
  ASSUME PacketInv, Num \in Nat, Num' = Num, req' = req, out' = out,
         \A i \in 1 .. Num : /\ SameShape(i)
                             /\ priv'.urbs => (urb'[i].st = "retired" <=> St(i) = "retired"),
         priv'.urbs /\ priv'.action = "NORMAL" =>
            priv.urbs /\ priv.action = "NORMAL" /\ priv'.packet = priv.packet
  PROVE  PacketInv'
<1> SUFFICES ASSUME req.type = "iso", priv'.urbs, priv'.action = "NORMAL"
             PROVE  PacketInv'
  BY DEF PacketInv
<1>1. /\ priv'.packet \in Nat
      /\ \A i \in 1 .. Num : IF urb'[i].st = "retired" THEN urb'[i].first + urb'[i].len <= priv'.packet
                                                       ELSE priv'.packet <= urb'[i].first
      /\ \A p \in 1 .. priv'.packet : out'[p] = p
  BY DEF PacketInv, SameShape, St, Length
<1> QED
  BY <1>1 DEF PacketInv, St, Length

\* While nothing is reported, nothing can be wrong with the report.
LEMMA NoReport == ASSUME report' = "none", told' = "none" PROVE EndInv'
BY DEF EndInv

\* What each step may assume.
LEMMA DataFacts ==
  ASSUME UInv, DataInv
  PROVE  /\ Num \in Nat /\ doneq \in Seq(1 .. Num) /\ reaping \in 0 .. Num
         /\ plugged \in BOOLEAN /\ priv.urbs \in BOOLEAN
         /\ \A i \in 1 .. Num : St(i) \in {"new", "pending", "done", "retired"}
         /\ priv.urbs => report = "none" /\ told = "none"
         /\ ~priv.urbs => \A i \in 1 .. Num : St(i) \in {"new", "retired"}
         /\ job # NoJob => priv.urbs
         /\ \A i \in 1 .. Num : urb[i].data \in 0 .. urb[i].len
<1>1. Num \in Nat /\ \A i \in 1 .. Num : St(i) \in {"new", "pending", "done", "retired"}
  BY DEF UInv, UrbsOK
<1>2. /\ doneq \in Seq(1 .. Num) /\ reaping \in 0 .. Num /\ plugged \in BOOLEAN /\ priv.urbs \in BOOLEAN
      /\ job # NoJob => priv.urbs
  BY DEF UInv, UrbsOK, QueueInv, LifeInv
<1>3. priv.urbs => report = "none" /\ told = "none"
  BY <1>2 DEF UInv, LifeInv, DataInv, EndInv
<1>4. ~priv.urbs => \A i \in 1 .. Num : St(i) \in {"new", "retired"}
  BY DEF UInv, NoUrbLeft, St
<1>5. \A i \in 1 .. Num : urb[i].data \in 0 .. urb[i].len
  BY DEF DataInv, LayoutInv, Laid, Num
<1> QED
  BY <1>1, <1>2, <1>3, <1>4, <1>5

\* Fields of an URB that are set, and those that are not.
LEMMA FieldsKept ==
  ASSUME NEW u, IsUrb(u), NEW st, NEW status
  PROVE  /\ [u EXCEPT !.st = st] =
              [first |-> u.first, len |-> u.len, cont |-> u.cont, shortNotOk |-> u.shortNotOk,
               st |-> st, status |-> u.status, data |-> u.data]
         /\ [u EXCEPT !.st = st, !.status = status] =
              [first |-> u.first, len |-> u.len, cont |-> u.cont, shortNotOk |-> u.shortNotOk,
               st |-> st, status |-> status, data |-> u.data]
<1> DEFINE w == [first |-> u.first, len |-> u.len, cont |-> u.cont,
                 shortNotOk |-> u.shortNotOk, st |-> u.st, status |-> u.status,
                 data |-> u.data]
           x == [first |-> u.first, len |-> u.len, cont |-> u.cont,
                 shortNotOk |-> u.shortNotOk, st |-> st, status |-> u.status,
                 data |-> u.data]
           y == [first |-> u.first, len |-> u.len, cont |-> u.cont,
                 shortNotOk |-> u.shortNotOk, st |-> st, status |-> status,
                 data |-> u.data]
<1>1. u = w
  BY DEF IsUrb
<1>2. [w EXCEPT !.st = st] = x
  OBVIOUS
<1>3. [x EXCEPT !.status = status] = y
  OBVIOUS
<1>5. [w EXCEPT !.st = st, !.status = status] = [[w EXCEPT !.st = st] EXCEPT !.status = status]
  OBVIOUS
<1> HIDE DEF w, x, y
<1>6. [u EXCEPT !.st = st] = x
  BY <1>1, <1>2
<1>7. [u EXCEPT !.st = st, !.status = status] = y
  BY <1>1, <1>2, <1>3, <1>5
<1> QED
  BY <1>6, <1>7 DEF x, y

\* All of them.
LEMMA DataSet ==
  ASSUME NEW u, IsUrb(u), NEW st, NEW status, NEW d
  PROVE  SetData(u, st, status, d) =
           [first |-> u.first, len |-> u.len, cont |-> u.cont, shortNotOk |-> u.shortNotOk,
            st |-> st, status |-> status, data |-> d]
<1> DEFINE w == [first |-> u.first, len |-> u.len, cont |-> u.cont,
                 shortNotOk |-> u.shortNotOk, st |-> u.st, status |-> u.status,
                 data |-> u.data]
           x == [first |-> u.first, len |-> u.len, cont |-> u.cont,
                 shortNotOk |-> u.shortNotOk, st |-> st, status |-> u.status,
                 data |-> u.data]
           y == [first |-> u.first, len |-> u.len, cont |-> u.cont,
                 shortNotOk |-> u.shortNotOk, st |-> st, status |-> status,
                 data |-> u.data]
           z == [first |-> u.first, len |-> u.len, cont |-> u.cont,
                 shortNotOk |-> u.shortNotOk, st |-> st, status |-> status,
                 data |-> d]
<1>1. u = w
  BY DEF IsUrb
<1>2. [w EXCEPT !.st = st] = x
  OBVIOUS
<1>3. [x EXCEPT !.status = status] = y
  OBVIOUS
<1>4. [y EXCEPT !.data = d] = z
  OBVIOUS
<1>5. [w EXCEPT !.st = st, !.status = status, !.data = d]
        = [[[w EXCEPT !.st = st] EXCEPT !.status = status] EXCEPT !.data = d]
  OBVIOUS
<1> HIDE DEF w, x, y, z
<1>8. [u EXCEPT !.st = st, !.status = status, !.data = d] = z
  BY <1>1, <1>2, <1>3, <1>4, <1>5
<1>9. SetData(u, st, status, d) = z
  BY <1>8 DEF SetData
<1> QED
  BY <1>9 DEF z

\* One URB changes hands.
LEMMA StSet ==
  ASSUME UrbsOK, NEW k \in 1 .. Num, NEW st, urb' = [urb EXCEPT ![k].st = st]
  PROVE  /\ Num \in Nat /\ Num' = Num /\ urb'[k].st = st
         /\ \A i \in 1 .. Num : SameShape(i) /\ SameFill(i) /\ (i # k => urb'[i] = urb[i])
<1>1. urb = [j \in 1 .. Num |-> urb[j]] /\ Num \in Nat /\ IsUrb(urb[k])
  BY DEF UrbsOK
<1>2. /\ urb'[k] = [urb[k] EXCEPT !.st = st]
      /\ \A i \in 1 .. Num : i # k => urb'[i] = urb[i]
      /\ urb' = [j \in 1 .. Num |-> urb'[j]]
  BY <1>1
<1>3. urb'[k] = [first |-> urb[k].first, len |-> urb[k].len, cont |-> urb[k].cont,
                 shortNotOk |-> urb[k].shortNotOk, st |-> st, status |-> urb[k].status,
                 data |-> urb[k].data]
  BY <1>1, <1>2, FieldsKept
<1>4. urb'[k].st = st /\ SameShape(k) /\ SameFill(k)
  BY <1>3 DEF SameShape, SameFill
<1>5. Num' = Num
  <2>1. Len(urb') = Num
    BY <1>1, <1>2
  <2> QED
    BY <2>1 DEF Num
<1> QED
  BY <1>1, <1>2, <1>4, <1>5 DEF SameShape, SameFill

\* A step that only hands URBs on, to the kernel or back.
LEMMA HandedOn ==
  ASSUME UInv, DataInv, Num' = Num, req' = req, halted' = halted,
         UNCHANGED <<out, arrived, transferred, doneq, reaping, priv, accepted>>,
         \A i \in 1 .. Num : /\ SameShape(i) /\ SameFill(i)
                             /\ Returned(i) <=> urb'[i].st \in {"done", "retired"}
                             /\ urb'[i].st = "retired" <=> St(i) = "retired"
                             /\ urb'[i].st = "new" => \A j \in i .. Num : urb'[j].st = "new",
         priv.urbs => /\ priv.action = "NORMAL" /\ Disordered => Disordered'
                      /\ Discarding("reap")' => Discarding("reap")
                      /\ Submitting' => Submitting,
         EndInv'
  PROVE  DataInv'
<1>1. /\ Num \in Nat /\ doneq \in Seq(1 .. Num) /\ reaping \in 0 .. Num
      /\ \A i \in 1 .. Num : urb[i].data \in 0 .. urb[i].len
  BY DataFacts
<1>2. LayoutInv'
  BY <1>1, LayoutStays DEF DataInv, SameFill
<1>3. FillInv'
  BY <1>1, FillStays DEF DataInv
<1>4. PlaceInv'
  BY <1>1, PlaceStays DEF DataInv, SameFill
<1>5. ReapInv'
  BY <1>1, OrderStays DEF DataInv, SameFill
<1>6. StatusInv'
  BY <1>1, StatusStays DEF DataInv
<1>7. PacketInv'
  BY <1>1, PacketStays DEF DataInv
<1>8. AcceptInv'
  BY DEF DataInv, AcceptInv
<1> QED
  BY <1>2, <1>3, <1>4, <1>5, <1>6, <1>7, <1>8 DEF DataInv

\* The URBs as they were.
LEMMA SameAll ==
  ASSUME UInv, DataInv, urb' = urb
  PROVE  /\ Num' = Num
         /\ \A i \in 1 .. Num : /\ SameShape(i) /\ SameFill(i)
                                /\ Returned(i) <=> urb'[i].st \in {"done", "retired"}
                                /\ urb'[i].st = "retired" <=> St(i) = "retired"
                                /\ urb'[i].st = "new" => \A j \in i .. Num : urb'[j].st = "new"
<1>1. Num' = Num
  BY DEF Num
<1>2. \A i \in 1 .. Num : SameShape(i) /\ SameFill(i)
  BY DEF SameShape, SameFill
<1>3. \A i \in 1 .. Num : St(i) = "new" => \A j \in i .. Num : St(j) = "new"
  BY DEF DataInv, FillInv
<1> QED
  BY <1>1, <1>2, <1>3 DEF Returned, St

LEMMA CancelData == ASSUME UInv, DataInv, Cancel PROVE DataInv'
<1>1. /\ flags = "flying" /\ UNCHANGED <<req, urb, doneq, reaping, report, priv, out, transferred,
            arrived, halted, plugged, accepted, told>>
      /\ job = NoJob /\ (job' = NoJob \/ job' = Discard(1, Num, "cancel"))
  BY DEF Cancel
<1>2. ~Disordered /\ ~(Submitting') /\ ~(Discarding("reap")')
  BY <1>1 DEF Disordered, Discarding, NoJob, Submitting, Discard
<1>3. EndInv'
  <2>1. told = "none"
    BY <1>1 DEF DataInv, EndInv
  <2>2. /\ report = "COMPLETED" => Whole
        /\ report # "none" /\ req.type = "bulk" /\ (plugged \/ req.reapAfter) => AllKept
    BY DEF DataInv, EndInv
  <2>3. (Whole' <=> Whole) /\ (AllKept' <=> AllKept)
    BY <1>1 DEF Whole, AllKept, Num, Positions
  <2> QED
    BY <1>1, <2>1, <2>2, <2>3 DEF EndInv
<1> QED
  BY <1>1, <1>2, <1>3, SameAll, HandedOn

\* SUBMITURB.
LEMMA SubmitUrbData == ASSUME UInv, DataInv, SubmitUrb PROVE DataInv'
<1>1. /\ Submitting /\ job # NoJob
      /\ UNCHANGED <<req, doneq, reaping, report, priv, out, transferred, arrived,
                 halted, plugged, accepted, told>>
  BY DEF SubmitUrb, Submitting, NoJob
<1>2. PICK k \in 1 .. Num : job = [do |-> "submit", i |-> k]
  BY <1>1 DEF UInv, JobOK, Submitting, NoJob
<1>3. /\ Num \in Nat /\ Num' = Num /\ urb'[k].st = "pending"
      /\ \A i \in 1 .. Num : SameShape(i) /\ SameFill(i) /\ (i # k => urb'[i] = urb[i])
  <2>1. urb' = [urb EXCEPT ![k].st = "pending"]
    BY <1>2 DEF SubmitUrb
  <2> QED
    BY <2>1, StSet DEF UInv
<1>4. job.i = k
  BY <1>2
<1>5. \A i \in 1 .. Num : St(i) = "new" <=> i >= k
  BY <1>1, <1>4 DEF UInv, SubmitInv
<1>6. \A i \in 1 .. Num : /\ Returned(i) <=> urb'[i].st \in {"done", "retired"}
                          /\ urb'[i].st = "retired" <=> St(i) = "retired"
                          /\ urb'[i].st = "new" => \A j \in i .. Num : urb'[j].st = "new"
  <2>1. St(k) = "new"
    BY <1>3, <1>5
  <2>2. ASSUME NEW i \in 1 .. Num, urb'[i].st = "new", NEW j \in i .. Num PROVE urb'[j].st = "new"
    <3>1. i # k /\ St(i) = "new"
      BY <1>3, <2>2 DEF St
    <3>2. i > k /\ j \in 1 .. Num /\ j > k
      BY <1>3, <1>5, <3>1
    <3>3. St(j) = "new" /\ j # k
      BY <1>5, <1>3, <3>2
    <3> QED
      BY <1>3, <3>2, <3>3 DEF St
  <2> QED
    BY <1>3, <2>1, <2>2 DEF Returned, St
<1>7. \A who : ~(Discarding(who)')
  <2>1. job' = NoJob \/ job' = [job EXCEPT !.i = @ + 1]
    BY DEF SubmitUrb
  <2> QED
    BY <1>2, <2>1 DEF Discarding, NoJob
<1>8. ~Disordered
  BY <1>2 DEF Disordered, Discarding
<1>9. EndInv'
  BY <1>1, DataFacts, NoReport
<1> QED
  BY <1>1, <1>3, <1>6, <1>7, <1>8, <1>9, HandedOn

\* DISCARDURB of an URB that the kernel does not have.
LEMMA DiscardNothing ==
  ASSUME UInv, DataInv, DiscardUrb, ~(plugged /\ job.i \in Pending) PROVE DataInv'
<1> DEFINE i == job.i
           r == IF ~plugged THEN "NO_DEVICE" ELSE IF i = job.last THEN "NOT_FOUND" ELSE job.ret
<1>1. /\ job.do = "discard" /\ i >= job.first
      /\ UNCHANGED <<req, flags, reaping, report, priv, transferred, halted, plugged,
                     accepted, told>>
  BY DEF DiscardUrb
<1>2. /\ job = [do |-> "discard", first |-> job.first, last |-> job.last, i |-> job.i,
                ret |-> job.ret, who |-> job.who]
      /\ job.first \in 1 .. Num /\ job.last \in 1 .. Num /\ i \in job.first - 1 .. job.last
      /\ job.ret \in Returns /\ job # NoJob
  BY <1>1, DiscardJob
<1>3. UNCHANGED <<urb, doneq, out, arrived>>
  BY DEF DiscardUrb
<1>4. job' = NextJob(r) /\ r \in Returns
  <2> HIDE DEF r
  <2>1. CASE plugged
    <3>1. job' = [job EXCEPT !.i = @ - 1, !.ret = IF i = job.last THEN "NOT_FOUND" ELSE @]
      BY <2>1 DEF DiscardUrb
    <3>2. job' = [job EXCEPT !.i = job.i - 1, !.ret = r]
      BY <1>2, <2>1, <3>1 DEF r
    <3>3. job' = NextJob(r)
      BY <1>1, <3>2, JobNext
    <3> QED
      BY <1>2, <2>1, <3>3 DEF Returns, r
  <2>2. CASE ~plugged
    <3>1. job' = [job EXCEPT !.i = @ - 1, !.ret = "NO_DEVICE"]
      BY <2>2 DEF DiscardUrb
    <3>2. job' = [job EXCEPT !.i = job.i - 1, !.ret = r]
      BY <1>2, <2>2, <3>1 DEF r
    <3>3. job' = NextJob(r)
      BY <1>1, <3>2, JobNext
    <3> QED
      BY <2>2, <3>3 DEF Returns, r
  <2> QED
    BY <2>1, <2>2
<1> HIDE DEF r
<1>5. /\ ~(Submitting') /\ \A who : Discarding(who)' <=> Discarding(who)
      /\ job'.last = job.last /\ job'.i = i - 1 /\ job'.ret = r /\ job'.i < job'.last
  <2>1. Num' = Num
    BY <1>3 DEF Num
  <2> QED
    BY <1>1, <1>4, <2>1, JobStep
<1>6. Disordered => Disordered'
  <2> SUFFICES ASSUME Disordered PROVE Disordered'
    OBVIOUS
  <2>1. Discarding("cancel") /\ i < job.last /\ job.ret = "OK"
    BY DEF Disordered
  <2>2. job.first = 1 /\ job.last = Num /\ (plugged \/ Num = 1)
    BY <2>1 DEF UInv, CancelInv
  <2>3. plugged
    BY <1>1, <1>2, <2>1, <2>2
  <2>4. r = "OK"
    BY <2>1, <2>3, <1>2 DEF r
  <2> QED
    BY <1>5, <2>1, <2>4 DEF Disordered
<1>7. EndInv'
  BY <1>1, <1>2, DataFacts, NoReport
<1> QED
  BY <1>1, <1>3, <1>5, <1>6, <1>7, SameAll, HandedOn

\* The first SUBMITURB fails: there is no transfer any more.
LEMMA FirstFailsData == ASSUME UInv, DataInv, FirstFails PROVE DataInv'
<1>1. /\ Submitting /\ job # NoJob
      /\ UNCHANGED <<req, submits, flags, urb, doneq, reaping, report, out, transferred,
                     arrived, halted, plugged, accepted, told>>
  BY DEF FirstFails, Submitting, NoJob
<1>2. priv' = [urbs |-> FALSE, action |-> priv.action, retired |-> priv.retired,
               status |-> priv.status, packet |-> priv.packet]
  BY PrivSet DEF UInv, FirstFails
<1>3. ~(priv'.urbs) /\ priv'.action = priv.action
  BY <1>2
<1>4. /\ report' = "none" /\ told' = "none" /\ priv.action = "NORMAL"
  BY <1>1, DataFacts DEF UInv, SubmitInv
<1>5. LayoutInv'
  BY <1>1 DEF DataInv, LayoutInv, Laid, Num, Size
<1>6. FillInv'
  <2>1. Num \in Nat /\ Num' = Num
    BY <1>1, DataFacts DEF Num
  <2> QED
    BY <1>1, <1>3, <2>1, SameAll, FillStays DEF DataInv, Returned
<1>7. ReapInv' /\ PlaceInv' /\ StatusInv' /\ PacketInv'
  BY <1>3 DEF ReapInv, PlaceInv, StatusInv, PacketInv
<1>8. AcceptInv'
  BY <1>1, <1>3 DEF DataInv, AcceptInv
<1>9. EndInv'
  BY <1>4, NoReport
<1> QED
  BY <1>5, <1>6, <1>7, <1>8, <1>9 DEF DataInv

\* The device is gone and its URBs cannot be reaped.
LEMMA DisconnectData == ASSUME UInv, DataInv, Disconnect PROVE DataInv'
<1>1. /\ ~plugged /\ ~req.reapAfter /\ report = "none" /\ job = NoJob /\ flags # "idle"
      /\ report' = "NO_DEVICE"
      /\ UNCHANGED <<req, submits, flags, job, reaping, out, transferred, arrived, halted,
                     plugged, accepted, told>>
      /\ urb' = [i \in 1 .. Num |-> [urb[i] EXCEPT !.st = "retired"]]
  BY DEF Disconnect
<1>2. priv' = [urbs |-> FALSE, action |-> priv.action, retired |-> priv.retired,
               status |-> priv.status, packet |-> priv.packet]
  BY PrivSet DEF UInv, Disconnect
<1>3. ~(priv'.urbs) /\ priv'.action = priv.action
  BY <1>2
<1>4. Num \in Nat /\ \A i \in 1 .. Num : IsUrb(urb[i]) /\ urb[i].data \in 0 .. urb[i].len
  BY DataFacts DEF UInv, UrbsOK
<1>5. Num' = Num /\ \A i \in 1 .. Num : urb'[i] = [urb[i] EXCEPT !.st = "retired"]
  <2>1. Len(urb') = Num
    BY <1>1, <1>4, Rows
  <2> QED
    BY <1>1, <2>1 DEF Num
<1>6. \A i \in 1 .. Num : SameShape(i) /\ SameFill(i) /\ urb'[i].st = "retired"
  <2> SUFFICES ASSUME NEW i \in 1 .. Num
               PROVE  SameShape(i) /\ SameFill(i) /\ urb'[i].st = "retired"
    OBVIOUS
  <2>1. urb'[i] = [first |-> urb[i].first, len |-> urb[i].len, cont |-> urb[i].cont,
                   shortNotOk |-> urb[i].shortNotOk, st |-> "retired",
                   status |-> urb[i].status, data |-> urb[i].data]
    BY <1>4, <1>5, FieldsKept
  <2> QED
    BY <2>1 DEF SameShape, SameFill
<1>7. LayoutInv'
  BY <1>1, <1>4, <1>5, <1>6, LayoutStays DEF DataInv, SameFill
<1>8. FillInv'
  BY <1>1, <1>3, <1>4, <1>5, <1>6, FillStays DEF DataInv
<1>9. ReapInv' /\ PlaceInv' /\ StatusInv' /\ PacketInv'
  BY <1>3 DEF ReapInv, PlaceInv, StatusInv, PacketInv
<1>10. AcceptInv'
  BY <1>1, <1>3 DEF DataInv, AcceptInv
<1>11. EndInv'
  <2>1. told' = "none"
    BY <1>1 DEF DataInv, EndInv
  <2> QED
    BY <1>1, <2>1 DEF EndInv
<1> QED
  BY <1>7, <1>8, <1>9, <1>10, <1>11 DEF DataInv

\* The end of the transfer is reported.
LEMMA ReportData == ASSUME UInv, DataInv, Report PROVE DataInv'
<1>1. /\ report # "none" /\ told' = report /\ report' = "none" /\ flags' = "idle"
      /\ UNCHANGED <<req, submits, job, urb, doneq, reaping, priv, out, transferred, arrived,
                     halted, plugged, accepted>>
  BY DEF Report
<1>2. ~priv.urbs
  BY <1>1, DataFacts
<1>3. LayoutInv' /\ FillInv'
  <2>1. Num' = Num /\ Num \in Nat
    BY <1>1, DataFacts DEF Num
  <2>2. LayoutInv'
    BY <1>1 DEF DataInv, LayoutInv, Laid, Num, Size
  <2> QED
    BY <1>1, <2>1, <2>2, SameAll, FillStays DEF DataInv, Returned
<1>4. ReapInv' /\ PlaceInv' /\ StatusInv' /\ PacketInv'
  BY <1>1, <1>2 DEF ReapInv, PlaceInv, StatusInv, PacketInv
<1>5. AcceptInv'
  BY <1>1 DEF DataInv, AcceptInv
<1>6. EndInv'
  <2>1. (Whole' <=> Whole) /\ (AllKept' <=> AllKept)
    BY <1>1 DEF Whole, AllKept, Num, Positions
  <2>2. /\ report = "COMPLETED" => Whole
        /\ report # "none" /\ req.type = "bulk" /\ (plugged \/ req.reapAfter) => AllKept
    BY DEF DataInv, EndInv
  <2> QED
    BY <1>1, <1>2, <2>1, <2>2 DEF EndInv
<1> QED
  BY <1>3, <1>4, <1>5, <1>6 DEF DataInv

\* Nothing happens.
LEMMA StutterData == ASSUME UInv, DataInv, UNCHANGED vars PROVE DataInv'
<1>1. UNCHANGED <<req, urb, doneq, reaping, priv, out, transferred, arrived, halted, plugged,
                  accepted, job, report, told, flags>>
  BY DEF vars
<1>2. /\ (Whole' <=> Whole) /\ (AllKept' <=> AllKept) /\ (Disordered' <=> Disordered)
      /\ (Submitting' <=> Submitting) /\ (Discarding("reap")' <=> Discarding("reap"))
  BY <1>1 DEF Whole, AllKept, Num, Positions, Disordered, Submitting, Discarding
<1>3. EndInv'
  BY <1>1, <1>2 DEF DataInv, EndInv
<1> QED
  BY <1>1, <1>2, <1>3, SameAll, HandedOn

-----------------------------------------------------------------------------
(* The kernel puts data into the URBs.                                        *)

\* Steps in which the kernel ends the URBs of D, in the order s: URB i with d data, the others
\* with none.
Grown(D, s, i, d) ==
  /\ Num' = Num /\ UNCHANGED <<req, reaping, priv, transferred, accepted, report, told>>
  /\ D \in SUBSET Pending /\ i \in D /\ d \in 0 .. urb[i].len
  /\ s \in Seq(1 .. Num) /\ Once(s) /\ \A j \in Int : Holds(s, j) <=> j \in D
  /\ doneq' = doneq \o s
  /\ \A j \in 1 .. Num :
       /\ SameShape(j)
       /\ j \notin D => SameFill(j) /\ urb'[j].st = urb[j].st
       /\ j \in D => urb'[j].st = "done" /\ urb'[j].data = IF j = i THEN d ELSE 0
  /\ d > 0 => Served(i) /\ plugged /\ ~halted
  /\ req.type = "bulk" => arrived' = arrived + d
  /\ \A p \in Positions :
       out'[p] = IF req.type # "iso" /\ p \in urb[i].first + 1 .. urb[i].first + d
                   THEN arrived + p - urb[i].first ELSE out[p]

\* The data of the URBs behind and before the one that is served.
LEMMA GrownFacts ==
  ASSUME UInv, DataInv, NEW D, NEW s, NEW i, NEW d, Grown(D, s, i, d)
  PROVE  /\ Num \in Nat /\ i \in 1 .. Num /\ d \in Nat /\ D \in SUBSET (1 .. Num)
         /\ priv.urbs /\ report' = "none" /\ told' = "none"
         /\ \A j \in D : St(j) = "pending" /\ Data(j) = 0 /\ Status(j) = "OK"
         /\ \A j \in 1 .. Num : Data(j)' = (IF j = i THEN d ELSE Data(j))
         /\ \A j \in 1 .. Num : Returned(j) => Returned(j)' /\ j \notin D /\ SameFill(j)
         /\ \A j \in 1 .. Num : Data(j) > 0 => j < i
         /\ d > 0 => \A j \in 1 .. Num : j < i => Returned(j)
         /\ \A j \in 1 .. Num : SameShape(j) /\ urb'[j].data \in 0 .. urb[j].len
         /\ \A j \in 1 .. Num : urb'[j].st = "retired" <=> St(j) = "retired"
         /\ \A j \in 1 .. Num : urb[j].data \in 0 .. urb[j].len
<1>1. /\ Num \in Nat /\ \A j \in 1 .. Num : urb[j].data \in 0 .. urb[j].len
      /\ \A j \in 1 .. Num : St(j) \in {"new", "pending", "done", "retired"}
      /\ priv.urbs => report = "none" /\ told = "none"
      /\ ~priv.urbs => \A j \in 1 .. Num : St(j) \in {"new", "retired"}
  BY DataFacts
<1>2. /\ D \in SUBSET Pending /\ i \in D /\ d \in 0 .. urb[i].len
      /\ \A j \in 1 .. Num :
           /\ SameShape(j)
           /\ j \notin D => SameFill(j) /\ urb'[j].st = urb[j].st
           /\ j \in D => urb'[j].st = "done" /\ urb'[j].data = IF j = i THEN d ELSE 0
      /\ d > 0 => Served(i) /\ plugged /\ ~halted
      /\ report' = report /\ told' = told
  BY DEF Grown
<1>3. /\ D \in SUBSET (1 .. Num) /\ i \in 1 .. Num /\ St(i) = "pending"
      /\ \A j \in D : St(j) = "pending"
  BY <1>2 DEF Pending, St
<1>4. urb[i].len \in Nat /\ d \in Nat
  BY <1>2, <1>3 DEF DataInv, LayoutInv, Laid, Num
<1>5. \A j \in D : Data(j) = 0
  BY <1>3 DEF DataInv, FillInv, Returned
<1>6. \A j \in D : Status(j) = "OK"
  BY <1>3 DEF UInv, KernelInv, Status
<1>7. \A j \in 1 .. Num : Data(j)' = (IF j = i THEN d ELSE Data(j))
  BY <1>2, <1>5 DEF Data, SameFill
<1>8. \A j \in 1 .. Num : Returned(j) => Returned(j)' /\ j \notin D /\ SameFill(j)
  BY <1>2, <1>3 DEF Returned, St
<1>9. \A j \in 1 .. Num : Data(j) > 0 => j < i
  <2> SUFFICES ASSUME NEW j \in 1 .. Num, Data(j) > 0, i <= j PROVE FALSE
    BY <1>3
  <2>1. i \in 1 .. j
    BY <1>3
  <2>2. Returned(i)
    BY <2>1 DEF DataInv, FillInv
  <2> QED
    BY <1>3, <2>2 DEF Returned
<1>10. d > 0 => \A j \in 1 .. Num : j < i => Returned(j)
  <2> SUFFICES ASSUME d > 0, NEW j \in 1 .. Num, j < i PROVE Returned(j)
    OBVIOUS
  <2>1. j \notin Pending
    BY <1>2, <1>3 DEF Served, Pending
  <2>2. St(j) # "new"
    <3>1. i \in j .. Num
      BY <1>3
    <3> QED
      BY <1>3, <3>1 DEF DataInv, FillInv
  <2> QED
    BY <1>1, <2>1, <2>2 DEF Pending, St, Returned
<1>11. \A j \in 1 .. Num : urb'[j].data \in 0 .. urb[j].len
  BY <1>1, <1>2, <1>7 DEF Data
<1>12. \A j \in 1 .. Num : urb'[j].st = "retired" <=> St(j) = "retired"
  BY <1>2, <1>3 DEF St
<1> QED
  BY <1>1, <1>2, <1>3, <1>4, <1>5, <1>6, <1>7, <1>8, <1>9, <1>10, <1>11, <1>12

\* Data comes in order.
LEMMA FillGrows ==
  ASSUME UInv, DataInv, NEW D, NEW s, NEW i, NEW d, Grown(D, s, i, d), halted => halted',
         \A j \in D :
           /\ urb'[j].status = "REMOTEIO" => urb'[j].data < urb[j].len
           /\ req.type = "bulk" /\ urb'[j].status \in Failures => halted'
           /\ req.type = "bulk" /\ urb'[j].status = "OK" /\ req.caps = "continuation" /\ j # Num
                => urb'[j].data = urb[j].len
  PROVE  FillInv'
<1>1. /\ Num \in Nat /\ i \in 1 .. Num /\ d \in Nat /\ D \in SUBSET (1 .. Num)
      /\ priv.urbs
      /\ \A j \in D : St(j) = "pending" /\ Data(j) = 0 /\ Status(j) = "OK"
      /\ \A j \in 1 .. Num : Data(j)' = (IF j = i THEN d ELSE Data(j))
      /\ \A j \in 1 .. Num : Returned(j) => Returned(j)' /\ j \notin D /\ SameFill(j)
      /\ \A j \in 1 .. Num : Data(j) > 0 => j < i
      /\ d > 0 => \A j \in 1 .. Num : j < i => Returned(j)
      /\ \A j \in 1 .. Num : SameShape(j)
      /\ \A j \in 1 .. Num : urb[j].data \in 0 .. urb[j].len
  BY GrownFacts
<1>2. /\ Num' = Num /\ req' = req /\ priv' = priv /\ i \in D
      /\ \A j \in 1 .. Num :
           /\ j \notin D => SameFill(j) /\ urb'[j].st = urb[j].st
           /\ j \in D => urb'[j].st = "done"
      /\ d > 0 => plugged /\ ~halted
  BY DEF Grown
<1>3. ASSUME NEW k \in 1 .. Num
      PROVE  /\ ~Returned(k)' => Data(k)' = 0
             /\ St(k)' = "new" => \A j \in k .. Num : St(j)' = "new"
             /\ Data(k)' > 0 => \A j \in 1 .. k : Returned(j)'
             /\ Status(k)' = "REMOTEIO" => Data(k)' < Length(k)'
  <2>1. ~Returned(k)' => Data(k)' = 0
    BY <1>1, <1>2 DEF DataInv, FillInv, Returned, St
  <2>2. St(k)' = "new" => \A j \in k .. Num : St(j)' = "new"
    <3> SUFFICES ASSUME St(k)' = "new", NEW j \in k .. Num PROVE St(j)' = "new"
      OBVIOUS
    <3>1. k \notin D /\ St(k) = "new" /\ j \in 1 .. Num
      BY <1>2 DEF St
    <3>2. St(j) = "new"
      BY <3>1 DEF DataInv, FillInv
    <3>3. j \notin D
      BY <1>1, <3>2
    <3> QED
      BY <1>2, <3>1, <3>2, <3>3 DEF St
  <2>3. Data(k)' > 0 => \A j \in 1 .. k : Returned(j)'
    <3> SUFFICES ASSUME Data(k)' > 0, NEW j \in 1 .. k PROVE Returned(j)'
      OBVIOUS
    <3>1. j \in 1 .. Num /\ (j = k \/ j < k)
      BY <1>1
    <3>2. CASE k = i
      <4>1. j = i => Returned(j)'
        BY <1>2, <3>1 DEF Returned, St
      <4> QED
        BY <1>1, <3>1, <3>2, <4>1
    <3>3. CASE k # i
      <4>1. Data(k) > 0
        BY <1>1, <3>3
      <4>2. Returned(j)
        BY <4>1 DEF DataInv, FillInv
      <4> QED
        BY <1>1, <3>1, <4>2
    <3> QED
      BY <3>2, <3>3
  <2>4. Status(k)' = "REMOTEIO" => Data(k)' < Length(k)'
    <3>1. CASE k \in D
      BY <1>1, <3>1 DEF Status, Data, Length, SameShape
    <3>2. CASE k \notin D
      <4>1. Status(k) = "REMOTEIO" => Data(k) < Length(k)
        BY DEF DataInv, FillInv
      <4> QED
        BY <1>1, <1>2, <3>2, <4>1 DEF Status, Data, Length, SameShape, SameFill
    <3> QED
      BY <3>1, <3>2
  <2> QED
    BY <2>1, <2>2, <2>3, <2>4
<1>4. ASSUME req.type = "bulk", NEW k \in 1 .. Num
      PROVE  /\ Status(k)' \in Failures => halted'
             /\ Status(k)' \notin {"OK", "ENOENT"} => \A j \in k + 1 .. Num : Data(j)' = 0
             /\ priv'.urbs /\ Returned(k)' /\ Status(k)' = "OK" /\ k # Num
                  /\ req.caps = "continuation" => Full(k)'
  <2>1. Status(k)' \in Failures => halted'
    <3>1. CASE k \in D
      BY <1>4, <3>1 DEF Status
    <3>2. CASE k \notin D
      <4>1. Status(k) \in Failures => halted
        BY <1>4 DEF DataInv, FillInv
      <4> QED
        BY <1>2, <3>2, <4>1 DEF Status, SameFill
    <3> QED
      BY <3>1, <3>2
  <2>2. Status(k)' \notin {"OK", "ENOENT"} => \A j \in k + 1 .. Num : Data(j)' = 0
    <3> SUFFICES ASSUME Status(k)' \notin {"OK", "ENOENT"}, NEW j \in k + 1 .. Num,
                        Data(j)' # 0
                 PROVE  FALSE
      OBVIOUS
    <3>1. j \in 1 .. Num /\ k < j
      OBVIOUS
    <3>2. CASE k \in D
      <4>1. j # i => Data(j) > 0
        BY <1>1, <3>1 DEF Data
      <4>2. j # i => Returned(k)
        <5>1. k \in 1 .. j
          BY <3>1
        <5> QED
          BY <3>1, <4>1, <5>1 DEF DataInv, FillInv
      <4>3. j = i => d > 0 /\ Returned(k)
        BY <1>1, <3>1
      <4> QED
        BY <1>1, <3>2, <4>2, <4>3
    <3>3. CASE k \notin D
      <4>1. Status(k) \notin {"OK", "ENOENT"} /\ Status(k) \in Statuses
        BY <1>2, <3>3 DEF Status, SameFill, UInv, KernelInv
      <4>2. Data(j) = 0
        BY <1>4, <4>1 DEF DataInv, FillInv
      <4>3. d > 0
        BY <1>1, <3>1, <4>2
      <4>4. Status(k) \in Failures \/ Status(k) = "SHUTDOWN"
        BY <4>1 DEF Statuses, Failures
      <4>5. halted \/ ~plugged
        BY <1>4, <4>4 DEF DataInv, FillInv, UInv, KernelInv, Status
      <4> QED
        BY <1>2, <4>3, <4>5
    <3> QED
      BY <3>2, <3>3
  <2>3. Returned(k)' /\ Status(k)' = "OK" /\ k # Num /\ req.caps = "continuation" => Full(k)'
    <3>1. CASE k \in D
      BY <1>1, <1>4, <3>1 DEF Status, Full, Data, Length, SameShape
    <3>2. CASE k \notin D
      <4>1. Returned(k) /\ Status(k) = "OK" /\ k # Num /\ req.caps = "continuation" => Full(k)
        BY <1>1, <1>4 DEF DataInv, FillInv
      <4> QED
        BY <1>1, <1>2, <3>2, <4>1 DEF Returned, St, Status, Full, Data, Length, SameShape, SameFill
    <3> QED
      BY <3>1, <3>2
  <2> QED
    BY <2>1, <2>2, <2>3
<1> QED
  BY <1>2, <1>3, <1>4 DEF FillInv

\* What comes now is reaped later.
LEMMA ReapGrows ==
  ASSUME UInv, DataInv, NEW D, NEW s, NEW i, NEW d, Grown(D, s, i, d)
  PROVE  ReapInv'
<1>1. /\ Num \in Nat /\ i \in 1 .. Num /\ d \in Nat /\ D \in SUBSET (1 .. Num)
      /\ priv.urbs
      /\ \A j \in D : St(j) = "pending" /\ Data(j) = 0
      /\ \A j \in 1 .. Num : Data(j)' = (IF j = i THEN d ELSE Data(j))
      /\ \A j \in 1 .. Num : Data(j) > 0 => j < i
  BY GrownFacts
<1>2. /\ Num' = Num /\ UNCHANGED <<req, reaping, priv>> /\ i \in D
      /\ s \in Seq(1 .. Num) /\ Once(s) /\ \A j \in Int : Holds(s, j) <=> j \in D
      /\ doneq' = doneq \o s
  BY DEF Grown
<1>3. /\ doneq \in Seq(1 .. Num) /\ reaping \in 0 .. Num
      /\ \A j \in 1 .. Num : St(j) = "done" <=> reaping = j \/ Holds(doneq, j)
  BY DEF UInv, QueueInv
<1> SUFFICES ASSUME req.type = "bulk"
             PROVE  /\ \A m, n \in DOMAIN doneq' :
                         m < n /\ Data(doneq[m])' > 0 /\ Data(doneq[n])' > 0
                           => doneq'[m] < doneq'[n]
                    /\ reaping # 0 /\ Data(reaping)' > 0 =>
                         \A j \in 1 .. Num : Holds(doneq, j)' /\ Data(j)' > 0 => reaping < j
  BY <1>2 DEF ReapInv
<1>4. /\ \A m \in DOMAIN doneq : doneq[m] \in 1 .. Num /\ doneq[m] # i
      /\ reaping # 0 => reaping \in 1 .. Num /\ reaping # i
  <2>1. \A m \in DOMAIN doneq : doneq[m] \in 1 .. Num
    <3>1. doneq \in Seq(1 .. Num) /\ DOMAIN doneq = 1 .. Len(doneq)
      BY <1>3
    <3> QED
      BY <3>1, ElementOfSeq
  <2>2. \A m \in DOMAIN doneq : Holds(doneq, doneq[m])
    BY DEF Holds
  <2>3. St(i) # "done"
    BY <1>1, <1>2
  <2> QED
    BY <1>1, <1>3, <2>1, <2>2, <2>3
<1>5. \A m \in DOMAIN s : s[m] \in 1 .. Num /\ (Data(s[m])' > 0 => s[m] = i)
  <2> SUFFICES ASSUME NEW m \in DOMAIN s PROVE s[m] \in 1 .. Num /\ (Data(s[m])' > 0 => s[m] = i)
    OBVIOUS
  <2>1. s[m] \in 1 .. Num /\ Holds(s, s[m])
    <3>1. s \in Seq(1 .. Num) /\ DOMAIN s = 1 .. Len(s)
      BY <1>2
    <3>2. s[m] \in 1 .. Num
      BY <3>1, ElementOfSeq
    <3> QED
      BY <3>2 DEF Holds
  <2>2. s[m] \in D
    BY <1>2, <2>1
  <2>3. s[m] # i => urb'[s[m]].data = 0
    BY <2>1, <2>2 DEF Grown
  <2> QED
    BY <2>1, <2>3 DEF Data
<1>6. /\ DOMAIN doneq' = 1 .. Len(doneq) + Len(s)
      /\ \A m \in DOMAIN doneq' : /\ m <= Len(doneq) => m \in DOMAIN doneq /\ doneq'[m] = doneq[m]
                                  /\ m > Len(doneq) => /\ m - Len(doneq) \in DOMAIN s
                                                       /\ doneq'[m] = s[m - Len(doneq)]
      /\ Len(doneq) \in Nat /\ Len(s) \in Nat
  BY <1>2, <1>3
<1>7. ASSUME NEW m \in DOMAIN doneq', NEW n \in DOMAIN doneq',
             m < n, Data(doneq[m])' > 0, Data(doneq[n])' > 0
      PROVE  doneq'[m] < doneq'[n]
  <2>0. urb'[doneq'[m]].data > 0 /\ urb'[doneq'[n]].data > 0
    BY <1>7 DEF Data
  <2>1. CASE n <= Len(doneq)
    <3>1. /\ m <= Len(doneq) /\ m \in DOMAIN doneq /\ n \in DOMAIN doneq
          /\ doneq'[m] = doneq[m] /\ doneq'[n] = doneq[n]
      BY <1>6, <1>7, <2>1
    <3>2. Data(doneq[m]) > 0 /\ Data(doneq[n]) > 0
      BY SMTT(30), <1>1, <1>4, <2>0, <3>1 DEF Data
    <3> QED
      BY <1>1, <1>7, <3>1, <3>2 DEF DataInv, ReapInv
  <2>2. CASE m <= Len(doneq) /\ n > Len(doneq)
    <3>1. /\ m \in DOMAIN doneq /\ doneq'[m] = doneq[m] /\ n - Len(doneq) \in DOMAIN s
          /\ doneq'[n] = s[n - Len(doneq)]
      BY <1>6, <2>2
    <3>2. doneq'[n] = i
      BY <1>5, <2>0, <3>1 DEF Data
    <3>3. Data(doneq[m]) > 0
      BY <1>1, <1>4, <2>0, <3>1 DEF Data
    <3> QED
      BY <1>1, <1>4, <3>1, <3>2, <3>3
  <2>3. CASE m > Len(doneq)
    <3>1. /\ m - Len(doneq) \in DOMAIN s /\ n - Len(doneq) \in DOMAIN s
          /\ doneq'[m] = s[m - Len(doneq)] /\ doneq'[n] = s[n - Len(doneq)]
      BY <1>6, <1>7, <2>3
    <3>2. doneq'[m] = i /\ doneq'[n] = i
      BY <1>5, <2>0, <3>1 DEF Data
    <3>3. m - Len(doneq) = n - Len(doneq)
      BY <1>2, <3>1, <3>2 DEF Once
    <3> QED
      BY <1>6, <1>7, <3>3
  <2> QED
    BY <1>6, <2>1, <2>2, <2>3
<1>8. ASSUME reaping # 0, Data(reaping)' > 0, NEW j \in 1 .. Num, Holds(doneq, j)', Data(j)' > 0
      PROVE  reaping < j
  <2>1. reaping \in 1 .. Num /\ Data(reaping) > 0
    BY <1>1, <1>2, <1>4, <1>8 DEF Data
  <2>2. CASE j = i
    BY SMTT(30), <1>1, <2>1, <2>2
  <2>3. CASE j # i
    <3>1. Data(j) > 0
      BY <1>1, <1>8, <2>3
    <3>2. PICK n \in DOMAIN doneq' : doneq'[n] = j
      BY <1>8 DEF Holds
    <3>3. n <= Len(doneq)
      BY <1>5, <1>6, <1>8, <2>3, <3>2
    <3>4. Holds(doneq, j)
      BY <1>6, <3>2, <3>3 DEF Holds
    <3> QED
      BY <1>1, <1>8, <2>1, <3>1, <3>4 DEF DataInv, ReapInv
  <2> QED
    BY <2>2, <2>3
<1> QED
  BY <1>7, <1>8

\* Data that was moved came, and what came is in the buffer.
LEMMA PlacedBounds ==
  ASSUME UInv, DataInv, NEW i \in 1 .. Num,
         NEW base \in [1 .. Num + 1 -> 0 .. arrived], NEW bound \in 1 .. Num + 1,
         Placed(base, bound)
  PROVE  /\ Num \in Nat /\ arrived \in Nat /\ transferred \in Nat /\ Size \in Nat
         /\ \A k \in 1 .. Num + 1 : base[k] \in Nat
         /\ transferred <= arrived /\ arrived <= Size
<1>1. /\ Num \in Nat /\ \A j \in 1 .. Num : urb[j].data \in 0 .. urb[j].len
      /\ \A j \in 1 .. Num : urb[j].first \in Nat /\ urb[j].len \in Nat
                             /\ urb[j].first + urb[j].len <= Size
      /\ urb[Num].first + urb[Num].len = Size
  <2>1. Num \in Nat /\ Len(urb) = Num /\ Num \in 1 .. Num
    BY DataFacts DEF Num
  <2> QED
    BY <2>1, DataFacts DEF DataInv, LayoutInv, Laid
<1>2. \A k \in 1 .. Num + 1 : base[k] \in Nat /\ base[k] \in 0 .. arrived
  OBVIOUS
<1>3. /\ base[Num + 1] = arrived /\ base[bound] = transferred
      /\ Num + 1 \in 1 .. Num + 1 /\ Num \in 1 .. Num + 1 /\ Num \in 1 .. Num /\ Num < Num + 1
  BY <1>1 DEF Placed
<1>4. arrived \in Nat /\ transferred \in Nat /\ transferred <= arrived
  BY <1>2, <1>3
<1>5. arrived = base[Num] + Data(Num) /\ base[Num] <= urb[Num].first
  <2>1. \A k \in Num + 1 .. Num + 1 - 1 : Data(k) = 0
    BY <1>1
  <2>2. (\A k \in Num + 1 .. Num + 1 - 1 : Data(k) = 0) => base[Num + 1] = base[Num] + Data(Num)
    BY <1>3 DEF Placed
  <2>3. base[Num] <= urb[Num].first
    BY <1>3 DEF Placed
  <2> QED
    BY <1>3, <2>1, <2>2, <2>3
<1>6. Size \in Nat
  BY SMTT(30), <1>1, <1>3
<1> QED
  <2>1. Data(Num) <= urb[Num].len /\ Data(Num) \in Nat
    BY <1>1, <1>3 DEF Data
  <2>2. arrived <= Size
    BY SMTT(30), <1>1, <1>2, <1>3, <1>5, <2>1
  <2> QED
    BY <1>1, <1>2, <1>4, <1>6, <2>2

\* What is in an URB lies before the next one.
LEMMA Apart ==
  ASSUME NEW f \in Nat, NEW l \in Nat, NEW g \in Nat, NEW z \in Nat, NEW d \in Nat,
         NEW k \in Nat, NEW n \in Nat, f + l <= z, f + l <= g, k <= l, n >= 1, n <= k
  PROVE  f + n \in 1 .. z /\ f + n \notin g + 1 .. g + d
OBVIOUS

\* The URB that is served gets its data at its place.
LEMMA PlaceGrows ==
  ASSUME UInv, DataInv, NEW D, NEW s, NEW i, NEW d, Grown(D, s, i, d)
  PROVE  PlaceInv'
<1>1. /\ Num \in Nat /\ i \in 1 .. Num /\ d \in Nat /\ D \in SUBSET (1 .. Num)
      /\ priv.urbs
      /\ \A j \in 1 .. Num : Data(j)' = (IF j = i THEN d ELSE Data(j))
      /\ \A j \in 1 .. Num : Data(j) > 0 => j < i
      /\ \A j \in 1 .. Num : SameShape(j) /\ urb'[j].data \in 0 .. urb[j].len
      /\ \A j \in 1 .. Num : urb'[j].st = "retired" <=> St(j) = "retired"
      /\ \A j \in 1 .. Num : urb[j].data \in 0 .. urb[j].len
  BY GrownFacts
<1> SUFFICES ASSUME req.type = "bulk" PROVE PlaceInv'
  BY DEF PlaceInv, Grown
<1>2. /\ Num' = Num /\ UNCHANGED <<req, priv, transferred>> /\ i \in D /\ d \in 0 .. urb[i].len
      /\ arrived' = arrived + d
      /\ D \in SUBSET Pending
  BY DEF Grown
<1> SUFFICES Located'
  BY DEF PlaceInv
<1>3. PICK base \in [1 .. Num + 1 -> 0 .. arrived], bound \in 1 .. Num + 1 : Placed(base, bound)
  BY <1>1 DEF DataInv, PlaceInv, Located
<1>4. /\ arrived \in Nat /\ transferred \in Nat /\ Size \in Nat
      /\ \A k \in 1 .. Num + 1 : base[k] \in Nat
      /\ transferred <= arrived /\ arrived <= Size
  BY <1>1, <1>3, PlacedBounds
<1>5. /\ \A j \in 1 .. Num : urb[j].first \in Nat /\ urb[j].len \in Nat
                             /\ urb[j].first + urb[j].len <= Size
                             /\ Data(j) \in 0 .. urb[j].len
      /\ \A j \in 1 .. Num : Num > 1 => urb[j].len > 0
      /\ \A j \in 1 .. Num : j < Num => urb[j + 1].first = urb[j].first + urb[j].len
      /\ \A j, k \in 1 .. Num : j < k => urb[j].first + urb[j].len <= urb[k].first
  <2>1. Len(urb) = Num
    BY DEF Num
  <2> QED
    BY <1>1, <2>1 DEF DataInv, LayoutInv, Laid, Data
<1>6. /\ base[Num + 1] = arrived /\ base[bound] = transferred
      /\ \A j, k \in 1 .. Num + 1 : j < k =>
           /\ base[j] <= base[k]
           /\ (\A l \in j + 1 .. k - 1 : Data(l) = 0) => base[k] = base[j] + Data(j)
      /\ \A j \in 1 .. Num :
           /\ base[j] <= urb[j].first
           /\ (\A l \in 1 .. j - 1 : Full(l)) => base[j] = urb[j].first
           /\ Data(j) > 0 => (St(j) = "retired" <=> j < bound)
           /\ Data(j) > 0 /\ j >= bound =>
                \A n \in 1 .. Data(j) : out[urb[j].first + n] = base[j] + n
      /\ \A p \in 1 .. transferred : out[p] = p
  BY <1>3 DEF Placed
<1>7. \A j \in 1 .. Num : j >= i => Data(j) = 0
  <2> SUFFICES ASSUME NEW j \in 1 .. Num, j >= i PROVE Data(j) = 0
    OBVIOUS
  <2>1. ~(j < i)
    BY <1>1
  <2>2. ~(Data(j) > 0)
    BY <1>1, <2>1
  <2>3. Data(j) \in Nat
    BY <1>5
  <2> QED
    BY <2>2, <2>3
<1>8. \A k \in 1 .. Num + 1 : k >= i => base[k] = arrived
  <2>1. \A l \in i + 1 .. Num + 1 - 1 : Data(l) = 0
    BY <1>1, <1>7
  <2>2. i \in 1 .. Num + 1 /\ Num + 1 \in 1 .. Num + 1 /\ i < Num + 1
    BY <1>1
  <2>3. base[Num + 1] = base[i] + Data(i)
    <3>1. ASSUME NEW j \in 1 .. Num + 1, NEW k \in 1 .. Num + 1, j < k,
                 \A l \in 1 .. Num : j < l /\ l < k => Data(l) = 0
          PROVE  base[k] = base[j] + Data(j)
      <4>1. \A l \in j + 1 .. k - 1 : l \in 1 .. Num /\ j < l /\ l < k
        BY <1>1
      <4>2. \A l \in j + 1 .. k - 1 : Data(l) = 0
        BY <3>1, <4>1
      <4> QED
        BY <1>6, <3>1, <4>2
    <3>2. \A l \in 1 .. Num : i < l /\ l < Num + 1 => Data(l) = 0
      BY <1>1, <1>7
    <3> QED
      BY <2>2, <3>1, <3>2
  <2>4. base[i] = arrived
    BY <1>1, <1>4, <1>6, <1>7, <2>2, <2>3
  <2> SUFFICES ASSUME NEW k \in 1 .. Num + 1, k > i PROVE base[k] = arrived
    BY <1>1, <2>4
  <2>5. base[i] <= base[k]
    BY <1>6, <2>2
  <2>6. k = Num + 1 \/ base[k] <= base[Num + 1]
    BY <1>1, <1>6, <2>2
  <2> QED
    BY <1>4, <1>6, <2>4, <2>5, <2>6
<1>9. \A p \in 1 .. Size : out'[p] = IF p \in urb[i].first + 1 .. urb[i].first + d
                                       THEN arrived + p - urb[i].first ELSE out[p]
  <2>1. Positions = 1 .. Size
    BY DEF Positions, Size
  <2> QED
    BY <2>1 DEF Grown
<1> DEFINE b == [k \in 1 .. Num + 1 |-> IF k > i THEN base[k] + d ELSE base[k]]
           e == IF d > 0 /\ bound > i THEN i ELSE bound
<1>10. /\ b \in [1 .. Num + 1 -> 0 .. arrived + d] /\ e \in 1 .. Num + 1
       /\ \A k \in 1 .. Num + 1 : b[k] = IF k > i THEN base[k] + d ELSE base[k]
  <2>1. \A k \in 1 .. Num + 1 : base[k] \in 0 .. arrived
    OBVIOUS
  <2> QED
    BY SMTT(30), <1>1, <1>4, <2>1
<1> HIDE DEF b
<1>11. b[Num + 1] = arrived + d /\ b[e] = transferred
  <2>1. b[Num + 1] = arrived + d
    BY <1>1, <1>6, <1>10
  <2>2. CASE d = 0
    BY <1>1, <1>4, <1>6, <1>10, <2>2
  <2>3. CASE d > 0 /\ bound > i
    <3>1. b[i] = base[i] /\ base[i] = arrived /\ base[bound] = arrived
      BY <1>1, <1>8, <1>10, <2>3
    <3> QED
      BY <1>6, <2>1, <2>3, <3>1
  <2>4. CASE d > 0 /\ ~(bound > i)
    BY <1>6, <1>10, <2>1, <2>4
  <2> QED
    BY <1>1, <2>1, <2>2, <2>3, <2>4
<1>12. ASSUME NEW j \in 1 .. Num + 1, NEW k \in 1 .. Num + 1, j < k
       PROVE  /\ b[j] <= b[k]
              /\ (\A l \in j + 1 .. k - 1 : Data(l)' = 0) => b[k] = b[j] + Data(j)'
  <2>1. /\ base[j] <= base[k] /\ base[j] \in Nat /\ base[k] \in Nat
        /\ (\A l \in j + 1 .. k - 1 : Data(l) = 0) => base[k] = base[j] + Data(j)
    BY <1>4, <1>6, <1>12
  <2>2. b[j] <= b[k]
    <3>1. /\ b[j] = base[j] \/ (j > i /\ b[j] = base[j] + d)
          /\ k > i => b[k] = base[k] + d
          /\ b[k] = base[k] \/ b[k] = base[k] + d
      BY <1>10
    <3>2. j > i => k > i
      BY <1>1, <1>12
    <3> DEFINE x == base[j]
               y == base[k]
               v == b[j]
               w == b[k]
    <3>3. /\ v = x \/ (w = y + d /\ v = x + d)
          /\ w = y \/ w = y + d
          /\ x <= y /\ x \in Nat /\ y \in Nat
      BY <2>1, <3>1, <3>2
    <3> HIDE DEF x, y, v, w
    <3>4. v <= w
      BY <1>1, <3>3
    <3> QED
      BY <3>4 DEF v, w
  <2>3. ASSUME \A l \in j + 1 .. k - 1 : Data(l)' = 0 PROVE b[k] = b[j] + Data(j)'
    <3>1. j \in 1 .. Num /\ \A l \in j + 1 .. k - 1 : l \in 1 .. Num
      BY <1>1, <1>12
    <3>2. Data(j)' = (IF j = i THEN d ELSE Data(j))
      BY <1>1, <3>1
    <3>3. \A l \in j + 1 .. k - 1 : Data(l) = 0
      <4> SUFFICES ASSUME NEW l \in j + 1 .. k - 1 PROVE Data(l) = 0
        OBVIOUS
      <4>1. l \in 1 .. Num /\ Data(l)' = 0
        BY <2>3, <3>1
      <4> QED
        BY <1>1, <1>7, <4>1
    <3>4. base[k] = base[j] + Data(j)
      BY <2>1, <3>3
    <3>5. CASE k <= i
      BY <1>1, <1>10, <1>12, <3>2, <3>4, <3>5
    <3>6. CASE j < i /\ k > i
      <4>1. i \in j + 1 .. k - 1
        BY <1>1, <3>6
      <4>2. d = 0
        BY <1>1, <2>3, <4>1
      <4> QED
        BY <1>1, <1>10, <2>1, <3>2, <3>4, <3>6, <4>2
    <3>7. CASE j = i /\ k > i
      BY <1>1, <1>7, <1>10, <2>1, <3>2, <3>4, <3>7
    <3>8. CASE j > i
      <4>1. k > i /\ Data(j) = 0 /\ j # i
        BY <1>1, <1>7, <1>12, <3>1, <3>8
      <4> QED
        BY <1>1, <1>10, <2>1, <3>2, <3>4, <3>8, <4>1
    <3> QED
      BY <1>1, <1>12, <3>5, <3>6, <3>7, <3>8
  <2> QED
    BY <2>2, <2>3
<1>13. ASSUME NEW j \in 1 .. Num
       PROVE  /\ b[j] <= urb[j].first
              /\ (\A l \in 1 .. j - 1 : Full(l)') => b[j] = urb[j].first
  <2>1. /\ base[j] <= urb[j].first /\ base[j] \in Nat /\ j \in 1 .. Num + 1
        /\ (\A l \in 1 .. j - 1 : Full(l)) => base[j] = urb[j].first
    BY <1>1, <1>4, <1>6
  <2>2. base[i] <= urb[i].first /\ base[i] = arrived
    BY SMTT(30), <1>1, <1>6, <1>8
  <2>3. CASE j <= i
    <3>1. b[j] = base[j]
      BY <1>10, <2>1, <2>3, <1>1
    <3>2. ASSUME \A l \in 1 .. j - 1 : Full(l)' PROVE \A l \in 1 .. j - 1 : Full(l)
      <4> SUFFICES ASSUME NEW l \in 1 .. j - 1 PROVE Full(l)
        OBVIOUS
      <4>1. l \in 1 .. Num /\ l # i
        BY <1>1, <2>3
      <4>2. urb'[l].data = urb'[l].len
        BY <3>2 DEF Full, Data, Length
      <4> QED
        BY <1>1, <4>1, <4>2 DEF Full, Data, Length, SameShape
    <3> QED
      BY <2>1, <3>1, <3>2
  <2>4. CASE j > i
    <3>0. /\ urb[i].first + urb[i].len <= urb[j].first /\ d <= urb[i].len
          /\ urb[i].first \in Nat /\ urb[i].len \in Nat /\ urb[j].first \in Nat
      <4>1. i < j /\ i \in 1 .. Num
        BY <1>1, <2>4
      <4>2. urb[i].first \in Nat /\ urb[i].len \in Nat /\ urb[j].first \in Nat
        BY <1>5, <4>1
      <4> QED
        BY <1>2, <1>5, <4>1, <4>2
    <3>1. /\ b[j] = arrived + d /\ arrived <= urb[i].first /\ d <= urb[i].len
          /\ urb[i].first + urb[i].len <= urb[j].first
          /\ urb[i].first \in Nat /\ urb[i].len \in Nat /\ urb[j].first \in Nat
      <4>1. b[j] = base[j] + d
        BY <1>10, <2>1, <2>4
      <4>2. base[j] = arrived
        BY <1>1, <1>8, <2>1, <2>4
      <4> QED
        BY <2>2, <3>0, <4>1, <4>2
    <3>2. b[j] <= urb[j].first
      <4> DEFINE f == urb[i].first
                 l == urb[i].len
                 g == urb[j].first
                 v == b[j]
      <4>1. /\ v = arrived + d /\ arrived <= f /\ d <= l /\ f + l <= g
            /\ f \in Nat /\ l \in Nat /\ g \in Nat
        BY <3>1
      <4> HIDE DEF f, l, g, v
      <4>2. v <= g
        BY <1>1, <1>4, <4>1
      <4> QED
        BY <4>2 DEF v, g
    <3>3. ASSUME \A l \in 1 .. j - 1 : Full(l)' PROVE b[j] = urb[j].first
      <4>1. \A l \in 1 .. j - 1 : l \in 1 .. Num /\ urb'[l].data = urb[l].len
        <5>1. \A l \in 1 .. j - 1 : l \in 1 .. Num
          BY <1>1
        <5> QED
          BY <1>1, <3>3, <5>1 DEF Full, Data, Length, SameShape
      <4>2. i \in 1 .. j - 1 /\ d = urb[i].len
        BY <1>1, <2>4, <4>1 DEF Data
      <4>3. \A l \in 1 .. i - 1 : Full(l)
        <5> SUFFICES ASSUME NEW l \in 1 .. i - 1 PROVE Full(l)
          OBVIOUS
        <5>1. l \in 1 .. j - 1 /\ l # i /\ l \in 1 .. Num
          BY SMTT(30), <1>1, <2>4
        <5> QED
          BY <1>1, <4>1, <5>1 DEF Full, Data, Length
      <4>4. arrived = urb[i].first
        BY <1>1, <1>6, <2>2, <4>3
      <4>5. j = i + 1
        <5> SUFFICES ASSUME j > i + 1 PROVE FALSE
          BY <1>1, <2>4
        <5>1. i + 1 \in 1 .. j - 1 /\ i + 1 \in 1 .. Num /\ i + 1 # i /\ i + 1 >= i /\ Num > 1
          BY <1>1
        <5>2. Data(i + 1)' = 0
          BY <1>1, <1>7, <5>1
        <5>3. urb[i + 1].len = 0
          BY <4>1, <5>1, <5>2 DEF Data
        <5> QED
          BY <1>5, <5>1, <5>3
      <4>6. urb[j].first = urb[i].first + urb[i].len
        <5>1. i \in 1 .. Num /\ i < Num
          BY <1>1, <4>5
        <5>2. urb[i + 1].first = urb[i].first + urb[i].len
          BY <1>5, <5>1
        <5> QED
          BY <4>5, <5>2
      <4> QED
        BY <3>1, <4>2, <4>4, <4>6
    <3> QED
      BY <3>2, <3>3
  <2> QED
    BY <1>1, <2>3, <2>4
<1>14. ASSUME NEW j \in 1 .. Num, Data(j)' > 0
       PROVE  /\ St(j)' = "retired" <=> j < e
              /\ j >= e => \A n \in 1 .. Data(j)' : out'[urb[j].first + n] = b[j] + n
  <2>1. St(j)' = "retired" <=> St(j) = "retired"
    BY <1>1 DEF St
  <2>2. CASE j = i
    <3>1. d > 0 /\ Data(j)' = d
      BY <1>1, <1>14, <2>2
    <3>2. St(i) # "retired" /\ e <= i
      <4>1. St(i) = "pending"
        BY <1>2 DEF Pending, St
      <4> QED
        BY <1>1, <3>1, <4>1
    <3>3. ASSUME NEW n \in 1 .. d PROVE out'[urb[i].first + n] = b[i] + n
      <4>1. /\ urb[i].first \in Nat /\ urb[i].len \in Nat /\ urb[i].first + urb[i].len <= Size
            /\ d <= urb[i].len /\ d \in Nat /\ n \in Nat /\ Size \in Nat
        BY <1>1, <1>2, <1>4, <1>5
      <4>2. /\ urb[i].first + n \in 1 .. Size
            /\ urb[i].first + n \in urb[i].first + 1 .. urb[i].first + d
        <5> DEFINE f == urb[i].first
                   l == urb[i].len
        <5>1. f \in Nat /\ l \in Nat /\ f + l <= Size /\ d <= l
          BY <4>1
        <5> HIDE DEF f, l
        <5>2. f + n \in 1 .. Size /\ f + n \in f + 1 .. f + d
          BY <4>1, <5>1
        <5> QED
          BY <5>2 DEF f
      <4>3. out'[urb[i].first + n] = arrived + (urb[i].first + n) - urb[i].first
        BY <1>9, <4>2
      <4>4. b[i] = arrived
        BY <1>1, <1>8, <1>10
      <4> QED
        BY SMTT(30), <1>4, <4>1, <4>3, <4>4
    <3> QED
      BY <1>1, <2>1, <2>2, <3>1, <3>2, <3>3
  <2>3. CASE j # i
    <3>1. Data(j)' = Data(j) /\ Data(j) > 0 /\ j < i
      BY <1>1, <1>14, <2>3
    <3>2. j < e <=> j < bound
      BY <1>1, <3>1
    <3>3. St(j) = "retired" <=> j < bound
      BY <1>6, <3>1
    <3>4. ASSUME j >= e, NEW n \in 1 .. Data(j) PROVE out'[urb[j].first + n] = b[j] + n
      <4>1. /\ urb[j].first \in Nat /\ urb[j].len \in Nat /\ urb[j].first + urb[j].len <= Size
            /\ urb[j].first + urb[j].len <= urb[i].first /\ Data(j) \in Nat
            /\ Data(j) <= urb[j].len /\ urb[i].first \in Nat /\ d \in Nat /\ Size \in Nat
            /\ n \in Nat /\ n >= 1 /\ n <= Data(j)
        <5>1. /\ urb[j].first \in Nat /\ urb[j].len \in Nat
              /\ urb[j].first + urb[j].len <= Size /\ Data(j) \in 0 .. urb[j].len
              /\ urb[i].first \in Nat
          BY <1>1, <1>5
        <5>2. urb[j].first + urb[j].len <= urb[i].first
          BY <1>1, <1>5, <3>1
        <5>3. Data(j) \in Nat /\ Data(j) <= urb[j].len
          BY <5>1
        <5>4. n \in Nat /\ n >= 1 /\ n <= Data(j)
          BY <5>3
        <5> QED
          BY <1>1, <1>4, <5>1, <5>2, <5>3, <5>4
      <4>2. /\ urb[j].first + n \in 1 .. Size
            /\ urb[j].first + n \notin urb[i].first + 1 .. urb[i].first + d
        <5> DEFINE f == urb[j].first
                   g == urb[i].first
                   l == urb[j].len
                   k == Data(j)
                   z == Size
        <5>1. /\ f \in Nat /\ l \in Nat /\ f + l <= z /\ f + l <= g /\ k \in Nat /\ k <= l
              /\ g \in Nat /\ d \in Nat /\ z \in Nat /\ n \in Nat /\ n >= 1 /\ n <= k
          BY <4>1
        <5> HIDE DEF f, g, l, k, z
        <5>2. f + n \in 1 .. z /\ f + n \notin g + 1 .. g + d
          BY <5>1, Apart
        <5> QED
          BY <5>2 DEF f, g, z
      <4>3. out'[urb[j].first + n] = out[urb[j].first + n]
        BY <1>9, <4>2
      <4>4. out[urb[j].first + n] = base[j] + n
        BY <1>6, <3>1, <3>2, <3>4, <1>1
      <4>5. b[j] = base[j]
        BY <1>1, <1>10, <3>1
      <4> QED
        BY <4>3, <4>4, <4>5
    <3>5. \A n \in 1 .. Data(j)' : j >= e => out'[urb[j].first + n] = b[j] + n
      BY <3>1, <3>4
    <3> QED
      BY <2>1, <3>2, <3>3, <3>5
  <2> QED
    BY <2>2, <2>3
<1>15. ASSUME NEW p \in 1 .. transferred PROVE out'[p] = p
  <2>1. p \in 1 .. Size /\ p <= arrived
    BY <1>4
  <2>2. arrived <= urb[i].first /\ urb[i].first \in Nat
    BY <1>1, <1>5, <1>6, <1>8
  <2>3. p \notin urb[i].first + 1 .. urb[i].first + d
    BY SMTT(30), <1>1, <1>4, <2>1, <2>2
  <2> QED
    BY <1>6, <1>9, <2>1, <2>3
<1>16. \A j \in 1 .. Num : urb'[j].first = urb[j].first
  BY <1>1 DEF SameShape
<1> SUFFICES \E c \in [1 .. Num + 1 -> 0 .. arrived + d], f \in 1 .. Num + 1 :
               /\ c[Num + 1] = arrived + d /\ c[f] = transferred
               /\ \A j, k \in 1 .. Num + 1 : j < k =>
                    /\ c[j] <= c[k]
                    /\ (\A l \in j + 1 .. k - 1 : Data(l)' = 0) => c[k] = c[j] + Data(j)'
               /\ \A j \in 1 .. Num :
                    /\ c[j] <= urb'[j].first
                    /\ (\A l \in 1 .. j - 1 : Full(l)') => c[j] = urb'[j].first
                    /\ Data(j)' > 0 => (St(j)' = "retired" <=> j < f)
                    /\ Data(j)' > 0 /\ j >= f =>
                         \A n \in 1 .. Data(j)' : out'[urb'[j].first + n] = c[j] + n
               /\ \A p \in 1 .. transferred : out'[p] = p
  BY <1>2 DEF Located, Placed
<1> HIDE DEF e
<1> b \in [1 .. Num + 1 -> 0 .. arrived + d] /\ e \in 1 .. Num + 1
  BY <1>10
<1> WITNESS b \in [1 .. Num + 1 -> 0 .. arrived + d], e \in 1 .. Num + 1
<1> QED
  BY <1>11, <1>12, <1>13, <1>14, <1>15, <1>16

\* Results of packets are not the kernel's.
LEMMA PacketGrows ==
  ASSUME UInv, DataInv, NEW D, NEW s, NEW i, NEW d, Grown(D, s, i, d)
  PROVE  PacketInv'
<1>1. /\ Num \in Nat /\ i \in 1 .. Num /\ Num' = Num /\ UNCHANGED <<req, priv>> /\ priv.urbs
      /\ \A j \in 1 .. Num : SameShape(j) /\ (urb'[j].st = "retired" <=> St(j) = "retired")
  <2>1. Num' = Num /\ UNCHANGED <<req, priv>>
    BY DEF Grown
  <2> QED
    BY <2>1, GrownFacts
<1> SUFFICES ASSUME req.type = "iso", priv.action = "NORMAL" PROVE PacketInv'
  BY <1>1 DEF PacketInv
<1>2. /\ priv.packet \in Nat
      /\ \A j \in 1 .. Num : IF St(j) = "retired" THEN urb[j].first + Length(j) <= priv.packet
                                                  ELSE priv.packet <= urb[j].first
      /\ \A p \in 1 .. priv.packet : out[p] = p
  BY <1>1 DEF DataInv, PacketInv
<1>3. priv.packet <= Size /\ Size \in Nat
  <2>1. St(i) # "retired"
    BY DEF Grown, Pending, St
  <2>2. /\ urb[i].first \in Nat /\ urb[i].len \in Nat /\ urb[i].first + urb[i].len <= Size
        /\ i \in 1 .. Len(urb)
    BY <1>1 DEF DataInv, LayoutInv, Laid, Num
  <2>3. priv.packet <= urb[i].first
    BY <1>1, <1>2, <2>1
  <2>4. Size \in Nat
    <3>1. req.lens \in Seq(Nat)
      BY RequestFacts DEF UInv, UrbsOK
    <3> QED
      BY <3>1 DEF Size
  <2> QED
    BY <1>2, <2>2, <2>3, <2>4
<1>4. \A p \in 1 .. priv.packet : out'[p] = p
  <2>1. Positions = 1 .. Size
    BY DEF Positions, Size
  <2>2. \A p \in 1 .. priv.packet : p \in Positions
    BY <1>2, <1>3, <2>1
  <2> QED
    BY <1>2, <2>2 DEF Grown
<1>5. \A j \in 1 .. Num : IF St(j)' = "retired" THEN urb'[j].first + Length(j)' <= priv.packet
                                                ELSE priv.packet <= urb'[j].first
  <2> SUFFICES ASSUME NEW j \in 1 .. Num
               PROVE  IF urb'[j].st = "retired" THEN urb[j].first + urb[j].len <= priv.packet
                                                ELSE priv.packet <= urb[j].first
    BY <1>1 DEF St, Length, SameShape
  <2> QED
    BY <1>1, <1>2 DEF St, Length
<1> QED
  BY <1>1, <1>2, <1>4, <1>5 DEF PacketInv

\* An URB that ended the transfer early is back.
LEMMA EndsShortStays ==
  ASSUME EndsShort, Num \in Nat, Num' = Num,
         \A j \in 1 .. Num : Returned(j) =>
            SameShape(j) /\ SameFill(j) /\ urb'[j].st \in {"done", "retired"}
  PROVE  EndsShort'
<1>1. PICK n \in 1 .. Num : ShortAt(n)
  BY DEF EndsShort
<1>2. /\ n < Num /\ Data(n) < Length(n) /\ Status(n) \in {"OK", "REMOTEIO"}
      /\ \A j \in 1 .. n : Returned(j)
      /\ \A j \in 1 .. n - 1 : Status(j) = "OK" /\ Full(j)
      /\ n \in 1 .. n /\ \A j \in 1 .. n : j \in 1 .. Num
      /\ \A j \in 1 .. n - 1 : j \in 1 .. n /\ j \in 1 .. Num
  BY <1>1 DEF ShortAt
<1>3. \A j \in 1 .. n : Status(j)' = Status(j) /\ Data(j)' = Data(j) /\ Length(j)' = Length(j)
                        /\ Returned(j)' /\ (Full(j)' <=> Full(j))
  BY <1>2 DEF Status, Data, Length, Returned, St, Full, SameShape, SameFill
<1>4. ShortAt(n)'
  <2>1. Data(n)' < Length(n)' /\ Status(n)' \in {"OK", "REMOTEIO"}
    BY <1>2, <1>3
  <2>2. \A j \in 1 .. n : Returned(j)'
    BY <1>3
  <2>3. \A j \in 1 .. n - 1 : Status(j)' = "OK" /\ Full(j)'
    BY <1>2, <1>3
  <2> QED
    BY <1>2, <2>1, <2>2, <2>3 DEF ShortAt
<1> QED
  BY <1>4 DEF EndsShort

\* The status of a transfer whose URBs are with the kernel.
LEMMA StatusGrows ==
  ASSUME UInv, DataInv, NEW D, NEW s, NEW i, NEW d, Grown(D, s, i, d),
         priv.action = "NORMAL" /\ priv.status = "COMPLETED" /\ ~Disordered' /\ req.type = "bulk" =>
            /\ ~Disordered
            /\ Discarding("reap")' => Discarding("reap")
            /\ \A j \in D : urb'[j].status = "ENOENT" =>
                 \E k \in 1 .. j - 1 : urb'[k].status \notin {"OK", "ENOENT"},
         req.type = "bulk" /\ Submitting' /\ halted' /\ req.caps = "continuation" =>
            (Submitting /\ halted) \/ EndsShort',
         Submitting' /\ ~halted' =>
            Submitting /\ ~halted /\ \A j \in D : urb'[j].status # "ENOENT"
  PROVE  StatusInv'
<1>1. /\ Num \in Nat /\ i \in 1 .. Num /\ Num' = Num /\ UNCHANGED <<req, priv>> /\ priv.urbs
      /\ D \in SUBSET (1 .. Num)
      /\ \A j \in D : Status(j) = "OK"
      /\ \A j \in 1 .. Num : SameShape(j) /\ (urb'[j].st = "retired" <=> St(j) = "retired")
      /\ \A j \in 1 .. Num : Returned(j) => Returned(j)' /\ j \notin D /\ SameFill(j)
      /\ \A j \in 1 .. Num : j \notin D => SameFill(j)
  <2>1. Num' = Num /\ UNCHANGED <<req, priv>> /\ \A j \in 1 .. Num : j \notin D => SameFill(j)
    BY DEF Grown
  <2> QED
    BY <2>1, GrownFacts
<1> SUFFICES ASSUME req.type = "bulk" PROVE StatusInv'
  BY <1>1 DEF StatusInv
<1>2. EndsShort => EndsShort'
  BY <1>1, EndsShortStays DEF Returned, St
<1>3. ASSUME priv.action = "NORMAL", NEW j \in 1 .. Num, St(j)' = "retired"
      PROVE  /\ j # Num => Full(j)' \/ Status(j)' \in {"SHUTDOWN", "PIPE"}
             /\ priv.status = "COMPLETED" => Status(j)' = "OK" /\ Full(j)'
  <2>1. St(j) = "retired" /\ Returned(j)
    BY <1>1, <1>3 DEF St, Returned
  <2>2. SameShape(j) /\ SameFill(j)
    BY <1>1, <2>1
  <2>3. /\ j # Num => Full(j) \/ Status(j) \in {"SHUTDOWN", "PIPE"}
        /\ priv.status = "COMPLETED" => Status(j) = "OK" /\ Full(j)
    BY <1>1, <1>3, <2>1 DEF DataInv, StatusInv
  <2> QED
    BY <2>2, <2>3 DEF Full, Data, Length, Status, SameShape, SameFill
<1>4. ASSUME priv.action = "NORMAL", priv.status = "COMPLETED", ~Disordered'
      PROVE  /\ ~Discarding("reap")'
             /\ \A j \in 1 .. Num : Status(j)' = "ENOENT" =>
                  \E k \in 1 .. j - 1 : Status(k)' \notin {"OK", "ENOENT"}
  <2>1. /\ ~Discarding("reap")
        /\ \A j \in 1 .. Num : Status(j) = "ENOENT" =>
             \E k \in 1 .. j - 1 : Status(k) \notin {"OK", "ENOENT"}
    BY <1>1, <1>4 DEF DataInv, StatusInv
  <2>2. ASSUME NEW j \in 1 .. Num, Status(j)' = "ENOENT"
        PROVE  \E k \in 1 .. j - 1 : Status(k)' \notin {"OK", "ENOENT"}
    <3>1. CASE j \in D
      BY <1>4, <2>2, <3>1 DEF Status
    <3>2. CASE j \notin D
      <4>1. Status(j) = "ENOENT"
        BY <1>1, <2>2, <3>2 DEF Status, SameFill
      <4>2. PICK k \in 1 .. j - 1 : Status(k) \notin {"OK", "ENOENT"}
        BY <2>1, <4>1
      <4>3. k \in 1 .. Num /\ k \notin D
        BY <1>1, <4>2
      <4>4. Status(k)' = Status(k)
        BY <1>1, <4>3 DEF Status, SameFill
      <4> QED
        BY <4>2, <4>4
    <3> QED
      BY <3>1, <3>2
  <2> QED
    BY <1>4, <2>1, <2>2
<1>5. priv.action = "COMPLETED_EARLY" /\ priv.status = "COMPLETED" => EndsShort'
  BY <1>1, <1>2 DEF DataInv, StatusInv
<1>6. priv.action = "ERROR" => priv.status # "COMPLETED"
  BY <1>1 DEF DataInv, StatusInv
<1>7. Submitting' /\ halted' /\ req.caps = "continuation" => EndsShort'
  BY <1>1, <1>2 DEF DataInv, StatusInv
<1>8. ASSUME Submitting', ~halted', NEW j \in 1 .. Num PROVE Status(j)' # "ENOENT"
  <2>1. CASE j \in D
    BY <1>8, <2>1 DEF Status
  <2>2. CASE j \notin D
    <3>1. Status(j) # "ENOENT"
      BY <1>1, <1>8 DEF DataInv, StatusInv
    <3> QED
      BY <1>1, <2>2, <3>1 DEF Status, SameFill
  <2> QED
    BY <2>1, <2>2
<1> QED
  BY <1>1, <1>3, <1>4, <1>5, <1>6, <1>7, <1>8 DEF StatusInv

\* The rest does not depend on why the kernel ends them.
LEMMA GrownData ==
  ASSUME UInv, DataInv, NEW D, NEW s, NEW i, NEW d, Grown(D, s, i, d), FillInv', StatusInv'
  PROVE  DataInv'
<1>1. /\ Num \in Nat /\ Num' = Num /\ UNCHANGED <<req, priv, accepted>>
      /\ report' = "none" /\ told' = "none"
      /\ \A j \in 1 .. Num : SameShape(j) /\ urb'[j].data \in 0 .. urb[j].len
  <2>1. Num' = Num /\ UNCHANGED <<req, priv, accepted>>
    BY DEF Grown
  <2> QED
    BY <2>1, GrownFacts
<1>2. LayoutInv'
  BY <1>1, LayoutStays DEF DataInv
<1>3. AcceptInv'
  BY <1>1 DEF DataInv, AcceptInv
<1>4. EndInv'
  BY <1>1, NoReport
<1> QED
  BY <1>2, <1>3, <1>4, ReapGrows, PlaceGrows, PacketGrows DEF DataInv

\* What an URB that ends is, with data or without.
LEMMA SetFacts ==
  ASSUME NEW i, NEW st, NEW status, NEW d, IsUrb(urb[i]),
         urb'[i] = SetData(urb[i], st, status, d)
  PROVE  SameShape(i) /\ urb'[i].st = st /\ urb'[i].status = status /\ urb'[i].data = d
<1> DEFINE u == urb[i]
<1>1. IsUrb(u) /\ urb'[i] = SetData(u, st, status, d)
  OBVIOUS
<1> HIDE DEF u
<1>2. urb'[i] = [first |-> u.first, len |-> u.len, cont |-> u.cont,
                 shortNotOk |-> u.shortNotOk, st |-> st, status |-> status, data |-> d]
  BY <1>1, DataSet
<1> QED
  BY <1>2 DEF SameShape, u

LEMMA LostFacts ==
  ASSUME NEW i, NEW st, NEW status, IsUrb(urb[i]),
         urb'[i] = SetStatus(urb[i], st, status)
  PROVE  /\ SameShape(i) /\ urb'[i].st = st /\ urb'[i].status = status
         /\ urb'[i].data = urb[i].data
<1> DEFINE u == urb[i]
<1>1. IsUrb(u) /\ urb'[i] = SetStatus(u, st, status)
  OBVIOUS
<1> HIDE DEF u
<1>2. urb'[i] = [first |-> u.first, len |-> u.len, cont |-> u.cont,
                 shortNotOk |-> u.shortNotOk, st |-> st, status |-> status, data |-> u.data]
  BY <1>1, FieldsKept DEF SetStatus
<1> QED
  BY <1>2 DEF SameShape, u

\* One URB ends.
LEMMA FinishedGrows ==
  ASSUME UInv, DataInv, NEW i \in Pending, NEW d \in 0 .. urb[i].len, NEW status,
         Finished(i, d, status),
         UNCHANGED <<req, reaping, priv, transferred, accepted, report, told>>,
         d > 0 => Served(i) /\ plugged /\ ~halted
  PROVE  /\ Grown({i}, <<i>>, i, d) /\ urb'[i].status = status /\ urb'[i].data = d
         /\ \A j \in 1 .. Num : j # i => urb'[j] = urb[j]
<1>1. /\ Num \in Nat /\ UrbsOK /\ i \in 1 .. Num /\ doneq \in Seq(1 .. Num)
      /\ urb = [j \in 1 .. Num |-> urb[j]] /\ IsUrb(urb[i])
  BY DEF UInv, UrbsOK, QueueInv, Pending
<1>2. urb' = [urb EXCEPT ![i].st = "done", ![i].status = status, ![i].data = d]
  BY DEF Finished
<1>3. Num' = Num /\ \A j \in 1 .. Num : j # i => urb'[j] = urb[j]
  BY <1>1, <1>2, Ended
<1>4. urb'[i] = SetData(urb[i], "done", status, d)
  BY <1>1, <1>2 DEF SetData
<1>5. SameShape(i) /\ urb'[i].st = "done" /\ urb'[i].status = status /\ urb'[i].data = d
  <2>1. IsUrb(urb[i])
    BY <1>1
  <2> QED
    BY <1>4, <2>1, SetFacts
<1>6. \A j \in 1 .. Num :
       /\ SameShape(j)
       /\ j \notin {i} => SameFill(j) /\ urb'[j].st = urb[j].st
       /\ j \in {i} => urb'[j].st = "done" /\ urb'[j].data = IF j = i THEN d ELSE 0
  BY <1>3, <1>5 DEF SameShape, SameFill
<1>7. /\ <<i>> \in Seq(1 .. Num) /\ Once(<<i>>) /\ \A j \in Int : Holds(<<i>>, j) <=> j \in {i}
      /\ doneq' = doneq \o <<i>>
  <2>1. doneq' = Append(doneq, i)
    BY DEF Finished
  <2>2. <<i>> \in Seq(1 .. Num) /\ Once(<<i>>) /\ Append(doneq, i) = doneq \o <<i>>
    BY <1>1, OneUrb
  <2>3. \A j \in Int : Holds(<<i>>, j) <=> j \in {i}
    BY <1>1, OneUrb
  <2> QED
    BY <2>1, <2>2, <2>3
<1>8. /\ arrived' = arrived + d
      /\ \A p \in Positions :
           out'[p] = IF req.type # "iso" /\ p \in urb[i].first + 1 .. urb[i].first + d
                       THEN arrived + p - urb[i].first ELSE out[p]
  BY DEF Finished
<1> QED
  BY <1>3, <1>5, <1>6, <1>7, <1>8 DEF Grown

\* An URB is filled, or a short packet ends it.
LEMMA CompletesData ==
  ASSUME UInv, DataInv, NEW i \in 1 .. Num, KernelCompletes(i) PROVE DataInv'
<1>1. PICK d \in 0 .. urb[i].len : /\ d < urb[i].len => ~(urb[i].shortNotOk)
                                   /\ Finished(i, d, "OK")
  BY DEF KernelCompletes
<1>2. /\ Served(i) /\ plugged /\ ~halted /\ i \in Pending
      /\ UNCHANGED <<req, job, reaping, report, priv, transferred, accepted, told, halted>>
  BY DEF KernelCompletes, KernelOnly, Served
<1>3. Grown({i}, <<i>>, i, d) /\ urb'[i].status = "OK" /\ urb'[i].data = d
  BY <1>1, <1>2, FinishedGrows
<1>4. Num \in Nat /\ urb[i].len \in Nat /\ d \in Nat /\ i \in 1 .. Len(urb) /\ Num = Len(urb)
  <2>1. Num \in Nat /\ Num = Len(urb)
    BY DataFacts DEF Num
  <2>2. urb[i].len \in Nat
    BY <2>1 DEF DataInv, LayoutInv, Laid
  <2> QED
    BY <1>1, <2>1, <2>2
<1>5. req.type = "bulk" /\ req.caps = "continuation" /\ i # Num => d = urb[i].len
  <2> SUFFICES ASSUME req.type = "bulk", req.caps = "continuation", i # Num PROVE d = urb[i].len
    OBVIOUS
  <2>1. urb[i].shortNotOk
    BY <1>4 DEF DataInv, LayoutInv, Laid
  <2> QED
    BY <1>1, <1>4, <2>1
<1>6. FillInv'
  BY <1>2, <1>3, <1>5, FillGrows DEF Failures
<1>7. StatusInv'
  <2>1. /\ Disordered' <=> Disordered
        /\ Discarding("reap")' <=> Discarding("reap")
        /\ Submitting' <=> Submitting
    BY <1>2 DEF Disordered, Discarding, Submitting
  <2>2. \A j \in {i} : urb'[j].status # "ENOENT"
    BY <1>3
  <2> QED
    BY <1>2, <1>3, <2>1, <2>2, StatusGrows
<1> QED
  BY <1>3, <1>6, <1>7, GrownData

\* The device goes.
LEMMA UnplugData == ASSUME UInv, DataInv, Unplug PROVE DataInv'
<1>1. PICK s \in InOrder(Pending) : doneq' = doneq \o s
  BY DEF Unplug
<1>2. /\ Num \in Nat /\ Pending \in SUBSET (1 .. Num) /\ UrbsOK
      /\ urb = [j \in 1 .. Num |-> urb[j]] /\ \A j \in 1 .. Num : IsUrb(urb[j])
      /\ doneq \in Seq(1 .. Num)
  BY Types DEF UInv, UrbsOK, QueueInv
<1>3. /\ plugged /\ plugged' = FALSE
      /\ UNCHANGED <<req, submits, flags, job, reaping, report, priv, out, transferred, arrived,
                     halted, accepted, told>>
  BY DEF Unplug
<1> DEFINE e(i) == IF i \in Pending THEN SetStatus(urb[i], "done", "SHUTDOWN") ELSE urb[i]
<1>4. urb' = [i \in 1 .. Num |-> e(i)]
  BY DEF Unplug, SetStatus
<1> HIDE DEF e
<1>5. /\ Num' = Num /\ urb' = [j \in 1 .. Num |-> urb'[j]]
      /\ \A j \in 1 .. Num : urb'[j] = e(j)
  BY <1>2, <1>4 DEF Num
<1>6. \A j \in 1 .. Num : /\ j \notin Pending => urb'[j] = urb[j]
                          /\ j \in Pending => urb'[j] = SetStatus(urb[j], "done", "SHUTDOWN")
  BY <1>5 DEF e
<1>7. /\ s \in Seq(1 .. Num) /\ Once(s) /\ \A j \in Int : Holds(s, j) <=> j \in Pending
  BY <1>1, <1>2, Ordered
<1>8. CASE Pending = {}
  <2>1. urb' = urb
    BY <1>2, <1>5, <1>6, <1>8
  <2>2. doneq' = doneq
    <3>1. \A j \in DOMAIN s : Holds(s, s[j]) /\ s[j] \in Int
      <4>1. DOMAIN s = 1 .. Len(s)
        BY <1>7
      <4>2. \A j \in DOMAIN s : s[j] \in 1 .. Num
        BY <1>7, <4>1, ElementOfSeq
      <4> QED
        BY <4>2 DEF Holds
    <3>2. DOMAIN s = {}
      BY <1>7, <1>8, <3>1
    <3>3. s = <<>>
      BY <1>7, <3>2
    <3> QED
      BY <1>1, <1>2, <3>3
  <2>3. /\ (Whole' <=> Whole) /\ (AllKept' <=> AllKept) /\ (Disordered' <=> Disordered)
        /\ (Submitting' <=> Submitting) /\ (Discarding("reap")' <=> Discarding("reap"))
    BY <1>3, <2>1 DEF Whole, AllKept, Num, Positions, Disordered, Submitting, Discarding
  <2>4. EndInv'
    BY <1>3, <2>3 DEF DataInv, EndInv
  <2> QED
    BY <1>3, <2>1, <2>2, <2>3, <2>4, SameAll, HandedOn
<1>9. CASE Pending # {}
  <2>1. PICK i \in Pending : TRUE
    BY SMTT(30), <1>9
  <2>2. \A j \in Pending : /\ SameShape(j) /\ urb'[j].st = "done" /\ urb'[j].status = "SHUTDOWN"
                           /\ urb'[j].data = urb[j].data
    <3> SUFFICES ASSUME NEW j \in Pending
                 PROVE  /\ SameShape(j) /\ urb'[j].st = "done" /\ urb'[j].status = "SHUTDOWN"
                        /\ urb'[j].data = urb[j].data
      OBVIOUS
    <3>1. IsUrb(urb[j]) /\ urb'[j] = SetStatus(urb[j], "done", "SHUTDOWN")
      BY <1>2, <1>6
    <3> QED
      BY <3>1, LostFacts
  <2>3. \A j \in Pending : urb[j].data = 0
    BY <1>2 DEF DataInv, FillInv, Returned, St, Data, Pending
  <2>4. \A j \in 1 .. Num :
          /\ SameShape(j)
          /\ j \notin Pending => SameFill(j) /\ urb'[j].st = urb[j].st
          /\ j \in Pending => urb'[j].st = "done" /\ urb'[j].data = IF j = i THEN 0 ELSE 0
    BY <1>6, <2>2, <2>3 DEF SameShape, SameFill
  <2>5. 0 \in 0 .. urb[i].len /\ i \in 1 .. Num
    <3>1. i \in 1 .. Len(urb)
      BY <1>2 DEF Num
    <3>2. urb[i].len \in Nat
      BY <3>1 DEF DataInv, LayoutInv, Laid
    <3> QED
      BY <1>2, <3>2
  <2>6. req.type = "bulk" => arrived' = arrived + 0
    <3> SUFFICES ASSUME req.type = "bulk" PROVE arrived \in Nat
      BY <1>3
    <3>1. priv.urbs
      BY <2>5, DataFacts DEF Pending, St
    <3>2. PICK base \in [1 .. Num + 1 -> 0 .. arrived], bound \in 1 .. Num + 1 :
                 Placed(base, bound)
      BY <3>1 DEF DataInv, PlaceInv, Located
    <3> QED
      BY <2>5, <3>2, PlacedBounds
  <2>7. \A p \in Positions :
          out'[p] = IF req.type # "iso" /\ p \in urb[i].first + 1 .. urb[i].first + 0
                      THEN arrived + p - urb[i].first ELSE out[p]
    <3>1. urb[i].first \in Nat
      <4>1. i \in 1 .. Len(urb)
        BY <2>5 DEF Num
      <4> QED
        BY <4>1 DEF DataInv, LayoutInv, Laid
    <3>2. \A p \in Positions : p \notin urb[i].first + 1 .. urb[i].first + 0
      BY <3>1
    <3> QED
      BY <1>3, <3>2
  <2>8. Grown(Pending, s, i, 0)
    BY <1>1, <1>3, <1>5, <1>7, <2>4, <2>5, <2>6, <2>7 DEF Grown
  <2>9. FillInv'
    BY <1>3, <2>2, <2>8, FillGrows DEF Failures
  <2>10. StatusInv'
    <3>1. /\ Disordered' <=> Disordered
          /\ Discarding("reap")' <=> Discarding("reap")
          /\ Submitting' <=> Submitting
      BY <1>3 DEF Disordered, Discarding, Submitting
    <3>2. \A j \in Pending : urb'[j].status # "ENOENT"
      BY <2>2
    <3> HIDE DEF Pending
    <3> QED
      BY <1>3, <2>8, <3>1, <3>2, StatusGrows
  <2> QED
    BY <2>8, <2>9, <2>10, GrownData
<1> QED
  BY <1>8, <1>9

\* An URB fails, and in a continued transfer those behind it are cancelled.
LEMMA FailsGrows ==
  ASSUME UInv, DataInv, NEW i \in 1 .. Num,
         NEW status \in {"REMOTEIO", "PIPE", "OVERFLOW", "PROTO"}, KernelFails(i, status)
  PROVE  \E lost \in SUBSET Pending, s \in Seq(1 .. Num), k \in 0 .. urb[i].len :
           /\ Grown({i} \union lost, s, i, k)
           /\ urb'[i].status = status /\ urb'[i].data = k
           /\ status = "REMOTEIO" => k < urb[i].len
           /\ \A j \in lost : i < j /\ urb'[j].status = "ENOENT" /\ urb'[j].data = 0
<1> DEFINE cancels == req.caps = "continuation"
           lost == {j \in Pending : cancels /\ j > i}
           D == {i} \union lost
           d == IF status = "REMOTEIO" THEN 0 .. urb[i].len - 1 ELSE {0, urb[i].len}
<1>1. PICK k \in d : LET after == [urb EXCEPT ![i].st = "done", ![i].status = status, ![i].data = k]
       IN /\ urb' = [j \in 1 .. Num |->
                       IF j \in lost THEN [after[j] EXCEPT !.st = "done", !.status = "ENOENT"]
                       ELSE after[j]]
          /\ \E behind \in InOrder(lost) : doneq' = Append(doneq, i) \o behind
          /\ out' = [p \in Positions |->
                       IF req.type # "iso" /\ p \in urb[i].first + 1 .. urb[i].first + k
                         THEN arrived + p - urb[i].first ELSE out[p]]
          /\ arrived' = arrived + k
  BY DEF KernelFails
<1>2. PICK behind \in InOrder(lost) : doneq' = Append(doneq, i) \o behind
  BY <1>1
<1>3. /\ Num \in Nat /\ doneq \in Seq(1 .. Num) /\ UrbsOK /\ Pending \in SUBSET (1 .. Num)
      /\ urb = [j \in 1 .. Num |-> urb[j]] /\ \A j \in 1 .. Num : IsUrb(urb[j])
  BY Types DEF UInv, UrbsOK, QueueInv
<1>4. /\ Served(i) /\ i \in Pending /\ plugged /\ ~halted
      /\ UNCHANGED <<req, submits, flags, job, reaping, report, priv, transferred, plugged,
                     accepted, told>>
  BY DEF KernelFails, KernelOnly, Served
<1>5. urb[i].len \in Nat /\ urb[i].first \in Nat /\ k \in 0 .. urb[i].len
      /\ (status = "REMOTEIO" => k < urb[i].len)
  <2>1. i \in 1 .. Len(urb)
    BY DEF Num
  <2>2. urb[i].len \in Nat /\ urb[i].first \in Nat
    BY <2>1 DEF DataInv, LayoutInv, Laid
  <2>3. CASE status = "REMOTEIO"
    <3>1. k \in 0 .. urb[i].len - 1
      BY <2>3
    <3> QED
      BY <2>2, <3>1
  <2>4. CASE status # "REMOTEIO"
    <3>1. k = 0 \/ k = urb[i].len
      BY <2>4
    <3> QED
      BY <2>2, <2>4, <3>1
  <2> QED
    BY <2>2, <2>3, <2>4
<1> HIDE DEF cancels, d
<1> DEFINE after == [urb EXCEPT ![i].st = "done", ![i].status = status, ![i].data = k]
           e(j) == IF j \in lost THEN SetStatus(after[j], "done", "ENOENT") ELSE after[j]
<1>6. urb' = [j \in 1 .. Num |-> e(j)]
  BY <1>1 DEF SetStatus
<1>7. /\ after[i] = SetData(urb[i], "done", status, k)
      /\ \A j \in 1 .. Num : j # i => after[j] = urb[j]
  BY <1>3 DEF SetData
<1>8. i \notin lost /\ lost \in SUBSET (1 .. Num) /\ lost \in SUBSET Pending
      /\ \A j \in lost : i < j
  BY <1>3
<1> HIDE DEF after, lost
<1>9. /\ e(i) = SetData(urb[i], "done", status, k)
      /\ \A j \in lost : e(j) = SetStatus(urb[j], "done", "ENOENT")
      /\ \A j \in 1 .. Num : j # i /\ j \notin lost => e(j) = urb[j]
  BY <1>7, <1>8
<1> HIDE DEF e
<1>10. Num' = Num /\ \A j \in 1 .. Num : urb'[j] = e(j)
  BY <1>3, <1>6 DEF Num
<1>11. SameShape(i) /\ urb'[i].st = "done" /\ urb'[i].status = status /\ urb'[i].data = k
  <2>1. IsUrb(urb[i]) /\ urb'[i] = SetData(urb[i], "done", status, k)
    BY <1>3, <1>9, <1>10
  <2> QED
    BY <2>1, SetFacts
<1>12. ASSUME NEW j \in lost
       PROVE  /\ SameShape(j) /\ urb'[j].st = "done" /\ urb'[j].status = "ENOENT"
              /\ urb'[j].data = 0
  <2>1. IsUrb(urb[j]) /\ urb'[j] = SetStatus(urb[j], "done", "ENOENT") /\ j \in 1 .. Num
    BY <1>3, <1>8, <1>9, <1>10
  <2>2. urb[j].data = 0
    <3>1. ~Returned(j)
      BY <1>8 DEF Pending, Returned, St
    <3> QED
      BY <2>1, <3>1 DEF DataInv, FillInv, Data
  <2> QED
    BY <2>1, <2>2, LostFacts
<1>13. \A j \in 1 .. Num : j \notin D => urb'[j] = urb[j]
  BY <1>10, <1>9
<1>14. \A j \in 1 .. Num :
         /\ SameShape(j)
         /\ j \notin D => SameFill(j) /\ urb'[j].st = urb[j].st
         /\ j \in D => urb'[j].st = "done" /\ urb'[j].data = IF j = i THEN k ELSE 0
  <2> SUFFICES ASSUME NEW j \in 1 .. Num
               PROVE  /\ SameShape(j)
                      /\ j \notin D => SameFill(j) /\ urb'[j].st = urb[j].st
                      /\ j \in D => urb'[j].st = "done" /\ urb'[j].data = IF j = i THEN k ELSE 0
    OBVIOUS
  <2>1. CASE j = i
    BY <1>11, <2>1
  <2>2. CASE j \in lost
    BY <1>8, <1>12, <2>2
  <2>3. CASE j \notin D
    BY <1>13, <2>3 DEF SameShape, SameFill
  <2> QED
    BY <2>1, <2>2, <2>3
<1> DEFINE s == <<i>> \o behind
<1>15. /\ s \in Seq(1 .. Num) /\ Once(s)
       /\ \A j \in Int : Holds(s, j) <=> j \in D
       /\ doneq' = doneq \o s
  <2>1. /\ <<i>> \in Seq(1 .. Num) /\ Once(<<i>>)
        /\ \A j \in Int : Holds(<<i>>, j) <=> j \in {i}
        /\ Append(doneq, i) = doneq \o <<i>>
    BY <1>3, OneUrb
  <2>2. /\ behind \in Seq(1 .. Num) /\ Once(behind)
        /\ \A j \in Int : Holds(behind, j) <=> j \in lost
    BY <1>3, <1>8, Ordered
  <2>3. \A j \in 1 .. Num : ~(Holds(<<i>>, j) /\ Holds(behind, j))
    BY <1>8, <2>1, <2>2
  <2>4. (doneq \o <<i>>) \o behind = doneq \o (<<i>> \o behind)
    BY <1>3, <2>1, <2>2, ConcatAssociative, SMTT(30)
  <2>5. /\ s \in Seq(1 .. Num) /\ Once(s)
        /\ \A j \in Int : Holds(s, j) <=> Holds(<<i>>, j) \/ Holds(behind, j)
    BY <1>3, <2>1, <2>2, <2>3, Joined
  <2>6. \A j \in Int : Holds(s, j) <=> j \in D
    BY <2>1, <2>2, <2>5
  <2> QED
    BY <1>2, <2>1, <2>4, <2>5, <2>6
<1>16. /\ arrived' = arrived + k
       /\ \A p \in Positions :
            out'[p] = IF req.type # "iso" /\ p \in urb[i].first + 1 .. urb[i].first + k
                        THEN arrived + p - urb[i].first ELSE out[p]
  BY <1>1
<1>17. D \in SUBSET Pending /\ i \in D
  BY <1>4, <1>8
<1> HIDE DEF s
<1>18. Grown({i} \union lost, s, i, k)
  BY <1>4, <1>5, <1>10, <1>14, <1>15, <1>16, <1>17 DEF Grown
<1>19. /\ lost \in SUBSET Pending /\ s \in Seq(1 .. Num) /\ k \in 0 .. urb[i].len
       /\ urb'[i].status = status /\ urb'[i].data = k
       /\ status = "REMOTEIO" => k < urb[i].len
       /\ \A j \in lost : i < j /\ urb'[j].status = "ENOENT" /\ urb'[j].data = 0
  BY <1>5, <1>8, <1>11, <1>12, <1>15
<1> QED
  BY <1>18, <1>19

\* The first URB fails, and with BULK_CONTINUATION those behind it end too.
LEMMA FailsData ==
  ASSUME UInv, DataInv, Races = {}, NEW i \in 1 .. Num,
         NEW status \in {"REMOTEIO", "PIPE", "OVERFLOW", "PROTO"}, KernelFails(i, status)
  PROVE  DataInv'
<1>1. PICK lost \in SUBSET Pending, s \in Seq(1 .. Num), k \in 0 .. urb[i].len :
           /\ Grown({i} \union lost, s, i, k)
           /\ urb'[i].status = status /\ urb'[i].data = k
           /\ status = "REMOTEIO" => k < urb[i].len
           /\ \A j \in lost : i < j /\ urb'[j].status = "ENOENT" /\ urb'[j].data = 0
  BY FailsGrows
<1> DEFINE D == {i} \union lost
<1>2. /\ Served(i) /\ i \in Pending /\ plugged /\ ~halted /\ halted' = (req.type # "iso")
      /\ UNCHANGED <<req, job, priv>>
      /\ status = "REMOTEIO" => req.caps = "continuation" /\ urb[i].shortNotOk
      /\ status = "OVERFLOW" => i = Num /\ ~Submitting
      /\ status \in {"PIPE", "PROTO"} /\ req.caps = "continuation" => ~Submitting
      /\ status \in Failures
  BY DEF KernelFails, KernelOnly, Served, Submitting, Failures
<1>3. /\ Num \in Nat /\ i \in 1 .. Num /\ Num' = Num /\ D \in SUBSET (1 .. Num)
      /\ \A j \in 1 .. Num : SameShape(j) /\ urb'[j].data \in 0 .. urb[j].len
      /\ \A j \in 1 .. Num : Returned(j) => Returned(j)' /\ j \notin D /\ SameFill(j)
      /\ \A j \in 1 .. Num : St(j) \in {"new", "pending", "done", "retired"}
  <2>1. Num' = Num
    BY <1>1 DEF Grown
  <2> QED
    BY <1>1, <2>1, GrownFacts, DataFacts
<1>4. \A j \in D : urb'[j].status = IF j = i THEN status ELSE "ENOENT"
  BY <1>1
<1>5. FillInv'
  <2>1. \A j \in D :
           /\ urb'[j].status = "REMOTEIO" => urb'[j].data < urb[j].len
           /\ req.type = "bulk" /\ urb'[j].status \in Failures => halted'
           /\ urb'[j].status # "OK"
    BY <1>1, <1>2, <1>4 DEF Failures
  <2> HIDE DEF D
  <2>2. Grown(D, s, i, k)
    BY <1>1 DEF D
  <2> QED
    BY <1>2, <2>1, <2>2, FillGrows
<1>6. /\ Disordered' <=> Disordered
      /\ Discarding("reap")' <=> Discarding("reap")
      /\ Submitting' <=> Submitting
  BY <1>2 DEF Disordered, Discarding, Submitting
<1>7. \A j \in D : urb'[j].status = "ENOENT" =>
         \E m \in 1 .. j - 1 : urb'[m].status \notin {"OK", "ENOENT"}
  <2> SUFFICES ASSUME NEW j \in D, urb'[j].status = "ENOENT"
               PROVE  i \in 1 .. j - 1 /\ urb'[i].status \notin {"OK", "ENOENT"}
    OBVIOUS
  <2>1. j # i
    BY <1>1
  <2>2. i < j /\ j \in 1 .. Num
    BY <1>1, <1>3, <2>1
  <2> QED
    BY <1>1, <1>3, <2>2
<1>8. req.type = "bulk" /\ Submitting' /\ req.caps = "continuation" => EndsShort'
  <2> SUFFICES ASSUME req.type = "bulk", Submitting, req.caps = "continuation" PROVE EndsShort'
    BY <1>6
  <2>1. status = "REMOTEIO" /\ k < urb[i].len
    BY <1>1, <1>2
  <2>2. i < Num
    <3>1. PICK n \in 1 .. Num : job = [do |-> "submit", i |-> n]
      BY DEF UInv, JobOK, Submitting, NoJob
    <3>2. St(Num) = "new"
      <4>1. Num \in 1 .. Num /\ Num >= job.i
        BY <1>3, <3>1
      <4> QED
        BY <4>1 DEF UInv, SubmitInv
    <3>3. i # Num
      BY <1>2, <3>2 DEF Pending, St
    <3> QED
      BY <1>3, <3>3
  <2>3. ASSUME NEW j \in 1 .. i - 1 PROVE Returned(j) /\ Status(j) = "OK" /\ Full(j)
    <3>1. j \in 1 .. Num /\ j < i /\ i \in j .. Num /\ j # Num
      BY <1>3, <2>2
    <3>2. St(i) = "pending"
      BY <1>2 DEF Pending, St
    <3>3. St(j) # "pending" /\ St(j) # "new"
      <4>1. St(j) # "pending"
        BY <1>2, <1>3, <3>1 DEF Served, Pending, St
      <4>2. St(j) = "new" => St(i) = "new"
        BY <3>1 DEF DataInv, FillInv
      <4> QED
        BY <3>2, <4>1, <4>2
    <3>4. Returned(j)
      BY <1>3, <3>1, <3>3 DEF Returned
    <3>5. Status(j) \in Statuses /\ (Status(j) = "SHUTDOWN" => ~plugged)
      BY <3>1 DEF UInv, KernelInv, Status
    <3>6. Status(j) \notin Failures /\ Status(j) # "ENOENT" /\ Status(j) # "SHUTDOWN"
      <4>1. Status(j) \notin Failures
        BY <1>2, <3>1 DEF DataInv, FillInv
      <4>2. priv.urbs
        BY DataFacts DEF Submitting, NoJob
      <4>3. Status(j) # "ENOENT"
        BY <1>2, <3>1, <4>2 DEF DataInv, StatusInv
      <4> QED
        BY <1>2, <3>5, <4>1, <4>3
    <3>7. Status(j) = "OK"
      BY <3>5, <3>6 DEF Statuses, Failures
    <3>8. Full(j)
      <4>1. priv.urbs
        BY DataFacts DEF Submitting, NoJob
      <4> QED
        BY <3>1, <3>4, <3>7, <4>1 DEF DataInv, FillInv
    <3> QED
      BY <3>4, <3>7, <3>8
  <2>4. \A j \in 1 .. i - 1 : Returned(j)' /\ Status(j)' = "OK" /\ Full(j)'
    <3> SUFFICES ASSUME NEW j \in 1 .. i - 1 PROVE Returned(j)' /\ Status(j)' = "OK" /\ Full(j)'
      OBVIOUS
    <3>1. j \in 1 .. Num /\ Returned(j) /\ Status(j) = "OK" /\ Full(j)
      BY <1>3, <2>3
    <3>2. Returned(j)' /\ SameShape(j) /\ SameFill(j)
      BY <1>3, <3>1
    <3> QED
      BY <3>1, <3>2 DEF Status, Full, Data, Length, SameShape, SameFill
  <2>5. Data(i)' < Length(i)' /\ Status(i)' = "REMOTEIO" /\ Returned(i)'
    <3>1. urb'[i].st = "done"
      BY <1>1 DEF Grown
    <3> QED
      BY <1>1, <1>3, <2>1, <3>1 DEF Data, Length, Status, Returned, St, SameShape
  <2>6. \A j \in 1 .. i : j = i \/ j \in 1 .. i - 1
    BY <1>3
  <2>7. ShortAt(i)'
    BY <1>3, <2>2, <2>4, <2>5, <2>6 DEF ShortAt
  <2> QED
    BY <1>3, <2>7 DEF EndsShort
<1>9. StatusInv'
  <2>1. Submitting' /\ ~halted' => req.type # "bulk"
    BY <1>2
  <2> SUFFICES ASSUME req.type = "bulk" PROVE StatusInv'
    BY <1>2 DEF StatusInv
  <2>2. Grown(D, s, i, k)
    BY <1>1
  <2> HIDE DEF D
  <2> QED
    BY <1>6, <1>7, <1>8, <2>1, <2>2, StatusGrows
<1>10. Grown(D, s, i, k)
  BY <1>1
<1> HIDE DEF D
<1> QED
  BY <1>5, <1>9, <1>10, GrownData

\* DISCARDURB.
LEMMA DiscardUrbData == ASSUME UInv, DataInv, DiscardUrb PROVE DataInv'
<1> DEFINE i == job.i
<1> SUFFICES ASSUME plugged, i \in Pending PROVE DataInv'
  BY DiscardNothing
<1>1. /\ job.do = "discard" /\ i >= job.first
      /\ UNCHANGED <<req, reaping, report, priv, transferred, halted, plugged, accepted, told>>
  BY DEF DiscardUrb
<1>2. PICK d \in 0 .. urb[i].len : /\ d = 0 \/ (Served(i) /\ ~halted /\ d < urb[i].len)
                                   /\ Finished(i, d, "ENOENT")
  BY DEF DiscardUrb
<1>3. job' = NextJob(job.ret)
  <2>1. job' = [job EXCEPT !.i = @ - 1]
    BY DEF DiscardUrb
  <2> QED
    BY <1>1, <2>1, DiscardJob DEF NextJob
<1>4. /\ job.first \in 1 .. Num /\ job.last \in 1 .. Num /\ i \in job.first - 1 .. job.last
      /\ job.ret \in Returns /\ job.who \in {"submit", "cancel", "reap"} /\ ~Submitting
      /\ job # NoJob
  BY <1>1, DiscardJob
<1>5. /\ Grown({i}, <<i>>, i, d) /\ urb'[i].status = "ENOENT"
      /\ i \in 1 .. Num /\ Num \in Nat /\ Num' = Num
  <2>1. i \in 1 .. Num /\ Num \in Nat
    BY DataFacts DEF Pending
  <2>2. d > 0 => Served(i) /\ plugged /\ ~halted
    BY <1>2
  <2> HIDE DEF i
  <2>3. Grown({i}, <<i>>, i, d) /\ urb'[i].status = "ENOENT"
    BY <1>1, <1>2, <2>2, FinishedGrows
  <2> QED
    BY <2>1, <2>3 DEF Grown
<1>6. /\ ~(Submitting') /\ \A who : Discarding(who)' <=> Discarding(who)
      /\ job'.last = job.last /\ job'.i = i - 1 /\ job'.ret = job.ret /\ job'.i < job'.last
  BY <1>1, <1>3, <1>4, <1>5, JobStep
<1> HIDE DEF i
<1>7. FillInv'
  BY <1>1, <1>5, FillGrows DEF Failures
<1>8. priv.action = "NORMAL" /\ priv.status = "COMPLETED" /\ req.type = "bulk" => Disordered'
  <2> SUFFICES ASSUME priv.action = "NORMAL", priv.status = "COMPLETED", req.type = "bulk"
               PROVE  Disordered'
    OBVIOUS
  <2>1. ~Discarding("submit")
    BY DEF UInv, CancelInv
  <2>2. priv.urbs
    BY <1>4, DataFacts
  <2>3. ~Discarding("reap")
    <3> SUFFICES ASSUME Discarding("reap") PROVE FALSE
      OBVIOUS
    <3>1. ~Disordered
      BY DEF Disordered, Discarding
    <3> QED
      BY <2>2, <3>1 DEF DataInv, StatusInv
  <2>4. Discarding("cancel")
    BY <1>1, <1>4, <2>1, <2>3 DEF Discarding
  <2>5. job.ret = "OK"
    <3>1. i = job.last => job.ret = "OK"
      BY <2>4 DEF UInv, CancelInv, i
    <3>2. i < job.last /\ job.ret # "OK" => \A j \in 1 .. Num : St(j) # "pending"
      BY <2>4 DEF UInv, CancelInv, i
    <3>3. St(i) = "pending"
      BY DEF Pending, St
    <3> QED
      BY <1>4, <1>5, <3>1, <3>2, <3>3
  <2> QED
    BY <1>6, <2>4, <2>5 DEF Disordered
<1>9. StatusInv'
  BY <1>5, <1>6, <1>8, StatusGrows
<1> QED
  BY <1>5, <1>7, <1>9, GrownData

-----------------------------------------------------------------------------
(* The other steps of the library.                                           *)

\* What assigning fields of linux_transfer_priv leaves.
LEMMA PrivRecords ==
  ASSUME NEW w, IsPriv(w), NEW r, NEW s, NEW a
  PROVE  /\ SetRetired(w, r) = [urbs |-> w.urbs, action |-> w.action, retired |-> r,
                                status |-> w.status, packet |-> w.packet]
         /\ SetField(w, r, s) = [urbs |-> w.urbs, action |-> w.action, retired |-> r,
                                 status |-> s, packet |-> w.packet]
         /\ SetPacket(w, r, s) = [urbs |-> w.urbs, action |-> w.action, retired |-> r,
                                  status |-> w.status, packet |-> s]
         /\ SetAction(w, r, s, a) = [urbs |-> w.urbs, action |-> a, retired |-> r,
                                     status |-> s, packet |-> w.packet]
<1> DEFINE x == [urbs |-> w.urbs, action |-> w.action, retired |-> w.retired,
                 status |-> w.status, packet |-> w.packet]
           y == [urbs |-> w.urbs, action |-> w.action, retired |-> r,
                 status |-> w.status, packet |-> w.packet]
           m == [urbs |-> w.urbs, action |-> w.action, retired |-> r,
                 status |-> s, packet |-> w.packet]
           n == [urbs |-> w.urbs, action |-> w.action, retired |-> r,
                 status |-> w.status, packet |-> s]
           z == [urbs |-> w.urbs, action |-> a, retired |-> r,
                 status |-> s, packet |-> w.packet]
<1>1. w = x
  BY DEF IsPriv
<1>2. [x EXCEPT !.retired = r] = y
  OBVIOUS
<1>3. [y EXCEPT !.status = s] = m
  OBVIOUS
<1>4. [y EXCEPT !.packet = s] = n
  OBVIOUS
<1>5. [m EXCEPT !.action = a] = z
  OBVIOUS
<1>6. /\ SetRetired(x, r) = [x EXCEPT !.retired = r]
      /\ SetField(x, r, s) = [[x EXCEPT !.retired = r] EXCEPT !.status = s]
      /\ SetPacket(x, r, s) = [[x EXCEPT !.retired = r] EXCEPT !.packet = s]
      /\ SetAction(x, r, s, a) =
           [[[x EXCEPT !.retired = r] EXCEPT !.status = s] EXCEPT !.action = a]
  BY DEF SetRetired, SetField, SetPacket, SetAction
<1> HIDE DEF x, y, m, n, z
<1>7. SetRetired(w, r) = y
  BY <1>1, <1>2, <1>6
<1>8. SetField(w, r, s) = m
  BY <1>1, <1>2, <1>3, <1>6
<1>9. SetPacket(w, r, s) = n
  BY <1>1, <1>2, <1>4, <1>6
<1>10. SetAction(w, r, s, a) = z
  BY <1>1, <1>2, <1>3, <1>5, <1>6
<1> QED
  BY <1>7, <1>8, <1>9, <1>10 DEF y, m, n, z

\* An URB is taken from the queue.
LEMMA ReapData == ASSUME UInv, DataInv, Reap PROVE DataInv'
<1>1. /\ reaping = 0 /\ doneq # <<>> /\ reaping' = Head(doneq) /\ doneq' = Tail(doneq)
      /\ UNCHANGED <<req, submits, flags, job, urb, report, priv, out, transferred, arrived,
                     halted, plugged, accepted, told>>
  BY DEF Reap
<1>2. Num \in Nat /\ Num' = Num /\ doneq \in Seq(1 .. Num) /\ Len(doneq) \in Nat \ {0}
      /\ \A i \in 1 .. Num : urb[i].data \in 0 .. urb[i].len
  BY <1>1, DataFacts DEF Num
<1>3. /\ \A i \in 1 .. Num :
           /\ SameShape(i) /\ SameFill(i)
           /\ Returned(i) <=> urb'[i].st \in {"done", "retired"}
           /\ urb'[i].st = "retired" <=> St(i) = "retired"
           /\ urb'[i].st = "new" => \A j \in i .. Num : urb'[j].st = "new"
  BY <1>1, SameAll
<1>4. LayoutInv'
  BY <1>1, <1>2, <1>3, LayoutStays DEF DataInv, SameFill
<1>5. FillInv'
  BY <1>1, <1>2, <1>3, FillStays DEF DataInv
<1>6. PlaceInv'
  BY <1>1, <1>2, <1>3, PlaceStays DEF DataInv, SameFill
<1>7. StatusInv'
  BY <1>1, <1>2, <1>3, StatusStays DEF DataInv, Disordered, Discarding, Submitting
<1>8. PacketInv'
  BY <1>1, <1>2, <1>3, PacketStays DEF DataInv
<1>9. AcceptInv'
  BY <1>1 DEF DataInv, AcceptInv
<1>10. priv.urbs
  <2>1. Holds(doneq, Head(doneq)) /\ Head(doneq) \in 1 .. Num
    BY <1>1, <1>2, Taken DEF UInv, QueueInv
  <2>2. St(Head(doneq)) = "done"
    BY <2>1 DEF UInv, QueueInv
  <2> QED
    BY <2>1, <2>2, DataFacts
<1>11. EndInv'
  BY <1>1, <1>10, DataFacts, NoReport
<1>12. ReapInv'
  <2> SUFFICES ASSUME req.type = "bulk"
               PROVE  /\ \A m, n \in DOMAIN doneq' :
                           m < n /\ urb[doneq'[m]].data > 0 /\ urb[doneq'[n]].data > 0
                             => doneq'[m] < doneq'[n]
                      /\ reaping' # 0 /\ urb[reaping'].data > 0 =>
                           \A i \in 1 .. Num : Holds(doneq', i) /\ urb[i].data > 0 => reaping' < i
    BY <1>1, <1>2 DEF ReapInv, Data, Holds
  <2>1. \A m, n \in DOMAIN doneq :
          m < n /\ urb[doneq[m]].data > 0 /\ urb[doneq[n]].data > 0 => doneq[m] < doneq[n]
    BY <1>10 DEF DataInv, ReapInv, Data
  <2>2. /\ \A m \in DOMAIN doneq' : m + 1 \in DOMAIN doneq /\ doneq'[m] = doneq[m + 1] /\ m \in Nat
                                    /\ m > 0
        /\ reaping' = doneq[1] /\ 1 \in DOMAIN doneq
    BY <1>1, <1>2
  <2>3. ASSUME NEW m \in DOMAIN doneq', NEW n \in DOMAIN doneq',
               m < n, urb[doneq'[m]].data > 0, urb[doneq'[n]].data > 0
        PROVE  doneq'[m] < doneq'[n]
    BY <2>1, <2>2, <2>3
  <2>4. ASSUME urb[reaping'].data > 0, NEW i \in 1 .. Num, Holds(doneq', i), urb[i].data > 0
        PROVE  reaping' < i
    <3>1. PICK n \in DOMAIN doneq' : doneq'[n] = i
      BY <2>4 DEF Holds
    <3>2. n + 1 \in DOMAIN doneq /\ doneq[n + 1] = i /\ 1 < n + 1
      BY <2>2, <3>1
    <3> QED
      BY <2>1, <2>2, <2>4, <3>2
  <2> QED
    BY <2>3, <2>4
<1> QED
  BY <1>4, <1>5, <1>6, <1>7, <1>8, <1>9, <1>11, <1>12 DEF DataInv

\* The transfer is marked, its URBs are what they were.
LEMMA MarkedData ==
  ASSUME UInv, DataInv, priv.urbs, priv'.urbs, urb' = urb,
         UNCHANGED <<req, doneq, reaping, report, out, transferred, arrived, halted, plugged, told>>,
         priv'.action # "NORMAL", priv'.action = "ERROR" => priv'.status # "COMPLETED",
         priv'.action = "COMPLETED_EARLY" /\ req.type = "bulk" => EndsShort,
         ~(Submitting'), AcceptInv'
  PROVE  DataInv'
<1>1. Num \in Nat /\ Num' = Num /\ doneq \in Seq(1 .. Num) /\ reaping \in 0 .. Num
      /\ \A i \in 1 .. Num : urb[i].data \in 0 .. urb[i].len
  BY DataFacts DEF Num
<1>2. /\ \A i \in 1 .. Num :
           /\ SameShape(i) /\ SameFill(i)
           /\ Returned(i) <=> urb'[i].st \in {"done", "retired"}
           /\ urb'[i].st = "retired" <=> St(i) = "retired"
           /\ urb'[i].st = "new" => \A j \in i .. Num : urb'[j].st = "new"
  BY SameAll
<1>3. LayoutInv'
  BY <1>1, <1>2, LayoutStays DEF DataInv, SameFill
<1>4. FillInv'
  BY <1>1, <1>2, FillStays DEF DataInv
<1>5. PlaceInv'
  BY <1>1, <1>2, PlaceStays DEF DataInv, SameFill
<1>6. ReapInv'
  BY <1>1, <1>2, OrderStays DEF DataInv, SameFill
<1>7. StatusInv'
  <2>1. EndsShort => EndsShort'
    BY <1>1, <1>2, EndsShortStays
  <2> QED
    BY <2>1 DEF StatusInv
<1>8. PacketInv'
  BY DEF PacketInv
<1>9. EndInv'
  BY DataFacts, NoReport
<1> QED
  BY <1>3, <1>4, <1>5, <1>6, <1>7, <1>8, <1>9 DEF DataInv

\* A later SUBMITURB fails: with EREMOTEIO the transfer has ended early.
LEMMA LaterFailsData == ASSUME UInv, DataInv, LaterFails PROVE DataInv'
<1>1. PICK k \in 1 .. Num : k = job.i
  BY DEF LaterFails, UInv, JobOK, NoJob
<1> DEFINE early == halted /\ urb[k].cont
           a == IF early THEN "COMPLETED_EARLY" ELSE "SUBMIT_FAILED"
           n == priv.retired + NotSubmitted
<1>2. /\ Submitting /\ job # NoJob
      /\ priv' = [priv EXCEPT !.action = a, !.retired = n]
      /\ job' = NoJob \/ job' = Discard(1, k - 1, "submit")
      /\ UNCHANGED <<req, submits, urb, doneq, reaping, report, out, transferred, arrived,
                     halted, plugged, accepted, told>>
  BY <1>1 DEF LaterFails, Submitting, NoJob
<1>3. priv.urbs /\ priv.action = "NORMAL"
  BY <1>2, DataFacts DEF UInv, SubmitInv
<1>4. priv'.urbs = TRUE /\ priv'.action = a
  <2> HIDE DEF a, n
  <2> DEFINE w == [urbs |-> priv.urbs, action |-> priv.action, retired |-> priv.retired,
                   status |-> priv.status, packet |-> priv.packet]
             x == [urbs |-> priv.urbs, action |-> a, retired |-> priv.retired,
                   status |-> priv.status, packet |-> priv.packet]
  <2>1. [priv EXCEPT !.action = a] = x
    BY PrivSet DEF UInv
  <2>2. priv' = [[priv EXCEPT !.action = a] EXCEPT !.retired = n]
    BY <1>2
  <2>3. [x EXCEPT !.retired = n] = [urbs |-> priv.urbs, action |-> a, retired |-> n,
                                    status |-> priv.status, packet |-> priv.packet]
    OBVIOUS
  <2>4. priv.urbs = TRUE
    BY <1>3, DataFacts
  <2> HIDE DEF x
  <2>5. priv' = [urbs |-> priv.urbs, action |-> a, retired |-> n,
                 status |-> priv.status, packet |-> priv.packet]
    BY <2>1, <2>2, <2>3
  <2> QED
    BY <2>4, <2>5
<1>5. a = "COMPLETED_EARLY" /\ req.type = "bulk" => EndsShort
  <2> SUFFICES ASSUME early, req.type = "bulk" PROVE EndsShort
    OBVIOUS
  <2>1. k \in 1 .. Len(urb)
    BY DEF Num
  <2>2. req.caps = "continuation"
    BY <2>1 DEF DataInv, LayoutInv, Laid
  <2> QED
    BY <1>2, <1>3, <2>2 DEF DataInv, StatusInv
<1>6. ~(Submitting')
  BY <1>2 DEF Submitting, NoJob, Discard
<1>7. AcceptInv'
  BY <1>2, <1>3 DEF DataInv, AcceptInv
<1>8. a # "NORMAL" /\ a # "ERROR"
  OBVIOUS
<1> HIDE DEF a
<1> QED
  BY <1>2, <1>3, <1>4, <1>5, <1>6, <1>7, <1>8, MarkedData

\* discard_urbs returns: a cancellation that was accepted marks the transfer.
LEMMA DiscardEndsData == ASSUME UInv, DataInv, DiscardEnds PROVE DataInv'
<1>1. /\ job.do = "discard" /\ job # NoJob /\ job' = NoJob
      /\ UNCHANGED <<req, submits, urb, doneq, reaping, report, out, transferred, arrived, halted,
                     plugged, told>>
  BY DEF DiscardEnds, NoJob
<1>2. priv.urbs /\ ~(Submitting') /\ \A who : ~(Discarding(who)')
  BY <1>1, DataFacts DEF Submitting, Discarding, NoJob
<1>3. CASE job.who = "cancel" /\ job.ret = "OK"
  <2>1. accepted' = TRUE /\ priv' = IF req.type = "bulk" /\ priv.action = "ERROR" THEN priv
                                    ELSE [priv EXCEPT !.action = "CANCELLED"]
    BY <1>3 DEF DiscardEnds
  <2>2. CASE req.type = "bulk" /\ priv.action = "ERROR"
    <3>1. priv' = priv
      BY <2>1, <2>2
    <3>2. AcceptInv'
      BY <1>1, <2>2, <3>1 DEF AcceptInv
    <3>3. priv.status # "COMPLETED"
      BY <1>2, <2>2 DEF DataInv, StatusInv
    <3> QED
      BY <1>1, <1>2, <2>2, <3>1, <3>2, <3>3, MarkedData
  <2>3. CASE ~(req.type = "bulk" /\ priv.action = "ERROR")
    <3>1. priv' = [urbs |-> priv.urbs, action |-> "CANCELLED", retired |-> priv.retired,
                   status |-> priv.status, packet |-> priv.packet]
      BY <2>1, <2>3, PrivSet DEF UInv
    <3>2. priv'.urbs = priv.urbs /\ priv'.action = "CANCELLED"
      BY <3>1
    <3>3. AcceptInv'
      BY <3>2 DEF AcceptInv
    <3> QED
      BY <1>1, <1>2, <3>2, <3>3, MarkedData
  <2> QED
    BY <2>2, <2>3
<1>4. CASE ~(job.who = "cancel" /\ job.ret = "OK")
  <2>1. UNCHANGED <<accepted, priv>>
    BY <1>4 DEF DiscardEnds
  <2>2. ~Disordered
    BY <1>4 DEF Disordered, Discarding
  <2>3. EndInv'
    BY <1>1, <1>2, DataFacts, NoReport
  <2> QED
    BY <1>1, <1>2, <2>1, <2>2, <2>3, SameAll, HandedOn
<1> QED
  BY <1>3, <1>4

\* A submission begins, of any type, with URBs that are laid out and empty.
LEMMA BeginData ==
  ASSUME UInv, NEW urbs, AreNew(urbs), Laid(urbs), \A i \in 1 .. Len(urbs) : urbs[i].data = 0,
         NEW p, IsPriv(p), req.type = "iso" => p.packet = 0, Begin(urbs, p)
  PROVE  DataInv'
<1>1. /\ job = NoJob /\ flags = "idle" /\ report = "none"
      /\ urb' = urbs /\ job' = [do |-> "submit", i |-> 1]
      /\ priv' = [p EXCEPT !.urbs = TRUE, !.action = "NORMAL"]
      /\ transferred' = 0 /\ arrived' = 0 /\ accepted' = FALSE /\ halted' = FALSE
      /\ told' = "none"
      /\ UNCHANGED <<req, flags, doneq, reaping, report, plugged>>
  BY DEF Begin
<1>2. Num' = Len(urbs) /\ Num' \in Nat /\ Num' >= 1 /\ 1 \in 1 .. Num'
  BY <1>1 DEF Num, AreNew
<1>3. \A i \in 1 .. Num' : St(i)' = "new" /\ Status(i)' = "OK" /\ Data(i)' = 0
  BY <1>1, <1>2 DEF AreNew, St, Status, Data
<1>4. /\ priv'.urbs = TRUE /\ priv'.action = "NORMAL" /\ priv'.packet = p.packet
  <2>1. [p EXCEPT !.urbs = TRUE] = [urbs |-> TRUE, action |-> p.action, retired |-> p.retired,
                                    status |-> p.status, packet |-> p.packet]
    BY PrivFields
  <2> DEFINE q == [p EXCEPT !.urbs = TRUE]
  <2>2. priv' = [q EXCEPT !.action = "NORMAL"]
    BY <1>1
  <2>3. IsPriv(q) /\ q.urbs = TRUE /\ q.packet = p.packet
    BY <2>1 DEF IsPriv
  <2> HIDE DEF q
  <2>4. [q EXCEPT !.action = "NORMAL"] = [urbs |-> q.urbs, action |-> "NORMAL", retired |-> q.retired,
                                          status |-> q.status, packet |-> q.packet]
    BY <2>3, PrivFields
  <2> QED
    BY <2>2, <2>3, <2>4
<1>5. doneq' = <<>> /\ reaping' = 0
  <2>1. ~priv.urbs
    BY <1>1 DEF UInv, LifeInv, Submitting, Discarding, NoJob, UrbsOK
  <2>2. \A i \in 1 .. Num : St(i) # "done"
    BY <2>1 DEF UInv, NoUrbLeft, St
  <2> QED
    BY <1>1, <2>1, <2>2, NothingQueued
<1>6. Submitting' /\ \A who : ~(Discarding(who)')
  BY <1>1 DEF Submitting, Discarding
<1>7. LayoutInv'
  BY <1>1 DEF LayoutInv, Laid, Size
<1>8. \A i \in 1 .. Num' : ~(Returned(i)')
  BY <1>3 DEF Returned
<1>9. FillInv'
  <2>1. \A i \in 1 .. Num' : \A j \in i .. Num' : j \in 1 .. Num'
    BY <1>2
  <2>2. \A i \in 1 .. Num' : Status(i)' = "OK" /\ ~(Status(i)' \in Failures)
    BY <1>3 DEF Failures
  <2>3. \A i \in 1 .. Num' : ~(Data(i)' > 0)
    BY <1>3
  <2> QED
    BY <1>3, <1>8, <2>1, <2>2, <2>3 DEF FillInv
<1>10. ReapInv'
  BY <1>5 DEF ReapInv
<1>11. PlaceInv'
  <2> SUFFICES ASSUME req'.type = "bulk" PROVE Located'
    BY DEF PlaceInv
  <2>8. PICK base : base = [i \in 1 .. Num' + 1 |-> 0]
    OBVIOUS
  <2>1. base \in [1 .. Num' + 1 -> 0 .. arrived'] /\ 1 \in 1 .. Num' + 1 /\ Num' + 1 \in 1 .. Num' + 1
    BY <1>1, <1>2, <2>8
  <2>2. \A i \in 1 .. Num' + 1 : base[i] = 0
    BY <2>8
  <2>3. \A i \in 1 .. Num' : /\ urbs[i].first \in Nat /\ (i = 1 => urbs[i].first = 0)
                             /\ Num' > 1 => urbs[i].len \in Nat /\ urbs[i].len > 0
    BY <1>1, <1>2 DEF Laid
  <2>4. \A i, j \in 1 .. Num' + 1 : i < j =>
        /\ base[i] <= base[j]
        /\ (\A k \in i + 1 .. j - 1 : Data(k)' = 0) => base[j] = base[i] + Data(i)'
    <3>1. \A i, j \in 1 .. Num' + 1 : i < j => i \in 1 .. Num'
      BY <1>2
    <3> QED
      BY <1>3, <2>2, <3>1
  <2>5. ASSUME NEW i \in 1 .. Num'
        PROVE  /\ base[i] <= urb'[i].first
               /\ (\A j \in 1 .. i - 1 : Full(j)') => base[i] = urb'[i].first
    <3>1. i \in 1 .. Num' + 1 /\ base[i] = 0 /\ urb'[i].first \in Nat
      BY <1>1, <1>2, <2>2, <2>3
    <3>2. CASE i = 1
      BY <1>1, <2>3, <3>1, <3>2
    <3>3. CASE i # 1
      <4>1. Num' > 1 /\ 1 \in 1 .. i - 1
        BY <1>2, <3>3
      <4>2. ~(Full(1)')
        BY <1>1, <1>2, <1>3, <2>3, <4>1 DEF Full, Length, Data
      <4> QED
        BY <3>1, <4>1, <4>2
    <3> QED
      BY <3>2, <3>3
  <2>6. \A i \in 1 .. Num' : ~(Data(i)' > 0)
    BY <1>3
  <2>7. Placed(base, 1)'
    BY <1>1, <2>1, <2>2, <2>4, <2>5, <2>6 DEF Placed
  <2> QED
    BY <2>1, <2>7 DEF Located
<1>12. StatusInv'
  BY <1>1, <1>3, <1>4, <1>6 DEF StatusInv
<1>13. PacketInv'
  <2> SUFFICES ASSUME req.type = "iso" PROVE PacketInv'
    BY <1>1 DEF PacketInv
  <2>1. priv'.packet = 0
    BY <1>4
  <2>2. \A i \in 1 .. Num' : urb'[i].first \in Nat
    BY <1>1, <1>2 DEF Laid
  <2> QED
    BY <1>3, <2>1, <2>2 DEF PacketInv
<1>14. AcceptInv' /\ EndInv'
  BY <1>1, NoReport DEF AcceptInv
<1> QED
  BY <1>7, <1>9, <1>10, <1>11, <1>12, <1>13, <1>14 DEF DataInv

\* Nothing is in them.
LEMMA NewEmpty ==
  ASSUME req \in Requests
  PROVE  /\ \A i \in 1 .. Len(BulkUrbs) : BulkUrbs[i].data = 0
         /\ \A i \in 1 .. Len(IsoUrbs) : IsoUrbs[i].data = 0
         /\ \A i \in 1 .. Len(ControlUrbs) : ControlUrbs[i].data = 0
<1>1. \A f, l, c, s : Fresh(f, l, c, s).data = 0
  BY DEF Fresh
<1>2. /\ Len(BulkUrbs) \in Nat /\ BulkUrbs = [i \in 1 .. Len(BulkUrbs) |-> BulkUrbs[i]]
      /\ Len(IsoUrbs) \in Nat /\ IsoUrbs = [i \in 1 .. Len(IsoUrbs) |-> IsoUrbs[i]]
  BY BulkNew, IsoNew DEF AreNew
<1>3. \A i \in DOMAIN BulkUrbs : BulkUrbs[i].data = 0
  BY <1>1 DEF BulkUrbs
<1>4. \A i \in DOMAIN IsoUrbs : IsoUrbs[i].data = 0
  BY ZenonT(40), <1>1 DEF IsoUrbs
<1>5. DOMAIN BulkUrbs = 1 .. Len(BulkUrbs) /\ DOMAIN IsoUrbs = 1 .. Len(IsoUrbs)
  BY <1>2
<1>6. \A i \in 1 .. Len(ControlUrbs) : ControlUrbs[i].data = 0
  <2>1. Len(ControlUrbs) = 1 /\ ControlUrbs[1] = Fresh(0, req.lens[1], FALSE, TRUE)
    BY DEF ControlUrbs
  <2>2. ControlUrbs[1].data = 0
    BY <2>1 DEF Fresh
  <2>3. \A i \in 1 .. Len(ControlUrbs) : i = 1
    BY <2>1
  <2> QED
    BY <2>2, <2>3
<1> QED
  BY <1>3, <1>4, <1>5, <1>6

\* op_submit_transfer.
LEMMA SubmitData == ASSUME UInv, Submit PROVE DataInv'
<1>1. req \in Requests /\ IsPriv(priv) /\ priv.retired \in Nat
  BY HandFacts DEF UInv, UrbsOK
<1>2. CASE SubmitBulk
  <2> DEFINE p == SetField(priv, 0, "COMPLETED")
  <2>1. Begin(BulkUrbs, p) /\ req.type = "bulk"
    BY <1>2 DEF SubmitBulk, SetField
  <2>2. IsPriv(p)
    BY <1>1, PrivCounts
  <2>3. AreNew(BulkUrbs) /\ Laid(BulkUrbs)
    BY <1>1, <2>1, BulkNew, BulkLaid
  <2>4. \A i \in 1 .. Len(BulkUrbs) : BulkUrbs[i].data = 0
    BY <1>1, NewEmpty
  <2> HIDE DEF p
  <2> QED
    BY <2>1, <2>2, <2>3, <2>4, BeginData
<1>3. CASE SubmitIso
  <2> DEFINE p == SetPacket(priv, 0, 0)
  <2>1. Begin(IsoUrbs, p) /\ req.type = "iso"
    BY <1>3 DEF SubmitIso, SetPacket
  <2>2. IsPriv(p) /\ p.packet = 0
    <3>1. p = [urbs |-> priv.urbs, action |-> priv.action, retired |-> 0,
               status |-> priv.status, packet |-> 0]
      BY <1>1, PrivRecords
    <3> QED
      BY <1>1, <3>1, PrivCounts
  <2>3. AreNew(IsoUrbs) /\ Laid(IsoUrbs)
    BY <1>1, <2>1, IsoNew, IsoLaid
  <2>4. \A i \in 1 .. Len(IsoUrbs) : IsoUrbs[i].data = 0
    BY <1>1, NewEmpty
  <2> HIDE DEF p
  <2> QED
    BY <2>1, <2>2, <2>3, <2>4, BeginData
<1>4. CASE SubmitControl
  <2>1. Begin(ControlUrbs, priv) /\ req.type = "control"
    BY <1>4 DEF SubmitControl
  <2>2. AreNew(ControlUrbs) /\ Laid(ControlUrbs)
    BY <1>1, <2>1, ControlNew, ControlLaid
  <2>3. \A i \in 1 .. Len(ControlUrbs) : ControlUrbs[i].data = 0
    BY <1>1, NewEmpty
  <2> QED
    BY <1>1, <2>1, <2>2, <2>3, BeginData
<1> QED
  BY <1>2, <1>3, <1>4 DEF Submit

-----------------------------------------------------------------------------
(* The handlers of the URBs that come back, and their data.                  *)

\* A handler counts URB u as retired: what is in the URBs stays.
LEMMA LeaveFacts ==
  ASSUME UInv, DataInv, NEW u \in 1 .. Num, InHand(u), NEW p, IsPriv(p), NEW over, NEW status,
         Leave(u, p, over, status)
  PROVE  /\ Num' = Num /\ St(u) = "done" /\ St(u)' = "retired"
         /\ UNCHANGED <<req, arrived, halted, plugged, accepted, told>>
         /\ told = "none"
         /\ report' = IF ~over THEN "none"
                      ELSE IF p.action = "CANCELLED" THEN "CANCELLED" ELSE status
         /\ priv'.urbs = ~over /\ priv'.action = p.action /\ priv'.status = p.status
         /\ priv'.packet = p.packet
         /\ \A i \in 1 .. Num : /\ SameShape(i) /\ SameFill(i) /\ (i # u => urb'[i] = urb[i])
                                /\ Returned(i) <=> Returned(i)'
         /\ LayoutInv' /\ FillInv' /\ ReapInv'
<1>1. /\ reaping = u /\ priv.urbs /\ Num \in Nat /\ UrbsOK
      /\ \A i \in 1 .. Num : urb[i].data \in 0 .. urb[i].len
      /\ doneq \in Seq(1 .. Num) /\ told = "none"
  BY DataFacts DEF InHand, UInv
<1>2. /\ urb' = [urb EXCEPT ![u].st = "retired"]
      /\ priv' = [p EXCEPT !.urbs = ~over] /\ reaping' = 0
      /\ report' = IF ~over THEN "none" ELSE IF p.action = "CANCELLED" THEN "CANCELLED" ELSE status
      /\ UNCHANGED <<req, flags, doneq, arrived, halted, plugged, accepted, told>>
  BY DEF Leave
<1>3. /\ Num' = Num /\ urb'[u].st = "retired"
      /\ \A i \in 1 .. Num : SameShape(i) /\ SameFill(i) /\ (i # u => urb'[i] = urb[i])
  BY <1>1, <1>2, StSet
<1>4. St(u) = "done"
  BY <1>1 DEF UInv, QueueInv
<1>5. /\ priv'.urbs = ~over /\ priv'.action = p.action /\ priv'.status = p.status
      /\ priv'.packet = p.packet
  <2>1. priv' = [urbs |-> ~over, action |-> p.action, retired |-> p.retired,
                 status |-> p.status, packet |-> p.packet]
    BY <1>2, PrivFields
  <2> QED
    BY <2>1
<1>6. \A i \in 1 .. Num : /\ Returned(i) <=> urb'[i].st \in {"done", "retired"}
                          /\ urb'[i].st = "new" => St(i) = "new"
                          /\ St(i) = "new" => urb'[i].st = "new"
  BY <1>3, <1>4 DEF Returned, St
<1>7. LayoutInv'
  BY <1>1, <1>2, <1>3, LayoutStays DEF DataInv, SameFill
<1>8. FillInv'
  <2>1. \A i \in 1 .. Num : St(i) = "new" => \A j \in i .. Num : St(j) = "new"
    BY DEF DataInv, FillInv
  <2>2. \A i \in 1 .. Num : urb'[i].st = "new" => \A j \in i .. Num : urb'[j].st = "new"
    <3>1. \A i \in 1 .. Num : \A j \in i .. Num : j \in 1 .. Num
      OBVIOUS
    <3> QED
      BY <1>6, <2>1, <3>1
  <2> QED
    BY <1>1, <1>2, <1>3, <1>6, <2>2, FillStays DEF DataInv
<1>9. ReapInv'
  <2> SUFFICES ASSUME req.type = "bulk"
               PROVE  \A m, n \in DOMAIN doneq :
                        m < n /\ urb'[doneq[m]].data > 0 /\ urb'[doneq[n]].data > 0
                          => doneq[m] < doneq[n]
    BY <1>2 DEF ReapInv, Data
  <2>1. \A m, n \in DOMAIN doneq :
          m < n /\ urb[doneq[m]].data > 0 /\ urb[doneq[n]].data > 0 => doneq[m] < doneq[n]
    BY <1>1 DEF DataInv, ReapInv, Data
  <2>2. \A m \in DOMAIN doneq : doneq[m] \in 1 .. Num
    BY <1>1
  <2> QED
    BY <1>3, <2>1, <2>2 DEF SameFill
<1>10. \A i \in 1 .. Num : Returned(i) <=> Returned(i)'
  BY <1>6 DEF Returned, St
<1> QED
  BY <1>1, <1>2, <1>3, <1>4, <1>5, <1>7, <1>8, <1>9, <1>10 DEF St

\* What comes before an URB with data has been handled.
LEMMA DataInTurn ==
  ASSUME UInv, DataInv, req.type = "bulk", NEW u \in 1 .. Num, InHand(u), Data(u) > 0
  PROVE  \A i \in 1 .. Num : i < u /\ Data(i) > 0 => St(i) = "retired"
<1> SUFFICES ASSUME NEW i \in 1 .. Num, i < u, Data(i) > 0, St(i) # "retired" PROVE FALSE
  OBVIOUS
<1>1. reaping = u /\ priv.urbs /\ Num \in Nat
  BY DataFacts DEF InHand
<1>2. i \in 1 .. u
  BY <1>1
<1>3. St(i) = "done"
  BY <1>2 DEF DataInv, FillInv, Returned
<1>4. Holds(doneq, i)
  BY <1>1, <1>3 DEF UInv, QueueInv
<1>5. reaping < i
  BY <1>1, <1>4 DEF DataInv, ReapInv
<1> QED
  BY <1>1, <1>5

\* Its data is the next to be given to the user.
LEMMA NextData ==
  ASSUME UInv, DataInv, req.type = "bulk", NEW u \in 1 .. Num, InHand(u), Data(u) > 0,
         NEW base \in [1 .. Num + 1 -> 0 .. arrived], NEW bound \in 1 .. Num + 1,
         Placed(base, bound)
  PROVE  bound <= u /\ base[u] = transferred /\ base[u + 1] = transferred + Data(u)
<1>1. /\ Num \in Nat /\ arrived \in Nat /\ transferred \in Nat /\ St(u) = "done"
      /\ \A k \in 1 .. Num + 1 : base[k] \in Nat
      /\ \A i \in 1 .. Num : Data(i) \in Nat
  <2>1. \A i \in 1 .. Num : urb[i].len \in Nat /\ urb[i].data \in 0 .. urb[i].len
    BY DEF DataInv, LayoutInv, Laid, Num
  <2> QED
    BY <2>1, PlacedBounds DEF InHand, UInv, QueueInv, Data
<1>2. /\ base[bound] = transferred
      /\ \A i, j \in 1 .. Num + 1 : i < j /\ (\A k \in i + 1 .. j - 1 : Data(k) = 0)
           => base[j] = base[i] + Data(i)
      /\ \A i \in 1 .. Num : Data(i) > 0 => (St(i) = "retired" <=> i < bound)
  BY DEF Placed
<1>3. bound <= u
  BY <1>1, <1>2
<1>4. \A k \in bound .. u - 1 : k \in 1 .. Num /\ Data(k) = 0
  <2> SUFFICES ASSUME NEW k \in bound .. u - 1 PROVE k \in 1 .. Num /\ Data(k) = 0
    OBVIOUS
  <2>1. k \in 1 .. Num /\ k < u /\ ~(k < bound)
    BY <1>1
  <2>2. ~(Data(k) > 0)
    BY <1>2, <2>1, DataInTurn
  <2> QED
    BY <1>1, <2>1, <2>2
<1>5. base[u] = transferred
  <2>1. CASE bound = u
    BY <1>2, <2>1
  <2>2. CASE bound < u
    <3>1. bound \in 1 .. Num + 1 /\ u \in 1 .. Num + 1 /\ bound \in bound .. u - 1
      BY <1>1, <2>2
    <3>2. \A k \in bound + 1 .. u - 1 : k \in bound .. u - 1
      OBVIOUS
    <3>3. base[u] = base[bound] + Data(bound)
      BY <1>2, <1>4, <2>2, <3>1, <3>2
    <3>4. Data(bound) = 0
      BY <1>4, <3>1
    <3> QED
      BY <1>1, <1>2, <3>3, <3>4
  <2> QED
    BY <1>1, <1>3, <2>1, <2>2
<1>6. base[u + 1] = base[u] + Data(u)
  <2>1. u \in 1 .. Num + 1 /\ u + 1 \in 1 .. Num + 1 /\ u < u + 1
    BY <1>1
  <2>2. \A k \in u + 1 .. (u + 1) - 1 : FALSE
    BY <1>1
  <2> QED
    BY <1>2, <2>1, <2>2
<1> QED
  BY <1>3, <1>5, <1>6

\* The data of URB u is added to the data the user has.
LEMMA PlaceHanded ==
  ASSUME UInv, DataInv, req.type = "bulk", NEW u \in 1 .. Num, InHand(u), Num' = Num,
         arrived' = arrived, transferred' = transferred + Data(u),
         \A i \in 1 .. Num : SameShape(i) /\ SameFill(i) /\ (i # u => urb'[i] = urb[i]),
         St(u)' = "retired",
         \A q \in 1 .. Size : out'[q] = IF q \in transferred + 1 .. transferred + Data(u)
                                        THEN out[urb[u].first + q - transferred] ELSE out[q]
  PROVE  Located'
<1>1. PICK base \in [1 .. Num + 1 -> 0 .. arrived], bound \in 1 .. Num + 1 : Placed(base, bound)
  BY DEF DataInv, PlaceInv, Located, InHand
<1>2. /\ Num \in Nat /\ arrived \in Nat /\ transferred \in Nat /\ Size \in Nat /\ St(u) = "done"
      /\ \A k \in 1 .. Num + 1 : base[k] \in Nat
      /\ transferred <= arrived /\ arrived <= Size
  BY <1>1, PlacedBounds DEF InHand, UInv, QueueInv
<1>3. \A i \in 1 .. Num : /\ Data(i)' = Data(i) /\ (Full(i)' <=> Full(i)) /\ Data(i) \in Nat
                          /\ urb'[i].first = urb[i].first /\ urb[i].first \in Nat
                          /\ Data(i) <= urb[i].len /\ urb[i].len \in Nat
                          /\ urb[i].first + urb[i].len <= Size
                          /\ (i # u => St(i)' = St(i))
  <2>1. \A i \in 1 .. Num : /\ urb[i].first \in Nat /\ urb[i].len \in Nat
                            /\ urb[i].data \in 0 .. urb[i].len
                            /\ urb[i].first + urb[i].len <= Size
    BY DEF DataInv, LayoutInv, Laid, Num
  <2> SUFFICES ASSUME NEW i \in 1 .. Num
               PROVE  /\ Data(i)' = Data(i) /\ (Full(i)' <=> Full(i)) /\ Data(i) \in Nat
                      /\ urb'[i].first = urb[i].first /\ urb[i].first \in Nat
                      /\ Data(i) <= urb[i].len /\ urb[i].len \in Nat
                      /\ urb[i].first + urb[i].len <= Size
                      /\ (i # u => St(i)' = St(i))
    OBVIOUS
  <2>2. /\ Data(i)' = Data(i) /\ Length(i)' = Length(i) /\ urb'[i].first = urb[i].first
        /\ (i # u => St(i)' = St(i))
    BY DEF Data, Length, SameShape, SameFill, St
  <2>3. Full(i)' <=> Full(i)
    BY <2>2 DEF Full
  <2>4. /\ urb[i].first \in Nat /\ urb[i].len \in Nat /\ Data(i) \in 0 .. urb[i].len
        /\ urb[i].first + urb[i].len <= Size
    BY <2>1 DEF Data
  <2>5. Data(i) \in Nat /\ Data(i) <= urb[i].len
    BY <2>4
  <2> QED
    BY <2>2, <2>3, <2>4, <2>5
<1>4. /\ base[Num + 1] = arrived /\ base[bound] = transferred
      /\ \A i, j \in 1 .. Num + 1 : i < j => base[i] <= base[j]
      /\ \A i \in 1 .. Num : /\ base[i] <= urb[i].first
                             /\ Data(i) > 0 => (St(i) = "retired" <=> i < bound)
                             /\ Data(i) > 0 /\ i >= bound =>
                                  \A n \in 1 .. Data(i) : out[urb[i].first + n] = base[i] + n
      /\ \A q \in 1 .. transferred : out[q] = q
  BY <1>1 DEF Placed
<1>5. \A i, j \in 1 .. Num + 1 : i < j =>
        /\ base[i] <= base[j]
        /\ (\A k \in i + 1 .. j - 1 : Data(k)' = 0) => base[j] = base[i] + Data(i)'
  <2> SUFFICES ASSUME NEW i \in 1 .. Num + 1, NEW j \in 1 .. Num + 1, i < j
               PROVE  /\ base[i] <= base[j]
                      /\ (\A k \in i + 1 .. j - 1 : Data(k)' = 0) => base[j] = base[i] + Data(i)'
    OBVIOUS
  <2>1. i \in 1 .. Num /\ \A k \in i + 1 .. j - 1 : k \in 1 .. Num
    BY <1>2
  <2>2. /\ base[i] <= base[j]
        /\ (\A k \in i + 1 .. j - 1 : Data(k) = 0) => base[j] = base[i] + Data(i)
    BY <1>1 DEF Placed
  <2>3. Data(i)' = Data(i) /\ \A k \in i + 1 .. j - 1 : Data(k)' = Data(k)
    BY <1>3, <2>1
  <2> QED
    BY <2>2, <2>3
<1>6. \A i \in 1 .. Num : /\ base[i] <= urb'[i].first
                          /\ (\A j \in 1 .. i - 1 : Full(j)') => base[i] = urb'[i].first
  <2> SUFFICES ASSUME NEW i \in 1 .. Num
               PROVE  /\ base[i] <= urb'[i].first
                      /\ (\A j \in 1 .. i - 1 : Full(j)') => base[i] = urb'[i].first
    OBVIOUS
  <2>1. \A j \in 1 .. i - 1 : j \in 1 .. Num
    BY <1>2
  <2>2. base[i] <= urb[i].first /\ ((\A j \in 1 .. i - 1 : Full(j)) => base[i] = urb[i].first)
    BY <1>1 DEF Placed
  <2> QED
    BY <1>3, <2>1, <2>2
<1>7. CASE Data(u) = 0
  <2>1. transferred' = transferred /\ \A q \in 1 .. Size : out'[q] = out[q]
    BY <1>2, <1>7
  <2>2. \A i \in 1 .. Num : Data(i) > 0 => i # u /\ St(i)' = St(i)
    BY <1>3, <1>7
  <2>3. ASSUME NEW i \in 1 .. Num, Data(i) > 0, i >= bound, NEW n \in 1 .. Data(i)
        PROVE  out'[urb'[i].first + n] = base[i] + n
    <3>1. urb[i].first + n \in 1 .. Size
      <4> DEFINE f == urb[i].first
                 l == urb[i].len
                 d == Data(i)
      <4>1. f \in Nat /\ l \in Nat /\ d \in Nat /\ d <= l /\ f + l <= Size /\ n \in 1 .. d
        BY <1>3, <2>3
      <4> HIDE DEF f, l, d
      <4>2. f + n \in 1 .. Size
        BY <1>2, <4>1
      <4> QED
        BY <4>2 DEF f
    <3> QED
      BY <1>3, <1>4, <2>1, <2>3, <3>1
  <2>4. \A q \in 1 .. transferred' : out'[q] = q
    <3> SUFFICES ASSUME NEW q \in 1 .. transferred PROVE out'[q] = q
      BY <2>1
    <3>1. q \in 1 .. Size
      BY <1>2
    <3> QED
      BY <1>4, <2>1, <3>1
  <2>5. \A i \in 1 .. Num :
          /\ Data(i)' > 0 => (St(i)' = "retired" <=> i < bound)
          /\ Data(i)' > 0 /\ i >= bound =>
               \A n \in 1 .. Data(i)' : out'[urb'[i].first + n] = base[i] + n
    BY <1>3, <1>4, <2>2, <2>3
  <2>6. base[Num + 1]' = arrived' /\ base[bound]' = transferred'
    BY <1>4, <2>1
  <2>7. Placed(base, bound)'
    BY <1>5, <1>6, <2>4, <2>5, <2>6 DEF Placed
  <2> QED
    BY <1>1, <2>7 DEF Located
<1>8. CASE Data(u) > 0
  <2>1. bound <= u /\ base[u] = transferred /\ base[u + 1] = transferred + Data(u)
    BY <1>1, <1>8, NextData
  <2>2. \A i \in 1 .. Num : i < u /\ Data(i) > 0 => St(i) = "retired"
    BY <1>8, DataInTurn
  <2>3. \A i \in 1 .. Num : Data(i)' > 0 => (St(i)' = "retired" <=> i < u + 1)
    <3> SUFFICES ASSUME NEW i \in 1 .. Num, Data(i) > 0 PROVE St(i)' = "retired" <=> i < u + 1
      BY <1>3
    <3>1. CASE i = u
      BY <1>2, <3>1
    <3>2. CASE i < u
      BY <1>2, <1>3, <2>2, <3>2
    <3>3. CASE i > u
      BY <1>2, <1>3, <1>4, <2>1, <3>3
    <3> QED
      BY <1>2, <3>1, <3>2, <3>3
  <2>4. ASSUME NEW i \in 1 .. Num, Data(i) > 0, i >= u + 1, NEW n \in 1 .. Data(i)
        PROVE  out'[urb'[i].first + n] = base[i] + n
    <3> DEFINE b == base[i]
               b1 == base[u + 1]
               f == urb[i].first
               l == urb[i].len
               d == Data(u)
               di == Data(i)
    <3>1. b1 <= b
      <4>1. i \in 1 .. Num + 1 /\ u + 1 \in 1 .. Num + 1 /\ (i = u + 1 \/ u + 1 < i)
        BY <1>2, <2>4
      <4>2. CASE i = u + 1
        <5>1. b = b1 /\ b \in Nat
          BY <1>2, <4>1, <4>2
        <5> QED
          BY <5>1
      <4>3. CASE u + 1 < i
        BY <1>4, <4>1, <4>3
      <4> QED
        BY <4>1, <4>2, <4>3
    <3>2. /\ b \in Nat /\ f \in Nat /\ l \in Nat /\ d \in Nat /\ di \in Nat /\ n \in 1 .. di
          /\ b <= f /\ b1 = transferred + d /\ di <= l /\ f + l <= Size
      <4>1. b \in Nat /\ b <= f
        <5>1. i \in 1 .. Num + 1
          BY <1>2
        <5> QED
          BY <1>2, <1>4, <5>1
      <4>2. f \in Nat /\ l \in Nat /\ d \in Nat /\ di \in Nat /\ di <= l /\ f + l <= Size
        BY <1>3
      <4> QED
        BY <2>1, <4>1, <4>2
    <3>3. out[f + n] = b + n
      <4>1. i >= bound
        BY <1>2, <2>1, <2>4
      <4> QED
        BY <1>4, <2>4, <4>1
    <3>4. urb'[i].first = f
      BY <1>3
    <3> HIDE DEF b, b1, f, l, d, di
    <3>5. f + n \in 1 .. Size /\ ~(f + n \in transferred + 1 .. transferred + d)
      BY <1>2, <3>1, <3>2
    <3>6. out'[f + n] = out[f + n]
      BY <3>5 DEF d
    <3>7. out'[urb'[i].first + n] = b + n
      BY <3>3, <3>4, <3>6
    <3> QED
      BY <3>7 DEF b
  <2>5. ASSUME NEW q \in 1 .. transferred' PROVE out'[q] = q
    <3> DEFINE d == Data(u)
               f == urb[u].first
    <3>1. /\ d \in Nat /\ f \in Nat /\ transferred' = transferred + d /\ f + d <= Size
          /\ transferred <= f
          /\ \A n \in 1 .. d : out[f + n] = transferred + n
          /\ out'[q] = (IF q \in transferred + 1 .. transferred + d
                          THEN out[f + q - transferred] ELSE out[q])
      <4>1. d \in Nat /\ f \in Nat /\ transferred' = transferred + d /\ f + d <= Size
        <5> DEFINE l == urb[u].len
        <5>1. d \in Nat /\ f \in Nat /\ l \in Nat /\ d <= l /\ f + l <= Size
          BY <1>3
        <5> HIDE DEF d, f, l
        <5>2. f + d <= Size
          BY <1>2, <5>1
        <5> QED
          BY <5>1, <5>2 DEF d
      <4>2. transferred <= f
        BY <1>4, <2>1
      <4>3. \A n \in 1 .. d : out[f + n] = transferred + n
        <5>1. u >= bound
          BY <1>2, <2>1
        <5> QED
          BY <1>4, <1>8, <2>1, <5>1
      <4>4. q \in 1 .. Size
        <5> HIDE DEF d, f
        <5>1. transferred + d <= Size /\ transferred + d \in Nat
          BY <1>2, <4>1, <4>2
        <5>2. q \in 1 .. transferred + d
          BY <4>1
        <5> QED
          BY <1>2, <5>1, <5>2
      <4> QED
        BY <4>1, <4>2, <4>3, <4>4
    <3> HIDE DEF d, f
    <3>2. CASE q <= transferred
      <4>1. q \in 1 .. transferred /\ ~(q \in transferred + 1 .. transferred + d)
        BY <1>2, <3>1, <3>2
      <4> QED
        BY <1>4, <3>1, <4>1
    <3>3. CASE ~(q <= transferred)
      <4> DEFINE n == q - transferred
      <4>1. n \in 1 .. d /\ q \in transferred + 1 .. transferred + d
            /\ f + q - transferred = f + n /\ transferred + n = q
        BY <1>2, <3>1, <3>3
      <4> HIDE DEF n
      <4> QED
        BY <3>1, <4>1
    <3> QED
      BY <3>2, <3>3
  <2>6. \A i \in 1 .. Num : Data(i)' > 0 /\ i >= u + 1 =>
          \A n \in 1 .. Data(i)' : out'[urb'[i].first + n] = base[i] + n
    BY <1>3, <2>4
  <2>7. base[Num + 1]' = arrived' /\ base[u + 1]' = transferred'
    BY <1>4, <2>1
  <2>8. u + 1 \in 1 .. Num + 1
    BY <1>2
  <2>9. Placed(base, u + 1)'
    BY <1>5, <1>6, <2>3, <2>5, <2>6, <2>7, <2>8 DEF Placed
  <2> QED
    BY <1>1, <2>8, <2>9 DEF Located
<1> QED
  BY <1>3, <1>7, <1>8

\* When all URBs are back, so is all data.
LEMMA NothingLeft ==
  /\ Located /\ FillInv /\ Num \in Nat /\ arrived \in Nat
  /\ \A i \in 1 .. Num : Data(i) \in Nat /\ St(i) \in {"new", "retired"}
  => AllKept
<1> SUFFICES ASSUME Located, FillInv, Num \in Nat, arrived \in Nat,
                    \A i \in 1 .. Num : Data(i) \in Nat /\ St(i) \in {"new", "retired"}
             PROVE  AllKept
  OBVIOUS
<1>1. PICK base \in [1 .. Num + 1 -> 0 .. arrived], bound \in 1 .. Num + 1 : Placed(base, bound)
  BY DEF Located
<1>2. /\ base[Num + 1] = arrived /\ base[bound] = transferred
      /\ \A i, j \in 1 .. Num + 1 : i < j /\ (\A k \in i + 1 .. j - 1 : Data(k) = 0)
           => base[j] = base[i] + Data(i)
      /\ \A i \in 1 .. Num : Data(i) > 0 => (St(i) = "retired" <=> i < bound)
      /\ \A q \in 1 .. transferred : out[q] = q
  BY <1>1 DEF Placed
<1>3. \A i \in 1 .. Num : i >= bound => Data(i) = 0
  <2> SUFFICES ASSUME NEW i \in 1 .. Num, i >= bound, Data(i) # 0 PROVE FALSE
    OBVIOUS
  <2>1. Data(i) > 0
    OBVIOUS
  <2>2. St(i) # "retired"
    BY <1>2, <2>1
  <2>3. St(i) = "new"
    BY <2>2
  <2> QED
    BY <2>1, <2>3 DEF FillInv, Returned
<1>4. transferred = arrived
  <2>1. CASE bound = Num + 1
    BY <1>2, <2>1
  <2>2. CASE bound # Num + 1
    <3>1. bound \in 1 .. Num /\ Num + 1 \in 1 .. Num + 1 /\ bound < Num + 1
          /\ \A k \in bound + 1 .. Num + 1 - 1 : k \in 1 .. Num /\ k >= bound
      BY <2>2
    <3>2. (\A k \in bound + 1 .. Num + 1 - 1 : Data(k) = 0) /\ Data(bound) = 0
      BY <1>3, <3>1
    <3>3. base[Num + 1] = base[bound] + Data(bound)
      BY <1>2, <3>1, <3>2
    <3>4. base[bound] \in Nat
      BY <3>1
    <3> QED
      BY <1>2, <3>2, <3>3, <3>4
  <2> QED
    BY <2>1, <2>2
<1> QED
  BY <1>2, <1>4 DEF AllKept

\* So it is after a step.
LEMMA NothingLeftThen ==
  ASSUME Located', FillInv', Num' \in Nat, arrived' \in Nat,
         \A i \in 1 .. Num' : Data(i)' \in Nat /\ St(i)' \in {"new", "retired"}
  PROVE  AllKept'
<1>1. (/\ Located /\ FillInv /\ Num \in Nat /\ arrived \in Nat
       /\ \A i \in 1 .. Num : Data(i) \in Nat /\ St(i) \in {"new", "retired"}
       => AllKept)'
  BY NothingLeft, PTL
<1> QED
  BY <1>1

\* What handle_bulk_completion leaves, and what is left to be shown of a status.
LEMMA BulkLeaves ==
  ASSUME UInv, DataInv, req.type = "bulk", NEW u \in 1 .. Num, InHand(u),
         NEW p, IsPriv(p), NEW over, NEW status, Leave(u, p, over, status),
         transferred' = transferred + Data(u),
         \A q \in 1 .. Size : out'[q] = IF q \in transferred + 1 .. transferred + Data(u)
                                        THEN out[urb[u].first + q - transferred] ELSE out[q],
         over => \A i \in 1 .. Num : i # u => St(i) \in {"new", "retired"},
         accepted => p.action \in {"CANCELLED", "ERROR"},
         ~over => StatusInv',
         over /\ p.action # "CANCELLED" /\ status = "COMPLETED" => Whole'
  PROVE  DataInv'
<1>1. /\ Num' = Num /\ St(u)' = "retired" /\ UNCHANGED <<req, arrived, accepted, told>>
      /\ told = "none"
      /\ report' = IF ~over THEN "none"
                   ELSE IF p.action = "CANCELLED" THEN "CANCELLED" ELSE status
      /\ priv'.urbs = ~over /\ priv'.action = p.action
      /\ \A i \in 1 .. Num : SameShape(i) /\ SameFill(i) /\ (i # u => urb'[i] = urb[i])
      /\ LayoutInv' /\ FillInv' /\ ReapInv'
  BY LeaveFacts
<1>2. Located'
  BY <1>1, PlaceHanded
<1>3. PlaceInv' /\ PacketInv'
  BY <1>1, <1>2 DEF PlaceInv, PacketInv
<1>4. StatusInv'
  BY <1>1 DEF StatusInv
<1>5. AcceptInv'
  BY <1>1 DEF AcceptInv
<1>6. over => AllKept'
  <2> SUFFICES ASSUME over PROVE AllKept'
    OBVIOUS
  <2>1. \A i \in 1 .. Num : St(i)' \in {"new", "retired"}
    BY <1>1 DEF St
  <2>2. Num \in Nat /\ arrived \in Nat
    <3>1. PICK base \in [1 .. Num + 1 -> 0 .. arrived], bound \in 1 .. Num + 1 :
            Placed(base, bound)
      BY DEF DataInv, PlaceInv, Located, InHand
    <3> QED
      BY <3>1, PlacedBounds
  <2>3. \A i \in 1 .. Num : Data(i)' \in Nat
    <3>1. \A i \in 1 .. Num : urb[i].len \in Nat /\ urb[i].data \in 0 .. urb[i].len
      BY DEF DataInv, LayoutInv, Laid, Num
    <3> QED
      BY <1>1, <3>1 DEF Data, SameFill
  <2>4. Num' \in Nat /\ arrived' \in Nat
        /\ \A i \in 1 .. Num' : Data(i)' \in Nat /\ St(i)' \in {"new", "retired"}
    BY <1>1, <2>1, <2>2, <2>3
  <2> QED
    BY <1>1, <1>2, <2>4, NothingLeftThen
<1>7. EndInv'
  <2>1. told' = "none"
    BY <1>1
  <2>2. report' # "none" => over
    BY <1>1
  <2>3. report' = "COMPLETED" => over /\ p.action # "CANCELLED" /\ status = "COMPLETED"
    BY <1>1
  <2> QED
    BY <1>6, <2>1, <2>2, <2>3 DEF EndInv
<1> QED
  BY <1>1, <1>3, <1>4, <1>5, <1>7 DEF DataInv

\* A transfer that was accepted for cancellation is no normal one.
LEMMA AcceptedFacts ==
  ASSUME DataInv, req.type = "bulk", accepted PROVE priv.action \in {"CANCELLED", "ERROR"}
BY DEF DataInv, AcceptInv

\* A transfer that ends short is as whole as it can be.
LEMMA ShortIsWhole ==
  ASSUME EndsShort', ~accepted', req'.type = "bulk" PROVE Whole'
<1>1. PICK n \in 1 .. Num' : ShortAt(n)'
  BY DEF EndsShort
<1>2. /\ \A i \in 1 .. n - 1 : urb'[i].status = "OK" /\ urb'[i].data = urb'[i].len
      /\ urb'[n].status \in {"OK", "REMOTEIO"}
      /\ urb'[n].data < urb'[n].len
  BY <1>1 DEF ShortAt, Status, Full, Data, Length
<1> QED
  BY <1>1, <1>2 DEF Whole

\* handle_bulk_completion of an URB that comes back after the transfer ended.
LEMMA BulkSurplusData == ASSUME UInv, DataInv, BulkSurplus PROVE DataInv'
<1>1. PICK u \in 1 .. Num :
        /\ Handling("bulk", u) /\ priv.action # "NORMAL" /\ job' = job
        /\ out' = SurplusMoved(u) /\ transferred' = transferred + urb[u].data
        /\ Leave(u, [priv EXCEPT !.retired = @ + 1,
                                 !.status = IF priv.retired + 1 = Num THEN AbnormalStatus ELSE @],
                 priv.retired + 1 = Num, AbnormalStatus)
  BY DEF BulkSurplus
<1> DEFINE over == priv.retired + 1 = Num
           s == IF over THEN AbnormalStatus ELSE priv.status
           p == SetField(priv, priv.retired + 1, s)
<1>2. Leave(u, p, over, AbnormalStatus)
  BY <1>1 DEF SetField
<1>3. InHand(u) /\ job' = NoJob /\ req.type = "bulk" /\ reaping = u /\ job = NoJob /\ priv.urbs
  BY <1>1 DEF Handling, InHand
<1>4. over => \A i \in 1 .. Num : i # u => St(i) \in {"new", "retired"}
  BY <1>3, AllBack
<1>5. transferred' = transferred + Data(u)
  BY <1>1 DEF Data
<1>6. \A q \in 1 .. Size : out'[q] = IF q \in transferred + 1 .. transferred + Data(u)
                                     THEN out[urb[u].first + q - transferred] ELSE out[q]
  BY <1>1, <1>3 DEF SurplusMoved, Positions, Size, Data
<1>7. ~over => s = priv.status
  OBVIOUS
<1> HIDE DEF s, over
<1>8. IsPriv(p) /\ p.action = priv.action /\ p.status = s
  <2>1. p = [urbs |-> priv.urbs, action |-> priv.action, retired |-> priv.retired + 1,
             status |-> s, packet |-> priv.packet]
    BY HandFacts, PrivRecords
  <2>2. p.action = priv.action /\ p.status = s
    BY <2>1
  <2>3. IsPriv(p)
    BY HandFacts, PrivCounts
  <2> QED
    BY <2>2, <2>3
<1> HIDE DEF p
<1>9. /\ Num' = Num /\ Num \in Nat
      /\ priv'.urbs = ~over /\ priv'.action = p.action /\ priv'.status = p.status
      /\ UNCHANGED <<req, accepted>>
      /\ \A i \in 1 .. Num : SameShape(i) /\ SameFill(i) /\ (Returned(i) <=> Returned(i)')
  BY <1>2, <1>3, <1>8, LeaveFacts, HandFacts
<1>10. EndsShort => EndsShort'
  <2>1. \A i \in 1 .. Num : Returned(i) =>
          SameShape(i) /\ SameFill(i) /\ urb'[i].st \in {"done", "retired"}
    BY <1>9 DEF Returned, St
  <2> QED
    BY <1>9, <2>1, EndsShortStays
<1>11. /\ priv.action = "COMPLETED_EARLY" /\ priv.status = "COMPLETED" => EndsShort
       /\ priv.action = "ERROR" => priv.status # "COMPLETED"
  BY <1>3 DEF DataInv, StatusInv
<1>12. ~over => StatusInv'
  <2> SUFFICES ASSUME ~over PROVE StatusInv'
    OBVIOUS
  <2>1. priv'.action = priv.action /\ priv'.status = priv.status /\ priv.action # "NORMAL"
    BY <1>1, <1>7, <1>8, <1>9
  <2>2. ~(Submitting')
    BY <1>3 DEF Submitting, NoJob
  <2> QED
    BY <1>10, <1>11, <2>1, <2>2 DEF StatusInv
<1>13. accepted => p.action \in {"CANCELLED", "ERROR"}
  BY <1>3, <1>8, AcceptedFacts
<1>14. over /\ p.action # "CANCELLED" /\ AbnormalStatus = "COMPLETED" => Whole'
  <2> SUFFICES ASSUME p.action # "CANCELLED", AbnormalStatus = "COMPLETED" PROVE Whole'
    OBVIOUS
  <2>1. priv.action = "COMPLETED_EARLY" /\ priv.status = "COMPLETED"
    BY DEF AbnormalStatus
  <2>2. ~accepted'
    BY <1>8, <1>9, <1>13, <2>1
  <2>3. EndsShort'
    BY <1>10, <1>11, <2>1
  <2> QED
    BY <1>3, <1>9, <2>2, <2>3, ShortIsWhole
<1> QED
  BY <1>2, <1>3, <1>4, <1>5, <1>6, <1>8, <1>12, <1>13, <1>14, BulkLeaves

\* As long as the transfer is normal, the URB in hand is the first one not yet handled.
LEMMA HandIsNext ==
  ASSUME UInv, NEW u \in 1 .. Num, InHand(u), priv.action = "NORMAL"
  PROVE  /\ \A i \in 1 .. Num : i < u => St(i) = "retired"
         /\ \A i \in 1 .. Num : St(i) = "retired" => i < u
<1>1. InTurn /\ St(u) = "done" /\ Num \in Nat /\ reaping = u
  BY Types DEF UInv, InHand, OrderInv, Disordered, Discarding, NoJob, QueueInv
<1>2. ASSUME NEW i \in 1 .. Num, i < u, St(i) # "retired" PROVE FALSE
  <2>1. St(i) = "done"
    BY <1>1, <1>2 DEF InTurn
  <2>2. Holds(doneq, i)
    BY <1>1, <1>2, <2>1 DEF UInv, QueueInv
  <2>3. u < i
    BY <1>1, <2>2 DEF InTurn
  <2> QED
    BY <1>1, <1>2, <2>3
<1>3. ASSUME NEW i \in 1 .. Num, St(i) = "retired", ~(i < u) PROVE FALSE
  <2>1. i # u /\ u < i
    BY <1>1, <1>3
  <2> QED
    BY <1>1, <1>3, <2>1 DEF InTurn
<1> QED
  BY <1>2, <1>3

\* The results of a normal isochronous transfer go to the packets they are of.
LEMMA PacketsInTurn ==
  ASSUME UInv, DataInv, req.type = "iso", NEW u \in 1 .. Num, InHand(u), priv.action = "NORMAL"
  PROVE  priv.packet = urb[u].first /\ priv.packet \in Nat
<1>1. /\ priv.packet \in Nat /\ Num \in Nat /\ Num = Len(urb) /\ St(u) = "done"
      /\ \A i \in 1 .. Num : IF St(i) = "retired" THEN urb[i].first + urb[i].len <= priv.packet
                                                  ELSE priv.packet <= urb[i].first
  BY DataFacts DEF DataInv, PacketInv, InHand, Length, UInv, QueueInv, Num
<1>2. \A i \in 1 .. Num : /\ urb[i].first \in Nat /\ urb[i].len \in Nat
                          /\ i = 1 => urb[i].first = 0
                          /\ i < Num => urb[i + 1].first = urb[i].first + urb[i].len
  BY <1>1 DEF DataInv, LayoutInv, Laid
<1>3. priv.packet <= urb[u].first
  BY <1>1
<1>4. CASE u = 1
  BY <1>1, <1>2, <1>3, <1>4
<1>5. CASE u # 1
  <2>1. PICK i \in 1 .. Num : i = u - 1
    BY <1>1, <1>5
  <2>2. St(i) = "retired" /\ i < Num /\ i + 1 = u
    BY <1>1, <2>1, HandIsNext
  <2>3. urb[u].first = urb[i].first + urb[i].len
    BY <1>2, <2>2
  <2>4. urb[i].first + urb[i].len <= priv.packet
    BY <1>1, <2>2
  <2> QED
    BY <1>1, <1>2, <1>3, <2>3, <2>4
<1> QED
  BY <1>1, <1>4, <1>5

\* handle_iso_completion.
LEMMA IsoData == ASSUME UInv, DataInv, IsoCompletion PROVE DataInv'
<1>1. PICK u \in 1 .. Num : \E status :
        /\ Handling("iso", u) /\ job' = job
        /\ out' = [q \in Positions |->
                     IF q \in priv.packet + 1 .. priv.packet + urb[u].len
                       THEN urb[u].first + q - priv.packet ELSE out[q]]
        /\ Leave(u, [priv EXCEPT !.retired = priv.retired + 1, !.packet = @ + urb[u].len],
                 IF priv.action = "NORMAL" THEN u = Num ELSE priv.retired + 1 = Num, status)
        /\ priv.action # "NORMAL" => status = "ERROR"
  BY DEF IsoCompletion
<1>2. PICK status :
        /\ Leave(u, [priv EXCEPT !.retired = priv.retired + 1, !.packet = @ + urb[u].len],
              IF priv.action = "NORMAL" THEN u = Num ELSE priv.retired + 1 = Num, status)
        /\ priv.action # "NORMAL" => status = "ERROR"
  BY <1>1
<1> DEFINE over == IF priv.action = "NORMAL" THEN u = Num ELSE priv.retired + 1 = Num
           n == priv.packet + urb[u].len
           p == SetPacket(priv, priv.retired + 1, n)
<1>3. Leave(u, p, over, status)
  BY <1>2 DEF SetPacket
<1>4. InHand(u) /\ req.type = "iso" /\ reaping = u /\ priv.urbs
  BY <1>1 DEF Handling, InHand
<1>5. priv.action = "NORMAL" => (over <=> u = Num)
  OBVIOUS
<1>6. n = priv.packet + urb[u].len
  OBVIOUS
<1> HIDE DEF n, over
<1>7. IsPriv(p) /\ p.action = priv.action /\ p.packet = n
  <2>1. p = [urbs |-> priv.urbs, action |-> priv.action, retired |-> priv.retired + 1,
             status |-> priv.status, packet |-> n]
    BY HandFacts, PrivRecords
  <2>2. p.action = priv.action /\ p.packet = n
    BY <2>1
  <2>3. IsPriv(p)
    BY HandFacts, PrivCounts
  <2> QED
    BY <2>2, <2>3
<1> HIDE DEF p
<1>8. /\ Num' = Num /\ Num \in Nat /\ St(u)' = "retired" /\ told' = "none"
      /\ UNCHANGED <<req, accepted>>
      /\ report' = IF ~over THEN "none"
                   ELSE IF p.action = "CANCELLED" THEN "CANCELLED" ELSE status
      /\ priv'.urbs = ~over /\ priv'.action = p.action /\ priv'.packet = p.packet
      /\ \A i \in 1 .. Num : SameShape(i) /\ SameFill(i) /\ (i # u => urb'[i] = urb[i])
      /\ LayoutInv' /\ FillInv' /\ ReapInv'
  BY <1>3, <1>4, <1>7, LeaveFacts, HandFacts
<1>9. PlaceInv' /\ StatusInv'
  BY <1>4, <1>8 DEF PlaceInv, StatusInv
<1>10. AcceptInv'
  BY <1>4, <1>7, <1>8 DEF DataInv, AcceptInv
<1>11. /\ Size = Len(req.lens) /\ Positions = 1 .. Size /\ Num = Len(urb)
       /\ \A i \in 1 .. Num : /\ urb[i].first \in Nat /\ urb[i].len \in Nat
                              /\ urb[i].first + urb[i].len <= Size
                              /\ i = Num => urb[i].first + urb[i].len = Size
                              /\ u < i => urb[u].first + urb[u].len <= urb[i].first
  BY <1>4 DEF DataInv, LayoutInv, Laid, Num, Size, Positions
<1>12. Size \in Nat
  <2>1. Num \in 1 .. Num
    BY <1>8
  <2> QED
    BY <1>11, <2>1
<1>13. ASSUME priv.action = "NORMAL"
       PROVE  n = urb[u].first + urb[u].len /\ \A q \in 1 .. n : out'[q] = q
  <2>1. priv.packet = urb[u].first /\ priv.packet \in Nat
    BY <1>4, <1>13, PacketsInTurn
  <2>2. n = urb[u].first + urb[u].len
    BY <1>6, <2>1
  <2>3. \A q \in 1 .. priv.packet : out[q] = q
    BY <1>4, <1>13 DEF DataInv, PacketInv
  <2>4. ASSUME NEW q \in 1 .. n PROVE out'[q] = q
    <3> DEFINE f == urb[u].first
               l == urb[u].len
    <3>1. f \in Nat /\ l \in Nat /\ n = f + l /\ f + l <= Size
      BY <1>11, <2>2
    <3>2. /\ q \in Positions =>
               out'[q] = IF q \in f + 1 .. f + l THEN f + q - f ELSE out[q]
          /\ \A m \in 1 .. f : out[m] = m
      BY <1>1, <2>1, <2>3
    <3> HIDE DEF f, l
    <3>3. q \in Positions /\ f + q - f = q
      BY <1>11, <1>12, <3>1
    <3>4. q \in f + 1 .. f + l \/ q \in 1 .. f
      BY <3>1
    <3> QED
      BY <3>2, <3>3, <3>4
  <2> QED
    BY <2>2, <2>4
<1>14. PacketInv'
  <2> SUFFICES ASSUME priv.action = "NORMAL" PROVE PacketInv'
    BY <1>7, <1>8 DEF PacketInv
  <2>1. n = urb[u].first + urb[u].len /\ n \in Nat /\ priv.packet <= n
    <3>1. urb[u].first \in Nat /\ urb[u].len \in Nat
      BY <1>11
    <3> QED
      BY <1>4, <1>13, <3>1, PacketsInTurn
  <2>2. ASSUME NEW i \in 1 .. Num
        PROVE  IF urb'[i].st = "retired" THEN urb'[i].first + urb'[i].len <= n
                                         ELSE n <= urb'[i].first
    <3>1. urb'[i].first = urb[i].first /\ urb'[i].len = urb[i].len
      BY <1>8 DEF SameShape
    <3>2. CASE i = u
      BY <1>8, <1>11, <2>1, <3>1, <3>2 DEF St
    <3>3. CASE i < u
      <4>1. St(i) = "retired" /\ urb'[i].st = "retired"
        BY <1>4, <1>8, <3>3, HandIsNext DEF St
      <4>2. urb[i].first + urb[i].len <= priv.packet
        BY <1>4, <4>1 DEF DataInv, PacketInv, Length
      <4>3. urb[i].first + urb[i].len \in Nat /\ priv.packet \in Nat
        BY <1>4, <1>11, PacketsInTurn
      <4> QED
        BY <2>1, <3>1, <4>1, <4>2, <4>3
    <3>4. CASE u < i
      <4>1. ~(i < u) /\ i # u
        BY <1>8, <3>4
      <4>2. St(i) # "retired" /\ urb'[i].st # "retired"
        BY <1>4, <1>8, <4>1, HandIsNext DEF St
      <4> QED
        BY <1>11, <2>1, <3>1, <3>4, <4>2
    <3> QED
      BY <1>8, <3>2, <3>3, <3>4
  <2> QED
    BY <1>7, <1>8, <1>13, <2>1, <2>2 DEF PacketInv, St, Length
<1>15. EndInv'
  <2>1. ASSUME report' = "COMPLETED" PROVE Whole'
    <3>1. over /\ p.action # "CANCELLED" /\ status = "COMPLETED"
      BY <1>8, <2>1
    <3>2. priv.action = "NORMAL" /\ u = Num
      BY <1>2, <1>5, <3>1
    <3>3. ~accepted'
      BY <1>4, <1>8, <3>2 DEF DataInv, AcceptInv
    <3>4. n = Size
      BY <1>11, <1>13, <3>2
    <3>5. Positions' = 1 .. n
      BY <1>8, <1>11, <3>4 DEF Positions
    <3>6. \A q \in Positions' : out'[q] = q
      BY <1>13, <3>2, <3>5
    <3> QED
      BY <1>4, <1>8, <3>3, <3>6 DEF Whole
  <2> QED
    BY <1>4, <1>8, <2>1 DEF EndInv
<1> QED
  BY SMTT(30), <1>8, <1>9, <1>10, <1>14, <1>15 DEF DataInv

\* handle_control_completion.
LEMMA ControlData == ASSUME UInv, DataInv, ControlCompletion PROVE DataInv'
<1> DEFINE status == CASE urb[1].status = "OK" -> "COMPLETED"
                       [] urb[1].status = "ENOENT" -> "CANCELLED"
                       [] urb[1].status = "SHUTDOWN" -> "NO_DEVICE"
                       [] urb[1].status = "PIPE" -> "STALL"
                       [] urb[1].status = "OVERFLOW" -> "OVERFLOW"
                       [] OTHER -> "ERROR"
<1>9. status = "COMPLETED" => urb[1].status = "OK"
  OBVIOUS
<1>10. Handling("control", 1) /\ job' = job /\ Leave(1, priv, TRUE, status)
  BY DEF ControlCompletion
<1> HIDE DEF status
<1>1. /\ Handling("control", 1) /\ job' = job /\ Leave(1, priv, TRUE, status)
      /\ status = "COMPLETED" => urb[1].status = "OK"
  BY <1>9, <1>10
<1>2. InHand(1) /\ req.type = "control" /\ reaping = 1 /\ priv.urbs
  BY <1>1 DEF Handling, InHand
<1>3. 1 \in 1 .. Num /\ Num = 1
  <2>1. Num >= 1 /\ Num <= 1 /\ Num \in Nat
    BY <1>2 DEF UInv, UrbsOK
  <2> QED
    BY <2>1
<1>4. IsPriv(priv)
  BY HandFacts
<1>11. PICK over : over = TRUE
  OBVIOUS
<1>12. Leave(1, priv, over, status)
  BY <1>1, <1>11
<1>5. /\ Num' = Num /\ told' = "none" /\ UNCHANGED <<req, accepted>>
      /\ report' = IF priv.action = "CANCELLED" THEN "CANCELLED" ELSE status
      /\ priv'.urbs = FALSE /\ priv'.action = priv.action
      /\ \A i \in 1 .. Num : SameShape(i) /\ SameFill(i)
      /\ LayoutInv' /\ FillInv' /\ ReapInv'
  <2>1. /\ Num' = Num /\ told = "none" /\ UNCHANGED <<req, accepted, told>>
        /\ report' = IF ~over THEN "none"
                     ELSE IF priv.action = "CANCELLED" THEN "CANCELLED" ELSE status
        /\ priv'.urbs = ~over /\ priv'.action = priv.action
        /\ \A i \in 1 .. Num : SameShape(i) /\ SameFill(i)
        /\ LayoutInv' /\ FillInv' /\ ReapInv'
    BY <1>2, <1>3, <1>4, <1>12, LeaveFacts
  <2> QED
    BY <1>11, <2>1
<1>6. PlaceInv' /\ StatusInv' /\ PacketInv'
  BY <1>2, <1>5 DEF PlaceInv, StatusInv, PacketInv
<1>7. AcceptInv'
  BY <1>2, <1>5 DEF DataInv, AcceptInv
<1>8. EndInv'
  <2>1. ASSUME report' = "COMPLETED" PROVE Whole'
    <3>1. status = "COMPLETED" /\ priv.action # "CANCELLED"
      BY <1>5, <2>1
    <3>2. ~accepted'
      BY <1>2, <1>5, <3>1 DEF DataInv, AcceptInv
    <3>3. urb'[1].status = "OK"
      BY <1>1, <1>3, <1>5, <3>1 DEF SameFill
    <3>4. 1 \in 1 .. Num' /\ 1 = Num' /\ \A i \in 1 .. 1 - 1 : FALSE
      BY <1>3, <1>5
    <3> QED
      BY <1>2, <1>5, <3>2, <3>3, <3>4 DEF Whole
  <2> QED
    BY <1>2, <1>5, <2>1 DEF EndInv
<1> QED
  BY <1>5, <1>6, <1>7, <1>8 DEF DataInv

\* Before an URB with data, in a normal transfer, there is no gap.
LEMMA InPlace ==
  ASSUME UInv, DataInv, req.type = "bulk", NEW u \in 1 .. Num, InHand(u), priv.action = "NORMAL",
         Data(u) > 0
  PROVE  urb[u].first = transferred /\ transferred \in Nat
<1>1. PICK base \in [1 .. Num + 1 -> 0 .. arrived], bound \in 1 .. Num + 1 : Placed(base, bound)
  BY DEF DataInv, PlaceInv, Located, InHand
<1>2. base[u] = transferred /\ Num \in Nat /\ transferred \in Nat
  BY <1>1, NextData, PlacedBounds
<1>3. \A i \in 1 .. u - 1 : Full(i)
  <2> SUFFICES ASSUME NEW i \in 1 .. u - 1, ~Full(i) PROVE FALSE
    OBVIOUS
  <2>1. i \in 1 .. Num /\ i < u /\ i # Num /\ u \in i + 1 .. Num
    BY <1>2
  <2>2. St(i) = "retired"
    BY <2>1, HandIsNext
  <2>3. Status(i) \in {"SHUTDOWN", "PIPE"}
    BY <2>1, <2>2 DEF DataInv, StatusInv, InHand
  <2>4. Status(i) \notin {"OK", "ENOENT"}
    BY <2>3
  <2>5. Data(u) = 0
    BY <2>1, <2>4 DEF DataInv, FillInv
  <2> QED
    BY <2>5
<1>4. base[u] = urb[u].first
  BY <1>1, <1>3 DEF Placed
<1> QED
  BY <1>2, <1>4

\* While the status is COMPLETED, all that came was good and full.
LEMMA GoodSoFar ==
  ASSUME UInv, DataInv, req.type = "bulk", NEW u \in 1 .. Num, InHand(u), priv.action = "NORMAL",
         priv.status = "COMPLETED"
  PROVE  /\ \A i \in 1 .. Num : i < u => Status(i) = "OK" /\ Full(i) /\ St(i) = "retired"
         /\ Status(u) # "ENOENT"
<1>1. \A i \in 1 .. Num : i < u => Status(i) = "OK" /\ Full(i) /\ St(i) = "retired"
  BY HandIsNext DEF DataInv, StatusInv, InHand
<1>2. ~Disordered /\ priv.urbs
  BY DEF InHand, Disordered, Discarding, NoJob
<1>3. ASSUME Status(u) = "ENOENT" PROVE FALSE
  <2>1. PICK j \in 1 .. u - 1 : Status(j) \notin {"OK", "ENOENT"}
    BY <1>2, <1>3 DEF DataInv, StatusInv
  <2>2. j \in 1 .. Num /\ j < u
    BY HandFacts
  <2> QED
    BY <1>1, <2>1, <2>2
<1> QED
  BY <1>1, <1>3

\* What handle_bulk_completion makes of the status of the URB in hand.
NextStatus(a, s) == CASE a = "SHUTDOWN" -> "NO_DEVICE"
                      [] a = "PIPE" /\ s = "COMPLETED" -> "STALL"
                      [] a = "OVERFLOW" /\ s = "COMPLETED" -> "OVERFLOW"
                      [] a = "PROTO" /\ s = "COMPLETED" -> "ERROR"
                      [] OTHER -> s

\* It is COMPLETED only if nothing failed.
LEMMA StillCompleted ==
  ASSUME NEW a \in Statuses, NEW s, NextStatus(a, s) = "COMPLETED"
  PROVE  s = "COMPLETED" /\ a \in {"OK", "REMOTEIO", "ENOENT"}
BY DEF NextStatus, Statuses

\* handle_bulk_completion of a normal transfer.
LEMMA BulkNormalData == ASSUME UInv, DataInv, BulkNormal PROVE DataInv'
<1> DEFINE Good(u) == urb[u].status \in {"OK", "REMOTEIO", "ENOENT"}
           Short(u) == Good(u) /\ u # Num /\ urb[u].data < urb[u].len
           Over(u) == \/ urb[u].status = "OVERFLOW"
                      \/ Good(u) /\ u = Num
                      \/ (Short(u) \/ ~Good(u)) /\ priv.retired + 1 = Num
           Act(u) == IF Short(u) THEN "COMPLETED_EARLY"
                     ELSE IF urb[u].status = "PROTO" THEN "ERROR" ELSE priv.action
<1>1. PICK u \in 1 .. Num :
        /\ Handling("bulk", u) /\ priv.action = "NORMAL"
        /\ transferred' = transferred + urb[u].data /\ out' = out
        /\ Leave(u, [priv EXCEPT !.retired = priv.retired + 1,
                                 !.status = NextStatus(urb[u].status, priv.status),
                                 !.action = IF Short(u) THEN "COMPLETED_EARLY"
                                            ELSE IF urb[u].status = "PROTO" THEN "ERROR" ELSE @],
                 Over(u), NextStatus(urb[u].status, priv.status))
        /\ job' = IF (Short(u) \/ ~Good(u)) /\ ~Over(u) THEN Discard(u + 1, Num, "reap")
                  ELSE NoJob
  BY ZenonT(30) DEF BulkNormal, NextStatus
<1> DEFINE over == Over(u)
           status == NextStatus(urb[u].status, priv.status)
           p == SetAction(priv, priv.retired + 1, status, Act(u))
<1>2. Leave(u, p, over, status)
  BY <1>1 DEF SetAction
<1>3. /\ InHand(u) /\ req.type = "bulk" /\ job = NoJob /\ priv.urbs
      /\ priv.action = "NORMAL" /\ Num \in Nat
  BY <1>1, HandFacts DEF Handling, InHand
<1>4. urb[u].status \in Statuses /\ (urb[u].status = "OVERFLOW" => u = Num)
  BY DEF UInv, KernelInv
<1>5. u = Num => \A i \in 1 .. Num : i # u => St(i) \in {"new", "retired"}
  BY <1>3, LastIsLast
<1>6. priv.retired + 1 = Num <=> \A i \in 1 .. Num : i # u => St(i) \in {"new", "retired"}
  BY <1>3, AllBack
<1>7. over => \A i \in 1 .. Num : i # u => St(i) \in {"new", "retired"}
  BY <1>4, <1>5, <1>6
<1>8. ~over => u # Num
  BY <1>5, <1>6
<1>9. /\ Act(u) = "NORMAL" => ~Short(u) /\ urb[u].status # "PROTO"
      /\ Act(u) = "COMPLETED_EARLY" => Short(u)
      /\ Act(u) = "ERROR" => urb[u].status = "PROTO"
      /\ Act(u) \in {"NORMAL", "COMPLETED_EARLY", "ERROR"}
  BY <1>3
<1>10. status = "COMPLETED" => priv.status = "COMPLETED" /\ Good(u)
  BY <1>4, StillCompleted
<1>11. Short(u) => Good(u) /\ u # Num /\ Data(u) < Length(u)
  BY DEF Data, Length
<1>12. ~Short(u) /\ Good(u) /\ u # Num => Full(u)
  <2>1. urb[u].data \in 0 .. urb[u].len /\ urb[u].len \in Nat
    BY DEF DataInv, LayoutInv, Laid, Num
  <2> QED
    BY <2>1 DEF Full, Data, Length
<1>13. Good(u) /\ ~over => job' = (IF Short(u) THEN Discard(u + 1, Num, "reap") ELSE NoJob)
  BY <1>1
<1>14. over /\ u # Num => Short(u) \/ ~Good(u)
  BY <1>4
<1>15. Good(u) <=> Status(u) \in {"OK", "REMOTEIO", "ENOENT"}
  BY DEF Status
<1>16. job' = NoJob \/ job' = Discard(u + 1, Num, "reap")
  BY <1>1
<1> HIDE DEF over, Act, Short, Good, status
<1>17. IsPriv(p) /\ p.action = Act(u) /\ p.status = status
  <2>1. p = [urbs |-> priv.urbs, action |-> Act(u), retired |-> priv.retired + 1,
             status |-> status, packet |-> priv.packet]
    BY HandFacts, PrivRecords
  <2>2. p.action = Act(u) /\ p.status = status
    BY <2>1
  <2>3. IsPriv(p)
    BY HandFacts, PrivCounts
  <2> QED
    BY <2>2, <2>3
<1> HIDE DEF p
<1>18. /\ Num' = Num /\ St(u) = "done" /\ St(u)' = "retired"
       /\ UNCHANGED <<req, halted, accepted>>
       /\ priv'.urbs = ~over /\ priv'.action = p.action /\ priv'.status = p.status
       /\ \A i \in 1 .. Num : /\ SameShape(i) /\ SameFill(i) /\ (i # u => urb'[i] = urb[i])
                              /\ Returned(i) <=> Returned(i)'
  BY <1>2, <1>3, <1>17, LeaveFacts
<1>19. \A q \in 1 .. Size : out'[q] = IF q \in transferred + 1 .. transferred + Data(u)
                                      THEN out[urb[u].first + q - transferred] ELSE out[q]
  <2> SUFFICES ASSUME NEW q \in 1 .. Size, q \in transferred + 1 .. transferred + Data(u)
               PROVE  out[q] = out[urb[u].first + q - transferred]
    BY <1>1
  <2>1. Data(u) \in Nat /\ transferred \in Nat
    <3>1. PICK base \in [1 .. Num + 1 -> 0 .. arrived], bound \in 1 .. Num + 1 :
            Placed(base, bound)
      BY <1>3 DEF DataInv, PlaceInv, Located
    <3>2. urb[u].data \in 0 .. urb[u].len /\ urb[u].len \in Nat
      BY DEF DataInv, LayoutInv, Laid, Num
    <3> QED
      BY <3>1, <3>2, PlacedBounds DEF Data
  <2>2. Data(u) > 0
    BY <2>1
  <2>3. urb[u].first = transferred
    BY <1>3, <2>2, InPlace
  <2>4. urb[u].first + q - transferred = q
    BY <2>1, <2>3
  <2> QED
    BY <2>4
<1>20. priv.status = "COMPLETED" =>
         /\ \A i \in 1 .. Num : i < u => Status(i) = "OK" /\ Full(i) /\ St(i) = "retired"
         /\ Status(u) # "ENOENT"
  BY <1>3, GoodSoFar
<1>21. \A i \in 1 .. Num : /\ Data(i)' = Data(i) /\ Status(i)' = Status(i) /\ Full(i)' = Full(i)
                           /\ Length(i)' = Length(i)
  BY <1>18 DEF Data, Full, Length, Status, SameShape, SameFill
<1>22. Short(u) /\ priv.status = "COMPLETED" => EndsShort'
  <2> SUFFICES ASSUME Short(u), priv.status = "COMPLETED" PROVE ShortAt(u)'
    BY <1>18 DEF EndsShort
  <2>1. u < Num /\ Data(u) < Length(u)
    BY <1>3, <1>11
  <2>2. Status(u) \in {"OK", "REMOTEIO"}
    BY <1>11, <1>15, <1>20
  <2>3. \A i \in 1 .. u - 1 : i \in 1 .. Num /\ i < u
    BY <1>3
  <2>4. \A i \in 1 .. u : i \in 1 .. Num /\ (i = u \/ i < u)
    BY <1>3
  <2>5. \A i \in 1 .. u : Returned(i)'
    BY <1>18, <1>20, <2>4 DEF Returned
  <2> QED
    BY <1>18, <1>20, <1>21, <2>1, <2>2, <2>3, <2>5 DEF ShortAt
<1>23. ~over => StatusInv'
  <2> SUFFICES ASSUME ~over PROVE StatusInv'
    OBVIOUS
  <2>1. u # Num /\ priv'.action = Act(u) /\ priv'.status = status
    BY <1>8, <1>17, <1>18
  <2>2. ASSUME Act(u) = "NORMAL", NEW i \in 1 .. Num, St(i)' = "retired"
        PROVE  /\ i # Num => Full(i)' \/ Status(i)' \in {"SHUTDOWN", "PIPE"}
               /\ status = "COMPLETED" => Status(i)' = "OK" /\ Full(i)'
    <3>1. CASE i # u
      <4>1. St(i) = "retired"
        BY <1>18, <2>2, <3>1 DEF St
      <4>2. /\ i # Num => Full(i) \/ Status(i) \in {"SHUTDOWN", "PIPE"}
            /\ priv.status = "COMPLETED" => Status(i) = "OK" /\ Full(i)
        BY <1>3, <4>1 DEF DataInv, StatusInv
      <4> QED
        BY <1>10, <1>21, <4>2
    <3>2. CASE i = u
      <4>1. Status(u) \in Statuses /\ Status(u) # "PROTO" /\ Status(u) # "OVERFLOW"
        BY <1>4, <1>9, <2>1, <2>2 DEF Status
      <4>2. Full(u) \/ Status(u) \in {"SHUTDOWN", "PIPE"}
        BY <1>9, <1>12, <1>15, <2>1, <2>2, <4>1 DEF Statuses
      <4>3. ASSUME status = "COMPLETED" PROVE Status(u) = "OK" /\ Full(u)
        <5>1. Full(u) /\ Status(u) \in {"OK", "REMOTEIO"}
          BY <1>9, <1>10, <1>12, <1>15, <1>20, <2>1, <2>2, <4>3
        <5>2. Status(u) = "REMOTEIO" => Data(u) < Length(u)
          BY DEF DataInv, FillInv
        <5>3. Length(u) \in Nat
          BY DEF DataInv, LayoutInv, Laid, Num, Length
        <5> QED
          BY <5>1, <5>2, <5>3 DEF Full
      <4> QED
        BY <1>21, <3>2, <4>2, <4>3
    <3> QED
      BY <3>1, <3>2
  <2>3. ASSUME Act(u) = "NORMAL", status = "COMPLETED"
        PROVE  /\ ~(Discarding("reap")')
               /\ \A i \in 1 .. Num : Status(i)' = "ENOENT" =>
                    \E j \in 1 .. i - 1 : Status(j)' \notin {"OK", "ENOENT"}
    <3>1. priv.status = "COMPLETED" /\ Good(u) /\ ~Short(u)
      BY <1>9, <1>10, <2>3
    <3>2. ~(Discarding("reap")')
      BY <1>13, <3>1 DEF Discarding, NoJob
    <3>3. ~Disordered
      BY <1>3 DEF Disordered, Discarding, NoJob
    <3>4. \A i \in 1 .. Num : Status(i) = "ENOENT" =>
                    \E j \in 1 .. i - 1 : Status(j) \notin {"OK", "ENOENT"}
      BY <1>3, <3>1, <3>3 DEF DataInv, StatusInv
    <3>5. ASSUME NEW i \in 1 .. Num, Status(i)' = "ENOENT"
          PROVE  \E j \in 1 .. i - 1 : Status(j)' \notin {"OK", "ENOENT"}
      <4>1. PICK j \in 1 .. i - 1 : Status(j) \notin {"OK", "ENOENT"}
        BY <1>21, <3>4, <3>5
      <4>2. j \in 1 .. Num
        BY <1>3
      <4> QED
        BY <1>21, <4>1, <4>2
    <3> QED
      BY <3>2, <3>5
  <2>4. Act(u) = "COMPLETED_EARLY" /\ status = "COMPLETED" => EndsShort'
    BY <1>9, <1>10, <1>22
  <2>5. Act(u) = "ERROR" => status # "COMPLETED"
    BY <1>9, <1>10, <1>15 DEF Status
  <2>6. ~(Submitting')
    BY <1>16 DEF Submitting, Discard, NoJob
  <2> QED
    BY <1>18, <2>1, <2>2, <2>3, <2>4, <2>5, <2>6 DEF StatusInv
<1>24. ~accepted
  BY <1>3, AcceptedFacts
<1>25. over /\ p.action # "CANCELLED" /\ status = "COMPLETED" => Whole'
  <2> SUFFICES ASSUME over, status = "COMPLETED" PROVE Whole'
    OBVIOUS
  <2>1. priv.status = "COMPLETED" /\ Good(u)
    BY <1>10
  <2>2. CASE u = Num
    <3>1. Status(u)' \in {"OK", "REMOTEIO"}
      BY <1>15, <1>20, <1>21, <2>1
    <3>2. \A i \in 1 .. u - 1 : i \in 1 .. Num /\ i < u
      BY <1>3
    <3>3. \A i \in 1 .. u - 1 : Status(i)' = "OK" /\ Full(i)'
      BY <1>20, <1>21, <2>1, <3>2
    <3>4. \A i \in 1 .. u - 1 : urb'[i].status = "OK" /\ urb'[i].data = urb'[i].len
      BY <3>3 DEF Status, Full, Data, Length
    <3>5. urb'[u].status \in {"OK", "REMOTEIO"} /\ u \in 1 .. Num' /\ u = Num'
      BY <1>18, <2>2, <3>1 DEF Status
    <3> QED
      BY <1>3, <1>18, <1>24, <3>4, <3>5 DEF Whole
  <2>3. CASE u # Num
    <3>1. EndsShort'
      BY <1>14, <1>22, <2>1, <2>3
    <3> QED
      BY <1>3, <1>18, <1>24, <3>1, ShortIsWhole
  <2> QED
    BY <2>2, <2>3
<1>26. transferred' = transferred + Data(u)
  BY <1>1 DEF Data
<1> QED
  BY <1>2, <1>3, <1>7, <1>17, <1>19, <1>23, <1>24, <1>25, <1>26, BulkLeaves

-----------------------------------------------------------------------------
(* The steps of the invariant.                                               *)

\* There is no data at first.
LEMMA InitData == Init => DataInv
<1> SUFFICES ASSUME Init PROVE DataInv
  OBVIOUS
<1>1. /\ Num = 0 /\ ~priv.urbs /\ urb = <<>> /\ Len(urb) = 0 /\ ~accepted
      /\ report = "none" /\ told = "none"
  BY DEF Init, Num
<1>2. \A i \in 1 .. Num : FALSE
  BY <1>1
<1>3. LayoutInv /\ FillInv
  BY <1>1, <1>2 DEF LayoutInv, Laid, FillInv
<1> QED
  BY <1>1, <1>3 DEF DataInv, ReapInv, PlaceInv, StatusInv, PacketInv, AcceptInv, EndInv

\* Every step keeps the data where it belongs, short of the races.
LEMMA StepData == ASSUME Races = {}, UInv, UInv', DataInv, [Next]_vars PROVE DataInv'
<1>1. CASE Kernel
  <2>1. ASSUME NEW i \in 1 .. Num, KernelCompletes(i) PROVE DataInv'
    BY <2>1, CompletesData
  <2>2. ASSUME NEW i \in 1 .. Num, NEW status \in {"REMOTEIO", "PIPE", "OVERFLOW", "PROTO"},
               KernelFails(i, status)
        PROVE  DataInv'
    BY <2>2, FailsData
  <2>3. CASE Unplug
    BY <2>3, UnplugData
  <2> QED
    BY <1>1, <2>1, <2>2, <2>3 DEF Kernel
<1>2. CASE InCall
  BY <1>2, SubmitUrbData, FirstFailsData, LaterFailsData, DiscardUrbData, DiscardEndsData
     DEF InCall
<1>3. CASE Events
  BY <1>3, ReapData, BulkSurplusData, BulkNormalData, IsoData, ControlData, ReportData,
     DisconnectData DEF Events
<1> QED
  BY <1>1, <1>2, <1>3, SubmitData, CancelData, StutterData DEF Next

\* What the invariant says at the end.
LEMMA EndSays == DataInv => DataKept /\ CompletedIsTrue
<1> SUFFICES ASSUME DataInv PROVE DataKept /\ CompletedIsTrue
  OBVIOUS
<1>1. DataKept
  BY DEF DataInv, EndInv, AllKept, DataKept
<1>2. CompletedIsTrue
  BY DEF DataInv, EndInv, Whole, CompletedIsTrue
<1> QED
  BY <1>1, <1>2

-----------------------------------------------------------------------------
(* The theorems.                                                             *)

\* Whatever the kernel completes, fails or loses, and at whichever ioctl a submission or a
\* cancellation stops, the library's num_retired is the number of URBs that are back, and
\* the URBs of a transfer that is normal come back in their order. Short of the races.
THEOREM UrbInvariant == ASSUME Races = {} PROVE Spec => []UInv
<1>1. Init => UInv
  BY InitUrbs
<1>2. UInv /\ [Next]_vars => UInv'
  BY StepUrbs
<1> QED
  BY <1>1, <1>2, PTL DEF Spec

\* The URBs are freed only when the kernel has given back every one of them, and the event
\* handler has none of them in its hand.
THEOREM UrbsFreedWhenAllAreBack == ASSUME Races = {} PROVE Spec => []NoUrbLeft
<1>1. UInv => NoUrbLeft
  BY DEF UInv
<1> QED
  BY <1>1, UrbInvariant, PTL

\* Where the data of each URB is, from the device to the buffer, and what the status of
\* the transfer says of its URBs, at every step.
THEOREM UrbData == ASSUME Races = {} PROVE Spec => []DataInv
<1>1. Init => UInv /\ DataInv
  BY InitUrbs, InitData
<1>2. UInv /\ DataInv /\ [Next]_vars => UInv' /\ DataInv'
  BY StepUrbs, StepData
<1> QED
  BY <1>1, <1>2, PTL DEF Spec

\* However a bulk transfer ended, the data that came is in the user's buffer, without a hole,
\* in the order in which it came, and none of it is lost.
THEOREM BulkDataIsKept == ASSUME Races = {} PROVE Spec => []DataKept
<1>1. DataInv => DataKept
  BY EndSays
<1> QED
  BY <1>1, UrbData, PTL

\* COMPLETED is reported only for a transfer that is full or that a short packet ended, with
\* no failure before, never for one whose cancellation was accepted; and the results of
\* isochronous packets are those of the packets.
THEOREM CompletedTellsTheTruth == ASSUME Races = {} PROVE Spec => []CompletedIsTrue
<1>1. DataInv => CompletedIsTrue
  BY EndSays
<1> QED
  BY <1>1, UrbData, PTL

=============================================================================
