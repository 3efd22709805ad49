-------------------------- MODULE TSortListProofs --------------------------
(***************************************************************************)
(* What the operations of a TSortList do, for any list, any task threads   *)
(* and any concurrency: the list stays sorted with one entry per T, nextT  *)
(* stays on the first entry with room, and the entries change by exactly   *)
(* what the operation promises.                                            *)
(*                                                                         *)
(* Every operation but takeIdleOne is an insertion of one entry into a     *)
(* sorted list (newT) or into what is left of it without the entry of t    *)
(* (updateT), so the proof is: an insertion at the right place keeps the   *)
(* order; each branch of newT and updateT inserts at such a place; and     *)
(* the entry nextT designates afterwards is again the first with room.     *)
(***************************************************************************)
EXTENDS TSortList, SequenceTheorems, WellFoundedInduction, TLAPS

-----------------------------------------------------------------------------
(* Insertion into and removal from a sequence.                             *)

\* InsertAt, position by position.
LEMMA InsertFacts ==
  ASSUME NEW S, NEW s \in Seq(S), NEW e \in S, NEW q \in 1..(Len(s) + 1)
  PROVE  /\ InsertAt(s, q, e) \in Seq(S) /\ Len(InsertAt(s, q, e)) = Len(s) + 1
         /\ InsertAt(s, q, e)[q] = e
         /\ \A k \in 1..(q - 1) : InsertAt(s, q, e)[k] = s[k]
         /\ \A k \in (q + 1)..(Len(s) + 1) : InsertAt(s, q, e)[k] = s[k - 1]
<1> DEFINE a == SubSeq(s, 1, q - 1)
           b == SubSeq(s, q, Len(s))
<1>1. Len(s) \in Nat /\ q \in Int /\ q - 1 \in Int
  BY LenProperties
<1>2. \A k \in 1..Len(s) : s[k] \in S
  BY ElementOfSeq
<1>3. a \in Seq(S) /\ Len(a) = q - 1 /\ \A k \in 1..(q - 1) : a[k] = s[k]
  <2>1. \A k \in 1..(q - 1) : s[k] \in S
    BY <1>1, <1>2
  <2>2. /\ a \in Seq(S) /\ Len(a) = IF 1 <= q - 1 THEN (q - 1) - 1 + 1 ELSE 0
        /\ \A k \in 1..((q - 1) - 1 + 1) : a[k] = s[1 + k - 1]
    BY <1>1, <2>1, SubSeqProperties
  <2>3. \A k \in 1..(q - 1) : k \in 1..((q - 1) - 1 + 1) /\ 1 + k - 1 = k
    BY <1>1
  <2> HIDE DEF a
  <2>4. QED BY <1>1, <2>2, <2>3
<1>4. /\ b \in Seq(S) /\ Len(b) = Len(s) - q + 1
      /\ \A k \in 1..(Len(s) - q + 1) : b[k] = s[q + k - 1]
  <2>1. \A k \in q..Len(s) : s[k] \in S
    BY <1>1, <1>2
  <2>2. /\ b \in Seq(S) /\ Len(b) = IF q <= Len(s) THEN Len(s) - q + 1 ELSE 0
        /\ \A k \in 1..(Len(s) - q + 1) : b[k] = s[q + k - 1]
    BY <1>1, <2>1, SubSeqProperties
  <2> HIDE DEF b
  <2>3. QED BY <1>1, <2>2
<1>5. <<e>> \in Seq(S) /\ Len(<<e>>) = 1 /\ <<e>>[1] = e
  OBVIOUS
<1> HIDE DEF a, b
<1> DEFINE ae == a \o <<e>>
<1>6. /\ ae \in Seq(S) /\ Len(ae) = q
      /\ \A k \in 1..q : ae[k] = IF k <= q - 1 THEN a[k] ELSE <<e>>[k - (q - 1)]
  BY <1>1, <1>3, <1>5, ConcatProperties
<1>7. ae[q] = e /\ \A k \in 1..(q - 1) : ae[k] = s[k]
  BY <1>1, <1>3, <1>5, <1>6
<1> HIDE DEF ae
<1>8. /\ ae \o b \in Seq(S) /\ Len(ae \o b) = q + (Len(s) - q + 1)
      /\ \A k \in 1..(q + (Len(s) - q + 1)) :
           (ae \o b)[k] = IF k <= q THEN ae[k] ELSE b[k - q]
  <2>1. /\ ae \o b \in Seq(S) /\ Len(ae \o b) = Len(ae) + Len(b)
        /\ \A k \in 1..(Len(ae) + Len(b)) :
             (ae \o b)[k] = IF k <= Len(ae) THEN ae[k] ELSE b[k - Len(ae)]
    BY <1>4, <1>6, ConcatProperties
  <2>2. Len(ae) = q /\ Len(b) = Len(s) - q + 1
    BY <1>4, <1>6
  <2>3. QED BY <2>1, <2>2
<1>9. InsertAt(s, q, e) = ae \o b
  BY DEF InsertAt, ae, a, b
<1> DEFINE r == ae \o b
<1>10. \A k \in (q + 1)..(Len(s) + 1) : r[k] = s[k - 1]
  <2> SUFFICES ASSUME NEW k \in (q + 1)..(Len(s) + 1) PROVE r[k] = s[k - 1]
    OBVIOUS
  <2>1. k \in Int /\ k - q \in 1..(Len(s) - q + 1) /\ k > q /\ q + (k - q) - 1 = k - 1
    BY <1>1
  <2>2. r[k] = b[k - q]
    BY <1>1, <1>8, <2>1
  <2>3. QED BY <1>4, <2>1, <2>2
<1>11. Len(r) = Len(s) + 1 /\ r[q] = e /\ \A k \in 1..(q - 1) : r[k] = s[k]
  BY <1>1, <1>7, <1>8
<1> HIDE DEF r
<1>12. QED BY <1>8, <1>9, <1>10, <1>11 DEF r

\* RemoveAt, position by position.
LEMMA RemoveFacts ==
  ASSUME NEW S, NEW s \in Seq(S), NEW p \in 1..Len(s)
  PROVE  /\ RemoveAt(s, p) \in Seq(S) /\ Len(RemoveAt(s, p)) = Len(s) - 1
         /\ \A k \in 1..(p - 1) : RemoveAt(s, p)[k] = s[k]
         /\ \A k \in p..(Len(s) - 1) : RemoveAt(s, p)[k] = s[k + 1]
<1> DEFINE a == SubSeq(s, 1, p - 1)
           b == SubSeq(s, p + 1, Len(s))
<1>1. Len(s) \in Nat /\ p \in Int /\ p - 1 \in Int /\ p + 1 \in Int
  BY LenProperties
<1>2. \A k \in 1..Len(s) : s[k] \in S
  BY ElementOfSeq
<1>3. a \in Seq(S) /\ Len(a) = p - 1 /\ \A k \in 1..(p - 1) : a[k] = s[k]
  <2>1. \A k \in 1..(p - 1) : s[k] \in S
    BY <1>1, <1>2
  <2>2. /\ a \in Seq(S) /\ Len(a) = IF 1 <= p - 1 THEN (p - 1) - 1 + 1 ELSE 0
        /\ \A k \in 1..((p - 1) - 1 + 1) : a[k] = s[1 + k - 1]
    BY <1>1, <2>1, SubSeqProperties
  <2>3. \A k \in 1..(p - 1) : k \in 1..((p - 1) - 1 + 1) /\ 1 + k - 1 = k
    BY <1>1
  <2> HIDE DEF a
  <2>4. QED BY <1>1, <2>2, <2>3
<1>4. /\ b \in Seq(S) /\ Len(b) = Len(s) - p
      /\ \A k \in 1..(Len(s) - p) : b[k] = s[p + k]
  <2>1. \A k \in (p + 1)..Len(s) : s[k] \in S
    BY <1>1, <1>2
  <2>2. /\ b \in Seq(S) /\ Len(b) = IF p + 1 <= Len(s) THEN Len(s) - (p + 1) + 1 ELSE 0
        /\ \A k \in 1..(Len(s) - (p + 1) + 1) : b[k] = s[(p + 1) + k - 1]
    BY <1>1, <2>1, SubSeqProperties
  <2>3. \A k \in 1..(Len(s) - p) : /\ k \in 1..(Len(s) - (p + 1) + 1)
                                   /\ (p + 1) + k - 1 = p + k
    BY <1>1
  <2> HIDE DEF b
  <2>4. QED BY <1>1, <2>2, <2>3
<1> HIDE DEF a, b
<1>5. /\ a \o b \in Seq(S) /\ Len(a \o b) = (p - 1) + (Len(s) - p)
      /\ \A k \in 1..((p - 1) + (Len(s) - p)) :
           (a \o b)[k] = IF k <= p - 1 THEN a[k] ELSE b[k - (p - 1)]
  <2>1. /\ a \o b \in Seq(S) /\ Len(a \o b) = Len(a) + Len(b)
        /\ \A k \in 1..(Len(a) + Len(b)) :
             (a \o b)[k] = IF k <= Len(a) THEN a[k] ELSE b[k - Len(a)]
    BY <1>3, <1>4, ConcatProperties
  <2>2. Len(a) = p - 1 /\ Len(b) = Len(s) - p
    BY <1>3, <1>4
  <2>3. QED BY <2>1, <2>2
<1>6. RemoveAt(s, p) = a \o b
  BY DEF RemoveAt, a, b
<1> DEFINE r == a \o b
<1>7. \A k \in p..(Len(s) - 1) : r[k] = s[k + 1]
  <2> SUFFICES ASSUME NEW k \in p..(Len(s) - 1) PROVE r[k] = s[k + 1]
    OBVIOUS
  <2>1. /\ k \in Int /\ k - (p - 1) \in 1..(Len(s) - p) /\ ~(k <= p - 1)
        /\ k \in 1..((p - 1) + (Len(s) - p)) /\ p + (k - (p - 1)) = k + 1
    BY <1>1
  <2>2. r[k] = b[k - (p - 1)]
    BY <1>5, <2>1
  <2>3. QED BY <1>4, <2>1, <2>2
<1>8. Len(r) = Len(s) - 1 /\ \A k \in 1..(p - 1) : r[k] = s[k]
  <2>1. (p - 1) + (Len(s) - p) = Len(s) - 1
    BY <1>1
  <2>2. \A k \in 1..(p - 1) : k \in 1..(Len(s) - 1) /\ k <= p - 1
    BY <1>1
  <2>3. QED BY <1>3, <1>5, <2>1, <2>2
<1> HIDE DEF r
<1>9. QED BY <1>5, <1>6, <1>7, <1>8 DEF r

\* push_back is an insertion behind the last entry.
LEMMA AppendInserts ==
  ASSUME NEW S, NEW s \in Seq(S), NEW e \in S
  PROVE  Append(s, e) = InsertAt(s, Len(s) + 1, e)
<1>0. Len(s) \in Nat
  BY LenProperties
<1> DEFINE r == InsertAt(s, Len(s) + 1, e)
<1>1. /\ r \in Seq(S) /\ Len(r) = Len(s) + 1 /\ r[Len(s) + 1] = e
      /\ \A k \in 1..(Len(s) + 1 - 1) : r[k] = s[k]
  BY <1>0, InsertFacts
<1>2. /\ Append(s, e) \in Seq(S) /\ Len(Append(s, e)) = Len(s) + 1
      /\ \A k \in 1..Len(s) : Append(s, e)[k] = s[k]
      /\ Append(s, e)[Len(s) + 1] = e
  BY AppendProperties
<1> HIDE DEF r
<1>3. \A k \in 1..(Len(s) + 1) : k = Len(s) + 1 \/ (k \in 1..Len(s) /\ k \in 1..(Len(s) + 1 - 1))
  BY <1>0
<1>4. \A k \in 1..Len(Append(s, e)) : Append(s, e)[k] = r[k]
  BY <1>1, <1>2, <1>3
<1>5. Append(s, e) = r
  BY <1>1, <1>2, <1>4, SeqEqual
<1>6. QED BY <1>5 DEF r

\* push_front is an insertion at the first position.
LEMMA ConsInserts ==
  ASSUME NEW S, NEW s \in Seq(S), NEW e \in S
  PROVE  <<e>> \o s = InsertAt(s, 1, e)
<1>0. Len(s) \in Nat
  BY LenProperties
<1> DEFINE r == InsertAt(s, 1, e)
           c == <<e>> \o s
<1>1. /\ r \in Seq(S) /\ Len(r) = Len(s) + 1 /\ r[1] = e
      /\ \A k \in (1 + 1)..(Len(s) + 1) : r[k] = s[k - 1]
  BY <1>0, InsertFacts
<1>2. <<e>> \in Seq(S) /\ Len(<<e>>) = 1 /\ <<e>>[1] = e
  OBVIOUS
<1>3. /\ c \in Seq(S) /\ Len(c) = 1 + Len(s)
      /\ \A k \in 1..(1 + Len(s)) : c[k] = IF k <= 1 THEN <<e>>[k] ELSE s[k - 1]
  BY <1>2, ConcatProperties
<1> HIDE DEF r, c
<1>4. \A k \in 1..(1 + Len(s)) : k = 1 \/ (~(k <= 1) /\ k \in (1 + 1)..(Len(s) + 1))
  BY <1>0
<1>5. ASSUME NEW k \in 1..(1 + Len(s)) PROVE c[k] = r[k]
  <2>1. CASE k = 1
    BY <1>1, <1>2, <1>3, <2>1
  <2>2. CASE ~(k <= 1) /\ k \in (1 + 1)..(Len(s) + 1)
    BY <1>1, <1>3, <2>2
  <2>3. QED BY <1>4, <2>1, <2>2
<1>6. Len(c) = Len(r)
  BY <1>0, <1>1, <1>3
<1>7. c = r
  BY <1>1, <1>3, <1>5, <1>6, SeqEqual
<1>8. QED BY <1>7 DEF r, c

\* An update in place is a removal and an insertion at the same position.
LEMMA ExceptInserts ==
  ASSUME NEW S, NEW s \in Seq(S), NEW e \in S, NEW p \in 1..Len(s)
  PROVE  [s EXCEPT ![p] = e] = InsertAt(RemoveAt(s, p), p, e)
<1>0. Len(s) \in Nat
  BY LenProperties
<1> DEFINE rest == RemoveAt(s, p)
           r == InsertAt(rest, p, e)
           c == [s EXCEPT ![p] = e]
<1>1. /\ rest \in Seq(S) /\ Len(rest) = Len(s) - 1
      /\ \A k \in 1..(p - 1) : rest[k] = s[k]
      /\ \A k \in p..(Len(s) - 1) : rest[k] = s[k + 1]
  BY RemoveFacts
<1> HIDE DEF rest
<1>2. p \in 1..(Len(rest) + 1)
  BY <1>0, <1>1
<1>3. /\ r \in Seq(S) /\ Len(r) = Len(rest) + 1 /\ r[p] = e
      /\ \A k \in 1..(p - 1) : r[k] = rest[k]
      /\ \A k \in (p + 1)..(Len(rest) + 1) : r[k] = rest[k - 1]
  BY <1>1, <1>2, InsertFacts
<1>4. /\ c \in Seq(S) /\ Len(c) = Len(s)
      /\ \A k \in 1..Len(s) : c[k] = IF k = p THEN e ELSE s[k]
  BY ExceptSeq
<1> HIDE DEF r, c
<1>5. ASSUME NEW k \in 1..Len(c) PROVE c[k] = r[k]
  <2>1. CASE k = p
    BY <1>3, <1>4, <2>1
  <2>2. CASE k < p
    <3>1. k \in 1..(p - 1) /\ k # p
      BY <1>0, <1>4, <2>2
    <3>2. QED BY <1>1, <1>3, <1>4, <3>1
  <2>3. CASE k > p
    <3>1. k \in (p + 1)..(Len(rest) + 1) /\ k - 1 \in p..(Len(s) - 1) /\ (k - 1) + 1 = k
          /\ k # p
      BY <1>0, <1>1, <1>4, <2>3
    <3>2. QED BY <1>1, <1>3, <1>4, <3>1
  <2>4. QED BY <1>0, <1>4, <2>1, <2>2, <2>3
<1>6. Len(c) = Len(r)
  BY <1>0, <1>1, <1>3, <1>4
<1>7. c = r
  BY <1>3, <1>4, <1>5, <1>6, SeqEqual
<1>8. QED BY <1>7 DEF rest, r, c

-----------------------------------------------------------------------------
(* Sorted lists of entries.                                                *)

Entries(max) == [n : 0..max, t : Ts]

\* Highest load first, one entry per T.
Ordered(s) == \A j, k \in 1..Len(s) : j < k => s[j].n >= s[k].n /\ s[j].t # s[k].t

\* The entries of a list, in no order.
Loaded(s) == {s[k] : k \in 1..Len(s)}

\* The position of the first entry with room, one past the end if none has any.
FirstFree(s, max, p) == /\ p \in 1..(Len(s) + 1)
                        /\ \A j \in 1..(p - 1) : s[j].n = max
                        /\ p \in 1..Len(s) => s[p].n < max

\* The entries of L are sorted.
Sound(L, max) == L.items \in Seq(Entries(max)) /\ Ordered(L.items)

\* What the operations keep: the order, and nextT on the first entry with room.
Good(L, max) ==
  /\ L \in [items : Seq(Entries(max)), nextT : Ts \cup {NoT}]
  /\ Ordered(L.items)
  /\ \E p \in 1..(Len(L.items) + 1) :
       FirstFree(L.items, max, p) /\ L.nextT = TAt(L.items, p)

\* The positions of an entry after an insertion.
LEMMA InsertOrdered ==
  ASSUME NEW max \in Nat, NEW s \in Seq(Entries(max)), Ordered(s),
         NEW e \in Entries(max), NEW q \in 1..(Len(s) + 1),
         \A k \in 1..Len(s) : s[k].t # e.t,
         \A j \in 1..(q - 1) : s[j].n >= e.n,
         \A j \in q..Len(s) : e.n >= s[j].n
  PROVE  /\ InsertAt(s, q, e) \in Seq(Entries(max)) /\ Ordered(InsertAt(s, q, e))
         /\ Loaded(InsertAt(s, q, e)) = Loaded(s) \cup {e}
<1> DEFINE r == InsertAt(s, q, e)
<1>1. /\ r \in Seq(Entries(max)) /\ Len(r) = Len(s) + 1 /\ r[q] = e
      /\ \A k \in 1..(q - 1) : r[k] = s[k]
      /\ \A k \in (q + 1)..(Len(s) + 1) : r[k] = s[k - 1]
  BY InsertFacts
<1>2. Len(s) \in Nat
  BY LenProperties
<1> HIDE DEF r
<1>3. \A k \in 1..Len(r) : \/ k = q
                           \/ k < q /\ k \in 1..(q - 1) /\ k \in 1..Len(s)
                           \/ k > q /\ k \in (q + 1)..(Len(s) + 1) /\ k - 1 \in q..Len(s)
                              /\ k - 1 \in 1..Len(s)
  BY <1>1, <1>2
<1>4. Ordered(r)
  <2> SUFFICES ASSUME NEW j \in 1..Len(r), NEW k \in 1..Len(r), j < k
               PROVE  r[j].n >= r[k].n /\ r[j].t # r[k].t
    BY DEF Ordered
  <2>1. CASE j < q /\ k < q
    BY <1>1, <1>3, <2>1 DEF Ordered
  <2>2. CASE j < q /\ k = q
    BY <1>1, <1>3, <2>2
  <2>3. CASE j < q /\ k > q
    <3>1. r[j] = s[j] /\ r[k] = s[k - 1] /\ j < k - 1 /\ j \in 1..Len(s) /\ k - 1 \in 1..Len(s)
      BY <1>1, <1>2, <1>3, <2>3
    <3>2. QED BY <3>1 DEF Ordered
  <2>4. CASE j = q /\ k > q
    <3>1. r[j] = e /\ r[k] = s[k - 1] /\ k - 1 \in q..Len(s) /\ k - 1 \in 1..Len(s)
      BY <1>1, <1>2, <1>3, <2>4
    <3>2. e.n >= s[k - 1].n /\ s[k - 1].t # e.t
      BY <3>1
    <3>3. QED BY <3>1, <3>2
  <2>5. CASE j > q /\ k > q
    <3>1. /\ r[j] = s[j - 1] /\ r[k] = s[k - 1] /\ j - 1 < k - 1
          /\ j - 1 \in 1..Len(s) /\ k - 1 \in 1..Len(s)
      BY <1>1, <1>2, <1>3, <2>5
    <3>2. QED BY <3>1 DEF Ordered
  <2>6. QED BY <1>1, <1>2, <2>1, <2>2, <2>3, <2>4, <2>5
<1>5. Loaded(r) = Loaded(s) \cup {e}
  <2>1. \A k \in 1..Len(r) : r[k] = e \/ \E j \in 1..Len(s) : r[k] = s[j]
    BY <1>1, <1>3
  <2>2. ASSUME NEW j \in 1..Len(s) PROVE \E k \in 1..Len(r) : r[k] = s[j]
    <3>1. CASE j < q
      <4>1. j \in 1..Len(r) /\ j \in 1..(q - 1)
        BY <1>1, <1>2, <3>1
      <4>2. QED BY <1>1, <4>1
    <3>2. CASE j >= q
      <4>1. j + 1 \in 1..Len(r) /\ j + 1 \in (q + 1)..(Len(s) + 1) /\ (j + 1) - 1 = j
        BY <1>1, <1>2, <3>2
      <4>2. QED BY <1>1, <4>1
    <3>3. QED BY <1>2, <3>1, <3>2
  <2>3. q \in 1..Len(r)
    BY <1>1, <1>2
  <2>4. Loaded(r) \subseteq Loaded(s) \cup {e}
    BY <2>1 DEF Loaded
  <2>5. Loaded(s) \subseteq Loaded(r)
    BY <2>2 DEF Loaded
  <2>6. e \in Loaded(r)
    BY <1>1, <2>3 DEF Loaded
  <2>7. QED BY <2>4, <2>5, <2>6
<1>6. QED BY <1>1, <1>4, <1>5 DEF r

\* The positions of the entries after a removal.
LEMMA RemoveOrdered ==
  ASSUME NEW max \in Nat, NEW s \in Seq(Entries(max)), Ordered(s), NEW p \in 1..Len(s)
  PROVE  /\ RemoveAt(s, p) \in Seq(Entries(max)) /\ Ordered(RemoveAt(s, p))
         /\ Loaded(RemoveAt(s, p)) = Loaded(s) \ {s[p]}
         /\ \A k \in 1..Len(RemoveAt(s, p)) : RemoveAt(s, p)[k].t # s[p].t
<1> DEFINE r == RemoveAt(s, p)
<1>1. /\ r \in Seq(Entries(max)) /\ Len(r) = Len(s) - 1
      /\ \A k \in 1..(p - 1) : r[k] = s[k]
      /\ \A k \in p..(Len(s) - 1) : r[k] = s[k + 1]
  BY RemoveFacts
<1>2. Len(s) \in Nat
  BY LenProperties
<1> HIDE DEF r
<1>3. \A k \in 1..Len(r) : \/ k < p /\ k \in 1..(p - 1) /\ k \in 1..Len(s) /\ k # p
                           \/ k >= p /\ k \in p..(Len(s) - 1) /\ k + 1 \in 1..Len(s) /\ k + 1 # p
  BY <1>1, <1>2
<1>4. \A j, k \in 1..Len(s) : j # k => s[j].t # s[k].t
  BY <1>2 DEF Ordered
<1>5. Ordered(r)
  <2> SUFFICES ASSUME NEW j \in 1..Len(r), NEW k \in 1..Len(r), j < k
               PROVE  r[j].n >= r[k].n /\ r[j].t # r[k].t
    BY DEF Ordered
  <2>1. CASE k < p
    <3>1. r[j] = s[j] /\ r[k] = s[k] /\ j \in 1..Len(s) /\ k \in 1..Len(s)
      BY <1>1, <1>3, <2>1
    <3>2. QED BY <3>1 DEF Ordered
  <2>2. CASE j < p /\ k >= p
    <3>1. r[j] = s[j] /\ r[k] = s[k + 1] /\ j < k + 1 /\ j \in 1..Len(s) /\ k + 1 \in 1..Len(s)
      BY <1>1, <1>3, <2>2
    <3>2. QED BY <3>1 DEF Ordered
  <2>3. CASE j >= p
    <3>1. /\ r[j] = s[j + 1] /\ r[k] = s[k + 1] /\ j + 1 < k + 1
          /\ j + 1 \in 1..Len(s) /\ k + 1 \in 1..Len(s)
      BY <1>1, <1>3, <2>3
    <3>2. QED BY <3>1 DEF Ordered
  <2>4. QED BY <1>1, <1>2, <2>1, <2>2, <2>3
<1>6. \A k \in 1..Len(r) : \E j \in 1..Len(s) : r[k] = s[j] /\ j # p
  BY <1>1, <1>3
<1>7. ASSUME NEW j \in 1..Len(s), j # p PROVE \E k \in 1..Len(r) : r[k] = s[j]
  <2>1. CASE j < p
    <3>1. j \in 1..Len(r) /\ j \in 1..(p - 1)
      BY <1>1, <1>2, <2>1
    <3>2. QED BY <1>1, <3>1
  <2>2. CASE j > p
    <3>1. j - 1 \in 1..Len(r) /\ j - 1 \in p..(Len(s) - 1) /\ (j - 1) + 1 = j
      BY <1>1, <1>2, <2>2
    <3>2. QED BY <1>1, <3>1
  <2>3. QED BY <1>2, <1>7, <2>1, <2>2
<1>8. \A k \in 1..Len(r) : r[k].t # s[p].t
  BY <1>4, <1>6
<1>9. Loaded(r) = Loaded(s) \ {s[p]}
  <2>1. \A j \in 1..Len(s) : j # p => s[j] # s[p]
    BY <1>4
  <2>2. Loaded(r) \subseteq Loaded(s) \ {s[p]}
    BY <1>6, <2>1 DEF Loaded
  <2>3. Loaded(s) \ {s[p]} \subseteq Loaded(r)
    BY <1>7 DEF Loaded
  <2>4. QED BY <2>2, <2>3
<1>10. QED BY <1>1, <1>5, <1>8, <1>9 DEF r

\* The first of the positions a loop stops at.
LEMMA LeastPosition ==
  ASSUME NEW at \in SUBSET Nat, at # {}
  PROVE  Min(at) \in at /\ \A j \in at : Min(at) =< j
<1> DEFINE R == {ss \in Nat \X Nat : ss[1] < ss[2]}
<1>1. IsWellFoundedOn(R, Nat)
  BY NatLessThanWellFounded DEF OpToRel
<1> HIDE DEF R
<1>2. PICK m \in at : \A j \in at : ~(<<j, m>> \in R)
  BY <1>1, WFMin
<1>3. ASSUME NEW j \in at PROVE m =< j
  <2>1. <<j, m>> \in Nat \X Nat /\ ~(<<j, m>> \in R)
    BY <1>2
  <2>2. QED BY <2>1 DEF R
<1>4. QED BY <1>3 DEF Min

\* Where the for loops of newT and updateT insert.
LEMMA InsertFromIs ==
  ASSUME NEW max \in Nat, NEW s \in Seq(Entries(max)), Ordered(s),
         NEW e \in Entries(max), NEW k \in 1..(Len(s) + 1),
         \A j \in 1..(k - 1) : s[j].n >= e.n
  PROVE  \E q \in k..(Len(s) + 1) :
           /\ InsertFrom(s, k, e) = InsertAt(s, q, e)
           /\ \A j \in 1..(q - 1) : s[j].n >= e.n
           /\ \A j \in q..Len(s) : e.n >= s[j].n
<1> DEFINE at == {j \in DOMAIN s : j >= k /\ e.n >= s[j].n}
<1>1. Len(s) \in Nat /\ DOMAIN s = 1..Len(s)
  BY LenProperties
<1>2. \A j \in 1..Len(s) : s[j] \in Entries(max)
  BY ElementOfSeq
<1>3. e.n \in Int /\ \A j \in 1..Len(s) : s[j].n \in Int
  BY <1>2 DEF Entries
<1>4. CASE at = {}
  <2>1. InsertFrom(s, k, e) = InsertAt(s, Len(s) + 1, e)
    BY <1>4 DEF InsertFrom
  <2>2. \A j \in 1..(Len(s) + 1 - 1) : s[j].n >= e.n
    <3> SUFFICES ASSUME NEW j \in 1..Len(s) PROVE s[j].n >= e.n
      BY <1>1
    <3>1. CASE j < k
      BY <1>1, <3>1
    <3>2. CASE j >= k
      BY <1>1, <1>3, <1>4, <3>2
    <3>3. QED BY <1>1, <3>1, <3>2
  <2>3. Len(s) + 1 \in k..(Len(s) + 1) /\ \A j \in (Len(s) + 1)..Len(s) : e.n >= s[j].n
    BY <1>1
  <2>4. QED BY <2>1, <2>2, <2>3
<1>5. CASE at # {}
  <2>1. at \in SUBSET Nat
    BY <1>1
  <2> DEFINE q == Min(at)
  <2>2. q \in at /\ \A j \in at : q =< j
    BY <1>5, <2>1, LeastPosition
  <2>3. InsertFrom(s, k, e) = InsertAt(s, q, e)
    BY <1>5 DEF InsertFrom
  <2>4. q \in 1..Len(s) /\ q >= k /\ e.n >= s[q].n
    BY <1>1, <2>2
  <2> HIDE DEF q
  <2>5. ASSUME NEW j \in 1..(q - 1) PROVE s[j].n >= e.n
    <3>1. j \in 1..Len(s) /\ j < q
      BY <1>1, <2>4
    <3>2. CASE j < k
      BY <1>1, <3>1, <3>2
    <3>3. CASE j >= k
      <4>1. j \notin at
        BY <1>1, <2>2, <2>4, <3>1
      <4>2. QED BY <1>1, <1>3, <3>1, <3>3, <4>1
    <3>4. QED BY <1>1, <3>1, <3>2, <3>3
  <2>6. ASSUME NEW j \in q..Len(s) PROVE e.n >= s[j].n
    <3>1. j \in 1..Len(s) /\ (j = q \/ q < j)
      BY <1>1, <2>4
    <3>2. s[q].n >= s[j].n
      BY <1>3, <2>4, <3>1 DEF Ordered
    <3>3. QED BY <1>3, <2>4, <3>1, <3>2
  <2>7. q \in k..(Len(s) + 1)
    BY <1>1, <2>4
  <2>8. QED BY <2>3, <2>5, <2>6, <2>7 DEF q
<1>6. QED BY <1>4, <1>5

-----------------------------------------------------------------------------
(* The first entry with room after an insertion or a removal.              *)

\* What follows the first entry with room has room.
LEMMA RoomAfter ==
  ASSUME NEW max \in Nat, NEW s \in Seq(Entries(max)), Ordered(s),
         NEW p, FirstFree(s, max, p)
  PROVE  \A k \in p..Len(s) : k \in 1..Len(s) /\ s[k].n <= s[p].n /\ s[k].n < max
<1>1. Len(s) \in Nat /\ p \in Int /\ p >= 1
  BY LenProperties DEF FirstFree
<1>2. \A k \in 1..Len(s) : s[k].n \in Nat
  <2>1. \A k \in 1..Len(s) : s[k] \in Entries(max)
    BY ElementOfSeq
  <2>2. QED BY <2>1 DEF Entries
<1> SUFFICES ASSUME NEW k \in p..Len(s)
             PROVE  k \in 1..Len(s) /\ s[k].n <= s[p].n /\ s[k].n < max
  OBVIOUS
<1>3. p \in 1..Len(s) /\ k \in 1..Len(s) /\ s[p].n < max
  BY <1>1 DEF FirstFree
<1>4. s[k].n <= s[p].n
  BY <1>1, <1>2, <1>3 DEF Ordered
<1>5. QED BY <1>2, <1>3, <1>4

\* An insertion behind it, at it, or before it of a full entry.
LEMMA InsertCursor ==
  ASSUME NEW max \in Nat, NEW s \in Seq(Entries(max)), NEW e \in Entries(max),
         NEW q \in 1..(Len(s) + 1), NEW p, FirstFree(s, max, p)
  PROVE  /\ q > p => /\ FirstFree(InsertAt(s, q, e), max, p)
                     /\ TAt(InsertAt(s, q, e), p) = TAt(s, p)
         /\ q = p /\ e.n < max => /\ FirstFree(InsertAt(s, q, e), max, p)
                                  /\ TAt(InsertAt(s, q, e), p) = e.t
         /\ q <= p /\ e.n = max => /\ FirstFree(InsertAt(s, q, e), max, p + 1)
                                   /\ TAt(InsertAt(s, q, e), p + 1) = TAt(s, p)
<1> DEFINE r == InsertAt(s, q, e)
<1>1. /\ r \in Seq(Entries(max)) /\ Len(r) = Len(s) + 1 /\ r[q] = e
      /\ \A k \in 1..(q - 1) : r[k] = s[k]
      /\ \A k \in (q + 1)..(Len(s) + 1) : r[k] = s[k - 1]
  <2> DEFINE S == Entries(max)
  <2>1. s \in Seq(S) /\ e \in S
    OBVIOUS
  <2> HIDE DEF S
  <2>2. /\ r \in Seq(S) /\ Len(r) = Len(s) + 1 /\ r[q] = e
        /\ \A k \in 1..(q - 1) : r[k] = s[k]
        /\ \A k \in (q + 1)..(Len(s) + 1) : r[k] = s[k - 1]
    BY <2>1, InsertFacts
  <2>3. QED BY <2>2 DEF S
<1>2. /\ Len(s) \in Nat /\ DOMAIN s = 1..Len(s) /\ DOMAIN r = 1..Len(r)
      /\ p \in 1..(Len(s) + 1) /\ q \in Int
  BY <1>1, LenProperties DEF FirstFree
<1>3. \A j \in 1..(p - 1) : s[j].n = max
  BY DEF FirstFree
<1> HIDE DEF r
<1>4. ASSUME q > p PROVE FirstFree(r, max, p) /\ TAt(r, p) = TAt(s, p)
  <2>1. p \in 1..Len(s) /\ p \in 1..Len(r) /\ p \in 1..(q - 1) /\ r[p] = s[p]
    BY <1>1, <1>2, <1>4
  <2>2. \A j \in 1..(p - 1) : j \in 1..(q - 1) /\ r[j] = s[j]
    BY <1>1, <1>2, <1>4
  <2>3. s[p].n < max
    BY <2>1 DEF FirstFree
  <2>4. p \in 1..(Len(r) + 1)
    BY <1>1, <1>2
  <2>5. TAt(r, p) = TAt(s, p)
    BY <1>2, <2>1 DEF TAt
  <2>6. QED BY <1>3, <2>1, <2>2, <2>3, <2>4, <2>5 DEF FirstFree
<1>5. ASSUME q = p, e.n < max PROVE FirstFree(r, max, p) /\ TAt(r, p) = e.t
  <2>1. \A j \in 1..(p - 1) : r[j] = s[j]
    BY <1>1, <1>5
  <2>2. p \in 1..Len(r) /\ p \in 1..(Len(r) + 1) /\ r[p] = e
    BY <1>1, <1>2, <1>5
  <2>3. TAt(r, p) = e.t
    BY <1>2, <2>2 DEF TAt
  <2>4. QED BY <1>3, <1>5, <2>1, <2>2, <2>3 DEF FirstFree
<1>6. ASSUME q <= p, e.n = max
      PROVE  FirstFree(r, max, p + 1) /\ TAt(r, p + 1) = TAt(s, p)
  <2>1. ASSUME NEW j \in 1..(p + 1 - 1) PROVE r[j].n = max
    <3>1. CASE j < q
      <4>1. j \in 1..(q - 1) /\ j \in 1..(p - 1)
        BY <1>2, <1>6, <3>1
      <4>2. QED BY <1>1, <1>3, <4>1
    <3>2. CASE j = q
      BY <1>1, <1>6, <3>2
    <3>3. CASE j > q
      <4>1. j \in (q + 1)..(Len(s) + 1) /\ j - 1 \in 1..(p - 1)
        BY <1>2, <1>6, <3>3
      <4>2. QED BY <1>1, <1>3, <4>1
    <3>4. QED BY <1>2, <3>1, <3>2, <3>3
  <2>2. ASSUME p \in 1..Len(s) PROVE p + 1 \in 1..Len(r) /\ r[p + 1] = s[p]
    <3>1. p + 1 \in (q + 1)..(Len(s) + 1) /\ p + 1 - 1 = p
      BY <1>2, <1>6, <2>2
    <3>2. QED BY <1>1, <1>2, <2>2, <3>1
  <2>3. p + 1 \in 1..Len(r) => p \in 1..Len(s)
    BY <1>1, <1>2
  <2>4. p + 1 \in 1..(Len(r) + 1)
    BY <1>1, <1>2
  <2>5. p \in 1..Len(s) => s[p].n < max
    BY DEF FirstFree
  <2>6. TAt(r, p + 1) = TAt(s, p)
    BY <1>2, <2>2, <2>3 DEF TAt
  <2>7. QED BY <2>1, <2>2, <2>3, <2>4, <2>5, <2>6 DEF FirstFree
<1>7. QED BY <1>4, <1>5, <1>6 DEF r

\* A removal of it, of an entry before it, or of one behind it.
LEMMA RemoveCursor ==
  ASSUME NEW max \in Nat, NEW s \in Seq(Entries(max)), Ordered(s),
         NEW d \in 1..Len(s), NEW p, FirstFree(s, max, p)
  PROVE  /\ d = p => /\ FirstFree(RemoveAt(s, d), max, p)
                     /\ TAt(RemoveAt(s, d), p) = TAt(s, p + 1)
         /\ d < p => /\ FirstFree(RemoveAt(s, d), max, p - 1)
                     /\ TAt(RemoveAt(s, d), p - 1) = TAt(s, p)
         /\ d > p => /\ FirstFree(RemoveAt(s, d), max, p)
                     /\ TAt(RemoveAt(s, d), p) = TAt(s, p)
<1> DEFINE r == RemoveAt(s, d)
<1>1. /\ r \in Seq(Entries(max)) /\ Len(r) = Len(s) - 1
      /\ \A k \in 1..(d - 1) : r[k] = s[k]
      /\ \A k \in d..(Len(s) - 1) : r[k] = s[k + 1]
  BY RemoveFacts
<1>2. /\ Len(s) \in Nat /\ DOMAIN s = 1..Len(s) /\ DOMAIN r = 1..Len(r)
      /\ p \in 1..(Len(s) + 1) /\ d \in Int
  BY <1>1, LenProperties DEF FirstFree
<1>3. /\ \A j \in 1..(p - 1) : s[j].n = max
      /\ \A k \in p..Len(s) : s[k].n < max
  BY RoomAfter DEF FirstFree
<1> HIDE DEF r
<1>4. ASSUME d = p PROVE FirstFree(r, max, p) /\ TAt(r, p) = TAt(s, p + 1)
  <2>1. \A j \in 1..(p - 1) : r[j] = s[j]
    BY <1>1, <1>4
  <2>2. ASSUME p \in 1..Len(r)
        PROVE  p + 1 \in 1..Len(s) /\ p + 1 \in p..Len(s) /\ r[p] = s[p + 1]
    BY <1>1, <1>2, <1>4, <2>2
  <2>3. p + 1 \in 1..Len(s) => p \in 1..Len(r)
    BY <1>1, <1>2
  <2>4. p \in 1..(Len(r) + 1)
    BY <1>1, <1>2, <1>4
  <2>5. TAt(r, p) = TAt(s, p + 1)
    BY <1>2, <2>2, <2>3 DEF TAt
  <2>6. QED BY <1>3, <2>1, <2>2, <2>4, <2>5 DEF FirstFree
<1>5. ASSUME d < p PROVE FirstFree(r, max, p - 1) /\ TAt(r, p - 1) = TAt(s, p)
  <2>1. ASSUME NEW j \in 1..(p - 1 - 1) PROVE r[j].n = max
    <3>1. CASE j < d
      <4>1. j \in 1..(d - 1) /\ j \in 1..(p - 1)
        BY <1>2, <1>5, <3>1
      <4>2. QED BY <1>1, <1>3, <4>1
    <3>2. CASE j >= d
      <4>1. j \in d..(Len(s) - 1) /\ j + 1 \in 1..(p - 1)
        BY <1>2, <1>5, <3>2
      <4>2. QED BY <1>1, <1>3, <4>1
    <3>3. QED BY <1>2, <3>1, <3>2
  <2>2. ASSUME p \in 1..Len(s) PROVE p - 1 \in 1..Len(r) /\ r[p - 1] = s[p]
    <3>1. p - 1 \in d..(Len(s) - 1) /\ p - 1 + 1 = p
      BY <1>2, <1>5, <2>2
    <3>2. QED BY <1>1, <1>2, <2>2, <3>1
  <2>3. p - 1 \in 1..Len(r) => p \in 1..Len(s)
    BY <1>1, <1>2
  <2>4. p - 1 \in 1..(Len(r) + 1)
    BY <1>1, <1>2, <1>5
  <2>5. p \in 1..Len(s) => s[p].n < max
    BY DEF FirstFree
  <2>6. TAt(r, p - 1) = TAt(s, p)
    BY <1>2, <2>2, <2>3 DEF TAt
  <2>7. QED BY <2>1, <2>2, <2>3, <2>4, <2>5, <2>6 DEF FirstFree
<1>6. ASSUME d > p PROVE FirstFree(r, max, p) /\ TAt(r, p) = TAt(s, p)
  <2>1. p \in 1..Len(s) /\ p \in 1..Len(r) /\ p \in 1..(d - 1) /\ r[p] = s[p]
    BY <1>1, <1>2, <1>6
  <2>2. \A j \in 1..(p - 1) : j \in 1..(d - 1) /\ r[j] = s[j]
    BY <1>1, <1>2, <1>6
  <2>3. s[p].n < max
    BY <2>1 DEF FirstFree
  <2>4. p \in 1..(Len(r) + 1)
    BY <1>1, <1>2, <2>1
  <2>5. TAt(r, p) = TAt(s, p)
    BY <1>2, <2>1 DEF TAt
  <2>6. QED BY <1>3, <2>1, <2>2, <2>3, <2>4, <2>5 DEF FirstFree
<1>7. QED BY <1>4, <1>5, <1>6 DEF r

-----------------------------------------------------------------------------
(* Looking a T up.                                                         *)

\* A T of the list has one position.
LEMMA PosFacts ==
  ASSUME NEW max \in Nat, NEW L, Sound(L, max),
         NEW t \in Members(L)
  PROVE  /\ PosOf(L, t) \in 1..Len(L.items) /\ L.items[PosOf(L, t)].t = t
         /\ \A k \in 1..Len(L.items) : L.items[k].t = t => k = PosOf(L, t)
<1>1. Len(L.items) \in Nat /\ DOMAIN L.items = 1..Len(L.items)
  BY LenProperties DEF Sound
<1>2. \E k \in DOMAIN L.items : L.items[k].t = t
  BY DEF Members
<1>3. PosOf(L, t) \in DOMAIN L.items /\ L.items[PosOf(L, t)].t = t
  BY <1>2 DEF PosOf
<1>4. \A j, k \in 1..Len(L.items) : j # k => L.items[j].t # L.items[k].t
  BY <1>1 DEF Ordered, Sound
<1>5. QED BY <1>1, <1>3, <1>4

\* LoadIn and Members read the entries, whatever their order.
LEMMA LookupFacts ==
  ASSUME NEW max \in Nat, NEW L, Sound(L, max)
  PROVE  /\ Members(L) \subseteq Ts
         /\ \A t \in Members(L) : /\ LoadIn(L, t) \in 0..max
                                  /\ L.items[PosOf(L, t)] = Entry(LoadIn(L, t), t)
                                  /\ Entry(LoadIn(L, t), t) \in Loaded(L.items)
         /\ \A e \in Loaded(L.items) : e.t \in Members(L) /\ LoadIn(L, e.t) = e.n
<1>1. DOMAIN L.items = 1..Len(L.items) /\ \A k \in 1..Len(L.items) : L.items[k] \in Entries(max)
  BY LenProperties, ElementOfSeq DEF Sound
<1>2. Members(L) \subseteq Ts
  BY <1>1 DEF Members, Entries
<1>3. ASSUME NEW t \in Members(L)
      PROVE  /\ LoadIn(L, t) \in 0..max
             /\ L.items[PosOf(L, t)] = Entry(LoadIn(L, t), t)
             /\ Entry(LoadIn(L, t), t) \in Loaded(L.items)
  <2>1. PosOf(L, t) \in 1..Len(L.items) /\ L.items[PosOf(L, t)].t = t
    BY PosFacts
  <2>2. L.items[PosOf(L, t)] \in [n : 0..max, t : Ts]
    BY <1>1, <2>1 DEF Entries
  <2>3. L.items[PosOf(L, t)] = Entry(LoadIn(L, t), t)
    BY <2>1, <2>2 DEF Entry, LoadIn
  <2>4. QED BY <2>1, <2>2, <2>3 DEF LoadIn, Loaded
<1>4. ASSUME NEW e \in Loaded(L.items)
      PROVE  e.t \in Members(L) /\ LoadIn(L, e.t) = e.n
  <2>1. PICK k \in 1..Len(L.items) : e = L.items[k]
    BY DEF Loaded
  <2>2. e.t \in Members(L)
    BY <1>1, <2>1 DEF Members
  <2>3. k = PosOf(L, e.t)
    BY <2>1, <2>2, PosFacts
  <2>4. QED BY <2>1, <2>2, <2>3 DEF LoadIn
<1>5. QED BY <1>2, <1>3, <1>4

\* Where nextT stands, and what it says of the loads.
LEMMA NextFacts ==
  ASSUME NEW max \in Nat, NEW L, Sound(L, max),
         NoT \notin Ts, NEW p, FirstFree(L.items, max, p), L.nextT = TAt(L.items, p)
  PROVE  /\ L.nextT = NoT <=> p = Len(L.items) + 1
         /\ L.nextT # NoT => /\ p \in 1..Len(L.items) /\ L.nextT \in Members(L)
                             /\ p = PosOf(L, L.nextT) /\ L.items[p].n < max
<1>1. /\ DOMAIN L.items = 1..Len(L.items) /\ Len(L.items) \in Nat
      /\ p \in 1..(Len(L.items) + 1)
  BY LenProperties DEF FirstFree, Sound
<1>2. \A k \in 1..Len(L.items) : L.items[k].t \in Ts
  <2>1. \A k \in 1..Len(L.items) : L.items[k] \in Entries(max)
    BY ElementOfSeq DEF Sound
  <2>2. QED BY <2>1 DEF Entries
<1>3. CASE p \in 1..Len(L.items)
  <2>1. L.nextT = L.items[p].t
    BY <1>1, <1>3 DEF TAt
  <2>2. L.nextT # NoT /\ L.nextT \in Members(L)
    BY <1>1, <1>2, <1>3, <2>1 DEF Members
  <2>3. p = PosOf(L, L.nextT)
    BY <1>3, <2>1, <2>2, PosFacts
  <2>4. p # Len(L.items) + 1
    BY <1>1, <1>3
  <2>5. QED BY <1>3, <2>2, <2>3, <2>4 DEF FirstFree
<1>4. CASE p = Len(L.items) + 1
  <2>1. p \notin 1..Len(L.items)
    BY <1>1, <1>4
  <2>2. QED BY <1>1, <1>4, <2>1 DEF TAt
<1>5. QED BY <1>1, <1>3, <1>4

\* A sorted list whose nextT is at the first entry with room is good.
LEMMA GoodBy ==
  ASSUME NEW max \in Nat, NEW s \in Seq(Entries(max)), Ordered(s),
         NEW p, FirstFree(s, max, p), NEW x, x = TAt(s, p)
  PROVE  Good([items |-> s, nextT |-> x], max)
<1>1. p \in 1..(Len(s) + 1)
  BY DEF FirstFree
<1>2. DOMAIN s = 1..Len(s) /\ \A k \in 1..Len(s) : s[k] \in Entries(max)
  BY LenProperties, ElementOfSeq
<1>3. x \in Ts \cup {NoT}
  BY <1>2 DEF TAt, Entries
<1>4. QED BY <1>1, <1>3 DEF Good

-----------------------------------------------------------------------------
(* newT.                                                                   *)

\* t joins with a load of 0 or 1, wherever the branches of newT put it.
LEMMA NewTGood ==
  ASSUME NEW max \in Nat \ {0}, NoT \notin Ts, NEW L, Good(L, max),
         NEW t \in Ts \ Members(L), NEW n \in {0, 1}
  PROVE  /\ Good(NewT(L, max, n, t), max)
         /\ Loaded(NewT(L, max, n, t).items) = Loaded(L.items) \cup {Entry(n, t)}
<1> DEFINE s == L.items
           e == Entry(n, t)
           M == NewT(L, max, n, t)
<1>0. max \in Nat
  OBVIOUS
<1>1. /\ L \in [items : Seq(Entries(max)), nextT : Ts \cup {NoT}]
      /\ s \in Seq(Entries(max)) /\ Ordered(s) /\ Sound(L, max)
  BY DEF Good, Sound
<1>2. PICK p \in 1..(Len(s) + 1) : FirstFree(s, max, p) /\ L.nextT = TAt(s, p)
  BY DEF Good
<1>3. /\ L.nextT = NoT <=> p = Len(s) + 1
      /\ L.nextT # NoT => p \in 1..Len(s) /\ p = PosOf(L, L.nextT) /\ s[p].n < max
  BY <1>1, <1>2, NextFacts
<1>4. /\ DOMAIN s = 1..Len(s) /\ Len(s) \in Nat
      /\ \A k \in 1..Len(s) : s[k] \in Entries(max)
  BY <1>1, LenProperties, ElementOfSeq
<1>5. \A k \in 1..Len(s) : s[k].t # e.t /\ s[k].n \in 0..max
  BY <1>4 DEF Members, Entries, Entry
<1>6. e \in Entries(max) /\ e.n = n /\ e.t = t
  BY DEF Entries, Entry
<1>7. /\ \A j \in 1..(p - 1) : s[j].n = max
      /\ \A k \in p..Len(s) : k \in 1..Len(s) /\ s[k].n <= s[p].n /\ s[k].n < max
  BY <1>1, <1>2, RoomAfter DEF FirstFree
<1> HIDE DEF s, e
<1>8. ASSUME NEW q \in 1..(Len(s) + 1), NEW x, M = [items |-> InsertAt(s, q, e), nextT |-> x],
             \A j \in 1..(q - 1) : s[j].n >= n, \A j \in q..Len(s) : n >= s[j].n,
             \/ q > p /\ x = TAt(s, p)
             \/ q = p /\ n < max /\ x = t
             \/ q <= p /\ n = max /\ x = TAt(s, p)
      PROVE  Good(M, max) /\ Loaded(M.items) = Loaded(s) \cup {e}
  <2>1. /\ InsertAt(s, q, e) \in Seq(Entries(max)) /\ Ordered(InsertAt(s, q, e))
        /\ Loaded(InsertAt(s, q, e)) = Loaded(s) \cup {e}
    <3>1. /\ \A k \in 1..Len(s) : s[k].t # e.t
          /\ \A j \in 1..(q - 1) : s[j].n >= e.n
          /\ \A j \in q..Len(s) : e.n >= s[j].n
      BY <1>5, <1>6, <1>8
    <3>2. QED BY <1>0, <1>1, <1>6, <3>1, InsertOrdered
  <2>2. \E d : FirstFree(InsertAt(s, q, e), max, d) /\ x = TAt(InsertAt(s, q, e), d)
    BY <1>1, <1>2, <1>6, <1>8, InsertCursor
  <2>3. Good([items |-> InsertAt(s, q, e), nextT |-> x], max)
    BY <2>1, <2>2, GoodBy
  <2>4. QED BY <1>8, <2>1, <2>3
<1>9. CASE n = 0 \/ (n # max /\ L.nextT = NoT)
  <2> DEFINE x == IF L.nextT = NoT THEN t ELSE L.nextT
             q == Len(s) + 1
  <2>1. M = [items |-> InsertAt(s, q, e), nextT |-> x]
    <3>1. Append(s, e) = InsertAt(s, Len(s) + 1, e)
      BY <1>1, <1>6, AppendInserts
    <3>2. QED BY <1>9, <3>1 DEF NewT, s, e
  <2>2. q \in 1..(Len(s) + 1) /\ \A j \in q..Len(s) : n >= s[j].n
    BY <1>4
  <2>3. \A j \in 1..(q - 1) : s[j].n >= n
    <3>1. ASSUME NEW j \in 1..(q - 1), n # 0 PROVE s[j].n >= n
      <4>1. p = Len(s) + 1 /\ j \in 1..(p - 1)
        BY <1>3, <1>9, <3>1
      <4>2. QED BY <1>7, <4>1
    <3>2. ASSUME NEW j \in 1..(q - 1) PROVE s[j].n >= 0
      <4>1. j \in 1..Len(s)
        BY <1>4
      <4>2. QED BY <1>5, <4>1
    <3>3. QED BY <3>1, <3>2
  <2>4. \/ q > p /\ x = TAt(s, p)
        \/ q = p /\ n < max /\ x = t
    BY <1>2, <1>3, <1>4, <1>9
  <2> HIDE DEF x, q
  <2>5. QED BY <1>8, <2>1, <2>2, <2>3, <2>4 DEF s, e
<1>10. CASE n = max
  <2>1. M = [items |-> InsertAt(s, 1, e), nextT |-> L.nextT]
    <3>1. <<e>> \o s = InsertAt(s, 1, e)
      BY <1>1, <1>6, ConsInserts
    <3>2. M = [L EXCEPT !.items = <<e>> \o s]
      BY <1>0, <1>10 DEF NewT, s, e
    <3>3. QED BY <1>1, <3>1, <3>2
  <2>2. 1 \in 1..(Len(s) + 1) /\ 1 <= p /\ \A j \in 1..(1 - 1) : s[j].n >= n
    BY <1>4
  <2>3. \A j \in 1..Len(s) : n >= s[j].n
    BY <1>5, <1>10
  <2>4. QED BY <1>2, <1>8, <1>10, <2>1, <2>2, <2>3 DEF s, e
<1>11. CASE n # 0 /\ n # max /\ L.nextT # NoT
  <2>1. n < max /\ p \in 1..Len(s) /\ p = PosOf(L, L.nextT)
    BY <1>3, <1>11
  <2>2. CASE n > s[p].n
    <3>1. M = [items |-> InsertAt(s, p, e), nextT |-> t]
      BY <1>1, <1>11, <2>1, <2>2 DEF NewT, s, e
    <3>2. \A j \in 1..(p - 1) : s[j].n >= n
      BY <1>7, <2>1
    <3>3. \A j \in p..Len(s) : n >= s[j].n
      BY <1>5, <1>7, <2>1, <2>2
    <3>4. QED BY <1>8, <2>1, <3>1, <3>2, <3>3 DEF s, e
  <2>3. CASE ~(n > s[p].n)
    <3>1. M = [items |-> InsertFrom(s, p + 1, e), nextT |-> L.nextT]
      BY <1>1, <1>11, <2>1, <2>3 DEF NewT, s, e
    <3>2. \A j \in 1..((p + 1) - 1) : s[j].n >= e.n
      <4>1. s[p].n >= n
        BY <1>5, <2>1, <2>3
      <4>2. \A j \in 1..(p - 1) : s[j].n >= n
        BY <1>7, <2>1
      <4>3. \A j \in 1..((p + 1) - 1) : j = p \/ j \in 1..(p - 1)
        BY <2>1
      <4>4. QED BY <1>6, <4>1, <4>2, <4>3
    <3>3. p + 1 \in 1..(Len(s) + 1)
      BY <2>1
    <3>4. PICK q \in (p + 1)..(Len(s) + 1) :
            /\ InsertFrom(s, p + 1, e) = InsertAt(s, q, e)
            /\ \A j \in 1..(q - 1) : s[j].n >= e.n
            /\ \A j \in q..Len(s) : e.n >= s[j].n
      BY <1>0, <1>1, <1>6, <3>2, <3>3, InsertFromIs
    <3>5. q \in 1..(Len(s) + 1) /\ q > p
      BY <2>1, <3>4
    <3>6. QED BY <1>2, <1>6, <1>8, <3>1, <3>4, <3>5 DEF s, e
  <2>4. QED BY <2>2, <2>3
<1>12. QED BY <1>9, <1>10, <1>11 DEF s, e

-----------------------------------------------------------------------------
(* updateT.                                                                *)

\* The list without the entry of t.
Rest(L, t) == RemoveAt(L.items, PosOf(L, t))

\* The list without the entry of t: what is before the first entry with room is
\* full, what is behind it has room.
LEMMA RestFacts ==
  ASSUME NEW max \in Nat, NEW L, Sound(L, max), NEW t \in Members(L)
  PROVE  /\ PosOf(L, t) \in 1..Len(L.items) /\ L.items[PosOf(L, t)] = Entry(LoadIn(L, t), t)
         /\ LoadIn(L, t) \in 0..max
         /\ Rest(L, t) \in Seq(Entries(max)) /\ Ordered(Rest(L, t))
         /\ Len(Rest(L, t)) = Len(L.items) - 1
         /\ Loaded(Rest(L, t)) = Loaded(L.items) \ {Entry(LoadIn(L, t), t)}
         /\ \A k \in 1..Len(Rest(L, t)) : Rest(L, t)[k].t # t /\ Rest(L, t)[k].n \in 0..max
         /\ \A k \in 1..(PosOf(L, t) - 1) : /\ Rest(L, t)[k] = L.items[k]
                                            /\ Rest(L, t)[k].n >= LoadIn(L, t)
         /\ \A k \in PosOf(L, t)..Len(Rest(L, t)) : /\ Rest(L, t)[k] = L.items[k + 1]
                                                   /\ Rest(L, t)[k].n <= LoadIn(L, t)
<1> DEFINE s == L.items
           m == LoadIn(L, t)
           d == PosOf(L, t)
           rest == Rest(L, t)
<1>0. s \in Seq(Entries(max)) /\ Ordered(s)
  BY DEF Sound
<1>1. d \in 1..Len(s) /\ s[d] = Entry(m, t) /\ m \in 0..max
  BY PosFacts, LookupFacts
<1>2. s[d].t = t /\ s[d].n = m
  BY <1>1 DEF Entry
<1>3. /\ rest \in Seq(Entries(max)) /\ Ordered(rest)
      /\ Loaded(rest) = Loaded(s) \ {s[d]}
      /\ \A k \in 1..Len(rest) : rest[k].t # s[d].t
  BY <1>0, <1>1, RemoveOrdered DEF Rest
<1>4. /\ Len(rest) = Len(s) - 1
      /\ \A k \in 1..(d - 1) : rest[k] = s[k]
      /\ \A k \in d..(Len(s) - 1) : rest[k] = s[k + 1]
  BY <1>0, <1>1, RemoveFacts DEF Rest
<1>5. Len(s) \in Nat
  BY <1>0, LenProperties
<1>6. \A k \in 1..Len(rest) : rest[k].n \in 0..max
  <2>1. \A k \in 1..Len(rest) : rest[k] \in Entries(max)
    BY <1>3, ElementOfSeq
  <2>2. QED BY <2>1 DEF Entries
<1> HIDE DEF s, m, d, rest
<1>7. ASSUME NEW k \in 1..(d - 1) PROVE rest[k].n >= m
  <2>1. k \in 1..Len(s) /\ k < d
    BY <1>1, <1>5
  <2>2. s[k].n >= s[d].n
    BY <1>0, <1>1, <2>1 DEF Ordered
  <2>3. QED BY <1>2, <1>4, <2>2
<1>8. ASSUME NEW k \in d..Len(rest) PROVE rest[k] = s[k + 1] /\ rest[k].n <= m
  <2>1. k \in d..(Len(s) - 1) /\ k + 1 \in 1..Len(s) /\ d < k + 1 /\ k \in 1..Len(rest)
    BY <1>1, <1>4, <1>5
  <2>2. s[d].n >= s[k + 1].n /\ rest[k] = s[k + 1]
    BY <1>0, <1>1, <1>4, <2>1 DEF Ordered
  <2>3. rest[k].n \in 0..max
    BY <1>6, <2>1
  <2>4. QED BY <1>1, <1>2, <2>2, <2>3
<1>9. QED BY <1>1, <1>2, <1>3, <1>4, <1>6, <1>7, <1>8 DEF s, m, d, rest

\* A place for the entry of t with load n: the order wants it there, p is the
\* first entry with room without it, and x is the T that has room first with it.
Place(L, max, t, n, q, p, x) ==
  /\ q \in 1..(Len(Rest(L, t)) + 1)
  /\ \A j \in 1..(q - 1) : Rest(L, t)[j].n >= n
  /\ \A j \in q..Len(Rest(L, t)) : n >= Rest(L, t)[j].n
  /\ FirstFree(Rest(L, t), max, p)
  /\ \/ q > p /\ x = TAt(Rest(L, t), p)
     \/ q = p /\ n < max /\ x = t
     \/ q <= p /\ n = max /\ x = TAt(Rest(L, t), p)

\* The entry of t comes back with load n where the order wants it.
LEMMA ReinsertGood ==
  ASSUME NEW max \in Nat, NEW L, Sound(L, max), NEW t \in Members(L),
         NEW n \in 0..max, NEW q, NEW p, NEW x, Place(L, max, t, n, q, p, x)
  PROVE  /\ Good([items |-> InsertAt(Rest(L, t), q, Entry(n, t)), nextT |-> x], max)
         /\ Loaded(InsertAt(Rest(L, t), q, Entry(n, t))) =
              (Loaded(L.items) \ {Entry(LoadIn(L, t), t)}) \cup {Entry(n, t)}
<1> DEFINE rest == Rest(L, t)
           e    == Entry(n, t)
<1>1. /\ rest \in Seq(Entries(max)) /\ Ordered(rest)
      /\ Loaded(rest) = Loaded(L.items) \ {Entry(LoadIn(L, t), t)}
      /\ \A k \in 1..Len(rest) : rest[k].t # t
  BY RestFacts
<1>2. e \in Entries(max) /\ e.n = n /\ e.t = t
  BY LookupFacts DEF Entry, Entries
<1> HIDE DEF rest, e
<1>3. /\ \A k \in 1..Len(rest) : rest[k].t # e.t
      /\ \A j \in 1..(q - 1) : rest[j].n >= e.n
      /\ \A j \in q..Len(rest) : e.n >= rest[j].n
      /\ q \in 1..(Len(rest) + 1)
      /\ FirstFree(rest, max, p)
      /\ \/ q > p /\ x = TAt(rest, p)
         \/ q = p /\ n < max /\ x = t
         \/ q <= p /\ n = max /\ x = TAt(rest, p)
  BY <1>1, <1>2 DEF rest, Place
<1>4. /\ InsertAt(rest, q, e) \in Seq(Entries(max)) /\ Ordered(InsertAt(rest, q, e))
      /\ Loaded(InsertAt(rest, q, e)) = Loaded(rest) \cup {e}
  BY <1>1, <1>2, <1>3, InsertOrdered
<1>5. \E c : FirstFree(InsertAt(rest, q, e), max, c) /\ x = TAt(InsertAt(rest, q, e), c)
  BY <1>1, <1>2, <1>3, InsertCursor
<1>6. Good([items |-> InsertAt(rest, q, e), nextT |-> x], max)
  BY <1>4, <1>5, GoodBy
<1>7. QED BY <1>1, <1>4, <1>6 DEF rest, e

\* The T that nextT designates has one request more or one less.
LEMMA UpdateNextGood ==
  ASSUME NEW max \in Nat, NoT \notin Ts, NEW L, Good(L, max),
         NEW t \in Members(L), t = L.nextT, NEW n \in 0..max,
         n = LoadIn(L, t) + 1 \/ n = LoadIn(L, t) - 1
  PROVE  /\ Good(UpdateNext(L, max, n, t), max)
         /\ Loaded(UpdateNext(L, max, n, t).items) =
              (Loaded(L.items) \ {Entry(LoadIn(L, t), t)}) \cup {Entry(n, t)}
<1> DEFINE s    == L.items
           m    == LoadIn(L, t)
           d    == PosOf(L, t)
           rest == Rest(L, t)
           e    == Entry(n, t)
           M    == UpdateNext(L, max, n, t)
           Was  == (Loaded(L.items) \ {Entry(LoadIn(L, t), t)}) \cup {Entry(n, t)}
<1>1. /\ L \in [items : Seq(Entries(max)), nextT : Ts \cup {NoT}]
      /\ s \in Seq(Entries(max)) /\ Ordered(s) /\ Sound(L, max) /\ t \in Ts
  BY LookupFacts DEF Good, Sound
<1>2. PICK p \in 1..(Len(s) + 1) : FirstFree(s, max, p) /\ L.nextT = TAt(s, p)
  BY DEF Good
<1>3. p \in 1..Len(s) /\ p = d /\ s[p].n < max
  BY <1>1, <1>2, NextFacts
<1>4. /\ s[d] = Entry(m, t) /\ m \in 0..max
      /\ rest \in Seq(Entries(max)) /\ Len(rest) = Len(s) - 1 /\ Ordered(rest)
      /\ \A k \in 1..Len(rest) : rest[k].n \in 0..max
      /\ \A k \in d..Len(rest) : rest[k].n <= m
  BY <1>1, RestFacts
<1>5. FirstFree(rest, max, p) /\ TAt(rest, p) = TAt(s, p + 1)
  BY <1>1, <1>2, <1>3, RestFacts, RemoveCursor DEF Rest
<1>6. Len(s) \in Nat /\ m < max /\ s[d].n = m /\ n \in Nat /\ n <= max
  BY <1>1, <1>3, <1>4, LenProperties DEF Entry
<1>7. p \in 1..(Len(rest) + 1) /\ \A j \in 1..(p - 1) : rest[j].n = max
  BY <1>5 DEF FirstFree
<1>8. e \in Entries(max) /\ e.n = n /\ e.t = t
  BY <1>1 DEF Entry, Entries
<1> HIDE DEF s, d, m, rest, e
<1>9. ASSUME NEW q \in p..(Len(rest) + 1),
             \A j \in 1..(q - 1) : rest[j].n >= n, \A j \in q..Len(rest) : n >= rest[j].n,
             n < max,
             M = [items |-> InsertAt(rest, q, e), nextT |-> TAt(InsertAt(rest, q, e), p)]
      PROVE  Good(M, max) /\ Loaded(M.items) = Was
  <2> DEFINE x == TAt(InsertAt(rest, q, e), p)
  <2>1. q \in 1..(Len(rest) + 1) /\ (q > p \/ q = p)
    BY <1>7, <1>9
  <2>2. \/ q > p /\ x = TAt(rest, p)
        \/ q = p /\ n < max /\ x = t
    BY <1>4, <1>5, <1>8, <1>9, <2>1, InsertCursor
  <2> HIDE DEF x
  <2>3. /\ Good([items |-> InsertAt(rest, q, e), nextT |-> x], max)
        /\ Loaded(InsertAt(rest, q, e)) = Was
    <3>1. Place(L, max, t, n, q, p, x)
      BY <1>5, <1>9, <2>1, <2>2 DEF rest, Place
    <3>2. /\ Good([items |-> InsertAt(Rest(L, t), q, Entry(n, t)), nextT |-> x], max)
          /\ Loaded(InsertAt(Rest(L, t), q, Entry(n, t))) = Was
      BY <1>1, <3>1, ReinsertGood
    <3>3. QED BY <3>2 DEF rest, e
  <2>4. QED BY <1>9, <2>3 DEF x
<1>10. CASE n = 0
  <2> DEFINE q == Len(rest) + 1
  <2>1. Append(rest, e) = InsertAt(rest, q, e)
    BY <1>4, <1>8, AppendInserts
  <2>2. M = [items |-> InsertAt(rest, q, e), nextT |-> TAt(InsertAt(rest, q, e), p)]
    BY <1>3, <1>10, <2>1 DEF UpdateNext, Rest, s, d, rest, e
  <2>3. Len(rest) \in Nat
    BY <1>4, LenProperties
  <2>4. /\ q \in p..(Len(rest) + 1)
        /\ \A j \in q..Len(rest) : n >= rest[j].n
        /\ \A j \in 1..(q - 1) : j \in 1..Len(rest)
    BY <1>7, <2>3
  <2>5. \A j \in 1..(q - 1) : rest[j].n >= n
    BY <1>4, <1>10, <2>4
  <2>6. n < max
    BY <1>4, <1>6, <1>10
  <2> HIDE DEF q
  <2>7. QED BY <1>9, <2>2, <2>4, <2>5, <2>6
<1>11. CASE n # 0 /\ n = m + 1
  <2>1. [s EXCEPT ![p].n = n] = InsertAt(rest, p, e)
    <3>1. [s EXCEPT ![p] = e] = InsertAt(rest, p, e)
      BY <1>1, <1>3, <1>8, ExceptInserts DEF Rest, rest, s, d
    <3>2. [s[p] EXCEPT !.n = n] = e
      BY <1>3, <1>4 DEF Entry, e
    <3>3. [s EXCEPT ![p].n = n] = [s EXCEPT ![p] = [s[p] EXCEPT !.n = n]]
      OBVIOUS
    <3>4. QED BY <3>1, <3>2, <3>3
  <2> DEFINE x == IF n = max THEN TAt(s, p + 1) ELSE t
  <2>2. n >= s[d].n
    BY <1>4, <1>6, <1>11
  <2>3. M = [items |-> InsertAt(rest, p, e), nextT |-> x]
    BY <1>3, <1>11, <2>1, <2>2 DEF UpdateNext, Rest, s, d, rest, e
  <2>4. \A j \in 1..(p - 1) : rest[j].n >= n
    BY <1>6, <1>7
  <2>5. \A j \in p..Len(rest) : n >= rest[j].n
    <3>1. \A j \in p..Len(rest) : j \in 1..Len(rest)
      BY <1>7
    <3>2. QED BY <1>3, <1>4, <1>6, <1>11, <3>1
  <2>6. \/ p = p /\ n < max /\ x = t
        \/ p <= p /\ n = max /\ x = TAt(rest, p)
    BY <1>5, <1>6, <1>7
  <2> HIDE DEF x
  <2>7. /\ Good([items |-> InsertAt(rest, p, e), nextT |-> x], max)
        /\ Loaded(InsertAt(rest, p, e)) = Was
    <3>1. Place(L, max, t, n, p, p, x)
      BY <1>5, <1>7, <2>4, <2>5, <2>6 DEF rest, Place
    <3>2. /\ Good([items |-> InsertAt(Rest(L, t), p, Entry(n, t)), nextT |-> x], max)
          /\ Loaded(InsertAt(Rest(L, t), p, Entry(n, t))) = Was
      BY <1>1, <3>1, ReinsertGood
    <3>3. QED BY <3>2 DEF rest, e
  <2>8. QED BY <2>3, <2>7
<1>12. CASE n # 0 /\ n = m - 1
  <2>1. ~(n >= s[d].n) /\ n < max
    BY <1>4, <1>6, <1>12
  <2>2. \A j \in 1..(p - 1) : rest[j].n >= e.n
    BY <1>6, <1>7, <1>8
  <2>3. PICK q \in p..(Len(rest) + 1) :
          /\ InsertFrom(rest, p, e) = InsertAt(rest, q, e)
          /\ \A j \in 1..(q - 1) : rest[j].n >= e.n
          /\ \A j \in q..Len(rest) : e.n >= rest[j].n
    BY <1>4, <1>7, <1>8, <2>2, InsertFromIs
  <2>4. M = [items |-> InsertAt(rest, q, e), nextT |-> TAt(InsertAt(rest, q, e), p)]
    BY <1>3, <1>12, <2>1, <2>3 DEF UpdateNext, Rest, s, d, rest, e
  <2>5. QED BY <1>8, <1>9, <2>1, <2>3, <2>4
<1>13. QED BY <1>10, <1>11, <1>12 DEF m

\* Another T of the list has one request less.
LEMMA UpdateOtherGood ==
  ASSUME NEW max \in Nat, NoT \notin Ts, NEW L, Good(L, max),
         NEW t \in Members(L), t # L.nextT, NEW n \in 0..max, n = LoadIn(L, t) - 1
  PROVE  /\ Good(UpdateOther(L, n, t), max)
         /\ Loaded(UpdateOther(L, n, t).items) =
              (Loaded(L.items) \ {Entry(LoadIn(L, t), t)}) \cup {Entry(n, t)}
<1> DEFINE s    == L.items
           m    == LoadIn(L, t)
           d    == PosOf(L, t)
           rest == Rest(L, t)
           e    == Entry(n, t)
           M    == UpdateOther(L, n, t)
           Was  == (Loaded(L.items) \ {Entry(LoadIn(L, t), t)}) \cup {Entry(n, t)}
           K    == [L EXCEPT !.items = rest]
<1>1. /\ L \in [items : Seq(Entries(max)), nextT : Ts \cup {NoT}]
      /\ s \in Seq(Entries(max)) /\ Ordered(s) /\ Sound(L, max) /\ t \in Ts
  BY LookupFacts DEF Good, Sound
<1>2. PICK p \in 1..(Len(s) + 1) : FirstFree(s, max, p) /\ L.nextT = TAt(s, p)
  BY DEF Good
<1>3. /\ L.nextT = NoT <=> p = Len(s) + 1
      /\ L.nextT # NoT => p \in 1..Len(s) /\ L.nextT \in Members(L) /\ p = PosOf(L, L.nextT)
  BY <1>1, <1>2, NextFacts
<1>4. /\ d \in 1..Len(s) /\ s[d] = Entry(m, t) /\ m \in 0..max
      /\ rest \in Seq(Entries(max)) /\ Len(rest) = Len(s) - 1 /\ Ordered(rest)
      /\ \A k \in 1..Len(rest) : rest[k].n \in 0..max
      /\ \A k \in 1..(d - 1) : rest[k].n >= m
  BY <1>1, RestFacts
<1>5. s[d].t = t /\ s[d].n = m /\ Len(s) \in Nat /\ n < m /\ n < max /\ n + 1 = m /\ n \in Nat
  BY <1>1, <1>4, LenProperties DEF Entry
<1>6. d # p
  <2>1. CASE L.nextT = NoT
    BY <1>3, <1>4, <1>5, <2>1
  <2>2. CASE L.nextT # NoT
    <3>1. s[p].t = L.nextT
      BY <1>1, <1>3, <2>2, PosFacts
    <3>2. QED BY <1>5, <3>1
  <2>3. QED BY <2>1, <2>2
<1> DEFINE c == IF d < p THEN p - 1 ELSE p
<1>7. FirstFree(rest, max, c) /\ TAt(rest, c) = L.nextT
  <2>1. d < p \/ d > p
    BY <1>2, <1>4, <1>5, <1>6
  <2>2. /\ d < p => /\ FirstFree(RemoveAt(s, d), max, p - 1)
                    /\ TAt(RemoveAt(s, d), p - 1) = TAt(s, p)
        /\ d > p => /\ FirstFree(RemoveAt(s, d), max, p)
                    /\ TAt(RemoveAt(s, d), p) = TAt(s, p)
    BY <1>1, <1>2, <1>4, RemoveCursor
  <2>3. rest = RemoveAt(s, d)
    BY DEF Rest
  <2>4. QED BY <1>2, <1>4, <2>1, <2>2, <2>3
<1>8. /\ d < p => c = p - 1
      /\ d > p => c = p
  BY <1>2, <1>4
<1>9. e.n = n /\ e.t = t /\ e \in Entries(max)
  BY <1>1 DEF Entry, Entries
<1>10. /\ K.items = rest /\ K.nextT = L.nextT /\ Sound(K, max)
  BY <1>1, <1>4 DEF Sound
<1>11. /\ L.nextT = NoT <=> c = Len(rest) + 1
       /\ L.nextT # NoT => c \in 1..Len(rest) /\ c = PosOf(K, L.nextT) /\ rest[c].n < max
  <2>1. K.nextT = TAt(K.items, c) /\ FirstFree(K.items, max, c)
    BY <1>7, <1>10
  <2> HIDE DEF K, c, rest
  <2>2. /\ K.nextT = NoT <=> c = Len(K.items) + 1
        /\ K.nextT # NoT => /\ c \in 1..Len(K.items)
                            /\ c = PosOf(K, K.nextT) /\ K.items[c].n < max
    BY <1>10, <2>1, NextFacts
  <2>3. QED BY <1>10, <2>2
<1>12. /\ c \in 1..(Len(rest) + 1) /\ \A j \in 1..(c - 1) : rest[j].n = max
       /\ \A k \in c..Len(rest) : rest[k].n <= rest[c].n /\ rest[k].n < max
  BY <1>4, <1>7, RoomAfter DEF FirstFree
<1>13. /\ L.nextT = NoT => M = [items |-> Append(rest, e), nextT |-> t]
       /\ L.nextT # NoT /\ n < rest[c].n =>
            M = [items |-> InsertFrom(rest, d, e), nextT |-> L.nextT]
       /\ L.nextT # NoT /\ ~(n < rest[c].n) =>
            M = [items |-> InsertAt(rest, c, e), nextT |-> t]
  <2>1. RemoveAt(L.items, PosOf(L, t)) = rest
    BY DEF Rest
  <2>2. /\ L.nextT # NoT /\ n < rest[c].n =>
             M = [L EXCEPT !.items = InsertFrom(rest, d, e)]
        /\ L.nextT = NoT => M = [items |-> Append(rest, e), nextT |-> t]
        /\ L.nextT # NoT /\ ~(n < rest[c].n) =>
             M = [items |-> InsertAt(rest, c, e), nextT |-> t]
    BY <1>11, <2>1 DEF UpdateOther
  <2>3. [L EXCEPT !.items = InsertFrom(rest, d, e)] =
          [items |-> InsertFrom(rest, d, e), nextT |-> L.nextT]
    BY <1>1
  <2>4. QED BY <2>2, <2>3
<1> HIDE DEF s, d, m, rest, e, c, M
<1>14. ASSUME NEW q, NEW x, Place(L, max, t, n, q, c, x),
              M = [items |-> InsertAt(rest, q, e), nextT |-> x]
       PROVE  Good(M, max) /\ Loaded(M.items) = Was
  <2>1. /\ Good([items |-> InsertAt(Rest(L, t), q, Entry(n, t)), nextT |-> x], max)
        /\ Loaded(InsertAt(Rest(L, t), q, Entry(n, t))) = Was
    BY <1>1, <1>14, ReinsertGood
  <2>2. QED BY <1>14, <2>1 DEF rest, e
<1>15. CASE L.nextT = NoT
  <2>1. M = [items |-> InsertAt(rest, c, e), nextT |-> t]
    <3>1. Append(rest, e) = InsertAt(rest, Len(rest) + 1, e)
      BY <1>4, <1>9, AppendInserts
    <3>2. QED BY <1>11, <1>13, <1>15, <3>1
  <2>2. \A j \in 1..(c - 1) : rest[j].n >= n
    BY <1>5, <1>12
  <2>3. \A j \in c..Len(rest) : n >= rest[j].n
    <3>1. Len(rest) \in Nat /\ c = Len(rest) + 1
      BY <1>4, <1>11, <1>15, LenProperties
    <3>2. QED BY <3>1
  <2>4. c = c /\ n < max /\ t = t
    BY <1>5
  <2>5. Place(L, max, t, n, c, c, t)
    BY <1>7, <1>12, <2>2, <2>3, <2>4 DEF Place, rest
  <2>6. QED BY <1>14, <2>1, <2>5 DEF M
<1>16. CASE L.nextT # NoT /\ n < rest[c].n
  <2>1. d > p
    <3>1. SUFFICES ASSUME d < p PROVE FALSE
      BY <1>2, <1>4, <1>5, <1>6
    <3>2. s[d].n = max
      BY <1>2, <1>4, <1>5, <3>1 DEF FirstFree
    <3>3. rest[c].n \in 0..max /\ rest[c].n < max
      BY <1>4, <1>11, <1>16
    <3>4. QED BY <1>5, <1>16, <3>2, <3>3
  <2>2. c = p /\ d \in 1..(Len(rest) + 1)
    BY <1>4, <1>5, <1>8, <2>1
  <2>3. \A j \in 1..(d - 1) : rest[j].n >= e.n
    <3>1. \A j \in 1..(d - 1) : rest[j].n \in 0..max
      <4>1. \A j \in 1..(d - 1) : j \in 1..Len(rest)
        BY <1>4, <1>5
      <4>2. QED BY <1>4, <4>1
    <3>2. QED BY <1>4, <1>5, <1>9, <3>1
  <2>4. PICK q \in d..(Len(rest) + 1) :
          /\ InsertFrom(rest, d, e) = InsertAt(rest, q, e)
          /\ \A j \in 1..(q - 1) : rest[j].n >= e.n
          /\ \A j \in q..Len(rest) : e.n >= rest[j].n
    BY <1>4, <1>9, <2>2, <2>3, InsertFromIs
  <2>5. q > c /\ q \in 1..(Len(rest) + 1)
    BY <1>2, <1>4, <1>5, <2>1, <2>2, <2>4
  <2>6. M = [items |-> InsertAt(rest, q, e), nextT |-> L.nextT]
    BY <1>13, <1>16, <2>4
  <2>7. Place(L, max, t, n, q, c, L.nextT)
    BY <1>7, <1>9, <2>4, <2>5 DEF Place, rest
  <2>8. QED BY <1>14, <2>6, <2>7 DEF M
<1>17. CASE L.nextT # NoT /\ ~(n < rest[c].n)
  <2>1. c \in 1..Len(rest) /\ rest[c].n \in 0..max
    BY <1>4, <1>11, <1>17
  <2>2. \A j \in 1..(c - 1) : rest[j].n >= n
    BY <1>5, <1>12
  <2>3. \A j \in c..Len(rest) : n >= rest[j].n
    <3>1. \A j \in c..Len(rest) : rest[j].n \in 0..max
      <4>1. \A j \in c..Len(rest) : j \in 1..Len(rest)
        BY <2>1
      <4>2. QED BY <1>4, <4>1
    <3>2. n >= rest[c].n
      BY <1>5, <1>17, <2>1
    <3>3. QED BY <1>5, <1>12, <2>1, <3>1, <3>2
  <2>4. c = c /\ n < max /\ t = t
    BY <1>5
  <2>5. Place(L, max, t, n, c, c, t)
    BY <1>7, <1>12, <2>2, <2>3, <2>4 DEF Place, rest
  <2>6. QED BY <1>13, <1>14, <1>17, <2>5 DEF M
<1>18. QED BY <1>15, <1>16, <1>17 DEF M

\* updateT changes the entry of t and no other.
LEMMA UpdateTGood ==
  ASSUME NEW max \in Nat, NoT \notin Ts, NEW L, Good(L, max),
         NEW t \in Members(L), NEW n \in 0..max,
         (n = LoadIn(L, t) + 1 /\ t = L.nextT) \/ n = LoadIn(L, t) - 1
  PROVE  /\ Good(UpdateT(L, max, n, t), max)
         /\ Loaded(UpdateT(L, max, n, t).items) =
              (Loaded(L.items) \ {Entry(LoadIn(L, t), t)}) \cup {Entry(n, t)}
<1>1. LoadIn(L, t) \in 0..max
  BY LookupFacts DEF Good, Sound
<1>2. n # LoadIn(L, t)
  BY <1>1
<1>3. CASE t = L.nextT
  BY <1>2, <1>3, UpdateNextGood DEF UpdateT
<1>4. CASE t # L.nextT
  BY <1>2, <1>4, UpdateOtherGood DEF UpdateT
<1>5. QED BY <1>3, <1>4

-----------------------------------------------------------------------------
(* What each public operation does to the Ts of a list and to their loads. *)

\* A good list, by its fields.
LEMMA GoodSound ==
  ASSUME NEW max \in Nat, NEW L, Good(L, max)
  PROVE  /\ Sound(L, max)
         /\ L \in [items : Seq([n : 0..max, t : Ts]), nextT : Ts \cup {NoT}]
         /\ Members(L) \subseteq Ts
         /\ \A t \in Members(L) : LoadIn(L, t) \in 0..max
<1>1. Sound(L, max)
  BY DEF Good, Sound
<1>2. QED BY <1>1, LookupFacts DEF Good, Entries

\* The list a function starts with.
LEMMA EmptyGood ==
  ASSUME NEW max \in Nat
  PROVE  Good(EmptyList, max) /\ Members(EmptyList) = {}
<1>1. << >> \in Seq(Entries(max)) /\ Len(<< >>) = 0 /\ DOMAIN << >> = {}
  BY EmptySeq
<1>2. Ordered(<< >>) /\ FirstFree(<< >>, max, 1) /\ TAt(<< >>, 1) = NoT
  BY <1>1 DEF Ordered, FirstFree, TAt
<1>3. Good([items |-> << >>, nextT |-> NoT], max)
  BY <1>1, <1>2, GoodBy
<1>4. QED BY <1>1, <1>3 DEF EmptyList, Members

\* The entries decide who is in a list and how loaded.
LEMMA EntriesDecide ==
  ASSUME NEW max \in Nat, NEW L, Good(L, max), NEW t, NEW n, Entry(n, t) \in Loaded(L.items)
  PROVE  t \in Members(L) /\ LoadIn(L, t) = n
<1>1. Sound(L, max)
  BY DEF Good, Sound
<1>2. QED BY <1>1, LookupFacts DEF Entry

\* newOne adds t with its load and touches nobody else.
LEMMA NewOneFacts ==
  ASSUME NEW max \in Nat \ {0}, NoT \notin Ts, NEW L, Good(L, max),
         NEW t \in Ts \ Members(L), NEW take \in BOOLEAN
  PROVE  LET M == AfterNewOne(L, max, t, take)
         IN  /\ Good(M, max)
             /\ Members(M) = Members(L) \cup {t}
             /\ LoadIn(M, t) = IF take THEN 1 ELSE 0
             /\ \A u \in Members(L) : LoadIn(M, u) = LoadIn(L, u)
<1> DEFINE M == AfterNewOne(L, max, t, take)
           n == IF take THEN 1 ELSE 0
<1>0. max \in Nat /\ n \in {0, 1}
  OBVIOUS
<1>1. Good(M, max) /\ Loaded(M.items) = Loaded(L.items) \cup {Entry(n, t)}
  BY <1>0, NewTGood DEF AfterNewOne
<1>2. Sound(L, max) /\ Sound(M, max)
  BY <1>0, <1>1, GoodSound
<1> HIDE DEF M, n
<1>3. t \in Members(M) /\ LoadIn(M, t) = n
  BY <1>0, <1>1, EntriesDecide
<1>4. \A u \in Members(L) : u \in Members(M) /\ LoadIn(M, u) = LoadIn(L, u)
  <2>1. TAKE u \in Members(L)
  <2>2. Entry(LoadIn(L, u), u) \in Loaded(M.items)
    BY <1>0, <1>1, <1>2, LookupFacts
  <2>3. QED BY <1>0, <1>1, <2>2, EntriesDecide
<1>5. ASSUME NEW u \in Members(M), u # t PROVE u \in Members(L)
  <2>1. Entry(LoadIn(M, u), u) \in Loaded(M.items)
    BY <1>0, <1>2, LookupFacts
  <2>2. Entry(LoadIn(M, u), u) # Entry(n, t)
    BY <1>5 DEF Entry
  <2>3. Entry(LoadIn(M, u), u) \in Loaded(L.items)
    BY <1>1, <2>1, <2>2
  <2>4. QED BY <1>0, <2>3, EntriesDecide
<1>6. QED BY <1>1, <1>3, <1>4, <1>5 DEF M, n

\* updateT changes the load of t and nothing else.
LEMMA UpdateFacts ==
  ASSUME NEW max \in Nat, NoT \notin Ts, NEW L, Good(L, max),
         NEW t \in Members(L), NEW n \in 0..max,
         (n = LoadIn(L, t) + 1 /\ t = L.nextT) \/ n = LoadIn(L, t) - 1
  PROVE  LET M == UpdateT(L, max, n, t)
         IN  /\ Good(M, max)
             /\ Members(M) = Members(L)
             /\ LoadIn(M, t) = n
             /\ \A u \in Members(L) : u # t => LoadIn(M, u) = LoadIn(L, u)
<1> DEFINE M == UpdateT(L, max, n, t)
           old == Entry(LoadIn(L, t), t)
<1>1. Good(M, max) /\ Loaded(M.items) = (Loaded(L.items) \ {old}) \cup {Entry(n, t)}
  BY UpdateTGood
<1>2. Sound(L, max) /\ Sound(M, max)
  BY <1>1, GoodSound
<1> HIDE DEF M
<1>3. t \in Members(M) /\ LoadIn(M, t) = n
  BY <1>1, EntriesDecide
<1>4. ASSUME NEW u \in Members(L), u # t
      PROVE  u \in Members(M) /\ LoadIn(M, u) = LoadIn(L, u)
  <2>1. Entry(LoadIn(L, u), u) \in Loaded(L.items)
    BY <1>2, LookupFacts
  <2>2. Entry(LoadIn(L, u), u) # old
    BY <1>4 DEF Entry
  <2>3. Entry(LoadIn(L, u), u) \in Loaded(M.items)
    BY <1>1, <2>1, <2>2
  <2>4. QED BY <1>1, <2>3, EntriesDecide
<1>5. ASSUME NEW u \in Members(M), u # t PROVE u \in Members(L)
  <2>1. Entry(LoadIn(M, u), u) \in Loaded(M.items)
    BY <1>2, LookupFacts
  <2>2. Entry(LoadIn(M, u), u) # Entry(n, t)
    BY <1>5 DEF Entry
  <2>3. Entry(LoadIn(M, u), u) \in Loaded(L.items)
    BY <1>1, <2>1, <2>2
  <2>4. QED BY <2>3, EntriesDecide
<1>6. QED BY <1>1, <1>3, <1>4, <1>5 DEF M

\* nextT is a most loaded T with room; without one, every T is full.
LEMMA TakeChoice ==
  ASSUME NEW max \in Nat, NoT \notin Ts, NEW L, Good(L, max)
  PROVE  /\ CanTakeOne(L) =>
              /\ L.nextT \in Members(L)
              /\ LoadIn(L, L.nextT) + 1 \in 0..max
              /\ \A u \in Members(L) :
                   LoadIn(L, u) < max => LoadIn(L, u) <= LoadIn(L, L.nextT)
         /\ ~CanTakeOne(L) => \A u \in Members(L) : LoadIn(L, u) = max
<1> DEFINE s == L.items
<1>1. Sound(L, max) /\ Len(s) \in Nat /\ DOMAIN s = 1..Len(s)
  BY GoodSound, LenProperties DEF Sound
<1>2. PICK p \in 1..(Len(s) + 1) : FirstFree(s, max, p) /\ L.nextT = TAt(s, p)
  BY DEF Good
<1>3. /\ L.nextT = NoT <=> p = Len(s) + 1
      /\ L.nextT # NoT => /\ p \in 1..Len(s) /\ L.nextT \in Members(L)
                          /\ p = PosOf(L, L.nextT) /\ s[p].n < max
  BY <1>1, <1>2, NextFacts
<1>4. \A u \in Members(L) : /\ PosOf(L, u) \in 1..Len(s)
                            /\ LoadIn(L, u) = s[PosOf(L, u)].n /\ LoadIn(L, u) \in 0..max
  BY <1>1, PosFacts, LookupFacts DEF LoadIn
<1>5. \A j \in 1..(p - 1) : s[j].n = max
  BY <1>2 DEF FirstFree
<1>6. \A j, k \in 1..Len(s) : j < k => s[j].n >= s[k].n
  BY <1>1 DEF Sound, Ordered
<1> HIDE DEF s
<1>7. ASSUME CanTakeOne(L)
      PROVE  /\ L.nextT \in Members(L) /\ LoadIn(L, L.nextT) + 1 \in 0..max
             /\ \A u \in Members(L) : LoadIn(L, u) < max => LoadIn(L, u) <= LoadIn(L, L.nextT)
  <2>1. p \in 1..Len(s) /\ L.nextT \in Members(L) /\ LoadIn(L, L.nextT) = s[p].n /\ s[p].n < max
    BY <1>3, <1>4, <1>7 DEF CanTakeOne
  <2>2. LoadIn(L, L.nextT) \in 0..max
    BY <1>4, <2>1
  <2>3. ASSUME NEW u \in Members(L), LoadIn(L, u) < max
        PROVE  LoadIn(L, u) <= LoadIn(L, L.nextT)
    <3> DEFINE k == PosOf(L, u)
    <3>1. k \in 1..Len(s) /\ LoadIn(L, u) = s[k].n /\ s[k].n \in 0..max
      BY <1>4, <2>3
    <3> HIDE DEF k
    <3>2. k \notin 1..(p - 1)
      BY <1>5, <2>3, <3>1
    <3>3. k = p \/ p < k
      BY <1>1, <2>1, <3>1, <3>2
    <3>4. QED BY <1>6, <2>1, <2>2, <3>1, <3>3
  <2>4. QED BY <2>1, <2>2, <2>3
<1>8. ASSUME ~CanTakeOne(L), NEW u \in Members(L) PROVE LoadIn(L, u) = max
  <2>1. p = Len(s) + 1
    BY <1>3, <1>8 DEF CanTakeOne
  <2>2. PosOf(L, u) \in 1..(p - 1)
    BY <1>1, <1>4, <2>1
  <2>3. QED BY <1>4, <1>5, <2>2
<1>9. QED BY <1>7, <1>8

\* takeOne: one more on nextT.
LEMMA TakeOneFacts ==
  ASSUME NEW max \in Nat, NoT \notin Ts, NEW L, Good(L, max), CanTakeOne(L)
  PROVE  LET M == AfterTakeOne(L, max)
         IN  /\ Good(M, max)
             /\ Members(M) = Members(L)
             /\ LoadIn(M, L.nextT) = LoadIn(L, L.nextT) + 1
             /\ \A u \in Members(L) : u # L.nextT => LoadIn(M, u) = LoadIn(L, u)
<1>1. L.nextT \in Members(L) /\ LoadIn(L, L.nextT) + 1 \in 0..max
  BY TakeChoice
<1> DEFINE n == LoadIn(L, L.nextT) + 1
           t == L.nextT
<1>2. n = LoadIn(L, t) + 1 /\ t = L.nextT
  OBVIOUS
<1>3. AfterTakeOne(L, max) = UpdateT(L, max, n, t)
  BY DEF AfterTakeOne
<1>4. t \in Members(L) /\ n \in 0..max
  BY <1>1
<1> HIDE DEF n, t
<1>5. QED BY <1>2, <1>3, <1>4, UpdateFacts

\* returnOne: one less on t.
LEMMA ReturnOneFacts ==
  ASSUME NEW max \in Nat, NoT \notin Ts, NEW L, Good(L, max),
         NEW t \in Members(L), LoadIn(L, t) > 0
  PROVE  LET M == AfterReturnOne(L, max, t)
         IN  /\ Good(M, max)
             /\ Members(M) = Members(L)
             /\ LoadIn(M, t) = LoadIn(L, t) - 1
             /\ \A u \in Members(L) : u # t => LoadIn(M, u) = LoadIn(L, u)
<1> DEFINE n == LoadIn(L, t) - 1
<1>1. LoadIn(L, t) \in 0..max
  BY GoodSound
<1>2. n \in 0..max /\ n = LoadIn(L, t) - 1
  BY <1>1
<1>3. AfterReturnOne(L, max, t) = UpdateT(L, max, n, t)
  BY DEF AfterReturnOne
<1> HIDE DEF n
<1>4. QED BY <1>2, <1>3, UpdateFacts

\* A sequence without its last element.
LEMMA FrontFacts ==
  ASSUME NEW S, NEW s \in Seq(S), s # << >>
  PROVE  /\ Len(s) \in Nat \ {0}
         /\ Front(s) \in Seq(S) /\ Len(Front(s)) = Len(s) - 1
         /\ \A k \in 1..(Len(s) - 1) : Front(s)[k] = s[k]
<1>1. Len(s) \in Nat \ {0}
  BY LenProperties, EmptySeq
<1>2. \A k \in 1..Len(s) : s[k] \in S
  BY ElementOfSeq
<1>3. \A k \in 1..(Len(s) - 1) : k \in 1..Len(s)
  BY <1>1
<1>4. \A k \in 1..(Len(s) - 1) : s[k] \in S
  BY <1>2, <1>3
<1> DEFINE a == SubSeq(s, 1, Len(s) - 1)
<1>5. /\ a \in Seq(S) /\ Len(a) = IF 1 <= Len(s) - 1 THEN (Len(s) - 1) - 1 + 1 ELSE 0
      /\ \A k \in 1..((Len(s) - 1) - 1 + 1) : a[k] = s[1 + k - 1]
  <2>1. Len(s) - 1 \in Int
    BY <1>1
  <2>2. QED BY <1>4, <2>1, SubSeqProperties
<1>6. \A k \in 1..(Len(s) - 1) : k \in 1..((Len(s) - 1) - 1 + 1) /\ 1 + k - 1 = k
  BY <1>1
<1>7. Front(s) = a
  BY DEF Front
<1> HIDE DEF a
<1>8. QED BY <1>1, <1>5, <1>6, <1>7

\* An idle T is the last entry; without one, every T has a request.  A list
\* with an idle T has a T with room, so takeIdleOne can read *nextT.
LEMMA IdleChoice ==
  ASSUME NEW max \in Nat \ {0}, NoT \notin Ts, NEW L, Good(L, max)
  PROVE  /\ CanTakeIdle(L) => /\ IdleOne(L) \in Members(L)
                              /\ LoadIn(L, IdleOne(L)) = 0
                              /\ L.nextT # NoT
         /\ ~CanTakeIdle(L) => \A u \in Members(L) : LoadIn(L, u) > 0
<1> DEFINE s == L.items
           z == s[Len(s)]
<1>0. max \in Nat
  OBVIOUS
<1>1. Sound(L, max) /\ Len(s) \in Nat /\ DOMAIN s = 1..Len(s) /\ s \in Seq(Entries(max))
  BY <1>0, GoodSound, LenProperties DEF Sound
<1>2. \A k \in 1..Len(s) : s[k] \in Entries(max)
  BY <1>1, ElementOfSeq
<1>3. ASSUME CanTakeIdle(L)
      PROVE  IdleOne(L) \in Members(L) /\ LoadIn(L, IdleOne(L)) = 0 /\ L.nextT # NoT
  <2>1. s # << >> /\ z.n = 0 /\ IdleOne(L) = z.t
    BY <1>3 DEF CanTakeIdle, IdleOne, Last
  <2>2. Len(s) \in 1..Len(s)
    BY <1>1, <2>1, FrontFacts
  <2>3. z \in Loaded(s)
    BY <2>2 DEF Loaded
  <2>4. z.t \in Members(L) /\ LoadIn(L, z.t) = z.n
    BY <1>0, <1>1, <2>3, LookupFacts
  <2>5. L.nextT # NoT
    <3>1. SUFFICES ASSUME ~CanTakeOne(L) PROVE FALSE
      BY DEF CanTakeOne
    <3>2. LoadIn(L, z.t) = max
      BY <1>0, <2>4, <3>1, TakeChoice
    <3>3. QED BY <2>1, <2>4, <3>2
  <2>6. QED BY <2>1, <2>4, <2>5
<1>4. ASSUME ~CanTakeIdle(L), NEW u \in Members(L) PROVE LoadIn(L, u) > 0
  <2> DEFINE k == PosOf(L, u)
  <2>1. k \in 1..Len(s) /\ LoadIn(L, u) = s[k].n
    BY <1>0, <1>1, PosFacts DEF LoadIn
  <2>2. s[k] \in [n : 0..max, t : Ts] /\ z \in [n : 0..max, t : Ts]
    <3>1. Len(s) \in 1..Len(s)
      BY <1>1, <2>1
    <3>2. QED BY <1>2, <2>1, <3>1 DEF Entries
  <2>3. s # << >>
    BY <2>1, EmptySeq
  <2>4. z.n # 0
    BY <1>4, <2>3 DEF CanTakeIdle, Last
  <2>5. \A i, j \in 1..Len(s) : i < j => s[i].n >= s[j].n
    BY <1>1 DEF Sound, Ordered
  <2> HIDE DEF k
  <2>6. s[k].n >= z.n
    <3>1. Len(s) \in 1..Len(s) /\ (k = Len(s) \/ k < Len(s))
      BY <1>1, <2>1
    <3>2. s[k].n \in 0..max /\ z.n \in 0..max
      BY <2>2
    <3>3. QED BY <2>1, <2>5, <3>1, <3>2
  <2>7. QED BY <2>1, <2>2, <2>4, <2>6
<1>5. QED BY <1>3, <1>4

\* takeIdleOne removes an idle T and touches nobody else.
LEMMA TakeIdleFacts ==
  ASSUME NEW max \in Nat \ {0}, NoT \notin Ts, NEW L, Good(L, max), CanTakeIdle(L)
  PROVE  LET M == AfterTakeIdle(L)
         IN  /\ Good(M, max)
             /\ Members(M) = Members(L) \ {IdleOne(L)}
             /\ \A u \in Members(M) : LoadIn(M, u) = LoadIn(L, u)
<1> DEFINE s == L.items
           m == Len(s)
           r == Front(s)
           M == AfterTakeIdle(L)
<1>0. max \in Nat /\ s # << >>
  BY DEF CanTakeIdle
<1>1. Sound(L, max) /\ s \in Seq(Entries(max)) /\ Ordered(s)
  BY <1>0, GoodSound DEF Sound
<1>2. /\ m \in Nat \ {0} /\ r \in Seq(Entries(max)) /\ Len(r) = m - 1
      /\ \A k \in 1..(m - 1) : r[k] = s[k]
  BY <1>0, <1>1, FrontFacts
<1>3. DOMAIN s = 1..m /\ DOMAIN r = 1..(m - 1)
  BY <1>1, <1>2, LenProperties
<1>4. s[m].n = 0 /\ IdleOne(L) = s[m].t
  BY DEF CanTakeIdle, IdleOne, Last
<1>5. PICK p \in 1..(m + 1) : FirstFree(s, max, p) /\ L.nextT = TAt(s, p)
  BY DEF Good
<1> HIDE DEF s, m, r
<1>6. \A j, k \in 1..m : j < k => s[j].n >= s[k].n /\ s[j].t # s[k].t
  BY <1>1 DEF Ordered, m
<1>7. Ordered(r)
  <2>1. \A j \in 1..(m - 1) : j \in 1..m /\ r[j] = s[j]
    BY <1>2
  <2>2. QED BY <1>2, <1>6, <2>1 DEF Ordered
<1>8. /\ \A j \in 1..(p - 1) : s[j].n = max
      /\ p \in 1..m => s[p].n < max
      /\ p \in 1..m
  <2>1. (\A j \in 1..(p - 1) : s[j].n = max) /\ (p \in 1..m => s[p].n < max)
    BY <1>5 DEF FirstFree, m
  <2>2. p # m + 1
    BY <1>2, <1>4, <2>1
  <2>3. QED BY <1>2, <1>5, <2>1, <2>2
<1>9. FirstFree(r, max, p)
  <2>1. \A j \in 1..(p - 1) : r[j] = s[j]
    BY <1>2, <1>8
  <2>2. p \in 1..(m - 1) => r[p] = s[p]
    BY <1>2
  <2>3. QED BY <1>2, <1>8, <2>1, <2>2 DEF FirstFree
<1>10. M.nextT = TAt(r, p)
  <2>1. L.nextT = s[p].t
    BY <1>3, <1>5, <1>8 DEF TAt
  <2>2. M.nextT = IF L.nextT = s[m].t THEN NoT ELSE L.nextT
    BY <1>4 DEF AfterTakeIdle
  <2>3. CASE p = m
    <3>1. p \notin DOMAIN r
      BY <1>2, <1>3, <2>3
    <3>2. QED BY <2>1, <2>2, <2>3, <3>1 DEF TAt
  <2>4. CASE p # m
    <3>1. p \in 1..(m - 1) /\ p < m /\ m \in 1..m
      BY <1>2, <1>8, <2>4
    <3>2. s[p].t # s[m].t /\ r[p] = s[p]
      BY <1>2, <1>6, <1>8, <3>1
    <3>3. QED BY <1>3, <2>1, <2>2, <3>1, <3>2 DEF TAt
  <2>5. QED BY <2>3, <2>4
<1>11. M = [items |-> r, nextT |-> M.nextT]
  BY DEF AfterTakeIdle, r, s
<1>12. Good(M, max)
  <2>1. Good([items |-> r, nextT |-> M.nextT], max)
    BY <1>0, <1>2, <1>7, <1>9, <1>10, GoodBy
  <2>2. QED BY <1>11, <2>1
<1>13. Sound(M, max)
  BY <1>0, <1>12, GoodSound
<1>14. M.items = r /\ L.items = s
  BY DEF AfterTakeIdle, r, s
<1> HIDE DEF M
<1>15. ASSUME NEW u \in Members(M)
       PROVE  u \in Members(L) /\ u # IdleOne(L) /\ LoadIn(M, u) = LoadIn(L, u)
  <2> DEFINE k == PosOf(M, u)
  <2>1. k \in 1..(m - 1) /\ r[k].t = u /\ r[k].n = LoadIn(M, u)
    BY <1>0, <1>2, <1>13, <1>14, PosFacts DEF LoadIn
  <2> HIDE DEF k
  <2>2. k \in 1..m /\ m \in 1..m /\ k < m /\ s[k].t = u /\ s[k].n = LoadIn(M, u)
    BY <1>2, <2>1
  <2>3. s[k] \in Loaded(L.items)
    BY <1>14, <2>2 DEF Loaded, m
  <2>4. u \in Members(L) /\ LoadIn(L, u) = LoadIn(M, u)
    BY <1>0, <1>1, <2>2, <2>3, LookupFacts
  <2>5. QED BY <1>4, <1>6, <2>2, <2>4
<1>16. ASSUME NEW u \in Members(L), u # IdleOne(L) PROVE u \in Members(M)
  <2> DEFINE k == PosOf(L, u)
  <2>1. k \in 1..m /\ s[k].t = u
    BY <1>0, <1>1, <1>14, PosFacts DEF m
  <2> HIDE DEF k
  <2>2. k \in 1..(m - 1)
    BY <1>2, <1>4, <1>16, <2>1
  <2>3. QED BY <1>2, <1>3, <1>14, <2>1, <2>2 DEF Members
<1>17. QED BY <1>12, <1>15, <1>16 DEF M
=============================================================================
