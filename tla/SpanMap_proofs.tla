--------------------------- MODULE SpanMap_proofs ---------------------------
(* Proofs about SpanMap for every map, every path and every length.         *)
EXTENDS SpanMap, TLAPS, SequenceTheorems, WellFoundedInduction, NaturalsInduction

-----------------------------------------------------------------------------
(* Paths: two of them are nested or ordered, and never both.                *)

LEMMA AncestorTransitive ==
    ASSUME NEW p \in Seq(Nat), NEW q \in Seq(Nat), NEW r \in Seq(Nat),
           IsAncestor(p, q), IsAncestor(q, r)
    PROVE  IsAncestor(p, r)
BY DEF IsAncestor

LEMMA Exclusive ==
    ASSUME NEW p \in Seq(Nat), NEW q \in Seq(Nat), Precedes(p, q)
    PROVE  ~IsAncestor(p, q) /\ ~IsAncestor(q, p)
BY DEF IsAncestor, Precedes

LEMMA PrecedesTransitive ==
    ASSUME NEW p \in Seq(Nat), NEW q \in Seq(Nat), NEW r \in Seq(Nat),
           Precedes(p, q), Precedes(q, r)
    PROVE  Precedes(p, r)
<1>1. PICK i \in 1..Len(p) : i <= Len(q) /\ p[i] < q[i] /\ \A j \in 1..(i - 1) : p[j] = q[j]
  BY DEF Precedes
<1>2. PICK k \in 1..Len(q) : k <= Len(r) /\ q[k] < r[k] /\ \A j \in 1..(k - 1) : q[j] = r[j]
  BY DEF Precedes
<1>3. CASE i < k
  <2>1. i <= Len(r) /\ p[i] < r[i]
    BY <1>1, <1>2, <1>3
  <2>2. \A j \in 1..(i - 1) : p[j] = r[j]
    BY <1>1, <1>2, <1>3
  <2> QED BY <2>1, <2>2, <1>1 DEF Precedes
<1>4. CASE i = k
  <2>1. i <= Len(r) /\ p[i] < r[i]
    BY <1>1, <1>2, <1>4
  <2>2. \A j \in 1..(i - 1) : p[j] = r[j]
    BY <1>1, <1>2, <1>4
  <2> QED BY <2>1, <2>2, <1>1 DEF Precedes
<1>5. CASE k < i
  <2>1. k \in 1..Len(p) /\ k <= Len(r) /\ p[k] < r[k]
    BY <1>1, <1>2, <1>5
  <2>2. \A j \in 1..(k - 1) : p[j] = r[j]
    BY <1>1, <1>2, <1>5
  <2> QED BY <2>1, <2>2 DEF Precedes
<1> QED BY <1>1, <1>2, <1>3, <1>4, <1>5

LEMMA Trichotomy ==
    ASSUME NEW p \in Seq(Nat), NEW q \in Seq(Nat)
    PROVE  IsAncestor(p, q) \/ IsAncestor(q, p) \/ Precedes(p, q) \/ Precedes(q, p)
<1> SUFFICES ASSUME ~IsAncestor(p, q), ~IsAncestor(q, p)
             PROVE  Precedes(p, q) \/ Precedes(q, p)
  OBVIOUS
<1> DEFINE Differ == {i \in Nat : i \in 1..Len(p) /\ i <= Len(q) /\ p[i] # q[i]}
<1>0. Len(p) \in Nat /\ Len(q) \in Nat
  OBVIOUS
<1>1. Differ # {} /\ Differ \subseteq Nat
  <2>1. CASE Len(p) <= Len(q)
    <3>1. PICK i \in 1..Len(p) : p[i] # q[i]
      BY <2>1 DEF IsAncestor
    <3>2. i \in Differ
      BY <1>0, <2>1, <3>1
    <3> QED BY <3>2
  <2>2. CASE Len(q) < Len(p)
    <3>1. PICK i \in 1..Len(q) : p[i] # q[i]
      BY <1>0, <2>2 DEF IsAncestor
    <3>2. i \in Differ
      BY <1>0, <2>2, <3>1
    <3> QED BY <3>2
  <2> QED BY <1>0, <2>1, <2>2
<1>2. PICK i \in Differ : \A j \in Differ : ~(<<j, i>> \in OpToRel(<, Nat))
  <2> HIDE DEF Differ
  <2> QED BY <1>1, WFMin, NatLessThanWellFounded, Zenon
<1>i. i \in Nat /\ i \in 1..Len(p) /\ i <= Len(q) /\ p[i] # q[i] /\ p[i] \in Nat /\ q[i] \in Nat
  BY <1>0
<1>3. ASSUME NEW j \in 1..(i - 1) PROVE p[j] = q[j]
  <2>1. j \in Nat /\ j < i /\ j \in 1..Len(p) /\ j <= Len(q)
    BY <1>0, <1>i
  <2>2. <<j, i>> \in OpToRel(<, Nat)
    BY <2>1, <1>i DEF OpToRel
  <2>3. j \notin Differ
    BY <2>2, <1>2, Zenon
  <2> QED BY <2>1, <2>3
<1>4. CASE p[i] < q[i]
  BY <1>i, <1>3, <1>4 DEF Precedes
<1>5. CASE q[i] < p[i]
  <2>1. i \in 1..Len(q) /\ i <= Len(p)
    BY <1>0, <1>i
  <2> QED BY <2>1, <1>3, <1>5 DEF Precedes
<1> QED BY <1>i, <1>4, <1>5

-----------------------------------------------------------------------------
(* Seen from the edited leaf, every other Block contains it, comes before   *)
(* it or comes after it, and BufferedEdit treats it accordingly.            *)

Mapped(m) == DOMAIN m \subseteq Seq(Nat) /\ m \in [DOMAIN m -> Region]

LEMMA Sides ==
    ASSUME NEW m, NEW e, NEW new \in Nat, Mapped(m), Coherent(m), Focusable(m, e),
           NEW q \in DOMAIN m, q # e
    PROVE  LET old == m[e]
               m2  == BufferedEdit(m, e, new) IN
           \/ /\ IsAncestor(q, e)
              /\ m[q].start < old.start /\ old.end <= m[q].end
              /\ m2[q].start = m[q].start /\ m2[q].end = Shift(m[q].end, old, new)
           \/ /\ Precedes(q, e)
              /\ m[q].start < old.start /\ m[q].end <= old.start
              /\ m2[q].start = m[q].start /\ m2[q].end = m[q].end
           \/ /\ Precedes(e, q)
              /\ old.end <= m[q].start
              /\ m2[q].start = Shift(m[q].start, old, new)
              /\ m2[q].end = Shift(m[q].end, old, new)
<1> DEFINE old == m[e]
           m2  == BufferedEdit(m, e, new)
<1>1. e \in DOMAIN m /\ e \in Seq(Nat) /\ q \in Seq(Nat) /\ m[q] \in Region /\ old \in Region
  BY DEF Mapped, Focusable
<1>2. m[q].start <= m[q].end /\ old.start <= old.end
  BY <1>1 DEF Coherent
<1>3. ~IsAncestor(e, q)
  BY DEF Focusable, IsLeaf
<1>4. CASE IsAncestor(q, e)
  <2>1. m[q].start < old.start /\ old.end <= m[q].end
    BY <1>1, <1>4 DEF Focusable, Coherent
  <2>2. m2[q] = [m[q] EXCEPT !.end = Shift(@, old, new)]
    BY <1>1, <1>2, <1>4, <2>1 DEF BufferedEdit, Region
  <2> QED BY <1>1, <1>4, <2>1, <2>2 DEF Region
<1>5. CASE Precedes(q, e)
  <2>1. ~IsAncestor(q, e)
    BY <1>1, <1>5, Exclusive
  <2>2. m[q].start < old.start /\ m[q].end <= old.start
    BY <1>1, <1>5 DEF Focusable, Coherent
  <2>3. m2[q] = m[q]
    BY <1>1, <1>2, <2>1, <2>2 DEF BufferedEdit, Region
  <2> QED BY <1>5, <2>2, <2>3
<1>6. CASE Precedes(e, q)
  <2>1. old.end <= m[q].start
    BY <1>1, <1>6 DEF Coherent
  <2>2. m2[q] = [start |-> Shift(m[q].start, old, new), end |-> Shift(m[q].end, old, new)]
    BY <1>1, <2>1 DEF BufferedEdit, Region
  <2> QED BY <1>6, <2>1, <2>2
<1> QED BY <1>1, <1>3, <1>4, <1>5, <1>6, Trichotomy

LEMMA EditedLeaf ==
    ASSUME NEW m, NEW e, NEW new \in Nat, Mapped(m), Coherent(m), Focusable(m, e)
    PROVE  /\ m[e] \in Region /\ m[e].start <= m[e].end
           /\ BufferedEdit(m, e, new)[e] = [start |-> m[e].start, end |-> m[e].start + new]
<1>1. e \in DOMAIN m /\ m[e] \in Region /\ m[e].start <= m[e].end
  BY DEF Mapped, Focusable, Coherent
<1>2. BufferedEdit(m, e, new)[e] = [m[e] EXCEPT !.end = Shift(@, m[e], new)]
  BY <1>1 DEF BufferedEdit
<1> QED BY <1>1, <1>2 DEF Shift, Region

-----------------------------------------------------------------------------
(* apply_buffered_edit: however long the text typed into the focused leaf   *)
(* is, the map keeps every child inside its parent and every two Blocks     *)
(* apart, and the leaf may be typed into again (spans.rs, ADR-008 2).       *)

THEOREM BufferedEditKeepsCoherence ==
    ASSUME NEW m, NEW e, NEW new \in Nat, Mapped(m), Coherent(m), Focusable(m, e)
    PROVE  LET m2 == BufferedEdit(m, e, new) IN
           Mapped(m2) /\ Coherent(m2) /\ Focusable(m2, e)
<1> DEFINE old == m[e]
           m2  == BufferedEdit(m, e, new)
<1>1. DOMAIN m2 = DOMAIN m /\ DOMAIN m \subseteq Seq(Nat) /\ e \in DOMAIN m
  BY DEF BufferedEdit, Mapped, Focusable
<1>2. /\ old.start \in Nat /\ old.end \in Nat /\ old.start <= old.end
      /\ m2[e] = [start |-> old.start, end |-> old.start + new]
      /\ m2[e].start = old.start /\ m2[e].end = old.start + new
  BY EditedLeaf DEF Region
<1>3. \A q \in DOMAIN m : m[q].start \in Nat /\ m[q].end \in Nat /\ m[q].start <= m[q].end
  BY DEF Mapped, Coherent, Region
<1> DEFINE Around(q) == /\ IsAncestor(q, e)
                        /\ m[q].start < old.start /\ old.end <= m[q].end
                        /\ m2[q].start = m[q].start /\ m2[q].end = Shift(m[q].end, old, new)
           Before(q) == /\ Precedes(q, e)
                        /\ m[q].start < old.start /\ m[q].end <= old.start
                        /\ m2[q].start = m[q].start /\ m2[q].end = m[q].end
           After(q)  == /\ Precedes(e, q)
                        /\ old.end <= m[q].start
                        /\ m2[q].start = Shift(m[q].start, old, new)
                        /\ m2[q].end = Shift(m[q].end, old, new)
<1>4. \A q \in DOMAIN m \ {e} : Around(q) \/ Before(q) \/ After(q)
  <2> TAKE q \in DOMAIN m \ {e}
  <2> QED BY Sides
<1>R. \A q \in DOMAIN m : m2[q] = [start |-> m2[q].start, end |-> m2[q].end]
  BY DEF BufferedEdit, Mapped, Region
<1> HIDE DEF m2
<1>5. ASSUME NEW q \in DOMAIN m
      PROVE  m2[q].start \in Nat /\ m2[q].end \in Nat /\ m2[q].start <= m2[q].end
  <2>1. CASE q = e
    BY <2>1, <1>2
  <2>2. CASE q # e
    BY <2>2, <1>2, <1>3, <1>4 DEF Shift
  <2> QED BY <2>1, <2>2
<1>6. Mapped(m2)
  <2>1. m2 = [q \in DOMAIN m2 |-> m2[q]]
    BY DEF m2, BufferedEdit
  <2>2. ASSUME NEW q \in DOMAIN m PROVE m2[q] \in Region
    <3>1. m2[q].start \in Nat /\ m2[q].end \in Nat
      BY <1>5
    <3>2. m2[q] = [start |-> m2[q].start, end |-> m2[q].end]
      BY <1>R
    <3> QED BY <3>1, <3>2 DEF Region
  <2> QED BY <1>1, <2>1, <2>2 DEF Mapped
<1>7. ASSUME NEW p \in DOMAIN m, NEW q \in DOMAIN m, IsAncestor(p, q)
      PROVE  m2[p].start <= m2[q].start /\ m2[q].end <= m2[p].end
  <2>1. m[p].start <= m[q].start /\ m[q].end <= m[p].end
    BY <1>7 DEF Coherent
  <2>2. CASE p = e
    <3>1. q = e
      BY <2>2, <1>7 DEF Focusable, IsLeaf
    <3> QED BY <3>1, <2>2, <1>2, <1>5
  <2>3. CASE p # e /\ q = e
    <3>1. Around(p)
      BY <2>3, <1>1, <1>4, <1>7, Exclusive
    <3> QED BY <3>1, <2>3, <1>2, <1>3 DEF Shift
  <2>4. CASE p # e /\ q # e
    <3>1. CASE Around(p)
      BY <3>1, <2>1, <2>4, <1>2, <1>3, <1>4 DEF Shift
    <3>2. CASE Before(p)
      <4>1. ~Around(q)
        BY <3>2, <1>1, <1>7, AncestorTransitive, Exclusive
      <4>2. ~After(q)
        BY <3>2, <1>1, <1>7, PrecedesTransitive, Exclusive
      <4> QED BY <4>1, <4>2, <3>2, <2>1, <2>4, <1>4
    <3>3. CASE After(p)
      <4>1. After(q)
        BY <3>3, <2>1, <2>4, <1>2, <1>3, <1>4
      <4> QED BY <4>1, <3>3, <2>1, <1>2, <1>3 DEF Shift
    <3> QED BY <3>1, <3>2, <3>3, <2>4, <1>4
  <2> QED BY <2>2, <2>3, <2>4
<1>8. ASSUME NEW p \in DOMAIN m, NEW q \in DOMAIN m, Precedes(p, q)
      PROVE  m2[p].end <= m2[q].start
  <2>1. m[p].end <= m[q].start
    BY <1>8 DEF Coherent
  <2>0. p # q
    BY <1>1, <1>8, Exclusive DEF IsAncestor
  <2>2. CASE p = e
    BY <2>0, <2>1, <2>2, <1>2, <1>3, <1>4 DEF Shift
  <2>3. CASE p # e /\ q = e
    <3>1. ~Around(p)
      BY <2>3, <1>1, <1>8, Exclusive
    <3>2. ~After(p)
      BY <2>1, <2>3, <1>1, <1>8, PrecedesTransitive, Exclusive DEF IsAncestor
    <3> QED BY <3>1, <3>2, <2>3, <1>2, <1>4
  <2>4. CASE p # e /\ q # e
    <3>1. CASE Around(p)
      <4>1. After(q)
        BY <3>1, <2>1, <2>4, <1>2, <1>3, <1>4
      <4> QED BY <4>1, <3>1, <2>1, <1>2, <1>3 DEF Shift
    <3>2. CASE Before(p)
      BY <3>2, <2>1, <2>4, <1>2, <1>3, <1>4 DEF Shift
    <3>3. CASE After(p)
      <4>1. After(q)
        BY <3>3, <2>1, <2>4, <1>2, <1>3, <1>4
      <4> QED BY <4>1, <3>3, <2>1, <1>2, <1>3 DEF Shift
    <3> QED BY <3>1, <3>2, <3>3, <2>4, <1>4
  <2> QED BY <2>2, <2>3, <2>4
<1>9. Coherent(m2)
  BY <1>1, <1>5, <1>7, <1>8 DEF Coherent
<1>10. Focusable(m2, e)
  <2>1. IsLeaf(m2, e)
    BY <1>1 DEF Focusable, IsLeaf
  <2>2. ASSUME NEW q \in DOMAIN m \ {e}, IsAncestor(q, e) \/ Precedes(q, e)
        PROVE  m2[q].start < m2[e].start
    <3>1. m[q].start < old.start
      BY <2>2 DEF Focusable
    <3> QED BY <3>1, <1>2, <1>3, <1>4
  <2> QED BY <2>1, <2>2, <1>1 DEF Focusable
<1> QED BY <1>6, <1>9, <1>10 DEF m2

-----------------------------------------------------------------------------
(* What a splice leaves where.                                              *)

LEMMA Cut ==
    ASSUME NEW S, NEW s \in Seq(S), NEW a \in Nat, NEW n \in Nat, a + n <= Len(s)
    PROVE  /\ SubSeq(s, a + 1, a + n) \in Seq(S)
           /\ Len(SubSeq(s, a + 1, a + n)) = n
           /\ \A i \in 1..n : SubSeq(s, a + 1, a + n)[i] = s[a + i]
<1>1. \A i \in (a + 1)..(a + n) : s[i] \in S
  BY ElementOfSeq
<1>2. \A i \in 1..n : (a + 1) + i - 1 = a + i
  OBVIOUS
<1>3. (a + n) - (a + 1) + 1 = n /\ (a + 1 <= a + n <=> n # 0)
  OBVIOUS
<1> DEFINE cut == SubSeq(s, a + 1, a + n)
<1>4. /\ cut \in Seq(S)
      /\ Len(cut) = IF a + 1 <= a + n THEN (a + n) - (a + 1) + 1 ELSE 0
      /\ \A i \in 1..((a + n) - (a + 1) + 1) : cut[i] = s[(a + 1) + i - 1]
  BY <1>1, SubSeqProperties
<1> HIDE DEF cut
<1>5. Len(cut) = n /\ \A i \in 1..n : cut[i] = s[a + i]
  BY <1>2, <1>3, <1>4
<1> QED BY <1>4, <1>5 DEF cut

LEMMA Joined ==
    ASSUME NEW S, NEW s \in Seq(S), NEW t \in Seq(S)
    PROVE  /\ s \o t \in Seq(S)
           /\ Len(s \o t) = Len(s) + Len(t)
           /\ \A i \in 1..Len(s) : (s \o t)[i] = s[i]
           /\ \A i \in 1..Len(t) : (s \o t)[Len(s) + i] = t[i]
<1>1. Len(s) \in Nat /\ Len(t) \in Nat
  BY LenProperties
<1> DEFINE both == s \o t
<1>2. /\ both \in Seq(S) /\ Len(both) = Len(s) + Len(t)
      /\ \A i \in 1..(Len(s) + Len(t)) :
            both[i] = IF i <= Len(s) THEN s[i] ELSE t[i - Len(s)]
  BY ConcatProperties
<1> HIDE DEF both
<1>3. \A i \in 1..Len(s) : both[i] = s[i]
  BY <1>1, <1>2
<1>4. ASSUME NEW i \in 1..Len(t) PROVE both[Len(s) + i] = t[i]
  <2>1. Len(s) + i \in 1..(Len(s) + Len(t)) /\ ~(Len(s) + i <= Len(s))
        /\ (Len(s) + i) - Len(s) = i
    BY <1>1
  <2> QED BY <1>2, <2>1
<1> QED BY <1>2, <1>3, <1>4 DEF both

LEMMA ThreeParts ==
    ASSUME NEW S, NEW h \in Seq(S), NEW t \in Seq(S), NEW u \in Seq(S),
           NEW all, all = (h \o t) \o u
    PROVE  /\ all \in Seq(S)
           /\ Len(all) = (Len(h) + Len(t)) + Len(u)
           /\ \A i \in 1..Len(h) : all[i] = h[i]
           /\ \A i \in 1..Len(t) : all[Len(h) + i] = t[i]
           /\ \A i \in 1..Len(u) : all[(Len(h) + Len(t)) + i] = u[i]
<1> DEFINE left == h \o t
<1>0. left = h \o t /\ all = left \o u
  OBVIOUS
<1> HIDE DEF left
<1>1. /\ left \in Seq(S)
      /\ Len(left) = Len(h) + Len(t)
      /\ \A i \in 1..Len(h) : left[i] = h[i]
      /\ \A i \in 1..Len(t) : left[Len(h) + i] = t[i]
  BY ONLY <1>0, h \in Seq(S), t \in Seq(S), Joined
<1>2. /\ all \in Seq(S)
      /\ Len(all) = Len(left) + Len(u)
      /\ \A i \in 1..Len(left) : all[i] = left[i]
      /\ \A i \in 1..Len(u) : all[Len(left) + i] = u[i]
  <2>1. left \in Seq(S)
    BY <1>1
  <2> QED BY ONLY <1>0, <2>1, u \in Seq(S), Joined
<1>3. Len(h) \in Nat /\ Len(t) \in Nat /\ Len(u) \in Nat
  BY LenProperties
<1>4. ASSUME NEW i \in 1..Len(h) PROVE all[i] = h[i]
  BY <1>1, <1>2, <1>3
<1>5. ASSUME NEW i \in 1..Len(t) PROVE all[Len(h) + i] = t[i]
  <2>1. Len(h) + i \in 1..(Len(h) + Len(t))
    BY <1>3
  <2> QED BY <2>1, <1>1, <1>2
<1> QED BY <1>1, <1>2, <1>4, <1>5

LEMMA SameSlice ==
    ASSUME NEW S, NEW s \in Seq(S), NEW t \in Seq(S), NEW a \in Nat, NEW b \in Nat, NEW n \in Nat,
           a + n <= Len(s), b + n <= Len(t), \A i \in 1..n : s[a + i] = t[b + i]
    PROVE  SubSeq(s, a + 1, a + n) = SubSeq(t, b + 1, b + n)
<1> DEFINE x == SubSeq(s, a + 1, a + n)
           y == SubSeq(t, b + 1, b + n)
<1>1. x \in Seq(S) /\ Len(x) = n /\ \A i \in 1..n : x[i] = s[a + i]
  BY Cut
<1>2. y \in Seq(S) /\ Len(y) = n /\ \A i \in 1..n : y[i] = t[b + i]
  BY Cut
<1> HIDE DEF x, y
<1>3. x = y
  BY <1>1, <1>2, SeqEqual
<1> QED BY <1>3 DEF x, y

\* s2 is source with text in place of what lay between lo and hi.
Spliced(source, text, lo, hi, s2) ==
    /\ Len(s2) = (Len(source) + Len(text)) - (hi - lo)
    /\ SubSeq(s2, lo + 1, lo + Len(text)) = text
    /\ \A x, y \in Nat : x <= y /\ y <= lo =>
          SubSeq(s2, x + 1, y) = SubSeq(source, x + 1, y)
    /\ \A x, y \in Nat : hi <= x /\ x <= y /\ y <= Len(source) =>
          SubSeq(s2, ((x + Len(text)) - (hi - lo)) + 1, (y + Len(text)) - (hi - lo))
             = SubSeq(source, x + 1, y)

LEMMA SpliceSlices ==
    ASSUME NEW S, NEW source \in Seq(S), NEW text \in Seq(S), NEW lo \in Nat, NEW hi \in Nat,
           lo <= hi, hi <= Len(source), NEW s2,
           s2 = SubSeq(source, 1, lo) \o text \o SubSeq(source, hi + 1, Len(source))
    PROVE  Spliced(source, text, lo, hi, s2)
<1>0. Len(source) \in Nat /\ Len(text) \in Nat
  BY LenProperties
<1>2. PICK b \in Nat : Len(text) = b
  BY <1>0
<1>1. PICK c \in Nat : Len(source) = hi + c
  <2>1. Len(source) - hi \in Nat /\ Len(source) = hi + (Len(source) - hi)
    BY <1>0
  <2> QED BY <2>1, Zenon
<1>c. lo <= hi /\ lo <= Len(source) /\ hi + c <= Len(source)
  BY <1>1
<1> DEFINE h == SubSeq(source, 0 + 1, 0 + lo)
           u == SubSeq(source, hi + 1, hi + c)
<1>H. h \in Seq(S) /\ Len(h) = lo /\ \A i \in 1..lo : h[i] = source[0 + i]
  <2>1. 0 \in Nat /\ 0 + lo <= Len(source)
    BY <1>c
  <2> QED BY ONLY <2>1, source \in Seq(S), lo \in Nat, Cut
<1>U. u \in Seq(S) /\ Len(u) = c /\ \A i \in 1..c : u[i] = source[hi + i]
  BY ONLY <1>c, source \in Seq(S), hi \in Nat, c \in Nat, Cut
<1>S. s2 = (h \o text) \o u
  <2>1. 0 + 1 = 1 /\ 0 + lo = lo
    OBVIOUS
  <2> QED BY <2>1, <1>1
<1> HIDE DEF h, u
<1>m. h \in Seq(S) /\ text \in Seq(S) /\ u \in Seq(S)
  BY <1>H, <1>U
<1>l. Len(h) = lo /\ Len(text) = b /\ Len(u) = c
  BY <1>H, <1>U, <1>2
<1>h. \A i \in 1..lo : h[i] = source[0 + i]
  BY <1>H
<1>u. \A i \in 1..c : u[i] = source[hi + i]
  BY <1>U
<1>T. /\ s2 \in Seq(S)
      /\ Len(s2) = (Len(h) + Len(text)) + Len(u)
      /\ \A i \in 1..Len(h) : s2[i] = h[i]
      /\ \A i \in 1..Len(text) : s2[Len(h) + i] = text[i]
      /\ \A i \in 1..Len(u) : s2[(Len(h) + Len(text)) + i] = u[i]
  BY ONLY <1>S, <1>m, ThreeParts
<1>s. s2 \in Seq(S)
  BY <1>T
<1>4. Len(s2) = (lo + b) + c /\ s2 \in Seq(S)
  BY ONLY <1>T, <1>l
<1>t. \A i \in 1..b : s2[lo + i] = text[i]
  BY ONLY <1>T, <1>l
<1>v. ASSUME NEW i \in 1..lo PROVE s2[i] = source[i]
  <2>1. 0 + i = i
    OBVIOUS
  <2>2. s2[i] = h[i]
    BY ONLY <1>T, <1>l, i \in 1..lo
  <2>3. h[i] = source[0 + i]
    BY <1>h
  <2> QED BY ONLY <2>1, <2>2, <2>3
<1>w. ASSUME NEW i \in 1..c PROVE s2[(lo + b) + i] = source[hi + i]
  <2>1. s2[(lo + b) + i] = u[i]
    BY ONLY <1>T, <1>l, i \in 1..c
  <2>2. u[i] = source[hi + i]
    BY <1>u
  <2> QED BY ONLY <2>1, <2>2
<1>5. SubSeq(s2, lo + 1, lo + b) = text
  <2>1. 0 \in Nat /\ lo + b <= Len(s2) /\ 0 + b <= Len(text)
    BY ONLY <1>4, <1>2, lo \in Nat, b \in Nat, c \in Nat
  <2>2. \A i \in 1..b : s2[lo + i] = text[0 + i]
    <3> TAKE i \in 1..b
    <3>1. 0 + i = i
      OBVIOUS
    <3> QED BY <3>1, <1>t
  <2>3. SubSeq(s2, lo + 1, lo + b) = SubSeq(text, 0 + 1, 0 + b)
    BY ONLY <2>1, <2>2, <1>4, text \in Seq(S), lo \in Nat, b \in Nat, SameSlice
  <2> DEFINE all == SubSeq(text, 0 + 1, 0 + b)
  <2>4. all \in Seq(S) /\ Len(all) = b /\ \A i \in 1..b : all[i] = text[0 + i]
    BY ONLY <2>1, text \in Seq(S), b \in Nat, Cut
  <2>5. all \in Seq(S) /\ Len(all) = Len(text)
    BY ONLY <2>4, <1>2
  <2> HIDE DEF all
  <2>6. \A i \in 1..Len(all) : all[i] = text[i]
    <3> TAKE i \in 1..Len(all)
    <3>1. 0 + i = i /\ i \in 1..b
      BY <2>4
    <3> QED BY ONLY <3>1, <2>4
  <2>7. all = text
    BY ONLY <2>5, <2>6, text \in Seq(S), SeqEqual
  <2> QED BY ONLY <2>3, <2>7 DEF all
<1>6. ASSUME NEW x \in Nat, NEW y \in Nat, x <= y, y <= lo
      PROVE  SubSeq(s2, x + 1, y) = SubSeq(source, x + 1, y)
  <2>1. PICK n \in Nat : y = x + n
    <3>1. y - x \in Nat /\ y = x + (y - x)
      BY <1>6
    <3> QED BY <3>1
  <2>2. x + n <= Len(s2) /\ x + n <= Len(source)
    BY ONLY <2>1, <1>6, <1>4, <1>1, lo \in Nat, hi \in Nat, <1>c, b \in Nat, c \in Nat,
            x \in Nat, n \in Nat
  <2>3. ASSUME NEW i \in 1..n PROVE s2[x + i] = source[x + i]
    <3>1. x + i \in 1..lo
      BY ONLY <2>1, <1>6, x \in Nat, n \in Nat, lo \in Nat, i \in 1..n
    <3> QED BY ONLY <3>1, <1>v
  <2> DEFINE here  == SubSeq(s2, x + 1, x + n)
             there == SubSeq(source, x + 1, x + n)
  <2>4. here \in Seq(S) /\ Len(here) = n /\ \A i \in 1..n : here[i] = s2[x + i]
    BY ONLY <2>2, <1>s, x \in Nat, n \in Nat, Cut
  <2>5. there \in Seq(S) /\ Len(there) = n /\ \A i \in 1..n : there[i] = source[x + i]
    BY ONLY <2>2, source \in Seq(S), x \in Nat, n \in Nat, Cut
  <2> HIDE DEF here, there
  <2>6. here = there
    BY ONLY <2>3, <2>4, <2>5, SeqEqual
  <2> QED BY ONLY <2>1, <2>6 DEF here, there
<1>7. ASSUME NEW x \in Nat, NEW y \in Nat, hi <= x, x <= y, y <= Len(source)
      PROVE  SubSeq(s2, ((x + b) - (hi - lo)) + 1, (y + b) - (hi - lo)) = SubSeq(source, x + 1, y)
  <2>1. PICK k \in Nat : x = hi + k
    <3>1. x - hi \in Nat /\ x = hi + (x - hi)
      BY <1>7
    <3> QED BY <3>1
  <2>2. PICK n \in Nat : y = x + n
    <3>1. y - x \in Nat /\ y = x + (y - x)
      BY <1>7
    <3> QED BY <3>1
  <2>3. PICK a \in Nat : a = (lo + b) + k
    OBVIOUS
  <2>4. (x + b) - (hi - lo) = a /\ (y + b) - (hi - lo) = a + n
    BY ONLY <2>1, <2>2, <2>3, lo \in Nat, hi \in Nat, b \in Nat, k \in Nat, n \in Nat
  <2>5. k + n <= c /\ a + n <= Len(s2) /\ x + n <= Len(source)
    BY ONLY <2>1, <2>2, <2>3, <1>7, <1>4, <1>1, lo \in Nat, hi \in Nat, b \in Nat, c \in Nat,
            k \in Nat, n \in Nat
  <2>6. ASSUME NEW i \in 1..n PROVE s2[a + i] = source[x + i]
    <3>1. k + i \in 1..c /\ (lo + b) + (k + i) = a + i /\ hi + (k + i) = x + i
      BY ONLY <2>1, <2>3, <2>5, lo \in Nat, hi \in Nat, b \in Nat, c \in Nat, k \in Nat,
              n \in Nat, i \in 1..n
    <3>2. s2[(lo + b) + (k + i)] = source[hi + (k + i)]
      BY ONLY <3>1, <1>w
    <3> QED BY ONLY <3>1, <3>2
  <2> DEFINE here  == SubSeq(s2, a + 1, a + n)
             there == SubSeq(source, x + 1, x + n)
  <2>7. here \in Seq(S) /\ Len(here) = n /\ \A i \in 1..n : here[i] = s2[a + i]
    BY ONLY <2>5, <1>s, a \in Nat, n \in Nat, Cut
  <2>8. there \in Seq(S) /\ Len(there) = n /\ \A i \in 1..n : there[i] = source[x + i]
    BY ONLY <2>5, source \in Seq(S), x \in Nat, n \in Nat, Cut
  <2> HIDE DEF here, there
  <2>9. here = there
    BY ONLY <2>6, <2>7, <2>8, SeqEqual
  <2> QED BY ONLY <2>2, <2>4, <2>9 DEF here, there
<1>8. Len(s2) = ((hi + c) + b) - (hi - lo)
  BY ONLY <1>4, lo \in Nat, hi \in Nat, b \in Nat, c \in Nat
<1> QED BY ONLY <1>1, <1>2, <1>5, <1>6, <1>7, <1>8 DEF Spliced

(* A keystroke touches one Block: after update_block's splice the edited    *)
(* leaf holds exactly the text typed, every other leaf holds exactly the    *)
(* bytes it held, and no span reaches past the source.                      *)
THEOREM OnlyTheFieldChanges ==
    ASSUME NEW S, NEW source \in Seq(S), NEW text \in Seq(S), NEW m, NEW e,
           Mapped(m), Coherent(m), Focusable(m, e),
           \A p \in DOMAIN m : m[p].end <= Len(source)
    PROVE  LET m2 == BufferedEdit(m, e, Len(text))
               s2 == Splice(source, m[e], text) IN
           /\ Slice(s2, m2[e]) = text
           /\ \A q \in Leaves(m) \ {e} : Slice(s2, m2[q]) = Slice(source, m[q])
           /\ \A p \in DOMAIN m : m2[p].end <= Len(s2)
<1> DEFINE old == m[e]
           new == Len(text)
           m2  == BufferedEdit(m, e, new)
           s2  == Splice(source, old, text)
<1>L. Len(source) \in Nat /\ new \in Nat
  BY LenProperties
<1>e. e \in DOMAIN m /\ old.end <= Len(source)
  BY DEF Focusable
<1>R. /\ old \in Region /\ old.start <= old.end
      /\ m2[e] = [start |-> old.start, end |-> old.start + new]
  BY <1>L, EditedLeaf
<1>0. old.start \in Nat /\ old.end \in Nat
  BY ONLY <1>R DEF Region
<1>f. m2[e].start = old.start /\ m2[e].end = old.start + new
  BY ONLY <1>R
<1>3. \A q \in DOMAIN m : /\ m[q].start \in Nat /\ m[q].end \in Nat
                          /\ m[q].start <= m[q].end /\ m[q].end <= Len(source)
  BY DEF Mapped, Coherent, Region
<1> DEFINE Before(q) == /\ m[q].end <= old.start
                        /\ m2[q].start = m[q].start /\ m2[q].end = m[q].end
           After(q)  == /\ old.end <= m[q].start
                        /\ m2[q].start = Shift(m[q].start, old, new)
                        /\ m2[q].end = Shift(m[q].end, old, new)
           Around(q) == m2[q].end = Shift(m[q].end, old, new)
<1>4. \A q \in DOMAIN m \ {e} :
         \/ IsAncestor(q, e) /\ Around(q)
         \/ Before(q) \/ After(q)
  <2> TAKE q \in DOMAIN m \ {e}
  <2> QED BY <1>L, Sides
<1> HIDE DEF m2
<1>2. /\ Len(s2) = Shift(Len(source), old, new)
      /\ SubSeq(s2, old.start + 1, old.start + new) = text
      /\ \A x, y \in Nat : x <= y /\ y <= old.start =>
            SubSeq(s2, x + 1, y) = SubSeq(source, x + 1, y)
      /\ \A x, y \in Nat : old.end <= x /\ x <= y /\ y <= Len(source) =>
            SubSeq(s2, Shift(x, old, new) + 1, Shift(y, old, new)) = SubSeq(source, x + 1, y)
  <2>1. PICK lo \in Nat : lo = old.start
    BY <1>0
  <2>2. PICK hi \in Nat : hi = old.end
    BY <1>0
  <2>3. lo <= hi /\ hi <= Len(source)
    BY ONLY <2>1, <2>2, <1>e, <1>R
  <2>4. s2 = SubSeq(source, 1, lo) \o text \o SubSeq(source, hi + 1, Len(source))
    BY ONLY <2>1, <2>2 DEF s2, Splice
  <2>5. source \in Seq(S) /\ text \in Seq(S)
    OBVIOUS
  <2> HIDE DEF s2
  <2>6. Spliced(source, text, lo, hi, s2)
    BY ONLY <2>3, <2>4, <2>5, lo \in Nat, hi \in Nat, SpliceSlices
  <2> QED BY ONLY <2>1, <2>2, <2>6 DEF Shift, new, Spliced
<1> HIDE DEF s2
<1>5. Slice(s2, m2[e]) = text
  BY ONLY <1>2, <1>f DEF Slice
<1>6. ASSUME NEW q \in Leaves(m) \ {e}
      PROVE  Slice(s2, m2[q]) = Slice(source, m[q])
  <2>1. q \in DOMAIN m \ {e} /\ ~IsAncestor(q, e)
    BY <1>e DEF Leaves, IsLeaf
  <2>2. Before(q) \/ After(q)
    BY <2>1, <1>4
  <2>3. m[q].start \in Nat /\ m[q].end \in Nat /\ m[q].start <= m[q].end /\ m[q].end <= Len(source)
    BY <2>1, <1>3
  <2> QED BY ONLY <2>2, <2>3, <1>2 DEF Slice
<1>7. ASSUME NEW p \in DOMAIN m PROVE m2[p].end <= Len(s2)
  <2>1. m[p].start \in Nat /\ m[p].end \in Nat /\ m[p].end <= Len(source)
    BY <1>3
  <2>2. CASE p = e
    BY ONLY <2>2, <1>f, <1>0, <1>2, <1>L, <1>e, <1>R DEF Shift
  <2>3. CASE p # e
    <3>1. Around(p) \/ Before(p) \/ After(p)
      BY <2>3, <1>4
    <3>2. Len(s2) = Shift(Len(source), old, new)
      BY <1>2
    <3>3. old.start <= old.end
      BY <1>R
    <3> QED BY ONLY <3>1, <3>2, <3>3, <2>1, <1>0, <1>L, <1>e DEF Shift
  <2> QED BY <2>2, <2>3
<1> QED BY <1>5, <1>6, <1>7 DEF m2, s2, new
=============================================================================
